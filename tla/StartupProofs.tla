----------------------------- MODULE StartupProofs -----------------------------
(***************************************************************************)
(* How work starts on a node: the pool its tasks wait in (ThreadPool), for *)
(* any threads, tasks and capacity, and the set-up of the exchange a task  *)
(* begins with (UpperGather), for any number of uppers and lowers.         *)
(*                                                                         *)
(* The pool hands every task out once and in order, and loses no wakeup;   *)
(* a connect whose result is ignored is refused only where a socket call   *)
(* failed, and an upper whose own accepts succeed is ready with one column *)
(* per lower, whatever failed elsewhere.                                   *)
(***************************************************************************)
EXTENDS ThreadPool, UpperGather, SequenceTheorems, FiniteSetTheorems, TLAPS

-------------------------------------------------------------------------------
(* ThreadPool.                                                             *)

\* The type invariant and the lock discipline, together inductive: a worker
\* pops a task only because nobody changes the ring between its test and its
\* pop, and every pushed pointer is a task.
Base == PoolTypeOK /\ Discipline

LEMMA BaseInit == PoolInit => Base
<1> SUFFICES ASSUME PoolInit PROVE Base
  OBVIOUS
<1>1. PoolTypeOK
  BY PoolAssumption DEF PoolInit, PoolTypeOK, Nodes, Pointers, Threads
<1>2. Discipline
  BY PoolAssumption DEF PoolInit, Discipline, Threads, AtAdder, AtWorker, Holding
<1> QED BY <1>1, <1>2 DEF Base

LEMMA NextNode == \A k \in Nodes : next_(k) \in Nodes
BY PoolAssumption DEF next_, Nodes

LEMMA BaseAdd ==
    ASSUME Base, NEW a \in Adders, Add(a)
    PROVE  Base'
<1> USE PoolAssumption
<1>0. a \in Threads /\ a \notin Workers /\ a # Null
  BY DEF Threads
<1>1. CASE AddLock(a)
  <2>1. PoolTypeOK'
    BY <1>0, <1>1 DEF Base, PoolTypeOK, AddLock, Lock, ring, history, Pointers, Threads
  <2>2. Discipline'
    BY <1>0, <1>1 DEF Base, PoolTypeOK, AddLock, Lock, ring, history, Threads,
                     Discipline, AtAdder, AtWorker, Holding, empty
  <2> QED BY <2>1, <2>2 DEF Base
<1>2. CASE AddPush(a)
  <2>0. task[a] \in Tasks /\ rear_ \in Nodes /\ next_(rear_) \in Nodes /\ lock_ = a
    BY <1>0, <1>2, NextNode DEF Base, PoolTypeOK, Discipline, AddPush, Holding
  <2>1. PoolTypeOK'
    <3>1. pushed' \in Seq(Tasks)
      BY <1>2, <2>0, AppendProperties DEF Base, PoolTypeOK, AddPush, push
    <3> QED BY <1>0, <1>2, <2>0, <3>1 DEF Base, PoolTypeOK, AddPush, push, Pointers, Threads
  <2>2. Discipline'
    <3>1. \A w \in Workers : pc[w] # "pop"
      BY <1>0, <2>0 DEF Base, Discipline, Holding, Threads
    <3>2. CASE waiting = {} /\ UNCHANGED waiting /\ pc' = [pc EXCEPT ![a] = "unlock"]
      BY <1>0, <1>2, <2>0, <3>1, <3>2 DEF Base, PoolTypeOK, AddPush, Threads,
                     Discipline, AtAdder, AtWorker, Holding
    <3>3. ASSUME NEW w \in waiting, waiting' = waiting \ {w},
                 pc' = [pc EXCEPT ![a] = "unlock", ![w] = "wake"]
          PROVE  Discipline'
      <4>1. w \in Workers /\ w \in Threads /\ w # a /\ pc[w] = "wait"
        BY <1>0, <3>3 DEF Base, PoolTypeOK, Discipline, Threads
      <4> QED BY <1>0, <1>2, <2>0, <3>1, <3>3, <4>1 DEF Base, PoolTypeOK, AddPush, Threads,
                     Discipline, AtAdder, AtWorker, Holding
    <3> QED BY <1>2, <3>2, <3>3 DEF AddPush
  <2> QED BY <2>1, <2>2 DEF Base
<1>3. CASE AddUnlock(a)
  <2>1. PoolTypeOK'
    BY <1>0, <1>3 DEF Base, PoolTypeOK, AddUnlock, Unlock, ring, history, Pointers, Threads
  <2>2. Discipline'
    BY <1>0, <1>3 DEF Base, PoolTypeOK, AddUnlock, Unlock, ring, history, Threads,
                     Discipline, AtAdder, AtWorker, Holding, empty
  <2> QED BY <2>1, <2>2 DEF Base
<1> QED BY <1>1, <1>2, <1>3 DEF Add

LEMMA BaseWork ==
    ASSUME Base, NEW w \in Workers, WorkerLock(w) \/ Work(w) \/ SpuriousWakeup(w)
    PROVE  Base'
<1> USE PoolAssumption
<1>0. w \in Threads /\ w \notin Adders /\ w # Null
  BY DEF Threads
<1>1. CASE WorkerLock(w)
  <2>1. PoolTypeOK'
    BY <1>0, <1>1 DEF Base, PoolTypeOK, WorkerLock, Lock, ring, history, Threads
  <2>2. Discipline'
    BY <1>0, <1>1 DEF Base, PoolTypeOK, WorkerLock, Lock, ring, history, Threads,
                     Discipline, AtAdder, AtWorker, Holding, empty
  <2> QED BY <2>1, <2>2 DEF Base
<1>2. CASE WorkerWait(w)
  <2>1. PoolTypeOK'
    BY <1>0, <1>2 DEF Base, PoolTypeOK, WorkerWait, Unlock, ring, history, Threads
  <2>2. Discipline'
    BY <1>0, <1>2 DEF Base, PoolTypeOK, WorkerWait, Unlock, ring, history, Threads,
                     Discipline, AtAdder, AtWorker, Holding, empty
  <2> QED BY <2>1, <2>2 DEF Base
<1>3. CASE WorkerTest(w)
  <2>1. PoolTypeOK'
    BY <1>0, <1>3 DEF Base, PoolTypeOK, WorkerTest, ring, history, Threads
  <2>2. Discipline'
    BY <1>0, <1>3 DEF Base, PoolTypeOK, WorkerTest, ring, history, Threads,
                     Discipline, AtAdder, AtWorker, Holding, empty
  <2> QED BY <2>1, <2>2 DEF Base
<1>4. CASE WorkerPop(w)
  <2>0. /\ front_ \in Nodes /\ next_(front_) \in Nodes /\ node_[front_] \in Pointers
        /\ lock_ = w /\ ~empty
    BY <1>0, <1>4, NextNode DEF Base, PoolTypeOK, Discipline, WorkerPop, Holding
  <2>1. PoolTypeOK'
    <3>1. popped' \in Seq(Pointers)
      BY <1>4, <2>0, AppendProperties DEF Base, PoolTypeOK, WorkerPop, pop
    <3> QED BY <1>0, <1>4, <2>0, <3>1 DEF Base, PoolTypeOK, WorkerPop, pop, Threads
  <2>2. Discipline'
    BY <1>0, <1>4, <2>0 DEF Base, PoolTypeOK, WorkerPop, pop, Threads,
                     Discipline, AtAdder, AtWorker, Holding
  <2> QED BY <2>1, <2>2 DEF Base
<1>5. CASE WorkerUnlock(w)
  <2>1. PoolTypeOK'
    BY <1>0, <1>5 DEF Base, PoolTypeOK, WorkerUnlock, Unlock, ring, history, Threads
  <2>2. Discipline'
    BY <1>0, <1>5 DEF Base, PoolTypeOK, WorkerUnlock, Unlock, ring, history, Threads,
                     Discipline, AtAdder, AtWorker, Holding, empty
  <2> QED BY <2>1, <2>2 DEF Base
<1>6. CASE WorkerRun(w)
  <2>1. PoolTypeOK'
    BY <1>0, <1>6 DEF Base, PoolTypeOK, WorkerRun, ring, history, Threads, Pointers
  <2>2. Discipline'
    BY <1>0, <1>6 DEF Base, PoolTypeOK, WorkerRun, ring, history, Threads,
                     Discipline, AtAdder, AtWorker, Holding, empty
  <2> QED BY <2>1, <2>2 DEF Base
<1>7. CASE SpuriousWakeup(w)
  <2>1. PoolTypeOK'
    BY <1>0, <1>7 DEF Base, PoolTypeOK, SpuriousWakeup, ring, history, Threads
  <2>2. Discipline'
    BY <1>0, <1>7 DEF Base, PoolTypeOK, SpuriousWakeup, ring, history, Threads,
                     Discipline, AtAdder, AtWorker, Holding, empty
  <2> QED BY <2>1, <2>2 DEF Base
<1> QED BY <1>1, <1>2, <1>3, <1>4, <1>5, <1>6, <1>7 DEF Work

LEMMA BaseStep == Base /\ [PoolNext]_poolVars => Base'
<1> SUFFICES ASSUME Base, [PoolNext]_poolVars PROVE Base'
  OBVIOUS
<1>1. CASE UNCHANGED poolVars
  BY <1>1 DEF poolVars, ring, history, Base, PoolTypeOK, Discipline, empty
<1> QED BY <1>1, BaseAdd, BaseWork DEF PoolNext

\* Types are preserved; in particular front_ and rear_ never leave the ring.
THEOREM TypeCorrect == PoolSafety => []PoolTypeOK
<1>1. Base => PoolTypeOK
  BY DEF Base
<1> QED BY <1>1, BaseInit, BaseStep, PTL DEF PoolSafety

\* Mutual exclusion of the two routines, for any number of threads: only the
\* holder of lock_ is inside, and no worker pops an empty ring.
THEOREM Disciplined == PoolSafety => []Discipline
<1>1. Base => Discipline
  BY DEF Base
<1> QED BY <1>1, BaseInit, BaseStep, PTL DEF PoolSafety
-------------------------------------------------------------------------------
\* The number of tasks in the ring, however rear_ and front_ have wrapped: a
\* push on a ring that is not full adds one, a pop on one not empty takes one.
LEMMA CountPushPop ==
    ASSUME PoolTypeOK
    PROVE  /\ Count \in 0..Capacity
           /\ empty <=> Count = 0
           /\ ~full /\ rear_' = next_(rear_) /\ front_' = front_ => Count' = Count + 1
           /\ ~empty /\ front_' = next_(front_) /\ rear_' = rear_ => Count' = Count - 1
           /\ rear_' = rear_ /\ front_' = front_ => Count' = Count
BY PoolAssumption DEF PoolTypeOK, Nodes, Count, empty, full, next_

LEMMA FiniteLooking ==
    ASSUME NEW S \in SUBSET Workers
    PROVE  IsFiniteSet(S) /\ Cardinality(S) \in Nat
BY PoolAssumption, FS_Subset, FS_CardinalityType

\* A step of the pool that keeps NoLostWakeup: one per action.
LEMMA WakeupAdd ==
    ASSUME Base, NoLostWakeup, NEW a \in Adders, Add(a)
    PROVE  NoLostWakeup'
<1> USE PoolAssumption
<1>0. a \in Threads /\ a \notin Workers
  BY DEF Threads
<1>1. CASE AddLock(a) \/ AddUnlock(a)
  <2>1. Looking' = Looking
    BY <1>0, <1>1 DEF Looking, AddLock, AddUnlock, Lock, Unlock, Base, PoolTypeOK, Threads
  <2>2. waiting' = waiting /\ Count' = Count
    BY <1>1, CountPushPop DEF AddLock, AddUnlock, ring, Base
  <2> QED BY <2>1, <2>2 DEF NoLostWakeup
<1>2. CASE AddPush(a)
  <2>1. Count' = Count + 1 /\ Count \in Nat
    BY <1>2, CountPushPop DEF AddPush, push, Base
  <2>2. ASSUME NEW w \in waiting, waiting' = waiting \ {w},
               pc' = [pc EXCEPT ![a] = "unlock", ![w] = "wake"]
        PROVE  NoLostWakeup'
    <3>1. w \in Workers /\ w # a /\ pc[w] = "wait" /\ w \in Threads
      BY <1>0, <2>2 DEF Base, PoolTypeOK, Discipline, Threads
    <3>2. Looking' = Looking \cup {w} /\ w \notin Looking
      BY <1>0, <2>2, <3>1 DEF Looking, Base, PoolTypeOK, Threads
    <3>3. IsFiniteSet(Looking) /\ Cardinality(Looking) \in Nat
      BY FiniteLooking DEF Looking
    <3>4. Cardinality(Looking') = Cardinality(Looking) + 1
      BY <3>2, <3>3, FS_AddElement
    <3>5. Count <= Cardinality(Looking)
      BY <2>2 DEF NoLostWakeup
    <3> QED BY <2>1, <3>3, <3>4, <3>5 DEF NoLostWakeup
  <2>3. CASE waiting = {} /\ UNCHANGED waiting
    BY <2>3 DEF NoLostWakeup
  <2> QED BY <1>2, <2>2, <2>3 DEF AddPush
<1> QED BY <1>1, <1>2 DEF Add

LEMMA WakeupWork ==
    ASSUME Base, NoLostWakeup,
           NEW w \in Workers, WorkerLock(w) \/ Work(w) \/ SpuriousWakeup(w)
    PROVE  NoLostWakeup'
<1> USE PoolAssumption
<1>0. w \in Threads /\ IsFiniteSet(Looking) /\ Cardinality(Looking) \in Nat
  BY FiniteLooking DEF Threads, Looking
<1>1. CASE WorkerLock(w) \/ WorkerTest(w) \/ WorkerUnlock(w)
  <2>1. Looking' = Looking
    BY <1>0, <1>1 DEF Looking, WorkerLock, WorkerTest, WorkerUnlock, Lock, Unlock,
                     Base, PoolTypeOK, Threads
  <2>2. waiting' = waiting /\ Count' = Count
    BY <1>1, CountPushPop DEF WorkerLock, WorkerTest, WorkerUnlock, ring, Base
  <2> QED BY <2>1, <2>2 DEF NoLostWakeup
<1>2. CASE WorkerWait(w)
  <2>1. Count' = 0
    BY <1>2, CountPushPop DEF WorkerWait, ring, Base
  <2>2. Cardinality(Looking') \in Nat
    <3>1. Looking' \in SUBSET Workers
      BY DEF Looking
    <3> QED BY <3>1, FiniteLooking
  <2> QED BY <2>1, <2>2 DEF NoLostWakeup
<1>3. CASE WorkerPop(w)
  <2>1. ~empty
    BY <1>3 DEF WorkerPop, Base, Discipline
  <2>2. Count' = Count - 1 /\ Count \in Nat
    BY <1>3, <2>1, CountPushPop DEF WorkerPop, pop, Base
  <2>3. Looking' = Looking \ {w} /\ w \in Looking
    BY <1>0, <1>3 DEF Looking, WorkerPop, Base, PoolTypeOK, Threads
  <2>4. Cardinality(Looking') = Cardinality(Looking) - 1
    BY <1>0, <2>3, FS_RemoveElement
  <2> QED BY <1>0, <1>3, <2>2, <2>4 DEF NoLostWakeup, WorkerPop
<1>4. CASE WorkerRun(w) \/ SpuriousWakeup(w)
  <2>1. Count' = Count /\ Count \in Nat /\ waiting' \subseteq waiting
    BY <1>4, CountPushPop DEF WorkerRun, SpuriousWakeup, ring, Base
  <2>2. Looking' = Looking \cup {w}
    BY <1>0, <1>4 DEF Looking, WorkerRun, SpuriousWakeup, Base, PoolTypeOK, Threads, Discipline
  <2>3. Cardinality(Looking') \in Nat /\ Cardinality(Looking') >= Cardinality(Looking)
    <3>1. Cardinality(Looking \cup {w}) =
            IF w \in Looking THEN Cardinality(Looking) ELSE Cardinality(Looking) + 1
      BY <1>0, FS_AddElement
    <3> QED BY <1>0, <2>2, <3>1
  <2> QED BY <1>0, <2>1, <2>3 DEF NoLostWakeup
<1> QED BY <1>1, <1>2, <1>3, <1>4 DEF Work

\* No lost wakeup, for any number of workers, callers and tasks: a worker sleeps
\* only while the others on their way suffice for the tasks in the ring.
THEOREM Wakeups == PoolSafety => []NoLostWakeup
<1>1. PoolInit => NoLostWakeup
  BY DEF PoolInit, NoLostWakeup
<1>2. Base /\ NoLostWakeup /\ [PoolNext]_poolVars => NoLostWakeup'
  <2> SUFFICES ASSUME Base, NoLostWakeup, [PoolNext]_poolVars PROVE NoLostWakeup'
    OBVIOUS
  <2>1. CASE UNCHANGED poolVars
    BY <2>1 DEF poolVars, ring, NoLostWakeup, Looking, Count
  <2> QED BY <2>1, WakeupAdd, WakeupWork DEF PoolNext
<1> QED BY <1>1, <1>2, BaseInit, BaseStep, PTL DEF PoolSafety

-------------------------------------------------------------------------------
\* push appends to the tasks in the ring: it writes a node that is none of them.
LEMMA PushQueued ==
    ASSUME PoolTypeOK, NEW t \in Tasks, push(t)
    PROVE  Queued' = Append(Queued, t)
<1> USE PoolAssumption
<1>1. Count' = Count + 1 /\ Count \in 0..Capacity
  BY CountPushPop DEF push
<1>2. Queued \in Seq(Pointers) /\ Len(Queued) = Count
  <2>1. \A k \in 1..Count : Nth(k) \in Nodes /\ node_[Nth(k)] \in Pointers
    BY <1>1 DEF PoolTypeOK, Nodes, Nth
  <2> QED BY <1>1, <2>1, IsASeq, LenProperties DEF Queued
<1>3. \A k \in 1..Count : Nth(k) \in Nodes /\ Nth(k) # rear_
  BY <1>1 DEF PoolTypeOK, Nodes, Nth, Count
<1>4. Nth(Count + 1) = rear_ /\ rear_ \in Nodes
  BY <1>1 DEF PoolTypeOK, Nodes, Nth, Count
<1>5. \A k \in 1..(Count + 1) : Nth(k)' = Nth(k)
  BY DEF push, Nth
<1>6. Queued' = [k \in 1..(Count + 1) |-> node_'[Nth(k)]]
  BY <1>1, <1>5 DEF Queued
<1>7. \A k \in 1..(Count + 1) : node_'[Nth(k)] = Append(Queued, t)[k]
  <2> TAKE k \in 1..(Count + 1)
  <2>0. Count \in Nat /\ (k \in 1..Count \/ k = Count + 1)
    BY <1>1
  <2>1. CASE k \in 1..Count
    <3>1. node_'[Nth(k)] = node_[Nth(k)]
      BY <1>3, <2>1 DEF push, PoolTypeOK
    <3>2. Append(Queued, t)[k] = Queued[k]
      BY <1>2, <2>1, AppendProperties
    <3> QED BY <2>1, <3>1, <3>2 DEF Queued
  <2>2. CASE k = Count + 1
    <3>1. node_'[Nth(k)] = t
      BY <1>4, <2>2 DEF push, PoolTypeOK
    <3>2. Append(Queued, t)[k] = t
      BY <1>2, <2>2, AppendProperties
    <3> QED BY <3>1, <3>2
  <2> QED BY <2>0, <2>1, <2>2
<1>8. Append(Queued, t) = [k \in 1..(Count + 1) |-> Append(Queued, t)[k]]
  <2> DEFINE s == Append(Queued, t)
  <2>1. s \in Seq(Pointers) /\ Len(s) = Count + 1
    BY <1>2, AppendProperties DEF Pointers
  <2> HIDE DEF s
  <2>2. s = [k \in 1..(Count + 1) |-> s[k]]
    BY <2>1
  <2> QED BY <2>2 DEF s
<1> QED BY <1>6, <1>7, <1>8

\* pop takes the oldest of the tasks in the ring.
LEMMA PopQueued ==
    ASSUME PoolTypeOK, NEW w \in Workers, pop(w), ~empty
    PROVE  Queued = <<node_[front_]>> \o Queued' /\ Queued' \in Seq(Pointers)
<1> USE PoolAssumption
<1>1. Count' = Count - 1 /\ Count \in 1..Capacity
  BY CountPushPop DEF pop
<1>2. node_' = node_ /\ front_ \in Nodes /\ node_[front_] \in Pointers
  BY DEF pop, PoolTypeOK
<1>3. \A k \in 1..(Count - 1) : Nth(k)' = Nth(k + 1) /\ Nth(k + 1) \in Nodes
  BY <1>1 DEF pop, Nth, next_, PoolTypeOK, Nodes
<1>4. Queued' = [k \in 1..(Count - 1) |-> node_[Nth(k + 1)]]
  BY <1>1, <1>2, <1>3 DEF Queued
<1>5. Queued' \in Seq(Pointers) /\ Len(Queued') = Count - 1
  <2>1. \A k \in 1..(Count - 1) : node_[Nth(k + 1)] \in Pointers
    BY <1>3 DEF PoolTypeOK
  <2> QED BY <1>1, <1>4, <2>1
<1>6. Nth(1) = front_
  BY <1>2 DEF Nth, Nodes
<1> DEFINE Q == Queued'
<1>7. Q \in Seq(Pointers) /\ Len(Q) = Count - 1
      /\ \A k \in 1..(Count - 1) : Q[k] = node_[Nth(k + 1)]
  BY <1>4, <1>5
<1> HIDE DEF Q
<1>8. <<node_[front_]>> \o Q = [k \in 1..Count |-> node_[Nth(k)]]
  <2>1. <<node_[front_]>> \o Q =
          [k \in 1..(1 + Len(Q)) |-> IF k <= 1 THEN <<node_[front_]>>[k] ELSE Q[k - 1]]
    BY <1>2, <1>7
  <2>2. \A k \in 1..Count :
          (IF k <= 1 THEN <<node_[front_]>>[k] ELSE Q[k - 1]) = node_[Nth(k)]
    BY <1>1, <1>6, <1>7
  <2> QED BY <1>1, <1>7, <2>1, <2>2
<1> QED BY <1>5, <1>8 DEF Queued, Q

\* The ring is a FIFO for any capacity, however often it wraps: no task is
\* lost, handed out twice or overtaken, and no worker gets a null pointer.
THEOREM FIFO == PoolSafety => []RingIsFIFO
<1>1. PoolInit => RingIsFIFO
  <2> SUFFICES ASSUME PoolInit PROVE RingIsFIFO
    OBVIOUS
  <2>1. Queued = <<>>
    BY DEF PoolInit, Queued, Count
  <2> QED BY <2>1 DEF PoolInit, RingIsFIFO
<1>2. Base /\ RingIsFIFO /\ [PoolNext]_poolVars => RingIsFIFO'
  <2> SUFFICES ASSUME Base, RingIsFIFO, [PoolNext]_poolVars PROVE RingIsFIFO'
    OBVIOUS
  <2>1. ASSUME UNCHANGED <<ring, pushed, popped>>
        PROVE  RingIsFIFO'
    BY <2>1 DEF ring, RingIsFIFO, Queued, Count, Nth
  <2>2. ASSUME NEW a \in Adders, AddPush(a)
        PROVE  RingIsFIFO'
    <3>1. task[a] \in Tasks /\ push(task[a])
      BY <2>2 DEF AddPush, Base, Discipline
    <3>2. Queued' = Append(Queued, task[a])
      BY <3>1, PushQueued DEF Base
    <3>3. Queued \in Seq(Pointers) /\ popped \in Seq(Pointers) /\ task[a] \in Pointers
      <4>1. \A k \in 1..Count : Nth(k) \in Nodes /\ node_[Nth(k)] \in Pointers
        BY PoolAssumption, CountPushPop DEF Base, PoolTypeOK, Nodes, Nth
      <4>2. Count \in Nat
        BY CountPushPop DEF Base
      <4> QED BY <3>1, <4>1, <4>2, IsASeq DEF Queued, Base, PoolTypeOK, Pointers
    <3>4. Append(popped \o Queued, task[a]) = popped \o Append(Queued, task[a])
      BY <3>3
    <3> QED BY <3>1, <3>2, <3>4 DEF RingIsFIFO, push
  <2>3. ASSUME NEW w \in Workers, WorkerPop(w)
        PROVE  RingIsFIFO'
    <3>1. pop(w) /\ ~empty
      BY <2>3 DEF WorkerPop, Base, Discipline
    <3>2. Queued = <<node_[front_]>> \o Queued' /\ Queued' \in Seq(Pointers)
      BY <3>1, PopQueued DEF Base
    <3>3. popped' = Append(popped, node_[front_]) /\ pushed' = pushed
      BY <3>1 DEF pop
    <3> DEFINE Q == Queued'
    <3>4. popped \in Seq(Pointers) /\ node_[front_] \in Pointers /\ Q \in Seq(Pointers)
      BY <3>2 DEF Base, PoolTypeOK
    <3>5. popped \o (<<node_[front_]>> \o Q) = Append(popped, node_[front_]) \o Q
      <4> HIDE DEF Q
      <4> QED BY <3>4
    <3> QED BY <3>2, <3>3, <3>5 DEF RingIsFIFO
  <2> QED BY <2>1, <2>2, <2>3 DEF PoolNext, Add, Work, AddLock, AddUnlock, WorkerLock, WorkerWait,
                WorkerTest, WorkerUnlock, WorkerRun, SpuriousWakeup, poolVars, history
<1> QED BY <1>1, <1>2, BaseInit, BaseStep, PTL DEF PoolSafety

-------------------------------------------------------------------------------
(* UpperGather: the inductive invariant.                                   *)

\* A connection made to a port waits in its backlog until it is accepted: the
\* connections made so far are the accepted ones followed by the waiting ones.
Callers == gathered \o backlog[Gather]
Column(u) == map_lower_[u] \o backlog[Data(u)]

Distinct(s) == \A j, k \in 1..Len(s) : s[j] = s[k] => j = k

\* gather_all runs on the master only, send_gather on the others only.
Roles ==
    /\ upc[Master] \notin {"reply_socket", "gather_connect", "reply_accept"}
    /\ \A u \in Others :
           upc[u] \notin {"gather_socket", "gather_accept", "gather_reply", "serialize"}

\* Unless m_socket failed, the data port stays open, and the reply port is open before
\* the master is called.
OpenPorts ==
    /\ \A u \in Uppers : upc[u] # "socket" => Data(u) \in listening \/ Broken(Data(u))
    /\ \A u \in Others : upc[u] \in {"gather_connect", "reply_accept"} =>
                              Reply(u) \in listening \/ Broken(Reply(u))

\* An upper calls the master once, and waits for the reply from then on.
CallOnce ==
    /\ Distinct(Callers)
    /\ \A k \in 1..Len(Callers) : \E u \in Others :
           Callers[k] = <<"upper", u>> /\ upc[u] \in {"reply_accept", "accept", "ready"}

\* Only the reply of the master, or a failed accept, moves an upper on, and the master
\* goes through the uppers in order.
RepliesInOrder ==
    \A u \in Others :
        backlog[Reply(u)] # <<>> \/ upc[u] \in {"accept", "ready"} =>
            u <= replied + 1 \/ Broken(Reply(u))

\* The master calls back when everybody has called, or its accept failed.
AllCalled == upc[Master] = "gather_reply" => Len(gathered) = NUppers - 1 \/ Broken(Gather)

\* The tasks leave when every upper has its data port, unless gather_all failed.
TasksLast ==
    /\ (\E l \in Lowers : tasks[l] # "none") => upc[Master] \in {"serialize", "accept", "ready"}
    /\ upc[Master] \in {"serialize", "accept", "ready"} =>
           Broken(Gather) \/ \A u \in Uppers : upc[u] # "socket"

\* A lower connects to an upper once, in the order of the uppers; an upper leaves
\* m_accept with a connection of every lower unless an accept of its own failed.
ColumnsOnce ==
    \A u \in Uppers : <<"accept", Data(u)>> \notin failed =>
        /\ Distinct(Column(u))
        /\ \A k \in 1..Len(Column(u)) : \E l \in Lowers :
               Column(u)[k] = <<"lower", l>> /\ u <= connected[l]
        /\ IF upc[u] = "ready" THEN Len(map_lower_[u]) = NLowers ELSE Len(map_lower_[u]) < NLowers

Inv ==
    /\ TypeOK /\ RefusedOnlyBroken
    /\ Roles /\ OpenPorts /\ CallOnce /\ RepliesInOrder /\ AllCalled /\ TasksLast /\ ColumnsOnce

-------------------------------------------------------------------------------
(* Sequences.                                                              *)

\* A connection that arrives comes last, one that is accepted keeps its place.
LEMMA ArriveAccept ==
    ASSUME NEW S, NEW s \in Seq(S), NEW b \in Seq(S)
    PROVE  /\ s \o b \in Seq(S)
           /\ \A e \in S : s \o Append(b, e) = Append(s \o b, e)
           /\ b # <<>> => Append(s, Head(b)) \o Tail(b) = s \o b
<1>1. s \o b \in Seq(S)
  BY ConcatProperties
<1>2. ASSUME NEW e \in S PROVE s \o Append(b, e) = Append(s \o b, e)
  <2>1. <<e>> \in Seq(S)
    OBVIOUS
  <2>2. Append(b, e) = b \o <<e>> /\ Append(s \o b, e) = (s \o b) \o <<e>>
    BY <1>1, AppendIsConcat
  <2> QED BY <2>1, <2>2, ConcatAssociative
<1>3. ASSUME b # <<>> PROVE Append(s, Head(b)) \o Tail(b) = s \o b
  <2>1. Head(b) \in S /\ Tail(b) \in Seq(S) /\ <<Head(b)>> \in Seq(S)
    BY <1>3, HeadTailProperties
  <2>2. <<Head(b)>> \o Tail(b) = b
    BY <1>3, <2>1
  <2>3. Append(s, Head(b)) = s \o <<Head(b)>>
    BY <2>1, AppendIsConcat
  <2> QED BY <2>1, <2>2, <2>3, ConcatAssociative
<1> QED BY <1>1, <1>2, <1>3

LEMMA DistinctAppend ==
    ASSUME NEW S, NEW s \in Seq(S), NEW e \in S, Distinct(s),
           \A k \in 1..Len(s) : s[k] # e
    PROVE  Distinct(Append(s, e))
<1>1. /\ Len(s) \in Nat /\ Len(Append(s, e)) = Len(s) + 1
      /\ \A k \in 1..Len(s) : Append(s, e)[k] = s[k]
      /\ Append(s, e)[Len(s) + 1] = e
  BY AppendProperties, LenProperties
<1> QED BY <1>1 DEF Distinct

\* What is in front of a sequence keeps its place, and repeats nothing if the whole
\* repeats nothing.
LEMMA Front ==
    ASSUME NEW S, NEW s \in Seq(S), NEW b \in Seq(S)
    PROVE  /\ Len(s) \in Nat /\ Len(b) \in Nat /\ Len(s \o b) = Len(s) + Len(b)
           /\ \A k \in 1..Len(s) : (s \o b)[k] = s[k]
           /\ Distinct(s \o b) => Distinct(s)
<1>1. /\ Len(s) \in Nat /\ Len(b) \in Nat /\ Len(s \o b) = Len(s) + Len(b)
      /\ \A k \in 1..Len(s) : (s \o b)[k] = s[k]
  BY ConcatProperties, LenProperties
<1> QED BY <1>1 DEF Distinct

\* As many different elements as the set has: all of them.
LEMMA AllOfThem ==
    ASSUME NEW S, IsFiniteSet(S), NEW s \in Seq(S), Distinct(s), Len(s) = Cardinality(S)
    PROVE  \A x \in S : \E k \in 1..Len(s) : s[k] = x
<1>1. Len(s) \in Nat /\ s \in [1..Len(s) -> S] /\ DOMAIN s = 1..Len(s)
  BY LenProperties
<1>2. s \in Injection(1..Len(s), S)
  BY <1>1 DEF Distinct, Injection, IsInjective
<1>3. Cardinality(1..Len(s)) = Cardinality(S)
  BY <1>1, FS_Interval
<1>4. s \in Surjection(1..Len(s), S)
  BY <1>2, <1>3, FS_Injection
<1> QED BY <1>4 DEF Surjection
-------------------------------------------------------------------------------
(* Ports and clients.                                                      *)

LEMMA PortFacts ==
    /\ Master \in Uppers /\ Gather \in Ports
    /\ \A u \in Uppers : /\ Data(u) \in Ports /\ Reply(u) \in Ports
                         /\ Data(u) # Gather /\ Reply(u) # Gather
                         /\ <<"upper", u>> \in Clients
    /\ \A u, v \in Uppers : /\ Data(u) # Reply(v)
                            /\ Data(u) = Data(v) => u = v
                            /\ Reply(u) = Reply(v) => u = v
    /\ \A l \in Lowers : <<"lower", l>> \in Clients
BY GatherAssumption DEF Master, Uppers, Gather, Data, Reply, Ports, Clients, Lowers

Fds == Clients \cup {NoFd}

\* What the operations of Merger and Sender leave behind, port by port.
LEMMA PortSteps ==
    ASSUME TypeOK, NEW p \in Ports
    PROVE  /\ backlog[p] \in Seq(Clients) /\ backlog[p] \in Seq(Fds)
           /\ \A c \in Clients : m_connect(c, p) \/ m_connect_ignored(c, p) =>
                 /\ backlog' \in [Ports -> Seq(Clients)]
                 /\ \/ p \in listening /\ backlog'[p] = Append(backlog[p], c)
                    \/ backlog'[p] = backlog[p]
                 /\ \A q \in Ports \ {p} : backlog'[q] = backlog[q]
           /\ accept(p) =>
                 /\ backlog[p] # <<>> /\ Head(backlog[p]) \in Clients
                 /\ backlog' \in [Ports -> Seq(Clients)]
                 /\ backlog'[p] = Tail(backlog[p])
                 /\ \A q \in Ports \ {p} : backlog'[q] = backlog[q]
                 /\ UNCHANGED <<refused, failed>>
<1>1. backlog[p] \in Seq(Clients) /\ backlog[p] \in Seq(Fds)
  <2>1. backlog[p] \in Seq(Clients)
    BY DEF TypeOK
  <2>2. \A k \in 1..Len(backlog[p]) : backlog[p][k] \in Fds
    BY <2>1 DEF Fds
  <2> QED BY <2>1, <2>2, LenProperties, SeqDef
<1>2. ASSUME NEW c \in Clients, m_connect(c, p) \/ m_connect_ignored(c, p)
      PROVE  /\ backlog' \in [Ports -> Seq(Clients)]
             /\ \/ p \in listening /\ backlog'[p] = Append(backlog[p], c)
                \/ backlog'[p] = backlog[p]
             /\ \A q \in Ports \ {p} : backlog'[q] = backlog[q]
  <2>1. Append(backlog[p], c) \in Seq(Clients)
    BY <1>1, AppendProperties
  <2>2. backlog' = backlog \/ (p \in listening /\ backlog' = [backlog EXCEPT ![p] = Append(@, c)])
    BY <1>2 DEF m_connect, m_connect_ignored
  <2> QED BY <2>1, <2>2 DEF TypeOK
<1>3. ASSUME accept(p)
      PROVE  /\ backlog[p] # <<>> /\ Head(backlog[p]) \in Clients
             /\ backlog' \in [Ports -> Seq(Clients)]
             /\ backlog'[p] = Tail(backlog[p])
             /\ \A q \in Ports \ {p} : backlog'[q] = backlog[q]
             /\ UNCHANGED <<refused, failed>>
  <2>1. backlog[p] # <<>>
    BY <1>3 DEF accept
  <2>2. Head(backlog[p]) \in Clients /\ Tail(backlog[p]) \in Seq(Clients)
    BY <1>1, <2>1, HeadTailProperties
  <2> QED BY <1>3, <2>1, <2>2 DEF accept, TypeOK
<1> QED BY <1>1, <1>2, <1>3

\* The history of failures.
LEMMA Failures ==
    ASSUME TypeOK, NEW p \in Ports
    PROVE  /\ m_socket(p) =>
                 /\ UNCHANGED <<backlog, refused>>
                 /\ \/ listening' = listening \cup {p} /\ failed' = failed
                    \/ listening' = listening /\ failed' = failed \cup {<<"socket", p>>} /\ Broken(p)'
                 /\ failed \subseteq failed'
                 /\ \A q \in Ports : <<"accept", q>> \in failed' => <<"accept", q>> \in failed
                 /\ failed' \subseteq {"socket", "accept", "connect"} \X Ports
           /\ accept_fails(p) =>
                 /\ UNCHANGED <<backlog, refused>>
                 /\ failed' = failed \cup {<<"accept", p>>} /\ Broken(p)'
                 /\ failed \subseteq failed'
                 /\ failed' \subseteq {"socket", "accept", "connect"} \X Ports
           /\ \A c \in Clients : m_connect_ignored(c, p) =>
                 /\ refused' = refused \/ (p \notin listening /\ refused' = refused \cup {<<c, p>>})
                 /\ refused' \subseteq Clients \X Ports
                 /\ failed \subseteq failed'
                 /\ \A q \in Ports : <<"accept", q>> \in failed' => <<"accept", q>> \in failed
                 /\ failed' \subseteq {"socket", "accept", "connect"} \X Ports
           /\ failed \subseteq failed' => \A q : Broken(q) => Broken(q)'
<1>1. failed \subseteq {"socket", "accept", "connect"} \X Ports /\ refused \subseteq Clients \X Ports
  BY DEF TypeOK
<1>2. ASSUME m_socket(p)
      PROVE  /\ UNCHANGED <<backlog, refused>>
             /\ \/ listening' = listening \cup {p} /\ failed' = failed
                \/ listening' = listening /\ failed' = failed \cup {<<"socket", p>>} /\ Broken(p)'
             /\ failed \subseteq failed'
             /\ \A q \in Ports : <<"accept", q>> \in failed' => <<"accept", q>> \in failed
             /\ failed' \subseteq {"socket", "accept", "connect"} \X Ports
  <2>1. CASE listening' = listening \cup {p} /\ failed' = failed
    BY <1>1, <1>2, <2>1 DEF m_socket
  <2>2. CASE listening' = listening /\ failed' = failed \cup {<<"socket", p>>}
    <3>1. Broken(p)'
      BY <2>2 DEF Broken
    <3> QED BY <1>1, <1>2, <2>2, <3>1 DEF m_socket
  <2> QED BY <1>2, <2>1, <2>2 DEF m_socket, Fails
<1>3. ASSUME accept_fails(p)
      PROVE  /\ UNCHANGED <<backlog, refused>>
             /\ failed' = failed \cup {<<"accept", p>>} /\ Broken(p)'
             /\ failed \subseteq failed'
             /\ failed' \subseteq {"socket", "accept", "connect"} \X Ports
  <2>1. failed' = failed \cup {<<"accept", p>>} /\ UNCHANGED <<backlog, refused>>
    BY <1>3 DEF accept_fails, Fails
  <2>2. Broken(p)'
    BY <2>1 DEF Broken
  <2> QED BY <1>1, <2>1, <2>2
<1>4. ASSUME NEW c \in Clients, m_connect_ignored(c, p)
      PROVE  /\ refused' = refused \/ (p \notin listening /\ refused' = refused \cup {<<c, p>>})
             /\ refused' \subseteq Clients \X Ports
             /\ failed \subseteq failed'
             /\ \A q \in Ports : <<"accept", q>> \in failed' => <<"accept", q>> \in failed
             /\ failed' \subseteq {"socket", "accept", "connect"} \X Ports
  <2>1. refused' = refused \/ (p \notin listening /\ refused' = refused \cup {<<c, p>>})
    BY <1>4 DEF m_connect_ignored, m_connect
  <2>2. failed' = failed \/ failed' = failed \cup {<<"connect", p>>}
    BY <1>4 DEF m_connect_ignored, m_connect, Fails
  <2> QED BY <1>1, <2>1, <2>2
<1>5. failed \subseteq failed' => \A q : Broken(q) => Broken(q)'
  BY DEF Broken
<1> QED BY <1>2, <1>3, <1>4, <1>5

-------------------------------------------------------------------------------
(* Steps that make no connection and accept none.                          *)

connectionVars == <<backlog, gathered, map_lower_, connected, refused>>

\* Moving an upper on, opening or closing ports and handing out tasks disturb
\* nothing that is said of the connections, if the upper stays where its callers
\* and its columns put it.
LEMMA NoConnection ==
    ASSUME Inv, UNCHANGED connectionVars, failed \subseteq failed',
           \A u \in Uppers : /\ upc'[u] = "ready" <=> upc[u] = "ready"
                             /\ upc[u] \in {"reply_accept", "accept", "ready"} =>
                                   upc'[u] \in {"reply_accept", "accept", "ready"}
    PROVE  CallOnce' /\ ColumnsOnce' /\ RefusedOnlyBroken'
<1>1. Callers' = Callers /\ \A u \in Uppers : Column(u)' = Column(u)
  BY DEF connectionVars, Callers, Column
<1>2. CallOnce'
  BY <1>1 DEF Inv, CallOnce, Distinct, Others
<1>3. ColumnsOnce'
  BY <1>1 DEF Inv, ColumnsOnce, Distinct, connectionVars
<1> QED BY <1>2, <1>3 DEF Inv, RefusedOnlyBroken, Broken, connectionVars

\* A step that opens a port, or fails to.
LEMMA SocketStep ==
    ASSUME Inv, NEW u \in Uppers, NEW p \in Ports, m_socket(p),
           UNCHANGED <<taken, gathered, replied, tasks, connected, map_lower_>>,
           NEW there \in {"gather_socket", "serialize", "reply_socket", "gather_accept", "gather_connect"},
           upc' = [upc EXCEPT ![u] = there],
           \/ upc[u] = "socket" /\ p = Data(u)
              /\ there = (IF u # Master THEN "reply_socket"
                          ELSE IF NUppers # 1 THEN "gather_socket" ELSE "serialize")
           \/ upc[u] = "gather_socket" /\ u = Master /\ there = "gather_accept"
           \/ upc[u] = "reply_socket" /\ p = Reply(u) /\ there = "gather_connect"
    PROVE  Inv'
<1>1. /\ UNCHANGED <<backlog, refused>>
      /\ \/ listening' = listening \cup {p}
         \/ listening' = listening /\ Broken(p)'
      /\ failed \subseteq failed' /\ failed' \subseteq {"socket", "accept", "connect"} \X Ports
      /\ \A q : Broken(q) => Broken(q)'
  BY Failures DEF Inv
<1>2. /\ upc \in [Uppers -> {"socket", "gather_socket", "gather_accept", "gather_reply",
                           "serialize", "reply_socket", "gather_connect", "reply_accept",
                           "accept", "ready"}]
      /\ \A v \in Uppers : upc'[v] = IF v = u THEN there ELSE upc[v]
  BY DEF Inv, TypeOK
<1>3. TypeOK'
  <2>1. listening' \subseteq Ports
    BY <1>1 DEF Inv, TypeOK
  <2>2. upc' \in [Uppers -> {"socket", "gather_socket", "gather_accept", "gather_reply",
                           "serialize", "reply_socket", "gather_connect", "reply_accept",
                           "accept", "ready"}]
    BY <1>2
  <2> QED BY <1>1, <2>1, <2>2 DEF Inv, TypeOK
<1>4. CallOnce' /\ ColumnsOnce' /\ RefusedOnlyBroken'
  BY <1>1, <1>2, NoConnection DEF connectionVars
<1>5. Roles' /\ AllCalled'
  BY <1>1, <1>2, PortFacts DEF Inv, Roles, AllCalled, Others
<1>6. OpenPorts'
  <2>1. p \in listening' \/ Broken(p)'
    BY <1>1
  <2>2. \A q : q \in listening \/ Broken(q) => q \in listening' \/ Broken(q)'
    BY <1>1
  <2>3. \A v \in Uppers : upc'[v] # "socket" => Data(v) \in listening' \/ Broken(Data(v))'
    BY <1>2, <2>1, <2>2 DEF Inv, OpenPorts
  <2>4. \A v \in Others : upc'[v] \in {"gather_connect", "reply_accept"}
                             => Reply(v) \in listening' \/ Broken(Reply(v))'
    BY <1>2, <2>1, <2>2 DEF Inv, OpenPorts, Others
  <2> QED BY <2>3, <2>4 DEF OpenPorts
<1>7. RepliesInOrder'
  BY <1>1, <1>2 DEF Inv, RepliesInOrder, Others
<1>8. TasksLast'
  <2>1. NUppers = 1 => Uppers = {Master}
    BY DEF Uppers, Master
  <2> QED BY <1>1, <1>2, <2>1, PortFacts DEF Inv, TasksLast
<1> QED BY <1>3, <1>4, <1>5, <1>6, <1>7, <1>8 DEF Inv

LEMMA DataSocketStep ==
    ASSUME Inv, NEW u \in Uppers, DataSocket(u)
    PROVE  Inv'
<1>1. PICK there \in {"gather_socket", "serialize", "reply_socket"} :
         /\ there = (IF u # Master THEN "reply_socket"
                     ELSE IF NUppers # 1 THEN "gather_socket" ELSE "serialize")
         /\ upc' = [upc EXCEPT ![u] = there]
  BY DEF DataSocket, Goto
<1>2. /\ upc[u] = "socket" /\ m_socket(Data(u)) /\ Data(u) \in Ports
      /\ UNCHANGED <<taken, gathered, replied, tasks, connected, map_lower_>>
  BY PortFacts DEF DataSocket
<1> QED BY <1>1, <1>2, SocketStep

LEMMA GatherSocketStep ==
    ASSUME Inv, GatherSocket
    PROVE  Inv'
<1>1. /\ upc[Master] = "gather_socket" /\ m_socket(Gather) /\ Gather \in Ports
      /\ upc' = [upc EXCEPT ![Master] = "gather_accept"]
      /\ UNCHANGED <<taken, gathered, replied, tasks, connected, map_lower_>>
  BY PortFacts DEF GatherSocket, Goto
<1> QED BY <1>1, PortFacts, SocketStep

LEMMA ReplySocketStep ==
    ASSUME Inv, NEW u \in Uppers, ReplySocket(u)
    PROVE  Inv'
<1>1. /\ upc[u] = "reply_socket" /\ m_socket(Reply(u)) /\ Reply(u) \in Ports
      /\ upc' = [upc EXCEPT ![u] = "gather_connect"]
      /\ UNCHANGED <<taken, gathered, replied, tasks, connected, map_lower_>>
  BY PortFacts DEF ReplySocket, Goto
<1> QED BY <1>1, SocketStep

LEMMA SerializeStep ==
    ASSUME Inv, Serialize
    PROVE  Inv'
<1>1. PICK l \in Lowers :
          /\ tasks' = [tasks EXCEPT ![l] = "sent"]
          /\ IF l = NLowers THEN Goto(Master, "accept") ELSE UNCHANGED upc
  BY DEF Serialize
<1>2. /\ upc[Master] = "serialize"
      /\ UNCHANGED <<taken, listening, backlog, gathered, replied, connected, map_lower_, refused,
                     failed>>
  BY DEF Serialize
<1>3. upc' = upc \/ upc' = [upc EXCEPT ![Master] = "accept"]
  BY <1>1 DEF Goto
<1>4. TypeOK'
  BY <1>1, <1>2, <1>3, PortFacts DEF Inv, TypeOK
<1>5. CallOnce' /\ ColumnsOnce' /\ RefusedOnlyBroken'
  BY <1>2, <1>3, NoConnection DEF connectionVars, Inv, TypeOK
<1>6. Roles' /\ OpenPorts' /\ RepliesInOrder' /\ TasksLast' /\ AllCalled'
  BY <1>1, <1>2, <1>3, PortFacts DEF Inv, TypeOK, Roles, OpenPorts, RepliesInOrder, TasksLast, AllCalled,
     Others, Broken
<1> QED BY <1>4, <1>5, <1>6 DEF Inv

LEMMA LowerStartStep ==
    ASSUME Inv, NEW l \in Lowers, LowerStart(l)
    PROVE  Inv'
<1>1. /\ tasks[l] = "sent" /\ tasks' = [tasks EXCEPT ![l] = "started"]
      /\ UNCHANGED <<upc, taken, listening, backlog, gathered, replied, connected, map_lower_, refused,
                     failed>>
  BY DEF LowerStart
<1>2. TypeOK'
  BY <1>1 DEF Inv, TypeOK
<1>3. CallOnce' /\ ColumnsOnce' /\ RefusedOnlyBroken'
  BY <1>1, NoConnection DEF connectionVars, Inv, TypeOK
<1>4. Roles' /\ OpenPorts' /\ RepliesInOrder' /\ TasksLast' /\ AllCalled'
  BY <1>1 DEF Inv, TypeOK, Roles, OpenPorts, RepliesInOrder, TasksLast, AllCalled, Others, Broken
<1> QED BY <1>2, <1>3, <1>4 DEF Inv

-------------------------------------------------------------------------------
(* The master hears of everybody before it goes on.                        *)

\* NUppers-1 different uppers have called, so all of them have.
LEMMA AllHaveCalled ==
    ASSUME Inv, Len(gathered) = NUppers - 1, NEW u \in Others
    PROVE  upc[u] \in {"reply_accept", "accept", "ready"}
<1> DEFINE S == {"upper"} \X Others
<1>1. IsFiniteSet(S) /\ Cardinality(S) = NUppers - 1
  <2>1. IsFiniteSet(Others) /\ Cardinality(Others) = NUppers - 1
    <3>1. Others = 2..NUppers
      BY GatherAssumption DEF Others, Uppers, Master
    <3> QED BY <3>1, FS_Interval, GatherAssumption
  <2>2. IsFiniteSet({"upper"}) /\ Cardinality({"upper"}) = 1
    BY FS_Singleton
  <2> QED BY <2>1, <2>2, FS_Product, GatherAssumption
<1>2. gathered \in Seq(Clients) /\ backlog[Gather] \in Seq(Clients)
  BY PortFacts DEF Inv, TypeOK
<1>3. /\ Len(gathered) \in Nat /\ Len(backlog[Gather]) \in Nat
      /\ Len(Callers) = Len(gathered) + Len(backlog[Gather])
      /\ \A k \in 1..Len(gathered) : Callers[k] = gathered[k]
  BY <1>2, Front DEF Callers
<1>4. Distinct(gathered)
  BY <1>2, Front DEF Inv, CallOnce, Callers
<1>5. ASSUME NEW k \in 1..Len(gathered) PROVE gathered[k] \in S
  <2>1. k \in 1..Len(Callers)
    BY <1>3
  <2>2. PICK v \in Others : Callers[k] = <<"upper", v>>
    BY <2>1 DEF Inv, CallOnce
  <2>3. gathered[k] = <<"upper", v>>
    BY <1>3, <2>2
  <2> QED BY <2>3
<1>6. gathered \in Seq(S)
  BY <1>2, <1>5, LenProperties, SeqDef
<1>7. PICK k \in 1..Len(gathered) : gathered[k] = <<"upper", u>>
  <2>1. <<"upper", u>> \in S
    OBVIOUS
  <2> HIDE DEF S
  <2> QED BY <1>1, <1>4, <1>6, <2>1, AllOfThem
<1> QED BY <1>3, <1>7 DEF Inv, CallOnce

LEMMA GatherCloseStep ==
    ASSUME Inv, GatherClose
    PROVE  Inv'
<1>1. /\ upc[Master] = "gather_reply" /\ listening' = listening \ {Gather}
      /\ upc' = [upc EXCEPT ![Master] = "serialize"]
      /\ UNCHANGED <<taken, backlog, gathered, replied, tasks, connected, map_lower_, refused, failed>>
  BY DEF GatherClose, m_close, Goto
<1>2. TypeOK'
  BY <1>1, PortFacts DEF Inv, TypeOK
<1>3. CallOnce' /\ ColumnsOnce' /\ RefusedOnlyBroken'
  BY <1>1, NoConnection DEF connectionVars, Inv, TypeOK
<1>4. Roles' /\ OpenPorts' /\ RepliesInOrder' /\ AllCalled'
  BY <1>1, PortFacts DEF Inv, TypeOK, Roles, OpenPorts, RepliesInOrder, AllCalled, Others, Broken
<1>5. Broken(Gather) \/ \A u \in Uppers : upc[u] # "socket"
  BY <1>1, AllHaveCalled DEF Inv, AllCalled, Others
<1>6. TasksLast'
  BY <1>1, <1>5, PortFacts DEF Inv, TypeOK, TasksLast, Broken
<1> QED BY <1>2, <1>3, <1>4, <1>6 DEF Inv

-------------------------------------------------------------------------------
(* Steps that accept a connection, or fail to.                             *)

LEMMA GatherAcceptStep ==
    ASSUME Inv, GatherAccept
    PROVE  Inv'
<1>1. /\ upc[Master] = "gather_accept"
      /\ UNCHANGED <<taken, listening, replied, tasks, connected, map_lower_>>
  BY DEF GatherAccept
<1>2. Master \in Uppers /\ Gather \in Ports /\ \A u \in Uppers : Data(u) # Gather /\ Reply(u) # Gather
  BY PortFacts
<1>3. CASE /\ accept(Gather) /\ gathered' = Append(gathered, Head(backlog[Gather]))
           /\ Goto(Master, IF Len(gathered) + 1 = NUppers - 1 THEN "gather_reply" ELSE "gather_accept")
  <2>1. PICK there \in {"gather_reply", "gather_accept"} :
           /\ upc' = [upc EXCEPT ![Master] = there]
           /\ there = "gather_reply" => Len(gathered) + 1 = NUppers - 1
    BY <1>3 DEF Goto
  <2>2. /\ backlog[Gather] \in Seq(Clients) /\ backlog[Gather] # <<>>
        /\ Head(backlog[Gather]) \in Clients
        /\ backlog' \in [Ports -> Seq(Clients)] /\ backlog'[Gather] = Tail(backlog[Gather])
        /\ \A q \in Ports \ {Gather} : backlog'[q] = backlog[q]
        /\ UNCHANGED <<refused, failed>>
    BY <1>2, <1>3, PortSteps DEF Inv
  <2>3. gathered \in Seq(Clients) /\ gathered' \in Seq(Clients) /\ Len(gathered') = Len(gathered) + 1
    BY <1>3, <2>2, AppendProperties DEF Inv, TypeOK
  <2>4. \A u \in Uppers : upc'[u] = IF u = Master THEN there ELSE upc[u]
    BY <2>1 DEF Inv, TypeOK
  <2>5. TypeOK'
    <3>1. upc' \in [Uppers -> {"socket", "gather_socket", "gather_accept", "gather_reply",
                             "serialize", "reply_socket", "gather_connect", "reply_accept",
                             "accept", "ready"}]
      BY <2>1 DEF Inv, TypeOK
    <3> QED BY <1>1, <2>2, <2>3, <3>1 DEF Inv, TypeOK
  <2>6. Callers' = Callers
    BY <1>3, <2>2, <2>3, ArriveAccept DEF Callers
  <2>7. \A u \in Uppers : Column(u)' = Column(u)
    BY <1>1, <1>2, <2>2, PortFacts DEF Column
  <2>8. CallOnce'
    BY <1>1, <2>4, <2>6 DEF Inv, CallOnce, Distinct, Others
  <2>9. ColumnsOnce'
    BY <1>1, <2>2, <2>4, <2>7 DEF Inv, ColumnsOnce, Distinct
  <2>10. Roles' /\ AllCalled' /\ TasksLast' /\ RefusedOnlyBroken'
    BY <1>1, <1>2, <2>1, <2>2, <2>3, <2>4 DEF Inv, Roles, AllCalled, TasksLast, RefusedOnlyBroken, Others,
       Broken
  <2>11. OpenPorts' /\ RepliesInOrder'
    BY <1>1, <1>2, <2>2, <2>4, PortFacts DEF Inv, OpenPorts, RepliesInOrder, Others, Broken
  <2> QED BY <2>5, <2>8, <2>9, <2>10, <2>11 DEF Inv
<1>4. CASE /\ accept_fails(Gather) /\ UNCHANGED gathered
           /\ Goto(Master, "serialize") \/ Goto(Master, "gather_reply")
  <2>1. PICK there \in {"gather_reply", "serialize"} : upc' = [upc EXCEPT ![Master] = there]
    BY <1>4 DEF Goto
  <2>2. /\ UNCHANGED <<backlog, refused>> /\ Broken(Gather)'
        /\ failed \subseteq failed' /\ failed' \subseteq {"socket", "accept", "connect"} \X Ports
        /\ \A q : Broken(q) => Broken(q)'
    BY <1>2, <1>4, Failures DEF Inv
  <2>3. \A u \in Uppers : upc'[u] = IF u = Master THEN there ELSE upc[u]
    BY <2>1 DEF Inv, TypeOK
  <2>4. TypeOK'
    <3>1. upc' \in [Uppers -> {"socket", "gather_socket", "gather_accept", "gather_reply",
                             "serialize", "reply_socket", "gather_connect", "reply_accept",
                             "accept", "ready"}]
      BY <2>1 DEF Inv, TypeOK
    <3> QED BY <1>1, <1>4, <2>2, <3>1 DEF Inv, TypeOK
  <2>5. CallOnce' /\ ColumnsOnce' /\ RefusedOnlyBroken'
    BY <1>1, <1>4, <2>2, <2>3, NoConnection DEF connectionVars
  <2>6. Roles' /\ AllCalled' /\ TasksLast'
    BY <1>1, <1>2, <2>2, <2>3 DEF Inv, Roles, AllCalled, TasksLast, Others
  <2>7. OpenPorts' /\ RepliesInOrder'
    BY <1>1, <1>2, <2>2, <2>3 DEF Inv, OpenPorts, RepliesInOrder, Others
  <2> QED BY <2>4, <2>5, <2>6, <2>7 DEF Inv
<1> QED BY <1>3, <1>4 DEF GatherAccept

LEMMA ReplyAcceptStep ==
    ASSUME Inv, NEW u \in Uppers, ReplyAccept(u)
    PROVE  Inv'
<1>1. /\ upc[u] = "reply_accept"
      /\ upc' = [upc EXCEPT ![u] = "accept"]
      /\ UNCHANGED <<taken, gathered, replied, tasks, connected, map_lower_>>
  BY DEF ReplyAccept, Goto
<1>2. listening' = listening \/ listening' = listening \ {Reply(u)}
  BY DEF ReplyAccept, m_close
<1>3. u \in Others
  BY <1>1 DEF Inv, Roles, Others
<1>4. /\ backlog' \in [Ports -> Seq(Clients)]
      /\ \A q \in Ports \ {Reply(u)} : backlog'[q] = backlog[q]
      /\ UNCHANGED refused
      /\ failed \subseteq failed' /\ failed' \subseteq {"socket", "accept", "connect"} \X Ports
      /\ \A q \in Ports \ {Reply(u)} : <<"accept", q>> \in failed' => <<"accept", q>> \in failed
      /\ u <= replied + 1 \/ Broken(Reply(u))'
  <2>1. CASE accept(Reply(u))
    <3>1. /\ backlog[Reply(u)] # <<>>
          /\ backlog' \in [Ports -> Seq(Clients)]
          /\ \A q \in Ports \ {Reply(u)} : backlog'[q] = backlog[q]
          /\ UNCHANGED <<refused, failed>>
      BY <2>1, PortFacts, PortSteps DEF Inv
    <3>2. u <= replied + 1 \/ Broken(Reply(u))
      BY <1>3, <3>1 DEF Inv, RepliesInOrder
    <3> QED BY <3>1, <3>2 DEF Inv, TypeOK, Broken
  <2>2. CASE accept_fails(Reply(u))
    <3>1. /\ UNCHANGED <<backlog, refused>>
          /\ failed' = failed \cup {<<"accept", Reply(u)>>} /\ Broken(Reply(u))'
          /\ failed' \subseteq {"socket", "accept", "connect"} \X Ports
      BY <2>2, PortFacts, Failures DEF Inv
    <3> QED BY <3>1 DEF Inv, TypeOK
  <2> QED BY <2>1, <2>2 DEF ReplyAccept
<1>5. \A q : Broken(q) => Broken(q)'
  BY <1>4 DEF Broken
<1>6. TypeOK'
  BY <1>1, <1>2, <1>4 DEF Inv, TypeOK
<1>7. Callers' = Callers /\ \A v \in Uppers : Column(v)' = Column(v)
  BY <1>1, <1>4, PortFacts DEF Callers, Column
<1>8. \A v \in Uppers : upc'[v] = IF v = u THEN "accept" ELSE upc[v]
  BY <1>1 DEF Inv, TypeOK
<1>9. CallOnce'
  BY <1>1, <1>7, <1>8 DEF Inv, CallOnce, Distinct, Others
<1>10. ColumnsOnce'
  BY <1>1, <1>4, <1>7, <1>8 DEF Inv, ColumnsOnce, Distinct
<1>11. Roles' /\ TasksLast' /\ AllCalled'
  BY <1>1, <1>3, <1>5, <1>8, PortFacts DEF Inv, Roles, TasksLast, AllCalled, Others
<1>12. RefusedOnlyBroken'
  BY <1>4, <1>5 DEF Inv, RefusedOnlyBroken
<1>13. OpenPorts'
  <2>1. \A q \in Ports \ {Reply(u)} : q \in listening => q \in listening'
    BY <1>2
  <2>2. ASSUME NEW v \in Uppers, upc'[v] # "socket" PROVE Data(v) \in listening' \/ Broken(Data(v))'
    BY <1>1, <1>5, <1>8, <2>1, <2>2, PortFacts DEF Inv, OpenPorts
  <2>3. ASSUME NEW v \in Others, upc'[v] \in {"gather_connect", "reply_accept"}
        PROVE  Reply(v) \in listening' \/ Broken(Reply(v))'
    <3>1. v # u /\ upc[v] = upc'[v] /\ v \in Uppers
      BY <1>8, <2>3 DEF Others
    <3>2. Reply(v) \in Ports \ {Reply(u)}
      BY <3>1, PortFacts
    <3>3. Reply(v) \in listening \/ Broken(Reply(v))
      BY <2>3, <3>1 DEF Inv, OpenPorts
    <3> QED BY <1>5, <2>1, <3>2, <3>3
  <2> QED BY <2>2, <2>3 DEF OpenPorts
<1>14. RepliesInOrder'
  <2> SUFFICES ASSUME NEW v \in Others,
                      backlog'[Reply(v)] # <<>> \/ upc'[v] \in {"accept", "ready"}
               PROVE  v <= replied + 1 \/ Broken(Reply(v))'
    BY <1>1 DEF RepliesInOrder
  <2>1. CASE v = u
    BY <1>4, <2>1
  <2>2. CASE v # u
    <3>1. backlog'[Reply(v)] = backlog[Reply(v)] /\ upc'[v] = upc[v]
      BY <1>3, <1>4, <1>8, <2>2, PortFacts DEF Others
    <3> QED BY <1>5, <3>1 DEF Inv, RepliesInOrder
  <2> QED BY <2>1, <2>2
<1> QED BY <1>6, <1>9, <1>10, <1>11, <1>12, <1>13, <1>14 DEF Inv

LEMMA DataAcceptStep ==
    ASSUME Inv, NEW u \in Uppers, DataAccept(u)
    PROVE  Inv'
<1>1. upc[u] = "accept" /\ UNCHANGED <<taken, listening, gathered, replied, tasks, connected>>
  BY DEF DataAccept
<1>2. PICK there \in {"accept", "ready"}, fd \in Fds :
         /\ upc' = [upc EXCEPT ![u] = there]
         /\ map_lower_' = [map_lower_ EXCEPT ![u] = Append(@, fd)]
         /\ \/ /\ accept(Data(u)) /\ fd = Head(backlog[Data(u)])
               /\ there = IF Len(map_lower_[u]) + 1 = NLowers THEN "ready" ELSE "accept"
            \/ accept_fails(Data(u))
  <2>1. CASE /\ accept(Data(u))
             /\ map_lower_' = [map_lower_ EXCEPT ![u] = Append(@, Head(backlog[Data(u)]))]
             /\ Goto(u, IF Len(map_lower_[u]) + 1 = NLowers THEN "ready" ELSE "accept")
    <3>1. Head(backlog[Data(u)]) \in Fds
      BY <2>1, PortFacts, PortSteps DEF Inv, Fds
    <3>2. PICK there \in {"accept", "ready"} :
             there = IF Len(map_lower_[u]) + 1 = NLowers THEN "ready" ELSE "accept"
      OBVIOUS
    <3> QED BY <2>1, <3>1, <3>2 DEF Goto
  <2>2. CASE /\ accept_fails(Data(u)) /\ Goto(u, "ready")
             /\ map_lower_' = [map_lower_ EXCEPT ![u] = Append(@, NoFd)]
    BY <2>2 DEF Fds, Goto
  <2> QED BY <2>1, <2>2 DEF DataAccept
<1>3. /\ map_lower_[u] \in Seq(Fds) /\ Len(map_lower_[u]) \in Nat
      /\ map_lower_'[u] = Append(map_lower_[u], fd)
      /\ map_lower_'[u] \in Seq(Fds) /\ Len(map_lower_'[u]) = Len(map_lower_[u]) + 1
      /\ \A v \in Uppers \ {u} : map_lower_'[v] = map_lower_[v]
      /\ map_lower_' \in [Uppers -> Seq(Fds)]
  <2>1. map_lower_ \in [Uppers -> Seq(Fds)]
    BY DEF Inv, TypeOK, Fds
  <2>2. Append(map_lower_[u], fd) \in Seq(Fds) /\ Len(Append(map_lower_[u], fd)) = Len(map_lower_[u]) + 1
    BY <2>1, AppendProperties
  <2> QED BY <1>2, <2>1, <2>2, LenProperties
<1>4. /\ backlog' \in [Ports -> Seq(Clients)]
      /\ \A q \in Ports \ {Data(u)} : backlog'[q] = backlog[q]
      /\ UNCHANGED refused
      /\ failed \subseteq failed' /\ failed' \subseteq {"socket", "accept", "connect"} \X Ports
      /\ \A q \in Ports \ {Data(u)} : <<"accept", q>> \in failed' => <<"accept", q>> \in failed
      /\ \/ <<"accept", Data(u)>> \in failed'
         \/ /\ backlog[Data(u)] \in Seq(Fds) /\ backlog[Data(u)] # <<>>
            /\ backlog'[Data(u)] = Tail(backlog[Data(u)]) /\ fd = Head(backlog[Data(u)])
            /\ there = IF Len(map_lower_[u]) + 1 = NLowers THEN "ready" ELSE "accept"
            /\ failed' = failed
  <2>1. CASE accept_fails(Data(u))
    <3>1. /\ UNCHANGED <<backlog, refused>>
          /\ failed' = failed \cup {<<"accept", Data(u)>>}
          /\ failed' \subseteq {"socket", "accept", "connect"} \X Ports
      BY <2>1, PortFacts, Failures DEF Inv
    <3> QED BY <3>1 DEF Inv, TypeOK
  <2>2. CASE ~ accept_fails(Data(u))
    <3>1. accept(Data(u))
      BY <1>2, <2>2
    <3>2. /\ backlog[Data(u)] \in Seq(Fds) /\ backlog[Data(u)] # <<>>
          /\ backlog' \in [Ports -> Seq(Clients)] /\ backlog'[Data(u)] = Tail(backlog[Data(u)])
          /\ \A q \in Ports \ {Data(u)} : backlog'[q] = backlog[q]
          /\ UNCHANGED <<refused, failed>>
      BY <3>1, PortFacts, PortSteps DEF Inv
    <3> QED BY <1>2, <2>2, <3>2 DEF Inv, TypeOK
  <2> QED BY <2>1, <2>2
<1>5. \A q : Broken(q) => Broken(q)'
  BY <1>4 DEF Broken
<1>6. \A v \in Uppers : upc'[v] = IF v = u THEN there ELSE upc[v]
  BY <1>2 DEF Inv, TypeOK
<1>7. TypeOK'
  <2>1. map_lower_' \in [Uppers -> Seq(Clients \cup {NoFd})]
    BY <1>3 DEF Fds
  <2>2. upc' \in [Uppers -> {"socket", "gather_socket", "gather_accept", "gather_reply",
                           "serialize", "reply_socket", "gather_connect", "reply_accept",
                           "accept", "ready"}]
    BY <1>2 DEF Inv, TypeOK
  <2> QED BY <1>1, <1>4, <2>1, <2>2 DEF Inv, TypeOK
<1>8. Callers' = Callers /\ \A v \in Uppers \ {u} : Column(v)' = Column(v)
  BY <1>1, <1>3, <1>4, PortFacts DEF Callers, Column
<1>9. CallOnce'
  <2>1. \A v \in Others : upc[v] \in {"reply_accept", "accept", "ready"}
                              => upc'[v] \in {"reply_accept", "accept", "ready"}
    BY <1>6 DEF Others
  <2>2. Distinct(Callers')
    BY <1>8 DEF Inv, CallOnce
  <2>3. \A k \in 1..Len(Callers) : \E v \in Others :
            Callers[k] = <<"upper", v>> /\ upc'[v] \in {"reply_accept", "accept", "ready"}
    BY <2>1 DEF Inv, CallOnce
  <2> QED BY <1>8, <2>2, <2>3 DEF CallOnce, Distinct
<1>10. ColumnsOnce'
  <2> SUFFICES ASSUME NEW v \in Uppers, <<"accept", Data(v)>> \notin failed'
               PROVE  /\ Distinct(Column(v)')
                      /\ \A k \in 1..Len(Column(v)') : \E l \in Lowers :
                             Column(v)'[k] = <<"lower", l>> /\ v <= connected[l]
                      /\ IF upc'[v] = "ready" THEN Len(map_lower_'[v]) = NLowers
                                              ELSE Len(map_lower_'[v]) < NLowers
    BY <1>1 DEF ColumnsOnce, Distinct
  <2>1. <<"accept", Data(v)>> \notin failed
    BY <1>4
  <2>2. CASE v # u
    BY <1>3, <1>6, <1>8, <2>1, <2>2 DEF Inv, ColumnsOnce
  <2>3. CASE v = u
    <3>1. Column(u)' = Column(u)
      <4>1. PICK b \in Seq(Fds) : /\ b = backlog[Data(u)] /\ b # <<>>
                                 /\ backlog'[Data(u)] = Tail(b) /\ fd = Head(b)
        BY <1>4, <2>3
      <4>2. PICK m \in Seq(Fds) : m = map_lower_[u] /\ map_lower_'[u] = Append(m, fd)
        BY <1>3
      <4>3. Append(m, Head(b)) \o Tail(b) = m \o b
        <5>1. b # <<>>
          BY <4>1
        <5> QED BY ONLY <5>1, b \in Seq(Fds), m \in Seq(Fds), ArriveAccept, Zenon
      <4>4. Column(u) = m \o b
        BY <4>1, <4>2 DEF Column
      <4>5. Column(u)' = Append(m, Head(b)) \o Tail(b)
        BY <4>1, <4>2 DEF Column
      <4> QED BY <4>3, <4>4, <4>5
    <3>2. Len(map_lower_[u]) < NLowers
      BY <1>1, <2>1, <2>3 DEF Inv, ColumnsOnce
    <3>3. IF upc'[u] = "ready" THEN Len(map_lower_'[u]) = NLowers ELSE Len(map_lower_'[u]) < NLowers
      BY <1>3, <1>4, <1>6, <2>3, <3>2, GatherAssumption
    <3> QED BY <2>1, <2>3, <3>1, <3>3 DEF Inv, ColumnsOnce
  <2> QED BY <2>2, <2>3
<1>11. Roles' /\ TasksLast' /\ AllCalled'
  BY <1>1, <1>5, <1>6, PortFacts DEF Inv, Roles, TasksLast, AllCalled, Others
<1>12. RefusedOnlyBroken' /\ OpenPorts' /\ RepliesInOrder'
  BY <1>1, <1>4, <1>5, <1>6, PortFacts DEF Inv, RefusedOnlyBroken, OpenPorts, RepliesInOrder, Others
<1> QED BY <1>7, <1>9, <1>10, <1>11, <1>12 DEF Inv

-------------------------------------------------------------------------------
(* Steps that make a connection.                                           *)

LEMMA GatherConnectStep ==
    ASSUME Inv, NEW u \in Uppers, GatherConnect(u)
    PROVE  Inv'
<1> DEFINE c == <<"upper", u>>
<1>1. /\ upc[u] = "gather_connect" /\ m_connect(c, Gather)
      /\ upc' = [upc EXCEPT ![u] = "reply_accept"]
      /\ UNCHANGED <<taken, listening, gathered, replied, tasks, connected, map_lower_, refused, failed>>
  BY DEF GatherConnect, Goto, m_connect
<1>2. u \in Others /\ c \in Clients
  BY <1>1, PortFacts DEF Inv, Roles, Others
<1>3. /\ backlog[Gather] \in Seq(Clients)
      /\ backlog' \in [Ports -> Seq(Clients)]
      /\ backlog'[Gather] = Append(backlog[Gather], c) \/ backlog'[Gather] = backlog[Gather]
      /\ \A q \in Ports \ {Gather} : backlog'[q] = backlog[q]
  BY <1>1, <1>2, PortFacts, PortSteps DEF Inv
<1>4. TypeOK'
  BY <1>1, <1>3 DEF Inv, TypeOK
<1>5. Callers \in Seq(Clients) /\ (Callers' = Append(Callers, c) \/ Callers' = Callers)
  <2>1. gathered \in Seq(Clients) /\ gathered' = gathered
    BY <1>1 DEF Inv, TypeOK
  <2> HIDE DEF c
  <2>2. PICK b \in Seq(Clients) : b = backlog[Gather]
    BY <1>3
  <2>3. gathered \o b \in Seq(Clients) /\ gathered \o Append(b, c) = Append(gathered \o b, c)
    BY <1>2, <2>1, <2>2, ArriveAccept
  <2> QED BY <1>3, <2>1, <2>2, <2>3 DEF Callers
<1>6. \A v \in Uppers : Column(v)' = Column(v)
  BY <1>1, <1>3, PortFacts DEF Column
<1>7. \A v \in Uppers : upc'[v] = IF v = u THEN "reply_accept" ELSE upc[v]
  BY <1>1 DEF Inv, TypeOK
<1>8. CallOnce'
  <2>0. CASE Callers' = Callers
    BY <1>1, <1>7, <2>0 DEF Inv, CallOnce, Distinct, Others
  <2>1. \A k \in 1..Len(Callers) : Callers[k] # c
    BY <1>1 DEF Inv, CallOnce
  <2>2. Distinct(Append(Callers, c))
    BY <1>2, <1>5, <2>1, DistinctAppend DEF Inv, CallOnce
  <2>3. ASSUME Callers' = Append(Callers, c), NEW k \in 1..Len(Callers')
        PROVE  \E v \in Others : Callers'[k] = <<"upper", v>> /\ upc'[v] \in {"reply_accept", "accept", "ready"}
    <3>1. /\ Len(Callers) \in Nat /\ Len(Callers') = Len(Callers) + 1
          /\ \A i \in 1..Len(Callers) : Callers'[i] = Callers[i]
          /\ Callers'[Len(Callers) + 1] = c
      BY <1>2, <1>5, <2>3, AppendProperties, LenProperties
    <3>2. CASE k = Len(Callers) + 1
      BY <1>2, <1>7, <3>1, <3>2
    <3>3. CASE k \in 1..Len(Callers)
      <4>1. PICK v \in Others : Callers[k] = <<"upper", v>> /\ upc[v] \in {"reply_accept", "accept", "ready"}
        BY <3>3 DEF Inv, CallOnce
      <4>2. upc'[v] = upc[v]
        BY <1>1, <1>7, <4>1 DEF Others
      <4> QED BY <3>1, <3>3, <4>1, <4>2
    <3> QED BY <3>1, <3>2, <3>3
  <2>4. CASE Callers' = Append(Callers, c)
    BY <2>2, <2>3, <2>4 DEF CallOnce, Distinct
  <2> QED BY <1>5, <2>0, <2>4
<1>9. ColumnsOnce'
  BY <1>1, <1>6, <1>7 DEF Inv, ColumnsOnce, Distinct
<1>10. Roles' /\ TasksLast' /\ AllCalled' /\ RefusedOnlyBroken'
  BY <1>1, <1>2, <1>7, PortFacts DEF Inv, Roles, TasksLast, AllCalled, RefusedOnlyBroken, Others, Broken
<1>11. OpenPorts' /\ RepliesInOrder'
  <2>1. \A q : Broken(q)' <=> Broken(q)
    BY <1>1 DEF Broken
  <2>2. OpenPorts'
    BY <1>1, <1>2, <1>7, <2>1 DEF Inv, OpenPorts, Others
  <2>3. \A v \in Others : v \in Uppers /\ backlog'[Reply(v)] = backlog[Reply(v)]
    BY <1>3, PortFacts DEF Others
  <2>4. RepliesInOrder'
    BY <1>1, <1>7, <2>1, <2>3 DEF Inv, RepliesInOrder
  <2> QED BY <2>2, <2>4
<1> QED BY <1>4, <1>8, <1>9, <1>10, <1>11 DEF Inv

\* The upper the master calls back waits for the call with its port open: it has
\* called, and only this call or a failed accept can let it close the port.
LEMMA GatherReplyStep ==
    ASSUME Inv, GatherReply
    PROVE  Inv'
<1> DEFINE u == replied + 2
           c == <<"upper", Master>>
<1>1. /\ upc[Master] = "gather_reply" /\ replied < NUppers - 1
      /\ m_connect_ignored(c, Reply(u)) /\ replied' = replied + 1
      /\ UNCHANGED <<upc, taken, listening, gathered, tasks, connected, map_lower_>>
  BY DEF GatherReply
<1>2. /\ replied \in Nat /\ u \in Others /\ u \in Uppers /\ c \in Clients /\ Reply(u) \in Ports
  <2>1. replied \in Nat /\ u \in Others /\ u \in Uppers
    BY <1>1, GatherAssumption DEF Inv, TypeOK, Others, Uppers, Master
  <2> HIDE DEF u
  <2> QED BY <2>1, PortFacts
<1>3. Reply(u) \in listening \/ Broken(Reply(u)) \/ Broken(Gather)
  <2>1. CASE Len(gathered) = NUppers - 1
    <3>1. upc[u] \in {"reply_accept", "accept", "ready"}
      BY <1>2, <2>1, AllHaveCalled
    <3>2. upc[u] = "reply_accept" \/ Broken(Reply(u))
      BY <1>2, <3>1 DEF Inv, RepliesInOrder
    <3> QED BY <1>2, <3>2 DEF Inv, OpenPorts
  <2> QED BY <1>1, <2>1 DEF Inv, AllCalled
<1> HIDE DEF u, c
<1>4. /\ backlog' \in [Ports -> Seq(Clients)]
      /\ \A q \in Ports \ {Reply(u)} : backlog'[q] = backlog[q]
  BY <1>1, <1>2, PortSteps DEF Inv
<1>5. /\ refused' = refused \/ (Reply(u) \notin listening /\ refused' = refused \cup {<<c, Reply(u)>>})
      /\ refused' \subseteq Clients \X Ports
      /\ failed \subseteq failed' /\ failed' \subseteq {"socket", "accept", "connect"} \X Ports
      /\ \A q \in Ports : <<"accept", q>> \in failed' => <<"accept", q>> \in failed
      /\ \A q : Broken(q) => Broken(q)'
  BY <1>1, <1>2, Failures DEF Inv
<1>6. TypeOK'
  BY <1>1, <1>2, <1>4, <1>5, GatherAssumption DEF Inv, TypeOK
<1>7. Callers' = Callers /\ \A v \in Uppers : Column(v)' = Column(v)
  BY <1>1, <1>2, <1>4, PortFacts DEF Callers, Column
<1>8. CallOnce'
  BY <1>1, <1>7 DEF Inv, CallOnce, Distinct
<1>9. ColumnsOnce'
  BY <1>1, <1>5, <1>7, PortFacts DEF Inv, ColumnsOnce, Distinct
<1>10. Roles' /\ OpenPorts' /\ TasksLast' /\ AllCalled'
  BY <1>1, <1>5 DEF Inv, Roles, OpenPorts, TasksLast, AllCalled
<1>11. RefusedOnlyBroken'
  <2> SUFFICES ASSUME NEW r \in refused' PROVE Broken(r[2])' \/ Broken(Gather)'
    BY DEF RefusedOnlyBroken
  <2>1. CASE r \in refused
    BY <1>5, <2>1 DEF Inv, RefusedOnlyBroken
  <2>2. CASE r \notin refused
    <3>1. Reply(u) \notin listening /\ r = <<c, Reply(u)>>
      BY <1>5, <2>2
    <3> QED BY <1>3, <1>5, <3>1
  <2> QED BY <2>1, <2>2
<1>12. RepliesInOrder'
  <2> SUFFICES ASSUME NEW v \in Others,
                      backlog'[Reply(v)] # <<>> \/ upc'[v] \in {"accept", "ready"}
               PROVE  v <= replied' + 1 \/ Broken(Reply(v))'
    BY DEF RepliesInOrder
  <2>1. CASE v = u
    BY <1>1, <1>2, <2>1 DEF u
  <2>2. CASE v # u
    <3>1. v \in Uppers /\ v \in Int
      BY DEF Others, Uppers
    <3>2. Reply(v) \in Ports \ {Reply(u)}
      BY <1>2, <2>2, <3>1, PortFacts
    <3>3. backlog'[Reply(v)] = backlog[Reply(v)] /\ upc'[v] = upc[v]
      BY <1>1, <1>4, <3>2
    <3>4. v <= replied + 1 \/ Broken(Reply(v))
      BY <3>3 DEF Inv, RepliesInOrder
    <3> QED BY <1>1, <1>2, <1>5, <3>1, <3>4
  <2> QED BY <2>1, <2>2
<1> QED BY <1>6, <1>8, <1>9, <1>10, <1>11, <1>12 DEF Inv

\* A task has started, so every upper has tried to open its data port.
LEMMA LowerConnectStep ==
    ASSUME Inv, NEW l \in Lowers, LowerConnect(l)
    PROVE  Inv'
<1> DEFINE c == <<"lower", l>>
<1>1. /\ tasks[l] = "started" /\ connected[l] < NUppers
      /\ m_connect_ignored(c, Data(connected[l] + 1))
      /\ connected' = [connected EXCEPT ![l] = @ + 1]
      /\ UNCHANGED <<upc, taken, listening, gathered, replied, tasks, map_lower_>>
  BY DEF LowerConnect
<1>2. PICK u \in Uppers : u = connected[l] + 1
  BY <1>1, GatherAssumption DEF Inv, TypeOK, Uppers
<1>3. connected[l] \in Nat /\ u \in Nat /\ u > connected[l] /\ c \in Clients /\ Data(u) \in Ports
  <2>1. connected[l] \in Nat /\ u \in Nat /\ u > connected[l]
    BY <1>2 DEF Inv, TypeOK, Uppers
  <2> QED BY <2>1, PortFacts
<1>4. Data(u) \in listening \/ Broken(Data(u)) \/ Broken(Gather)
  BY <1>1, <1>2 DEF Inv, TasksLast, OpenPorts
<1>5. connected'[l] = u /\ \A k \in Lowers \ {l} : connected'[k] = connected[k]
  BY <1>1, <1>2 DEF Inv, TypeOK
<1>6. connected' \in [Lowers -> 0..NUppers]
  BY <1>1, <1>2, <1>3, GatherAssumption DEF Inv, TypeOK, Uppers
<1>7. \A k \in Lowers : connected[k] \in Nat /\ connected'[k] \in Nat /\ connected[k] <= connected'[k]
  <2>1. \A k \in Lowers : connected[k] \in Nat /\ connected'[k] \in Nat
    BY <1>6 DEF Inv, TypeOK
  <2> QED BY <1>3, <1>5, <2>1
<1> HIDE DEF c
<1>8. /\ backlog[Data(u)] \in Seq(Clients) /\ backlog[Data(u)] \in Seq(Fds)
      /\ backlog' \in [Ports -> Seq(Clients)]
      /\ backlog'[Data(u)] = Append(backlog[Data(u)], c) \/ backlog'[Data(u)] = backlog[Data(u)]
      /\ \A q \in Ports \ {Data(u)} : backlog'[q] = backlog[q]
  BY <1>1, <1>2, <1>3, PortSteps DEF Inv
<1>9. /\ refused' = refused \/ (Data(u) \notin listening /\ refused' = refused \cup {<<c, Data(u)>>})
      /\ refused' \subseteq Clients \X Ports
      /\ failed \subseteq failed' /\ failed' \subseteq {"socket", "accept", "connect"} \X Ports
      /\ \A q \in Ports : <<"accept", q>> \in failed' => <<"accept", q>> \in failed
      /\ \A q : Broken(q) => Broken(q)'
  BY <1>1, <1>2, <1>3, Failures DEF Inv
<1>10. TypeOK'
  BY <1>1, <1>6, <1>8, <1>9 DEF Inv, TypeOK
<1>11. Callers' = Callers /\ \A v \in Uppers \ {u} : Column(v)' = Column(v)
  BY <1>1, <1>2, <1>8, PortFacts DEF Callers, Column
<1>12. Column(u) \in Seq(Fds) /\ (Column(u)' = Append(Column(u), c) \/ Column(u)' = Column(u))
  <2>1. map_lower_[u] \in Seq(Fds) /\ map_lower_'[u] = map_lower_[u]
    BY <1>1, <1>2 DEF Inv, TypeOK, Fds
  <2>2. \/ Column(u)' = map_lower_[u] \o Append(backlog[Data(u)], c)
        \/ Column(u)' = Column(u)
    BY <1>8, <2>1 DEF Column
  <2> DEFINE b == backlog[Data(u)]
             m == map_lower_[u]
  <2>3. m \o b \in Seq(Fds) /\ m \o Append(b, c) = Append(m \o b, c)
    <3> HIDE DEF b, m
    <3>1. m \in Seq(Fds) /\ b \in Seq(Fds) /\ c \in Fds
      BY <1>3, <1>8, <2>1 DEF b, m, Fds
    <3> QED BY <3>1, ArriveAccept
  <2> QED BY <2>2, <2>3 DEF Column
<1>13. CallOnce'
  BY <1>1, <1>11 DEF Inv, CallOnce, Distinct
<1>14. ColumnsOnce'
  <2>1. ASSUME NEW v \in Uppers, <<"accept", Data(v)>> \notin failed, Column(v)' = Column(v)
        PROVE  /\ Distinct(Column(v)')
               /\ \A k \in 1..Len(Column(v)') : \E m \in Lowers :
                      Column(v)'[k] = <<"lower", m>> /\ v <= connected'[m]
    <3>1. v \in Nat
      BY DEF Uppers
    <3>2. Distinct(Column(v)')
      BY <2>1 DEF Inv, ColumnsOnce
    <3>3. ASSUME NEW k \in 1..Len(Column(v))
          PROVE  \E m \in Lowers : Column(v)[k] = <<"lower", m>> /\ v <= connected'[m]
      <4>1. PICK m \in Lowers : Column(v)[k] = <<"lower", m>> /\ v <= connected[m]
        BY <2>1 DEF Inv, ColumnsOnce
      <4> QED BY <1>7, <3>1, <4>1
    <3> QED BY <2>1, <3>2, <3>3
  <2>2. ASSUME <<"accept", Data(u)>> \notin failed, Column(u)' = Append(Column(u), c)
        PROVE  /\ Distinct(Column(u)')
               /\ \A k \in 1..Len(Column(u)') : \E m \in Lowers :
                      Column(u)'[k] = <<"lower", m>> /\ u <= connected'[m]
    <3>1. \A k \in 1..Len(Column(u)) : Column(u)[k] # c
      <4> SUFFICES ASSUME NEW k \in 1..Len(Column(u)) PROVE Column(u)[k] # c
        OBVIOUS
      <4>1. PICK m \in Lowers : Column(u)[k] = <<"lower", m>> /\ u <= connected[m]
        BY <1>2, <2>2 DEF Inv, ColumnsOnce
      <4>2. m # l
        BY <1>3, <4>1
      <4> QED BY <4>1, <4>2 DEF c
    <3>2. Distinct(Append(Column(u), c))
      <4>1. c \in Fds
        BY <1>3 DEF Fds
      <4> QED BY <1>12, <2>2, <3>1, <4>1, DistinctAppend DEF Inv, ColumnsOnce
    <3>3. ASSUME NEW k \in 1..Len(Column(u)')
          PROVE  \E m \in Lowers : Column(u)'[k] = <<"lower", m>> /\ u <= connected'[m]
      <4>1. /\ Len(Column(u)) \in Nat /\ Len(Column(u)') = Len(Column(u)) + 1
            /\ \A i \in 1..Len(Column(u)) : Column(u)'[i] = Column(u)[i]
            /\ Column(u)'[Len(Column(u)) + 1] = c
        <5>1. c \in Fds
          BY <1>3 DEF Fds
        <5> QED BY <1>12, <2>2, <5>1, AppendProperties, LenProperties
      <4>2. CASE k = Len(Column(u)) + 1
        BY <1>3, <1>5, <4>1, <4>2 DEF c
      <4>3. CASE k \in 1..Len(Column(u))
        <5>1. PICK m \in Lowers : Column(u)[k] = <<"lower", m>> /\ u <= connected[m]
          BY <1>2, <2>2, <4>3 DEF Inv, ColumnsOnce
        <5>2. u <= connected'[m]
          BY <1>3, <1>7, <5>1
        <5> QED BY <4>1, <4>3, <5>1, <5>2
      <4> QED BY <4>1, <4>2, <4>3
    <3> QED BY <2>2, <3>2, <3>3
  <2>3. ASSUME NEW v \in Uppers, <<"accept", Data(v)>> \notin failed'
        PROVE  /\ Distinct(Column(v)')
               /\ \A k \in 1..Len(Column(v)') : \E m \in Lowers :
                      Column(v)'[k] = <<"lower", m>> /\ v <= connected'[m]
    <3>0. <<"accept", Data(v)>> \notin failed
      BY <1>9, <2>3
    <3>1. CASE Column(v)' = Column(v)
      BY <2>1, <3>0, <3>1
    <3>2. CASE Column(v)' # Column(v)
      <4>1. v = u
        BY <1>11, <3>2
      <4>2. Column(u)' = Append(Column(u), c)
        BY <1>12, <3>2, <4>1
      <4> QED BY <2>2, <3>0, <4>1, <4>2
    <3> QED BY <3>1, <3>2
  <2>4. \A v \in Uppers : <<"accept", Data(v)>> \notin failed' =>
            IF upc'[v] = "ready" THEN Len(map_lower_'[v]) = NLowers
                                 ELSE Len(map_lower_'[v]) < NLowers
    BY <1>1, <1>9 DEF Inv, ColumnsOnce
  <2> QED BY <2>3, <2>4 DEF ColumnsOnce, Distinct
<1>15. RepliesInOrder'
  BY <1>1, <1>2, <1>8, <1>9, PortFacts DEF Inv, RepliesInOrder, Others
<1>16. Roles' /\ OpenPorts' /\ TasksLast' /\ AllCalled'
  BY <1>1, <1>9 DEF Inv, Roles, OpenPorts, TasksLast, AllCalled
<1>17. RefusedOnlyBroken'
  <2> SUFFICES ASSUME NEW r \in refused' PROVE Broken(r[2])' \/ Broken(Gather)'
    BY DEF RefusedOnlyBroken
  <2>1. CASE r \in refused
    BY <1>9, <2>1 DEF Inv, RefusedOnlyBroken
  <2>2. CASE r \notin refused
    <3>1. Data(u) \notin listening /\ r = <<c, Data(u)>>
      BY <1>9, <2>2
    <3> QED BY <1>4, <1>9, <3>1
  <2> QED BY <2>1, <2>2
<1> QED BY <1>10, <1>13, <1>14, <1>15, <1>16, <1>17 DEF Inv

-------------------------------------------------------------------------------
(* The theorems.                                                           *)

LEMMA InvInit == Init => Inv
<1> SUFFICES ASSUME Init PROVE Inv
  OBVIOUS
<1>1. TypeOK
  BY GatherAssumption, EmptySeq DEF Init, TypeOK
<1>2. Callers = <<>> /\ \A u \in Uppers : Column(u) = <<>>
  <2>1. <<>> \in Seq(Clients) /\ <<>> \o <<>> = <<>>
    BY EmptySeq, ConcatEmptySeq
  <2> QED BY <2>1, PortFacts DEF Init, Callers, Column
<1>3. CallOnce /\ ColumnsOnce
  <2>1. Len(<<>>) = 0 /\ Distinct(<<>>)
    BY DEF Distinct
  <2> QED BY <1>2, <2>1, GatherAssumption DEF Init, CallOnce, ColumnsOnce
<1>4. RefusedOnlyBroken /\ Roles /\ OpenPorts /\ RepliesInOrder /\ TasksLast /\ AllCalled
  BY PortFacts DEF Init, RefusedOnlyBroken, Roles, OpenPorts, RepliesInOrder, TasksLast, AllCalled, Others
<1> QED BY <1>1, <1>3, <1>4 DEF Inv

LEMMA InvNext == Inv /\ [Next]_vars => Inv'
<1> SUFFICES ASSUME Inv, [Next]_vars PROVE Inv'
  OBVIOUS
<1>1. CASE UNCHANGED vars
  <2>1. Callers' = Callers /\ \A u \in Uppers : Column(u)' = Column(u)
    BY <1>1 DEF vars, Callers, Column
  <2>2. CallOnce' /\ ColumnsOnce'
    BY <1>1, <2>1 DEF vars, Inv, CallOnce, ColumnsOnce, Distinct
  <2>3. TypeOK' /\ RefusedOnlyBroken' /\ Roles' /\ OpenPorts'
    BY <1>1 DEF vars, Inv, TypeOK, RefusedOnlyBroken, Roles, OpenPorts, Broken
  <2>4. RepliesInOrder' /\ TasksLast' /\ AllCalled'
    BY <1>1 DEF vars, Inv, RepliesInOrder, TasksLast, AllCalled, Broken
  <2> QED BY <2>2, <2>3, <2>4 DEF Inv
<1>2. CASE MasterStep
  BY <1>2, GatherSocketStep, GatherAcceptStep, GatherReplyStep, GatherCloseStep, SerializeStep
     DEF MasterStep
<1>3. ASSUME NEW u \in Uppers, UpperStep(u) PROVE Inv'
  BY <1>3, DataSocketStep, ReplySocketStep, GatherConnectStep, ReplyAcceptStep, DataAcceptStep
     DEF UpperStep
<1>4. ASSUME NEW l \in Lowers, LowerStep(l) PROVE Inv'
  BY <1>4, LowerStartStep, LowerConnectStep DEF LowerStep
<1> QED BY <1>1, <1>2, <1>3, <1>4 DEF Next, Stopped

\* For any number of uppers and lowers and any order of their steps, and whichever
\* socket calls fail: a connect is refused only at a port whose own socket call failed,
\* or after the one of gather_all failed.  Neither the master calling an upper back
\* nor a lower calling an upper looks at the result of m_connect.
THEOREM NeverRefused == Safety => []RefusedOnlyBroken
<1>1. Inv => RefusedOnlyBroken
  BY DEF Inv
<1> QED BY <1>1, InvInit, InvNext, PTL DEF Safety

\* An upper that has left m_accept has one connection of every lower, each once: as
\* many columns as markers it waits for.  A failure on another node or port cannot
\* take one away; only a failed accept of the upper's own data port can.
THEOREM ColumnPerLower == Safety => []OneColumnPerLower
<1>1. Inv => OneColumnPerLower
  <2> SUFFICES ASSUME Inv, NEW u \in Uppers, upc[u] = "ready", <<"accept", Data(u)>> \notin failed
               PROVE  /\ Len(map_lower_[u]) = NLowers
                      /\ {map_lower_[u][i] : i \in 1..Len(map_lower_[u])} = {"lower"} \X Lowers
    BY DEF OneColumnPerLower
  <2> DEFINE s == map_lower_[u]
             S == {"lower"} \X Lowers
  <2>1. Len(s) = NLowers
    BY DEF Inv, ColumnsOnce
  <2>2. s \in Seq(Fds) /\ backlog[Data(u)] \in Seq(Fds)
    BY PortFacts, PortSteps DEF Inv, TypeOK, Fds
  <2>3. /\ Len(s) \in Nat /\ Len(backlog[Data(u)]) \in Nat
        /\ Len(Column(u)) = Len(s) + Len(backlog[Data(u)])
        /\ \A k \in 1..Len(s) : Column(u)[k] = s[k]
    BY <2>2, Front DEF Column
  <2>4. Distinct(s)
    BY <2>2, Front DEF Inv, ColumnsOnce, Column
  <2> HIDE DEF s
  <2>5. ASSUME NEW k \in 1..Len(s) PROVE s[k] \in S
    <3>1. k \in 1..Len(Column(u))
      BY <2>3
    <3>2. PICK l \in Lowers : Column(u)[k] = <<"lower", l>>
      BY <3>1 DEF Inv, ColumnsOnce
    <3>3. s[k] = <<"lower", l>>
      BY <2>3, <3>2
    <3> QED BY <3>3
  <2>6. s \in Seq(S)
    BY <2>2, <2>5, LenProperties, SeqDef
  <2>7. IsFiniteSet(S) /\ Cardinality(S) = NLowers
    <3>1. IsFiniteSet(Lowers) /\ Cardinality(Lowers) = NLowers
      BY FS_Interval, GatherAssumption DEF Lowers
    <3>2. IsFiniteSet({"lower"}) /\ Cardinality({"lower"}) = 1
      BY FS_Singleton
    <3> QED BY <3>1, <3>2, FS_Product, GatherAssumption
  <2> HIDE DEF S
  <2>8. \A x \in S : \E k \in 1..Len(s) : s[k] = x
    BY <2>1, <2>4, <2>6, <2>7, AllOfThem
  <2>9. {s[i] : i \in 1..Len(s)} = S
    BY <2>5, <2>8
  <2> QED BY <2>1, <2>9 DEF s, S
<1> QED BY <1>1, InvInit, InvNext, PTL DEF Safety
================================================================================

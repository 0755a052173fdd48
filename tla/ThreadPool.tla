------------------------------ MODULE ThreadPool ------------------------------
(***************************************************************************)
(* ThreadPool (common/m_thread_pool.cpp; TaskThreadPool is the same code   *)
(* for TaskInfo) over a CircleQueue (common/m_circle_queue.h), a ring of   *)
(* Capacity + 1 nodes.  Callers add tasks, worker threads run them; both   *)
(* use one mutex lock_ and one condition variable condition_.  The queue's *)
(* own mutex is only ever taken under lock_, so push, pop and empty are    *)
(* single steps.                                                           *)
(***************************************************************************)
EXTENDS Integers, Sequences, FiniteSets

CONSTANTS
    Adders,     \* threads that call add_into_thread_pool
    Workers,    \* the nthreads_ threads running single_thread
    Tasks,      \* tasks to be added, each once
    Capacity,   \* queue_capacity_
    Null        \* the null pointer

ASSUME PoolAssumption ==
    /\ Capacity \in Nat \ {0}
    /\ Null \notin Tasks \cup Adders \cup Workers
    /\ Adders \cap Workers = {}
    /\ IsFiniteSet(Workers)

Nodes == 0..Capacity

VARIABLES
    node_,      \* node_[k]: the task pointer in ring node k
    front_,     \* the node pop reads
    rear_,      \* the node push writes
    lock_,      \* the thread that holds the mutex, or Null
    waiting,    \* workers blocked in pthread_cond_wait
    pc,         \* where each thread is
    task,       \* task[x]: the task x is adding or running
    pushed,     \* history: tasks in the order they entered the ring
    popped,     \* history: pointers in the order they left it
    ran         \* history: tasks that were run to their end

ring == <<node_, front_, rear_>>
history == <<pushed, popped, ran>>
poolVars == <<ring, lock_, waiting, pc, task, history>>

Threads == Adders \cup Workers

PoolInit ==
    /\ node_ = [k \in Nodes |-> Null]
    /\ front_ = 0
    /\ rear_ = 0
    /\ lock_ = Null
    /\ waiting = {}
    /\ pc = [x \in Threads |-> IF x \in Adders THEN "idle" ELSE "lock"]
    /\ task = [x \in Threads |-> Null]
    /\ pushed = <<>>
    /\ popped = <<>>
    /\ ran = {}

-------------------------------------------------------------------------------
(* CircleQueue.                                                            *)

next_(k) == IF k = Capacity THEN 0 ELSE k + 1
empty == rear_ = front_
full == next_(rear_) = front_

push(t) ==
    /\ ~full
    /\ node_' = [node_ EXCEPT ![rear_] = t]
    /\ rear_' = next_(rear_)
    /\ pushed' = Append(pushed, t)
    /\ UNCHANGED <<front_, popped, ran>>

\* pop answers the null pointer when the ring is empty.
pop(w) ==
    LET t == IF empty THEN Null ELSE node_[front_]
    IN  /\ task' = [task EXCEPT ![w] = t]
        /\ popped' = Append(popped, t)
        /\ front_' = IF empty THEN front_ ELSE next_(front_)
        /\ UNCHANGED <<node_, rear_, pushed, ran>>

-------------------------------------------------------------------------------
Lock(x, from, to) ==
    /\ pc[x] = from
    /\ lock_ = Null
    /\ lock_' = x
    /\ pc' = [pc EXCEPT ![x] = to]

Unlock(x, from, to) ==
    /\ pc[x] = from
    /\ lock_' = Null
    /\ pc' = [pc EXCEPT ![x] = to]

(* add_into_thread_pool.                                                   *)

AddLock(a) ==
    /\ Lock(a, "idle", "push")
    /\ \E t \in Tasks \ {task[b] : b \in Adders} :
           /\ t \notin {pushed[k] : k \in 1..Len(pushed)}
           /\ task' = [task EXCEPT ![a] = t]
    /\ UNCHANGED <<ring, waiting, history>>

\* Mutant: condition_ is signalled only when the ring was empty.
AddPush_signal_if_empty(a) ==
    /\ pc[a] = "push"
    /\ push(task[a])
    /\ \/ /\ waiting = {} \/ ~empty
          /\ UNCHANGED waiting
          /\ pc' = [pc EXCEPT ![a] = "unlock"]
       \/ /\ empty
          /\ \E w \in waiting :
              /\ waiting' = waiting \ {w}
              /\ pc' = [pc EXCEPT ![a] = "unlock", ![w] = "wake"]
    /\ UNCHANGED <<lock_, task>>

\* Mutant: condition_ is not signalled.
AddPush_no_signal(a) ==
    /\ pc[a] = "push"
    /\ push(task[a])
    /\ pc' = [pc EXCEPT ![a] = "unlock"]
    /\ UNCHANGED <<lock_, waiting, task>>

\* The while loop: a push that fails is tried again, lock_ still held; one that
\* succeeds signals condition_, which wakes one waiting worker if there is one.
AddPush(a) ==
    /\ pc[a] = "push"
    /\ push(task[a])
    /\ \/ /\ waiting = {}
          /\ UNCHANGED waiting
          /\ pc' = [pc EXCEPT ![a] = "unlock"]
       \/ \E w \in waiting :
              /\ waiting' = waiting \ {w}
              /\ pc' = [pc EXCEPT ![a] = "unlock", ![w] = "wake"]
    /\ UNCHANGED <<lock_, task>>

AddUnlock(a) ==
    /\ Unlock(a, "unlock", "idle")
    /\ task' = [task EXCEPT ![a] = Null]
    /\ UNCHANGED <<ring, waiting, history>>

(* single_thread.                                                          *)

\* Mutant: "IF" instead of "WHILE" around pthread_cond_wait.
WorkerLock_if(w) ==
    /\ Lock(w, "lock", "test") \/ Lock(w, "wake", "pop")
    /\ UNCHANGED <<ring, waiting, task, history>>

\* pthread_mutex_lock, or pthread_cond_wait taking the mutex again before it
\* returns into the test of the while loop.
WorkerLock(w) ==
    /\ Lock(w, "lock", "test") \/ Lock(w, "wake", "test")
    /\ UNCHANGED <<ring, waiting, task, history>>

\* pthread_cond_wait releases the mutex and waits, in one step.
WorkerWait(w) ==
    /\ empty
    /\ Unlock(w, "test", "wait")
    /\ waiting' = waiting \cup {w}
    /\ UNCHANGED <<ring, task, history>>

WorkerTest(w) ==
    /\ pc[w] = "test"
    /\ ~empty
    /\ pc' = [pc EXCEPT ![w] = "pop"]
    /\ UNCHANGED <<ring, lock_, waiting, task, history>>

WorkerPop(w) ==
    /\ pc[w] = "pop"
    /\ pop(w)
    /\ pc' = [pc EXCEPT ![w] = "popped"]
    /\ UNCHANGED <<lock_, waiting>>

WorkerUnlock(w) ==
    /\ Unlock(w, "popped", "run")
    /\ UNCHANGED <<ring, waiting, task, history>>

WorkerRun(w) ==
    /\ pc[w] = "run"
    /\ ran' = ran \cup {task[w]}
    /\ task' = [task EXCEPT ![w] = Null]
    /\ pc' = [pc EXCEPT ![w] = "lock"]
    /\ UNCHANGED <<ring, lock_, waiting, pushed, popped>>

\* POSIX lets pthread_cond_wait return without a signal.
SpuriousWakeup(w) ==
    /\ w \in waiting
    /\ waiting' = waiting \ {w}
    /\ pc' = [pc EXCEPT ![w] = "wake"]
    /\ UNCHANGED <<ring, lock_, task, history>>

Add(a) == AddLock(a) \/ AddPush(a) \/ AddUnlock(a)
Work(w) == WorkerWait(w) \/ WorkerTest(w) \/ WorkerPop(w) \/ WorkerUnlock(w) \/ WorkerRun(w)

PoolNext ==
    \/ \E a \in Adders : Add(a)
    \/ \E w \in Workers : WorkerLock(w) \/ Work(w) \/ SpuriousWakeup(w)

\* Threads keep running, and a mutex that is released again and again is
\* eventually granted to a thread that asks for it.
PoolFairness ==
    /\ \A a \in Adders : WF_poolVars(Add(a)) /\ SF_poolVars(AddLock(a))
    /\ \A w \in Workers : WF_poolVars(Work(w)) /\ SF_poolVars(WorkerLock(w))

PoolSafety == PoolInit /\ [][PoolNext]_poolVars
PoolSpec == PoolSafety /\ PoolFairness

-------------------------------------------------------------------------------
Pointers == Tasks \cup {Null}

PoolTypeOK ==
    /\ node_ \in [Nodes -> Pointers]
    /\ front_ \in Nodes
    /\ rear_ \in Nodes
    /\ lock_ \in Threads \cup {Null}
    /\ waiting \in SUBSET Workers
    /\ pc \in [Threads -> {"idle", "push", "unlock",
                          "lock", "test", "wait", "wake", "pop", "popped", "run"}]
    /\ task \in [Threads -> Pointers]
    /\ pushed \in Seq(Tasks)
    /\ popped \in Seq(Pointers)
    /\ ran \in SUBSET Pointers

\* Tasks in the ring: the distance from front_ to rear_.
Count == IF front_ <= rear_ THEN rear_ - front_ ELSE rear_ + Capacity + 1 - front_

\* The k-th node from front_ on, and the tasks from front_ to rear_.
Nth(k) == IF front_ + k - 1 <= Capacity THEN front_ + k - 1 ELSE front_ + k - 2 - Capacity
Queued == [k \in 1..Count |-> node_[Nth(k)]]

\* The ring is a FIFO however often it wraps: what was pushed is what was
\* popped followed by what it holds.  So no task is lost, run twice or
\* overtaken, and no worker is handed a null pointer.
RingIsFIFO == pushed = popped \o Queued

AtAdder == {"idle", "push", "unlock"}
AtWorker == {"lock", "test", "wait", "wake", "pop", "popped", "run"}
Holding == {"push", "unlock", "test", "pop", "popped"}

\* The discipline both routines rely on: the thread inside a critical section is
\* the one that holds lock_, pthread_cond_wait keeps exactly its callers asleep,
\* and a worker about to pop has found a task that nobody else can take.
Discipline ==
    /\ \A a \in Adders : pc[a] \in AtAdder /\ (pc[a] = "push" => task[a] \in Tasks)
    /\ \A w \in Workers : pc[w] \in AtWorker /\ (pc[w] = "pop" => ~empty)
    /\ \A x \in Threads : pc[x] \in Holding <=> lock_ = x
    /\ waiting = {w \in Workers : pc[w] = "wait"}

\* Workers that will look at the queue before they sleep or run a task.
Looking == {w \in Workers : pc[w] \in {"lock", "wake", "test", "pop"}}

\* No lost wakeup: while a worker sleeps, the queue holds no more tasks than
\* there are other workers on their way to it.
NoLostWakeup == waiting # {} => Count <= Cardinality(Looking)

\* A caller that holds lock_ and finds the ring full: nobody can make room.
Stuck == full /\ \E a \in Adders : pc[a] = "push"

\* Every task is run, however workers sleep, race and wake up, unless a caller
\* gets stuck at a full ring: nothing else can stop the pool.
AllRunUnlessStuck == <>(Tasks \subseteq ran \/ Stuck)
===============================================================================

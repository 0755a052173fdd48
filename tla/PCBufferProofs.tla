---------------------------- MODULE PCBufferProofs ----------------------------
(***************************************************************************)
(* Proofs about PCBuffer, for any set of columns, threads and contents,    *)
(* any capacity and any number of attempts, and about the LoserTree its    *)
(* get_sorted merges the columns with, for any number of leaves and any    *)
(* keys.                                                                   *)
(***************************************************************************)
EXTENDS PCBuffer, LoserTree, SequenceTheorems, FiniteSetTheorems, WellFoundedInduction, TLAPS

-------------------------------------------------------------------------------
(* PCBuffer.                                                               *)

\* push and pop keep the types of the two lists and of the pool's memory.
LEMMA PushPopType ==
    ASSUME TypeOK, NEW t \in Threads
    PROVE  /\ push(column[t], block[t]) =>
                 /\ emptys_' \in [Columns -> Seq(Pool)]
                 /\ blocks_' \in [Columns -> Seq(Pool)]
                 /\ addr' \in [Columns -> [Pool -> Blocks \cup {Garbage}]]
           /\ pop(column[t], t) =>
                 /\ emptys_' \in [Columns -> Seq(Pool)]
                 /\ blocks_' \in [Columns -> Seq(Pool)]
                 /\ addr' \in [Columns -> [Pool -> Blocks \cup {Garbage}]]
                 /\ block' \in [Threads -> Blocks \cup {Garbage}]
<1> DEFINE c == column[t]
<1>1. c \in Columns /\ block[t] \in Blocks \cup {Garbage}
  BY DEF TypeOK
<1>2. emptys_[c] \in Seq(Pool) /\ blocks_[c] \in Seq(Pool)
  BY <1>1 DEF TypeOK
<1> HIDE DEF c
<1>3. ASSUME push(c, block[t])
      PROVE  /\ emptys_' \in [Columns -> Seq(Pool)]
             /\ blocks_' \in [Columns -> Seq(Pool)]
             /\ addr' \in [Columns -> [Pool -> Blocks \cup {Garbage}]]
  <2>1. Head(emptys_[c]) \in Pool /\ Tail(emptys_[c]) \in Seq(Pool)
    BY <1>2, <1>3, HeadTailProperties DEF push
  <2>2. Append(blocks_[c], Head(emptys_[c])) \in Seq(Pool)
    BY <1>2, <2>1, AppendProperties
  <2> QED BY <1>1, <1>3, <2>1, <2>2 DEF push, TypeOK
<1>4. ASSUME pop(c, t)
      PROVE  /\ emptys_' \in [Columns -> Seq(Pool)]
             /\ blocks_' \in [Columns -> Seq(Pool)]
             /\ addr' \in [Columns -> [Pool -> Blocks \cup {Garbage}]]
             /\ block' \in [Threads -> Blocks \cup {Garbage}]
  <2>1. Head(blocks_[c]) \in Pool /\ Tail(blocks_[c]) \in Seq(Pool)
    BY <1>2, <1>4, HeadTailProperties DEF pop
  <2>2. Append(emptys_[c], Head(blocks_[c])) \in Seq(Pool)
    BY <1>2, <2>1, AppendProperties
  <2>3. addr[c][Head(blocks_[c])] \in Blocks \cup {Garbage}
    BY <1>1, <2>1 DEF TypeOK
  <2> QED BY <1>1, <1>4, <2>1, <2>2, <2>3 DEF pop, TypeOK
<1> QED BY <1>3, <1>4 DEF c

\* The counters, results and arguments keep their types when a call makes
\* another attempt or returns.
LEMMA ReturnType ==
    ASSUME TypeOK, NEW t \in Threads, NEW r \in BOOLEAN
    PROVE  /\ Return(t, r) => /\ op' \in [Threads -> {"idle", "put", "get"}]
                              /\ column' \in [Threads -> Columns]
                              /\ seconds_' \in [Threads -> 0..(Attempts - 1)]
                              /\ ok' \in [Threads -> BOOLEAN]
           /\ Again(t) => TypeOK'
           /\ GiveUp(t) => TypeOK'
<1>1. Return(t, r) => /\ op' \in [Threads -> {"idle", "put", "get"}]
                      /\ column' \in [Threads -> Columns]
                      /\ seconds_' \in [Threads -> 0..(Attempts - 1)]
                      /\ ok' \in [Threads -> BOOLEAN]
  BY ConstantsAssumption DEF Return, TypeOK
<1>2. Again(t) => TypeOK'
  <2> SUFFICES ASSUME Again(t) PROVE TypeOK'
    OBVIOUS
  <2>1. seconds_[t] + 1 \in 0..(Attempts - 1)
    BY ConstantsAssumption DEF Again, TypeOK
  <2> QED BY <2>1 DEF Again, TypeOK, queue
<1>3. GiveUp(t) => TypeOK'
  BY ConstantsAssumption DEF GiveUp, Return, TypeOK, queue
<1> QED BY <1>1, <1>2, <1>3

\* The type invariant: in particular the attempt counter of a call stays below
\* the bound at which put and get give up.
THEOREM TypeCorrect == Safety => []TypeOK
<1>1. Init => TypeOK
  <2> SUFFICES ASSUME Init PROVE TypeOK
    OBVIOUS
  <2>1. [k \in Pool |-> k] \in Seq(Pool)
    BY ConstantsAssumption, IsASeq DEF Pool
  <2> QED BY <2>1, ConstantsAssumption DEF Init, TypeOK
<1>2. TypeOK /\ [Next]_vars => TypeOK'
  <2> SUFFICES ASSUME TypeOK, [Next]_vars PROVE TypeOK'
    OBVIOUS
  <2>1. CASE UNCHANGED vars
    BY <2>1 DEF vars, TypeOK
  <2>2. ASSUME NEW t \in Threads, NEW c \in Columns, NEW b \in Blocks, CallPut(t, c, b)
        PROVE  TypeOK'
    BY <2>2, ConstantsAssumption DEF CallPut, Call, TypeOK, queue
  <2>3. ASSUME NEW t \in Threads, NEW c \in Columns, CallGet(t, c)
        PROVE  TypeOK'
    BY <2>3, ConstantsAssumption DEF CallGet, Call, TypeOK, queue
  <2>4. ASSUME NEW t \in Threads, put(t)
        PROVE  TypeOK'
    <3>1. CASE push(column[t], block[t]) /\ Return(t, TRUE) /\ UNCHANGED block
      BY <3>1, PushPopType, ReturnType DEF TypeOK
    <3> QED BY <2>4, <3>1, ReturnType DEF put
  <2>5. ASSUME NEW t \in Threads, get(t)
        PROVE  TypeOK'
    <3>1. CASE pop(column[t], t) /\ Return(t, TRUE)
      BY <3>1, PushPopType, ReturnType DEF TypeOK
    <3> QED BY <2>5, <3>1, ReturnType DEF get
  <2> QED BY <2>1, <2>2, <2>3, <2>4, <2>5 DEF Next
<1> QED BY <1>1, <1>2, PTL DEF Safety

-------------------------------------------------------------------------------
\* Moving the head of one duplicate-free list to the end of another one that
\* shares nothing with it keeps both properties and the total length: what
\* push does from emptys_ to blocks_, and pop from blocks_ to emptys_.
LEMMA MoveHead ==
    ASSUME NEW S, NEW x \in Seq(S), NEW u \in Seq(S), x # <<>>, Partition(x, u)
    PROVE  Partition(Tail(x), Append(u, Head(x)))
<1>1. /\ Len(x) \in Nat \ {0} /\ Len(u) \in Nat
      /\ Head(x) = x[1] /\ Head(x) \in S
      /\ Tail(x) \in Seq(S) /\ Len(Tail(x)) = Len(x) - 1
      /\ \A i \in 1..Len(Tail(x)) : Tail(x)[i] = x[i + 1]
  BY HeadTailProperties, EmptySeq, LenProperties
<1>2. /\ Len(Append(u, Head(x))) = Len(u) + 1
      /\ \A i \in 1..Len(u) : Append(u, Head(x))[i] = u[i]
      /\ Append(u, Head(x))[Len(u) + 1] = x[1]
  BY <1>1, AppendProperties
<1>3. Injective(Tail(x))
  <2> SUFFICES ASSUME NEW i \in 1..Len(Tail(x)), NEW j \in 1..Len(Tail(x)),
                      Tail(x)[i] = Tail(x)[j]
               PROVE  i = j
    BY DEF Injective
  <2>1. i + 1 \in 1..Len(x) /\ j + 1 \in 1..Len(x) /\ x[i + 1] = x[j + 1]
    BY <1>1
  <2> QED BY <2>1 DEF Injective, Partition
<1>4. Injective(Append(u, Head(x)))
  <2> DEFINE v == Append(u, Head(x))
  <2> SUFFICES ASSUME NEW i \in 1..Len(v), NEW j \in 1..Len(v), v[i] = v[j]
               PROVE  i = j
    BY DEF Injective
  <2>1. CASE i \in 1..Len(u) /\ j \in 1..Len(u)
    BY <1>2, <2>1 DEF Injective, Partition
  <2>2. CASE i = Len(u) + 1 /\ j \in 1..Len(u)
    BY <1>1, <1>2, <2>2 DEF Disjoint, Partition
  <2>3. CASE j = Len(u) + 1 /\ i \in 1..Len(u)
    BY <1>1, <1>2, <2>3 DEF Disjoint, Partition
  <2> QED BY <1>1, <1>2, <2>1, <2>2, <2>3
<1>5. Disjoint(Tail(x), Append(u, Head(x)))
  <2> SUFFICES ASSUME NEW i \in 1..Len(Tail(x)), NEW j \in 1..Len(Append(u, Head(x)))
               PROVE  Tail(x)[i] # Append(u, Head(x))[j]
    BY DEF Disjoint
  <2>1. i + 1 \in 1..Len(x) /\ i + 1 # 1 /\ Tail(x)[i] = x[i + 1]
    BY <1>1
  <2>2. CASE j \in 1..Len(u)
    BY <1>2, <2>1, <2>2 DEF Disjoint, Partition
  <2>3. CASE j = Len(u) + 1
    BY <1>1, <1>2, <2>1, <2>3 DEF Injective, Partition
  <2> QED BY <1>1, <1>2, <2>2, <2>3
<1> QED BY <1>1, <1>2, <1>3, <1>4, <1>5 DEF Partition

\* A partition is one whichever list comes first.
LEMMA PartitionSymmetric ==
    ASSUME NEW S, NEW x \in Seq(S), NEW u \in Seq(S), Partition(x, u)
    PROVE  Partition(u, x)
<1>1. Len(x) \in Nat /\ Len(u) \in Nat
  BY LenProperties
<1> QED BY <1>1 DEF Partition, Disjoint

\* No reachable state of the buffer has lost a pool block or lists one twice.
THEOREM PoolPartitioned == Safety => []PoolPartition
<1>1. Init => PoolPartition
  <2> SUFFICES ASSUME Init, NEW c \in Columns
               PROVE  Partition(emptys_[c], blocks_[c])
    BY DEF PoolPartition
  <2> DEFINE x == [k \in 1..Capacity |-> k]
  <2>1. x \in Seq(Pool) /\ Len(x) = Capacity /\ \A k \in 1..Capacity : x[k] = k
    BY ConstantsAssumption DEF Pool
  <2>2. emptys_[c] = x /\ blocks_[c] = <<>>
    BY DEF Init, Pool
  <2> HIDE DEF x
  <2>3. Injective(x) /\ Injective(<<>>) /\ Disjoint(x, <<>>)
    BY <2>1 DEF Injective, Disjoint
  <2> QED BY <2>1, <2>2, <2>3, ConstantsAssumption DEF Partition
<1>2. TypeOK /\ PoolPartition /\ [Next]_vars => PoolPartition'
  <2> SUFFICES ASSUME TypeOK, PoolPartition, [Next]_vars PROVE PoolPartition'
    OBVIOUS
  <2>1. ASSUME UNCHANGED queue PROVE PoolPartition'
    BY <2>1 DEF queue, PoolPartition
  <2>2. ASSUME NEW t \in Threads, push(column[t], block[t]) PROVE PoolPartition'
    <3> DEFINE c == column[t]
    <3>1. c \in Columns /\ emptys_[c] \in Seq(Pool) /\ blocks_[c] \in Seq(Pool)
      BY DEF TypeOK
    <3>2. /\ emptys_'[c] = Tail(emptys_[c])
          /\ blocks_'[c] = Append(blocks_[c], Head(emptys_[c]))
      BY <2>2, <3>1 DEF push, TypeOK
    <3>3. \A d \in Columns \ {c} : emptys_'[d] = emptys_[d] /\ blocks_'[d] = blocks_[d]
      BY <2>2 DEF push, TypeOK
    <3>4. Partition(Tail(emptys_[c]), Append(blocks_[c], Head(emptys_[c])))
      BY <2>2, <3>1, MoveHead DEF push, PoolPartition
    <3> QED BY <3>2, <3>3, <3>4 DEF PoolPartition
  <2>3. ASSUME NEW t \in Threads, pop(column[t], t) PROVE PoolPartition'
    <3> DEFINE c == column[t]
    <3>1. c \in Columns /\ emptys_[c] \in Seq(Pool) /\ blocks_[c] \in Seq(Pool)
      BY DEF TypeOK
    <3>2. /\ blocks_'[c] = Tail(blocks_[c])
          /\ emptys_'[c] = Append(emptys_[c], Head(blocks_[c]))
      BY <2>3, <3>1 DEF pop, TypeOK
    <3>3. \A d \in Columns \ {c} : emptys_'[d] = emptys_[d] /\ blocks_'[d] = blocks_[d]
      BY <2>3 DEF pop, TypeOK
    <3>4. Partition(blocks_[c], emptys_[c])
      BY <3>1, PartitionSymmetric DEF PoolPartition
    <3>5. Partition(Tail(blocks_[c]), Append(emptys_[c], Head(blocks_[c])))
      BY <2>3, <3>1, <3>4, MoveHead DEF pop
    <3>6. /\ Tail(blocks_[c]) \in Seq(Pool)
          /\ Append(emptys_[c], Head(blocks_[c])) \in Seq(Pool)
      BY <2>3, <3>1, HeadTailProperties, AppendProperties DEF pop
    <3>7. Partition(emptys_'[c], blocks_'[c])
      BY <3>2, <3>5, <3>6, PartitionSymmetric
    <3> QED BY <3>3, <3>7 DEF PoolPartition
  <2> QED
    BY <2>1, <2>2, <2>3
    DEF Next, CallPut, CallGet, Call, put, get, Again, GiveUp, vars, queue
<1> QED BY <1>1, <1>2, TypeCorrect, PTL DEF Safety

-------------------------------------------------------------------------------
\* push appends to the contents of its column: the pool block it overwrites is
\* not one that holds a queued block.
LEMMA PushContents ==
    ASSUME TypeOK, PoolPartition,
           NEW d \in Columns, NEW b \in Blocks \cup {Garbage}, push(d, b)
    PROVE  /\ Len(Contents(d)) < Capacity
           /\ [c \in Columns |-> Contents(c)]'
                 = [[c \in Columns |-> Contents(c)] EXCEPT ![d] = Append(@, b)]
<1> DEFINE h == Head(emptys_[d])
           len == Len(blocks_[d])
<1>1. emptys_[d] \in Seq(Pool) /\ blocks_[d] \in Seq(Pool) /\ emptys_[d] # <<>>
  BY DEF TypeOK, push
<1>2. len \in Nat /\ Len(emptys_[d]) \in Nat \ {0} /\ h = emptys_[d][1] /\ h \in Pool
  BY <1>1, LenProperties, EmptySeq, HeadTailProperties
<1>3. len < Capacity /\ \A i \in 1..len : blocks_[d][i] # h
  <2>1. Partition(emptys_[d], blocks_[d])
    BY DEF PoolPartition
  <2>2. len < Capacity
    <3> DEFINE m == Len(emptys_[d])
    <3>1. m \in Nat \ {0} /\ len \in Nat /\ m + len = Capacity
      BY <1>2, <2>1 DEF Partition
    <3> HIDE DEF m, len
    <3> QED BY <3>1, ConstantsAssumption
  <2>3. \A i \in 1..len : blocks_[d][i] # h
    BY <1>2, <2>1 DEF Partition, Disjoint
  <2> QED BY <2>2, <2>3
<1>4. /\ blocks_'[d] = Append(blocks_[d], h)
      /\ addr'[d][h] = b
      /\ \A k \in Pool \ {h} : addr'[d][k] = addr[d][k]
      /\ \A c \in Columns \ {d} : blocks_'[c] = blocks_[c] /\ addr'[c] = addr[c]
  BY <1>1, <1>2 DEF push, TypeOK
<1>5. /\ Len(blocks_'[d]) = len + 1
      /\ \A i \in 1..len : blocks_'[d][i] = blocks_[d][i]
      /\ blocks_'[d][len + 1] = h
  BY <1>1, <1>2, <1>4, AppendProperties
<1>6. Contents(d) \in Seq(Blocks \cup {Garbage}) /\ Len(Contents(d)) = len
  <2>1. \A i \in 1..len : addr[d][blocks_[d][i]] \in Blocks \cup {Garbage}
    BY <1>1, ElementOfSeq DEF TypeOK
  <2> QED BY <1>2, <2>1 DEF Contents
<1>7. Contents(d)' = Append(Contents(d), b)
  <2>1. Contents(d)' = [i \in 1..(len + 1) |-> addr'[d][blocks_'[d][i]]]
    BY <1>5 DEF Contents
  <2>2. \A i \in 1..len : addr'[d][blocks_'[d][i]] = Contents(d)[i]
    BY <1>1, <1>3, <1>4, <1>5, ElementOfSeq DEF Contents
  <2>3. addr'[d][blocks_'[d][len + 1]] = b
    BY <1>4, <1>5
  <2>4. /\ Append(Contents(d), b) \in Seq(Blocks \cup {Garbage})
        /\ Len(Append(Contents(d), b)) = len + 1
        /\ \A i \in 1..len : Append(Contents(d), b)[i] = Contents(d)[i]
        /\ Append(Contents(d), b)[len + 1] = b
    BY <1>6, AppendProperties
  <2> DEFINE new == Contents(d)'
             app == Append(Contents(d), b)
  <2> HIDE DEF h, len
  <2>5. \A i \in 1..(len + 1) : i \in 1..len \/ i = len + 1
    BY <1>2
  <2>6. \A i \in 1..(len + 1) : new[i] = app[i]
    BY <2>1, <2>2, <2>3, <2>4, <2>5
  <2>7. new = [i \in 1..(len + 1) |-> new[i]] /\ app = [i \in 1..(len + 1) |-> app[i]]
    BY <1>2, <2>1, <2>4, LenProperties
  <2> HIDE DEF new, app
  <2>8. new = app
    BY <2>6, <2>7
  <2> QED BY <2>8 DEF new, app
<1>8. \A c \in Columns \ {d} : Contents(c)' = Contents(c)
  BY <1>4 DEF Contents
<1> HIDE DEF h, len
<1>9. [c \in Columns |-> Contents(c)]'
        = [[c \in Columns |-> Contents(c)] EXCEPT ![d] = Append(@, b)]
  BY <1>1, <1>7, <1>8
<1> QED BY <1>3, <1>6, <1>9

\* pop removes the oldest contents of its column and hands them over.
LEMMA PopContents ==
    ASSUME TypeOK, NEW d \in Columns, NEW t \in Threads, pop(d, t)
    PROVE  /\ Contents(d) # <<>>
           /\ block' = [block EXCEPT ![t] = Head(Contents(d))]
           /\ [c \in Columns |-> Contents(c)]'
                 = [[c \in Columns |-> Contents(c)] EXCEPT ![d] = Tail(@)]
<1> DEFINE len == Len(blocks_[d])
<1>1. blocks_[d] \in Seq(Pool) /\ blocks_[d] # <<>>
  BY DEF TypeOK, pop
<1>2. len \in Nat \ {0} /\ Head(blocks_[d]) = blocks_[d][1]
  BY <1>1, EmptySeq
<1>3. /\ blocks_'[d] = Tail(blocks_[d])
      /\ addr' = addr
      /\ \A c \in Columns \ {d} : blocks_'[c] = blocks_[c]
  BY <1>1 DEF pop, TypeOK
<1>4. /\ Len(blocks_'[d]) = len - 1
      /\ \A i \in 1..(len - 1) : blocks_'[d][i] = blocks_[d][i + 1]
  BY <1>1, <1>3, HeadTailProperties
<1>5. Contents(d) \in Seq(Blocks \cup {Garbage}) /\ Len(Contents(d)) = len
  <2>1. \A i \in 1..len : addr[d][blocks_[d][i]] \in Blocks \cup {Garbage}
    BY <1>1, ElementOfSeq DEF TypeOK
  <2> QED BY <1>2, <2>1 DEF Contents
<1>6. Contents(d) # <<>> /\ Head(Contents(d)) = addr[d][Head(blocks_[d])]
  BY <1>2, <1>5 DEF Contents
<1>7. Contents(d)' = Tail(Contents(d))
  <2>1. Contents(d)' = [i \in 1..(len - 1) |-> addr[d][blocks_'[d][i]]]
    BY <1>3, <1>4 DEF Contents
  <2>2. \A i \in 1..(len - 1) : addr[d][blocks_'[d][i]] = Contents(d)[i + 1]
    BY <1>2, <1>4 DEF Contents
  <2>3. /\ Tail(Contents(d)) \in Seq(Blocks \cup {Garbage})
        /\ Len(Tail(Contents(d))) = len - 1
        /\ \A i \in 1..(len - 1) : Tail(Contents(d))[i] = Contents(d)[i + 1]
    BY <1>5, <1>6, HeadTailProperties
  <2> DEFINE new == Contents(d)'
             tl  == Tail(Contents(d))
  <2> HIDE DEF len
  <2>4. \A i \in 1..(len - 1) : new[i] = tl[i]
    BY <2>1, <2>2, <2>3
  <2>5. new = [i \in 1..(len - 1) |-> new[i]] /\ tl = [i \in 1..(len - 1) |-> tl[i]]
    BY <2>1, <2>3, LenProperties
  <2> HIDE DEF new, tl
  <2>6. new = tl
    BY <2>4, <2>5
  <2> QED BY <2>6 DEF new, tl
<1>8. \A c \in Columns \ {d} : Contents(c)' = Contents(c)
  BY <1>3 DEF Contents
<1>9. block' = [block EXCEPT ![t] = Head(Contents(d))]
  BY <1>6 DEF pop
<1> HIDE DEF len
<1>10. [c \in Columns |-> Contents(c)]'
         = [[c \in Columns |-> Contents(c)] EXCEPT ![d] = Tail(@)]
  BY <1>1, <1>7, <1>8
<1> QED BY <1>6, <1>9, <1>10

\* The buffer implements one bounded FIFO per column: every completed put or
\* get is one atomic operation on the column, and every failed attempt, and
\* every move of a pool block, is invisible.
THEOREM Refinement == Safety => ImplementsFIFO
<1> DEFINE cols == [c \in Columns |-> Contents(c)]
<1>1. Init => Columns_!Init
  <2> SUFFICES ASSUME Init PROVE Columns_!Init
    OBVIOUS
  <2>1. ASSUME NEW c \in Columns PROVE Contents(c) = <<>>
    <3>1. blocks_[c] = <<>>
      BY DEF Init
    <3> QED BY <3>1 DEF Contents
  <2> QED BY <2>1 DEF Init, Columns_!Init
<1>2. TypeOK /\ PoolPartition /\ [Next]_vars => [Columns_!Next]_(Columns_!vars)
  <2> SUFFICES ASSUME TypeOK, PoolPartition, [Next]_vars
               PROVE  Columns_!Next \/ UNCHANGED Columns_!vars
    OBVIOUS
  <2>1. ASSUME UNCHANGED queue PROVE UNCHANGED cols
    BY <2>1 DEF queue, Contents
  <2>2. ASSUME UNCHANGED vars PROVE UNCHANGED Columns_!vars
    <3>1. UNCHANGED queue
      BY <2>2 DEF vars, queue
    <3>2. UNCHANGED cols
      BY <2>1, <3>1
    <3> QED BY <2>2, <3>2 DEF vars, Columns_!vars
  <2>3. ASSUME NEW t \in Threads, NEW c \in Columns, NEW b \in Blocks, CallPut(t, c, b)
        PROVE  Columns_!CallPut(t, c, b)
    BY <2>1, <2>3 DEF CallPut, Call, Columns_!CallPut
  <2>4. ASSUME NEW t \in Threads, NEW c \in Columns, CallGet(t, c)
        PROVE  Columns_!CallGet(t, c)
    BY <2>1, <2>4 DEF CallGet, Call, Columns_!CallGet
  <2>5. ASSUME NEW t \in Threads, put(t)
        PROVE  Columns_!Store(t) \/ Columns_!Refuse(t) \/ UNCHANGED Columns_!vars
    <3>1. PICK d \in Columns : d = column[t]
      BY DEF TypeOK
    <3>2. CASE push(d, block[t]) /\ Return(t, TRUE) /\ UNCHANGED block
      <4>1. PICK b \in Blocks \cup {Garbage} : b = block[t]
        BY DEF TypeOK
      <4>2. Len(cols[d]) < Capacity /\ cols' = [cols EXCEPT ![d] = Append(@, b)]
        BY <3>2, <4>1, PushContents
      <4>3. Columns_!Store(t)
        BY <2>5, <3>1, <3>2, <4>1, <4>2 DEF put, Return, Columns_!Store, Columns_!Return
      <4> QED BY <4>3
    <3>3. CASE emptys_[d] = <<>> /\ Again(t)
      BY <2>1, <3>3 DEF Again, Columns_!vars
    <3>4. CASE emptys_[d] = <<>> /\ GiveUp(t)
      <4>1. Partition(emptys_[d], blocks_[d]) /\ blocks_[d] \in Seq(Pool)
        BY DEF PoolPartition, TypeOK
      <4>2. Len(blocks_[d]) \in Nat /\ Len(emptys_[d]) = 0
        BY <3>4, <4>1, LenProperties
      <4>3. Len(blocks_[d]) = Capacity
        BY <4>1, <4>2, ConstantsAssumption DEF Partition
      <4>4. Len(cols[d]) = Capacity
        BY <4>3, ConstantsAssumption DEF Contents
      <4>5. Columns_!Refuse(t)
        BY <2>1, <2>5, <3>1, <3>4, <4>4 DEF put, GiveUp, Return, Columns_!Refuse, Columns_!Return
      <4> QED BY <4>5
    <3> QED BY <2>5, <3>1, <3>2, <3>3, <3>4 DEF put
  <2>6. ASSUME NEW t \in Threads, get(t)
        PROVE  Columns_!Deliver(t) \/ Columns_!Miss(t) \/ UNCHANGED Columns_!vars
    <3>1. PICK d \in Columns : d = column[t]
      BY DEF TypeOK
    <3>2. CASE pop(d, t) /\ Return(t, TRUE)
      <4>1. /\ cols[d] # <<>>
            /\ block' = [block EXCEPT ![t] = Head(cols[d])]
            /\ cols' = [cols EXCEPT ![d] = Tail(@)]
        BY <3>2, PopContents
      <4>2. Columns_!Deliver(t)
        BY <2>6, <3>1, <3>2, <4>1 DEF get, Return, Columns_!Deliver, Columns_!Return
      <4> QED BY <4>2
    <3>3. CASE blocks_[d] = <<>> /\ Again(t)
      BY <2>1, <3>3 DEF Again, Columns_!vars
    <3>4. CASE blocks_[d] = <<>> /\ GiveUp(t)
      <4>1. cols[d] = <<>>
        BY <3>4 DEF Contents
      <4>2. Columns_!Miss(t)
        BY <2>1, <2>6, <3>1, <3>4, <4>1 DEF get, GiveUp, Return, Columns_!Miss, Columns_!Return
      <4> QED BY <4>2
    <3> QED BY <2>6, <3>1, <3>2, <3>3, <3>4 DEF get
  <2> QED BY <2>2, <2>3, <2>4, <2>5, <2>6 DEF Next, Columns_!Next
<1> QED BY <1>1, <1>2, TypeCorrect, PoolPartitioned, PTL DEF Safety, ImplementsFIFO, Columns_!Spec

-------------------------------------------------------------------------------
(* LoserTree: the inductive invariant.                                     *)

\* Leaf i as a node of the tree, the leaf at a node, and the winner of what is
\* below a node.
nodeOf(i) == IF i <= lowExt THEN i + offset ELSE i - lowExt + n - 1
leafAt(q) == IF q >= 2 * s THEN q - offset ELSE q + lowExt - n + 1
Champ(q) == IF q \in Matches THEN champ[q] ELSE leafAt(q)

\* The first nodes of the levels: the least set with 1 and the double of each member.
Starts ==
    {q \in 1 .. 2 * n : \A S \in SUBSET (1 .. 2 * n) :
        1 \in S /\ (\A x \in S : 2 * x <= 2 * n => 2 * x \in S) => q \in S}

TreeType ==
    /\ tpc \in {"size", "matches", "climb", "idle", "rise"}
    /\ s \in 1 .. n - 1 /\ L \in [Leaves -> Keys]
    /\ B \in [0 .. n - 1 -> 0 .. n] /\ champ \in [Matches -> 0 .. n]
    /\ i_ \in 2 .. n + 2 /\ p_ \in Matches /\ temp1 \in 0 .. n

\* s begins the level above the lowest leaves.
Sized == s \in Starts /\ (tpc # "size" => n <= 2 * s)

\* i_ goes in steps of two, and n odd puts it on the odd numbers behind lowExt.
Counted ==
    \/ i_ % 2 = 0 /\ (n % 2 = 0 \/ i_ <= lowExt + 2)
    \/ i_ % 2 = 1 /\ n % 2 = 1 /\ i_ >= lowExt + 3

\* Match q is decided, between the winners of its children.
Played(q) ==
    /\ champ[q] \in Leaves /\ B[q] \in Leaves
    /\ {champ[q], B[q]} = {Champ(2 * q), Champ(2 * q + 1)}
    /\ L[champ[q]] <= L[B[q]]

\* While the tree is built: nodes are done from left to right on every level, a
\* match is done when its right child is, and a match whose left child alone is done
\* holds that child's winner; all but for the match play has just decided.
Done(q) == IF q \in Matches THEN champ[q] # 0 ELSE leafAt(q) <= i_ - 2
Current(q) == tpc = "climb" /\ q = p_
Building ==
    tpc \in {"matches", "climb"} =>
        /\ \A q \in Matches :
              /\ champ[q] # 0 => Done(2 * q) /\ Done(2 * q + 1) /\ Played(q)
              /\ champ[q] = 0 /\ Done(2 * q) /\ ~ Current(2 * q) => B[q] = Champ(2 * q)
              /\ champ[q] = 0 /\ Done(2 * q + 1) => Current(2 * q + 1)
        /\ \A q \in 2 .. 2 * n - 1 : Done(q) /\ q \notin Starts => Done(q - 1)
        /\ tpc = "climb" => /\ temp1 # 0 /\ champ[p_] = temp1
                            /\ p_ > 1 => champ[p_ \div 2] = 0
        /\ tpc = "matches" /\ champ[1] # 0 => B[0] = champ[1]
Unbuilt ==
    tpc = "size" => /\ i_ = 2 /\ champ = [p \in Matches |-> 0]
                    /\ B = [p \in 0 .. n - 1 |-> Unset]

\* No leaf is in B twice, or in B and on its way up.
Apart ==
    /\ \A q, r \in 0 .. n - 1 : B[q] # 0 /\ B[q] = B[r] => q = r
    /\ tpc = "climb" => \A q \in 0 .. n - 1 : B[q] # temp1
    /\ tpc \in {"matches", "climb"} =>
          /\ \A q \in 0 .. n - 1 : B[q] <= i_ - 2
          /\ tpc = "climb" => temp1 <= i_ - 2

\* While replay runs at p_, the matches above p_ still have the old winner, and the
\* entry of each is the winner of the child off the way.
Stale == {q \in 1 .. p_ - 1 : champ[q] = champ[1]}
OffTheWay(q) ==
    \/ 2 * q \in Stale \cup {p_} /\ B[q] = Champ(2 * q + 1)
    \/ 2 * q + 1 \in Stale \cup {p_} /\ B[q] = Champ(2 * q)
Standing ==
    /\ tpc = "idle" => B[0] = champ[1] /\ \A q \in Matches : Played(q)
    /\ tpc = "rise" =>
          /\ B[0] = champ[p_]
          /\ \A q \in Matches : champ[q] \in Leaves /\ B[q] \in Leaves
          /\ p_ > 1 => p_ \div 2 \in Stale
          /\ \A q \in Stale : /\ q <= p_ \div 2 /\ (q > 1 => q \div 2 \in Stale)
                             /\ OffTheWay(q) /\ B[q] # champ[1]
          /\ \A q \in Matches \ Stale : Played(q)

TreeInv == TreeType /\ Sized /\ Counted /\ Building /\ Unbuilt /\ Apart /\ Standing

-----------------------------------------------------------------------------
\* A set of natural numbers has a least element.
LEMMA Least ==
    ASSUME NEW S \in SUBSET Nat, S # {} PROVE \E x \in S : \A y \in S : x <= y
<1> DEFINE R == {a \in Nat \X Nat : a[1] < a[2]}
<1>1. IsWellFoundedOn(R, Nat)
  BY NatLessThanWellFounded DEF OpToRel
<1>2. \A a, b \in Nat : a < b => <<a, b>> \in R
  OBVIOUS
<1> HIDE DEF R
<1>3. PICK x \in S : \A y \in S : <<y, x>> \notin R
  BY <1>1, WFMin
<1>4. \A y \in S : ~(y < x)
  BY <1>2, <1>3
<1> QED BY <1>4

\* The levels: a first node is 1 or the double of a first node.
LEMMA StartsFacts ==
    /\ 1 \in Starts
    /\ \A x \in Starts : 2 * x <= 2 * n => 2 * x \in Starts
    /\ \A x \in Starts : x \in 1 .. 2 * n /\ (x = 1 \/ (x % 2 = 0 /\ x \div 2 \in Starts))
<1> USE TreeAssumption
<1> DEFINE Closed(S) == 1 \in S /\ \A x \in S : 2 * x <= 2 * n => 2 * x \in S
<1>0. Starts = {q \in 1 .. 2 * n : \A S \in SUBSET (1 .. 2 * n) : Closed(S) => q \in S}
  BY DEF Starts
<1> HIDE DEF Closed
<1>1. 1 \in Starts
  BY <1>0 DEF Closed
<1>2. ASSUME NEW x \in Starts, 2 * x <= 2 * n PROVE 2 * x \in Starts
  <2>1. x \in 1 .. 2 * n /\ 2 * x \in 1 .. 2 * n
    BY <1>0, <1>2
  <2>2. ASSUME NEW S \in SUBSET (1 .. 2 * n), Closed(S) PROVE 2 * x \in S
    <3>1. x \in S
      BY <1>0, <2>2
    <3> QED BY <1>2, <2>2, <3>1 DEF Closed
  <2> QED BY <1>0, <2>1, <2>2
<1> DEFINE T == {y \in Starts : y = 1 \/ (y % 2 = 0 /\ y \div 2 \in Starts)}
<1>3. T \in SUBSET (1 .. 2 * n)
  BY <1>0
<1>4. Closed(T)
  <2>1. 1 \in T
    BY <1>1
  <2>2. ASSUME NEW x \in T, 2 * x <= 2 * n PROVE 2 * x \in T
    <3>1. x \in Starts /\ x \in Nat
      BY <1>3
    <3>2. 2 * x \in Starts
      BY <1>2, <2>2, <3>1
    <3>3. (2 * x) % 2 = 0 /\ (2 * x) \div 2 = x
      BY <3>1
    <3> QED BY <3>1, <3>2, <3>3
  <2> QED BY <2>1, <2>2 DEF Closed
<1>5. \A x \in Starts : x \in T
  BY <1>0, <1>3, <1>4
<1>6. \A x \in Starts : x \in 1 .. 2 * n
  BY <1>0
<1> QED BY <1>1, <1>2, <1>5, <1>6

\* A node that does not begin a level has a child that does not, and right
\* children never do.
LEMMA StartsBelow ==
    ASSUME NEW q \in Matches
    PROVE  /\ q \notin Starts => 2 * q \notin Starts
           /\ 2 * q + 1 \notin Starts
<1> USE TreeAssumption
<1>1. /\ q \in Nat /\ q >= 1 /\ (2 * q) % 2 = 0 /\ (2 * q) \div 2 = q /\ 2 * q # 1
      /\ (2 * q + 1) % 2 # 0 /\ 2 * q + 1 # 1
  BY DEF Matches
<1> DEFINE d == 2 * q
           e == 2 * q + 1
<1>2. d % 2 = 0 /\ d \div 2 = q /\ d # 1 /\ e % 2 # 0 /\ e # 1
  BY <1>1
<1> HIDE DEF d, e
<1>3. (q \notin Starts => d \notin Starts) /\ e \notin Starts
  BY <1>2, StartsFacts
<1> QED BY <1>3 DEF d, e

\* The leaves are the nodes from n to 2n - 1.
LEMMA NodeFacts ==
    ASSUME s \in 1 .. n - 1, n <= 2 * s
    PROVE  /\ \A i \in Leaves : /\ nodeOf(i) \in n .. 2 * n - 1 /\ leafAt(nodeOf(i)) = i
                                /\ parent(i) = nodeOf(i) \div 2
           /\ \A q \in n .. 2 * n - 1 : leafAt(q) \in Leaves /\ nodeOf(leafAt(q)) = q
           /\ \A q \in 2 .. 2 * n - 1 : q \div 2 \in Matches /\ q \div 2 < q
           /\ \A q \in Matches : 2 * q \in 2 .. 2 * n - 1 /\ 2 * q + 1 \in 2 .. 2 * n - 1
BY TreeAssumption DEF Leaves, Matches, nodeOf, leafAt, parent, lowExt, offset

\* A match has one loser, and its winner is not greater.
LEMMA WinLose ==
    ASSUME NEW A \in [Leaves -> Keys], NEW l \in Leaves, NEW r \in Leaves
    PROVE  /\ win(A, l, r) \in Leaves /\ lose(A, l, r) \in Leaves
           /\ {win(A, l, r), lose(A, l, r)} = {l, r}
           /\ A[win(A, l, r)] <= A[lose(A, l, r)]
           /\ l # r => win(A, l, r) # lose(A, l, r)
<1>1. A[l] \in Nat /\ A[r] \in Nat
  BY TreeAssumption
<1> QED BY <1>1 DEF win, lose, compare

LEMMA TreeInitInv == TreeInit => TreeInv
<1> USE TreeAssumption
<1> SUFFICES ASSUME TreeInit PROVE TreeInv
  OBVIOUS
<1>1. TreeType
  BY DEF TreeInit, TreeType, Leaves, Matches, Unset
<1>2. Sized /\ Counted /\ Unbuilt
  BY StartsFacts DEF TreeInit, Sized, Counted, Unbuilt, lowExt
<1>3. Building /\ Apart /\ Standing
  BY DEF TreeInit, Building, Apart, Standing, Unset
<1> QED BY <1>1, <1>2, <1>3 DEF TreeInv

LEMMA SizeStep == ASSUME TreeInv, Size PROVE TreeInv'
<1> USE TreeAssumption
<1>1. /\ tpc = "size" /\ UNCHANGED <<L, B, i_, p_, temp1, champ>> /\ i_ = 2
      /\ champ = [p \in Matches |-> 0] /\ B = [p \in 0 .. n - 1 |-> 0]
  BY DEF TreeInv, Size, Unbuilt, Unset
<1>2. CASE Deeper
  <2>1. s' = 2 * s /\ tpc' = tpc /\ 2 * s <= n - 1 /\ s \in 1 .. n - 1
    BY <1>2 DEF TreeInv, TreeType, Size, Deeper
  <2>2. TreeType'
    BY <1>1, <2>1 DEF TreeInv, TreeType
  <2>3. Sized'
    BY <1>1, <2>1, StartsFacts DEF TreeInv, Sized
  <2>4. Counted' /\ Unbuilt'
    BY <1>1, <2>1 DEF Counted, Unbuilt, lowExt, Unset
  <2>5. Building' /\ Apart' /\ Standing'
    BY <1>1, <2>1 DEF Building, Apart, Standing
  <2> QED BY <2>2, <2>3, <2>4, <2>5 DEF TreeInv
<1>3. CASE ~ Deeper
  <2>1. s' = s /\ tpc' = "matches" /\ n <= 2 * s /\ s \in 1 .. n - 1
    BY <1>3 DEF TreeInv, TreeType, Size, Deeper
  <2>2. TreeType' /\ Sized'
    BY <1>1, <2>1 DEF TreeInv, TreeType, Sized
  <2>3. Counted' /\ Unbuilt'
    BY <1>1, <2>1 DEF Counted, Unbuilt, lowExt
  <2>4. ASSUME NEW q \in 2 .. 2 * n - 1 PROVE ~ Done(q)'
    <3>1. CASE q \in Matches
      BY <1>1, <3>1 DEF Done
    <3>2. CASE q \notin Matches
      <4>1. q \in n .. 2 * n - 1
        BY <3>2 DEF Matches
      <4>2. leafAt(q) \in 1 .. n
        BY <2>1, <4>1, NodeFacts DEF Leaves
      <4>3. leafAt(q)' = leafAt(q)
        BY <2>1 DEF leafAt, offset, lowExt
      <4> QED BY <1>1, <3>2, <4>2, <4>3 DEF Done
    <3> QED BY <3>1, <3>2
  <2>5. Building'
    <3>1. \A q \in Matches : champ'[q] = 0 /\ ~ Done(2 * q)' /\ ~ Done(2 * q + 1)'
      BY <1>1, <2>1, <2>4, NodeFacts
    <3>2. 1 \in Matches
      BY DEF Matches
    <3> QED BY <2>1, <2>4, <3>1, <3>2 DEF Building
  <2>6. Apart' /\ Standing'
    BY <1>1, <2>1 DEF Apart, Standing
  <2> QED BY <2>2, <2>3, <2>5, <2>6 DEF TreeInv
<1> QED BY <1>2, <1>3

-----------------------------------------------------------------------------
(* Building the tree.                                                      *)

\* What the invariant says between two matches and inside play, by parts.
LEMMA Parts ==
    ASSUME TreeInv, tpc \in {"matches", "climb"}
    PROVE  /\ \A q \in Matches :
                 /\ champ[q] # 0 => Done(2 * q) /\ Done(2 * q + 1) /\ Played(q)
                 /\ champ[q] = 0 /\ Done(2 * q) /\ ~ Current(2 * q) => B[q] = Champ(2 * q)
                 /\ champ[q] = 0 /\ Done(2 * q + 1) => Current(2 * q + 1)
           /\ \A q \in 2 .. 2 * n - 1 : Done(q) /\ q \notin Starts => Done(q - 1)
           /\ tpc = "climb" => /\ temp1 # 0 /\ champ[p_] = temp1
                               /\ p_ > 1 => champ[p_ \div 2] = 0
           /\ tpc = "matches" /\ champ[1] # 0 => B[0] = champ[1]
           /\ n <= 2 * s /\ s \in 1 .. n - 1 /\ s \in Starts
BY DEF TreeInv, Building, Sized, TreeType

\* A step of play decides a match p whose children are done.
Decides(p) ==
    /\ \A q \in 1 .. 2 * n - 1 : Champ(q)' = IF q = p THEN champ'[p] ELSE Champ(q)
    /\ \A q \in Matches : q # p => champ'[q] = champ[q] /\ B'[q] = B[q]

LEMMA DecidesByUpdate ==
    ASSUME TreeType, NEW p \in Matches, NEW w, NEW o, s' = s,
           champ' = [champ EXCEPT ![p] = w], B' = [B EXCEPT ![p] = o]
    PROVE  Decides(p) /\ champ'[p] = w /\ B'[p] = o
<1> USE TreeAssumption
<1>1. \A q : leafAt(q)' = leafAt(q)
  BY DEF leafAt, offset, lowExt
<1>2. \A q \in Matches : champ'[q] = IF q = p THEN w ELSE champ[q]
  BY DEF TreeType
<1>3. \A q \in 0 .. n - 1 : B'[q] = IF q = p THEN o ELSE B[q]
  BY DEF TreeType
<1>4. \A q \in Matches : q \in 0 .. n - 1
  BY DEF Matches
<1> QED BY <1>1, <1>2, <1>3, <1>4 DEF Decides, Champ

LEMMA DecidesPlayed ==
    ASSUME NEW p \in Matches, Decides(p), L' = L, champ[p] = 0,
           NEW q \in Matches, q # p, Played(q), 2 * q # p, 2 * q + 1 # p
    PROVE  Played(q)'
<1>1. champ'[q] = champ[q] /\ B'[q] = B[q]
  BY DEF Decides
<1>2. Champ(2 * q)' = Champ(2 * q) /\ Champ(2 * q + 1)' = Champ(2 * q + 1)
  <2>1. 2 * q \in 1 .. 2 * n - 1 /\ 2 * q + 1 \in 1 .. 2 * n - 1
    BY TreeAssumption DEF Matches
  <2> QED BY <2>1 DEF Decides
<1> QED BY <1>1, <1>2 DEF Played

\* The start of play at match p, between two operands that are the winners of its
\* children and in no other entry.
LEMMA PlayStep ==
    ASSUME TreeInv, tpc = "matches",
           NEW p \in Matches, NEW left \in Leaves, NEW right \in Leaves, left # right,
           play(p, left, right),
           i_' \in 2 .. n + 2, i_' > i_, Counted',
           champ[p] = 0, Champ(2 * p) = left, Champ(2 * p + 1) = right,
           \A q \in 2 .. 2 * n - 1 :
              Done(q)' <=> (Done(q) \/ q = p \/ q = 2 * p \/ q = 2 * p + 1),
           p \notin Starts => Done(p - 1), 2 * p \notin Starts => Done(2 * p - 1),
           \A q \in 0 .. n - 1 : q # p => B[q] # left /\ B[q] # right,
           left <= i_' - 2, right <= i_' - 2
    PROVE  TreeInv'
<1> USE TreeAssumption
<1> DEFINE w == win(L, left, right)
           o == lose(L, left, right)
<1>0. TreeType
  BY DEF TreeInv
<1>1. /\ w \in Leaves /\ o \in Leaves /\ {w, o} = {left, right} /\ L[w] <= L[o] /\ w # o
  <2>1. L \in [Leaves -> Keys]
    BY <1>0 DEF TreeType
  <2> QED BY <2>1, WinLose
<1>2. /\ B' = [B EXCEPT ![p] = o] /\ temp1' = w /\ champ' = [champ EXCEPT ![p] = w]
      /\ p_' = p /\ tpc' = "climb" /\ s' = s /\ L' = L
  BY DEF play
<1> HIDE DEF w, o
<1>3. p \in 0 .. n - 1 /\ p \in Nat /\ p >= 1 /\ w # 0 /\ o # 0 /\ w \in 1 .. n /\ o \in 1 .. n
  BY <1>1 DEF Matches, Leaves
<1>4. TreeType'
  BY <1>0, <1>2, <1>3 DEF TreeType
<1>5. Sized' /\ Unbuilt' /\ Standing'
  BY <1>2 DEF TreeInv, Sized, Unbuilt, Standing
<1>6. Decides(p) /\ champ'[p] = w /\ B'[p] = o
  BY <1>0, <1>2, <1>3, DecidesByUpdate
<1>7. Apart'
  <2>1. \A q \in 0 .. n - 1 : B'[q] = IF q = p THEN o ELSE B[q]
    BY <1>0, <1>2, <1>3 DEF TreeType
  <2>2. \A q, r \in 0 .. n - 1 : B[q] # 0 /\ B[q] = B[r] => q = r
    BY DEF TreeInv, Apart
  <2>3. \A q \in 0 .. n - 1 : B[q] <= i_ - 2 /\ B[q] \in 0 .. n
    BY <1>0 DEF TreeInv, Apart, TreeType
  <2>4. \A q \in 0 .. n - 1 : q # p => B[q] # o /\ B[q] # w
    BY <1>1
  <2>5. w <= i_' - 2 /\ o <= i_' - 2
    BY <1>1
  <2>6. \A q, r \in 0 .. n - 1 : B'[q] # 0 /\ B'[q] = B'[r] => q = r
    BY <2>1, <2>2, <2>4
  <2>7. \A q \in 0 .. n - 1 : B'[q] # temp1'
    BY <1>1, <1>2, <2>1, <2>4
  <2>8. \A q \in 0 .. n - 1 : B'[q] <= i_' - 2
    <3>1. i_ \in Int /\ i_' \in Int /\ i_ < i_'
      BY <1>0 DEF TreeType
    <3>2. \A q \in 0 .. n - 1 : B[q] <= i_' - 2
      BY <2>3, <3>1
    <3> QED BY <2>1, <2>5, <3>2
  <2> QED BY <1>2, <2>5, <2>6, <2>7, <2>8 DEF Apart
<1>8. Building'
  <2>0. n <= 2 * s /\ s \in 1 .. n - 1
    BY Parts
  <2>1. \A q \in Matches : /\ 2 * q \in 2 .. 2 * n - 1 /\ 2 * q + 1 \in 2 .. 2 * n - 1
                           /\ 2 * q \in 1 .. 2 * n - 1 /\ 2 * q + 1 \in 1 .. 2 * n - 1
                           /\ q \in Nat
    BY DEF Matches
  <2>2. ASSUME NEW q \in Matches, champ'[q] # 0
        PROVE  Done(2 * q)' /\ Done(2 * q + 1)' /\ Played(q)'
    <3>1. CASE q = p
      <4>1. 2 * p # p /\ 2 * p + 1 # p
        BY <1>3
      <4>2. Champ(2 * p)' = left /\ Champ(2 * p + 1)' = right
        BY <1>6, <2>1, <4>1 DEF Decides
      <4> QED BY <1>1, <1>2, <1>6, <2>1, <3>1, <4>2 DEF Played
    <3>2. CASE q # p
      <4>1. champ[q] # 0
        BY <1>6, <2>2, <3>2 DEF Decides
      <4>2. Done(2 * q) /\ Done(2 * q + 1) /\ Played(q)
        BY <4>1, Parts
      <4>3. 2 * q # p /\ 2 * q + 1 # p
        BY <4>2 DEF Done
      <4> QED BY <1>2, <1>6, <2>1, <3>2, <4>2, <4>3, DecidesPlayed
    <3> QED BY <3>1, <3>2
  <2>3. ASSUME NEW q \in Matches, champ'[q] = 0
        PROVE  /\ Done(2 * q)' /\ ~ Current(2 * q)' => B'[q] = Champ(2 * q)'
               /\ Done(2 * q + 1)' => Current(2 * q + 1)'
    <3>1. q # p /\ champ[q] = 0 /\ B'[q] = B[q]
      BY <1>3, <1>6, <2>3 DEF Decides
    <3>2. 2 * q # 2 * p /\ 2 * q # 2 * p + 1 /\ 2 * q + 1 # 2 * p /\ 2 * q + 1 # 2 * p + 1
      BY <1>3, <2>1, <3>1
    <3>3. ASSUME Done(2 * q)', ~ Current(2 * q)' PROVE B'[q] = Champ(2 * q)'
      <4>1. 2 * q # p
        BY <1>2, <3>3 DEF Current
      <4>2. Done(2 * q)
        BY <2>1, <3>2, <3>3, <4>1
      <4>3. ~ Current(2 * q)
        BY DEF Current
      <4>4. B[q] = Champ(2 * q)
        BY <3>1, <4>2, <4>3, Parts
      <4> QED BY <1>6, <2>1, <3>1, <4>1, <4>4 DEF Decides
    <3>4. ASSUME Done(2 * q + 1)' PROVE Current(2 * q + 1)'
      <4>1. ~ Done(2 * q + 1)
        BY <3>1, Parts DEF Current
      <4>2. 2 * q + 1 = p
        BY <2>1, <3>2, <3>4, <4>1
      <4> QED BY <1>2, <4>2 DEF Current
    <3> QED BY <3>3, <3>4
  <2>4. ASSUME NEW q \in 2 .. 2 * n - 1, Done(q)', q \notin Starts PROVE Done(q - 1)'
    <3>1. q - 1 \in 1 .. 2 * n - 1
      OBVIOUS
    <3>2. CASE q - 1 = p
      BY <1>2, <1>3, <1>6, <3>2 DEF Done
    <3>3. CASE q - 1 # p /\ Done(q)
      <4>1. Done(q - 1)
        BY <2>4, <3>3, Parts
      <4>2. CASE q - 1 = 1
        <5>1. 1 \in Matches
          BY DEF Matches
        <5> QED BY <1>6, <3>3, <4>1, <4>2, <5>1 DEF Done, Decides
      <4>3. CASE q - 1 # 1
        BY <3>1, <4>1, <4>3
      <4> QED BY <4>2, <4>3
    <3>4. CASE q - 1 # p /\ q = p
      <4>1. Done(q - 1)
        BY <2>4, <3>4
      <4>2. CASE q - 1 = 1
        <5>1. 1 \in Matches
          BY DEF Matches
        <5> QED BY <1>6, <3>4, <4>1, <4>2, <5>1 DEF Done, Decides
      <4>3. CASE q - 1 # 1
        BY <3>1, <4>1, <4>3
      <4> QED BY <4>2, <4>3
    <3>5. CASE q - 1 # p /\ q = 2 * p
      <4>1. Done(q - 1) /\ q - 1 = 2 * p - 1
        BY <2>4, <3>5
      <4>2. CASE q - 1 = 1
        BY <1>3, <3>5, <4>2
      <4>3. CASE q - 1 # 1
        BY <3>1, <4>1, <4>3
      <4> QED BY <4>2, <4>3
    <3>6. CASE q = 2 * p + 1
      <4>1. q - 1 = 2 * p /\ 2 * p \in 2 .. 2 * n - 1
        BY <1>3, <2>1, <3>6
      <4> QED BY <4>1
    <3>7. Done(q) \/ q = p \/ q = 2 * p \/ q = 2 * p + 1
      BY <2>4
    <3> QED BY <3>2, <3>3, <3>4, <3>5, <3>6, <3>7
  <2>5. p_' > 1 => champ'[p_' \div 2] = 0
    <3> SUFFICES ASSUME p > 1 PROVE champ'[p \div 2] = 0
      BY <1>2
    <3> DEFINE h == p \div 2
    <3>1. h \in Matches /\ h # p /\ (p = 2 * h \/ p = 2 * h + 1)
      BY <1>3 DEF Matches
    <3> HIDE DEF h
    <3>2. ~ Done(p)
      BY DEF Done
    <3>3. champ[h] = 0
      BY <3>1, <3>2, Parts
    <3> QED BY <1>6, <3>1, <3>3 DEF Decides, h
  <2> QED BY <1>2, <1>3, <1>6, <2>2, <2>3, <2>4, <2>5 DEF Building
<1> QED BY <1>4, <1>5, <1>7, <1>8 DEF TreeInv

\* A leaf is done from the match that takes it on.
LEMMA DoneLeaf ==
    ASSUME TreeInv, tpc = "matches", NEW p \in Matches, NEW left, NEW right,
           play(p, left, right), NEW i \in Int, i_' = i, left # right, left \in Leaves, right \in Leaves
    PROVE  \A q \in 2 .. 2 * n - 1 :
              Done(q)' <=> IF q \in Matches THEN Done(q) \/ q = p ELSE leafAt(q) <= i - 2
<1> USE TreeAssumption
<1>1. TreeType
  BY DEF TreeInv
<1>2. \A q : leafAt(q)' = leafAt(q)
  BY DEF play, leafAt, offset, lowExt
<1>3. win(L, left, right) # 0
  BY DEF win, Leaves
<1>4. \A q \in Matches : champ'[q] = IF q = p THEN win(L, left, right) ELSE champ[q]
  BY <1>1 DEF play, TreeType
<1> QED BY <1>2, <1>3, <1>4 DEF Done

\* On the lowest level.
LEMMA LowStep == ASSUME TreeInv, LowMatch PROVE TreeInv'
<1> USE TreeAssumption
<1> DEFINE p == (i_ + offset) \div 2
<1>0. TreeType /\ Counted /\ tpc = "matches" /\ i_ % 2 = 0 /\ i_ <= lowExt /\ i_' = i_ + 2
  BY DEF TreeInv, LowMatch
<1>1. n <= 2 * s /\ s \in 1 .. n - 1 /\ s \in Starts /\ i_ \in Int /\ i_ >= 2
  BY <1>0, Parts DEF TreeType
<1>2. play(p, i_ - 1, i_) /\ s' = s
  BY DEF LowMatch, play
<1>3. /\ p \in Matches /\ 2 * p + 1 = i_ + offset /\ 2 * p = i_ - 1 + offset /\ p >= s
      /\ i_ - 1 \in Leaves /\ i_ \in Leaves /\ i_ - 1 # i_
      /\ 2 * p >= 2 * s /\ 2 * p >= n
  BY <1>0, <1>1 DEF Matches, Leaves, lowExt, offset
<1>4. 2 * p \notin Matches /\ 2 * p + 1 \notin Matches
  BY <1>3 DEF Matches
<1>5. leafAt(2 * p) = i_ - 1 /\ leafAt(2 * p + 1) = i_
  BY <1>1, <1>3 DEF leafAt, offset
<1> HIDE DEF p
<1>6. Champ(2 * p) = i_ - 1 /\ Champ(2 * p + 1) = i_
  BY <1>4, <1>5 DEF Champ
<1>7. ~ Done(2 * p + 1)
  BY <1>1, <1>4, <1>5 DEF Done
<1>8. champ[p] = 0
  BY <1>0, <1>3, <1>7, Parts
<1>9. \A q \in 2 .. 2 * n - 1 :
         Done(q)' <=> (Done(q) \/ q = p \/ q = 2 * p \/ q = 2 * p + 1)
  <2>1. \A q \in 2 .. 2 * n - 1 :
           Done(q)' <=> IF q \in Matches THEN Done(q) \/ q = p ELSE leafAt(q) <= i_
    <3>1. i_ + 2 \in Int /\ (i_ + 2) - 2 = i_
      BY <1>1
    <3>2. i_' = i_ + 2
      BY <1>0
    <3> DEFINE j == i_ + 2
    <3>3. j \in Int /\ j - 2 = i_ /\ i_' = j
      BY <3>1, <3>2
    <3> HIDE DEF j
    <3> QED BY <1>0, <1>2, <1>3, <3>3, DoneLeaf
  <2>2. ASSUME NEW q \in 2 .. 2 * n - 1, q \notin Matches
        PROVE  leafAt(q) <= i_ <=> Done(q) \/ q = 2 * p \/ q = 2 * p + 1
    <3>1. Done(q) <=> leafAt(q) <= i_ - 2
      BY <2>2 DEF Done
    <3>2. q \in n .. 2 * n - 1
      BY <2>2 DEF Matches
    <3>3. leafAt(q) \in 1 .. n /\ nodeOf(leafAt(q)) = q
      BY <1>1, <3>2, NodeFacts DEF Leaves
    <3>4. nodeOf(i_) = 2 * p + 1 /\ nodeOf(i_ - 1) = 2 * p
      BY <1>0, <1>1, <1>3 DEF nodeOf, lowExt
    <3>5. leafAt(q) <= i_ <=> leafAt(q) <= i_ - 2 \/ leafAt(q) = i_ - 1 \/ leafAt(q) = i_
      BY <1>1, <3>3
    <3>6. (leafAt(q) = i_ => q = 2 * p + 1) /\ (leafAt(q) = i_ - 1 => q = 2 * p)
      BY <3>3, <3>4
    <3> QED BY <1>5, <3>1, <3>5, <3>6
  <2> QED BY <1>3, <1>4, <2>1, <2>2
<1>10. 2 * p \notin Starts => Done(2 * p - 1)
  <2> SUFFICES ASSUME 2 * p \notin Starts PROVE Done(2 * p - 1)
    OBVIOUS
  <2>1. 2 * s \in Starts
    BY <1>1, StartsFacts
  <2>2. 2 * p # 2 * s
    BY <2>1
  <2>3. 2 * p - 1 >= 2 * s /\ 2 * p - 1 \notin Matches /\ leafAt(2 * p - 1) = i_ - 2
    BY <1>1, <1>3, <2>2 DEF Matches, leafAt, offset
  <2> QED BY <1>1, <2>3 DEF Done
<1>11. p \notin Starts => Done(p - 1)
  <2> SUFFICES ASSUME p \notin Starts PROVE Done(p - 1)
    OBVIOUS
  <2>1. p # 1 /\ p - 1 \in Matches /\ 2 * (p - 1) + 1 = 2 * p - 1
    BY <1>3, StartsFacts DEF Matches
  <2>2. Done(2 * (p - 1) + 1)
    BY <1>3, <1>10, <2>1, StartsBelow
  <2>3. champ[p - 1] # 0
    BY <1>0, <2>1, <2>2, Parts DEF Current
  <2> QED BY <2>1, <2>3 DEF Done
<1>12. \A q \in 0 .. n - 1 : q # p => B[q] # i_ - 1 /\ B[q] # i_
  <2>1. \A q \in 0 .. n - 1 : B[q] <= i_ - 2 /\ B[q] \in Int
    BY <1>0 DEF TreeInv, Apart, TreeType
  <2> QED BY <1>1, <2>1
<1>13. i_' \in 2 .. n + 2 /\ i_' > i_ /\ i_ - 1 <= i_' - 2 /\ i_ <= i_' - 2
  BY <1>0, <1>1, <1>3 DEF Leaves
<1>14. Counted'
  BY <1>0, <1>1, <1>2 DEF Counted, lowExt
<1> HIDE DEF Counted
<1> QED BY <1>0, <1>2, <1>3, <1>6, <1>8, <1>9, <1>10, <1>11, <1>12, <1>13, <1>14, PlayStep

\* The last match of the lowest level is done when its leaves are.
LEMMA LowestDone ==
    ASSUME TreeInv, tpc = "matches", i_ > lowExt
    PROVE  champ[n - 1] # 0 /\ n - 1 \in Matches
<1> USE TreeAssumption
<1>1. n <= 2 * s /\ s \in 1 .. n - 1 /\ i_ \in Int /\ i_ >= 2 /\ (i_ % 2 = 0 \/ i_ >= lowExt + 3)
  BY Parts DEF TreeInv, TreeType, Counted
<1>2. /\ n - 1 \in Matches /\ 2 * n - 1 \notin Matches /\ 2 * (n - 1) + 1 = 2 * n - 1
      /\ leafAt(2 * n - 1) = lowExt
  BY <1>1 DEF Matches, leafAt, lowExt, offset
<1>3. lowExt <= i_ - 2
  BY <1>1 DEF lowExt
<1>4. Done(2 * (n - 1) + 1)
  BY <1>2, <1>3 DEF Done
<1> QED BY <1>2, <1>4, Parts DEF Current

\* A match to the right of a done one on its level.
LEMMA LeftDone ==
    ASSUME TreeInv, tpc = "matches", NEW p \in Matches, Done(2 * p - 1), p \notin Starts
    PROVE  Done(p - 1)
<1> USE TreeAssumption
<1>1. p # 1 /\ p - 1 \in Matches /\ 2 * (p - 1) + 1 = 2 * p - 1
  BY StartsFacts DEF Matches
<1>2. champ[p - 1] # 0
  BY <1>1, Parts DEF Current
<1> QED BY <1>1, <1>2 DEF Done

\* Between a match and a leaf.
LEMMA OddFacts ==
    ASSUME TreeInv, tpc = "matches", i_ % 2 = 0, i_ > lowExt, n % 2 = 1, NEW p, p = n \div 2
    PROVE  /\ n <= 2 * s /\ s \in 1 .. n - 1 /\ s \in Starts /\ i_ \in Int /\ i_ >= 2
           /\ lowExt \in Int /\ i_ = lowExt + 2 /\ lowExt % 2 = 0
           /\ p \in Matches /\ 2 * p = n - 1 /\ 2 * p + 1 = n /\ n \notin Matches /\ p \in 0 .. n - 1
           /\ lowExt + 1 \in Leaves /\ leafAt(n) = lowExt + 1
           /\ champ[n - 1] # 0 /\ n - 1 \in Matches /\ Done(n - 1) /\ ~ Done(n) /\ champ[p] = 0
           /\ B[p] = Champ(2 * p) /\ B[p] = champ[n - 1] /\ B[p] \in Leaves
<1> USE TreeAssumption
<1>0. TreeType /\ Counted
  BY DEF TreeInv
<1>1. /\ n <= 2 * s /\ s \in 1 .. n - 1 /\ s \in Starts /\ i_ \in Int /\ i_ >= 2
      /\ lowExt \in Int /\ i_ = lowExt + 2 /\ lowExt % 2 = 0
  <2>1. n <= 2 * s /\ s \in 1 .. n - 1 /\ s \in Starts
    BY <1>0, Parts
  <2>2. i_ \in Int /\ i_ >= 2
    BY <1>0 DEF TreeType
  <2>3. lowExt \in Int /\ lowExt % 2 = 0
    BY <2>1 DEF lowExt
  <2>4. i_ = lowExt + 2
    BY <1>0, <2>2, <2>3 DEF Counted
  <2> QED BY <2>1, <2>2, <2>3, <2>4
<1>3. /\ p \in Matches /\ 2 * p = n - 1 /\ 2 * p + 1 = n /\ n \notin Matches
      /\ lowExt + 1 \in Leaves /\ leafAt(n) = lowExt + 1 /\ p \in 0 .. n - 1
  BY <1>0, <1>1 DEF Matches, Leaves, leafAt, lowExt, offset
<1>4. champ[n - 1] # 0 /\ n - 1 \in Matches /\ Done(n - 1)
  BY <1>0, LowestDone DEF Done
<1>5. ~ Done(n)
  BY <1>1, <1>3 DEF Done
<1>6. champ[p] = 0
  BY <1>0, <1>3, <1>5, Parts
<1>7. B[p] = Champ(2 * p) /\ B[p] = champ[n - 1] /\ B[p] \in Leaves
  <2>1. ~ Current(2 * p)
    BY <1>0 DEF Current
  <2>2. B[p] = Champ(2 * p)
    BY <1>0, <1>3, <1>4, <1>6, <2>1, Parts
  <2>3. champ[n - 1] \in Leaves
    BY <1>0, <1>4, Parts DEF Played
  <2> QED BY <1>3, <1>4, <2>2, <2>3 DEF Champ
<1> QED BY <1>1, <1>3, <1>4, <1>5, <1>6, <1>7

LEMMA OddStep == ASSUME TreeInv, OddMatch PROVE TreeInv'
<1> USE TreeAssumption
<1>0. /\ TreeType /\ Counted /\ tpc = "matches" /\ i_ % 2 = 0 /\ i_ > lowExt /\ n % 2 = 1
      /\ i_' = lowExt + 3
  BY DEF TreeInv, OddMatch
<1> DEFINE p == n \div 2
           right == lowExt + 1
           left == B[p]
<1>1. /\ n <= 2 * s /\ s \in 1 .. n - 1 /\ s \in Starts /\ i_ \in Int /\ i_ >= 2
      /\ lowExt \in Int /\ i_ = lowExt + 2 /\ lowExt % 2 = 0
  BY <1>0, OddFacts
<1>2. play(p, left, right) /\ s' = s
  <2>1. (n - 1) \div 2 = n \div 2
    BY <1>0
  <2> QED BY <2>1 DEF OddMatch, play
<1>3. /\ p \in Matches /\ 2 * p = n - 1 /\ 2 * p + 1 = n /\ n \notin Matches
      /\ right \in Leaves /\ leafAt(n) = right /\ p \in 0 .. n - 1
  BY <1>0, OddFacts
<1>4. champ[n - 1] # 0 /\ n - 1 \in Matches /\ Done(n - 1) /\ ~ Done(n)
  BY <1>0, OddFacts
<1>6. champ[p] = 0
  BY <1>0, OddFacts
<1>7. left = Champ(2 * p) /\ left = champ[n - 1] /\ left \in Leaves
  BY <1>0, OddFacts
<1>8. Champ(2 * p) = left /\ Champ(2 * p + 1) = right
  BY <1>3, <1>7 DEF Champ
<1>9. \A q \in 0 .. n - 1 : B[q] <= i_ - 2 /\ B[q] \in Int
  BY <1>0 DEF TreeInv, Apart, TreeType
<1>10. left # right /\ \A q \in 0 .. n - 1 : q # p => B[q] # left /\ B[q] # right
  <2>1. \A q \in 0 .. n - 1 : B[q] # right
    BY <1>1, <1>9
  <2>2. \A q, r \in 0 .. n - 1 : B[q] # 0 /\ B[q] = B[r] => q = r
    BY DEF TreeInv, Apart
  <2>3. left # 0
    BY <1>7 DEF Leaves
  <2> QED BY <1>3, <2>1, <2>2, <2>3
<1> HIDE DEF p, right, left
<1>11. \A q \in 2 .. 2 * n - 1 :
         Done(q)' <=> (Done(q) \/ q = p \/ q = 2 * p \/ q = 2 * p + 1)
  <2> DEFINE j == lowExt + 3
  <2>0. j \in Int /\ j - 2 = right /\ i_' = j
    BY <1>0, <1>1 DEF right
  <2> HIDE DEF j
  <2>1. \A q \in 2 .. 2 * n - 1 :
           Done(q)' <=> IF q \in Matches THEN Done(q) \/ q = p ELSE leafAt(q) <= right
    BY <1>0, <1>2, <1>3, <1>7, <1>10, <2>0, DoneLeaf
  <2>2. ASSUME NEW q \in 2 .. 2 * n - 1, q \notin Matches
        PROVE  leafAt(q) <= right <=> Done(q) \/ q = n
    <3>1. Done(q) <=> leafAt(q) <= lowExt
      BY <1>1, <2>2 DEF Done
    <3>2. q \in n .. 2 * n - 1
      BY <2>2 DEF Matches
    <3>3. leafAt(q) \in 1 .. n /\ nodeOf(leafAt(q)) = q
      BY <1>1, <3>2, NodeFacts DEF Leaves
    <3>4. nodeOf(right) = n
      BY <1>1 DEF nodeOf, right
    <3> QED BY <1>1, <1>3, <3>1, <3>3, <3>4 DEF right
  <2> QED BY <1>3, <1>4, <2>1, <2>2
<1>12. 2 * p \notin Starts => Done(2 * p - 1)
  <2> SUFFICES ASSUME 2 * p \notin Starts PROVE Done(2 * p - 1)
    OBVIOUS
  <2>1. 2 * p \in 2 .. 2 * n - 1
    BY <1>3 DEF Matches
  <2> QED BY <1>0, <1>3, <1>4, <2>1, Parts
<1>13. p \notin Starts => Done(p - 1)
  BY <1>0, <1>3, <1>12, StartsBelow, LeftDone
<1>14. i_' \in 2 .. n + 2 /\ i_' > i_ /\ left <= i_' - 2 /\ right <= i_' - 2
  <2>1. left <= i_ - 2 /\ left \in Int
    BY <1>3, <1>9 DEF left
  <2>2. right \in 1 .. n /\ right = lowExt + 1
    BY <1>3 DEF Leaves, right
  <2> QED BY <1>0, <1>1, <2>1, <2>2
<1>15. Counted'
  <2>1. lowExt' = lowExt
    BY <1>2 DEF lowExt
  <2> QED BY <1>0, <1>1, <2>1 DEF Counted
<1> QED BY <1>0, <1>2, <1>3, <1>6, <1>7, <1>8, <1>10, <1>11, <1>12, <1>13, <1>14, <1>15, PlayStep

\* On the level above.
LEMMA HighStep == ASSUME TreeInv, HighMatch PROVE TreeInv'
<1> USE TreeAssumption
<1> DEFINE p == (i_ - lowExt + n - 1) \div 2
<1>0. /\ TreeType /\ Counted /\ tpc = "matches" /\ i_ % 2 = n % 2 /\ i_ > lowExt /\ i_ <= n
      /\ i_' = i_ + 2
  BY DEF TreeInv, HighMatch
<1>1. /\ n <= 2 * s /\ s \in 1 .. n - 1 /\ s \in Starts /\ i_ \in Int /\ i_ >= 2
      /\ lowExt \in Int /\ lowExt % 2 = 0 /\ i_ >= lowExt + 2 /\ (n % 2 = 1 => i_ >= lowExt + 3)
  <2>1. n <= 2 * s /\ s \in 1 .. n - 1 /\ s \in Starts
    BY <1>0, Parts
  <2>2. i_ \in Int /\ i_ >= 2
    BY <1>0 DEF TreeType
  <2>3. lowExt \in Int /\ lowExt % 2 = 0
    BY <2>1 DEF lowExt
  <2>4. i_ >= lowExt + 2 /\ (n % 2 = 1 => i_ >= lowExt + 3)
    BY <1>0, <2>2, <2>3 DEF Counted
  <2> QED BY <2>1, <2>2, <2>3, <2>4
<1>2. play(p, i_ - 1, i_) /\ s' = s
  BY DEF HighMatch, play
<1>3. /\ p \in Matches /\ 2 * p + 1 = i_ - lowExt + n - 1 /\ 2 * p = i_ - lowExt + n - 2
      /\ i_ - 1 \in Leaves /\ i_ \in Leaves /\ i_ - 1 # i_
      /\ 2 * p + 1 < 2 * s /\ 2 * p >= n
  BY <1>0, <1>1 DEF Matches, Leaves, lowExt
<1>4. 2 * p \notin Matches /\ 2 * p + 1 \notin Matches
  BY <1>3 DEF Matches
<1>5. leafAt(2 * p) = i_ - 1 /\ leafAt(2 * p + 1) = i_
  BY <1>1, <1>3 DEF leafAt
<1>6. nodeOf(i_) = 2 * p + 1 /\ nodeOf(i_ - 1) = 2 * p
  BY <1>0, <1>1, <1>3 DEF nodeOf, lowExt
<1> HIDE DEF p
<1>7. Champ(2 * p) = i_ - 1 /\ Champ(2 * p + 1) = i_
  BY <1>4, <1>5 DEF Champ
<1>8. ~ Done(2 * p + 1)
  BY <1>1, <1>4, <1>5 DEF Done
<1>9. champ[p] = 0
  BY <1>0, <1>3, <1>8, Parts
<1>10. \A q \in 2 .. 2 * n - 1 :
         Done(q)' <=> (Done(q) \/ q = p \/ q = 2 * p \/ q = 2 * p + 1)
  <2> DEFINE j == i_ + 2
  <2>0. j \in Int /\ j - 2 = i_ /\ i_' = j
    BY <1>0, <1>1
  <2> HIDE DEF j
  <2>1. \A q \in 2 .. 2 * n - 1 :
           Done(q)' <=> IF q \in Matches THEN Done(q) \/ q = p ELSE leafAt(q) <= i_
    BY <1>0, <1>2, <1>3, <2>0, DoneLeaf
  <2>2. ASSUME NEW q \in 2 .. 2 * n - 1, q \notin Matches
        PROVE  leafAt(q) <= i_ <=> Done(q) \/ q = 2 * p \/ q = 2 * p + 1
    <3>1. Done(q) <=> leafAt(q) <= i_ - 2
      BY <2>2 DEF Done
    <3>2. q \in n .. 2 * n - 1
      BY <2>2 DEF Matches
    <3>3. leafAt(q) \in 1 .. n /\ nodeOf(leafAt(q)) = q
      BY <1>1, <3>2, NodeFacts DEF Leaves
    <3>5. leafAt(q) <= i_ <=> leafAt(q) <= i_ - 2 \/ leafAt(q) = i_ - 1 \/ leafAt(q) = i_
      BY <1>1, <3>3
    <3>6. (leafAt(q) = i_ => q = 2 * p + 1) /\ (leafAt(q) = i_ - 1 => q = 2 * p)
      BY <1>6, <3>3
    <3> QED BY <1>5, <3>1, <3>5, <3>6
  <2> QED BY <1>3, <1>4, <2>1, <2>2
<1>11. Done(2 * p - 1)
  <2>1. CASE i_ = lowExt + 2
    <3>1. 2 * p - 1 = n - 1
      BY <1>1, <1>3, <2>1
    <3> QED BY <1>0, <3>1, LowestDone DEF Done
  <2>2. CASE i_ # lowExt + 2
    <3>1. 2 * p - 1 >= n /\ 2 * p - 1 < 2 * s /\ leafAt(2 * p - 1) = i_ - 2
      BY <1>1, <1>3, <2>2 DEF leafAt
    <3>2. 2 * p - 1 \notin Matches
      BY <3>1 DEF Matches
    <3> QED BY <1>1, <3>1, <3>2 DEF Done
  <2> QED BY <2>1, <2>2
<1>12. p \notin Starts => Done(p - 1)
  BY <1>0, <1>3, <1>11, LeftDone
<1>13. \A q \in 0 .. n - 1 : q # p => B[q] # i_ - 1 /\ B[q] # i_
  <2>1. \A q \in 0 .. n - 1 : B[q] <= i_ - 2 /\ B[q] \in Int
    BY <1>0 DEF TreeInv, Apart, TreeType
  <2> QED BY <1>1, <2>1
<1>14. i_' \in 2 .. n + 2 /\ i_' > i_ /\ i_ - 1 <= i_' - 2 /\ i_ <= i_' - 2
  BY <1>0, <1>1, <1>3 DEF Leaves
<1>15. Counted'
  <2>1. lowExt' = lowExt
    BY <1>2 DEF lowExt
  <2> QED BY <1>0, <1>1, <2>1 DEF Counted
<1> QED BY <1>0, <1>2, <1>3, <1>7, <1>9, <1>10, <1>11, <1>12, <1>13, <1>14, <1>15, PlayStep

\* From a right child to its parent, which holds the winner of the left one.
LEMMA ClimbFacts ==
    ASSUME TreeInv, tpc = "climb", p_ > 1, p_ % 2 = 1, NEW q, q = p_ \div 2
    PROVE  /\ q \in Matches /\ p_ = 2 * q + 1 /\ champ[q] = 0
           /\ temp1 \in Leaves /\ temp1 = Champ(2 * q + 1) /\ Done(2 * q + 1)
           /\ Done(2 * q) /\ B[q] = Champ(2 * q) /\ B[q] \in Leaves
<1> USE TreeAssumption
<1>1. p_ \in Matches /\ temp1 \in 0 .. n /\ champ \in [Matches -> 0 .. n]
  BY DEF TreeInv, TreeType
<1>2. q \in Matches /\ p_ = 2 * q + 1
  BY <1>1 DEF Matches
<1>3. temp1 # 0 /\ champ[p_] = temp1 /\ champ[q] = 0
  BY Parts
<1>4. Done(2 * q + 1) /\ Champ(2 * q + 1) = temp1
  BY <1>1, <1>2, <1>3 DEF Done, Champ
<1>5. Done(2 * q)
  <2>1. 2 * q + 1 \in 2 .. 2 * n - 1 /\ (2 * q + 1) - 1 = 2 * q
    BY <1>2 DEF Matches
  <2>2. 2 * q + 1 \notin Starts
    BY <1>2, StartsBelow
  <2> QED BY <1>4, <2>1, <2>2, Parts
<1>6. B[q] = Champ(2 * q)
  <2>1. ~ Current(2 * q)
    BY <1>2 DEF Current, Matches
  <2> QED BY <1>2, <1>3, <1>5, <2>1, Parts
<1>7. Champ(2 * q) \in Leaves
  <2>1. CASE 2 * q \in Matches
    BY <1>1, <1>5, <2>1 DEF Champ, Done, Leaves
  <2>2. CASE 2 * q \notin Matches
    <3>1. 2 * q \in n .. 2 * n - 1
      BY <1>2, <2>2 DEF Matches
    <3> QED BY <2>2, <3>1, Parts, NodeFacts DEF Champ
  <2> QED BY <2>1, <2>2
<1> QED BY <1>1, <1>2, <1>3, <1>4, <1>5, <1>6, <1>7 DEF Leaves

LEMMA ClimbStep == ASSUME TreeInv, Climb PROVE TreeInv'
<1> USE TreeAssumption
<1> PICK q : q = p_ \div 2
  OBVIOUS
<1> DEFINE w == win(L, temp1, B[q])
           o == lose(L, temp1, B[q])
<1>0. TreeType /\ tpc = "climb" /\ p_ > 1 /\ p_ % 2 = 1
  BY DEF TreeInv, Climb
<1>1. /\ q \in Matches /\ p_ = 2 * q + 1 /\ champ[q] = 0
      /\ temp1 \in Leaves /\ temp1 = Champ(2 * q + 1) /\ Done(2 * q + 1)
      /\ Done(2 * q) /\ B[q] = Champ(2 * q) /\ B[q] \in Leaves
  BY <1>0, ClimbFacts
<1>2. /\ temp1' = w /\ B' = [B EXCEPT ![q] = o] /\ champ' = [champ EXCEPT ![q] = w]
      /\ p_' = q /\ tpc' = tpc /\ s' = s /\ L' = L /\ i_' = i_
  BY DEF Climb
<1>3. q \in 0 .. n - 1 /\ q \in Nat /\ q >= 1 /\ q # p_ /\ q < p_
  BY <1>1 DEF Matches
<1>4. \A r \in 0 .. n - 1 : B[r] # temp1 /\ B[r] <= i_ - 2 /\ temp1 <= i_ - 2
  BY <1>0 DEF TreeInv, Apart
<1>5. /\ w \in Leaves /\ o \in Leaves /\ {w, o} = {temp1, B[q]} /\ L[w] <= L[o] /\ w # o
  <2>1. L \in [Leaves -> Keys] /\ temp1 # B[q]
    BY <1>0, <1>3, <1>4 DEF TreeType
  <2> QED BY <1>1, <2>1, WinLose
<1> HIDE DEF w, o
<1>6. TreeType'
  BY <1>0, <1>1, <1>2, <1>3, <1>5 DEF TreeType, Leaves
<1>7. Sized' /\ Unbuilt' /\ Standing' /\ Counted'
  BY <1>0, <1>2 DEF TreeInv, Sized, Unbuilt, Standing, Counted, lowExt
<1>8. Decides(q) /\ champ'[q] = w /\ B'[q] = o
  BY <1>0, <1>1, <1>2, DecidesByUpdate
<1>9. w # 0
  BY <1>5 DEF Leaves
<1>10. \A r \in 0 .. n - 1 : B'[r] = IF r = q THEN o ELSE B[r]
  BY <1>0, <1>2, <1>3 DEF TreeType
<1>11. Apart'
  <2>1. \A a, b \in 0 .. n - 1 : B[a] # 0 /\ B[a] = B[b] => a = b
    BY DEF TreeInv, Apart
  <2>2. B[q] # 0
    BY <1>1 DEF Leaves
  <2>3. \A r \in 0 .. n - 1 : r # q => B[r] # o /\ B[r] # w
    BY <1>3, <1>4, <1>5, <2>1, <2>2
  <2>4. \A a, b \in 0 .. n - 1 : B'[a] # 0 /\ B'[a] = B'[b] => a = b
    BY <1>10, <2>1, <2>3
  <2>5. \A r \in 0 .. n - 1 : B'[r] # temp1'
    BY <1>2, <1>5, <1>10, <2>3
  <2>6. w <= i_' - 2 /\ o <= i_' - 2
    BY <1>2, <1>3, <1>4, <1>5
  <2>7. \A r \in 0 .. n - 1 : B'[r] <= i_' - 2
    BY <1>2, <1>4, <1>10, <2>6
  <2> QED BY <1>0, <1>2, <2>4, <2>5, <2>6, <2>7 DEF Apart
<1>12. \A x \in 1 .. 2 * n - 1 : Done(x)' <=> Done(x) \/ x = q
  <2>1. \A x : leafAt(x)' = leafAt(x)
    BY <1>2 DEF leafAt, offset, lowExt
  <2>2. \A x \in Matches : champ'[x] = IF x = q THEN w ELSE champ[x]
    BY <1>0, <1>2 DEF TreeType
  <2> QED BY <1>1, <1>2, <1>9, <2>1, <2>2 DEF Done
<1>13. Building'
  <2>1. \A x \in Matches : /\ 2 * x \in 1 .. 2 * n - 1 /\ 2 * x + 1 \in 1 .. 2 * n - 1
                           /\ x \in Nat /\ x >= 1
    BY DEF Matches
  <2>2. ASSUME NEW x \in Matches, champ'[x] # 0
        PROVE  Done(2 * x)' /\ Done(2 * x + 1)' /\ Played(x)'
    <3>1. CASE x = q
      <4>1. 2 * q # q /\ 2 * q + 1 # q
        BY <1>3
      <4>2. Champ(2 * q)' = B[q] /\ Champ(2 * q + 1)' = temp1
        BY <1>1, <1>8, <2>1, <4>1 DEF Decides
      <4>3. Done(2 * q)' /\ Done(2 * q + 1)'
        BY <1>1, <1>12, <2>1
      <4> QED BY <1>2, <1>5, <1>8, <3>1, <4>2, <4>3 DEF Played
    <3>2. CASE x # q
      <4>1. champ[x] # 0
        BY <1>8, <2>2, <3>2 DEF Decides
      <4>2. Done(2 * x) /\ Done(2 * x + 1) /\ Played(x)
        BY <1>0, <4>1, Parts
      <4>3. 2 * x # q /\ 2 * x + 1 # q
        BY <1>1, <4>2 DEF Done
      <4> QED BY <1>1, <1>2, <1>8, <1>12, <2>1, <3>2, <4>2, <4>3, DecidesPlayed
    <3> QED BY <3>1, <3>2
  <2>3. ASSUME NEW x \in Matches, champ'[x] = 0
        PROVE  /\ Done(2 * x)' /\ ~ Current(2 * x)' => B'[x] = Champ(2 * x)'
               /\ Done(2 * x + 1)' => Current(2 * x + 1)'
    <3>1. x # q /\ champ[x] = 0 /\ B'[x] = B[x]
      BY <1>8, <1>9, <2>3 DEF Decides
    <3>2. 2 * x # p_ /\ 2 * x + 1 # p_
      BY <1>1, <1>3, <2>1, <3>1
    <3>3. ASSUME Done(2 * x)', ~ Current(2 * x)' PROVE B'[x] = Champ(2 * x)'
      <4>1. 2 * x # q
        BY <1>0, <1>2, <3>3 DEF Current
      <4>2. Done(2 * x)
        BY <1>12, <2>1, <3>3, <4>1
      <4>3. ~ Current(2 * x)
        BY <3>2 DEF Current
      <4>4. B[x] = Champ(2 * x)
        BY <1>0, <3>1, <4>2, <4>3, Parts
      <4> QED BY <1>8, <2>1, <3>1, <4>1, <4>4 DEF Decides
    <3>4. ASSUME Done(2 * x + 1)' PROVE Current(2 * x + 1)'
      <4>1. ~ Done(2 * x + 1)
        BY <1>0, <3>1, <3>2, Parts DEF Current
      <4>2. 2 * x + 1 = q
        BY <1>12, <2>1, <3>4, <4>1
      <4> QED BY <1>0, <1>2, <4>2 DEF Current
    <3> QED BY <3>3, <3>4
  <2>4. ASSUME q \notin Starts PROVE q > 1 /\ Done(q - 1)
    <3>1. q # 1 /\ q - 1 \in Matches /\ 2 * (q - 1) + 1 = 2 * q - 1 /\ 2 * q \in 2 .. 2 * n - 1
      BY <1>1, <1>3, <2>4, StartsFacts DEF Matches
    <3>2. Done(2 * q - 1)
      BY <1>0, <1>1, <2>4, <3>1, StartsBelow, Parts
    <3>3. 2 * q - 1 # p_
      BY <1>1, <1>3
    <3>4. champ[q - 1] # 0
      BY <1>0, <3>1, <3>2, <3>3, Parts DEF Current
    <3> QED BY <1>3, <3>1, <3>4 DEF Done
  <2>5. ASSUME NEW x \in 2 .. 2 * n - 1, Done(x)', x \notin Starts PROVE Done(x - 1)'
    <3>1. x \in 1 .. 2 * n - 1 /\ x - 1 \in 1 .. 2 * n - 1
      OBVIOUS
    <3>2. Done(x) \/ x = q
      BY <1>12, <2>5, <3>1
    <3>3. Done(x - 1)
      BY <1>0, <2>4, <2>5, <3>2, Parts
    <3> QED BY <1>12, <3>1, <3>3
  <2>6. q > 1 => champ'[q \div 2] = 0
    <3> SUFFICES ASSUME q > 1 PROVE champ'[q \div 2] = 0
      OBVIOUS
    <3> DEFINE h == q \div 2
    <3>1. h \in Matches /\ h # q /\ (q = 2 * h \/ q = 2 * h + 1)
      BY <1>1 DEF Matches
    <3> HIDE DEF h
    <3>2. ~ Done(q)
      BY <1>1 DEF Done
    <3>3. champ[h] = 0
      BY <1>0, <3>1, <3>2, Parts
    <3> QED BY <1>8, <3>1, <3>3 DEF Decides, h
  <2> QED BY <1>0, <1>2, <1>8, <1>9, <2>2, <2>3, <2>5, <2>6 DEF Building
<1> QED BY <1>6, <1>7, <1>11, <1>13 DEF TreeInv

\* The root is the last match to be decided.
LEMMA RootLast ==
    ASSUME TreeInv, tpc \in {"matches", "climb"}, champ[1] # 0
    PROVE  \A q \in Matches : champ[q] # 0
<1> USE TreeAssumption
<1> DEFINE S == {q \in Matches : champ[q] = 0}
<1> SUFFICES ASSUME S # {} PROVE FALSE
  OBVIOUS
<1>1. S \in SUBSET Nat
  BY DEF Matches
<1>2. PICK q \in S : \A r \in S : q <= r
  BY <1>1, Least
<1> DEFINE h == q \div 2
<1>3. h \in Matches /\ h < q /\ (q = 2 * h \/ q = 2 * h + 1)
  BY <1>2 DEF Matches
<1>4. h \notin S
  BY <1>1, <1>2, <1>3
<1>5. champ[h] # 0
  BY <1>3, <1>4
<1> HIDE DEF h
<1>6. Done(q)
  BY <1>3, <1>5, Parts
<1> QED BY <1>2, <1>6 DEF Done

LEMMA SettleStep == ASSUME TreeInv, Settle PROVE TreeInv'
<1> USE TreeAssumption
<1> DEFINE h == p_ \div 2
<1>0. TreeType /\ tpc = "climb" /\ ~ (p_ > 1 /\ p_ % 2 = 1)
  BY DEF TreeInv, Settle
<1>1. /\ B' = [B EXCEPT ![h] = temp1] /\ tpc' = "matches"
      /\ s' = s /\ L' = L /\ i_' = i_ /\ p_' = p_ /\ temp1' = temp1 /\ champ' = champ
  BY DEF Settle
<1>2. p_ \in Matches /\ temp1 \in 0 .. n
  BY <1>0 DEF TreeType
<1>3. /\ h \in 0 .. n - 1 /\ (h = 0 => p_ = 1)
      /\ (h # 0 => h \in Matches /\ p_ = 2 * h /\ p_ > 1)
  BY <1>0, <1>2 DEF Matches
<1>4. temp1 # 0 /\ champ[p_] = temp1 /\ (p_ > 1 => champ[p_ \div 2] = 0)
  BY <1>0, Parts
<1>5. h # 0 => champ[h] = 0
  BY <1>3, <1>4
<1> HIDE DEF h
<1>6. TreeType'
  BY <1>0, <1>1, <1>2, <1>3 DEF TreeType
<1>7. Sized' /\ Unbuilt' /\ Standing' /\ Counted'
  BY <1>0, <1>1 DEF TreeInv, Sized, Unbuilt, Standing, Counted, lowExt
<1>8. \A r \in 0 .. n - 1 : B'[r] = IF r = h THEN temp1 ELSE B[r]
  BY <1>0, <1>1, <1>3 DEF TreeType
<1>9. Apart'
  <2>1. \A a, b \in 0 .. n - 1 : B[a] # 0 /\ B[a] = B[b] => a = b
    BY DEF TreeInv, Apart
  <2>2. \A r \in 0 .. n - 1 : B[r] # temp1 /\ B[r] <= i_ - 2 /\ temp1 <= i_ - 2
    BY <1>0 DEF TreeInv, Apart
  <2>3. \A a, b \in 0 .. n - 1 : B'[a] # 0 /\ B'[a] = B'[b] => a = b
    BY <1>8, <2>1, <2>2
  <2>4. \A r \in 0 .. n - 1 : B'[r] <= i_' - 2
    BY <1>1, <1>8, <2>2
  <2> QED BY <1>1, <2>3, <2>4 DEF Apart
<1>10. \A x : leafAt(x)' = leafAt(x)
  BY <1>1 DEF leafAt, offset, lowExt
<1>11. \A x : Done(x)' = Done(x) /\ Champ(x)' = Champ(x)
  BY <1>1, <1>10 DEF Done, Champ
<1>12. \A x \in Matches : champ[x] # 0 => B'[x] = B[x]
  <2>1. \A x \in Matches : x \in 0 .. n - 1 /\ x # 0
    BY DEF Matches
  <2> QED BY <1>5, <1>8, <2>1
<1>13. Building'
  <2>1. ASSUME NEW x \in Matches, champ'[x] # 0
        PROVE  Done(2 * x)' /\ Done(2 * x + 1)' /\ Played(x)'
    <3>1. Done(2 * x) /\ Done(2 * x + 1) /\ Played(x)
      BY <1>0, <1>1, <2>1, Parts
    <3>2. Champ(2 * x)' = Champ(2 * x) /\ Champ(2 * x + 1)' = Champ(2 * x + 1) /\ B'[x] = B[x]
      BY <1>1, <1>11, <1>12, <2>1
    <3> QED BY <1>1, <1>11, <3>1, <3>2 DEF Played
  <2>2. ASSUME NEW x \in Matches, champ'[x] = 0
        PROVE  /\ Done(2 * x)' => B'[x] = Champ(2 * x)'
               /\ ~ Done(2 * x + 1)'
    <3>1. x \in 0 .. n - 1 /\ x # 0 /\ x \in Nat /\ champ[x] = 0
      BY <1>1, <2>2 DEF Matches
    <3>2. ASSUME Done(2 * x)' PROVE B'[x] = Champ(2 * x)'
      <4>1. CASE x = h
        <5>1. 2 * x = p_
          BY <1>3, <3>1, <4>1
        <5>2. Champ(2 * x) = temp1
          BY <1>2, <1>4, <5>1 DEF Champ
        <5> QED BY <1>8, <1>11, <3>1, <4>1, <5>2
      <4>2. CASE x # h
        <5>1. ~ Current(2 * x)
          BY <1>2, <1>3, <3>1, <4>2 DEF Current, Matches
        <5>2. B[x] = Champ(2 * x)
          BY <1>0, <1>11, <3>1, <3>2, <5>1, Parts
        <5> QED BY <1>8, <1>11, <3>1, <4>2, <5>2
      <4> QED BY <4>1, <4>2
    <3>3. ~ Done(2 * x + 1)
      <4>1. ~ Current(2 * x + 1)
        BY <1>0, <1>2, <3>1 DEF Current, Matches
      <4> QED BY <1>0, <3>1, <4>1, Parts
    <3> QED BY <1>11, <3>2, <3>3
  <2>3. \A x \in 2 .. 2 * n - 1 : Done(x)' /\ x \notin Starts => Done(x - 1)'
    BY <1>0, <1>11, Parts
  <2>4. champ'[1] # 0 => B'[0] = champ'[1]
    <3> SUFFICES ASSUME champ[1] # 0 PROVE B'[0] = champ[1]
      BY <1>1
    <3>1. 0 \in 0 .. n - 1 /\ 1 \in Matches
      BY DEF Matches
    <3>2. CASE h = 0
      BY <1>3, <1>4, <1>8, <3>1, <3>2
    <3>3. CASE h # 0
      BY <1>0, <1>3, <1>5, <3>3, RootLast
    <3> QED BY <3>2, <3>3
  <2> QED BY <1>1, <2>1, <2>2, <2>3, <2>4 DEF Building
<1> QED BY <1>6, <1>7, <1>9, <1>13 DEF TreeInv

\* When all leaves are taken on, every match is decided.
LEMMA BuiltStep == ASSUME TreeInv, Built PROVE TreeInv'
<1> USE TreeAssumption
<1>0. /\ TreeType /\ tpc = "matches" /\ i_ % 2 = n % 2 /\ i_ > n /\ tpc' = "idle"
      /\ UNCHANGED <<s, L, B, i_, p_, temp1, champ>>
  BY DEF TreeInv, Built
<1>1. i_ = n + 2
  BY <1>0 DEF TreeType
<1>2. \A q \in Matches : champ[q] # 0
  <2> DEFINE S == {x \in Nat : \E q \in Matches : x = n - q /\ champ[q] = 0}
  <2>1. CASE S = {}
    <3>1. \A q \in Matches : n - q \in Nat
      BY DEF Matches
    <3> QED BY <2>1, <3>1
  <2>2. CASE S # {}
    <3>1. PICK x \in S : \A y \in S : x <= y
      BY <2>2, Least
    <3>2. PICK q \in Matches : x = n - q /\ champ[q] = 0
      BY <3>1
    <3>3. q \in Nat /\ q >= 1 /\ 2 * q + 1 \in 1 .. 2 * n - 1 /\ 2 * q + 1 > q
      BY <3>2 DEF Matches
    <3>4. Done(2 * q + 1)
      <4>1. CASE 2 * q + 1 \in Matches
        <5>1. n - (2 * q + 1) \in Nat /\ n - (2 * q + 1) < x
          BY <3>2, <3>3, <4>1 DEF Matches
        <5>2. n - (2 * q + 1) \notin S
          BY <3>1, <5>1
        <5> QED BY <4>1, <5>1, <5>2 DEF Done
      <4>2. CASE 2 * q + 1 \notin Matches
        <5>1. 2 * q + 1 \in n .. 2 * n - 1
          BY <3>3, <4>2 DEF Matches
        <5>2. leafAt(2 * q + 1) \in 1 .. n
          BY <1>0, <5>1, Parts, NodeFacts DEF Leaves
        <5> QED BY <1>1, <4>2, <5>2 DEF Done
      <4> QED BY <4>1, <4>2
    <3> QED BY <1>0, <3>2, <3>4, Parts DEF Current
  <2> QED BY <2>1, <2>2
<1>3. \A q \in Matches : Played(q)
  BY <1>0, <1>2, Parts
<1>4. 1 \in Matches
  BY DEF Matches
<1>5. B[0] = champ[1]
  BY <1>0, <1>2, <1>4, Parts
<1>6. TreeType' /\ Sized' /\ Counted' /\ Unbuilt' /\ Building' /\ Apart'
  BY <1>0 DEF TreeInv, TreeType, Sized, Counted, Unbuilt, Building, Apart, lowExt
<1>7. \A q \in Matches : Played(q)'
  <2>1. \A x : Champ(x)' = Champ(x)
    BY <1>0 DEF Champ, leafAt, lowExt, offset
  <2> QED BY <1>0, <1>3, <2>1 DEF Played
<1> QED BY <1>0, <1>5, <1>6, <1>7 DEF TreeInv, Standing

-----------------------------------------------------------------------------
(* Replaying the winner's matches.                                         *)

\* The next match on the way up from node x, on which the old winner i has won all
\* matches so far: w and o are the winner and the loser of match q.
Rising(A, x, q, i, S, w, o) ==
    /\ TreeType /\ Sized /\ Counted /\ n <= 2 * s /\ A \in [Leaves -> Keys] /\ L' = A
    /\ x \in 2 .. 2 * n - 1 /\ q = x \div 2
    /\ S = {y \in Matches : y < x /\ champ[y] = i} /\ champ[1] = i /\ B[0] = Champ(x)
    /\ \A y \in 0 .. n - 1 : B[y] \in Leaves
    /\ \A y \in Matches : champ[y] \in Leaves
    /\ \A y, z \in 0 .. n - 1 : B[y] = B[z] => y = z
    /\ q \in S
    /\ \A y \in S : /\ y <= q /\ (y > 1 => y \div 2 \in S) /\ B[y] # i
                    /\ \/ 2 * y \in S \cup {x} /\ B[y] = Champ(2 * y + 1)
                       \/ 2 * y + 1 \in S \cup {x} /\ B[y] = Champ(2 * y)
    /\ \A y \in Matches \ S : /\ {champ[y], B[y]} = {Champ(2 * y), Champ(2 * y + 1)}
                              /\ A[champ[y]] <= A[B[y]]
    /\ w \in Leaves /\ o \in Leaves /\ {w, o} = {B[0], B[q]} /\ A[w] <= A[o] /\ w # o
    /\ B' = [B EXCEPT ![0] = w, ![q] = o] /\ champ' = [champ EXCEPT ![q] = w]
    /\ p_' = q /\ tpc' = "rise" /\ s' = s /\ i_' = i_ /\ temp1' = temp1

LEMMA RiseStep ==
    ASSUME NEW A, NEW x, NEW q, NEW i, NEW S, NEW w, NEW o, Rising(A, x, q, i, S, w, o)
    PROVE  TreeInv'
<1> USE DEF Rising
<1> USE TreeAssumption
<1>1. /\ q \in Matches /\ q \in 0 .. n - 1 /\ q # 0 /\ q \in Nat /\ q >= 1 /\ q < x
      /\ (x = 2 * q \/ x = 2 * q + 1)
  BY DEF Matches
<1>2. \A y \in 0 .. n - 1 : B'[y] = IF y = 0 THEN w ELSE IF y = q THEN o ELSE B[y]
  BY <1>1 DEF TreeType
<1>3. \A y \in Matches : champ'[y] = IF y = q THEN w ELSE champ[y]
  BY <1>1 DEF TreeType
<1>4. \A y \in 1 .. 2 * n - 1 : Champ(y)' = IF y = q THEN w ELSE Champ(y)
  <2>1. \A y : leafAt(y)' = leafAt(y)
    BY DEF leafAt, lowExt, offset
  <2> QED BY <1>1, <1>3, <2>1 DEF Champ
<1>5. \A y \in Matches : /\ 2 * y \in 1 .. 2 * n - 1 /\ 2 * y + 1 \in 1 .. 2 * n - 1 /\ y \in Nat
                         /\ y \in 0 .. n - 1 /\ y # 0
  BY DEF Matches
<1>6. TreeType'
  <2>1. w \in 0 .. n /\ o \in 0 .. n /\ q \in 1 .. n - 1 /\ L' \in [Leaves -> Keys]
    BY <1>1 DEF Leaves, Matches
  <2>2. B' \in [0 .. n - 1 -> 0 .. n]
    <3>1. B \in [0 .. n - 1 -> 0 .. n]
      BY DEF TreeType
    <3> QED BY <2>1, <3>1
  <2>3. champ' \in [Matches -> 0 .. n]
    <3>1. champ \in [Matches -> 0 .. n]
      BY DEF TreeType
    <3> QED BY <2>1, <3>1
  <2> QED BY <1>1, <2>1, <2>2, <2>3 DEF TreeType
<1>7. Sized' /\ Counted' /\ Unbuilt' /\ Building'
  BY DEF Sized, Counted, Unbuilt, Building, lowExt
<1>8. 0 \in 0 .. n - 1 /\ 1 \in Matches
  BY DEF Matches
<1>9. Apart'
  <2>1. \A y \in 0 .. n - 1 : y # 0 /\ y # q => B[y] # w /\ B[y] # o
    BY <1>1, <1>8
  <2>2. \A y, z \in 0 .. n - 1 : B'[y] = B'[z] => y = z
    BY <1>2, <2>1
  <2> QED BY <2>2 DEF Apart
<1>10. B[q] = IF x = 2 * q THEN Champ(2 * q + 1) ELSE Champ(2 * q)
  <2>1. S \cap {2 * q, 2 * q + 1} = {}
    <3>1. \A y \in S : y <= q
      OBVIOUS
    <3> QED BY <1>1, <3>1
  <2>2. \/ 2 * q \in S \cup {x} /\ B[q] = Champ(2 * q + 1)
        \/ 2 * q + 1 \in S \cup {x} /\ B[q] = Champ(2 * q)
    OBVIOUS
  <2> QED BY <1>1, <2>1, <2>2
<1>11. Played(q)'
  <2>1. 2 * q # q /\ 2 * q + 1 # q
    BY <1>1
  <2>2. Champ(2 * q)' = Champ(2 * q) /\ Champ(2 * q + 1)' = Champ(2 * q + 1)
    BY <1>1, <1>4, <1>5, <2>1
  <2>3. {Champ(2 * q), Champ(2 * q + 1)} = {B[0], B[q]}
    BY <1>1, <1>10
  <2>4. champ'[q] = w /\ B'[q] = o
    BY <1>1, <1>2, <1>3
  <2> QED BY <2>2, <2>3, <2>4 DEF Played
<1> DEFINE T == {y \in S : y < q}
<1>12. Stale' = T
  <2>1. Stale' = {y \in 1 .. q - 1 : champ'[y] = champ'[1]}
    BY DEF Stale
  <2>2. \A y \in 1 .. q - 1 : y \in Matches /\ y < q /\ y < x /\ y # q
    BY <1>1 DEF Matches
  <2>3. \A y \in T : y \in 1 .. q - 1
    BY <1>1, <1>5 DEF Matches
  <2>4. CASE q = 1
    <3>1. 1 .. q - 1 = {}
      BY <2>4
    <3> QED BY <2>1, <2>3, <3>1
  <2>5. CASE q # 1
    <3>1. champ'[1] = i
      BY <1>3, <1>8, <2>5
    <3>2. \A y \in 1 .. q - 1 : champ'[y] = champ[y]
      BY <1>3, <2>2
    <3> HIDE DEF T
    <3>3. \A y \in 1 .. q - 1 : y \in T <=> champ[y] = i
      BY <2>2 DEF T
    <3> QED BY <2>1, <2>3, <3>1, <3>2, <3>3
  <2> QED BY <2>4, <2>5
<1>13. \A z \in S : z \in T \cup {q}
  <2>1. \A z \in S : z <= q /\ z \in Nat
    BY <1>5
  <2> QED BY <1>1, <2>1
<1>14. ASSUME NEW y \in T
       PROVE  /\ y <= q \div 2 /\ (y > 1 => y \div 2 \in T)
              /\ OffTheWay(y)' /\ B'[y] # champ'[1]
  <2>1. y \in S /\ y < q /\ y \in Matches /\ y # q
    BY <1>1, <1>5
  <2>2. y > 1 => y \div 2 \in T
    <3> SUFFICES ASSUME y > 1 PROVE y \div 2 \in T
      OBVIOUS
    <3>1. y \div 2 \in S
      BY <2>1
    <3>2. y \div 2 < y
      BY <2>1 DEF Matches
    <3>3. y \div 2 < q
      BY <1>1, <1>5, <2>1, <3>2
    <3> QED BY <3>1, <3>3
  <2>3. \/ 2 * y \in S /\ B[y] = Champ(2 * y + 1)
        \/ 2 * y + 1 \in S /\ B[y] = Champ(2 * y)
    <3>1. 2 * y # x /\ 2 * y + 1 # x
      BY <1>1, <1>5, <2>1
    <3> QED BY <2>1, <3>1
  <2>4. B'[y] = B[y] /\ B[y] # i
    BY <1>2, <1>5, <2>1
  <2>5. champ'[1] = i
    <3>1. q # 1
      BY <1>1, <1>5, <2>1
    <3> QED BY <1>3, <1>8, <3>1
  <2>6. Champ(q) = i
    BY <1>1 DEF Champ
  <2>7. y \in Nat /\ 2 * y \in 1 .. 2 * n - 1 /\ 2 * y + 1 \in 1 .. 2 * n - 1
    BY <1>5, <2>1
  <2>8. CASE 2 * y \in S /\ B[y] = Champ(2 * y + 1)
    <3>1. 2 * y <= q /\ 2 * y + 1 # q
      BY <2>4, <2>6, <2>8
    <3>2. y <= q \div 2
      BY <1>1, <2>7, <3>1
    <3>3. Champ(2 * y + 1)' = Champ(2 * y + 1)
      BY <1>4, <2>7, <3>1
    <3>4. 2 * y \in T \cup {q}
      BY <1>13, <2>8
    <3>5. OffTheWay(y)'
      BY <1>12, <2>4, <2>8, <3>3, <3>4 DEF OffTheWay
    <3> QED BY <2>2, <2>4, <2>5, <3>2, <3>5
  <2>9. CASE 2 * y + 1 \in S /\ B[y] = Champ(2 * y)
    <3>1. 2 * y + 1 <= q /\ 2 * y # q
      BY <2>4, <2>6, <2>9
    <3>2. y <= q \div 2
      BY <1>1, <2>7, <3>1
    <3>3. Champ(2 * y)' = Champ(2 * y)
      BY <1>4, <2>7, <3>1
    <3>4. 2 * y + 1 \in T \cup {q}
      BY <1>13, <2>9
    <3>5. OffTheWay(y)'
      BY <1>12, <2>4, <2>9, <3>3, <3>4 DEF OffTheWay
    <3> QED BY <2>2, <2>4, <2>5, <3>2, <3>5
  <2> QED BY <2>3, <2>8, <2>9
<1>15. q > 1 => q \div 2 \in T
  <2> SUFFICES ASSUME q > 1 PROVE q \div 2 \in T
    OBVIOUS
  <2>1. q \div 2 < q
    BY <1>1
  <2> QED BY <2>1
<1>16. ASSUME NEW y \in Matches \ T PROVE Played(y)'
  <2>1. CASE y = q
    BY <1>11, <2>1
  <2>2. CASE y # q
    <3>1. y \notin S
      BY <1>13, <2>2
    <3>2. 2 * y # q /\ 2 * y + 1 # q
      <4>1. q > 1 => q \div 2 \in S
        OBVIOUS
      <4>2. 2 * y = q \/ 2 * y + 1 = q => q > 1 /\ q \div 2 = y
        BY <1>1, <1>5
      <4> QED BY <3>1, <4>1, <4>2
    <3>3. Champ(2 * y)' = Champ(2 * y) /\ Champ(2 * y + 1)' = Champ(2 * y + 1)
      BY <1>4, <1>5, <3>2
    <3>4. champ'[y] = champ[y] /\ B'[y] = B[y] /\ champ[y] \in Leaves /\ B[y] \in Leaves
      BY <1>2, <1>3, <1>5, <2>2
    <3> QED BY <3>1, <3>3, <3>4 DEF Played
  <2> QED BY <2>1, <2>2
<1>17. Standing'
  <2>1. B'[0] = w /\ champ'[q] = w
    BY <1>1, <1>2, <1>3, <1>8, Zenon
  <2>2. ASSUME NEW y \in Matches PROVE champ'[y] \in Leaves /\ B'[y] \in Leaves
    <3>1. y \in 0 .. n - 1
      BY <1>5
    <3>2. champ[y] \in Leaves /\ B[y] \in Leaves
      BY <3>1
    <3>3. champ'[y] \in {w, champ[y]}
      BY <1>3, Zenon
    <3>4. B'[y] \in {w, o, B[y]}
      BY <1>2, <3>1, Zenon
    <3> QED BY <3>2, <3>3, <3>4
  <2> QED BY <1>12, <1>14, <1>15, <1>16, <2>1, <2>2 DEF Standing
<1> QED BY <1>6, <1>7, <1>9, <1>17 DEF TreeInv

\* A standing tree: every entry is written, and the way up from the winner's leaf
\* carries it.
LEMMA LoadStep == ASSUME TreeInv, NEW key \in Keys, Load(key) PROVE TreeInv'
<1> USE TreeAssumption
<1>0. /\ TreeType /\ Sized /\ Counted /\ tpc = "idle" /\ n <= 2 * s /\ s \in 1 .. n - 1
  BY DEF TreeInv, Load, Sized, TreeType
<1>1. B[0] = champ[1] /\ (\A y \in Matches : Played(y)) /\ 1 \in Matches
  BY <1>0 DEF TreeInv, Standing, Matches
<1>2. PICK i : i = B[0]
  OBVIOUS
<1>3. i \in Leaves /\ i = champ[1]
  BY <1>1, <1>2 DEF Played
<1>4. PICK x : x = nodeOf(i)
  OBVIOUS
<1>5. x \in n .. 2 * n - 1 /\ leafAt(x) = i /\ parent(i) = x \div 2
  BY <1>0, <1>3, <1>4, NodeFacts
<1>6. PICK q : q = x \div 2
  OBVIOUS
<1>7. /\ x \in 2 .. 2 * n - 1 /\ x \notin Matches /\ q \in Matches /\ (x = 2 * q \/ x = 2 * q + 1)
  BY <1>5, <1>6 DEF Matches
<1>8. Champ(x) = i
  BY <1>5, <1>7 DEF Champ
<1>9. PICK A : A = [L EXCEPT ![i] = key]
  OBVIOUS
<1>10. A \in [Leaves -> Keys] /\ L' = A /\ \A j \in Leaves : j # i => A[j] = L[j]
  BY <1>0, <1>2, <1>3, <1>9 DEF TreeType, Load
<1>11. \A y \in Matches : y \in 0 .. n - 1 /\ y # 0 /\ y < x /\ y \in Nat
  BY <1>5 DEF Matches
<1>12. 0 \in 0 .. n - 1
  OBVIOUS
<1>13. \A y, z \in 0 .. n - 1 : B[y] # 0 /\ B[y] = B[z] => y = z
  BY DEF TreeInv, Apart
<1>14. \A y \in Matches : champ[y] \in Leaves /\ B[y] \in Leaves
  BY <1>1 DEF Played
<1>15. \A y \in 0 .. n - 1 : B[y] \in Leaves /\ B[y] # 0
  <2>1. \A y \in 0 .. n - 1 : y = 0 \/ y \in Matches
    BY DEF Matches
  <2>2. \A j \in Leaves : j # 0
    BY DEF Leaves
  <2> QED BY <1>2, <1>3, <1>14, <2>1, <2>2
<1>16. \A y \in Matches : B[y] # i
  BY <1>2, <1>11, <1>12, <1>13, <1>15
<1> DEFINE S == {y \in Matches : y < x /\ champ[y] = i}
<1>17. \A c \in 1 .. 2 * n - 1 : Champ(c) = i => c \in S \cup {x}
  <2> SUFFICES ASSUME NEW c \in 1 .. 2 * n - 1, Champ(c) = i PROVE c \in S \cup {x}
    OBVIOUS
  <2>1. CASE c \in Matches
    BY <1>11, <2>1 DEF Champ
  <2>2. CASE c \notin Matches
    <3>1. c \in n .. 2 * n - 1 /\ leafAt(c) = i
      BY <2>2 DEF Champ, Matches
    <3> QED BY <1>0, <1>4, <3>1, NodeFacts
  <2> QED BY <2>1, <2>2
<1>18. \A y \in Matches : /\ {champ[y], B[y]} = {Champ(2 * y), Champ(2 * y + 1)}
                          /\ L[champ[y]] <= L[B[y]]
                          /\ 2 * y \in 1 .. 2 * n - 1 /\ 2 * y + 1 \in 1 .. 2 * n - 1
  BY <1>1 DEF Played, Matches
<1>19. \A y \in Matches : Champ(2 * y) = i \/ Champ(2 * y + 1) = i => y \in S
  <2> SUFFICES ASSUME NEW y \in Matches, Champ(2 * y) = i \/ Champ(2 * y + 1) = i PROVE champ[y] = i
    BY <1>11
  <2> QED BY <1>16, <1>18
<1>20. ASSUME NEW y \in S
       PROVE  /\ y > 1 => y \div 2 \in S
              /\ \/ 2 * y \in S \cup {x} /\ B[y] = Champ(2 * y + 1)
                 \/ 2 * y + 1 \in S \cup {x} /\ B[y] = Champ(2 * y)
  <2>1. y \in Matches /\ champ[y] = i /\ B[y] # i
    BY <1>16
  <2>2. ASSUME y > 1 PROVE y \div 2 \in S
    <3>1. PICK h : h = y \div 2
      OBVIOUS
    <3>2. h \in Matches /\ (y = 2 * h \/ y = 2 * h + 1)
      BY <2>1, <2>2, <3>1 DEF Matches
    <3>3. Champ(y) = i
      BY <2>1 DEF Champ
    <3> QED BY <1>19, <3>1, <3>2, <3>3
  <2>3. \/ Champ(2 * y) = i /\ B[y] = Champ(2 * y + 1)
        \/ Champ(2 * y + 1) = i /\ B[y] = Champ(2 * y)
    BY <1>18, <2>1
  <2>4. 2 * y \in 1 .. 2 * n - 1 /\ 2 * y + 1 \in 1 .. 2 * n - 1
    BY <1>18, <2>1
  <2>5. \/ 2 * y \in S \cup {x} /\ B[y] = Champ(2 * y + 1)
        \/ 2 * y + 1 \in S \cup {x} /\ B[y] = Champ(2 * y)
    BY <1>17, <2>3, <2>4
  <2> QED BY <2>2, <2>5
<1>21. q \in S
  BY <1>7, <1>8, <1>19
<1>22. \A y \in S : y <= q
  <2> DEFINE T == {z \in Nat : \E y \in S : z = n - y /\ ~ (y <= q)}
  <2>1. CASE T = {}
    <3>1. \A y \in S : n - y \in Nat
      BY DEF Matches
    <3> QED BY <2>1, <3>1
  <2>2. CASE T # {}
    <3>1. PICK z \in T : \A u \in T : z <= u
      BY <2>2, Least
    <3>2. PICK y \in S : z = n - y /\ ~ (y <= q)
      BY <3>1
    <3>3. y \in Nat /\ y \in Matches /\ q \in Nat /\ y >= 1 /\ y > q
      BY <1>7, <1>11, <3>2 DEF Matches
    <3>4. PICK c : (c = 2 * y \/ c = 2 * y + 1) /\ c \in S \cup {x}
      BY <1>20
    <3>5. c # x
      BY <1>7, <3>3, <3>4
    <3>6. c \in S /\ c \in Matches /\ c \in Nat /\ c > y
      BY <3>3, <3>4, <3>5
    <3>7. n - c \in Nat /\ n - c < z
      BY <3>2, <3>3, <3>6 DEF Matches
    <3>8. n - c \in T
      BY <3>3, <3>6, <3>7
    <3> QED BY <3>1, <3>2, <3>7, <3>8
  <2> QED BY <2>1, <2>2
<1>23. \A y \in Matches \ S : A[champ[y]] <= A[B[y]]
  <2> SUFFICES ASSUME NEW y \in Matches \ S PROVE A[champ[y]] <= A[B[y]]
    OBVIOUS
  <2>1. champ[y] # i /\ B[y] # i
    BY <1>11, <1>16
  <2>2. A[champ[y]] = L[champ[y]] /\ A[B[y]] = L[B[y]]
    BY <1>10, <1>14, <2>1
  <2> QED BY <1>18, <2>2
<1>24. PICK w, o : w = win(A, i, B[q]) /\ o = lose(A, i, B[q])
  OBVIOUS
<1>25. w \in Leaves /\ o \in Leaves /\ {w, o} = {B[0], B[q]} /\ A[w] <= A[o] /\ w # o
  BY <1>2, <1>3, <1>7, <1>10, <1>14, <1>16, <1>24, WinLose
<1>26. /\ B' = [B EXCEPT ![0] = w, ![q] = o] /\ champ' = [champ EXCEPT ![q] = w]
       /\ p_' = q /\ tpc' = "rise" /\ s' = s /\ i_' = i_ /\ temp1' = temp1
  BY <1>2, <1>5, <1>6, <1>10, <1>24 DEF Load
<1>27. \A y, z \in 0 .. n - 1 : B[y] = B[z] => y = z
  BY <1>13, <1>15
<1>28. PICK SS : SS = S
  OBVIOUS
<1>29. /\ SS = {y \in Matches : y < x /\ champ[y] = i} /\ champ[1] = i /\ B[0] = Champ(x) /\ q \in SS
       /\ \A y \in SS : /\ y <= q /\ (y > 1 => y \div 2 \in SS) /\ B[y] # i
                        /\ \/ 2 * y \in SS \cup {x} /\ B[y] = Champ(2 * y + 1)
                           \/ 2 * y + 1 \in SS \cup {x} /\ B[y] = Champ(2 * y)
       /\ \A y \in Matches \ SS : /\ {champ[y], B[y]} = {Champ(2 * y), Champ(2 * y + 1)}
                                  /\ A[champ[y]] <= A[B[y]]
  <2>1. \A y \in S : B[y] # i
    BY <1>16
  <2> HIDE DEF S
  <2>2. S = {y \in Matches : y < x /\ champ[y] = i}
    BY DEF S
  <2> QED BY <1>2, <1>3, <1>8, <1>18, <1>20, <1>21, <1>22, <1>23, <1>28, <2>1, <2>2
<1> HIDE DEF S
<1>30. Rising(A, x, q, i, SS, w, o)
  BY <1>0, <1>6, <1>7, <1>10, <1>14, <1>15, <1>25, <1>26, <1>27, <1>29 DEF Rising
<1> QED BY <1>30, RiseStep

LEMMA ReplayStep == ASSUME TreeInv, replay PROVE TreeInv'
<1> USE TreeAssumption
<1>0. /\ TreeType /\ Sized /\ Counted /\ tpc = "rise" /\ n <= 2 * s /\ s \in 1 .. n - 1
      /\ p_ \in Matches
  BY DEF TreeInv, replay, Sized, TreeType
<1>1. /\ B[0] = champ[p_]
      /\ \A q \in Matches : champ[q] \in Leaves /\ B[q] \in Leaves
      /\ p_ > 1 => p_ \div 2 \in Stale
      /\ \A q \in Stale : /\ q <= p_ \div 2 /\ (q > 1 => q \div 2 \in Stale)
                          /\ OffTheWay(q) /\ B[q] # champ[1]
      /\ \A q \in Matches \ Stale : Played(q)
  BY <1>0 DEF TreeInv, Standing
<1>2. CASE ~ Rises
  <2>1. p_ = 1 /\ 1 \in Matches
    BY <1>0, <1>2 DEF Rises, Matches
  <2>2. tpc' = "idle" /\ UNCHANGED <<s, L, B, i_, p_, temp1, champ>>
    BY <1>2 DEF replay
  <2>3. Stale = {}
    BY <2>1 DEF Stale
  <2>4. TreeType' /\ Sized' /\ Counted' /\ Unbuilt' /\ Building' /\ Apart'
    BY <1>0, <2>2 DEF TreeInv, TreeType, Sized, Counted, Unbuilt, Building, Apart, lowExt
  <2>5. \A q \in Matches : Played(q)'
    <3>1. \A x : Champ(x)' = Champ(x)
      BY <2>2 DEF Champ, leafAt, lowExt, offset
    <3>2. \A q \in Matches : Played(q)
      BY <1>1, <2>3
    <3> QED BY <2>2, <3>1, <3>2 DEF Played
  <2> QED BY <1>1, <2>1, <2>2, <2>4, <2>5 DEF TreeInv, Standing
<1>3. CASE Rises
  <2>1. PICK x, q, i, A, S : x = p_ /\ q = p_ \div 2 /\ i = champ[1] /\ A = L /\ S = Stale
    OBVIOUS
  <2>2. /\ x \in 2 .. 2 * n - 1 /\ x > 1 /\ q \in Matches /\ x \in Matches
        /\ q \in 0 .. n - 1 /\ q # 0 /\ 0 \in 0 .. n - 1
    BY <1>0, <1>3, <2>1 DEF Rises, Matches
  <2>3. A \in [Leaves -> Keys] /\ L' = A
    BY <1>0, <2>1 DEF TreeType, replay
  <2>4. S = {y \in Matches : y < x /\ champ[y] = i}
    <3>1. \A y : y \in 1 .. p_ - 1 <=> y \in Matches /\ y < p_
      BY <1>0 DEF Matches
    <3> QED BY <2>1, <3>1 DEF Stale
  <2>5. B[0] = Champ(x)
    BY <1>1, <2>1, <2>2 DEF Champ
  <2>6. \A y \in 0 .. n - 1 : B[y] \in Leaves /\ B[y] # 0
    <3>1. \A y \in 0 .. n - 1 : y = 0 \/ y \in Matches
      BY DEF Matches
    <3>2. \A j \in Leaves : j # 0
      BY DEF Leaves
    <3> QED BY <1>0, <1>1, <3>1, <3>2
  <2>7. \A y, z \in 0 .. n - 1 : B[y] = B[z] => y = z
    BY <2>6 DEF TreeInv, Apart
  <2>8. \A y \in S : /\ y <= q /\ (y > 1 => y \div 2 \in S) /\ B[y] # i
                     /\ \/ 2 * y \in S \cup {x} /\ B[y] = Champ(2 * y + 1)
                        \/ 2 * y + 1 \in S \cup {x} /\ B[y] = Champ(2 * y)
    BY <1>1, <2>1 DEF OffTheWay
  <2>9. \A y \in Matches \ S : /\ {champ[y], B[y]} = {Champ(2 * y), Champ(2 * y + 1)}
                               /\ A[champ[y]] <= A[B[y]]
    BY <1>1, <2>1 DEF Played
  <2>10. PICK w, o : w = win(A, B[q], B[0]) /\ o = lose(A, B[q], B[0])
    OBVIOUS
  <2>11. w \in Leaves /\ o \in Leaves /\ {w, o} = {B[0], B[q]} /\ A[w] <= A[o] /\ w # o
    <3>1. B[q] \in Leaves /\ B[0] \in Leaves /\ B[q] # B[0]
      BY <2>2, <2>6, <2>7
    <3>2. PICK l, r : l = B[q] /\ r = B[0]
      OBVIOUS
    <3>3. w = win(A, l, r) /\ o = lose(A, l, r) /\ l \in Leaves /\ r \in Leaves /\ l # r
      BY <2>10, <3>1, <3>2
    <3>4. w \in Leaves /\ o \in Leaves /\ {w, o} = {l, r} /\ A[w] <= A[o] /\ w # o
      BY <2>3, <3>3, WinLose
    <3> QED BY <3>2, <3>4
  <2>12. /\ B' = [B EXCEPT ![0] = w, ![q] = o] /\ champ' = [champ EXCEPT ![q] = w]
         /\ p_' = q /\ tpc' = "rise" /\ s' = s /\ i_' = i_ /\ temp1' = temp1
    BY <1>0, <1>3, <2>1, <2>10 DEF replay
  <2>13. q \in S /\ champ[1] = i /\ q = x \div 2
    BY <1>1, <2>1, <2>2
  <2>14. Rising(A, x, q, i, S, w, o)
    BY <1>0, <1>1, <2>2, <2>3, <2>4, <2>5, <2>6, <2>7, <2>8, <2>9, <2>11, <2>12, <2>13 DEF Rising
  <2> QED BY <2>14, RiseStep
<1> QED BY <1>2, <1>3

LEMMA TreeStutter == ASSUME TreeInv, UNCHANGED treeVars PROVE TreeInv'
<1>1. UNCHANGED <<tpc, s, L, B, i_, p_, temp1, champ>>
  BY DEF treeVars
<1>2. \A x : leafAt(x)' = leafAt(x) /\ Champ(x)' = Champ(x) /\ Done(x)' = Done(x)
  BY <1>1 DEF leafAt, Champ, Done, lowExt, offset
<1>3. \A x : Played(x)' = Played(x) /\ Current(x)' = Current(x)
  BY <1>1, <1>2 DEF Played, Current
<1>4. Stale' = Stale /\ \A x : OffTheWay(x)' = OffTheWay(x)
  BY <1>1, <1>2 DEF OffTheWay, Stale
<1>5. TreeType' /\ Sized' /\ Counted' /\ Unbuilt' /\ Apart'
  BY <1>1 DEF TreeInv, TreeType, Sized, Counted, Unbuilt, Apart, lowExt
<1>6. Building'
  BY <1>1, <1>2, <1>3 DEF TreeInv, Building
<1>7. Standing'
  BY <1>1, <1>3, <1>4 DEF TreeInv, Standing
<1> QED BY <1>5, <1>6, <1>7 DEF TreeInv

LEMMA TreeNextInv == TreeInv /\ [TreeNext]_treeVars => TreeInv'
BY SizeStep, LowStep, OddStep, HighStep, BuiltStep, ClimbStep, SettleStep,
   LoadStep, ReplayStep, TreeStutter DEF TreeNext, initialize

LEMMA TreeInvariance == TreeSpec => []TreeInv
BY TreeInitInv, TreeNextInv, PTL DEF TreeSpec

\* A standing tree: no node's winner is above the root's.
LEMMA RootLeast ==
    ASSUME TreeInv, tpc = "idle"
    PROVE  \A q \in 1 .. 2 * n - 1 : Champ(q) \in Leaves /\ L[champ[1]] <= L[Champ(q)]
<1> USE TreeAssumption
<1>1. /\ L \in [Leaves -> Keys] /\ s \in 1 .. n - 1 /\ n <= 2 * s
      /\ \A q \in Matches : Played(q)
  BY DEF TreeInv, TreeType, Sized, Standing
<1>2. \A i \in Leaves : L[i] \in Nat
  BY <1>1
<1> DEFINE P(q) == Champ(q) \in Leaves /\ L[champ[1]] <= L[Champ(q)]
           S == {q \in 1 .. 2 * n - 1 : ~ P(q)}
<1> SUFFICES ASSUME S # {} PROVE FALSE
  OBVIOUS
<1>3. S \in SUBSET Nat
  OBVIOUS
<1>4. PICK q \in S : \A r \in S : q <= r
  BY <1>3, Least
<1>5. q \in 1 .. 2 * n - 1 /\ ~ P(q)
  BY <1>4
<1>6. q # 1
  <2>1. 1 \in Matches /\ champ[1] \in Leaves
    BY <1>1 DEF Matches, Played
  <2> QED BY <1>2, <1>5, <2>1 DEF Champ
<1>7. PICK h : h = q \div 2
  OBVIOUS
<1>8. h \in Matches /\ h < q /\ h \in 1 .. 2 * n - 1 /\ (q = 2 * h \/ q = 2 * h + 1)
  BY <1>5, <1>6, <1>7 DEF Matches
<1>9. P(h)
  <2>1. h \notin S
    BY <1>3, <1>4, <1>8
  <2> QED BY <1>8, <2>1
<1>10. champ[h] \in Leaves /\ B[h] \in Leaves /\ L[champ[h]] <= L[B[h]] /\ Champ(q) \in {champ[h], B[h]}
  BY <1>1, <1>8 DEF Played
<1>11. Champ(h) = champ[h]
  BY <1>8 DEF Champ
<1>12. 1 \in Matches /\ champ[1] \in Leaves
  BY <1>1 DEF Matches, Played
<1> QED BY <1>2, <1>5, <1>9, <1>10, <1>11, <1>12

\* An injection of a finite set into a set as large reaches all of it.
LEMMA Onto ==
    ASSUME NEW f \in [0 .. n - 1 -> Leaves], \A y, z \in 0 .. n - 1 : f[y] = f[z] => y = z
    PROVE  {f[p] : p \in 0 .. n - 1} = Leaves
<1> USE TreeAssumption
<1>1. IsFiniteSet(0 .. n - 1) /\ Cardinality(0 .. n - 1) = n /\ IsFiniteSet(Leaves) /\ Cardinality(Leaves) = n
  <2>1. /\ IsFiniteSet(0 .. n - 1)
        /\ Cardinality(0 .. n - 1) = IF 0 > n - 1 THEN 0 ELSE (n - 1) - 0 + 1
    BY FS_Interval
  <2>2. /\ IsFiniteSet(1 .. n)
        /\ Cardinality(1 .. n) = IF 1 > n THEN 0 ELSE n - 1 + 1
    BY FS_Interval
  <2> QED BY <2>1, <2>2 DEF Leaves
<1>2. f \in Injection(0 .. n - 1, Leaves)
  BY DEF Injection, IsInjective
<1>3. f \in Surjection(0 .. n - 1, Leaves)
  BY <1>1, <1>2, FS_Injection
<1> QED BY <1>3 DEF Surjection

\* WinnerIsLeast, for every number of columns: the entry get_sorted takes for the
\* next tuple's column is a column whose key no other one's is below, and all other
\* columns are still in the tree.
THEOREM WinnerLeast == TreeSpec => []WinnerIsLeast
<1> USE TreeAssumption
<1>1. TreeInv => WinnerIsLeast
  <2> SUFFICES ASSUME TreeInv, tpc = "idle"
               PROVE  /\ {B[p] : p \in 0 .. n - 1} = Leaves
                      /\ B[0] \in Leaves
                      /\ \A i \in Leaves : L[B[0]] <= L[i]
    BY DEF WinnerIsLeast
  <2>1. B[0] = champ[1] /\ (\A q \in Matches : Played(q)) /\ 1 \in Matches
    BY DEF TreeInv, Standing, Matches
  <2>2. \A y \in 0 .. n - 1 : B[y] \in Leaves /\ B[y] # 0
    <3>1. \A y \in 0 .. n - 1 : y = 0 \/ y \in Matches
      BY DEF Matches
    <3>2. \A j \in Leaves : j # 0
      BY DEF Leaves
    <3>3. \A y \in Matches : B[y] \in Leaves /\ champ[y] \in Leaves
      BY <2>1 DEF Played
    <3> QED BY <2>1, <3>1, <3>2, <3>3
  <2>3. {B[p] : p \in 0 .. n - 1} = Leaves
    <3>1. B \in [0 .. n - 1 -> 0 .. n]
      BY DEF TreeInv, TreeType
    <3>2. B \in [0 .. n - 1 -> Leaves]
      BY <2>2, <3>1
    <3>3. \A y, z \in 0 .. n - 1 : B[y] = B[z] => y = z
      BY <2>2 DEF TreeInv, Apart
    <3> QED BY <3>2, <3>3, Onto
  <2>4. ASSUME NEW i \in Leaves PROVE L[B[0]] <= L[i]
    <3>1. s \in 1 .. n - 1 /\ n <= 2 * s
      BY DEF TreeInv, TreeType, Sized
    <3>2. PICK x : x = nodeOf(i)
      OBVIOUS
    <3>3. x \in n .. 2 * n - 1 /\ leafAt(x) = i
      BY <3>1, <3>2, NodeFacts
    <3>4. x \in 1 .. 2 * n - 1 /\ Champ(x) = i
      BY <3>3 DEF Champ, Matches
    <3> QED BY <2>1, <3>4, RootLeast
  <2>5. B[0] \in Leaves
    BY <2>2
  <2> QED BY <2>3, <2>4, <2>5
<1> QED BY <1>1, TreeInvariance, PTL

\* OperandsWritten, for every number of columns.
THEOREM WrittenBefore == TreeSpec => []OperandsWritten
<1> USE TreeAssumption
<1>1. TreeInv => OperandsWritten
  <2> SUFFICES ASSUME TreeInv PROVE OperandsWritten
    OBVIOUS
  <2>0. \A j \in Leaves : j # Unset
    BY DEF Leaves, Unset
  <2>1. ASSUME tpc = "climb", p_ > 1, p_ % 2 = 1 PROVE B[p_ \div 2] # Unset
    <3>1. PICK q : q = p_ \div 2
      OBVIOUS
    <3> QED BY <2>0, <2>1, <3>1, ClimbFacts
  <2>2. ASSUME tpc = "matches", i_ % 2 = 0, i_ > lowExt, n % 2 = 1
        PROVE  B[(n - 1) \div 2] # Unset
    <3>1. PICK p : p = n \div 2
      OBVIOUS
    <3>2. (n - 1) \div 2 = p
      BY <2>2, <3>1
    <3> QED BY <2>0, <2>2, <3>1, <3>2, OddFacts
  <2>3. ASSUME tpc \in {"idle", "rise"} PROVE \A p \in 0 .. n - 1 : B[p] # Unset
    <3>1. \A y \in 0 .. n - 1 : y = 0 \/ y \in Matches
      BY DEF Matches
    <3>2. p_ \in Matches /\ 1 \in Matches
      BY DEF TreeInv, TreeType, Matches
    <3>3. \A y \in Matches : B[y] \in Leaves /\ champ[y] \in Leaves
      BY <2>3 DEF TreeInv, Standing, Played
    <3>4. B[0] \in Leaves
      BY <2>3, <3>2, <3>3 DEF TreeInv, Standing
    <3> QED BY <2>0, <3>1, <3>3, <3>4
  <2> QED BY <2>1, <2>2, <2>3 DEF OperandsWritten
<1> QED BY <1>1, TreeInvariance, PTL
===============================================================================

------------------------------- MODULE PCBuffer -------------------------------
(***************************************************************************)
(* PCBuffer (common/m_pc_buffer.cpp) over its columns of BlockCircleQueue  *)
(* (common/m_circle_queue.h).  A queue owns a fixed pool of blocks that    *)
(* move between the lists emptys_ and blocks_; push and pop copy the       *)
(* caller's block into and out of a pool block.  push and pop run entirely *)
(* under the queue's lock_, so each is one step; put and get call them in  *)
(* a loop without a lock, so the steps of several threads interleave       *)
(* between two attempts.                                                   *)
(***************************************************************************)
EXTENDS Naturals, Sequences

CONSTANTS
    Columns,    \* 0..row_-1
    Capacity,   \* COLUMN_CON, the blocks of one queue
    Blocks,     \* contents of a block
    Garbage,    \* contents of a freshly allocated block
    Threads,    \* the threads that share the buffer
    Attempts    \* push or pop attempts of one put or get: 11 in the code

ASSUME ConstantsAssumption ==
    /\ Capacity \in Nat \ {0}
    /\ Attempts \in Nat \ {0}
    /\ Garbage \notin Blocks

VARIABLES
    emptys_,    \* emptys_[c]: pool blocks of column c that hold nothing
    blocks_,    \* blocks_[c]: pool blocks of column c in use, oldest first
    addr,       \* addr[c][k]: the memory of pool block k of column c
    op,         \* op[t]: the call t is inside, "put", "get" or "idle"
    column,     \* column[t]: its column argument
    block,      \* block[t]: the memory of its block argument
    seconds_,   \* seconds_[t]: failed attempts of the current call
    ok          \* ok[t]: what t's last call returned

vars == <<emptys_, blocks_, addr, op, column, block, seconds_, ok>>
queue == <<emptys_, blocks_, addr>>

Pool == 1..Capacity

Init ==
    /\ emptys_ = [c \in Columns |-> [k \in Pool |-> k]]
    /\ blocks_ = [c \in Columns |-> <<>>]
    /\ addr = [c \in Columns |-> [k \in Pool |-> Garbage]]
    /\ op = [t \in Threads |-> "idle"]
    /\ column \in [Threads -> Columns]
    /\ block = [t \in Threads |-> Garbage]
    /\ seconds_ = [t \in Threads |-> 0]
    /\ ok = [t \in Threads |-> FALSE]

-------------------------------------------------------------------------------
(* BlockCircleQueue::push and pop, when they return true.                  *)

\* Mutant: the stored block is linked at the front of blocks_.
push_lifo(c, b) ==
    /\ emptys_[c] # <<>>
    /\ addr' = [addr EXCEPT ![c][Head(emptys_[c])] = b]
    /\ blocks_' = [blocks_ EXCEPT ![c] = <<Head(emptys_[c])>> \o @]
    /\ emptys_' = [emptys_ EXCEPT ![c] = Tail(@)]

push(c, b) ==
    /\ emptys_[c] # <<>>
    /\ addr' = [addr EXCEPT ![c][Head(emptys_[c])] = b]
    /\ blocks_' = [blocks_ EXCEPT ![c] = Append(@, Head(emptys_[c]))]
    /\ emptys_' = [emptys_ EXCEPT ![c] = Tail(@)]

\* Mutant: the popped block is not given back to emptys_.
pop_leaks(c, t) ==
    /\ blocks_[c] # <<>>
    /\ block' = [block EXCEPT ![t] = addr[c][Head(blocks_[c])]]
    /\ blocks_' = [blocks_ EXCEPT ![c] = Tail(@)]
    /\ UNCHANGED <<emptys_, addr>>

pop(c, t) ==
    /\ blocks_[c] # <<>>
    /\ block' = [block EXCEPT ![t] = addr[c][Head(blocks_[c])]]
    /\ emptys_' = [emptys_ EXCEPT ![c] = Append(@, Head(blocks_[c]))]
    /\ blocks_' = [blocks_ EXCEPT ![c] = Tail(@)]
    /\ UNCHANGED addr

-------------------------------------------------------------------------------
(* PCBuffer::put and get.                                                  *)

Call(t, what, c) ==
    /\ op[t] = "idle"
    /\ op' = [op EXCEPT ![t] = what]
    /\ column' = [column EXCEPT ![t] = c]
    /\ seconds_' = [seconds_ EXCEPT ![t] = 0]
    /\ UNCHANGED <<queue, ok>>

CallPut(t, c, b) ==
    /\ Call(t, "put", c)
    /\ block' = [block EXCEPT ![t] = b]

CallGet(t, c) ==
    /\ Call(t, "get", c)
    /\ UNCHANGED block

Return(t, result) ==
    /\ op' = [op EXCEPT ![t] = "idle"]
    /\ ok' = [ok EXCEPT ![t] = result]
    /\ seconds_' = [seconds_ EXCEPT ![t] = 0]
    /\ UNCHANGED column

\* Mutant: the counter is not incremented.
Again_uncounted(t) ==
    /\ seconds_[t] # Attempts - 1
    /\ UNCHANGED vars

\* The test seconds_++==10 after an attempt that failed.
Again(t) ==
    /\ seconds_[t] # Attempts - 1
    /\ seconds_' = [seconds_ EXCEPT ![t] = @ + 1]
    /\ UNCHANGED <<queue, op, column, block, ok>>

GiveUp(t) ==
    /\ seconds_[t] = Attempts - 1
    /\ Return(t, FALSE)
    /\ UNCHANGED <<queue, block>>

put(t) ==
    /\ op[t] = "put"
    /\ \/ push(column[t], block[t]) /\ Return(t, TRUE) /\ UNCHANGED block
       \/ emptys_[column[t]] = <<>> /\ Again(t)
       \/ emptys_[column[t]] = <<>> /\ GiveUp(t)

get(t) ==
    /\ op[t] = "get"
    /\ \/ pop(column[t], t) /\ Return(t, TRUE)
       \/ blocks_[column[t]] = <<>> /\ Again(t)
       \/ blocks_[column[t]] = <<>> /\ GiveUp(t)

Next ==
    \E t \in Threads :
        \/ \E c \in Columns, b \in Blocks : CallPut(t, c, b)
        \/ \E c \in Columns : CallGet(t, c)
        \/ put(t)
        \/ get(t)

\* A thread inside a call keeps running; nobody is obliged to call.
Fairness == \A t \in Threads : WF_vars(put(t) \/ get(t))

Safety == Init /\ [][Next]_vars
Spec == Safety /\ Fairness

-------------------------------------------------------------------------------
TypeOK ==
    /\ emptys_ \in [Columns -> Seq(Pool)]
    /\ blocks_ \in [Columns -> Seq(Pool)]
    /\ addr \in [Columns -> [Pool -> Blocks \cup {Garbage}]]
    /\ op \in [Threads -> {"idle", "put", "get"}]
    /\ column \in [Threads -> Columns]
    /\ block \in [Threads -> Blocks \cup {Garbage}]
    /\ seconds_ \in [Threads -> 0..(Attempts - 1)]
    /\ ok \in [Threads -> BOOLEAN]

Injective(s) == \A i, j \in 1..Len(s) : s[i] = s[j] => i = j
Disjoint(s, u) == \A i \in 1..Len(s), j \in 1..Len(u) : s[i] # u[j]

Partition(s, u) ==
    /\ Injective(s) /\ Injective(u) /\ Disjoint(s, u)
    /\ Len(s) + Len(u) = Capacity

\* Every pool block of a column is in exactly one of its two lists, once: no
\* sequence of puts and gets leaks a block of the pool (the column would
\* shrink), or lists one twice (a later push would overwrite a queued block).
PoolPartition == \A c \in Columns : Partition(emptys_[c], blocks_[c])

\* The contents a column holds, oldest first.
Contents(c) == [i \in 1..Len(blocks_[c]) |-> addr[c][blocks_[c][i]]]

\* Whatever the interleaving of attempts, the buffer behaves as one bounded
\* FIFO per column: blocks come out once, in the order they went in, and put
\* (get) answers false only when the column is full (empty) at its last attempt.
Columns_ == INSTANCE BoundedColumns WITH cols <- [c \in Columns |-> Contents(c)]
ImplementsFIFO == Columns_!Spec

\* A put or get always returns, however long the column stays full or empty:
\* the attempts are bounded.
CallsReturn == \A t \in Threads : op[t] # "idle" ~> op[t] = "idle"
===============================================================================

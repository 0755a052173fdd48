---------------------------- MODULE BoundedColumns ----------------------------
(***************************************************************************)
(* What a producer-consumer buffer promises its callers: one bounded FIFO  *)
(* per column.  put(block, column) stores the block at the end of the      *)
(* column or answers false at an instant at which the column is full;      *)
(* get(block, column) delivers the oldest block or answers false at an     *)
(* instant at which the column is empty.  Nothing is said of slots, locks, *)
(* or the number of times an operation looks at the queue.                 *)
(***************************************************************************)
EXTENDS Naturals, Sequences

CONSTANTS
    Columns,    \* the columns of the buffer, one per peer node
    Capacity,   \* blocks a column can hold
    Blocks,     \* contents of a block
    Garbage,    \* contents of a block nobody has written yet
    Threads     \* threads that call put and get

VARIABLES
    cols,       \* cols[c]: the stored blocks of column c, oldest first
    op,         \* op[t]: the call thread t is inside, or "idle"
    column,     \* column[t]: the column argument of t's current or last call
    block,      \* block[t]: contents of the block t passes by reference
    ok          \* ok[t]: the result of t's last completed call

vars == <<cols, op, column, block, ok>>

Init ==
    /\ cols = [c \in Columns |-> <<>>]
    /\ op = [t \in Threads |-> "idle"]
    /\ column \in [Threads -> Columns]
    /\ block = [t \in Threads |-> Garbage]
    /\ ok = [t \in Threads |-> FALSE]

Return(t, result) ==
    /\ op' = [op EXCEPT ![t] = "idle"]
    /\ ok' = [ok EXCEPT ![t] = result]
    /\ UNCHANGED column

CallPut(t, c, b) ==
    /\ op[t] = "idle"
    /\ op' = [op EXCEPT ![t] = "put"]
    /\ column' = [column EXCEPT ![t] = c]
    /\ block' = [block EXCEPT ![t] = b]
    /\ UNCHANGED <<cols, ok>>

CallGet(t, c) ==
    /\ op[t] = "idle"
    /\ op' = [op EXCEPT ![t] = "get"]
    /\ column' = [column EXCEPT ![t] = c]
    /\ UNCHANGED <<cols, block, ok>>

Store(t) ==
    /\ op[t] = "put"
    /\ Len(cols[column[t]]) < Capacity
    /\ cols' = [cols EXCEPT ![column[t]] = Append(@, block[t])]
    /\ Return(t, TRUE)
    /\ UNCHANGED block

Refuse(t) ==
    /\ op[t] = "put"
    /\ Len(cols[column[t]]) = Capacity
    /\ Return(t, FALSE)
    /\ UNCHANGED <<cols, block>>

Deliver(t) ==
    /\ op[t] = "get"
    /\ cols[column[t]] # <<>>
    /\ block' = [block EXCEPT ![t] = Head(cols[column[t]])]
    /\ cols' = [cols EXCEPT ![column[t]] = Tail(@)]
    /\ Return(t, TRUE)

Miss(t) ==
    /\ op[t] = "get"
    /\ cols[column[t]] = <<>>
    /\ Return(t, FALSE)
    /\ UNCHANGED <<cols, block>>

Next ==
    \E t \in Threads :
        \/ \E c \in Columns, b \in Blocks : CallPut(t, c, b)
        \/ \E c \in Columns : CallGet(t, c)
        \/ Store(t) \/ Refuse(t) \/ Deliver(t) \/ Miss(t)

Spec == Init /\ [][Next]_vars
===============================================================================

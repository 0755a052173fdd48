------------------------------ MODULE MergeJoin ------------------------------
(***************************************************************************)
(* MergeJoin::prelude (physical/m_join.cpp, as built without SYN_JOIN):    *)
(* two threads gather the sorted streams of the children into CPU_CORE     *)
(* tables per side, then CPU_CORE threads merge one pair of tables each.   *)
(* All merge threads are given the address of the same stack slot, a       *)
(* JoinArgu whose i_ the loop that creates them overwrites; they read it   *)
(* again at every access.  A thread's access to an iterator of             *)
(* common/m_buffer.cpp is not protected either, so getNext takes two       *)
(* steps.  execute returns false at once; the merged blocks go nowhere.    *)
(***************************************************************************)
EXTENDS Naturals, Sequences, Bags

CONSTANTS
    CPU_CORE,   \* merge threads, and tables per side
    Streams,    \* ascending sequences of keys a child may deliver
    Fit,        \* pairs a block of the result takes
    FakeMax,    \* bound: reads by getNextFake between two getNext
    NoKey,      \* what uninitialised memory holds if it is no key
    MemKeys,    \* keys that memory behind a table may hold by chance
    Null        \* the null pointer

Cores == 0..(CPU_CORE - 1)
Sides == {"l", "r"}
Keys == Nat     \* an unsigned long

ASSUME JoinAssumption ==
    /\ CPU_CORE \in Nat \ {0} /\ Fit \in Nat \ {0} /\ FakeMax \in Nat \ {0}
    /\ NoKey \notin Keys /\ MemKeys \subseteq Keys
    /\ Null \notin Sides \X Cores \X Nat
    /\ Streams \subseteq Seq(Keys)
    /\ \A s \in Streams : \A j, k \in 1..Len(s) : j < k => s[j] <= s[k]

VARIABLES
    stream,     \* stream[s]: keys the child of side s has still to deliver
    table,      \* table[s][i]: keys in the flex block of range i
    main,       \* prelude: "gather", "create" or "join"
    slot,       \* joinargu.i_
    created,    \* merge threads created
    current_,   \* current_[s][i]: position of the iterator of table[s][i]
    fake_count_, \* fake_count_[s][i]
    pc,         \* pc[j]: where merge thread j is
    got,        \* got[j]: its l, r, fake_l and fake_r
    inc,        \* inc[j]: an increment of current_ it has still to store
    room,       \* room[j]: pairs in its block
    result,     \* history: bag of the pairs combined, kept while not spoiled
    spoiled,    \* history: some thread read another thread's index, or gave
                \* up a full block
    undefined   \* a tuple was stored in no table, or an iterator is past its end:
                \* anything may happen

threadVars == <<current_, fake_count_, pc, got, inc, room, result, spoiled, undefined>>
vars == <<stream, table, main, slot, created, threadVars>>

\* A tuple is <<side, range, position>>, or <<"mem", key>> behind a table.
Key(t) == IF t[1] = "mem" THEN t[2] ELSE table[t[1]][t[2]][t[3]]

Init ==
    /\ stream \in [Sides -> Streams]
    /\ table = [s \in Sides |-> [i \in Cores |-> <<>>]]
    /\ main = "gather"
    /\ slot = 0
    /\ created = 0
    /\ current_ = [s \in Sides |-> [i \in Cores |-> 0]]
    /\ fake_count_ = [s \in Sides |-> [i \in Cores |-> 0]]
    /\ pc = [j \in Cores |-> "new"]
    /\ got = [j \in Cores |-> [f \in {"l", "r", "fl", "fr"} |-> Null]]
    /\ inc = [j \in Cores |-> Null]
    /\ room = [j \in Cores |-> 0]
    /\ result = EmptyBag
    /\ spoiled = FALSE
    /\ undefined = FALSE

-------------------------------------------------------------------------------
(* prelude.                                                                *)

\* gather_left and gather_right: range=value/CPU_CORE, without a test.  A key of
\* CPU_CORE^2 or above indexes the arrays of tables behind their end.
gather(s) ==
    /\ main = "gather"
    /\ stream[s] # <<>>
    /\ LET range == Head(stream[s]) \div CPU_CORE
       IN  \/ /\ range \in Cores
              /\ table' = [table EXCEPT ![s][range] = Append(@, Head(stream[s]))]
              /\ UNCHANGED undefined
           \/ /\ range \notin Cores
              /\ undefined' = TRUE
              /\ UNCHANGED table
    /\ stream' = [stream EXCEPT ![s] = Tail(@)]
    /\ UNCHANGED <<main, slot, created, current_, fake_count_, pc, got, inc, room, result, spoiled>>

\* Both threads are joined; the tables are assembled and get their iterators.
Assemble ==
    /\ main = "gather"
    /\ \A s \in Sides : stream[s] = <<>>
    /\ main' = "create"
    /\ UNCHANGED <<stream, table, slot, created, threadVars>>

\* Mutant: the threads are numbered from the last range down.
Create_down ==
    /\ main = "create"
    /\ created < CPU_CORE
    /\ slot' = CPU_CORE - 1 - created
    /\ pc' = [pc EXCEPT ![created] = "l1"]
    /\ created' = created + 1
    /\ main' = IF created' = CPU_CORE THEN "join" ELSE "create"
    /\ UNCHANGED <<stream, table, current_, fake_count_, got, inc, room, result, spoiled, undefined>>

Create ==
    /\ main = "create"
    /\ created < CPU_CORE
    /\ slot' = created
    /\ pc' = [pc EXCEPT ![created] = "l1"]
    /\ created' = created + 1
    /\ main' = IF created' = CPU_CORE THEN "join" ELSE "create"
    /\ UNCHANGED <<stream, table, current_, fake_count_, got, inc, room, result, spoiled, undefined>>

prelude == \/ \E s \in Sides : gather(s)
           \/ Assemble
           \/ Create

-------------------------------------------------------------------------------
(* gather_merge: thread j.  The labels l1, r1 are at funck, l2, r2 after a *)
(* match, l3 and r3 after a mismatch.                                      *)

mainVars == <<stream, table, main, slot, created>>

GetSide == [l1 |-> "l", l2 |-> "l", l3 |-> "l", r1 |-> "r", r2 |-> "r", r3 |-> "r"]
GetThen == [l1 |-> "r1", r1 |-> "test", l2 |-> "r2", r2 |-> "test", l3 |-> "test", r3 |-> "test"]

Goto(j, label) == pc' = [pc EXCEPT ![j] = label]

\* Reading the slot.
ReadSlot(j) ==
    /\ spoiled' = (spoiled \/ slot # j)
    /\ result' = IF spoiled' THEN EmptyBag ELSE result

\* getNext: the position is read and compared with the tuple count.
getNext(j) ==
    /\ pc[j] \in DOMAIN GetSide
    /\ inc[j] = Null
    /\ ReadSlot(j)
    /\ LET s == GetSide[pc[j]]
           at == current_[s][slot]
           size == Len(table[s][slot])
       IN  /\ fake_count_' = [fake_count_ EXCEPT ![s][slot] = 0]
           /\ undefined' = (at > size)
           /\ IF at >= size
              THEN got' = [got EXCEPT ![j][s] = Null] /\ Goto(j, GetThen[pc[j]]) /\ UNCHANGED inc
              ELSE /\ got' = [got EXCEPT ![j][s] = <<s, slot, at + 1>>]
                   /\ inc' = [inc EXCEPT ![j] = <<s, slot, at>>]
                   /\ UNCHANGED pc
    /\ UNCHANGED <<mainVars, current_, room>>

\* current_++: the value incremented is the one read above or read again.
Increment(j) ==
    /\ inc[j] # Null
    /\ LET s == inc[j][1]
           i == inc[j][2]
       IN  \E at \in {inc[j][3], current_[s][i]} : current_' = [current_ EXCEPT ![s][i] = at + 1]
    /\ inc' = [inc EXCEPT ![j] = Null]
    /\ Goto(j, GetThen[pc[j]])
    /\ UNCHANGED <<mainVars, fake_count_, got, room, result, spoiled, undefined>>

\* combine, if the block has room; otherwise the block is built and given up,
\* and the thread starts again at funck with a new one and the next tuples.
Combine(j, a, b, label) ==
    \/ /\ room[j] < Fit
       /\ room' = [room EXCEPT ![j] = @ + 1]
       /\ result' = IF spoiled THEN result ELSE result (+) SetToBag({<<a, b>>})
       /\ Goto(j, label)
       /\ UNCHANGED spoiled
    \/ /\ room[j] = Fit
       /\ room' = [room EXCEPT ![j] = 0]
       /\ Goto(j, "l1")
       /\ spoiled' = TRUE
       /\ result' = EmptyBag

\* Mutant: the side with the greater key is advanced.
Compare_swapped(j) ==
    /\ pc[j] = "test"
    /\ LET l == got[j]["l"]
           r == got[j]["r"]
       IN  \/ /\ l = Null \/ r = Null
              /\ Goto(j, "end") /\ UNCHANGED <<room, result, spoiled>>
           \/ /\ l # Null /\ r # Null
              /\ \/ Key(l) = Key(r) /\ Combine(j, l, r, "fl0")
                 \/ Key(l) > Key(r) /\ Goto(j, "l3") /\ UNCHANGED <<room, result, spoiled>>
                 \/ Key(l) < Key(r) /\ Goto(j, "r3") /\ UNCHANGED <<room, result, spoiled>>
    /\ UNCHANGED <<mainVars, current_, fake_count_, got, inc, undefined>>

\* Mutant: the end of a table leads back to funck.
Compare_restarts(j) ==
    /\ pc[j] = "test"
    /\ LET l == got[j]["l"]
           r == got[j]["r"]
       IN  \/ /\ l = Null \/ r = Null
              /\ Goto(j, "l1") /\ UNCHANGED <<room, result, spoiled>>
           \/ /\ l # Null /\ r # Null
              /\ \/ Key(l) = Key(r) /\ Combine(j, l, r, "fl0")
                 \/ Key(l) < Key(r) /\ Goto(j, "l3") /\ UNCHANGED <<room, result, spoiled>>
                 \/ Key(l) > Key(r) /\ Goto(j, "r3") /\ UNCHANGED <<room, result, spoiled>>
    /\ UNCHANGED <<mainVars, current_, fake_count_, got, inc, undefined>>

Compare(j) ==
    /\ pc[j] = "test"
    /\ LET l == got[j]["l"]
           r == got[j]["r"]
       IN  \/ /\ l = Null \/ r = Null
              /\ Goto(j, "end") /\ UNCHANGED <<room, result, spoiled>>
           \/ /\ l # Null /\ r # Null
              /\ \/ Key(l) = Key(r) /\ Combine(j, l, r, "fl0")
                 \/ Key(l) < Key(r) /\ Goto(j, "l3") /\ UNCHANGED <<room, result, spoiled>>
                 \/ Key(l) > Key(r) /\ Goto(j, "r3") /\ UNCHANGED <<room, result, spoiled>>
    /\ UNCHANGED <<mainVars, current_, fake_count_, got, inc, undefined>>

\* getNextFake: the tuple fake_count_ behind the position, which is already
\* past the tuple in hand; there is no test against the tuple count.
getNextFake(j, s, f, label) ==
    LET n == fake_count_[s][slot] + 1
        k == current_[s][slot] + n + 1
    IN  /\ ReadSlot(j)
        /\ fake_count_' = [fake_count_ EXCEPT ![s][slot] = n]
        /\ \E t \in IF k <= Len(table[s][slot]) THEN {<<s, slot, k>>}
                    ELSE {<<"mem", key>> : key \in {NoKey} \cup (IF n < FakeMax THEN MemKeys ELSE {})} :
               got' = [got EXCEPT ![j][f] = t]
        /\ Goto(j, label)
        /\ UNCHANGED <<mainVars, current_, inc, room, undefined>>

\* The two loops over fake tuples; the second one goes on in the left table.
Fakes(j) ==
    \/ pc[j] = "fl0" /\ getNextFake(j, "l", "fl", "fr0")
    \/ pc[j] = "fr0" /\ getNextFake(j, "r", "fr", "loopl")
    \/ pc[j] = "fl1" /\ getNextFake(j, "l", "fl", "loopl")
    \/ pc[j] = "fr1" /\ getNextFake(j, "l", "fr", "loopr")

Loops(j) ==
    /\ \/ /\ pc[j] = "loopl"
          /\ \/ /\ Key(got[j]["fl"]) = Key(got[j]["r"])
                /\ Combine(j, got[j]["fl"], got[j]["r"], "fl1")
             \/ /\ Key(got[j]["fl"]) # Key(got[j]["r"])
                /\ Goto(j, "loopr") /\ UNCHANGED <<room, result, spoiled>>
       \/ /\ pc[j] = "loopr"
          /\ \/ /\ Key(got[j]["l"]) = Key(got[j]["fr"])
                /\ Combine(j, got[j]["l"], got[j]["fr"], "fr1")
             \/ /\ Key(got[j]["l"]) # Key(got[j]["fr"])
                /\ Goto(j, "l2") /\ UNCHANGED <<room, result, spoiled>>
    /\ got' = IF pc'[j] \in {"l1", "l2"}        \* fake_l and fake_r are dead
              THEN [got EXCEPT ![j]["fl"] = Null, ![j]["fr"] = Null] ELSE got
    /\ UNCHANGED <<mainVars, current_, fake_count_, inc, undefined>>

gather_merge(j) == getNext(j) \/ Increment(j) \/ Compare(j) \/ Fakes(j) \/ Loops(j)

Done == main = "join" /\ \A j \in Cores : pc[j] = "end"

Next ==
    \/ ~undefined /\ (prelude \/ \E j \in Cores : gather_merge(j))
    \/ (Done \/ undefined) /\ UNCHANGED vars

\* All threads run.
Fairness ==
    /\ WF_vars(~undefined /\ prelude)
    /\ \A j \in Cores : WF_vars(~undefined /\ gather_merge(j))

Safety == Init /\ [][Next]_vars
Spec == Safety /\ Fairness

-------------------------------------------------------------------------------
Tuple == (Sides \X Cores \X (Nat \ {0})) \cup ({"mem"} \X (Keys \cup {NoKey}))

TypeOK ==
    /\ stream \in [Sides -> Seq(Keys)]
    /\ table \in [Sides -> [Cores -> Seq(Keys)]]
    /\ main \in {"gather", "create", "join"}
    /\ slot \in Cores
    /\ created \in 0..CPU_CORE
    /\ current_ \in [Sides -> [Cores -> Nat]]
    /\ fake_count_ \in [Sides -> [Cores -> Nat]]
    /\ pc \in [Cores -> DOMAIN GetSide \cup {"new", "test", "fl0", "fr0", "fl1", "fr1",
                                             "loopl", "loopr", "end"}]
    /\ got \in [Cores -> [{"l", "r", "fl", "fr"} -> Tuple \cup {Null}]]
    /\ inc \in [Cores -> (Sides \X Cores \X Nat) \cup {Null}]
    /\ room \in [Cores -> 0..Fit]
    /\ spoiled \in BOOLEAN /\ undefined \in BOOLEAN

\* The race has one direction: a thread works on its own range or a later one,
\* so thread j never takes a tuple from a range below j.
NeverAnEarlierRange ==
    \A j \in Cores : \A f \in DOMAIN got[j] :
        got[j][f] # Null /\ got[j][f][1] # "mem" => got[j][f][2] >= j

Unique ==
    \A s \in Sides, i \in Cores :
        \A j, k \in 1..Len(table[s][i]) : table[s][i][j] = table[s][i][k] => j = k

\* The reference join: all pairs of a left and a right tuple with equal keys.
Rows(s) == UNION {{<<s, i, k>> : k \in 1..Len(table[s][i])} : i \in Cores}
Reference == {p \in Rows("l") \X Rows("r") : Key(p[1]) = Key(p[2])}

\* How often a pair was combined.
Copies(p) == IF BagIn(p, result) THEN result[p] ELSE 0

\* As long as no thread has read another one's index and no block was full,
\* tables without duplicate keys are joined exactly: each pair of the reference
\* is combined once, and the only other pairs are made of memory behind a table.
\* The join does not come to its end if gather met a key that has no table.
ExactWhenUndisturbed ==
    Done /\ ~spoiled /\ Unique =>
        /\ \A p \in Reference : Copies(p) = 1
        /\ \A p \in BagToSet(result) :
              p \in Reference \/ p[1][1] = "mem" \/ p[2][1] = "mem"

\* prelude returns: no race keeps a merge thread going for ever, short of
\* iterators that were pushed past their end and of keys that have no table.
JoinEnds == <>(Done \/ undefined)
===============================================================================

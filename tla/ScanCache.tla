------------------------------ MODULE ScanCache ------------------------------
(***************************************************************************)
(* Scan over MemoryStore.  The tasks of a query run in threads of one       *)
(* worker, and each has a Scan at its bottom; all of them share the         *)
(* MemoryStore singleton and its std::map from file name to blocks, and     *)
(* none takes a lock.                                                       *)
(*                                                                         *)
(* Two things can meet.  Threads in the first getInstance create a store    *)
(* each, and every call of getInstance sees the one assigned last: the two  *)
(* calls in one execute need not see the same store.  A thread inside an    *)
(* insertion, of map::insert or of an operator[] that finds nothing, meets  *)
(* another one in the same map: undefined behaviour, recorded in raced.     *)
(***************************************************************************)
EXTENDS Integers, Sequences, FiniteSets, SequencesExt

CONSTANTS
    Scans,          \* the Scan operators of the running tasks
    Files,          \* the file names of the plans
    Present,        \* those that fopen can open
    Blocks          \* blocks of a file

Contents == [k \in 1 .. Blocks |-> k]

ASSUME ScanAssumption ==
    IsFiniteSet(Scans) /\ Files # {} /\ Present \subseteq Files /\ Blocks \in Nat

VARIABLES
    pc,             \* where each Scan is
    file,           \* file[s]: its filename_
    memstore_,      \* the singleton: a number, 0 for none
    created,        \* stores created
    map,            \* map[m]: the blocks_ of store m, a function from file names
    mine,           \* mine[s]: the store the last getInstance of s gave
    out,            \* out[s]: the blocks execute has passed on; its length is cursor_
    raced           \* a map was used while another thread was changing it

vars == <<pc, file, memstore_, created, map, mine, out, raced>>

Stores == 1 .. Cardinality(Scans)

Init ==
    /\ pc = [s \in Scans |-> "test"]
    /\ file \in [Scans -> Files]
    /\ memstore_ = 0 /\ created = 0
    /\ map = [m \in Stores |-> <<>>]
    /\ mine = [s \in Scans |-> 0]
    /\ out = [s \in Scans |-> <<>>]
    /\ raced = FALSE

Goto(s, place) == pc' = [pc EXCEPT ![s] = place]

\* Where a thread is in the middle of changing the map of store mine[s].
Writing == {"inserting", "sizing", "picking"}

\* Thread s uses the map of store m.
Touch(s, m) == raced' = (raced \/ \E t \in Scans \ {s} : pc[t] \in Writing /\ mine[t] = m)

-----------------------------------------------------------------------------
\* getInstance, the first call of a Scan: test, create if there is none, return what
\* memstore_ holds by then.
getInstance_test(s) ==
    /\ pc[s] = "test"
    /\ Goto(s, IF memstore_ = 0 THEN "new" ELSE "return")
    /\ UNCHANGED <<file, memstore_, created, map, mine, out, raced>>

getInstance_new(s) ==
    /\ pc[s] = "new"
    /\ created' = created + 1
    /\ memstore_' = created + 1
    /\ Goto(s, "return")
    /\ UNCHANGED <<file, map, mine, out, raced>>

\* Where the other calls of getInstance stand, and what is done with their result.
\* Each finds a store; fopen of a file that is not there gives no stream to read from.
After == [return |-> "find", load |-> "insert", read |-> "size", next |-> "block"]

getInstance_return(s) ==
    /\ pc[s] \in DOMAIN After
    /\ pc[s] = "load" => file[s] \in Present
    /\ mine' = [mine EXCEPT ![s] = memstore_]
    /\ Goto(s, After[pc[s]])
    /\ UNCHANGED <<file, memstore_, created, map, out, raced>>

-----------------------------------------------------------------------------
\* Is the file missing in the map that s uses?
Missing(s) == file[s] \notin DOMAIN map[mine[s]]

\* blocks_.find(name) != blocks_.end(), with a getInstance on either side: the end of
\* another store's map is never equal to what find gives.  Which side is evaluated
\* first, and so which map is searched, is the compiler's choice.
prelude_find(s) ==
    /\ pc[s] = "find"
    /\ \E m \in {mine[s], memstore_} : Touch(s, m)
    /\ Goto(s, IF mine[s] # memstore_ \/ ~ Missing(s) THEN "read" ELSE "load")
    /\ UNCHANGED <<file, memstore_, created, map, mine, out>>

\* fread on the null stream of a failed fopen.
prelude_nofile(s) ==
    /\ pc[s] = "load" /\ file[s] \notin Present
    /\ Goto(s, "undefined")
    /\ UNCHANGED <<file, memstore_, created, map, mine, out, raced>>

\* Map g with entry e for file f.
Entered(g, f, e) == [h \in DOMAIN g \cup {f} |-> IF h = f THEN e ELSE g[h]]

\* The entry for file f after an insertion of e: map::insert and operator[] keep the
\* entry that is there.  InsertedAgain adds the blocks to it.
InsertedAgain(m, f, e) == IF f \in DOMAIN map[m] THEN map[m][f] \o e ELSE e
Inserted(m, f, e) == IF f \in DOMAIN map[m] THEN map[m][f] ELSE e

Put(s, e) ==
    map' = [map EXCEPT ![mine[s]] = Entered(@, file[s], Inserted(mine[s], file[s], e))]

\* The whole file was read; map::insert looks for its name and starts to insert, or
\* is done.  (Whether isCached then finds a map empty is asked and never used.)
prelude_insert(s) ==
    /\ pc[s] = "insert"
    /\ Touch(s, mine[s])
    /\ \/ Missing(s) /\ Goto(s, "inserting") /\ UNCHANGED map
       \/ ~ Missing(s) /\ Put(s, Contents) /\ Goto(s, "read")
    /\ UNCHANGED <<file, memstore_, created, mine, out>>

\* An insertion ends: of the blocks read, or of the empty entry of an operator[],
\* which then has an entry to return.
inserted(s) ==
    /\ pc[s] \in Writing
    /\ Put(s, IF pc[s] = "inserting" THEN Contents ELSE <<>>)
    /\ Goto(s, [inserting |-> "read", sizing |-> "size", picking |-> "block"][pc[s]])
    /\ UNCHANGED <<file, memstore_, created, mine, out, raced>>

\* execute: operator[] for the size and the test of the cursor; and then, in the store
\* of another getInstance, operator[] for the block.  An entry with no block at the
\* cursor is read past its end.
execute_size(s) ==
    /\ pc[s] = "size"
    /\ Touch(s, mine[s])
    /\ \/ Missing(s) /\ Goto(s, "sizing")
       \/ /\ ~ Missing(s)
          /\ Goto(s, IF Len(out[s]) < Len(map[mine[s]][file[s]]) THEN "next" ELSE "done")
    /\ UNCHANGED <<file, memstore_, created, map, mine, out>>

execute_block(s) ==
    LET entry == map[mine[s]][file[s]]
    IN  /\ pc[s] = "block"
        /\ Touch(s, mine[s])
        /\ \/ Missing(s) /\ Goto(s, "picking") /\ UNCHANGED out
           \/ /\ ~ Missing(s) /\ Len(out[s]) < Len(entry)
              /\ out' = [out EXCEPT ![s] = Append(@, entry[Len(@) + 1])]
              /\ Goto(s, "read")
           \/ ~ Missing(s) /\ Len(out[s]) >= Len(entry) /\ Goto(s, "undefined") /\ UNCHANGED out
        /\ UNCHANGED <<file, memstore_, created, map, mine>>

ScanStep(s) ==
    \/ getInstance_test(s) \/ getInstance_new(s) \/ getInstance_return(s)
    \/ prelude_find(s) \/ prelude_nofile(s) \/ prelude_insert(s) \/ inserted(s)
    \/ execute_size(s) \/ execute_block(s)

Next == \E s \in Scans : ScanStep(s)

\* The threads run.
Fairness == \A s \in Scans : WF_vars(ScanStep(s))
Spec == Init /\ [][Next]_vars /\ Fairness

-----------------------------------------------------------------------------
\* Unless two threads met in one map: what a Scan has passed on is a prefix of its
\* file, each block in its place and once, also when several Scans of the file missed
\* it, read it and inserted it one after another.  With one store a Scan ends only
\* when it has passed on the whole file, and the only thing that stops it is a file
\* that cannot be opened.  With two stores a Scan may end early, or take the end of the
\* other map for a hit, or read past the end of an entry of a store that replaced the
\* one whose size it tested; even then it repeats nothing.
ScanExact ==
    ~ raced => \A s \in Scans :
        /\ IsPrefix(out[s], Contents)
        /\ pc[s] = "done" => created > 1 \/ out[s] = Contents
        /\ pc[s] = "undefined" => created > 1 \/ file[s] \notin Present

=============================================================================

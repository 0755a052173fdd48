--------------------------------- MODULE Sort ---------------------------------
(***************************************************************************)
(* The operator Sort (physical/m_sort.cpp, as built without                *)
(* MULTI_PARTITION) on one node.  prelude reads everything its child, an   *)
(* upper of Shuffle1, delivers, deals it out to CPU_CORE key ranges and    *)
(* sorts each range with a thread of its own; execute then fills one block *)
(* of the operator above per call.  A tuple is its key and an identity.    *)
(***************************************************************************)
EXTENDS Naturals, Sequences, FiniteSets

CONSTANTS
    CPU_CORE,       \* ranges, and threads that sort them
    DATAVOLUME,     \* keys are below it
    Nodes,          \* lower_seqs_.size(), and the uppers of the exchange below
    th,             \* the position of this node among them, from 0
    MaxTuples,      \* bound: tuples the child delivers
    Fit,            \* tuples allocateTuple accepts for one block
    Counted,        \* tuples assembling() records for a block, Fit-1 in every plan
    Garbage         \* contents of memory nobody has written

Cores == 0..(CPU_CORE - 1)

ASSUME SortAssumption ==
    /\ CPU_CORE \in Nat \ {0} /\ Nodes \in Nat \ {0} /\ CPU_CORE % Nodes = 0
    /\ DATAVOLUME \in Nat /\ DATAVOLUME % (Nodes * CPU_CORE) = 0
    /\ th \in 0..(Nodes - 1)
    /\ MaxTuples \in Nat
    /\ Fit \in Nat \ {0} /\ Counted \in 1..Fit

-------------------------------------------------------------------------------
(* Keys and ranges.                                                        *)

Min0(S) == CHOOSE i \in S : \A j \in S : i <= j

\* ShuffleLower1::partition over ranges_2_, and the column it puts a key into.
partition(key) == Min0({i \in Cores : key < ((i + 1) * DATAVOLUME) \div CPU_CORE})
Routed == {key \in 0..(DATAVOLUME - 1) : partition(key) \div (CPU_CORE \div Nodes) = th}

\* Mutant: the ranges of this node start at its own bound.
dist_ranges_shifted(i) ==
    (th * DATAVOLUME) \div Nodes + (i * DATAVOLUME) \div (Nodes * CPU_CORE)

\* The upper bounds of this node's ranges.
dist_ranges_(i) ==
    (th * DATAVOLUME) \div Nodes + ((i + 1) * DATAVOLUME) \div (Nodes * CPU_CORE)

Above(key) == {i \in Cores : key < dist_ranges_(i)}

\* Undefined (no return statement) for a key above the last bound.
compare_start_end(key) == Min0(Above(key))

\* Mutant: compare sorts in ascending order.
compare_ascending(t, u) == t.key <= u.key

\* The comparison given to stable_sort: descending, and true for equal keys.
compare(t, u) == t.key >= u.key

Tuple == [key : Routed, id : 1..MaxTuples]

VARIABLES
    pc,         \* "collect", "partition", "sort", "ready", "fill" or "done"
    tuples,     \* the tuples of blocks_, in order of arrival
    pushed,     \* tuples of blocks_ prelude has pushed into a range
    ranges_,    \* ranges_[i]: the tuples of range i
    sorted,     \* ranges whose thread has ended
    temp_cur_,  \* tuples execute has still to store
    count_,     \* the range execute takes from
    memory,     \* memory[k]: the k-th tuple of the block execute fills
    free_,      \* tuples stored in it since reset
    stored,     \* history: tuples execute has stored into blocks
    delivered   \* history: tuples the caller reads from the blocks it got

vars == <<pc, tuples, pushed, ranges_, sorted, temp_cur_, count_, memory, free_, stored, delivered>>
blockVars == <<memory, free_, stored, delivered>>

Init ==
    /\ pc = "collect"
    /\ tuples = <<>>
    /\ pushed = 0
    /\ ranges_ = [i \in Cores |-> <<>>]
    /\ sorted = {}
    /\ temp_cur_ = 0
    /\ count_ = 0
    /\ memory = [k \in 1..Fit |-> Garbage]
    /\ free_ = 0
    /\ stored = <<>>
    /\ delivered = <<>>

-------------------------------------------------------------------------------
(* prelude.                                                                *)

\* The child delivers a block; getNext yields each of its tuples.
Collect ==
    /\ pc = "collect"
    /\ Len(tuples) < MaxTuples
    /\ \E key \in Routed : tuples' = Append(tuples, [key |-> key, id |-> Len(tuples) + 1])
    /\ temp_cur_' = temp_cur_ + 1
    /\ UNCHANGED <<pc, pushed, ranges_, sorted, count_, blockVars>>

\* The child has ended.
ChildEnds ==
    /\ pc = "collect"
    /\ pc' = "partition"
    /\ UNCHANGED <<tuples, pushed, ranges_, sorted, temp_cur_, count_, blockVars>>

\* The next tuple of blocks_ is pushed into its range.
PushTuple ==
    /\ pc = "partition"
    /\ pushed < Len(tuples)
    /\ LET t == tuples[pushed + 1]
       IN  ranges_' = [ranges_ EXCEPT ![compare_start_end(t.key)] = Append(@, t)]
    /\ pushed' = pushed + 1
    /\ UNCHANGED <<pc, tuples, sorted, temp_cur_, count_, blockVars>>

\* Every tuple is in a range: the threads are created.
StartThreads ==
    /\ pc = "partition"
    /\ pushed = Len(tuples)
    /\ pc' = "sort"
    /\ UNCHANGED <<tuples, pushed, ranges_, sorted, temp_cur_, count_, blockVars>>

prelude == ChildEnds \/ PushTuple \/ StartThreads

Elements(s) == {s[k] : k \in 1..Len(s)}

Orders(s) ==
    {f \in [1..Len(s) -> Elements(s)] :
        /\ Elements(f) = Elements(s)
        /\ \A j, k \in 1..Len(s) : j < k => compare(f[j], f[k])}

\* stable_sort in the thread of range i; compare leaves the order of equal keys
\* open.
single_sort(i) ==
    /\ pc = "sort"
    /\ i \notin sorted
    /\ \E f \in Orders(ranges_[i]) : ranges_' = [ranges_ EXCEPT ![i] = f]
    /\ sorted' = sorted \cup {i}
    /\ UNCHANGED <<pc, tuples, pushed, temp_cur_, count_, blockVars>>

Joined ==
    /\ pc = "sort"
    /\ sorted = Cores
    /\ pc' = "ready"
    /\ count_' = 0
    /\ UNCHANGED <<tuples, pushed, ranges_, sorted, temp_cur_, blockVars>>

-------------------------------------------------------------------------------
(* execute, called again and again with the same block.                    *)

Enter ==
    /\ pc = "ready"
    /\ temp_cur_ # 0
    /\ free_' = 0
    /\ pc' = "fill"
    /\ UNCHANGED <<tuples, pushed, ranges_, sorted, temp_cur_, count_, memory, stored, delivered>>

\* Mutant: the range is left after every tuple.
StoreLast_leaves ==
    /\ pc = "fill"
    /\ free_ < Fit /\ temp_cur_ # 0
    /\ ranges_[count_] # <<>>
    /\ LET r == ranges_[count_] IN
       /\ memory' = [memory EXCEPT ![free_ + 1] = r[Len(r)]]
       /\ stored' = Append(stored, r[Len(r)])
       /\ ranges_' = [ranges_ EXCEPT ![count_] = SubSeq(r, 1, Len(r) - 1)]
       /\ count_' = count_ + 1
    /\ free_' = free_ + 1
    /\ temp_cur_' = temp_cur_ - 1
    /\ UNCHANGED <<pc, tuples, pushed, sorted, delivered>>

\* Mutant: the tuple stored is not taken off its range.
StoreLast_keeps ==
    /\ pc = "fill"
    /\ free_ < Fit /\ temp_cur_ # 0
    /\ ranges_[count_] # <<>>
    /\ LET r == ranges_[count_] IN
       /\ memory' = [memory EXCEPT ![free_ + 1] = r[Len(r)]]
       /\ stored' = Append(stored, r[Len(r)])
       /\ count_' = IF Len(r) = 1 THEN count_ + 1 ELSE count_
    /\ free_' = free_ + 1
    /\ temp_cur_' = temp_cur_ - 1
    /\ UNCHANGED <<pc, tuples, pushed, ranges_, sorted, delivered>>

\* The last tuple of the range is stored and taken off.
StoreLast ==
    /\ pc = "fill"
    /\ free_ < Fit /\ temp_cur_ # 0
    /\ ranges_[count_] # <<>>
    /\ LET r == ranges_[count_] IN
       /\ memory' = [memory EXCEPT ![free_ + 1] = r[Len(r)]]
       /\ stored' = Append(stored, r[Len(r)])
       /\ ranges_' = [ranges_ EXCEPT ![count_] = SubSeq(r, 1, Len(r) - 1)]
       /\ count_' = IF Len(r) = 1 THEN count_ + 1 ELSE count_
    /\ free_' = free_ + 1
    /\ temp_cur_' = temp_cur_ - 1
    /\ UNCHANGED <<pc, tuples, pushed, sorted, delivered>>

SkipEmpty ==
    /\ pc = "fill"
    /\ free_ < Fit /\ temp_cur_ # 0
    /\ ranges_[count_] = <<>>
    /\ count_' = count_ + 1
    /\ UNCHANGED <<pc, tuples, pushed, ranges_, sorted, temp_cur_, blockVars>>

\* The block is full or the last tuple is stored.  assembling() records the
\* number of tuples of a full block, whatever was stored.
Return ==
    /\ pc = "fill"
    /\ free_ = Fit \/ temp_cur_ = 0
    /\ delivered' = delivered \o SubSeq(memory, 1, Counted)
    /\ pc' = "ready"
    /\ UNCHANGED <<tuples, pushed, ranges_, sorted, temp_cur_, count_, memory, free_, stored>>

End ==
    /\ pc = "ready"
    /\ temp_cur_ = 0
    /\ pc' = "done"
    /\ UNCHANGED <<tuples, pushed, ranges_, sorted, temp_cur_, count_, blockVars>>

execute == Enter \/ StoreLast \/ SkipEmpty \/ Return \/ End

Done == pc = "done" /\ UNCHANGED vars

Next ==
    \/ Collect \/ prelude \/ Joined
    \/ \E i \in Cores : single_sort(i)
    \/ execute
    \/ Done

\* The child ends, the threads run, and the operator above calls until the end.
Fairness ==
    /\ WF_vars(prelude \/ Joined)
    /\ \A i \in Cores : WF_vars(single_sort(i))
    /\ WF_vars(execute)

Spec == Init /\ [][Next]_vars /\ Fairness

-------------------------------------------------------------------------------
TypeOK ==
    /\ pc \in {"collect", "partition", "sort", "ready", "fill", "done"}
    /\ tuples \in Seq(Tuple)
    /\ pushed \in 0..MaxTuples
    /\ ranges_ \in [Cores -> Seq(Tuple)]
    /\ sorted \in SUBSET Cores
    /\ temp_cur_ \in 0..MaxTuples
    /\ count_ \in 0..CPU_CORE
    /\ memory \in [1..Fit -> Tuple \cup {Garbage}]
    /\ free_ \in 0..Fit
    /\ stored \in Seq(Tuple)
    /\ delivered \in Seq(Tuple \cup {Garbage})

\* Whatever the exchange routes to this node has a range here: the bounds Sort
\* computes from its position agree with those the lowers route by, so
\* compare_start_end never falls off its end.
EveryKeyHasRange == \A k \in 1..Len(tuples) : Above(tuples[k].key) # {}

\* While tuples are left execute finds them: it never reads past the last range
\* (ranges_[CPU_CORE] does not exist), and none is left behind in a range it has
\* passed.
TuplesAhead ==
    pc \in {"ready", "fill"} =>
        /\ temp_cur_ # 0 => \E i \in Cores : i >= count_ /\ ranges_[i] # <<>>
        /\ \A i \in Cores : i < count_ => ranges_[i] = <<>>

\* Tuples are stored in ascending order of their keys, across ranges, threads
\* and blocks.
StoredAscending ==
    \A j, k \in 1..Len(stored) : j < k => stored[j].key <= stored[k].key

\* The place of the k-th stored tuple in what the operator above reads, when the
\* count of its block covers it.
InBlock(k) == ((k - 1) % Fit) + 1
Place(k) == ((k - 1) \div Fit) * Counted + InBlock(k)

\* Sorting ends and every tuple of the child was stored exactly once.  Of the tuples
\* stored the operator above reads those that assembling() counts, each in its place,
\* and none of the others: with 16- or 32-byte tuples the last of every full block is
\* lost.  It may read more behind them: assembling() counts the last block as full, so
\* stale tuples or uninitialised memory follow.
EndsComplete ==
    <>(/\ pc = "done"
       /\ Len(stored) = Len(tuples) /\ Elements(stored) = Elements(tuples)
       /\ \A k \in 1..Len(stored) :
             IF InBlock(k) <= Counted THEN delivered[Place(k)] = stored[k]
                                      ELSE stored[k] \notin Elements(delivered))
===============================================================================

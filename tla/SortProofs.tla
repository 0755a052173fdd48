------------------------------ MODULE SortProofs ------------------------------
(***************************************************************************)
(* Proofs about Sort, for any number of cores and nodes, any DATAVOLUME    *)
(* they divide, any number of tuples and any size of a block.              *)
(*                                                                         *)
(* Two arguments meet.  One is about the bounds: the key ranges of a node  *)
(* end where those the exchange routes by end, so every tuple has a range. *)
(* The other counts: the places of the ranges that hold a tuple are as     *)
(* many as temp_cur_ says are left, so execute runs out of tuples before   *)
(* it runs out of ranges, and whatever it has stored is not above whatever *)
(* is left.                                                                *)
(***************************************************************************)
EXTENDS Sort, SequenceTheorems, FiniteSetTheorems, WellFoundedInduction, TLAPS

Early == {"collect", "partition"}
Late == {"ready", "fill", "done"}

\* The places of the ranges that hold a tuple.
Holding(r) == {p \in Cores \X Nat : 1 <= p[2] /\ p[2] <= Len(r[p[1]])}
Held == Holding(ranges_)

\* The key lies between the bounds of range i.
Between(key, i) == key < dist_ranges_(i) /\ \A j \in Cores : j < i => dist_ranges_(j) <= key

Phases ==
    /\ pushed <= Len(tuples) /\ Len(tuples) <= MaxTuples
    /\ pc = "collect" => pushed = 0
    /\ pc \in Early => temp_cur_ = Len(tuples) /\ sorted = {}
    /\ pc \notin Early => pushed = Len(tuples)
    /\ pc \notin Late => stored = <<>> /\ count_ = 0
    /\ pc \in Late => sorted = Cores
    /\ pc = "done" => temp_cur_ = 0

\* The tuples in the ranges are those pushed, or those left; with those stored
\* they are all that were pushed.
Counts ==
    /\ IsFiniteSet(Held)
    /\ pc \in Early => Cardinality(Held) = pushed
    /\ pc \notin Early => Cardinality(Held) = temp_cur_
    /\ Cardinality(Held) + Len(stored) = pushed

InTheirRange ==
    \A i \in Cores : \A k \in 1..Len(ranges_[i]) : Between(ranges_[i][k].key, i)

Descending ==
    \A i \in sorted : \A j, k \in 1..Len(ranges_[i]) :
        j < k => ranges_[i][k].key <= ranges_[i][j].key

Passed == \A i \in Cores : i < count_ => Len(ranges_[i]) = 0

\* What is stored is not above what is left.
StoredBelow ==
    \A k \in 1..Len(stored) : \A i \in Cores : \A m \in 1..Len(ranges_[i]) :
        stored[k].key <= ranges_[i][m].key

\* Every tuple of the child is yet to be pushed, in a range or stored, and none
\* comes from elsewhere.
Waiting == {tuples[k] : k \in (pushed + 1)..Len(tuples)}
Filled(r) == UNION {Elements(r[i]) : i \in Cores}
InRanges == Filled(ranges_)
Whole == Elements(tuples) = Waiting \cup InRanges \cup Elements(stored)

Inv ==
    /\ TypeOK /\ Phases /\ Counts /\ InTheirRange /\ Descending /\ Passed
    /\ StoredBelow /\ StoredAscending /\ Whole

\* When prelude and execute are through, the operator above was given as many
\* tuples as the child delivered, and the same ones.
StoredOnce ==
    pc = "done" => Len(stored) = Len(tuples) /\ Elements(stored) = Elements(tuples)

-------------------------------------------------------------------------------
(* The bounds.                                                             *)

\* A set of natural numbers has a least element, which Min0 chooses.
LEMMA LeastChosen ==
    ASSUME NEW S \in SUBSET Nat, S # {}
    PROVE  Min0(S) \in S /\ \A j \in S : Min0(S) <= j
<1> DEFINE R == {p \in Nat \X Nat : p[1] < p[2]}
<1>1. IsWellFoundedOn(R, Nat)
  BY NatLessThanWellFounded DEF OpToRel
<1>2. \A a, b \in Nat : a < b => <<a, b>> \in R
  OBVIOUS
<1> HIDE DEF R
<1>3. PICK i \in S : \A j \in S : <<j, i>> \notin R
  BY <1>1, WFMin
<1>4. \A j \in S : ~(j < i)
  BY <1>2, <1>3
<1>5. \A j \in S : i <= j
  BY <1>4
<1> QED BY <1>5 DEF Min0

\* A multiple divides out.
LEMMA DivMultiple ==
    ASSUME NEW a \in Nat, NEW b \in Nat, b > 0 PROVE (a * b) \div b = a
<1> DEFINE n == a * b
           q == n \div b
<1>1. n \in Int /\ n >= 0
  OBVIOUS
<1>2. n = a * b
  OBVIOUS
<1> HIDE DEF n
<1>3. q \in Int /\ b * q <= n /\ n < b * q + b
  BY <1>1
<1> HIDE DEF q
<1>4. b * (q - a) <= 0 /\ 0 < b * (q - a + 1)
  <2>1. b * (q - a) = b * q - n /\ b * (q - a + 1) = b * q - n + b
    BY <1>1, <1>2, <1>3
  <2> QED BY <1>1, <1>3, <2>1
<1>5. q - a <= 0 /\ q - a + 1 > 0
  <2>1. PICK d \in Int : d = q - a
    BY <1>3
  <2>2. b * d <= 0 /\ 0 < b * (d + 1)
    BY <1>4, <2>1
  <2>3. d <= 0 /\ d + 1 > 0
    BY <2>2
  <2> QED BY <2>1, <2>3
<1>6. q = a
  BY <1>3, <1>5
<1> QED BY <1>6 DEF q, n

\* The bounds of this node, and of the exchange, as multiples of the width of a
\* range here.
LEMMA Bounds ==
    \E e \in Nat :
        /\ \A i \in Cores : dist_ranges_(i) = th * (e * CPU_CORE) + (i + 1) * e
        /\ \A i \in Cores : ((i + 1) * DATAVOLUME) \div CPU_CORE = (i + 1) * (e * Nodes)
<1>1. /\ CPU_CORE \in Nat /\ CPU_CORE > 0 /\ Nodes \in Nat /\ Nodes > 0 /\ th \in Nat
      /\ DATAVOLUME \in Nat /\ DATAVOLUME % (Nodes * CPU_CORE) = 0
  BY SortAssumption
<1> DEFINE w == Nodes * CPU_CORE
<1>2. w \in Nat /\ w > 0
  BY <1>1
<1>2a. DATAVOLUME % w = 0
  BY <1>1
<1>2b. w = Nodes * CPU_CORE
  OBVIOUS
<1> HIDE DEF w
<1>3. PICK e \in Nat : DATAVOLUME = e * w
  <2>1. DATAVOLUME \div w \in Nat /\ DATAVOLUME = (DATAVOLUME \div w) * w
    BY <1>1, <1>2, <1>2a
  <2> QED BY <2>1
<1>4. ASSUME NEW i \in Cores
      PROVE /\ dist_ranges_(i) = th * (e * CPU_CORE) + (i + 1) * e
            /\ ((i + 1) * DATAVOLUME) \div CPU_CORE = (i + 1) * (e * Nodes)
  <2>1. i + 1 \in Nat
    BY <1>1 DEF Cores
  <2>2. th * DATAVOLUME = (th * (e * CPU_CORE)) * Nodes
    BY <1>1, <1>2b, <1>3
  <2>3. (th * DATAVOLUME) \div Nodes = th * (e * CPU_CORE)
    <3>1. th * (e * CPU_CORE) \in Nat
      BY <1>1
    <3> QED BY <1>1, <2>2, <3>1, DivMultiple
  <2>4. ((i + 1) * DATAVOLUME) \div (Nodes * CPU_CORE) = (i + 1) * e
    <3>1. (i + 1) * DATAVOLUME = ((i + 1) * e) * w /\ (i + 1) * e \in Nat
      BY <1>2, <1>3, <2>1
    <3> QED BY <1>2, <1>2b, <3>1, DivMultiple
  <2>5. ((i + 1) * DATAVOLUME) \div CPU_CORE = (i + 1) * (e * Nodes)
    <3>1. (i + 1) * DATAVOLUME = ((i + 1) * (e * Nodes)) * CPU_CORE
      BY <1>1, <1>2b, <1>3, <2>1
    <3>2. (i + 1) * (e * Nodes) \in Nat
      BY <1>1, <2>1
    <3> QED BY <1>1, <3>1, <3>2, DivMultiple
  <2> QED BY <2>3, <2>4, <2>5 DEF dist_ranges_
<1> QED BY <1>4

\* A key the exchange routes to this node is below the last bound here: the last
\* of the ranges it deals to this node ends there.
LEMMA RoutedBelowLast ==
    ASSUME NEW key \in Routed
    PROVE  key \in Nat /\ key < dist_ranges_(CPU_CORE - 1)
<1> DEFINE mul == CPU_CORE \div Nodes
<1>1. /\ CPU_CORE \in Nat /\ CPU_CORE > 0 /\ Nodes \in Nat /\ Nodes > 0 /\ th \in Nat
      /\ DATAVOLUME \in Nat /\ CPU_CORE % Nodes = 0 /\ CPU_CORE - 1 \in Cores
  BY SortAssumption DEF Cores
<1>2. PICK e \in Nat :
        /\ \A i \in Cores : dist_ranges_(i) = th * (e * CPU_CORE) + (i + 1) * e
        /\ \A i \in Cores : ((i + 1) * DATAVOLUME) \div CPU_CORE = (i + 1) * (e * Nodes)
  BY Bounds
<1>3. key \in Nat /\ key < DATAVOLUME /\ partition(key) \div mul = th
  BY <1>1 DEF Routed
<1>4. mul \in Nat /\ mul > 0 /\ CPU_CORE = Nodes * mul
  <2>1. mul \in Int /\ CPU_CORE = Nodes * mul
    BY <1>1
  <2> HIDE DEF mul
  <2> QED BY <1>1, <2>1
<1> HIDE DEF mul
<1>5. PICK p \in Cores : p = partition(key) /\ key < ((p + 1) * DATAVOLUME) \div CPU_CORE
  <2> DEFINE S == {i \in Cores : key < ((i + 1) * DATAVOLUME) \div CPU_CORE}
  <2>1. CPU_CORE - 1 \in S
    <3>1. ((CPU_CORE - 1 + 1) * DATAVOLUME) \div CPU_CORE = DATAVOLUME
      <4>1. CPU_CORE - 1 + 1 = CPU_CORE /\ CPU_CORE * DATAVOLUME = DATAVOLUME * CPU_CORE
        BY <1>1
      <4> QED BY <1>1, <4>1, DivMultiple
    <3> QED BY <1>1, <1>3, <3>1
  <2>2. S \in SUBSET Nat
    BY DEF Cores
  <2> HIDE DEF S
  <2>3. Min0(S) \in S
    BY <2>1, <2>2, LeastChosen
  <2> QED BY <2>3 DEF S, partition
<1>6. p \in Nat /\ p + 1 <= (th + 1) * mul
  <2>1. p \in Nat /\ p \div mul = th
    BY <1>1, <1>3, <1>5 DEF Cores
  <2>2. p < mul * th + mul
    BY <1>1, <1>4, <2>1
  <2>3. mul * th + mul = (th + 1) * mul
    BY <1>1, <1>4
  <2>4. (th + 1) * mul \in Nat
    BY <1>1, <1>4
  <2> QED BY <2>1, <2>2, <2>3, <2>4
<1>7. key < (p + 1) * (e * Nodes)
  BY <1>2, <1>5
<1>8. (p + 1) * (e * Nodes) <= ((th + 1) * mul) * (e * Nodes)
  <2>1. PICK a \in Nat : a = e * Nodes
    BY <1>1, <1>2
  <2>2. PICK b \in Nat : b = (th + 1) * mul
    BY <1>1, <1>4
  <2>3. (p + 1) * a <= b * a
    BY <1>6, <2>1, <2>2
  <2> QED BY <2>1, <2>2, <2>3
<1>9. ((th + 1) * mul) * (e * Nodes) = th * (e * CPU_CORE) + CPU_CORE * e
  <2>1. PICK a \in Nat : a = Nodes * mul /\ a = CPU_CORE
    BY <1>1, <1>4
  <2>2. ((th + 1) * mul) * (e * Nodes) = (th + 1) * (e * (Nodes * mul))
    BY <1>1, <1>2, <1>4
  <2>3. (th + 1) * (e * a) = th * (e * a) + a * e
    BY <1>1, <1>2
  <2> QED BY <2>1, <2>2, <2>3
<1>10. dist_ranges_(CPU_CORE - 1) = th * (e * CPU_CORE) + CPU_CORE * e
  <2>1. CPU_CORE - 1 + 1 = CPU_CORE
    BY <1>1
  <2> QED BY <1>1, <1>2, <2>1
<1>11. PICK x \in Nat, y \in Nat :
          x = (p + 1) * (e * Nodes) /\ y = ((th + 1) * mul) * (e * Nodes)
  BY <1>1, <1>2, <1>4, <1>6
<1>12. key < x /\ x <= y /\ y = dist_ranges_(CPU_CORE - 1)
  BY <1>7, <1>8, <1>9, <1>10, <1>11
<1> QED BY <1>3, <1>11, <1>12

LEMMA BoundsAscend ==
    /\ \A i \in Cores : dist_ranges_(i) \in Nat
    /\ \A i, j \in Cores : i < j => dist_ranges_(i) <= dist_ranges_(j)
<1>1. CPU_CORE \in Nat /\ th \in Nat
  BY SortAssumption
<1>2. PICK e \in Nat : \A i \in Cores : dist_ranges_(i) = th * (e * CPU_CORE) + (i + 1) * e
  BY Bounds
<1>3. PICK a \in Nat : a = th * (e * CPU_CORE)
  BY <1>1, <1>2
<1>4. \A i \in Cores : dist_ranges_(i) = a + (i + 1) * e
  BY <1>2, <1>3
<1>5. \A i \in Cores : i \in Nat /\ (i + 1) * e \in Nat
  BY <1>1 DEF Cores
<1>6. ASSUME NEW i \in Cores, NEW j \in Cores, i < j PROVE (i + 1) * e <= (j + 1) * e
  BY <1>5, <1>6
<1> QED BY <1>4, <1>5, <1>6

\* compare_start_end of a routed key returns the range the key lies in.
LEMMA RangeOfKey ==
    ASSUME NEW key \in Routed
    PROVE  /\ Above(key) # {}
           /\ compare_start_end(key) \in Cores
           /\ Between(key, compare_start_end(key))
<1>1. key \in Nat /\ key < dist_ranges_(CPU_CORE - 1) /\ CPU_CORE - 1 \in Cores
  BY RoutedBelowLast, SortAssumption DEF Cores
<1>2. Above(key) # {} /\ Above(key) \in SUBSET Nat
  BY <1>1 DEF Above, Cores
<1>3. PICK i : i = compare_start_end(key) /\ i \in Above(key) /\ \A j \in Above(key) : i <= j
  BY <1>2, LeastChosen DEF compare_start_end
<1>4. i \in Cores /\ key < dist_ranges_(i)
  BY <1>3 DEF Above
<1>5. ASSUME NEW j \in Cores, j < i PROVE dist_ranges_(j) <= key
  <2>1. i \in Nat /\ j \in Nat
    BY <1>4 DEF Cores
  <2>2. j \notin Above(key)
    BY <1>3, <1>5, <2>1
  <2>3. ~(key < dist_ranges_(j))
    BY <2>2 DEF Above
  <2> QED BY <1>1, <2>3, BoundsAscend
<1> QED BY <1>2, <1>3, <1>4, <1>5 DEF Between

-------------------------------------------------------------------------------
(* Sequences that gain or lose their last tuple.                           *)

Gained(s, x, t) ==
    /\ Len(t) = Len(s) + 1 /\ t[Len(t)] = x
    /\ \A k \in 1..Len(s) : t[k] = s[k]

LEMMA AppendGains ==
    ASSUME NEW s \in Seq(Tuple), NEW x \in Tuple
    PROVE  Append(s, x) \in Seq(Tuple) /\ Gained(s, x, Append(s, x))
BY DEF Gained

LEMMA SubSeqLoses ==
    ASSUME NEW r \in Seq(Tuple), r # <<>>
    PROVE  /\ SubSeq(r, 1, Len(r) - 1) \in Seq(Tuple) /\ r[Len(r)] \in Tuple
           /\ Gained(SubSeq(r, 1, Len(r) - 1), r[Len(r)], r)
<1>1. Len(r) \in Nat /\ Len(r) > 0
  BY EmptySeq
<1>2. \A i \in 1..(Len(r) - 1) : r[i] \in Tuple
  BY <1>1
<1>3. /\ SubSeq(r, 1, Len(r) - 1) \in Seq(Tuple)
      /\ Len(SubSeq(r, 1, Len(r) - 1)) = IF 1 <= Len(r) - 1 THEN Len(r) - 1 - 1 + 1 ELSE 0
      /\ \A i \in 1..(Len(r) - 1 - 1 + 1) : SubSeq(r, 1, Len(r) - 1)[i] = r[1 + i - 1]
  BY <1>1, <1>2, SubSeqProperties
<1>4. PICK s \in Seq(Tuple) : s = SubSeq(r, 1, Len(r) - 1)
  BY <1>3
<1>5. Len(s) = Len(r) - 1
  <2>1. PICK n \in Nat : n = Len(r) /\ n > 0
    BY <1>1
  <2>2. Len(s) = IF 1 <= n - 1 THEN n - 1 - 1 + 1 ELSE 0
    BY <1>3, <1>4, <2>1, Zenon
  <2>3. Len(s) = n - 1
    BY <2>1, <2>2
  <2> QED BY <2>1, <2>3
<1>6. ASSUME NEW i \in 1..Len(s) PROVE s[i] = r[i]
  <2>1. i \in 1..(Len(r) - 1 - 1 + 1) /\ 1 + i - 1 = i
    BY <1>1, <1>5
  <2> QED BY <1>3, <1>4, <2>1
<1>7. Gained(s, r[Len(r)], r)
  BY <1>1, <1>5, <1>6 DEF Gained
<1> QED BY <1>1, <1>4, <1>7

LEMMA GainedFacts ==
    ASSUME NEW s \in Seq(Tuple), NEW x, NEW t \in Seq(Tuple), Gained(s, x, t)
    PROVE  /\ Len(s) \in Nat /\ Len(t) = Len(s) + 1 /\ t[Len(t)] = x
           /\ \A k \in 1..Len(s) : t[k] = s[k]
           /\ \A k \in 1..Len(t) : k \in 1..Len(s) \/ k = Len(t)
           /\ \A k \in 1..Len(s) : k \in 1..Len(t) /\ k < Len(t)
           /\ x \in Tuple
           /\ Elements(t) = Elements(s) \cup {x}
<1>1. /\ Len(s) \in Nat /\ Len(t) = Len(s) + 1 /\ t[Len(t)] = x
      /\ \A k \in 1..Len(s) : t[k] = s[k]
  BY DEF Gained
<1>2. \A k \in 1..Len(t) : k \in 1..Len(s) \/ k = Len(t)
  BY <1>1
<1>3. /\ \A k \in 1..Len(s) : k \in 1..Len(t) /\ k < Len(t)
      /\ Len(t) \in 1..Len(t)
  BY <1>1
<1>4. x \in Tuple
  BY <1>1, <1>3
<1>5. Elements(t) = Elements(s) \cup {x}
  BY <1>1, <1>2, <1>3 DEF Elements
<1> QED BY <1>1, <1>2, <1>3, <1>4, <1>5

LEMMA KeyTypes ==
    /\ \A t \in Tuple : t.key \in Routed /\ t.key \in Nat
    /\ \A s \in Seq(Tuple) : /\ Len(s) \in Nat
                             /\ \A k \in 1..Len(s) : s[k] \in Tuple /\ s[k].key \in Nat
<1>1. \A t \in Tuple : t.key \in Routed
  BY DEF Tuple
<1>2. \A t \in Tuple : t.key \in Nat
  BY <1>1, RoutedBelowLast
<1>3. \A s \in Seq(Tuple) : Len(s) \in Nat /\ \A k \in 1..Len(s) : s[k] \in Tuple
  BY LenProperties
<1> QED BY <1>1, <1>2, <1>3

-------------------------------------------------------------------------------
(* The invariant.                                                          *)

LEMMA InitInv == Init => Inv
<1> SUFFICES ASSUME Init PROVE Inv
  OBVIOUS
<1> USE DEF Init
<1>1. <<>> \in Seq(Tuple) /\ Len(<<>>) = 0 /\ <<>> \in Seq(Tuple \cup {Garbage})
  BY EmptySeq
<1>2. TypeOK
  <2>1. /\ 0 \in 0..MaxTuples /\ 0 \in 0..CPU_CORE /\ 0 \in 0..Fit
    BY SortAssumption
  <2> QED BY <1>1, <2>1 DEF TypeOK
<1>3. \A i \in Cores : Len(ranges_[i]) = 0
  BY <1>1
<1>4. Phases
  BY <1>1, SortAssumption DEF Phases, Early, Late
<1>5. Counts
  <2>1. Held = {}
    BY <1>3 DEF Held, Holding
  <2> QED BY <1>1, <2>1, FS_EmptySet DEF Counts, Early
<1>6. InTheirRange /\ Descending /\ Passed /\ StoredBelow /\ StoredAscending
  BY <1>1, <1>3 DEF InTheirRange, Descending, Passed, StoredBelow, StoredAscending
<1>7. Whole
  <2>1. Elements(<<>>) = {} /\ Waiting = {}
    BY <1>1 DEF Elements, Waiting
  <2>2. InRanges = {}
    BY <2>1 DEF InRanges, Filled
  <2> QED BY <2>1, <2>2 DEF Whole
<1> QED BY <1>2, <1>4, <1>5, <1>6, <1>7 DEF Inv

\* The parts of the invariant that a step which leaves the tuples where they are
\* leaves as they are.
LEMMA PlacesKept ==
    ASSUME Inv, UNCHANGED <<tuples, pushed, ranges_, stored>>
    PROVE  /\ Held' = Held /\ InTheirRange' /\ StoredBelow' /\ StoredAscending' /\ Whole'
           /\ sorted' = sorted => Descending'
           /\ count_' = count_ => Passed'
BY DEF Inv, Held, InTheirRange, StoredBelow, StoredAscending, Whole, Waiting, InRanges,
       Descending, Passed

\* Steps that only move prelude or execute on.
LEMMA ControlStep ==
    ASSUME Inv, ChildEnds \/ StartThreads \/ Joined \/ Enter \/ End \/ Done
    PROVE  Inv'
<1>1. UNCHANGED <<tuples, pushed, ranges_, sorted, temp_cur_, memory, stored, delivered>>
  BY DEF ChildEnds, StartThreads, Joined, Enter, End, Done, blockVars, vars
<1>2. count_' = count_
  <2>1. CASE Joined
    BY <2>1 DEF Inv, Phases, Late, Joined
  <2> QED BY <2>1 DEF ChildEnds, StartThreads, Enter, End, Done, vars
<1>3. TypeOK'
  <2>1. pc' \in {"collect", "partition", "sort", "ready", "fill", "done"}
    BY DEF Inv, TypeOK, ChildEnds, StartThreads, Joined, Enter, End, Done, vars
  <2>2. free_' \in 0..Fit
    <3>1. free_' = free_ \/ free_' = 0
      BY DEF ChildEnds, StartThreads, Joined, Enter, End, Done, vars, blockVars
    <3>2. 0 \in 0..Fit
      BY SortAssumption
    <3> QED BY <3>1, <3>2 DEF Inv, TypeOK
  <2> QED BY <1>1, <1>2, <2>1, <2>2 DEF Inv, TypeOK
<1>4. /\ Held' = Held /\ InTheirRange' /\ StoredBelow' /\ StoredAscending' /\ Whole'
      /\ Descending' /\ Passed'
  BY <1>1, <1>2, PlacesKept
<1>5. Phases' /\ Counts'
  <2>1. Phases /\ Counts
    BY DEF Inv
  <2>2. CASE ChildEnds
    BY <1>1, <1>2, <1>4, <2>1, <2>2 DEF ChildEnds, Phases, Counts, Early, Late
  <2>3. CASE StartThreads
    BY <1>1, <1>2, <1>4, <2>1, <2>3 DEF StartThreads, Phases, Counts, Early, Late
  <2>4. CASE Joined
    BY <1>1, <1>2, <1>4, <2>1, <2>4 DEF Joined, Phases, Counts, Early, Late
  <2>5. CASE Enter
    BY <1>1, <1>2, <1>4, <2>1, <2>5 DEF Enter, Phases, Counts, Early, Late
  <2>6. CASE End
    BY <1>1, <1>2, <1>4, <2>1, <2>6 DEF End, Phases, Counts, Early, Late
  <2>7. CASE Done
    BY <1>1, <1>2, <1>4, <2>1, <2>7 DEF Done, vars, Phases, Counts
  <2> QED BY <2>2, <2>3, <2>4, <2>5, <2>6, <2>7
<1> QED BY <1>3, <1>4, <1>5 DEF Inv

\* A range with one tuple more is one place more that holds a tuple.
LEMMA OneMore ==
    ASSUME NEW r \in [Cores -> Seq(Tuple)], NEW s \in [Cores -> Seq(Tuple)],
           NEW i \in Cores, NEW x, Gained(r[i], x, s[i]),
           \A j \in Cores : j # i => s[j] = r[j]
    PROVE  /\ Filled(s) = Filled(r) \cup {x}
           /\ IsFiniteSet(Holding(r)) <=> IsFiniteSet(Holding(s))
           /\ IsFiniteSet(Holding(r)) => Cardinality(Holding(s)) = Cardinality(Holding(r)) + 1
<1>1. /\ r[i] \in Seq(Tuple) /\ s[i] \in Seq(Tuple)
  OBVIOUS
<1>2. /\ Len(r[i]) \in Nat /\ Len(s[i]) = Len(r[i]) + 1
      /\ Elements(s[i]) = Elements(r[i]) \cup {x}
  BY <1>1, GainedFacts
<1>3. Filled(s) = Filled(r) \cup {x}
  BY <1>2 DEF Filled
<1> DEFINE p == <<i, Len(r[i]) + 1>>
<1>4. Holding(s) = Holding(r) \cup {p} /\ p \notin Holding(r)
  <2>1. p \in Cores \X Nat /\ p[1] = i /\ p[2] = Len(r[i]) + 1
    BY <1>2
  <2>2. p \in Holding(s) /\ p \notin Holding(r)
    BY <1>2, <2>1 DEF Holding
  <2>3. ASSUME NEW q \in Cores \X Nat, q # p PROVE q \in Holding(s) <=> q \in Holding(r)
    <3>1. CASE q[1] # i
      BY <3>1 DEF Holding
    <3>2. CASE q[1] = i
      <4>1. q[2] # Len(r[i]) + 1 /\ q[2] \in Nat
        BY <2>3, <3>2
      <4>2. q[2] <= Len(s[i]) <=> q[2] <= Len(r[i])
        BY <1>2, <4>1
      <4> QED BY <3>2, <4>2 DEF Holding
    <3> QED BY <3>1, <3>2
  <2>4. Holding(s) \subseteq Cores \X Nat /\ Holding(r) \subseteq Cores \X Nat
    BY DEF Holding
  <2> HIDE DEF p
  <2> QED BY <2>2, <2>3, <2>4
<1> HIDE DEF p
<1>5. Holding(r) = Holding(s) \ {p}
  BY <1>4
<1>6. IsFiniteSet(Holding(r)) => /\ IsFiniteSet(Holding(s))
                                 /\ Cardinality(Holding(s)) = Cardinality(Holding(r)) + 1
  BY <1>4, FS_AddElement
<1>7. IsFiniteSet(Holding(s)) => IsFiniteSet(Holding(r))
  BY <1>5, FS_RemoveElement
<1> QED BY <1>3, <1>6, <1>7

LEMMA CollectStep ==
    ASSUME Inv, Collect PROVE Inv'
<1>1. PICK key \in Routed : tuples' = Append(tuples, [key |-> key, id |-> Len(tuples) + 1])
  BY DEF Collect
<1>2. /\ pc = "collect" /\ Len(tuples) < MaxTuples /\ temp_cur_' = temp_cur_ + 1
      /\ UNCHANGED <<pc, pushed, ranges_, sorted, count_, memory, free_, stored, delivered>>
  BY DEF Collect, blockVars
<1>3. tuples \in Seq(Tuple) /\ Len(tuples) \in Nat /\ MaxTuples \in Nat
  BY LenProperties, SortAssumption DEF Inv, TypeOK
<1>4. PICK x \in Tuple : tuples' = Append(tuples, x)
  <2>1. [key |-> key, id |-> Len(tuples) + 1] \in Tuple
    BY <1>2, <1>3 DEF Tuple
  <2> QED BY <1>1, <2>1
<1>5. tuples' \in Seq(Tuple) /\ Gained(tuples, x, tuples')
  BY <1>3, <1>4, AppendGains
<1>6. /\ Len(tuples') = Len(tuples) + 1 /\ tuples'[Len(tuples')] = x
      /\ \A k \in 1..Len(tuples) : tuples'[k] = tuples[k]
      /\ Elements(tuples') = Elements(tuples) \cup {x}
  BY <1>3, <1>5, GainedFacts
<1>7. pushed = 0 /\ temp_cur_ = Len(tuples)
  BY <1>2 DEF Inv, Phases, Early
<1>8. TypeOK'
  <2>1. temp_cur_' \in 0..MaxTuples
    BY <1>2, <1>3, <1>7
  <2> QED BY <1>2, <1>5, <2>1 DEF Inv, TypeOK
<1>9. Phases'
  BY <1>2, <1>3, <1>6, <1>7 DEF Inv, Phases, Early, Late
<1>10. Counts'
  BY <1>2 DEF Inv, Counts, Early, Held
<1>11. InTheirRange' /\ Descending' /\ Passed' /\ StoredBelow' /\ StoredAscending'
  BY <1>2 DEF Inv, InTheirRange, Descending, Passed, StoredBelow, StoredAscending
<1>12. Whole'
  <2>1. Waiting = Elements(tuples) /\ Waiting' = Elements(tuples')
    BY <1>2, <1>7 DEF Waiting, Elements
  <2> QED BY <1>2, <1>6, <2>1 DEF Inv, Whole, InRanges
<1> QED BY <1>8, <1>9, <1>10, <1>11, <1>12 DEF Inv

\* prelude pushes a tuple into the range of its key.
LEMMA PushStep ==
    ASSUME Inv, PushTuple PROVE Inv'
<1>1. /\ pc = "partition" /\ pushed < Len(tuples) /\ pushed' = pushed + 1
      /\ UNCHANGED <<pc, tuples, sorted, temp_cur_, count_, memory, free_, stored, delivered>>
  BY DEF PushTuple, blockVars
<1>2. /\ tuples \in Seq(Tuple) /\ Len(tuples) \in Nat /\ pushed \in Nat
      /\ ranges_ \in [Cores -> Seq(Tuple)]
  BY LenProperties DEF Inv, TypeOK
<1>3. PICK x \in Tuple : x = tuples[pushed + 1]
  BY <1>1, <1>2
<1>4. PICK i \in Cores : i = compare_start_end(x.key) /\ Between(x.key, i)
  BY KeyTypes, RangeOfKey
<1>5. PICK g : /\ g = Append(ranges_[i], x)
               /\ ranges_' = [ranges_ EXCEPT ![i] = g]
  BY <1>3, <1>4 DEF PushTuple
<1>6. /\ g \in Seq(Tuple) /\ Gained(ranges_[i], x, g) /\ ranges_[i] \in Seq(Tuple)
  BY <1>2, <1>5, AppendGains
<1>7. /\ ranges_' \in [Cores -> Seq(Tuple)] /\ ranges_'[i] = g
      /\ \A j \in Cores : j # i => ranges_'[j] = ranges_[j]
  BY <1>2, <1>5, <1>6
<1>8. /\ InRanges' = InRanges \cup {x} /\ IsFiniteSet(Held)' /\ IsFiniteSet(Held)
      /\ Cardinality(Held)' = Cardinality(Held) + 1
  <2>1. IsFiniteSet(Holding(ranges_))
    BY DEF Inv, Counts, Held
  <2>2. /\ Filled(ranges_') = Filled(ranges_) \cup {x}
        /\ IsFiniteSet(Holding(ranges_'))
        /\ Cardinality(Holding(ranges_')) = Cardinality(Holding(ranges_)) + 1
    <3>1. Gained(ranges_[i], x, ranges_'[i])
      BY <1>6, <1>7
    <3>2. PICK R \in [Cores -> Seq(Tuple)] : R = ranges_'
      BY <1>7
    <3>3. Gained(ranges_[i], x, R[i]) /\ \A j \in Cores : j # i => R[j] = ranges_[j]
      BY <1>7, <3>1, <3>2
    <3>4. /\ Filled(R) = Filled(ranges_) \cup {x}
          /\ IsFiniteSet(Holding(ranges_)) <=> IsFiniteSet(Holding(R))
          /\ IsFiniteSet(Holding(ranges_)) =>
                Cardinality(Holding(R)) = Cardinality(Holding(ranges_)) + 1
      BY <1>2, <3>3, OneMore
    <3> QED BY <2>1, <3>2, <3>4
  <2> QED BY <2>1, <2>2 DEF InRanges, Held
<1>9. TypeOK'
  <2>1. pushed' \in 0..MaxTuples
    BY <1>1, <1>2, SortAssumption DEF Inv, Phases
  <2> QED BY <1>1, <1>7, <2>1 DEF Inv, TypeOK
<1>10. Phases'
  BY <1>1, <1>2 DEF Inv, Phases, Early, Late
<1>11. Counts'
  <2>1. Cardinality(Held) \in Nat /\ Cardinality(Held) = pushed /\ Cardinality(Held) + Len(stored) = pushed
    BY <1>1, <1>8, FS_CardinalityType DEF Inv, Counts, Early
  <2>2. Len(stored) \in Nat
    BY LenProperties DEF Inv, TypeOK
  <2> QED BY <1>1, <1>2, <1>8, <2>1, <2>2 DEF Counts, Early
<1>12. InTheirRange'
  <2> SUFFICES ASSUME NEW j \in Cores, NEW k \in 1..Len(ranges_'[j])
               PROVE  Between(ranges_'[j][k].key, j)
    BY DEF InTheirRange, Between
  <2>1. CASE j # i
    BY <1>7, <2>1 DEF Inv, InTheirRange
  <2>2. CASE j = i
    <3>1. k \in 1..Len(ranges_[i]) \/ k = Len(g)
      BY <1>6, <1>7, <2>2, GainedFacts
    <3>2. CASE k \in 1..Len(ranges_[i])
      BY <1>6, <1>7, <2>2, <3>2, GainedFacts DEF Inv, InTheirRange
    <3>3. CASE k = Len(g)
      BY <1>4, <1>6, <1>7, <2>2, <3>3, GainedFacts
    <3> QED BY <3>1, <3>2, <3>3
  <2> QED BY <2>1, <2>2
<1>13. stored = <<>> /\ sorted = {} /\ count_ = 0
  BY <1>1 DEF Inv, Phases, Early, Late
<1>14. Descending' /\ Passed' /\ StoredBelow' /\ StoredAscending'
  <2>1. Descending'
    BY <1>1, <1>13 DEF Descending
  <2>2. Passed'
    BY <1>1, <1>13 DEF Passed, Cores
  <2>3. StoredBelow' /\ StoredAscending'
    BY <1>1, <1>13, EmptySeq DEF StoredBelow, StoredAscending
  <2> QED BY <2>1, <2>2, <2>3
<1>15. Whole'
  <2>1. Waiting = Waiting' \cup {x}
    <3>1. \A k : k \in (pushed + 1)..Len(tuples) <=> k \in (pushed + 2)..Len(tuples) \/ k = pushed + 1
      BY <1>1, <1>2
    <3>2. pushed' + 1 = pushed + 2
      BY <1>1, <1>2
    <3> QED BY <1>1, <1>3, <3>1, <3>2 DEF Waiting
  <2> QED BY <1>1, <1>8, <2>1 DEF Inv, Whole
<1> QED BY <1>9, <1>10, <1>11, <1>12, <1>14, <1>15 DEF Inv

\* The thread of a range puts its tuples into descending order.
LEMMA SortStep ==
    ASSUME Inv, NEW i \in Cores, single_sort(i) PROVE Inv'
<1>1. /\ pc = "sort" /\ i \notin sorted /\ sorted' = sorted \cup {i}
      /\ UNCHANGED <<pc, tuples, pushed, temp_cur_, count_, memory, free_, stored, delivered>>
  BY DEF single_sort, blockVars
<1>2. PICK f \in Orders(ranges_[i]) : ranges_' = [ranges_ EXCEPT ![i] = f]
  BY DEF single_sort
<1>3. /\ ranges_ \in [Cores -> Seq(Tuple)] /\ ranges_[i] \in Seq(Tuple) /\ Len(ranges_[i]) \in Nat
  BY LenProperties DEF Inv, TypeOK
<1>4. PICK n \in Nat : n = Len(ranges_[i])
  BY <1>3
<1>5. /\ f \in [1..n -> Elements(ranges_[i])] /\ Elements(f) = Elements(ranges_[i])
      /\ \A j, k \in 1..n : j < k => f[k].key <= f[j].key
  <2>1. /\ f \in [1..n -> Elements(ranges_[i])] /\ Elements(f) = Elements(ranges_[i])
        /\ \A j, k \in 1..n : j < k => f[j].key >= f[k].key
    BY <1>2, <1>4 DEF Orders, compare
  <2>2. \A t \in Elements(ranges_[i]) : t.key \in Nat
    BY <1>3, KeyTypes DEF Elements
  <2>3. \A k \in 1..n : f[k].key \in Nat
    BY <2>1, <2>2
  <2>4. ASSUME NEW j \in 1..n, NEW k \in 1..n, j < k PROVE f[k].key <= f[j].key
    BY <2>1, <2>3, <2>4
  <2> QED BY <2>1, <2>4
<1>6. f \in Seq(Tuple) /\ Len(f) = n
  <2>1. Elements(ranges_[i]) \subseteq Tuple
    BY <1>3, KeyTypes DEF Elements
  <2> QED BY <1>5, <2>1
<1>7. /\ ranges_' \in [Cores -> Seq(Tuple)] /\ ranges_'[i] = f
      /\ \A j \in Cores : j # i => ranges_'[j] = ranges_[j]
  BY <1>2, <1>3, <1>6
<1>8. \A j \in Cores : /\ Len(ranges_'[j]) = Len(ranges_[j])
                       /\ Elements(ranges_'[j]) = Elements(ranges_[j])
  BY <1>4, <1>5, <1>6, <1>7
<1>9. Held' = Held
  BY <1>8 DEF Held, Holding
<1>10. TypeOK'
  BY <1>1, <1>7 DEF Inv, TypeOK
<1>11. Phases'
  BY <1>1 DEF Inv, Phases, Early, Late
<1>12. Counts'
  BY <1>1, <1>9 DEF Inv, Counts, Early
<1>13. InTheirRange'
  <2> SUFFICES ASSUME NEW j \in Cores, NEW k \in 1..Len(ranges_'[j])
               PROVE  Between(ranges_'[j][k].key, j)
    BY DEF InTheirRange, Between
  <2>1. ranges_'[j][k] \in Elements(ranges_'[j])
    BY DEF Elements
  <2>2. PICK m \in 1..Len(ranges_[j]) : ranges_'[j][k] = ranges_[j][m]
    BY <1>8, <2>1 DEF Elements
  <2> QED BY <2>2 DEF Inv, InTheirRange
<1>14. Descending'
  <2> SUFFICES ASSUME NEW h \in sorted', NEW j \in 1..Len(ranges_'[h]), NEW k \in 1..Len(ranges_'[h]),
                      j < k
               PROVE  ranges_'[h][k].key <= ranges_'[h][j].key
    BY DEF Descending
  <2>1. CASE h = i
    BY <1>5, <1>6, <1>7, <2>1
  <2>2. CASE h # i
    <3>1. h \in sorted /\ h \in Cores
      BY <1>1, <2>2 DEF Inv, TypeOK
    <3> QED BY <1>7, <2>2, <3>1 DEF Inv, Descending
  <2> QED BY <2>1, <2>2
<1>15. Passed'
  BY <1>1, <1>8 DEF Inv, Passed
<1>16. StoredBelow' /\ StoredAscending'
  <2>1. stored' = <<>>
    BY <1>1 DEF Inv, Phases, Late
  <2> QED BY <2>1, EmptySeq DEF StoredBelow, StoredAscending
<1>17. Whole'
  <2>1. InRanges' = InRanges
    BY <1>8 DEF InRanges, Filled
  <2> QED BY <1>1, <2>1 DEF Inv, Whole, Waiting
<1> QED BY <1>10, <1>11, <1>12, <1>13, <1>14, <1>15, <1>16, <1>17 DEF Inv

\* While tuples are left, the range execute takes from is one that exists.
LEMMA RangesLeft ==
    ASSUME Inv, pc \notin Early, temp_cur_ # 0
    PROVE  \E i \in Cores : count_ <= i /\ Len(ranges_[i]) # 0
<1>1. Held # {}
  <2>1. Cardinality(Held) # 0
    BY DEF Inv, Counts
  <2> QED BY <2>1, FS_EmptySet
<1>2. PICK p \in Cores \X Nat : 1 <= p[2] /\ p[2] <= Len(ranges_[p[1]])
  BY <1>1 DEF Held, Holding
<1>3. PICK i \in Cores : i = p[1]
  BY <1>2
<1>4. Len(ranges_[i]) \in Nat
  BY LenProperties DEF Inv, TypeOK
<1>5. p[2] \in Nat /\ 1 <= p[2] /\ p[2] <= Len(ranges_[i])
  BY <1>2, <1>3
<1>6. Len(ranges_[i]) # 0
  BY <1>4, <1>5
<1>7. count_ \in Nat /\ i \in Nat
  BY SortAssumption DEF Inv, TypeOK, Cores
<1>8. ~(i < count_)
  BY <1>6 DEF Inv, Passed
<1>9. count_ <= i
  BY <1>7, <1>8
<1> QED BY <1>6, <1>9

\* execute leaves a range it has emptied.
LEMMA SkipStep ==
    ASSUME Inv, SkipEmpty PROVE Inv'
<1>1. /\ pc = "fill" /\ temp_cur_ # 0 /\ ranges_[count_] = <<>> /\ count_' = count_ + 1
      /\ UNCHANGED <<pc, tuples, pushed, ranges_, sorted, temp_cur_, memory, free_, stored, delivered>>
  BY DEF SkipEmpty, blockVars
<1>2. PICK i \in Cores : count_ <= i /\ Len(ranges_[i]) # 0
  BY <1>1, RangesLeft DEF Early
<1>3. /\ count_ \in Nat /\ CPU_CORE \in Nat /\ Len(ranges_[count_]) = 0
  BY <1>1, SortAssumption, EmptySeq DEF Inv, TypeOK
<1>4. count_' \in 0..CPU_CORE
  BY <1>1, <1>2, <1>3 DEF Cores
<1>5. TypeOK'
  BY <1>1, <1>4 DEF Inv, TypeOK
<1>6. Held' = Held /\ InTheirRange' /\ StoredBelow' /\ StoredAscending' /\ Whole' /\ Descending'
  BY <1>1, PlacesKept
<1>7. Phases' /\ Counts'
  BY <1>1, <1>6 DEF Inv, Phases, Counts, Early, Late
<1>8. Passed'
  <2> SUFFICES ASSUME NEW j \in Cores, j < count_ + 1 PROVE Len(ranges_[j]) = 0
    BY <1>1 DEF Passed
  <2>1. j < count_ \/ j = count_
    BY <1>3 DEF Cores
  <2> QED BY <1>3, <2>1 DEF Inv, Passed
<1> QED BY <1>5, <1>6, <1>7, <1>8 DEF Inv

LEMMA ReturnStep ==
    ASSUME Inv, Return PROVE Inv'
<1>1. /\ pc = "fill" /\ pc' = "ready" /\ delivered' = delivered \o SubSeq(memory, 1, Counted)
      /\ UNCHANGED <<tuples, pushed, ranges_, sorted, temp_cur_, count_, memory, free_, stored>>
  BY DEF Return
<1>2. delivered' \in Seq(Tuple \cup {Garbage})
  <2>1. delivered \in Seq(Tuple \cup {Garbage}) /\ memory \in [1..Fit -> Tuple \cup {Garbage}]
    BY DEF Inv, TypeOK
  <2>2. \A k \in 1..Counted : memory[k] \in Tuple \cup {Garbage}
    BY <2>1, SortAssumption
  <2>3. SubSeq(memory, 1, Counted) \in Seq(Tuple \cup {Garbage})
    BY <2>2, SortAssumption, SubSeqProperties
  <2> QED BY <1>1, <2>1, <2>3, ConcatProperties
<1>3. TypeOK'
  BY <1>1, <1>2 DEF Inv, TypeOK
<1>4. /\ Held' = Held /\ InTheirRange' /\ StoredBelow' /\ StoredAscending' /\ Whole'
      /\ Descending' /\ Passed'
  BY <1>1, PlacesKept
<1>5. Phases' /\ Counts'
  BY <1>1, <1>4 DEF Inv, Phases, Counts, Early, Late
<1> QED BY <1>3, <1>4, <1>5 DEF Inv

\* execute stores the least of the tuples left.
LEMMA StoreStep ==
    ASSUME Inv, StoreLast PROVE Inv'
<1>1. /\ pc = "fill" /\ free_ < Fit /\ temp_cur_ # 0 /\ ranges_[count_] # <<>>
      /\ free_' = free_ + 1 /\ temp_cur_' = temp_cur_ - 1
      /\ UNCHANGED <<pc, tuples, pushed, sorted, delivered>>
  BY DEF StoreLast
<1>2. PICK c \in Cores : c = count_
  <2>1. PICK i \in Cores : count_ <= i
    BY <1>1, RangesLeft DEF Early
  <2> QED BY <2>1, SortAssumption DEF Cores, Inv, TypeOK
<1>3. /\ ranges_ \in [Cores -> Seq(Tuple)] /\ ranges_[c] \in Seq(Tuple) /\ stored \in Seq(Tuple)
  BY DEF Inv, TypeOK
<1>4. PICK r \in Seq(Tuple) : r = ranges_[c] /\ r # <<>>
  BY <1>1, <1>2, <1>3
<1>5. PICK q \in Seq(Tuple), x \in Tuple :
         q = SubSeq(r, 1, Len(r) - 1) /\ x = r[Len(r)] /\ Gained(q, x, r)
  BY <1>4, SubSeqLoses
<1>6. /\ memory' = [memory EXCEPT ![free_ + 1] = x]
      /\ stored' = Append(stored, x)
      /\ ranges_' = [ranges_ EXCEPT ![c] = q]
      /\ count_' = IF Len(r) = 1 THEN c + 1 ELSE c
  BY <1>2, <1>4, <1>5, Zenon DEF StoreLast
<1>7. stored' \in Seq(Tuple) /\ Gained(stored, x, stored')
  BY <1>3, <1>6, AppendGains
<1>8. /\ ranges_' \in [Cores -> Seq(Tuple)] /\ ranges_'[c] = q
      /\ \A j \in Cores : j # c => ranges_'[j] = ranges_[j]
  BY <1>3, <1>5, <1>6
<1>9. PICK T \in Seq(Tuple) : T = stored'
  BY <1>7
<1>10. PICK R \in [Cores -> Seq(Tuple)] : R = ranges_'
  BY <1>8
<1>11. R[c] = q /\ \A j \in Cores : j # c => R[j] = ranges_[j]
  BY <1>8, <1>10
<1>12. /\ Len(q) \in Nat /\ Len(r) = Len(q) + 1 /\ r[Len(r)] = x
       /\ \A k \in 1..Len(q) : r[k] = q[k]
       /\ \A k \in 1..Len(q) : k \in 1..Len(r) /\ k < Len(r)
  BY <1>5, GainedFacts
<1>13. /\ Len(stored) \in Nat /\ Len(T) = Len(stored) + 1 /\ T[Len(T)] = x
       /\ \A k \in 1..Len(stored) : T[k] = stored[k]
       /\ \A k \in 1..Len(T) : k \in 1..Len(stored) \/ k = Len(T)
       /\ Elements(T) = Elements(stored) \cup {x}
  <2>1. Gained(stored, x, T)
    BY <1>7, <1>9
  <2> QED BY <1>3, <2>1, GainedFacts
<1>14. /\ Filled(ranges_) = Filled(R) \cup {x}
       /\ IsFiniteSet(Holding(ranges_)) /\ IsFiniteSet(Holding(R))
       /\ Cardinality(Holding(ranges_)) = Cardinality(Holding(R)) + 1
       /\ Cardinality(Holding(R)) \in Nat
  <2>1. Gained(R[c], x, ranges_[c]) /\ \A j \in Cores : j # c => ranges_[j] = R[j]
    BY <1>4, <1>5, <1>11
  <2>2. /\ Filled(ranges_) = Filled(R) \cup {x}
        /\ IsFiniteSet(Holding(R)) <=> IsFiniteSet(Holding(ranges_))
        /\ IsFiniteSet(Holding(R)) => Cardinality(Holding(ranges_)) = Cardinality(Holding(R)) + 1
    BY <1>3, <2>1, OneMore
  <2>3. IsFiniteSet(Holding(ranges_))
    BY DEF Inv, Counts, Held
  <2>4. IsFiniteSet(Holding(R)) => Cardinality(Holding(R)) \in Nat
    BY FS_CardinalityType
  <2> QED BY <2>2, <2>3, <2>4
\* Each place of the new ranges is a place of the old ones, with the same tuple.
<1>15. ASSUME NEW j \in Cores, NEW k \in 1..Len(R[j])
       PROVE  k \in 1..Len(ranges_[j]) /\ R[j][k] = ranges_[j][k]
  <2>1. CASE j = c
    BY <1>4, <1>11, <1>12, <2>1
  <2>2. CASE j # c
    BY <1>11, <2>2
  <2> QED BY <2>1, <2>2
<1>16. sorted = Cores /\ c \in Nat /\ CPU_CORE \in Nat /\ c < CPU_CORE
  BY <1>1, SortAssumption DEF Inv, Phases, Late, Cores
<1>17. TypeOK'
  <2>1. temp_cur_' \in 0..MaxTuples
    BY <1>1, SortAssumption DEF Inv, TypeOK
  <2>2. free_ + 1 \in 1..Fit /\ free_' \in 0..Fit
    BY <1>1, SortAssumption DEF Inv, TypeOK
  <2>3. memory' \in [1..Fit -> Tuple \cup {Garbage}]
    <3>1. memory \in [1..Fit -> Tuple \cup {Garbage}]
      BY DEF Inv, TypeOK
    <3> QED BY <1>6, <3>1
  <2>4. count_' \in 0..CPU_CORE
    BY <1>6, <1>16
  <2> QED BY <1>1, <1>7, <1>8, <2>1, <2>2, <2>3, <2>4 DEF Inv, TypeOK
<1>18. Phases'
  BY <1>1 DEF Inv, Phases, Early, Late
<1>19. Counts'
  <2>1. /\ Cardinality(Holding(ranges_)) = temp_cur_
        /\ Cardinality(Holding(ranges_)) + Len(stored) = pushed
    BY <1>1 DEF Inv, Counts, Early, Held
  <2>2. /\ Cardinality(Holding(R)) = temp_cur_ - 1
        /\ Cardinality(Holding(R)) + Len(T) = pushed
    <3>1. PICK a \in Nat, b \in Nat : a = Cardinality(Holding(R)) /\ b = Len(stored)
      BY <1>13, <1>14
    <3>2. temp_cur_ = a + 1 /\ pushed = a + 1 + b
      BY <1>14, <2>1, <3>1, Zenon
    <3>3. a = temp_cur_ - 1 /\ a + (b + 1) = pushed
      BY <3>2
    <3> QED BY <1>13, <3>1, <3>3
  <2> QED BY <1>1, <1>9, <1>10, <1>14, <2>2 DEF Counts, Early, Held
<1>20. InTheirRange'
  <2> SUFFICES ASSUME NEW j \in Cores, NEW k \in 1..Len(R[j]) PROVE Between(R[j][k].key, j)
    BY <1>10 DEF InTheirRange, Between
  <2> QED BY <1>15 DEF Inv, InTheirRange
<1>21. Descending'
  <2> SUFFICES ASSUME NEW h \in Cores, NEW j \in 1..Len(R[h]), NEW k \in 1..Len(R[h]), j < k
               PROVE  R[h][k].key <= R[h][j].key
    BY <1>1, <1>10, <1>16 DEF Descending
  <2> QED BY <1>15, <1>16 DEF Inv, Descending
<1>22. Passed'
  <2> SUFFICES ASSUME NEW j \in Cores, j < count_' PROVE Len(R[j]) = 0
    BY <1>10 DEF Passed
  <2>1. CASE j = c
    BY <1>6, <1>11, <1>12, <1>16, <2>1
  <2>2. CASE j # c
    <3>1. j < count_
      BY <1>2, <1>6, <1>16, <2>2 DEF Cores
    <3> QED BY <1>11, <2>2, <3>1 DEF Inv, Passed
  <2> QED BY <2>1, <2>2
<1>23. ASSUME NEW j \in Cores, NEW k \in 1..Len(R[j]) PROVE x.key <= R[j][k].key
  <2>1. CASE j = c
    <3>1. k \in 1..Len(r) /\ k < Len(r) /\ Len(r) \in 1..Len(r)
      BY <1>11, <1>12, <2>1
    <3>2. r[Len(r)].key <= r[k].key
      BY <1>4, <1>16, <3>1 DEF Inv, Descending
    <3> QED BY <1>4, <1>5, <1>15, <2>1, <3>2
  <2>2. CASE j # c
    <3>1. k \in 1..Len(ranges_[j]) /\ R[j][k] = ranges_[j][k]
      BY <1>15
    <3>2. Len(ranges_[j]) # 0 /\ j \in Nat
      BY <3>1 DEF Cores
    <3>3. ~(j < c)
      BY <1>2, <3>2 DEF Inv, Passed
    <3>4. c < j
      BY <1>16, <2>2, <3>2, <3>3
    <3>5. dist_ranges_(c) <= R[j][k].key
      BY <3>1, <3>4 DEF Inv, InTheirRange, Between
    <3>6. x.key < dist_ranges_(c)
      <4>1. Len(r) \in 1..Len(r)
        BY <1>12
      <4>2. x.key < dist_ranges_(c)
        BY <1>4, <1>5, <4>1 DEF Inv, InTheirRange, Between
      <4> QED BY <4>2
    <3>7. x.key \in Nat /\ R[j][k].key \in Nat /\ dist_ranges_(c) \in Nat
      BY KeyTypes, BoundsAscend
    <3> QED BY <3>5, <3>6, <3>7
  <2> QED BY <2>1, <2>2
<1>24. StoredBelow'
  <2> SUFFICES ASSUME NEW k \in 1..Len(T), NEW j \in Cores, NEW m \in 1..Len(R[j])
               PROVE  T[k].key <= R[j][m].key
    BY <1>9, <1>10 DEF StoredBelow
  <2>1. CASE k \in 1..Len(stored)
    BY <1>13, <1>15, <2>1 DEF Inv, StoredBelow
  <2>2. CASE k = Len(T)
    BY <1>13, <1>23, <2>2
  <2> QED BY <1>13, <2>1, <2>2
<1>25. StoredAscending'
  <2> SUFFICES ASSUME NEW j \in 1..Len(T), NEW k \in 1..Len(T), j < k
               PROVE  T[j].key <= T[k].key
    BY <1>9 DEF StoredAscending
  <2>1. j \in 1..Len(stored)
    BY <1>13
  <2>2. CASE k \in 1..Len(stored)
    BY <1>13, <2>1, <2>2 DEF Inv, StoredAscending
  <2>3. CASE k = Len(T)
    <3>1. Len(r) \in 1..Len(ranges_[c])
      BY <1>4, <1>12
    <3>2. stored[j].key <= ranges_[c][Len(r)].key
      BY <2>1, <3>1 DEF Inv, StoredBelow
    <3> QED BY <1>4, <1>5, <1>13, <2>1, <2>3, <3>2
  <2> QED BY <1>13, <2>2, <2>3
<1>26. Whole'
  <2>1. InRanges = InRanges' \cup {x} /\ Elements(stored') = Elements(stored) \cup {x}
    BY <1>9, <1>10, <1>13, <1>14 DEF InRanges
  <2>2. Waiting' = Waiting /\ tuples' = tuples
    BY <1>1 DEF Waiting
  <2> QED BY <2>1, <2>2 DEF Inv, Whole
<1> QED BY <1>17, <1>18, <1>19, <1>20, <1>21, <1>22, <1>24, <1>25, <1>26 DEF Inv

LEMMA NextInv == Inv /\ [Next]_vars => Inv'
<1> SUFFICES ASSUME Inv, [Next]_vars PROVE Inv'
  OBVIOUS
<1>1. CASE Collect
  BY <1>1, CollectStep
<1>2. CASE prelude
  BY <1>2, ControlStep, PushStep DEF prelude
<1>3. CASE Joined
  BY <1>3, ControlStep
<1>4. ASSUME NEW i \in Cores, single_sort(i) PROVE Inv'
  BY <1>4, SortStep
<1>5. CASE execute
  BY <1>5, ControlStep, StoreStep, SkipStep, ReturnStep DEF execute
<1>6. CASE Done \/ UNCHANGED vars
  <2>1. UNCHANGED vars
    BY <1>6 DEF Done
  <2> QED BY <2>1 DEF vars, Inv, TypeOK, Phases, Counts, Held, InTheirRange, Descending, Passed,
                      StoredBelow, StoredAscending, Whole, Waiting, InRanges
<1> QED BY <1>1, <1>2, <1>3, <1>4, <1>5, <1>6 DEF Next

\* Sort keeps the invariant, whatever the scheduling.
THEOREM Invariance == Spec => []Inv
BY InitInv, NextInv, PTL DEF Spec

\* Every tuple the exchange delivers to this node has a range in it: the bounds
\* Sort computes from its position and those the lowers route by agree.
THEOREM KeysHaveRanges == Spec => []EveryKeyHasRange
<1>1. Inv => EveryKeyHasRange
  <2> SUFFICES ASSUME Inv, NEW k \in 1..Len(tuples) PROVE Above(tuples[k].key) # {}
    BY DEF EveryKeyHasRange
  <2>1. tuples[k].key \in Routed
    BY KeyTypes DEF Inv, TypeOK
  <2> QED BY <2>1, RangeOfKey
<1> QED BY <1>1, Invariance, PTL

\* While tuples are left execute finds one in a range it has not passed, so it
\* never reads the range after the last.
THEOREM NeverPastTheRanges == Spec => []TuplesAhead
<1>1. Inv => TuplesAhead
  <2> SUFFICES ASSUME Inv, pc \in {"ready", "fill"}
               PROVE  /\ temp_cur_ # 0 => \E i \in Cores : i >= count_ /\ ranges_[i] # <<>>
                      /\ \A i \in Cores : i < count_ => ranges_[i] = <<>>
    BY DEF TuplesAhead
  <2>1. ASSUME temp_cur_ # 0 PROVE \E i \in Cores : i >= count_ /\ ranges_[i] # <<>>
    <3>1. PICK i \in Cores : count_ <= i /\ Len(ranges_[i]) # 0
      BY <2>1, RangesLeft DEF Early
    <3>2. ranges_[i] # <<>>
      BY <3>1, EmptySeq
    <3>3. i >= count_
      BY <3>1, SortAssumption DEF Inv, TypeOK, Cores
    <3> QED BY <3>2, <3>3
  <2>2. ASSUME NEW i \in Cores, i < count_ PROVE ranges_[i] = <<>>
    <3>1. Len(ranges_[i]) = 0 /\ ranges_[i] \in Seq(Tuple)
      BY <2>2 DEF Inv, Passed, TypeOK
    <3> QED BY <3>1, EmptySeq
  <2> QED BY <2>1, <2>2
<1> QED BY <1>1, Invariance, PTL

\* execute stores the tuples in ascending order of their keys, across the ranges
\* the threads sorted and the blocks it fills.
THEOREM OutputAscends == Spec => []StoredAscending
BY Invariance, PTL DEF Inv

\* When execute has ended it has stored as many tuples as the child delivered,
\* and the same ones: none is dropped by the ranges, the sort or the end of a block.
THEOREM EveryTupleStored == Spec => []StoredOnce
<1>1. Inv => StoredOnce
  <2> SUFFICES ASSUME Inv, pc = "done"
               PROVE  Len(stored) = Len(tuples) /\ Elements(stored) = Elements(tuples)
    BY DEF StoredOnce
  <2>1. temp_cur_ = 0 /\ pushed = Len(tuples)
    BY DEF Inv, Phases, Early
  <2>2. Cardinality(Held) = 0 /\ Cardinality(Held) + Len(stored) = pushed /\ IsFiniteSet(Held)
    BY <2>1 DEF Inv, Counts, Early
  <2>3. Len(stored) \in Nat /\ Len(tuples) \in Nat
    BY LenProperties DEF Inv, TypeOK
  <2>4. Len(stored) = Len(tuples)
    BY <2>1, <2>2, <2>3
  <2>5. Held = {}
    BY <2>2, FS_EmptySet
  <2>6. \A i \in Cores : \A k \in 1..Len(ranges_[i]) : <<i, k>> \in Held
    BY DEF Held, Holding
  <2>7. InRanges = {}
    BY <2>5, <2>6 DEF InRanges, Filled, Elements
  <2>8. Waiting = {}
    BY <2>1, <2>3 DEF Waiting
  <2> QED BY <2>4, <2>7, <2>8 DEF Inv, Whole
<1> QED BY <1>1, Invariance, PTL
===============================================================================

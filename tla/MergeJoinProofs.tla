--------------------------- MODULE MergeJoinProofs ---------------------------
(***************************************************************************)
(* Proofs about MergeJoin, for any number of merge threads, any ascending  *)
(* streams and any size of a block.                                        *)
(*                                                                         *)
(* The slot all threads share counts up, and a thread is created with its  *)
(* own number in it: what it reads later is its own range or a later one.  *)
(* As long as no thread reads another's number, thread j alone moves the   *)
(* iterators of range j.  The pairs of range j it is through with are then *)
(* those with a left tuple up to Left(j) or a right tuple up to Right(j),  *)
(* and of these it has combined each match once.                           *)
(***************************************************************************)
EXTENDS MergeJoin, SequenceTheorems, TLAPS

Fields == {"l", "r", "fl", "fr"}
Labels == {"l1", "l2", "l3", "r1", "r2", "r3", "new", "test", "fl0", "fr0", "fl1", "fr1",
           "loopl", "loopr", "end"}
Gets == {"l1", "l2", "l3", "r1", "r2", "r3"}
Fake == {"fl0", "fr0", "fl1", "fr1", "loopl", "loopr"}

\* The threads created are those below created, and the slot holds the last one.
Creation ==
    /\ main = "gather" => created = 0
    /\ created > 0 => slot = created - 1
    /\ \A j \in Cores : pc[j] = "new" <=> j >= created
    /\ \A j \in Cores : inc[j] # Null => pc[j] \in Gets

\* The tables ascend, each range by itself; what is to come is not below.
Ascending(q) == \A j, k \in 1..Len(q) : j < k => q[j] <= q[k]
Below(q, v) == \A j \in 1..Len(q), k \in 1..Len(v) : q[j] <= v[k]
InRange(q, i) == \A k \in 1..Len(q) : q[k] \div CPU_CORE = i

Gathered ==
    \A s \in Sides :
        /\ Ascending(stream[s])
        /\ \A i \in Cores :
              Ascending(table[s][i]) /\ InRange(table[s][i], i) /\ Below(table[s][i], stream[s])

\* Range j as its thread sees it: the tables, the iterators, the tuples in hand.
lTab(j) == table["l"][j]
rTab(j) == table["r"][j]
lAt(j) == current_["l"][j]
rAt(j) == current_["r"][j]
lHas(j) == got[j]["l"]
rHas(j) == got[j]["r"]

\* The tuples a thread has in hand are those its iterators have just passed.
HasLeft(j) == lHas(j) = <<"l", j, lAt(j)>> /\ lAt(j) >= 1
HasRight(j) == rHas(j) = <<"r", j, rAt(j)>> /\ rAt(j) >= 1
LeftOver(j) == lHas(j) = Null /\ lAt(j) = Len(lTab(j))
RightOver(j) == rHas(j) = Null /\ rAt(j) = Len(rTab(j))

Pending(j, s) ==
    /\ inc[j] = <<s, j, current_[s][j]>>
    /\ current_[s][j] < Len(table[s][j])
    /\ got[j][s] = <<s, j, current_[s][j] + 1>>

InHand(j) ==
    /\ lAt(j) <= Len(lTab(j)) /\ rAt(j) <= Len(rTab(j))
    /\ pc[j] = "new" => lAt(j) = 0 /\ rAt(j) = 0
    /\ inc[j] # Null => Pending(j, GetSide[pc[j]])
    /\ pc[j] \in {"r1", "r2", "test"} => LeftOver(j) \/ HasLeft(j)
    /\ pc[j] = "test" => RightOver(j) \/ HasRight(j)
    /\ pc[j] = "r3" => HasLeft(j)
    /\ pc[j] = "l3" => HasRight(j)
    /\ pc[j] \in Fake => HasLeft(j) /\ HasRight(j) /\ lTab(j)[lAt(j)] = rTab(j)[rAt(j)]

\* A fake tuple is ahead of the iterator, or behind the table.
Ahead(t, s, j) == \E k \in 1..Len(table[s][j]) : k > current_[s][j] /\ t = <<s, j, k>>
Memory(t) == t[1] = "mem"

FakesAhead(j) ==
    /\ pc[j] \in {"fr0", "loopl"} => Memory(got[j]["fl"]) \/ Ahead(got[j]["fl"], "l", j)
    /\ pc[j] \in {"loopl", "fl1", "loopr"} =>
          Memory(got[j]["fr"]) \/ Ahead(got[j]["fr"], "l", j) \/ Ahead(got[j]["fr"], "r", j)

\* The left and right tuples thread j is through with.
Left(j) == IF pc[j] \in {"r1", "test", "r2", "r3"} /\ lHas(j) # Null THEN lAt(j) - 1 ELSE lAt(j)
Right(j) == IF pc[j] \in {"test", "l3"} /\ rHas(j) # Null THEN rAt(j) - 1 ELSE rAt(j)
Through(j, x, y) == pc[j] = "end" \/ x <= Left(j) \/ y <= Right(j)

Pair(j, x, y) == <<<<"l", j, x>>, <<"r", j, y>>>>
Match(j, x, y) == lTab(j)[x] = rTab(j)[y]

CombinedOnce(j) ==
    \A x \in 1..Len(lTab(j)), y \in 1..Len(rTab(j)) :
        Match(j, x, y) => Copies(Pair(j, x, y)) = IF Through(j, x, y) THEN 1 ELSE 0

NothingElse ==
    \A q \in BagToSet(result) : q \in Reference \/ Memory(q[1]) \/ Memory(q[2])

\* What holds until a thread reads another one's number.
Undisturbed ==
    /\ \A j \in Cores : InHand(j) /\ FakesAhead(j)
    /\ main = "gather" => result = EmptyBag
    /\ Unique => (\A j \in Cores : CombinedOnce(j)) /\ NothingElse

Inv ==
    /\ TypeOK /\ Creation /\ NeverAnEarlierRange /\ IsABag(result)
    /\ Gathered
    /\ ~spoiled => Undisturbed

-------------------------------------------------------------------------------
(* The labels of gather_merge, and bags.                                   *)

\* What getNext reads and where it goes on.
LEMMA Steps ==
    /\ DOMAIN GetSide = Gets /\ DOMAIN GetThen = Gets
    /\ \A p \in Gets : GetSide[p] = IF p \in {"l1", "l2", "l3"} THEN "l" ELSE "r"
    /\ GetThen["l1"] = "r1" /\ GetThen["l2"] = "r2" /\ GetThen["l3"] = "test"
    /\ \A p \in {"r1", "r2", "r3"} : GetThen[p] = "test"
BY DEF GetSide, GetThen, Gets

LEMMA LabelSet ==
    DOMAIN GetSide \cup {"new", "test", "fl0", "fr0", "fl1", "fr1", "loopl", "loopr", "end"} = Labels
BY Steps DEF Labels, Gets

\* A getNext goes on at a label of its own thread, other than "new".
LEMMA GoesOn == \A p \in Gets : GetThen[p] \in {"r1", "r2", "test"} /\ GetSide[p] \in Sides
BY Steps DEF Gets, Sides

LEMMA EmptyBagFacts == IsABag(EmptyBag) /\ \A p : ~BagIn(p, EmptyBag)
BY DEF IsABag, EmptyBag, SetToBag, BagIn, BagToSet

Adds(B, q, C) ==
    /\ BagToSet(C) = BagToSet(B) \cup {q}
    /\ \A p : p # q => (BagIn(p, C) <=> BagIn(p, B)) /\ (BagIn(p, C) => C[p] = B[p])
    /\ C[q] = (IF BagIn(q, B) THEN B[q] ELSE 0) + 1

\* A pair added to a bag counts once more, the others as before.
LEMMA AddedOnce ==
    ASSUME NEW B, IsABag(B), NEW q, NEW C, C = B (+) SetToBag({q})
    PROVE  IsABag(C) /\ Adds(B, q, C)
BY DEF IsABag, SetToBag, BagIn, BagToSet, (+), Adds

-------------------------------------------------------------------------------
(* What holds whatever the threads read: types, the slot, and the ranges.  *)

Basic == TypeOK /\ Creation /\ NeverAnEarlierRange /\ IsABag(result)

LEMMA CoresFacts == CPU_CORE \in Nat /\ CPU_CORE > 0 /\ Cores \subseteq Nat /\ 0 \in Cores
BY JoinAssumption DEF Cores

LEMMA InitBasic == Init => Basic
<1> SUFFICES ASSUME Init PROVE Basic
  OBVIOUS
<1> USE CoresFacts DEF Init
<1>1. TypeOK
  <2>1. stream \in [Sides -> Seq(Keys)]
    BY JoinAssumption
  <2>2. table \in [Sides -> [Cores -> Seq(Keys)]]
    OBVIOUS
  <2>3. current_ \in [Sides -> [Cores -> Nat]] /\ fake_count_ \in [Sides -> [Cores -> Nat]]
    OBVIOUS
  <2>4. got \in [Cores -> [{"l", "r", "fl", "fr"} -> Tuple \cup {Null}]]
    OBVIOUS
  <2>5. inc \in [Cores -> (Sides \X Cores \X Nat) \cup {Null}]
    OBVIOUS
  <2>6. room \in [Cores -> 0..Fit]
    BY JoinAssumption
  <2>7. pc \in [Cores -> Labels]
    BY DEF Labels
  <2>8. /\ main \in {"gather", "create", "join"} /\ slot \in Cores
        /\ created \in 0..CPU_CORE
    OBVIOUS
  <2>9. spoiled \in BOOLEAN /\ undefined \in BOOLEAN
    BY Zenon
  <2> HIDE DEF Init
  <2> QED BY <2>1, <2>2, <2>3, <2>4, <2>5, <2>6, <2>7, <2>8, <2>9, LabelSet DEF TypeOK
<1>2. Creation
  BY DEF Creation
<1>3. NeverAnEarlierRange
  BY DEF NeverAnEarlierRange
<1> QED BY <1>1, <1>2, <1>3, EmptyBagFacts DEF Basic

LEMMA gatherBasic ==
    ASSUME Basic, NEW s \in Sides, gather(s) PROVE Basic'
<1> USE DEF Basic
<1>1. PICK k : k = Head(stream[s]) /\ k \in Keys
  BY DEF gather, TypeOK
<1>2. PICK i : i = k \div CPU_CORE
  OBVIOUS
<1>3. stream' \in [Sides -> Seq(Keys)]
  <2>1. Tail(stream[s]) \in Seq(Keys)
    BY DEF gather, TypeOK
  <2> QED BY <2>1 DEF gather, TypeOK
<1>4. table' \in [Sides -> [Cores -> Seq(Keys)]]
  <2>1. CASE i \in Cores
    <3>1. table[s][i] \in Seq(Keys)
      BY <2>1 DEF TypeOK
    <3>2. PICK t \in Seq(Keys) : t = Append(table[s][i], k)
      <4>1. Append(table[s][i], k) \in Seq(Keys)
        BY <1>1, <3>1, AppendProperties
      <4> QED BY <4>1
    <3>3. table' = [table EXCEPT ![s][i] = t]
      BY <1>1, <1>2, <2>1, <3>2 DEF gather
    <3> QED BY <2>1, <3>2, <3>3 DEF TypeOK
  <2>2. CASE i \notin Cores
    BY <1>1, <1>2, <2>2 DEF gather, TypeOK
  <2> QED BY <2>1, <2>2
<1>5. TypeOK'
  <2>1. undefined' \in BOOLEAN
    BY Zenon DEF gather, TypeOK
  <2> QED BY <1>3, <1>4, <2>1 DEF gather, TypeOK
<1>6. Creation' /\ NeverAnEarlierRange' /\ IsABag(result')
  BY DEF gather, threadVars, Creation, NeverAnEarlierRange
<1> QED BY <1>5, <1>6

LEMMA mainBasic == ASSUME Basic, Assemble \/ Create PROVE Basic'
<1> USE DEF Basic
<1>1. CASE Assemble
  <2>1. TypeOK'
    BY <1>1 DEF Assemble, TypeOK, threadVars
  <2> QED BY <1>1, <2>1 DEF Assemble, threadVars, Creation, NeverAnEarlierRange
<1>2. CASE Create
  <2>1. created \in Cores /\ created \in Nat
    BY <1>2, CoresFacts DEF Create, TypeOK, Cores
  <2>2. pc' \in [Cores -> Labels]
    BY <1>2, LabelSet DEF Create, TypeOK, Labels
  <2>3. created' \in 0..CPU_CORE /\ main' \in {"gather", "create", "join"} /\ slot' \in Cores
    BY <1>2, <2>1, CoresFacts DEF Create, TypeOK
  <2>4. TypeOK'
    BY <1>2, <2>2, <2>3, LabelSet DEF Create, TypeOK
  <2>5. Creation'
    <3>1. created' = created + 1 /\ slot' = created /\ main' # "gather" /\ inc' = inc
      BY <1>2 DEF Create
    <3>2. ASSUME NEW j \in Cores PROVE (pc'[j] = "new" <=> j >= created') /\ (inc'[j] # Null => pc'[j] \in Gets)
      <4>1. j \in Nat
        BY CoresFacts
      <4>2. pc'[j] = IF j = created THEN "l1" ELSE pc[j]
        BY <1>2, LabelSet DEF Create, TypeOK
      <4> QED BY <2>1, <3>1, <4>1, <4>2 DEF Creation, Gets
    <3> QED BY <2>1, <3>1, <3>2 DEF Creation
  <2> QED BY <1>2, <2>4, <2>5 DEF Create, NeverAnEarlierRange
<1> QED BY <1>1, <1>2

-------------------------------------------------------------------------------
(* The steps of a merge thread, in a form that later proofs take apart.    *)

Takes(j, f, t) == got' = [got EXCEPT ![j][f] = t]

\* Thread j has read position at of side s in range i, and takes a tuple or not.
TookNone(j, s, i, at) ==
    /\ at >= Len(table[s][i])
    /\ Takes(j, s, Null) /\ Goto(j, GetThen[pc[j]]) /\ inc' = inc
TookOne(j, s, i, at) ==
    /\ at < Len(table[s][i])
    /\ Takes(j, s, <<s, i, at + 1>>) /\ inc' = [inc EXCEPT ![j] = <<s, i, at>>] /\ pc' = pc

LEMMA SlotNotBelow ==
    ASSUME Basic, NEW j \in Cores, pc[j] # "new" PROVE slot \in Nat /\ slot >= j
BY CoresFacts DEF Basic, Creation, TypeOK, Cores

LEMMA getNextDone ==
    ASSUME TypeOK, NEW j \in Cores, getNext(j)
    PROVE  \E s \in Sides, at \in Nat :
              /\ pc[j] \in Gets /\ s = GetSide[pc[j]] /\ inc[j] = Null
              /\ at = current_[s][slot]
              /\ TookNone(j, s, slot, at) \/ TookOne(j, s, slot, at)
<1>1. pc[j] \in Gets /\ inc[j] = Null
  BY Steps DEF getNext
<1>2. PICK s \in Sides : s = GetSide[pc[j]]
  BY <1>1, GoesOn
<1>3. PICK at \in Nat : at = current_[s][slot]
  BY DEF TypeOK
<1>4. Len(table[s][slot]) \in Nat
  <2>1. table[s][slot] \in Seq(Keys)
    BY DEF TypeOK
  <2> QED BY <2>1
<1>5. TookNone(j, s, slot, at) \/ TookOne(j, s, slot, at)
  <2>1. CASE at >= Len(table[s][slot])
    BY <1>2, <1>3, <2>1 DEF getNext, TookNone, Takes
  <2>2. CASE ~(at >= Len(table[s][slot]))
    <3>1. at < Len(table[s][slot])
      BY <1>4, <2>2
    <3> QED BY <1>2, <1>3, <2>2, <3>1 DEF getNext, TookOne, Takes
  <2> QED BY <2>1, <2>2
<1> QED BY <1>1, <1>2, <1>3, <1>5

\* A tuple taken is of the thread's range or a later one.
LEMMA TakesBasic ==
    ASSUME Basic, NEW j \in Cores, NEW f \in Fields, NEW t \in Tuple \cup {Null},
           t # Null /\ t[1] # "mem" => t[2] >= j, Takes(j, f, t)
    PROVE  /\ got' \in [Cores -> [{"l", "r", "fl", "fr"} -> Tuple \cup {Null}]]
           /\ NeverAnEarlierRange'
<1>1. got' \in [Cores -> [{"l", "r", "fl", "fr"} -> Tuple \cup {Null}]]
  BY DEF Basic, TypeOK, Takes, Fields
<1>2. ASSUME NEW i \in Cores, NEW g \in Fields
      PROVE  got'[i][g] = IF i = j /\ g = f THEN t ELSE got[i][g]
  BY DEF Basic, TypeOK, Takes, Fields
<1>3. \A i \in Cores : DOMAIN got[i] = Fields /\ DOMAIN got'[i] = Fields
  BY <1>1 DEF Basic, TypeOK, Fields
<1>4. NeverAnEarlierRange'
  <2> SUFFICES ASSUME NEW i \in Cores, NEW g \in Fields
      PROVE (got'[i][g] # Null /\ got'[i][g][1] # "mem") => got'[i][g][2] >= i
    BY <1>3 DEF NeverAnEarlierRange
  <2>1. CASE i = j /\ g = f
    BY <1>2, <2>1
  <2>2. CASE ~(i = j /\ g = f)
    <3>1. got'[i][g] = got[i][g]
      BY <1>2, <2>2
    <3> QED BY <1>3, <3>1 DEF Basic, NeverAnEarlierRange
  <2> QED BY <2>1, <2>2
<1> QED BY <1>1, <1>4

\* The parts of TypeOK that no step of a thread changes.
LEMMA ThreadTypes ==
    ASSUME TypeOK, UNCHANGED mainVars,
           current_' \in [Sides -> [Cores -> Nat]], fake_count_' \in [Sides -> [Cores -> Nat]],
           pc' \in [Cores -> Labels],
           got' \in [Cores -> [{"l", "r", "fl", "fr"} -> Tuple \cup {Null}]],
           inc' \in [Cores -> (Sides \X Cores \X Nat) \cup {Null}],
           room' \in [Cores -> 0..Fit], spoiled' \in BOOLEAN, undefined' \in BOOLEAN
    PROVE  TypeOK'
BY LabelSet DEF TypeOK, mainVars

\* A label a created thread goes to keeps the threads created as they are.
LEMMA GotoCreation ==
    ASSUME Basic, UNCHANGED mainVars, NEW j \in Cores, pc[j] # "new",
           NEW label \in Labels \ {"new"}, Goto(j, label), inc'[j] = Null,
           \A i \in Cores : i # j => inc'[i] = inc[i]
    PROVE  pc' \in [Cores -> Labels] /\ Creation'
<1>1. pc \in [Cores -> Labels]
  BY LabelSet DEF Basic, TypeOK
<1>2. pc' \in [Cores -> Labels] /\ pc'[j] = label /\ \A i \in Cores : i # j => pc'[i] = pc[i]
  BY <1>1 DEF Goto
<1>3. created \in Nat /\ j \in Nat
  BY CoresFacts DEF Basic, TypeOK
<1> QED BY <1>2, <1>3 DEF Basic, Creation, mainVars

LEMMA ReadSlotBasic ==
    ASSUME Basic, NEW j \in Cores, ReadSlot(j) PROVE spoiled' \in BOOLEAN /\ IsABag(result')
<1>1. spoiled' \in BOOLEAN
  BY Zenon DEF ReadSlot, Basic, TypeOK
<1>2. result' = EmptyBag \/ result' = result
  BY DEF ReadSlot
<1> QED BY <1>1, <1>2, EmptyBagFacts DEF Basic

LEMMA getNextBasic ==
    ASSUME Basic, NEW j \in Cores, getNext(j) PROVE Basic'
<1>1. PICK s \in Sides, at \in Nat :
          /\ pc[j] \in Gets /\ s = GetSide[pc[j]] /\ inc[j] = Null
          /\ at = current_[s][slot]
          /\ TookNone(j, s, slot, at) \/ TookOne(j, s, slot, at)
  BY getNextDone DEF Basic
<1>2. slot \in Nat /\ slot >= j /\ slot \in Cores
  BY <1>1, SlotNotBelow DEF Gets, Basic, TypeOK
<1>3. UNCHANGED mainVars /\ current_' = current_ /\ room' = room
  BY DEF getNext
<1>4. fake_count_' \in [Sides -> [Cores -> Nat]]
  <2>1. fake_count_' = [fake_count_ EXCEPT ![s][slot] = 0]
    BY <1>1 DEF getNext
  <2> QED BY <1>2, <2>1 DEF Basic, TypeOK
<1>5. undefined' \in BOOLEAN
  <2>1. undefined' = (at > Len(table[s][slot]))
    BY <1>1 DEF getNext
  <2>2. undefined' = TRUE \/ undefined' = FALSE
    BY <2>1
  <2> QED BY <2>2, Zenon
<1>6. spoiled' \in BOOLEAN /\ IsABag(result')
  BY ReadSlotBasic DEF getNext
<1>7. s \in Fields
  BY DEF Sides, Fields
<1>8. /\ pc' \in [Cores -> Labels]
      /\ got' \in [Cores -> [{"l", "r", "fl", "fr"} -> Tuple \cup {Null}]]
      /\ inc' \in [Cores -> (Sides \X Cores \X Nat) \cup {Null}]
      /\ Creation' /\ NeverAnEarlierRange'
  <2>1. CASE TookNone(j, s, slot, at)
    <3>1. got' \in [Cores -> [{"l", "r", "fl", "fr"} -> Tuple \cup {Null}]] /\ NeverAnEarlierRange'
      BY <1>7, <2>1, TakesBasic DEF TookNone
    <3>2. inc' = inc
      BY <2>1 DEF TookNone
    <3>3. PICK label \in Labels \ {"new"} : label = GetThen[pc[j]]
      BY <1>1, GoesOn DEF Labels
    <3>4. Goto(j, label)
      BY <2>1, <3>3 DEF TookNone
    <3>5. pc' \in [Cores -> Labels] /\ Creation'
      BY <1>1, <1>3, <3>2, <3>3, <3>4, GotoCreation DEF Gets
    <3> QED BY <3>1, <3>2, <3>5 DEF Basic, TypeOK
  <2>2. CASE TookOne(j, s, slot, at)
    <3>1. PICK t : t = <<s, slot, at + 1>>
      OBVIOUS
    <3>2. t \in Tuple /\ t[2] >= j
      BY <1>2, <3>1 DEF Tuple
    <3>3. Takes(j, s, t)
      BY <2>2, <3>1 DEF TookOne
    <3>4. got' \in [Cores -> [{"l", "r", "fl", "fr"} -> Tuple \cup {Null}]] /\ NeverAnEarlierRange'
      BY <1>7, <3>2, <3>3, TakesBasic
    <3>5. PICK u \in Sides \X Cores \X Nat : u = <<s, slot, at>>
      BY <1>2
    <3>6. inc' = [inc EXCEPT ![j] = u] /\ pc' = pc
      BY <2>2, <3>5 DEF TookOne
    <3>7. inc' \in [Cores -> (Sides \X Cores \X Nat) \cup {Null}]
      BY <3>5, <3>6 DEF Basic, TypeOK
    <3>8. pc' \in [Cores -> Labels]
      BY <3>6, LabelSet DEF Basic, TypeOK
    <3>9. \A i \in Cores : i # j => inc'[i] = inc[i]
      BY <3>6 DEF Basic, TypeOK
    <3>10. Creation'
      BY <1>1, <1>3, <3>6, <3>9 DEF Basic, Creation, mainVars
    <3> QED BY <3>4, <3>7, <3>8, <3>10
  <2> QED BY <1>1, <2>1, <2>2
<1>9. current_' \in [Sides -> [Cores -> Nat]] /\ room' \in [Cores -> 0..Fit]
  BY <1>3 DEF Basic, TypeOK
<1>10. TypeOK'
  BY <1>3, <1>4, <1>5, <1>6, <1>8, <1>9, ThreadTypes DEF Basic
<1> QED BY <1>6, <1>8, <1>10 DEF Basic

\* What Increment stores, and where the thread goes on.
LEMMA IncrementDone ==
    ASSUME Basic, NEW j \in Cores, Increment(j)
    PROVE  /\ pc[j] \in Gets
           /\ \E s \in Sides, i \in Cores, n, at \in Nat :
                 /\ inc[j] = <<s, i, n>> /\ at \in {n, current_[s][i]}
                 /\ current_' = [current_ EXCEPT ![s][i] = at + 1]
<1>1. inc[j] # Null /\ pc[j] \in Gets
  BY DEF Increment, Basic, Creation
<1>2. PICK s \in Sides, i \in Cores, n \in Nat : inc[j] = <<s, i, n>>
  <2>1. PICK u \in Sides \X Cores \X Nat : u = inc[j]
    BY <1>1 DEF Basic, TypeOK
  <2>2. u[1] \in Sides /\ u[2] \in Cores /\ u[3] \in Nat /\ u = <<u[1], u[2], u[3]>>
    OBVIOUS
  <2> QED BY <2>1, <2>2
<1>3. PICK at \in {n, current_[s][i]} : current_' = [current_ EXCEPT ![s][i] = at + 1]
  <2>1. inc[j][1] = s /\ inc[j][2] = i /\ inc[j][3] = n
    BY <1>2
  <2> QED BY <2>1 DEF Increment
<1>4. at \in Nat
  BY <1>2, <1>3 DEF Basic, TypeOK
<1> QED BY <1>1, <1>2, <1>3, <1>4

LEMMA IncrementBasic ==
    ASSUME Basic, NEW j \in Cores, Increment(j) PROVE Basic'
<1>1. pc[j] \in Gets
  BY IncrementDone
<1>2. PICK s \in Sides, i \in Cores, at \in Nat : current_' = [current_ EXCEPT ![s][i] = at + 1]
  BY IncrementDone
<1>3. current_' \in [Sides -> [Cores -> Nat]]
  BY <1>2 DEF Basic, TypeOK
<1>4. PICK label \in Labels \ {"new"} : label = GetThen[pc[j]]
  BY <1>1, GoesOn DEF Labels
<1>5. UNCHANGED mainVars /\ Goto(j, label) /\ inc' = [inc EXCEPT ![j] = Null]
  BY <1>4 DEF Increment
<1>6. UNCHANGED <<fake_count_, got, room, result, spoiled, undefined>>
  BY DEF Increment
<1>7. inc' \in [Cores -> (Sides \X Cores \X Nat) \cup {Null}] /\ inc'[j] = Null
      /\ \A m \in Cores : m # j => inc'[m] = inc[m]
  BY <1>5 DEF Basic, TypeOK
<1>8. pc' \in [Cores -> Labels] /\ Creation'
  BY <1>1, <1>4, <1>5, <1>7, GotoCreation DEF Gets
<1>9. TypeOK'
  BY <1>3, <1>5, <1>6, <1>7, <1>8, LabelSet DEF Basic, TypeOK, mainVars
<1> QED BY <1>6, <1>8, <1>9 DEF Basic, NeverAnEarlierRange

\* What combine does to the counters, with or without room.
LEMMA CombineBasic ==
    ASSUME Basic, NEW j \in Cores, NEW t, NEW u, NEW label, Combine(j, t, u, label)
    PROVE  /\ room' \in [Cores -> 0..Fit] /\ spoiled' \in BOOLEAN /\ IsABag(result')
           /\ Goto(j, label) \/ Goto(j, "l1")
<1>1. CASE /\ room[j] < Fit /\ room' = [room EXCEPT ![j] = @ + 1]
           /\ result' = IF spoiled THEN result ELSE result (+) SetToBag({<<t, u>>})
           /\ Goto(j, label) /\ UNCHANGED spoiled
  <2>1. room' \in [Cores -> 0..Fit]
    BY <1>1, JoinAssumption DEF Basic, TypeOK
  <2>2. spoiled' \in BOOLEAN
    BY <1>1 DEF Basic, TypeOK
  <2>3. CASE spoiled
    BY <1>1, <2>1, <2>2, <2>3 DEF Basic
  <2>4. CASE ~spoiled
    <3>1. PICK q : q = <<t, u>>
      OBVIOUS
    <3>2. PICK C : C = result (+) SetToBag({q})
      OBVIOUS
    <3>3. PICK B : B = result /\ IsABag(B)
      BY DEF Basic
    <3>4. IsABag(C)
      BY <3>2, <3>3, AddedOnce
    <3>5. result' = C
      BY <1>1, <2>4, <3>1, <3>2
    <3> QED BY <1>1, <2>1, <2>2, <3>4, <3>5
  <2> QED BY <2>3, <2>4
<1>2. CASE room' = [room EXCEPT ![j] = 0] /\ Goto(j, "l1") /\ spoiled' = TRUE /\ result' = EmptyBag
  <2>1. room' \in [Cores -> 0..Fit]
    BY <1>2, JoinAssumption DEF Basic, TypeOK
  <2>2. spoiled' \in BOOLEAN
    BY <1>2, Zenon
  <2> QED BY <1>2, <2>1, <2>2, EmptyBagFacts
<1> QED BY <1>1, <1>2 DEF Combine

LEMMA CompareBasic ==
    ASSUME Basic, NEW j \in Cores, Compare(j) PROVE Basic'
<1>1. pc[j] = "test" /\ UNCHANGED <<mainVars, current_, fake_count_, got, inc, undefined>>
  BY DEF Compare
<1>2. inc[j] = Null
  BY <1>1 DEF Basic, Creation, Gets
<1>3. /\ room' \in [Cores -> 0..Fit] /\ spoiled' \in BOOLEAN /\ IsABag(result')
      /\ \E label \in {"end", "fl0", "l1", "l3", "r3"} : Goto(j, label)
  <2>1. CASE UNCHANGED <<room, result, spoiled>> /\ \E label \in {"end", "l3", "r3"} : Goto(j, label)
    BY <2>1 DEF Basic, TypeOK
  <2>2. CASE Combine(j, got[j]["l"], got[j]["r"], "fl0")
    BY <2>2, CombineBasic
  <2> QED BY <2>1, <2>2 DEF Compare
<1>4. PICK label \in Labels \ {"new"} : Goto(j, label)
  BY <1>3 DEF Labels
<1>5. pc' \in [Cores -> Labels] /\ Creation'
  BY <1>1, <1>2, <1>4, GotoCreation
<1>6. TypeOK'
  BY <1>1, <1>3, <1>5, LabelSet DEF Basic, TypeOK, mainVars
<1> QED BY <1>1, <1>3, <1>5, <1>6 DEF Basic, NeverAnEarlierRange

\* What a read by getNextFake delivers: a tuple behind the position, or memory.
FakeRead(j, s, i, f, label) ==
    \E n \in Nat \ {0}, t \in Tuple :
        /\ fake_count_' = [fake_count_ EXCEPT ![s][i] = n]
        /\ Takes(j, f, t) /\ Goto(j, label)
        /\ \/ current_[s][i] + n + 1 <= Len(table[s][i]) /\ t = <<s, i, current_[s][i] + n + 1>>
           \/ Memory(t)

LEMMA getNextFakeDone ==
    ASSUME Basic, NEW j \in Cores, NEW s \in Sides, NEW f \in Fields, NEW label,
           getNextFake(j, s, f, label)
    PROVE  FakeRead(j, s, slot, f, label)
<1>1. slot \in Cores
  BY DEF Basic, TypeOK
<1>2. PICK n \in Nat \ {0} : n = fake_count_[s][slot] + 1
  BY <1>1 DEF Basic, TypeOK
<1>3. PICK k \in Nat \ {0} : k = current_[s][slot] + n + 1
  BY <1>1, <1>2 DEF Basic, TypeOK
<1>4. PICK t \in IF k <= Len(table[s][slot]) THEN {<<s, slot, k>>}
                 ELSE {<<"mem", key>> : key \in {NoKey} \cup (IF n < FakeMax THEN MemKeys ELSE {})} :
          got' = [got EXCEPT ![j][f] = t]
  BY <1>2, <1>3 DEF getNextFake
<1>5. /\ fake_count_' = [fake_count_ EXCEPT ![s][slot] = n]
      /\ Takes(j, f, t) /\ Goto(j, label)
  BY <1>2, <1>4 DEF getNextFake, Takes
<1>6. t \in Tuple /\ ((k <= Len(table[s][slot]) /\ t = <<s, slot, k>>) \/ Memory(t))
  <2>1. CASE k <= Len(table[s][slot])
    BY <1>1, <1>4, <2>1 DEF Tuple
  <2>2. CASE ~(k <= Len(table[s][slot]))
    <3>1. PICK key \in Keys \cup {NoKey} : t = <<"mem", key>>
      BY <1>4, <2>2, JoinAssumption
    <3> QED BY <3>1 DEF Tuple, Memory
  <2> QED BY <2>1, <2>2
<1> QED BY <1>2, <1>3, <1>5, <1>6 DEF FakeRead

LEMMA FakesBasic ==
    ASSUME Basic, NEW j \in Cores, Fakes(j) PROVE Basic'
<1>1. PICK s \in Sides, f \in Fields, label \in Labels \ {"new"} :
          getNextFake(j, s, f, label) /\ pc[j] \in {"fl0", "fr0", "fl1", "fr1"}
  BY DEF Fakes, Sides, Fields, Labels
<1>2. PICK n \in Nat \ {0}, t \in Tuple :
        /\ fake_count_' = [fake_count_ EXCEPT ![s][slot] = n]
        /\ Takes(j, f, t) /\ Goto(j, label)
        /\ (t = <<s, slot, current_[s][slot] + n + 1>>) \/ Memory(t)
  BY <1>1, getNextFakeDone DEF FakeRead
<1>3. slot \in Nat /\ slot >= j /\ slot \in Cores
  BY <1>1, SlotNotBelow DEF Basic, TypeOK
<1>4. t[1] # "mem" => t[2] >= j
  BY <1>2, <1>3 DEF Memory
<1>5. got' \in [Cores -> [{"l", "r", "fl", "fr"} -> Tuple \cup {Null}]] /\ NeverAnEarlierRange'
  BY <1>2, <1>4, TakesBasic
<1>6. UNCHANGED <<mainVars, current_, inc, room, undefined>> /\ ReadSlot(j)
  BY <1>1 DEF getNextFake
<1>7. spoiled' \in BOOLEAN /\ IsABag(result')
  BY <1>6, ReadSlotBasic
<1>8. fake_count_' \in [Sides -> [Cores -> Nat]]
  BY <1>2, <1>3 DEF Basic, TypeOK
<1>9. inc[j] = Null
  BY <1>1 DEF Basic, Creation, Gets
<1>10. pc' \in [Cores -> Labels] /\ Creation'
  BY <1>1, <1>2, <1>6, <1>9, GotoCreation
<1>11. TypeOK'
  BY <1>5, <1>6, <1>7, <1>8, <1>10, LabelSet DEF Basic, TypeOK, mainVars
<1> QED BY <1>5, <1>7, <1>10, <1>11 DEF Basic

LEMMA LoopsBasic ==
    ASSUME Basic, NEW j \in Cores, Loops(j) PROVE Basic'
<1>1. pc[j] \in {"loopl", "loopr"} /\ UNCHANGED <<mainVars, current_, fake_count_, inc, undefined>>
  BY DEF Loops
<1>2. inc[j] = Null
  BY <1>1 DEF Basic, Creation, Gets
<1>3. /\ room' \in [Cores -> 0..Fit] /\ spoiled' \in BOOLEAN /\ IsABag(result')
      /\ \E label \in {"l1", "l2", "fl1", "fr1", "loopr"} : Goto(j, label)
  <2>1. CASE UNCHANGED <<room, result, spoiled>> /\ \E label \in {"loopr", "l2"} : Goto(j, label)
    BY <2>1 DEF Basic, TypeOK
  <2>2. CASE Combine(j, got[j]["fl"], got[j]["r"], "fl1")
    BY <2>2, CombineBasic
  <2>3. CASE Combine(j, got[j]["l"], got[j]["fr"], "fr1")
    BY <2>3, CombineBasic
  <2> QED BY <2>1, <2>2, <2>3 DEF Loops
<1>4. PICK label \in Labels \ {"new"} : Goto(j, label)
  BY <1>3 DEF Labels
<1>5. pc' \in [Cores -> Labels] /\ Creation'
  BY <1>1, <1>2, <1>4, GotoCreation
<1>6. got' \in [Cores -> [{"l", "r", "fl", "fr"} -> Tuple \cup {Null}]] /\ NeverAnEarlierRange'
  <2>1. CASE got' = got
    BY <2>1 DEF Basic, TypeOK, NeverAnEarlierRange
  <2>2. CASE got' = [got EXCEPT ![j]["fl"] = Null, ![j]["fr"] = Null]
    <3>1. got' \in [Cores -> [{"l", "r", "fl", "fr"} -> Tuple \cup {Null}]]
      BY <2>2 DEF Basic, TypeOK
    <3>2. ASSUME NEW i \in Cores, NEW g \in Fields PROVE got'[i][g] = Null \/ got'[i][g] = got[i][g]
      BY <2>2 DEF Basic, TypeOK, Fields
    <3>3. \A i \in Cores : DOMAIN got[i] = Fields /\ DOMAIN got'[i] = Fields
      BY <3>1 DEF Basic, TypeOK, Fields
    <3> QED BY <3>1, <3>2, <3>3 DEF Basic, NeverAnEarlierRange
  <2> QED BY <2>1, <2>2 DEF Loops
<1>7. TypeOK'
  BY <1>1, <1>3, <1>5, <1>6, LabelSet DEF Basic, TypeOK, mainVars
<1> QED BY <1>3, <1>5, <1>6, <1>7 DEF Basic

LEMMA StutterBasic == ASSUME Basic, UNCHANGED vars PROVE Basic'
BY DEF Basic, vars, threadVars, TypeOK, Creation, NeverAnEarlierRange

LEMMA NextBasic == Basic /\ [Next]_vars => Basic'
<1> SUFFICES ASSUME Basic, [Next]_vars PROVE Basic'
  OBVIOUS
<1>1. ASSUME NEW j \in Cores, gather_merge(j) PROVE Basic'
  BY <1>1, getNextBasic, IncrementBasic, CompareBasic, FakesBasic, LoopsBasic DEF gather_merge
<1>2. CASE prelude
  BY <1>2, gatherBasic, mainBasic DEF prelude
<1>3. CASE UNCHANGED vars
  BY <1>3, StutterBasic
<1> QED BY <1>1, <1>2, <1>3 DEF Next

\* Every read of the slot yields the reader's own number or a later one, so no
\* merge thread ever works on a range before its own.
THEOREM NeverBelowOwnRange == Safety => []NeverAnEarlierRange
<1>1. Basic => NeverAnEarlierRange
  BY DEF Basic
<1> QED BY <1>1, InitBasic, NextBasic, PTL DEF Safety

-------------------------------------------------------------------------------
(* The gathering threads deliver ascending tables.                         *)

Gained(q, k, u) ==
    /\ u \in Seq(Keys) /\ Len(u) = Len(q) + 1 /\ u[Len(u)] = k
    /\ \A m \in 1..Len(q) : u[m] = q[m]
Lost(v, k, w) ==
    /\ w \in Seq(Keys) /\ Len(v) = Len(w) + 1 /\ v[1] = k
    /\ \A m \in 1..Len(w) : w[m] = v[m + 1]

LEMMA AppendGains ==
    ASSUME NEW q \in Seq(Keys), NEW k \in Keys PROVE Gained(q, k, Append(q, k))
BY AppendProperties DEF Gained

LEMMA TailLoses ==
    ASSUME NEW v \in Seq(Keys), v # <<>> PROVE Lost(v, Head(v), Tail(v))
BY HeadTailProperties DEF Lost

\* The first key of an ascending stream goes behind keys that are not above it.
LEMMA OneGathered ==
    ASSUME NEW q \in Seq(Keys), NEW v \in Seq(Keys), NEW k \in Keys, NEW u, NEW w,
           Gained(q, k, u), Lost(v, k, w), Ascending(q), Ascending(v), Below(q, v)
    PROVE  Ascending(u) /\ Below(u, w)
<1>1. PICK m \in Nat, n \in Nat : m = Len(q) /\ n = Len(w)
  BY DEF Lost
<1>2. /\ Len(u) = m + 1 /\ Len(v) = n + 1 /\ u[m + 1] = k /\ v[1] = k
      /\ \A x \in 1..m : u[x] = q[x]
      /\ \A x \in 1..n : w[x] = v[x + 1]
  BY <1>1 DEF Gained, Lost
<1>3. /\ \A x \in 1..m : q[x] \in Nat /\ q[x] <= k
      /\ \A x \in 1..m, y \in 1..n : q[x] <= v[y + 1]
      /\ \A y \in 1..n : k <= v[y + 1]
  <2>1. \A x \in 1..m : q[x] \in Keys
    BY <1>1
  <2> QED BY <1>1, <1>2, <2>1, CoresFacts DEF Below, Ascending, Keys
<1>4. Below(u, w)
  <2> SUFFICES ASSUME NEW x \in 1..(m + 1), NEW y \in 1..n PROVE u[x] <= w[y]
    BY <1>1, <1>2 DEF Below
  <2>1. CASE x = m + 1
    BY <1>2, <1>3, <2>1
  <2>2. CASE x # m + 1
    <3>1. x \in 1..m
      BY <2>2
    <3> QED BY <1>2, <1>3, <3>1
  <2> QED BY <2>1, <2>2
<1>5. Ascending(u)
  <2> SUFFICES ASSUME NEW x \in 1..(m + 1), NEW y \in 1..(m + 1), x < y PROVE u[x] <= u[y]
    BY <1>2 DEF Ascending
  <2>1. x \in 1..m
    OBVIOUS
  <2>2. CASE y = m + 1
    BY <1>2, <1>3, <2>1, <2>2
  <2>3. CASE y # m + 1
    BY <1>1, <1>2, <2>1, <2>3 DEF Ascending
  <2> QED BY <2>2, <2>3
<1> QED BY <1>4, <1>5

LEMMA LaterStream ==
    ASSUME NEW v \in Seq(Keys), NEW k, NEW w, Lost(v, k, w), Ascending(v)
    PROVE  Ascending(w) /\ \A q \in Seq(Keys) : Below(q, v) => Below(q, w)
<1>1. PICK n \in Nat : n = Len(w) /\ Len(v) = n + 1 /\ \A x \in 1..n : w[x] = v[x + 1]
  BY DEF Lost
<1> QED BY <1>1 DEF Below, Ascending

LEMMA InitGathered == Init => Gathered
<1> SUFFICES ASSUME Init, NEW s \in Sides
    PROVE /\ Ascending(stream[s])
          /\ \A i \in Cores :
                Ascending(table[s][i]) /\ InRange(table[s][i], i) /\ Below(table[s][i], stream[s])
  BY DEF Gathered
<1>1. Ascending(stream[s])
  BY JoinAssumption DEF Init, Ascending
<1>2. \A i \in Cores : Len(table[s][i]) = 0
  BY DEF Init
<1>3. 1..0 = {}
  OBVIOUS
<1> QED BY <1>1, <1>2, <1>3 DEF Ascending, InRange, Below

LEMMA gatherGathered ==
    ASSUME Basic, Gathered, NEW s \in Sides, gather(s) PROVE Gathered'
<1>1. PICK v \in Seq(Keys) : v = stream[s] /\ v # <<>>
  BY DEF Basic, TypeOK, gather
<1>2. PICK k : k = Head(v) /\ k \in Keys
  BY <1>1
<1>3. PICK w : w = Tail(v)
  OBVIOUS
<1>4. Lost(v, k, w)
  BY <1>1, <1>2, <1>3, TailLoses
<1>5. stream'[s] = w /\ \A t \in Sides : t # s => stream'[t] = stream[t]
  BY <1>1, <1>3 DEF Basic, TypeOK, gather
<1>6. CASE k \div CPU_CORE \notin Cores
  <2>1. table' = table /\ Ascending(v)
    BY <1>1, <1>2, <1>6 DEF gather, Gathered
  <2>2. Ascending(w) /\ \A x \in Seq(Keys) : Below(x, v) => Below(x, w)
    BY <1>4, <2>1, LaterStream
  <2>3. ASSUME NEW t \in Sides, NEW n \in Cores
        PROVE  /\ Ascending(stream'[t]) /\ Ascending(table'[t][n]) /\ InRange(table'[t][n], n)
               /\ Below(table'[t][n], stream'[t])
    <3>1. PICK x \in Seq(Keys) : x = table[t][n]
      BY DEF Basic, TypeOK
    <3>2. Ascending(x) /\ InRange(x, n) /\ Below(x, stream[t]) /\ Ascending(stream[t])
      BY <3>1 DEF Gathered
    <3> QED BY <1>1, <1>5, <2>1, <2>2, <3>1, <3>2
  <2> QED BY <2>3, CoresFacts DEF Gathered
<1> SUFFICES ASSUME k \div CPU_CORE \in Cores PROVE Gathered'
  BY <1>6
<1>7. PICK i \in Cores : i = k \div CPU_CORE
  OBVIOUS
<1>8. PICK q \in Seq(Keys) : q = table[s][i]
  BY DEF Basic, TypeOK
<1>9. PICK u : u = Append(q, k)
  OBVIOUS
<1>10. Gained(q, k, u)
  BY <1>2, <1>9, AppendGains
<1>11. ASSUME NEW t \in Sides, NEW n \in Cores
       PROVE  table'[t][n] = IF t = s /\ n = i THEN u ELSE table[t][n]
  <2>1. table' = [table EXCEPT ![s][i] = u]
    BY <1>1, <1>2, <1>7, <1>8, <1>9 DEF gather
  <2> QED BY <2>1 DEF Basic, TypeOK
<1>12. Ascending(q) /\ Ascending(v) /\ Below(q, v) /\ InRange(q, i)
  BY <1>1, <1>8 DEF Gathered
<1>13. Ascending(u) /\ Below(u, w)
  BY <1>2, <1>4, <1>10, <1>12, OneGathered
<1>14. Ascending(w) /\ \A x \in Seq(Keys) : Below(x, v) => Below(x, w)
  BY <1>4, <1>12, LaterStream
<1>15. InRange(u, i)
  <2>1. PICK m \in Nat : m = Len(q) /\ Len(u) = m + 1 /\ u[m + 1] = k /\ \A x \in 1..m : u[x] = q[x]
    BY <1>10 DEF Gained
  <2>2. \A x \in 1..m : q[x] \div CPU_CORE = i
    BY <1>12, <2>1 DEF InRange
  <2>3. ASSUME NEW x \in 1..(m + 1) PROVE u[x] \div CPU_CORE = i
    <3>1. CASE x = m + 1
      BY <1>7, <2>1, <3>1
    <3>2. CASE x # m + 1
      <4>1. x \in 1..m
        BY <3>2
      <4> QED BY <2>1, <2>2, <4>1
    <3> QED BY <3>1, <3>2
  <2> QED BY <2>1, <2>3 DEF InRange
<1>16. ASSUME NEW t \in Sides PROVE Ascending(stream'[t])
  BY <1>5, <1>14 DEF Gathered
<1>17. ASSUME NEW t \in Sides, NEW n \in Cores
       PROVE  Ascending(table'[t][n]) /\ InRange(table'[t][n], n) /\ Below(table'[t][n], stream'[t])
  <2>1. CASE t = s /\ n = i
    BY <1>5, <1>11, <1>13, <1>15, <2>1
  <2>2. CASE t # s
    BY <1>5, <1>11, <2>2 DEF Gathered
  <2>3. CASE t = s /\ n # i
    <3>1. PICK x \in Seq(Keys) : x = table[t][n]
      BY DEF Basic, TypeOK
    <3>2. Ascending(x) /\ InRange(x, n) /\ Below(x, v)
      BY <1>1, <2>3, <3>1 DEF Gathered
    <3> QED BY <1>5, <1>11, <1>14, <2>3, <3>1, <3>2
  <2> QED BY <2>1, <2>2, <2>3
<1> QED BY <1>16, <1>17 DEF Gathered

\* After that no step changes a table.
LEMMA TablesKept ==
    ASSUME [Next]_vars
    PROVE  (stream' = stream /\ table' = table) \/ \E s \in Sides : gather(s)
<1>1. ASSUME NEW j \in Cores, gather_merge(j) PROVE stream' = stream /\ table' = table
  BY <1>1 DEF gather_merge, getNext, Increment, Compare, Fakes, getNextFake, Loops, mainVars
<1>2. CASE prelude
  BY <1>2 DEF prelude, Assemble, Create
<1> QED BY <1>1, <1>2 DEF Next, vars

LEMMA NextGathered == Basic /\ Gathered /\ [Next]_vars => Gathered'
<1> SUFFICES ASSUME Basic, Gathered, [Next]_vars PROVE Gathered'
  OBVIOUS
<1>1. CASE stream' = stream /\ table' = table
  BY <1>1 DEF Gathered
<1> QED BY <1>1, gatherGathered, TablesKept

-------------------------------------------------------------------------------
(* While no thread reads another's number, a step of thread j leaves the   *)
(* ranges of the others alone.                                             *)

Alone(i) ==
    /\ \A s \in Sides : current_'[s][i] = current_[s][i]
    /\ pc'[i] = pc[i] /\ got'[i] = got[i] /\ inc'[i] = inc[i]

LEMMA LeftAlone ==
    ASSUME Basic, NEW i \in Cores, table' = table, Alone(i)
    PROVE  /\ InHand(i) => InHand(i)'
           /\ FakesAhead(i) => FakesAhead(i)'
           /\ \A x, y : Through(i, x, y)' <=> Through(i, x, y)
<1>1. lAt(i)' = lAt(i) /\ rAt(i)' = rAt(i) /\ lTab(i)' = lTab(i) /\ rTab(i)' = rTab(i)
  BY DEF Alone, lAt, rAt, lTab, rTab, Sides
<1>2. lHas(i)' = lHas(i) /\ rHas(i)' = rHas(i) /\ pc'[i] = pc[i]
  BY DEF Alone, lHas, rHas
<1>3. \A x, y : Through(i, x, y)' <=> Through(i, x, y)
  BY <1>1, <1>2 DEF Through, Left, Right
<1>4. \A s \in Sides : Pending(i, s)' <=> Pending(i, s)
  BY DEF Pending, Alone
<1>5. InHand(i) => InHand(i)'
  <2> SUFFICES ASSUME InHand(i) PROVE InHand(i)'
    OBVIOUS
  <2>1. HasLeft(i)' <=> HasLeft(i)
    BY <1>1, <1>2 DEF HasLeft
  <2>2. HasRight(i)' <=> HasRight(i)
    BY <1>1, <1>2 DEF HasRight
  <2>3. (LeftOver(i)' <=> LeftOver(i)) /\ (RightOver(i)' <=> RightOver(i))
    BY <1>1, <1>2 DEF LeftOver, RightOver
  <2>4. inc'[i] # Null => Pending(i, GetSide[pc[i]])'
    <3> SUFFICES ASSUME inc[i] # Null PROVE Pending(i, GetSide[pc[i]])'
      BY DEF Alone
    <3>1. PICK s \in Sides : s = GetSide[pc[i]]
      BY GoesOn DEF Basic, Creation
    <3>2. s = GetSide[pc'[i]] /\ Pending(i, s)
      BY <1>2, <3>1 DEF InHand
    <3>3. Pending(i, s)'
      BY <1>4, <3>2
    <3> QED BY <3>2, <3>3 DEF Pending
  <2> QED BY <1>1, <1>2, <2>1, <2>2, <2>3, <2>4 DEF InHand
<1>6. FakesAhead(i) => FakesAhead(i)'
  BY DEF FakesAhead, Memory, Ahead, Alone, Sides
<1> QED BY <1>3, <1>5, <1>6

\* The pairs of a match are rows of the reference, and apart from range to range.
LEMMA MatchRows ==
    ASSUME TypeOK, NEW j \in Cores, NEW x \in 1..Len(lTab(j)), NEW y \in 1..Len(rTab(j)), Match(j, x, y)
    PROVE  Pair(j, x, y) \in Reference
<1>1. <<"l", j, x>> \in Rows("l") /\ <<"r", j, y>> \in Rows("r")
  BY DEF Rows, lTab, rTab
<1>2. Key(<<"l", j, x>>) = lTab(j)[x] /\ Key(<<"r", j, y>>) = rTab(j)[y]
  BY DEF Key, lTab, rTab
<1> QED BY <1>1, <1>2 DEF Pair, Reference, Match

LEMMA ReferenceKept == ASSUME table' = table PROVE Reference' = Reference
<1>1. \A t : Key(t)' = Key(t)
  BY DEF Key
<1>2. \A s : Rows(s)' = Rows(s)
  BY DEF Rows
<1> QED BY <1>1, <1>2 DEF Reference

\* A step that combines no pair, or only a pair of memory, passes no match.
Passes(j) ==
    Unique => \A x \in 1..Len(lTab(j)), y \in 1..Len(rTab(j)) :
        Match(j, x, y) => (Through(j, x, y)' <=> Through(j, x, y))

LEMMA NothingCombined ==
    ASSUME Basic, Undisturbed, NEW j \in Cores, table' = table, main' # "gather",
           \A i \in Cores : i # j => Alone(i), InHand(j)', FakesAhead(j)',
           result' = result, Passes(j)
    PROVE  Undisturbed'
<1>1. \A i \in Cores : InHand(i)' /\ FakesAhead(i)'
  BY LeftAlone DEF Undisturbed
<1>2. Unique' <=> Unique
  BY DEF Unique
<1>3. ASSUME Unique PROVE (\A i \in Cores : CombinedOnce(i)') /\ NothingElse'
  <2>1. NothingElse'
    BY <1>3, ReferenceKept DEF Undisturbed, NothingElse, Memory
  <2>2. ASSUME NEW i \in Cores, NEW x \in 1..Len(lTab(i)), NEW y \in 1..Len(rTab(i)), Match(i, x, y)
        PROVE  Through(i, x, y)' <=> Through(i, x, y)
    BY <1>3, <2>2, LeftAlone DEF Passes
  <2>3. ASSUME NEW i \in Cores PROVE CombinedOnce(i)'
    <3>1. lTab(i)' = lTab(i) /\ rTab(i)' = rTab(i)
      BY DEF lTab, rTab
    <3>2. \A x, y : Match(i, x, y)' <=> Match(i, x, y)
      BY DEF Match, lTab, rTab
    <3>3. \A x, y : Copies(Pair(i, x, y))' = Copies(Pair(i, x, y))
      BY DEF Copies, Pair
    <3>4. CombinedOnce(i)
      BY <1>3 DEF Undisturbed
    <3> QED BY <2>2, <3>1, <3>2, <3>3, <3>4 DEF CombinedOnce
  <2> QED BY <2>1, <2>3
<1> QED BY <1>1, <1>2, <1>3 DEF Undisturbed

\* A pair that is added is counted once more, every other pair as before.
LEMMA CopiesAdded ==
    ASSUME IsABag(result), NEW q, result' = result (+) SetToBag({q})
    PROVE  /\ BagToSet(result') = BagToSet(result) \cup {q}
           /\ \A p : p # q => Copies(p)' = Copies(p)
           /\ Copies(q)' = Copies(q) + 1
<1>1. PICK B : B = result /\ IsABag(B)
  OBVIOUS
<1>2. PICK C : C = result' /\ C = B (+) SetToBag({q})
  BY <1>1
<1>3. Adds(B, q, C)
  BY <1>1, <1>2, AddedOnce
<1>4. BagIn(q, C)
  BY <1>3 DEF BagIn, Adds
<1> QED BY <1>1, <1>2, <1>3, <1>4 DEF Copies, Adds

LEMMA MemoryCombined ==
    ASSUME Basic, Undisturbed, NEW j \in Cores, table' = table, main' # "gather",
           \A i \in Cores : i # j => Alone(i), InHand(j)', FakesAhead(j)',
           NEW t, NEW u, Memory(t) \/ Memory(u), result' = result (+) SetToBag({<<t, u>>}), Passes(j)
    PROVE  Undisturbed'
<1>0. PICK q : q = <<t, u>>
  OBVIOUS
<1>1. /\ BagToSet(result') = BagToSet(result) \cup {q}
      /\ \A p : p # q => Copies(p)' = Copies(p)
  BY <1>0, CopiesAdded DEF Basic
<1>2. \A i \in Cores : InHand(i)' /\ FakesAhead(i)'
  BY LeftAlone DEF Undisturbed
<1>3. Unique' <=> Unique
  BY DEF Unique
<1>4. ASSUME Unique PROVE (\A i \in Cores : CombinedOnce(i)') /\ NothingElse'
  <2>1. NothingElse'
    <3>1. Memory(q[1]) \/ Memory(q[2])
      BY <1>0
    <3> QED BY <1>1, <1>4, <3>1, ReferenceKept DEF Undisturbed, NothingElse, Memory
  <2>2. ASSUME NEW i \in Cores, NEW x \in 1..Len(lTab(i)), NEW y \in 1..Len(rTab(i)), Match(i, x, y)
        PROVE  Through(i, x, y)' <=> Through(i, x, y)
    BY <1>4, <2>2, LeftAlone DEF Passes
  <2>3. ASSUME NEW i \in Cores PROVE CombinedOnce(i)'
    <3>1. lTab(i)' = lTab(i) /\ rTab(i)' = rTab(i)
      BY DEF lTab, rTab
    <3>2. \A x, y : Match(i, x, y)' <=> Match(i, x, y)
      BY DEF Match, lTab, rTab
    <3>3. \A x, y : Pair(i, x, y) # q
      BY <1>0 DEF Pair, Memory
    <3>4. \A x, y : Copies(Pair(i, x, y))' = Copies(Pair(i, x, y))
      BY <1>1, <3>3 DEF Copies, Pair
    <3>5. CombinedOnce(i)
      BY <1>4 DEF Undisturbed
    <3> QED BY <2>2, <3>1, <3>2, <3>4, <3>5 DEF CombinedOnce
  <2> QED BY <2>1, <2>3
<1> QED BY <1>2, <1>3, <1>4 DEF Undisturbed

LEMMA MatchCombined ==
    ASSUME Basic, Undisturbed, NEW j \in Cores, table' = table, main' # "gather",
           \A i \in Cores : i # j => Alone(i), InHand(j)', FakesAhead(j)',
           NEW c \in 1..Len(lTab(j)), NEW d \in 1..Len(rTab(j)), Match(j, c, d), ~Through(j, c, d),
           result' = result (+) SetToBag({Pair(j, c, d)}),
           Unique => \A x \in 1..Len(lTab(j)), y \in 1..Len(rTab(j)) :
               Match(j, x, y) => (Through(j, x, y)' <=> Through(j, x, y) \/ (x = c /\ y = d))
    PROVE  Undisturbed'
<1>0. PICK q : q = Pair(j, c, d)
  OBVIOUS
<1>1. /\ BagToSet(result') = BagToSet(result) \cup {q}
      /\ \A p : p # q => Copies(p)' = Copies(p)
      /\ Copies(q)' = Copies(q) + 1
  BY <1>0, CopiesAdded DEF Basic
<1>2. \A i \in Cores : InHand(i)' /\ FakesAhead(i)'
  BY LeftAlone DEF Undisturbed
<1>3. Unique' <=> Unique
  BY DEF Unique
<1>4. ASSUME Unique PROVE (\A i \in Cores : CombinedOnce(i)') /\ NothingElse'
  <2>1. NothingElse'
    <3>1. q \in Reference
      BY <1>0, MatchRows DEF Basic
    <3> QED BY <1>1, <1>4, <3>1, ReferenceKept DEF Undisturbed, NothingElse, Memory
  <2>2. ASSUME NEW i \in Cores PROVE CombinedOnce(i)'
    <3>1. lTab(i)' = lTab(i) /\ rTab(i)' = rTab(i)
      BY DEF lTab, rTab
    <3>2. \A x, y : Match(i, x, y)' <=> Match(i, x, y)
      BY DEF Match, lTab, rTab
    <3>3. CombinedOnce(i)
      BY <1>4 DEF Undisturbed
    <3>4. ASSUME NEW x \in 1..Len(lTab(i)), NEW y \in 1..Len(rTab(i)), Match(i, x, y)
          PROVE  Copies(Pair(i, x, y))' = IF Through(i, x, y)' THEN 1 ELSE 0
      <4>1. Copies(Pair(i, x, y)) = IF Through(i, x, y) THEN 1 ELSE 0
        BY <3>3, <3>4 DEF CombinedOnce
      <4>2. CASE i = j /\ x = c /\ y = d
        <5>1. Copies(Pair(i, x, y)) = 0
          BY <4>1, <4>2
        <5>2. Copies(Pair(i, x, y))' = 1
          BY <1>0, <1>1, <4>2, <5>1 DEF Copies, Pair
        <5>3. Through(i, x, y)'
          BY <1>4, <3>4, <4>2
        <5> QED BY <5>2, <5>3
      <4>3. CASE ~(i = j /\ x = c /\ y = d)
        <5>1. PICK p : p = Pair(i, x, y)
          OBVIOUS
        <5>2. p # q
          BY <1>0, <4>3, <5>1 DEF Pair
        <5>3. Copies(p)' = Copies(p)
          BY <1>1, <5>2
        <5>4. Through(i, x, y)' <=> Through(i, x, y)
          BY <1>4, <3>4, <4>3, LeftAlone
        <5>5. Copies(Pair(i, x, y))' = Copies(Pair(i, x, y))
          BY <5>1, <5>3 DEF Copies, Pair
        <5> QED BY <4>1, <5>4, <5>5
      <4> QED BY <4>2, <4>3
    <3> QED BY <3>1, <3>2, <3>4 DEF CombinedOnce
  <2> QED BY <2>1, <2>2
<1> QED BY <1>2, <1>3, <1>4 DEF Undisturbed

-------------------------------------------------------------------------------
(* The steps of prelude.                                                   *)

Fresh ==
    /\ TypeOK /\ result = EmptyBag
    /\ \A j \in Cores : pc[j] = "new" /\ inc[j] = Null /\ lAt(j) = 0 /\ rAt(j) = 0

\* Before a thread is created nothing is in hand and no pair is combined.
LEMMA FreshUndisturbed == Fresh => Undisturbed
<1> SUFFICES ASSUME Fresh PROVE Undisturbed
  OBVIOUS
<1>1. ASSUME NEW j \in Cores PROVE InHand(j) /\ FakesAhead(j) /\ CombinedOnce(j)
  <2>1. pc[j] = "new" /\ inc[j] = Null /\ lAt(j) = 0 /\ rAt(j) = 0
    BY DEF Fresh
  <2>2. lTab(j) \in Seq(Keys) /\ rTab(j) \in Seq(Keys)
    BY DEF Fresh, TypeOK, lTab, rTab, Sides
  <2>3. Len(lTab(j)) \in Nat /\ Len(rTab(j)) \in Nat
    BY <2>2
  <2>4. InHand(j)
    BY <2>1, <2>3 DEF InHand, Fake
  <2>5. FakesAhead(j)
    BY <2>1 DEF FakesAhead
  <2>6. ASSUME NEW x \in 1..Len(lTab(j)), NEW y \in 1..Len(rTab(j)) PROVE ~Through(j, x, y)
    BY <2>1, <2>3 DEF Through, Left, Right
  <2>7. \A p : Copies(p) = 0
    BY EmptyBagFacts DEF Fresh, Copies
  <2> QED BY <2>4, <2>5, <2>6, <2>7 DEF CombinedOnce
<1>2. NothingElse
  BY EmptyBagFacts DEF Fresh, NothingElse, BagIn
<1> QED BY <1>1, <1>2 DEF Fresh, Undisturbed

LEMMA InitUndisturbed == Init => Undisturbed
<1> SUFFICES ASSUME Init PROVE Undisturbed
  OBVIOUS
<1>1. TypeOK
  BY InitBasic DEF Basic
<1>2. Fresh
  BY <1>1 DEF Init, Fresh, lAt, rAt, Sides
<1> QED BY <1>2, FreshUndisturbed

LEMMA gatherUndisturbed ==
    ASSUME Basic, Undisturbed, NEW s \in Sides, gather(s) PROVE Undisturbed'
<1>1. TypeOK'
  BY gatherBasic DEF Basic
<1>2. \A j \in Cores : pc[j] = "new" /\ inc[j] = Null
  BY CoresFacts DEF Basic, Creation, gather, Gets
<1>3. \A j \in Cores : lAt(j) = 0 /\ rAt(j) = 0
  BY <1>2 DEF Undisturbed, InHand
<1>4. result = EmptyBag
  BY DEF gather, Undisturbed
<1>5. Fresh'
  BY <1>1, <1>2, <1>3, <1>4 DEF Fresh, gather, threadVars, lAt, rAt
<1>6. Fresh' => Undisturbed'
  BY FreshUndisturbed, PTL
<1> QED BY <1>5, <1>6

LEMMA mainUndisturbed ==
    ASSUME Basic, Undisturbed, Assemble \/ Create PROVE Undisturbed'
<1>1. CASE Assemble
  <2>1. table' = table /\ main' # "gather" /\ result' = result /\ \A i \in Cores : Alone(i)
    BY <1>1 DEF Assemble, threadVars, Alone
  <2>2. InHand(0)' /\ FakesAhead(0)' /\ Passes(0) /\ 0 \in Cores
    BY <2>1, CoresFacts, LeftAlone DEF Undisturbed, Passes
  <2> QED BY <2>1, <2>2, NothingCombined
<1>2. CASE Create
  <2>1. PICK j \in Cores : j = created
    BY <1>2, CoresFacts DEF Create, Basic, TypeOK, Cores
  <2>2. pc[j] = "new" /\ inc[j] = Null
    BY <2>1, CoresFacts DEF Basic, Creation, Gets
  <2>3. /\ pc'[j] = "l1" /\ \A i \in Cores : i # j => pc'[i] = pc[i]
        /\ table' = table /\ current_' = current_ /\ got' = got /\ inc' = inc
        /\ result' = result /\ main' # "gather"
    BY <1>2, <2>1 DEF Create, Basic, TypeOK
  <2>4. \A i \in Cores : i # j => Alone(i)
    BY <2>3 DEF Alone
  <2>5. lAt(j)' = lAt(j) /\ rAt(j)' = rAt(j) /\ lTab(j)' = lTab(j) /\ rTab(j)' = rTab(j)
    BY <2>3 DEF lAt, rAt, lTab, rTab
  <2>6. InHand(j)'
    BY <2>2, <2>3, <2>5 DEF Undisturbed, InHand, Fake
  <2>7. FakesAhead(j)'
    BY <2>3 DEF FakesAhead
  <2>8. Passes(j)
    BY <2>2, <2>3, <2>5 DEF Passes, Through, Left, Right
  <2> QED BY <2>3, <2>4, <2>6, <2>7, <2>8, NothingCombined
<1> QED BY <1>1, <1>2

-------------------------------------------------------------------------------
(* The steps of a merge thread that reads its own number.                  *)

LEMMA ReadsOwn ==
    ASSUME NEW j \in Cores, ReadSlot(j), ~spoiled' PROVE slot = j /\ result' = result
BY DEF ReadSlot

\* Merge threads run after the tables are gathered.
LEMMA ThreadMain ==
    ASSUME Basic, NEW j \in Cores, pc[j] # "new", UNCHANGED mainVars
    PROVE  table' = table /\ main' # "gather"
BY CoresFacts DEF Basic, Creation, TypeOK, mainVars

LEMMA Lengths ==
    ASSUME TypeOK, NEW j \in Cores
    PROVE  /\ Len(lTab(j)) \in Nat /\ Len(rTab(j)) \in Nat
           /\ lAt(j) \in Nat /\ rAt(j) \in Nat
<1>1. table["l"][j] \in Seq(Keys) /\ table["r"][j] \in Seq(Keys)
  BY DEF TypeOK, Sides
<1> QED BY <1>1 DEF TypeOK, Sides, lTab, rTab, lAt, rAt

\* The values a thread has in hand after it took one.
LEMMA Taken ==
    ASSUME TypeOK, NEW j \in Cores, NEW f \in Fields, NEW t, Takes(j, f, t)
    PROVE  /\ got'[j][f] = t
           /\ \A g \in Fields : g # f => got'[j][g] = got[j][g]
           /\ \A i \in Cores : i # j => got'[i] = got[i]
BY DEF TypeOK, Takes, Fields

LEMMA Went ==
    ASSUME TypeOK, NEW j \in Cores, NEW label, Goto(j, label)
    PROVE  pc'[j] = label /\ \A i \in Cores : i # j => pc'[i] = pc[i]
BY LabelSet DEF TypeOK, Goto

LEMMA getNextUndisturbed ==
    ASSUME Basic, Undisturbed, NEW j \in Cores, getNext(j), ~spoiled' PROVE Undisturbed'
<1>1. slot = j /\ result' = result
  BY ReadsOwn DEF getNext
<1>2. PICK s \in Sides, at \in Nat :
          /\ pc[j] \in Gets /\ s = GetSide[pc[j]] /\ inc[j] = Null
          /\ at = current_[s][j]
          /\ TookNone(j, s, j, at) \/ TookOne(j, s, j, at)
  BY <1>1, getNextDone DEF Basic
<1>3. table' = table /\ main' # "gather" /\ current_' = current_
  BY <1>2, ThreadMain DEF getNext, Gets
<1>4. /\ Len(lTab(j)) \in Nat /\ Len(rTab(j)) \in Nat
      /\ lAt(j) \in Nat /\ rAt(j) \in Nat
  BY Lengths DEF Basic
<1>5. lAt(j)' = lAt(j) /\ rAt(j)' = rAt(j) /\ lTab(j)' = lTab(j) /\ rTab(j)' = rTab(j)
  BY <1>3 DEF lAt, rAt, lTab, rTab
<1>6. s \in Fields /\ "l" \in Fields /\ "r" \in Fields
  BY DEF Sides, Fields
<1>7. s = IF pc[j] \in {"l1", "l2", "l3"} THEN "l" ELSE "r"
  BY <1>2, Steps
<1>8. InHand(j)
  BY DEF Undisturbed
<1>9. CASE TookNone(j, s, j, at)
  <2>1. inc' = inc /\ at >= Len(table[s][j])
    BY <1>9 DEF TookNone
  <2>2. PICK label : label = GetThen[pc[j]]
    OBVIOUS
  <2>3. Goto(j, label) /\ Takes(j, s, Null)
    BY <1>9, <2>2 DEF TookNone
  <2>4. pc'[j] = label /\ \A i \in Cores : i # j => pc'[i] = pc[i]
    BY <2>3, Went DEF Basic
  <2>5. /\ got'[j][s] = Null /\ \A g \in Fields : g # s => got'[j][g] = got[j][g]
        /\ \A i \in Cores : i # j => got'[i] = got[i]
    BY <1>6, <2>3, Taken DEF Basic
  <2>6. \A i \in Cores : i # j => Alone(i)
    BY <1>3, <2>1, <2>4, <2>5 DEF Alone
  <2>7. FakesAhead(j)'
    BY <1>2, <2>2, <2>4, GoesOn DEF FakesAhead
  <2>8. InHand(j)' /\ Passes(j)
    <3>1. CASE pc[j] \in {"l1", "l2", "l3"}
      <4>1. lHas(j)' = Null /\ rHas(j)' = rHas(j)
        BY <1>6, <1>7, <2>5, <3>1 DEF lHas, rHas
      <4>2. lAt(j) = Len(lTab(j))
        BY <1>2, <1>4, <1>7, <1>8, <2>1, <3>1 DEF InHand, lAt, lTab
      <4>3. LeftOver(j)'
        BY <1>5, <4>1, <4>2 DEF LeftOver
      <4>4. pc'[j] = IF pc[j] = "l1" THEN "r1" ELSE IF pc[j] = "l2" THEN "r2" ELSE "test"
        BY <2>2, <2>4, <3>1, Steps
      <4>5. pc[j] = "l3" => HasRight(j)'
        BY <1>5, <1>8, <4>1 DEF InHand, HasRight
      <4>6. InHand(j)'
        BY <1>2, <1>4, <1>5, <1>8, <2>1, <3>1, <4>3, <4>4, <4>5 DEF InHand, Fake
      <4>7. Passes(j)
        BY <1>5, <3>1, <4>1, <4>4 DEF Passes, Through, Left, Right
      <4> QED BY <4>6, <4>7
    <3>2. CASE pc[j] \in {"r1", "r2", "r3"}
      <4>1. rHas(j)' = Null /\ lHas(j)' = lHas(j)
        BY <1>6, <1>7, <2>5, <3>2 DEF lHas, rHas
      <4>2. rAt(j) = Len(rTab(j))
        BY <1>2, <1>4, <1>7, <1>8, <2>1, <3>2 DEF InHand, rAt, rTab
      <4>3. RightOver(j)'
        BY <1>5, <4>1, <4>2 DEF RightOver
      <4>4. pc'[j] = "test"
        BY <2>2, <2>4, <3>2, Steps
      <4>5. LeftOver(j)' \/ HasLeft(j)'
        BY <1>5, <1>8, <3>2, <4>1 DEF InHand, HasLeft, LeftOver
      <4>6. InHand(j)'
        BY <1>2, <1>4, <1>5, <1>8, <2>1, <4>3, <4>4, <4>5 DEF InHand, Fake
      <4>7. Passes(j)
        BY <1>5, <3>2, <4>1, <4>4 DEF Passes, Through, Left, Right
      <4> QED BY <4>6, <4>7
    <3> QED BY <1>2, <3>1, <3>2 DEF Gets
  <2> QED BY <1>1, <1>3, <2>6, <2>7, <2>8, NothingCombined
<1>10. CASE TookOne(j, s, j, at)
  <2>1. PICK t : t = <<s, j, at + 1>>
    OBVIOUS
  <2>2. Takes(j, s, t) /\ pc' = pc /\ inc' = [inc EXCEPT ![j] = <<s, j, at>>] /\ at < Len(table[s][j])
    BY <1>10, <2>1 DEF TookOne
  <2>3. /\ got'[j][s] = t /\ \A g \in Fields : g # s => got'[j][g] = got[j][g]
        /\ \A i \in Cores : i # j => got'[i] = got[i]
    BY <1>6, <2>2, Taken DEF Basic
  <2>4. inc'[j] = <<s, j, at>> /\ \A i \in Cores : i # j => inc'[i] = inc[i]
    BY <2>2 DEF Basic, TypeOK
  <2>5. \A i \in Cores : i # j => Alone(i)
    BY <1>3, <2>2, <2>3, <2>4 DEF Alone
  <2>6. FakesAhead(j)'
    BY <1>2, <2>2 DEF FakesAhead, Gets
  <2>7. Pending(j, GetSide[pc[j]])'
    BY <1>2, <1>3, <2>1, <2>2, <2>3, <2>4 DEF Pending
  <2>8. InHand(j)' /\ Passes(j)
    <3>1. CASE pc[j] \in {"l1", "l2", "l3"}
      <4>1. rHas(j)' = rHas(j)
        BY <1>6, <1>7, <2>3, <3>1 DEF rHas
      <4>2. pc[j] = "l3" => HasRight(j)'
        BY <1>5, <1>8, <4>1 DEF InHand, HasRight
      <4>3. InHand(j)'
        BY <1>5, <1>8, <2>2, <2>7, <3>1, <4>2 DEF InHand, Fake
      <4>4. Passes(j)
        BY <1>5, <2>2, <3>1, <4>1 DEF Passes, Through, Left, Right
      <4> QED BY <4>3, <4>4
    <3>2. CASE pc[j] \in {"r1", "r2", "r3"}
      <4>1. lHas(j)' = lHas(j)
        BY <1>6, <1>7, <2>3, <3>2 DEF lHas
      <4>2. (pc[j] = "r3" => HasLeft(j)') /\ (LeftOver(j)' \/ HasLeft(j)')
        BY <1>5, <1>8, <3>2, <4>1 DEF InHand, HasLeft, LeftOver
      <4>3. InHand(j)'
        BY <1>5, <1>8, <2>2, <2>7, <3>2, <4>2 DEF InHand, Fake
      <4>4. Passes(j)
        BY <1>5, <2>2, <3>2, <4>1 DEF Passes, Through, Left, Right
      <4> QED BY <4>3, <4>4
    <3> QED BY <1>2, <3>1, <3>2 DEF Gets
  <2> QED BY <1>1, <1>3, <2>5, <2>6, <2>8, NothingCombined
<1> QED BY <1>2, <1>9, <1>10

LEMMA TuplesNotNull ==
    \A s \in Sides, i \in Cores, n \in Nat : <<s, i, n>> # Null
BY JoinAssumption

LEMMA IncrementUndisturbed ==
    ASSUME Basic, Undisturbed, NEW j \in Cores, Increment(j), ~spoiled' PROVE Undisturbed'
<1>1. pc[j] \in Gets /\ inc[j] # Null
  BY IncrementDone DEF Increment
<1>2. PICK s \in Sides : s = GetSide[pc[j]] /\ Pending(j, s)
  BY <1>1, GoesOn DEF Undisturbed, InHand
<1>3. PICK n \in Nat : n = current_[s][j]
  BY DEF Basic, TypeOK
<1>4. inc[j] = <<s, j, n>> /\ n < Len(table[s][j]) /\ got[j][s] = <<s, j, n + 1>>
  BY <1>2, <1>3 DEF Pending
<1>5. current_' = [current_ EXCEPT ![s][j] = n + 1]
  <2>1. PICK s2 \in Sides, i2 \in Cores, n2, at \in Nat :
            /\ inc[j] = <<s2, i2, n2>> /\ at \in {n2, current_[s2][i2]}
            /\ current_' = [current_ EXCEPT ![s2][i2] = at + 1]
    BY IncrementDone
  <2>2. s2 = s /\ i2 = j /\ n2 = n
    BY <1>4, <2>1
  <2>3. at = n
    BY <1>3, <2>1, <2>2
  <2> QED BY <2>1, <2>2, <2>3
<1>6. /\ current_'[s][j] = n + 1
      /\ \A t \in Sides, i \in Cores : (t # s \/ i # j) => current_'[t][i] = current_[t][i]
  BY <1>5 DEF Basic, TypeOK
<1>7. table' = table /\ main' # "gather" /\ got' = got /\ result' = result
  BY <1>1, ThreadMain DEF Increment, Gets
<1>8. inc'[j] = Null /\ \A i \in Cores : i # j => inc'[i] = inc[i]
  BY DEF Increment, Basic, TypeOK
<1>9. PICK label : label = GetThen[pc[j]]
  OBVIOUS
<1>10. pc'[j] = label /\ \A i \in Cores : i # j => pc'[i] = pc[i]
  <2>1. Goto(j, label)
    BY <1>9 DEF Increment
  <2> QED BY <2>1, Went DEF Basic
<1>11. \A i \in Cores : i # j => Alone(i)
  BY <1>6, <1>7, <1>8, <1>10 DEF Alone
<1>12. FakesAhead(j)'
  BY <1>1, <1>9, <1>10, GoesOn DEF FakesAhead
<1>13. /\ Len(lTab(j)) \in Nat /\ Len(rTab(j)) \in Nat
       /\ lAt(j) \in Nat /\ rAt(j) \in Nat
  BY Lengths DEF Basic
<1>14. lTab(j)' = lTab(j) /\ rTab(j)' = rTab(j) /\ lHas(j)' = lHas(j) /\ rHas(j)' = rHas(j)
  BY <1>7 DEF lTab, rTab, lHas, rHas
<1>15. InHand(j)
  BY DEF Undisturbed
<1>16. s = IF pc[j] \in {"l1", "l2", "l3"} THEN "l" ELSE "r"
  BY <1>1, <1>2, Steps
<1>17. InHand(j)' /\ Passes(j)
  <2>1. CASE pc[j] \in {"l1", "l2", "l3"}
    <3>1. /\ lAt(j) = n /\ lAt(j)' = n + 1 /\ rAt(j)' = rAt(j)
          /\ n < Len(lTab(j)) /\ lHas(j) = <<"l", j, n + 1>>
      BY <1>3, <1>4, <1>6, <1>16, <2>1 DEF lAt, rAt, lTab, lHas, Sides
    <3>2. pc'[j] = IF pc[j] = "l1" THEN "r1" ELSE IF pc[j] = "l2" THEN "r2" ELSE "test"
      BY <1>9, <1>10, <2>1, Steps
    <3>3. HasLeft(j)' /\ lHas(j) # Null
      BY <1>14, <3>1, TuplesNotNull DEF HasLeft, Sides
    <3>4. pc[j] = "l3" => HasRight(j)'
      BY <1>14, <1>15, <3>1 DEF InHand, HasRight
    <3>5. InHand(j)'
      BY <1>8, <1>13, <1>14, <1>15, <2>1, <3>1, <3>2, <3>3, <3>4 DEF InHand, Fake
    <3>6. Left(j)' = Left(j) /\ Right(j)' = Right(j)
      BY <1>13, <1>14, <2>1, <3>1, <3>2, <3>3 DEF Left, Right
    <3>7. Passes(j)
      BY <2>1, <3>2, <3>6 DEF Passes, Through
    <3> QED BY <3>5, <3>7
  <2>2. CASE pc[j] \in {"r1", "r2", "r3"}
    <3>1. /\ rAt(j) = n /\ rAt(j)' = n + 1 /\ lAt(j)' = lAt(j)
          /\ n < Len(rTab(j)) /\ rHas(j) = <<"r", j, n + 1>>
      BY <1>3, <1>4, <1>6, <1>16, <2>2 DEF lAt, rAt, rTab, rHas, Sides
    <3>2. pc'[j] = "test"
      BY <1>9, <1>10, <2>2, Steps
    <3>3. HasRight(j)' /\ rHas(j) # Null
      BY <1>14, <3>1, TuplesNotNull DEF HasRight, Sides
    <3>4. LeftOver(j)' \/ HasLeft(j)'
      BY <1>14, <1>15, <2>2, <3>1 DEF InHand, HasLeft, LeftOver
    <3>5. InHand(j)'
      BY <1>8, <1>13, <1>14, <1>15, <3>1, <3>2, <3>3, <3>4 DEF InHand, Fake
    <3>6. Left(j)' = Left(j) /\ Right(j)' = Right(j)
      BY <1>13, <1>14, <2>2, <3>1, <3>2, <3>3 DEF Left, Right
    <3>7. Passes(j)
      BY <2>2, <3>2, <3>6 DEF Passes, Through
    <3> QED BY <3>5, <3>7
  <2> QED BY <1>1, <2>1, <2>2 DEF Gets
<1> QED BY <1>7, <1>11, <1>12, <1>17, NothingCombined

-------------------------------------------------------------------------------
(* Keys of a range: numbers, ascending, and in tables without duplicates   *)
(* at one position only.                                                   *)

Ordered(q) ==
    /\ Len(q) \in Nat
    /\ \A x \in 1..Len(q) : q[x] \in Nat
    /\ Ascending(q)
Distinct(q) == \A x, y \in 1..Len(q) : q[x] = q[y] => x = y

LEMMA TablesOrdered ==
    ASSUME TypeOK, Gathered, NEW j \in Cores
    PROVE  /\ Ordered(lTab(j)) /\ Ordered(rTab(j))
           /\ Unique => Distinct(lTab(j)) /\ Distinct(rTab(j))
<1>1. ASSUME NEW s \in Sides PROVE Ordered(table[s][j]) /\ (Unique => Distinct(table[s][j]))
  <2>1. PICK q \in Seq(Keys) : q = table[s][j]
    BY DEF TypeOK
  <2>2. Len(q) \in Nat /\ \A x \in 1..Len(q) : q[x] \in Keys
    OBVIOUS
  <2>3. Keys \subseteq Nat
    BY CoresFacts DEF Keys
  <2> QED BY <2>1, <2>2, <2>3 DEF Ordered, Distinct, Unique, Gathered
<1> QED BY <1>1 DEF lTab, rTab, Sides

\* A smaller key matches nothing from the position of the greater one on.
LEMMA NoMatchAbove ==
    ASSUME NEW u, Ordered(u), NEW k \in Nat, NEW d \in 1..Len(u), k < u[d]
    PROVE  \A y \in 1..Len(u) : y >= d => u[y] # k
<1> SUFFICES ASSUME NEW y \in 1..Len(u), y >= d, u[y] = k PROVE FALSE
  OBVIOUS
<1>1. Len(u) \in Nat /\ u[d] \in Nat
  BY DEF Ordered
<1>2. CASE y = d
  BY <1>1, <1>2
<1>3. CASE y # d
  <2>1. d < y
    BY <1>1, <1>3
  <2>2. u[d] <= u[y]
    BY <2>1 DEF Ordered, Ascending
  <2> QED BY <1>1, <2>2
<1> QED BY <1>2, <1>3

LEMMA KeyOfTuple ==
    \A j, k : Key(<<"l", j, k>>) = lTab(j)[k] /\ Key(<<"r", j, k>>) = rTab(j)[k]
BY DEF Key, lTab, rTab

\* While not spoiled, a combine has room and adds its pair.
LEMMA CombinesOne ==
    ASSUME NEW j \in Cores, NEW t, NEW u, NEW label, Combine(j, t, u, label), ~spoiled'
    PROVE  Goto(j, label) /\ result' = result (+) SetToBag({<<t, u>>})
BY DEF Combine

LEMMA CompareUndisturbed ==
    ASSUME Basic, Gathered, Undisturbed, NEW j \in Cores, Compare(j), ~spoiled' PROVE Undisturbed'
<1>1. pc[j] = "test" /\ UNCHANGED <<mainVars, current_, got, inc>>
  BY DEF Compare
<1>2. inc[j] = Null
  BY <1>1 DEF Basic, Creation, Gets
<1>3. table' = table /\ main' # "gather"
  BY <1>1, ThreadMain
<1>4. PICK m \in Nat, n \in Nat, c \in Nat, d \in Nat :
        m = Len(lTab(j)) /\ n = Len(rTab(j)) /\ c = lAt(j) /\ d = rAt(j)
  BY Lengths DEF Basic
<1>5. /\ lAt(j)' = c /\ rAt(j)' = d /\ lTab(j)' = lTab(j) /\ rTab(j)' = rTab(j)
      /\ lHas(j)' = lHas(j) /\ rHas(j)' = rHas(j)
  BY <1>1, <1>3, <1>4 DEF lAt, rAt, lTab, rTab, lHas, rHas
<1>6. InHand(j) /\ c <= m /\ d <= n
  BY <1>4 DEF Undisturbed, InHand
<1>7. (LeftOver(j) \/ HasLeft(j)) /\ (RightOver(j) \/ HasRight(j))
  BY <1>1, <1>6 DEF InHand
<1>8. /\ Ordered(lTab(j)) /\ Ordered(rTab(j))
      /\ Unique => Distinct(lTab(j)) /\ Distinct(rTab(j))
  BY TablesOrdered DEF Basic
<1>9. ASSUME NEW label, Goto(j, label)
      PROVE pc'[j] = label /\ \A i \in Cores : i # j => Alone(i)
  <2>1. pc'[j] = label /\ \A i \in Cores : i # j => pc'[i] = pc[i]
    BY <1>9, Went DEF Basic
  <2> QED BY <1>1, <2>1 DEF Alone
<1>10. CASE (lHas(j) = Null \/ rHas(j) = Null) /\ Goto(j, "end") /\ result' = result
  <2>1. pc'[j] = "end" /\ \A i \in Cores : i # j => Alone(i)
    BY <1>9, <1>10
  <2>2. InHand(j)'
    BY <1>1, <1>2, <1>4, <1>5, <1>6, <2>1 DEF InHand, Fake
  <2>3. FakesAhead(j)'
    BY <2>1 DEF FakesAhead
  <2>4. (lHas(j) = Null /\ c = m) \/ (rHas(j) = Null /\ d = n)
    <3>1. HasLeft(j) => lHas(j) # Null
      BY <1>4, TuplesNotNull DEF HasLeft, Sides
    <3>2. HasRight(j) => rHas(j) # Null
      BY <1>4, TuplesNotNull DEF HasRight, Sides
    <3> QED BY <1>4, <1>7, <1>10, <3>1, <3>2 DEF LeftOver, RightOver
  <2>5. ASSUME NEW x \in 1..m, NEW y \in 1..n PROVE Through(j, x, y) /\ Through(j, x, y)'
    BY <1>4, <2>1, <2>4 DEF Through, Left, Right
  <2>6. Passes(j)
    BY <1>4, <2>5 DEF Passes
  <2> QED BY <1>3, <1>10, <2>1, <2>2, <2>3, <2>6, NothingCombined
<1>11. CASE lHas(j) # Null /\ rHas(j) # Null
  <2>1. HasLeft(j) /\ HasRight(j) /\ c \in 1..m /\ d \in 1..n
    BY <1>4, <1>6, <1>7, <1>11 DEF LeftOver, RightOver, HasLeft, HasRight
  <2>2. lHas(j) = <<"l", j, c>> /\ rHas(j) = <<"r", j, d>>
    BY <1>4, <2>1 DEF HasLeft, HasRight
  <2>3. Key(lHas(j)) = lTab(j)[c] /\ Key(rHas(j)) = rTab(j)[d]
    BY <2>2, KeyOfTuple
  <2>4. lTab(j)[c] \in Nat /\ rTab(j)[d] \in Nat
    BY <1>4, <1>8, <2>1 DEF Ordered
  <2>5. \A x, y : Through(j, x, y) <=> x <= c - 1 \/ y <= d - 1
    BY <1>1, <1>4, <1>11 DEF Through, Left, Right
  <2>6. HasLeft(j)' /\ HasRight(j)'
    BY <1>4, <1>5, <2>1 DEF HasLeft, HasRight
  <2>7. CASE lTab(j)[c] = rTab(j)[d] /\ Combine(j, lHas(j), rHas(j), "fl0")
    <3>1. Goto(j, "fl0") /\ result' = result (+) SetToBag({Pair(j, c, d)})
      BY <2>2, <2>7, CombinesOne DEF Pair
    <3>2. pc'[j] = "fl0" /\ \A i \in Cores : i # j => Alone(i)
      BY <1>9, <3>1
    <3>3. InHand(j)'
      BY <1>1, <1>2, <1>4, <1>5, <1>6, <2>6, <2>7, <3>2 DEF InHand, Fake
    <3>4. FakesAhead(j)'
      BY <3>2 DEF FakesAhead
    <3>5. \A x, y : Through(j, x, y)' <=> x <= c \/ y <= d
      BY <1>5, <3>2 DEF Through, Left, Right
    <3>6. ASSUME Unique, NEW x \in 1..m, NEW y \in 1..n, Match(j, x, y)
          PROVE  Through(j, x, y)' <=> Through(j, x, y) \/ (x = c /\ y = d)
      <4>1. x = c => y = d
        BY <1>4, <1>8, <2>1, <2>7, <3>6 DEF Match, Distinct
      <4>2. y = d => x = c
        BY <1>4, <1>8, <2>1, <2>7, <3>6 DEF Match, Distinct
      <4> QED BY <2>5, <3>5, <4>1, <4>2
    <3>7. Match(j, c, d) /\ ~Through(j, c, d)
      BY <2>1, <2>5, <2>7 DEF Match
    <3> QED BY <1>3, <1>4, <2>1, <3>1, <3>2, <3>3, <3>4, <3>6, <3>7, MatchCombined
  <2>8. CASE lTab(j)[c] < rTab(j)[d] /\ Goto(j, "l3") /\ result' = result
    <3>1. pc'[j] = "l3" /\ \A i \in Cores : i # j => Alone(i)
      BY <1>9, <2>8
    <3>2. InHand(j)'
      BY <1>1, <1>2, <1>4, <1>5, <1>6, <2>6, <3>1 DEF InHand, Fake
    <3>3. FakesAhead(j)'
      BY <3>1 DEF FakesAhead
    <3>4. \A x, y : Through(j, x, y)' <=> x <= c \/ y <= d - 1
      BY <1>5, <1>11, <3>1 DEF Through, Left, Right
    <3>5. \A y \in 1..n : y >= d => rTab(j)[y] # lTab(j)[c]
      BY <1>4, <1>8, <2>1, <2>4, <2>8, NoMatchAbove
    <3>6. ASSUME NEW x \in 1..m, NEW y \in 1..n, Match(j, x, y)
          PROVE  Through(j, x, y)' <=> Through(j, x, y)
      <4>1. x = c => y < d
        BY <3>5, <3>6 DEF Match
      <4> QED BY <2>5, <3>4, <4>1
    <3>7. Passes(j)
      BY <1>4, <3>6 DEF Passes
    <3> QED BY <1>3, <2>8, <3>1, <3>2, <3>3, <3>7, NothingCombined
  <2>9. CASE lTab(j)[c] > rTab(j)[d] /\ Goto(j, "r3") /\ result' = result
    <3>1. pc'[j] = "r3" /\ \A i \in Cores : i # j => Alone(i)
      BY <1>9, <2>9
    <3>2. InHand(j)'
      BY <1>1, <1>2, <1>4, <1>5, <1>6, <2>6, <3>1 DEF InHand, Fake
    <3>3. FakesAhead(j)'
      BY <3>1 DEF FakesAhead
    <3>4. \A x, y : Through(j, x, y)' <=> x <= c - 1 \/ y <= d
      BY <1>5, <1>11, <3>1 DEF Through, Left, Right
    <3>5. \A x \in 1..m : x >= c => lTab(j)[x] # rTab(j)[d]
      BY <1>4, <1>8, <2>1, <2>4, <2>9, NoMatchAbove
    <3>6. ASSUME NEW x \in 1..m, NEW y \in 1..n, Match(j, x, y)
          PROVE  Through(j, x, y)' <=> Through(j, x, y)
      <4>1. y = d => x < c
        BY <3>5, <3>6 DEF Match
      <4> QED BY <2>5, <3>4, <4>1
    <3>7. Passes(j)
      BY <1>4, <3>6 DEF Passes
    <3> QED BY <1>3, <2>9, <3>1, <3>2, <3>3, <3>7, NothingCombined
  <2>10. \/ lTab(j)[c] = rTab(j)[d] /\ Combine(j, lHas(j), rHas(j), "fl0")
         \/ lTab(j)[c] < rTab(j)[d] /\ Goto(j, "l3") /\ result' = result
         \/ lTab(j)[c] > rTab(j)[d] /\ Goto(j, "r3") /\ result' = result
    <3>1. \/ Key(lHas(j)) = Key(rHas(j)) /\ Combine(j, lHas(j), rHas(j), "fl0")
          \/ Key(lHas(j)) < Key(rHas(j)) /\ Goto(j, "l3") /\ result' = result
          \/ Key(lHas(j)) > Key(rHas(j)) /\ Goto(j, "r3") /\ result' = result
      BY <1>11 DEF Compare, lHas, rHas
    <3> QED BY <2>3, <3>1
  <2> QED BY <2>7, <2>8, <2>9, <2>10
<1> QED BY <1>10, <1>11 DEF Compare, lHas, rHas

-------------------------------------------------------------------------------
(* The loops over fake tuples: they combine a pair of the reference only   *)
(* if a table holds a key twice.                                           *)

LEMMA FakesUndisturbed ==
    ASSUME Basic, Undisturbed, NEW j \in Cores, Fakes(j), ~spoiled' PROVE Undisturbed'
<1>1. PICK s \in Sides, f \in {"fl", "fr"}, label \in Labels :
          /\ getNextFake(j, s, f, label)
          /\ \/ pc[j] = "fl0" /\ s = "l" /\ f = "fl" /\ label = "fr0"
             \/ pc[j] = "fr0" /\ s = "r" /\ f = "fr" /\ label = "loopl"
             \/ pc[j] = "fl1" /\ s = "l" /\ f = "fl" /\ label = "loopl"
             \/ pc[j] = "fr1" /\ s = "l" /\ f = "fr" /\ label = "loopr"
  BY DEF Fakes, Sides, Labels
<1>2. f \in Fields /\ "l" \in Fields /\ "r" \in Fields /\ "fl" \in Fields /\ "fr" \in Fields
  BY DEF Fields
<1>3. UNCHANGED <<mainVars, current_, inc>> /\ ReadSlot(j)
  BY <1>1 DEF getNextFake
<1>4. slot = j /\ result' = result
  BY <1>3, ReadsOwn
<1>5. PICK n \in Nat \ {0}, t \in Tuple :
        /\ Takes(j, f, t) /\ Goto(j, label)
        /\ \/ current_[s][j] + n + 1 <= Len(table[s][j]) /\ t = <<s, j, current_[s][j] + n + 1>>
           \/ Memory(t)
  BY <1>1, <1>2, <1>4, getNextFakeDone DEF FakeRead
<1>6. table' = table /\ main' # "gather" /\ current_' = current_
  BY <1>1, <1>3, ThreadMain
<1>7. pc'[j] = label /\ \A i \in Cores : i # j => pc'[i] = pc[i]
  BY <1>5, Went DEF Basic
<1>8. /\ got'[j][f] = t /\ \A g \in Fields : g # f => got'[j][g] = got[j][g]
      /\ \A i \in Cores : i # j => got'[i] = got[i]
  BY <1>2, <1>5, Taken DEF Basic
<1>9. \A i \in Cores : i # j => Alone(i)
  BY <1>3, <1>6, <1>7, <1>8 DEF Alone
<1>10. Memory(t) \/ Ahead(t, s, j)
  <2>1. CASE current_[s][j] + n + 1 <= Len(table[s][j]) /\ t = <<s, j, current_[s][j] + n + 1>>
    <3>1. PICK k : k = current_[s][j] + n + 1
      OBVIOUS
    <3>2. current_[s][j] \in Nat /\ Len(table[s][j]) \in Nat
      <4>1. table[s][j] \in Seq(Keys)
        BY DEF Basic, TypeOK
      <4> QED BY <4>1 DEF Basic, TypeOK
    <3>3. k \in 1..Len(table[s][j]) /\ k > current_[s][j]
      BY <2>1, <3>1, <3>2
    <3> QED BY <2>1, <3>1, <3>3 DEF Ahead
  <2> QED BY <1>5, <2>1
<1>11. /\ lAt(j)' = lAt(j) /\ rAt(j)' = rAt(j) /\ lTab(j)' = lTab(j) /\ rTab(j)' = rTab(j)
       /\ lHas(j)' = lHas(j) /\ rHas(j)' = rHas(j)
  BY <1>2, <1>6, <1>8 DEF lAt, rAt, lTab, rTab, lHas, rHas
<1>12. inc[j] = Null /\ inc'[j] = Null
  BY <1>1, <1>3 DEF Basic, Creation, Gets
<1>13. InHand(j)'
  <2>1. HasLeft(j)' /\ HasRight(j)' /\ lTab(j)[lAt(j)] = rTab(j)[rAt(j)]
    BY <1>1, <1>11 DEF Undisturbed, InHand, Fake, HasLeft, HasRight
  <2>2. lAt(j) <= Len(lTab(j)) /\ rAt(j) <= Len(rTab(j))
    BY DEF Undisturbed, InHand
  <2> QED BY <1>1, <1>7, <1>11, <1>12, <2>1, <2>2 DEF InHand, Fake
<1>14. FakesAhead(j)'
  <2>1. FakesAhead(j)
    BY DEF Undisturbed
  <2>2. ASSUME NEW g \in {"fl", "fr"}, NEW v \in Sides
        PROVE  Ahead(got[j][g], v, j) => \E k \in 1..Len(table'[v][j]) : k > current_'[v][j] /\ got[j][g] = <<v, j, k>>
    BY <1>6 DEF Ahead
  <2>3. Ahead(t, s, j) => \E k \in 1..Len(table'[s][j]) : k > current_'[s][j] /\ t = <<s, j, k>>
    BY <1>6 DEF Ahead
  <2>4. (Memory(got[j]["fl"]) \/ Ahead(got[j]["fl"], "l", j)) /\ got'[j]["fl"] = got[j]["fl"]
          => (Memory(got[j]["fl"]) \/ Ahead(got[j]["fl"], "l", j))'
    BY <2>2 DEF Memory, Ahead, Sides
  <2>5. (Memory(got[j]["fr"]) \/ Ahead(got[j]["fr"], "l", j) \/ Ahead(got[j]["fr"], "r", j)) /\ got'[j]["fr"] = got[j]["fr"]
          => (Memory(got[j]["fr"]) \/ Ahead(got[j]["fr"], "l", j) \/ Ahead(got[j]["fr"], "r", j))'
    BY <2>2 DEF Memory, Ahead, Sides
  <2>6. f = "fl" => (Memory(got[j]["fl"]) \/ Ahead(got[j]["fl"], "l", j))'
    BY <1>1, <1>8, <1>10, <2>3 DEF Memory, Ahead
  <2>7. f = "fr" => (Memory(got[j]["fr"]) \/ Ahead(got[j]["fr"], "l", j) \/ Ahead(got[j]["fr"], "r", j))'
    BY <1>1, <1>8, <1>10, <2>3 DEF Memory, Ahead
  <2> QED BY <1>1, <1>2, <1>7, <1>8, <2>1, <2>4, <2>5, <2>6, <2>7 DEF FakesAhead
<1>15. Passes(j)
  BY <1>1, <1>7, <1>11 DEF Passes, Through, Left, Right
<1> QED BY <1>4, <1>6, <1>9, <1>13, <1>14, <1>15, NothingCombined

\* With duplicate keys nothing is claimed of the pairs.
LEMMA DuplicateCombined ==
    ASSUME Basic, Undisturbed, NEW j \in Cores, table' = table, main' # "gather",
           \A i \in Cores : i # j => Alone(i), InHand(j)', FakesAhead(j)', ~Unique
    PROVE  Undisturbed'
<1>1. \A i \in Cores : InHand(i)' /\ FakesAhead(i)'
  BY LeftAlone DEF Undisturbed
<1>2. Unique' <=> Unique
  BY DEF Unique
<1> QED BY <1>1, <1>2 DEF Undisturbed

\* A fake tuple in the table that has the key in hand is a duplicate.
LEMMA FakeDuplicate ==
    ASSUME TypeOK, Gathered, NEW j \in Cores, HasLeft(j), HasRight(j),
           lAt(j) <= Len(lTab(j)), rAt(j) <= Len(rTab(j)),
           lTab(j)[lAt(j)] = rTab(j)[rAt(j)],
           NEW t, Ahead(t, "l", j) \/ Ahead(t, "r", j), Key(t) = lTab(j)[lAt(j)]
    PROVE  ~Unique
<1> SUFFICES ASSUME Unique PROVE FALSE
  OBVIOUS
<1>1. PICK c, d : c = lAt(j) /\ d = rAt(j)
  OBVIOUS
<1>2. c \in 1..Len(lTab(j)) /\ d \in 1..Len(rTab(j))
  BY <1>1, Lengths DEF HasLeft, HasRight
<1>3. Distinct(lTab(j)) /\ Distinct(rTab(j))
  BY TablesOrdered
<1>4. CASE Ahead(t, "l", j)
  <2>1. PICK k \in 1..Len(lTab(j)) : k > c /\ t = <<"l", j, k>>
    BY <1>1, <1>4 DEF Ahead, lTab, lAt
  <2>2. lTab(j)[k] = lTab(j)[c]
    BY <1>1, <2>1, KeyOfTuple
  <2>3. k = c
    BY <1>2, <1>3, <2>2 DEF Distinct
  <2> QED BY <1>2, <2>1, <2>3, Lengths
<1>5. CASE Ahead(t, "r", j)
  <2>1. PICK k \in 1..Len(rTab(j)) : k > d /\ t = <<"r", j, k>>
    BY <1>1, <1>5 DEF Ahead, rTab, rAt
  <2>2. rTab(j)[k] = rTab(j)[d]
    BY <1>1, <2>1, KeyOfTuple
  <2>3. k = d
    BY <1>2, <1>3, <2>2 DEF Distinct
  <2> QED BY <1>2, <2>1, <2>3, Lengths
<1> QED BY <1>4, <1>5

LEMMA LoopsUndisturbed ==
    ASSUME Basic, Gathered, Undisturbed, NEW j \in Cores, Loops(j), ~spoiled' PROVE Undisturbed'
<1>1. pc[j] \in {"loopl", "loopr"} /\ UNCHANGED <<mainVars, current_, inc>>
  BY DEF Loops
<1>2. table' = table /\ main' # "gather" /\ inc[j] = Null
  BY <1>1, ThreadMain DEF Basic, Creation, Gets
<1>3. /\ HasLeft(j) /\ HasRight(j) /\ lTab(j)[lAt(j)] = rTab(j)[rAt(j)]
      /\ lAt(j) <= Len(lTab(j)) /\ rAt(j) <= Len(rTab(j))
  BY <1>1 DEF Undisturbed, InHand, Fake
<1>4. Key(got[j]["l"]) = lTab(j)[lAt(j)] /\ Key(got[j]["r"]) = lTab(j)[lAt(j)]
  <2>1. Key(lHas(j)) = lTab(j)[lAt(j)] /\ Key(rHas(j)) = rTab(j)[rAt(j)]
    BY <1>3, KeyOfTuple DEF HasLeft, HasRight
  <2> QED BY <1>3, <2>1 DEF lHas, rHas
<1>5. FakesAhead(j)
  BY DEF Undisturbed
<1>6. /\ lAt(j)' = lAt(j) /\ rAt(j)' = rAt(j) /\ lTab(j)' = lTab(j) /\ rTab(j)' = rTab(j)
  BY <1>1, <1>2 DEF lAt, rAt, lTab, rTab
<1>7. ASSUME NEW label \in {"fl1", "fr1", "loopr"}, Goto(j, label), label = "fl1" => pc[j] = "loopl"
      PROVE  /\ \A i \in Cores : i # j => Alone(i)
             /\ InHand(j)' /\ FakesAhead(j)' /\ Passes(j)
  <2>1. pc'[j] = label /\ \A i \in Cores : i # j => pc'[i] = pc[i]
    BY <1>7, Went DEF Basic
  <2>2. got' = got
    BY <2>1 DEF Loops
  <2>3. \A i \in Cores : i # j => Alone(i)
    BY <1>1, <2>1, <2>2 DEF Alone
  <2>4. HasLeft(j)' /\ HasRight(j)'
    BY <1>3, <1>6, <2>2 DEF HasLeft, HasRight, lHas, rHas
  <2>5. InHand(j)'
    BY <1>1, <1>2, <1>3, <1>6, <2>1, <2>4 DEF InHand, Fake
  <2>6. FakesAhead(j)'
    BY <1>1, <1>2, <1>5, <2>1, <2>2 DEF FakesAhead, Ahead, Memory
  <2>7. Passes(j)
    BY <1>1, <1>6, <2>1 DEF Passes, Through, Left, Right
  <2> QED BY <2>3, <2>5, <2>6, <2>7
<1>8. CASE pc[j] = "loopl" /\ Key(got[j]["fl"]) = Key(got[j]["r"]) /\ Combine(j, got[j]["fl"], got[j]["r"], "fl1")
  <2>1. PICK t, u : t = got[j]["fl"] /\ u = got[j]["r"]
    OBVIOUS
  <2>2. Goto(j, "fl1") /\ result' = result (+) SetToBag({<<t, u>>})
    BY <1>8, <2>1, CombinesOne
  <2>3. CASE Memory(t)
    BY <1>2, <1>7, <1>8, <2>2, <2>3, MemoryCombined
  <2>4. CASE Ahead(t, "l", j)
    <3>1. ~Unique
      BY <1>3, <1>4, <1>8, <2>1, <2>4, FakeDuplicate DEF Basic
    <3> QED BY <1>2, <1>7, <1>8, <2>2, <3>1, DuplicateCombined
  <2> QED BY <1>5, <1>8, <2>1, <2>3, <2>4 DEF FakesAhead
<1>9. CASE pc[j] = "loopr" /\ Key(got[j]["l"]) = Key(got[j]["fr"]) /\ Combine(j, got[j]["l"], got[j]["fr"], "fr1")
  <2>1. PICK t, u : t = got[j]["l"] /\ u = got[j]["fr"]
    OBVIOUS
  <2>2. Goto(j, "fr1") /\ result' = result (+) SetToBag({<<t, u>>})
    BY <1>9, <2>1, CombinesOne
  <2>3. CASE Memory(u)
    BY <1>2, <1>7, <1>9, <2>2, <2>3, MemoryCombined
  <2>4. CASE Ahead(u, "l", j) \/ Ahead(u, "r", j)
    <3>1. ~Unique
      BY <1>3, <1>4, <1>9, <2>1, <2>4, FakeDuplicate DEF Basic
    <3> QED BY <1>2, <1>7, <1>9, <2>2, <3>1, DuplicateCombined
  <2> QED BY <1>5, <1>9, <2>1, <2>3, <2>4 DEF FakesAhead
<1>10. CASE pc[j] = "loopl" /\ Goto(j, "loopr") /\ result' = result
  BY <1>2, <1>7, <1>10, NothingCombined
<1>11. CASE pc[j] = "loopr" /\ Goto(j, "l2") /\ result' = result
  <2>1. pc'[j] = "l2" /\ \A i \in Cores : i # j => pc'[i] = pc[i]
    BY <1>11, Went DEF Basic
  <2>2. \A i \in Cores : i # j => got'[i] = got[i]
    BY DEF Loops, Basic, TypeOK
  <2>3. \A i \in Cores : i # j => Alone(i)
    BY <1>1, <2>1, <2>2 DEF Alone
  <2>4. InHand(j)'
    BY <1>1, <1>2, <1>3, <1>6, <2>1 DEF InHand, Fake
  <2>5. FakesAhead(j)' /\ Passes(j)
    BY <1>1, <1>6, <2>1 DEF FakesAhead, Passes, Through, Left, Right
  <2> QED BY <1>2, <1>11, <2>3, <2>4, <2>5, NothingCombined
<1> QED BY <1>8, <1>9, <1>10, <1>11 DEF Loops

-------------------------------------------------------------------------------
(* The invariant, and what it says once every thread has returned.         *)

\* Once spoiled, spoiled.
LEMMA SpoiledStays == ASSUME [Next]_vars, ~spoiled' PROVE ~spoiled
<1>1. ASSUME NEW j \in Cores, gather_merge(j) PROVE ~spoiled
  <2>1. ASSUME ReadSlot(j) PROVE ~spoiled
    BY <2>1 DEF ReadSlot
  <2>2. ASSUME NEW t, NEW u, NEW label, Combine(j, t, u, label) PROVE ~spoiled
    BY <2>2 DEF Combine
  <2>3. CASE getNext(j) \/ Increment(j)
    BY <2>1, <2>3 DEF getNext, Increment
  <2>4. CASE Compare(j)
    BY <2>2, <2>4 DEF Compare
  <2>5. CASE Fakes(j)
    BY <2>1, <2>5 DEF Fakes, getNextFake
  <2>6. CASE Loops(j)
    BY <2>2, <2>6 DEF Loops
  <2> QED BY <1>1, <2>3, <2>4, <2>5, <2>6 DEF gather_merge
<1>2. CASE prelude
  BY <1>2 DEF prelude, gather, Assemble, Create, threadVars
<1>3. CASE UNCHANGED vars
  BY <1>3 DEF vars, threadVars
<1> QED BY <1>1, <1>2, <1>3 DEF Next

LEMMA InitInv == Init => Inv
BY InitBasic, InitGathered, InitUndisturbed DEF Basic, Inv

LEMMA NextInv == Inv /\ [Next]_vars => Inv'
<1> SUFFICES ASSUME Inv, [Next]_vars PROVE Inv'
  OBVIOUS
<1>1. Basic /\ Gathered
  BY DEF Inv, Basic
<1>2. Basic' /\ Gathered'
  BY <1>1, NextBasic, NextGathered
<1>3. ASSUME ~spoiled' PROVE Undisturbed'
  <2>1. Undisturbed
    BY <1>3, SpoiledStays DEF Inv
  <2>2. ASSUME NEW j \in Cores, gather_merge(j) PROVE Undisturbed'
    BY <1>1, <1>3, <2>1, <2>2, getNextUndisturbed, IncrementUndisturbed, CompareUndisturbed,
       FakesUndisturbed, LoopsUndisturbed DEF gather_merge
  <2>3. CASE prelude
    BY <1>1, <2>1, <2>3, gatherUndisturbed, mainUndisturbed DEF prelude
  <2>4. CASE UNCHANGED vars
    <3>1. table' = table /\ main' = main /\ result' = result /\ \A i \in Cores : Alone(i)
      BY <2>4 DEF vars, threadVars, Alone
    <3>2. \A i \in Cores : InHand(i)' /\ FakesAhead(i)' /\ \A x, y : Through(i, x, y)' <=> Through(i, x, y)
      BY <1>1, <2>1, <3>1, LeftAlone DEF Undisturbed
    <3>3. CASE main' # "gather"
      <4>1. Passes(0) /\ 0 \in Cores
        BY <3>2, CoresFacts DEF Passes
      <4> QED BY <1>1, <2>1, <3>1, <3>2, <3>3, <4>1, NothingCombined
    <3>4. CASE main' = "gather"
      <4>1. \A j \in Cores : pc[j] = "new" /\ inc[j] = Null
        BY <1>1, <3>1, <3>4, CoresFacts DEF Basic, Creation, Gets
      <4>2. \A j \in Cores : lAt(j) = 0 /\ rAt(j) = 0
        BY <2>1, <4>1 DEF Undisturbed, InHand
      <4>3. result = EmptyBag
        BY <2>1, <3>1, <3>4 DEF Undisturbed
      <4>4. Fresh'
        BY <1>2, <2>4, <4>1, <4>2, <4>3 DEF Fresh, Basic, vars, threadVars, lAt, rAt
      <4>5. Fresh' => Undisturbed'
        BY FreshUndisturbed, PTL
      <4> QED BY <4>4, <4>5
    <3> QED BY <3>3, <3>4
  <2> QED BY <2>2, <2>3, <2>4 DEF Next
<1> QED BY <1>2, <1>3 DEF Inv, Basic

\* The inductive invariant of the join.
THEOREM Invariance == Safety => []Inv
BY InitInv, NextInv, PTL DEF Safety

LEMMA ExactAtEnd == Inv => ExactWhenUndisturbed
<1> SUFFICES ASSUME Inv, Done, ~spoiled, Unique
    PROVE /\ \A p \in Reference : Copies(p) = 1
          /\ \A p \in BagToSet(result) : p \in Reference \/ p[1][1] = "mem" \/ p[2][1] = "mem"
  BY DEF ExactWhenUndisturbed
<1>1. NothingElse /\ \A j \in Cores : CombinedOnce(j) /\ pc[j] = "end"
  BY DEF Inv, Undisturbed, Done
<1>2. ASSUME NEW p \in Reference PROVE Copies(p) = 1
  <2>1. PICK i \in Cores : \E x \in 1..Len(lTab(i)) : p[1] = <<"l", i, x>>
    BY DEF Reference, Rows, lTab
  <2>1a. PICK x \in 1..Len(lTab(i)) : p[1] = <<"l", i, x>>
    BY <2>1
  <2>2. PICK j \in Cores : \E y \in 1..Len(rTab(j)) : p[2] = <<"r", j, y>>
    BY DEF Reference, Rows, rTab
  <2>2a. PICK y \in 1..Len(rTab(j)) : p[2] = <<"r", j, y>>
    BY <2>2
  <2>3. p = <<p[1], p[2]>> /\ Key(p[1]) = Key(p[2])
    BY DEF Reference
  <2>4. lTab(i)[x] = rTab(j)[y]
    BY <2>1a, <2>2a, <2>3, KeyOfTuple
  <2>5. lTab(i)[x] \div CPU_CORE = i /\ rTab(j)[y] \div CPU_CORE = j
    BY DEF Inv, Gathered, InRange, lTab, rTab, Sides
  <2>6. i = j
    BY <2>4, <2>5
  <2>7. p = Pair(j, x, y) /\ Match(j, x, y) /\ Through(j, x, y)
    BY <1>1, <2>1a, <2>2a, <2>3, <2>4, <2>6 DEF Pair, Match, Through
  <2>8. Copies(Pair(j, x, y)) = 1
    BY <1>1, <2>1a, <2>2a, <2>6, <2>7 DEF CombinedOnce
  <2> QED BY <2>7, <2>8
<1> QED BY <1>1, <1>2 DEF NothingElse, Memory

\* If every thread read its own number and no block was given up, the merge of
\* ascending tables without duplicate keys is the reference join, each pair
\* once, for any number of threads and any ascending streams.
THEOREM JoinExact == Safety => []ExactWhenUndisturbed
BY Invariance, ExactAtEnd, PTL
===============================================================================

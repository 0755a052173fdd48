-------------------------- MODULE ShuffleSortedProofs --------------------------
(***************************************************************************)
(* Proofs about ShuffleSorted, for any number of lowers, uppers and ranges *)
(* of a lower, any plan, any size of a block, of a column and of a socket. *)
(*                                                                         *)
(* Everything is said of one stream, the way from lower l to upper u: the  *)
(* blocks in the lower's column, in send_route's hand, in the socket and   *)
(* in the upper's column, oldest first.  Lines says what may follow what   *)
(* there, and how the blocks relate to the buffer and to the range they    *)
(* were filled from; Chains says the same of the end get_sorted reads, in  *)
(* terms of keys; Merging says that no leaf is below what was stored, and  *)
(* that a column is finished only when its stream is drained.  A marker is *)
(* the last thing of a stream because a lower marks only what it flushed,  *)
(* and it flushes only when every range it has is spent: that is counted   *)
(* by Gathered.                                                            *)
(***************************************************************************)
EXTENDS ShuffleSorted, SequenceTheorems, FiniteSetTheorems, WellFoundedInduction, TLAPS

-------------------------------------------------------------------------------
(* The inductive invariant.                                                *)

\* Types.  A buffer that was filled seq times, and a block that left it then with the
\* slots assembling counted.
Key == 0 .. ULONG_MAX - 1
Slots == [1 .. Fit -> Key]
Tuples == [1 .. Counted -> Key]
Front(slots) == [k \in 1 .. Counted |-> slots[k]]
Block == [seq : Nat \ {0}, slots : Tuples]
Blocks == Block \cup {Marker}
Buffer == [seq : Nat, used : 0 .. Fit, slots : Slots]

LowerType ==
    /\ seqs \in 1 .. NUppers
    /\ ranges \in [Lowers -> [Seqs -> Seq(Key)]]
    /\ buffers \in [Lowers -> [Seqs -> Buffer]]
    /\ emptys \in [Lowers -> Nat] /\ oks \in [Lowers -> [Seqs -> BOOLEAN]]
    /\ lpc \in [Lowers -> {"gather", "send", "flush", "mark", "done"} \X Seqs]
LineType ==
    /\ lcols \in [Lowers -> [Seqs -> Seq(Blocks)]] /\ chan \in [Lowers -> [Seqs -> Seq(Blocks)]]
    /\ ucols \in [Seqs -> [Lowers -> Seq(Blocks)]]
    /\ lscan \in [Lowers -> Seqs] /\ temp \in [Lowers -> Blocks \cup {NoBlock}]
UpperType ==
    /\ upc \in [Seqs -> {"begin", "merge", "refill", "ended", "crashed"} \X Lowers]
    /\ itrs \in [Seqs -> [Lowers -> Seq(Key)]]
    /\ leaves \in [Seqs -> [Lowers -> 0 .. ULONG_MAX]]
    /\ stored \in [Seqs -> 0 .. Fit] /\ finished \in [Seqs -> Nat]
    /\ rose \in [Seqs -> [Lowers -> Key \cup {-1}]] /\ last \in [Seqs -> Key \cup {-1}]
SortedType == LowerType /\ LineType /\ UpperType

\* A lower counts the ranges it has emptied, and flushes when these are all; what it
\* marks it has flushed.
Flushing(l) == lpc[l][1] \in {"flush", "mark", "done"}
Past(l, u) == lpc[l][1] = "done" \/ (lpc[l][1] = "mark" /\ u < lpc[l][2])
Spent(l) == {u \in Seqs : ranges[l][u] = <<>> /\ buffers[l][u].seq > 0}
Tallied(l) ==
    /\ emptys[l] = Cardinality(Spent(l))
    /\ Flushing(l) => emptys[l] = seqs
    /\ lpc[l][1] \in {"mark", "done"} => \A u \in Seqs : oks[l][u]
    /\ \A u \in Seqs : /\ oks[l][u] => Flushing(l) /\ buffers[l][u].used = 0
                       /\ buffers[l][u].used > 0 => buffers[l][u].seq > 0
Gathered == \A l \in Lowers : Tallied(l)

\* A range descends up to its keys out of order.  The counted slots of a block that was
\* filled from it, if they hold no such key, ascend to keys that are not above those
\* left, nor above the first key of any later block.
Descending(range) ==
    \A i, j \in 1 .. Len(range) : i < j /\ range[j] < DATAVOLUME => range[j] <= range[i]
Plain(slots) == \A k \in 1 .. Counted : slots[k] < DATAVOLUME
Ascends(slots) == \A i, j \in 1 .. Counted : i < j => slots[i] <= slots[j]
Under(slots, key) == Plain(slots) => slots[Counted] <= key
Good(slots, range) ==
    Plain(slots) => Ascends(slots) /\ \A k \in 1 .. Len(range) : slots[Counted] <= range[k]

\* What is on its way in one stream, when its buffer is buf: the markers, the blocks,
\* and each pair.
Member(b, buf, range, past, flushing) ==
    \/ b = Marker /\ past
    \/ /\ b \in Block /\ b.seq <= buf.seq /\ (b.seq = buf.seq => b.slots = Front(buf.slots))
       /\ ~ flushing /\ buf.used > 0 => b.seq < buf.seq
       /\ b.seq < buf.seq => Good(b.slots, range) /\ Under(b.slots, buf.slots[1])
InTurn(b, c, buf, range, flushing) ==
    /\ b # Marker
    /\ \/ c = Marker
       \/ b.seq < c.seq /\ Under(b.slots, c.slots[1])
       \/ b = c /\ b.seq = buf.seq /\ range = <<>> /\ flushing
Line(q, buf, range, past, flushing) ==
    /\ \A k \in 1 .. Len(q) : Member(q[k], buf, range, past, flushing)
    /\ \A i, j \in 1 .. Len(q) : i < j => InTurn(q[i], q[j], buf, range, flushing)
Lined(l, u) ==
    /\ Descending(ranges[l][u])
    /\ buffers[l][u].seq > 0 /\ ranges[l][u] # <<>> => Good(buffers[l][u].slots, ranges[l][u])
    /\ Line(Stream(l, u), buffers[l][u], ranges[l][u], Past(l, u), Flushing(l))
Lines == \A l \in Lowers, u \in Seqs : Lined(l, u)

\* A column whose first block get_sorted still waits for does not start with a marker,
\* and is not left empty by a buffer that was filled once.
Waits(u, l) == upc[u][1] = "begin" /\ upc[u][2] <= l
Fronted(l, u) ==
    Waits(u, l) => /\ Stream(l, u) # <<>> => Stream(l, u)[1] # Marker
                   /\ buffers[l][u].seq > 0 /\ buffers[l][u].used = 0 => Stream(l, u) # <<>>
Fronts == \A l \in Lowers, u \in Seqs : Fronted(l, u)

\* What get_sorted has of a column whose tuples ascend: the leaf, the rest of its
\* block, the blocks of the column, up to key r.
Chain(leaf, it, c, r) ==
    /\ leaf <= r
    /\ \A k \in 1 .. Len(it) : leaf <= it[k] /\ it[k] <= r
    /\ \A i, j \in 1 .. Len(it) : i < j => it[i] <= it[j]
    /\ \A k \in 1 .. Len(c) : c[k] # Marker =>
          /\ Ascends(c[k].slots) /\ leaf <= c[k].slots[1] /\ c[k].slots[Counted] <= r
          /\ \A i \in 1 .. Len(it) : it[i] <= c[k].slots[1]
    /\ \A i, j \in 1 .. Len(c) : i < j /\ c[i] # Marker /\ c[j] # Marker =>
          c[i].slots[Counted] <= c[j].slots[1]
Chained(u, l) ==
    rose[u][l] # -1 /\ leaves[u][l] # EndKey =>
        Chain(leaves[u][l], itrs[u][l], ucols[u][l], rose[u][l])
Chains == \A u \in Seqs, l \in Lowers : Chained(u, l)

\* get_sorted: no leaf is below what was stored; the finished columns are drained.
Drained(l, u) == Stream(l, u) = <<>> /\ itrs[u][l] = <<>> /\ Past(l, u)
Finished(u) == {l \in Lowers : leaves[u][l] = EndKey}
Ascending(u) ==
    (\A l \in Lowers : rose[u][l] # -1) =>
        last[u] # -1 /\ \A l \in Lowers : ~ Waits(u, l) => last[u] <= leaves[u][l]
Merged(u) ==
    /\ upc[u][1] = "begin" => last[u] = 0
    /\ upc[u][1] \in {"refill", "ended"} => stored[u] \in 1 .. Fit
    /\ upc[u][1] = "refill" => itrs[u][upc[u][2]] = <<>> /\ leaves[u][upc[u][2]] # EndKey
    /\ upc[u][1] \in {"begin", "merge", "refill"} =>
          finished[u] = Cardinality(Finished(u)) /\ finished[u] < NLowers
    /\ \A l \in Lowers : leaves[u][l] = EndKey \/ upc[u][1] = "ended" => Drained(l, u)
    /\ upc[u][1] # "crashed"
Merging == \A u \in Seqs : Ascending(u) /\ Merged(u)

SortedInv == SortedType /\ Gathered /\ Lines /\ Fronts /\ Chains /\ Merging
-----------------------------------------------------------------------------
(* Sequences.                                                              *)

LEMMA SeqFacts ==
    ASSUME NEW S, NEW s \in Seq(S)
    PROVE  /\ Len(s) \in Nat /\ (\A k \in 1 .. Len(s) : s[k] \in S) /\ DOMAIN s = 1 .. Len(s)
           /\ s # <<>> <=> Len(s) > 0
           /\ s # <<>> => /\ Head(s) = s[1] /\ s[1] \in S /\ Tail(s) \in Seq(S)
                          /\ Len(Tail(s)) = Len(s) - 1
                          /\ \A k \in 1 .. Len(s) - 1 : Tail(s)[k] = s[k + 1]
           /\ \A b \in S : /\ Append(s, b) \in Seq(S) /\ Len(Append(s, b)) = Len(s) + 1
                           /\ \A k \in 1 .. Len(s) : Append(s, b)[k] = s[k]
                           /\ Append(s, b)[Len(s) + 1] = b /\ Append(s, b) # <<>>
<1>1. Len(s) \in Nat /\ (\A k \in 1 .. Len(s) : s[k] \in S) /\ DOMAIN s = 1 .. Len(s)
  BY LenProperties, ElementOfSeq
<1>2. s # <<>> <=> Len(s) > 0
  BY <1>1, EmptySeq
<1>3. s # <<>> => /\ Head(s) = s[1] /\ s[1] \in S /\ Tail(s) \in Seq(S)
                  /\ Len(Tail(s)) = Len(s) - 1
                  /\ \A k \in 1 .. Len(s) - 1 : Tail(s)[k] = s[k + 1]
  BY <1>1, HeadTailProperties
<1>4. \A b \in S : /\ Append(s, b) \in Seq(S) /\ Len(Append(s, b)) = Len(s) + 1
                   /\ \A k \in 1 .. Len(s) : Append(s, b)[k] = s[k]
                   /\ Append(s, b)[Len(s) + 1] = b /\ Append(s, b) # <<>>
  BY AppendProperties
<1> QED BY <1>1, <1>2, <1>3, <1>4

LEMMA Moved ==
    ASSUME NEW S, NEW s \in Seq(S), NEW b \in Seq(S), b # <<>>
    PROVE  Append(s, Head(b)) \o Tail(b) = s \o b
<1>1. Head(b) \in S /\ Tail(b) \in Seq(S) /\ <<Head(b)>> \in Seq(S)
  BY HeadTailProperties
<1>2. <<Head(b)>> \o Tail(b) = b
  BY <1>1
<1>3. Append(s, Head(b)) = s \o <<Head(b)>>
  BY <1>1, AppendIsConcat
<1> QED BY <1>1, <1>2, <1>3, ConcatAssociative

LEMMA Associative ==
    \A r, t, w \in Seq(Blocks) : (r \o t) \o w = r \o (t \o w)
BY ConcatAssociative

\* t is r without its element at g.
Without(r, t, g) ==
    /\ g \in 1 .. Len(r) /\ Len(t) = Len(r) - 1
    /\ \A k \in 1 .. Len(t) : t[k] = IF k < g THEN r[k] ELSE r[k + 1]

\* A stream is four sequences: two columns, the socket and send_route's block.
Four(a, c, h, d) == a \o c \o h \o d

\* Concatenation keeps a prefix, a gap, and what is empty.
LEMMA Concat ==
    ASSUME NEW r \in Seq(Blocks), NEW w \in Seq(Blocks)
    PROVE  /\ r \o w \in Seq(Blocks) /\ Len(r \o w) = Len(r) + Len(w) /\ Len(r) \in Nat /\ Len(w) \in Nat
           /\ \A k \in 1 .. Len(r) : (r \o w)[k] = r[k]
           /\ r \o w = <<>> <=> r = <<>> /\ w = <<>>
           /\ \A t \in Seq(Blocks), g \in Nat : Without(r, t, g) => Without(r \o w, t \o w, g)
           /\ w # <<>> => Without(r \o w, r \o Tail(w), Len(r) + 1)
<1>1. Len(r) \in Nat /\ Len(w) \in Nat
  BY SeqFacts
<1>2. /\ r \o w \in Seq(Blocks) /\ Len(r \o w) = Len(r) + Len(w)
      /\ \A k \in 1 .. Len(r) + Len(w) : (r \o w)[k] = IF k <= Len(r) THEN r[k] ELSE w[k - Len(r)]
  BY ConcatProperties
<1>3. \A k \in 1 .. Len(r) : (r \o w)[k] = r[k]
  BY <1>1, <1>2
<1>4. r \o w = <<>> <=> r = <<>> /\ w = <<>>
  <2>1. (r \o w # <<>> <=> Len(r \o w) > 0) /\ (r # <<>> <=> Len(r) > 0) /\ (w # <<>> <=> Len(w) > 0)
    BY <1>2, SeqFacts
  <2> QED BY <1>1, <1>2, <2>1
<1>5. PICK x : x = r \o w
  OBVIOUS
<1>6. ASSUME NEW t \in Seq(Blocks), NEW g \in Nat, Without(r, t, g) PROVE Without(r \o w, t \o w, g)
  <2>1. PICK y : y = t \o w
    OBVIOUS
  <2>2. /\ Len(y) = Len(t) + Len(w) /\ Len(t) \in Nat
        /\ \A k \in 1 .. Len(t) + Len(w) : y[k] = IF k <= Len(t) THEN t[k] ELSE w[k - Len(t)]
    BY <2>1, ConcatProperties, SeqFacts
  <2>3. /\ g \in 1 .. Len(r) /\ Len(t) = Len(r) - 1
        /\ \A k \in 1 .. Len(t) : t[k] = IF k < g THEN r[k] ELSE r[k + 1]
    BY <1>6 DEF Without
  <2>4. ASSUME NEW k \in 1 .. Len(y) PROVE y[k] = IF k < g THEN x[k] ELSE x[k + 1]
    <3>0. k \in Nat /\ k >= 1 /\ k <= Len(r) - 1 + Len(w)
      BY <1>1, <2>2, <2>3
    <3>1. CASE k <= Len(t)
      BY <1>1, <1>2, <1>5, <2>2, <2>3, <3>0, <3>1
    <3>2. CASE ~ (k <= Len(t))
      <4>1. y[k] = w[k - Len(t)] /\ ~ (k < g)
        BY <1>1, <2>2, <2>3, <3>0, <3>2
      <4>2. x[k + 1] = w[(k + 1) - Len(r)]
        BY <1>1, <1>2, <1>5, <2>3, <3>0, <3>2
      <4>3. (k + 1) - Len(r) = k - Len(t)
        BY <1>1, <2>3, <3>0
      <4> QED BY <4>1, <4>2, <4>3
    <3> QED BY <3>1, <3>2
  <2>5. g \in 1 .. Len(x) /\ Len(y) = Len(x) - 1
    BY <1>1, <1>2, <1>5, <2>2, <2>3
  <2> QED BY <1>5, <2>1, <2>4, <2>5 DEF Without
<1>7. ASSUME w # <<>> PROVE Without(r \o w, r \o Tail(w), Len(r) + 1)
  <2>0. /\ Tail(w) \in Seq(Blocks) /\ Len(Tail(w)) = Len(w) - 1 /\ Len(w) > 0
        /\ \A k \in 1 .. Len(w) - 1 : Tail(w)[k] = w[k + 1]
    BY <1>7, SeqFacts
  <2>1. PICK y : y = r \o Tail(w)
    OBVIOUS
  <2>2. /\ Len(y) = Len(r) + (Len(w) - 1)
        /\ \A k \in 1 .. Len(r) + (Len(w) - 1) : y[k] = IF k <= Len(r) THEN r[k] ELSE Tail(w)[k - Len(r)]
    BY <2>0, <2>1, ConcatProperties
  <2>4. ASSUME NEW k \in 1 .. Len(y) PROVE y[k] = IF k < Len(r) + 1 THEN x[k] ELSE x[k + 1]
    <3>0. k \in Nat /\ k >= 1 /\ k <= Len(r) + Len(w) - 1
      BY <1>1, <2>2
    <3>1. CASE k <= Len(r)
      BY <1>1, <1>2, <1>5, <2>2, <3>0, <3>1
    <3>2. CASE ~ (k <= Len(r))
      <4>1. y[k] = Tail(w)[k - Len(r)] /\ k - Len(r) \in 1 .. Len(w) - 1
        BY <1>1, <2>2, <3>0, <3>2
      <4>2. x[k + 1] = w[(k + 1) - Len(r)]
        BY <1>1, <1>2, <1>5, <3>0, <3>2
      <4>3. (k + 1) - Len(r) = (k - Len(r)) + 1 /\ ~ (k < Len(r) + 1)
        BY <1>1, <3>0, <3>2
      <4> QED BY <2>0, <4>1, <4>2, <4>3
    <3> QED BY <3>1, <3>2
  <2>5. Len(r) + 1 \in 1 .. Len(x) /\ Len(y) = Len(x) - 1
    BY <1>1, <1>2, <1>5, <2>0, <2>2
  <2> QED BY <1>5, <2>1, <2>4, <2>5 DEF Without
<1> QED BY <1>1, <1>2, <1>3, <1>4, <1>6, <1>7

LEMMA FourType ==
    ASSUME NEW a \in Seq(Blocks), NEW c \in Seq(Blocks), NEW h \in Seq(Blocks), NEW d \in Seq(Blocks)
    PROVE  /\ Four(a, c, h, d) \in Seq(Blocks)
           /\ Four(a, c, h, d) = <<>> <=> a = <<>> /\ c = <<>> /\ h = <<>> /\ d = <<>>
           /\ \A k \in 1 .. Len(a) : k \in 1 .. Len(Four(a, c, h, d)) /\ Four(a, c, h, d)[k] = a[k]
<1>1. PICK e \in Seq(Blocks) : e = a \o c
  BY Concat
<1>2. PICK f \in Seq(Blocks) : f = e \o h
  BY Concat
<1>3. PICK g \in Seq(Blocks) : g = f \o d
  BY Concat
<1>4. Four(a, c, h, d) = g
  BY <1>1, <1>2, <1>3 DEF Four
<1>5. /\ Len(a) \in Nat /\ Len(c) \in Nat /\ Len(h) \in Nat /\ Len(d) \in Nat
      /\ Len(e) = Len(a) + Len(c) /\ Len(f) = Len(e) + Len(h) /\ Len(g) = Len(f) + Len(d)
  BY <1>1, <1>2, <1>3, Concat
<1>6. g = <<>> <=> a = <<>> /\ c = <<>> /\ h = <<>> /\ d = <<>>
  BY <1>1, <1>2, <1>3, Concat
<1>7. ASSUME NEW k \in 1 .. Len(a) PROVE k \in 1 .. Len(g) /\ g[k] = a[k]
  <2>1. k \in 1 .. Len(e) /\ k \in 1 .. Len(f) /\ k \in 1 .. Len(g)
    BY <1>5
  <2>2. e[k] = a[k]
    BY <1>1, Concat
  <2>3. f[k] = e[k]
    BY <1>2, <2>1, Concat
  <2>4. g[k] = f[k]
    BY <1>3, <2>1, Concat
  <2> QED BY <2>1, <2>2, <2>3, <2>4
<1> QED BY <1>4, <1>6, <1>7

\* Putting a block in at the end.
Grown(a, c, h, d, b, x, y, z) == x = Four(a, c, h, d) /\ y = Append(d, b) /\ z = Append(x, b)
LEMMA FourAppend ==
    ASSUME NEW a \in Seq(Blocks), NEW c \in Seq(Blocks), NEW h \in Seq(Blocks), NEW d \in Seq(Blocks),
           NEW b \in Blocks, NEW x, NEW y, NEW z, Grown(a, c, h, d, b, x, y, z)
    PROVE  Four(a, c, h, y) = z
<1>1. PICK e \in Seq(Blocks) : e = a \o c
  BY Concat
<1>2. PICK f \in Seq(Blocks) : f = e \o h
  BY Concat
<1>3. PICK w : w = <<b>> /\ w \in Seq(Blocks)
  <2>1. <<b>> \in Seq(Blocks)
    OBVIOUS
  <2> QED BY <2>1
<1>4. Append(d, b) = d \o w /\ f \o d \in Seq(Blocks)
  BY <1>3, AppendIsConcat, ConcatProperties
<1>5. Append(f \o d, b) = (f \o d) \o w
  BY <1>3, <1>4, AppendIsConcat
<1>6. (f \o d) \o w = f \o (d \o w)
  BY <1>3, Associative
<1>7. Four(a, c, h, d) = f \o d /\ Four(a, c, h, Append(d, b)) = f \o Append(d, b)
  BY <1>1, <1>2 DEF Four
<1> QED BY <1>4, <1>5, <1>6, <1>7 DEF Grown

\* Passing a block on: send_route takes it, sends it, and the receive thread puts it.
PassedOn(d, e, x, y) == d # <<>> /\ e = <<>> /\ x = <<Head(d)>> /\ y = Tail(d)
LEMMA FourPassed ==
    ASSUME NEW a \in Seq(Blocks), NEW c \in Seq(Blocks), NEW d \in Seq(Blocks), NEW e, NEW x, NEW y,
           PassedOn(d, e, x, y)
    PROVE  Four(a, c, x, y) = Four(a, c, e, d)
<1>1. PICK f \in Seq(Blocks) : f = a \o c
  BY Concat
<1>2. f \o <<>> = f
  BY <1>1, ConcatEmptySeq
<1>3. Head(d) \in Blocks /\ Tail(d) \in Seq(Blocks)
  BY HeadTailProperties DEF PassedOn
<1>4. f \o <<Head(d)>> = Append(f, Head(d))
  BY <1>3, AppendIsConcat
<1>5. Append(f, Head(d)) \o Tail(d) = f \o d
  BY Moved DEF PassedOn
<1> QED BY <1>1, <1>2, <1>4, <1>5 DEF Four, PassedOn

SentOn(c, b, e, x, y) == e = <<>> /\ x = Append(c, b) /\ y = <<b>>
LEMMA FourSent ==
    ASSUME NEW a \in Seq(Blocks), NEW c \in Seq(Blocks), NEW d \in Seq(Blocks), NEW b \in Blocks,
           NEW e, NEW x, NEW y, SentOn(c, b, e, x, y)
    PROVE  Four(a, x, e, d) = Four(a, c, y, d)
<1>1. <<b>> \in Seq(Blocks) /\ Append(c, b) = c \o <<b>> /\ Append(c, b) \in Seq(Blocks)
  BY AppendIsConcat, AppendProperties
<1>2. a \o (c \o <<b>>) = (a \o c) \o <<b>>
  BY <1>1, ConcatAssociative
<1>3. a \o Append(c, b) \in Seq(Blocks)
  BY <1>1, ConcatProperties
<1>4. (a \o Append(c, b)) \o <<>> = a \o Append(c, b)
  BY <1>3, ConcatEmptySeq
<1> QED BY <1>1, <1>2, <1>4 DEF Four, SentOn

Received(a, c, x, y) == c # <<>> /\ x = Append(a, Head(c)) /\ y = Tail(c)
LEMMA FourReceived ==
    ASSUME NEW a \in Seq(Blocks), NEW c \in Seq(Blocks), NEW h \in Seq(Blocks), NEW d \in Seq(Blocks),
           NEW x, NEW y, Received(a, c, x, y)
    PROVE  Four(x, y, h, d) = Four(a, c, h, d)
BY Moved DEF Four, Received

\* Losing the socket's first block, and taking the column's.
LEMMA FourLoss ==
    ASSUME NEW a \in Seq(Blocks), NEW c \in Seq(Blocks), NEW h \in Seq(Blocks), NEW d \in Seq(Blocks)
    PROVE  /\ c # <<>> => Without(Four(a, c, h, d), Four(a, Tail(c), h, d), Len(a) + 1)
           /\ a # <<>> => Without(Four(a, c, h, d), Four(Tail(a), c, h, d), 1)
<1>1. \A x, y \in Seq(Blocks), g \in Nat :
         Without(x, y, g) => Without((x \o h) \o d, (y \o h) \o d, g)
  <2> SUFFICES ASSUME NEW x \in Seq(Blocks), NEW y \in Seq(Blocks), NEW g \in Nat, Without(x, y, g)
               PROVE  Without((x \o h) \o d, (y \o h) \o d, g)
    OBVIOUS
  <2>1. PICK p \in Seq(Blocks) : p = x \o h
    BY Concat
  <2>2. PICK q \in Seq(Blocks) : q = y \o h
    BY Concat
  <2>3. Without(p, q, g)
    BY <2>1, <2>2, Concat
  <2>4. Without(p \o d, q \o d, g)
    BY <2>3, Concat
  <2> QED BY <2>1, <2>2, <2>4
<1>2. Len(a) \in Nat /\ Len(a) + 1 \in Nat /\ a \o c \in Seq(Blocks)
  BY Concat
<1>3. ASSUME c # <<>> PROVE Without(Four(a, c, h, d), Four(a, Tail(c), h, d), Len(a) + 1)
  <2>1. Tail(c) \in Seq(Blocks) /\ Without(a \o c, a \o Tail(c), Len(a) + 1)
    BY <1>3, SeqFacts, Concat
  <2>2. a \o Tail(c) \in Seq(Blocks)
    BY <2>1, Concat
  <2> QED BY <1>1, <1>2, <2>1, <2>2 DEF Four
<1>4. ASSUME a # <<>> PROVE Without(Four(a, c, h, d), Four(Tail(a), c, h, d), 1)
  <2>1. Tail(a) \in Seq(Blocks) /\ Without(a, Tail(a), 1)
    BY <1>4, SeqFacts DEF Without
  <2>2. Tail(a) \o c \in Seq(Blocks)
    BY <2>1, Concat
  <2>3. Without(a \o c, Tail(a) \o c, 1)
    BY <2>1, Concat
  <2> QED BY <1>1, <1>2, <2>2, <2>3 DEF Four
<1> QED BY <1>3, <1>4

-----------------------------------------------------------------------------
(* One stream.                                                             *)

LEMMA Sizes ==
    /\ Fit \in Nat /\ Fit >= 1 /\ Counted \in Nat /\ Counted >= 1 /\ Counted <= Fit
    /\ DATAVOLUME \in Nat /\ DATAVOLUME >= 1 /\ ULONG_MAX = 2 * DATAVOLUME
    /\ COLUMN_CON \in Nat /\ COLUMN_CON >= 1 /\ NLowers \in Nat /\ NLowers >= 2
    /\ CPU_CORE \in Nat /\ NUppers \in Nat /\ NUppers >= 1 /\ CPU_CORE >= NUppers
BY SortedAssumption DEF ULONG_MAX

LEMMA BlockFacts ==
    /\ Marker \notin Block /\ Marker \in Blocks /\ NoBlock \notin Blocks /\ NoBlock # Marker
    /\ \A b \in Block : b.seq \in Nat /\ b.seq > 0 /\ b.slots \in Tuples /\ b \in Blocks /\ b # Marker
    /\ \A b \in Blocks : b # Marker => b \in Block
    /\ \A b \in Block : b = [seq |-> b.seq, slots |-> b.slots]
    /\ \A v \in Slots : \A k \in 1 .. Fit : v[k] \in Key /\ v[k] \in Nat
    /\ \A v \in Tuples : \A k \in 1 .. Counted : v[k] \in Key /\ v[k] \in Nat
<1>1. Marker.seq = 0 /\ NoBlock.seq = -1
  BY DEF Marker, NoBlock
<1>2. \A b \in Block : /\ b.seq \in Nat /\ b.seq > 0 /\ b.slots \in Tuples
                       /\ b = [seq |-> b.seq, slots |-> b.slots]
  BY DEF Block
<1>3. Marker \notin Block /\ NoBlock \notin Block
  BY <1>1, <1>2
<1>4. NoBlock # Marker
  BY <1>1
<1>5. \A v \in Slots : \A k \in 1 .. Fit : v[k] \in Key /\ v[k] \in Nat
  BY DEF Slots, Key
<1>6. \A v \in Tuples : \A k \in 1 .. Counted : v[k] \in Key /\ v[k] \in Nat
  BY DEF Tuples, Key
<1> QED BY <1>2, <1>3, <1>4, <1>5, <1>6 DEF Blocks

\* What is counted of a buffer.
LEMMA FrontFacts ==
    ASSUME NEW v \in Slots
    PROVE  /\ Front(v) \in Tuples /\ Front(v)[1] = v[1]
           /\ \A range : Good(v, range) => Good(Front(v), range)
<1>1. Counted \in Nat /\ Counted >= 1 /\ \A k \in 1 .. Counted : k \in 1 .. Fit
  BY Sizes
<1>2. PICK w : w = Front(v)
  OBVIOUS
<1>3. w \in Tuples /\ \A k \in 1 .. Counted : w[k] = v[k]
  BY <1>1, <1>2, BlockFacts DEF Front, Tuples
<1>4. 1 \in 1 .. Counted /\ Counted \in 1 .. Counted
  BY <1>1
<1>5. (Plain(w) => Plain(v)) /\ (Ascends(v) => Ascends(w)) /\ w[Counted] = v[Counted] /\ w[1] = v[1]
  BY <1>3, <1>4 DEF Plain, Ascends
<1>6. \A range : Good(v, range) => Good(w, range)
  BY <1>5 DEF Good
<1> QED BY <1>2, <1>3, <1>5, <1>6

LEMMA LineWithout ==
    ASSUME NEW r \in Seq(Blocks), NEW t \in Seq(Blocks), NEW g, Without(r, t, g),
           NEW buf, NEW range, NEW past, NEW flushing, Line(r, buf, range, past, flushing)
    PROVE  Line(t, buf, range, past, flushing)
<1>1. /\ Len(r) \in Nat /\ g \in 1 .. Len(r) /\ Len(t) = Len(r) - 1
      /\ \A k \in 1 .. Len(t) : t[k] = IF k < g THEN r[k] ELSE r[k + 1]
  BY SeqFacts DEF Without
<1>2. \A k \in 1 .. Len(t) : k \in 1 .. Len(r) /\ k + 1 \in 1 .. Len(r)
  BY <1>1
<1>3. \A k \in 1 .. Len(t) : Member(t[k], buf, range, past, flushing)
  BY <1>1, <1>2 DEF Line
<1>4. ASSUME NEW i \in 1 .. Len(t), NEW j \in 1 .. Len(t), i < j
      PROVE  InTurn(t[i], t[j], buf, range, flushing)
  <2>1. PICK x \in 1 .. Len(r) : t[i] = r[x] /\ ((x = i /\ i < g) \/ (x = i + 1 /\ ~ (i < g)))
    BY <1>1, <1>2
  <2>2. PICK y \in 1 .. Len(r) : t[j] = r[y] /\ ((y = j /\ j < g) \/ (y = j + 1 /\ ~ (j < g)))
    BY <1>1, <1>2
  <2>3. x < y
    BY <1>1, <1>4, <2>1, <2>2
  <2> QED BY <2>1, <2>2, <2>3 DEF Line
<1> QED BY <1>3, <1>4 DEF Line

\* A line gets longer by one block.
LEMMA LineAppend ==
    ASSUME NEW q \in Seq(Blocks), NEW b \in Blocks, NEW buf, NEW range, NEW past, NEW flushing,
           \A k \in 1 .. Len(q) : Member(q[k], buf, range, past, flushing)
                                  /\ InTurn(q[k], b, buf, range, flushing),
           \A i, j \in 1 .. Len(q) : i < j => InTurn(q[i], q[j], buf, range, flushing),
           Member(b, buf, range, past, flushing)
    PROVE  Line(Append(q, b), buf, range, past, flushing)
<1>1. PICK t : t = Append(q, b)
  OBVIOUS
<1>2. /\ Len(q) \in Nat /\ Len(t) = Len(q) + 1 /\ t[Len(q) + 1] = b
      /\ \A k \in 1 .. Len(q) : t[k] = q[k]
  BY <1>1, SeqFacts
<1>3. \A k \in 1 .. Len(t) : k \in 1 .. Len(q) \/ k = Len(q) + 1
  BY <1>2
<1>4. \A k \in 1 .. Len(t) : Member(t[k], buf, range, past, flushing)
  BY <1>2, <1>3
<1>5. ASSUME NEW i \in 1 .. Len(t), NEW j \in 1 .. Len(t), i < j
      PROVE  InTurn(t[i], t[j], buf, range, flushing)
  <2>1. i \in 1 .. Len(q)
    BY <1>2, <1>5
  <2> QED BY <1>2, <1>3, <1>5, <2>1
<1> QED BY <1>1, <1>4, <1>5 DEF Line

\* What of buf, past and flushing a line allows to change.
LEMMA LineWeaker ==
    ASSUME NEW q, NEW buf \in Buffer, NEW other \in Buffer, other.seq = buf.seq, other.slots = buf.slots,
           NEW range, NEW past, NEW past2, past => past2, NEW flushing, NEW flushing2,
           flushing => flushing2, Line(q, buf, range, past, flushing),
           ~ flushing2 /\ other.used > 0 => buf.used > 0
    PROVE  Line(q, other, range, past2, flushing2)
BY DEF Line, Member, InTurn

LEMMA LineMarker ==
    ASSUME NEW q \in Seq(Blocks), NEW buf \in Buffer, NEW range, NEW flushing, Line(q, buf, range, FALSE, flushing)
    PROVE  Line(Append(q, Marker), buf, range, TRUE, flushing)
<1>1. \A k \in 1 .. Len(q) : Member(q[k], buf, range, TRUE, flushing) /\ q[k] # Marker
  BY BlockFacts DEF Line, Member
<1>2. \A k \in 1 .. Len(q) : InTurn(q[k], Marker, buf, range, flushing)
  BY <1>1 DEF InTurn
<1>3. Member(Marker, buf, range, TRUE, flushing)
  BY DEF Member
<1>4. \A i, j \in 1 .. Len(q) : i < j => InTurn(q[i], q[j], buf, range, flushing)
  BY DEF Line
<1> QED BY <1>1, <1>2, <1>3, <1>4, BlockFacts, LineAppend

\* The buffer's block is put: by the send loop, which resets it, and by the flush loop.
LEMMA LineBlock ==
    ASSUME NEW q \in Seq(Blocks), NEW buf \in Buffer, NEW range, NEW past, ~ past,
           NEW flushing, NEW b, b = [seq |-> buf.seq, slots |-> Front(buf.slots)],
           buf.seq > 0, buf.used > 0, Line(q, buf, range, past, flushing),
           flushing => range = <<>>,
           NEW other \in Buffer, other.seq = buf.seq, other.slots = buf.slots,
           other.used > 0 => flushing
    PROVE  Line(Append(q, b), other, range, past, flushing) /\ b \in Block
<1>1. /\ b \in Block /\ b.seq = buf.seq /\ b.slots = Front(buf.slots) /\ b \in Blocks
      /\ b.slots[1] = buf.slots[1] /\ buf.seq \in Nat /\ other.used \in Nat
  <2>1. buf.seq \in Nat /\ other.used \in Nat /\ buf.slots \in Slots
    BY Sizes DEF Buffer
  <2>2. Front(buf.slots) \in Tuples /\ Front(buf.slots)[1] = buf.slots[1]
    BY <2>1, FrontFacts
  <2> QED BY <2>1, <2>2 DEF Block, Blocks
<1>2. ASSUME NEW k \in 1 .. Len(q)
      PROVE  Member(q[k], other, range, past, flushing) /\ InTurn(q[k], b, other, range, flushing)
  <2>1. Member(q[k], buf, range, past, flushing)
    BY DEF Line
  <2>2. /\ q[k] \in Block /\ q[k].seq <= buf.seq /\ (q[k].seq = buf.seq => q[k].slots = Front(buf.slots))
        /\ ~ flushing => q[k].seq < buf.seq
        /\ q[k].seq < buf.seq => Good(q[k].slots, range) /\ Under(q[k].slots, buf.slots[1])
    BY <2>1 DEF Member
  <2>3. q[k].seq \in Nat /\ q[k] # Marker /\ q[k] = [seq |-> q[k].seq, slots |-> q[k].slots]
    BY <2>2, BlockFacts
  <2>4. Member(q[k], other, range, past, flushing)
    BY <1>1, <2>2 DEF Member
  <2>5. CASE q[k].seq < buf.seq
    BY <1>1, <2>2, <2>3, <2>4, <2>5 DEF InTurn
  <2>6. CASE ~ (q[k].seq < buf.seq)
    <3>1. q[k].seq = buf.seq /\ flushing
      BY <1>1, <2>2, <2>3, <2>6
    <3>2. q[k] = b
      BY <2>2, <2>3, <3>1
    <3> QED BY <2>3, <2>4, <3>1, <3>2 DEF InTurn
  <2> QED BY <2>5, <2>6
<1>3. \A i, j \in 1 .. Len(q) : i < j => InTurn(q[i], q[j], other, range, flushing)
  BY DEF Line, InTurn
<1>4. Member(b, other, range, past, flushing)
  <2>1. ~ flushing => ~ (other.used > 0)
    OBVIOUS
  <2> QED BY <1>1, <2>1 DEF Member
<1> QED BY <1>1, <1>2, <1>3, <1>4, LineAppend

\* The end of a range goes into its block.
LEMMA Filling ==
    ASSUME NEW buf \in Buffer, NEW range \in Seq(Key), range # <<>>, Descending(range),
           NEW new, new = filled(buf, range),
           NEW rest, rest = SubSeq(range, 1, Len(range) - new.used)
    PROVE  /\ new \in Buffer /\ new.seq = buf.seq + 1 /\ new.used > 0 /\ rest \in Seq(Key)
           /\ Descending(rest) /\ (rest = <<>> <=> Len(range) <= Fit)
           /\ rest # <<>> => Good(new.slots, rest)
           /\ \A v : Good(v, range) => Good(v, rest) /\ Under(v, new.slots[1])
<1>1. PICK m : m = Len(range)
  OBVIOUS
<1>2. /\ m \in Nat /\ m > 0 /\ Fit \in Nat /\ Fit >= 1
      /\ \A k \in 1 .. m : range[k] \in Key /\ range[k] \in Nat
  BY <1>1, SeqFacts, Sizes DEF Key
<1>3. PICK z : z = IF m < Fit THEN m ELSE Fit
  OBVIOUS
<1>4. /\ z \in 1 .. Fit /\ z <= m /\ (z = m <=> m <= Fit) /\ (z # m => z = Fit)
      /\ m - z \in Nat /\ (m - z = 0 <=> m <= Fit)
  BY <1>2, <1>3
<1>5. new = [seq |-> buf.seq + 1, used |-> z,
             slots |-> [k \in 1 .. Fit |-> IF k <= z THEN range[m - k + 1] ELSE buf.slots[k]]]
  BY <1>1, <1>3 DEF filled
<1>6. PICK v : v = [k \in 1 .. Fit |-> IF k <= z THEN range[m - k + 1] ELSE buf.slots[k]]
  OBVIOUS
<1>7. new.seq = buf.seq + 1 /\ new.used = z /\ new.slots = v
  BY <1>5, <1>6
<1>8. buf.seq \in Nat /\ buf.slots \in Slots
  BY DEF Buffer
<1>9. v \in Slots
  <2>1. \A k \in 1 .. Fit : k <= z => m - k + 1 \in 1 .. m
    BY <1>2, <1>4
  <2>2. \A k \in 1 .. Fit : buf.slots[k] \in Key
    BY <1>8, BlockFacts
  <2> QED BY <1>2, <1>6, <2>1, <2>2 DEF Slots
<1>10. new \in Buffer
  <2>1. z \in 0 .. Fit /\ buf.seq + 1 \in Nat
    BY <1>2, <1>4, <1>8
  <2> QED BY <1>5, <1>6, <1>9, <2>1 DEF Buffer
<1>11. rest \in Seq(Key) /\ Len(rest) = m - z /\ \A k \in 1 .. m - z : rest[k] = range[k]
  <2>1. PICK e \in Nat : e = m - z
    BY <1>4
  <2>2. rest = SubSeq(range, 1, e) /\ \A k \in 1 .. e : range[k] \in Key
    BY <1>1, <1>2, <1>4, <1>7, <2>1
  <2>3. /\ SubSeq(range, 1, e) \in Seq(Key)
        /\ Len(SubSeq(range, 1, e)) = IF 1 <= e THEN e - 1 + 1 ELSE 0
        /\ \A i \in 1 .. e - 1 + 1 : SubSeq(range, 1, e)[i] = range[1 + i - 1]
    <3>1. 1 \in Int /\ e \in Int
      BY <2>1
    <3> QED BY ONLY <2>2, <3>1, SubSeqProperties
  <2>4. rest \in Seq(Key) /\ Len(rest) = e /\ \A k \in 1 .. e : rest[k] = range[k]
    <3>1. e - 1 + 1 = e /\ (IF 1 <= e THEN e - 1 + 1 ELSE 0) = e /\ \A i \in 1 .. e : 1 + i - 1 = i
      BY <2>1
    <3> QED BY ONLY <2>2, <2>3, <3>1
  <2> QED BY <2>1, <2>4
<1>12. rest = <<>> <=> m <= Fit
  BY <1>4, <1>11, SeqFacts
<1>13. \A k \in 1 .. m - z : k \in 1 .. m
  BY <1>2, <1>4
<1>14. Descending(rest)
  BY <1>1, <1>11, <1>13 DEF Descending
<1>15. ASSUME rest # <<>> PROVE Good(v, rest)
  <2>1. z = Fit /\ m > Fit
    BY <1>2, <1>4, <1>12, <1>15
  <2>2. \A k \in 1 .. Fit : v[k] = range[m - k + 1] /\ m - k + 1 \in 1 .. m
    BY <1>2, <1>6, <2>1
  <2>5. Counted \in Nat /\ Counted >= 1 /\ Counted <= Fit /\ \A k \in 1 .. Counted : k \in 1 .. Fit
    BY Sizes
  <2> SUFFICES ASSUME Plain(v) PROVE Ascends(v) /\ \A k \in 1 .. Len(rest) : v[Counted] <= rest[k]
    BY DEF Good
  <2>3. ASSUME NEW i \in 1 .. Counted, NEW j \in 1 .. Counted, i < j PROVE v[i] <= v[j]
    <3>1. PICK x, y : x = m - j + 1 /\ y = m - i + 1
      OBVIOUS
    <3>2. x \in 1 .. m /\ y \in 1 .. m /\ x < y /\ v[j] = range[x] /\ v[i] = range[y]
      BY <1>2, <2>2, <2>3, <2>5, <3>1
    <3>3. range[y] < DATAVOLUME
      BY <3>2 DEF Plain
    <3> QED BY <1>1, <3>2, <3>3 DEF Descending
  <2>4. ASSUME NEW k \in 1 .. Len(rest) PROVE v[Counted] <= rest[k]
    <3>1. PICK y : y = m - Counted + 1
      OBVIOUS
    <3>2. y \in 1 .. m /\ v[Counted] = range[y] /\ k \in 1 .. m /\ k < y /\ rest[k] = range[k]
      BY <1>2, <1>11, <2>1, <2>2, <2>5, <3>1
    <3>3. range[y] < DATAVOLUME
      <4>1. Counted \in 1 .. Counted
        BY <2>5
      <4> QED BY <3>2, <4>1 DEF Plain
    <3> QED BY <1>1, <3>2, <3>3 DEF Descending
  <2> QED BY <2>3, <2>4 DEF Ascends
<1>16. ASSUME NEW w, Good(w, range) PROVE Good(w, rest) /\ Under(w, v[1])
  <2>1. Good(w, rest)
    BY <1>1, <1>11, <1>13, <1>16 DEF Good
  <2>2. v[1] = range[m] /\ m \in 1 .. m
    <3>1. 1 \in 1 .. Fit /\ 1 <= z /\ m - 1 + 1 = m
      BY <1>2, <1>4
    <3>2. v[1] = range[m - 1 + 1]
      BY <1>6, <3>1
    <3> QED BY <1>2, <3>1, <3>2
  <2> QED BY <1>1, <1>16, <2>1, <2>2 DEF Good, Under
<1>17. z > 0
  BY <1>4
<1> QED BY <1>1, <1>7, <1>10, <1>11, <1>12, <1>14, <1>15, <1>16, <1>17

LEMMA LineGather ==
    ASSUME NEW q, NEW buf \in Buffer, NEW range, buf.seq > 0 => Good(buf.slots, range),
           NEW new \in Buffer, new.seq = buf.seq + 1, NEW rest,
           \A v : Good(v, range) => Good(v, rest) /\ Under(v, new.slots[1]),
           NEW past, NEW flushing, ~ flushing, Line(q, buf, range, past, flushing)
    PROVE  Line(q, new, rest, past, flushing)
<1>1. /\ new \in Buffer /\ new.seq = buf.seq + 1
      /\ \A v : Good(v, range) => Good(v, rest) /\ Under(v, new.slots[1])
  OBVIOUS
<1>2. buf.seq \in Nat
  BY DEF Buffer
<1>3. ASSUME NEW k \in 1 .. Len(q) PROVE Member(q[k], new, rest, past, flushing)
  <2>1. Member(q[k], buf, range, past, flushing)
    BY DEF Line
  <2>2. CASE q[k] = Marker /\ past
    BY <2>2 DEF Member
  <2>3. CASE /\ q[k] \in Block /\ q[k].seq <= buf.seq
             /\ q[k].seq = buf.seq => q[k].slots = Front(buf.slots)
             /\ q[k].seq < buf.seq => Good(q[k].slots, range)
    <3>1. q[k].seq \in Nat /\ q[k].seq > 0
      BY <2>3, BlockFacts
    <3>2. Good(q[k].slots, range)
      <4>1. CASE q[k].seq < buf.seq
        BY <2>3, <4>1
      <4>2. CASE q[k].seq = buf.seq
        <5>1. buf.slots \in Slots /\ Good(buf.slots, range)
          BY <3>1, <4>2 DEF Buffer
        <5> QED BY <2>3, <4>2, <5>1, FrontFacts
      <4> QED BY <1>2, <2>3, <3>1, <4>1, <4>2
    <3>3. q[k].seq < new.seq /\ q[k].seq <= new.seq /\ q[k].seq # new.seq
      BY <1>1, <1>2, <2>3, <3>1
    <3>4. Good(q[k].slots, rest) /\ Under(q[k].slots, new.slots[1])
      BY <1>1, <3>2
    <3> QED BY <2>3, <3>3, <3>4 DEF Member
  <2> QED BY <2>1, <2>2, <2>3 DEF Member
<1>4. ASSUME NEW i \in 1 .. Len(q), NEW j \in 1 .. Len(q), i < j
      PROVE  InTurn(q[i], q[j], new, rest, flushing)
  <2>1. InTurn(q[i], q[j], buf, range, flushing)
    BY <1>4 DEF Line
  <2> QED BY <2>1 DEF InTurn
<1> QED BY <1>3, <1>4 DEF Line

-----------------------------------------------------------------------------
(* Types.                                                                  *)

LEMMA SeqsFacts ==
    ASSUME SortedType
    PROVE  /\ seqs \in Nat /\ seqs >= 1 /\ seqs <= NUppers /\ Seqs = 1 .. seqs /\ 1 \in Seqs
           /\ IsFiniteSet(Seqs) /\ Cardinality(Seqs) = seqs
           /\ \A u \in Seqs : u \in Nat /\ u >= 1 /\ u <= seqs
           /\ IsFiniteSet(Lowers) /\ Cardinality(Lowers) = NLowers /\ 1 \in Lowers
           /\ \A l \in Lowers : l \in Nat /\ l >= 1 /\ l <= NLowers
<1>1. seqs \in Nat /\ seqs >= 1 /\ seqs <= NUppers /\ Seqs = 1 .. seqs /\ 1 \in Seqs
  BY Sizes DEF SortedType, LowerType, Seqs
<1>2. IsFiniteSet(Seqs) /\ Cardinality(Seqs) = seqs
  <2>1. \A a, b \in Int : IsFiniteSet(a .. b) /\ Cardinality(a .. b) = IF a > b THEN 0 ELSE b - a + 1
    BY FS_Interval
  <2>2. Cardinality(1 .. seqs) = (IF 1 > seqs THEN 0 ELSE seqs - 1 + 1) /\ IsFiniteSet(1 .. seqs)
    BY <1>1, <2>1
  <2> QED BY <1>1, <2>2
<1>3. IsFiniteSet(Lowers) /\ Cardinality(Lowers) = NLowers
  <2>1. \A a, b \in Int : IsFiniteSet(a .. b) /\ Cardinality(a .. b) = IF a > b THEN 0 ELSE b - a + 1
    BY FS_Interval
  <2>2. Cardinality(1 .. NLowers) = (IF 1 > NLowers THEN 0 ELSE NLowers - 1 + 1) /\ IsFiniteSet(1 .. NLowers)
    BY Sizes, <2>1
  <2> QED BY Sizes, <2>2 DEF Lowers
<1>4. \A l \in Lowers : l \in Nat /\ l >= 1 /\ l <= NLowers
  BY Sizes DEF Lowers
<1>5. 1 \in Lowers
  BY Sizes DEF Lowers
<1> QED BY <1>1, <1>2, <1>3, <1>4, <1>5

\* The elements of the state.
LEMMA Elements ==
    ASSUME SortedType, NEW l \in Lowers, NEW u \in Seqs
    PROVE  /\ ranges[l][u] \in Seq(Key) /\ buffers[l][u] \in Buffer /\ emptys[l] \in Nat
           /\ oks[l][u] \in BOOLEAN
           /\ lpc[l][1] \in {"gather", "send", "flush", "mark", "done"} /\ lpc[l][2] \in Seqs
           /\ lcols[l][u] \in Seq(Blocks) /\ chan[l][u] \in Seq(Blocks) /\ ucols[u][l] \in Seq(Blocks)
           /\ lscan[l] \in Seqs /\ temp[l] \in Blocks \cup {NoBlock}
           /\ upc[u][1] \in {"begin", "merge", "refill", "ended", "crashed"} /\ upc[u][2] \in Lowers
           /\ itrs[u][l] \in Seq(Key) /\ leaves[u][l] \in 0 .. ULONG_MAX /\ leaves[u][l] \in Nat
           /\ stored[u] \in 0 .. Fit /\ finished[u] \in Nat
           /\ rose[u][l] \in Key \cup {-1} /\ last[u] \in Key \cup {-1}
<1>1. /\ ranges[l][u] \in Seq(Key) /\ buffers[l][u] \in Buffer /\ emptys[l] \in Nat
      /\ oks[l][u] \in BOOLEAN
  BY DEF SortedType, LowerType
<1>2. lpc[l] \in {"gather", "send", "flush", "mark", "done"} \X Seqs
  BY DEF SortedType, LowerType
<1>3. /\ lcols[l][u] \in Seq(Blocks) /\ chan[l][u] \in Seq(Blocks) /\ ucols[u][l] \in Seq(Blocks)
      /\ lscan[l] \in Seqs /\ temp[l] \in Blocks \cup {NoBlock}
  BY DEF SortedType, LineType
<1>4. upc[u] \in {"begin", "merge", "refill", "ended", "crashed"} \X Lowers
  BY DEF SortedType, UpperType
<1>5. /\ itrs[u][l] \in Seq(Key) /\ leaves[u][l] \in 0 .. ULONG_MAX
      /\ stored[u] \in 0 .. Fit /\ finished[u] \in Nat
      /\ rose[u][l] \in Key \cup {-1} /\ last[u] \in Key \cup {-1}
  BY DEF SortedType, UpperType
<1>6. leaves[u][l] \in Nat
  BY <1>5, Sizes
<1>7. lpc[l][1] \in {"gather", "send", "flush", "mark", "done"} /\ lpc[l][2] \in Seqs
  BY <1>2
<1>8. upc[u][1] \in {"begin", "merge", "refill", "ended", "crashed"} /\ upc[u][2] \in Lowers
  BY <1>4
<1> QED BY <1>1, <1>3, <1>5, <1>6, <1>7, <1>8

LEMMA StreamIs ==
    ASSUME SortedType, NEW l \in Lowers, NEW u \in Seqs
    PROVE  /\ Stream(l, u) = Four(ucols[u][l], chan[l][u], Sending(l, u), lcols[l][u])
           /\ Sending(l, u) \in Seq(Blocks) /\ Stream(l, u) \in Seq(Blocks)
           /\ ucols[u][l] # <<>> => Stream(l, u) # <<>> /\ Stream(l, u)[1] = ucols[u][l][1]
           /\ lcols[l][u] # <<>> => Stream(l, u) # <<>>
           /\ Stream(l, u) = <<>> => ucols[u][l] = <<>> /\ chan[l][u] = <<>>
<1>1. lcols[l][u] \in Seq(Blocks) /\ chan[l][u] \in Seq(Blocks) /\ ucols[u][l] \in Seq(Blocks)
      /\ temp[l] \in Blocks \cup {NoBlock}
  BY Elements
<1>2. Stream(l, u) = Four(ucols[u][l], chan[l][u], Sending(l, u), lcols[l][u])
  BY DEF Stream, Four
<1>3. Sending(l, u) \in Seq(Blocks)
  <2>1. CASE lscan[l] = u /\ temp[l] # NoBlock
    BY <1>1, <2>1 DEF Sending
  <2>2. CASE ~ (lscan[l] = u /\ temp[l] # NoBlock)
    BY <2>2 DEF Sending
  <2> QED BY <2>1, <2>2
<1>4. PICK a \in Seq(Blocks), c \in Seq(Blocks), h \in Seq(Blocks), d \in Seq(Blocks) :
         a = ucols[u][l] /\ c = chan[l][u] /\ h = Sending(l, u) /\ d = lcols[l][u]
  BY <1>1, <1>3
<1>5. PICK x : x = Four(a, c, h, d)
  OBVIOUS
<1>6. /\ x \in Seq(Blocks) /\ (x = <<>> <=> a = <<>> /\ c = <<>> /\ h = <<>> /\ d = <<>>)
      /\ \A k \in 1 .. Len(a) : x[k] = a[k]
  BY <1>5, FourType
<1>7. a # <<>> => 1 \in 1 .. Len(a)
  BY SeqFacts
<1>8. Stream(l, u) = x
  BY <1>2, <1>4, <1>5
<1> QED BY <1>2, <1>3, <1>4, <1>6, <1>7, <1>8

LEMMA AfterType ==
    ASSUME SortedType, NEW l \in Lowers, NEW done,
           done \in {"gather", "send", "flush", "mark", "done"} \X Seqs,
           NEW g, g = after(l, lpc[l][2], done)
    PROVE  /\ g \in [Lowers -> {"gather", "send", "flush", "mark", "done"} \X Seqs]
           /\ \A k \in Lowers : k # l => g[k] = lpc[k]
           /\ lpc[l][2] < seqs => g[l] = <<lpc[l][1], lpc[l][2] + 1>>
           /\ ~ (lpc[l][2] < seqs) => g[l] = done
<1>1. lpc[l][1] \in {"gather", "send", "flush", "mark", "done"} /\ lpc[l][2] \in Seqs
  BY Elements, SeqsFacts
<1>2. lpc[l][2] < seqs => lpc[l][2] + 1 \in Seqs
  BY <1>1, SeqsFacts
<1>3. PICK v : v = IF lpc[l][2] < seqs THEN <<lpc[l][1], lpc[l][2] + 1>> ELSE done
  OBVIOUS
<1>4. v \in {"gather", "send", "flush", "mark", "done"} \X Seqs
  BY <1>1, <1>2, <1>3
<1>5. g = [lpc EXCEPT ![l] = v]
  BY <1>3 DEF after
<1>6. lpc \in [Lowers -> {"gather", "send", "flush", "mark", "done"} \X Seqs]
  BY DEF SortedType, LowerType
<1> QED BY <1>3, <1>4, <1>5, <1>6

-----------------------------------------------------------------------------
(* Steps of a lower.                                                       *)

Lowering(l) ==
    /\ UNCHANGED <<seqs, lscan, temp, chan, ucols, rose, upc, itrs, leaves, stored, finished, last>>
    /\ \A k \in Lowers : k # l =>
          /\ lpc'[k] = lpc[k] /\ ranges'[k] = ranges[k] /\ buffers'[k] = buffers[k]
          /\ emptys'[k] = emptys[k] /\ oks'[k] = oks[k] /\ lcols'[k] = lcols[k]

\* Markers and the finished columns only depend on what is past.
LEMMA UpperFrame ==
    ASSUME SortedInv, NEW u \in Seqs, seqs' = seqs,
           upc'[u] = upc[u], itrs'[u] = itrs[u], leaves'[u] = leaves[u], stored'[u] = stored[u],
           finished'[u] = finished[u], last'[u] = last[u],
           \A l \in Lowers : rose'[u][l] # -1 => rose[u][l] # -1,
           \A l \in Lowers : Past(l, u) => Past(l, u)' /\ (Stream(l, u) = <<>> => Stream(l, u)' = <<>>)
    PROVE  (Ascending(u) /\ Merged(u))'
<1>1. Ascending(u) /\ Merged(u)
  BY DEF SortedInv, Merging
<1>2. Ascending(u)'
  BY <1>1 DEF Ascending, Waits
<1>3. Finished(u)' = Finished(u)
  BY DEF Finished
<1>4. ASSUME NEW l \in Lowers, Drained(l, u) PROVE Drained(l, u)'
  BY <1>4 DEF Drained
<1>5. Merged(u)'
  BY <1>1, <1>3, <1>4 DEF Merged
<1> QED BY <1>2, <1>5

LEMMA LowerFrame ==
    ASSUME SortedInv, SortedType', NEW l \in Lowers, Lowering(l), Tallied(l)',
           \A u \in Seqs : /\ Lined(l, u)' /\ Fronted(l, u)'
                           /\ Past(l, u) => Past(l, u)' /\ Stream(l, u)' = Stream(l, u)
    PROVE  SortedInv'
<1>1. /\ UNCHANGED <<seqs, lscan, temp, chan, ucols, rose, upc, itrs, leaves, stored, finished, last>>
      /\ Seqs' = Seqs
  BY DEF Lowering, Seqs
<1>2. ASSUME NEW k \in Lowers, k # l
      PROVE  /\ lpc'[k] = lpc[k] /\ ranges'[k] = ranges[k] /\ buffers'[k] = buffers[k]
             /\ emptys'[k] = emptys[k] /\ oks'[k] = oks[k] /\ lcols'[k] = lcols[k]
  BY <1>2 DEF Lowering
<1>3. ASSUME NEW k \in Lowers, k # l, NEW u \in Seqs
      PROVE  Stream(k, u)' = Stream(k, u) /\ Past(k, u)' = Past(k, u) /\ Flushing(k)' = Flushing(k)
  BY <1>1, <1>2, <1>3 DEF Stream, Sending, Past, Flushing
<1>4. Gathered'
  <2>1. ASSUME NEW k \in Lowers, k # l PROVE Tallied(k)'
    <3>1. Spent(k)' = Spent(k) /\ Flushing(k)' = Flushing(k)
      BY <1>1, <1>2, <2>1 DEF Spent, Flushing
    <3>2. Tallied(k)
      BY DEF SortedInv, Gathered
    <3> QED BY <1>1, <1>2, <2>1, <3>1, <3>2 DEF Tallied
  <2> QED BY <2>1 DEF Gathered
<1>5. Lines'
  <2>1. ASSUME NEW k \in Lowers, k # l, NEW u \in Seqs PROVE Lined(k, u)'
    <3>1. Lined(k, u)
      BY DEF SortedInv, Lines
    <3>2. ranges'[k][u] = ranges[k][u] /\ buffers'[k][u] = buffers[k][u]
      BY <1>2, <2>1
    <3> QED BY <1>3, <2>1, <3>1, <3>2 DEF Lined
  <2> QED BY <1>1, <2>1 DEF Lines
<1>6. Fronts'
  <2>1. ASSUME NEW k \in Lowers, k # l, NEW u \in Seqs PROVE Fronted(k, u)'
    <3>1. Fronted(k, u)
      BY DEF SortedInv, Fronts
    <3>2. buffers'[k][u] = buffers[k][u] /\ Waits(u, k)' = Waits(u, k)
      BY <1>1, <1>2, <2>1 DEF Waits
    <3> QED BY <1>3, <2>1, <3>1, <3>2 DEF Fronted
  <2> QED BY <1>1, <2>1 DEF Fronts
<1>7. Chains'
  <2>1. Chains
    BY DEF SortedInv
  <2> QED BY <1>1, <2>1 DEF Chains, Chained, EndKey, Lowers, ULONG_MAX
<1>8. Merging'
  <2>1. ASSUME NEW u \in Seqs, NEW k \in Lowers, Past(k, u)
        PROVE  Past(k, u)' /\ (Stream(k, u) = <<>> => Stream(k, u)' = <<>>)
    <3>1. CASE k = l
      BY <2>1, <3>1
    <3>2. CASE k # l
      BY <1>3, <2>1, <3>2
    <3> QED BY <3>1, <3>2
  <2>2. ASSUME NEW u \in Seqs PROVE (Ascending(u) /\ Merged(u))'
    BY <1>1, <2>1, UpperFrame
  <2> QED BY <1>1, <2>2 DEF Merging
<1> QED BY <1>4, <1>5, <1>6, <1>7, <1>8 DEF SortedInv

LEMMA SpentAll ==
    ASSUME SortedInv, NEW l \in Lowers, Flushing(l), NEW u \in Seqs
    PROVE  ranges[l][u] = <<>> /\ buffers[l][u].seq > 0
<1>1. Spent(l) \subseteq Seqs /\ Cardinality(Spent(l)) = Cardinality(Seqs) /\ IsFiniteSet(Seqs)
  BY SeqsFacts DEF SortedInv, Gathered, Tallied, Spent
<1>2. Spent(l) = Seqs
  BY <1>1, FS_Subset
<1> QED BY <1>2 DEF Spent

LEMMA GatherEffect ==
    ASSUME SortedInv, NEW l \in Lowers, Gather(l)
    PROVE  /\ SortedType' /\ Lowering(l) /\ lcols' = lcols /\ oks' = oks
           /\ lpc[l][1] = "gather" /\ emptys'[l] = emptys[l] + Cardinality(Emptied(l))
           /\ lpc'[l][1] = IF emptys'[l] = seqs THEN "flush" ELSE "send"
           /\ \A u \in Seqs :
                IF u \in Todo(l)
                THEN /\ buffers'[l][u] = filled(buffers[l][u], ranges[l][u])
                     /\ ranges'[l][u] = SubSeq(ranges[l][u], 1, Len(ranges[l][u]) - buffers'[l][u].used)
                ELSE buffers'[l][u] = buffers[l][u] /\ ranges'[l][u] = ranges[l][u]
<1>1. SortedType
  BY DEF SortedInv
<1>2. PICK B, R :
        /\ B = [u \in Seqs |-> IF u \in Todo(l) THEN filled(buffers[l][u], ranges[l][u]) ELSE buffers[l][u]]
        /\ R = [u \in Seqs |-> IF u \in Todo(l)
                  THEN SubSeq(ranges[l][u], 1, Len(ranges[l][u]) - filled(buffers[l][u], ranges[l][u]).used)
                  ELSE ranges[l][u]]
  OBVIOUS
<1>3. /\ lpc[l] = <<"gather", 1>> /\ buffers' = [buffers EXCEPT ![l] = B]
      /\ ranges' = [ranges EXCEPT ![l] = R]
      /\ emptys' = [emptys EXCEPT ![l] = emptys[l] + Cardinality(Emptied(l))]
      /\ lpc' = [lpc EXCEPT ![l] = IF emptys'[l] = seqs THEN <<"flush", 1>> ELSE <<"send", 1>>]
      /\ UNCHANGED <<seqs, oks, lcols, lscan, temp, chan, ucols, rose, upc, itrs, leaves, stored, finished, last>>
  BY <1>2 DEF Gather, sendVars, upperVars
<1>4. ASSUME NEW u \in Seqs PROVE B[u] \in Buffer /\ R[u] \in Seq(Key)
  <2>1. buffers[l][u] \in Buffer /\ ranges[l][u] \in Seq(Key)
    BY <1>1, Elements
  <2>2. CASE u \in Todo(l)
    <3>1. ranges[l][u] # <<>>
      BY <2>2 DEF Todo
    <3>2. Descending(ranges[l][u])
      BY DEF SortedInv, Lines, Lined
    <3>3. PICK buf \in Buffer, range \in Seq(Key) : buf = buffers[l][u] /\ range = ranges[l][u]
      BY <2>1
    <3>4. PICK new : new = filled(buf, range)
      OBVIOUS
    <3>5. PICK rest : rest = SubSeq(range, 1, Len(range) - new.used)
      OBVIOUS
    <3>6. range # <<>> /\ Descending(range)
      BY <3>1, <3>2, <3>3
    <3>7. new \in Buffer /\ rest \in Seq(Key)
      BY <3>4, <3>5, <3>6, Filling
    <3> QED BY <1>2, <2>2, <3>3, <3>4, <3>5, <3>7
  <2>3. CASE u \notin Todo(l)
    BY <1>2, <2>1, <2>3
  <2> QED BY <2>2, <2>3
<1>5. B \in [Seqs -> Buffer] /\ R \in [Seqs -> Seq(Key)]
  BY <1>2, <1>4
<1>6. Emptied(l) \subseteq Seqs /\ Cardinality(Emptied(l)) \in Nat
  <2>1. Emptied(l) \subseteq Seqs
    BY DEF Emptied, Todo
  <2> QED BY <1>1, <2>1, SeqsFacts, FS_Subset, FS_CardinalityType
<1>7. /\ buffers \in [Lowers -> [Seqs -> Buffer]] /\ ranges \in [Lowers -> [Seqs -> Seq(Key)]]
      /\ emptys \in [Lowers -> Nat] /\ lpc \in [Lowers -> {"gather", "send", "flush", "mark", "done"} \X Seqs]
      /\ oks \in [Lowers -> [Seqs -> BOOLEAN]] /\ seqs \in 1 .. NUppers
  BY <1>1 DEF SortedType, LowerType
<1>8. Seqs' = Seqs
  BY <1>3 DEF Seqs
<1>9. buffers' \in [Lowers -> [Seqs -> Buffer]] /\ ranges' \in [Lowers -> [Seqs -> Seq(Key)]]
  BY <1>3, <1>5, <1>7
<1>10. emptys' \in [Lowers -> Nat] /\ emptys'[l] = emptys[l] + Cardinality(Emptied(l))
  <2>1. emptys[l] + Cardinality(Emptied(l)) \in Nat
    BY <1>6, <1>7
  <2> QED BY <1>3, <1>7, <2>1
<1>11. PICK p : p = IF emptys'[l] = seqs THEN <<"flush", 1>> ELSE <<"send", 1>>
  OBVIOUS
<1>12. p \in {"gather", "send", "flush", "mark", "done"} \X Seqs /\ p[1] = IF emptys'[l] = seqs THEN "flush" ELSE "send"
  BY <1>1, <1>11, SeqsFacts
<1>13. lpc' = [lpc EXCEPT ![l] = p]
  BY <1>3, <1>11
<1>14. lpc' \in [Lowers -> {"gather", "send", "flush", "mark", "done"} \X Seqs] /\ lpc'[l] = p
  BY <1>7, <1>12, <1>13
<1>15. LowerType'
  BY <1>3, <1>7, <1>8, <1>9, <1>10, <1>14 DEF LowerType
<1>16. LineType' /\ UpperType'
  <2>1. LineType /\ UpperType
    BY <1>1 DEF SortedType
  <2> QED BY <1>3, <1>8, <2>1 DEF LineType, UpperType
<1>17. Lowering(l)
  BY <1>3, <1>7 DEF Lowering
<1>18. buffers'[l] = B /\ ranges'[l] = R
  BY <1>3, <1>7
<1>19. \A u \in Seqs :
         IF u \in Todo(l)
         THEN /\ buffers'[l][u] = filled(buffers[l][u], ranges[l][u])
              /\ ranges'[l][u] = SubSeq(ranges[l][u], 1, Len(ranges[l][u]) - buffers'[l][u].used)
         ELSE buffers'[l][u] = buffers[l][u] /\ ranges'[l][u] = ranges[l][u]
  BY <1>2, <1>18
<1>20. SortedType'
  BY <1>15, <1>16 DEF SortedType
<1>21. lpc'[l][1] = (IF emptys'[l] = seqs THEN "flush" ELSE "send") /\ lpc[l][1] = "gather"
  BY <1>3, <1>12, <1>14
<1> QED BY <1>3, <1>10, <1>17, <1>19, <1>20, <1>21

\* A buffer is filled from the end of its range, and the range is counted once spent.
LEMMA GatherStep ==
    ASSUME SortedInv, NEW l \in Lowers, Gather(l)
    PROVE  SortedInv'
<1>1. SortedType
  BY DEF SortedInv
<1>2. /\ SortedType' /\ Lowering(l) /\ lcols' = lcols /\ oks' = oks
      /\ lpc[l][1] = "gather" /\ emptys'[l] = emptys[l] + Cardinality(Emptied(l))
      /\ lpc'[l][1] = IF emptys'[l] = seqs THEN "flush" ELSE "send"
  BY GatherEffect
<1>3. /\ Seqs' = Seqs /\ seqs' = seqs /\ ~ Flushing(l) /\ Tallied(l)
      /\ UNCHANGED <<lscan, temp, chan, ucols, upc>>
  BY <1>2 DEF Lowering, Seqs, Flushing, SortedInv, Gathered
<1>4. ASSUME NEW u \in Seqs
      PROVE  ~ Past(l, u) /\ ~ Past(l, u)' /\ Stream(l, u)' = Stream(l, u)
  BY <1>2, <1>3 DEF Past, Stream, Sending
<1>5. ASSUME NEW u \in Seqs, u \notin Todo(l)
      PROVE  buffers'[l][u] = buffers[l][u] /\ ranges'[l][u] = ranges[l][u]
  BY <1>5, GatherEffect
<1>6. ASSUME NEW u \in Seqs, u \in Todo(l)
      PROVE  /\ buffers'[l][u] \in Buffer /\ buffers'[l][u].seq = buffers[l][u].seq + 1
             /\ buffers'[l][u].used > 0 /\ Descending(ranges'[l][u])
             /\ ranges'[l][u] = <<>> <=> u \in Emptied(l)
             /\ ranges[l][u] # <<>> /\ buffers[l][u].used = 0 /\ buffers[l][u].seq \in Nat
             /\ ranges'[l][u] # <<>> => Good(buffers'[l][u].slots, ranges'[l][u])
             /\ Line(Stream(l, u), buffers'[l][u], ranges'[l][u], Past(l, u), Flushing(l))
  <2>1. PICK buf \in Buffer, range \in Seq(Key) : buf = buffers[l][u] /\ range = ranges[l][u]
    BY <1>1, Elements
  <2>2. PICK new : new = filled(buf, range)
    OBVIOUS
  <2>3. PICK rest : rest = SubSeq(range, 1, Len(range) - new.used)
    OBVIOUS
  <2>4. buffers'[l][u] = new /\ ranges'[l][u] = rest
    BY <1>6, <2>1, <2>2, <2>3, GatherEffect
  <2>5. range # <<>> /\ buf.used = 0 /\ buf.seq \in Nat
    BY <1>6, <2>1 DEF Todo, Buffer
  <2>6. /\ Descending(range) /\ (buf.seq > 0 => Good(buf.slots, range))
        /\ Line(Stream(l, u), buf, range, Past(l, u), Flushing(l))
    BY <2>1, <2>5 DEF SortedInv, Lines, Lined
  <2>7. /\ new \in Buffer /\ new.seq = buf.seq + 1 /\ new.used > 0
        /\ Descending(rest) /\ (rest = <<>> <=> Len(range) <= Fit)
        /\ rest # <<>> => Good(new.slots, rest)
        /\ \A v : Good(v, range) => Good(v, rest) /\ Under(v, new.slots[1])
    BY <2>2, <2>3, <2>5, <2>6, Filling
  <2>8. PICK q \in Seq(Blocks) : q = Stream(l, u)
    BY <1>1, StreamIs
  <2>9. Line(q, new, rest, Past(l, u), Flushing(l))
    BY <1>3, <2>6, <2>7, <2>8, LineGather
  <2>10. u \in Emptied(l) <=> Len(range) <= Fit
    BY <1>6, <2>1 DEF Emptied
  <2> QED BY <2>1, <2>4, <2>5, <2>7, <2>8, <2>9, <2>10
<1>7. ASSUME NEW u \in Seqs PROVE Lined(l, u)'
  <2>1. PICK buf \in Buffer, range \in Seq(Key) : buf = buffers'[l][u] /\ range = ranges'[l][u]
    <3>1. buffers'[l][u] \in Buffer
      BY <1>1, <1>5, <1>6, Elements
    <3>2. ranges'[l][u] \in Seq(Key)
      BY <1>2, <1>3 DEF SortedType, LowerType
    <3> QED BY <3>1, <3>2
  <2>2. Lined(l, u)
    BY DEF SortedInv, Lines
  <2>3. /\ Line(Stream(l, u), buf, range, Past(l, u), Flushing(l)) /\ Descending(range)
        /\ buf.seq > 0 /\ range # <<>> => Good(buf.slots, range)
    BY <1>5, <1>6, <2>1, <2>2 DEF Lined
  <2>4. Line(Stream(l, u), buf, range, Past(l, u)', Flushing(l)')
    BY <1>3, <1>4, <2>3, LineWeaker
  <2> QED BY <1>4, <2>1, <2>3, <2>4 DEF Lined
<1>8. ASSUME NEW u \in Seqs PROVE Fronted(l, u)'
  <2>1. Fronted(l, u) /\ Waits(u, l)' = Waits(u, l)
    BY <1>3 DEF SortedInv, Fronts, Waits
  <2>2. buffers'[l][u].used = 0 => buffers'[l][u] = buffers[l][u]
    BY <1>5, <1>6
  <2> QED BY <1>4, <2>1, <2>2 DEF Fronted
<1>9. Tallied(l)'
  <2>1. Spent(l)' = Spent(l) \cup Emptied(l) /\ Spent(l) \cap Emptied(l) = {}
    <3>1. ASSUME NEW u \in Seqs
          PROVE  /\ u \in Spent(l)' <=> u \in Spent(l) \/ u \in Emptied(l)
                 /\ ~ (u \in Spent(l) /\ u \in Emptied(l))
      <4>1. CASE u \in Todo(l)
        BY <1>3, <1>6, <4>1 DEF Spent
      <4>2. CASE u \notin Todo(l)
        BY <1>3, <1>5, <4>2 DEF Spent, Emptied
      <4> QED BY <4>1, <4>2
    <3>2. Spent(l)' \subseteq Seqs /\ Spent(l) \subseteq Seqs /\ Emptied(l) \subseteq Seqs
      BY <1>3 DEF Spent, Emptied, Todo
    <3> QED BY <3>1, <3>2
  <2>2. IsFiniteSet(Spent(l)) /\ IsFiniteSet(Emptied(l))
    <3>1. Spent(l) \subseteq Seqs /\ Emptied(l) \subseteq Seqs
      BY DEF Spent, Emptied, Todo
    <3> QED BY <1>1, <3>1, SeqsFacts, FS_Subset
  <2>3. Cardinality(Spent(l) \cup Emptied(l)) = Cardinality(Spent(l)) + Cardinality(Emptied(l))
    <3>1. /\ Cardinality(Spent(l) \cup Emptied(l)) = Cardinality(Spent(l)) + Cardinality(Emptied(l))
                                                      - Cardinality(Spent(l) \cap Emptied(l))
      BY <2>2, FS_Union
    <3>2. Cardinality(Spent(l) \cap Emptied(l)) = 0
      BY <2>1, FS_EmptySet
    <3>3. Cardinality(Spent(l)) \in Nat /\ Cardinality(Emptied(l)) \in Nat
      BY <2>2, FS_CardinalityType
    <3> QED BY <3>1, <3>2, <3>3
  <2>4. emptys'[l] = Cardinality(Spent(l)')
    BY <1>2, <1>3, <2>1, <2>3 DEF Tallied
  <2>5. Flushing(l)' => emptys'[l] = seqs'
    BY <1>2, <1>3 DEF Flushing
  <2>6. lpc'[l][1] \notin {"mark", "done"}
    BY <1>2
  <2>7. ASSUME NEW u \in Seqs
        PROVE  /\ ~ oks'[l][u]
               /\ buffers'[l][u].used > 0 => buffers'[l][u].seq > 0
    <3>1. ~ oks'[l][u]
      BY <1>2, <1>3 DEF Tallied
    <3>2. CASE u \in Todo(l)
      BY <1>6, <3>1, <3>2
    <3>3. CASE u \notin Todo(l)
      BY <1>3, <1>5, <3>1, <3>3 DEF Tallied
    <3> QED BY <3>2, <3>3
  <2> QED BY <1>3, <2>4, <2>5, <2>6, <2>7 DEF Tallied
<1> QED BY <1>2, <1>4, <1>7, <1>8, <1>9, LowerFrame

\* A lower moves on without gathering: each buffer is kept or reset, each stream is
\* kept, or gets the marker or the buffer's block.
KeptStream(l, u) ==
    /\ Stream(l, u)' = Stream(l, u)
    /\ buffers'[l][u].used = 0 /\ buffers[l][u].used > 0 => Stream(l, u) # <<>>
MarkedStream(l, u) ==
    /\ ~ Past(l, u) /\ Past(l, u)' /\ oks[l][u] /\ buffers'[l][u] = buffers[l][u]
    /\ Stream(l, u)' = Append(Stream(l, u), Marker)
SentStream(l, u) ==
    /\ ~ Past(l, u) /\ buffers[l][u].used > 0 /\ (buffers'[l][u].used > 0 => Flushing(l))
    /\ Stream(l, u)' = Append(Stream(l, u), Assembled(l, u))
Moving(l) ==
    /\ Lowering(l) /\ ranges' = ranges /\ emptys' = emptys /\ Flushing(l)' = Flushing(l)
    /\ lpc'[l][1] \in {"mark", "done"} => \A u \in Seqs : oks'[l][u]
    /\ \A u \in Seqs :
          /\ buffers'[l][u].seq = buffers[l][u].seq /\ buffers'[l][u].slots = buffers[l][u].slots
          /\ buffers'[l][u].used > 0 => buffers[l][u].used > 0
          /\ oks'[l][u] => Flushing(l) /\ buffers'[l][u].used = 0
          /\ Past(l, u) => Past(l, u)' /\ Stream(l, u)' = Stream(l, u)
          /\ KeptStream(l, u) \/ MarkedStream(l, u) \/ SentStream(l, u)

LEMMA AppendFront ==
    ASSUME NEW s \in Seq(Blocks), NEW b \in Blocks
    PROVE  Append(s, b) # <<>> /\ Append(s, b)[1] = IF s = <<>> THEN b ELSE s[1]
<1>1. PICK t : t = Append(s, b)
  OBVIOUS
<1>2. /\ t # <<>> /\ Len(s) \in Nat /\ t[Len(s) + 1] = b /\ (\A k \in 1 .. Len(s) : t[k] = s[k])
      /\ s # <<>> <=> Len(s) > 0
  BY <1>1, SeqFacts
<1> QED BY <1>1, <1>2

LEMMA MovingLine ==
    ASSUME SortedInv, SortedType', NEW l \in Lowers, Moving(l), NEW u \in Seqs
    PROVE  Lined(l, u)'
<1>1. SortedType /\ Tallied(l) /\ Lined(l, u)
  BY DEF SortedInv, Gathered, Lines
<1>2. /\ ranges' = ranges /\ Flushing(l)' = Flushing(l) /\ Seqs' = Seqs
      /\ buffers'[l][u].seq = buffers[l][u].seq /\ buffers'[l][u].slots = buffers[l][u].slots
      /\ buffers'[l][u].used > 0 => buffers[l][u].used > 0
      /\ Past(l, u) => Past(l, u)' /\ Stream(l, u)' = Stream(l, u)
      /\ KeptStream(l, u) \/ MarkedStream(l, u) \/ SentStream(l, u)
  BY DEF Moving, Lowering, Seqs
<1>3. PICK q \in Seq(Blocks), buf \in Buffer : q = Stream(l, u) /\ buf = buffers[l][u]
  BY <1>1, StreamIs, Elements
<1>4. PICK other \in Buffer : other = buffers'[l][u]
  <2>1. buffers' \in [Lowers -> [Seqs -> Buffer]]
    BY <1>2 DEF SortedType, LowerType
  <2> QED BY <2>1
<1>5. PICK range, past, flushing, past2 :
         range = ranges[l][u] /\ past = Past(l, u) /\ flushing = Flushing(l) /\ past2 = Past(l, u)'
  OBVIOUS
<1>6. Line(q, buf, range, past, flushing)
  BY <1>1, <1>3, <1>5 DEF Lined
<1>7. other.seq = buf.seq /\ other.slots = buf.slots /\ (other.used > 0 => buf.used > 0)
  BY <1>2, <1>3, <1>4
<1>8. Line(Stream(l, u)', other, range, past2, flushing)
  <2>1. CASE KeptStream(l, u)
    <3>1. past => past2
      BY <1>2, <1>5
    <3>2. Line(q, other, range, past2, flushing)
      BY <1>6, <1>7, <3>1, LineWeaker
    <3> QED BY <1>3, <2>1, <3>2 DEF KeptStream
  <2>2. CASE MarkedStream(l, u)
    <3>1. past = FALSE /\ past2 = TRUE /\ other = buf /\ Stream(l, u)' = Append(q, Marker)
      BY <1>3, <1>4, <1>5, <2>2 DEF MarkedStream, Past
    <3>2. Line(Append(q, Marker), buf, range, TRUE, flushing)
      BY <1>6, <3>1, LineMarker
    <3> QED BY <3>1, <3>2
  <2>3. CASE SentStream(l, u)
    <3>1. PICK b : b = [seq |-> buf.seq, slots |-> Front(buf.slots)]
      OBVIOUS
    <3>2. /\ ~ past /\ buf.used > 0 /\ (other.used > 0 => flushing)
          /\ Stream(l, u)' = Append(q, b)
      BY <1>3, <1>4, <1>5, <2>3, <3>1 DEF SentStream, Assembled, Front
    <3>3. buf.seq > 0
      BY <1>1, <1>3, <3>2 DEF Tallied
    <3>4. flushing => range = <<>>
      BY <1>5, SpentAll
    <3>5. Line(Append(q, b), other, range, past, flushing)
      BY <1>6, <1>7, <3>1, <3>2, <3>3, <3>4, LineBlock
    <3>6. Line(Append(q, b), other, range, past2, flushing)
      BY <3>2, <3>5, LineWeaker
    <3> QED BY <3>2, <3>6
  <2> QED BY <1>2, <2>1, <2>2, <2>3
<1>9. Line(Stream(l, u)', buffers'[l][u], ranges'[l][u], Past(l, u)', Flushing(l)')
  BY <1>2, <1>4, <1>5, <1>8
<1> QED BY <1>1, <1>2, <1>9 DEF Lined

LEMMA MovingFront ==
    ASSUME SortedInv, SortedType', NEW l \in Lowers, Moving(l), NEW u \in Seqs
    PROVE  Fronted(l, u)'
<1>1. SortedType /\ Tallied(l) /\ Fronted(l, u)
  BY DEF SortedInv, Gathered, Fronts
<1>2. /\ buffers'[l][u].seq = buffers[l][u].seq /\ upc' = upc /\ buffers'[l][u].slots = buffers[l][u].slots
      /\ KeptStream(l, u) \/ MarkedStream(l, u) \/ SentStream(l, u)
  BY DEF Moving, Lowering
<1>3. PICK q \in Seq(Blocks), buf \in Buffer : q = Stream(l, u) /\ buf = buffers[l][u]
  BY <1>1, StreamIs, Elements
<1>4. SUFFICES ASSUME Waits(u, l)
               PROVE  /\ Stream(l, u)' # <<>> => Stream(l, u)'[1] # Marker
                      /\ buffers'[l][u].seq > 0 /\ buffers'[l][u].used = 0 => Stream(l, u)' # <<>>
  BY <1>2 DEF Fronted, Waits
<1>5. (q # <<>> => q[1] # Marker) /\ (buf.seq > 0 /\ buf.used = 0 => q # <<>>)
  BY <1>1, <1>3, <1>4 DEF Fronted
<1>6. CASE KeptStream(l, u)
  <2>1. buf.used \in Nat
    BY DEF Buffer
  <2> QED BY <1>2, <1>3, <1>5, <1>6, <2>1 DEF KeptStream
<1>7. CASE MarkedStream(l, u)
  <2>1. Flushing(l) /\ buf.used = 0
    BY <1>1, <1>3, <1>7 DEF MarkedStream, Tallied
  <2>2. q # <<>>
    BY <1>3, <1>5, <2>1, SpentAll
  <2>3. Append(q, Marker) # <<>> /\ Append(q, Marker)[1] = q[1]
    BY <2>2, AppendFront, BlockFacts
  <2> QED BY <1>3, <1>5, <1>7, <2>2, <2>3 DEF MarkedStream
<1>8. CASE SentStream(l, u)
  <2>1. PICK b : b = Assembled(l, u)
    OBVIOUS
  <2>2. b \in Block
    <3>1. buf.used > 0 /\ buf.seq > 0 /\ b = [seq |-> buf.seq, slots |-> Front(buf.slots)]
      BY <1>1, <1>3, <1>8, <2>1 DEF SentStream, Tallied, Assembled, Front
    <3>2. buf.seq \in Nat /\ buf.slots \in Slots
      BY DEF Buffer
    <3>3. Front(buf.slots) \in Tuples
      BY <3>2, FrontFacts
    <3> QED BY <3>1, <3>2, <3>3 DEF Block
  <2>3. Append(q, b) # <<>> /\ Append(q, b)[1] = IF q = <<>> THEN b ELSE q[1]
    BY <2>2, AppendFront, BlockFacts
  <2> QED BY <1>3, <1>5, <1>8, <2>1, <2>2, <2>3, BlockFacts DEF SentStream
<1> QED BY <1>2, <1>6, <1>7, <1>8

LEMMA MovingStep ==
    ASSUME SortedInv, SortedType', NEW l \in Lowers, Moving(l)
    PROVE  SortedInv'
<1>1. Lowering(l) /\ Tallied(l) /\ Seqs' = Seqs /\ seqs' = seqs
  BY DEF Moving, Lowering, SortedInv, Gathered, Seqs
<1>2. Spent(l)' = Spent(l)
  BY <1>1 DEF Spent, Moving
<1>3. Tallied(l)'
  <2>1. emptys'[l] = Cardinality(Spent(l)') /\ (Flushing(l)' => emptys'[l] = seqs')
    BY <1>1, <1>2 DEF Moving, Tallied
  <2>2. lpc'[l][1] \in {"mark", "done"} => \A u \in Seqs : oks'[l][u]
    BY DEF Moving
  <2>3. ASSUME NEW u \in Seqs
        PROVE  /\ oks'[l][u] => Flushing(l)' /\ buffers'[l][u].used = 0
               /\ buffers'[l][u].used > 0 => buffers'[l][u].seq > 0
    BY <1>1 DEF Moving, Tallied
  <2> QED BY <1>1, <2>1, <2>2, <2>3 DEF Tallied
<1>4. \A u \in Seqs : Past(l, u) => Past(l, u)' /\ Stream(l, u)' = Stream(l, u)
  BY DEF Moving
<1> QED BY <1>1, <1>3, <1>4, MovingLine, MovingFront, LowerFrame

LEMMA PutEffect ==
    ASSUME SortedType, NEW l \in Lowers, NEW u \in Seqs, NEW b \in Blocks, Put(l, u, b),
           UNCHANGED <<lscan, temp, chan, ucols>>
    PROVE  /\ lcols' \in [Lowers -> [Seqs -> Seq(Blocks)]] /\ (\A k \in Lowers : k # l => lcols'[k] = lcols[k])
           /\ Stream(l, u)' = Append(Stream(l, u), b)
           /\ \A v \in Seqs : v # u => Stream(l, v)' = Stream(l, v)
<1>1. lcols \in [Lowers -> [Seqs -> Seq(Blocks)]]
  BY DEF SortedType, LineType
<1>2. PICK a \in Seq(Blocks), c \in Seq(Blocks), h \in Seq(Blocks), d \in Seq(Blocks) :
         a = ucols[u][l] /\ c = chan[l][u] /\ h = Sending(l, u) /\ d = lcols[l][u]
  BY StreamIs, Elements
<1>3. Append(d, b) \in Seq(Blocks)
  BY SeqFacts
<1>4. lcols' = [lcols EXCEPT ![l][u] = Append(d, b)]
  BY <1>2 DEF Put
<1>5. /\ lcols' \in [Lowers -> [Seqs -> Seq(Blocks)]] /\ lcols'[l][u] = Append(d, b)
      /\ \A k \in Lowers : k # l => lcols'[k] = lcols[k]
      /\ \A v \in Seqs : v # u => lcols'[l][v] = lcols[l][v]
  BY <1>1, <1>3, <1>4
<1>6. PICK x, y : x = Four(a, c, h, d) /\ y = Append(d, b)
  OBVIOUS
<1>7. Stream(l, u)' = Four(a, c, h, y) /\ Stream(l, u) = x
  <2>1. Stream(l, u)' = ucols'[u][l] \o chan'[l][u] \o Sending(l, u)' \o lcols'[l][u]
    BY DEF Stream
  <2>2. Sending(l, u)' = Sending(l, u)
    BY DEF Sending
  <2>3. Stream(l, u)' = Four(a, c, h, y)
    BY <1>2, <1>5, <1>6, <2>1, <2>2 DEF Four
  <2> QED BY <1>2, <1>6, <2>3, StreamIs
<1>8. Four(a, c, h, y) = Append(x, b)
  <2>1. PICK z : z = Append(x, b)
    OBVIOUS
  <2>2. Grown(a, c, h, d, b, x, y, z)
    BY <1>6, <2>1 DEF Grown
  <2>3. Four(a, c, h, y) = z
    BY <2>2, FourAppend
  <2> QED BY <2>1, <2>3
<1>9. \A v \in Seqs : v # u => Stream(l, v)' = Stream(l, v)
  BY <1>5 DEF Stream, Sending
<1> QED BY <1>5, <1>6, <1>7, <1>8, <1>9

LEMMA ResetEffect ==
    ASSUME SortedType, NEW l \in Lowers, NEW u \in Seqs, Reset(l, u)
    PROVE  /\ buffers' \in [Lowers -> [Seqs -> Buffer]] /\ (\A k \in Lowers : k # l => buffers'[k] = buffers[k])
           /\ buffers'[l][u].used = 0 /\ buffers'[l][u].seq = buffers[l][u].seq
           /\ buffers'[l][u].slots = buffers[l][u].slots
           /\ \A v \in Seqs : v # u => buffers'[l][v] = buffers[l][v]
<1>1. buffers \in [Lowers -> [Seqs -> Buffer]]
  BY DEF SortedType, LowerType
<1>2. PICK b : b = [buffers[l][u] EXCEPT !.used = 0]
  OBVIOUS
<1>3. buffers[l][u] \in Buffer /\ 0 \in 0 .. Fit
  BY <1>1, Sizes
<1>4. b \in Buffer /\ b.used = 0 /\ b.seq = buffers[l][u].seq /\ b.slots = buffers[l][u].slots
  BY <1>2, <1>3 DEF Buffer
<1>5. buffers' = [buffers EXCEPT ![l][u] = b]
  BY <1>2 DEF Reset
<1> QED BY <1>1, <1>4, <1>5

LEMMA AssembledType ==
    ASSUME SortedInv, NEW l \in Lowers, NEW u \in Seqs, buffers[l][u].used > 0
    PROVE  Assembled(l, u) \in Blocks
<1>1. buffers[l][u] \in Buffer /\ buffers[l][u].seq > 0
  BY Elements DEF SortedInv, Gathered, Tallied
<1>2. buffers[l][u].seq \in Nat /\ buffers[l][u].slots \in Slots
  BY <1>1 DEF Buffer
<1>3. Front(buffers[l][u].slots) \in Tuples
  BY <1>2, FrontFacts
<1>4. Assembled(l, u) = [seq |-> buffers[l][u].seq, slots |-> Front(buffers[l][u].slots)]
  BY DEF Assembled, Front
<1> QED BY <1>1, <1>2, <1>3, <1>4 DEF Blocks, Block

\* A full buffer goes into the lower's column as the next block of its stream.
LEMMA SendStep ==
    ASSUME SortedInv, NEW l \in Lowers, Send(l)
    PROVE  SortedInv'
<1>1. SortedType /\ Tallied(l)
  BY DEF SortedInv, Gathered
<1>2. PICK u : u = lpc[l][2]
  OBVIOUS
<1>3. u \in Seqs
  BY <1>1, <1>2, Elements, SeqsFacts
<1>4. /\ lpc[l][1] = "send" /\ lpc' = after(l, u, <<"gather", 1>>)
      /\ IF buffers[l][u].used > 0 /\ ~ Full(l, u)
         THEN Put(l, u, Assembled(l, u)) /\ Reset(l, u)
         ELSE UNCHANGED <<lcols, buffers>>
      /\ UNCHANGED <<seqs, ranges, emptys, oks, lscan, temp, chan, ucols, rose, upc, itrs, leaves, stored, finished, last>>
  BY <1>2 DEF Send, sendVars, upperVars
<1>5. /\ lpc' \in [Lowers -> {"gather", "send", "flush", "mark", "done"} \X Seqs]
      /\ \A k \in Lowers : k # l => lpc'[k] = lpc[k]
      /\ lpc'[l][1] \in {"gather", "send"}
  <2>1. <<"gather", 1>> \in {"gather", "send", "flush", "mark", "done"} \X Seqs
    BY <1>1, SeqsFacts
  <2>2. /\ lpc' \in [Lowers -> {"gather", "send", "flush", "mark", "done"} \X Seqs]
        /\ \A k \in Lowers : k # l => lpc'[k] = lpc[k]
        /\ lpc'[l] = <<lpc[l][1], lpc[l][2] + 1>> \/ lpc'[l] = <<"gather", 1>>
    BY <1>1, <1>2, <1>4, <2>1, AfterType
  <2> QED BY <1>4, <2>2
<1>6. ~ Flushing(l) /\ ~ Flushing(l)' /\ \A v \in Seqs : ~ Past(l, v) /\ ~ Past(l, v)' /\ ~ oks[l][v]
  BY <1>1, <1>4, <1>5 DEF Flushing, Past, Tallied
<1>7. Seqs' = Seqs /\ Flushing(l)' = Flushing(l) /\ lpc'[l][1] \notin {"mark", "done"}
  BY <1>4, <1>5 DEF Seqs, Flushing
<1>8. /\ ranges' \in [Lowers -> [Seqs -> Seq(Key)]] /\ emptys' \in [Lowers -> Nat]
      /\ oks' \in [Lowers -> [Seqs -> BOOLEAN]] /\ seqs' \in 1 .. NUppers
      /\ chan' \in [Lowers -> [Seqs -> Seq(Blocks)]] /\ ucols' \in [Seqs -> [Lowers -> Seq(Blocks)]]
      /\ lscan' \in [Lowers -> Seqs] /\ temp' \in [Lowers -> Blocks \cup {NoBlock}]
  BY <1>1, <1>4 DEF SortedType, LowerType, LineType
<1>9. UpperType'
  <2>1. UpperType
    BY <1>1 DEF SortedType
  <2> QED BY <1>4, <1>7, <2>1 DEF UpperType
<1>10. CASE buffers[l][u].used > 0 /\ ~ Full(l, u)
  <2>1. Put(l, u, Assembled(l, u)) /\ Reset(l, u) /\ Assembled(l, u) \in Blocks
    BY <1>3, <1>4, <1>10, AssembledType
  <2>2. /\ lcols' \in [Lowers -> [Seqs -> Seq(Blocks)]] /\ (\A k \in Lowers : k # l => lcols'[k] = lcols[k])
        /\ Stream(l, u)' = Append(Stream(l, u), Assembled(l, u))
        /\ \A v \in Seqs : v # u => Stream(l, v)' = Stream(l, v)
    BY <1>1, <1>3, <1>4, <2>1, PutEffect
  <2>3. /\ buffers' \in [Lowers -> [Seqs -> Buffer]] /\ (\A k \in Lowers : k # l => buffers'[k] = buffers[k])
        /\ buffers'[l][u].used = 0 /\ buffers'[l][u].seq = buffers[l][u].seq
        /\ buffers'[l][u].slots = buffers[l][u].slots
        /\ \A v \in Seqs : v # u => buffers'[l][v] = buffers[l][v]
    BY <1>1, <1>3, <2>1, ResetEffect
  <2>4. SortedType'
    BY <1>5, <1>7, <1>8, <1>9, <2>2, <2>3 DEF SortedType, LowerType, LineType
  <2>5. SentStream(l, u)
    BY <1>3, <1>6, <1>10, <2>2, <2>3 DEF SentStream
  <2>6. \A v \in Seqs : v # u => KeptStream(l, v)
    BY <2>2, <2>3 DEF KeptStream
  <2>7. Lowering(l)
    BY <1>4, <1>5, <2>2, <2>3 DEF Lowering
  <2>8. \A v \in Seqs : /\ buffers'[l][v].seq = buffers[l][v].seq /\ buffers'[l][v].slots = buffers[l][v].slots
                        /\ buffers'[l][v].used > 0 => buffers[l][v].used > 0
    BY <2>3
  <2>9. Moving(l)
    <3>1. \A v \in Seqs : KeptStream(l, v) \/ SentStream(l, v)
      BY <2>5, <2>6
    <3>2. \A v \in Seqs : ~ oks'[l][v] /\ ~ Past(l, v)
      BY <1>4, <1>6
    <3> QED BY <1>4, <1>7, <2>7, <2>8, <3>1, <3>2 DEF Moving
  <2> QED BY <2>4, <2>9, MovingStep
<1>11. CASE ~ (buffers[l][u].used > 0 /\ ~ Full(l, u))
  <2>1. lcols' = lcols /\ buffers' = buffers
    BY <1>4, <1>11
  <2>2. SortedType'
    <3>1. LowerType /\ LineType
      BY <1>1 DEF SortedType
    <3> QED BY <1>5, <1>7, <1>8, <1>9, <2>1, <3>1 DEF SortedType, LowerType, LineType
  <2>3. \A v \in Seqs : Stream(l, v)' = Stream(l, v)
    BY <1>4, <2>1 DEF Stream, Sending
  <2>4. \A v \in Seqs : KeptStream(l, v)
    BY <2>1, <2>3 DEF KeptStream
  <2>5. Lowering(l)
    BY <1>4, <1>5, <2>1 DEF Lowering
  <2>6. Moving(l)
    <3>1. \A v \in Seqs : ~ oks'[l][v] /\ ~ Past(l, v)
      BY <1>4, <1>6
    <3>2. \A v \in Seqs : buffers'[l][v] = buffers[l][v]
      BY <2>1
    <3> QED BY <1>4, <1>7, <2>4, <2>5, <3>1, <3>2 DEF Moving
  <2> QED BY <2>2, <2>6, MovingStep
<1> QED BY <1>10, <1>11

\* The last blocks: a stream may now end with one block twice, the only way it may.
LEMMA FlushStep ==
    ASSUME SortedInv, NEW l \in Lowers, Flush(l)
    PROVE  SortedInv'
<1>1. SortedType /\ Tallied(l)
  BY DEF SortedInv, Gathered
<1>2. PICK u, done : /\ u = lpc[l][2]
                     /\ done = IF \A v \in Seqs : oks'[l][v] THEN <<"mark", 1>> ELSE <<"flush", 1>>
  OBVIOUS
<1>3. u \in Seqs
  BY <1>1, <1>2, Elements, SeqsFacts
<1>4. /\ lpc[l][1] = "flush" /\ lpc' = after(l, u, done)
      /\ IF buffers[l][u].used > 0 /\ ~ Full(l, u)
         THEN Put(l, u, Assembled(l, u)) /\ UNCHANGED <<buffers, oks>>
         ELSE Reset(l, u) /\ oks' = [oks EXCEPT ![l][u] = TRUE] /\ UNCHANGED lcols
      /\ UNCHANGED <<seqs, ranges, emptys, lscan, temp, chan, ucols, rose, upc, itrs, leaves, stored, finished, last>>
  BY <1>2 DEF Flush, sendVars, upperVars
<1>5. /\ lpc' \in [Lowers -> {"gather", "send", "flush", "mark", "done"} \X Seqs]
      /\ \A k \in Lowers : k # l => lpc'[k] = lpc[k]
      /\ lpc'[l][1] = "flush" \/ (lpc'[l] = <<"mark", 1>> /\ \A v \in Seqs : oks'[l][v])
  <2>1. done \in {"gather", "send", "flush", "mark", "done"} \X Seqs
    BY <1>1, <1>2, SeqsFacts
  <2>2. /\ lpc' \in [Lowers -> {"gather", "send", "flush", "mark", "done"} \X Seqs]
        /\ \A k \in Lowers : k # l => lpc'[k] = lpc[k]
        /\ lpc'[l] = <<lpc[l][1], lpc[l][2] + 1>> \/ lpc'[l] = done
    BY <1>1, <1>2, <1>4, <2>1, AfterType
  <2> QED BY <1>2, <1>4, <2>2
<1>6. /\ Flushing(l) /\ Flushing(l)' = Flushing(l) /\ Seqs' = Seqs
      /\ \A v \in Seqs : ~ Past(l, v)
  BY <1>1, <1>4, <1>5 DEF Flushing, Past, Seqs
<1>7. lpc'[l][1] \in {"mark", "done"} => \A v \in Seqs : oks'[l][v]
  BY <1>5
<1>8. /\ ranges' \in [Lowers -> [Seqs -> Seq(Key)]] /\ emptys' \in [Lowers -> Nat] /\ seqs' \in 1 .. NUppers
      /\ chan' \in [Lowers -> [Seqs -> Seq(Blocks)]] /\ ucols' \in [Seqs -> [Lowers -> Seq(Blocks)]]
      /\ lscan' \in [Lowers -> Seqs] /\ temp' \in [Lowers -> Blocks \cup {NoBlock}]
  BY <1>1, <1>4 DEF SortedType, LowerType, LineType
<1>9. UpperType'
  <2>1. UpperType
    BY <1>1 DEF SortedType
  <2> QED BY <1>4, <1>6, <2>1 DEF UpperType
<1>10. /\ oks \in [Lowers -> [Seqs -> BOOLEAN]] /\ lcols \in [Lowers -> [Seqs -> Seq(Blocks)]]
       /\ buffers \in [Lowers -> [Seqs -> Buffer]]
  BY <1>1 DEF SortedType, LowerType, LineType
<1>11. CASE buffers[l][u].used > 0 /\ ~ Full(l, u)
  <2>1. Put(l, u, Assembled(l, u)) /\ buffers' = buffers /\ oks' = oks /\ Assembled(l, u) \in Blocks
    BY <1>3, <1>4, <1>11, AssembledType
  <2>2. /\ lcols' \in [Lowers -> [Seqs -> Seq(Blocks)]] /\ (\A k \in Lowers : k # l => lcols'[k] = lcols[k])
        /\ Stream(l, u)' = Append(Stream(l, u), Assembled(l, u))
        /\ \A v \in Seqs : v # u => Stream(l, v)' = Stream(l, v)
    BY <1>1, <1>3, <1>4, <2>1, PutEffect
  <2>3. SortedType'
    BY <1>5, <1>6, <1>8, <1>9, <1>10, <2>1, <2>2 DEF SortedType, LowerType, LineType
  <2>4. SentStream(l, u)
    BY <1>3, <1>6, <1>11, <2>1, <2>2 DEF SentStream
  <2>5. \A v \in Seqs : v # u => KeptStream(l, v)
    BY <2>1, <2>2 DEF KeptStream
  <2>6. Lowering(l)
    BY <1>4, <1>5, <2>1, <2>2 DEF Lowering
  <2>7. \A v \in Seqs : oks'[l][v] => buffers'[l][v].used = 0
    BY <1>1, <2>1 DEF Tallied
  <2>8. \A v \in Seqs : KeptStream(l, v) \/ SentStream(l, v)
    BY <2>4, <2>5
  <2>9. Moving(l)
    BY <1>4, <1>6, <1>7, <2>1, <2>6, <2>7, <2>8 DEF Moving
  <2> QED BY <2>3, <2>9, MovingStep
<1>12. CASE ~ (buffers[l][u].used > 0 /\ ~ Full(l, u))
  <2>1. Reset(l, u) /\ oks' = [oks EXCEPT ![l][u] = TRUE] /\ lcols' = lcols
    BY <1>4, <1>12
  <2>2. /\ oks' \in [Lowers -> [Seqs -> BOOLEAN]] /\ (\A k \in Lowers : k # l => oks'[k] = oks[k])
        /\ \A v \in Seqs : v # u => oks'[l][v] = oks[l][v]
    BY <1>3, <1>10, <2>1
  <2>3. /\ buffers' \in [Lowers -> [Seqs -> Buffer]] /\ (\A k \in Lowers : k # l => buffers'[k] = buffers[k])
        /\ buffers'[l][u].used = 0 /\ buffers'[l][u].seq = buffers[l][u].seq
        /\ buffers'[l][u].slots = buffers[l][u].slots
        /\ \A v \in Seqs : v # u => buffers'[l][v] = buffers[l][v]
    BY <1>1, <1>3, <2>1, ResetEffect
  <2>4. SortedType'
    BY <1>5, <1>6, <1>8, <1>9, <1>10, <2>1, <2>2, <2>3 DEF SortedType, LowerType, LineType
  <2>5. \A v \in Seqs : Stream(l, v)' = Stream(l, v)
    BY <1>4, <2>1 DEF Stream, Sending
  <2>6. buffers[l][u].used > 0 => Stream(l, u) # <<>>
    <3>1. SUFFICES ASSUME buffers[l][u].used > 0 PROVE Stream(l, u) # <<>>
      OBVIOUS
    <3>2. Len(lcols[l][u]) >= COLUMN_CON
      BY <1>12, <3>1 DEF Full
    <3>3. lcols[l][u] \in Seq(Blocks)
      BY <1>1, <1>3, Elements
    <3>4. lcols[l][u] # <<>>
      BY <3>2, <3>3, Sizes, SeqFacts
    <3> QED BY <1>1, <1>3, <3>4, StreamIs
  <2>7. \A v \in Seqs : KeptStream(l, v)
    BY <2>3, <2>5, <2>6 DEF KeptStream
  <2>8. Lowering(l)
    BY <1>4, <1>5, <2>1, <2>2, <2>3 DEF Lowering
  <2>9. \A v \in Seqs : /\ oks'[l][v] => buffers'[l][v].used = 0
                        /\ buffers'[l][v].seq = buffers[l][v].seq /\ buffers'[l][v].slots = buffers[l][v].slots
                        /\ buffers'[l][v].used > 0 => buffers[l][v].used > 0
    BY <1>1, <2>2, <2>3 DEF Tallied
  <2>10. Moving(l)
    BY <1>4, <1>6, <1>7, <2>7, <2>8, <2>9 DEF Moving
  <2> QED BY <2>4, <2>10, MovingStep
<1> QED BY <1>11, <1>12

\* A marker goes behind a stream that has been flushed.
LEMMA MarkStep ==
    ASSUME SortedInv, NEW l \in Lowers, Mark(l)
    PROVE  SortedInv'
<1>1. SortedType /\ Tallied(l)
  BY DEF SortedInv, Gathered
<1>2. PICK u : u = lpc[l][2]
  OBVIOUS
<1>3. u \in Seqs
  BY <1>1, <1>2, Elements, SeqsFacts
<1>4. /\ lpc[l][1] = "mark" /\ lpc' = after(l, u, <<"done", 1>>) /\ Put(l, u, Marker)
      /\ UNCHANGED <<seqs, ranges, buffers, emptys, oks, lscan, temp, chan, ucols, rose, upc, itrs, leaves,
                     stored, finished, last>>
  BY <1>2 DEF Mark, sendVars, upperVars
<1>5. /\ lpc' \in [Lowers -> {"gather", "send", "flush", "mark", "done"} \X Seqs]
      /\ \A k \in Lowers : k # l => lpc'[k] = lpc[k]
      /\ lpc'[l] = <<"mark", u + 1>> \/ lpc'[l] = <<"done", 1>>
  <2>1. <<"done", 1>> \in {"gather", "send", "flush", "mark", "done"} \X Seqs
    BY <1>1, SeqsFacts
  <2>2. /\ lpc' \in [Lowers -> {"gather", "send", "flush", "mark", "done"} \X Seqs]
        /\ \A k \in Lowers : k # l => lpc'[k] = lpc[k]
        /\ lpc'[l] = <<lpc[l][1], lpc[l][2] + 1>> \/ lpc'[l] = <<"done", 1>>
    BY <1>1, <1>2, <1>4, <2>1, AfterType
  <2> QED BY <1>2, <1>4, <2>2
<1>6. Flushing(l) /\ Flushing(l)' = Flushing(l) /\ Seqs' = Seqs
  BY <1>4, <1>5 DEF Flushing, Seqs
<1>7. /\ ~ Past(l, u) /\ Past(l, u)'
      /\ \A v \in Seqs : Past(l, v) => Past(l, v)' /\ v # u
  <2>1. \A v \in Seqs : v \in Nat
    BY <1>1, SeqsFacts
  <2>2. \A v \in Seqs : Past(l, v) <=> v < u
    BY <1>2, <1>4 DEF Past
  <2>3. \A v \in Seqs : v <= u => Past(l, v)'
    <3>1. CASE lpc'[l] = <<"mark", u + 1>>
      BY <1>3, <2>1, <3>1 DEF Past
    <3>2. CASE lpc'[l] = <<"done", 1>>
      BY <3>2 DEF Past
    <3> QED BY <1>5, <3>1, <3>2
  <2> QED BY <1>3, <2>1, <2>2, <2>3
<1>8. /\ lcols' \in [Lowers -> [Seqs -> Seq(Blocks)]] /\ (\A k \in Lowers : k # l => lcols'[k] = lcols[k])
      /\ Stream(l, u)' = Append(Stream(l, u), Marker)
      /\ \A v \in Seqs : v # u => Stream(l, v)' = Stream(l, v)
  BY <1>1, <1>3, <1>4, PutEffect, BlockFacts
<1>9. SortedType'
  <2>1. LowerType /\ LineType /\ UpperType
    BY <1>1 DEF SortedType
  <2>2. LowerType'
    BY <1>4, <1>5, <1>6, <2>1 DEF LowerType
  <2>3. LineType'
    BY <1>4, <1>6, <1>8, <2>1 DEF LineType
  <2>4. UpperType'
    BY <1>4, <1>6, <2>1 DEF UpperType
  <2> QED BY <2>2, <2>3, <2>4 DEF SortedType
<1>10. \A v \in Seqs : oks[l][v] /\ buffers[l][v].used = 0
  BY <1>1, <1>4 DEF Tallied
<1>11. MarkedStream(l, u)
  BY <1>3, <1>4, <1>7, <1>8, <1>10 DEF MarkedStream
<1>12. \A v \in Seqs : v # u => KeptStream(l, v)
  BY <1>4, <1>8 DEF KeptStream
<1>13. \A v \in Seqs : KeptStream(l, v) \/ MarkedStream(l, v)
  BY <1>11, <1>12
<1>14. Lowering(l)
  BY <1>4, <1>5, <1>8 DEF Lowering
<1>15. Moving(l)
  BY <1>4, <1>6, <1>7, <1>8, <1>10, <1>13, <1>14 DEF Moving
<1> QED BY <1>9, <1>15, MovingStep

-----------------------------------------------------------------------------
(* Steps of the threads between the columns.                               *)

Lost(c, y) == c # <<>> /\ y = Tail(c)
LEMMA FourLost ==
    ASSUME NEW a \in Seq(Blocks), NEW c \in Seq(Blocks), NEW h \in Seq(Blocks), NEW d \in Seq(Blocks),
           NEW y, NEW r, r = Four(a, c, h, d), NEW t
    PROVE  /\ Lost(c, y) /\ t = Four(a, y, h, d) => Without(r, t, Len(a) + 1)
           /\ Lost(a, y) /\ t = Four(y, c, h, d) => Without(r, t, 1)
<1>1. c # <<>> => Without(Four(a, c, h, d), Four(a, Tail(c), h, d), Len(a) + 1)
  BY FourLoss
<1>2. a # <<>> => Without(Four(a, c, h, d), Four(Tail(a), c, h, d), 1)
  BY FourLoss
<1> QED BY <1>1, <1>2 DEF Lost

LEMMA NextUpper ==
    ASSUME SortedType, NEW u \in Seqs
    PROVE  (u % seqs) + 1 \in Seqs
<1>1. seqs \in Nat /\ seqs >= 1 /\ u \in Nat /\ Seqs = 1 .. seqs
  BY SeqsFacts
<1>2. u % seqs \in 0 .. seqs - 1
  BY <1>1
<1> QED BY <1>1, <1>2

LEMMA StreamFrame ==
    ASSUME SortedInv, SortedType', UNCHANGED <<seqs, lowerVars>>,
           \A l \in Lowers, u \in Seqs :
              Stream(l, u)' = Stream(l, u) \/ \E g : Without(Stream(l, u), Stream(l, u)', g)
    PROVE  /\ Gathered' /\ Lines' /\ Seqs' = Seqs
           /\ \A l \in Lowers, u \in Seqs : Past(l, u)' = Past(l, u) /\ Stream(l, u)' \in Seq(Blocks)
<1>1. UNCHANGED <<seqs, ranges, buffers, emptys, oks, lpc>> /\ Seqs' = Seqs
  BY DEF lowerVars, Seqs
<1>2. Gathered'
  <2>1. Gathered
    BY DEF SortedInv
  <2> QED BY <1>1, <2>1 DEF Gathered, Tallied, Flushing, Spent
<1>3. \A l \in Lowers, u \in Seqs : Past(l, u)' = Past(l, u) /\ Flushing(l)' = Flushing(l)
  BY <1>1 DEF Past, Flushing
<1>4. ASSUME NEW l \in Lowers, NEW u \in Seqs PROVE Stream(l, u)' \in Seq(Blocks)
  <2>1. /\ lcols' \in [Lowers -> [Seqs -> Seq(Blocks)]] /\ chan' \in [Lowers -> [Seqs -> Seq(Blocks)]]
        /\ ucols' \in [Seqs -> [Lowers -> Seq(Blocks)]] /\ temp' \in [Lowers -> Blocks \cup {NoBlock}]
    BY <1>1 DEF SortedType, LineType
  <2>2. Sending(l, u)' \in Seq(Blocks)
    <3>1. CASE lscan'[l] = u /\ temp'[l] # NoBlock
      <4>1. temp'[l] \in Blocks /\ Sending(l, u)' = <<temp'[l]>>
        BY <2>1, <3>1 DEF Sending
      <4> QED BY <4>1
    <3>2. CASE ~ (lscan'[l] = u /\ temp'[l] # NoBlock)
      <4>1. Sending(l, u)' = <<>>
        BY <3>2 DEF Sending
      <4> QED BY <4>1
    <3> QED BY <3>1, <3>2
  <2>3. PICK a \in Seq(Blocks), c \in Seq(Blocks), h \in Seq(Blocks), d \in Seq(Blocks) :
           a = ucols'[u][l] /\ c = chan'[l][u] /\ h = Sending(l, u)' /\ d = lcols'[l][u]
    BY <2>1, <2>2
  <2>4. Stream(l, u)' = Four(a, c, h, d)
    BY <2>3 DEF Stream, Four
  <2>5. PICK x : x = Four(a, c, h, d)
    OBVIOUS
  <2>6. x \in Seq(Blocks)
    BY <2>5, FourType
  <2> QED BY <2>4, <2>5, <2>6
<1>5. ASSUME NEW l \in Lowers, NEW u \in Seqs PROVE Lined(l, u)'
  <2>1. Lined(l, u)
    BY DEF SortedInv, Lines
  <2>2. PICK r \in Seq(Blocks), t \in Seq(Blocks) : r = Stream(l, u) /\ t = Stream(l, u)'
    BY <1>4, StreamIs DEF SortedInv
  <2>3. PICK buf, range, past, flushing :
           buf = buffers[l][u] /\ range = ranges[l][u] /\ past = Past(l, u) /\ flushing = Flushing(l)
    OBVIOUS
  <2>4. Line(r, buf, range, past, flushing)
    BY <2>1, <2>2, <2>3 DEF Lined
  <2>5. t = r \/ \E g : Without(r, t, g)
    BY <2>2
  <2>6. Line(t, buf, range, past, flushing)
    BY <2>4, <2>5, LineWithout
  <2> QED BY <1>1, <1>3, <2>1, <2>2, <2>3, <2>6 DEF Lined
<1>6. Lines'
  BY <1>1, <1>5 DEF Lines
<1> QED BY <1>1, <1>2, <1>3, <1>4, <1>6

LEMMA RouteFrame ==
    ASSUME SortedInv, SortedType', UNCHANGED <<seqs, lowerVars, ucols, rose, upperVars>>,
           \A l \in Lowers, u \in Seqs : Stream(l, u)' = Stream(l, u)
    PROVE  SortedInv'
<1>1. /\ UNCHANGED <<seqs, ranges, buffers, emptys, oks, lpc, ucols, rose, upc, itrs, leaves, stored, finished, last>>
      /\ Seqs' = Seqs
  BY DEF lowerVars, upperVars, Seqs
<1>2. /\ Gathered' /\ Lines' /\ \A l \in Lowers, u \in Seqs : Past(l, u)' = Past(l, u)
  BY StreamFrame
<1>3. Fronts'
  <2>1. Fronts
    BY DEF SortedInv
  <2> QED BY <1>1, <2>1 DEF Fronts, Fronted, Waits
<1>4. Chains'
  <2>1. Chains
    BY DEF SortedInv
  <2> QED BY <1>1, <2>1 DEF Chains, Chained, EndKey, ULONG_MAX
<1>5. Merging'
  <2>1. ASSUME NEW u \in Seqs PROVE (Ascending(u) /\ Merged(u))'
    BY <1>1, <1>2, UpperFrame
  <2> QED BY <1>1, <2>1 DEF Merging
<1> QED BY <1>2, <1>3, <1>4, <1>5 DEF SortedInv

\* send_route moves the front of a column into its hand: the stream stays what it is.
LEMMA SendRouteGetStep ==
    ASSUME SortedInv, NEW l \in Lowers, send_route_get(l)
    PROVE  SortedInv'
<1>1. SortedType
  BY DEF SortedInv
<1>2. PICK u : u = lscan[l]
  OBVIOUS
<1>3. u \in Seqs
  BY <1>1, <1>2, Elements, SeqsFacts
<1>4. /\ temp[l] = NoBlock /\ UNCHANGED <<seqs, lowerVars, chan, ucols, rose, upperVars>>
      /\ \/ /\ lcols[l][u] # <<>> /\ temp' = [temp EXCEPT ![l] = Head(lcols[l][u])]
            /\ lcols' = [lcols EXCEPT ![l][u] = Tail(lcols[l][u])] /\ lscan' = lscan
         \/ /\ lscan' = [lscan EXCEPT ![l] = (u % seqs) + 1] /\ temp' = temp /\ lcols' = lcols
  BY <1>2 DEF send_route_get
<1>5. UNCHANGED <<seqs, ranges, buffers, emptys, oks, lpc, upc, itrs, leaves, stored, finished, last>> /\ Seqs' = Seqs
  BY <1>4 DEF lowerVars, upperVars, Seqs
<1>6. /\ lcols \in [Lowers -> [Seqs -> Seq(Blocks)]] /\ lscan \in [Lowers -> Seqs]
      /\ temp \in [Lowers -> Blocks \cup {NoBlock}]
  BY <1>1 DEF SortedType, LineType
<1>7. LowerType' /\ UpperType'
  <2>1. LowerType /\ UpperType
    BY <1>1 DEF SortedType
  <2> QED BY <1>4, <1>5, <2>1 DEF LowerType, UpperType
<1>8. CASE /\ lcols[l][u] # <<>> /\ temp' = [temp EXCEPT ![l] = Head(lcols[l][u])]
           /\ lcols' = [lcols EXCEPT ![l][u] = Tail(lcols[l][u])] /\ lscan' = lscan
  <2>1. PICK a \in Seq(Blocks), c \in Seq(Blocks), d \in Seq(Blocks) :
           a = ucols[u][l] /\ c = chan[l][u] /\ d = lcols[l][u]
    BY <1>1, <1>3, Elements
  <2>2. Head(d) \in Blocks /\ Tail(d) \in Seq(Blocks) /\ d # <<>> /\ Head(d) # NoBlock
    BY <1>8, <2>1, SeqFacts, BlockFacts
  <2>3. /\ lcols' \in [Lowers -> [Seqs -> Seq(Blocks)]] /\ lcols'[l][u] = Tail(d)
        /\ \A k \in Lowers, v \in Seqs : k # l \/ v # u => lcols'[k][v] = lcols[k][v]
    BY <1>3, <1>6, <1>8, <2>1, <2>2
  <2>4. /\ temp' \in [Lowers -> Blocks \cup {NoBlock}] /\ temp'[l] = Head(d)
        /\ \A k \in Lowers : k # l => temp'[k] = temp[k]
    BY <1>6, <1>8, <2>1, <2>2
  <2>5. LineType'
    <3>1. LineType
      BY <1>1 DEF SortedType
    <3> QED BY <1>4, <1>5, <1>8, <2>3, <2>4, <3>1 DEF LineType
  <2>6. Stream(l, u)' = Stream(l, u)
    <3>1. PICK e, x, y : e = <<>> /\ x = <<Head(d)>> /\ y = Tail(d)
      OBVIOUS
    <3>2. Sending(l, u) = e /\ Sending(l, u)' = x
      BY <1>2, <1>4, <1>8, <2>2, <2>4, <3>1 DEF Sending
    <3>3. Stream(l, u) = Four(a, c, e, d)
      BY <2>1, <3>2 DEF Stream, Four
    <3>4. Stream(l, u)' = Four(a, c, x, y)
      BY <1>4, <2>1, <2>3, <3>1, <3>2 DEF Stream, Four
    <3>5. PassedOn(d, e, x, y)
      BY <2>2, <3>1 DEF PassedOn
    <3> QED BY <3>3, <3>4, <3>5, FourPassed
  <2>7. ASSUME NEW k \in Lowers, NEW v \in Seqs, k # l \/ v # u PROVE Stream(k, v)' = Stream(k, v)
    <3>1. Sending(k, v)' = Sending(k, v)
      BY <1>2, <1>8, <2>4, <2>7 DEF Sending
    <3> QED BY <1>4, <2>3, <2>7, <3>1 DEF Stream
  <2> QED BY <1>4, <1>7, <2>5, <2>6, <2>7, RouteFrame DEF SortedType
<1>9. CASE lscan' = [lscan EXCEPT ![l] = (u % seqs) + 1] /\ temp' = temp /\ lcols' = lcols
  <2>1. (u % seqs) + 1 \in Seqs
    BY <1>1, <1>3, NextUpper
  <2>2. lscan' \in [Lowers -> Seqs] /\ \A k \in Lowers : k # l => lscan'[k] = lscan[k]
    BY <1>6, <1>9, <2>1
  <2>3. LineType'
    <3>1. LineType
      BY <1>1 DEF SortedType
    <3> QED BY <1>4, <1>5, <1>9, <2>2, <3>1 DEF LineType
  <2>4. ASSUME NEW k \in Lowers, NEW v \in Seqs PROVE Stream(k, v)' = Stream(k, v)
    <3>1. Sending(k, v)' = Sending(k, v)
      BY <1>4, <1>9, <2>2 DEF Sending
    <3> QED BY <1>4, <1>9, <3>1 DEF Stream
  <2> QED BY <1>4, <1>7, <2>3, <2>4, RouteFrame DEF SortedType
<1> QED BY <1>4, <1>8, <1>9

\* send_route puts the block in its hand on the wire: the stream stays what it is.
LEMMA SendRouteSendStep ==
    ASSUME SortedInv, NEW l \in Lowers, send_route_send(l)
    PROVE  SortedInv'
<1>1. SortedType
  BY DEF SortedInv
<1>2. PICK u : u = lscan[l]
  OBVIOUS
<1>3. u \in Seqs
  BY <1>1, <1>2, Elements, SeqsFacts
<1>4. /\ temp[l] # NoBlock /\ UNCHANGED <<seqs, lowerVars, lcols, ucols, rose, upperVars>>
      /\ chan' = [chan EXCEPT ![l][u] = Append(chan[l][u], temp[l])]
      /\ temp' = [temp EXCEPT ![l] = NoBlock] /\ lscan' = [lscan EXCEPT ![l] = (u % seqs) + 1]
  BY <1>2 DEF send_route_send
<1>5. UNCHANGED <<seqs, ranges, buffers, emptys, oks, lpc, upc, itrs, leaves, stored, finished, last>> /\ Seqs' = Seqs
  BY <1>4 DEF lowerVars, upperVars, Seqs
<1>6. /\ chan \in [Lowers -> [Seqs -> Seq(Blocks)]] /\ lscan \in [Lowers -> Seqs]
      /\ temp \in [Lowers -> Blocks \cup {NoBlock}]
  BY <1>1 DEF SortedType, LineType
<1>7. LowerType' /\ UpperType'
  <2>1. LowerType /\ UpperType
    BY <1>1 DEF SortedType
  <2> QED BY <1>4, <1>5, <2>1 DEF LowerType, UpperType
<1>8. PICK a \in Seq(Blocks), c \in Seq(Blocks), d \in Seq(Blocks), b \in Blocks :
         a = ucols[u][l] /\ c = chan[l][u] /\ d = lcols[l][u] /\ b = temp[l]
  <2>1. temp[l] \in Blocks
    BY <1>4, <1>6
  <2>2. ucols[u][l] \in Seq(Blocks) /\ chan[l][u] \in Seq(Blocks) /\ lcols[l][u] \in Seq(Blocks)
    BY <1>1, <1>3, Elements
  <2> QED BY <2>1, <2>2
<1>9. Append(c, b) \in Seq(Blocks)
  BY SeqFacts
<1>10. /\ chan' \in [Lowers -> [Seqs -> Seq(Blocks)]] /\ chan'[l][u] = Append(c, b)
       /\ \A k \in Lowers, v \in Seqs : k # l \/ v # u => chan'[k][v] = chan[k][v]
  BY <1>3, <1>4, <1>6, <1>8, <1>9
<1>11. /\ temp' \in [Lowers -> Blocks \cup {NoBlock}] /\ temp'[l] = NoBlock
       /\ \A k \in Lowers : k # l => temp'[k] = temp[k]
  BY <1>4, <1>6
<1>12. (u % seqs) + 1 \in Seqs
  BY <1>1, <1>3, NextUpper
<1>13. lscan' \in [Lowers -> Seqs] /\ \A k \in Lowers : k # l => lscan'[k] = lscan[k]
  BY <1>4, <1>6, <1>12
<1>14. LineType'
  <2>1. LineType
    BY <1>1 DEF SortedType
  <2> QED BY <1>4, <1>5, <1>10, <1>11, <1>13, <2>1 DEF LineType
<1>15. Stream(l, u)' = Stream(l, u)
  <2>1. PICK e, x, y : e = <<>> /\ x = Append(c, b) /\ y = <<b>>
    OBVIOUS
  <2>2. Sending(l, u) = y /\ Sending(l, u)' = e
    BY <1>2, <1>4, <1>8, <1>11, <2>1 DEF Sending
  <2>3. Stream(l, u) = Four(a, c, y, d)
    BY <1>8, <2>2 DEF Stream, Four
  <2>4. Stream(l, u)' = Four(a, x, e, d)
    BY <1>4, <1>8, <1>10, <2>1, <2>2 DEF Stream, Four
  <2>5. SentOn(c, b, e, x, y)
    BY <2>1 DEF SentOn
  <2> QED BY <2>3, <2>4, <2>5, FourSent
<1>16. ASSUME NEW k \in Lowers, NEW v \in Seqs, k # l \/ v # u PROVE Stream(k, v)' = Stream(k, v)
  <2>1. Sending(k, v)' = Sending(k, v)
    <3>1. CASE k = l
      BY <1>2, <1>11, <1>16, <3>1 DEF Sending
    <3>2. CASE k # l
      BY <1>11, <1>13, <3>2 DEF Sending
    <3> QED BY <3>1, <3>2
  <2> QED BY <1>4, <1>10, <1>16, <2>1 DEF Stream
<1> QED BY <1>4, <1>7, <1>14, <1>15, <1>16, RouteFrame DEF SortedType

\* A set of natural numbers has a least element.
LEMMA LeastKey ==
    ASSUME NEW S \in SUBSET Nat, S # {} PROVE \E x \in S : \A y \in S : x <= y
<1> DEFINE R == {a \in Nat \X Nat : a[1] < a[2]}
<1>1. IsWellFoundedOn(R, Nat)
  BY NatLessThanWellFounded DEF OpToRel
<1>2. \A a, b \in Nat : a < b => <<a, b>> \in R
  OBVIOUS
<1> HIDE DEF R
<1>3. PICK x \in S : \A y \in S : <<y, x>> \notin R
  BY <1>1, WFMin
<1>4. \A y \in S : ~ (y < x)
  BY <1>2, <1>3
<1> QED BY <1>4

\* Tuples that do not fall from one to the next ascend.
LEMMA StepwiseAscends ==
    ASSUME NEW v \in Tuples, \A k \in 2 .. Counted : v[k - 1] <= v[k]
    PROVE  Ascends(v) /\ v[1] <= v[Counted]
<1>1. Counted \in Nat /\ Counted >= 1 /\ \A k \in 1 .. Counted : v[k] \in Nat
  BY Sizes, BlockFacts
<1>2. ASSUME NEW i \in 1 .. Counted PROVE \A j \in 1 .. Counted : i <= j => v[i] <= v[j]
  <2>1. PICK S : S = {j \in 1 .. Counted : i <= j /\ ~ (v[i] <= v[j])}
    OBVIOUS
  <2>2. SUFFICES S = {}
    BY <2>1
  <2>3. SUFFICES ASSUME S # {} PROVE FALSE
    OBVIOUS
  <2>4. S \in SUBSET Nat
    BY <1>1, <2>1
  <2>5. PICK x \in S : \A y \in S : x <= y
    BY <2>3, <2>4, LeastKey
  <2>6. x \in 1 .. Counted /\ i <= x /\ ~ (v[i] <= v[x]) /\ x # i
    BY <1>1, <2>1, <2>5
  <2>7. x - 1 \in 1 .. Counted /\ i <= x - 1 /\ x \in 2 .. Counted
    BY <1>1, <2>6
  <2>8. v[i] <= v[x - 1]
    <3>1. x - 1 \notin S
      BY <2>5, <2>7
    <3> QED BY <2>1, <2>7, <3>1
  <2>9. v[x - 1] <= v[x]
    BY <2>7
  <2>10. v[i] \in Nat /\ v[x - 1] \in Nat /\ v[x] \in Nat
    BY <1>1, <2>6, <2>7
  <2> QED BY <2>6, <2>8, <2>9, <2>10
<1>3. Ascends(v)
  BY <1>2 DEF Ascends
<1>4. v[1] <= v[Counted]
  BY <1>1, <1>2
<1> QED BY <1>3, <1>4

\* What the receive thread puts behind the column.
LEMMA ChainPut ==
    ASSUME NEW leaf \in Nat, NEW it \in Seq(Key), NEW c \in Seq(Blocks), NEW r \in Key, Chain(leaf, it, c, r),
           NEW b \in Block, \A k \in 2 .. Counted : b.slots[k - 1] <= b.slots[k], r <= b.slots[1]
    PROVE  Chain(leaf, it, Append(c, b), b.slots[Counted])
<1>1. b.slots \in Tuples /\ Counted \in Nat /\ Counted >= 1 /\ b # Marker
  BY BlockFacts, Sizes
<1>2. Ascends(b.slots) /\ b.slots[1] <= b.slots[Counted] /\ b.slots[1] \in Nat /\ b.slots[Counted] \in Nat
  <2>1. 1 \in 1 .. Counted /\ Counted \in 1 .. Counted
    BY <1>1
  <2> QED BY <1>1, <2>1, StepwiseAscends, BlockFacts
<1>3. PICK x, y : x = b.slots[1] /\ y = b.slots[Counted]
  OBVIOUS
<1>4. x \in Nat /\ y \in Nat /\ x <= y /\ r \in Nat /\ r <= x /\ r <= y
  BY <1>2, <1>3, Sizes DEF Key
<1>5. Len(it) \in Nat /\ \A k \in 1 .. Len(it) : it[k] \in Nat
  BY SeqFacts, Sizes DEF Key
<1>6. PICK t : t = Append(c, b)
  OBVIOUS
<1>7. /\ Len(c) \in Nat /\ Len(t) = Len(c) + 1 /\ t[Len(c) + 1] = b
      /\ \A k \in 1 .. Len(c) : t[k] = c[k] /\ c[k] \in Blocks
  BY <1>6, SeqFacts, BlockFacts
<1>8. \A k \in 1 .. Len(c) : c[k] # Marker => c[k].slots[1] \in Nat /\ c[k].slots[Counted] \in Nat
  <2>1. 1 \in 1 .. Counted /\ Counted \in 1 .. Counted
    BY <1>1
  <2> QED BY <1>7, <2>1, BlockFacts
<1>9. /\ leaf <= y /\ \A k \in 1 .. Len(it) : leaf <= it[k] /\ it[k] <= y /\ it[k] <= x
      /\ leaf <= x
  BY <1>4, <1>5 DEF Chain
<1>10. ASSUME NEW k \in 1 .. Len(t), t[k] # Marker
       PROVE  /\ Ascends(t[k].slots) /\ leaf <= t[k].slots[1] /\ t[k].slots[Counted] <= y
              /\ \A i \in 1 .. Len(it) : it[i] <= t[k].slots[1]
  <2>1. CASE k \in 1 .. Len(c)
    <3>1. /\ Ascends(c[k].slots) /\ leaf <= c[k].slots[1] /\ c[k].slots[Counted] <= r
          /\ \A i \in 1 .. Len(it) : it[i] <= c[k].slots[1]
      BY <1>7, <1>10, <2>1 DEF Chain
    <3>2. c[k].slots[Counted] <= y
      BY <1>4, <1>7, <1>8, <1>10, <2>1, <3>1
    <3> QED BY <1>7, <2>1, <3>1, <3>2
  <2>2. CASE k = Len(c) + 1
    <3>1. t[k] = b
      BY <1>7, <2>2
    <3> QED BY <1>2, <1>3, <1>4, <1>9, <3>1
  <2> QED BY <1>7, <2>1, <2>2
<1>11. ASSUME NEW i \in 1 .. Len(t), NEW j \in 1 .. Len(t), i < j, t[i] # Marker, t[j] # Marker
       PROVE  t[i].slots[Counted] <= t[j].slots[1]
  <2>1. i \in 1 .. Len(c) /\ t[i] = c[i]
    BY <1>7, <1>11
  <2>2. CASE j \in 1 .. Len(c)
    BY <1>7, <1>11, <2>1, <2>2 DEF Chain
  <2>3. CASE j = Len(c) + 1
    <3>1. c[i].slots[Counted] <= r
      BY <1>11, <2>1 DEF Chain
    <3>2. c[i].slots[Counted] \in Nat /\ t[j] = b
      BY <1>7, <1>8, <1>11, <2>1, <2>3
    <3> QED BY <1>3, <1>4, <2>1, <3>1, <3>2
  <2> QED BY <1>7, <2>2, <2>3
<1>12. \A i, j \in 1 .. Len(it) : i < j => it[i] <= it[j]
  BY DEF Chain
<1> QED BY <1>3, <1>6, <1>9, <1>10, <1>11, <1>12 DEF Chain

LEMMA ChainMark ==
    ASSUME NEW leaf, NEW it, NEW c \in Seq(Blocks), NEW r, Chain(leaf, it, c, r)
    PROVE  Chain(leaf, it, Append(c, Marker), r)
<1>1. PICK t : t = Append(c, Marker)
  OBVIOUS
<1>2. /\ Len(c) \in Nat /\ Len(t) = Len(c) + 1 /\ t[Len(c) + 1] = Marker
      /\ \A k \in 1 .. Len(c) : t[k] = c[k]
  BY <1>1, SeqFacts, BlockFacts
<1>3. \A k \in 1 .. Len(t) : t[k] # Marker => k \in 1 .. Len(c) /\ t[k] = c[k]
  BY <1>2
<1>4. Chain(leaf, it, t, r)
  BY <1>3 DEF Chain
<1> QED BY <1>1, <1>4

\* A block that arrives goes behind its column, and its tuples join the chain.
LEMMA ReceiveStep ==
    ASSUME SortedInv, NEW u \in Seqs, NEW l \in Lowers, receive_route(u, l)
    PROVE  SortedInv'
<1>1. SortedType
  BY DEF SortedInv
<1>2. PICK a \in Seq(Blocks), c \in Seq(Blocks), h \in Seq(Blocks), d \in Seq(Blocks) :
         a = ucols[u][l] /\ c = chan[l][u] /\ h = Sending(l, u) /\ d = lcols[l][u]
  BY <1>1, StreamIs, Elements
<1>3. PICK b : b = Head(c)
  OBVIOUS
<1>4. /\ c # <<>> /\ chan' = [chan EXCEPT ![l][u] = Tail(c)]
      /\ \/ /\ Len(a) < COLUMN_CON /\ ucols' = [ucols EXCEPT ![u][l] = Append(a, b)]
            /\ rose' = [rose EXCEPT ![u][l] = Risen(rose[u][l], b)]
         \/ ~ (Len(a) < COLUMN_CON) /\ ucols' = ucols /\ rose' = rose
      /\ UNCHANGED <<seqs, lowerVars, lcols, lscan, temp, upperVars>>
  BY <1>2, <1>3 DEF receive_route, sendVars
<1>5. UNCHANGED <<seqs, ranges, buffers, emptys, oks, lpc, upc, itrs, leaves, stored, finished, last>> /\ Seqs' = Seqs
  BY <1>4 DEF lowerVars, upperVars, Seqs
<1>6. b \in Blocks /\ Tail(c) \in Seq(Blocks) /\ Append(a, b) \in Seq(Blocks)
  BY <1>3, <1>4, SeqFacts
<1>7. /\ chan \in [Lowers -> [Seqs -> Seq(Blocks)]] /\ ucols \in [Seqs -> [Lowers -> Seq(Blocks)]]
      /\ rose \in [Seqs -> [Lowers -> Key \cup {-1}]]
  BY <1>1 DEF SortedType, LineType, UpperType
<1>8. /\ chan' \in [Lowers -> [Seqs -> Seq(Blocks)]] /\ chan'[l][u] = Tail(c)
      /\ \A k \in Lowers, v \in Seqs : k # l \/ v # u => chan'[k][v] = chan[k][v]
  BY <1>4, <1>6, <1>7
<1>9. Risen(rose[u][l], b) \in Key \cup {-1} /\ (Risen(rose[u][l], b) # -1 => rose[u][l] # -1)
  <2>1. rose[u][l] \in Key \cup {-1} /\ Counted \in 1 .. Counted
    BY <1>7, Sizes
  <2>2. b # Marker => b.slots[Counted] \in Key
    BY <1>6, <2>1, BlockFacts
  <2> QED BY <2>1, <2>2 DEF Risen
<1>10. /\ ucols' \in [Seqs -> [Lowers -> Seq(Blocks)]] /\ rose' \in [Seqs -> [Lowers -> Key \cup {-1}]]
       /\ \A k \in Lowers, v \in Seqs : k # l \/ v # u => ucols'[v][k] = ucols[v][k] /\ rose'[v][k] = rose[v][k]
       /\ rose'[u][l] # -1 => rose[u][l] # -1
       /\ \/ ucols'[u][l] = a /\ rose'[u][l] = rose[u][l] /\ ~ (Len(a) < COLUMN_CON)
          \/ ucols'[u][l] = Append(a, b) /\ rose'[u][l] = Risen(rose[u][l], b)
  <2>1. CASE /\ Len(a) < COLUMN_CON /\ ucols' = [ucols EXCEPT ![u][l] = Append(a, b)]
             /\ rose' = [rose EXCEPT ![u][l] = Risen(rose[u][l], b)]
    BY <1>6, <1>7, <1>9, <2>1
  <2>2. CASE ~ (Len(a) < COLUMN_CON) /\ ucols' = ucols /\ rose' = rose
    BY <1>2, <1>7, <2>2
  <2> QED BY <1>4, <2>1, <2>2
<1>11. SortedType'
  <2>1. LowerType /\ LineType /\ UpperType
    BY <1>1 DEF SortedType
  <2>2. LowerType'
    BY <1>5, <2>1 DEF LowerType
  <2>3. LineType'
    BY <1>4, <1>5, <1>8, <1>10, <2>1 DEF LineType
  <2>4. UpperType'
    BY <1>5, <1>10, <2>1 DEF UpperType
  <2> QED BY <2>2, <2>3, <2>4 DEF SortedType
<1>12. ASSUME NEW k \in Lowers, NEW v \in Seqs, k # l \/ v # u PROVE Stream(k, v)' = Stream(k, v)
  <2>1. Sending(k, v)' = Sending(k, v)
    BY <1>4 DEF Sending
  <2> QED BY <1>4, <1>8, <1>10, <1>12, <2>1 DEF Stream
<1>13. PICK r \in Seq(Blocks) : r = Stream(l, u)
  BY <1>1, StreamIs
<1>14. r = Four(a, c, h, d) /\ r # <<>>
  <2>1. r = Four(a, c, h, d)
    BY <1>1, <1>2, <1>13, StreamIs
  <2>2. chan[l][u] # <<>>
    BY <1>2, <1>4
  <2> QED BY <1>1, <1>13, <2>1, <2>2, StreamIs
<1>15. \/ Stream(l, u)' = r
       \/ Without(r, Stream(l, u)', Len(a) + 1) /\ a # <<>>
  <2>1. Sending(l, u)' = h
    BY <1>2, <1>4 DEF Sending
  <2>2. PICK y : y = Tail(c)
    OBVIOUS
  <2>3. CASE ucols'[u][l] = a /\ ~ (Len(a) < COLUMN_CON)
    <3>1. PICK t : t = Four(a, y, h, d)
      OBVIOUS
    <3>2. Stream(l, u)' = t
      BY <1>2, <1>4, <1>8, <2>1, <2>2, <2>3, <3>1 DEF Stream, Four
    <3>3. Lost(c, y)
      BY <1>4, <2>2 DEF Lost
    <3>4. Without(r, t, Len(a) + 1)
      BY <1>14, <3>1, <3>3, FourLost
    <3>5. a # <<>>
      BY <2>3, Sizes, SeqFacts
    <3> QED BY <3>2, <3>4, <3>5
  <2>4. CASE ucols'[u][l] = Append(a, b)
    <3>1. PICK x : x = Append(a, b)
      OBVIOUS
    <3>2. Stream(l, u)' = Four(x, y, h, d)
      BY <1>2, <1>4, <1>8, <2>1, <2>2, <2>4, <3>1 DEF Stream, Four
    <3>3. Received(a, c, x, y)
      BY <1>3, <1>4, <2>2, <3>1 DEF Received
    <3> QED BY <1>14, <3>2, <3>3, FourReceived
  <2> QED BY <1>10, <2>3, <2>4
<1>16. /\ Gathered' /\ Lines'
       /\ \A k \in Lowers, v \in Seqs : Past(k, v)' = Past(k, v) /\ Stream(k, v)' \in Seq(Blocks)
  <2>1. ASSUME NEW k \in Lowers, NEW v \in Seqs
        PROVE  Stream(k, v)' = Stream(k, v) \/ \E g : Without(Stream(k, v), Stream(k, v)', g)
    BY <1>12, <1>13, <1>15
  <2> QED BY <1>4, <1>11, <2>1, StreamFrame
<1>17. Fronts'
  <2>1. ASSUME NEW k \in Lowers, NEW v \in Seqs PROVE Fronted(k, v)'
    <3>1. Fronted(k, v) /\ Waits(v, k)' = Waits(v, k) /\ buffers' = buffers
      BY <1>5 DEF SortedInv, Fronts, Waits
    <3>2. CASE k # l \/ v # u \/ Stream(l, u)' = r
      <4>1. Stream(k, v)' = Stream(k, v)
        BY <1>12, <1>13, <3>2
      <4> QED BY <3>1, <4>1 DEF Fronted
    <3>3. CASE k = l /\ v = u /\ Without(r, Stream(l, u)', Len(a) + 1) /\ a # <<>>
      <4>1. PICK t \in Seq(Blocks) : t = Stream(l, u)'
        BY <1>16
      <4>2. Len(a) \in Nat /\ Len(a) > 0
        BY <3>3, SeqFacts
      <4>3. /\ Len(r) \in Nat /\ Len(a) + 1 \in 1 .. Len(r) /\ Len(t) = Len(r) - 1
            /\ \A n \in 1 .. Len(t) : t[n] = IF n < Len(a) + 1 THEN r[n] ELSE r[n + 1]
        BY <3>3, <4>1, SeqFacts DEF Without
      <4>4. Len(t) > 0 /\ t[1] = r[1]
        <5>1. Len(t) \in Nat /\ Len(t) > 0 /\ 1 \in 1 .. Len(t) /\ 1 < Len(a) + 1
          BY <4>2, <4>3
        <5> QED BY <4>3, <5>1
      <4>5. t # <<>>
        BY <4>4, SeqFacts
      <4> QED BY <1>13, <1>14, <3>1, <3>3, <4>1, <4>4, <4>5 DEF Fronted
    <3> QED BY <1>15, <3>2, <3>3
  <2> QED BY <1>5, <2>1 DEF Fronts
<1>18. Chains'
  <2>1. ASSUME NEW v \in Seqs, NEW k \in Lowers PROVE Chained(v, k)'
    <3>1. Chained(v, k) /\ EndKey' = EndKey
      BY DEF SortedInv, Chains, EndKey, ULONG_MAX
    <3>2. CASE k # l \/ v # u
      BY <1>5, <1>10, <3>1, <3>2 DEF Chained
    <3>3. CASE k = l /\ v = u
      <4>1. SUFFICES ASSUME rose'[u][l] # -1, leaves[u][l] # EndKey
                     PROVE  Chain(leaves[u][l], itrs[u][l], ucols'[u][l], rose'[u][l])
        BY <1>5, <3>1, <3>3 DEF Chained
      <4>2. PICK leaf \in Nat, it \in Seq(Key), s \in Key :
               leaf = leaves[u][l] /\ it = itrs[u][l] /\ s = rose[u][l]
        <5>1. rose[u][l] \in Key
          BY <1>7, <1>10, <4>1
        <5> QED BY <1>1, <5>1, Elements
      <4>3. Chain(leaf, it, a, s) /\ s # -1
        BY <1>2, <1>10, <3>1, <3>3, <4>1, <4>2 DEF Chained
      <4>4. CASE ucols'[u][l] = a /\ rose'[u][l] = rose[u][l]
        BY <4>2, <4>3, <4>4
      <4>5. CASE ucols'[u][l] = Append(a, b) /\ rose'[u][l] = Risen(s, b)
        <5>1. CASE b = Marker
          BY <4>2, <4>3, <4>5, <5>1, ChainMark DEF Risen
        <5>2. CASE b # Marker
          <6>1. /\ b \in Block /\ s <= b.slots[1] /\ (\A n \in 2 .. Counted : b.slots[n - 1] <= b.slots[n])
                /\ rose'[u][l] = b.slots[Counted]
            BY <1>6, <4>1, <4>5, <5>2, BlockFacts DEF Risen
          <6>2. Chain(leaf, it, Append(a, b), b.slots[Counted])
            BY <4>3, <6>1, ChainPut
          <6> QED BY <4>2, <4>5, <6>1, <6>2
        <5> QED BY <5>1, <5>2
      <4> QED BY <1>10, <4>2, <4>4, <4>5
    <3> QED BY <3>2, <3>3
  <2> QED BY <1>5, <2>1 DEF Chains
<1>19. Merging'
  <2>1. ASSUME NEW v \in Seqs PROVE (Ascending(v) /\ Merged(v))'
    <3>1. \A k \in Lowers : Stream(k, v) = <<>> => Stream(k, v)' = <<>>
      BY <1>12, <1>13, <1>14
    <3>2. \A k \in Lowers : rose'[v][k] # -1 => rose[v][k] # -1
      BY <1>10
    <3>3. \A k \in Lowers : Past(k, v) => Past(k, v)' /\ (Stream(k, v) = <<>> => Stream(k, v)' = <<>>)
      BY <1>16, <3>1
    <3> QED BY <1>5, <3>2, <3>3, UpperFrame
  <2> QED BY <1>5, <2>1 DEF Merging
<1> QED BY <1>11, <1>16, <1>17, <1>18, <1>19 DEF SortedInv

-----------------------------------------------------------------------------
(* Steps of get_sorted.                                                    *)

LEMMA TuplesFacts ==
    ASSUME NEW v \in Tuples
    PROVE  /\ Head(v) = v[1] /\ v[1] \in Key /\ v[1] \in Nat /\ v[1] # EndKey /\ v[1] \in 0 .. ULONG_MAX
           /\ Tail(v) \in Seq(Key) /\ Len(Tail(v)) = Counted - 1
           /\ \A k \in 1 .. Counted - 1 : Tail(v)[k] = v[k + 1]
<1>1. Counted \in Nat /\ Counted >= 1 /\ v \in [1 .. Counted -> Key] /\ ULONG_MAX \in Nat
  BY Sizes DEF Tuples
<1>2. v \in Seq(Key) /\ Len(v) = Counted
  BY <1>1
<1>3. v # <<>>
  BY <1>1, <1>2, SeqFacts
<1>4. Head(v) = v[1] /\ v[1] \in Key /\ Tail(v) \in Seq(Key) /\ Len(Tail(v)) = Counted - 1
      /\ \A k \in 1 .. Counted - 1 : Tail(v)[k] = v[k + 1]
  BY <1>2, <1>3, SeqFacts
<1> QED BY <1>1, <1>4 DEF Key, EndKey

\* The next tuple of the block becomes the leaf, the next block does, or the marker goes.
LEMMA ChainTuple ==
    ASSUME NEW leaf, NEW it \in Seq(Key), NEW c, NEW r, Chain(leaf, it, c, r), it # <<>>
    PROVE  Chain(Head(it), Tail(it), c, r) /\ leaf <= Head(it)
<1>1. PICK t, x : t = Tail(it) /\ x = Head(it)
  OBVIOUS
<1>2. /\ Len(it) \in Nat /\ Len(it) > 0 /\ x = it[1] /\ Len(t) = Len(it) - 1
      /\ \A k \in 1 .. Len(it) - 1 : t[k] = it[k + 1]
  BY <1>1, SeqFacts
<1>3. 1 \in 1 .. Len(it) /\ \A k \in 1 .. Len(t) : k + 1 \in 1 .. Len(it) /\ t[k] = it[k + 1] /\ 1 < k + 1
  BY <1>2
<1>4. x <= r /\ leaf <= x /\ \A k \in 1 .. Len(t) : x <= t[k] /\ t[k] <= r
  BY <1>2, <1>3 DEF Chain
<1>5. \A i, j \in 1 .. Len(t) : i < j => t[i] <= t[j]
  <2>1. \A i, j \in 1 .. Len(t) : i < j => i + 1 < j + 1
    BY <1>2
  <2> QED BY <1>3, <2>1 DEF Chain
<1>6. \A k \in 1 .. Len(c) : c[k] # Marker =>
          /\ Ascends(c[k].slots) /\ x <= c[k].slots[1] /\ c[k].slots[Counted] <= r
          /\ \A i \in 1 .. Len(t) : t[i] <= c[k].slots[1]
  BY <1>2, <1>3 DEF Chain
<1>7. \A i, j \in 1 .. Len(c) : i < j /\ c[i] # Marker /\ c[j] # Marker =>
          c[i].slots[Counted] <= c[j].slots[1]
  BY DEF Chain
<1> QED BY <1>1, <1>4, <1>5, <1>6, <1>7 DEF Chain

LEMMA ChainTail ==
    ASSUME NEW leaf, NEW it, NEW c \in Seq(Blocks), NEW r, Chain(leaf, it, c, r), c # <<>>
    PROVE  Chain(leaf, it, Tail(c), r)
<1>1. PICK t : t = Tail(c)
  OBVIOUS
<1>2. Len(c) \in Nat /\ Len(t) = Len(c) - 1 /\ \A k \in 1 .. Len(c) - 1 : t[k] = c[k + 1]
  BY <1>1, SeqFacts
<1>3. \A k \in 1 .. Len(t) : k + 1 \in 1 .. Len(c) /\ t[k] = c[k + 1]
  BY <1>2
<1>4. \A i, j \in 1 .. Len(t) : i < j => i + 1 < j + 1
  BY <1>2
<1>5. Chain(leaf, it, t, r)
  BY <1>3, <1>4 DEF Chain
<1> QED BY <1>1, <1>5

LEMMA ChainBlock ==
    ASSUME NEW leaf, NEW it, NEW c \in Seq(Blocks), NEW r \in Nat, Chain(leaf, it, c, r), c # <<>>,
           NEW b \in Block, b = Head(c)
    PROVE  Chain(Head(b.slots), Tail(b.slots), Tail(c), r) /\ leaf <= Head(b.slots)
<1>1. PICK t, x, y, v : t = Tail(c) /\ x = Head(b.slots) /\ y = Tail(b.slots) /\ v = b.slots
  OBVIOUS
<1>2. /\ v \in Tuples /\ Counted \in Nat /\ Counted >= 1 /\ b # Marker
      /\ x = v[1] /\ Len(y) = Counted - 1 /\ \A k \in 1 .. Counted - 1 : y[k] = v[k + 1]
  BY <1>1, BlockFacts, Sizes, TuplesFacts
<1>3. \A k \in 1 .. Counted : v[k] \in Nat
  BY <1>2, BlockFacts
<1>4. /\ Len(c) \in Nat /\ Len(c) > 0 /\ c[1] = b /\ Len(t) = Len(c) - 1
      /\ \A k \in 1 .. Len(c) - 1 : t[k] = c[k + 1]
  BY <1>1, SeqFacts
<1>5. 1 \in 1 .. Len(c) /\ \A k \in 1 .. Len(t) : k + 1 \in 1 .. Len(c) /\ t[k] = c[k + 1] /\ 1 < k + 1
  BY <1>4
<1>6. Ascends(v) /\ leaf <= v[1] /\ v[Counted] <= r
  BY <1>1, <1>2, <1>4, <1>5 DEF Chain
<1>7. ASSUME NEW k \in 1 .. Counted PROVE v[1] <= v[k] /\ v[k] <= v[Counted] /\ v[k] <= r
  <2>1. /\ k \in Nat /\ (k = 1 \/ 1 < k) /\ (k = Counted \/ k < Counted) /\ 1 \in 1 .. Counted /\ Counted \in 1 .. Counted
        /\ v[k] \in Nat /\ v[1] \in Nat /\ v[Counted] \in Nat
    BY <1>2, <1>3
  <2>2. v[1] <= v[k] /\ v[k] <= v[Counted]
    BY <1>6, <2>1 DEF Ascends
  <2> QED BY <1>6, <2>1, <2>2
<1>8. x <= r /\ \A k \in 1 .. Len(y) : x <= y[k] /\ y[k] <= r
  <2>1. 1 \in 1 .. Counted /\ \A k \in 1 .. Len(y) : k + 1 \in 1 .. Counted /\ y[k] = v[k + 1]
    BY <1>2
  <2> QED BY <1>2, <1>7, <2>1
<1>9. \A i, j \in 1 .. Len(y) : i < j => y[i] <= y[j]
  <2>1. \A k \in 1 .. Len(y) : k + 1 \in 1 .. Counted /\ y[k] = v[k + 1]
    BY <1>2
  <2>2. \A i, j \in 1 .. Len(y) : i < j => i + 1 < j + 1
    BY <1>2
  <2> QED BY <1>6, <2>1, <2>2 DEF Ascends
<1>10. ASSUME NEW k \in 1 .. Len(t), t[k] # Marker
       PROVE  /\ Ascends(t[k].slots) /\ x <= t[k].slots[1] /\ t[k].slots[Counted] <= r
              /\ \A i \in 1 .. Len(y) : y[i] <= t[k].slots[1]
  <2>1. PICK w : w = t[k].slots
    OBVIOUS
  <2>2. t[k] \in Blocks /\ w \in Tuples
    BY <1>5, <1>10, <2>1, SeqFacts, BlockFacts
  <2>3. Ascends(w) /\ w[Counted] <= r /\ v[Counted] <= w[1]
    BY <1>1, <1>2, <1>4, <1>5, <1>10, <2>1 DEF Chain
  <2>4. w[1] \in Nat /\ v[Counted] \in Nat
    BY <1>2, <1>3, <2>2, BlockFacts
  <2>5. ASSUME NEW i \in 1 .. Counted PROVE v[i] <= w[1]
    BY <1>3, <1>7, <2>3, <2>4
  <2>6. 1 \in 1 .. Counted /\ \A i \in 1 .. Len(y) : i + 1 \in 1 .. Counted /\ y[i] = v[i + 1]
    BY <1>2
  <2> QED BY <1>2, <2>1, <2>3, <2>5, <2>6
<1>11. \A i, j \in 1 .. Len(t) : i < j /\ t[i] # Marker /\ t[j] # Marker =>
          t[i].slots[Counted] <= t[j].slots[1]
  <2>1. \A i, j \in 1 .. Len(t) : i < j => i + 1 < j + 1
    BY <1>4
  <2> QED BY <1>5, <2>1 DEF Chain
<1>12. Chain(x, y, t, r)
  BY <1>8, <1>9, <1>10, <1>11 DEF Chain
<1> QED BY <1>1, <1>2, <1>6, <1>12

\* get_sorted takes the first block of column l of upper u.
Taking(u, l) ==
    /\ ucols[u][l] # <<>> /\ ucols' = [ucols EXCEPT ![u][l] = Tail(ucols[u][l])]
    /\ UNCHANGED <<seqs, lowerVars, lcols, lscan, temp, chan, rose>>
LEMMA TakeEffect ==
    ASSUME SortedInv, NEW u \in Seqs, NEW l \in Lowers, Taking(u, l), UpperType'
    PROVE  /\ SortedType' /\ Gathered' /\ Lines' /\ Seqs' = Seqs /\ buffers' = buffers
           /\ ucols'[u][l] = Tail(ucols[u][l]) /\ Head(ucols[u][l]) \in Blocks
           /\ Stream(l, u) # <<>> /\ Stream(l, u)[1] = Head(ucols[u][l])
           /\ Without(Stream(l, u), Stream(l, u)', 1) /\ Stream(l, u)' \in Seq(Blocks)
           /\ \A k \in Lowers, v \in Seqs : /\ Past(k, v)' = Past(k, v)
                                            /\ k # l \/ v # u => /\ Stream(k, v)' = Stream(k, v)
                                                                 /\ ucols'[v][k] = ucols[v][k]
<1>1. SortedType
  BY DEF SortedInv
<1>2. PICK a \in Seq(Blocks), c \in Seq(Blocks), h \in Seq(Blocks), d \in Seq(Blocks) :
         a = ucols[u][l] /\ c = chan[l][u] /\ h = Sending(l, u) /\ d = lcols[l][u]
  BY <1>1, StreamIs, Elements
<1>3. /\ a # <<>> /\ ucols' = [ucols EXCEPT ![u][l] = Tail(a)]
      /\ UNCHANGED <<seqs, lowerVars, lcols, lscan, temp, chan, rose>>
  BY <1>2 DEF Taking
<1>4. Tail(a) \in Seq(Blocks) /\ Head(a) = a[1] /\ Head(a) \in Blocks
  BY <1>3, SeqFacts
<1>5. UNCHANGED <<seqs, ranges, buffers, emptys, oks, lpc>> /\ Seqs' = Seqs
  BY <1>3 DEF lowerVars, Seqs
<1>6. /\ ucols' \in [Seqs -> [Lowers -> Seq(Blocks)]] /\ ucols'[u][l] = Tail(a)
      /\ \A k \in Lowers, v \in Seqs : k # l \/ v # u => ucols'[v][k] = ucols[v][k]
  <2>1. ucols \in [Seqs -> [Lowers -> Seq(Blocks)]]
    BY <1>1 DEF SortedType, LineType
  <2> QED BY <1>3, <1>4, <2>1
<1>7. SortedType'
  <2>1. LowerType /\ LineType
    BY <1>1 DEF SortedType
  <2>2. LowerType'
    BY <1>5, <2>1 DEF LowerType
  <2>3. LineType'
    BY <1>3, <1>5, <1>6, <2>1 DEF LineType
  <2> QED BY <2>2, <2>3 DEF SortedType
<1>8. \A k \in Lowers, v \in Seqs : Sending(k, v)' = Sending(k, v)
  BY <1>3 DEF Sending
<1>9. \A k \in Lowers, v \in Seqs : k # l \/ v # u => Stream(k, v)' = Stream(k, v)
  BY <1>3, <1>6, <1>8 DEF Stream
<1>10. Without(Stream(l, u), Stream(l, u)', 1)
  <2>1. PICK y, r, t : y = Tail(a) /\ r = Four(a, c, h, d) /\ t = Four(y, c, h, d)
    OBVIOUS
  <2>2. Stream(l, u) = r
    BY <1>1, <1>2, <2>1, StreamIs
  <2>3. Stream(l, u)' = t
    BY <1>2, <1>3, <1>6, <1>8, <2>1 DEF Stream, Four
  <2>4. Lost(a, y)
    BY <1>3, <2>1 DEF Lost
  <2>5. Without(r, t, 1)
    BY <2>1, <2>4, FourLost
  <2> QED BY <2>2, <2>3, <2>5
<1>11. /\ Gathered' /\ Lines'
       /\ \A k \in Lowers, v \in Seqs : Past(k, v)' = Past(k, v) /\ Stream(k, v)' \in Seq(Blocks)
  <2>1. ASSUME NEW k \in Lowers, NEW v \in Seqs
        PROVE  Stream(k, v)' = Stream(k, v) \/ \E g : Without(Stream(k, v), Stream(k, v)', g)
    BY <1>9, <1>10
  <2> QED BY <1>3, <1>7, <2>1, StreamFrame
<1>12. Stream(l, u) # <<>> /\ Stream(l, u)[1] = a[1]
  BY <1>1, <1>2, <1>3, StreamIs
<1> QED BY <1>2, <1>4, <1>5, <1>6, <1>7, <1>9, <1>10, <1>11, <1>12

\* Only upper u moves, and of its columns only l.
Uppering(u, l) ==
    /\ \A v \in Seqs : v # u => /\ upc'[v] = upc[v] /\ itrs'[v] = itrs[v] /\ leaves'[v] = leaves[v]
                                /\ stored'[v] = stored[v] /\ finished'[v] = finished[v] /\ last'[v] = last[v]
    /\ \A k \in Lowers : k # l => leaves'[u][k] = leaves[u][k] /\ itrs'[u][k] = itrs[u][k]

LEMMA UpperStep ==
    ASSUME SortedInv, SortedType', Gathered', Lines', Seqs' = Seqs, buffers' = buffers, rose' = rose,
           seqs' = seqs, NEW u \in Seqs, NEW l \in Lowers, Uppering(u, l),
           \A k \in Lowers, v \in Seqs : /\ Past(k, v)' = Past(k, v)
                                         /\ k # l \/ v # u => /\ Stream(k, v)' = Stream(k, v)
                                                              /\ ucols'[v][k] = ucols[v][k],
           Fronted(l, u)', \A k \in Lowers : k # l /\ Waits(u, k)' => Waits(u, k),
           Chained(u, l)', Ascending(u)', Merged(u)'
    PROVE  SortedInv'
<1>1. Fronts'
  <2>1. ASSUME NEW k \in Lowers, NEW v \in Seqs PROVE Fronted(k, v)'
    <3>1. Fronted(k, v)
      BY DEF SortedInv, Fronts
    <3>2. CASE k = l /\ v = u
      BY <3>2
    <3>3. CASE k # l \/ v # u
      <4>1. Waits(v, k)' => Waits(v, k)
        BY <3>3 DEF Waits, Uppering
      <4>2. Stream(k, v)' = Stream(k, v)
        BY <3>3
      <4> QED BY <3>1, <4>1, <4>2 DEF Fronted
    <3> QED BY <3>2, <3>3
  <2> QED BY <2>1 DEF Fronts
<1>2. Chains'
  <2>1. ASSUME NEW v \in Seqs, NEW k \in Lowers PROVE Chained(v, k)'
    <3>1. Chained(v, k) /\ EndKey' = EndKey
      BY DEF SortedInv, Chains, EndKey, ULONG_MAX
    <3>2. CASE k = l /\ v = u
      BY <3>2
    <3>3. CASE k # l \/ v # u
      <4>1. leaves'[v][k] = leaves[v][k] /\ itrs'[v][k] = itrs[v][k]
        BY <3>3 DEF Uppering
      <4>2. ucols'[v][k] = ucols[v][k]
        BY <3>3
      <4> QED BY <3>1, <4>1, <4>2 DEF Chained
    <3> QED BY <3>2, <3>3
  <2> QED BY <2>1 DEF Chains
<1>3. Merging'
  <2>1. ASSUME NEW v \in Seqs, v # u PROVE (Ascending(v) /\ Merged(v))'
    <3>1. /\ upc'[v] = upc[v] /\ itrs'[v] = itrs[v] /\ leaves'[v] = leaves[v]
          /\ stored'[v] = stored[v] /\ finished'[v] = finished[v] /\ last'[v] = last[v]
      BY <2>1 DEF Uppering
    <3>2. \A k \in Lowers : Past(k, v) => Past(k, v)' /\ (Stream(k, v) = <<>> => Stream(k, v)' = <<>>)
      BY <2>1
    <3> QED BY <3>1, <3>2, UpperFrame
  <2> QED BY <2>1 DEF Merging
<1> QED BY <1>1, <1>2, <1>3 DEF SortedInv

\* get_sorted takes the first block of its next column, which is no marker.
LEMMA BeginStep ==
    ASSUME SortedInv, NEW u \in Seqs, Begin(u)
    PROVE  SortedInv'
<1>1. SortedType /\ UpperType /\ Merged(u)
  BY DEF SortedInv, SortedType, Merging
<1>2. PICK l : l = upc[u][2]
  OBVIOUS
<1>3. l \in Lowers /\ l \in Nat /\ l <= NLowers
  <2>1. 1 \in Lowers
    BY <1>1, SeqsFacts
  <2>2. l \in Lowers
    BY <1>1, <1>2, <2>1, Elements
  <2> QED BY <1>1, <2>2, SeqsFacts
<1>4. PICK b : b = Head(ucols[u][l])
  OBVIOUS
<1>5. /\ upc[u][1] = "begin" /\ Taking(u, l)
      /\ IF b = Marker
         THEN upc' = [upc EXCEPT ![u] = <<"crashed", l>>] /\ itrs' = itrs /\ leaves' = leaves
         ELSE /\ itrs' = [itrs EXCEPT ![u][l] = Tail(b.slots)]
              /\ leaves' = [leaves EXCEPT ![u][l] = Head(b.slots)]
              /\ upc' = [upc EXCEPT ![u] = IF l < NLowers THEN <<"begin", l + 1>> ELSE <<"merge", 1>>]
      /\ UNCHANGED <<seqs, rose, stored, finished, last>>
  BY <1>2, <1>4 DEF Begin, Taking, sendVars
<1>6. ucols[u][l] \in Seq(Blocks) /\ ucols[u][l] # <<>> /\ b = ucols[u][l][1] /\ b \in Blocks
  BY <1>1, <1>3, <1>4, <1>5, Elements, SeqFacts DEF Taking
<1>7. Stream(l, u) # <<>> /\ Stream(l, u)[1] = b
  BY <1>1, <1>3, <1>6, StreamIs
<1>8. b # Marker /\ b \in Block /\ b.slots \in Tuples
  <2>1. Waits(u, l)
    BY <1>2, <1>3, <1>5 DEF Waits
  <2>2. Fronted(l, u)
    BY <1>3 DEF SortedInv, Fronts
  <2> QED BY <1>6, <1>7, <2>1, <2>2, BlockFacts DEF Fronted
<1>9. leaves[u][l] # EndKey
  BY <1>1, <1>3, <1>7 DEF Merged, Drained
<1>10. PICK x, y : x = Head(b.slots) /\ y = Tail(b.slots)
  OBVIOUS
<1>11. x \in Nat /\ x # EndKey /\ x \in 0 .. ULONG_MAX /\ y \in Seq(Key)
  BY <1>8, <1>10, TuplesFacts
<1>12. PICK p : p = IF l < NLowers THEN <<"begin", l + 1>> ELSE <<"merge", 1>>
  OBVIOUS
<1>13. /\ p \in {"begin", "merge", "refill", "ended", "crashed"} \X Lowers
       /\ p[1] \in {"begin", "merge"} /\ (p[1] = "begin" => p[2] = l + 1)
  BY <1>3, <1>12, Sizes DEF Lowers
<1>14. /\ itrs' = [itrs EXCEPT ![u][l] = y] /\ leaves' = [leaves EXCEPT ![u][l] = x]
       /\ upc' = [upc EXCEPT ![u] = p]
  BY <1>5, <1>8, <1>10, <1>12
<1>15. /\ upc \in [Seqs -> {"begin", "merge", "refill", "ended", "crashed"} \X Lowers]
       /\ itrs \in [Seqs -> [Lowers -> Seq(Key)]] /\ leaves \in [Seqs -> [Lowers -> 0 .. ULONG_MAX]]
  BY <1>1 DEF UpperType
<1>16. /\ upc' \in [Seqs -> {"begin", "merge", "refill", "ended", "crashed"} \X Lowers] /\ upc'[u] = p
       /\ \A v \in Seqs : v # u => upc'[v] = upc[v]
  BY <1>13, <1>14, <1>15
<1>17. /\ itrs' \in [Seqs -> [Lowers -> Seq(Key)]] /\ itrs'[u][l] = y
       /\ (\A v \in Seqs : v # u => itrs'[v] = itrs[v]) /\ \A k \in Lowers : k # l => itrs'[u][k] = itrs[u][k]
  BY <1>3, <1>11, <1>14, <1>15
<1>18. /\ leaves' \in [Seqs -> [Lowers -> 0 .. ULONG_MAX]] /\ leaves'[u][l] = x
       /\ (\A v \in Seqs : v # u => leaves'[v] = leaves[v]) /\ \A k \in Lowers : k # l => leaves'[u][k] = leaves[u][k]
  BY <1>3, <1>11, <1>14, <1>15
<1>19. UpperType'
  <2>1. Seqs' = Seqs
    BY <1>5 DEF Seqs
  <2> QED BY <1>1, <1>5, <1>16, <1>17, <1>18, <2>1 DEF UpperType
<1>20. /\ SortedType' /\ Gathered' /\ Lines' /\ Seqs' = Seqs /\ buffers' = buffers
       /\ ucols'[u][l] = Tail(ucols[u][l])
       /\ \A k \in Lowers, v \in Seqs : /\ Past(k, v)' = Past(k, v)
                                        /\ k # l \/ v # u => /\ Stream(k, v)' = Stream(k, v)
                                                             /\ ucols'[v][k] = ucols[v][k]
  BY <1>3, <1>5, <1>19, TakeEffect
<1>21. Uppering(u, l)
  BY <1>5, <1>16, <1>17, <1>18 DEF Uppering
<1>22. \A k \in Lowers : Waits(u, k)' => Waits(u, k) /\ k # l
  <2>1. \A k \in Lowers : k \in Nat
    BY <1>1, SeqsFacts
  <2> QED BY <1>2, <1>3, <1>5, <1>13, <1>16, <2>1 DEF Waits
<1>23. Fronted(l, u)'
  BY <1>3, <1>22 DEF Fronted
<1>24. Chained(u, l)'
  <2>1. SUFFICES ASSUME rose[u][l] # -1 PROVE Chain(x, y, Tail(ucols[u][l]), rose[u][l])
    BY <1>5, <1>17, <1>18, <1>20 DEF Chained
  <2>2. PICK r \in Nat, c \in Seq(Blocks), leaf \in Nat, it \in Seq(Key) :
           r = rose[u][l] /\ c = ucols[u][l] /\ leaf = leaves[u][l] /\ it = itrs[u][l]
    <3>1. rose[u][l] \in Nat
      BY <1>1, <1>3, <2>1, Elements, Sizes DEF Key
    <3>2. leaves[u][l] \in Nat /\ itrs[u][l] \in Seq(Key)
      BY <1>1, <1>3, Elements, Sizes
    <3> QED BY <1>6, <3>1, <3>2
  <2>3. Chain(leaf, it, c, r)
    BY <1>3, <1>9, <2>1, <2>2 DEF SortedInv, Chains, Chained
  <2>4. c # <<>> /\ b = Head(c)
    BY <1>4, <1>6, <2>2
  <2>5. Chain(Head(b.slots), Tail(b.slots), Tail(c), r)
    BY <1>8, <2>3, <2>4, ChainBlock
  <2> QED BY <1>10, <2>2, <2>5
<1>25. last[u] = 0 /\ last'[u] = 0
  BY <1>1, <1>5 DEF Merged
<1>26. Ascending(u)'
  <2>1. \A k \in Lowers : 0 <= leaves'[u][k]
    BY <1>18, Sizes
  <2> QED BY <1>25, <2>1 DEF Ascending
<1>27. Merged(u)'
  <2>1. Finished(u)' = Finished(u)
    BY <1>9, <1>11, <1>18 DEF Finished, EndKey, ULONG_MAX
  <2>2. finished[u] = Cardinality(Finished(u)) /\ finished[u] < NLowers
    BY <1>1, <1>5 DEF Merged
  <2>3. ASSUME NEW k \in Lowers, leaves'[u][k] = EndKey PROVE Drained(k, u)'
    <3>1. k # l /\ leaves[u][k] = EndKey
      BY <1>11, <1>18, <2>3
    <3>2. Drained(k, u)
      BY <1>1, <3>1 DEF Merged
    <3> QED BY <1>17, <1>20, <3>1, <3>2 DEF Drained
  <2>4. upc'[u][1] \in {"begin", "merge"}
    BY <1>13, <1>16
  <2> QED BY <1>5, <1>25, <2>1, <2>2, <2>3, <2>4 DEF Merged, EndKey, ULONG_MAX
<1> QED BY <1>3, <1>5, <1>20, <1>21, <1>22, <1>23, <1>24, <1>26, <1>27, UpperStep

\* A column is still open, so the winner is not a finished one.
LEMMA WinnerOpen ==
    ASSUME SortedInv, NEW u \in Seqs, upc[u][1] = "merge", NEW l \in Winner(u)
    PROVE  l \in Lowers /\ leaves[u][l] # EndKey /\ leaves[u][l] \in Key
<1>1. SortedType /\ Merged(u)
  BY DEF SortedInv, Merging
<1>2. l \in Lowers /\ \A m \in Lowers : leaves[u][l] <= leaves[u][m]
  BY DEF Winner
<1>3. \A m \in Lowers : leaves[u][m] \in Nat /\ leaves[u][m] <= ULONG_MAX
  BY <1>1, Elements, Sizes
<1>4. PICK m \in Lowers : leaves[u][m] # EndKey
  <2>1. SUFFICES ASSUME \A m \in Lowers : leaves[u][m] = EndKey PROVE FALSE
    OBVIOUS
  <2>2. Finished(u) = Lowers
    BY <2>1 DEF Finished
  <2>3. Cardinality(Finished(u)) < NLowers
    BY <1>1 DEF Merged
  <2> QED BY <1>1, <2>2, <2>3, SeqsFacts, Sizes
<1> QED BY <1>2, <1>3, <1>4, Sizes DEF EndKey, Key

\* The least leaf is stored and replaced by the next tuple of its column.
LEMMA MergeStep ==
    ASSUME SortedInv, NEW u \in Seqs, NEW l \in Lowers, Merge(u, l)
    PROVE  SortedInv'
<1>1. SortedType /\ UpperType /\ Merged(u) /\ Ascending(u) /\ Chained(u, l)
  BY DEF SortedInv, SortedType, Merging, Chains
<1>2. PICK key, leaf, it : key = leaves[u][l] /\ leaf = leaves[u][l] /\ it = itrs[u][l]
  OBVIOUS
<1>3. PICK new, next : new = (IF last[u] = -1 \/ key < last[u] THEN -1 ELSE key) /\ next = (stored[u] % Fit) + 1
  OBVIOUS
<1>4. /\ upc[u][1] = "merge" /\ l \in Winner(u)
      /\ last' = [last EXCEPT ![u] = new] /\ stored' = [stored EXCEPT ![u] = next]
      /\ \/ it = <<>> /\ upc' = [upc EXCEPT ![u] = <<"refill", l>>] /\ itrs' = itrs /\ leaves' = leaves
         \/ /\ it # <<>> /\ leaves' = [leaves EXCEPT ![u][l] = Head(it)]
            /\ itrs' = [itrs EXCEPT ![u][l] = Tail(it)] /\ upc' = upc
      /\ UNCHANGED <<seqs, lowerVars, lcols, lscan, temp, chan, ucols, rose, finished>>
  BY <1>2, <1>3 DEF Merge, Load, sendVars
<1>5. key \in Key /\ key # EndKey /\ key \in Nat /\ it \in Seq(Key) /\ \A m \in Lowers : key <= leaves[u][m]
  BY <1>1, <1>2, <1>4, WinnerOpen, Elements DEF Winner
<1>6. new \in Key \cup {-1} /\ next \in 1 .. Fit
  <2>1. Fit \in Nat /\ Fit >= 1 /\ stored[u] \in Nat /\ last[u] \in Key \cup {-1}
    BY <1>1, Sizes, Elements
  <2>2. stored[u] % Fit \in 0 .. Fit - 1
    BY <2>1
  <2> QED BY <1>3, <1>5, <2>1, <2>2
<1>7. /\ upc \in [Seqs -> {"begin", "merge", "refill", "ended", "crashed"} \X Lowers]
      /\ itrs \in [Seqs -> [Lowers -> Seq(Key)]] /\ leaves \in [Seqs -> [Lowers -> 0 .. ULONG_MAX]]
      /\ stored \in [Seqs -> 0 .. Fit] /\ last \in [Seqs -> Key \cup {-1}]
  BY <1>1 DEF UpperType
<1>8. /\ last' \in [Seqs -> Key \cup {-1}] /\ last'[u] = new /\ (\A v \in Seqs : v # u => last'[v] = last[v])
      /\ stored' \in [Seqs -> 0 .. Fit] /\ stored'[u] = next /\ \A v \in Seqs : v # u => stored'[v] = stored[v]
  <2>1. next \in 0 .. Fit
    BY <1>6, Sizes
  <2> QED BY <1>4, <1>6, <1>7, <2>1
<1>9. Seqs' = Seqs /\ UNCHANGED <<ranges, buffers, emptys, oks, lpc>>
  BY <1>4 DEF Seqs, lowerVars
<1>10. /\ upc' \in [Seqs -> {"begin", "merge", "refill", "ended", "crashed"} \X Lowers]
       /\ itrs' \in [Seqs -> [Lowers -> Seq(Key)]] /\ leaves' \in [Seqs -> [Lowers -> 0 .. ULONG_MAX]]
       /\ \A v \in Seqs : v # u => upc'[v] = upc[v] /\ itrs'[v] = itrs[v] /\ leaves'[v] = leaves[v]
       /\ \A k \in Lowers : k # l => itrs'[u][k] = itrs[u][k] /\ leaves'[u][k] = leaves[u][k]
       /\ leaves'[u][l] # EndKey
       /\ \/ it = <<>> /\ upc'[u] = <<"refill", l>> /\ itrs'[u][l] = it /\ leaves'[u][l] = key
          \/ it # <<>> /\ upc'[u] = upc[u] /\ itrs'[u][l] = Tail(it) /\ leaves'[u][l] = Head(it)
  <2>1. CASE it = <<>> /\ upc' = [upc EXCEPT ![u] = <<"refill", l>>] /\ itrs' = itrs /\ leaves' = leaves
    BY <1>2, <1>5, <1>7, <2>1
  <2>2. CASE /\ it # <<>> /\ leaves' = [leaves EXCEPT ![u][l] = Head(it)]
             /\ itrs' = [itrs EXCEPT ![u][l] = Tail(it)] /\ upc' = upc
    <3>1. PICK x, y : x = Head(it) /\ y = Tail(it)
      OBVIOUS
    <3>2. x \in 0 .. ULONG_MAX /\ x # EndKey /\ y \in Seq(Key)
      <4>1. x \in Key /\ y \in Seq(Key)
        BY <1>5, <2>2, <3>1, SeqFacts
      <4> QED BY <4>1, Sizes DEF Key, EndKey
    <3>3. leaves' = [leaves EXCEPT ![u][l] = x] /\ itrs' = [itrs EXCEPT ![u][l] = y]
      BY <2>2, <3>1
    <3>4. /\ leaves' \in [Seqs -> [Lowers -> 0 .. ULONG_MAX]] /\ leaves'[u][l] = x
          /\ (\A v \in Seqs : v # u => leaves'[v] = leaves[v])
          /\ \A k \in Lowers : k # l => leaves'[u][k] = leaves[u][k]
      BY <1>7, <3>2, <3>3
    <3>5. /\ itrs' \in [Seqs -> [Lowers -> Seq(Key)]] /\ itrs'[u][l] = y
          /\ (\A v \in Seqs : v # u => itrs'[v] = itrs[v])
          /\ \A k \in Lowers : k # l => itrs'[u][k] = itrs[u][k]
      BY <1>7, <3>2, <3>3
    <3> QED BY <1>7, <2>2, <3>1, <3>2, <3>4, <3>5
  <2> QED BY <1>4, <2>1, <2>2
<1>11. SortedType'
  <2>1. LowerType /\ LineType
    BY <1>1 DEF SortedType
  <2>2. LowerType'
    BY <1>4, <1>9, <2>1 DEF LowerType
  <2>3. LineType'
    BY <1>4, <1>9, <2>1 DEF LineType
  <2>4. UpperType'
    BY <1>1, <1>4, <1>8, <1>9, <1>10 DEF UpperType
  <2> QED BY <2>2, <2>3, <2>4 DEF SortedType
<1>12. \A k \in Lowers, v \in Seqs : Stream(k, v)' = Stream(k, v)
  BY <1>4 DEF Stream, Sending
<1>13. Gathered' /\ Lines' /\ \A k \in Lowers, v \in Seqs : Past(k, v)' = Past(k, v)
  BY <1>4, <1>11, <1>12, StreamFrame
<1>14. Uppering(u, l)
  BY <1>4, <1>8, <1>10 DEF Uppering
<1>15. upc'[u][1] \in {"merge", "refill"} /\ (upc'[u][1] = "refill" => upc'[u][2] = l /\ itrs'[u][l] = <<>>)
  BY <1>4, <1>10
<1>16. \A k \in Lowers : ~ Waits(u, k)' /\ ~ Waits(u, k)
  BY <1>4, <1>15 DEF Waits
<1>17. Fronted(l, u)'
  BY <1>16 DEF Fronted
<1>18. rose[u][l] # -1 => Chain(leaves'[u][l], itrs'[u][l], ucols[u][l], rose[u][l]) /\ key <= leaves'[u][l]
  <2>1. SUFFICES ASSUME rose[u][l] # -1
                 PROVE  Chain(leaves'[u][l], itrs'[u][l], ucols[u][l], rose[u][l]) /\ key <= leaves'[u][l]
    OBVIOUS
  <2>2. PICK r, c : r = rose[u][l] /\ c = ucols[u][l]
    OBVIOUS
  <2>3. Chain(leaf, it, c, r)
    BY <1>1, <1>2, <1>5, <2>1, <2>2 DEF Chained
  <2>4. CASE itrs'[u][l] = it /\ leaves'[u][l] = key
    BY <1>2, <1>5, <2>2, <2>3, <2>4
  <2>5. CASE it # <<>> /\ itrs'[u][l] = Tail(it) /\ leaves'[u][l] = Head(it)
    <3>1. Chain(Head(it), Tail(it), c, r) /\ leaf <= Head(it)
      BY <1>5, <2>3, <2>5, ChainTuple
    <3> QED BY <1>2, <2>2, <2>5, <3>1
  <2> QED BY <1>10, <2>4, <2>5
<1>19. Chained(u, l)'
  BY <1>4, <1>18 DEF Chained
<1>20. Ascending(u)'
  <2>1. SUFFICES ASSUME \A k \in Lowers : rose[u][k] # -1
                 PROVE  new # -1 /\ \A k \in Lowers : new <= leaves'[u][k]
    BY <1>4, <1>8 DEF Ascending
  <2>2. last[u] # -1 /\ last[u] <= key
    BY <1>1, <1>2, <1>16, <2>1 DEF Ascending
  <2>3. last[u] \in Nat
    BY <1>1, <2>2, Elements, Sizes DEF Key
  <2>4. new = key
    BY <1>3, <1>5, <2>2, <2>3
  <2>5. \A k \in Lowers : key <= leaves'[u][k]
    BY <1>5, <1>10, <1>18, <2>1
  <2> QED BY <1>5, <2>4, <2>5
<1>21. Merged(u)'
  <2>1. Finished(u)' = Finished(u)
    BY <1>2, <1>5, <1>10 DEF Finished, EndKey, ULONG_MAX
  <2>2. finished[u] = Cardinality(Finished(u)) /\ finished[u] < NLowers
    BY <1>1, <1>4 DEF Merged
  <2>3. ASSUME NEW k \in Lowers, leaves'[u][k] = EndKey PROVE Drained(k, u)'
    <3>1. k # l /\ leaves[u][k] = EndKey
      BY <1>10, <2>3
    <3>2. Drained(k, u)
      BY <1>1, <3>1 DEF Merged
    <3> QED BY <1>10, <1>12, <1>13, <3>1, <3>2 DEF Drained
  <2>4. upc'[u][1] # "ended" /\ upc'[u][1] # "crashed" /\ upc'[u][1] # "begin"
    BY <1>15
  <2>5. upc'[u][1] = "refill" => itrs'[u][upc'[u][2]] = <<>> /\ leaves'[u][upc'[u][2]] # EndKey
    BY <1>10, <1>15
  <2>6. stored'[u] \in 1 .. Fit
    BY <1>6, <1>8
  <2>7. finished'[u] = Cardinality(Finished(u)') /\ finished'[u] < NLowers
    BY <1>4, <2>1, <2>2
  <2> QED BY <2>3, <2>4, <2>5, <2>6, <2>7 DEF Merged, EndKey, ULONG_MAX
<1>22. \A k \in Lowers, v \in Seqs : /\ Past(k, v)' = Past(k, v)
                                     /\ k # l \/ v # u => /\ Stream(k, v)' = Stream(k, v)
                                                          /\ ucols'[v][k] = ucols[v][k]
  BY <1>4, <1>12, <1>13
<1> QED BY <1>4, <1>9, <1>11, <1>13, <1>14, <1>16, <1>17, <1>19, <1>20, <1>21, <1>22, UpperStep

\* A column whose block is used up yields its next one, or its marker ends it.
LEMMA RefillStep ==
    ASSUME SortedInv, NEW u \in Seqs, Refill(u)
    PROVE  SortedInv'
<1>1. SortedType /\ UpperType /\ Merged(u) /\ Ascending(u)
  BY DEF SortedInv, SortedType, Merging
<1>2. PICK l : l = upc[u][2]
  OBVIOUS
<1>3. l \in Lowers
  <2>1. 1 \in Lowers
    BY <1>1, SeqsFacts
  <2> QED BY <1>1, <1>2, <2>1, Elements
<1>4. PICK b, x, y : b = Head(ucols[u][l]) /\ x = Head(b.slots) /\ y = Tail(b.slots)
  OBVIOUS
<1>5. /\ upc[u][1] = "refill" /\ Taking(u, l)
      /\ \/ /\ b # Marker /\ leaves' = [leaves EXCEPT ![u][l] = x] /\ itrs' = [itrs EXCEPT ![u][l] = y]
            /\ upc' = [upc EXCEPT ![u] = <<"merge", 1>>] /\ finished' = finished
         \/ /\ b = Marker /\ finished' = [finished EXCEPT ![u] = finished[u] + 1] /\ itrs' = itrs
            /\ finished'[u] = NLowers /\ upc' = [upc EXCEPT ![u] = <<"ended", 1>>] /\ leaves' = leaves
         \/ /\ b = Marker /\ finished' = [finished EXCEPT ![u] = finished[u] + 1] /\ itrs' = itrs
            /\ finished'[u] # NLowers /\ upc' = [upc EXCEPT ![u] = <<"merge", 1>>]
            /\ leaves' = [leaves EXCEPT ![u][l] = EndKey]
      /\ UNCHANGED <<seqs, rose, stored, last>>
  BY <1>2, <1>4 DEF Refill, Taking, Load, AllFinished, sendVars
<1>6. ucols[u][l] \in Seq(Blocks) /\ ucols[u][l] # <<>> /\ b = ucols[u][l][1] /\ b \in Blocks
  BY <1>1, <1>3, <1>4, <1>5, Elements, SeqFacts DEF Taking
<1>7. b # Marker => b \in Block /\ x \in Nat /\ x # EndKey /\ x \in 0 .. ULONG_MAX /\ y \in Seq(Key)
  BY <1>4, <1>6, BlockFacts, TuplesFacts
<1>8. itrs[u][l] = <<>> /\ leaves[u][l] # EndKey /\ stored[u] \in 1 .. Fit
  BY <1>1, <1>2, <1>5 DEF Merged
<1>9. finished[u] = Cardinality(Finished(u)) /\ finished[u] < NLowers /\ finished[u] \in Nat
  BY <1>1, <1>3, <1>5, Elements DEF Merged
<1>10. /\ upc \in [Seqs -> {"begin", "merge", "refill", "ended", "crashed"} \X Lowers]
       /\ itrs \in [Seqs -> [Lowers -> Seq(Key)]] /\ leaves \in [Seqs -> [Lowers -> 0 .. ULONG_MAX]]
       /\ finished \in [Seqs -> Nat]
  BY <1>1 DEF UpperType
<1>11. EndKey \in 0 .. ULONG_MAX /\ 1 \in Lowers
  BY Sizes DEF EndKey, Lowers
<1>12. /\ upc' \in [Seqs -> {"begin", "merge", "refill", "ended", "crashed"} \X Lowers]
       /\ itrs' \in [Seqs -> [Lowers -> Seq(Key)]] /\ leaves' \in [Seqs -> [Lowers -> 0 .. ULONG_MAX]]
       /\ finished' \in [Seqs -> Nat]
       /\ \A v \in Seqs : v # u => /\ upc'[v] = upc[v] /\ itrs'[v] = itrs[v] /\ leaves'[v] = leaves[v]
                                   /\ finished'[v] = finished[v]
       /\ \A k \in Lowers : k # l => itrs'[u][k] = itrs[u][k] /\ leaves'[u][k] = leaves[u][k]
       /\ \/ /\ b # Marker /\ upc'[u] = <<"merge", 1>> /\ leaves'[u][l] = x /\ itrs'[u][l] = y
             /\ finished'[u] = finished[u]
          \/ /\ b = Marker /\ upc'[u] = <<"ended", 1>> /\ leaves'[u][l] = leaves[u][l]
             /\ itrs'[u][l] = <<>> /\ finished'[u] = finished[u] + 1 /\ finished'[u] = NLowers
          \/ /\ b = Marker /\ upc'[u] = <<"merge", 1>> /\ leaves'[u][l] = EndKey
             /\ itrs'[u][l] = <<>> /\ finished'[u] = finished[u] + 1 /\ finished'[u] # NLowers
  <2>1. CASE /\ b # Marker /\ leaves' = [leaves EXCEPT ![u][l] = x] /\ itrs' = [itrs EXCEPT ![u][l] = y]
             /\ upc' = [upc EXCEPT ![u] = <<"merge", 1>>] /\ finished' = finished
    <3>1. x \in 0 .. ULONG_MAX /\ y \in Seq(Key)
      BY <1>7, <2>1
    <3>2. /\ leaves' \in [Seqs -> [Lowers -> 0 .. ULONG_MAX]] /\ leaves'[u][l] = x
          /\ (\A v \in Seqs : v # u => leaves'[v] = leaves[v])
          /\ \A k \in Lowers : k # l => leaves'[u][k] = leaves[u][k]
      BY <1>3, <1>10, <2>1, <3>1
    <3>3. /\ itrs' \in [Seqs -> [Lowers -> Seq(Key)]] /\ itrs'[u][l] = y
          /\ (\A v \in Seqs : v # u => itrs'[v] = itrs[v])
          /\ \A k \in Lowers : k # l => itrs'[u][k] = itrs[u][k]
      BY <1>3, <1>10, <2>1, <3>1
    <3>4. /\ upc' \in [Seqs -> {"begin", "merge", "refill", "ended", "crashed"} \X Lowers]
          /\ upc'[u] = <<"merge", 1>> /\ \A v \in Seqs : v # u => upc'[v] = upc[v]
      BY <1>10, <1>11, <2>1
    <3> QED BY <1>10, <2>1, <3>2, <3>3, <3>4
  <2>2. CASE /\ b = Marker /\ finished' = [finished EXCEPT ![u] = finished[u] + 1] /\ itrs' = itrs
             /\ finished'[u] = NLowers /\ upc' = [upc EXCEPT ![u] = <<"ended", 1>>] /\ leaves' = leaves
    <3>1. /\ finished' \in [Seqs -> Nat] /\ finished'[u] = finished[u] + 1
          /\ \A v \in Seqs : v # u => finished'[v] = finished[v]
      BY <1>9, <1>10, <2>2
    <3>2. /\ upc' \in [Seqs -> {"begin", "merge", "refill", "ended", "crashed"} \X Lowers]
          /\ upc'[u] = <<"ended", 1>> /\ \A v \in Seqs : v # u => upc'[v] = upc[v]
      BY <1>10, <1>11, <2>2
    <3> QED BY <1>8, <1>10, <2>2, <3>1, <3>2
  <2>3. CASE /\ b = Marker /\ finished' = [finished EXCEPT ![u] = finished[u] + 1] /\ itrs' = itrs
             /\ finished'[u] # NLowers /\ upc' = [upc EXCEPT ![u] = <<"merge", 1>>]
             /\ leaves' = [leaves EXCEPT ![u][l] = EndKey]
    <3>1. /\ finished' \in [Seqs -> Nat] /\ finished'[u] = finished[u] + 1
          /\ \A v \in Seqs : v # u => finished'[v] = finished[v]
      BY <1>9, <1>10, <2>3
    <3>2. /\ upc' \in [Seqs -> {"begin", "merge", "refill", "ended", "crashed"} \X Lowers]
          /\ upc'[u] = <<"merge", 1>> /\ \A v \in Seqs : v # u => upc'[v] = upc[v]
      BY <1>10, <1>11, <2>3
    <3>3. /\ leaves' \in [Seqs -> [Lowers -> 0 .. ULONG_MAX]] /\ leaves'[u][l] = EndKey
          /\ (\A v \in Seqs : v # u => leaves'[v] = leaves[v])
          /\ \A k \in Lowers : k # l => leaves'[u][k] = leaves[u][k]
      BY <1>3, <1>10, <1>11, <2>3
    <3> QED BY <1>8, <1>10, <2>3, <3>1, <3>2, <3>3
  <2> QED BY <1>5, <2>1, <2>2, <2>3
<1>13. UpperType'
  <2>1. Seqs' = Seqs
    BY <1>5 DEF Seqs
  <2> QED BY <1>1, <1>5, <1>12, <2>1 DEF UpperType
<1>14. /\ SortedType' /\ Gathered' /\ Lines' /\ Seqs' = Seqs /\ buffers' = buffers
       /\ ucols'[u][l] = Tail(ucols[u][l]) /\ Stream(l, u) # <<>> /\ Stream(l, u)[1] = b
       /\ Without(Stream(l, u), Stream(l, u)', 1) /\ Stream(l, u)' \in Seq(Blocks)
       /\ \A k \in Lowers, v \in Seqs : /\ Past(k, v)' = Past(k, v)
                                        /\ k # l \/ v # u => /\ Stream(k, v)' = Stream(k, v)
                                                             /\ ucols'[v][k] = ucols[v][k]
  BY <1>3, <1>4, <1>5, <1>13, TakeEffect
<1>15. Uppering(u, l)
  BY <1>5, <1>12 DEF Uppering
<1>16. \A k \in Lowers : ~ Waits(u, k)' /\ ~ Waits(u, k)
  BY <1>5, <1>12 DEF Waits
<1>17. Fronted(l, u)'
  BY <1>3, <1>16 DEF Fronted
<1>18. /\ rose[u][l] # -1 => Chain(leaves[u][l], itrs[u][l], ucols'[u][l], rose[u][l])
       /\ rose[u][l] # -1 /\ b # Marker => Chain(x, y, ucols'[u][l], rose[u][l]) /\ leaves[u][l] <= x
  <2>1. SUFFICES ASSUME rose[u][l] # -1
                 PROVE  /\ Chain(leaves[u][l], itrs[u][l], ucols'[u][l], rose[u][l])
                        /\ b # Marker => Chain(x, y, ucols'[u][l], rose[u][l]) /\ leaves[u][l] <= x
    OBVIOUS
  <2>2. PICK r \in Nat, c \in Seq(Blocks), leaf \in Nat, it \in Seq(Key) :
           r = rose[u][l] /\ c = ucols[u][l] /\ leaf = leaves[u][l] /\ it = itrs[u][l]
    <3>1. rose[u][l] \in Nat
      BY <1>1, <1>3, <2>1, Elements, Sizes DEF Key
    <3>2. leaves[u][l] \in Nat /\ itrs[u][l] \in Seq(Key)
      BY <1>1, <1>3, Elements, Sizes
    <3> QED BY <1>6, <3>1, <3>2
  <2>3. Chain(leaf, it, c, r)
    BY <1>3, <1>8, <2>1, <2>2 DEF SortedInv, Chains, Chained
  <2>4. c # <<>> /\ b = Head(c)
    BY <1>4, <1>6, <2>2
  <2>5. Chain(leaf, it, Tail(c), r)
    BY <2>3, <2>4, ChainTail
  <2>6. b # Marker => Chain(x, y, Tail(c), r) /\ leaf <= x
    BY <1>4, <1>7, <2>3, <2>4, ChainBlock
  <2> QED BY <1>14, <2>2, <2>5, <2>6
<1>19. Chained(u, l)'
  <2>1. EndKey' = EndKey
    BY DEF EndKey, ULONG_MAX
  <2>2. SUFFICES ASSUME rose[u][l] # -1, leaves'[u][l] # EndKey
                 PROVE  Chain(leaves'[u][l], itrs'[u][l], ucols'[u][l], rose[u][l])
    BY <1>5, <2>1 DEF Chained
  <2> QED BY <1>8, <1>12, <1>18, <2>2
<1>20. Ascending(u)'
  <2>1. SUFFICES ASSUME \A k \in Lowers : rose[u][k] # -1
                 PROVE  last[u] # -1 /\ \A k \in Lowers : last[u] <= leaves'[u][k]
    BY <1>5 DEF Ascending
  <2>2. last[u] # -1 /\ \A k \in Lowers : last[u] <= leaves[u][k]
    BY <1>1, <1>16, <2>1 DEF Ascending
  <2>3. last[u] \in Nat /\ last[u] <= EndKey /\ leaves[u][l] \in Nat
    BY <1>1, <1>3, <2>2, Elements, Sizes DEF Key, EndKey
  <2>4. last[u] <= leaves'[u][l]
    <3>1. CASE b # Marker
      BY <1>3, <1>7, <1>12, <1>18, <2>1, <2>2, <2>3, <3>1
    <3>2. CASE b = Marker
      BY <1>3, <1>12, <2>2, <2>3, <3>2
    <3> QED BY <3>1, <3>2
  <2> QED BY <1>12, <2>2, <2>4
<1>21. b = Marker => Drained(l, u)'
  <2>1. SUFFICES ASSUME b = Marker PROVE Drained(l, u)'
    OBVIOUS
  <2>2. PICK q \in Seq(Blocks), t \in Seq(Blocks) : q = Stream(l, u) /\ t = Stream(l, u)'
    BY <1>1, <1>3, <1>14, StreamIs
  <2>3. Lined(l, u)
    BY <1>3 DEF SortedInv, Lines
  <2>4. PICK buf, range, past, flushing :
           buf = buffers[l][u] /\ range = ranges[l][u] /\ past = Past(l, u) /\ flushing = Flushing(l)
    OBVIOUS
  <2>5. Line(q, buf, range, past, flushing)
    BY <2>2, <2>3, <2>4 DEF Lined
  <2>6. Len(q) \in Nat /\ Len(q) > 0 /\ q[1] = Marker /\ Len(t) = Len(q) - 1
    BY <1>14, <2>1, <2>2, SeqFacts DEF Without
  <2>7. past
    <3>1. Member(q[1], buf, range, past, flushing)
      BY <2>5, <2>6 DEF Line
    <3> QED BY <2>6, <3>1, BlockFacts DEF Member
  <2>8. Len(q) = 1
    <3>1. SUFFICES ASSUME Len(q) # 1 PROVE FALSE
      OBVIOUS
    <3>2. 1 \in 1 .. Len(q) /\ 2 \in 1 .. Len(q)
      BY <2>6, <3>1
    <3>3. InTurn(q[1], q[2], buf, range, flushing)
      BY <2>5, <3>2 DEF Line
    <3> QED BY <2>6, <3>3 DEF InTurn
  <2>9. t = <<>>
    BY <2>6, <2>8, SeqFacts
  <2> QED BY <1>3, <1>12, <1>14, <2>1, <2>2, <2>4, <2>7, <2>9 DEF Drained
<1>22. ASSUME NEW k \in Lowers, k # l, leaves[u][k] = EndKey PROVE Drained(k, u)'
  <2>1. Drained(k, u)
    BY <1>1, <1>22 DEF Merged
  <2> QED BY <1>12, <1>14, <1>22, <2>1 DEF Drained
<1>23. /\ Finished(u) \in SUBSET Lowers /\ l \notin Finished(u) /\ IsFiniteSet(Finished(u))
       /\ Cardinality(Finished(u) \cup {l}) = finished[u] + 1
  <2>1. Finished(u) \in SUBSET Lowers /\ l \notin Finished(u)
    BY <1>8 DEF Finished
  <2>2. IsFiniteSet(Finished(u))
    BY <1>1, <2>1, SeqsFacts, FS_Subset
  <2> QED BY <1>9, <2>1, <2>2, FS_AddElement
<1>24. Merged(u)'
  <2>1. CASE b # Marker
    <3>1. leaves'[u][l] # EndKey /\ upc'[u] = <<"merge", 1>> /\ finished'[u] = finished[u]
      BY <1>7, <1>12, <2>1
    <3>2. Finished(u)' = Finished(u)
      BY <1>8, <1>12, <3>1 DEF Finished, EndKey, ULONG_MAX
    <3>3. \A k \in Lowers : leaves'[u][k] = EndKey => Drained(k, u)'
      BY <1>12, <1>22, <3>1
    <3> QED BY <1>9, <3>1, <3>2, <3>3 DEF Merged, EndKey, ULONG_MAX
  <2>2. CASE b = Marker /\ upc'[u] = <<"ended", 1>> /\ finished[u] + 1 = NLowers
    <3>1. Finished(u) \cup {l} = Lowers
      <4>1. Finished(u) \cup {l} \subseteq Lowers /\ Cardinality(Finished(u) \cup {l}) = Cardinality(Lowers)
        BY <1>1, <1>3, <1>23, <2>2, SeqsFacts
      <4> QED BY <1>1, <4>1, SeqsFacts, FS_Subset
    <3>2. \A k \in Lowers : Drained(k, u)'
      BY <1>21, <1>22, <2>2, <3>1 DEF Finished
    <3>3. stored'[u] \in 1 .. Fit
      BY <1>5, <1>8
    <3> QED BY <2>2, <3>2, <3>3 DEF Merged
  <2>3. CASE /\ b = Marker /\ upc'[u] = <<"merge", 1>> /\ leaves'[u][l] = EndKey
             /\ finished'[u] = finished[u] + 1 /\ finished'[u] # NLowers
    <3>1. Finished(u)' = Finished(u) \cup {l}
      BY <1>3, <1>12, <2>3 DEF Finished, EndKey, ULONG_MAX
    <3>2. \A k \in Lowers : leaves'[u][k] = EndKey => Drained(k, u)'
      BY <1>12, <1>21, <1>22, <2>3
    <3>3. finished'[u] < NLowers /\ finished'[u] = Cardinality(Finished(u)')
      BY <1>9, <1>23, <2>3, <3>1, Sizes
    <3> QED BY <2>3, <3>2, <3>3 DEF Merged, EndKey, ULONG_MAX
  <2> QED BY <1>12, <2>1, <2>2, <2>3
<1> QED BY <1>3, <1>5, <1>14, <1>15, <1>16, <1>17, <1>19, <1>20, <1>24, UpperStep

-----------------------------------------------------------------------------
(* The initial state: what a lower's child produces, sorted into ranges.   *)

LEMMA Division ==
    ASSUME NEW c \in Nat, c >= 1, NEW d \in Nat
    PROVE  (c * d) \div c = d
<1>1. PICK a \in Int : a = c * d
  OBVIOUS
<1>2. PICK q \in Int : q = a \div c
  BY <1>1
<1>3. c * q <= a /\ a < c * q + c
  BY <1>1, <1>2
<1>4. c * q <= c * d /\ c * d < c * q + c
  BY <1>1, <1>3
<1>5. ~ (q < d)
  BY <1>4
<1>6. ~ (q > d)
  BY <1>4
<1> QED BY <1>1, <1>2, <1>5, <1>6

LEMMA BoundFacts ==
    /\ \A i \in Ranges : i \in Nat /\ bound(i) \in Int
    /\ \A key \in Nat : key < DATAVOLUME => Bounded(key)
<1>1. ASSUME NEW i \in Ranges PROVE i \in Nat /\ bound(i) \in Int
  <2>1. i \in Nat /\ CPU_CORE \in Nat /\ CPU_CORE >= 1 /\ DATAVOLUME \in Nat
    BY Sizes DEF Ranges
  <2>2. PICK a \in Int : a = (i + 1) * DATAVOLUME
    BY <2>1
  <2> QED BY <2>1, <2>2 DEF bound
<1>2. CPU_CORE - 1 \in Ranges /\ bound(CPU_CORE - 1) = DATAVOLUME
  <2>1. CPU_CORE \in Nat /\ CPU_CORE >= 1 /\ DATAVOLUME \in Nat /\ (CPU_CORE - 1) + 1 = CPU_CORE
    BY Sizes
  <2>2. bound(CPU_CORE - 1) = (CPU_CORE * DATAVOLUME) \div CPU_CORE
    BY <2>1 DEF bound
  <2>3. (CPU_CORE * DATAVOLUME) \div CPU_CORE = DATAVOLUME
    BY <2>1, Division
  <2>4. CPU_CORE - 1 \in Ranges
    BY <2>1 DEF Ranges
  <2> QED BY <2>2, <2>3, <2>4
<1>3. ASSUME NEW key \in Nat, key < DATAVOLUME PROVE Bounded(key)
  BY <1>2, <1>3 DEF Bounded
<1> QED BY <1>1, <1>3

LEMMA FirstFacts ==
    ASSUME NEW key \in Nat, Bounded(key)
    PROVE  /\ first(key) \in Ranges /\ key < bound(first(key))
           /\ \A j \in Ranges : key < bound(j) => first(key) <= j
<1>1. PICK S : S = {i \in Ranges : key < bound(i)}
  OBVIOUS
<1>2. S \in SUBSET Nat /\ S # {}
  BY <1>1, BoundFacts DEF Bounded
<1>3. PICK x \in S : \A y \in S : x <= y
  BY <1>2, LeastKey
<1>4. x \in Ranges /\ key < bound(x) /\ \A j \in Ranges : key < bound(j) => x <= j
  BY <1>1, <1>3
<1> QED BY <1>4 DEF first

LEMMA RangeOfBounded ==
    ASSUME NEW keys \in Seq(Key), NEW k \in 1 .. Len(keys), Bounded(keys[k])
    PROVE  rangeOf(keys, k) = first(keys[k])
<1>1. Len(keys) \in Nat /\ k \in Nat /\ k \in 1 .. k
  BY SeqFacts
<1>2. PICK x : x = CHOOSE j \in 1 .. k : Bounded(keys[j]) /\ \A i \in j + 1 .. k : ~ Bounded(keys[i])
  OBVIOUS
<1>3. \A i \in k + 1 .. k : ~ Bounded(keys[i])
  BY <1>1
<1>4. x \in 1 .. k /\ \A i \in x + 1 .. k : ~ Bounded(keys[i])
  BY <1>1, <1>2, <1>3
<1>5. x = k
  BY <1>1, <1>4
<1> QED BY <1>1, <1>2, <1>5 DEF rangeOf

LEMMA CombineFacts ==
    ASSUME NEW keys \in Seq(Key), NEW u, NEW w \in combine(keys, u)
    PROVE  w \in Seq(Key) /\ Descending(w)
<1>1. PICK T, P : T = share(keys, u) /\ P = 1 .. Cardinality(T)
  OBVIOUS
<1>2. PICK f \in [P -> T] :
         /\ w = [p \in P |-> keys[f[p]]]
         /\ \A p, r \in P : p < r =>
               \/ rangeOf(keys, f[p]) > rangeOf(keys, f[r])
               \/ rangeOf(keys, f[p]) = rangeOf(keys, f[r]) /\ keys[f[p]] >= keys[f[r]]
  BY <1>1 DEF combine
<1>3. Len(keys) \in Nat /\ DOMAIN keys = 1 .. Len(keys) /\ \A k \in 1 .. Len(keys) : keys[k] \in Key /\ keys[k] \in Nat
  BY SeqFacts, Sizes DEF Key
<1>4. T \subseteq 1 .. Len(keys)
  BY <1>1, <1>3 DEF share
<1>5. Cardinality(T) \in Nat
  <2>1. IsFiniteSet(1 .. Len(keys))
    BY <1>3, FS_Interval
  <2> QED BY <1>4, <2>1, FS_Subset, FS_CardinalityType
<1>6. PICK m \in Nat : m = Cardinality(T)
  BY <1>5
<1>7. w \in [1 .. m -> Key]
  BY <1>1, <1>2, <1>3, <1>4, <1>6
<1>8. w \in Seq(Key) /\ Len(w) = m
  BY <1>7
<1>9. ASSUME NEW i \in 1 .. m, NEW j \in 1 .. m, i < j, w[j] < DATAVOLUME PROVE w[j] <= w[i]
  <2>1. PICK x \in 1 .. Len(keys), y \in 1 .. Len(keys) : x = f[i] /\ y = f[j]
    BY <1>1, <1>2, <1>4, <1>6
  <2>2. w[i] = keys[x] /\ w[j] = keys[y] /\ keys[x] \in Nat /\ keys[y] \in Nat
    BY <1>1, <1>2, <1>3, <1>6, <2>1
  <2>3. \/ rangeOf(keys, x) > rangeOf(keys, y)
        \/ keys[x] >= keys[y]
    BY <1>1, <1>2, <1>6, <1>9, <2>1
  <2>4. CASE keys[x] >= keys[y]
    BY <2>2, <2>4
  <2>5. CASE rangeOf(keys, x) > rangeOf(keys, y)
    <3>1. Bounded(keys[y]) /\ rangeOf(keys, y) = first(keys[y])
      BY <1>9, <2>2, BoundFacts, RangeOfBounded
    <3>2. CASE ~ Bounded(keys[x])
      <4>1. ~ (keys[x] < DATAVOLUME)
        BY <2>2, <3>2, BoundFacts
      <4> QED BY <1>9, <2>2, <4>1, Sizes
    <3>3. CASE Bounded(keys[x])
      <4>1. rangeOf(keys, x) = first(keys[x])
        BY <3>3, RangeOfBounded
      <4>2. PICK a, b : a = first(keys[x]) /\ b = first(keys[y])
        OBVIOUS
      <4>3. /\ a \in Ranges /\ b \in Ranges /\ keys[y] < bound(b)
            /\ keys[x] < bound(b) => a <= b
        BY <2>2, <3>1, <3>3, <4>2, FirstFacts
      <4>4. a \in Nat /\ b \in Nat /\ bound(b) \in Int /\ a > b
        BY <2>5, <3>1, <4>1, <4>2, <4>3, BoundFacts
      <4>5. ~ (keys[x] < bound(b))
        BY <4>3, <4>4
      <4> QED BY <2>2, <4>3, <4>4, <4>5
    <3> QED BY <3>2, <3>3
  <2> QED BY <2>3, <2>4, <2>5
<1>10. Descending(w)
  BY <1>8, <1>9 DEF Descending
<1> QED BY <1>8, <1>10

\* combine deals a lower's tuples out so that every range descends.
LEMMA SortedInit ==
    ASSUME Init
    PROVE  SortedInv
<1>1. PICK plan \in Plans :
         /\ seqs = plan.uppers
         /\ ranges \in [Lowers -> [Seqs -> Sorted(plan)]]
         /\ \A l \in Lowers, u \in Seqs : ranges[l][u] \in combine(plan.keys[l], u)
  BY DEF Init, Produced
<1>2. PICK junk \in Junk :
         buffers = [l \in Lowers |-> [u \in Seqs |->
                      [seq |-> 0, used |-> 0, slots |-> [k \in 1 .. Fit |-> junk]]]]
  BY DEF Init, FreshBlocks
<1>3. /\ emptys = [l \in Lowers |-> 0] /\ oks = [l \in Lowers |-> [u \in Seqs |-> FALSE]]
      /\ lpc = [l \in Lowers |-> <<"gather", 1>>]
      /\ lcols = [l \in Lowers |-> [u \in Seqs |-> <<>>]]
      /\ lscan = [l \in Lowers |-> 1] /\ temp = [l \in Lowers |-> NoBlock]
      /\ chan = [l \in Lowers |-> [u \in Seqs |-> <<>>]]
      /\ ucols = [u \in Seqs |-> [l \in Lowers |-> <<>>]]
      /\ upc = [u \in Seqs |-> <<"begin", 1>>]
      /\ itrs = [u \in Seqs |-> [l \in Lowers |-> <<>>]]
      /\ leaves = [u \in Seqs |-> [l \in Lowers |-> 0]]
      /\ stored = [u \in Seqs |-> 0] /\ finished = [u \in Seqs |-> 0]
      /\ rose = [u \in Seqs |-> [l \in Lowers |-> 0]] /\ last = [u \in Seqs |-> 0]
  BY DEF Init
<1>4. /\ plan.uppers \in 1 .. NUppers /\ \A l \in Lowers : plan.keys[l] \in Seq(Key)
  <2>1. plan \in [uppers : 1 .. NUppers, keys : [Lowers -> Seq(0 .. ULONG_MAX - 1)]]
    BY SortedAssumption
  <2> QED BY <2>1 DEF Key
<1>5. \A l \in Lowers, u \in Seqs : ranges[l][u] \in Seq(Key) /\ Descending(ranges[l][u])
  <2>1. TAKE l \in Lowers, u \in Seqs
  <2>2. PICK keys \in Seq(Key) : keys = plan.keys[l]
    BY <1>4
  <2>3. PICK w \in combine(keys, u) : w = ranges[l][u]
    BY <1>1, <2>2
  <2>4. w \in Seq(Key) /\ Descending(w)
    BY CombineFacts
  <2> QED BY <2>3, <2>4
<1>6. seqs \in 1 .. NUppers /\ 1 \in Seqs /\ 1 \in Lowers /\ Seqs = 1 .. seqs
  BY <1>1, <1>4, Sizes DEF Seqs, Lowers
<1>7. PICK b : b = [seq |-> 0, used |-> 0, slots |-> [k \in 1 .. Fit |-> junk]]
  OBVIOUS
<1>8. b \in Buffer /\ b.seq = 0 /\ b.used = 0
  <2>1. junk \in Key
    BY SortedAssumption DEF Key
  <2>2. [k \in 1 .. Fit |-> junk] \in Slots /\ 0 \in 0 .. Fit
    BY <2>1, Sizes DEF Slots
  <2> QED BY <1>7, <2>2 DEF Buffer
<1>9. buffers = [l \in Lowers |-> [u \in Seqs |-> b]]
  BY <1>2, <1>7
<1>10. LowerType
  <2>1. ranges \in [Lowers -> [Seqs -> Seq(Key)]]
    BY <1>1, <1>5
  <2>2. buffers \in [Lowers -> [Seqs -> Buffer]]
    BY <1>8, <1>9
  <2>3. lpc \in [Lowers -> {"gather", "send", "flush", "mark", "done"} \X Seqs]
    BY <1>3, <1>6
  <2> QED BY <1>3, <1>6, <2>1, <2>2, <2>3 DEF LowerType
<1>11. LineType
  <2>1. <<>> \in Seq(Blocks)
    OBVIOUS
  <2> QED BY <1>3, <1>6, <2>1 DEF LineType
<1>12. UpperType
  <2>1. <<>> \in Seq(Key) /\ 0 \in Key /\ 0 \in 0 .. ULONG_MAX /\ 0 \in 0 .. Fit
    BY Sizes DEF Key
  <2>2. upc \in [Seqs -> {"begin", "merge", "refill", "ended", "crashed"} \X Lowers]
    BY <1>3, <1>6
  <2>3. itrs \in [Seqs -> [Lowers -> Seq(Key)]] /\ leaves \in [Seqs -> [Lowers -> 0 .. ULONG_MAX]]
    BY <1>3, <2>1
  <2>4. rose \in [Seqs -> [Lowers -> Key \cup {-1}]] /\ last \in [Seqs -> Key \cup {-1}]
    BY <1>3, <2>1
  <2> QED BY <1>3, <2>1, <2>2, <2>3, <2>4 DEF UpperType
<1>13. SortedType
  BY <1>10, <1>11, <1>12 DEF SortedType
<1>14. Gathered
  <2>1. ASSUME NEW l \in Lowers PROVE Tallied(l)
    <3>1. \A u \in Seqs : buffers[l][u].seq = 0 /\ buffers[l][u].used = 0 /\ ~ oks[l][u]
      BY <1>3, <1>8, <1>9
    <3>2. Spent(l) = {}
      BY <3>1 DEF Spent
    <3>3. Cardinality(Spent(l)) = 0 /\ emptys[l] = 0 /\ lpc[l][1] = "gather"
      BY <1>3, <3>2, FS_EmptySet
    <3> QED BY <3>1, <3>3 DEF Tallied, Flushing
  <2> QED BY <2>1 DEF Gathered
<1>15. ASSUME NEW l \in Lowers, NEW u \in Seqs PROVE Stream(l, u) = <<>>
  <2>1. ucols[u][l] = <<>> /\ chan[l][u] = <<>> /\ lcols[l][u] = <<>> /\ Sending(l, u) = <<>>
    BY <1>3 DEF Sending
  <2>2. PICK a \in Seq(Blocks), c \in Seq(Blocks), h \in Seq(Blocks), d \in Seq(Blocks) :
           a = ucols[u][l] /\ c = chan[l][u] /\ h = Sending(l, u) /\ d = lcols[l][u]
    BY <1>13, StreamIs, Elements
  <2>3. PICK x : x = Four(a, c, h, d)
    OBVIOUS
  <2>4. x = <<>>
    <3>1. x = <<>> <=> a = <<>> /\ c = <<>> /\ h = <<>> /\ d = <<>>
      BY <2>3, FourType
    <3> QED BY <2>1, <2>2, <3>1
  <2> QED BY <1>13, <2>2, <2>3, <2>4, StreamIs
<1>16. Lines
  <2>1. ASSUME NEW l \in Lowers, NEW u \in Seqs PROVE Lined(l, u)
    <3>1. PICK q : q = Stream(l, u)
      OBVIOUS
    <3>2. Len(q) = 0
      BY <1>15, <3>1
    <3>3. Line(q, buffers[l][u], ranges[l][u], Past(l, u), Flushing(l))
      BY <3>2 DEF Line
    <3>4. buffers[l][u].seq = 0
      BY <1>8, <1>9
    <3> QED BY <1>5, <3>1, <3>3, <3>4 DEF Lined
  <2> QED BY <2>1 DEF Lines
<1>17. Fronts
  <2>1. \A l \in Lowers, u \in Seqs : buffers[l][u].seq = 0
    BY <1>8, <1>9
  <2> QED BY <1>15, <2>1 DEF Fronts, Fronted
<1>18. Chains
  <2>1. \A u \in Seqs, l \in Lowers : /\ leaves[u][l] = 0 /\ rose[u][l] = 0
                                      /\ itrs[u][l] = <<>> /\ ucols[u][l] = <<>>
    BY <1>3
  <2>2. Chain(0, <<>>, <<>>, 0)
    BY DEF Chain
  <2> QED BY <2>1, <2>2 DEF Chains, Chained
<1>19. Merging
  <2>1. ASSUME NEW u \in Seqs PROVE Ascending(u) /\ Merged(u)
    <3>1. \A l \in Lowers : leaves[u][l] = 0 /\ leaves[u][l] # EndKey
      BY <1>3, Sizes DEF EndKey
    <3>2. Finished(u) = {}
      BY <3>1 DEF Finished
    <3>3. Cardinality(Finished(u)) = 0 /\ 0 < NLowers
      BY <3>2, FS_EmptySet, Sizes
    <3>4. upc[u][1] = "begin" /\ last[u] = 0 /\ finished[u] = 0
      BY <1>3
    <3> QED BY <3>1, <3>3, <3>4 DEF Ascending, Merged
  <2> QED BY <2>1 DEF Merging
<1> QED BY <1>13, <1>14, <1>16, <1>17, <1>18, <1>19 DEF SortedInv

LEMMA SortedStutter ==
    ASSUME SortedInv, UNCHANGED vars
    PROVE  SortedInv'
<1>1. /\ UNCHANGED <<seqs, lowerVars, ucols, rose, upperVars>>
      /\ UNCHANGED <<ranges, buffers, emptys, oks, lpc, lcols, lscan, temp, chan>>
      /\ UNCHANGED <<upc, itrs, leaves, stored, finished, last>>
  BY DEF vars, lowerVars, sendVars, upperVars
<1>2. SortedType'
  <2>1. SortedType /\ Seqs' = Seqs
    BY <1>1 DEF SortedInv, Seqs
  <2> QED BY <1>1, <2>1 DEF SortedType, LowerType, LineType, UpperType
<1>3. \A l \in Lowers, u \in Seqs : Stream(l, u)' = Stream(l, u)
  BY <1>1 DEF Stream, Sending
<1> QED BY <1>1, <1>2, <1>3, RouteFrame

\* The invariant holds of every reachable state.
LEMMA SortedInvariance == Spec => []SortedInv
<1>1. Init => SortedInv
  BY SortedInit
<1>2. SortedInv /\ [Next]_vars => SortedInv'
  <2>1. SUFFICES ASSUME SortedInv, [Next]_vars PROVE SortedInv'
    OBVIOUS
  <2>2. ASSUME NEW l \in Lowers, Execute(l) PROVE SortedInv'
    BY <2>1, <2>2, GatherStep, SendStep, FlushStep, MarkStep DEF Execute
  <2>3. ASSUME NEW l \in Lowers, SendRoute(l) PROVE SortedInv'
    BY <2>1, <2>3, SendRouteGetStep, SendRouteSendStep DEF SendRoute
  <2>4. ASSUME NEW u \in Seqs, NEW l \in Lowers, receive_route(u, l) PROVE SortedInv'
    BY <2>1, <2>4, ReceiveStep
  <2>5. ASSUME NEW u \in Seqs, GetSorted(u) PROVE SortedInv'
    BY <2>1, <2>5, BeginStep, MergeStep, RefillStep DEF GetSorted
  <2>6. CASE UNCHANGED vars
    BY <2>1, <2>6, SortedStutter
  <2> QED BY <2>1, <2>2, <2>3, <2>4, <2>5, <2>6 DEF Next
<1> QED BY <1>1, <1>2, PTL DEF Spec

-----------------------------------------------------------------------------
(* Theorems.                                                               *)

\* On every way from a lower to an upper the blocks keep their order, each is there
\* once, but for the last one, and nothing follows the marker.
THEOREM BlocksKeepOrder == Spec => []BlocksOnceButLast
<1>1. SortedInv => BlocksOnceButLast
  <2>1. SUFFICES ASSUME SortedInv, NEW l \in Lowers, NEW u \in Seqs, NEW i \in DOMAIN Stream(l, u),
                        NEW j \in DOMAIN Stream(l, u), i < j
                 PROVE  LET s == Stream(l, u)
                        IN  \/ s[i] # Marker /\ (s[j] = Marker \/ s[i].seq < s[j].seq)
                            \/ /\ s[i] = s[j] /\ s[i] # Marker
                               /\ s[i].seq = buffers[l][u].seq /\ ranges[l][u] = <<>>
                               /\ lpc[l][1] \in {"flush", "mark", "done"}
    BY DEF BlocksOnceButLast
  <2>2. PICK q \in Seq(Blocks) : q = Stream(l, u)
    BY <2>1, StreamIs DEF SortedInv
  <2>3. i \in 1 .. Len(q) /\ j \in 1 .. Len(q)
    BY <2>2, SeqFacts
  <2>4. Line(q, buffers[l][u], ranges[l][u], Past(l, u), Flushing(l))
    BY <2>1, <2>2 DEF SortedInv, Lines, Lined
  <2>5. InTurn(q[i], q[j], buffers[l][u], ranges[l][u], Flushing(l))
    BY <2>1, <2>3, <2>4 DEF Line
  <2> QED BY <2>2, <2>5 DEF InTurn, Flushing
<1> QED BY <1>1, SortedInvariance, PTL

\* Every stream ascends, whatever keys its lower's child produced, up to the keys that
\* are not below DATAVOLUME and the slots behind the last tuple.
THEOREM StreamsRise == Spec => []StreamsAscend
<1>1. SortedInv => StreamsAscend
  <2>1. SUFFICES ASSUME SortedInv, NEW l \in Lowers, NEW u \in Seqs
                 PROVE  LET s == Stream(l, u)
                            final(b) == ranges[l][u] = <<>> /\ b.seq = buffers[l][u].seq
                            inner == {i \in DOMAIN s : /\ s[i] # Marker /\ ~ final(s[i])
                                                       /\ \A k \in 1 .. Counted : s[i].slots[k] < DATAVOLUME}
                        IN  \A i \in inner :
                                /\ \A k \in 2 .. Counted : s[i].slots[k - 1] <= s[i].slots[k]
                                /\ \A j \in inner \cup {x \in DOMAIN s : final(s[x])} :
                                      i < j => s[i].slots[Counted] <= s[j].slots[1]
    BY DEF StreamsAscend
  <2>2. PICK q \in Seq(Blocks) : q = Stream(l, u)
    BY <2>1, StreamIs DEF SortedInv
  <2>3. PICK buf \in Buffer, range \in Seq(Key) : buf = buffers[l][u] /\ range = ranges[l][u]
    BY <2>1, Elements DEF SortedInv
  <2>4. /\ Line(q, buf, range, Past(l, u), Flushing(l))
        /\ buf.seq > 0 /\ range # <<>> => Good(buf.slots, range)
    BY <2>1, <2>2, <2>3 DEF SortedInv, Lines, Lined
  <2>5. DOMAIN q = 1 .. Len(q)
    BY SeqFacts
  <2>6. SUFFICES ASSUME NEW i \in 1 .. Len(q), q[i] # Marker, ~ (range = <<>> /\ q[i].seq = buf.seq),
                        Plain(q[i].slots)
                 PROVE  /\ \A k \in 2 .. Counted : q[i].slots[k - 1] <= q[i].slots[k]
                        /\ \A j \in 1 .. Len(q) :
                              /\ q[j] # Marker \/ (range = <<>> /\ q[j].seq = buf.seq)
                              /\ i < j
                              => q[i].slots[Counted] <= q[j].slots[1]
    BY <2>2, <2>3, <2>5 DEF Plain
  <2>7. /\ q[i] \in Block /\ q[i].seq <= buf.seq /\ (q[i].seq = buf.seq => q[i].slots = Front(buf.slots))
        /\ q[i].seq < buf.seq => Good(q[i].slots, range)
    BY <2>4, <2>6 DEF Line, Member
  <2>8. q[i].seq \in Nat /\ q[i].seq > 0 /\ buf.seq \in Nat
    BY <2>7, BlockFacts DEF Buffer
  <2>9. Good(q[i].slots, range)
    <3>1. CASE q[i].seq < buf.seq
      BY <2>7, <3>1
    <3>2. CASE q[i].seq = buf.seq
      <4>1. buf.slots \in Slots /\ Good(buf.slots, range)
        BY <2>4, <2>6, <2>8, <3>2 DEF Buffer
      <4> QED BY <2>7, <3>2, <4>1, FrontFacts
    <3> QED BY <2>7, <2>8, <3>1, <3>2
  <2>10. \A k \in 2 .. Counted : q[i].slots[k - 1] <= q[i].slots[k]
    <3>1. Ascends(q[i].slots)
      BY <2>6, <2>9 DEF Good
    <3>2. \A k \in 2 .. Counted : k - 1 \in 1 .. Counted /\ k \in 1 .. Counted /\ k - 1 < k
      BY Sizes
    <3> QED BY <3>1, <3>2 DEF Ascends
  <2>11. ASSUME NEW j \in 1 .. Len(q), q[j] # Marker \/ (range = <<>> /\ q[j].seq = buf.seq), i < j
         PROVE  q[i].slots[Counted] <= q[j].slots[1]
    <3>1. InTurn(q[i], q[j], buf, range, Flushing(l))
      BY <2>4, <2>11 DEF Line
    <3>2. q[j] # Marker
      <4>1. Marker.seq = 0
        BY DEF Marker
      <4> QED BY <2>7, <2>8, <2>11, <4>1
    <3> QED BY <2>6, <3>1, <3>2 DEF InTurn, Under
  <2> QED BY <2>10, <2>11
<1> QED BY <1>1, SortedInvariance, PTL

\* get_sorted merges ascending columns into an ascending result.
THEOREM MergeRises == Spec => []MergeAscends
<1>1. SortedInv => MergeAscends
  BY DEF SortedInv, Merging, Ascending, MergeAscends
<1> QED BY <1>1, SortedInvariance, PTL

\* get_sorted never builds its tree over a marker, and answers false when everything
\* the lowers sent, and nothing less, has been merged.
THEOREM ColumnsWhole == Spec => []ColumnsMergedWhole
<1>1. SortedInv => ColumnsMergedWhole
  <2>1. SUFFICES ASSUME SortedInv, NEW u \in Seqs
                 PROVE  /\ upc[u][1] # "crashed"
                        /\ upc[u][1] = "ended" =>
                              /\ \A l \in Lowers : ucols[u][l] = <<>> /\ itrs[u][l] = <<>>
                              /\ stored[u] \in 1 .. Fit
    BY DEF ColumnsMergedWhole
  <2>2. Merged(u) /\ SortedType
    BY <2>1 DEF SortedInv, Merging
  <2>3. ASSUME NEW l \in Lowers, Drained(l, u) PROVE ucols[u][l] = <<>> /\ itrs[u][l] = <<>>
    BY <2>2, <2>3, StreamIs DEF Drained
  <2> QED BY <2>2, <2>3 DEF Merged
<1> QED BY <1>1, SortedInvariance, PTL

\* A lower without tuples for some upper never comes to its last blocks.
THEOREM BareLoops == Spec => []BareNeverFlushes
<1>1. SortedInv => BareNeverFlushes
  <2>1. SUFFICES ASSUME SortedInv, NEW l \in Lowers, Bare(l) PROVE lpc[l][1] \in {"gather", "send"}
    BY DEF BareNeverFlushes
  <2>2. PICK u \in Seqs : ranges[l][u] = <<>> /\ buffers[l][u].seq = 0
    BY <2>1 DEF Bare
  <2>3. ~ Flushing(l)
    BY <2>1, <2>2, SpentAll
  <2>4. lpc[l][1] \in {"gather", "send", "flush", "mark", "done"}
    BY <2>1, <2>2, Elements DEF SortedInv
  <2> QED BY <2>3, <2>4 DEF Flushing
<1> QED BY <1>1, SortedInvariance, PTL
================================================================================

---------------------------- MODULE Shuffle1Proofs ----------------------------
(***************************************************************************)
(* Proofs about Shuffle1, for any number of lowers, uppers and ranges, any *)
(* input and any capacity of the columns and sockets, with lowers that     *)
(* crash.                                                                  *)
(*                                                                         *)
(* What a lower and an upper have between them is a conduit of five        *)
(* sequences: out, the upper's column, the socket, the block in the hand   *)
(* of send_route, and the lower's column; lost holds what fell out of it.  *)
(* Every step of either side either puts a block in at the far end, moves  *)
(* one block to the next sequence, or drops one between the socket and the *)
(* upper's column.  The invariant is stated of one conduit, and the moves  *)
(* are shown to keep it; the steps of the specification are then shown to  *)
(* be moves.                                                               *)
(***************************************************************************)
EXTENDS Shuffle1, SequenceTheorems, FiniteSetTheorems, TLAPS

Ascending(s) == \A j, k \in 1..Len(s) : j < k => s[j].tag < s[k].tag

\* What send_route has tagged, from the operator above the upper backwards.
Tagged(o, c, n, h) == o \o c \o n \o h

\* Tags ascend and have been given out.
Ordered(o, c, n, h, count) ==
    LET s == Tagged(o, c, n, h)
    IN  Ascending(s) /\ \A k \in 1..Len(s) : s[k].tag <= count

\* s ends with a marker; the only marker in s is at its end.
Ended(s) == s # <<>> /\ IsMarker(s[Len(s)])
MarkerLast(s) == \A k \in 1..Len(s) : IsMarker(s[k]) => k = Len(s)

\* A conduit gets one marker, as the last thing put into it (done says it has been
\* put); behind the marker everything is empty; it is in one place or was lost, and
\* once put it does not disappear.
OneMarker(o, c, n, h, q, x, done) ==
    /\ MarkerLast(o) /\ MarkerLast(c) /\ MarkerLast(n) /\ MarkerLast(h)
    /\ MarkerLast(q) /\ MarkerLast(x)
    /\ Ended(o) => c = <<>>
    /\ Ended(o) \/ Ended(c) \/ Ended(x) => n = <<>>
    /\ Ended(o) \/ Ended(c) \/ Ended(x) \/ Ended(n) => h = <<>>
    /\ Ended(o) \/ Ended(c) \/ Ended(x) \/ Ended(n) \/ Ended(h) => q = <<>>
    /\ Ended(o) \/ Ended(c) \/ Ended(x) \/ Ended(n) \/ Ended(h) \/ Ended(q) <=> done
    /\ Ended(x) => ~Ended(o) /\ ~Ended(c)

\* The block holds tuples of the ranges of upper u only.
ForUpper(b, u) == \A k \in 1..Len(b.tuples) : ColumnOf(RangeOf[b.tuples[k]]) = u
AllFor(s, u) == \A k \in 1..Len(s) : ForUpper(s[k], u)

Tags(s) == {s[k].tag : k \in 1..Len(s)}
Known(o, c, n, h, x) == Tags(o) \cup Tags(c) \cup Tags(n) \cup Tags(h) \cup Tags(x)

-------------------------------------------------------------------------------
(* Sequences of blocks.                                                    *)

LEMMA Moved ==
    ASSUME NEW S, NEW s \in Seq(S), NEW b \in Seq(S), b # <<>>
    PROVE  Append(s, Head(b)) \o Tail(b) = s \o b
<1>1. Head(b) \in S /\ Tail(b) \in Seq(S) /\ <<Head(b)>> \in Seq(S)
  BY HeadTailProperties
<1>2. <<Head(b)>> \o Tail(b) = b
  BY <1>1
<1>3. Append(s, Head(b)) = s \o <<Head(b)>>
  BY <1>1, AppendIsConcat
<1> QED BY <1>1, <1>2, <1>3, ConcatAssociative

LEMMA Associative ==
    \A s, t, u \in Seq(Block) : (s \o t) \o u = s \o (t \o u)
BY ConcatAssociative

LEMMA BlockSeq ==
    ASSUME NEW s \in Seq(Block)
    PROVE  /\ Len(s) \in Nat /\ \A k \in 1..Len(s) : s[k] \in Block /\ s[k].tag \in Nat
           /\ s # <<>> <=> Len(s) > 0
           /\ s # <<>> => /\ Head(s) = s[1] /\ Head(s) \in Block /\ Tail(s) \in Seq(Block)
                          /\ Len(Tail(s)) = Len(s) - 1
                          /\ \A k \in 1..Len(Tail(s)) : Tail(s)[k] = s[k + 1]
           /\ \A b \in Block : /\ Append(s, b) \in Seq(Block) /\ Len(Append(s, b)) = Len(s) + 1
                               /\ \A k \in 1..Len(s) : Append(s, b)[k] = s[k]
                               /\ Append(s, b)[Len(s) + 1] = b
                               /\ Append(s, b) # <<>>
<1>1. Len(s) \in Nat /\ \A k \in 1..Len(s) : s[k] \in Block
  BY LenProperties, ElementOfSeq
<1>2. \A b \in Block : b.tag \in Nat
  BY DEF Block
<1>3. s # <<>> <=> Len(s) > 0
  BY <1>1, EmptySeq
<1>4. s # <<>> => /\ Head(s) = s[1] /\ Head(s) \in Block /\ Tail(s) \in Seq(Block)
                  /\ Len(Tail(s)) = Len(s) - 1
                  /\ \A k \in 1..Len(Tail(s)) : Tail(s)[k] = s[k + 1]
  BY <1>1, HeadTailProperties
<1>5. \A b \in Block : /\ Append(s, b) \in Seq(Block) /\ Len(Append(s, b)) = Len(s) + 1
                       /\ \A k \in 1..Len(s) : Append(s, b)[k] = s[k]
                       /\ Append(s, b)[Len(s) + 1] = b
                       /\ Append(s, b) # <<>>
  BY AppendProperties
<1> QED BY <1>1, <1>2, <1>3, <1>4, <1>5

\* How markers behave when a block arrives at the end or leaves at the front.
LEMMA MarkerAppend ==
    ASSUME NEW s \in Seq(Block), NEW b \in Block, MarkerLast(s), ~Ended(s)
    PROVE  MarkerLast(Append(s, b)) /\ (Ended(Append(s, b)) <=> IsMarker(b))
<1>1. \A k \in 1..Len(s) : ~IsMarker(s[k])
  BY BlockSeq DEF MarkerLast, Ended
<1> QED BY <1>1, BlockSeq DEF MarkerLast, Ended

LEMMA MarkerTail ==
    ASSUME NEW s \in Seq(Block), s # <<>>, MarkerLast(s)
    PROVE  /\ MarkerLast(Tail(s))
           /\ IsMarker(Head(s)) => Tail(s) = <<>> /\ Ended(s)
           /\ Ended(Tail(s)) => Ended(s)
           /\ ~IsMarker(Head(s)) => (Ended(Tail(s)) <=> Ended(s))
<1> DEFINE t == Tail(s)
           n == Len(s)
<1>1. n \in Nat /\ n > 0 /\ Head(s) = s[1] /\ t \in Seq(Block) /\ Len(t) = n - 1
  BY BlockSeq
<1>2. \A k \in 1..(n - 1) : t[k] = s[k + 1]
  BY <1>1, BlockSeq
<1>3. t # <<>> <=> n > 1
  <2>1. t # <<>> <=> Len(t) > 0
    BY <1>1, BlockSeq
  <2> QED BY <1>1, <2>1
<1>4. \A k \in 1..n : IsMarker(s[k]) => k = n
  BY DEF MarkerLast
<1>5. Ended(s) <=> IsMarker(s[n])
  BY DEF Ended
<1>6. Ended(t) <=> n > 1 /\ IsMarker(t[n - 1])
  BY <1>1, <1>3 DEF Ended
<1> HIDE DEF t, n
<1>7. MarkerLast(t)
  <2> SUFFICES ASSUME NEW k \in 1..(n - 1), IsMarker(t[k]) PROVE k = n - 1
    BY <1>1 DEF MarkerLast
  <2>1. k + 1 \in 1..n
    BY <1>1
  <2>2. IsMarker(s[k + 1])
    BY <1>2
  <2> QED BY <1>1, <1>4, <2>1, <2>2
<1>8. n > 1 => t[n - 1] = s[n]
  <2> SUFFICES ASSUME n > 1 PROVE t[n - 1] = s[n]
    OBVIOUS
  <2>1. n - 1 \in 1..(n - 1) /\ (n - 1) + 1 = n
    BY <1>1
  <2> QED BY <1>2, <2>1
<1>9. IsMarker(s[1]) => n = 1
  BY <1>1, <1>4
<1>10. ~IsMarker(s[1]) /\ Ended(s) => n > 1
  BY <1>1, <1>5
<1> QED BY <1>1, <1>3, <1>5, <1>6, <1>7, <1>8, <1>9, <1>10 DEF t

LEMMA TagsMove ==
    ASSUME NEW s \in Seq(Block)
    PROVE  /\ \A b \in Block : Tags(Append(s, b)) = Tags(s) \cup {b.tag}
           /\ s # <<>> => Tags(s) = Tags(Tail(s)) \cup {Head(s).tag}
<1>1. ASSUME NEW b \in Block PROVE Tags(Append(s, b)) = Tags(s) \cup {b.tag}
  <2>1. \A k : k \in 1..Len(Append(s, b)) <=> k \in 1..Len(s) \/ k = Len(s) + 1
    BY BlockSeq
  <2> QED BY <2>1, BlockSeq DEF Tags
<1>2. ASSUME s # <<>> PROVE Tags(s) = Tags(Tail(s)) \cup {Head(s).tag}
  <2>1. ASSUME NEW k \in 1..Len(s) PROVE s[k].tag \in Tags(Tail(s)) \cup {Head(s).tag}
    <3>1. CASE k = 1
      BY <1>2, <3>1, BlockSeq
    <3>2. CASE k # 1
      <4>1. k - 1 \in 1..Len(Tail(s)) /\ Tail(s)[k - 1] = s[k]
        BY <1>2, <3>2, BlockSeq
      <4> QED BY <4>1 DEF Tags
    <3> QED BY <3>1, <3>2
  <2>2. ASSUME NEW k \in 1..Len(Tail(s)) PROVE Tail(s)[k].tag \in Tags(s)
    <3>1. k + 1 \in 1..Len(s) /\ Tail(s)[k] = s[k + 1]
      BY <1>2, BlockSeq
    <3> QED BY <3>1 DEF Tags
  <2>3. Head(s).tag \in Tags(s)
    BY <1>2, BlockSeq DEF Tags
  <2> QED BY <2>1, <2>2, <2>3 DEF Tags
<1> QED BY <1>1, <1>2

-------------------------------------------------------------------------------
(* The moves keep the order of the tags.                                   *)

\* A block tagged by send_route joins the line of tagged blocks at the end.
LEMMA JoinsLine ==
    ASSUME NEW o \in Seq(Block), NEW c \in Seq(Block), NEW n \in Seq(Block), NEW b \in Block
    PROVE  /\ Tagged(o, c, n, <<>>) \in Seq(Block)
           /\ Tagged(o, c, n, <<b>>) = Append(Tagged(o, c, n, <<>>), b)
<1>1. /\ o \o c \in Seq(Block) /\ (o \o c) \o n \in Seq(Block)
      /\ Tagged(o, c, n, <<>>) \in Seq(Block)
  BY ConcatProperties, EmptySeq DEF Tagged
<1>2. <<b>> \in Seq(Block)
  OBVIOUS
<1>3. ((o \o c) \o n) \o <<>> = (o \o c) \o n
  BY <1>1, ConcatEmptySeq
<1>4. Append((o \o c) \o n, b) = ((o \o c) \o n) \o <<b>>
  BY <1>1, AppendIsConcat
<1> QED BY <1>1, <1>3, <1>4 DEF Tagged

\* Passing a block on leaves the line as it is.
LEMMA SameLine ==
    ASSUME NEW o \in Seq(Block), NEW c \in Seq(Block), NEW n \in Seq(Block), NEW h \in Seq(Block)
    PROVE  /\ Tagged(o, c, n, h) \in Seq(Block)
           /\ n # <<>> => Tagged(o, Append(c, Head(n)), Tail(n), h) = Tagged(o, c, n, h)
           /\ c # <<>> => Tagged(Append(o, Head(c)), Tail(c), n, h) = Tagged(o, c, n, h)
<1>1. /\ o \o c \in Seq(Block) /\ (o \o c) \o n \in Seq(Block)
      /\ Tagged(o, c, n, h) \in Seq(Block)
  BY ConcatProperties DEF Tagged
<1>2. ASSUME n # <<>> PROVE Tagged(o, Append(c, Head(n)), Tail(n), h) = Tagged(o, c, n, h)
  <2>1. Head(n) \in Block /\ Tail(n) \in Seq(Block) /\ Append(c, Head(n)) \in Seq(Block)
    BY <1>2, BlockSeq
  <2>2. (o \o Append(c, Head(n))) \o Tail(n) = o \o (Append(c, Head(n)) \o Tail(n))
    BY <2>1, Associative, Zenon
  <2>3. o \o (c \o n) = (o \o c) \o n
    BY ConcatAssociative
  <2> QED BY <1>2, <2>2, <2>3, Moved DEF Tagged
<1>3. ASSUME c # <<>> PROVE Tagged(Append(o, Head(c)), Tail(c), n, h) = Tagged(o, c, n, h)
  BY <1>3, Moved DEF Tagged
<1> QED BY <1>1, <1>2, <1>3

\* A block that is lost leaves a gap and nothing else.
LEMMA Gap ==
    ASSUME NEW o \in Seq(Block), NEW c \in Seq(Block), NEW n \in Seq(Block), NEW h \in Seq(Block),
           n # <<>>
    PROVE  LET s == Tagged(o, c, n, h)
               t == Tagged(o, c, Tail(n), h)
               g == Len(o \o c)
           IN  /\ Len(s) \in Nat /\ Len(t) = Len(s) - 1 /\ g \in Nat
               /\ \A k \in 1..Len(t) : t[k] = IF k <= g THEN s[k] ELSE s[k + 1]
<1> DEFINE a == o \o c
           s == Tagged(o, c, n, h)
           t == Tagged(o, c, Tail(n), h)
           g == Len(a)
<1>1. a \in Seq(Block) /\ Tail(n) \in Seq(Block)
  BY BlockSeq, ConcatProperties
<1>2. n \o h \in Seq(Block) /\ Tail(n) \o h \in Seq(Block)
  BY <1>1, ConcatProperties
<1>3. s = a \o (n \o h) /\ t = a \o (Tail(n) \o h)
  <2> HIDE DEF a
  <2>1. (a \o n) \o h = a \o (n \o h)
    BY <1>1, Associative
  <2>2. (a \o Tail(n)) \o h = a \o (Tail(n) \o h)
    BY <1>1, Associative
  <2> QED BY <2>1, <2>2 DEF Tagged, a
<1>4. Len(n) \in Nat /\ Len(n) > 0 /\ Len(Tail(n)) = Len(n) - 1 /\ Len(h) \in Nat
  BY BlockSeq
<1>5. \A k \in 1..(Len(n) - 1) : Tail(n)[k] = n[k + 1]
  BY <1>4, BlockSeq
<1>6. /\ Len(n \o h) = Len(n) + Len(h) /\ Len(Tail(n) \o h) = Len(n) - 1 + Len(h)
      /\ \A k \in 1..(Len(n) + Len(h)) : (n \o h)[k] = IF k <= Len(n) THEN n[k] ELSE h[k - Len(n)]
      /\ \A k \in 1..(Len(n) - 1 + Len(h)) :
            (Tail(n) \o h)[k] = IF k <= Len(n) - 1 THEN Tail(n)[k] ELSE h[k - (Len(n) - 1)]
  BY <1>1, <1>4, ConcatProperties
<1>7. ASSUME NEW k \in 1..(Len(n) - 1 + Len(h)) PROVE (Tail(n) \o h)[k] = (n \o h)[k + 1]
  <2>1. k + 1 \in 1..(Len(n) + Len(h)) /\ k \in Int
    BY <1>4
  <2>2. CASE k <= Len(n) - 1
    <3>1. k \in 1..(Len(n) - 1) /\ k + 1 <= Len(n)
      BY <1>4, <2>1, <2>2
    <3>2. (n \o h)[k + 1] = n[k + 1]
      BY <1>6, <2>1, <3>1
    <3> QED BY <1>5, <1>6, <2>2, <3>1, <3>2
  <2>3. CASE k > Len(n) - 1
    <3>1. k + 1 > Len(n) /\ (k + 1) - Len(n) = k - (Len(n) - 1)
      BY <1>4, <2>1, <2>3
    <3>2. (n \o h)[k + 1] = h[k - (Len(n) - 1)]
      BY <1>4, <1>6, <2>1, <3>1
    <3> QED BY <1>4, <1>6, <2>1, <2>3, <3>2
  <2> QED BY <1>4, <2>1, <2>2, <2>3
<1> DEFINE v == n \o h
           w == Tail(n) \o h
<1>8. /\ v \in Seq(Block) /\ w \in Seq(Block) /\ s = a \o v /\ t = a \o w
      /\ Len(v) \in Nat /\ Len(v) > 0 /\ Len(w) = Len(v) - 1
      /\ \A k \in 1..(Len(v) - 1) : w[k] = v[k + 1]
  <2>1. Len(v) = Len(n) + Len(h) /\ Len(w) = Len(n) - 1 + Len(h)
    BY <1>6
  <2>2. Len(v) \in Nat /\ Len(v) > 0 /\ Len(w) = Len(v) - 1 /\ Len(v) - 1 = Len(n) - 1 + Len(h)
    BY <1>4, <2>1
  <2> QED BY <1>2, <1>3, <1>7, <2>2
<1> HIDE DEF a, v, w, s, t
<1>9. /\ g \in Nat /\ Len(s) = g + Len(v) /\ Len(t) = g + (Len(v) - 1)
      /\ \A k \in 1..(g + Len(v)) : s[k] = IF k <= g THEN a[k] ELSE v[k - g]
      /\ \A k \in 1..(g + (Len(v) - 1)) : t[k] = IF k <= g THEN a[k] ELSE w[k - g]
  <2>1. g \in Nat
    BY <1>1, LenProperties
  <2>2. /\ Len(s) = g + Len(v)
        /\ \A k \in 1..(g + Len(v)) : s[k] = IF k <= g THEN a[k] ELSE v[k - g]
    BY <1>1, <1>8, ConcatProperties
  <2>3. /\ Len(t) = g + Len(w)
        /\ \A k \in 1..(g + Len(w)) : t[k] = IF k <= g THEN a[k] ELSE w[k - g]
    BY <1>1, <1>8, ConcatProperties
  <2> QED BY <1>8, <2>1, <2>2, <2>3
<1>10. ASSUME NEW k \in 1..Len(t) PROVE t[k] = IF k <= g THEN s[k] ELSE s[k + 1]
  <2>1. k \in 1..(g + (Len(v) - 1)) /\ k \in 1..(g + Len(v)) /\ k + 1 \in 1..(g + Len(v)) /\ k \in Int
    BY <1>8, <1>9
  <2>2. CASE k <= g
    BY <1>9, <2>1, <2>2
  <2>3. CASE k > g
    <3>1. k - g \in 1..(Len(v) - 1) /\ (k - g) + 1 = (k + 1) - g /\ ~(k + 1 <= g) /\ ~(k <= g)
      BY <1>8, <1>9, <2>1, <2>3
    <3>2. t[k] = w[k - g] /\ s[k + 1] = v[(k - g) + 1]
      BY <1>9, <2>1, <3>1
    <3> QED BY <1>8, <3>1, <3>2
  <2> QED BY <1>9, <2>1, <2>2, <2>3
<1>11. Len(s) \in Nat /\ Len(t) = Len(s) - 1 /\ g \in Nat
  BY <1>8, <1>9
<1> QED BY <1>10, <1>11 DEF a, s, t

LEMMA OrderedMoves ==
    ASSUME NEW o \in Seq(Block), NEW c \in Seq(Block), NEW n \in Seq(Block), NEW h \in Seq(Block),
           NEW count \in Nat, Ordered(o, c, n, h, count)
    PROVE  /\ \A b \in Block : h = <<>> /\ b.tag = count + 1 => Ordered(o, c, n, <<b>>, count + 1)
           /\ \A b \in Block : h = <<b>> => Ordered(o, c, Append(n, b), <<>>, count)
           /\ n # <<>> => Ordered(o, Append(c, Head(n)), Tail(n), h, count)
           /\ n # <<>> => Ordered(o, c, Tail(n), h, count)
           /\ c # <<>> => Ordered(Append(o, Head(c)), Tail(c), n, h, count)
<1>1. ASSUME NEW b \in Block, h = <<>>, b.tag = count + 1
      PROVE  Ordered(o, c, n, <<b>>, count + 1)
  <2> DEFINE s == Tagged(o, c, n, <<>>)
             t == Append(s, b)
  <2>1. Tagged(o, c, n, <<b>>) = t /\ s \in Seq(Block)
    BY JoinsLine
  <2>2. Ascending(s) /\ \A k \in 1..Len(s) : s[k].tag <= count
    BY <1>1 DEF Ordered
  <2> HIDE DEF s
  <2>3. /\ Len(s) \in Nat /\ Len(t) = Len(s) + 1 /\ t[Len(s) + 1] = b
        /\ \A k \in 1..Len(s) : t[k] = s[k] /\ s[k].tag \in Nat
    BY <2>1, BlockSeq
  <2> HIDE DEF t
  <2>4. ASSUME NEW k \in 1..Len(t) PROVE t[k].tag <= count + 1
    <3>1. CASE k = Len(s) + 1
      BY <1>1, <2>3, <3>1
    <3>2. CASE k \in 1..Len(s)
      BY <2>2, <2>3, <3>2
    <3> QED BY <2>3, <3>1, <3>2
  <2>5. Ascending(t)
    <3> SUFFICES ASSUME NEW j \in 1..Len(t), NEW k \in 1..Len(t), j < k
                 PROVE  t[j].tag < t[k].tag
      BY DEF Ascending
    <3>1. j \in 1..Len(s)
      BY <2>3
    <3>2. CASE k = Len(s) + 1
      BY <1>1, <2>2, <2>3, <3>1, <3>2
    <3>3. CASE k \in 1..Len(s)
      BY <2>2, <2>3, <3>1, <3>3 DEF Ascending
    <3>4. k \in 1..Len(s) \/ k = Len(s) + 1
      BY <2>3
    <3> QED BY <3>2, <3>3, <3>4
  <2> QED BY <2>1, <2>4, <2>5 DEF Ordered
<1>2. ASSUME NEW b \in Block, h = <<b>> PROVE Ordered(o, c, Append(n, b), <<>>, count)
  <2>1. PICK r \in Seq(Block) : r = Append(n, b)
    BY AppendProperties
  <2>2. PICK e \in Seq(Block) : e = <<>>
    BY EmptySeq
  <2>3. r = n \o h
    BY <1>2, <2>1, AppendIsConcat
  <2>4. Tagged(o, c, r, e) = Tagged(o, c, n, h)
    <3>1. PICK a \in Seq(Block) : a = o \o c
      BY ConcatProperties
    <3>2. (a \o n) \o h = a \o (n \o h)
      BY Associative
    <3>3. (a \o r) \o e = a \o r
      BY <2>2, ConcatProperties, ConcatEmptySeq
    <3> QED BY <2>3, <3>1, <3>2, <3>3 DEF Tagged
  <2>5. Ordered(o, c, r, e, count)
    BY <2>4, Zenon DEF Ordered
  <2> QED BY <2>1, <2>2, <2>5
<1>3. n # <<>> => Ordered(o, Append(c, Head(n)), Tail(n), h, count)
  BY SameLine DEF Ordered
<1>4. ASSUME n # <<>> PROVE Ordered(o, c, Tail(n), h, count)
  <2> DEFINE s == Tagged(o, c, n, h)
             t == Tagged(o, c, Tail(n), h)
             g == Len(o \o c)
  <2>1. /\ Len(s) \in Nat /\ Len(t) = Len(s) - 1 /\ g \in Nat
        /\ \A k \in 1..Len(t) : t[k] = IF k <= g THEN s[k] ELSE s[k + 1]
    BY <1>4, Gap
  <2>2. Ascending(s) /\ \A k \in 1..Len(s) : s[k].tag <= count
    BY DEF Ordered
  <2>3. \A k \in 1..Len(s) : s[k].tag \in Nat
    BY SameLine, BlockSeq
  <2> HIDE DEF s, t, g
  <2>4. ASSUME NEW k \in 1..Len(t)
        PROVE  LET m == IF k <= g THEN k ELSE k + 1 IN m \in 1..Len(s) /\ t[k] = s[m]
    <3>1. k \in 1..Len(s) /\ k + 1 \in 1..Len(s)
      BY <2>1
    <3> QED BY <2>1, <3>1
  <2>5. \A k \in 1..Len(t) : t[k].tag <= count
    BY <2>2, <2>4
  <2>6. Ascending(t)
    <3> SUFFICES ASSUME NEW j \in 1..Len(t), NEW k \in 1..Len(t), j < k
                 PROVE  t[j].tag < t[k].tag
      BY DEF Ascending
    <3> DEFINE jj == IF j <= g THEN j ELSE j + 1
               kk == IF k <= g THEN k ELSE k + 1
    <3>1. jj \in 1..Len(s) /\ kk \in 1..Len(s) /\ t[j] = s[jj] /\ t[k] = s[kk]
      BY <2>4
    <3>2. jj < kk
      BY <2>1
    <3> QED BY <2>2, <3>1, <3>2 DEF Ascending
  <2> QED BY <2>5, <2>6 DEF Ordered, s, t
<1>5. c # <<>> => Ordered(Append(o, Head(c)), Tail(c), n, h, count)
  BY SameLine DEF Ordered
<1> QED BY <1>1, <1>2, <1>3, <1>4, <1>5

-------------------------------------------------------------------------------
(* The moves keep the marker at the end.                                   *)

\* The lower puts a block or the marker while no marker has been put.
LEMMA MarkerPut ==
    ASSUME NEW o \in Seq(Block), NEW c \in Seq(Block), NEW n \in Seq(Block), NEW h \in Seq(Block),
           NEW q \in Seq(Block), NEW x \in Seq(Block), NEW done, NEW after,
           OneMarker(o, c, n, h, q, x, done), ~done, NEW b \in Block, IsMarker(b) <=> after
    PROVE  OneMarker(o, c, n, h, Append(q, b), x, after)
<1>1. ~Ended(o) /\ ~Ended(c) /\ ~Ended(n) /\ ~Ended(h) /\ ~Ended(q) /\ ~Ended(x)
  BY DEF OneMarker
<1>2. MarkerLast(Append(q, b)) /\ (Ended(Append(q, b)) <=> IsMarker(b))
  BY <1>1, MarkerAppend DEF OneMarker
<1> QED BY <1>1, <1>2 DEF OneMarker

\* send_route takes a block and tags it.
LEMMA MarkerGet ==
    ASSUME NEW o \in Seq(Block), NEW c \in Seq(Block), NEW n \in Seq(Block),
           NEW q \in Seq(Block), NEW x \in Seq(Block), NEW done,
           OneMarker(o, c, n, <<>>, q, x, done), q # <<>>,
           NEW b \in Block, b.tuples = Head(q).tuples
    PROVE  OneMarker(o, c, n, <<b>>, Tail(q), x, done)
<1>1. IsMarker(b) <=> IsMarker(Head(q))
  BY DEF IsMarker
<1>2. MarkerLast(<<b>>) /\ (Ended(<<b>>) <=> IsMarker(b))
  BY DEF MarkerLast, Ended
<1>3. /\ MarkerLast(Tail(q)) /\ (Ended(Tail(q)) => Ended(q))
      /\ IsMarker(Head(q)) => Tail(q) = <<>> /\ Ended(q)
      /\ ~IsMarker(Head(q)) => (Ended(Tail(q)) <=> Ended(q))
  BY MarkerTail DEF OneMarker
<1>4. ~Ended(o) /\ ~Ended(c) /\ ~Ended(x) /\ ~Ended(n)
  BY DEF OneMarker
<1> QED BY <1>1, <1>2, <1>3, <1>4 DEF OneMarker

\* m_send hands the block to the socket.
LEMMA MarkerSend ==
    ASSUME NEW o \in Seq(Block), NEW c \in Seq(Block), NEW n \in Seq(Block),
           NEW q \in Seq(Block), NEW x \in Seq(Block), NEW done, NEW b \in Block,
           OneMarker(o, c, n, <<b>>, q, x, done)
    PROVE  OneMarker(o, c, Append(n, b), <<>>, q, x, done)
<1>1. Ended(<<b>>) <=> IsMarker(b)
  BY DEF Ended
<1>2. ~Ended(o) /\ ~Ended(c) /\ ~Ended(x) /\ ~Ended(n)
  BY DEF OneMarker
<1>3. MarkerLast(Append(n, b)) /\ (Ended(Append(n, b)) <=> IsMarker(b))
  BY <1>2, MarkerAppend DEF OneMarker
<1>4. MarkerLast(<<>>) /\ ~Ended(<<>>)
  BY DEF MarkerLast, Ended
<1> QED BY <1>1, <1>2, <1>3, <1>4 DEF OneMarker

\* The receive thread puts the block into the column, or loses it.
LEMMA MarkerReceive ==
    ASSUME NEW o \in Seq(Block), NEW c \in Seq(Block), NEW n \in Seq(Block), NEW h \in Seq(Block),
           NEW q \in Seq(Block), NEW x \in Seq(Block), NEW done,
           OneMarker(o, c, n, h, q, x, done), n # <<>>
    PROVE  /\ OneMarker(o, Append(c, Head(n)), Tail(n), h, q, x, done)
           /\ OneMarker(o, c, Tail(n), h, q, Append(x, Head(n)), done)
<1>1. ~Ended(o) /\ ~Ended(c) /\ ~Ended(x)
  BY DEF OneMarker
<1>2. Head(n) \in Block
  BY BlockSeq
<1>3. /\ MarkerLast(Tail(n)) /\ (Ended(Tail(n)) => Ended(n))
      /\ IsMarker(Head(n)) => Tail(n) = <<>> /\ Ended(n)
      /\ ~IsMarker(Head(n)) => (Ended(Tail(n)) <=> Ended(n))
  BY MarkerTail DEF OneMarker
<1>4. /\ MarkerLast(Append(c, Head(n))) /\ (Ended(Append(c, Head(n))) <=> IsMarker(Head(n)))
      /\ MarkerLast(Append(x, Head(n))) /\ (Ended(Append(x, Head(n))) <=> IsMarker(Head(n)))
  BY <1>1, <1>2, MarkerAppend DEF OneMarker
<1> QED BY <1>1, <1>3, <1>4 DEF OneMarker

\* execute passes the block on.
LEMMA MarkerConsume ==
    ASSUME NEW o \in Seq(Block), NEW c \in Seq(Block), NEW n \in Seq(Block), NEW h \in Seq(Block),
           NEW q \in Seq(Block), NEW x \in Seq(Block), NEW done,
           OneMarker(o, c, n, h, q, x, done), c # <<>>
    PROVE  /\ OneMarker(Append(o, Head(c)), Tail(c), n, h, q, x, done)
           /\ ~Ended(o) /\ (Ended(Append(o, Head(c))) <=> IsMarker(Head(c)))
<1>1. ~Ended(o)
  BY DEF OneMarker
<1>2. Head(c) \in Block
  BY BlockSeq
<1>3. /\ MarkerLast(Tail(c)) /\ (Ended(Tail(c)) => Ended(c))
      /\ IsMarker(Head(c)) => Tail(c) = <<>> /\ Ended(c)
      /\ ~IsMarker(Head(c)) => (Ended(Tail(c)) <=> Ended(c))
  BY MarkerTail DEF OneMarker
<1>4. MarkerLast(Append(o, Head(c))) /\ (Ended(Append(o, Head(c))) <=> IsMarker(Head(c)))
  BY <1>1, <1>2, MarkerAppend DEF OneMarker
<1> QED BY <1>1, <1>3, <1>4 DEF OneMarker

-------------------------------------------------------------------------------
(* The conduit, and the invariant of the exchange.                         *)

Conduit(o, c, n, h, q, x, done, count, u) ==
    /\ Ordered(o, c, n, h, count)
    /\ OneMarker(o, c, n, h, q, x, done)
    /\ AllFor(o, u) /\ AllFor(c, u) /\ AllFor(n, u) /\ AllFor(h, u) /\ AllFor(q, u)

\* What upper u and the lower it accepted as the i-th have between them.
Line(u, i) ==
    LET l == map_lower_[u][i]
    IN  Conduit(out[u][i], ucols[u][i], chan[l][u], InHand(l, u), lcols[l][u], lost[u][i],
                marked[l] >= u, debug_count_[l], u)

\* The tags of the blocks on the way from that lower to upper u, or lost.
Seen(u, i) ==
    LET l == map_lower_[u][i]
    IN  Known(out[u][i], ucols[u][i], chan[l][u], InHand(l, u), lost[u][i])

\* Every upper has accepted every lower once.
Wired ==
    \A u \in Uppers : /\ \A i, j \in Lowers : map_lower_[u][i] = map_lower_[u][j] => i = j
                      /\ \A l \in Lowers : \E i \in Lowers : map_lower_[u][i] = l

\* Markers follow the last tuple; a buffer holds the tuples of its range.
LowerOK ==
    \A l \in Lowers :
        /\ Len(block_temp_[l]) <= 1
        /\ marked[l] > 0 => child[l] = <<>>
        /\ \A r \in Ranges : \A k \in 1..Len(buffers_[l][r]) : RangeOf[buffers_[l][r][k]] = r

Lines == \A u \in Uppers, i \in Lowers : Line(u, i)

\* Every tag given out is accounted for.
Accounted ==
    \A l \in Lowers : \A k \in 1..debug_count_[l] :
        \E u \in Uppers, i \in Lowers : map_lower_[u][i] = l /\ k \in Seen(u, i)

\* meet_zero_ of ShuffleUpper1 counts the columns whose marker was passed on.
Closed(u) == {i \in Lowers : Ended(out[u][i])}
Counts ==
    \A u \in Uppers : /\ uzero[u] = Cardinality(Closed(u))
                      /\ upc[u] # "run" <=> uzero[u] = NLowers

\* The inductive invariant.
Inv == TypeOK /\ Wired /\ LowerOK /\ Lines /\ Accounted /\ Counts

-------------------------------------------------------------------------------
(* The moves keep a conduit one, and forget no tag.                        *)

\* Taking b off the front of s leaves t; adding b to the end of s makes t.
Took(s, b, t) == s # <<>> /\ b = Head(s) /\ t = Tail(s)
Gained(s, b, t) == t = Append(s, b)
Empty(s) == s = <<>>
\* What send_route has in hand: the one block it took, with its tag.
Single(g, b) == g = <<b>>
Tag(a, b, k) == b = [tag |-> k, tuples |-> a.tuples]

LEMMA AllForMoves ==
    ASSUME NEW s \in Seq(Block), NEW u, AllFor(s, u)
    PROVE  /\ \A b \in Block : ForUpper(b, u) => AllFor(Append(s, b), u)
           /\ s # <<>> => AllFor(Tail(s), u) /\ ForUpper(Head(s), u)
<1>1. ASSUME NEW b \in Block, ForUpper(b, u), NEW k \in 1..Len(Append(s, b))
      PROVE  ForUpper(Append(s, b)[k], u)
  <2>1. CASE k = Len(s) + 1
    BY <1>1, <2>1, BlockSeq
  <2>2. CASE k \in 1..Len(s)
    BY <2>2, BlockSeq DEF AllFor
  <2>3. k = Len(s) + 1 \/ k \in 1..Len(s)
    BY BlockSeq
  <2> QED BY <2>1, <2>2, <2>3
<1>2. ASSUME s # <<>>, NEW k \in 1..Len(Tail(s)) PROVE ForUpper(Tail(s)[k], u)
  <2>1. k + 1 \in 1..Len(s) /\ Tail(s)[k] = s[k + 1]
    BY <1>2, BlockSeq
  <2> QED BY <2>1 DEF AllFor
<1>3. ASSUME s # <<>> PROVE ForUpper(Head(s), u)
  <2>1. 1 \in 1..Len(s) /\ Head(s) = s[1]
    BY <1>3, BlockSeq
  <2> QED BY <2>1 DEF AllFor
<1> QED BY <1>1, <1>2, <1>3 DEF AllFor

LEMMA ConduitPut ==
    ASSUME NEW o \in Seq(Block), NEW c \in Seq(Block), NEW n \in Seq(Block), NEW h \in Seq(Block),
           NEW q \in Seq(Block), NEW x \in Seq(Block), NEW count \in Nat, NEW u,
           Conduit(o, c, n, h, q, x, FALSE, count, u), NEW b \in Block, ForUpper(b, u)
    PROVE  /\ IsMarker(b) => Conduit(o, c, n, h, Append(q, b), x, TRUE, count, u)
           /\ ~IsMarker(b) => Conduit(o, c, n, h, Append(q, b), x, FALSE, count, u)
<1>1. /\ IsMarker(b) => OneMarker(o, c, n, h, Append(q, b), x, TRUE)
      /\ ~IsMarker(b) => OneMarker(o, c, n, h, Append(q, b), x, FALSE)
  <2>1. OneMarker(o, c, n, h, q, x, FALSE)
    BY DEF Conduit
  <2> QED BY <2>1, MarkerPut
<1>2. AllFor(Append(q, b), u)
  BY AllForMoves DEF Conduit
<1> QED BY <1>1, <1>2 DEF Conduit

LEMMA ConduitGet ==
    ASSUME NEW o \in Seq(Block), NEW c \in Seq(Block), NEW n \in Seq(Block), NEW h \in Seq(Block),
           NEW q \in Seq(Block), NEW x \in Seq(Block), NEW d, NEW k \in Nat, NEW u,
           Conduit(o, c, n, h, q, x, d, k, u), Empty(h), NEW a, NEW p, Took(q, a, p),
           NEW j, j = k + 1, NEW b \in Block, Tag(a, b, j), NEW g, Single(g, b)
    PROVE  Conduit(o, c, n, g, p, x, d, j, u)
<1>1. /\ h = <<>> /\ q # <<>> /\ a = Head(q) /\ p = Tail(q) /\ g = <<b>>
      /\ b.tuples = Head(q).tuples /\ b.tag = k + 1
  BY DEF Empty, Took, Tag, Single
<1>2. OneMarker(o, c, n, g, p, x, d)
  <2>1. OneMarker(o, c, n, <<>>, q, x, d)
    BY <1>1 DEF Conduit
  <2> QED BY <1>1, <2>1, MarkerGet
<1>3. Ordered(o, c, n, g, k + 1)
  <2>1. Ordered(o, c, n, h, k)
    BY DEF Conduit
  <2> QED BY <1>1, <2>1, OrderedMoves
<1>4. AllFor(p, u) /\ ForUpper(a, u)
  <2>1. AllFor(q, u)
    BY DEF Conduit
  <2> QED BY <1>1, <2>1, AllForMoves
<1>5. AllFor(g, u)
  BY <1>1, <1>4 DEF AllFor, ForUpper
<1> QED BY <1>2, <1>3, <1>4, <1>5 DEF Conduit

\* Other conduits of the lower only see the count grow.
LEMMA ConduitCount ==
    ASSUME NEW o \in Seq(Block), NEW c \in Seq(Block), NEW n \in Seq(Block), NEW h \in Seq(Block),
           NEW q, NEW x, NEW done, NEW count \in Nat, NEW u,
           Conduit(o, c, n, h, q, x, done, count, u)
    PROVE  Conduit(o, c, n, h, q, x, done, count + 1, u)
<1> DEFINE s == Tagged(o, c, n, h)
<1>1. \A k \in 1..Len(s) : s[k].tag \in Nat
  BY SameLine, BlockSeq
<1>2. Ascending(s) /\ \A k \in 1..Len(s) : s[k].tag <= count
  BY DEF Conduit, Ordered
<1> HIDE DEF s
<1>3. \A k \in 1..Len(s) : s[k].tag <= count + 1
  BY <1>1, <1>2
<1> QED BY <1>2, <1>3 DEF Conduit, Ordered, s

LEMMA ConduitSend ==
    ASSUME NEW o \in Seq(Block), NEW c \in Seq(Block), NEW n \in Seq(Block), NEW h \in Seq(Block),
           NEW q \in Seq(Block), NEW x \in Seq(Block), NEW d, NEW k \in Nat, NEW u,
           Conduit(o, c, n, h, q, x, d, k, u), NEW b \in Block, Single(h, b),
           NEW m, Gained(n, b, m), NEW g, Empty(g)
    PROVE  Conduit(o, c, m, g, q, x, d, k, u)
<1>1. h = <<b>> /\ m = Append(n, b) /\ g = <<>>
  BY DEF Single, Gained, Empty
<1>2. OneMarker(o, c, m, g, q, x, d)
  <2>1. OneMarker(o, c, n, <<b>>, q, x, d)
    BY <1>1 DEF Conduit
  <2> QED BY <1>1, <2>1, MarkerSend
<1>3. Ordered(o, c, m, g, k)
  <2>1. Ordered(o, c, n, h, k)
    BY DEF Conduit
  <2> QED BY <1>1, <2>1, OrderedMoves
<1>4. ForUpper(b, u)
  BY <1>1 DEF Conduit, AllFor
<1>5. AllFor(m, u)
  BY <1>1, <1>4, AllForMoves DEF Conduit
<1>6. AllFor(g, u)
  BY <1>1, EmptySeq DEF AllFor
<1> QED BY <1>2, <1>3, <1>5, <1>6 DEF Conduit

LEMMA ConduitReceive ==
    ASSUME NEW o \in Seq(Block), NEW c \in Seq(Block), NEW n \in Seq(Block), NEW h \in Seq(Block),
           NEW q \in Seq(Block), NEW x \in Seq(Block), NEW d, NEW k \in Nat, NEW u,
           Conduit(o, c, n, h, q, x, d, k, u), NEW b, NEW m, Took(n, b, m)
    PROVE  /\ \A e : Gained(c, b, e) => Conduit(o, e, m, h, q, x, d, k, u)
           /\ \A e : Gained(x, b, e) => Conduit(o, c, m, h, q, e, d, k, u)
<1>1. n # <<>> /\ b = Head(n) /\ m = Tail(n)
  BY DEF Took
<1>2. /\ \A e : Gained(c, b, e) => OneMarker(o, e, m, h, q, x, d)
      /\ \A e : Gained(x, b, e) => OneMarker(o, c, m, h, q, e, d)
  <2>1. OneMarker(o, c, n, h, q, x, d)
    BY DEF Conduit
  <2>2. ASSUME NEW e, Gained(c, b, e) PROVE OneMarker(o, e, m, h, q, x, d)
    <3>1. e = Append(c, Head(n))
      BY <1>1, <2>2 DEF Gained
    <3> QED BY <1>1, <2>1, <3>1, MarkerReceive
  <2>3. ASSUME NEW e, Gained(x, b, e) PROVE OneMarker(o, c, m, h, q, e, d)
    <3>1. e = Append(x, Head(n))
      BY <1>1, <2>3 DEF Gained
    <3> QED BY <1>1, <2>1, <3>1, MarkerReceive
  <2> QED BY <2>2, <2>3
<1>3. /\ \A e : Gained(c, b, e) => Ordered(o, e, m, h, k)
      /\ Ordered(o, c, m, h, k)
  <2>1. Ordered(o, c, n, h, k)
    BY DEF Conduit
  <2>2. ASSUME NEW e, Gained(c, b, e) PROVE Ordered(o, e, m, h, k)
    <3>1. e = Append(c, Head(n))
      BY <1>1, <2>2 DEF Gained
    <3> QED BY <1>1, <2>1, <3>1, OrderedMoves
  <2>3. Ordered(o, c, m, h, k)
    BY <1>1, <2>1, OrderedMoves
  <2> QED BY <2>2, <2>3
<1>4. AllFor(m, u) /\ ForUpper(b, u) /\ b \in Block
  BY <1>1, BlockSeq, AllForMoves DEF Conduit
<1>5. \A e : Gained(c, b, e) => AllFor(e, u)
  BY <1>4, AllForMoves DEF Conduit, Gained
<1> QED BY <1>2, <1>3, <1>4, <1>5 DEF Conduit

LEMMA ConduitConsume ==
    ASSUME NEW o \in Seq(Block), NEW c \in Seq(Block), NEW n \in Seq(Block), NEW h \in Seq(Block),
           NEW q \in Seq(Block), NEW x \in Seq(Block), NEW d, NEW k \in Nat, NEW u,
           Conduit(o, c, n, h, q, x, d, k, u), NEW b, NEW e, Took(c, b, e), NEW p, Gained(o, b, p)
    PROVE  /\ Conduit(p, e, n, h, q, x, d, k, u)
           /\ ~Ended(o) /\ (Ended(p) <=> IsMarker(b))
<1>1. c # <<>> /\ b = Head(c) /\ e = Tail(c) /\ p = Append(o, Head(c))
  BY DEF Took, Gained
<1>2. /\ OneMarker(p, e, n, h, q, x, d)
      /\ ~Ended(o) /\ (Ended(p) <=> IsMarker(b))
  <2>1. OneMarker(o, c, n, h, q, x, d)
    BY DEF Conduit
  <2> QED BY <1>1, <2>1, MarkerConsume
<1>3. Ordered(p, e, n, h, k)
  <2>1. Ordered(o, c, n, h, k)
    BY DEF Conduit
  <2> QED BY <1>1, <2>1, OrderedMoves
<1>4. AllFor(e, u) /\ ForUpper(b, u) /\ b \in Block
  BY <1>1, BlockSeq, AllForMoves DEF Conduit
<1>5. AllFor(p, u)
  BY <1>1, <1>4, AllForMoves DEF Conduit
<1> QED BY <1>2, <1>3, <1>4, <1>5 DEF Conduit

LEMMA KnownMoves ==
    ASSUME NEW o, NEW c, NEW n, NEW h, NEW x
    PROVE  /\ \A b \in Block : \A g : Empty(h) /\ Single(g, b) =>
                  Known(o, c, n, g, x) = Known(o, c, n, h, x) \cup {b.tag}
           /\ n \in Seq(Block) => \A b \in Block : \A g, m : Single(h, b) /\ Gained(n, b, m) /\ Empty(g) =>
                  Known(o, c, m, g, x) = Known(o, c, n, h, x)
           /\ n \in Seq(Block) /\ c \in Seq(Block) => \A b, m, e : Took(n, b, m) /\ Gained(c, b, e) =>
                  Known(o, e, m, h, x) = Known(o, c, n, h, x)
           /\ n \in Seq(Block) /\ x \in Seq(Block) => \A b, m, e : Took(n, b, m) /\ Gained(x, b, e) =>
                  Known(o, c, m, h, e) = Known(o, c, n, h, x)
           /\ c \in Seq(Block) /\ o \in Seq(Block) => \A b, e, p : Took(c, b, e) /\ Gained(o, b, p) =>
                  Known(p, e, n, h, x) = Known(o, c, n, h, x)
<1>1. /\ \A s : Empty(s) => Tags(s) = {}
      /\ \A b \in Block : \A s : Single(s, b) => Tags(s) = {b.tag}
  BY DEF Tags, Empty, Single
<1>2. \A s \in Seq(Block) : \A b \in Block : \A t : Gained(s, b, t) => Tags(t) = Tags(s) \cup {b.tag}
  BY TagsMove DEF Gained
<1>3. \A s \in Seq(Block) : \A b, t : Took(s, b, t) => Tags(s) = Tags(t) \cup {b.tag} /\ b \in Block
  BY TagsMove, BlockSeq DEF Took
<1> QED BY <1>1, <1>2, <1>3 DEF Known

\* Moves keep sequences of blocks.
LEMMA MoveTypes ==
    /\ \A s \in Seq(Block) : \A b, t : Took(s, b, t) => b \in Block /\ t \in Seq(Block)
    /\ \A s \in Seq(Block) : \A b \in Block : \A t : Gained(s, b, t) => t \in Seq(Block)
    /\ \A b \in Block : \A s : Single(s, b) => s \in Seq(Block)
    /\ \A s : Empty(s) => s \in Seq(Block)
    /\ \A a \in Block : \A k \in Nat : \A b : Tag(a, b, k) => b \in Block
<1>1. \A s \in Seq(Block) : \A b, t : Took(s, b, t) => b \in Block /\ t \in Seq(Block)
  BY BlockSeq DEF Took
<1>2. \A s \in Seq(Block) : \A b \in Block : \A t : Gained(s, b, t) => t \in Seq(Block)
  BY BlockSeq DEF Gained
<1>3. \A b \in Block : \A s : Single(s, b) => s \in Seq(Block)
  BY DEF Single
<1>4. \A s : Empty(s) => s \in Seq(Block)
  BY EmptySeq DEF Empty
<1>5. \A a \in Block : \A k \in Nat : \A b : Tag(a, b, k) => b \in Block
  BY DEF Tag, Block
<1> QED BY <1>1, <1>2, <1>3, <1>4, <1>5

-------------------------------------------------------------------------------
(* Ranges and columns: execute deals the ranges out in contiguous runs.    *)

LEMMA RangesOfUpper ==
    ASSUME NEW r \in Ranges
    PROVE  /\ ColumnOf(r) \in Uppers
           /\ (ColumnOf(r) - 1) * (CPU_CORE \div NUppers) < r
           /\ r <= ColumnOf(r) * (CPU_CORE \div NUppers)
<1> DEFINE mul == CPU_CORE \div NUppers
           q == (r - 1) \div mul
<1>1. /\ NUppers \in Nat /\ NUppers > 0 /\ CPU_CORE \in Nat /\ CPU_CORE > 0
      /\ CPU_CORE % NUppers = 0 /\ r \in Nat /\ r >= 1 /\ r <= CPU_CORE
  BY ShuffleAssumption DEF Ranges
<1>2. mul \in Int /\ CPU_CORE = NUppers * mul
  BY <1>1
<1> HIDE DEF mul
<1>3. mul >= 1
  BY <1>1, <1>2
<1>4. q \in Int /\ q >= 0 /\ mul * q <= r - 1 /\ r - 1 < mul * q + mul
  BY <1>1, <1>2, <1>3
<1> HIDE DEF q
<1>5. q < NUppers
  <2> SUFFICES ASSUME q >= NUppers PROVE FALSE
    BY <1>1, <1>4
  <2>1. mul * q >= mul * NUppers
    BY <1>1, <1>2, <1>3, <1>4
  <2> QED BY <1>1, <1>2, <1>4, <2>1
<1>6. PICK k \in Int : k = q + 1 /\ k = ColumnOf(r)
  BY <1>4 DEF ColumnOf, q, mul
<1>7. (k - 1) * mul = mul * q /\ k * mul = mul * q + mul
  BY <1>2, <1>4, <1>6
<1>8. (k - 1) * mul < r /\ r <= k * mul
  BY <1>1, <1>2, <1>4, <1>7
<1>9. k \in Uppers
  BY <1>1, <1>4, <1>5, <1>6 DEF Uppers
<1> QED BY <1>6, <1>8, <1>9 DEF mul

-------------------------------------------------------------------------------
(* The steps of the exchange.                                              *)

LEMMA InHandType ==
    ASSUME TypeOK, NEW l \in Lowers, NEW u \in Uppers
    PROVE  InHand(l, u) \in Seq(Block)
BY EmptySeq DEF TypeOK, InHand

\* The sequences of a line, for the lemmas on conduits.
LEMMA LineTypes ==
    ASSUME TypeOK, NEW u \in Uppers, NEW i \in Lowers
    PROVE  LET l == map_lower_[u][i]
           IN  /\ l \in Lowers /\ out[u][i] \in Seq(Block) /\ ucols[u][i] \in Seq(Block)
               /\ chan[l][u] \in Seq(Block) /\ InHand(l, u) \in Seq(Block)
               /\ lcols[l][u] \in Seq(Block) /\ lost[u][i] \in Seq(Block)
               /\ debug_count_[l] \in Nat
<1>1. map_lower_[u][i] \in Lowers
  BY DEF TypeOK
<1> QED BY <1>1, InHandType DEF TypeOK

\* Steps that leave the blocks where they are.
LEMMA LinesKept ==
    ASSUME Lines, Accounted, Wired,
           UNCHANGED <<out, ucols, chan, block_temp_, lscan, lcols, lost, marked, debug_count_, map_lower_>>
    PROVE  Lines' /\ Accounted' /\ Wired'
BY DEF Lines, Accounted, Wired, Line, Seen, InHand

LEMMA AccountedKept ==
    ASSUME Accounted, UNCHANGED <<map_lower_, debug_count_>>,
           \A u \in Uppers, i \in Lowers : Seen(u, i) \subseteq Seen(u, i)'
    PROVE  Accounted'
BY DEF Accounted

LEMMA WiredKept ==
    ASSUME Wired, UNCHANGED map_lower_ PROVE Wired'
BY DEF Wired

LEMMA CountsKept ==
    ASSUME Counts, UNCHANGED <<out, uzero, upc>> PROVE Counts'
BY DEF Counts, Closed

LEMMA InitInv == Init => Inv
<1> SUFFICES ASSUME Init PROVE Inv
  OBVIOUS
<1> USE DEF Init
<1>1. TypeOK
  <2>1. 1 \in Lowers /\ 1 \in Uppers /\ 0 \in 0..NLowers /\ 0 \in 0..NUppers
    BY ShuffleAssumption DEF Lowers, Uppers
  <2>2. Input \in [Lowers -> Seq(Tuples)] /\ <<>> \in Seq(Tuples) /\ <<>> \in Seq(Block)
    BY ShuffleAssumption, EmptySeq
  <2> QED BY <2>1, <2>2 DEF TypeOK
<1>2. Wired
  <2> SUFFICES ASSUME NEW u \in Uppers
               PROVE  /\ \A i, j \in Lowers : map_lower_[u][i] = map_lower_[u][j] => i = j
                      /\ \A l \in Lowers : \E i \in Lowers : map_lower_[u][i] = l
    BY DEF Wired
  <2>1. map_lower_[u] \in [Lowers -> Lowers]
    OBVIOUS
  <2>2. \A i, j \in Lowers : map_lower_[u][i] = map_lower_[u][j] => i = j
    OBVIOUS
  <2>3. map_lower_[u] \in Injection(Lowers, Lowers)
    BY <2>1, <2>2 DEF Injection, IsInjective
  <2>4. IsFiniteSet(Lowers)
    BY ShuffleAssumption, FS_Interval DEF Lowers
  <2>5. map_lower_[u] \in Surjection(Lowers, Lowers)
    BY <2>3, <2>4, FS_Injection
  <2> QED BY <2>2, <2>5 DEF Surjection
<1>3. LowerOK
  <2>1. Len(<<>>) = 0
    BY EmptySeq
  <2> QED BY <2>1 DEF LowerOK
<1>4. Lines
  <2> SUFFICES ASSUME NEW u \in Uppers, NEW i \in Lowers PROVE Line(u, i)
    BY DEF Lines
  <2>1. map_lower_[u][i] \in Lowers
    BY <1>1 DEF TypeOK
  <2>2. Tagged(<<>>, <<>>, <<>>, <<>>) = <<>>
    BY EmptySeq, ConcatEmptySeq DEF Tagged
  <2>3. Conduit(<<>>, <<>>, <<>>, <<>>, <<>>, <<>>, FALSE, 0, u)
    BY <2>2, EmptySeq DEF Conduit, Ordered, Ascending, OneMarker, MarkerLast, Ended, AllFor
  <2>4. ~(0 >= u)
    BY ShuffleAssumption DEF Uppers
  <2>5. PICK l \in Lowers : l = map_lower_[u][i]
    BY <2>1
  <2>6. marked[l] = 0 /\ debug_count_[l] = 0 /\ InHand(l, u) = <<>>
    BY DEF InHand
  <2>7. (marked[l] >= u) = FALSE
    BY <2>4, <2>6
  <2> QED BY <2>3, <2>5, <2>6, <2>7 DEF Line
<1>5. Accounted
  BY DEF Accounted
<1>6. Counts
  <2>1. \A u \in Uppers : Closed(u) = {}
    BY DEF Closed, Ended
  <2>2. NLowers # 0
    BY ShuffleAssumption
  <2> QED BY <2>1, <2>2, FS_EmptySet DEF Counts
<1> QED BY <1>1, <1>2, <1>3, <1>4, <1>5, <1>6 DEF Inv

\* LowerPut adds a block to one line, before the marker, or the marker itself.
LEMMA PutStep ==
    ASSUME Inv, NEW l \in Lowers, NEW v \in Uppers, NEW b \in Block, LowerPut(l, v, b),
           ForUpper(b, v), ~(marked[l] >= v), IsMarker(b) <=> marked'[l] >= v,
           \A m \in Lowers, u \in Uppers : m # l \/ u # v => (marked'[m] >= u <=> marked[m] >= u),
           UNCHANGED <<sendVars, chan, map_lower_, recvVars, ucols, execVars>>
    PROVE  Lines' /\ Accounted' /\ Wired' /\ Counts' /\ lcols' \in [Lowers -> [Uppers -> Seq(Block)]]
<1>1. /\ TypeOK /\ Lines /\ Accounted /\ Wired /\ Counts
      /\ lcols \in [Lowers -> [Uppers -> Seq(Block)]]
  BY DEF Inv, TypeOK
<1>2. /\ out' = out /\ ucols' = ucols /\ chan' = chan /\ lost' = lost /\ map_lower_' = map_lower_
      /\ debug_count_' = debug_count_ /\ uzero' = uzero /\ upc' = upc
      /\ lscan' = lscan /\ block_temp_' = block_temp_
  BY DEF sendVars, recvVars, execVars
<1>3. \A m \in Lowers, u \in Uppers : InHand(m, u)' = InHand(m, u)
  BY <1>2 DEF InHand
<1>4. /\ lcols'[l][v] = Append(lcols[l][v], b)
      /\ \A m \in Lowers, u \in Uppers : m # l \/ u # v => lcols'[m][u] = lcols[m][u]
      /\ lcols' \in [Lowers -> [Uppers -> Seq(Block)]]
  <2>1. Append(lcols[l][v], b) \in Seq(Block)
    BY <1>1, BlockSeq
  <2> QED BY <1>1, <2>1 DEF LowerPut
<1>5. ASSUME NEW u \in Uppers, NEW i \in Lowers PROVE Line(u, i)'
  <2>1. PICK m \in Lowers : m = map_lower_[u][i]
    BY <1>1, LineTypes
  <2>2. Conduit(out[u][i], ucols[u][i], chan[m][u], InHand(m, u), lcols[m][u], lost[u][i],
                marked[m] >= u, debug_count_[m], u)
    BY <1>1, <2>1 DEF Lines, Line
  <2>3. /\ out[u][i] \in Seq(Block) /\ ucols[u][i] \in Seq(Block) /\ chan[m][u] \in Seq(Block)
        /\ InHand(m, u) \in Seq(Block) /\ lcols[m][u] \in Seq(Block) /\ lost[u][i] \in Seq(Block)
        /\ debug_count_[m] \in Nat
    BY <1>1, <2>1, LineTypes
  <2>4. Conduit(out[u][i], ucols[u][i], chan[m][u], InHand(m, u), lcols'[m][u], lost[u][i],
                marked'[m] >= u, debug_count_[m], u)
    <3>1. CASE m = l /\ u = v
      <4>1. (marked[m] >= u) = FALSE
        BY <3>1
      <4>2. /\ IsMarker(b) =>
                 Conduit(out[u][i], ucols[u][i], chan[m][u], InHand(m, u), Append(lcols[m][u], b),
                         lost[u][i], TRUE, debug_count_[m], u)
            /\ ~IsMarker(b) =>
                 Conduit(out[u][i], ucols[u][i], chan[m][u], InHand(m, u), Append(lcols[m][u], b),
                         lost[u][i], FALSE, debug_count_[m], u)
        BY <2>2, <2>3, <3>1, <4>1, ConduitPut
      <4>3. CASE marked'[m] >= u
        <5>1. (marked'[m] >= u) = TRUE /\ IsMarker(b)
          BY <3>1, <4>3
        <5> QED BY <1>4, <3>1, <4>2, <5>1
      <4>4. CASE ~(marked'[m] >= u)
        <5>1. (marked'[m] >= u) = FALSE /\ ~IsMarker(b)
          BY <3>1, <4>4
        <5> QED BY <1>4, <3>1, <4>2, <5>1
      <4> QED BY <4>3, <4>4
    <3>2. CASE m # l \/ u # v
      <4>1. lcols'[m][u] = lcols[m][u] /\ (marked'[m] >= u) = (marked[m] >= u)
        BY <1>4, <3>2
      <4> QED BY <2>2, <4>1
    <3> QED BY <3>1, <3>2
  <2> QED BY <1>2, <1>3, <2>1, <2>4 DEF Line
<1>6. Lines'
  BY <1>5 DEF Lines
<1>7. \A u \in Uppers, i \in Lowers : Seen(u, i)' = Seen(u, i)
  <2> TAKE u \in Uppers, i \in Lowers
  <2>1. PICK m \in Lowers : m = map_lower_[u][i]
    BY <1>1, LineTypes
  <2> QED BY <1>2, <1>3, <2>1 DEF Seen
<1>8. Accounted'
  BY <1>1, <1>2, <1>7, AccountedKept
<1>9. Wired' /\ Counts'
  BY <1>1, <1>2, WiredKept, CountsKept
<1> QED BY <1>4, <1>6, <1>8, <1>9

LEMMA StoreTupleStep ==
    ASSUME Inv, NEW l \in Lowers, StoreTuple(l) PROVE Inv'
<1> DEFINE t == Head(child[l])
           r == RangeOf[t]
<1>1. child[l] \in Seq(Tuples) /\ child[l] # <<>> /\ t \in Tuples /\ Tail(child[l]) \in Seq(Tuples)
  BY HeadTailProperties DEF Inv, TypeOK, StoreTuple, NextTuple
<1>2. r \in Ranges
  BY <1>1, ShuffleAssumption
<1>3. buffers_[l][r] \in Seq(Tuples) /\ Append(buffers_[l][r], t) \in Seq(Tuples)
  <2> HIDE DEF t, r
  <2>1. buffers_[l][r] \in Seq(Tuples)
    BY <1>2 DEF Inv, TypeOK
  <2> QED BY <1>1, <2>1, AppendProperties
<1>4. /\ child' = [child EXCEPT ![l] = Tail(@)]
      /\ buffers_' = [buffers_ EXCEPT ![l][r] = Append(buffers_[l][r], t)]
      /\ UNCHANGED <<marked, lcols, sendVars, alive, chan, map_lower_, recvVars, ucols, execVars>>
  BY DEF StoreTuple, NextTuple
<1> HIDE DEF t, r
<1>5. TypeOK'
  BY <1>1, <1>2, <1>3, <1>4 DEF Inv, TypeOK, sendVars, recvVars, execVars
<1>6. LowerOK'
  <2> SUFFICES ASSUME NEW m \in Lowers
               PROVE  /\ Len(block_temp_'[m]) <= 1
                      /\ marked'[m] > 0 => child'[m] = <<>>
                      /\ \A s \in Ranges : \A k \in 1..Len(buffers_'[m][s]) :
                             RangeOf[buffers_'[m][s][k]] = s
    BY DEF LowerOK
  <2>1. /\ Len(block_temp_[m]) <= 1
        /\ marked[m] > 0 => child[m] = <<>>
        /\ \A s \in Ranges : \A k \in 1..Len(buffers_[m][s]) : RangeOf[buffers_[m][s][k]] = s
    BY DEF Inv, LowerOK
  <2>2. Len(block_temp_'[m]) <= 1
    BY <1>4, <2>1 DEF sendVars
  <2>3. marked'[m] > 0 => child'[m] = <<>>
    <3>1. child' = [child EXCEPT ![l] = Tail(child[l])] /\ child \in [Lowers -> Seq(Tuples)]
      BY <1>4 DEF Inv, TypeOK
    <3>2. CASE m = l
      BY <1>1, <1>4, <2>1, <3>2
    <3>3. CASE m # l
      BY <1>4, <2>1, <3>1, <3>3
    <3> QED BY <3>2, <3>3
  <2>4. ASSUME NEW s \in Ranges, NEW k \in 1..Len(buffers_'[m][s])
        PROVE  RangeOf[buffers_'[m][s][k]] = s
    <3>1. buffers_ \in [Lowers -> [Ranges -> Seq(Tuples)]]
      BY DEF Inv, TypeOK
    <3>2. CASE m = l /\ s = r
      <4>1. PICK a \in Seq(Tuples) : a = buffers_[l][r]
        BY <1>3
      <4>2. buffers_'[m][s] = Append(a, t)
        BY <1>2, <1>4, <3>1, <3>2, <4>1
      <4>3. \A j \in 1..Len(a) : RangeOf[a[j]] = r
        BY <2>1, <3>2, <4>1
      <4>4. /\ Len(Append(a, t)) = Len(a) + 1 /\ Len(a) \in Nat /\ Append(a, t)[Len(a) + 1] = t
            /\ \A j \in 1..Len(a) : Append(a, t)[j] = a[j]
        BY <1>1, AppendProperties, LenProperties
      <4>5. k \in 1..Len(a) \/ k = Len(a) + 1
        BY <4>2, <4>4, <2>4
      <4>6. RangeOf[t] = r
        BY DEF r
      <4> QED BY <3>2, <4>2, <4>3, <4>4, <4>5, <4>6
    <3>3. CASE ~(m = l /\ s = r)
      <4>1. buffers_'[m][s] = buffers_[m][s]
        BY <1>4, <3>1, <3>3
      <4> QED BY <2>1, <2>4, <4>1
    <3> QED BY <3>2, <3>3
  <2> QED BY <2>2, <2>3, <2>4
<1>7. Lines' /\ Accounted' /\ Wired' /\ Counts'
  BY <1>4, LinesKept, CountsKept DEF Inv, sendVars, recvVars, execVars
<1> QED BY <1>5, <1>6, <1>7 DEF Inv

LEMMA FlushBufferStep ==
    ASSUME Inv, NEW l \in Lowers, FlushBuffer(l) PROVE Inv'
<1>1. /\ child[l] \in Seq(Tuples) /\ child[l] # <<>> /\ Head(child[l]) \in Tuples
      /\ Tail(child[l]) \in Seq(Tuples)
  BY HeadTailProperties DEF Inv, TypeOK, FlushBuffer, NextTuple
<1>2. PICK r \in Ranges : r = RangeOf[Head(child[l])]
  BY <1>1, ShuffleAssumption
<1>3. PICK a \in Seq(Tuples) : a = buffers_[l][r]
  BY DEF Inv, TypeOK
<1>4. PICK b : b = [tag |-> 0, tuples |-> SubSeq(a, 1, Counted)]
  OBVIOUS
<1>5. /\ Len(a) = Fit
      /\ exchange_id # 10 => LowerPut(l, ColumnOf(r), b)
      /\ exchange_id = 10 => lcols' = lcols
      /\ buffers_' = [buffers_ EXCEPT ![l][r] = <<>>]
      /\ child' = [child EXCEPT ![l] = Tail(child[l])]
      /\ UNCHANGED <<marked, sendVars, alive, chan, map_lower_, recvVars, ucols, execVars>>
  BY <1>2, <1>3, <1>4 DEF FlushBuffer, NextTuple
<1>6. /\ marked[l] = 0 /\ marked' = marked
      /\ \A k \in 1..Len(a) : RangeOf[a[k]] = r
  BY <1>1, <1>3, <1>5 DEF Inv, LowerOK, TypeOK
<1>7. Counted \in Nat /\ 1 <= Counted /\ Counted <= Fit /\ Fit \in Nat
  BY ShuffleAssumption
<1>8. /\ SubSeq(a, 1, Counted) \in Seq(Tuples) /\ Len(SubSeq(a, 1, Counted)) = Counted
      /\ \A k \in 1..Counted : SubSeq(a, 1, Counted)[k] = a[k]
  BY <1>5, <1>7, SubSeqProperties
<1>9. b \in Block /\ ~IsMarker(b)
  <2>1. SubSeq(a, 1, Counted) # <<>>
    <3>1. PICK z \in Seq(Tuples) : z = SubSeq(a, 1, Counted) /\ Len(z) = Counted
      BY <1>8
    <3>2. Len(<<>>) = 0 /\ Counted # 0
      BY <1>7, EmptySeq
    <3>3. z # <<>>
      BY <3>1, <3>2, Zenon
    <3> QED BY <3>1, <3>3
  <2> QED BY <1>4, <1>8, <2>1 DEF Block, IsMarker
<1>10. ForUpper(b, ColumnOf(r))
  <2> SUFFICES ASSUME NEW k \in 1..Len(b.tuples) PROVE ColumnOf(RangeOf[b.tuples[k]]) = ColumnOf(r)
    BY DEF ForUpper
  <2>1. k \in 1..Counted /\ b.tuples[k] = a[k]
    BY <1>4, <1>8
  <2>2. k \in 1..Len(a)
    BY <1>5, <1>7, <2>1
  <2>3. RangeOf[b.tuples[k]] = r
    BY <1>6, <2>1, <2>2
  <2> QED BY <2>3
<1>11. Lines' /\ Accounted' /\ Wired' /\ Counts' /\ lcols' \in [Lowers -> [Uppers -> Seq(Block)]]
  <2>1. CASE exchange_id # 10
    <3>1. PICK v \in Uppers : v = ColumnOf(r)
      BY RangesOfUpper
    <3>2. ~(marked[l] >= v)
      BY <1>6, ShuffleAssumption DEF Uppers
    <3>3. LowerPut(l, v, b) /\ ForUpper(b, v)
      BY <1>5, <1>10, <2>1, <3>1
    <3>4. IsMarker(b) <=> marked'[l] >= v
      BY <1>6, <1>9, <3>2
    <3> QED BY <1>5, <1>6, <1>9, <3>2, <3>3, <3>4, PutStep
  <2>2. CASE exchange_id = 10
    <3>1. lcols' = lcols
      BY <1>5, <2>2
    <3> QED BY <1>5, <3>1, LinesKept, CountsKept DEF Inv, TypeOK, sendVars, recvVars, execVars
  <2> QED BY <2>1, <2>2
<1>12. TypeOK'
  BY <1>1, <1>5, <1>11, EmptySeq DEF Inv, TypeOK, sendVars, recvVars, execVars
<1>13. LowerOK'
  <2> SUFFICES ASSUME NEW m \in Lowers
               PROVE  /\ Len(block_temp_'[m]) <= 1
                      /\ marked'[m] > 0 => child'[m] = <<>>
                      /\ \A s \in Ranges : \A k \in 1..Len(buffers_'[m][s]) :
                             RangeOf[buffers_'[m][s][k]] = s
    BY DEF LowerOK
  <2>1. /\ Len(block_temp_[m]) <= 1
        /\ marked[m] > 0 => child[m] = <<>>
        /\ \A s \in Ranges : \A k \in 1..Len(buffers_[m][s]) : RangeOf[buffers_[m][s][k]] = s
    BY DEF Inv, LowerOK
  <2>2. Len(block_temp_'[m]) <= 1
    BY <1>5, <2>1 DEF sendVars
  <2>3. marked'[m] > 0 => child'[m] = <<>>
    <3>1. child \in [Lowers -> Seq(Tuples)]
      BY DEF Inv, TypeOK
    <3>2. CASE m = l
      BY <1>6, <3>2
    <3>3. CASE m # l
      BY <1>5, <2>1, <3>1, <3>3
    <3> QED BY <3>2, <3>3
  <2>4. ASSUME NEW s \in Ranges, NEW k \in 1..Len(buffers_'[m][s])
        PROVE  RangeOf[buffers_'[m][s][k]] = s
    <3>1. buffers_ \in [Lowers -> [Ranges -> Seq(Tuples)]]
      BY DEF Inv, TypeOK
    <3>2. CASE m = l /\ s = r
      <4>1. buffers_'[m][s] = <<>>
        BY <1>5, <3>1, <3>2
      <4> QED BY <2>4, <4>1, EmptySeq
    <3>3. CASE ~(m = l /\ s = r)
      <4>1. buffers_'[m][s] = buffers_[m][s]
        BY <1>5, <3>1, <3>3
      <4> QED BY <2>1, <2>4, <4>1
    <3> QED BY <3>2, <3>3
  <2> QED BY <2>2, <2>3, <2>4
<1> QED BY <1>11, <1>12, <1>13 DEF Inv

LEMMA PutMarkerStep ==
    ASSUME Inv, NEW l \in Lowers, PutMarker(l) PROVE Inv'
<1>1. /\ marked \in [Lowers -> 0..NUppers] /\ marked[l] \in Nat /\ NUppers \in Nat
      /\ marked[l] < NUppers
  BY ShuffleAssumption DEF Inv, TypeOK, PutMarker
<1>2. PICK v \in Uppers : v = marked[l] + 1
  BY <1>1 DEF Uppers
<1>3. /\ LowerPut(l, v, Marker) /\ child[l] = <<>>
      /\ marked' = [marked EXCEPT ![l] = v]
      /\ UNCHANGED <<child, buffers_, sendVars, alive, chan, map_lower_, recvVars, ucols, execVars>>
  BY <1>2 DEF PutMarker
<1>4. Marker \in Block /\ IsMarker(Marker) /\ ForUpper(Marker, v)
  <2>1. Marker.tuples = <<>> /\ Marker.tag = 0
    BY DEF Marker
  <2>2. Marker \in Block
    BY EmptySeq DEF Marker, Block
  <2> QED BY <2>1, <2>2, EmptySeq DEF IsMarker, ForUpper
<1>5. v \in Nat /\ ~(marked[l] >= v) /\ marked'[l] >= v
  BY <1>1, <1>2, <1>3
<1>6. ASSUME NEW m \in Lowers, NEW u \in Uppers, m # l \/ u # v
      PROVE  marked'[m] >= u <=> marked[m] >= u
  <2>1. u \in Nat
    BY ShuffleAssumption DEF Uppers
  <2>2. CASE m = l
    BY <1>1, <1>2, <1>3, <1>6, <2>1, <2>2
  <2>3. CASE m # l
    BY <1>1, <1>3, <2>3
  <2> QED BY <2>2, <2>3
<1>7. Lines' /\ Accounted' /\ Wired' /\ Counts' /\ lcols' \in [Lowers -> [Uppers -> Seq(Block)]]
  BY <1>3, <1>4, <1>5, <1>6, PutStep
<1>8. TypeOK'
  <2>1. v \in 0..NUppers
    BY <1>1, <1>2
  <2> QED BY <1>3, <1>7, <2>1 DEF Inv, TypeOK, sendVars, recvVars, execVars
<1>9. LowerOK'
  <2>1. ASSUME NEW m \in Lowers PROVE marked'[m] > 0 => child'[m] = <<>>
    <3>1. CASE m = l
      BY <1>3, <3>1
    <3>2. CASE m # l
      BY <1>1, <1>3, <3>2 DEF Inv, LowerOK
    <3> QED BY <3>1, <3>2
  <2>2. buffers_' = buffers_ /\ block_temp_' = block_temp_
    BY <1>3 DEF sendVars
  <2> QED BY <2>1, <2>2 DEF Inv, LowerOK
<1> QED BY <1>7, <1>8, <1>9 DEF Inv

\* send_route takes a block off one line's column and tags it.
LEMMA SendGetStep ==
    ASSUME Inv, NEW l \in Lowers, SendGet(l) PROVE Inv'
<1>1. TypeOK /\ Wired /\ LowerOK /\ Lines /\ Accounted /\ Counts
  BY DEF Inv
<1>2. PICK v \in Uppers : v = lscan[l]
  BY <1>1 DEF TypeOK
<1>3. PICK q \in Seq(Block) : q = lcols[l][v]
  BY <1>1 DEF TypeOK
<1>4. PICK k \in Nat : k = debug_count_[l]
  BY <1>1 DEF TypeOK
<1>5. PICK a, p : a = Head(q) /\ p = Tail(q)
  OBVIOUS
<1>6. PICK b : b = [tag |-> k + 1, tuples |-> a.tuples]
  OBVIOUS
<1>7. PICK g : g = <<b>>
  OBVIOUS
<1>8. Took(q, a, p) /\ Tag(a, b, k + 1) /\ Single(g, b) /\ Empty(block_temp_[l])
  BY <1>2, <1>3, <1>5, <1>6, <1>7 DEF SendGet, Took, Tag, Single, Empty
<1>9. p \in Seq(Block) /\ b \in Block /\ g \in Seq(Block)
  <2>1. k + 1 \in Nat
    OBVIOUS
  <2> QED BY <1>8, <2>1, MoveTypes
<1>10. /\ debug_count_' = [debug_count_ EXCEPT ![l] = k + 1]
       /\ block_temp_' = [block_temp_ EXCEPT ![l] = g]
       /\ lcols' = [lcols EXCEPT ![l][v] = p]
  BY <1>2, <1>3, <1>4, <1>5, <1>6, <1>7 DEF SendGet
<1>11. /\ out' = out /\ ucols' = ucols /\ chan' = chan /\ lost' = lost /\ map_lower_' = map_lower_
       /\ marked' = marked /\ lscan' = lscan /\ uzero' = uzero /\ upc' = upc /\ child' = child
       /\ buffers_' = buffers_ /\ alive' = alive /\ lzero' = lzero /\ fds' = fds /\ mzero' = mzero
       /\ uscan' = uscan
  BY DEF SendGet, lowerVars, recvVars, execVars
<1>12. TypeOK'
  <2>1. block_temp_' \in [Lowers -> Seq(Block)] /\ lcols' \in [Lowers -> [Uppers -> Seq(Block)]]
    BY <1>1, <1>9, <1>10 DEF TypeOK
  <2>2. debug_count_' \in [Lowers -> Nat]
    BY <1>1, <1>10 DEF TypeOK
  <2> QED BY <1>1, <1>11, <2>1, <2>2 DEF TypeOK
<1>13. /\ lcols'[l][v] = p
       /\ \A m \in Lowers, u \in Uppers : m # l \/ u # v => lcols'[m][u] = lcols[m][u]
  BY <1>1, <1>10 DEF TypeOK
<1>14. debug_count_'[l] = k + 1 /\ \A m \in Lowers : m # l => debug_count_'[m] = debug_count_[m]
  BY <1>1, <1>10 DEF TypeOK
<1>15. block_temp_'[l] = g /\ \A m \in Lowers : m # l => block_temp_'[m] = block_temp_[m]
  BY <1>1, <1>10 DEF TypeOK
<1>16. /\ Empty(InHand(l, v)) /\ InHand(l, v)' = g
       /\ \A m \in Lowers, u \in Uppers : m # l \/ u # v => InHand(m, u)' = InHand(m, u)
  BY <1>2, <1>8, <1>11, <1>15 DEF InHand
<1>17. ASSUME NEW u \in Uppers, NEW i \in Lowers
       PROVE  /\ Line(u, i)' /\ Seen(u, i) \subseteq Seen(u, i)'
              /\ map_lower_[u][i] = l /\ u = v => k + 1 \in Seen(u, i)'
  <2>1. PICK m \in Lowers : m = map_lower_[u][i]
    BY <1>1, LineTypes
  <2>2. PICK o \in Seq(Block), c \in Seq(Block), n \in Seq(Block), h \in Seq(Block),
             x \in Seq(Block) :
          /\ o = out[u][i] /\ c = ucols[u][i] /\ n = chan[m][u] /\ h = InHand(m, u)
          /\ x = lost[u][i]
    BY <1>1, <2>1, LineTypes
  <2> DEFINE d == marked[m] >= u
  <2>3. lcols[m][u] \in Seq(Block) /\ debug_count_[m] \in Nat
    BY <1>1, <2>1, LineTypes
  <2>4. Conduit(o, c, n, h, lcols[m][u], x, d, debug_count_[m], u)
    BY <1>1, <2>1, <2>2 DEF Lines, Line
  <2> HIDE DEF d
  <2>5. /\ Conduit(o, c, n, InHand(m, u)', lcols'[m][u], x, d, debug_count_'[m], u)
        /\ Known(o, c, n, h, x) \subseteq Known(o, c, n, InHand(m, u)', x)
        /\ m = l /\ u = v => k + 1 \in Known(o, c, n, InHand(m, u)', x)
    <3>1. CASE m = l /\ u = v
      <4>1. Conduit(o, c, n, h, q, x, d, k, u) /\ Empty(h)
        BY <1>3, <1>4, <1>16, <2>2, <2>4, <3>1
      <4>2. Conduit(o, c, n, g, p, x, d, k + 1, u)
        <5>1. PICK j \in Nat : j = k + 1
          OBVIOUS
        <5>2. Tag(a, b, j)
          BY <1>8, <5>1
        <5>3. Took(q, a, p) /\ Single(g, b) /\ b \in Block
          BY <1>8, <1>9
        <5>4. Conduit(o, c, n, g, p, x, d, j, u)
          BY <4>1, <5>1, <5>2, <5>3, ConduitGet
        <5> QED BY <5>1, <5>4
      <4>3. Known(o, c, n, g, x) = Known(o, c, n, h, x) \cup {b.tag}
        BY <1>8, <1>9, <4>1, KnownMoves
      <4>4. b.tag = k + 1
        BY <1>6
      <4> QED BY <1>13, <1>14, <1>16, <3>1, <4>2, <4>3, <4>4
    <3>2. CASE m = l /\ u # v
      <4>1. Conduit(o, c, n, h, lcols[m][u], x, d, k + 1, u)
        BY <1>4, <2>4, <3>2, ConduitCount
      <4> QED BY <1>13, <1>14, <1>16, <2>2, <3>2, <4>1
    <3>3. CASE m # l
      BY <1>13, <1>14, <1>16, <2>2, <2>4, <3>3
    <3> QED BY <3>1, <3>2, <3>3
  <2>6. /\ Seen(u, i)' = Known(o, c, n, InHand(m, u)', x)
        /\ Seen(u, i) = Known(o, c, n, h, x)
    BY <1>11, <2>1, <2>2 DEF Seen
  <2>7. Line(u, i)'
    BY <1>11, <2>1, <2>2, <2>5 DEF Line, d
  <2> QED BY <2>1, <2>5, <2>6, <2>7
<1>18. Accounted'
  <2> SUFFICES ASSUME NEW m \in Lowers, NEW j \in 1..debug_count_'[m]
               PROVE  \E u \in Uppers, i \in Lowers : map_lower_'[u][i] = m /\ j \in Seen(u, i)'
    BY DEF Accounted
  <2>1. CASE j \in 1..debug_count_[m]
    <3>1. PICK u \in Uppers, i \in Lowers : map_lower_[u][i] = m /\ j \in Seen(u, i)
      BY <1>1, <2>1 DEF Accounted
    <3> QED BY <1>11, <1>17, <3>1
  <2>2. CASE j \notin 1..debug_count_[m]
    <3>1. m = l /\ j = k + 1
      BY <1>4, <1>14, <2>2
    <3>2. PICK i \in Lowers : map_lower_[v][i] = l
      BY <1>1 DEF Wired
    <3>3. k + 1 \in Seen(v, i)'
      BY <1>17, <3>2
    <3> QED BY <1>11, <3>1, <3>2, <3>3
  <2> QED BY <2>1, <2>2
<1>19. Lines' /\ Wired' /\ Counts'
  BY <1>1, <1>11, <1>17, WiredKept, CountsKept DEF Lines
<1>20. LowerOK'
  <2>1. Len(g) <= 1
    BY <1>7
  <2>2. \A m \in Lowers : Len(block_temp_[m]) <= 1
    BY <1>1 DEF LowerOK
  <2>3. \A m \in Lowers : Len(block_temp_'[m]) <= 1
    BY <1>15, <2>1, <2>2, Zenon
  <2> QED BY <1>1, <1>11, <2>3 DEF LowerOK
<1> QED BY <1>12, <1>18, <1>19, <1>20 DEF Inv

LEMMA NextColumnType ==
    ASSUME NEW n \in Nat \ {0}, NEW u \in 1..n PROVE NextColumn(u, n) \in 1..n
BY DEF NextColumn

LEMMA SendMissStep ==
    ASSUME Inv, NEW l \in Lowers, SendMiss(l) PROVE Inv'
<1>1. TypeOK /\ Wired /\ LowerOK /\ Lines /\ Accounted /\ Counts
  BY DEF Inv
<1>2. /\ block_temp_[l] = <<>> /\ lscan' = [lscan EXCEPT ![l] = NextColumn(lscan[l], NUppers)]
      /\ lscan \in [Lowers -> Uppers]
  BY <1>1 DEF SendMiss, TypeOK
<1>3. /\ UNCHANGED <<out, ucols, chan, block_temp_, lcols, lost, marked, debug_count_, map_lower_>>
      /\ UNCHANGED <<child, buffers_, lzero, alive, fds, mzero, uscan, uzero, upc>>
  BY DEF SendMiss, lowerVars, recvVars, execVars
<1>4. NextColumn(lscan[l], NUppers) \in Uppers
  BY <1>2, NextColumnType, ShuffleAssumption DEF Uppers
<1>5. TypeOK'
  BY <1>1, <1>2, <1>3, <1>4 DEF TypeOK
<1>6. \A m \in Lowers, u \in Uppers : InHand(m, u)' = InHand(m, u)
  <2> TAKE m \in Lowers, u \in Uppers
  <2>1. CASE m = l
    BY <1>2, <1>3, <2>1 DEF InHand
  <2>2. CASE m # l
    BY <1>2, <1>3, <2>2 DEF InHand
  <2> QED BY <2>1, <2>2
<1>7. ASSUME NEW u \in Uppers, NEW i \in Lowers PROVE Line(u, i)' /\ Seen(u, i)' = Seen(u, i)
  <2>1. PICK m \in Lowers : m = map_lower_[u][i]
    BY <1>1, LineTypes
  <2>2. Line(u, i)
    BY <1>1 DEF Lines
  <2> QED BY <1>3, <1>6, <2>1, <2>2 DEF Line, Seen
<1>8. Lines' /\ Accounted' /\ Wired' /\ Counts'
  BY <1>1, <1>3, <1>7, AccountedKept, WiredKept, CountsKept DEF Lines
<1>9. LowerOK'
  BY <1>1, <1>3 DEF LowerOK
<1> QED BY <1>5, <1>8, <1>9 DEF Inv

\* m_send moves the block in hand into the socket of its line.
LEMMA SendBlockStep ==
    ASSUME Inv, NEW l \in Lowers, SendBlock(l) PROVE Inv'
<1>1. TypeOK /\ Wired /\ LowerOK /\ Lines /\ Accounted /\ Counts
  BY DEF Inv
<1>2. PICK v \in Uppers : v = lscan[l]
  BY <1>1 DEF TypeOK
<1>3. PICK h \in Seq(Block) : h = block_temp_[l]
  BY <1>1 DEF TypeOK
<1>4. h # <<>> /\ Len(h) <= 1
  BY <1>1, <1>3 DEF SendBlock, LowerOK
<1>5. PICK b \in Block : b = h[1] /\ Single(h, b)
  <2>1. Len(h) = 1 /\ h[1] \in Block
    <3>1. PICK z \in Nat : z = Len(h) /\ z > 0 /\ z <= 1
      BY <1>4, BlockSeq
    <3>2. Len(h) = 1
      BY <3>1
    <3>3. \A j \in 1..Len(h) : h[j] \in Block
      BY BlockSeq
    <3>4. 1 \in 1..Len(h)
      BY <3>2
    <3> QED BY <3>2, <3>3, <3>4, Zenon
  <2>2. h = <<h[1]>>
    BY <2>1
  <2> QED BY <2>1, <2>2 DEF Single
<1>6. PICK n \in Seq(Block) : n = chan[l][v]
  BY <1>1 DEF TypeOK
<1>7. PICK s : s = Append(n, b)
  OBVIOUS
<1>8. PICK e : e = <<>>
  OBVIOUS
<1>9. Gained(n, b, s) /\ Empty(e)
  BY <1>7, <1>8 DEF Gained, Empty
<1>10. s \in Seq(Block) /\ e \in Seq(Block)
  BY <1>9, MoveTypes
<1>11. /\ chan' = [chan EXCEPT ![l][v] = s]
       /\ lzero[l] < NUppers
       /\ lzero' = [lzero EXCEPT ![l] = IF IsMarker(b) THEN lzero[l] + 1 ELSE lzero[l]]
       /\ block_temp_' = [block_temp_ EXCEPT ![l] = e]
       /\ lscan' = [lscan EXCEPT ![l] = NextColumn(v, NUppers)]
  BY <1>2, <1>3, <1>5, <1>6, <1>7, <1>8 DEF SendBlock, SendRunning
<1>12. /\ UNCHANGED <<out, ucols, lcols, lost, marked, debug_count_, map_lower_>>
       /\ UNCHANGED <<child, buffers_, alive, fds, mzero, uscan, uzero, upc>>
  BY DEF SendBlock, lowerVars, recvVars, execVars
<1>13. NextColumn(v, NUppers) \in Uppers
  BY NextColumnType, ShuffleAssumption DEF Uppers
<1>14. TypeOK'
  <2>1. chan' \in [Lowers -> [Uppers -> Seq(Block)]] /\ block_temp_' \in [Lowers -> Seq(Block)]
    BY <1>1, <1>10, <1>11 DEF TypeOK
  <2>2. lscan' \in [Lowers -> Uppers]
    BY <1>1, <1>11, <1>13 DEF TypeOK
  <2>3. lzero' \in [Lowers -> 0..NUppers]
    <3>1. lzero[l] \in 0..NUppers /\ NUppers \in Nat
      BY <1>1, ShuffleAssumption DEF TypeOK
    <3>2. (IF IsMarker(b) THEN lzero[l] + 1 ELSE lzero[l]) \in 0..NUppers
      BY <1>11, <3>1
    <3> QED BY <1>1, <1>11, <3>2 DEF TypeOK
  <2> QED BY <1>1, <1>12, <2>1, <2>2, <2>3 DEF TypeOK
<1>15. /\ chan'[l][v] = s
       /\ \A m \in Lowers, u \in Uppers : m # l \/ u # v => chan'[m][u] = chan[m][u]
  BY <1>1, <1>11 DEF TypeOK
<1>16. block_temp_'[l] = e /\ \A m \in Lowers : m # l => block_temp_'[m] = block_temp_[m]
  BY <1>1, <1>11 DEF TypeOK
<1>17. /\ InHand(l, v) = h /\ InHand(l, v)' = e
       /\ \A m \in Lowers, u \in Uppers : m # l \/ u # v => InHand(m, u)' = InHand(m, u)
  <2>1. InHand(l, v) = h /\ InHand(l, v)' = e
    BY <1>2, <1>3, <1>8, <1>16 DEF InHand
  <2>2. ASSUME NEW u \in Uppers, u # v PROVE InHand(l, u)' = InHand(l, u)
    <3>1. InHand(l, u) = <<>>
      BY <1>2, <2>2 DEF InHand
    <3>2. InHand(l, u)' = <<>>
      BY <1>8, <1>16 DEF InHand
    <3> QED BY <3>1, <3>2
  <2>3. ASSUME NEW m \in Lowers, NEW u \in Uppers, m # l PROVE InHand(m, u)' = InHand(m, u)
    <3>1. lscan'[m] = lscan[m]
      BY <1>1, <1>11, <2>3 DEF TypeOK
    <3> QED BY <1>16, <2>3, <3>1 DEF InHand
  <2> QED BY <2>1, <2>2, <2>3
<1>18. ASSUME NEW u \in Uppers, NEW i \in Lowers PROVE Line(u, i)' /\ Seen(u, i)' = Seen(u, i)
  <2>1. PICK m \in Lowers : m = map_lower_[u][i]
    BY <1>1, LineTypes
  <2>2. PICK o \in Seq(Block), c \in Seq(Block), q \in Seq(Block), x \in Seq(Block), k \in Nat :
          /\ o = out[u][i] /\ c = ucols[u][i] /\ q = lcols[m][u]
          /\ x = lost[u][i] /\ k = debug_count_[m]
    BY <1>1, <2>1, LineTypes
  <2> DEFINE d == marked[m] >= u
  <2>3. Conduit(o, c, chan[m][u], InHand(m, u), q, x, d, k, u)
    BY <1>1, <2>1, <2>2 DEF Lines, Line
  <2> HIDE DEF d
  <2>4. /\ Conduit(o, c, chan'[m][u], InHand(m, u)', q, x, d, k, u)
        /\ Known(o, c, chan'[m][u], InHand(m, u)', x) = Known(o, c, chan[m][u], InHand(m, u), x)
    <3>1. CASE m = l /\ u = v
      <4>1. Conduit(o, c, n, h, q, x, d, k, u)
        BY <1>6, <1>17, <2>3, <3>1
      <4>2. Conduit(o, c, s, e, q, x, d, k, u)
        BY <1>5, <1>9, <4>1, ConduitSend
      <4>3. Known(o, c, s, e, x) = Known(o, c, n, h, x)
        BY <1>5, <1>9, KnownMoves
      <4> QED BY <1>6, <1>15, <1>17, <3>1, <4>2, <4>3
    <3>2. CASE m # l \/ u # v
      BY <1>15, <1>17, <2>3, <3>2
    <3> QED BY <3>1, <3>2
  <2> QED BY <1>12, <2>1, <2>2, <2>4 DEF Line, Seen, d
<1>19. Lines' /\ Accounted' /\ Wired' /\ Counts'
  BY <1>1, <1>12, <1>18, AccountedKept, WiredKept, CountsKept DEF Lines
<1>20. LowerOK'
  <2>1. Len(e) <= 1
    BY <1>8
  <2>2. \A m \in Lowers : Len(block_temp_[m]) <= 1
    BY <1>1 DEF LowerOK
  <2>3. \A m \in Lowers : Len(block_temp_'[m]) <= 1
    BY <1>16, <2>1, <2>2, Zenon
  <2> QED BY <1>1, <1>12, <2>3 DEF LowerOK
<1> QED BY <1>14, <1>19, <1>20 DEF Inv

LEMMA CrashStep ==
    ASSUME Inv, NEW l \in Lowers, Crash(l) PROVE Inv'
<1>1. /\ alive' = [alive EXCEPT ![l] = FALSE]
      /\ UNCHANGED <<out, ucols, chan, block_temp_, lscan, lcols, lost, marked, debug_count_, map_lower_>>
      /\ UNCHANGED <<child, buffers_, lzero, fds, mzero, uscan, uzero, upc>>
  BY DEF Crash, lowerVars, sendVars, recvVars, execVars
<1>2. TypeOK'
  BY <1>1 DEF Inv, TypeOK
<1>3. LowerOK'
  BY <1>1 DEF Inv, LowerOK
<1> QED BY <1>1, <1>2, <1>3, LinesKept, CountsKept DEF Inv

LEMMA SelectStep ==
    ASSUME Inv, NEW u \in Uppers, Select(u) \/ ReceiveShort(u) PROVE Inv'
<1>1. /\ \E S \in SUBSET Lowers : fds' = [fds EXCEPT ![u] = S]
      /\ UNCHANGED <<out, ucols, chan, block_temp_, lscan, lcols, lost, marked, debug_count_, map_lower_>>
      /\ UNCHANGED <<child, buffers_, lzero, alive, mzero, uscan, uzero, upc>>
  <2>1. Readable(u) \in SUBSET Lowers /\ {} \in SUBSET Lowers
    BY DEF Readable
  <2>2. ASSUME Select(u) PROVE fds' = [fds EXCEPT ![u] = Readable(u)]
    BY <2>2 DEF Select
  <2>3. ASSUME ReceiveShort(u) PROVE fds' = [fds EXCEPT ![u] = {}]
    BY <2>3 DEF ReceiveShort
  <2>4. UNCHANGED <<lowerVars, lcols, sendVars, alive, chan, map_lower_, mzero, lost, ucols, execVars>>
    BY DEF Select, ReceiveShort
  <2>5. \E S \in SUBSET Lowers : fds' = [fds EXCEPT ![u] = S]
    BY <2>1, <2>2, <2>3, Zenon
  <2> QED BY <2>4, <2>5 DEF lowerVars, sendVars, execVars
<1>2. TypeOK'
  <2>1. fds' \in [Uppers -> SUBSET Lowers]
    BY <1>1 DEF Inv, TypeOK
  <2> QED BY <1>1, <2>1 DEF Inv, TypeOK
<1>3. LowerOK'
  BY <1>1 DEF Inv, LowerOK
<1> QED BY <1>1, <1>2, <1>3, LinesKept, CountsKept DEF Inv

\* A set of natural numbers has a least element.
LEMMA Least ==
    ASSUME NEW S \in SUBSET Nat, S # {} PROVE \E i \in S : \A j \in S : i <= j
<1> DEFINE R == {p \in Nat \X Nat : p[1] < p[2]}
<1>1. IsWellFoundedOn(R, Nat)
  BY NatLessThanWellFounded DEF OpToRel
<1>2. \A a, b \in Nat : a < b => <<a, b>> \in R
  OBVIOUS
<1> HIDE DEF R
<1>3. PICK i \in S : \A j \in S : <<j, i>> \notin R
  BY <1>1, WFMin
<1>4. \A j \in S : ~(j < i)
  BY <1>2, <1>3
<1>5. \A j \in S : i <= j
  BY <1>4
<1> QED BY <1>5

\* select serves the lowest descriptor that is ready.
LEMMA FirstIsReady ==
    ASSUME NEW S \in SUBSET Lowers, S # {} PROVE First(S) \in S
<1>1. S \in SUBSET Nat
  BY DEF Lowers
<1>2. \E i \in S : \A j \in S : i <= j
  BY <1>1, Least
<1> QED BY <1>2 DEF First

\* m_receive_select moves the first block of a socket into the column of its
\* line, or loses it.
LEMMA ReceiveStep ==
    ASSUME Inv, NEW v \in Uppers, Receive(v) PROVE Inv'
<1>1. TypeOK /\ Wired /\ LowerOK /\ Lines /\ Accounted /\ Counts
  BY DEF Inv
<1>2. PICK j \in Lowers : j = First(fds[v])
  <2>1. fds[v] \in SUBSET Lowers /\ fds[v] # {}
    BY <1>1 DEF TypeOK, Receive
  <2> QED BY <2>1, FirstIsReady
<1>3. PICK l \in Lowers : l = map_lower_[v][j]
  <2>1. map_lower_ \in [Uppers -> [Lowers -> Lowers]]
    BY <1>1 DEF TypeOK
  <2> QED BY <2>1
<1>4. PICK n \in Seq(Block), c \in Seq(Block), x \in Seq(Block) :
        n = chan[l][v] /\ c = ucols[v][j] /\ x = lost[v][j]
  BY <1>1 DEF TypeOK
<1>5. PICK b, s : b = Head(n) /\ s = Tail(n)
  OBVIOUS
<1>6. Took(n, b, s)
  BY <1>2, <1>3, <1>4, <1>5 DEF Receive, Took
<1>7. s \in Seq(Block) /\ b \in Block
  BY <1>6, MoveTypes
<1>8. PICK cc, xx : Gained(c, b, cc) /\ Gained(x, b, xx) /\ cc = Append(c, b) /\ xx = Append(x, b)
  BY DEF Gained
<1>9. cc \in Seq(Block) /\ xx \in Seq(Block)
  BY <1>7, <1>8, MoveTypes
<1>10. /\ chan' = [chan EXCEPT ![l][v] = s]
       /\ \/ ucols' = [ucols EXCEPT ![v][j] = cc] /\ lost' = lost
          \/ lost' = [lost EXCEPT ![v][j] = xx] /\ ucols' = ucols
  BY <1>2, <1>3, <1>4, <1>5, <1>8 DEF Receive
<1>11. /\ mzero[v] < NLowers
       /\ mzero' = [mzero EXCEPT ![v] = IF IsMarker(b) THEN mzero[v] + 1 ELSE mzero[v]]
       /\ fds' = [fds EXCEPT ![v] = fds[v] \ {j}]
  BY <1>2, <1>3, <1>4, <1>5 DEF Receive, Receiving
<1>12. /\ UNCHANGED <<out, lcols, marked, debug_count_, map_lower_, lscan, block_temp_>>
       /\ UNCHANGED <<child, buffers_, lzero, alive, uscan, uzero, upc>>
  BY DEF Receive, lowerVars, sendVars, execVars
<1>13. TypeOK'
  <2>1. chan' \in [Lowers -> [Uppers -> Seq(Block)]]
    BY <1>1, <1>7, <1>10 DEF TypeOK
  <2>2. ucols' \in [Uppers -> [Lowers -> Seq(Block)]] /\ lost' \in [Uppers -> [Lowers -> Seq(Block)]]
    <3>1. ucols \in [Uppers -> [Lowers -> Seq(Block)]] /\ lost \in [Uppers -> [Lowers -> Seq(Block)]]
      BY <1>1 DEF TypeOK
    <3>2. CASE ucols' = [ucols EXCEPT ![v][j] = cc] /\ lost' = lost
      BY <1>9, <3>1, <3>2
    <3>3. CASE lost' = [lost EXCEPT ![v][j] = xx] /\ ucols' = ucols
      BY <1>9, <3>1, <3>3
    <3> QED BY <1>10, <3>2, <3>3
  <2>3. mzero' \in [Uppers -> 0..NLowers]
    <3>1. mzero[v] \in 0..NLowers /\ NLowers \in Nat
      BY <1>1, ShuffleAssumption DEF TypeOK
    <3>2. (IF IsMarker(b) THEN mzero[v] + 1 ELSE mzero[v]) \in 0..NLowers
      BY <1>11, <3>1
    <3> QED BY <1>1, <1>11, <3>2 DEF TypeOK
  <2>4. fds' \in [Uppers -> SUBSET Lowers]
    BY <1>1, <1>11 DEF TypeOK
  <2> QED BY <1>1, <1>12, <2>1, <2>2, <2>3, <2>4 DEF TypeOK
<1>14. /\ chan'[l][v] = s
       /\ \A m \in Lowers, u \in Uppers : m # l \/ u # v => chan'[m][u] = chan[m][u]
  BY <1>1, <1>10 DEF TypeOK
<1>15. /\ \/ ucols'[v][j] = cc /\ lost'[v][j] = x
          \/ ucols'[v][j] = c /\ lost'[v][j] = xx
       /\ \A u \in Uppers, i \in Lowers :
             u # v \/ i # j => ucols'[u][i] = ucols[u][i] /\ lost'[u][i] = lost[u][i]
  <2>1. CASE ucols' = [ucols EXCEPT ![v][j] = cc] /\ lost' = lost
    BY <1>1, <1>4, <2>1 DEF TypeOK
  <2>2. CASE lost' = [lost EXCEPT ![v][j] = xx] /\ ucols' = ucols
    BY <1>1, <1>4, <2>2 DEF TypeOK
  <2> QED BY <1>10, <2>1, <2>2
<1>16. \A m \in Lowers, u \in Uppers : InHand(m, u)' = InHand(m, u)
  BY <1>12 DEF InHand
<1>17. ASSUME NEW u \in Uppers, NEW i \in Lowers PROVE Line(u, i)' /\ Seen(u, i)' = Seen(u, i)
  <2>1. PICK m \in Lowers : m = map_lower_[u][i]
    BY <1>1, LineTypes
  <2>2. PICK o \in Seq(Block), h \in Seq(Block), q \in Seq(Block), k \in Nat :
          o = out[u][i] /\ h = InHand(m, u) /\ q = lcols[m][u] /\ k = debug_count_[m]
    BY <1>1, <2>1, LineTypes
  <2> DEFINE d == marked[m] >= u
  <2>3. Conduit(o, ucols[u][i], chan[m][u], h, q, lost[u][i], d, k, u)
    BY <1>1, <2>1, <2>2 DEF Lines, Line
  <2> HIDE DEF d
  <2>4. /\ Conduit(o, ucols'[u][i], chan'[m][u], h, q, lost'[u][i], d, k, u)
        /\ Known(o, ucols'[u][i], chan'[m][u], h, lost'[u][i])
           = Known(o, ucols[u][i], chan[m][u], h, lost[u][i])
    <3>1. CASE u = v /\ i = j
      <4>1. m = l /\ Conduit(o, c, n, h, q, x, d, k, u)
        BY <1>3, <1>4, <2>1, <2>3, <3>1
      <4>2. Conduit(o, cc, s, h, q, x, d, k, u) /\ Conduit(o, c, s, h, q, xx, d, k, u)
        BY <1>6, <1>8, <4>1, ConduitReceive
      <4>3. /\ Known(o, cc, s, h, x) = Known(o, c, n, h, x)
            /\ Known(o, c, s, h, xx) = Known(o, c, n, h, x)
        BY <1>6, <1>8, KnownMoves
      <4> QED BY <1>4, <1>14, <1>15, <3>1, <4>1, <4>2, <4>3
    <3>2. CASE u # v \/ i # j
      <4>1. m # l \/ u # v
        BY <1>1, <1>3, <2>1, <3>2 DEF Wired
      <4> QED BY <1>14, <1>15, <2>3, <3>2, <4>1
    <3> QED BY <3>1, <3>2
  <2> QED BY <1>12, <1>16, <2>1, <2>2, <2>4 DEF Line, Seen, d
<1>18. Lines' /\ Accounted' /\ Wired' /\ Counts'
  BY <1>1, <1>12, <1>17, AccountedKept, WiredKept, CountsKept DEF Lines
<1>19. LowerOK'
  BY <1>1, <1>12 DEF LowerOK
<1> QED BY <1>13, <1>18, <1>19 DEF Inv

\* execute passes the first block of a column on; a marker is counted.
LEMMA ConsumeStep ==
    ASSUME Inv, NEW v \in Uppers, Consume(v) PROVE Inv'
<1>1. TypeOK /\ Wired /\ LowerOK /\ Lines /\ Accounted /\ Counts
  BY DEF Inv
<1>2. PICK j \in Lowers : j = uscan[v]
  BY <1>1 DEF TypeOK
<1>3. PICK c \in Seq(Block), o \in Seq(Block) : c = ucols[v][j] /\ o = out[v][j]
  BY <1>1 DEF TypeOK
<1>4. PICK b, s : b = Head(c) /\ s = Tail(c)
  OBVIOUS
<1>5. Took(c, b, s)
  BY <1>2, <1>3, <1>4 DEF Consume, Took
<1>6. s \in Seq(Block) /\ b \in Block
  BY <1>5, MoveTypes
<1>7. PICK p : Gained(o, b, p) /\ p = Append(o, b)
  BY DEF Gained
<1>8. p \in Seq(Block)
  BY <1>6, <1>7, MoveTypes
<1>9. PICK z : z = IF IsMarker(b) THEN uzero[v] + 1 ELSE uzero[v]
  OBVIOUS
<1>10. /\ ucols' = [ucols EXCEPT ![v][j] = s]
       /\ out' = [out EXCEPT ![v][j] = p]
  BY <1>2, <1>3, <1>4, <1>7 DEF Consume
<1>11. /\ upc[v] = "run"
       /\ uzero' = [uzero EXCEPT ![v] = z]
       /\ upc' = [upc EXCEPT ![v] = IF IsMarker(b) /\ z = NLowers THEN "join" ELSE "run"]
       /\ uscan' = [uscan EXCEPT ![v] = 1]
  BY <1>2, <1>3, <1>4, <1>9 DEF Consume
<1>12. /\ UNCHANGED <<lcols, marked, debug_count_, map_lower_, lscan, block_temp_, chan, lost>>
       /\ UNCHANGED <<child, buffers_, lzero, alive, fds, mzero>>
  BY DEF Consume, lowerVars, sendVars, recvVars
<1>13. /\ ucols'[v][j] = s /\ out'[v][j] = p
       /\ \A u \in Uppers, i \in Lowers :
             u # v \/ i # j => ucols'[u][i] = ucols[u][i] /\ out'[u][i] = out[u][i]
  BY <1>1, <1>10 DEF TypeOK
<1>14. \A m \in Lowers, u \in Uppers : InHand(m, u)' = InHand(m, u)
  BY <1>12 DEF InHand
<1>15. ASSUME NEW u \in Uppers, NEW i \in Lowers
       PROVE  /\ Line(u, i)' /\ Seen(u, i)' = Seen(u, i)
              /\ u = v /\ i = j => ~Ended(o) /\ (Ended(p) <=> IsMarker(b))
  <2>1. PICK m \in Lowers : m = map_lower_[u][i]
    BY <1>1, LineTypes
  <2>2. PICK n \in Seq(Block), h \in Seq(Block), q \in Seq(Block), x \in Seq(Block), k \in Nat :
          /\ n = chan[m][u] /\ h = InHand(m, u) /\ q = lcols[m][u] /\ x = lost[u][i]
          /\ k = debug_count_[m]
    BY <1>1, <2>1, LineTypes
  <2> DEFINE d == marked[m] >= u
  <2>3. Conduit(out[u][i], ucols[u][i], n, h, q, x, d, k, u)
    BY <1>1, <2>1, <2>2 DEF Lines, Line
  <2> HIDE DEF d
  <2>4. /\ Conduit(out'[u][i], ucols'[u][i], n, h, q, x, d, k, u)
        /\ Known(out'[u][i], ucols'[u][i], n, h, x) = Known(out[u][i], ucols[u][i], n, h, x)
        /\ u = v /\ i = j => ~Ended(o) /\ (Ended(p) <=> IsMarker(b))
    <3>1. CASE u = v /\ i = j
      <4>1. Conduit(o, c, n, h, q, x, d, k, u)
        BY <1>3, <2>3, <3>1
      <4>2. /\ Conduit(p, s, n, h, q, x, d, k, u)
            /\ ~Ended(o) /\ (Ended(p) <=> IsMarker(b))
        <5>1. Gained(o, b, p)
          BY <1>7
        <5> QED BY <1>5, <4>1, <5>1, ConduitConsume
      <4>3. Known(p, s, n, h, x) = Known(o, c, n, h, x)
        BY <1>5, <1>7, KnownMoves
      <4> QED BY <1>3, <1>13, <3>1, <4>2, <4>3
    <3>2. CASE u # v \/ i # j
      BY <1>13, <2>3, <3>2
    <3> QED BY <3>1, <3>2
  <2> QED BY <1>12, <1>14, <2>1, <2>2, <2>4 DEF Line, Seen, d
<1>16. Lines' /\ Accounted' /\ Wired'
  BY <1>1, <1>12, <1>15, AccountedKept, WiredKept DEF Lines
<1>17. LowerOK'
  BY <1>1, <1>12 DEF LowerOK
<1>18. /\ IsFiniteSet(Lowers) /\ Cardinality(Lowers) = NLowers /\ 1 \in Lowers
  BY ShuffleAssumption, FS_Interval DEF Lowers
<1>19. \A u \in Uppers : /\ Closed(u) \in SUBSET Lowers /\ IsFiniteSet(Closed(u))
                         /\ Cardinality(Closed(u)) \in Nat
  <2>1. \A u \in Uppers : Closed(u) \in SUBSET Lowers
    BY DEF Closed
  <2> QED BY <1>18, <2>1, FS_Subset, FS_CardinalityType
<1>20. Closed(v)' = IF IsMarker(b) THEN Closed(v) \cup {j} ELSE Closed(v)
  <2>1. j \notin Closed(v) /\ (j \in Closed(v)' <=> IsMarker(b))
    BY <1>3, <1>13, <1>15 DEF Closed
  <2>2. \A i \in Lowers : i # j => (i \in Closed(v)' <=> i \in Closed(v))
    BY <1>13 DEF Closed
  <2>3. Closed(v) \subseteq Lowers /\ Closed(v)' \subseteq Lowers
    BY DEF Closed
  <2> QED BY <2>1, <2>2, <2>3
<1>21. z = Cardinality(Closed(v)') /\ z \in 0..NLowers
  <2>1. uzero[v] = Cardinality(Closed(v))
    BY <1>1 DEF Counts
  <2>2. j \notin Closed(v)
    BY <1>3, <1>15 DEF Closed
  <2>3. z = Cardinality(Closed(v)')
    <3>1. CASE IsMarker(b)
      BY <1>9, <1>19, <1>20, <2>1, <2>2, <3>1, FS_AddElement
    <3>2. CASE ~IsMarker(b)
      BY <1>9, <1>20, <2>1, <3>2
    <3> QED BY <3>1, <3>2
  <2>4. Closed(v)' \in SUBSET Lowers
    BY DEF Closed
  <2>5. Cardinality(Closed(v)') \in Nat /\ Cardinality(Closed(v)') <= NLowers
    BY <1>18, <2>4, FS_Subset, FS_CardinalityType
  <2> QED BY <2>3, <2>5, ShuffleAssumption
<1>22. Counts'
  <2> SUFFICES ASSUME NEW u \in Uppers
               PROVE  /\ uzero'[u] = Cardinality(Closed(u)')
                      /\ upc'[u] # "run" <=> uzero'[u] = NLowers
    BY DEF Counts
  <2>1. CASE u = v
    <3>1. uzero[v] # NLowers
      BY <1>1, <1>11 DEF Counts
    <3>2. z = NLowers => IsMarker(b)
      BY <1>9, <3>1
    <3>3. uzero'[v] = z /\ (upc'[v] # "run" <=> z = NLowers)
      BY <1>1, <1>11, <3>2 DEF TypeOK
    <3> QED BY <1>21, <2>1, <3>3
  <2>2. CASE u # v
    <3>1. Closed(u)' = Closed(u)
      BY <1>13, <2>2 DEF Closed
    <3>2. uzero'[u] = uzero[u] /\ upc'[u] = upc[u]
      BY <1>1, <1>11, <2>2 DEF TypeOK
    <3> QED BY <1>1, <3>1, <3>2 DEF Counts
  <2> QED BY <2>1, <2>2
<1>23. TypeOK'
  <2>1. /\ ucols' \in [Uppers -> [Lowers -> Seq(Block)]]
        /\ out' \in [Uppers -> [Lowers -> Seq(Block)]]
    <3>1. ucols \in [Uppers -> [Lowers -> Seq(Block)]] /\ out \in [Uppers -> [Lowers -> Seq(Block)]]
      BY <1>1 DEF TypeOK
    <3> QED BY <1>6, <1>8, <1>10, <3>1
  <2>2. /\ uzero' \in [Uppers -> 0..NLowers] /\ uscan' \in [Uppers -> Lowers]
        /\ upc' \in [Uppers -> {"run", "join", "done"}]
    BY <1>1, <1>11, <1>18, <1>21 DEF TypeOK
  <2> QED BY <1>1, <1>12, <2>1, <2>2 DEF TypeOK
<1> QED BY <1>16, <1>17, <1>22, <1>23 DEF Inv

LEMMA ConsumeMissStep ==
    ASSUME Inv, NEW u \in Uppers, ConsumeMiss(u) PROVE Inv'
<1>1. /\ uscan' = [uscan EXCEPT ![u] = NextColumn(uscan[u], NLowers)]
      /\ UNCHANGED <<out, ucols, chan, block_temp_, lscan, lcols, lost, marked, debug_count_, map_lower_>>
      /\ UNCHANGED <<child, buffers_, lzero, alive, fds, mzero, uzero, upc>>
  BY DEF ConsumeMiss, lowerVars, sendVars, recvVars
<1>2. NextColumn(uscan[u], NLowers) \in Lowers
  BY NextColumnType, ShuffleAssumption DEF Inv, TypeOK, Lowers
<1>3. TypeOK'
  BY <1>1, <1>2 DEF Inv, TypeOK
<1>4. LowerOK'
  BY <1>1 DEF Inv, LowerOK
<1> QED BY <1>1, <1>3, <1>4, LinesKept, CountsKept DEF Inv

LEMMA JoinStep ==
    ASSUME Inv, NEW u \in Uppers, Join(u) PROVE Inv'
<1>1. /\ upc[u] = "join" /\ upc' = [upc EXCEPT ![u] = "done"]
      /\ UNCHANGED <<out, ucols, chan, block_temp_, lscan, lcols, lost, marked, debug_count_, map_lower_>>
      /\ UNCHANGED <<child, buffers_, lzero, alive, fds, mzero, uzero, uscan>>
  BY DEF Join, lowerVars, sendVars, recvVars
<1>2. TypeOK'
  BY <1>1 DEF Inv, TypeOK
<1>3. LowerOK'
  BY <1>1 DEF Inv, LowerOK
<1>4. Counts'
  <2>1. upc \in [Uppers -> {"run", "join", "done"}]
    BY DEF Inv, TypeOK
  <2>2. \A v \in Uppers : upc'[v] # "run" <=> upc[v] # "run"
    BY <1>1, <2>1
  <2> QED BY <1>1, <2>2 DEF Inv, Counts, Closed
<1> QED BY <1>1, <1>2, <1>3, <1>4, LinesKept DEF Inv

LEMMA StutterStep ==
    ASSUME Inv, UNCHANGED vars PROVE Inv'
<1>1. UNCHANGED <<lowerVars, lcols, sendVars, alive, chan, map_lower_, recvVars, ucols, execVars>>
  BY DEF vars
<1>2. /\ UNCHANGED <<out, ucols, chan, block_temp_, lscan, lcols, lost, marked, debug_count_, map_lower_>>
      /\ UNCHANGED <<child, buffers_, lzero, alive, fds, mzero, uzero, uscan, upc>>
  BY <1>1 DEF lowerVars, sendVars, recvVars, execVars
<1>3. TypeOK' /\ LowerOK'
  BY <1>2 DEF Inv, TypeOK, LowerOK
<1> QED BY <1>2, <1>3, LinesKept, CountsKept DEF Inv

\* Inv holds in every state.
THEOREM Invariance == Safety => []Inv
<1>1. Inv /\ [Next]_vars => Inv'
  <2> SUFFICES ASSUME Inv, [Next]_vars PROVE Inv'
    OBVIOUS
  <2>1. ASSUME NEW l \in Lowers, LowerExecute(l) PROVE Inv'
    BY <2>1, StoreTupleStep, FlushBufferStep, PutMarkerStep DEF LowerExecute
  <2>2. ASSUME NEW l \in Lowers, send_route(l) PROVE Inv'
    BY <2>2, SendGetStep, SendMissStep, SendBlockStep DEF send_route
  <2>3. ASSUME NEW l \in Lowers, Crash(l) PROVE Inv'
    BY <2>3, CrashStep
  <2>4. ASSUME NEW u \in Uppers, receive_route(u) PROVE Inv'
    BY <2>4, SelectStep, ReceiveStep DEF receive_route
  <2>5. ASSUME NEW u \in Uppers, UpperExecute(u) PROVE Inv'
    BY <2>5, ConsumeStep, ConsumeMissStep, JoinStep DEF UpperExecute
  <2>6. CASE UNCHANGED vars
    BY <2>6, StutterStep
  <2> QED BY <2>1, <2>2, <2>3, <2>4, <2>5, <2>6 DEF Next, Terminated
<1> QED BY <1>1, InitInv, PTL DEF Safety

-------------------------------------------------------------------------------
(* What the invariant says of the exchange.                                *)

LEMMA ElementsConcat ==
    ASSUME NEW s \in Seq(Block), NEW t \in Seq(Block)
    PROVE  ElementsOf(s \o t) = ElementsOf(s) \cup ElementsOf(t)
<1>1. /\ Len(s) \in Nat /\ Len(t) \in Nat /\ Len(s \o t) = Len(s) + Len(t)
      /\ \A k \in 1..(Len(s) + Len(t)) : (s \o t)[k] = IF k <= Len(s) THEN s[k] ELSE t[k - Len(s)]
  BY ConcatProperties, LenProperties
<1>2. ASSUME NEW k \in 1..Len(s \o t) PROVE (s \o t)[k] \in ElementsOf(s) \cup ElementsOf(t)
  <2>1. k \in 1..(Len(s) + Len(t))
    BY <1>1
  <2>2. CASE k <= Len(s)
    <3>1. k \in 1..Len(s) /\ (s \o t)[k] = s[k]
      BY <1>1, <2>1, <2>2
    <3> QED BY <3>1 DEF ElementsOf
  <2>3. CASE k > Len(s)
    <3>1. k - Len(s) \in 1..Len(t) /\ (s \o t)[k] = t[k - Len(s)]
      BY <1>1, <2>1, <2>3
    <3> QED BY <3>1 DEF ElementsOf
  <2> QED BY <1>1, <2>1, <2>2, <2>3
<1>3. ASSUME NEW k \in 1..Len(s) PROVE s[k] \in ElementsOf(s \o t)
  <2>1. k \in 1..Len(s \o t) /\ (s \o t)[k] = s[k]
    BY <1>1
  <2> QED BY <2>1 DEF ElementsOf
<1>4. ASSUME NEW k \in 1..Len(t) PROVE t[k] \in ElementsOf(s \o t)
  <2>1. Len(s) + k \in 1..Len(s \o t) /\ (s \o t)[Len(s) + k] = t[k]
    <3>1. Len(s) + k \in 1..(Len(s) + Len(t)) /\ ~(Len(s) + k <= Len(s)) /\ (Len(s) + k) - Len(s) = k
      BY <1>1
    <3> QED BY <1>1, <3>1
  <2> QED BY <2>1 DEF ElementsOf
<1> QED BY <1>2, <1>3, <1>4 DEF ElementsOf

LEMMA StreamElements ==
    ASSUME TypeOK, NEW u \in Uppers, NEW i \in Lowers
    PROVE  LET l == map_lower_[u][i]
           IN  ElementsOf(Stream(u, i)) = ElementsOf(out[u][i]) \cup ElementsOf(ucols[u][i])
                                            \cup ElementsOf(chan[l][u]) \cup ElementsOf(InHand(l, u))
<1>1. PICK l \in Lowers : l = map_lower_[u][i]
  BY LineTypes
<1>2. PICK o \in Seq(Block), c \in Seq(Block), n \in Seq(Block), h \in Seq(Block) :
        o = out[u][i] /\ c = ucols[u][i] /\ n = chan[l][u] /\ h = InHand(l, u)
  BY <1>1, LineTypes
<1>3. PICK a \in Seq(Block) : a = o \o c
  BY ConcatProperties
<1>4. PICK e \in Seq(Block) : e = a \o n
  BY ConcatProperties
<1>5. /\ ElementsOf(a) = ElementsOf(o) \cup ElementsOf(c)
      /\ ElementsOf(e) = ElementsOf(a) \cup ElementsOf(n)
      /\ ElementsOf(e \o h) = ElementsOf(e) \cup ElementsOf(h)
  BY <1>3, <1>4, ElementsConcat
<1>6. Stream(u, i) = e \o h
  BY <1>1, <1>2, <1>3, <1>4 DEF Stream
<1> QED BY <1>1, <1>2, <1>5, <1>6

\* Along every connection blocks reach the upper in the order in which
\* send_route tagged them, none twice, whatever put refuses on the way.
THEOREM TagsAscend == Safety => []InOrder
<1>1. Inv => InOrder
  <2> SUFFICES ASSUME Inv, NEW u \in Uppers, NEW i \in Lowers PROVE Ascending(Stream(u, i))
    BY DEF InOrder, Ascending
  <2>1. Line(u, i)
    BY DEF Inv, Lines
  <2> QED BY <2>1 DEF Line, Conduit, Ordered, Tagged, Stream
<1> QED BY <1>1, Invariance, PTL

\* The block in send_route's hand is the last one it tagged.
HandTagged ==
    \A l \in Lowers : \A k \in 1..Len(block_temp_[l]) : block_temp_[l][k].tag = debug_count_[l]

LEMMA HandHasLastTag == Safety => []HandTagged
<1>1. Init => HandTagged
  <2> SUFFICES ASSUME Init, NEW l \in Lowers PROVE 1..Len(block_temp_[l]) = {}
    BY DEF HandTagged
  <2>1. Len(block_temp_[l]) = 0
    BY DEF Init
  <2> QED BY <2>1
<1>2. Inv /\ HandTagged /\ [Next]_vars => HandTagged'
  <2> SUFFICES ASSUME Inv, HandTagged, [Next]_vars PROVE HandTagged'
    OBVIOUS
  <2>1. ASSUME NEW l \in Lowers, SendGet(l) PROVE HandTagged'
    <3>1. PICK b : /\ b.tag = debug_count_[l] + 1
                   /\ block_temp_' = [block_temp_ EXCEPT ![l] = <<b>>]
                   /\ debug_count_' = [debug_count_ EXCEPT ![l] = debug_count_[l] + 1]
      BY <2>1 DEF SendGet
    <3>2. block_temp_'[l] = <<b>> /\ debug_count_'[l] = b.tag
      BY <3>1 DEF Inv, TypeOK
    <3>3. \A m \in Lowers \ {l} : block_temp_'[m] = block_temp_[m] /\ debug_count_'[m] = debug_count_[m]
      BY <3>1 DEF Inv, TypeOK
    <3>4. \A k \in 1..Len(<<b>>) : <<b>>[k].tag = b.tag
      OBVIOUS
    <3> QED BY <3>2, <3>3, <3>4 DEF HandTagged
  <2>2. ASSUME NEW l \in Lowers, SendBlock(l) PROVE HandTagged'
    <3>1. block_temp_'[l] = <<>> /\ \A m \in Lowers \ {l} : block_temp_'[m] = block_temp_[m]
      BY <2>2 DEF SendBlock, Inv, TypeOK
    <3>2. debug_count_' = debug_count_ /\ 1..Len(<<>>) = {}
      BY <2>2 DEF SendBlock
    <3> QED BY <3>1, <3>2 DEF HandTagged
  <2>3. CASE UNCHANGED <<block_temp_, debug_count_>>
    BY <2>3 DEF HandTagged
  <2>4. ASSUME NEW l \in Lowers, LowerExecute(l) \/ SendMiss(l) \/ Crash(l)
        PROVE  UNCHANGED <<block_temp_, debug_count_>>
    BY <2>4 DEF LowerExecute, StoreTuple, FlushBuffer, NextTuple, PutMarker, SendMiss, Crash, sendVars
  <2>5. ASSUME NEW u \in Uppers, receive_route(u) \/ UpperExecute(u)
        PROVE  UNCHANGED <<block_temp_, debug_count_>>
    BY <2>5 DEF receive_route, Select, Receive, ReceiveShort, UpperExecute, Consume, ConsumeMiss,
                Join, sendVars
  <2>6. ASSUME UNCHANGED vars PROVE UNCHANGED <<block_temp_, debug_count_>>
    BY <2>6 DEF vars, sendVars
  <2> QED BY <2>1, <2>2, <2>3, <2>4, <2>5, <2>6 DEF Next, Terminated, send_route
<1> QED BY <1>1, <1>2, Invariance, PTL DEF Safety

\* Every block send_route has tagged was passed on, is in the upper's column, in the
\* socket or in the hand of a live send_route, was refused by the put whose result
\* m_receive_select ignores, or was in hand when its lower died.
THEOREM BlocksAccounted == Safety => []NoBlockVanishes
<1>1. Inv /\ HandTagged => NoBlockVanishes
  <2> SUFFICES ASSUME Inv, HandTagged, NEW l \in Lowers, NEW k \in 1..debug_count_[l],
                      ~(~alive[l] /\ block_temp_[l] # <<>> /\ k = debug_count_[l])
               PROVE  \E u \in Uppers, i \in Lowers :
                        /\ map_lower_[u][i] = l
                        /\ \E b \in Travelling(u, i) \cup ElementsOf(lost[u][i]) : b.tag = k
    BY DEF NoBlockVanishes
  <2>1. PICK u \in Uppers, i \in Lowers : map_lower_[u][i] = l /\ k \in Seen(u, i)
    BY DEF Inv, Accounted
  <2>2. k \in Tags(out[u][i]) \cup Tags(ucols[u][i]) \cup Tags(chan[l][u])
               \cup Tags(InHand(l, u)) \cup Tags(lost[u][i])
    BY <2>1 DEF Seen, Known
  <2>3. \A s : k \in Tags(s) => \E b \in ElementsOf(s) : b.tag = k
    BY DEF Tags, ElementsOf
  <2>4. k \in Tags(InHand(l, u)) => alive[l]
    <3> SUFFICES ASSUME k \in Tags(InHand(l, u)) PROVE alive[l]
      OBVIOUS
    <3>1. k \in Tags(block_temp_[l])
      <4>1. Tags(<<>>) = {}
        BY DEF Tags
      <4> QED BY <4>1 DEF InHand
    <3>2. k = debug_count_[l]
      BY <3>1 DEF HandTagged, Tags
    <3>3. block_temp_[l] # <<>>
      BY <3>1 DEF Tags
    <3> QED BY <3>2, <3>3
  <2>5. \E b \in Travelling(u, i) \cup ElementsOf(lost[u][i]) : b.tag = k
    BY <2>1, <2>2, <2>3, <2>4 DEF Travelling
  <2> QED BY <2>1, <2>5
<1> QED BY <1>1, Invariance, HandHasLastTag, PTL

\* An upper sees tuples of its own contiguous run of ranges only.
THEOREM RangesKept == Safety => []RoutedByRange
<1>1. Inv => RoutedByRange
  <2> SUFFICES ASSUME Inv, NEW u \in Uppers, NEW i \in Lowers, NEW b \in ElementsOf(Stream(u, i)),
                      NEW t \in ElementsOf(b.tuples)
               PROVE  /\ (u - 1) * (CPU_CORE \div NUppers) < RangeOf[t]
                      /\ RangeOf[t] <= u * (CPU_CORE \div NUppers)
    BY DEF RoutedByRange
  <2>1. PICK l \in Lowers : l = map_lower_[u][i]
    BY LineTypes DEF Inv
  <2>2. /\ AllFor(out[u][i], u) /\ AllFor(ucols[u][i], u) /\ AllFor(chan[l][u], u)
        /\ AllFor(InHand(l, u), u)
    BY <2>1 DEF Inv, Lines, Line, Conduit
  <2>3. /\ out[u][i] \in Seq(Block) /\ ucols[u][i] \in Seq(Block) /\ chan[l][u] \in Seq(Block)
        /\ InHand(l, u) \in Seq(Block)
    BY <2>1, LineTypes DEF Inv
  <2>4. \A s \in Seq(Block) : b \in ElementsOf(s) /\ AllFor(s, u) => ForUpper(b, u) /\ b \in Block
    BY BlockSeq DEF AllFor, ElementsOf
  <2>5. ForUpper(b, u) /\ b \in Block
    <3>1. b \in ElementsOf(out[u][i]) \cup ElementsOf(ucols[u][i]) \cup ElementsOf(chan[l][u])
                  \cup ElementsOf(InHand(l, u))
      BY <2>1, StreamElements DEF Inv
    <3> QED BY <2>2, <2>3, <2>4, <3>1
  <2>6. b.tuples \in Seq(Tuples)
    BY <2>5 DEF Block
  <2>7. t \in Tuples /\ ColumnOf(RangeOf[t]) = u
    <3>1. PICK k \in 1..Len(b.tuples) : t = b.tuples[k]
      BY DEF ElementsOf
    <3> QED BY <2>5, <2>6, <3>1, ElementOfSeq DEF ForUpper
  <2>8. PICK r \in Ranges : r = RangeOf[t]
    BY <2>7, ShuffleAssumption
  <2>9. /\ (ColumnOf(r) - 1) * (CPU_CORE \div NUppers) < r
        /\ r <= ColumnOf(r) * (CPU_CORE \div NUppers)
    BY RangesOfUpper
  <2> QED BY <2>7, <2>8, <2>9, Zenon
<1> QED BY <1>1, Invariance, PTL

\* When execute of an upper has returned false, every lower has put its marker
\* for it and nothing is left of it in a column, a socket or a hand.
THEOREM DrainedAtEnd == Safety => []DrainedWhenDone
<1>1. Inv => DrainedWhenDone
  <2> SUFFICES ASSUME Inv, NEW u \in Uppers, upc[u] = "done", NEW i \in Lowers
               PROVE  LET l == map_lower_[u][i]
                      IN  /\ marked[l] >= u
                          /\ lcols[l][u] = <<>> /\ chan[l][u] = <<>> /\ ucols[u][i] = <<>>
                          /\ InHand(l, u) = <<>>
                          /\ ~ \E b \in ElementsOf(lost[u][i]) : IsMarker(b)
    BY DEF DrainedWhenDone
  <2>1. uzero[u] = NLowers /\ uzero[u] = Cardinality(Closed(u))
    BY DEF Inv, Counts
  <2>2. IsFiniteSet(Lowers) /\ Cardinality(Lowers) = NLowers
    BY ShuffleAssumption, FS_Interval DEF Lowers
  <2>3. Closed(u) \in SUBSET Lowers
    BY DEF Closed
  <2>4. Closed(u) = Lowers
    BY <2>1, <2>2, <2>3, FS_Subset
  <2>5. Ended(out[u][i])
    BY <2>4 DEF Closed
  <2>6. PICK l \in Lowers : l = map_lower_[u][i]
    BY LineTypes DEF Inv
  <2>7. OneMarker(out[u][i], ucols[u][i], chan[l][u], InHand(l, u), lcols[l][u], lost[u][i],
                  marked[l] >= u)
    BY <2>6 DEF Inv, Lines, Line, Conduit
  <2>8. /\ ucols[u][i] = <<>> /\ chan[l][u] = <<>> /\ InHand(l, u) = <<>> /\ lcols[l][u] = <<>>
        /\ marked[l] >= u
    BY <2>5, <2>7 DEF OneMarker
  <2>9. MarkerLast(lost[u][i]) /\ ~Ended(lost[u][i])
    BY <2>5, <2>7 DEF OneMarker
  <2>10. ASSUME NEW b \in ElementsOf(lost[u][i]), IsMarker(b) PROVE FALSE
    <3>1. PICK x \in Seq(Block) : x = lost[u][i]
      BY LineTypes DEF Inv
    <3>2. PICK k \in 1..Len(x) : b = x[k]
      BY <3>1 DEF ElementsOf
    <3>3. IsMarker(x[Len(x)]) /\ x # <<>>
      BY <2>9, <2>10, <3>1, <3>2, BlockSeq DEF MarkerLast
    <3> QED BY <2>9, <3>1, <3>3 DEF Ended
  <2> QED BY <2>6, <2>8, <2>10
<1> QED BY <1>1, Invariance, PTL

-------------------------------------------------------------------------------
(* The threads count the markers right.                                    *)

\* The uppers whose marker lower l has given to a socket.
Sent(l) ==
    {u \in Uppers : marked[l] >= u /\ ~Ended(InHand(l, u)) /\ ~Ended(lcols[l][u])}

\* The columns whose marker upper u has taken off the socket, kept or refused.
Arrived(u) ==
    {i \in Lowers : Ended(out[u][i]) \/ Ended(ucols[u][i]) \/ Ended(lost[u][i])}

\* meet_zero_ of ShuffleLower1 and meet_zero_ of the Merger.
SentCounted == \A l \in Lowers : lzero[l] = Cardinality(Sent(l))
ArrivedCounted == \A u \in Uppers : mzero[u] = Cardinality(Arrived(u))

\* When execute comes to pthread_join the receive thread has left its loop.
JoinNeverWaits == \A u \in Uppers : upc[u] = "join" => ~Receiving(u)

LEMMA SentSame ==
    ASSUME SentCounted, UNCHANGED <<marked, lcols, lscan, block_temp_, lzero>> PROVE SentCounted'
BY DEF SentCounted, Sent, InHand

LEMMA SentKept ==
    ASSUME SentCounted, UNCHANGED lzero,
           \A l \in Lowers, u \in Uppers : u \in Sent(l)' <=> u \in Sent(l)
    PROVE  SentCounted'
<1>1. ASSUME NEW l \in Lowers PROVE Sent(l)' = Sent(l)
  <2>1. Sent(l) \subseteq Uppers /\ Sent(l)' \subseteq Uppers
    BY DEF Sent
  <2> QED BY <2>1
<1> QED BY <1>1 DEF SentCounted

LEMMA ArrivedSame ==
    ASSUME ArrivedCounted, UNCHANGED <<out, ucols, lost, mzero>> PROVE ArrivedCounted'
BY DEF ArrivedCounted, Arrived

\* What OneMarker says of one line, for the steps.
LEMMA LineMarker ==
    ASSUME Inv, NEW u \in Uppers, NEW i \in Lowers, NEW l, l = map_lower_[u][i]
    PROVE  OneMarker(out[u][i], ucols[u][i], chan[l][u], InHand(l, u), lcols[l][u], lost[u][i],
                     marked[l] >= u)
BY DEF Inv, Lines, Line, Conduit

\* No marker has been put: none has been sent.
LEMMA SentFlush ==
    ASSUME Inv, SentCounted, NEW l \in Lowers, FlushBuffer(l) PROVE SentCounted'
<1>1. TypeOK /\ LowerOK
  BY DEF Inv
<1>2. /\ child[l] # <<>> /\ UNCHANGED <<marked, lscan, block_temp_, lzero>>
  BY DEF FlushBuffer, NextTuple, sendVars
<1>3. marked[l] = 0 /\ marked'[l] = 0
  BY <1>1, <1>2 DEF LowerOK, TypeOK
<1>4. \A m \in Lowers : m # l => lcols'[m] = lcols[m]
  <2>1. lcols' = lcols \/ \E r : \E b : LowerPut(l, ColumnOf(r), b)
    BY DEF FlushBuffer
  <2>2. lcols \in [Lowers -> [Uppers -> Seq(Block)]]
    BY <1>1 DEF TypeOK
  <2> QED BY <2>1, <2>2 DEF LowerPut
<1>5. ASSUME NEW m \in Lowers, NEW u \in Uppers PROVE u \in Sent(m)' <=> u \in Sent(m)
  <2>1. CASE m = l
    <3>1. ~(0 >= u)
      BY ShuffleAssumption DEF Uppers
    <3> QED BY <1>3, <2>1, <3>1 DEF Sent
  <2>2. CASE m # l
    BY <1>2, <1>4, <2>2 DEF Sent, InHand
  <2> QED BY <2>1, <2>2
<1> QED BY <1>2, <1>5, SentKept

\* The marker that has been put is still in the lower's column.
LEMMA SentPutMarker ==
    ASSUME Inv, SentCounted, NEW l \in Lowers, PutMarker(l) PROVE SentCounted'
<1>1. /\ TypeOK /\ marked \in [Lowers -> 0..NUppers] /\ marked[l] \in Nat
      /\ lcols \in [Lowers -> [Uppers -> Seq(Block)]]
  <2>1. /\ TypeOK /\ marked \in [Lowers -> 0..NUppers]
        /\ lcols \in [Lowers -> [Uppers -> Seq(Block)]]
    BY DEF Inv, TypeOK
  <2>2. marked[l] \in 0..NUppers
    BY <2>1
  <2> QED BY <2>1, <2>2
<1>2. PICK v \in Uppers : v = marked[l] + 1
  BY <1>1, ShuffleAssumption DEF PutMarker, Uppers
<1>3. /\ lcols' = [lcols EXCEPT ![l][v] = Append(lcols[l][v], Marker)]
      /\ marked' = [marked EXCEPT ![l] = v]
      /\ UNCHANGED <<lscan, block_temp_, lzero>>
  BY <1>2 DEF PutMarker, LowerPut, sendVars
<1>4. Ended(lcols'[l][v])
  <2>1. Marker \in Block /\ IsMarker(Marker)
    BY EmptySeq DEF Marker, Block, IsMarker
  <2>2. PICK q \in Seq(Block) : q = lcols[l][v]
    BY <1>1
  <2>3. Ended(Append(q, Marker))
    BY <2>1, BlockSeq DEF Ended
  <2>4. lcols'[l][v] = Append(q, Marker)
    BY <1>1, <1>3, <2>2
  <2> QED BY <2>3, <2>4
<1>5. ASSUME NEW m \in Lowers, NEW u \in Uppers PROVE u \in Sent(m)' <=> u \in Sent(m)
  <2>1. InHand(m, u)' = InHand(m, u) /\ u \in Nat
    BY <1>3, ShuffleAssumption DEF InHand, Uppers
  <2>2. CASE m = l /\ u = v
    <3>1. ~(marked[l] >= v)
      BY <1>1, <1>2
    <3> QED BY <1>4, <2>2, <3>1 DEF Sent
  <2>3. CASE m = l /\ u # v
    <3>1. marked'[l] >= u <=> marked[l] >= u
      BY <1>1, <1>2, <1>3, <2>1, <2>3
    <3>2. lcols'[l][u] = lcols[l][u]
      BY <1>1, <1>3, <2>3
    <3> QED BY <2>1, <2>3, <3>1, <3>2 DEF Sent
  <2>4. CASE m # l
    BY <1>1, <1>3, <2>1, <2>4 DEF Sent
  <2> QED BY <2>2, <2>3, <2>4
<1> QED BY <1>3, <1>5, SentKept

\* A marker that send_route takes is in its hand.
LEMMA SentGet ==
    ASSUME Inv, SentCounted, NEW l \in Lowers, SendGet(l) PROVE SentCounted'
<1>1. /\ TypeOK /\ lcols \in [Lowers -> [Uppers -> Seq(Block)]] /\ lscan \in [Lowers -> Uppers]
      /\ block_temp_ \in [Lowers -> Seq(Block)]
  BY DEF Inv, TypeOK
<1>2. PICK v \in Uppers : v = lscan[l]
  BY <1>1
<1>3. PICK q \in Seq(Block) : q = lcols[l][v] /\ q # <<>>
  BY <1>1, <1>2 DEF SendGet
<1>4. PICK b : b = [tag |-> debug_count_[l] + 1, tuples |-> Head(q).tuples]
  OBVIOUS
<1>5. /\ lcols' = [lcols EXCEPT ![l][v] = Tail(q)]
      /\ block_temp_' = [block_temp_ EXCEPT ![l] = <<b>>]
      /\ block_temp_[l] = <<>>
      /\ UNCHANGED <<marked, lscan, lzero>>
  BY <1>2, <1>3, <1>4 DEF SendGet, lowerVars
<1>6. InHand(l, v) = <<>> /\ InHand(l, v)' = <<b>> /\ lcols'[l][v] = Tail(q)
  BY <1>1, <1>2, <1>5 DEF InHand
<1>7. Ended(q) <=> Ended(<<b>>) \/ Ended(Tail(q))
  <2>1. PICK i \in Lowers : map_lower_[v][i] = l
    BY DEF Inv, Wired
  <2>2. MarkerLast(q)
    BY <1>3, <2>1, LineMarker DEF OneMarker
  <2>3. IsMarker(b) <=> IsMarker(Head(q))
    BY <1>4 DEF IsMarker
  <2>4. Ended(<<b>>) <=> IsMarker(b)
    BY DEF Ended
  <2> QED BY <1>3, <2>2, <2>3, <2>4, MarkerTail
<1>8. ~Ended(<<>>)
  BY DEF Ended
<1>9. ASSUME NEW m \in Lowers, NEW u \in Uppers PROVE u \in Sent(m)' <=> u \in Sent(m)
  <2>1. CASE m = l /\ u = v
    BY <1>3, <1>5, <1>6, <1>7, <1>8, <2>1 DEF Sent
  <2>2. CASE m # l \/ u # v
    <3>1. lcols'[m][u] = lcols[m][u]
      BY <1>1, <1>5, <2>2
    <3>2. InHand(m, u)' = InHand(m, u)
      BY <1>1, <1>2, <1>5, <2>2 DEF InHand
    <3> QED BY <1>5, <3>1, <3>2 DEF Sent
  <2> QED BY <2>1, <2>2
<1> QED BY <1>5, <1>9, SentKept

LEMMA SentMiss ==
    ASSUME Inv, SentCounted, NEW l \in Lowers, SendMiss(l) PROVE SentCounted'
<1>1. /\ lscan \in [Lowers -> Uppers] /\ block_temp_[l] = <<>>
      /\ lscan' = [lscan EXCEPT ![l] = NextColumn(lscan[l], NUppers)]
      /\ UNCHANGED <<marked, lcols, block_temp_, lzero>>
  BY DEF Inv, TypeOK, SendMiss, lowerVars
<1>2. ASSUME NEW m \in Lowers, NEW u \in Uppers PROVE InHand(m, u)' = InHand(m, u)
  <2>1. CASE m = l
    BY <1>1, <2>1 DEF InHand
  <2>2. CASE m # l
    BY <1>1, <2>2 DEF InHand
  <2> QED BY <2>1, <2>2
<1>3. \A m \in Lowers, u \in Uppers : u \in Sent(m)' <=> u \in Sent(m)
  BY <1>1, <1>2 DEF Sent
<1> QED BY <1>1, <1>3, SentKept

\* m_send hands the block to the socket: a marker is sent and counted.
LEMMA SentBlock ==
    ASSUME Inv, SentCounted, NEW l \in Lowers, SendBlock(l) PROVE SentCounted'
<1>1. /\ TypeOK /\ lcols \in [Lowers -> [Uppers -> Seq(Block)]] /\ lscan \in [Lowers -> Uppers]
      /\ block_temp_ \in [Lowers -> Seq(Block)] /\ lzero \in [Lowers -> 0..NUppers]
      /\ \A m \in Lowers : Len(block_temp_[m]) <= 1
  BY DEF Inv, TypeOK, LowerOK
<1>2. PICK v \in Uppers : v = lscan[l]
  BY <1>1
<1>3. PICK h \in Seq(Block) : h = block_temp_[l] /\ h # <<>> /\ Len(h) <= 1
  BY <1>1 DEF SendBlock
<1>4. PICK b : b = h[1]
  OBVIOUS
<1>5. Ended(h) <=> IsMarker(b)
  <2>1. PICK z \in Nat : z = Len(h) /\ z > 0 /\ z <= 1
    BY <1>3, BlockSeq
  <2>2. Len(h) = 1
    BY <2>1
  <2> QED BY <1>3, <1>4, <2>2 DEF Ended
<1>6. /\ lzero' = [lzero EXCEPT ![l] = IF IsMarker(b) THEN lzero[l] + 1 ELSE lzero[l]]
      /\ block_temp_' = [block_temp_ EXCEPT ![l] = <<>>]
      /\ lscan' = [lscan EXCEPT ![l] = NextColumn(v, NUppers)]
      /\ UNCHANGED <<marked, lcols>>
  BY <1>2, <1>3, <1>4 DEF SendBlock, lowerVars
<1>7. ASSUME NEW m \in Lowers, NEW u \in Uppers, m # l \/ u # v PROVE InHand(m, u)' = InHand(m, u)
  <2>1. CASE m = l
    BY <1>1, <1>2, <1>6, <1>7, <2>1 DEF InHand
  <2>2. CASE m # l
    BY <1>1, <1>6, <2>2 DEF InHand
  <2> QED BY <2>1, <2>2
<1>8. InHand(l, v) = h /\ InHand(l, v)' = <<>> /\ ~Ended(<<>>)
  BY <1>1, <1>2, <1>3, <1>6 DEF InHand, Ended
<1>9. IsMarker(b) => marked[l] >= v /\ lcols[l][v] = <<>>
  <2>1. PICK i \in Lowers : map_lower_[v][i] = l
    BY DEF Inv, Wired
  <2>2. Ended(InHand(l, v)) => marked[l] >= v /\ lcols[l][v] = <<>>
    BY <2>1, LineMarker DEF OneMarker
  <2> QED BY <1>5, <1>8, <2>2
<1>10. \A m \in Lowers, u \in Uppers : m # l \/ u # v => (u \in Sent(m)' <=> u \in Sent(m))
  BY <1>6, <1>7 DEF Sent
<1>11. /\ IsMarker(b) => v \notin Sent(l) /\ v \in Sent(l)'
       /\ ~IsMarker(b) => (v \in Sent(l)' <=> v \in Sent(l))
  BY <1>5, <1>6, <1>8, <1>9 DEF Sent
<1>12. \A m \in Lowers : Sent(m) \subseteq Uppers /\ Sent(m)' \subseteq Uppers
  BY DEF Sent
<1>13. \A m \in Lowers : m # l => Sent(m)' = Sent(m)
  BY <1>10, <1>12
<1>14. Sent(l)' = IF IsMarker(b) THEN Sent(l) \cup {v} ELSE Sent(l)
  <2>1. \A u \in Uppers : u # v => (u \in Sent(l)' <=> u \in Sent(l))
    BY <1>10
  <2>2. Sent(l) \subseteq Uppers /\ Sent(l)' \subseteq Uppers
    BY <1>12
  <2>3. CASE IsMarker(b)
    <3>1. \A u \in Uppers : u \in Sent(l)' <=> u \in Sent(l) \cup {v}
      BY <1>11, <2>1, <2>3
    <3>2. Sent(l)' = Sent(l) \cup {v}
      BY <2>2, <3>1
    <3> QED BY <2>3, <3>2
  <2>4. CASE ~IsMarker(b)
    <3>1. \A u \in Uppers : u \in Sent(l)' <=> u \in Sent(l)
      BY <1>11, <2>1, <2>4
    <3>2. Sent(l)' = Sent(l)
      BY <2>2, <3>1
    <3> QED BY <2>4, <3>2
  <2> QED BY <2>3, <2>4
<1>15. lzero'[l] = Cardinality(Sent(l)')
  <2>1. IsFiniteSet(Sent(l))
    <3>1. IsFiniteSet(Uppers)
      BY ShuffleAssumption, FS_Interval DEF Uppers
    <3> QED BY <1>12, <3>1, FS_Subset
  <2>2. lzero[l] = Cardinality(Sent(l))
    BY DEF SentCounted
  <2>3. CASE IsMarker(b)
    <3>1. Cardinality(Sent(l) \cup {v}) = Cardinality(Sent(l)) + 1
      BY <1>11, <2>1, <2>3, FS_AddElement
    <3> QED BY <1>1, <1>6, <1>14, <2>2, <2>3, <3>1
  <2>4. CASE ~IsMarker(b)
    BY <1>1, <1>6, <1>14, <2>2, <2>4
  <2> QED BY <2>3, <2>4
<1>16. \A m \in Lowers : m # l => lzero'[m] = lzero[m]
  BY <1>1, <1>6
<1> QED BY <1>13, <1>15, <1>16 DEF SentCounted

\* The receive thread takes a marker off a socket and counts it, kept or not.
LEMMA ArrivedReceive ==
    ASSUME Inv, ArrivedCounted, NEW v \in Uppers, Receive(v) PROVE ArrivedCounted'
<1>1. /\ TypeOK /\ ucols \in [Uppers -> [Lowers -> Seq(Block)]]
      /\ lost \in [Uppers -> [Lowers -> Seq(Block)]] /\ mzero \in [Uppers -> 0..NLowers]
  BY DEF Inv, TypeOK
<1>2. PICK j \in Lowers : j = First(fds[v])
  <2>1. fds[v] \in SUBSET Lowers /\ fds[v] # {}
    BY <1>1 DEF TypeOK, Receive
  <2> QED BY <2>1, FirstIsReady
<1>3. PICK l \in Lowers : l = map_lower_[v][j]
  BY <1>1, LineTypes
<1>4. PICK n \in Seq(Block), c \in Seq(Block), x \in Seq(Block) :
        n = chan[l][v] /\ c = ucols[v][j] /\ x = lost[v][j] /\ n # <<>>
  <2>1. chan[l][v] # <<>>
    BY <1>2, <1>3 DEF Receive
  <2> QED BY <1>1, <1>3, <2>1, LineTypes
<1>5. PICK b \in Block : b = Head(n)
  BY <1>4, BlockSeq
<1>6. /\ \/ ucols' = [ucols EXCEPT ![v][j] = Append(c, b)] /\ lost' = lost
         \/ lost' = [lost EXCEPT ![v][j] = Append(x, b)] /\ ucols' = ucols
      /\ mzero' = [mzero EXCEPT ![v] = IF IsMarker(b) THEN mzero[v] + 1 ELSE mzero[v]]
      /\ out' = out
  BY <1>2, <1>3, <1>4, <1>5 DEF Receive, execVars
<1>7. /\ \/ ucols'[v][j] = Append(c, b) /\ lost'[v][j] = x
         \/ ucols'[v][j] = c /\ lost'[v][j] = Append(x, b)
      /\ \A u \in Uppers, i \in Lowers :
            u # v \/ i # j => ucols'[u][i] = ucols[u][i] /\ lost'[u][i] = lost[u][i]
  <2>1. CASE ucols' = [ucols EXCEPT ![v][j] = Append(c, b)] /\ lost' = lost
    BY <1>1, <1>4, <2>1
  <2>2. CASE lost' = [lost EXCEPT ![v][j] = Append(x, b)] /\ ucols' = ucols
    BY <1>1, <1>4, <2>2
  <2> QED BY <1>6, <2>1, <2>2
<1>8. /\ ~Ended(out[v][j]) /\ ~Ended(c) /\ ~Ended(x)
      /\ Ended(Append(c, b)) <=> IsMarker(b)
      /\ Ended(Append(x, b)) <=> IsMarker(b)
  <2>1. OneMarker(out[v][j], c, n, InHand(l, v), lcols[l][v], x, marked[l] >= v)
    BY <1>3, <1>4, LineMarker
  <2>2. ~Ended(out[v][j]) /\ ~Ended(c) /\ ~Ended(x) /\ MarkerLast(c) /\ MarkerLast(x)
    BY <1>4, <2>1 DEF OneMarker
  <2> QED BY <2>2, MarkerAppend
<1>9. \A u \in Uppers, i \in Lowers : u # v \/ i # j => (i \in Arrived(u)' <=> i \in Arrived(u))
  BY <1>6, <1>7 DEF Arrived
<1>10. j \notin Arrived(v) /\ (j \in Arrived(v)' <=> IsMarker(b))
  BY <1>4, <1>6, <1>7, <1>8 DEF Arrived
<1>11. \A u \in Uppers : Arrived(u) \subseteq Lowers /\ Arrived(u)' \subseteq Lowers
  BY DEF Arrived
<1>12. \A u \in Uppers : u # v => Arrived(u)' = Arrived(u)
  BY <1>9, <1>11
<1>13. Arrived(v)' = IF IsMarker(b) THEN Arrived(v) \cup {j} ELSE Arrived(v)
  <2>1. \A i \in Lowers : i # j => (i \in Arrived(v)' <=> i \in Arrived(v))
    BY <1>9
  <2>2. Arrived(v) \subseteq Lowers /\ Arrived(v)' \subseteq Lowers
    BY <1>11
  <2>3. CASE IsMarker(b)
    <3>1. \A i \in Lowers : i \in Arrived(v)' <=> i \in Arrived(v) \cup {j}
      BY <1>10, <2>1, <2>3
    <3>2. Arrived(v)' = Arrived(v) \cup {j}
      BY <2>2, <3>1
    <3> QED BY <2>3, <3>2
  <2>4. CASE ~IsMarker(b)
    <3>1. \A i \in Lowers : i \in Arrived(v)' <=> i \in Arrived(v)
      BY <1>10, <2>1, <2>4
    <3>2. Arrived(v)' = Arrived(v)
      BY <2>2, <3>1
    <3> QED BY <2>4, <3>2
  <2> QED BY <2>3, <2>4
<1>14. mzero'[v] = Cardinality(Arrived(v)')
  <2>1. IsFiniteSet(Arrived(v))
    <3>1. IsFiniteSet(Lowers)
      BY ShuffleAssumption, FS_Interval DEF Lowers
    <3> QED BY <1>11, <3>1, FS_Subset
  <2>2. mzero[v] = Cardinality(Arrived(v))
    BY DEF ArrivedCounted
  <2>3. CASE IsMarker(b)
    <3>1. Cardinality(Arrived(v) \cup {j}) = Cardinality(Arrived(v)) + 1
      BY <1>10, <2>1, FS_AddElement
    <3> QED BY <1>1, <1>6, <1>13, <2>2, <2>3, <3>1
  <2>4. CASE ~IsMarker(b)
    BY <1>1, <1>6, <1>13, <2>2, <2>4
  <2> QED BY <2>3, <2>4
<1>15. \A u \in Uppers : u # v => mzero'[u] = mzero[u]
  BY <1>1, <1>6
<1> QED BY <1>12, <1>14, <1>15 DEF ArrivedCounted

\* A marker that execute passes on has arrived before.
LEMMA ArrivedConsume ==
    ASSUME Inv, ArrivedCounted, NEW v \in Uppers, Consume(v) PROVE ArrivedCounted'
<1>1. /\ TypeOK /\ ucols \in [Uppers -> [Lowers -> Seq(Block)]]
      /\ out \in [Uppers -> [Lowers -> Seq(Block)]]
  BY DEF Inv, TypeOK
<1>2. PICK j \in Lowers : j = uscan[v]
  BY <1>1 DEF TypeOK
<1>3. PICK l \in Lowers : l = map_lower_[v][j]
  BY <1>1, LineTypes
<1>4. PICK c \in Seq(Block), o \in Seq(Block) : c = ucols[v][j] /\ o = out[v][j] /\ c # <<>>
  BY <1>1, <1>2 DEF Consume
<1>5. /\ ucols' = [ucols EXCEPT ![v][j] = Tail(c)]
      /\ out' = [out EXCEPT ![v][j] = Append(o, Head(c))]
      /\ UNCHANGED <<lost, mzero>>
  BY <1>2, <1>4 DEF Consume, recvVars
<1>6. /\ ucols'[v][j] = Tail(c) /\ out'[v][j] = Append(o, Head(c))
      /\ \A u \in Uppers, i \in Lowers :
            u # v \/ i # j => ucols'[u][i] = ucols[u][i] /\ out'[u][i] = out[u][i]
  BY <1>1, <1>5
<1>7. ~Ended(o) /\ (Ended(Append(o, Head(c))) \/ Ended(Tail(c)) <=> Ended(c))
  <2>1. OneMarker(o, c, chan[l][v], InHand(l, v), lcols[l][v], lost[v][j], marked[l] >= v)
    BY <1>3, <1>4, LineMarker
  <2>2. ~Ended(o) /\ MarkerLast(o) /\ MarkerLast(c)
    BY <1>4, <2>1 DEF OneMarker
  <2>3. Head(c) \in Block
    BY <1>4, BlockSeq
  <2> QED BY <1>4, <2>2, <2>3, MarkerAppend, MarkerTail
<1>8. ASSUME NEW u \in Uppers, NEW i \in Lowers PROVE i \in Arrived(u)' <=> i \in Arrived(u)
  <2>1. CASE u = v /\ i = j
    BY <1>4, <1>5, <1>6, <1>7, <2>1 DEF Arrived
  <2>2. CASE u # v \/ i # j
    BY <1>5, <1>6, <2>2 DEF Arrived
  <2> QED BY <2>1, <2>2
<1>9. ASSUME NEW u \in Uppers PROVE Arrived(u)' = Arrived(u)
  <2>1. Arrived(u) \subseteq Lowers /\ Arrived(u)' \subseteq Lowers
    BY DEF Arrived
  <2> QED BY <1>8, <2>1
<1> QED BY <1>5, <1>9 DEF ArrivedCounted

\* The markers are counted where they pass, whatever is lost and whoever dies.
LEMMA MarkersCounted == Safety => [](SentCounted /\ ArrivedCounted)
<1>1. Init => SentCounted /\ ArrivedCounted
  <2> SUFFICES ASSUME Init PROVE SentCounted /\ ArrivedCounted
    OBVIOUS
  <2>1. ASSUME NEW l \in Lowers PROVE Sent(l) = {} /\ lzero[l] = 0
    <3>1. marked[l] = 0 /\ lzero[l] = 0
      BY DEF Init
    <3>2. \A u \in Uppers : ~(0 >= u)
      BY ShuffleAssumption DEF Uppers
    <3> QED BY <3>1, <3>2 DEF Sent
  <2>2. ASSUME NEW u \in Uppers PROVE Arrived(u) = {} /\ mzero[u] = 0
    BY DEF Init, Arrived, Ended
  <2> QED BY <2>1, <2>2, FS_EmptySet DEF SentCounted, ArrivedCounted
<1>2. Inv /\ SentCounted /\ [Next]_vars => SentCounted'
  <2> SUFFICES ASSUME Inv, SentCounted, [Next]_vars PROVE SentCounted'
    OBVIOUS
  <2>1. ASSUME NEW l \in Lowers, LowerExecute(l) PROVE SentCounted'
    <3>1. CASE StoreTuple(l)
      BY <3>1, SentSame DEF StoreTuple, NextTuple, sendVars
    <3> QED BY <2>1, <3>1, SentFlush, SentPutMarker DEF LowerExecute
  <2>2. ASSUME NEW l \in Lowers, send_route(l) PROVE SentCounted'
    BY <2>2, SentGet, SentMiss, SentBlock DEF send_route
  <2>3. ASSUME NEW l \in Lowers, Crash(l) PROVE SentCounted'
    BY <2>3, SentSame DEF Crash, lowerVars, sendVars
  <2>4. ASSUME NEW u \in Uppers, receive_route(u) PROVE SentCounted'
    BY <2>4, SentSame DEF receive_route, Select, Receive, ReceiveShort, lowerVars, sendVars
  <2>5. ASSUME NEW u \in Uppers, UpperExecute(u) PROVE SentCounted'
    BY <2>5, SentSame DEF UpperExecute, Consume, ConsumeMiss, Join, lowerVars, sendVars
  <2>6. CASE UNCHANGED vars
    BY <2>6, SentSame DEF vars, lowerVars, sendVars
  <2> QED BY <2>1, <2>2, <2>3, <2>4, <2>5, <2>6 DEF Next, Terminated
<1>3. Inv /\ ArrivedCounted /\ [Next]_vars => ArrivedCounted'
  <2> SUFFICES ASSUME Inv, ArrivedCounted, [Next]_vars PROVE ArrivedCounted'
    OBVIOUS
  <2>1. ASSUME NEW l \in Lowers, LowerExecute(l) PROVE ArrivedCounted'
    BY <2>1, ArrivedSame DEF LowerExecute, StoreTuple, FlushBuffer, NextTuple, PutMarker,
                             recvVars, execVars
  <2>2. ASSUME NEW l \in Lowers, send_route(l) PROVE ArrivedCounted'
    BY <2>2, ArrivedSame DEF send_route, SendGet, SendMiss, SendBlock, recvVars, execVars
  <2>3. ASSUME NEW l \in Lowers, Crash(l) PROVE ArrivedCounted'
    BY <2>3, ArrivedSame DEF Crash, recvVars, execVars
  <2>4. ASSUME NEW u \in Uppers, receive_route(u) PROVE ArrivedCounted'
    <3>1. CASE Select(u) \/ ReceiveShort(u)
      BY <3>1, ArrivedSame DEF Select, ReceiveShort, execVars
    <3> QED BY <2>4, <3>1, ArrivedReceive DEF receive_route
  <2>5. ASSUME NEW u \in Uppers, UpperExecute(u) PROVE ArrivedCounted'
    <3>1. CASE ConsumeMiss(u) \/ Join(u)
      BY <3>1, ArrivedSame DEF ConsumeMiss, Join, recvVars
    <3> QED BY <2>5, <3>1, ArrivedConsume DEF UpperExecute
  <2>6. CASE UNCHANGED vars
    BY <2>6, ArrivedSame DEF vars, recvVars, execVars
  <2> QED BY <2>1, <2>2, <2>3, <2>4, <2>5, <2>6 DEF Next, Terminated
<1> QED BY <1>1, <1>2, <1>3, Invariance, PTL DEF Safety

LEMMA EndedHolds ==
    ASSUME NEW s \in Seq(Block)
    PROVE  Ended(s) => MarkerIn(s)
BY BlockSeq DEF Ended, MarkerIn, ElementsOf

\* A part of a finite set that misses an element has fewer.
LEMMA Fewer ==
    ASSUME NEW T, IsFiniteSet(T), NEW S \in SUBSET T, NEW e \in T, e \notin S
    PROVE  Cardinality(S) < Cardinality(T)
<1>1. /\ IsFiniteSet(S) /\ Cardinality(S) <= Cardinality(T)
      /\ Cardinality(S) = Cardinality(T) => S = T
  BY FS_Subset
<1>2. Cardinality(S) \in Nat /\ Cardinality(T) \in Nat
  BY <1>1, FS_CardinalityType
<1> QED BY <1>1, <1>2

\* The safety half of EndsUnlessMarkerLost: execute of an upper never waits for a
\* marker nobody will bring.  As long as no put has refused one, the missing
\* marker is in the column, or the threads between it and the column have not
\* returned.
THEOREM NeverForgotten == Safety => []MarkerOnItsWay
<1>1. Inv /\ SentCounted /\ ArrivedCounted => MarkerOnItsWay
  <2> SUFFICES ASSUME Inv, SentCounted, ArrivedCounted,
                      NEW u \in Uppers, upc[u] = "run", ~MarkerLost(u)
               PROVE  \E i \in Lowers :
                        LET l == map_lower_[u][i]
                        IN  \/ MarkerIn(ucols[u][i])
                            \/ MarkerIn(chan[l][u]) /\ Receiving(u)
                            \/ /\ marked[l] < u \/ MarkerIn(lcols[l][u]) \/ MarkerIn(InHand(l, u))
                               /\ lzero[l] < NUppers /\ Receiving(u)
    BY DEF MarkerOnItsWay
  <2>1. /\ IsFiniteSet(Lowers) /\ Cardinality(Lowers) = NLowers
        /\ IsFiniteSet(Uppers) /\ Cardinality(Uppers) = NUppers
    BY ShuffleAssumption, FS_Interval DEF Lowers, Uppers
  <2>2. PICK i \in Lowers : ~Ended(out[u][i])
    <3>1. Cardinality(Closed(u)) # NLowers
      BY DEF Inv, Counts
    <3> QED BY <2>1, <3>1 DEF Closed
  <2>3. PICK l \in Lowers : l = map_lower_[u][i]
    BY LineTypes DEF Inv
  <2>4. PICK c \in Seq(Block), n \in Seq(Block), h \in Seq(Block), q \in Seq(Block), x \in Seq(Block) :
          /\ c = ucols[u][i] /\ n = chan[l][u] /\ h = InHand(l, u) /\ q = lcols[l][u]
          /\ x = lost[u][i]
    BY <2>3, LineTypes DEF Inv
  <2>5. OneMarker(out[u][i], c, n, h, q, x, marked[l] >= u)
    BY <2>3, <2>4, LineMarker
  <2>6. ~Ended(x)
    BY <2>4, EndedHolds DEF MarkerLost, MarkerIn
  <2>7. marked[l] \in Nat /\ u \in Nat
    BY ShuffleAssumption DEF Inv, TypeOK, Uppers
  <2>8. Ended(c) \/ Ended(n) \/ Ended(h) \/ Ended(q) \/ marked[l] < u
    <3>1. marked[l] >= u \/ marked[l] < u
      BY <2>7
    <3> QED BY <2>2, <2>5, <2>6, <3>1 DEF OneMarker
  <2>9. ASSUME Ended(n) \/ Ended(h) \/ Ended(q) \/ marked[l] < u PROVE Receiving(u)
    <3>1. ~Ended(c)
      <4>1. Ended(n) => n # <<>>
        BY DEF Ended
      <4>2. Ended(h) => h # <<>>
        BY DEF Ended
      <4>3. Ended(q) => q # <<>>
        BY DEF Ended
      <4>4. marked[l] < u => ~(marked[l] >= u)
        BY <2>7
      <4> QED BY <2>5, <2>9, <4>1, <4>2, <4>3, <4>4 DEF OneMarker
    <3>2. i \notin Arrived(u)
      BY <2>2, <2>4, <2>6, <3>1 DEF Arrived
    <3>3. Arrived(u) \in SUBSET Lowers
      BY DEF Arrived
    <3>4. Cardinality(Arrived(u)) < NLowers
      BY <2>1, <3>2, <3>3, Fewer
    <3> QED BY <3>4 DEF ArrivedCounted, Receiving
  <2>10. ASSUME Ended(h) \/ Ended(q) \/ marked[l] < u PROVE lzero[l] < NUppers
    <3>1. u \notin Sent(l)
      BY <2>4, <2>7, <2>10 DEF Sent
    <3>2. Sent(l) \in SUBSET Uppers
      BY DEF Sent
    <3>3. Cardinality(Sent(l)) < NUppers
      BY <2>1, <3>1, <3>2, Fewer
    <3> QED BY <3>3 DEF SentCounted
  <2>11. /\ Ended(c) => MarkerIn(ucols[u][i])
         /\ Ended(n) => MarkerIn(chan[l][u])
         /\ Ended(h) => MarkerIn(InHand(l, u))
         /\ Ended(q) => MarkerIn(lcols[l][u])
    BY <2>4, EndedHolds
  <2> QED BY <2>3, <2>8, <2>9, <2>10, <2>11
<1> QED BY <1>1, Invariance, MarkersCounted, PTL

\* execute joins a receive thread that has counted its last marker: the
\* pthread_join of ShuffleUpper1 cannot block.
THEOREM JoinReturns == Safety => []JoinNeverWaits
<1>1. Inv /\ ArrivedCounted => JoinNeverWaits
  <2> SUFFICES ASSUME Inv, ArrivedCounted, NEW u \in Uppers, upc[u] = "join" PROVE ~Receiving(u)
    BY DEF JoinNeverWaits
  <2>1. uzero[u] = NLowers /\ uzero[u] = Cardinality(Closed(u))
    BY DEF Inv, Counts
  <2>2. IsFiniteSet(Lowers) /\ Cardinality(Lowers) = NLowers /\ NLowers \in Nat
    BY ShuffleAssumption, FS_Interval DEF Lowers
  <2>3. Closed(u) \in SUBSET Lowers
    BY DEF Closed
  <2>4. Closed(u) = Lowers
    BY <2>1, <2>2, <2>3, FS_Subset
  <2>5. Arrived(u) = Lowers
    BY <2>4 DEF Closed, Arrived
  <2>6. mzero[u] = NLowers
    BY <2>2, <2>5 DEF ArrivedCounted
  <2> QED BY <2>2, <2>6 DEF Receiving
<1> QED BY <1>1, Invariance, MarkersCounted, PTL
===============================================================================

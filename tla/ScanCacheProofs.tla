---------------------------- MODULE ScanCacheProofs ----------------------------
(***************************************************************************)
(* Proofs about ScanCache, for any number of Scans, files and blocks.      *)
(*                                                                         *)
(* Every entry of every map is the whole file or, made by operator[], no   *)
(* block at all, so what a Scan passes on is always a prefix of its file,  *)
(* whichever stores its calls of getInstance gave it.  That it is all of   *)
(* it takes more: as long as one store was created, every thread past      *)
(* getInstance works on that store, no entry in it is empty or being made  *)
(* by operator[], a thread that reads has found or inserted its file, and  *)
(* the block whose size was tested is still there when it is taken.        *)
(***************************************************************************)
EXTENDS ScanCache, SequenceTheorems, FiniteSetTheorems, TLAPS

\* The threads still to find or to create a store.
Fresh == {s \in Scans : pc[s] \in {"test", "new"}}

Places == {"test", "new", "return", "find", "load", "insert", "read", "size", "next", "block",
           "inserting", "sizing", "picking", "done", "undefined"}

TypeOK ==
    /\ pc \in [Scans -> Places]
    /\ file \in [Scans -> Files]
    /\ created \in Nat /\ memstore_ = created
    /\ mine \in [Scans -> Nat]
    /\ DOMAIN map = Stores
    /\ out \in [Scans -> Seq(Int)]

\* No thread creates more than one store, and a thread past getInstance found or
\* created one.
StoresCounted ==
    /\ created + Cardinality(Fresh) <= Cardinality(Scans)
    /\ created = 0 => Fresh = Scans

MineCreated ==
    \A s \in Scans : pc[s] \notin {"test", "new", "return"} => mine[s] \in 1 .. created

Whole(e) == e = Contents \/ e = <<>>

Entries ==
    \A m \in Stores : \A f \in DOMAIN map[m] : Whole(map[m][f])

\* Nothing is in a map before its store is created.
Untouched == \A m \in Stores : m > created => DOMAIN map[m] = {}

\* out[s] is a prefix of Contents.
Passing ==
    \A s \in Scans : Len(out[s]) <= Blocks /\ \A k \in 1 .. Len(out[s]) : out[s][k] = k

\* Where thread s is, as long as there is one store.
Settled(s) ==
    /\ pc[s] \in {"read", "size", "next", "block", "done"} => file[s] \in DOMAIN map[1]
    /\ pc[s] \in {"next", "block"} => Len(out[s]) < Blocks
    /\ pc[s] \notin {"sizing", "picking"}
    /\ pc[s] = "done" => out[s] = Contents
    /\ pc[s] = "undefined" => file[s] \notin Present

OneStore ==
    created = 1 =>
        /\ \A f \in DOMAIN map[1] : map[1][f] = Contents
        /\ \A s \in Scans : Settled(s)

Inv ==
    /\ TypeOK /\ StoresCounted /\ MineCreated
    /\ Entries /\ Untouched /\ Passing /\ OneStore


\* A sequence of numbers that count up from 1 is a prefix of Contents.
LEMMA CountingUp ==
    ASSUME NEW s \in Seq(Int)
    PROVE  /\ (Len(s) <= Blocks /\ \A k \in 1 .. Len(s) : s[k] = k) => IsPrefix(s, Contents)
           /\ (Len(s) = Blocks /\ \A k \in 1 .. Len(s) : s[k] = k) => s = Contents
<1>1. Blocks \in Nat /\ Contents \in Seq(Int) /\ Len(Contents) = Blocks
  BY ScanAssumption DEF Contents
<1>2. \A k \in 1 .. Blocks : Contents[k] = k
  BY DEF Contents
<1>3. Len(s) \in Nat
  BY LenProperties
<1>4. ASSUME Len(s) <= Blocks, \A k \in 1 .. Len(s) : s[k] = k PROVE IsPrefix(s, Contents)
  <2> DEFINE n == Len(s)
             p == SubSeq(s, 1, n)
             q == SubSeq(Contents, 1, n)
  <2>1. n \in Nat /\ n <= Blocks
    BY <1>3, <1>4
  <2> HIDE DEF n
  <2>2. /\ \A i \in 1 .. n : s[i] \in Int
        /\ \A i \in 1 .. n : Contents[i] \in Int
    BY <1>1, <1>2, <2>1 DEF n
  <2>3. p \in Seq(Int) /\ Len(p) = n /\ \A i \in 1 .. n : p[i] = s[i]
    BY <2>1, <2>2, SubSeqProperties
  <2>4. q \in Seq(Int) /\ Len(q) = n /\ \A i \in 1 .. n : q[i] = Contents[i]
    BY <2>1, <2>2, SubSeqProperties
  <2>5. \A i \in 1 .. n : p[i] = q[i]
    BY <1>1, <1>2, <1>4, <2>1, <2>3, <2>4 DEF n
  <2>6. p = q
    <3> HIDE DEF p, q
    <3> QED BY <2>3, <2>4, <2>5, SeqEqual
  <2> QED BY <1>1, <2>1, <2>6 DEF IsPrefix, n
<1>5. ASSUME Len(s) = Blocks, \A k \in 1 .. Len(s) : s[k] = k PROVE s = Contents
  BY <1>1, <1>2, <1>5, SeqEqual
<1> QED BY <1>4, <1>5

LEMMA InitInv == Init => Inv
<1> SUFFICES ASSUME Init PROVE Inv
  OBVIOUS
<1> USE DEF Init
<1>1. <<>> \in Seq(Int) /\ Len(<<>>) = 0 /\ DOMAIN <<>> = {}
  BY EmptySeq
<1>2. TypeOK
  BY <1>1 DEF TypeOK, Places
<1>3. StoresCounted
  <2>1. Fresh = Scans
    BY DEF Fresh
  <2>2. Cardinality(Scans) \in Nat
    BY ScanAssumption, FS_CardinalityType
  <2> QED BY <2>1, <2>2 DEF StoresCounted
<1>4. MineCreated /\ OneStore
  BY DEF MineCreated, OneStore
<1>5. Entries /\ Untouched
  BY <1>1 DEF Entries, Untouched
<1>6. Passing
  BY <1>1, ScanAssumption DEF Passing
<1> QED BY <1>2, <1>3, <1>4, <1>5, <1>6 DEF Inv

\* A store that threads work on exists.
LEMMA CreatedAreStores ==
    ASSUME Inv PROVE /\ created \in Nat /\ Cardinality(Scans) \in Nat /\ created <= Cardinality(Scans)
                     /\ 1 .. created \subseteq Stores
                     /\ IsFiniteSet(Fresh) /\ Cardinality(Fresh) \in Nat
<1>1. IsFiniteSet(Scans) /\ Cardinality(Scans) \in Nat
  BY ScanAssumption, FS_CardinalityType
<1>2. IsFiniteSet(Fresh) /\ Cardinality(Fresh) \in Nat
  BY <1>1, FS_Subset, FS_CardinalityType DEF Fresh
<1>3. created \in Nat /\ created <= Cardinality(Scans)
  BY <1>1, <1>2 DEF Inv, TypeOK, StoresCounted
<1> QED BY <1>1, <1>2, <1>3 DEF Stores

\* A thread past the test has a store to return.
LEMMA StoreThere ==
    ASSUME Inv, NEW s \in Scans, pc[s] \notin {"test", "new"}
    PROVE  created \in Nat /\ created # 0 /\ created \in 1 .. created /\ memstore_ = created
<1>1. created \in Nat /\ memstore_ = created
  BY DEF Inv, TypeOK
<1>2. created # 0
  BY DEF Inv, StoresCounted, Fresh
<1> QED BY <1>1, <1>2

\* A thread that has taken its store stays among those.
LEMMA FreshKept ==
    ASSUME Inv, NEW s \in Scans, NEW place \in Places, Goto(s, place),
           (pc[s] \in {"test", "new"}) <=> (place \in {"test", "new"})
    PROVE  Fresh' = Fresh
<1>1. \A t \in Scans : pc'[t] = IF t = s THEN place ELSE pc[t]
  BY DEF Inv, TypeOK, Goto
<1> QED BY <1>1 DEF Fresh

LEMMA FreshTakes ==
    ASSUME Inv, NEW s \in Scans, Goto(s, "return"), pc[s] \in {"test", "new"}
    PROVE  Cardinality(Fresh') = Cardinality(Fresh) - 1
<1>1. \A t \in Scans : pc'[t] = IF t = s THEN "return" ELSE pc[t]
  BY DEF Inv, TypeOK, Goto
<1>2. Fresh' = Fresh \ {s} /\ s \in Fresh
  BY <1>1 DEF Fresh
<1> QED BY <1>2, CreatedAreStores, FS_RemoveElement

\* A step of a thread past the test that changes no map and passes nothing on.
LEMMA Moves ==
    ASSUME Inv, NEW s \in Scans, NEW place \in Places, Goto(s, place),
           pc[s] \notin {"test", "new"}, place \notin {"test", "new"},
           \/ mine' = mine /\ pc[s] # "return"
           \/ mine' = [mine EXCEPT ![s] = memstore_],
           UNCHANGED <<file, memstore_, created, map, out>>,
           created = 1 => Settled(s)'
    PROVE  Inv'
<1>1. pc \in [Scans -> Places] /\ mine \in [Scans -> Nat] /\ pc' = [pc EXCEPT ![s] = place]
  BY DEF Inv, TypeOK, Goto
<1>2. \A t \in Scans : pc'[t] = IF t = s THEN place ELSE pc[t]
  BY <1>1
<1>3. created \in Nat /\ created \in 1 .. created /\ memstore_ = created
  BY StoreThere
<1>4. \A t \in Scans : mine'[t] = mine[t] \/ (t = s /\ mine'[t] = created)
  BY <1>1, <1>3
<1>5. TypeOK'
  <2>1. pc' \in [Scans -> Places] /\ mine' \in [Scans -> Nat]
    BY <1>1, <1>3
  <2> QED BY <2>1 DEF Inv, TypeOK
<1>6. StoresCounted'
  <2>1. Fresh' = Fresh
    BY FreshKept
  <2> QED BY <2>1 DEF Inv, StoresCounted
<1>7. MineCreated'
  <2> SUFFICES ASSUME NEW t \in Scans, pc'[t] \notin {"test", "new", "return"}
               PROVE  mine'[t] \in 1 .. created
    BY DEF MineCreated
  <2>1. CASE t = s
    BY <1>1, <1>3, <2>1 DEF Inv, MineCreated
  <2>2. CASE t # s
    BY <1>2, <1>4, <2>2 DEF Inv, MineCreated
  <2> QED BY <2>1, <2>2
<1>8. Entries' /\ Untouched' /\ Passing'
  BY DEF Inv, Entries, Untouched, Passing
<1>9. OneStore'
  <2> SUFFICES ASSUME created = 1, NEW t \in Scans PROVE Settled(t)'
    BY DEF Inv, OneStore
  <2>1. CASE t = s
    BY <2>1
  <2>2. CASE t # s
    <3>1. Settled(t)
      BY DEF Inv, OneStore
    <3> QED BY <1>2, <2>2, <3>1 DEF Settled
  <2> QED BY <2>1, <2>2
<1> QED BY <1>5, <1>6, <1>7, <1>8, <1>9 DEF Inv

LEMMA TestStep ==
    ASSUME Inv, NEW s \in Scans, getInstance_test(s) PROVE Inv'
<1>1. pc[s] = "test" /\ UNCHANGED <<file, memstore_, created, map, mine, out>>
  BY DEF getInstance_test
<1>2. pc \in [Scans -> Places] /\ created \in Nat /\ memstore_ = created
  BY DEF Inv, TypeOK
<1>3. PICK place \in Places :
         /\ Goto(s, place) /\ pc' = [pc EXCEPT ![s] = place]
         /\ place = "new" \/ (place = "return" /\ created # 0)
  BY <1>2 DEF getInstance_test, Goto, Places
<1>4. \A t \in Scans : pc'[t] = IF t = s THEN place ELSE pc[t]
  BY <1>2, <1>3
<1>5. TypeOK'
  <2>1. pc' \in [Scans -> Places]
    BY <1>2, <1>3
  <2> QED BY <1>1, <2>1 DEF Inv, TypeOK
<1>6. StoresCounted'
  <2>1. CASE place = "new"
    <3>1. Fresh' = Fresh
      BY <1>1, <1>3, <2>1, FreshKept
    <3> QED BY <1>1, <3>1 DEF Inv, StoresCounted
  <2>2. CASE place = "return"
    <3>1. Cardinality(Fresh') = Cardinality(Fresh) - 1
      BY <1>1, <1>3, <2>2, FreshTakes
    <3>2. Cardinality(Fresh) \in Nat /\ Cardinality(Scans) \in Nat /\ created # 0
      BY <1>3, <2>2, CreatedAreStores
    <3>3. created + Cardinality(Fresh) <= Cardinality(Scans)
      BY DEF Inv, StoresCounted
    <3>4. created + Cardinality(Fresh') <= Cardinality(Scans)
      BY <1>2, <3>1, <3>2, <3>3
    <3> QED BY <1>1, <3>2, <3>4 DEF StoresCounted
  <2> QED BY <1>3, <2>1, <2>2
<1>7. MineCreated' /\ Entries' /\ Untouched' /\ Passing'
  BY <1>1, <1>3, <1>4 DEF Inv, MineCreated, Entries, Untouched, Passing
<1>8. OneStore'
  <2> SUFFICES ASSUME created = 1, NEW t \in Scans PROVE Settled(t)'
    BY <1>1 DEF Inv, OneStore
  <2>1. CASE t = s
    BY <1>1, <1>3, <1>4, <2>1 DEF Settled
  <2>2. CASE t # s
    <3>1. Settled(t)
      BY DEF Inv, OneStore
    <3> QED BY <1>1, <1>4, <2>2, <3>1 DEF Settled
  <2> QED BY <2>1, <2>2
<1> QED BY <1>5, <1>6, <1>7, <1>8 DEF Inv

LEMMA NewStep ==
    ASSUME Inv, NEW s \in Scans, getInstance_new(s) PROVE Inv'
<1>1. /\ pc[s] = "new" /\ created' = created + 1 /\ memstore_' = created + 1
      /\ Goto(s, "return") /\ pc' = [pc EXCEPT ![s] = "return"]
      /\ UNCHANGED <<file, map, mine, out>>
  BY DEF getInstance_new, Goto
<1>2. pc \in [Scans -> Places] /\ created \in Nat /\ mine \in [Scans -> Nat]
  BY DEF Inv, TypeOK
<1>3. \A t \in Scans : pc'[t] = IF t = s THEN "return" ELSE pc[t]
  BY <1>1, <1>2
<1>4. TypeOK'
  <2>1. pc' \in [Scans -> Places] /\ created' \in Nat
    BY <1>1, <1>2 DEF Places
  <2> QED BY <1>1, <2>1 DEF Inv, TypeOK
<1>5. StoresCounted'
  <2>1. Cardinality(Fresh') = Cardinality(Fresh) - 1
    BY <1>1, FreshTakes
  <2>2. Cardinality(Fresh) \in Nat /\ Cardinality(Scans) \in Nat
    BY CreatedAreStores
  <2>3. created + Cardinality(Fresh) <= Cardinality(Scans)
    BY DEF Inv, StoresCounted
  <2>4. created' + Cardinality(Fresh') <= Cardinality(Scans) /\ created' # 0
    BY <1>1, <1>2, <2>1, <2>2, <2>3
  <2> QED BY <2>4 DEF StoresCounted
<1>6. MineCreated'
  <2> SUFFICES ASSUME NEW t \in Scans, pc'[t] \notin {"test", "new", "return"}
               PROVE  mine'[t] \in 1 .. created'
    BY DEF MineCreated
  <2>1. mine'[t] = mine[t] /\ mine[t] \in 1 .. created
    BY <1>1, <1>3 DEF Inv, MineCreated
  <2> QED BY <1>1, <1>2, <2>1
<1>7. Untouched'
  <2> SUFFICES ASSUME NEW m \in Stores, m > created' PROVE DOMAIN map[m] = {}
    BY <1>1 DEF Untouched
  <2>1. m > created
    BY <1>1, <1>2 DEF Stores
  <2> QED BY <2>1 DEF Inv, Untouched
<1>8. Entries' /\ Passing'
  BY <1>1 DEF Inv, Entries, Passing
<1>9. OneStore'
  <2> SUFFICES ASSUME created' = 1
               PROVE  DOMAIN map[1] = {} /\ \A t \in Scans : pc'[t] \in {"test", "new", "return"}
    BY <1>1 DEF OneStore, Settled
  <2>1. created = 0 /\ Fresh = Scans
    BY <1>1, <1>2 DEF Inv, StoresCounted
  <2>2. 1 \in Stores
    <3>1. Cardinality(Scans) # 0
      BY ScanAssumption, FS_EmptySet
    <3> QED BY <3>1, CreatedAreStores DEF Stores
  <2>3. DOMAIN map[1] = {}
    BY <2>1, <2>2 DEF Inv, Untouched
  <2>4. \A t \in Scans : pc[t] \in {"test", "new"}
    BY <2>1 DEF Fresh
  <2> QED BY <1>3, <2>3, <2>4
<1> QED BY <1>4, <1>5, <1>6, <1>7, <1>8, <1>9 DEF Inv

LEMMA ReturnStep ==
    ASSUME Inv, NEW s \in Scans, getInstance_return(s) PROVE Inv'
<1>1. PICK place \in Places :
         /\ Goto(s, place) /\ pc' = [pc EXCEPT ![s] = place]
         /\ \/ pc[s] = "return" /\ place = "find"
            \/ pc[s] = "load" /\ place = "insert"
            \/ pc[s] = "read" /\ place = "size"
            \/ pc[s] = "next" /\ place = "block"
  <2>1. pc[s] \in {"return", "load", "read", "next"} /\ Goto(s, After[pc[s]])
    BY DEF getInstance_return, After
  <2>2. /\ After["return"] = "find" /\ After["load"] = "insert"
        /\ After["read"] = "size" /\ After["next"] = "block"
    BY DEF After
  <2> QED BY <2>1, <2>2 DEF Goto, Places
<1>2. /\ mine' = [mine EXCEPT ![s] = memstore_]
      /\ UNCHANGED <<file, memstore_, created, map, out>>
  BY DEF getInstance_return
<1>3. pc'[s] = place
  BY <1>1 DEF Inv, TypeOK
<1>4. created = 1 => Settled(s)'
  <2> SUFFICES ASSUME created = 1 PROVE Settled(s)'
    OBVIOUS
  <2>1. Settled(s)
    BY DEF Inv, OneStore
  <2> QED BY <1>1, <1>2, <1>3, <2>1 DEF Settled
<1>5. pc[s] \notin {"test", "new"} /\ place \notin {"test", "new"}
  BY <1>1
<1> QED BY <1>1, <1>2, <1>4, <1>5, Moves

\* With one store, a thread past getInstance uses it.
LEMMA MineOne ==
    ASSUME Inv, NEW s \in Scans, pc[s] \notin {"test", "new", "return"}, created = 1
    PROVE  mine[s] = 1 /\ memstore_ = 1
BY DEF Inv, MineCreated, TypeOK

LEMMA FindStep ==
    ASSUME Inv, NEW s \in Scans, prelude_find(s) PROVE Inv'
<1>1. /\ pc[s] = "find"
      /\ UNCHANGED <<file, memstore_, created, map, mine, out>>
  BY DEF prelude_find
<1>2. PICK place \in Places :
         /\ Goto(s, place) /\ pc' = [pc EXCEPT ![s] = place]
         /\ place \in {"read", "load"}
         /\ place = "read" => mine[s] # memstore_ \/ file[s] \in DOMAIN map[mine[s]]
  BY DEF prelude_find, Goto, Places, Missing
<1>3. pc'[s] = place
  BY <1>2 DEF Inv, TypeOK
<1>4. created = 1 => Settled(s)'
  <2> SUFFICES ASSUME created = 1 PROVE Settled(s)'
    OBVIOUS
  <2>1. mine[s] = 1 /\ memstore_ = 1
    BY <1>1, MineOne
  <2> QED BY <1>1, <1>2, <1>3, <2>1 DEF Settled
<1> QED BY <1>1, <1>2, <1>4, Moves

LEMMA NofileStep ==
    ASSUME Inv, NEW s \in Scans, prelude_nofile(s) PROVE Inv'
<1>1. /\ pc[s] = "load" /\ file[s] \notin Present /\ Goto(s, "undefined")
      /\ UNCHANGED <<file, memstore_, created, map, mine, out>>
  BY DEF prelude_nofile
<1>2. pc'[s] = "undefined"
  BY <1>1 DEF Inv, TypeOK, Goto
<1>3. Settled(s)'
  BY <1>1, <1>2 DEF Settled
<1> QED BY <1>1, <1>3, Moves DEF Places

\* An entry that is the file or nothing is put into the map of store m.
LEMMA EntryKept ==
    ASSUME Inv, NEW m, m \in 1 .. created, NEW f, NEW e, Whole(e),
           NEW p, p = map', DOMAIN p = DOMAIN map, p[m] = Entered(map[m], f, e),
           \A n \in DOMAIN map : n # m => p[n] = map[n], created' = created
    PROVE  DOMAIN map' = Stores /\ Entries' /\ Untouched'
<1>1. m \in Stores /\ created \in Nat /\ DOMAIN map = Stores
  BY CreatedAreStores DEF Inv, TypeOK
<1>2. PICK g : g = map
  OBVIOUS
<1>3. /\ DOMAIN p = Stores
      /\ \A n \in Stores : n # m => p[n] = g[n]
      /\ DOMAIN p[m] = DOMAIN g[m] \cup {f}
      /\ p[m][f] = e
      /\ \A h \in DOMAIN g[m] : h # f => p[m][h] = g[m][h]
  <2>1. PICK q : q = g[m] /\ p[m] = Entered(q, f, e)
    BY <1>2
  <2>2. /\ DOMAIN p[m] = DOMAIN q \cup {f}
        /\ p[m][f] = e
        /\ \A h \in DOMAIN q : h # f => p[m][h] = q[h]
    BY <2>1 DEF Entered
  <2> QED BY <1>1, <1>2, <2>1, <2>2
<1>4. Entries'
  <2> SUFFICES ASSUME NEW n \in Stores, NEW h \in DOMAIN p[n]
               PROVE  Whole(p[n][h])
    BY <1>2 DEF Entries
  <2>1. \A k \in DOMAIN g[n] : Whole(g[n][k])
    BY <1>2 DEF Inv, Entries
  <2>2. CASE n = m
    BY <1>1, <1>3, <2>1, <2>2
  <2>3. CASE n # m
    BY <1>3, <2>1, <2>3
  <2> QED BY <2>2, <2>3
<1>5. Untouched'
  <2> SUFFICES ASSUME NEW n \in Stores, n > created PROVE DOMAIN p[n] = {}
    BY <1>2 DEF Untouched
  <2>1. n # m
    BY <1>1
  <2> QED BY <1>2, <1>3, <2>1 DEF Inv, Untouched
<1> QED BY <1>2, <1>3, <1>4, <1>5

\* An insertion of e ends, or finds an entry: with one store it is the file that is in
\* the map, and its thread reads on.
LEMMA PutStep ==
    ASSUME Inv, NEW s \in Scans, pc[s] \notin {"test", "new", "return"},
           NEW e, Whole(e), Put(s, e), NEW place \in {"read", "size", "block"}, Goto(s, place),
           UNCHANGED <<file, memstore_, created, mine, out>>,
           created = 1 => e = Contents /\ place = "read"
    PROVE  Inv'
<1>1. PICK m \in 1 .. created : m = mine[s] /\ m \in Stores
  BY CreatedAreStores DEF Inv, MineCreated
<1>2. PICK d : /\ d = Inserted(m, file[s], e) /\ Whole(d)
               /\ created = 1 => d = Contents
  <2>1. Whole(Inserted(m, file[s], e))
    BY <1>1 DEF Inserted, Inv, Entries
  <2>2. created = 1 => Inserted(m, file[s], e) = Contents
    BY <1>1 DEF Inserted, Inv, OneStore
  <2> QED BY <2>1, <2>2
<1>3. map' = [map EXCEPT ![m] = Entered(map[m], file[s], d)]
  BY <1>1, <1>2 DEF Put
<1>4. PICK p : /\ p = map' /\ DOMAIN map' = Stores /\ Entries' /\ Untouched'
               /\ DOMAIN p[m] = DOMAIN map[m] \cup {file[s]}
               /\ p[m][file[s]] = d
               /\ \A h \in DOMAIN map[m] : h # file[s] => p[m][h] = map[m][h]
  <2>1. PICK f : f = file[s]
    OBVIOUS
  <2>2. PICK p : /\ p = map' /\ DOMAIN p = DOMAIN map /\ p[m] = Entered(map[m], f, d)
                 /\ \A n \in DOMAIN map : n # m => p[n] = map[n]
    BY <1>1, <1>3, <2>1 DEF Inv, TypeOK
  <2>3. DOMAIN map' = Stores /\ Entries' /\ Untouched'
    BY <1>2, <2>2, EntryKept
  <2>4. /\ DOMAIN p[m] = DOMAIN map[m] \cup {f}
        /\ p[m][f] = d
        /\ \A h \in DOMAIN map[m] : h # f => p[m][h] = map[m][h]
    <3>1. PICK g : g = map[m] /\ p[m] = Entered(g, f, d)
      BY <2>2
    <3> QED BY <3>1 DEF Entered
  <2> QED BY <2>1, <2>2, <2>3, <2>4
<1>5. pc \in [Scans -> Places] /\ pc' = [pc EXCEPT ![s] = place] /\ place \in Places
  BY DEF Inv, TypeOK, Goto, Places
<1>6. \A t \in Scans : pc'[t] = IF t = s THEN place ELSE pc[t]
  BY <1>5
<1>7. TypeOK'
  <2>1. pc' \in [Scans -> Places]
    BY <1>5
  <2> QED BY <1>4, <2>1 DEF Inv, TypeOK
<1>8. StoresCounted'
  <2>1. Fresh' = Fresh
    BY <1>5, FreshKept
  <2> QED BY <2>1 DEF Inv, StoresCounted
<1>9. MineCreated' /\ Passing'
  BY <1>6 DEF Inv, MineCreated, Passing
<1>10. OneStore'
  <2> SUFFICES ASSUME created = 1
               PROVE  /\ \A f \in DOMAIN p[1] : p[1][f] = Contents
                      /\ \A t \in Scans : Settled(t)'
    BY <1>4 DEF OneStore
  <2>1. m = 1
    OBVIOUS
  <2>2. \A f \in DOMAIN p[1] : p[1][f] = Contents
    BY <1>2, <1>4, <2>1 DEF Inv, OneStore
  <2>3. ASSUME NEW t \in Scans PROVE Settled(t)'
    <3>1. Settled(t) /\ DOMAIN map'[1] = DOMAIN map[1] \cup {file[s]}
      BY <1>4, <2>1 DEF Inv, OneStore
    <3> QED BY <1>6, <3>1 DEF Settled
  <2> QED BY <2>2, <2>3
<1> QED BY <1>4, <1>7, <1>8, <1>9, <1>10 DEF Inv

LEMMA InsertStep ==
    ASSUME Inv, NEW s \in Scans, prelude_insert(s) PROVE Inv'
<1>1. pc[s] = "insert" /\ UNCHANGED <<file, memstore_, created, mine, out>>
  BY DEF prelude_insert
<1>2. CASE Goto(s, "inserting") /\ UNCHANGED map
  <2>1. pc'[s] = "inserting"
    BY <1>2 DEF Inv, TypeOK, Goto
  <2>2. Settled(s)'
    BY <2>1 DEF Settled
  <2> QED BY <1>1, <1>2, <2>2, Moves DEF Places
<1>3. CASE Put(s, Contents) /\ Goto(s, "read")
  BY <1>1, <1>3, PutStep DEF Whole
<1> QED BY <1>2, <1>3 DEF prelude_insert

LEMMA InsertedStep ==
    ASSUME Inv, NEW s \in Scans, inserted(s) PROVE Inv'
<1>1. pc[s] \in Writing /\ UNCHANGED <<file, memstore_, created, mine, out>>
  BY DEF inserted
<1>2. CASE pc[s] = "inserting"
  <2>1. Put(s, Contents) /\ Goto(s, "read")
    BY <1>2 DEF inserted
  <2> QED BY <1>1, <1>2, <2>1, PutStep DEF Whole
<1>3. CASE pc[s] \in {"sizing", "picking"}
  <2>1. PICK place \in {"size", "block"} : Goto(s, place)
    BY <1>3 DEF inserted
  <2>2. Put(s, <<>>) /\ created # 1
    BY <1>3 DEF inserted, Inv, OneStore, Settled
  <2> QED BY <1>1, <1>3, <2>1, <2>2, PutStep DEF Whole
<1> QED BY <1>1, <1>2, <1>3 DEF Writing

\* An entry a thread uses is the file or nothing, and the file while there is one store.
LEMMA EntryUsed ==
    ASSUME Inv, NEW s \in Scans, pc[s] \in {"size", "block"}, ~ Missing(s)
    PROVE  /\ Whole(map[mine[s]][file[s]])
           /\ created = 1 => map[mine[s]][file[s]] = Contents
<1>1. mine[s] \in Stores
  BY CreatedAreStores DEF Inv, MineCreated
<1>2. created = 1 => mine[s] = 1
  BY MineOne
<1> QED BY <1>1, <1>2 DEF Inv, Entries, OneStore, Missing

LEMMA SizeStep ==
    ASSUME Inv, NEW s \in Scans, execute_size(s) PROVE Inv'
<1>1. pc[s] = "size" /\ UNCHANGED <<file, memstore_, created, map, mine, out>>
  BY DEF execute_size
<1>2. PICK place \in {"sizing", "next", "done"} :
         /\ Goto(s, place)
         /\ place = "sizing" => Missing(s)
         /\ place # "sizing" => ~ Missing(s)
         /\ place = "next" => Len(out[s]) < Len(map[mine[s]][file[s]])
         /\ place = "done" => ~(Len(out[s]) < Len(map[mine[s]][file[s]]))
  BY DEF execute_size
<1>3. pc'[s] = place
  BY <1>2 DEF Inv, TypeOK, Goto
<1>4. created = 1 => Settled(s)'
  <2> SUFFICES ASSUME created = 1 PROVE Settled(s)'
    OBVIOUS
  <2>1. mine[s] = 1 /\ file[s] \in DOMAIN map[1]
    BY <1>1, MineOne DEF Inv, OneStore, Settled
  <2>2. ~ Missing(s) /\ map[mine[s]][file[s]] = Contents
    BY <1>1, <2>1, EntryUsed DEF Missing
  <2>3. Len(Contents) = Blocks /\ Blocks \in Nat
    BY ScanAssumption DEF Contents
  <2>4. /\ out[s] \in Seq(Int) /\ Len(out[s]) \in Nat
        /\ Len(out[s]) <= Blocks /\ \A k \in 1 .. Len(out[s]) : out[s][k] = k
    BY LenProperties DEF Inv, TypeOK, Passing
  <2>5. place = "next" => Len(out[s]) < Blocks
    BY <1>2, <2>2, <2>3
  <2>6. place = "done" => out[s] = Contents
    <3> SUFFICES ASSUME place = "done" PROVE out[s] = Contents
      OBVIOUS
    <3>1. Len(out[s]) = Blocks
      BY <1>2, <2>2, <2>3, <2>4
    <3> QED BY <2>4, <3>1, CountingUp
  <2> QED BY <1>1, <1>2, <1>3, <2>1, <2>2, <2>5, <2>6 DEF Settled
<1>5. place \in Places /\ place \notin {"test", "new"}
  BY DEF Places
<1> QED BY <1>1, <1>2, <1>4, <1>5, Moves

LEMMA BlockStep ==
    ASSUME Inv, NEW s \in Scans, execute_block(s) PROVE Inv'
<1> DEFINE entry == map[mine[s]][file[s]]
<1>1. pc[s] = "block" /\ UNCHANGED <<file, memstore_, created, map, mine>>
  BY DEF execute_block
<1>2. /\ pc \in [Scans -> Places] /\ created \in Nat
      /\ out \in [Scans -> Seq(Int)] /\ out[s] \in Seq(Int)
  BY DEF Inv, TypeOK
<1>3. Blocks \in Nat /\ Len(Contents) = Blocks /\ (\A k \in 1 .. Blocks : Contents[k] = k) /\ Len(<<>>) = 0
  BY ScanAssumption, EmptySeq DEF Contents
<1>4. Len(out[s]) \in Nat /\ Len(out[s]) <= Blocks /\ \A k \in 1 .. Len(out[s]) : out[s][k] = k
  BY <1>2, LenProperties DEF Inv, Passing
<1>5. created = 1 => mine[s] = 1 /\ file[s] \in DOMAIN map[1] /\ Len(out[s]) < Blocks
  BY <1>1, MineOne DEF Inv, OneStore, Settled
<1>6. CASE Missing(s)
  <2>1. Goto(s, "picking") /\ out' = out
    BY <1>6 DEF execute_block
  <2>2. created # 1
    BY <1>5, <1>6 DEF Missing
  <2> QED BY <1>1, <2>1, <2>2, Moves DEF Places
<1>7. CASE ~ Missing(s) /\ Len(out[s]) >= Len(entry)
  <2>1. Whole(entry) /\ (created = 1 => entry = Contents)
    BY <1>1, <1>7, EntryUsed
  <2> HIDE DEF entry
  <2>2. Len(entry) \in Nat
    BY <1>3, <2>1 DEF Whole
  <2>3. created # 1
    BY <1>3, <1>4, <1>5, <1>7, <2>1, <2>2
  <2>4. Goto(s, "undefined") /\ out' = out
    BY <1>4, <1>7, <2>2 DEF execute_block, entry
  <2> QED BY <1>1, <2>3, <2>4, Moves DEF Places
<1>8. CASE ~ Missing(s) /\ ~(Len(out[s]) >= Len(entry))
  <2>1. Whole(entry)
    BY <1>1, <1>8, EntryUsed
  <2>2. /\ out' = [out EXCEPT ![s] = Append(@, entry[Len(@) + 1])]
        /\ Goto(s, "read") /\ pc' = [pc EXCEPT ![s] = "read"]
    BY <1>8 DEF execute_block, Goto
  <2> HIDE DEF entry
  <2>3. entry = Contents
    BY <1>3, <1>4, <1>8, <2>1 DEF Whole
  <2>4. PICK b \in Seq(Int) : b = out[s]
    BY <1>2
  <2>5. PICK n \in Nat : n = Len(b) /\ n + 1 <= Blocks /\ \A k \in 1 .. n : b[k] = k
    BY <1>3, <1>4, <1>8, <2>3, <2>4
  <2>6. PICK i \in Int : i = n + 1 /\ Contents[i] = i
    BY <1>3, <2>5
  <2>7. PICK o \in Seq(Int) : o = Append(b, i) /\ Len(o) = i /\ \A k \in 1 .. i : o[k] = k
    <3>1. Append(b, i) \in Seq(Int) /\ Len(Append(b, i)) = n + 1
      BY <2>5
    <3>2. \A k \in 1 .. n : Append(b, i)[k] = b[k]
      BY <2>5
    <3>3. Append(b, i)[n + 1] = i
      BY <2>5
    <3>4. \A k \in 1 .. i : Append(b, i)[k] = k
      BY <2>5, <2>6, <3>2, <3>3
    <3> QED BY <2>6, <3>1, <3>4
  <2>8. out' = [out EXCEPT ![s] = o] /\ Len(o) <= Blocks
    <3>1. out' = [out EXCEPT ![s] = Append(out[s], entry[Len(out[s]) + 1])]
      BY <1>2, <2>2
    <3>2. Append(out[s], entry[Len(out[s]) + 1]) = o
      BY <2>3, <2>4, <2>5, <2>6, <2>7
    <3> QED BY <2>5, <2>6, <2>7, <3>1, <3>2
  <2>9. \A t \in Scans : pc'[t] = (IF t = s THEN "read" ELSE pc[t]) /\ out'[t] = (IF t = s THEN o ELSE out[t])
    BY <1>2, <2>2, <2>8
  <2>10. TypeOK'
    <3>1. out' \in [Scans -> Seq(Int)] /\ pc' \in [Scans -> Places]
      BY <1>2, <2>2, <2>8 DEF Places
    <3> QED BY <1>1, <3>1 DEF Inv, TypeOK
  <2>11. StoresCounted'
    <3>1. Fresh' = Fresh
      BY <1>1, <2>2, FreshKept DEF Places
    <3> QED BY <1>1, <3>1 DEF Inv, StoresCounted
  <2>12. MineCreated' /\ Entries' /\ Untouched'
    BY <1>1, <2>9 DEF Inv, MineCreated, Entries, Untouched
  <2>13. Passing'
    <3> SUFFICES ASSUME NEW t \in Scans
                 PROVE  Len(out'[t]) <= Blocks /\ \A k \in 1 .. Len(out'[t]) : out'[t][k] = k
      BY DEF Passing
    <3>1. CASE t = s
      BY <2>7, <2>8, <2>9, <3>1
    <3>2. CASE t # s
      BY <2>9, <3>2 DEF Inv, Passing
    <3> QED BY <3>1, <3>2
  <2>14. OneStore'
    <3> SUFFICES ASSUME created = 1, NEW t \in Scans PROVE Settled(t)'
      BY <1>1 DEF Inv, OneStore
    <3>1. Settled(t)
      BY DEF Inv, OneStore
    <3>2. CASE t = s
      BY <1>1, <1>5, <2>9, <3>2 DEF Settled
    <3>3. CASE t # s
      BY <1>1, <2>9, <3>1, <3>3 DEF Settled
    <3> QED BY <3>2, <3>3
  <2> QED BY <2>10, <2>11, <2>12, <2>13, <2>14 DEF Inv
<1> QED BY <1>6, <1>7, <1>8

LEMMA NextInv == Inv /\ [Next]_vars => Inv'
<1> SUFFICES ASSUME Inv, [Next]_vars PROVE Inv'
  OBVIOUS
<1>1. ASSUME NEW s \in Scans, ScanStep(s) PROVE Inv'
  BY <1>1, TestStep, NewStep, ReturnStep, FindStep, NofileStep, InsertStep, InsertedStep, SizeStep,
     BlockStep DEF ScanStep
<1>2. CASE UNCHANGED vars
  BY <1>2 DEF vars, Inv, TypeOK, StoresCounted, Fresh, MineCreated, Entries,
              Untouched, Passing, OneStore, Settled
<1> QED BY <1>1, <1>2 DEF Next

\* The invariant holds under any interleaving of the threads.
THEOREM Invariance == Spec => []Inv
BY InitInv, NextInv, PTL DEF Spec

\* A Scan passes on a prefix of its file whatever store each of its calls of
\* getInstance gives it; while one store exists it ends with all of it, however many
\* threads miss the file, load it and insert it, and never reads past an entry's end.
THEOREM ScansExact == Spec => []ScanExact
<1>1. Inv => ScanExact
  <2> SUFFICES ASSUME Inv, NEW s \in Scans
               PROVE  /\ IsPrefix(out[s], Contents)
                      /\ pc[s] = "done" => created > 1 \/ out[s] = Contents
                      /\ pc[s] = "undefined" => created > 1 \/ file[s] \notin Present
    BY DEF ScanExact
  <2>1. out[s] \in Seq(Int)
    BY DEF Inv, TypeOK
  <2>2. pc[s] \in {"done", "undefined"} => created > 1 \/ created = 1
    BY StoreThere
  <2>3. created = 1 => Settled(s)
    BY DEF Inv, OneStore
  <2> QED BY <2>1, <2>2, <2>3, CountingUp DEF Inv, Passing, Settled
<1> QED BY <1>1, Invariance, PTL
===============================================================================

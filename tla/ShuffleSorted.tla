---------------------------- MODULE ShuffleSorted ----------------------------
(***************************************************************************)
(* The sorting exchange: ShuffleLower sorts what its child produces, deals  *)
(* it out to the uppers in ascending blocks and ends with a marker;         *)
(* ShuffleUpper's receive thread fills one column per lower, and            *)
(* PCBuffer::get_sorted merges the columns with a loser tree, whose winner  *)
(* is some least leaf: that is what LoserTree is proved to answer.          *)
(*                                                                         *)
(* allocateTuple() gives out Fit slots of a block, and assembling()         *)
(* declares Counted of them tuples, one less where the count overwrites the *)
(* end of the last slot (4095 of 4096 for tuples of 16 bytes).  It does so  *)
(* however many were filled since the last reset: the others keep what was  *)
(* there.  The tuple in an uncounted slot is lost.  put and get are atomic  *)
(* operations on a bounded FIFO, which is what PCBuffer is proved to        *)
(* implement.                                                               *)
(***************************************************************************)
EXTENDS Integers, Sequences, FiniteSets

CONSTANTS
    NLowers,        \* lower_seqs_.size(), rows of the upper's PCBuffer
    NUppers,        \* the most uppers a plan has
    CPU_CORE,       \* ranges of a lower
    DATAVOLUME,     \* the keys are meant to be below it
    Plans,          \* number of uppers, and the keys the child of each lower produces
    Junk,           \* the key a block's fresh memory may hold
    Fit,            \* tuples allocateTuple finds room for in a block
    Counted,        \* tuples assembling declares a block to have
    COLUMN_CON,     \* blocks a column holds
    Wire            \* blocks the socket buffers of a connection hold

Lowers == 1 .. NLowers
Ranges == 0 .. CPU_CORE - 1

\* The largest key.
ULONG_MAX == 2 * DATAVOLUME

ASSUME SortedAssumption ==
    /\ NLowers \in Nat /\ NLowers >= 2
    /\ NUppers \in Nat \ {0} /\ CPU_CORE \in Nat /\ CPU_CORE >= NUppers
    /\ {DATAVOLUME, Fit, COLUMN_CON, Wire} \subseteq Nat \ {0}
    /\ Counted \in 1 .. Fit
    /\ Plans \subseteq [uppers : 1 .. NUppers, keys : [Lowers -> Seq(0 .. ULONG_MAX - 1)]]
    /\ Junk \subseteq 0 .. ULONG_MAX - 1

VARIABLES
    seqs,           \* seqs_.size(), the uppers of this plan
    \* ShuffleLower
    ranges,         \* ranges[l][u]: new_ranges_, descending; the end goes first
    buffers,        \* buffers[l][u]: the block being filled
    emptys,         \* emptys_
    oks,            \* oks[l][u]
    lpc,            \* where execute is, and at which upper
    lcols,          \* lcols[l][u]: column u of the lower's PCBuffer
    lscan,          \* the column send_route looks at next
    temp,           \* the block send_route is sending
    \* sockets
    chan,           \* chan[l][u]
    \* ShuffleUpper
    ucols,          \* ucols[u][l]: column l of the upper's PCBuffer
    upc,            \* where get_sorted is
    itrs,           \* itrs[u][l]: tuples of the merged block not yet at the leaf
    leaves,         \* L of the loser tree
    stored,         \* tuples in the block get_sorted is filling
    finished,       \* finished_
    \* history
    rose,           \* rose[u][l]: last key put into the column, -1 once it fell
    last            \* last[u]: last key stored, -1 once it fell

Seqs == 1 .. seqs

lowerVars == <<ranges, buffers, emptys, oks, lpc>>
sendVars == <<lscan, temp>>
upperVars == <<upc, itrs, leaves, stored, finished, last>>
vars == <<seqs, lowerVars, lcols, sendVars, chan, ucols, rose, upperVars>>

\* seq counts the blocks of one stream, 0 is the marker; used is free_ - start_.
Marker == [seq |-> 0, slots |-> <<>>]
NoBlock == [seq |-> -1, slots |-> <<>>]

-----------------------------------------------------------------------------
\* ShuffleLower::prelude: the range of tuple k of its child, the first one whose bound
\* its key is below.  A key not below any bound falls into the range of the tuple
\* before it, because r is not reset.
bound(i) == ((i + 1) * DATAVOLUME) \div CPU_CORE
Bounded(key) == \E i \in Ranges : key < bound(i)
first(key) == CHOOSE i \in Ranges : key < bound(i) /\ \A j \in Ranges : key < bound(j) => i <= j
rangeOf(keys, k) ==
    IF \E j \in 1 .. k : Bounded(keys[j])
    THEN first(keys[CHOOSE j \in 1 .. k : /\ Bounded(keys[j])
                                          /\ \A i \in j + 1 .. k : ~ Bounded(keys[i])])
    ELSE 0

\* The tuples in the ranges of upper u.
share(keys, u) ==
    LET mul == CPU_CORE \div seqs
    IN  {k \in DOMAIN keys : rangeOf(keys, k) \in (u - 1) * mul .. u * mul - 1}

\* single_sort1 and execute's combination: the ranges of upper u from the highest one
\* down, each in descending order.  combineUp takes the ranges from the lowest one up,
\* against the order inside them.
combineUp(keys, u) ==
    LET Tuples == share(keys, u)
        Places == 1 .. Cardinality(Tuples)
        before(x, y) == \/ rangeOf(keys, x) < rangeOf(keys, y)
                        \/ rangeOf(keys, x) = rangeOf(keys, y) /\ keys[x] >= keys[y]
    IN  {[p \in Places |-> keys[at[p]]] :
            at \in {f \in [Places -> Tuples] :
                      /\ \A k \in Tuples : \E p \in Places : f[p] = k
                      /\ \A p, r \in Places : p < r => before(f[p], f[r])}}
combine(keys, u) ==
    LET Tuples == share(keys, u)
        Places == 1 .. Cardinality(Tuples)
        before(x, y) == \/ rangeOf(keys, x) > rangeOf(keys, y)
                        \/ rangeOf(keys, x) = rangeOf(keys, y) /\ keys[x] >= keys[y]
    IN  {[p \in Places |-> keys[at[p]]] :
            at \in {f \in [Places -> Tuples] :
                      /\ \A k \in Tuples : \E p \in Places : f[p] = k
                      /\ \A p, r \in Places : p < r => before(f[p], f[r])}}

\* What single_sort1 and the combination leave of what the children produced, and the
\* blocks as the lowers got them.
Sorted(plan) == UNION {combine(plan.keys[l], u) : l \in Lowers, u \in Seqs}
Produced ==
    \E plan \in Plans :
        /\ seqs = plan.uppers /\ ranges \in [Lowers -> [Seqs -> Sorted(plan)]]
        /\ \A l \in Lowers, u \in Seqs : ranges[l][u] \in combine(plan.keys[l], u)
FreshBlocks ==
    \E junk \in Junk :
        buffers = [l \in Lowers |-> [u \in Seqs |->
                      [seq |-> 0, used |-> 0, slots |-> [k \in 1 .. Fit |-> junk]]]]

Init ==
    /\ Produced /\ FreshBlocks
    /\ emptys = [l \in Lowers |-> 0]
    /\ oks = [l \in Lowers |-> [u \in Seqs |-> FALSE]]
    /\ lpc = [l \in Lowers |-> <<"gather", 1>>]
    /\ lcols = [l \in Lowers |-> [u \in Seqs |-> <<>>]]
    /\ lscan = [l \in Lowers |-> 1]
    /\ temp = [l \in Lowers |-> NoBlock]
    /\ chan = [l \in Lowers |-> [u \in Seqs |-> <<>>]]
    /\ ucols = [u \in Seqs |-> [l \in Lowers |-> <<>>]]
    /\ upc = [u \in Seqs |-> <<"begin", 1>>]
    /\ itrs = [u \in Seqs |-> [l \in Lowers |-> <<>>]]
    /\ leaves = [u \in Seqs |-> [l \in Lowers |-> 0]]
    /\ stored = [u \in Seqs |-> 0]
    /\ finished = [u \in Seqs |-> 0]
    /\ rose = [u \in Seqs |-> [l \in Lowers |-> 0]]
    /\ last = [u \in Seqs |-> 0]

-----------------------------------------------------------------------------
(* ShuffleLower::execute.                                                  *)

\* Fill an empty block from the end of its range.
filled(b, range) ==
    LET n == IF Len(range) < Fit THEN Len(range) ELSE Fit
    IN  [seq |-> b.seq + 1, used |-> n,
         slots |-> [k \in 1 .. Fit |-> IF k <= n THEN range[Len(range) - k + 1] ELSE b.slots[k]]]

\* The uppers with an empty block and tuples left, and those of them whose range
\* ends with this block.  A range that was empty from the start is never among them.
\* EmptiedShort misses a range that fills the block.
Todo(l) == {u \in Seqs : buffers[l][u].used = 0 /\ ranges[l][u] # <<>>}
EmptiedShort(l) == {u \in Todo(l) : Len(ranges[l][u]) < Fit}
Emptied(l) == {u \in Todo(l) : Len(ranges[l][u]) <= Fit}

\* The gather loop, for all uppers.
Gather(l) ==
    LET block(u) == filled(buffers[l][u], ranges[l][u])
    IN  /\ lpc[l] = <<"gather", 1>>
        /\ buffers' = [buffers EXCEPT ![l] =
               [u \in Seqs |-> IF u \in Todo(l) THEN block(u) ELSE buffers[l][u]]]
        /\ ranges' = [ranges EXCEPT ![l] =
               [u \in Seqs |-> IF u \in Todo(l)
                                 THEN SubSeq(ranges[l][u], 1, Len(ranges[l][u]) - block(u).used)
                                 ELSE ranges[l][u]]]
        /\ emptys' = [emptys EXCEPT ![l] = @ + Cardinality(Emptied(l))]
        /\ lpc' = [lpc EXCEPT ![l] = IF emptys'[l] = seqs THEN <<"flush", 1>> ELSE <<"send", 1>>]
        /\ UNCHANGED <<seqs, oks, lcols, sendVars, chan, ucols, rose, upperVars>>

\* The next upper of a loop over all, or where the loop goes after the last one.
after(l, u, done) == [lpc EXCEPT ![l] = IF u < seqs THEN <<@[1], u + 1>> ELSE done]

Reset(l, u) == buffers' = [buffers EXCEPT ![l][u].used = 0]
Full(l, u) == Len(lcols[l][u]) >= COLUMN_CON
Put(l, u, b) == lcols' = [lcols EXCEPT ![l][u] = Append(@, b)]
Assembled(l, u) ==
    [seq |-> buffers[l][u].seq, slots |-> [k \in 1 .. Counted |-> buffers[l][u].slots[k]]]

\* The send loop keeps a block that is refused for the next round.  SendInverted has
\* the test of the flush loop below.
SendInverted(l) ==
    LET u == lpc[l][2]
    IN  /\ lpc[l][1] = "send"
        /\ lpc' = after(l, u, <<"gather", 1>>)
        /\ IF buffers[l][u].used > 0 /\ ~ Full(l, u)
           THEN Put(l, u, Assembled(l, u)) /\ UNCHANGED buffers
           ELSE Reset(l, u) /\ UNCHANGED lcols
        /\ UNCHANGED <<seqs, ranges, emptys, oks, sendVars, chan, ucols, rose, upperVars>>
Send(l) ==
    LET u == lpc[l][2]
    IN  /\ lpc[l][1] = "send"
        /\ lpc' = after(l, u, <<"gather", 1>>)
        /\ IF buffers[l][u].used > 0 /\ ~ Full(l, u)
           THEN Put(l, u, Assembled(l, u)) /\ Reset(l, u)
           ELSE UNCHANGED <<lcols, buffers>>
        /\ UNCHANGED <<seqs, ranges, emptys, oks, sendVars, chan, ucols, rose, upperVars>>

\* The flush loop: the block is put until the column is full, and only the refusal
\* resets it; a block that is refused at once is gone.
Flush(l) ==
    LET u == lpc[l][2]
    IN  /\ lpc[l][1] = "flush"
        /\ IF buffers[l][u].used > 0 /\ ~ Full(l, u)
           THEN Put(l, u, Assembled(l, u)) /\ UNCHANGED <<buffers, oks>>
           ELSE Reset(l, u) /\ oks' = [oks EXCEPT ![l][u] = TRUE] /\ UNCHANGED lcols
        /\ lpc' = after(l, u, IF \A v \in Seqs : oks'[l][v] THEN <<"mark", 1>> ELSE <<"flush", 1>>)
        /\ UNCHANGED <<seqs, ranges, emptys, sendVars, chan, ucols, rose, upperVars>>

\* while(!put): the end markers, and execute returns false.
Mark(l) ==
    LET u == lpc[l][2]
    IN  /\ lpc[l][1] = "mark" /\ ~ Full(l, u)
        /\ Put(l, u, Marker)
        /\ lpc' = after(l, u, <<"done", 1>>)
        /\ UNCHANGED <<seqs, ranges, buffers, emptys, oks, sendVars, chan, ucols, rose, upperVars>>

-----------------------------------------------------------------------------
(* send_route and the receive thread.                                      *)

\* Look at the next column; get answers false when it stays empty.
send_route_get(l) ==
    LET u == lscan[l]
    IN  /\ temp[l] = NoBlock
        /\ IF lcols[l][u] # <<>>
           THEN /\ temp' = [temp EXCEPT ![l] = Head(lcols[l][u])]
                /\ lcols' = [lcols EXCEPT ![l][u] = Tail(@)]
                /\ UNCHANGED lscan
           ELSE /\ \E v \in Seqs : lcols[l][v] # <<>>
                /\ lscan' = [lscan EXCEPT ![l] = (u % seqs) + 1]
                /\ UNCHANGED <<temp, lcols>>
        /\ UNCHANGED <<seqs, lowerVars, chan, ucols, rose, upperVars>>

\* m_send blocks while the socket buffers are full.
send_route_send(l) ==
    LET u == lscan[l]
    IN  /\ temp[l] # NoBlock /\ Len(chan[l][u]) < Wire
        /\ chan' = [chan EXCEPT ![l][u] = Append(@, temp[l])]
        /\ temp' = [temp EXCEPT ![l] = NoBlock]
        /\ lscan' = [lscan EXCEPT ![l] = (u % seqs) + 1]
        /\ UNCHANGED <<seqs, lowerVars, lcols, ucols, rose, upperVars>>

\* The last key of a column after block b, -1 once a key was below its predecessor.
Risen(key, b) ==
    IF b = Marker THEN key
    ELSE IF /\ key # -1 /\ key <= b.slots[1]
            /\ \A k \in 2 .. Counted : b.slots[k - 1] <= b.slots[k]
         THEN b.slots[Counted]
         ELSE -1

\* m_receive_select: a block arrives and is put; a refused one is dropped.
receive_route(u, l) ==
    /\ u \in Seqs /\ chan[l][u] # <<>>
    /\ chan' = [chan EXCEPT ![l][u] = Tail(@)]
    /\ IF Len(ucols[u][l]) < COLUMN_CON
       THEN /\ ucols' = [ucols EXCEPT ![u][l] = Append(@, Head(chan[l][u]))]
            /\ rose' = [rose EXCEPT ![u][l] = Risen(@, Head(chan[l][u]))]
       ELSE UNCHANGED <<ucols, rose>>
    /\ UNCHANGED <<seqs, lowerVars, lcols, sendVars, upperVars>>

-----------------------------------------------------------------------------
(* PCBuffer::get_sorted, called again and again by ShuffleUpper::execute.   *)

\* The first call waits for a block of every column, in order, and takes the first
\* tuple of each; a marker has none, and the tree compares through the null pointer.
Begin(u) ==
    LET l == upc[u][2]
        block == Head(ucols[u][l])
    IN  /\ upc[u][1] = "begin" /\ ucols[u][l] # <<>>
        /\ ucols' = [ucols EXCEPT ![u][l] = Tail(@)]
        /\ IF block = Marker
           THEN /\ upc' = [upc EXCEPT ![u] = <<"crashed", l>>]
                /\ UNCHANGED <<itrs, leaves>>
           ELSE /\ itrs' = [itrs EXCEPT ![u][l] = Tail(block.slots)]
                /\ leaves' = [leaves EXCEPT ![u][l] = Head(block.slots)]
                /\ upc' = [upc EXCEPT ![u] = IF l < NLowers THEN <<"begin", l + 1>> ELSE <<"merge", 1>>]
        /\ UNCHANGED <<seqs, lowerVars, lcols, sendVars, chan, rose, stored, finished, last>>

\* The key of a finished column; EndKeyZero is fresh memory without it.
EndKeyZero == 0
EndKey == ULONG_MAX

\* lt_->Load and lt_->replay.
Load(u, l, key) == leaves' = [leaves EXCEPT ![u][l] = key]

\* lt_->Winner(): a leaf that no other one is below.
Winner(u) == {l \in Lowers : \A m \in Lowers : leaves[u][l] <= leaves[u][m]}

\* Store the winner; its next tuple takes its place, if its block has one.  A full
\* block goes to the caller, who calls again.
Merge(u, l) ==
    LET key == leaves[u][l]
    IN  /\ upc[u][1] = "merge" /\ l \in Winner(u)
        /\ last' = [last EXCEPT ![u] = IF @ = -1 \/ key < @ THEN -1 ELSE key]
        /\ stored' = [stored EXCEPT ![u] = (@ % Fit) + 1]
        /\ IF itrs[u][l] = <<>>
           THEN upc' = [upc EXCEPT ![u] = <<"refill", l>>] /\ UNCHANGED <<itrs, leaves>>
           ELSE /\ Load(u, l, Head(itrs[u][l]))
                /\ itrs' = [itrs EXCEPT ![u][l] = Tail(@)]
                /\ UNCHANGED upc
        /\ UNCHANGED <<seqs, lowerVars, lcols, sendVars, chan, ucols, rose, finished>>

\* Wait for the next block of the winner's column.  A marker puts the largest key at
\* the leaf, or ends the merge: then the block that was being filled is declared
\* empty, and get_sorted answers false.  AllButOneFinished stops a column too soon.
AllButOneFinished(n) == n = NLowers - 1
AllFinished(n) == n = NLowers
Refill(u) ==
    LET l == upc[u][2]
        block == Head(ucols[u][l])
    IN  /\ upc[u][1] = "refill" /\ ucols[u][l] # <<>>
        /\ ucols' = [ucols EXCEPT ![u][l] = Tail(@)]
        /\ IF block # Marker
           THEN /\ Load(u, l, Head(block.slots))
                /\ itrs' = [itrs EXCEPT ![u][l] = Tail(block.slots)]
                /\ upc' = [upc EXCEPT ![u] = <<"merge", 1>>]
                /\ UNCHANGED finished
           ELSE /\ finished' = [finished EXCEPT ![u] = @ + 1]
                /\ IF AllFinished(finished'[u])
                   THEN upc' = [upc EXCEPT ![u] = <<"ended", 1>>] /\ UNCHANGED leaves
                   ELSE upc' = [upc EXCEPT ![u] = <<"merge", 1>>] /\ Load(u, l, EndKey)
                /\ UNCHANGED itrs
        /\ UNCHANGED <<seqs, lowerVars, lcols, sendVars, chan, rose, stored, last>>

Execute(l) == Gather(l) \/ Send(l) \/ Flush(l) \/ Mark(l)
SendRoute(l) == send_route_get(l) \/ send_route_send(l)
GetSorted(u) == Begin(u) \/ (\E l \in Lowers : Merge(u, l)) \/ Refill(u)

Next ==
    \/ \E l \in Lowers : Execute(l) \/ SendRoute(l)
    \/ \E u \in Seqs, l \in Lowers : receive_route(u, l)
    \/ \E u \in Seqs : GetSorted(u)

\* Every thread of the two nodes is scheduled; the consumer may stop calling.
Spec ==
    /\ Init /\ [][Next]_vars
    /\ \A l \in Lowers : WF_vars(Execute(l)) /\ WF_vars(SendRoute(l))
    /\ \A u \in 1 .. NUppers, l \in Lowers : WF_vars(receive_route(u, l))

-----------------------------------------------------------------------------
\* The blocks of one stream on their way, oldest first.
Sending(l, u) == IF lscan[l] = u /\ temp[l] # NoBlock THEN <<temp[l]>> ELSE <<>>
Stream(l, u) == ucols[u][l] \o chan[l][u] \o Sending(l, u) \o lcols[l][u]

\* Every block of a stream is sent at most once and in order, but for its last one,
\* which the inverted test of the flush loop repeats as long as there is room; and
\* nothing follows the marker.  A block refused by the send loop stays in its buffer
\* over rounds in which other buffers are filled, sent and reset.
BlocksOnceButLast ==
    \A l \in Lowers, u \in Seqs :
        LET s == Stream(l, u)
        IN  \A i, j \in DOMAIN s : i < j =>
                \/ s[i] # Marker /\ (s[j] = Marker \/ s[i].seq < s[j].seq)
                \/ /\ s[i] = s[j] /\ s[i] # Marker
                   /\ s[i].seq = buffers[l][u].seq /\ ranges[l][u] = <<>>
                   /\ lpc[l][1] \in {"flush", "mark", "done"}

\* The streams ascend: every block by itself, and from block to block, but for the
\* slots behind the tuples of the last block.  Needs the ranges sorted downwards,
\* combined downwards and taken from the end.  A key of DATAVOLUME or more is in
\* the range of the tuple before it, and out of order there.
StreamsAscend ==
    \A l \in Lowers, u \in Seqs :
        LET s == Stream(l, u)
            final(b) == ranges[l][u] = <<>> /\ b.seq = buffers[l][u].seq
            inner == {i \in DOMAIN s : /\ s[i] # Marker /\ ~ final(s[i])
                                       /\ \A k \in 1 .. Counted : s[i].slots[k] < DATAVOLUME}
        IN  \A i \in inner :
                /\ \A k \in 2 .. Counted : s[i].slots[k - 1] <= s[i].slots[k]
                /\ \A j \in inner \cup {x \in DOMAIN s : final(s[x])} :
                      i < j => s[i].slots[Counted] <= s[j].slots[1]

\* As long as the tuples in every column ascend, so does what get_sorted stores,
\* whatever blocks the receive thread had to drop, whichever of two equal leaves wins,
\* in whatever order the columns are refilled, and over finished columns.
MergeAscends ==
    \A u \in Seqs : (\A l \in Lowers : rose[u][l] # -1) => last[u] # -1

\* get_sorted merges every column from its first block to its marker.  It never builds
\* its tree over a column that starts with a marker, for which it would read the key
\* behind a null pointer: no test sees to that, it holds because a lower with nothing
\* for some upper never sends a marker at all, and because the first block of a
\* stream finds room in both columns.  And when it answers false nothing that reached
\* a column is left behind: it has stored all of it, and what it declares empty then
\* is the one block it was filling.
ColumnsMergedWhole ==
    \A u \in Seqs :
        /\ upc[u][1] # "crashed"
        /\ upc[u][1] = "ended" =>
              /\ \A l \in Lowers : ucols[u][l] = <<>> /\ itrs[u][l] = <<>>
              /\ stored[u] \in 1 .. Fit

\* A lower that has no tuples for some upper loops for ever without sending a marker
\* to anyone: emptys_ counts only ranges that a block has emptied.
Bare(l) == \E u \in Seqs : ranges[l][u] = <<>> /\ buffers[l][u].seq = 0
BareNeverFlushes == \A l \in Lowers : Bare(l) => lpc[l][1] \in {"gather", "send"}

\* A lower comes to its last blocks if it has tuples for every upper, whatever the
\* consumers do, and never if it has none for one.
FlushesIffAllShare ==
    /\ []BareNeverFlushes
    /\ \A l \in Lowers : ~ Bare(l) ~> lpc[l][1] \in {"flush", "mark", "done"}

=============================================================================

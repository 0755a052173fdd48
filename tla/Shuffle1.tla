------------------------------- MODULE Shuffle1 -------------------------------
(***************************************************************************)
(* The data exchange of a running query: ShuffleLower1 on every lower node *)
(* (its execute and its send_route thread), the sockets of Sender and      *)
(* Merger, and ShuffleUpper1 on every upper node (the receive thread       *)
(* running Merger::m_receive_select, and execute called by the operator    *)
(* above).  Connections are established already (see UpperGather).         *)
(*                                                                         *)
(* put and get of the two PCBuffers are single atomic operations on a      *)
(* bounded FIFO, which is what PCBuffer is proved to implement.  The child *)
(* of the lower is the sequence of tuples its blocks carry.                *)
(***************************************************************************)
EXTENDS Naturals, Sequences

CONSTANTS
    NLowers,        \* lower_seqs_.size()
    NUppers,        \* seqs_.size() of the lowers, upper_seqs_.size()
    CPU_CORE,       \* ranges of a lower, CPU_CORE \div NUppers per upper
    Tuples,         \* the tuples of the relation
    RangeOf,        \* RangeOf[t]: what partition() answers for t
    Input,          \* Input[l]: what the child of lower l produces
    COLUMN_CON,     \* blocks a column of a PCBuffer holds
    Fit,            \* tuples allocateTuple accepts before it answers 0
    Counted,        \* tuples assembling() records for a block
    Wire,           \* blocks the socket buffers of a connection hold
    exchange_id,    \* 10 is the exchange below the root of the plan
    MayCrash        \* lowers whose process may die

Lowers == 1..NLowers
Uppers == 1..NUppers
Ranges == 1..CPU_CORE

ASSUME ShuffleAssumption ==
    /\ NLowers \in Nat \ {0} /\ NUppers \in Nat \ {0} /\ exchange_id \in Nat
    /\ CPU_CORE \in Nat \ {0} /\ CPU_CORE % NUppers = 0
    /\ RangeOf \in [Tuples -> Ranges]
    /\ Input \in [Lowers -> Seq(Tuples)]
    /\ COLUMN_CON \in Nat \ {0} /\ Wire \in Nat \ {0}
    /\ Fit \in Nat \ {0} /\ Counted \in 1..Fit
    /\ MayCrash \subseteq Lowers

VARIABLES
    \* ShuffleLower1, one per lower
    child,          \* tuples the child has still to produce
    buffers_,       \* buffers_[l][r]: tuples of range r not yet in a block
    marked,         \* end markers execute has put so far
    lcols,          \* lcols[l][u]: column u of the lower's PCBuffer
    lscan,          \* the column send_route looks at next
    block_temp_,    \* the block send_route has got and is sending
    debug_count_,   \* blocks send_route has sent: the tag of the last one
    lzero,          \* meet_zero_ of ShuffleLower1
    alive,          \* the lower's process exists
    \* the sockets
    chan,           \* chan[l][u]: blocks sent and not received
    \* Merger and ShuffleUpper1, one per upper
    map_lower_,     \* map_lower_[u][i]: the lower accepted as the i-th
    fds,            \* ready columns m_receive_select has still to serve
    mzero,          \* meet_zero_ of the Merger
    ucols,          \* ucols[u][i]: column i of the upper's PCBuffer
    uscan,          \* the column execute looks at next
    uzero,          \* meet_zero_ of ShuffleUpper1
    upc,            \* execute: "run", "join" (pthread_join), "done"
    \* history, for the properties only
    out,            \* out[u][i]: blocks execute has passed on from column i
    lost            \* lost[u][i]: blocks received whose put answered false

lowerVars == <<child, buffers_, marked>>
sendVars == <<lscan, block_temp_, debug_count_, lzero>>
recvVars == <<fds, mzero, lost>>
execVars == <<uscan, uzero, upc, out>>
vars == <<lowerVars, lcols, sendVars, alive, chan, map_lower_, recvVars, ucols, execVars>>

Block == [tag : Nat, tuples : Seq(Tuples)]
Marker == [tag |-> 0, tuples |-> <<>>]      \* build(BLOCK_SIZE, 0)
IsMarker(b) == b.tuples = <<>>              \* get_size()==0

\* Mutant: ranges are dealt out to the uppers in turn.
ColumnOf_mod(r) == ((r - 1) % NUppers) + 1

\* range_/mul in execute.
ColumnOf(r) ==
    LET mul == CPU_CORE \div NUppers IN (r - 1) \div mul + 1

Init ==
    /\ child = Input
    /\ buffers_ = [l \in Lowers |-> [r \in Ranges |-> <<>>]]
    /\ marked = [l \in Lowers |-> 0]
    /\ lcols = [l \in Lowers |-> [u \in Uppers |-> <<>>]]
    /\ lscan = [l \in Lowers |-> 1]
    /\ block_temp_ = [l \in Lowers |-> <<>>]
    /\ debug_count_ = [l \in Lowers |-> 0]
    /\ lzero = [l \in Lowers |-> 0]
    /\ alive = [l \in Lowers |-> TRUE]
    /\ chan = [l \in Lowers |-> [u \in Uppers |-> <<>>]]
    /\ map_lower_ \in [Uppers -> {f \in [Lowers -> Lowers] :
                                     \A i, j \in Lowers : f[i] = f[j] => i = j}]
    /\ fds = [u \in Uppers |-> {}]
    /\ mzero = [u \in Uppers |-> 0]
    /\ ucols = [u \in Uppers |-> [i \in Lowers |-> <<>>]]
    /\ uscan = [u \in Uppers |-> 1]
    /\ uzero = [u \in Uppers |-> 0]
    /\ upc = [u \in Uppers |-> "run"]
    /\ out = [u \in Uppers |-> [i \in Lowers |-> <<>>]]
    /\ lost = [u \in Uppers |-> [i \in Lowers |-> <<>>]]

-------------------------------------------------------------------------------
(* ShuffleLower1::execute.                                                 *)

\* while(!pcbuffer_->put(b, u)): spins until the column has room.
LowerPut(l, u, b) ==
    /\ Len(lcols[l][u]) < COLUMN_CON
    /\ lcols' = [lcols EXCEPT ![l][u] = Append(@, b)]

NextTuple(l) ==
    /\ alive[l]
    /\ child[l] # <<>>
    /\ child' = [child EXCEPT ![l] = Tail(@)]
    /\ UNCHANGED <<marked, sendVars, alive, chan, map_lower_, recvVars, ucols, execVars>>

\* allocateTuple has room: the tuple goes into the buffer of its range.
StoreTuple(l) ==
    /\ NextTuple(l)
    /\ LET r == RangeOf[Head(child[l])] IN
       /\ Len(buffers_[l][r]) < Fit
       /\ buffers_' = [buffers_ EXCEPT ![l][r] = Append(@, Head(child[l]))]
    /\ UNCHANGED lcols

\* The buffer is full: it is assembled, put and reset; exchange 10 only resets
\* it.  The tuple in hand is not stored anywhere.
FlushBuffer(l) ==
    /\ NextTuple(l)
    /\ LET r == RangeOf[Head(child[l])] IN
       /\ Len(buffers_[l][r]) = Fit
       /\ IF exchange_id # 10
          THEN LowerPut(l, ColumnOf(r),
                        [tag |-> 0, tuples |-> SubSeq(buffers_[l][r], 1, Counted)])
          ELSE UNCHANGED lcols
       /\ buffers_' = [buffers_ EXCEPT ![l][r] = <<>>]

\* Mutant: the last column gets no marker.
PutMarker_short(l) ==
    /\ alive[l]
    /\ child[l] = <<>>
    /\ marked[l] < NUppers - 1
    /\ LowerPut(l, marked[l] + 1, Marker)
    /\ marked' = [marked EXCEPT ![l] = @ + 1]
    /\ UNCHANGED <<child, buffers_, sendVars, alive, chan, map_lower_, recvVars, ucols, execVars>>

\* The child has ended: an end marker for every column, in order.
PutMarker(l) ==
    /\ alive[l]
    /\ child[l] = <<>>
    /\ marked[l] < NUppers
    /\ LowerPut(l, marked[l] + 1, Marker)
    /\ marked' = [marked EXCEPT ![l] = @ + 1]
    /\ UNCHANGED <<child, buffers_, sendVars, alive, chan, map_lower_, recvVars, ucols, execVars>>

LowerExecute(l) == StoreTuple(l) \/ FlushBuffer(l) \/ PutMarker(l)

-------------------------------------------------------------------------------
(* ShuffleLower1::send_route.                                              *)

NextColumn(u, n) == (u % n) + 1

SendRunning(l) == alive[l] /\ lzero[l] < NUppers

\* Mutant: the next block is got before the one in hand is sent.
SendGet_overwrites(l) ==
    /\ SendRunning(l)
    /\ lcols[l][lscan[l]] # <<>>
    /\ debug_count_' = [debug_count_ EXCEPT ![l] = @ + 1]
    /\ block_temp_' = [block_temp_ EXCEPT
           ![l] = <<[tag |-> debug_count_[l] + 1, tuples |-> Head(lcols[l][lscan[l]]).tuples]>>]
    /\ lcols' = [lcols EXCEPT ![l][lscan[l]] = Tail(@)]
    /\ UNCHANGED <<lowerVars, lscan, lzero, alive, chan, map_lower_, recvVars, ucols, execVars>>

\* get answers true: the block is copied into block_temp_ and tagged.
SendGet(l) ==
    /\ SendRunning(l)
    /\ block_temp_[l] = <<>>
    /\ lcols[l][lscan[l]] # <<>>
    /\ debug_count_' = [debug_count_ EXCEPT ![l] = @ + 1]
    /\ block_temp_' = [block_temp_ EXCEPT
           ![l] = <<[tag |-> debug_count_[l] + 1, tuples |-> Head(lcols[l][lscan[l]]).tuples]>>]
    /\ lcols' = [lcols EXCEPT ![l][lscan[l]] = Tail(@)]
    /\ UNCHANGED <<lowerVars, lscan, lzero, alive, chan, map_lower_, recvVars, ucols, execVars>>

\* get answers false: on to the next column.
SendMiss(l) ==
    /\ SendRunning(l)
    /\ block_temp_[l] = <<>>
    /\ lcols[l][lscan[l]] = <<>>
    /\ lscan' = [lscan EXCEPT ![l] = NextColumn(@, NUppers)]
    /\ UNCHANGED <<lowerVars, lcols, block_temp_, debug_count_, lzero, alive, chan,
                   map_lower_, recvVars, ucols, execVars>>

\* Mutant: a block that was sent stays in hand and is sent again.
SendBlock_resends(l) ==
    /\ SendRunning(l)
    /\ block_temp_[l] # <<>>
    /\ LET u == lscan[l]
           b == block_temp_[l][1]
       IN  /\ Len(chan[l][u]) < Wire
           /\ chan' = [chan EXCEPT ![l][u] = Append(@, b)]
           /\ lzero' = [lzero EXCEPT ![l] = IF IsMarker(b) THEN @ + 1 ELSE @]
    /\ UNCHANGED <<lowerVars, lcols, lscan, block_temp_, debug_count_, alive, map_lower_,
                   recvVars, ucols, execVars>>

\* Mutant: every block that was sent is counted as a marker.
SendBlock_counts_all(l) ==
    /\ SendRunning(l)
    /\ block_temp_[l] # <<>>
    /\ LET u == lscan[l]
           b == block_temp_[l][1]
       IN  /\ Len(chan[l][u]) < Wire
           /\ chan' = [chan EXCEPT ![l][u] = Append(@, b)]
           /\ lzero' = [lzero EXCEPT ![l] = @ + 1]
    /\ block_temp_' = [block_temp_ EXCEPT ![l] = <<>>]
    /\ lscan' = [lscan EXCEPT ![l] = NextColumn(@, NUppers)]
    /\ UNCHANGED <<lowerVars, lcols, debug_count_, alive, map_lower_, recvVars, ucols, execVars>>

\* m_send blocks until the socket takes the block; a marker is counted.
SendBlock(l) ==
    /\ SendRunning(l)
    /\ block_temp_[l] # <<>>
    /\ LET u == lscan[l]
           b == block_temp_[l][1]
       IN  /\ Len(chan[l][u]) < Wire
           /\ chan' = [chan EXCEPT ![l][u] = Append(@, b)]
           /\ lzero' = [lzero EXCEPT ![l] = IF IsMarker(b) THEN @ + 1 ELSE @]
    /\ block_temp_' = [block_temp_ EXCEPT ![l] = <<>>]
    /\ lscan' = [lscan EXCEPT ![l] = NextColumn(@, NUppers)]
    /\ UNCHANGED <<lowerVars, lcols, debug_count_, alive, map_lower_, recvVars, ucols, execVars>>

send_route(l) == SendGet(l) \/ SendMiss(l) \/ SendBlock(l)

\* The process of a lower dies.  What its sockets hold is still delivered; its columns
\* and the block in send_route's hand are gone, and none of its steps happens again.
Crash(l) ==
    /\ l \in MayCrash
    /\ alive[l]
    /\ alive' = [alive EXCEPT ![l] = FALSE]
    /\ UNCHANGED <<lowerVars, lcols, sendVars, chan, map_lower_, recvVars, ucols, execVars>>

-------------------------------------------------------------------------------
(* Merger::m_receive_select, run by ShuffleUpper1::receive_route.          *)

Receiving(u) == mzero[u] < NLowers

\* select reports a connection that holds a block, or is at end of file.
Readable(u) ==
    {i \in Lowers : LET l == map_lower_[u][i] IN chan[l][u] # <<>> \/ ~alive[l]}

Select(u) ==
    /\ Receiving(u)
    /\ fds[u] = {}
    /\ Readable(u) # {}
    /\ fds' = [fds EXCEPT ![u] = Readable(u)]
    /\ UNCHANGED <<lowerVars, lcols, sendVars, alive, chan, map_lower_, mzero, lost, ucols, execVars>>

\* Mutant: the ready connections are served from the last one down.
First_last(S) == CHOOSE i \in S : \A j \in S : i >= j

First(S) == CHOOSE i \in S : \A j \in S : i <= j

\* Mutant: put is repeated until the column has room.
Receive_waits(u) ==
    /\ Receiving(u)
    /\ fds[u] # {}
    /\ LET i == First(fds[u])
           l == map_lower_[u][i]
           b == Head(chan[l][u])
       IN  /\ chan[l][u] # <<>>
           /\ Len(ucols[u][i]) < COLUMN_CON
           /\ chan' = [chan EXCEPT ![l][u] = Tail(@)]
           /\ ucols' = [ucols EXCEPT ![u][i] = Append(@, b)]
           /\ mzero' = [mzero EXCEPT ![u] = IF IsMarker(b) THEN @ + 1 ELSE @]
           /\ fds' = [fds EXCEPT ![u] = @ \ {i}]
    /\ UNCHANGED <<lowerVars, lcols, sendVars, alive, map_lower_, lost, execVars>>

\* recv delivers a block, which is put into the column; the result of put is
\* ignored, so a block that finds the column full is gone.  A marker counts
\* either way, and the last one ends the thread.
Receive(u) ==
    /\ Receiving(u)
    /\ fds[u] # {}
    /\ LET i == First(fds[u])
           l == map_lower_[u][i]
           b == Head(chan[l][u])
       IN  /\ chan[l][u] # <<>>
           /\ chan' = [chan EXCEPT ![l][u] = Tail(@)]
           /\ \/ /\ Len(ucols[u][i]) < COLUMN_CON
                 /\ ucols' = [ucols EXCEPT ![u][i] = Append(@, b)]
                 /\ UNCHANGED lost
              \/ /\ Len(ucols[u][i]) = COLUMN_CON
                 /\ lost' = [lost EXCEPT ![u][i] = Append(@, b)]
                 /\ UNCHANGED ucols
           /\ mzero' = [mzero EXCEPT ![u] = IF IsMarker(b) THEN @ + 1 ELSE @]
           /\ fds' = [fds EXCEPT ![u] = @ \ {i}]
    /\ UNCHANGED <<lowerVars, lcols, sendVars, alive, map_lower_, execVars>>

\* recv answers less than a block, at end of file: break leaves the for loop.
ReceiveShort(u) ==
    /\ Receiving(u)
    /\ fds[u] # {}
    /\ chan[map_lower_[u][First(fds[u])]][u] = <<>>
    /\ fds' = [fds EXCEPT ![u] = {}]
    /\ UNCHANGED <<lowerVars, lcols, sendVars, alive, chan, map_lower_, mzero, lost, ucols, execVars>>

receive_route(u) == Select(u) \/ Receive(u) \/ ReceiveShort(u)

-------------------------------------------------------------------------------
(* ShuffleUpper1::execute, called until it returns false.                  *)

\* Mutant: the first marker ends execute.
Consume_first_marker(u) ==
    /\ upc[u] = "run"
    /\ ucols[u][uscan[u]] # <<>>
    /\ LET i == uscan[u]
           b == Head(ucols[u][i])
       IN  /\ ucols' = [ucols EXCEPT ![u][i] = Tail(@)]
           /\ out' = [out EXCEPT ![u][i] = Append(@, b)]
           /\ uzero' = [uzero EXCEPT ![u] = IF IsMarker(b) THEN @ + 1 ELSE @]
           /\ upc' = [upc EXCEPT ![u] = IF IsMarker(b) THEN "join" ELSE "run"]
    /\ uscan' = [uscan EXCEPT ![u] = 1]
    /\ UNCHANGED <<lowerVars, lcols, sendVars, alive, chan, map_lower_, recvVars>>

\* get answers true: the block is passed on, and the next call starts again at
\* the first column; after the last marker execute joins the receive thread.
Consume(u) ==
    /\ upc[u] = "run"
    /\ ucols[u][uscan[u]] # <<>>
    /\ LET i == uscan[u]
           b == Head(ucols[u][i])
           zeros == IF IsMarker(b) THEN uzero[u] + 1 ELSE uzero[u]
       IN  /\ ucols' = [ucols EXCEPT ![u][i] = Tail(@)]
           /\ out' = [out EXCEPT ![u][i] = Append(@, b)]
           /\ uzero' = [uzero EXCEPT ![u] = zeros]
           /\ upc' = [upc EXCEPT ![u] = IF IsMarker(b) /\ zeros = NLowers THEN "join" ELSE "run"]
    /\ uscan' = [uscan EXCEPT ![u] = 1]
    /\ UNCHANGED <<lowerVars, lcols, sendVars, alive, chan, map_lower_, recvVars>>

ConsumeMiss(u) ==
    /\ upc[u] = "run"
    /\ ucols[u][uscan[u]] = <<>>
    /\ uscan' = [uscan EXCEPT ![u] = NextColumn(@, NLowers)]
    /\ UNCHANGED <<lowerVars, lcols, sendVars, alive, chan, map_lower_, recvVars, ucols, uzero, upc, out>>

Join(u) ==
    /\ upc[u] = "join"
    /\ ~Receiving(u)
    /\ upc' = [upc EXCEPT ![u] = "done"]
    /\ UNCHANGED <<lowerVars, lcols, sendVars, alive, chan, map_lower_, recvVars, ucols, uscan, uzero, out>>

UpperExecute(u) == Consume(u) \/ ConsumeMiss(u) \/ Join(u)

-------------------------------------------------------------------------------
\* Every thread of the query has returned.
Finished ==
    /\ \A l \in Lowers : marked[l] = NUppers /\ lzero[l] = NUppers
    /\ \A u \in Uppers : ~Receiving(u) /\ upc[u] = "done"

Terminated == Finished /\ UNCHANGED vars

Next ==
    \/ \E l \in Lowers : LowerExecute(l) \/ send_route(l) \/ Crash(l)
    \/ \E u \in Uppers : receive_route(u) \/ UpperExecute(u)
    \/ Terminated

\* The operating system runs every thread; a process need not crash.
Fairness ==
    /\ \A l \in Lowers : WF_vars(LowerExecute(l)) /\ WF_vars(send_route(l))
    /\ \A u \in Uppers : WF_vars(receive_route(u)) /\ WF_vars(UpperExecute(u))

Safety == Init /\ [][Next]_vars
Spec == Safety /\ Fairness

-------------------------------------------------------------------------------
TypeOK ==
    /\ child \in [Lowers -> Seq(Tuples)]
    /\ buffers_ \in [Lowers -> [Ranges -> Seq(Tuples)]]
    /\ marked \in [Lowers -> 0..NUppers]
    /\ lcols \in [Lowers -> [Uppers -> Seq(Block)]]
    /\ lscan \in [Lowers -> Uppers]
    /\ block_temp_ \in [Lowers -> Seq(Block)]
    /\ debug_count_ \in [Lowers -> Nat]
    /\ lzero \in [Lowers -> 0..NUppers]
    /\ alive \in [Lowers -> BOOLEAN]
    /\ chan \in [Lowers -> [Uppers -> Seq(Block)]]
    /\ map_lower_ \in [Uppers -> [Lowers -> Lowers]]
    /\ fds \in [Uppers -> SUBSET Lowers]
    /\ mzero \in [Uppers -> 0..NLowers]
    /\ ucols \in [Uppers -> [Lowers -> Seq(Block)]]
    /\ uscan \in [Uppers -> Lowers]
    /\ uzero \in [Uppers -> 0..NLowers]
    /\ upc \in [Uppers -> {"run", "join", "done"}]
    /\ out \in [Uppers -> [Lowers -> Seq(Block)]]
    /\ lost \in [Uppers -> [Lowers -> Seq(Block)]]

\* The block send_route has in hand for upper u.
InHand(l, u) == IF lscan[l] = u THEN block_temp_[l] ELSE <<>>

\* The stream of upper u's column i, from the operator above the exchange back
\* to the send thread of the lower.
Stream(u, i) ==
    LET l == map_lower_[u][i]
    IN  out[u][i] \o ucols[u][i] \o chan[l][u] \o InHand(l, u)

ElementsOf(s) == {s[k] : k \in 1..Len(s)}

\* Along every connection blocks keep the order in which send_route tagged
\* them, and none is duplicated, whatever is lost on the way.
InOrder ==
    \A u \in Uppers, i \in Lowers :
        LET s == Stream(u, i)
        IN  \A j, k \in 1..Len(s) : j < k => s[j].tag < s[k].tag

\* The blocks of that stream, without the one a dead lower will not send.
Travelling(u, i) ==
    LET l == map_lower_[u][i]
    IN  ElementsOf(out[u][i]) \cup ElementsOf(ucols[u][i]) \cup ElementsOf(chan[l][u])
            \cup {b \in ElementsOf(InHand(l, u)) : alive[l]}

\* Every block a lower has tagged was passed on, is in the upper's column, in the
\* socket or in the hand of a send_route that still runs, or was refused by the put
\* whose result is ignored.  One block only goes another way: the last one tagged, if
\* it was in hand when the lower died.
NoBlockVanishes ==
    \A l \in Lowers : \A n \in 1..debug_count_[l] :
        \/ ~alive[l] /\ block_temp_[l] # <<>> /\ n = debug_count_[l]
        \/ \E u \in Uppers, i \in Lowers :
              /\ map_lower_[u][i] = l
              /\ \E b \in Travelling(u, i) \cup ElementsOf(lost[u][i]) : b.tag = n

\* The key ranges are dealt out in contiguous runs: upper u sees only tuples of
\* ranges (u-1)*mul+1 .. u*mul, mul being the ranges per upper.
RoutedByRange ==
    \A u \in Uppers, i \in Lowers :
        \A b \in ElementsOf(Stream(u, i)) : \A t \in ElementsOf(b.tuples) :
            /\ (u - 1) * (CPU_CORE \div NUppers) < RangeOf[t]
            /\ RangeOf[t] <= u * (CPU_CORE \div NUppers)

\* When execute has returned false the exchange is drained for this upper:
\* every lower has finished its part, nothing is left in a column, in a socket
\* or in a thread's hands, and no marker was lost.
DrainedWhenDone ==
    \A u \in Uppers : upc[u] = "done" =>
        \A i \in Lowers :
            LET l == map_lower_[u][i]
            IN  /\ marked[l] >= u
                /\ lcols[l][u] = <<>> /\ chan[l][u] = <<>> /\ ucols[u][i] = <<>>
                /\ InHand(l, u) = <<>>
                /\ ~ \E b \in ElementsOf(lost[u][i]) : IsMarker(b)

MarkerIn(s) == \E b \in ElementsOf(s) : IsMarker(b)
MarkerLost(u) == \E i \in Lowers : MarkerIn(lost[u][i])

\* While execute of an upper runs and no marker was refused, a marker it needs is
\* still to come, and the threads that have to bring it have not returned: it is in
\* the column; or in the socket, and the receive thread runs; or with the lower,
\* perhaps not put yet, and neither send_route nor the receive thread has counted its
\* last marker.  (The lower may have died, the one case in which the wait has no end.)
MarkerOnItsWay ==
    \A u \in Uppers : upc[u] = "run" /\ ~MarkerLost(u) =>
        \E i \in Lowers :
            LET l == map_lower_[u][i]
            IN  \/ MarkerIn(ucols[u][i])
                \/ MarkerIn(chan[l][u]) /\ Receiving(u)
                \/ /\ marked[l] < u \/ MarkerIn(lcols[l][u]) \/ MarkerIn(InHand(l, u))
                   /\ lzero[l] < NUppers /\ Receiving(u)

\* The operator above the exchange sees its end, unless a marker was refused by
\* a full column or a lower died: those are the only ways for execute to wait
\* for ever.
EndsUnlessMarkerLost ==
    \A u \in Uppers : <>(upc[u] = "done" \/ MarkerLost(u) \/ \E l \in Lowers : ~alive[l])

\* The lowers finish even if the uppers' operators never take a block: the
\* receive thread never waits for the consumer, so no queue blocks a lower.
LowersFinish == \A l \in Lowers : <>(lzero[l] = NUppers)

\* Fairness without the consumers: whoever calls execute may stop calling.
SpecStalled ==
    /\ Safety
    /\ \A l \in Lowers : WF_vars(LowerExecute(l)) /\ WF_vars(send_route(l))
    /\ \A u \in Uppers : WF_vars(receive_route(u))

\* A dead lower stalls the columns accepted after it (the break on a short
\* recv), never the ones accepted before it: those are received to the end, that is
\* their marker is taken off the socket and put into the column, or refused by it.
ServedBeforeDead ==
    \A u \in Uppers, i \in Lowers :
        (\A j \in 1..i : map_lower_[u][j] \notin MayCrash)
            ~> (MarkerIn(out[u][i]) \/ MarkerIn(ucols[u][i]) \/ MarkerIn(lost[u][i]))
===============================================================================

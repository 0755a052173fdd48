---------------------------- MODULE Registration ----------------------------
(***************************************************************************)
(* Worker registration: Worker::init on every worker and the register_worker*)
(* thread of the Coordinator, with the socket between them and the actors   *)
(* that make each new worker connect to the earlier ones.                   *)
(*                                                                         *)
(* A worker may die at any step of init.  Merger::m_single answers false    *)
(* when accept or recv fails and leaves ipinfo alone; it answers true and   *)
(* leaves ipinfo alone when the worker closed without a byte.  Its caller   *)
(* looks at neither.  The actor library delivers what is sent to an         *)
(* endpoint that lives: the coordinator connects to it first, and it is up   *)
(* before its worker calls m_connect.                                        *)
(***************************************************************************)
EXTENDS Integers, Sequences, FiniteSets, SequencesExt

CONSTANTS
    Workers,
    Backlog,        \* connections the listening socket holds (nlower_)
    MaxFails        \* bound on failing accepts

\* What ipinfo holds before any address was received.
Nobody == "uninitialised"

ASSUME RegistrationAssumption ==
    /\ IsFiniteSet(Workers) /\ Nobody \notin Workers
    /\ Backlog \in Nat \ {0} /\ MaxFails \in Nat

VARIABLES
    wpc,            \* wpc[w]: where Worker::init is
    sent,           \* workers whose 32 bytes are in the socket
    queue,          \* connections not yet accepted
    cpc,            \* where register_worker is
    peer,           \* the worker behind retfd
    ipinfo,         \* the address register_worker works with
    endpoints,      \* endpoints_info_
    told,           \* how many entries the loop has sent to the new worker
    mail,           \* mail[w]: MessageIPs for the WorkerConnector of w
    links,          \* pairs of connected worker endpoints
    fails,          \* accepts that failed
    silent          \* workers accepted that died without a byte (history)

workerVars == <<wpc, sent>>
vars == <<workerVars, queue, cpc, peer, ipinfo, endpoints, told, mail, links, fails, silent>>

Init ==
    /\ wpc = [w \in Workers |-> "start"]
    /\ sent = {} /\ queue = <<>>
    /\ cpc = "socket" /\ peer = Nobody /\ ipinfo = Nobody
    /\ endpoints = <<>> /\ told = 0
    /\ mail = [w \in Workers |-> <<>>]
    /\ links = {}
    /\ fails = 0 /\ silent = 0

-----------------------------------------------------------------------------
(* Worker::init.                                                           *)

Goto(w, place) == wpc' = [wpc EXCEPT ![w] = place]
coordinatorVars == <<cpc, peer, ipinfo, endpoints, told, fails, silent>>

\* The endpoint and the WorkerConnector; from here on mail is handled.
CreateConnector(w) ==
    /\ wpc[w] = "start" /\ Goto(w, "connect")
    /\ UNCHANGED <<sent, queue, coordinatorVars, mail, links>>

\* m_connect, whose result is ignored: refused before the coordinator listens, and
\* waiting while the backlog is full.
m_connect(w) ==
    /\ wpc[w] = "connect"
    /\ IF cpc = "socket"
       THEN Goto(w, "refused") /\ UNCHANGED queue
       ELSE /\ Len(queue) < Backlog
            /\ queue' = Append(queue, w)
            /\ Goto(w, "send")
    /\ UNCHANGED <<sent, coordinatorVars, mail, links>>

\* m_send of the address.  On a refused socket it raises SIGPIPE, which ends the
\* process.
m_send(w) ==
    /\ wpc[w] \in {"send", "refused"}
    /\ IF wpc[w] = "send"
       THEN sent' = sent \cup {w} /\ Goto(w, "close")
       ELSE UNCHANGED sent /\ Goto(w, "dead")
    /\ UNCHANGED <<queue, coordinatorVars, mail, links>>

\* m_close; the executors are started and init is over.
m_close(w) ==
    /\ wpc[w] = "close" /\ Goto(w, "ready")
    /\ UNCHANGED <<sent, queue, coordinatorVars, mail, links>>

\* The process dies; the system closes its connection.
Die(w) ==
    /\ wpc[w] \in {"connect", "send", "close"}
    /\ Goto(w, "dead")
    /\ UNCHANGED <<sent, queue, coordinatorVars, mail, links>>

\* WorkerConnector::handler: connect to the endpoint in the message.
handler(w) ==
    /\ wpc[w] \notin {"start", "dead"} /\ mail[w] # <<>>
    /\ links' = links \cup {{w, Head(mail[w])}}
    /\ mail' = [mail EXCEPT ![w] = Tail(@)]
    /\ UNCHANGED <<workerVars, queue, coordinatorVars>>

-----------------------------------------------------------------------------
(* Coordinator::register_worker.                                           *)

m_socket ==
    /\ cpc = "socket" /\ cpc' = "accept"
    /\ UNCHANGED <<workerVars, queue, peer, ipinfo, endpoints, told, mail, links, fails, silent>>

m_single_accept ==
    /\ cpc = "accept" /\ queue # <<>>
    /\ peer' = Head(queue) /\ queue' = Tail(queue)
    /\ cpc' = "recv"
    /\ UNCHANGED <<workerVars, ipinfo, endpoints, told, mail, links, fails, silent>>

\* accept fails: no descriptor left, or the connection was aborted.
m_single_fails ==
    /\ cpc = "accept" /\ fails < MaxFails
    /\ fails' = fails + 1
    /\ cpc' = "tell"
    /\ UNCHANGED <<workerVars, queue, peer, ipinfo, endpoints, told, mail, links, silent>>

\* recv waits for 100 bytes or the end of the stream, so for the worker to close.
\* Hasty takes what is there when it looks.
Hasty(w) == TRUE
Closed(w) == wpc[w] \in {"ready", "dead"}

m_single_recv ==
    /\ cpc = "recv" /\ Closed(peer)
    /\ ipinfo' = IF peer \in sent THEN peer ELSE ipinfo
    /\ silent' = IF wpc[peer] = "dead" /\ peer \notin sent THEN silent + 1 ELSE silent
    /\ cpc' = "tell"
    /\ UNCHANGED <<workerVars, queue, peer, endpoints, told, mail, links, fails>>

\* One turn of the loop over endpoints_info_: the next endpoint goes to the worker
\* that ipinfo names, if there is one.  Introduced counts the turns; SkipsLast is an
\* off-by-one in the loop's bound.
SkipsLast == Len(endpoints) - 1
Introduced == Len(endpoints)
Tell ==
    /\ cpc = "tell" /\ told < Introduced
    /\ mail' = IF ipinfo \in Workers
               THEN [mail EXCEPT ![ipinfo] = Append(@, endpoints[told + 1])] ELSE mail
    /\ told' = told + 1
    /\ UNCHANGED <<workerVars, queue, cpc, peer, ipinfo, endpoints, links, fails, silent>>

Register ==
    /\ cpc = "tell" /\ told >= Introduced
    /\ endpoints' = Append(endpoints, ipinfo)
    /\ told' = 0
    /\ cpc' = "accept"
    /\ UNCHANGED <<workerVars, queue, peer, ipinfo, mail, links, fails, silent>>

register_worker ==
    m_socket \/ m_single_accept \/ m_single_recv \/ Tell \/ Register

WorkerInit(w) == CreateConnector(w) \/ m_connect(w) \/ m_send(w) \/ m_close(w)

Next ==
    \/ \E w \in Workers : WorkerInit(w) \/ Die(w) \/ handler(w)
    \/ register_worker \/ m_single_fails

\* The threads run and the actors handle their mail; failures need not happen.
Fairness ==
    /\ WF_vars(register_worker)
    /\ \A w \in Workers : WF_vars(WorkerInit(w)) /\ WF_vars(handler(w))

Spec == Init /\ [][Next]_vars /\ Fairness

-----------------------------------------------------------------------------
\* Any two workers that complete init get connected, the later one to the earlier
\* one, however many workers die half way and however many accepts fail in between:
\* the stale address that such a failure leaves behind costs repeated entries and
\* messages, and never an introduction.
EveryPairLinked ==
    \A v, w \in Workers :
        v # w => (wpc[v] = "ready" /\ wpc[w] = "ready") ~> ({v, w} \in links)

\* endpoints_info_ repeats a worker only for failures: there are no more surplus
\* entries than accepts that failed and workers that died unheard, and the
\* uninitialised address is registered only before any worker was heard.
SurplusAccounted ==
    /\ Len(endpoints) - Cardinality(ToSet(endpoints) \ {Nobody}) <= fails + silent
    /\ \A i, j \in DOMAIN endpoints :
           endpoints[i] = Nobody /\ endpoints[j] # Nobody => i < j

=============================================================================

------------------------------ MODULE UpperGather ------------------------------
(***************************************************************************)
(* How one exchange is set up: ShuffleUpper1::prelude on every upper, with *)
(* gather_all on the master (the first upper) and send_gather on the       *)
(* others, the task messages to the lowers, and the connections of         *)
(* ShuffleLower1::prelude.  A Merger listens on a port with a backlog; a   *)
(* Sender connects to it.  The task messages are delivered by the actor    *)
(* system after any delay.                                                 *)
(*                                                                         *)
(* Socket calls fail.  A bind fails on a port that a listening socket of   *)
(* an earlier query still has: the data socket is never closed (its        *)
(* m_close is commented out), and a failed m_accept leaves the other two   *)
(* open.  Callers go on after a failed m_socket and after a failed         *)
(* m_accept of the data port, and gather_all and send_gather return        *)
(* nothing after a failed m_accept.                                        *)
(***************************************************************************)
EXTENDS Naturals, Sequences, FiniteSets

CONSTANTS
    NUppers,    \* upper_seqs_.size()
    NLowers,    \* lower_seqs_.size()
    MaxFailures \* bound: socket calls that fail, and ports still in use

ASSUME GatherAssumption ==
    NUppers \in Nat \ {0} /\ NLowers \in Nat \ {0} /\ MaxFailures \in Nat

Uppers == 1..NUppers
Lowers == 1..NLowers
Master == 1
Others == Uppers \ {Master}

\* Ports: PORT_BASE+id and 10001+id on every upper, 10000+id on the master.
Data(u) == <<"data", u>>
Reply(u) == <<"reply", u>>
Gather == <<"gather", Master>>
Ports == ({"data", "reply"} \X Uppers) \cup {Gather}
Clients == ({"upper"} \X Uppers) \cup ({"lower"} \X Lowers)

\* The -1 that a failed accept leaves in map_lower_.
NoFd == <<"none", 0>>

VARIABLES
    upc,        \* upc[u]: where upper u is in prelude
    taken,      \* ports on which a socket of an earlier query still listens
    listening,  \* ports with a listening socket of this exchange
    backlog,    \* backlog[p]: connections to p that nobody has accepted
    gathered,   \* connections the master has accepted in gather_all
    replied,    \* uppers the master has connected back to
    tasks,      \* tasks[l]: "none", "sent" or "started"
    connected,  \* connected[l]: uppers the lower has tried to connect to
    map_lower_, \* map_lower_[u]: connections u has accepted, in order
    refused,    \* history: connections nobody was listening for
    failed      \* history: <<call, port>>, the socket calls that failed

vars == <<upc, taken, listening, backlog, gathered, replied, tasks, connected, map_lower_, refused,
          failed>>

Init ==
    /\ upc = [u \in Uppers |-> "socket"]
    /\ taken \in {P \in SUBSET Ports : Cardinality(P) <= MaxFailures}
    /\ listening = {}
    /\ backlog = [p \in Ports |-> <<>>]
    /\ gathered = <<>>
    /\ replied = 0
    /\ tasks = [l \in Lowers |-> "none"]
    /\ connected = [l \in Lowers |-> 0]
    /\ map_lower_ = [u \in Uppers |-> <<>>]
    /\ refused = {}
    /\ failed = {}

Goto(u, there) == upc' = [upc EXCEPT ![u] = there]

-------------------------------------------------------------------------------
(* Merger and Sender.                                                      *)

\* A call on port p fails, for a reason of its own or because it must.
Fails(call, p, must) ==
    /\ must \/ Cardinality(failed) < MaxFailures
    /\ failed' = failed \cup {<<call, p>>}

\* socket, bind and listen.  The callers go on with a socket that does not listen.
m_socket(p) ==
    /\ \/ p \notin taken /\ listening' = listening \cup {p} /\ UNCHANGED failed
       \/ Fails("socket", p, p \in taken) /\ UNCHANGED listening
    /\ UNCHANGED <<backlog, refused>>

m_close(p) == listening' = listening \ {p}

\* connect succeeds at once when somebody listens, before the accept; the
\* backlog given to listen is the number of clients, so it is never full.  The
\* socket of an earlier query takes the connection, and nobody accepts it.
m_connect(client, p) ==
    /\ p \in listening \cup taken
    /\ backlog' = IF p \in listening THEN [backlog EXCEPT ![p] = Append(@, client)] ELSE backlog
    /\ UNCHANGED <<refused, failed>>

\* The callers below ignore that m_connect answers false.
m_connect_ignored(client, p) ==
    \/ m_connect(client, p)
    \/ /\ p \notin listening \cup taken
       /\ refused' = refused \cup {<<client, p>>}
       /\ UNCHANGED <<backlog, failed>>
    \/ /\ p \in listening \cup taken
       /\ Fails("connect", p, FALSE)
       /\ UNCHANGED <<backlog, refused>>

accept(p) ==
    /\ p \in listening
    /\ backlog[p] # <<>>
    /\ backlog' = [backlog EXCEPT ![p] = Tail(@)]
    /\ UNCHANGED <<refused, failed>>

\* On a socket that does not listen accept fails at once.
accept_fails(p) ==
    /\ Fails("accept", p, p \notin listening)
    /\ UNCHANGED <<backlog, refused>>

-------------------------------------------------------------------------------
(* ShuffleUpper1::prelude.                                                 *)

DataSocket(u) ==
    /\ upc[u] = "socket"
    /\ m_socket(Data(u))
    /\ Goto(u, IF u # Master THEN "reply_socket"
               ELSE IF NUppers # 1 THEN "gather_socket" ELSE "serialize")
    /\ UNCHANGED <<taken, gathered, replied, tasks, connected, map_lower_>>

(* gather_all, on the master.                                              *)

GatherSocket ==
    /\ upc[Master] = "gather_socket"
    /\ m_socket(Gather)
    /\ Goto(Master, "gather_accept")
    /\ UNCHANGED <<taken, gathered, replied, tasks, connected, map_lower_>>

\* m_accept returns after upper_seqs_.size()-1 connections.  When it answers false
\* gather_all has no return statement to reach: it returns, its port still open, or
\* the optimizer has taken that path to be impossible and the uppers are called.
GatherAccept ==
    /\ upc[Master] = "gather_accept"
    /\ \/ /\ accept(Gather)
          /\ gathered' = Append(gathered, Head(backlog[Gather]))
          /\ Goto(Master, IF Len(gathered) + 1 = NUppers - 1 THEN "gather_reply" ELSE "gather_accept")
       \/ /\ accept_fails(Gather)
          /\ Goto(Master, "serialize") \/ Goto(Master, "gather_reply")
          /\ UNCHANGED gathered
    /\ UNCHANGED <<taken, listening, replied, tasks, connected, map_lower_>>

GatherReply ==
    /\ upc[Master] = "gather_reply"
    /\ replied < NUppers - 1
    /\ m_connect_ignored(<<"upper", Master>>, Reply(replied + 2))
    /\ replied' = replied + 1
    /\ UNCHANGED <<upc, taken, listening, gathered, tasks, connected, map_lower_>>

GatherClose ==
    /\ upc[Master] = "gather_reply"
    /\ replied = NUppers - 1
    /\ m_close(Gather)
    /\ Goto(Master, "serialize")
    /\ UNCHANGED <<taken, backlog, gathered, replied, tasks, connected, map_lower_, refused, failed>>

\* serialization(): one task message to every lower, in order.
Serialize ==
    /\ upc[Master] = "serialize"
    /\ \E l \in Lowers :
           /\ tasks[l] = "none"
           /\ \A k \in 1..(l - 1) : tasks[k] # "none"
           /\ tasks' = [tasks EXCEPT ![l] = "sent"]
           /\ IF l = NLowers THEN Goto(Master, "accept") ELSE UNCHANGED upc
    /\ UNCHANGED <<taken, listening, backlog, gathered, replied, connected, map_lower_, refused, failed>>

(* send_gather, on the other uppers.                                       *)

\* Mutant: the master is called before the reply port is open.
ReplySocket_late(u) ==
    /\ \/ upc[u] = "reply_socket" /\ m_connect(<<"upper", u>>, Gather)
                                  /\ Goto(u, "gather_connect") /\ UNCHANGED listening
       \/ upc[u] = "gather_connect" /\ m_socket(Reply(u)) /\ Goto(u, "reply_accept")
    /\ UNCHANGED <<taken, gathered, replied, tasks, connected, map_lower_>>

ReplySocket(u) ==
    /\ upc[u] = "reply_socket"
    /\ m_socket(Reply(u))
    /\ Goto(u, "gather_connect")
    /\ UNCHANGED <<taken, gathered, replied, tasks, connected, map_lower_>>

\* Mutant: the connect is tried once.
GatherConnect_once(u) ==
    /\ upc[u] = "gather_connect"
    /\ m_connect_ignored(<<"upper", u>>, Gather)
    /\ Goto(u, "reply_accept")
    /\ UNCHANGED <<taken, listening, gathered, replied, tasks, connected, map_lower_>>

\* while(true): the connect is tried again until the master listens.
GatherConnect(u) ==
    /\ upc[u] = "gather_connect"
    /\ m_connect(<<"upper", u>>, Gather)
    /\ Goto(u, "reply_accept")
    /\ UNCHANGED <<taken, listening, gathered, replied, tasks, connected, map_lower_>>

\* send_gather returns nothing either when its m_accept answers false: with its port
\* still open, or closed as after a reply.
ReplyAccept(u) ==
    /\ upc[u] = "reply_accept"
    /\ \/ accept(Reply(u)) /\ m_close(Reply(u))
       \/ accept_fails(Reply(u)) /\ (m_close(Reply(u)) \/ UNCHANGED listening)
    /\ Goto(u, "accept")
    /\ UNCHANGED <<taken, gathered, replied, tasks, connected, map_lower_>>

\* Mutant: the connection being accepted is counted twice.
DataAccept_early(u) ==
    /\ upc[u] = "accept"
    /\ accept(Data(u))
    /\ map_lower_' = [map_lower_ EXCEPT ![u] = Append(@, Head(backlog[Data(u)]))]
    /\ Goto(u, IF Len(map_lower_[u]) + 2 = NLowers THEN "ready" ELSE "accept")
    /\ UNCHANGED <<taken, listening, gathered, replied, tasks, connected>>

\* merger_->m_accept(): one connection of every lower, or as many as were accepted
\* and a -1.  Its result is ignored.
DataAccept(u) ==
    /\ upc[u] = "accept"
    /\ \/ /\ accept(Data(u))
          /\ map_lower_' = [map_lower_ EXCEPT ![u] = Append(@, Head(backlog[Data(u)]))]
          /\ Goto(u, IF Len(map_lower_[u]) + 1 = NLowers THEN "ready" ELSE "accept")
       \/ /\ accept_fails(Data(u))
          /\ map_lower_' = [map_lower_ EXCEPT ![u] = Append(@, NoFd)]
          /\ Goto(u, "ready")
    /\ UNCHANGED <<taken, listening, gathered, replied, tasks, connected>>

-------------------------------------------------------------------------------
(* The lowers.                                                             *)

LowerStart(l) ==
    /\ tasks[l] = "sent"
    /\ tasks' = [tasks EXCEPT ![l] = "started"]
    /\ UNCHANGED <<upc, taken, listening, backlog, gathered, replied, connected, map_lower_, refused,
                   failed>>

\* ShuffleLower1::prelude connects to the uppers in the order of seqs_.
LowerConnect(l) ==
    /\ tasks[l] = "started"
    /\ connected[l] < NUppers
    /\ m_connect_ignored(<<"lower", l>>, Data(connected[l] + 1))
    /\ connected' = [connected EXCEPT ![l] = @ + 1]
    /\ UNCHANGED <<upc, taken, listening, gathered, replied, tasks, map_lower_>>

UpperStep(u) ==
    \/ DataSocket(u) \/ ReplySocket(u) \/ GatherConnect(u) \/ ReplyAccept(u) \/ DataAccept(u)

MasterStep == GatherSocket \/ GatherAccept \/ GatherReply \/ GatherClose \/ Serialize

LowerStep(l) == LowerStart(l) \/ LowerConnect(l)

Ready == \A u \in Uppers : upc[u] = "ready"

\* The exchange is set up; or a call failed, after which threads may wait for ever.
Stopped ==
    /\ failed # {} \/ (Ready /\ \A l \in Lowers : connected[l] = NUppers)
    /\ UNCHANGED vars

Next ==
    \/ MasterStep
    \/ \E u \in Uppers : UpperStep(u)
    \/ \E l \in Lowers : LowerStep(l)
    \/ Stopped

\* No call fails that need not: the failures of this step are a bind on a port in
\* use and an accept on a socket that does not listen.
Due ==
    \A f \in failed' \ failed :
        \/ f[1] = "socket" /\ f[2] \in taken
        \/ f[1] = "accept" /\ f[2] \notin listening

\* Threads run, and the actor system delivers the tasks.  Fairness makes no call fail:
\* an accept nobody connects to may wait for ever.
Fairness ==
    /\ WF_vars(MasterStep /\ Due)
    /\ \A u \in Uppers : WF_vars(UpperStep(u) /\ Due)
    /\ \A l \in Lowers : WF_vars(LowerStep(l) /\ Due)

Safety == Init /\ [][Next]_vars
Spec == Safety /\ Fairness

-------------------------------------------------------------------------------
TypeOK ==
    /\ upc \in [Uppers -> {"socket", "gather_socket", "gather_accept", "gather_reply",
                           "serialize", "reply_socket", "gather_connect", "reply_accept",
                           "accept", "ready"}]
    /\ taken \subseteq Ports /\ listening \subseteq Ports
    /\ backlog \in [Ports -> Seq(Clients)]
    /\ gathered \in Seq(Clients)
    /\ replied \in 0..(NUppers - 1)
    /\ tasks \in [Lowers -> {"none", "sent", "started"}]
    /\ connected \in [Lowers -> 0..NUppers]
    /\ map_lower_ \in [Uppers -> Seq(Clients \cup {NoFd})]
    /\ refused \subseteq Clients \X Ports
    /\ failed \subseteq {"socket", "accept", "connect"} \X Ports

\* A listening socket of the exchange could not be had, or not be used.
Broken(p) == <<"socket", p>> \in failed \/ <<"accept", p>> \in failed

\* No connect whose result is ignored finds a port nobody listens on, neither the
\* master calling an upper back nor a lower calling any upper, however late an upper
\* starts; unless the upper's own socket call on that port failed, or the one of
\* gather_all, after which the master no longer waits for the others.
RefusedOnlyBroken == \A r \in refused : Broken(r[2]) \/ Broken(Gather)

\* An upper is ready with exactly one connection of every lower, in some order: the
\* columns of its PCBuffer.  Whatever failed elsewhere, only a failed accept of its
\* own data port (whose result prelude ignores) lets it go on with fewer.
OneColumnPerLower ==
    \A u \in Uppers : upc[u] = "ready" /\ <<"accept", Data(u)>> \notin failed =>
        /\ Len(map_lower_[u]) = NLowers
        /\ {map_lower_[u][i] : i \in 1..Len(map_lower_[u])} = {"lower"} \X Lowers

\* The exchange gets set up: unless a socket call fails, every upper becomes ready.
EveryUpperReady == <>(Ready \/ failed # {})
================================================================================

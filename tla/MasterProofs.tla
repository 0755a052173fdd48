---------------------------- MODULE MasterProofs ----------------------------
(***************************************************************************)
(* Proofs about the two loops of the master: Registration, for any number  *)
(* of workers, any backlog and any number of failing accepts, and          *)
(* SqlSession, for any texts and any number of errors.                     *)
(*                                                                         *)
(* Registration.  A worker connects once, so the connections in the queue  *)
(* and behind retfd are of workers whose address register_worker does not  *)
(* have yet.  An entry of endpoints_info_ therefore repeats an earlier one *)
(* only when the accept before it failed or its worker closed without a    *)
(* byte, and each of these is counted before the entry is made.  And a     *)
(* worker that sent its address is waiting, being served or an entry, and  *)
(* when it becomes an entry it has met, by link or mail, all before it.    *)
(*                                                                         *)
(* SqlSession.  While a text is scanned the start condition is what the    *)
(* lexemes read so far make it, and the stack is either the tokens of      *)
(* those lexemes and the beginning of a sentence, or the error symbol and  *)
(* some beginning of the tokens is no sentence's.  A statement without     *)
(* an error leaves INITIAL behind, because its BETWEEN has had its AND: so *)
(* the next one starts as the first one did, but for the offset.           *)
(***************************************************************************)
EXTENDS Registration, SqlSession, SequenceTheorems, FiniteSetTheorems, TLAPS

Addresses == Workers \cup {Nobody}
Heard == {endpoints[i] : i \in 1 .. Len(endpoints)} \ {Nobody}

\* The worker has called m_connect, and will not again.
Connected(w) == wpc[w] \in {"send", "close", "ready", "dead"}

TypeOK ==
    /\ wpc \in [Workers -> {"start", "connect", "refused", "send", "close", "ready", "dead"}]
    /\ sent \subseteq Workers
    /\ queue \in Seq(Workers)
    /\ cpc \in {"socket", "accept", "recv", "tell"}
    /\ peer \in Addresses /\ (cpc = "recv" => peer \in Workers)
    /\ ipinfo \in Addresses
    /\ endpoints \in Seq(Addresses)
    /\ fails \in Nat /\ silent \in Nat

\* A worker that closed its connection in order has sent its address.
AddressSent == \A w \in Workers : wpc[w] \in {"close", "ready"} => w \in sent

\* Nothing is known of a worker whose connection is yet to be served.
Unheard(w) == w \notin Heard /\ w # ipinfo /\ Connected(w)

ConnectOnce ==
    /\ \A i \in 1 .. Len(queue) : Unheard(queue[i])
    /\ \A i, j \in 1 .. Len(queue) : queue[i] = queue[j] => i = j
    /\ cpc = "recv" => Unheard(peer) /\ \A i \in 1 .. Len(queue) : queue[i] # peer

\* The addresses register_worker has are of workers that connected.
HeardConnected ==
    /\ \A w \in Heard : Connected(w)
    /\ ipinfo # Nobody => Connected(ipinfo)

\* The address is missing only as long as none was received.
NobodyFirst ==
    /\ ipinfo = Nobody => \A i \in 1 .. Len(endpoints) : endpoints[i] = Nobody
    /\ \A i, j \in 1 .. Len(endpoints) : endpoints[i] = Nobody /\ endpoints[j] # Nobody => i < j

\* Before an entry is made, it is a new worker's or its failure was counted.
Surplus ==
    /\ IsFiniteSet(Heard)
    /\ Len(endpoints) <= Cardinality(Heard) + fails + silent
    /\ cpc = "tell" => \/ ipinfo \in Workers /\ ipinfo \notin Heard
                       \/ Len(endpoints) + 1 <= Cardinality(Heard) + fails + silent

Inv == TypeOK /\ AddressSent /\ ConnectOnce /\ HeardConnected /\ NobodyFirst /\ Surplus

LEMMA InitInv == Init => Inv
<1> SUFFICES ASSUME Init PROVE Inv
  OBVIOUS
<1> USE DEF Init
<1>1. /\ <<>> \in Seq(Workers) /\ <<>> \in Seq(Addresses) /\ Len(<<>>) = 0
  BY EmptySeq
<1>2. Heard = {}
  BY <1>1 DEF Heard
<1>3. TypeOK /\ AddressSent
  BY <1>1 DEF TypeOK, AddressSent, Addresses
<1>4. ConnectOnce /\ NobodyFirst
  BY <1>1 DEF ConnectOnce, NobodyFirst
<1>5. HeardConnected
  BY <1>2 DEF HeardConnected
<1>6. Surplus
  BY <1>1, <1>2, FS_EmptySet DEF Surplus
<1> QED BY <1>3, <1>4, <1>5, <1>6 DEF Inv

\* Steps of workers: a worker that has connected stays so, and the coordinator's
\* state and the queue are left alone.
LEMMA WorkerMoves ==
    ASSUME Inv, NEW w \in Workers,
           NEW place \in {"start", "connect", "refused", "send", "close", "ready", "dead"},
           wpc' = [wpc EXCEPT ![w] = place], Connected(w) => place \in {"send", "close", "ready", "dead"}
    PROVE  /\ wpc' \in [Workers -> {"start", "connect", "refused", "send", "close", "ready", "dead"}]
           /\ \A v \in Workers : Connected(v) => Connected(v)'
           /\ \A v \in Workers : v # w => wpc'[v] = wpc[v]
           /\ wpc'[w] = place
<1>1. wpc \in [Workers -> {"start", "connect", "refused", "send", "close", "ready", "dead"}]
  BY DEF Inv, TypeOK
<1>2. \A v \in Workers : wpc'[v] = IF v = w THEN place ELSE wpc[v]
  BY <1>1
<1> QED BY <1>1, <1>2 DEF Connected

LEMMA SameCoordinator ==
    ASSUME Inv, UNCHANGED coordinatorVars, \A v \in Workers : Connected(v) => Connected(v)'
    PROVE  Heard' = Heard /\ HeardConnected' /\ NobodyFirst' /\ Surplus'
<1>1. UNCHANGED <<cpc, peer, ipinfo, endpoints, fails, silent>> /\ Heard' = Heard
  BY DEF coordinatorVars, Heard
<1>2. Heard \subseteq Workers /\ (ipinfo # Nobody => ipinfo \in Workers)
  <2>1. endpoints \in Seq(Addresses)
    BY DEF Inv, TypeOK
  <2>2. \A i \in 1 .. Len(endpoints) : endpoints[i] \in Addresses
    BY <2>1, ElementOfSeq
  <2> QED BY <2>2 DEF Inv, TypeOK, Heard, Addresses
<1>3. HeardConnected'
  BY <1>1, <1>2 DEF Inv, HeardConnected
<1>4. NobodyFirst' /\ Surplus'
  BY <1>1 DEF Inv, NobodyFirst, Surplus
<1> QED BY <1>1, <1>3, <1>4

LEMMA SameQueue ==
    ASSUME Inv, UNCHANGED <<queue, coordinatorVars>>, \A v \in Workers : Connected(v) => Connected(v)'
    PROVE  ConnectOnce'
<1>1. UNCHANGED <<queue, cpc, peer, ipinfo, endpoints>> /\ Heard' = Heard
  BY DEF coordinatorVars, Heard
<1>2. queue \in Seq(Workers) /\ \A i \in 1 .. Len(queue) : queue[i] \in Workers
  BY ElementOfSeq DEF Inv, TypeOK
<1>3. cpc = "recv" => peer \in Workers
  BY DEF Inv, TypeOK
<1> QED BY <1>1, <1>2, <1>3 DEF Inv, ConnectOnce, Unheard

\* The steps of Worker::init and of the WorkerConnector.
LEMMA WorkerStep ==
    ASSUME Inv, NEW w \in Workers,
           CreateConnector(w) \/ m_send(w) \/ m_close(w) \/ Die(w) \/ handler(w)
    PROVE  Inv'
<1>1. UNCHANGED <<queue, coordinatorVars>>
  BY DEF CreateConnector, m_send, m_close, Die, handler
<1>2. /\ wpc \in [Workers -> {"start", "connect", "refused", "send", "close", "ready", "dead"}]
      /\ sent \subseteq Workers
  BY DEF Inv, TypeOK
<1>3. PICK place \in {"start", "connect", "refused", "send", "close", "ready", "dead"} :
         /\ wpc' = [wpc EXCEPT ![w] = place]
         /\ Connected(w) => place \in {"send", "close", "ready", "dead"}
         /\ sent \subseteq sent' /\ sent' \subseteq Workers
         /\ place \in {"close", "ready"} => w \in sent'
  <2>1. CASE CreateConnector(w)
    BY <1>2, <2>1 DEF CreateConnector, Goto, Connected
  <2>2. CASE m_send(w)
    BY <1>2, <2>2 DEF m_send, Goto, Connected
  <2>3. CASE m_close(w)
    BY <1>2, <2>3 DEF m_close, Goto, Connected, Inv, AddressSent
  <2>4. CASE Die(w)
    BY <1>2, <2>4 DEF Die, Goto, Connected
  <2>5. CASE handler(w)
    <3>1. wpc' = [wpc EXCEPT ![w] = wpc[w]] /\ sent' = sent
      BY <1>2, <2>5 DEF handler, workerVars
    <3> QED BY <1>2, <3>1 DEF Connected, Inv, AddressSent
  <2> QED BY <2>1, <2>2, <2>3, <2>4, <2>5
<1>4. /\ wpc' \in [Workers -> {"start", "connect", "refused", "send", "close", "ready", "dead"}]
      /\ \A v \in Workers : Connected(v) => Connected(v)'
      /\ \A v \in Workers : v # w => wpc'[v] = wpc[v]
      /\ wpc'[w] = place
  BY <1>3, WorkerMoves
<1>5. TypeOK'
  BY <1>1, <1>3, <1>4 DEF Inv, TypeOK, coordinatorVars
<1>6. AddressSent'
  BY <1>3, <1>4 DEF Inv, AddressSent
<1>7. ConnectOnce' /\ HeardConnected' /\ NobodyFirst' /\ Surplus'
  BY <1>1, <1>4, SameQueue, SameCoordinator
<1> QED BY <1>5, <1>6, <1>7 DEF Inv

\* m_connect queues a worker that was not heard of.
LEMMA ConnectStep ==
    ASSUME Inv, NEW w \in Workers, m_connect(w) PROVE Inv'
<1>1. /\ wpc[w] = "connect" /\ UNCHANGED <<sent, coordinatorVars>>
      /\ \/ Goto(w, "refused") /\ UNCHANGED queue
         \/ Goto(w, "send") /\ queue' = Append(queue, w)
  BY DEF m_connect
<1>2. PICK place \in {"refused", "send"} :
         /\ wpc' = [wpc EXCEPT ![w] = place]
         /\ place = "refused" => queue' = queue
         /\ place = "send" => queue' = Append(queue, w)
  BY <1>1 DEF Goto
<1>3. /\ wpc' \in [Workers -> {"start", "connect", "refused", "send", "close", "ready", "dead"}]
      /\ \A v \in Workers : Connected(v) => Connected(v)'
      /\ \A v \in Workers : v # w => wpc'[v] = wpc[v]
      /\ wpc'[w] = place
  BY <1>1, <1>2, WorkerMoves DEF Connected
<1>4. queue \in Seq(Workers) /\ \A i \in 1 .. Len(queue) : queue[i] \in Workers
  BY ElementOfSeq DEF Inv, TypeOK
<1>5. queue' \in Seq(Workers)
  BY <1>2, <1>4, AppendProperties
<1>6. TypeOK'
  BY <1>1, <1>3, <1>5 DEF Inv, TypeOK, coordinatorVars
<1>7. AddressSent'
  BY <1>1, <1>2, <1>3 DEF Inv, AddressSent
<1>8. Heard' = Heard /\ HeardConnected' /\ NobodyFirst' /\ Surplus'
  BY <1>1, <1>3, SameCoordinator
<1>9. ConnectOnce'
  <2>1. CASE place = "refused"
    BY <1>1, <1>2, <1>3, <2>1, SameQueue
  <2>2. CASE place = "send"
    <3>1. ~Connected(w) /\ Connected(w)'
      BY <1>1, <1>3, <2>2 DEF Connected
    <3>2. w \notin Heard /\ w # ipinfo
      BY <3>1, RegistrationAssumption DEF Inv, HeardConnected
    <3>3. \A i \in 1 .. Len(queue) : queue[i] # w
      BY <3>1 DEF Inv, ConnectOnce, Unheard
    <3>4. cpc = "recv" => peer # w
      BY <3>1 DEF Inv, ConnectOnce, Unheard
    <3>5. PICK q \in Seq(Workers) : q = queue' /\ Len(q) = Len(queue) + 1 /\ q[Len(queue) + 1] = w
                                    /\ \A i \in 1 .. Len(queue) : q[i] = queue[i]
      BY <1>2, <1>4, <1>5, <2>2, AppendProperties
    <3>6. Len(queue) \in Nat /\ \A i \in 1 .. Len(q) : i \in 1 .. Len(queue) \/ i = Len(queue) + 1
      BY <1>4, <3>5, LenProperties
    <3>7. UNCHANGED <<cpc, peer, ipinfo>>
      BY <1>1 DEF coordinatorVars
    <3>8. ASSUME NEW i \in 1 .. Len(q) PROVE Unheard(q[i])'
      <4>1. CASE i \in 1 .. Len(queue)
        BY <1>3, <1>4, <1>8, <3>5, <3>7, <4>1 DEF Inv, ConnectOnce, Unheard
      <4>2. CASE i = Len(queue) + 1
        BY <1>8, <3>1, <3>2, <3>5, <3>7, <4>2 DEF Unheard
      <4> QED BY <3>6, <4>1, <4>2
    <3>9. \A i, j \in 1 .. Len(q) : q[i] = q[j] => i = j
      BY <3>3, <3>5, <3>6 DEF Inv, ConnectOnce
    <3>10. cpc = "recv" => Unheard(peer)' /\ \A i \in 1 .. Len(q) : q[i] # peer
      BY <1>3, <1>8, <3>4, <3>5, <3>6, <3>7 DEF Inv, TypeOK, ConnectOnce, Unheard
    <3> QED BY <3>5, <3>7, <3>8, <3>9, <3>10 DEF ConnectOnce
  <2> QED BY <2>1, <2>2
<1> QED BY <1>6, <1>7, <1>8, <1>9 DEF Inv

-------------------------------------------------------------------------------
(* register_worker.                                                        *)

\* Steps of register_worker that change neither addresses nor counts.
LEMMA SocketStep ==
    ASSUME Inv, m_socket \/ Tell PROVE Inv'
<1>1. /\ UNCHANGED <<workerVars, queue, peer, ipinfo, endpoints, fails, silent>>
      /\ \/ cpc = "tell" /\ cpc' = "tell"
         \/ cpc = "socket" /\ cpc' = "accept"
  BY DEF m_socket, Tell
<1>2. Heard' = Heard /\ UNCHANGED <<wpc, sent>> /\ \A w : Connected(w)' = Connected(w)
  BY <1>1 DEF Heard, workerVars, Connected
<1>3. TypeOK' /\ AddressSent' /\ HeardConnected' /\ NobodyFirst'
  BY <1>1, <1>2 DEF Inv, TypeOK, AddressSent, HeardConnected, NobodyFirst
<1>4. ConnectOnce'
  BY <1>1, <1>2 DEF Inv, ConnectOnce, Unheard
<1>5. Surplus'
  BY <1>1, <1>2 DEF Inv, Surplus
<1> QED BY <1>3, <1>4, <1>5 DEF Inv

LEMMA AcceptStep ==
    ASSUME Inv, m_single_accept PROVE Inv'
<1>1. /\ cpc = "accept" /\ queue # <<>> /\ peer' = Head(queue) /\ queue' = Tail(queue)
      /\ cpc' = "recv"
      /\ UNCHANGED <<wpc, sent, ipinfo, endpoints, fails, silent>>
  BY DEF m_single_accept, workerVars
<1>2. queue \in Seq(Workers)
  BY DEF Inv, TypeOK
<1>3. PICK h \in Workers, q \in Seq(Workers) :
         h = peer' /\ q = queue' /\ h = queue[1]
         /\ Len(q) = Len(queue) - 1 /\ \A i \in 1 .. Len(q) : q[i] = queue[i + 1]
  <2>1. Head(queue) \in Workers /\ Tail(queue) \in Seq(Workers)
        /\ Len(Tail(queue)) = Len(queue) - 1
        /\ \A i \in 1 .. Len(Tail(queue)) : Tail(queue)[i] = queue[i + 1]
    BY <1>1, <1>2, HeadTailProperties
  <2>2. Head(queue) = queue[1]
    BY <1>1, <1>2
  <2> QED BY <1>1, <2>1, <2>2
<1>4. PICK n \in Nat : n = Len(queue) /\ n # 0
  BY <1>1, <1>2, EmptySeq
<1>5. 1 \in 1 .. Len(queue) /\ \A i \in 1 .. Len(q) : i + 1 \in 1 .. Len(queue) /\ i + 1 # 1 /\ i \in Int
  BY <1>3, <1>4
<1>6. Heard' = Heard /\ \A w : Connected(w)' = Connected(w)
  BY <1>1 DEF Heard, Connected
<1>7. TypeOK'
  BY <1>1, <1>3 DEF Inv, TypeOK, Addresses
<1>8. AddressSent' /\ HeardConnected' /\ NobodyFirst' /\ Surplus'
  BY <1>1, <1>6 DEF Inv, AddressSent, HeardConnected, NobodyFirst, Surplus
<1>9. ConnectOnce'
  <2>1. \A i \in 1 .. Len(q) : Unheard(q[i])'
    BY <1>1, <1>3, <1>5, <1>6 DEF Inv, ConnectOnce, Unheard
  <2>2. ASSUME NEW i \in 1 .. Len(q), NEW j \in 1 .. Len(q), q[i] = q[j] PROVE i = j
    <3>1. i + 1 = j + 1
      BY <1>3, <1>5, <2>2 DEF Inv, ConnectOnce
    <3> QED BY <1>5, <3>1
  <2>3. Unheard(h)' /\ \A i \in 1 .. Len(q) : q[i] # h
    BY <1>1, <1>3, <1>5, <1>6 DEF Inv, ConnectOnce, Unheard
  <2> QED BY <1>3, <2>1, <2>2, <2>3 DEF ConnectOnce
<1> QED BY <1>7, <1>8, <1>9 DEF Inv

LEMMA FailStep ==
    ASSUME Inv, m_single_fails PROVE Inv'
<1>1. /\ cpc = "accept" /\ fails' = fails + 1 /\ cpc' = "tell"
      /\ UNCHANGED <<wpc, sent, queue, peer, ipinfo, endpoints, silent>>
  BY DEF m_single_fails, workerVars
<1>2. Heard' = Heard /\ \A w : Connected(w)' = Connected(w)
  BY <1>1 DEF Heard, Connected
<1>3. fails \in Nat /\ silent \in Nat
  BY DEF Inv, TypeOK
<1>4. TypeOK'
  BY <1>1, <1>3 DEF Inv, TypeOK
<1>5. AddressSent' /\ HeardConnected' /\ NobodyFirst'
  BY <1>1, <1>2 DEF Inv, AddressSent, HeardConnected, NobodyFirst
<1>6. ConnectOnce'
  BY <1>1, <1>2 DEF Inv, ConnectOnce, Unheard
<1>7. Surplus'
  <2>1. IsFiniteSet(Heard) /\ Len(endpoints) <= Cardinality(Heard) + fails + silent
    BY DEF Inv, Surplus
  <2>2. Cardinality(Heard) \in Nat /\ Len(endpoints) \in Nat
    BY <2>1, FS_CardinalityType, LenProperties DEF Inv, TypeOK
  <2>3. Len(endpoints) + 1 <= Cardinality(Heard) + (fails + 1) + silent
    BY <1>3, <2>1, <2>2
  <2>4. Len(endpoints) <= Cardinality(Heard) + (fails + 1) + silent
    BY <1>3, <2>2, <2>3
  <2> QED BY <1>1, <1>2, <2>1, <2>3, <2>4 DEF Surplus
<1> QED BY <1>4, <1>5, <1>6, <1>7 DEF Inv

\* The address of the peer is taken over, or the peer is counted as silent.
LEMMA RecvStep ==
    ASSUME Inv, m_single_recv PROVE Inv'
<1>1. /\ cpc = "recv" /\ wpc[peer] \in {"ready", "dead"} /\ cpc' = "tell"
      /\ ipinfo' = IF peer \in sent THEN peer ELSE ipinfo
      /\ silent' = IF wpc[peer] = "dead" /\ peer \notin sent THEN silent + 1 ELSE silent
      /\ UNCHANGED <<wpc, sent, queue, peer, endpoints, fails>>
  BY DEF m_single_recv, workerVars, Closed
<1>2. Heard' = Heard /\ \A w : Connected(w)' = Connected(w)
  BY <1>1 DEF Heard, Connected
<1>3. peer \in Workers /\ peer \notin Heard /\ peer # ipinfo /\ Connected(peer)
      /\ \A i \in 1 .. Len(queue) : queue[i] # peer
  BY <1>1 DEF Inv, TypeOK, ConnectOnce, Unheard
<1>4. \/ peer \in sent /\ ipinfo' = peer /\ silent' = silent
      \/ peer \notin sent /\ ipinfo' = ipinfo /\ silent' = silent + 1
  BY <1>1, <1>3 DEF Inv, AddressSent
<1>5. fails \in Nat /\ silent \in Nat
  BY DEF Inv, TypeOK
<1>6. TypeOK'
  <2>1. ipinfo' \in Addresses /\ silent' \in Nat
    BY <1>3, <1>4, <1>5 DEF Inv, TypeOK, Addresses
  <2> QED BY <1>1, <2>1 DEF Inv, TypeOK
<1>7. AddressSent' /\ HeardConnected'
  BY <1>1, <1>2, <1>3, <1>4 DEF Inv, AddressSent, HeardConnected
<1>8. NobodyFirst'
  <2>1. ipinfo' = Nobody => ipinfo = Nobody
    BY <1>3, <1>4, RegistrationAssumption
  <2> QED BY <1>1, <2>1 DEF Inv, NobodyFirst
<1>9. ConnectOnce'
  BY <1>1, <1>2, <1>3, <1>4 DEF Inv, ConnectOnce, Unheard
<1>10. Surplus'
  <2>1. IsFiniteSet(Heard) /\ Len(endpoints) <= Cardinality(Heard) + fails + silent
    BY DEF Inv, Surplus
  <2>2. Cardinality(Heard) \in Nat /\ Len(endpoints) \in Nat
    BY <2>1, FS_CardinalityType, LenProperties DEF Inv, TypeOK
  <2>3. CASE ipinfo' = peer /\ silent' = silent
    BY <1>1, <1>2, <1>3, <2>1, <2>3 DEF Surplus
  <2>4. CASE silent' = silent + 1
    <3>1. Len(endpoints) + 1 <= Cardinality(Heard) + fails + (silent + 1)
      BY <1>5, <2>1, <2>2
    <3>2. Len(endpoints) <= Cardinality(Heard) + fails + (silent + 1)
      BY <1>5, <2>2, <3>1
    <3> QED BY <1>1, <1>2, <2>1, <2>4, <3>1, <3>2 DEF Surplus
  <2> QED BY <1>4, <2>3, <2>4
<1> QED BY <1>6, <1>7, <1>8, <1>9, <1>10 DEF Inv

\* The address is added to endpoints_info_.
LEMMA RegisterStep ==
    ASSUME Inv, Register PROVE Inv'
<1>1. /\ cpc = "tell" /\ endpoints' = Append(endpoints, ipinfo) /\ cpc' = "accept"
      /\ UNCHANGED <<wpc, sent, queue, peer, ipinfo, fails, silent>>
  BY DEF Register, workerVars
<1>2. /\ endpoints \in Seq(Addresses) /\ ipinfo \in Addresses /\ fails \in Nat /\ silent \in Nat
  BY DEF Inv, TypeOK
<1>3. PICK n \in Nat : n = Len(endpoints)
  BY <1>2, LenProperties
<1>4. PICK e \in Seq(Addresses) :
         /\ e = endpoints' /\ Len(e) = n + 1 /\ e[n + 1] = ipinfo
         /\ \A i \in 1 .. n : e[i] = endpoints[i]
  BY <1>1, <1>2, <1>3, AppendProperties
<1>5. \A i : i \in 1 .. (n + 1) <=> i \in 1 .. n \/ i = n + 1
  BY <1>3
<1>6. Heard' = (Heard \cup {ipinfo}) \ {Nobody}
  <2>1. {e[i] : i \in 1 .. (n + 1)} = {endpoints[i] : i \in 1 .. n} \cup {ipinfo}
    BY <1>4, <1>5
  <2> QED BY <1>3, <1>4, <2>1 DEF Heard
<1>7. \A w : Connected(w)' = Connected(w)
  BY <1>1 DEF Connected
<1>8. TypeOK' /\ AddressSent'
  BY <1>1, <1>4 DEF Inv, TypeOK, AddressSent
<1>9. HeardConnected'
  BY <1>1, <1>6, <1>7 DEF Inv, HeardConnected
<1>10. ConnectOnce'
  BY <1>1, <1>6, <1>7 DEF Inv, ConnectOnce, Unheard
<1>11. NobodyFirst'
  <2>1. ipinfo = Nobody => \A i \in 1 .. (n + 1) : e[i] = Nobody
    BY <1>3, <1>4, <1>5 DEF Inv, NobodyFirst
  <2>2. ASSUME NEW i \in 1 .. (n + 1), NEW j \in 1 .. (n + 1), e[i] = Nobody, e[j] # Nobody
        PROVE  i < j
    <3>1. ipinfo # Nobody
      BY <2>1, <2>2
    <3>2. i \in 1 .. n
      BY <1>4, <1>5, <2>2, <3>1
    <3>3. CASE j = n + 1
      BY <1>3, <3>2, <3>3
    <3>4. CASE j \in 1 .. n
      BY <1>3, <1>4, <2>2, <3>2, <3>4 DEF Inv, NobodyFirst
    <3> QED BY <1>5, <3>3, <3>4
  <2> QED BY <1>1, <1>4, <2>1, <2>2 DEF NobodyFirst
<1>12. Surplus'
  <2>1. /\ IsFiniteSet(Heard) /\ Len(endpoints) <= Cardinality(Heard) + fails + silent
        /\ \/ ipinfo \in Workers /\ ipinfo \notin Heard
           \/ Len(endpoints) + 1 <= Cardinality(Heard) + fails + silent
    BY <1>1 DEF Inv, Surplus
  <2>2. Nobody \notin Heard
    BY DEF Heard
  <2>3. PICK c \in Nat, d \in Nat :
          /\ c = Cardinality(Heard) /\ d = Cardinality(Heard') /\ c <= d
          /\ ipinfo \in Workers /\ ipinfo \notin Heard => d = c + 1
          /\ IsFiniteSet(Heard')
    <3>1. CASE ipinfo = Nobody
      <4>1. Heard' = Heard
        BY <1>6, <2>2, <3>1
      <4> QED BY <2>1, <3>1, <4>1, FS_CardinalityType, RegistrationAssumption
    <3>2. CASE ipinfo # Nobody
      <4>1. Heard' = Heard \cup {ipinfo}
        BY <1>6, <2>2, <3>2
      <4>2. /\ IsFiniteSet(Heard \cup {ipinfo})
            /\ Cardinality(Heard \cup {ipinfo}) =
                  IF ipinfo \in Heard THEN Cardinality(Heard) ELSE Cardinality(Heard) + 1
        BY <2>1, FS_AddElement
      <4>3. Cardinality(Heard) \in Nat
        BY <2>1, FS_CardinalityType
      <4> QED BY <4>1, <4>2, <4>3
    <3> QED BY <3>1, <3>2
  <2>4. n + 1 <= d + fails + silent
    <3>1. n <= c + fails + silent
      BY <1>3, <2>1, <2>3
    <3>2. CASE ipinfo \in Workers /\ ipinfo \notin Heard
      <4>1. d = c + 1
        BY <2>3, <3>2
      <4>2. c \in Nat /\ fails \in Nat /\ silent \in Nat
        BY <1>2
      <4> QED BY <3>1, <4>1, <4>2
    <3>3. CASE n + 1 <= c + fails + silent
      <4>1. c <= d
        BY <2>3
      <4>2. c \in Nat /\ d \in Nat /\ fails \in Nat /\ silent \in Nat
        BY <1>2
      <4> QED BY <3>3, <4>1, <4>2
    <3> QED BY <1>3, <2>1, <2>3, <3>2, <3>3
  <2> QED BY <1>1, <1>4, <2>3, <2>4 DEF Surplus
<1> QED BY <1>8, <1>9, <1>10, <1>11, <1>12 DEF Inv

LEMMA NextInv == Inv /\ [Next]_vars => Inv'
<1> SUFFICES ASSUME Inv, [Next]_vars PROVE Inv'
  OBVIOUS
<1>1. ASSUME NEW w \in Workers, WorkerInit(w) \/ Die(w) \/ handler(w) PROVE Inv'
  BY <1>1, WorkerStep, ConnectStep DEF WorkerInit
<1>2. CASE register_worker
  BY <1>2, SocketStep, AcceptStep, RecvStep, RegisterStep DEF register_worker
<1>3. CASE m_single_fails
  BY <1>3, FailStep
<1>4. CASE UNCHANGED vars
  BY <1>4 DEF vars, workerVars, Inv, TypeOK, AddressSent, ConnectOnce, Unheard, Connected, Heard,
              HeardConnected, NobodyFirst, Surplus
<1> QED BY <1>1, <1>2, <1>3, <1>4 DEF Next

\* The invariant holds whichever workers die and whichever accepts fail.
THEOREM Invariance == Spec => []Inv
BY InitInv, NextInv, PTL DEF Spec

\* endpoints_info_ has no more surplus entries than accepts that failed and workers
\* that closed without a byte, and an uninitialised address is only in front.
THEOREM SurplusCounted == Spec => []SurplusAccounted
<1>1. Inv => SurplusAccounted
  <2> SUFFICES ASSUME Inv PROVE SurplusAccounted
    OBVIOUS
  <2>1. endpoints \in Seq(Addresses) /\ Len(endpoints) \in Nat /\ DOMAIN endpoints = 1 .. Len(endpoints)
    BY LenProperties DEF Inv, TypeOK
  <2>2. Heard = ToSet(endpoints) \ {Nobody}
    BY <2>1 DEF Heard, ToSet
  <2>3. Cardinality(Heard) \in Nat /\ Len(endpoints) <= Cardinality(Heard) + fails + silent
    BY FS_CardinalityType DEF Inv, Surplus
  <2>4. fails \in Nat /\ silent \in Nat
    BY DEF Inv, TypeOK
  <2>5. Len(endpoints) - Cardinality(Heard) <= fails + silent
    BY <2>1, <2>3, <2>4
  <2> QED BY <2>1, <2>2, <2>5 DEF SurplusAccounted, Inv, NobodyFirst
<1> QED BY <1>1, Invariance, PTL

-----------------------------------------------------------------------------
\* x is linked to w, or in the mail of w's WorkerConnector.
Met(w, x) == {w, x} \in links \/ \E n \in 1 .. Len(mail[w]) : mail[w][n] = x

\* The connection of w is yet to be served, or is being served.
Waiting(w) ==
    \/ \E i \in 1 .. Len(queue) : queue[i] = w
    \/ cpc = "recv" /\ peer = w
    \/ cpc = "tell" /\ ipinfo = w

\* No worker that got through is forgotten, and an entry has met all earlier ones.
Linkage ==
    /\ mail \in [Workers -> Seq(Addresses)]
    /\ told \in Nat /\ told <= Len(endpoints) /\ (cpc # "tell" => told = 0)
    /\ cpc = "tell" /\ ipinfo \in Workers => \A i \in 1 .. told : Met(ipinfo, endpoints[i])
    /\ \A i, j \in 1 .. Len(endpoints) :
           i < j /\ endpoints[j] \in Workers => Met(endpoints[j], endpoints[i])
    /\ \A w \in Workers : wpc[w] \in {"send", "close", "ready"} => Waiting(w) \/ w \in Heard

\* The state behind EveryPairLinked: of two workers that completed init, one is still
\* to be registered, or one is linked to the other or has the other's address in its mail.
NoIntroductionLost ==
    \A v, w \in Workers :
        v # w /\ wpc[v] = "ready" /\ wpc[w] = "ready" =>
            Waiting(v) \/ Waiting(w) \/ Met(v, w) \/ Met(w, v)

\* What the steps below use of Inv.
LEMMA LinkageTypes ==
    ASSUME Inv
    PROVE  /\ queue \in Seq(Workers) /\ Len(queue) \in Nat
           /\ endpoints \in Seq(Addresses) /\ Len(endpoints) \in Nat
           /\ \A i \in 1 .. Len(endpoints) : endpoints[i] \in Addresses
           /\ ipinfo \in Addresses /\ Workers \subseteq Addresses /\ Nobody \notin Workers
BY LenProperties, ElementOfSeq, RegistrationAssumption DEF Inv, TypeOK, Addresses

\* The steps of Worker::init, but for m_connect.
LEMMA WorkerLinks ==
    ASSUME Inv, Linkage, NEW w \in Workers,
           CreateConnector(w) \/ m_send(w) \/ m_close(w) \/ Die(w)
    PROVE  Linkage'
<1>1. /\ UNCHANGED <<queue, cpc, peer, ipinfo, endpoints, told, mail, links>>
  BY DEF CreateConnector, m_send, m_close, Die, coordinatorVars
<1>2. wpc \in [Workers -> {"start", "connect", "refused", "send", "close", "ready", "dead"}]
  BY DEF Inv, TypeOK
<1>3. \A v \in Workers : wpc'[v] \in {"send", "close", "ready"} => wpc[v] \in {"send", "close", "ready"}
  BY <1>2 DEF CreateConnector, m_send, m_close, Die, Goto
<1>4. Heard' = Heard /\ \A v : Waiting(v)' <=> Waiting(v)
  BY <1>1 DEF Heard, Waiting
<1>5. \A v, x : Met(v, x)' <=> Met(v, x)
  BY <1>1 DEF Met
<1> QED BY <1>1, <1>3, <1>4, <1>5 DEF Linkage

LEMMA ConnectLinks ==
    ASSUME Inv, Linkage, NEW w \in Workers, m_connect(w)
    PROVE  Linkage'
<1>1. /\ UNCHANGED <<cpc, peer, ipinfo, endpoints, told, mail, links>>
  BY DEF m_connect, coordinatorVars
<1>2. wpc \in [Workers -> {"start", "connect", "refused", "send", "close", "ready", "dead"}]
  BY DEF Inv, TypeOK
<1>3. Heard' = Heard
  BY <1>1 DEF Heard
<1>4. \A v, x : Met(v, x)' <=> Met(v, x)
  BY <1>1 DEF Met
<1>5. \A v : Waiting(v) => Waiting(v)'
  <2>1. CASE queue' = queue
    BY <1>1, <2>1 DEF Waiting
  <2>2. CASE queue' = Append(queue, w)
    <3>1. Len(queue') = Len(queue) + 1 /\ \A i \in 1 .. Len(queue) : queue'[i] = queue[i]
      BY <2>2, LinkageTypes, AppendProperties
    <3>2. \A i \in 1 .. Len(queue) : i \in 1 .. Len(queue')
      BY <3>1, LinkageTypes
    <3> QED BY <1>1, <3>1, <3>2 DEF Waiting
  <2> QED BY <2>1, <2>2 DEF m_connect
<1>6. ASSUME NEW v \in Workers, wpc'[v] \in {"send", "close", "ready"}
      PROVE  wpc[v] \in {"send", "close", "ready"} \/ Waiting(v)'
  <2>1. CASE v # w
    BY <1>2, <1>6, <2>1 DEF m_connect, Goto
  <2>2. CASE v = w
    <3>1. queue' = Append(queue, w)
      BY <1>2, <1>6, <2>2 DEF m_connect, Goto
    <3>2. Len(queue') \in 1 .. Len(queue') /\ queue'[Len(queue')] = w
      BY <3>1, LinkageTypes, AppendProperties
    <3> QED BY <2>2, <3>2 DEF Waiting
  <2> QED BY <2>1, <2>2
<1>7. \A v \in Workers : wpc'[v] \in {"send", "close", "ready"} => Waiting(v)' \/ v \in Heard'
  BY <1>3, <1>5, <1>6 DEF Linkage
<1> QED BY <1>1, <1>4, <1>7 DEF Linkage

\* The message becomes a link.
LEMMA HandlerLinks ==
    ASSUME Inv, Linkage, NEW w \in Workers, handler(w)
    PROVE  Linkage'
<1>1. /\ UNCHANGED <<wpc, queue, cpc, peer, ipinfo, endpoints, told>>
      /\ links' = links \cup {{w, Head(mail[w])}}
      /\ mail' = [mail EXCEPT ![w] = Tail(mail[w])] /\ mail[w] # <<>>
  BY DEF handler, coordinatorVars, workerVars
<1>2. Heard' = Heard /\ \A v : Waiting(v)' <=> Waiting(v)
  BY <1>1 DEF Heard, Waiting
<1>3. mail \in [Workers -> Seq(Addresses)] /\ mail[w] \in Seq(Addresses)
  BY DEF Linkage
<1> DEFINE b == mail[w]
<1>4. /\ Tail(b) \in Seq(Addresses) /\ Len(b) \in Nat /\ Len(b) > 0 /\ Len(Tail(b)) = Len(b) - 1
      /\ Head(b) = b[1] /\ \A i \in 1 .. Len(b) - 1 : Tail(b)[i] = b[i + 1]
  <2>1. /\ Tail(b) \in Seq(Addresses) /\ Len(Tail(b)) = Len(b) - 1
        /\ \A i \in 1 .. Len(Tail(b)) : Tail(b)[i] = b[i + 1]
    BY <1>1, <1>3, HeadTailProperties
  <2>2. Len(b) \in Nat \ {0}
    BY <1>1, <1>3, EmptySeq
  <2> QED BY <1>1, <1>3, <2>1, <2>2
<1> HIDE DEF b
<1>5. mail' \in [Workers -> Seq(Addresses)] /\ mail'[w] = Tail(b) /\ \A v \in Workers : v # w => mail'[v] = mail[v]
  BY <1>1, <1>3, <1>4 DEF b
<1>6. ASSUME NEW v \in Workers, NEW x, Met(v, x) PROVE Met(v, x)'
  <2>1. CASE v # w \/ {v, x} \in links
    BY <1>1, <1>5, <1>6, <2>1 DEF Met
  <2>2. CASE v = w /\ {v, x} \notin links
    <3>1. PICK n \in 1 .. Len(b) : b[n] = x
      BY <1>6, <2>2 DEF Met, b
    <3>2. CASE n = 1
      BY <1>1, <1>4, <2>2, <3>1, <3>2 DEF Met, b
    <3>3. CASE n # 1
      <4>1. n - 1 \in 1 .. Len(Tail(b)) /\ Tail(b)[n - 1] = x
        BY <1>4, <3>1, <3>3
      <4> QED BY <1>5, <2>2, <4>1 DEF Met
    <3> QED BY <3>2, <3>3
  <2> QED BY <2>1, <2>2
<1> QED BY <1>1, <1>2, <1>5, <1>6 DEF Linkage

\* register_worker.
LEMMA SocketLinks ==
    ASSUME Inv, Linkage, m_socket PROVE Linkage'
<1>1. UNCHANGED <<wpc, queue, peer, ipinfo, endpoints, told, mail, links>> /\ cpc = "socket" /\ cpc' = "accept"
  BY DEF m_socket, workerVars
<1>2. Heard' = Heard /\ (\A v : Waiting(v) => Waiting(v)') /\ \A v, x : Met(v, x) => Met(v, x)'
  BY <1>1 DEF Heard, Waiting, Met
<1> QED BY <1>1, <1>2 DEF Linkage

LEMMA AcceptLinks ==
    ASSUME Inv, Linkage, m_single_accept PROVE Linkage'
<1>1. /\ UNCHANGED <<wpc, ipinfo, endpoints, told, mail, links>>
      /\ cpc = "accept" /\ cpc' = "recv" /\ queue # <<>>
      /\ peer' = Head(queue) /\ queue' = Tail(queue)
  BY DEF m_single_accept, workerVars
<1>2. Heard' = Heard /\ \A v, x : Met(v, x) => Met(v, x)'
  BY <1>1 DEF Heard, Met
<1>3. /\ Len(queue) \in Nat /\ Len(Tail(queue)) = Len(queue) - 1 /\ Head(queue) = queue[1]
      /\ \A i \in 1 .. Len(Tail(queue)) : Tail(queue)[i] = queue[i + 1]
  BY <1>1, LinkageTypes, HeadTailProperties
<1>4. ASSUME NEW v, Waiting(v) PROVE Waiting(v)'
  <2>1. PICK i \in 1 .. Len(queue) : queue[i] = v
    BY <1>1, <1>4 DEF Waiting
  <2>2. CASE i = 1
    BY <1>1, <1>3, <2>1, <2>2 DEF Waiting
  <2>3. CASE i # 1
    <3>1. i - 1 \in 1 .. Len(queue') /\ queue'[i - 1] = v
      BY <1>1, <1>3, <2>1, <2>3
    <3> QED BY <3>1 DEF Waiting
  <2> QED BY <2>2, <2>3
<1> QED BY <1>1, <1>2, <1>4 DEF Linkage

LEMMA FailLinks ==
    ASSUME Inv, Linkage, m_single_fails PROVE Linkage'
<1>1. UNCHANGED <<wpc, queue, peer, ipinfo, endpoints, told, mail, links>> /\ cpc = "accept" /\ cpc' = "tell"
  BY DEF m_single_fails, workerVars
<1>2. Heard' = Heard /\ (\A v : Waiting(v) => Waiting(v)') /\ \A v, x : Met(v, x) => Met(v, x)'
  BY <1>1 DEF Heard, Waiting, Met
<1>3. told = 0
  BY <1>1 DEF Linkage
<1> QED BY <1>1, <1>2, <1>3 DEF Linkage

\* A worker that closed in order has sent, so its address is the one worked with.
LEMMA RecvLinks ==
    ASSUME Inv, Linkage, m_single_recv PROVE Linkage'
<1>1. /\ UNCHANGED <<wpc, queue, peer, endpoints, told, mail, links>>
      /\ cpc = "recv" /\ cpc' = "tell" /\ wpc[peer] \in {"ready", "dead"}
      /\ ipinfo' = IF peer \in sent THEN peer ELSE ipinfo
  BY DEF m_single_recv, workerVars, Closed
<1>2. Heard' = Heard /\ \A v, x : Met(v, x) => Met(v, x)'
  BY <1>1 DEF Heard, Met
<1>3. told = 0
  BY <1>1 DEF Linkage
<1>4. peer \in Workers /\ (wpc[peer] = "ready" => peer \in sent)
  BY <1>1 DEF Inv, TypeOK, AddressSent
<1>5. ASSUME NEW v \in Workers, wpc[v] \in {"send", "close", "ready"}, Waiting(v) PROVE Waiting(v)'
  <2>1. CASE peer = v
    BY <1>1, <1>4, <1>5, <2>1 DEF Waiting
  <2>2. CASE peer # v
    BY <1>1, <1>5, <2>2 DEF Waiting
  <2> QED BY <2>1, <2>2
<1> QED BY <1>1, <1>2, <1>3, <1>5 DEF Linkage

LEMMA TellLinks ==
    ASSUME Inv, Linkage, Tell PROVE Linkage'
<1>1. /\ UNCHANGED <<wpc, queue, cpc, peer, ipinfo, endpoints, links>>
      /\ cpc = "tell" /\ told < Len(endpoints) /\ told' = told + 1
      /\ mail' = IF ipinfo \in Workers
                 THEN [mail EXCEPT ![ipinfo] = Append(mail[ipinfo], endpoints[told + 1])] ELSE mail
  BY DEF Tell, workerVars, Introduced
<1>2. Heard' = Heard /\ \A v : Waiting(v)' <=> Waiting(v)
  BY <1>1 DEF Heard, Waiting
<1>3. /\ mail \in [Workers -> Seq(Addresses)] /\ told \in Nat
      /\ Len(endpoints) \in Nat /\ endpoints[told + 1] \in Addresses
  BY <1>1, LinkageTypes DEF Linkage
<1>4. told' \in Nat /\ told' <= Len(endpoints)
  BY <1>1, <1>3
<1>5. CASE ipinfo \in Workers
  <2> DEFINE b == mail[ipinfo] x == endpoints[told + 1]
  <2>1. /\ Append(b, x) \in Seq(Addresses) /\ Len(b) \in Nat /\ Len(Append(b, x)) = Len(b) + 1
        /\ \A n \in 1 .. Len(b) : Append(b, x)[n] = b[n]
        /\ Append(b, x)[Len(b) + 1] = x
    BY <1>3, <1>5, AppendProperties, LenProperties
  <2>2. /\ mail' \in [Workers -> Seq(Addresses)] /\ mail'[ipinfo] = Append(b, x)
        /\ \A v \in Workers : v # ipinfo => mail'[v] = mail[v]
    BY <1>1, <1>3, <1>5, <2>1
  <2> HIDE DEF b, x
  <2>3. ASSUME NEW v \in Workers, NEW y, Met(v, y) PROVE Met(v, y)'
    <3>1. CASE v # ipinfo \/ {v, y} \in links
      BY <1>1, <2>2, <2>3, <3>1 DEF Met
    <3>2. CASE v = ipinfo /\ {v, y} \notin links
      <4>1. PICK n \in 1 .. Len(b) : b[n] = y
        BY <2>3, <3>2 DEF Met, b
      <4>2. n \in 1 .. Len(mail'[v]) /\ mail'[v][n] = y
        BY <2>1, <2>2, <3>2, <4>1
      <4> QED BY <4>2 DEF Met
    <3> QED BY <3>1, <3>2
  <2>4. ASSUME NEW i \in 1 .. told + 1 PROVE Met(ipinfo, endpoints[i])'
    <3>1. CASE i = told + 1
      <4>1. Len(b) + 1 \in 1 .. Len(mail'[ipinfo']) /\ mail'[ipinfo'][Len(b) + 1] = endpoints'[i]
        BY <1>1, <2>1, <2>2, <3>1 DEF x
      <4> QED BY <4>1 DEF Met
    <3>2. CASE i # told + 1
      <4>1. i \in 1 .. told
        BY <1>3, <3>2
      <4>2. Met(ipinfo, endpoints[i])
        BY <1>1, <1>5, <4>1 DEF Linkage
      <4> QED BY <1>1, <1>5, <2>3, <4>2
    <3> QED BY <3>1, <3>2
  <2>5. \A i \in 1 .. told' : Met(ipinfo, endpoints[i])'
    BY <1>1, <2>4
  <2> QED BY <1>1, <1>2, <1>4, <2>2, <2>3, <2>5 DEF Linkage
<1>6. CASE ipinfo \notin Workers
  <2>1. \A v, y : Met(v, y)' <=> Met(v, y)
    BY <1>1, <1>6 DEF Met
  <2> QED BY <1>1, <1>2, <1>4, <1>6, <2>1 DEF Linkage
<1> QED BY <1>5, <1>6

\* The worker told of every entry becomes one.
LEMMA RegisterLinks ==
    ASSUME Inv, Linkage, Register PROVE Linkage'
<1>1. /\ UNCHANGED <<wpc, queue, peer, ipinfo, mail, links>>
      /\ cpc = "tell" /\ cpc' = "accept" /\ told >= Len(endpoints) /\ told' = 0
      /\ endpoints' = Append(endpoints, ipinfo)
  BY DEF Register, workerVars, Introduced
<1> DEFINE L == Len(endpoints)
<1>2. /\ L \in Nat /\ Len(endpoints') = L + 1
      /\ \A i \in 1 .. L : endpoints'[i] = endpoints[i]
      /\ endpoints'[L + 1] = ipinfo
  BY <1>1, LinkageTypes, AppendProperties
<1>3. \A v, x : Met(v, x)' <=> Met(v, x)
  BY <1>1 DEF Met
<1>4. told \in Nat /\ told = L
  BY <1>1, <1>2 DEF Linkage
<1>5. ASSUME NEW v \in Workers, wpc[v] \in {"send", "close", "ready"}
      PROVE  Waiting(v)' \/ v \in Heard'
  <2>1. ASSUME v \in Heard PROVE v \in Heard'
    <3>1. PICK i \in 1 .. L : endpoints[i] = v /\ v # Nobody
      BY <2>1 DEF Heard
    <3>2. i \in 1 .. Len(endpoints') /\ endpoints'[i] = v
      BY <1>2, <3>1
    <3> QED BY <3>1, <3>2 DEF Heard
  <2>2. ASSUME ipinfo = v PROVE v \in Heard'
    <3>1. L + 1 \in 1 .. Len(endpoints') /\ endpoints'[L + 1] = v /\ v # Nobody
      BY <1>2, <2>2, LinkageTypes
    <3> QED BY <3>1 DEF Heard
  <2>3. Waiting(v) => Waiting(v)' \/ ipinfo = v
    BY <1>1 DEF Waiting
  <2> QED BY <1>5, <2>1, <2>2, <2>3 DEF Linkage
<1>6. ASSUME NEW i \in 1 .. L + 1, NEW j \in 1 .. L + 1, i < j, endpoints'[j] \in Workers
      PROVE  Met(endpoints[j], endpoints[i])'
  <2>1. i \in 1 .. L /\ endpoints'[i] = endpoints[i]
    BY <1>2, <1>6
  <2>2. CASE j = L + 1
    <3>1. endpoints'[j] = ipinfo /\ Met(ipinfo, endpoints[i])
      BY <1>1, <1>2, <1>4, <1>6, <2>1, <2>2 DEF Linkage
    <3> QED BY <1>1, <2>1, <3>1 DEF Met
  <2>3. CASE j # L + 1
    <3>1. j \in 1 .. L /\ endpoints'[j] = endpoints[j]
      BY <1>2, <2>3
    <3>2. Met(endpoints[j], endpoints[i])
      BY <1>6, <2>1, <3>1 DEF Linkage
    <3> QED BY <1>1, <2>1, <3>1, <3>2 DEF Met
  <2> QED BY <2>2, <2>3
<1> QED BY <1>1, <1>2, <1>5, <1>6 DEF Linkage

LEMMA LinkageInit == Init => Linkage
<1> SUFFICES ASSUME Init PROVE Linkage
  OBVIOUS
<1>1. <<>> \in Seq(Addresses) /\ Len(<<>>) = 0
  BY EmptySeq
<1> QED BY <1>1 DEF Init, Linkage

LEMMA LinkageInvariant == Spec => [](Inv /\ Linkage)
<1>1. ASSUME Inv, Linkage, [Next]_vars PROVE Linkage'
  <2>1. ASSUME NEW w \in Workers, WorkerInit(w) \/ Die(w) \/ handler(w) PROVE Linkage'
    BY <1>1, <2>1, WorkerLinks, ConnectLinks, HandlerLinks DEF WorkerInit
  <2>2. CASE register_worker
    BY <1>1, <2>2, SocketLinks, AcceptLinks, RecvLinks, TellLinks, RegisterLinks DEF register_worker
  <2>3. CASE m_single_fails
    BY <1>1, <2>3, FailLinks
  <2>4. CASE UNCHANGED vars
    <3>1. UNCHANGED <<wpc, queue, cpc, peer, ipinfo, endpoints, told, mail, links>>
      BY <2>4 DEF vars, workerVars
    <3>2. Heard' = Heard /\ \A v : Waiting(v)' <=> Waiting(v)
      BY <3>1 DEF Heard, Waiting
    <3>3. \A v, x : Met(v, x)' <=> Met(v, x)
      BY <3>1 DEF Met
    <3> QED BY <1>1, <3>1, <3>2, <3>3 DEF Linkage
  <2> QED BY <1>1, <2>1, <2>2, <2>3, <2>4 DEF Next
<1> QED BY <1>1, LinkageInit, Invariance, PTL DEF Spec

\* No introduction is lost, whichever workers die and whichever accepts fail: the state
\* from which the fairness of the actors gives EveryPairLinked.
THEOREM IntroductionsKept == Spec => []NoIntroductionLost
<1>1. Inv /\ Linkage => NoIntroductionLost
  <2> SUFFICES ASSUME Inv, Linkage, NEW v \in Workers, NEW w \in Workers, v # w,
                      wpc[v] = "ready", wpc[w] = "ready", ~ Waiting(v), ~ Waiting(w)
               PROVE  Met(v, w) \/ Met(w, v)
    BY DEF NoIntroductionLost
  <2>1. PICK i \in 1 .. Len(endpoints) : endpoints[i] = v
    BY DEF Linkage, Heard
  <2>2. PICK j \in 1 .. Len(endpoints) : endpoints[j] = w
    BY DEF Linkage, Heard
  <2>3. i < j \/ j < i
    BY <2>1, <2>2
  <2> QED BY <2>1, <2>2, <2>3 DEF Linkage
<1> QED BY <1>1, LinkageInvariant, PTL

-----------------------------------------------------------------------------
\* SqlSession.

Symbols == Lexemes \cup {"ANDOP", "error", "stmt_list"}

\* What the proofs use of the seven sentences: the ";" is their last symbol and only
\* that, a BETWEEN has its AND, and no symbol of the parser's own is in one.
IsSentence(q) ==
    /\ q \in Seq(Symbols) /\ Len(q) \in Nat /\ Len(q) > 1
    /\ \A i \in 1 .. Len(q) : q[i] = "semicolon" <=> i = Len(q)
    /\ \A i \in 1 .. Len(q) : q[i] = "BETWEEN" => \E m \in i + 1 .. Len(q) : q[m] = "AND"
    /\ \A i \in 1 .. Len(q) : q[i] \notin {"error", "stmt_list"}

LEMMA SelectSentence ==
    ASSUME NEW e \in Expressions, NEW a \in Alias
    PROVE  IsSentence(<<"SELECT">> \o e \o a \o <<"semicolon">>)
<1> DEFINE h == <<"SELECT">>
           t == <<"semicolon">>
           he == h \o e
           hea == he \o a
           q == hea \o t
<1>1. /\ h \in Seq(Symbols) /\ Len(h) = 1 /\ h[1] = "SELECT"
      /\ t \in Seq(Symbols) /\ Len(t) = 1 /\ t[1] = "semicolon"
  BY DEF Symbols, Lexemes
<1>2. /\ e \in Seq(Symbols) /\ Len(e) \in Nat /\ Len(e) > 0
      /\ \A i \in 1 .. Len(e) : e[i] \in {"a", "ANDOP", "BETWEEN", "AND"}
      /\ \A i \in 1 .. Len(e) : e[i] = "BETWEEN" => \E m \in i + 1 .. Len(e) : e[m] = "AND"
  <2>1. CASE e = <<NAME>>
    BY <2>1 DEF NAME, Symbols, Lexemes
  <2>2. CASE e = <<NAME, "ANDOP", NAME>>
    BY <2>2 DEF NAME, Symbols, Lexemes
  <2>3. CASE e = <<NAME, "BETWEEN", NAME, "AND", NAME>>
    <3>1. /\ e \in Seq(Symbols) /\ Len(e) = 5
          /\ e[1] = "a" /\ e[2] = "BETWEEN" /\ e[3] = "a" /\ e[4] = "AND" /\ e[5] = "a"
      BY <2>3 DEF NAME, Symbols, Lexemes
    <3> QED BY <3>1
  <2> QED BY <2>1, <2>2, <2>3 DEF Expressions
<1>3. /\ a \in Seq(Symbols) /\ Len(a) \in Nat /\ \A i \in 1 .. Len(a) : a[i] = "a"
  <2>1. CASE a = <<>>
    BY <2>1, EmptySeq
  <2>2. CASE a = <<NAME>>
    BY <2>2 DEF NAME, Symbols, Lexemes
  <2> QED BY <2>1, <2>2 DEF Alias
<1> HIDE DEF h, t
<1>4. /\ he \in Seq(Symbols) /\ Len(he) = 1 + Len(e)
      /\ \A i \in 1 .. 1 + Len(e) : he[i] = IF i <= 1 THEN h[i] ELSE e[i - 1]
  BY <1>1, <1>2, ConcatProperties
<1> HIDE DEF he
<1>5. /\ hea \in Seq(Symbols) /\ Len(hea) = 1 + Len(e) + Len(a)
      /\ \A i \in 1 .. 1 + Len(e) + Len(a) :
            hea[i] = IF i <= 1 + Len(e) THEN he[i] ELSE a[i - (1 + Len(e))]
  <2>1. /\ hea \in Seq(Symbols) /\ Len(hea) = Len(he) + Len(a)
        /\ \A i \in 1 .. Len(he) + Len(a) : hea[i] = IF i <= Len(he) THEN he[i] ELSE a[i - Len(he)]
    BY <1>3, <1>4, ConcatProperties
  <2>2. Len(he) + Len(a) = 1 + Len(e) + Len(a)
    BY <1>2, <1>3, <1>4
  <2> QED BY <1>4, <2>1, <2>2
<1> HIDE DEF hea
<1>6. /\ q \in Seq(Symbols) /\ Len(q) = 2 + Len(e) + Len(a)
      /\ \A i \in 1 .. 2 + Len(e) + Len(a) :
            q[i] = IF i <= 1 + Len(e) + Len(a) THEN hea[i] ELSE t[i - (1 + Len(e) + Len(a))]
  <2>1. 2 + Len(e) + Len(a) = Len(hea) + Len(t)
    BY <1>1, <1>2, <1>3, <1>5
  <2>2. /\ q \in Seq(Symbols) /\ Len(q) = Len(hea) + Len(t)
        /\ \A i \in 1 .. Len(hea) + Len(t) : q[i] = IF i <= Len(hea) THEN hea[i] ELSE t[i - Len(hea)]
    BY <1>1, <1>5, ConcatProperties
  <2> QED BY <1>5, <2>1, <2>2
<1> HIDE DEF q
<1>7. /\ q[1] = "SELECT" /\ q[Len(q)] = "semicolon"
      /\ \A i \in 1 .. Len(e) : q[i + 1] = e[i]
      /\ \A i \in 2 + Len(e) .. 1 + Len(e) + Len(a) : q[i] = "a"
  <2>1. q[1] = "SELECT"
    BY <1>1, <1>2, <1>3, <1>4, <1>5, <1>6
  <2>2. q[Len(q)] = "semicolon"
    <3>1. q[Len(q)] = t[Len(q) - (1 + Len(e) + Len(a))] /\ Len(q) - (1 + Len(e) + Len(a)) = 1
      BY <1>2, <1>3, <1>6
    <3> QED BY <1>1, <3>1
  <2>3. ASSUME NEW i \in 1 .. Len(e) PROVE q[i + 1] = e[i]
    BY <1>2, <1>3, <1>4, <1>5, <1>6
  <2>4. ASSUME NEW i \in 2 + Len(e) .. 1 + Len(e) + Len(a) PROVE q[i] = "a"
    BY <1>2, <1>3, <1>5, <1>6
  <2> QED BY <2>1, <2>2, <2>3, <2>4
<1>8. ASSUME NEW i \in 1 .. Len(q)
      PROVE  /\ q[i] = "semicolon" <=> i = Len(q)
             /\ q[i] = "BETWEEN" => \E m \in i + 1 .. Len(q) : q[m] = "AND"
             /\ q[i] \notin {"error", "stmt_list"}
  <2>1. CASE i = 1 \/ i = Len(q) \/ i \in 2 + Len(e) .. 1 + Len(e) + Len(a)
    BY <1>2, <1>3, <1>6, <1>7, <2>1
  <2>2. CASE i \in 2 .. 1 + Len(e)
    <3>1. i - 1 \in 1 .. Len(e) /\ q[i] = e[i - 1] /\ i < Len(q)
      BY <1>2, <1>3, <1>6, <1>7, <2>2
    <3>2. ASSUME e[i - 1] = "BETWEEN" PROVE \E m \in i + 1 .. Len(q) : q[m] = "AND"
      <4>1. PICK m \in i .. Len(e) : e[m] = "AND"
        BY <1>2, <3>1, <3>2
      <4>2. m + 1 \in i + 1 .. Len(q) /\ q[m + 1] = "AND"
        BY <1>2, <1>3, <1>6, <1>7, <4>1, <2>2
      <4> QED BY <4>2
    <3>3. e[i - 1] \in {"a", "ANDOP", "BETWEEN", "AND"}
      BY <1>2, <3>1
    <3>4. i # Len(q)
      BY <1>2, <1>3, <1>6, <3>1
    <3> QED BY <3>1, <3>2, <3>3, <3>4
  <2>3. i = 1 \/ i = Len(q) \/ i \in 2 + Len(e) .. 1 + Len(e) + Len(a) \/ i \in 2 .. 1 + Len(e)
    <3>1. Len(q) = 2 + Len(e) + Len(a) /\ Len(e) \in Nat /\ Len(a) \in Nat
      BY <1>2, <1>3, <1>6
    <3> QED BY <3>1
  <2> QED BY <2>1, <2>2, <2>3
<1>9. IsSentence(q)
  BY <1>2, <1>3, <1>6, <1>8 DEF IsSentence
<1> QED BY <1>9 DEF q, hea, he, h, t

LEMMA SentenceShape == \A q \in Sentences : IsSentence(q)
<1> SUFFICES ASSUME NEW q \in Sentences PROVE IsSentence(q)
  OBVIOUS
<1>1. CASE q = <<"USE", NAME, "semicolon">>
  <2>1. /\ q \in Seq(Symbols) /\ Len(q) = 3
        /\ q[1] = "USE" /\ q[2] = "a" /\ q[3] = "semicolon"
    BY <1>1 DEF NAME, Symbols, Lexemes
  <2> QED BY <2>1 DEF IsSentence
<1>2. CASE \E e \in Expressions, a \in Alias : q = <<"SELECT">> \o e \o a \o <<"semicolon">>
  BY <1>2, SelectSentence
<1> QED BY <1>1, <1>2 DEF Sentences

\* The tokens of the first k lexemes.
Count(s, k) == Cardinality({i \in Visible(s) : i <= k})

LEMMA CountNext ==
    ASSUME NEW s \in Seq(Lexemes), NEW k \in Nat
    PROVE  /\ Count(s, k) \in Nat /\ Count(s, 0) = 0
           /\ Count(s, k + 1) = IF k + 1 \in Visible(s) THEN Count(s, k) + 1 ELSE Count(s, k)
<1>1. Visible(s) \subseteq 1 .. Len(s) /\ Len(s) \in Nat
  BY LenProperties DEF Visible
<1> DEFINE U(n) == {i \in Visible(s) : i <= n}
<1>2. IsFiniteSet(U(k)) /\ Cardinality(U(k)) \in Nat
  <2>1. IsFiniteSet(1 .. Len(s))
    BY <1>1, FS_Interval
  <2>2. U(k) \in SUBSET (1 .. Len(s))
    BY <1>1
  <2>3. IsFiniteSet(U(k))
    BY <2>1, <2>2, FS_Subset
  <2> QED BY <2>3, FS_CardinalityType
<1>3. U(0) = {}
  BY <1>1
<1>4. CASE k + 1 \in Visible(s)
  <2>1. U(k + 1) = U(k) \cup {k + 1} /\ k + 1 \notin U(k)
    BY <1>1, <1>4
  <2> HIDE DEF U
  <2>2. Cardinality(U(k + 1)) = Cardinality(U(k)) + 1
    BY <1>2, <2>1, FS_AddElement
  <2> QED BY <1>2, <1>3, <1>4, <2>2, FS_EmptySet DEF Count, U
<1>5. CASE k + 1 \notin Visible(s)
  <2>1. U(k + 1) = U(k)
    BY <1>1, <1>5
  <2> QED BY <1>2, <1>3, <1>5, <2>1, FS_EmptySet DEF Count
<1> QED BY <1>4, <1>5

LEMMA CountMonotone ==
    ASSUME NEW s \in Seq(Lexemes), NEW j \in Nat, NEW k \in Nat, j <= k
    PROVE  /\ Count(s, j) <= Count(s, k)
           /\ j < k /\ k \in Visible(s) => Count(s, j) < Count(s, k)
<1>1. Visible(s) \subseteq 1 .. Len(s) /\ Len(s) \in Nat
  BY LenProperties DEF Visible
<1> DEFINE U(n) == {i \in Visible(s) : i <= n}
<1>2. IsFiniteSet(U(k)) /\ Cardinality(U(k)) \in Nat
  <2>1. IsFiniteSet(1 .. Len(s))
    BY <1>1, FS_Interval
  <2>2. U(k) \in SUBSET (1 .. Len(s))
    BY <1>1
  <2>3. IsFiniteSet(U(k))
    BY <2>1, <2>2, FS_Subset
  <2> QED BY <2>3, FS_CardinalityType
<1>3. U(j) \in SUBSET U(k)
  BY <1>1
<1>4. ASSUME j < k, k \in Visible(s) PROVE U(k) # U(j)
  BY <1>1, <1>4
<1> HIDE DEF U
<1>5. IsFiniteSet(U(j)) /\ Cardinality(U(j)) <= Cardinality(U(k)) /\ (Cardinality(U(k)) = Cardinality(U(j)) => U(k) = U(j))
  BY <1>2, <1>3, FS_Subset
<1>6. Cardinality(U(j)) \in Nat
  BY <1>5, FS_CardinalityType
<1> QED BY <1>2, <1>4, <1>5, <1>6 DEF Count, U

LEMMA TokensAre ==
    ASSUME NEW s \in Seq(Lexemes)
    PROVE  /\ Count(s, Len(s)) \in Nat
           /\ DOMAIN Tokens(s) = 1 .. Count(s, Len(s))
           /\ Tokens(s) = [n \in 1 .. Count(s, Len(s)) |-> Tokens(s)[n]]
           /\ \A i \in Visible(s) : /\ Count(s, i) \in 1 .. Count(s, Len(s))
                                    /\ Tokens(s)[Count(s, i)] = TokenAt(s, i)
<1>1. Visible(s) \subseteq 1 .. Len(s) /\ Len(s) \in Nat
  BY LenProperties DEF Visible
<1>2. {i \in Visible(s) : i <= Len(s)} = Visible(s)
  BY <1>1
<1>3. Count(s, Len(s)) = Cardinality(Visible(s)) /\ Count(s, Len(s)) \in Nat
  BY <1>1, <1>2, CountNext DEF Count
<1> DEFINE at(n) == CHOOSE i \in Visible(s) : Count(s, i) = n
<1>4. Tokens(s) = [n \in 1 .. Count(s, Len(s)) |-> TokenAt(s, at(n))]
  BY <1>3 DEF Tokens, Count
<1>5. ASSUME NEW i \in Visible(s)
      PROVE  Count(s, i) \in 1 .. Count(s, Len(s)) /\ at(Count(s, i)) = i
  <2>1. i \in Nat /\ i > 0 /\ i <= Len(s)
    BY <1>1
  <2>2. Count(s, i) \in Nat /\ Count(s, 0) = 0 /\ Count(s, 0) < Count(s, i) /\ Count(s, i) <= Count(s, Len(s))
    BY <1>1, <2>1, CountNext, CountMonotone
  <2>3. ASSUME NEW j \in Visible(s), Count(s, j) = Count(s, i) PROVE j = i
    <3>1. j \in Nat
      BY <1>1
    <3>2. Count(s, j) \in Nat
      BY <3>1, CountNext
    <3>3. ~ j < i
      BY <2>1, <2>2, <2>3, <3>1, CountMonotone
    <3>4. ~ i < j
      BY <2>1, <2>2, <2>3, <3>1, CountMonotone
    <3> QED BY <2>1, <3>1, <3>3, <3>4
  <2>4. at(Count(s, i)) = i
    BY <2>3
  <2> QED BY <1>3, <2>2, <2>4
<1> HIDE DEF at
<1> QED BY <1>3, <1>4, <1>5

-----------------------------------------------------------------------------
\* Behind the first k lexemes a comment is open, or a BETWEEN waits for its AND.
OpenComment(s, k) ==
    \E j \in 1 .. k : s[j] = "/*" /\ ~ \E m \in j + 1 .. k : s[m] = "*/"
OpenBetween(s, k) ==
    \E j \in Visible(s) : /\ j <= k /\ s[j] = "BETWEEN"
                          /\ ~ \E m \in Visible(s) : j < m /\ m <= k /\ s[m] = "AND"

\* The symbols on a stack hold a BETWEEN without its AND.
Owed(st) ==
    \E n \in 1 .. Len(st) : st[n] = "BETWEEN" /\ ~ \E m \in n + 1 .. Len(st) : st[m] = "AND"

\* The first m tokens of s begin a sentence.
Fits(s, m) ==
    \E q \in Sentences : m <= Len(q) /\ \A n \in 1 .. m : q[n] = Tokens(s)[n]

Scanned == Len(Rest) - Len(buf)
Effective == IF mode = "COMMENT" THEN oldstate ELSE mode

SessionTypeOK ==
    /\ pc \in {"prompt", "refill", "scan", "execute", "exited", "crashed"}
    /\ text \in Seq(Lexemes)
    /\ \A i \in 1 .. Len(text) : text[i] = "semicolon" <=> i = Len(text)
    /\ offset \in Nat /\ before \in Nat /\ errors \in Nat /\ errorNumber \in Nat
    /\ buf \in Seq(Lexemes)
    /\ mode \in {"INITIAL", "BTWMODE", "COMMENT"} /\ oldstate \in {"INITIAL", "BTWMODE"}
    /\ stack \in Seq(Symbols)

\* Where the scanner reads.
Position ==
    /\ pc = "refill" => offset = before /\ stack = <<>>
    /\ pc = "scan" => /\ Len(buf) <= Len(Rest)
                      /\ buf = SubSeq(Rest, Scanned + 1, Len(Rest))
    /\ pc \in {"prompt", "scan", "execute"} => offset = Len(text) /\ before <= Len(text)
    /\ pc = "exited" => Len(text) < before

\* What a statement leaves to the next one.
Carried ==
    /\ errors <= errorNumber
    /\ errors > 0 => root = NULL
    /\ pc = "refill" => errors = errorNumber
    /\ pc # "scan" => mode # "COMMENT"
    /\ pc \in {"prompt", "refill", "execute"} /\ errorNumber = 0 => mode = "INITIAL"

\* The stack is what was read so far, and may still become a sentence.
Prefix ==
    /\ errorNumber = 0
    /\ Len(stack) = Count(Rest, Scanned)
    /\ \A n \in 1 .. Len(stack) : stack[n] = Tokens(Rest)[n]
    /\ Viable(stack)
    /\ Effective = "BTWMODE" <=> Owed(stack)

\* A token was read that no sentence has there.
Spoilt ==
    /\ errorNumber = 0
    /\ stack = <<"error">>
    /\ \E m \in 1 .. Count(Rest, Scanned) : ~ Fits(Rest, m)

\* The ";" was read.
Complete ==
    /\ stack = <<"stmt_list">>
    /\ buf = <<>>
    /\ root = IF Tokens(Rest) \in Sentences THEN Tokens(Rest) ELSE NULL
    /\ errorNumber = 0 => mode = "INITIAL"

Reading ==
    /\ mode = "COMMENT" <=> OpenComment(Rest, Scanned)
    /\ Effective = "BTWMODE" <=> OpenBetween(Rest, Scanned)
    /\ Prefix \/ Spoilt \/ Complete
    /\ buf = <<>> /\ Rest # <<>> /\ mode # "COMMENT" => Complete

SessionInv ==
    /\ SessionTypeOK /\ Position /\ Carried
    /\ errors = 0 /\ pc = "scan" => Reading
    /\ TreeOfTheRest

-----------------------------------------------------------------------------
\* One more lexeme.
LEMMA CommentNext ==
    ASSUME NEW s, NEW k \in Nat
    PROVE  /\ ~ OpenComment(s, 0)
           /\ InComment(s, k + 1) <=> OpenComment(s, k) \/ s[k + 1] = "/*"
           /\ OpenComment(s, k + 1) <=> \/ s[k + 1] = "/*"
                                        \/ OpenComment(s, k) /\ s[k + 1] # "*/"
<1>1. ~ OpenComment(s, 0)
  BY DEF OpenComment
<1>2. OpenComment(s, k) => InComment(s, k + 1)
  BY DEF OpenComment, InComment
<1>3. s[k + 1] = "/*" => InComment(s, k + 1) /\ OpenComment(s, k + 1)
  <2> SUFFICES ASSUME s[k + 1] = "/*" PROVE InComment(s, k + 1) /\ OpenComment(s, k + 1)
    OBVIOUS
  <2>1. k + 1 \in 1 .. k + 1 /\ k + 1 + 1 .. k + 1 = {} /\ k + 1 + 1 .. k + 1 - 1 = {}
    OBVIOUS
  <2> QED BY <2>1 DEF InComment, OpenComment
<1>4. ASSUME InComment(s, k + 1), s[k + 1] # "/*" PROVE OpenComment(s, k)
  BY <1>4 DEF OpenComment, InComment
<1>5. ASSUME OpenComment(s, k + 1), s[k + 1] # "/*" PROVE OpenComment(s, k) /\ s[k + 1] # "*/"
  <2>1. PICK j \in 1 .. k + 1 : s[j] = "/*" /\ ~ \E m \in j + 1 .. k + 1 : s[m] = "*/"
    BY <1>5 DEF OpenComment
  <2>2. j \in 1 .. k
    BY <1>5, <2>1
  <2>3. k + 1 \in j + 1 .. k + 1 /\ \A m \in j + 1 .. k : m \in j + 1 .. k + 1
    BY <2>2
  <2> QED BY <2>1, <2>2, <2>3 DEF OpenComment
<1>6. ASSUME OpenComment(s, k), s[k + 1] # "*/" PROVE OpenComment(s, k + 1)
  <2>1. PICK j \in 1 .. k : s[j] = "/*" /\ ~ \E m \in j + 1 .. k : s[m] = "*/"
    BY <1>6 DEF OpenComment
  <2>2. j \in 1 .. k + 1 /\ \A m \in j + 1 .. k + 1 : m \in j + 1 .. k \/ m = k + 1
    OBVIOUS
  <2> QED BY <1>6, <2>1, <2>2 DEF OpenComment
<1> QED BY <1>1, <1>2, <1>3, <1>4, <1>5, <1>6

LEMMA BetweenNext ==
    ASSUME NEW s \in Seq(Lexemes), NEW k \in Nat
    PROVE  /\ ~ OpenBetween(s, 0)
           /\ OpenBetween(s, k + 1) <=>
                \/ k + 1 \in Visible(s) /\ s[k + 1] = "BETWEEN"
                \/ OpenBetween(s, k) /\ ~ (k + 1 \in Visible(s) /\ s[k + 1] = "AND")
           /\ TokenAt(s, k + 1) = IF s[k + 1] # "AND" THEN s[k + 1]
                                  ELSE IF OpenBetween(s, k) THEN "AND" ELSE "ANDOP"
<1>1. Visible(s) \subseteq Nat \ {0}
  BY LenProperties DEF Visible
<1>2. \A j \in Visible(s) : j < k + 1 <=> j <= k
  BY <1>1
<1>3. \A j \in Visible(s) : j <= k + 1 <=> j <= k \/ j = k + 1
  BY <1>1
<1>4. ~ OpenBetween(s, 0)
  BY <1>1 DEF OpenBetween
<1>5. ASSUME k + 1 \in Visible(s), s[k + 1] = "BETWEEN" PROVE OpenBetween(s, k + 1)
  <2>1. ~ \E m \in Visible(s) : k + 1 < m /\ m <= k + 1 /\ s[m] = "AND"
    BY <1>1
  <2> QED BY <1>5, <2>1 DEF OpenBetween
<1>6. ASSUME OpenBetween(s, k), ~ (k + 1 \in Visible(s) /\ s[k + 1] = "AND") PROVE OpenBetween(s, k + 1)
  BY <1>3, <1>6 DEF OpenBetween
<1>7. ASSUME OpenBetween(s, k + 1), ~ (k + 1 \in Visible(s) /\ s[k + 1] = "BETWEEN")
      PROVE  OpenBetween(s, k) /\ ~ (k + 1 \in Visible(s) /\ s[k + 1] = "AND")
  <2>1. PICK j \in Visible(s) : /\ j <= k + 1 /\ s[j] = "BETWEEN"
                                /\ ~ \E m \in Visible(s) : j < m /\ m <= k + 1 /\ s[m] = "AND"
    BY <1>7 DEF OpenBetween
  <2>2. j <= k /\ j < k + 1
    BY <1>1, <1>3, <1>7, <2>1
  <2> QED BY <1>3, <2>1, <2>2 DEF OpenBetween
<1>8. TokenAt(s, k + 1) = IF s[k + 1] # "AND" THEN s[k + 1]
                          ELSE IF OpenBetween(s, k) THEN "AND" ELSE "ANDOP"
  BY <1>2 DEF TokenAt, OpenBetween
<1> QED BY <1>4, <1>5, <1>6, <1>7, <1>8

LEMMA OwedNext ==
    ASSUME NEW st \in Seq(Symbols), NEW x \in Symbols
    PROVE  /\ ~ Owed(<<>>)
           /\ Owed(Append(st, x)) <=> x = "BETWEEN" \/ (Owed(st) /\ x # "AND")
<1> DEFINE u == Append(st, x)
<1>1. /\ Len(st) \in Nat /\ Len(u) = Len(st) + 1
      /\ \A i \in 1 .. Len(st) : u[i] = st[i]
      /\ u[Len(st) + 1] = x
  BY AppendProperties, LenProperties
<1> HIDE DEF u
<1>2. ~ Owed(<<>>)
  BY EmptySeq DEF Owed
<1>3. ASSUME x = "BETWEEN" PROVE Owed(u)
  <2>1. Len(u) \in 1 .. Len(u) /\ u[Len(u)] = "BETWEEN" /\ Len(u) + 1 .. Len(u) = {}
    BY <1>1, <1>3
  <2> QED BY <2>1 DEF Owed
<1>4. ASSUME Owed(st), x # "AND" PROVE Owed(u)
  <2>1. PICK n \in 1 .. Len(st) : st[n] = "BETWEEN" /\ ~ \E m \in n + 1 .. Len(st) : st[m] = "AND"
    BY <1>4 DEF Owed
  <2>2. n \in 1 .. Len(u) /\ \A m \in n + 1 .. Len(u) : m \in n + 1 .. Len(st) \/ m = Len(st) + 1
    BY <1>1
  <2>3. \A m \in n + 1 .. Len(st) : u[m] = st[m]
    BY <1>1
  <2> QED BY <1>1, <1>4, <2>1, <2>2, <2>3 DEF Owed
<1>5. ASSUME Owed(u), x # "BETWEEN" PROVE Owed(st) /\ x # "AND"
  <2>1. PICK n \in 1 .. Len(u) : u[n] = "BETWEEN" /\ ~ \E m \in n + 1 .. Len(u) : u[m] = "AND"
    BY <1>5 DEF Owed
  <2>2. n \in 1 .. Len(st) /\ Len(st) + 1 \in n + 1 .. Len(u)
    BY <1>1, <1>5, <2>1
  <2>3. \A m \in n + 1 .. Len(st) : m \in n + 1 .. Len(u) /\ u[m] = st[m]
    BY <1>1
  <2> QED BY <1>1, <2>1, <2>2, <2>3 DEF Owed
<1> QED BY <1>2, <1>3, <1>4, <1>5 DEF u

LEMMA ViableIs ==
    ASSUME NEW st \in Seq(Symbols)
    PROVE  Viable(st) <=> \E q \in Sentences : /\ Len(st) <= Len(q)
                                               /\ \A n \in 1 .. Len(st) : q[n] = st[n]
<1>1. ASSUME NEW q \in Sentences, Len(st) <= Len(q)
      PROVE  SubSeq(q, 1, Len(st)) = st <=> \A n \in 1 .. Len(st) : q[n] = st[n]
  <2>1. q \in Seq(Symbols) /\ Len(q) \in Nat /\ Len(st) \in Nat
    BY SentenceShape, LenProperties DEF IsSentence
  <2>2. \A i \in 1 .. Len(st) : q[i] \in Symbols
    BY <1>1, <2>1, ElementOfSeq
  <2> DEFINE p == SubSeq(q, 1, Len(st))
  <2>3. /\ p \in Seq(Symbols)
        /\ Len(p) = IF 1 <= Len(st) THEN Len(st) - 1 + 1 ELSE 0
        /\ \A i \in 1 .. Len(st) - 1 + 1 : p[i] = q[1 + i - 1]
    BY <2>1, <2>2, SubSeqProperties
  <2> HIDE DEF p
  <2>4. Len(p) = Len(st) /\ \A i \in 1 .. Len(st) : p[i] = q[i]
    BY <2>1, <2>3
  <2>5. ASSUME \A n \in 1 .. Len(st) : q[n] = st[n] PROVE p = st
    BY <2>3, <2>4, <2>5, SeqEqual
  <2> QED BY <2>4, <2>5 DEF p
<1> QED BY <1>1 DEF Viable

LEMMA NothingRead ==
    ASSUME NEW st \in Seq(Symbols), Len(st) = 0
    PROVE  Viable(st) /\ ~ Owed(st)
<1> DEFINE q == <<"USE", NAME, "semicolon">>
<1>1. q \in Sentences
  BY DEF Sentences
<1> HIDE DEF q
<1>2. Len(st) <= Len(q) /\ 1 .. Len(st) = {}
  BY <1>1, SentenceShape DEF IsSentence
<1>3. Viable(st)
  BY <1>1, <1>2, ViableIs
<1> QED BY <1>3 DEF Owed

\* Sentences and the tokens of a text.
LEMMA TokensSentence ==
    ASSUME NEW s \in Seq(Lexemes), Tokens(s) \in Sentences
    PROVE  /\ Len(Tokens(s)) = Count(s, Len(s))
           /\ \A m \in 1 .. Count(s, Len(s)) : Fits(s, m)
           /\ s # <<>>
<1> DEFINE T == Tokens(s) C == Count(s, Len(s))
<1>1. T \in Seq(Symbols) /\ Len(T) \in Nat /\ Len(T) > 1 /\ DOMAIN T = 1 .. Len(T)
  BY SentenceShape, LenProperties DEF IsSentence
<1>2. C \in Nat /\ DOMAIN T = 1 .. C
  BY TokensAre
<1> HIDE DEF T, C
<1>3. Len(T) = C
  <2>1. Len(T) \in 1 .. C
    BY <1>1, <1>2
  <2>2. C \in 1 .. Len(T)
    BY <1>1, <1>2, <2>1
  <2>3. Len(T) \in Nat /\ C \in Nat
    BY <1>1, <1>2
  <2> QED BY <2>1, <2>2, <2>3
<1>4. ASSUME NEW m \in 1 .. C PROVE Fits(s, m)
  BY <1>2, <1>3 DEF Fits, T
<1>5. s # <<>>
  BY <1>1, <1>2, <1>3, EmptySeq, CountNext DEF C
<1> QED BY <1>3, <1>4, <1>5 DEF T, C

-----------------------------------------------------------------------------
LEMMA RestIs ==
    ASSUME SessionTypeOK, before <= Len(text)
    PROVE  /\ Rest \in Seq(Lexemes) /\ Len(Rest) \in Nat
           /\ Len(Rest) = Len(text) - before
           /\ \A i \in 1 .. Len(Rest) : Rest[i] = "semicolon" <=> i = Len(Rest)
<1>1. /\ text \in Seq(Lexemes) /\ Len(text) \in Nat /\ before \in Nat
      /\ \A i \in 1 .. Len(text) : text[i] \in Lexemes /\ (text[i] = "semicolon" <=> i = Len(text))
  BY LenProperties, ElementOfSeq DEF SessionTypeOK
<1>2. \A i \in before + 1 .. Len(text) : text[i] \in Lexemes
  BY <1>1
<1>3. /\ Rest \in Seq(Lexemes)
      /\ Len(Rest) = IF before + 1 <= Len(text) THEN Len(text) - (before + 1) + 1 ELSE 0
      /\ \A i \in 1 .. Len(text) - (before + 1) + 1 : Rest[i] = text[before + 1 + i - 1]
  BY <1>1, <1>2, SubSeqProperties DEF Rest
<1>4. Len(Rest) = Len(text) - before /\ Len(Rest) \in Nat
  BY <1>1, <1>3
<1>5. ASSUME NEW i \in 1 .. Len(Rest) PROVE Rest[i] = "semicolon" <=> i = Len(Rest)
  <2>1. Rest[i] = text[before + i] /\ before + i \in 1 .. Len(text)
    BY <1>1, <1>3, <1>4
  <2>2. before + i = Len(text) <=> i = Len(Rest)
    BY <1>1, <1>4
  <2> QED BY <1>1, <2>1, <2>2
<1> QED BY <1>3, <1>4, <1>5

LEMMA Consume ==
    ASSUME SessionTypeOK, Position, pc = "scan", buf # <<>>,
           buf' = Tail(buf), UNCHANGED <<pc, text, offset, before>>
    PROVE  /\ Rest' = Rest /\ Rest \in Seq(Lexemes)
           /\ Scanned \in Nat /\ Scanned' = Scanned + 1 /\ Scanned + 1 \in 1 .. Len(Rest)
           /\ Head(buf) = Rest[Scanned + 1] /\ Head(buf) \in Lexemes
           /\ buf' \in Seq(Lexemes) /\ Position'
           /\ buf' = <<>> <=> Scanned + 1 = Len(Rest)
           /\ Head(buf) = "semicolon" <=> buf' = <<>>
<1> DEFINE k == Scanned
<1>1. /\ Rest \in Seq(Lexemes) /\ Len(Rest) \in Nat
      /\ \A i \in 1 .. Len(Rest) : Rest[i] = "semicolon" <=> i = Len(Rest)
  BY RestIs DEF Position
<1>2. Rest' = Rest
  BY DEF Rest
<1>3. /\ buf \in Seq(Lexemes) /\ Len(buf) \in Nat \ {0} /\ Len(buf) <= Len(Rest)
      /\ buf = SubSeq(Rest, k + 1, Len(Rest))
  BY EmptySeq DEF SessionTypeOK, Position
<1>4. k \in Nat /\ k = Len(Rest) - Len(buf) /\ k + 1 \in 1 .. Len(Rest)
  BY <1>1, <1>3 DEF Scanned
<1> HIDE DEF k
<1>5. /\ Head(buf) = Rest[k + 1] /\ Tail(buf) = SubSeq(Rest, k + 1 + 1, Len(Rest))
      /\ Head(buf) \in Lexemes /\ Tail(buf) \in Seq(Lexemes) /\ Len(Tail(buf)) = Len(buf) - 1
  <2>1. Len(Rest) \in k + 1 .. Len(Rest)
    BY <1>1, <1>4
  <2>2. Head(SubSeq(Rest, k + 1, Len(Rest))) = Rest[k + 1]
        /\ Tail(SubSeq(Rest, k + 1, Len(Rest))) = SubSeq(Rest, k + 1 + 1, Len(Rest))
    BY <1>1, <1>4, <2>1, HeadTailOfSubSeq
  <2> QED BY <1>3, <2>2, HeadTailProperties
<1>6. Len(buf') = Len(buf) - 1 /\ Scanned' = k + 1
  <2>1. Len(buf') = Len(buf) - 1
    BY <1>5
  <2>2. Scanned' = Len(Rest) - Len(buf')
    BY <1>2 DEF Scanned
  <2> QED BY <1>1, <1>3, <1>4, <2>1, <2>2
<1>7. buf' = <<>> <=> k + 1 = Len(Rest)
  <2>1. buf' = <<>> <=> Len(buf') = 0
    BY <1>5, EmptySeq
  <2>2. Len(buf) \in Nat /\ Len(Rest) \in Nat /\ k = Len(Rest) - Len(buf)
    BY <1>1, <1>3, <1>4
  <2>3. Len(buf) = 1 <=> k + 1 = Len(Rest)
    <3>1. \A x, y \in Nat : x = 1 <=> (y - x) + 1 = y
      OBVIOUS
    <3> QED BY <2>2, <3>1
  <2>4. Len(buf') = 0 <=> Len(buf) = 1
    BY <1>6, <2>2
  <2> QED BY <2>1, <2>3, <2>4
<1>8. Position'
  <2>1. Len(buf') <= Len(Rest') /\ buf' = SubSeq(Rest', Scanned' + 1, Len(Rest'))
    <3>1. Len(buf') <= Len(Rest)
      BY <1>1, <1>3, <1>6
    <3>2. buf' = SubSeq(Rest, Scanned' + 1, Len(Rest))
      BY <1>5, <1>6
    <3> QED BY <1>2, <3>1, <3>2
  <2>2. pc' = "scan" /\ offset' = Len(text') /\ before' <= Len(text')
    BY DEF Position
  <2> QED BY <2>1, <2>2 DEF Position
<1>9. Head(buf) = "semicolon" <=> buf' = <<>>
  BY <1>1, <1>4, <1>5, <1>7
<1> QED BY <1>1, <1>2, <1>4, <1>5, <1>6, <1>7, <1>8, <1>9 DEF k

-----------------------------------------------------------------------------
LEMMA SessionInitInv == SessionInit => SessionInv
<1> SUFFICES ASSUME SessionInit PROVE SessionInv
  OBVIOUS
<1> USE DEF SessionInit
<1>1. <<>> \in Seq(Lexemes) /\ <<>> \in Seq(Symbols) /\ Len(<<>>) = 0
  BY EmptySeq
<1>2. SessionTypeOK
  BY <1>1 DEF SessionTypeOK
<1>3. Position /\ Carried
  BY <1>1 DEF Position, Carried
<1> QED BY <1>2, <1>3 DEF SessionInv, TreeOfTheRest

LEMMA TypeStep ==
    ASSUME SessionInv, NEW t \in Texts, getparsetreeroot(t) PROVE SessionInv'
<1> USE DEF getparsetreeroot
<1>1. t \in Seq(Lexemes) /\ \A i \in 1 .. Len(t) : t[i] = "semicolon" <=> i = Len(t)
  <2>1. t \in Seq(Lexemes) /\ \A i \in DOMAIN t : t[i] = "semicolon" <=> i = Len(t)
    BY TextsAssumption
  <2> QED BY <2>1, LenProperties
<1>2. SessionTypeOK'
  BY <1>1, EmptySeq DEF SessionInv, SessionTypeOK
<1>3. Position'
  BY DEF SessionInv, Position
<1>4. Carried'
  <2>1. errors' \in Nat /\ errorNumber' = errors'
    BY DEF SessionInv, SessionTypeOK
  <2> QED BY <2>1 DEF SessionInv, Carried
<1>5. TreeOfTheRest'
  BY DEF TreeOfTheRest
<1> QED BY <1>2, <1>3, <1>4, <1>5 DEF SessionInv

LEMMA RefillStep ==
    ASSUME SessionInv, readInputForLexer PROVE SessionInv'
<1> USE DEF readInputForLexer
<1>1. /\ text \in Seq(Lexemes) /\ Len(text) \in Nat /\ offset \in Nat /\ offset = before
      /\ stack = <<>> /\ mode # "COMMENT" /\ errors = errorNumber
      /\ errorNumber = 0 => mode = "INITIAL"
  BY LenProperties DEF SessionInv, SessionTypeOK, Position, Carried
<1>2. Carried'
  <2>1. errors' <= errorNumber' /\ (errors' > 0 => root' = NULL)
    BY DEF SessionInv, Carried
  <2> QED BY <1>1, <2>1 DEF Carried
<1>3. TreeOfTheRest'
  BY DEF TreeOfTheRest
<1>4. CASE Len(text) < offset
  <2>1. SessionTypeOK'
    BY <1>1, <1>4 DEF SessionInv, SessionTypeOK
  <2>2. Position'
    BY <1>1, <1>4 DEF Position
  <2> QED BY <1>2, <1>3, <1>4, <2>1, <2>2 DEF SessionInv
<1>5. CASE ~ Len(text) < offset
  <2>1. /\ Rest \in Seq(Lexemes) /\ Len(Rest) \in Nat
    BY <1>1, <1>5, RestIs DEF SessionInv
  <2>2. Rest' = Rest /\ buf' = Rest
    BY <1>1, <1>5 DEF Rest
  <2>3. Scanned' = 0
    BY <2>1, <2>2 DEF Scanned
  <2>4. SessionTypeOK'
    BY <1>1, <1>5, <2>1, <2>2 DEF SessionInv, SessionTypeOK
  <2>5. Position'
    <3>1. Rest = SubSeq(Rest, 0 + 1, Len(Rest))
      BY <2>1, SubSeqFull
    <3> QED BY <1>1, <1>5, <2>1, <2>2, <2>3, <3>1 DEF Position
  <2>6. ASSUME errors' = 0 PROVE Reading'
    <3>1. errorNumber' = 0 /\ mode' = "INITIAL" /\ stack' = <<>>
      BY <1>1, <2>6
    <3>2. Effective' = "INITIAL"
      BY <3>1 DEF Effective
    <3>3. Prefix'
      <4>1. <<>> \in Seq(Symbols) /\ Len(<<>>) = 0
        BY EmptySeq
      <4>2. Viable(<<>>) /\ ~ Owed(<<>>)
        BY <4>1, NothingRead
      <4>3. Count(Rest, 0) = 0
        BY <2>1, CountNext
      <4> QED BY <2>2, <2>3, <3>1, <3>2, <4>1, <4>2, <4>3 DEF Prefix, Viable
    <3>4. ~ OpenComment(Rest, 0) /\ ~ OpenBetween(Rest, 0)
      BY <2>1, CommentNext, BetweenNext
    <3> QED BY <2>2, <2>3, <3>1, <3>2, <3>3, <3>4 DEF Reading
  <2> QED BY <1>2, <1>3, <1>5, <2>4, <2>5, <2>6 DEF SessionInv
<1> QED BY <1>4, <1>5

\* A lexeme that is no token leaves the parser alone.
LEMMA Unseen ==
    ASSUME SessionInv, errors = 0, pc = "scan", buf # <<>>, Rest \in Seq(Lexemes), Rest' = Rest,
           Scanned \in Nat, Scanned' = Scanned + 1, Scanned + 1 \notin Visible(Rest),
           Effective' = Effective, UNCHANGED <<stack, errorNumber>>
    PROVE  /\ Prefix' \/ Spoilt'
           /\ Effective' = "BTWMODE" <=> OpenBetween(Rest', Scanned')
<1>1. Reading /\ ~ Complete
  BY DEF SessionInv, Complete
<1>2. Count(Rest', Scanned') = Count(Rest, Scanned)
  BY CountNext
<1>3. Prefix => Prefix'
  BY <1>2 DEF Prefix, Viable, Owed
<1>4. Spoilt => Spoilt'
  BY <1>2 DEF Spoilt
<1>5. OpenBetween(Rest', Scanned') <=> OpenBetween(Rest, Scanned)
  BY BetweenNext
<1> QED BY <1>1, <1>3, <1>4, <1>5 DEF Reading

LEMMA SkipStep ==
    ASSUME SessionInv, SkipComment PROVE SessionInv'
<1> USE DEF SkipComment
<1>1. /\ Rest' = Rest /\ Rest \in Seq(Lexemes)
      /\ Scanned \in Nat /\ Scanned' = Scanned + 1 /\ Head(buf) = Rest[Scanned + 1]
      /\ buf' \in Seq(Lexemes) /\ Position' /\ (Head(buf) = "semicolon" <=> buf' = <<>>)
  BY Consume DEF SessionInv
<1>2. oldstate \in {"INITIAL", "BTWMODE"}
  BY DEF SessionInv, SessionTypeOK
<1>3. SessionTypeOK'
  BY <1>1, <1>2 DEF SessionInv, SessionTypeOK
<1>4. Carried'
  BY DEF SessionInv, Carried
<1>5. TreeOfTheRest'
  BY DEF TreeOfTheRest
<1>6. ASSUME errors' = 0 PROVE Reading'
  <2>1. OpenComment(Rest, Scanned)
    BY <1>6 DEF SessionInv, Reading
  <2>2. Scanned + 1 \notin Visible(Rest)
    BY <1>1, <2>1, CommentNext DEF Visible
  <2>3. Effective' = Effective
    BY <1>2 DEF Effective
  <2>4. (Prefix' \/ Spoilt') /\ (Effective' = "BTWMODE" <=> OpenBetween(Rest', Scanned'))
    BY <1>1, <1>6, <2>2, <2>3, Unseen
  <2>5. mode' = "COMMENT" <=> OpenComment(Rest', Scanned')
    BY <1>1, <1>2, <2>1, CommentNext
  <2>6. buf' = <<>> => mode' = "COMMENT"
    BY <1>1
  <2> QED BY <2>4, <2>5, <2>6 DEF Reading
<1> QED BY <1>1, <1>3, <1>4, <1>5, <1>6 DEF SessionInv

LEMMA LexedIs ==
    ASSUME NEW c \in Lexemes, mode \in {"INITIAL", "BTWMODE"}
    PROVE  /\ c = "/*" => Lexed(c)[1] = "" /\ Lexed(c)[2] = "COMMENT"
           /\ c = "space" => Lexed(c)[1] = "" /\ Lexed(c)[2] = mode
           /\ c \notin {"/*", "space"} =>
                /\ Lexed(c)[1] # "" /\ Lexed(c)[1] \in Symbols
                /\ Lexed(c)[1] = IF c # "AND" THEN c ELSE IF mode = "BTWMODE" THEN "AND" ELSE "ANDOP"
                /\ Lexed(c)[2] = IF c = "BETWEEN" THEN "BTWMODE" ELSE IF c = "AND" THEN "INITIAL" ELSE mode
<1>1. CASE c = "/*"
  BY <1>1 DEF Lexed
<1>2. CASE c = "space"
  BY <1>2 DEF Lexed
<1>3. CASE c = "AND"
  BY <1>3 DEF Lexed, Symbols, Lexemes
<1>4. CASE c = "BETWEEN"
  BY <1>4 DEF Lexed, Symbols, Lexemes
<1>5. CASE c \in {"SELECT", "USE", "a", "*/", "semicolon"}
  BY <1>5 DEF Lexed, Symbols, Lexemes
<1> QED BY <1>1, <1>2, <1>3, <1>4, <1>5 DEF Lexemes

LEMMA YyparseType ==
    ASSUME SessionTypeOK, NEW token \in Symbols, yyparse(token)
    PROVE  /\ stack' \in Seq(Symbols) /\ errorNumber' \in Nat
           /\ errorNumber <= errorNumber'
           /\ errorNumber > 0 /\ root = NULL => root' = NULL
<1>1. stack \in Seq(Symbols) /\ errorNumber \in Nat
  BY DEF SessionTypeOK
<1>2. /\ <<"stmt_list">> \in Seq(Symbols) /\ <<"error">> \in Seq(Symbols)
      /\ Append(stack, token) \in Seq(Symbols)
  BY <1>1, AppendProperties DEF Symbols
<1>3. stack' = <<"stmt_list">> \/ stack' = <<"error">> \/ stack' = Append(stack, token)
  BY DEF yyparse, Shift, Recover
<1>4. errorNumber' = errorNumber \/ errorNumber' = errorNumber + 1
  BY DEF yyparse, Shift, Recover, ReduceStatement, ReduceError
<1>5. root' = root \/ root' = NULL \/ errorNumber = 0
  BY DEF yyparse, Shift, Recover, ReduceStatement, ReduceError
<1>6. stack' \in Seq(Symbols)
  BY <1>2, <1>3
<1>7. errorNumber' \in Nat /\ errorNumber <= errorNumber'
  BY <1>1, <1>4
<1> QED BY <1>1, <1>5, <1>6, <1>7

\* A token, in a statement that no earlier error spoils.
LEMMA TokenStep ==
    ASSUME SessionInv, yylex, errors = 0, Head(buf) \notin {"/*", "space"}
    PROVE  Reading'
<1> DEFINE k == Scanned
           c == Head(buf)
           token == Lexed(c)[1]
           next == Append(stack, token)
           C == Count(Rest, Len(Rest))
<1>1. /\ Rest' = Rest /\ Rest \in Seq(Lexemes) /\ Len(Rest) \in Nat
      /\ k \in Nat /\ Scanned' = k + 1 /\ k + 1 \in 1 .. Len(Rest)
      /\ c = Rest[k + 1] /\ c \in Lexemes
      /\ buf' = <<>> <=> k + 1 = Len(Rest)
      /\ c = "semicolon" <=> buf' = <<>>
  BY Consume, LenProperties DEF SessionInv, yylex
<1>2. /\ mode \in {"INITIAL", "BTWMODE"} /\ Reading /\ pc = "scan" /\ buf # <<>>
      /\ stack \in Seq(Symbols) /\ Len(stack) \in Nat
  BY LenProperties DEF SessionInv, SessionTypeOK, yylex
<1>3. /\ token \in Symbols
      /\ token = IF c # "AND" THEN c ELSE IF mode = "BTWMODE" THEN "AND" ELSE "ANDOP"
      /\ mode' = IF c = "BETWEEN" THEN "BTWMODE" ELSE IF c = "AND" THEN "INITIAL" ELSE mode
      /\ yyparse(token)
  <2>1. /\ token # "" /\ token \in Symbols
        /\ token = IF c # "AND" THEN c ELSE IF mode = "BTWMODE" THEN "AND" ELSE "ANDOP"
        /\ Lexed(c)[2] = IF c = "BETWEEN" THEN "BTWMODE" ELSE IF c = "AND" THEN "INITIAL" ELSE mode
    BY <1>1, <1>2, LexedIs
  <2> QED BY <2>1 DEF yylex
<1>4. mode' \in {"INITIAL", "BTWMODE"} /\ Effective = mode /\ Effective' = mode'
  BY <1>2, <1>3 DEF Effective
<1>5. /\ ~ OpenComment(Rest, k) /\ (mode = "BTWMODE" <=> OpenBetween(Rest, k))
      /\ Prefix \/ Spoilt
  BY <1>2, <1>4 DEF Reading, Complete
<1>6. k + 1 \in Visible(Rest) /\ ~ OpenComment(Rest, k + 1)
  BY <1>1, <1>5, CommentNext, LenProperties DEF Visible
<1>7. /\ token = TokenAt(Rest, k + 1)
      /\ mode' = "BTWMODE" <=> OpenBetween(Rest, k + 1)
  BY <1>1, <1>2, <1>3, <1>5, <1>6, BetweenNext
<1>8. /\ Count(Rest, k) \in Nat /\ Count(Rest, k + 1) = Count(Rest, k) + 1
      /\ C \in Nat /\ Count(Rest, k + 1) <= C
      /\ Tokens(Rest)[Count(Rest, k) + 1] = token
      /\ k + 1 = Len(Rest) => C = Count(Rest, k + 1)
  <2>1. Count(Rest, k) \in Nat /\ Count(Rest, k + 1) = Count(Rest, k) + 1
    BY <1>1, <1>6, CountNext
  <2>2. C \in Nat /\ Count(Rest, k + 1) \in 1 .. C /\ Tokens(Rest)[Count(Rest, k + 1)] = token
    BY <1>1, <1>6, <1>7, TokensAre
  <2> QED BY <2>1, <2>2
<1> DEFINE n1 == Count(Rest, k) + 1
<1>9. token = "semicolon" <=> c = "semicolon"
  BY <1>3
<1> HIDE DEF k, c, token, next, C
<1>10. /\ next \in Seq(Symbols) /\ Len(next) = Len(stack) + 1
       /\ \A i \in 1 .. Len(stack) : next[i] = stack[i]
       /\ next[Len(stack) + 1] = token
  BY <1>2, <1>3, AppendProperties DEF next
<1>11. (token = "semicolon" => Complete') /\ (token # "semicolon" => Prefix' \/ Spoilt')
  <2>1. CASE Prefix /\ Viable(next)
    <3>1. /\ stack' = IF token = "semicolon" THEN <<"stmt_list">> ELSE next
          /\ errorNumber' = 0
          /\ token = "semicolon" => root' = next
      BY <1>3, <2>1 DEF yyparse, Shift, ReduceStatement, Prefix, next
    <3>2. Len(next) = n1 /\ \A n \in 1 .. n1 : next[n] = Tokens(Rest)[n]
      <4>1. Len(stack) = Count(Rest, k) /\ \A n \in 1 .. Len(stack) : stack[n] = Tokens(Rest)[n]
        BY <2>1 DEF Prefix, k
      <4> QED BY <1>2, <1>8, <1>10, <4>1
    <3>3. mode' = "BTWMODE" <=> Owed(next)
      <4>1. Owed(next) <=> token = "BETWEEN" \/ (Owed(stack) /\ token # "AND")
        BY <1>2, <1>3, OwedNext DEF next
      <4>2. mode = "BTWMODE" <=> Owed(stack)
        BY <1>4, <2>1 DEF Prefix
      <4> QED BY <1>2, <1>3, <4>1, <4>2
    <3>4. ASSUME token # "semicolon" PROVE Prefix'
      <4>1. stack' = next /\ Viable(stack)' /\ (Owed(stack)' <=> Owed(next))
        BY <2>1, <3>1, <3>4 DEF Viable, Owed
      <4>2. Len(stack') = Count(Rest', Scanned')
        BY <1>1, <1>8, <3>2, <4>1
      <4>3. \A n \in 1 .. Len(stack') : stack'[n] = Tokens(Rest')[n]
        BY <1>1, <3>2, <4>1
      <4> QED BY <1>4, <3>1, <3>3, <4>1, <4>2, <4>3 DEF Prefix
    <3>5. ASSUME token = "semicolon" PROVE Complete'
      <4>1. PICK q \in Sentences : Len(next) <= Len(q) /\ \A n \in 1 .. Len(next) : q[n] = next[n]
        BY <1>10, <2>1, ViableIs
      <4>2. IsSentence(q)
        BY <4>1, SentenceShape
      <4>3. Len(next) = Len(q)
        <5>1. n1 \in 1 .. Len(q) /\ q[n1] = "semicolon"
          BY <1>2, <1>8, <1>10, <3>2, <3>5, <4>1, <4>2 DEF IsSentence
        <5> QED BY <3>2, <4>2, <5>1 DEF IsSentence
      <4>4. next = q
        BY <1>10, <4>1, <4>2, <4>3, SeqEqual DEF IsSentence
      <4>5. Tokens(Rest) = next
        <5>1. C = n1
          BY <1>1, <1>8, <1>9, <3>5
        <5>2. Tokens(Rest) = [n \in 1 .. n1 |-> Tokens(Rest)[n]]
          BY <1>1, <5>1, TokensAre DEF C
        <5>3. next = [n \in 1 .. n1 |-> next[n]]
          BY <1>10, <3>2, LenProperties
        <5> QED BY <3>2, <5>2, <5>3
      <4>6. mode' = "INITIAL"
        <5>1. ~ Owed(next)
          BY <4>2, <4>4 DEF IsSentence, Owed
        <5> QED BY <1>4, <3>3, <5>1
      <4> QED BY <1>1, <1>9, <3>1, <3>5, <4>1, <4>4, <4>5, <4>6 DEF Complete
    <3> QED BY <3>4, <3>5
  <2>2. CASE (Prefix /\ ~ Viable(next)) \/ Spoilt
    <3>1. ~ Viable(next)
      <4>1. ASSUME Spoilt, Viable(next) PROVE FALSE
        <5>1. stack = <<"error">> /\ Len(stack) = 1 /\ stack[1] = "error"
          BY <4>1 DEF Spoilt
        <5>2. Len(next) = 2 /\ next[1] = "error"
          BY <1>10, <5>1
        <5>3. PICK q \in Sentences : Len(next) <= Len(q) /\ \A n \in 1 .. Len(next) : q[n] = next[n]
          BY <1>10, <4>1, ViableIs
        <5>4. Len(q) \in Nat /\ \A i \in 1 .. Len(q) : q[i] \notin {"error", "stmt_list"}
          BY <5>3, SentenceShape DEF IsSentence
        <5>5. 1 \in 1 .. Len(q) /\ q[1] = "error"
          BY <5>2, <5>3, <5>4
        <5> QED BY <5>4, <5>5
      <4> QED BY <2>2, <4>1
    <3>2. PICK m \in 1 .. n1 : ~ Fits(Rest, m)
      <4>1. CASE Spoilt
        BY <1>8, <4>1 DEF Spoilt, k
      <4>2. CASE Prefix
        <5>1. Len(stack) = Count(Rest, k) /\ \A n \in 1 .. Len(stack) : stack[n] = Tokens(Rest)[n]
          BY <4>2 DEF Prefix, k
        <5>2. Len(next) = n1 /\ \A n \in 1 .. n1 : next[n] = Tokens(Rest)[n]
          BY <1>2, <1>8, <1>10, <5>1
        <5>3. ~ Fits(Rest, n1)
          BY <1>10, <3>1, <5>2, ViableIs DEF Fits
        <5> QED BY <1>8, <5>3
      <4> QED BY <2>2, <4>1, <4>2
    <3>3. /\ stack' = IF token = "semicolon" THEN <<"stmt_list">> ELSE <<"error">>
          /\ errorNumber' = IF token = "semicolon" THEN 1 ELSE 0
          /\ token = "semicolon" => root' = NULL
      <4>1. errorNumber = 0 /\ Recover(token)
        BY <1>3, <2>2, <3>1 DEF yyparse, Prefix, Spoilt, next
      <4> QED BY <4>1 DEF Recover, ReduceError
    <3>4. ASSUME token # "semicolon" PROVE Spoilt'
      <4>1. m \in 1 .. Count(Rest', Scanned')
        BY <1>1, <1>8, <3>2
      <4> QED BY <1>1, <3>2, <3>3, <3>4, <4>1 DEF Spoilt, Fits
    <3>5. ASSUME token = "semicolon" PROVE Complete'
      <4>1. m \in 1 .. C
        BY <1>1, <1>8, <1>9, <3>2, <3>5
      <4>2. Tokens(Rest) \notin Sentences
        BY <1>1, <3>2, <4>1, TokensSentence DEF C
      <4> QED BY <1>1, <1>9, <3>3, <3>5, <4>2 DEF Complete
    <3> QED BY <3>4, <3>5
  <2> QED BY <1>5, <2>1, <2>2
<1>12. /\ mode' = "COMMENT" <=> OpenComment(Rest', Scanned')
       /\ Effective' = "BTWMODE" <=> OpenBetween(Rest', Scanned')
  BY <1>1, <1>4, <1>6, <1>7
<1> QED BY <1>1, <1>9, <1>11, <1>12 DEF Reading

LEMMA YylexStep ==
    ASSUME SessionInv, yylex PROVE SessionInv'
<1> DEFINE c == Head(buf)
<1>1. /\ Rest' = Rest /\ Rest \in Seq(Lexemes)
      /\ Scanned \in Nat /\ Scanned' = Scanned + 1 /\ c = Rest[Scanned + 1] /\ c \in Lexemes
      /\ buf' \in Seq(Lexemes) /\ Position' /\ (c = "semicolon" <=> buf' = <<>>)
  BY Consume DEF SessionInv, yylex
<1>2. /\ mode \in {"INITIAL", "BTWMODE"} /\ oldstate \in {"INITIAL", "BTWMODE"}
      /\ pc = "scan" /\ buf # <<>> /\ UNCHANGED <<pc, text, offset, before, errors>>
      /\ SessionTypeOK /\ Carried
  BY DEF SessionInv, SessionTypeOK, yylex
<1>3. CASE c \in {"/*", "space"}
  <2>1. /\ mode' = IF c = "/*" THEN "COMMENT" ELSE mode
        /\ oldstate' = IF c = "/*" THEN mode ELSE oldstate
        /\ UNCHANGED <<stack, root, errorNumber>>
    <3>1. Lexed(c)[1] = "" /\ Lexed(c)[2] = IF c = "/*" THEN "COMMENT" ELSE mode
      BY <1>1, <1>2, <1>3, LexedIs
    <3> QED BY <1>2, <1>3, <3>1 DEF yylex
  <2>2. SessionTypeOK'
    BY <1>1, <1>2, <2>1 DEF SessionTypeOK
  <2>3. Carried'
    BY <1>2, <2>1 DEF Carried
  <2>4. ASSUME errors = 0 PROVE Reading'
    <3>1. ~ OpenComment(Rest, Scanned)
      BY <1>2, <2>4 DEF SessionInv, Reading
    <3>2. Scanned + 1 \notin Visible(Rest)
      BY <1>1, <1>3, CommentNext DEF Visible
    <3>3. Effective' = Effective
      BY <1>2, <2>1 DEF Effective
    <3>4. (Prefix' \/ Spoilt') /\ (Effective' = "BTWMODE" <=> OpenBetween(Rest', Scanned'))
      BY <1>1, <1>2, <2>1, <2>4, <3>2, <3>3, Unseen
    <3>5. mode' = "COMMENT" <=> OpenComment(Rest', Scanned')
      BY <1>1, <1>2, <1>3, <2>1, <3>1, CommentNext
    <3>6. buf' # <<>>
      BY <1>1, <1>3
    <3> QED BY <3>4, <3>5, <3>6 DEF Reading
  <2> QED BY <1>1, <1>2, <2>2, <2>3, <2>4 DEF SessionInv, TreeOfTheRest
<1>4. CASE c \notin {"/*", "space"}
  <2> DEFINE token == Lexed(c)[1]
  <2>1. /\ token \in Symbols /\ yyparse(token)
        /\ mode' \in {"INITIAL", "BTWMODE"} /\ oldstate' = oldstate
    <3>1. /\ token # "" /\ token \in Symbols /\ Lexed(c)[2] \in {"INITIAL", "BTWMODE"}
      BY <1>1, <1>2, <1>4, LexedIs
    <3> QED BY <3>1 DEF yylex
  <2> HIDE DEF token
  <2>2. /\ stack' \in Seq(Symbols) /\ errorNumber' \in Nat
        /\ errorNumber <= errorNumber'
        /\ errorNumber > 0 /\ root = NULL => root' = NULL
    BY <1>2, <2>1, YyparseType
  <2>3. SessionTypeOK'
    BY <1>1, <1>2, <2>1, <2>2 DEF SessionTypeOK
  <2>4. Carried'
    <3>1. /\ errors \in Nat /\ errorNumber \in Nat /\ errors <= errorNumber
          /\ errors > 0 => root = NULL
      BY <1>2 DEF SessionTypeOK, Carried
    <3>2. errors' <= errorNumber' /\ (errors' > 0 => root' = NULL)
      BY <1>2, <2>2, <3>1
    <3> QED BY <1>2, <3>2 DEF Carried
  <2>5. errors = 0 => Reading'
    BY <1>4, TokenStep
  <2> QED BY <1>1, <1>2, <2>3, <2>4, <2>5 DEF SessionInv, TreeOfTheRest
<1> QED BY <1>3, <1>4

LEMMA EndStep ==
    ASSUME SessionInv, yyterminate PROVE SessionInv'
<1> USE DEF yyterminate
<1>1. /\ Rest' = Rest /\ Rest \in Seq(Lexemes)
      /\ SessionTypeOK /\ Position /\ Carried /\ (errors = 0 => Reading)
      /\ mode \in {"INITIAL", "BTWMODE"} /\ errors \in Nat /\ errorNumber \in Nat
  BY RestIs DEF SessionInv, SessionTypeOK, Position, Rest
<1>2. ASSUME errors = 0, ~ Complete PROVE Rest = <<>> /\ mode = "INITIAL"
  <2>1. Rest = <<>> /\ Effective = mode /\ (mode = "BTWMODE" <=> OpenBetween(Rest, Scanned))
    BY <1>1, <1>2 DEF Reading, Effective
  <2>2. Scanned = 0
    <3>1. Len(Rest) = Len(buf) /\ Len(buf) \in Nat
      BY <2>1, LenProperties DEF SessionTypeOK, SessionInv
    <3> QED BY <3>1 DEF Scanned
  <2> QED BY <1>1, <2>1, <2>2, BetweenNext
<1>3. SessionTypeOK'
  BY <1>1 DEF SessionTypeOK
<1>4. Position'
  BY <1>1 DEF Position
<1>5. errorNumber = 0 => errors = 0 /\ mode = "INITIAL"
  BY <1>1, <1>2 DEF Carried, Complete
<1>6. Carried'
  BY <1>1, <1>5 DEF Carried
<1>7. root' = IF errors = 0 /\ Tokens(Rest) \in Sentences THEN Tokens(Rest) ELSE NULL
  <2>1. CASE errors # 0
    BY <1>1, <2>1 DEF Carried
  <2>2. CASE errors = 0 /\ Complete
    BY <2>2 DEF Complete
  <2>3. CASE errors = 0 /\ ~ Complete
    <3>1. Tokens(Rest) \notin Sentences
      BY <1>1, <1>2, <2>3, TokensSentence
    <3>2. stack # <<"stmt_list">>
      <4>1. Prefix \/ Spoilt
        BY <1>1, <2>3 DEF Reading
      <4>2. ASSUME Prefix, stack = <<"stmt_list">> PROVE FALSE
        <5>1. Len(stack) = 1 /\ stack[1] = "stmt_list" /\ stack \in Seq(Symbols)
          BY <1>1, <4>2 DEF SessionTypeOK
        <5>2. PICK q \in Sentences : Len(stack) <= Len(q) /\ \A n \in 1 .. Len(stack) : q[n] = stack[n]
          BY <4>2, <5>1, ViableIs DEF Prefix
        <5>3. Len(q) \in Nat /\ \A i \in 1 .. Len(q) : q[i] \notin {"error", "stmt_list"}
          BY <5>2, SentenceShape DEF IsSentence
        <5>4. 1 \in 1 .. Len(q) /\ q[1] = "stmt_list"
          BY <5>1, <5>2, <5>3
        <5> QED BY <5>3, <5>4
      <4>3. ASSUME Spoilt PROVE stack # <<"stmt_list">>
        <5>1. stack[1] = "error"
          BY <4>3 DEF Spoilt
        <5> QED BY <5>1
      <4> QED BY <4>1, <4>2, <4>3
    <3> QED BY <2>3, <3>1, <3>2
  <2> QED BY <2>1, <2>2, <2>3
<1>8. TreeOfTheRest'
  BY <1>1, <1>7 DEF TreeOfTheRest
<1> QED BY <1>3, <1>4, <1>6, <1>8 DEF SessionInv

LEMMA ExecuteStep ==
    ASSUME SessionInv, execute PROVE SessionInv'
<1> USE DEF execute
<1>1. pc' \in {"prompt", "crashed"} /\ SessionTypeOK /\ Position /\ Carried
  BY DEF SessionInv
<1>2. SessionTypeOK'
  BY <1>1 DEF SessionTypeOK
<1>3. Position'
  BY <1>1 DEF Position
<1>4. Carried'
  BY <1>1 DEF Carried
<1> QED BY <1>1, <1>2, <1>3, <1>4 DEF SessionInv, TreeOfTheRest

LEMMA SessionStutter ==
    ASSUME SessionInv, UNCHANGED sessionVars PROVE SessionInv'
<1> USE DEF sessionVars
<1>1. Rest' = Rest /\ Scanned' = Scanned /\ Effective' = Effective
  BY DEF Rest, Scanned, Effective
<1>2. SessionTypeOK' /\ Position' /\ Carried'
  BY <1>1 DEF SessionInv, SessionTypeOK, Position, Carried
<1>3. Reading => Reading'
  BY <1>1 DEF Reading, Prefix, Spoilt, Complete, Viable, Owed
<1> QED BY <1>1, <1>2, <1>3 DEF SessionInv, TreeOfTheRest

LEMMA SessionInvariant == SessionSpec => []SessionInv
<1>1. ASSUME SessionInv, [SessionNext]_sessionVars PROVE SessionInv'
  <2>1. CASE \E t \in Texts : getparsetreeroot(t)
    BY <1>1, <2>1, TypeStep
  <2>2. CASE readInputForLexer
    BY <1>1, <2>2, RefillStep
  <2>3. CASE SkipComment
    BY <1>1, <2>3, SkipStep
  <2>4. CASE yylex
    BY <1>1, <2>4, YylexStep
  <2>5. CASE yyterminate
    BY <1>1, <2>5, EndStep
  <2>6. CASE execute
    BY <1>1, <2>6, ExecuteStep
  <2>7. CASE UNCHANGED sessionVars
    BY <1>1, <2>7, SessionStutter
  <2> QED BY <1>1, <2>1, <2>2, <2>3, <2>4, <2>5, <2>6, <2>7 DEF SessionNext, Parse
<1> QED BY <1>1, SessionInitInv, PTL DEF SessionSpec

\* What getparsetreeroot returns is the tree of the part of the text behind the
\* previous text's length, or NULL once an earlier statement had an error: for any
\* texts, however many, and any number of errors.
THEOREM TreeFromTheRest == SessionSpec => []TreeOfTheRest
<1>1. SessionInv => TreeOfTheRest
  BY DEF SessionInv
<1> QED BY <1>1, SessionInvariant, PTL

\* The scanner exits over a text that is shorter than the one before, and over no
\* other: the safety part of EveryTextAnswered.
ExitsOverShorter ==
    (pc = "exited" => Len(text) < before) /\ (pc = "prompt" => Len(text) >= before)

\* Whatever was typed before and whatever errors it had: the program exits at the
\* refill if and only if the offset is already behind the text.
THEOREM ExitsIfShorter == SessionSpec => []ExitsOverShorter
<1>1. SessionInv => ExitsOverShorter
  <2> SUFFICES ASSUME SessionInv PROVE ExitsOverShorter
    OBVIOUS
  <2>1. Len(text) \in Nat /\ before \in Nat /\ Position
    BY LenProperties DEF SessionInv, SessionTypeOK
  <2> QED BY <2>1 DEF Position, ExitsOverShorter
<1> QED BY <1>1, SessionInvariant, PTL
=============================================================================

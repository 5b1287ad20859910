---------------------------- MODULE BrokerProofs ----------------------------
(***************************************************************************)
(* Proofs about the broker and its clients, and about the system made of   *)
(* them, for any number of clients, channels, transactions, components and *)
(* calls, and any mailbox limit.                                           *)
(*                                                                         *)
(* The sections build on each other.  Of the broker and any clients: types,*)
(* who holds a channel, where replies go, the signals in step with the     *)
(* packets, where the packets of a transaction can be (PlaceInv), the      *)
(* numbers of a stream (StreamInv).  Of the system: its types and what is  *)
(* asked of whom (SysInv), that its VMs and runtimes are such clients, the *)
(* signals of a VM that is being stopped (SqueezeInv), the order of a      *)
(* stream of which some is lost (RiseInv), what has ended (StoreInv).      *)
(***************************************************************************)
EXTENDS Ailoy, FiniteSetTheorems, TLAPS

USE ClientAssumption, IssuerAssumption

-----------------------------------------------------------------------------
(* Queues.                                                                 *)

\* A queue stays a queue of its type when something is put in or taken out.
LEMMA QueueType ==
    ASSUME NEW S, NEW q \in Seq(S)
    PROVE  /\ \A e \in S : Append(q, e) \in Seq(S)
           /\ q # <<>> => Head(q) \in S /\ Tail(q) \in Seq(S)
  OBVIOUS

\* The same of one queue in a table of queues.
LEMMA QueuesType ==
    ASSUME NEW D, NEW S, NEW f \in [D -> Seq(S)], NEW d
    PROVE  /\ \A e \in S : [f EXCEPT ![d] = Append(@, e)] \in [D -> Seq(S)]
           /\ f[d] # <<>> => [f EXCEPT ![d] = Tail(@)] \in [D -> Seq(S)]
<1>1. CASE d \in D
  BY <1>1, QueueType
<1>2. CASE d \notin D
  BY <1>2
<1> QED
  BY <1>1, <1>2

\* What is in a queue after something is put in or taken out.
LEMMA QueueRange ==
    ASSUME NEW S, NEW q \in Seq(S)
    PROVE  /\ \A e : Range(Append(q, e)) = Range(q) \cup {e}
           /\ q # <<>> => /\ Head(q) \in Range(q)
                         /\ Range(Tail(q)) \subseteq Range(q)
<1>1. ASSUME NEW e
      PROVE  Range(Append(q, e)) = Range(q) \cup {e}
  <2>1. /\ DOMAIN Append(q, e) = 1 .. Len(q) + 1
        /\ \A i \in 1 .. Len(q) : Append(q, e)[i] = q[i]
        /\ Append(q, e)[Len(q) + 1] = e
        /\ DOMAIN q = 1 .. Len(q)
        /\ Len(q) \in Nat
    OBVIOUS
  <2>2. 1 .. Len(q) + 1 = 1 .. Len(q) \cup {Len(q) + 1}
    BY <2>1
  <2> QED
    BY <2>1, <2>2 DEF Range
<1>2. ASSUME q # <<>>
      PROVE  Head(q) \in Range(q) /\ Range(Tail(q)) \subseteq Range(q)
  <2>1. /\ Len(q) \in Nat \ {0}
        /\ DOMAIN q = 1 .. Len(q)
        /\ DOMAIN Tail(q) = 1 .. Len(q) - 1
        /\ \A i \in 1 .. Len(q) - 1 : Tail(q)[i] = q[i + 1]
        /\ Head(q) = q[1]
    BY <1>2
  <2> QED
    BY <2>1 DEF Range
<1> QED
  BY <1>1, <1>2

\* The same of one queue in a table of queues: only that one has changed.
LEMMA QueuesRange ==
    ASSUME NEW D, NEW S, NEW f \in [D -> Seq(S)], NEW d, NEW x \in D
    PROVE  /\ \A e, y : y \in Range([f EXCEPT ![d] = Append(@, e)][x]) =>
                 y \in Range(f[x]) \/ (x = d /\ y = e)
           /\ d \in D /\ f[d] # <<>> =>
                 /\ Head(f[d]) \in Range(f[d])
                 /\ Range([f EXCEPT ![d] = Tail(@)][x]) \subseteq Range(f[x])
<1>1. d \in D =>
      /\ \A e : Range(Append(f[d], e)) = Range(f[d]) \cup {e}
      /\ f[d] # <<>> => /\ Head(f[d]) \in Range(f[d])
                       /\ Range(Tail(f[d])) \subseteq Range(f[d])
  BY QueueRange
<1>2. CASE x = d
  BY <1>1, <1>2
<1>3. CASE x # d
  BY <1>1, <1>3
<1> QED
  BY <1>2, <1>3

-----------------------------------------------------------------------------
(* Type correctness.                                                       *)

\* The packets the broker and its clients make have the type of packets.
LEMMA PacketTypes ==
    /\ \A tx \in TxIds, ok \in BOOLEAN : Respond(tx, ok) \in Packet
    /\ \A tx \in TxIds, n \in Nat, fin, ok \in BOOLEAN :
          RespondExecute(tx, n, fin, ok) \in Packet
    /\ \A tx \in TxIds, t \in RequestType, ch \in Channels \cup {NoChannel},
          arg \in Args \cup {NoArg} :
          [ptype |-> t, tx |-> tx, ch |-> ch, arg |-> arg] \in Packet
    /\ \A p \in Packet : p.tx \in TxIds
  BY DEF Respond, RespondExecute, Packet, Request, Reply

\* A signal about a client is a signal.
LEMMA SignalTypes ==
    /\ AcceptSignal \in Signal /\ StopSignal \in Signal
    /\ \A c \in Clients : RecvSignal(c) \in Signal
  BY DEF AcceptSignal, StopSignal, RecvSignal, Signal

\* A send of a client keeps the types of all it touches.
LEMMA PushType ==
    ASSUME BrokerTypeOK, NEW c \in Clients, NEW p \in Packet, Push(c, p)
    PROVE  /\ inbox' \in [Clients -> Seq(Packet)]
           /\ signals' \in Seq(Signal)
           /\ lost' \in SUBSET TxIds
           /\ early' \in SUBSET Clients
<1>1. p.tx \in TxIds
  BY PacketTypes
<1>2. RecvSignal(c) \in Signal
  BY SignalTypes
<1>3. CASE CanPush(c)
  <2>1. inbox' = [inbox EXCEPT ![c] = Append(@, p)] /\ lost' = lost
    BY <1>3 DEF Push
  <2>2. signals' = signals \/ signals' = Append(signals, RecvSignal(c))
    BY <1>3 DEF Push
  <2>3. early' \in {early, early \cup {c}}
    BY <1>3 DEF Push
  <2>4. Append(inbox[c], p) \in Seq(Packet)
    BY QueueType DEF BrokerTypeOK
  <2>5. inbox' \in [Clients -> Seq(Packet)]
    BY <2>1, QueuesType DEF BrokerTypeOK
  <2>6. signals' \in Seq(Signal)
    <3>1. signals \in Seq(Signal)
      BY DEF BrokerTypeOK
    <3>2. Append(signals, RecvSignal(c)) \in Seq(Signal)
      BY <1>2, <3>1, QueueType
    <3> QED
      BY <2>2, <3>1, <3>2
  <2>7. lost' \in SUBSET TxIds /\ early' \in SUBSET Clients
    BY <2>1, <2>3 DEF BrokerTypeOK
  <2> QED
    BY <2>5, <2>6, <2>7
<1>4. CASE ~CanPush(c)
  BY <1>1, <1>4 DEF Push, BrokerTypeOK
<1> QED
  BY <1>3, <1>4

\* So does a send of the broker, whoever it is to.
LEMMA DeliverType ==
    ASSUME BrokerTypeOK, NEW c, NEW p \in Packet, Deliver(c, p)
    PROVE  /\ outbox' \in [Clients -> Seq(Packet)]
           /\ notes' \in [Clients -> Seq({"recv", "stop"})]
           /\ lost' \in SUBSET TxIds
<1>1. p.tx \in TxIds
  BY PacketTypes
<1>2. CASE socket[c] = "attached" /\ Len(outbox[c]) < Limit
  <2>1. /\ outbox' = [outbox EXCEPT ![c] = Append(@, p)]
        /\ notes' = [notes EXCEPT ![c] = Append(@, "recv")]
        /\ lost' = lost
    BY <1>2 DEF Deliver
  <2>2. outbox' \in [Clients -> Seq(Packet)]
    BY <2>1, QueuesType DEF BrokerTypeOK
  <2>3. notes' \in [Clients -> Seq({"recv", "stop"})]
    BY <2>1, QueuesType DEF BrokerTypeOK
  <2> QED
    BY <2>1, <2>2, <2>3 DEF BrokerTypeOK
<1>3. CASE ~(socket[c] = "attached" /\ Len(outbox[c]) < Limit)
  BY <1>1, <1>3 DEF Deliver, BrokerTypeOK
<1> QED
  BY <1>2, <1>3

\* The broker takes a packet off a mailbox.
LEMMA ReceiveType ==
    ASSUME BrokerTypeOK, NEW c \in Clients, NEW t, Receive(c, t)
    PROVE  /\ Head(inbox[c]) \in Packet
           /\ Head(inbox[c]).tx \in TxIds
           /\ inbox' \in [Clients -> Seq(Packet)]
           /\ signals' \in Seq(Signal)
           /\ running' \in BOOLEAN
           /\ acceptQ' \in Seq(Clients)
           /\ accepting' \in Clients \cup {NoClient}
           /\ socket' \in [Clients -> SocketState]
           /\ early' \in SUBSET Clients
<1>1. Head(inbox[c]) \in Packet /\ Tail(inbox[c]) \in Seq(Packet)
  BY DEF Receive, BrokerTypeOK
<1>2. Tail(signals) \in Seq(Signal)
  BY DEF Receive, PopSignal, BrokerTypeOK
<1> QED
  BY <1>1, <1>2, PacketTypes DEF Receive, PopSignal, BrokerTypeOK, acceptVars

\* Each step of the broker keeps its types.
LEMMA BrokerStepType ==
    ASSUME BrokerTypeOK, BrokerStep
    PROVE  BrokerTypeOK'
<1>1. CASE Accept
  <2>1. signals' \in Seq(Signal)
    BY <1>1, QueueType DEF Accept, PopSignal, BrokerTypeOK
  <2>2. /\ acceptQ' \in Seq(Clients)
        /\ accepting' \in Clients \cup {NoClient}
        /\ socket' \in [Clients -> SocketState]
    <3>1. CASE acceptQ = <<>>
      BY <1>1, <3>1 DEF Accept, acceptVars, BrokerTypeOK
    <3>2. CASE acceptQ # <<>>
      <4>1. Head(acceptQ) \in Clients /\ Tail(acceptQ) \in Seq(Clients)
        BY <3>2, QueueType DEF BrokerTypeOK
      <4> QED
        BY <1>1, <3>2, <4>1 DEF Accept, BrokerTypeOK, SocketState
    <3> QED
      BY <3>1, <3>2
  <2> QED
    BY <1>1, <2>1, <2>2
    DEF Accept, PopSignal, BrokerTypeOK, serverVars, ghostVars
<1>2. CASE Register
  BY <1>2 DEF Register, BrokerTypeOK, clientVars, ghostVars
<1>3. CASE Stopped
  <2>1. signals' \in Seq(Signal)
    BY <1>3, QueueType DEF Stopped, PopSignal, BrokerTypeOK
  <2> QED
    BY <1>3, <2>1
    DEF Stopped, BrokerTypeOK, acceptVars, clientVars, ghostVars
<1>4. ASSUME NEW c \in Clients, HandleRecv(c)
      PROVE  BrokerTypeOK'
  <2>1. CASE IgnoreRecv(c)
    <3>1. signals' \in Seq(Signal)
      BY <2>1, QueueType DEF IgnoreRecv, PopSignal, BrokerTypeOK
    <3> QED
      BY <2>1, <3>1
      DEF IgnoreRecv, BrokerTypeOK, serverVars, acceptVars, clientVars, ghostVars
  <2>2. CASE HandleConnect(c)
    <3>1. Respond(Head(inbox[c]).tx, TRUE) \in Packet
      BY <2>2, ReceiveType, PacketTypes DEF HandleConnect
    <3> QED
      BY <2>2, <3>1, ReceiveType, DeliverType DEF HandleConnect, BrokerTypeOK
  <2>3. CASE HandleDisconnect(c)
    <3>1. Respond(Head(inbox[c]).tx, TRUE) \in Packet
      BY <2>3, ReceiveType, PacketTypes DEF HandleDisconnect
    <3>2. subscriptions' \in [Channels -> Clients \cup {NoClient}]
      BY <2>3 DEF HandleDisconnect, BrokerTypeOK
    <3> QED
      BY <2>3, <3>1, <3>2, ReceiveType, DeliverType
      DEF HandleDisconnect, BrokerTypeOK
  <2>4. CASE HandleSubscribe(c)
    <3> DEFINE p == Head(inbox[c])
               free == subscriptions[p.ch] = NoClient
    <3>1. Respond(p.tx, free) \in Packet
      BY <2>4, ReceiveType, PacketTypes DEF HandleSubscribe
    <3>2. subscriptions' \in [Channels -> Clients \cup {NoClient}]
      BY <2>4 DEF HandleSubscribe, BrokerTypeOK
    <3> QED
      BY <2>4, <3>1, <3>2, ReceiveType, DeliverType
      DEF HandleSubscribe, BrokerTypeOK
  <2>5. CASE HandleUnsubscribe(c)
    <3> DEFINE p == Head(inbox[c])
               mine == subscriptions[p.ch] = c
    <3>1. Respond(p.tx, mine) \in Packet
      BY <2>5, ReceiveType, PacketTypes DEF HandleUnsubscribe
    <3>2. subscriptions' \in [Channels -> Clients \cup {NoClient}]
      BY <2>5 DEF HandleUnsubscribe, BrokerTypeOK
    <3> QED
      BY <2>5, <3>1, <3>2, ReceiveType, DeliverType
      DEF HandleUnsubscribe, BrokerTypeOK
  <2>6. CASE HandleExecute(c)
    <3> DEFINE p == Head(inbox[c])
               target == subscriptions[p.ch]
    <3>1. p \in Packet /\ RespondExecute(p.tx, 0, TRUE, FALSE) \in Packet
      BY <2>6, ReceiveType, PacketTypes DEF HandleExecute
    <3>2. transactions' \in [TxIds -> Clients \cup {NoClient}]
      BY <2>6 DEF HandleExecute, BrokerTypeOK
    <3>3. \/ Deliver(c, RespondExecute(p.tx, 0, TRUE, FALSE))
          \/ Deliver(target, p)
      BY <2>6 DEF HandleExecute
    <3>4. /\ outbox' \in [Clients -> Seq(Packet)]
          /\ notes' \in [Clients -> Seq({"recv", "stop"})]
          /\ lost' \in SUBSET TxIds
      BY <3>1, <3>3, DeliverType
    <3> QED
      BY <2>6, <3>2, <3>4, ReceiveType DEF HandleExecute, BrokerTypeOK
  <2>7. CASE HandleRespondExecute(c)
    <3> DEFINE p == Head(inbox[c])
               target == transactions[p.tx]
    <3>1. p \in Packet
      BY <2>7, ReceiveType DEF HandleRespondExecute
    <3>2. transactions' \in [TxIds -> Clients \cup {NoClient}]
      BY <2>7 DEF HandleRespondExecute, BrokerTypeOK
    <3>3. \/ UNCHANGED <<outbox, notes, lost>>
          \/ Deliver(target, p)
      BY <2>7 DEF HandleRespondExecute
    <3>4. /\ outbox' \in [Clients -> Seq(Packet)]
          /\ notes' \in [Clients -> Seq({"recv", "stop"})]
          /\ lost' \in SUBSET TxIds
      BY <3>1, <3>3, DeliverType DEF BrokerTypeOK
    <3> QED
      BY <2>7, <3>2, <3>4, ReceiveType DEF HandleRespondExecute, BrokerTypeOK
  <2> QED
    BY <1>4, <2>1, <2>2, <2>3, <2>4, <2>5, <2>6, <2>7 DEF HandleRecv
<1> QED
  BY <1>1, <1>2, <1>3, <1>4 DEF BrokerStep

\* Each step of a client keeps all types, those of its own tables included.
LEMMA ClientStepType ==
    ASSUME TypeOK, NEW c \in Clients, ClientStep(c)
    PROVE  TypeOK'
<1> USE DEF TypeOK
<1>1. CASE Connect(c)
  <2>1. signals' \in Seq(Signal)
    BY <1>1, SignalTypes, QueueType DEF Connect, Dial, BrokerTypeOK
  <2>2. acceptQ' \in Seq(Clients)
    <3>1. acceptQ \in Seq(Clients) /\ acceptQ' \in {acceptQ, Append(acceptQ, c)}
      BY <1>1 DEF Connect, Dial, BrokerTypeOK
    <3>2. Append(acceptQ, c) \in Seq(Clients)
      BY <3>1, QueueType
    <3> QED
      BY <3>1, <3>2
  <2>3. socket' \in [Clients -> SocketState]
    BY <1>1 DEF Connect, Dial, BrokerTypeOK, SocketState
  <2> QED
    BY <1>1, <2>1, <2>2, <2>3
    DEF Connect, Dial, BrokerTypeOK, serverVars, ghostVars, peerVars
<1>2. ASSUME NEW tx \in TxIds, NEW t \in RequestType,
             NEW ch \in Channels \cup {NoChannel}, NEW arg \in Args \cup {NoArg},
             SendRequest(c, tx, t, ch, arg)
      PROVE  TypeOK'
  <2> DEFINE p == [ptype |-> t, tx |-> tx, ch |-> ch, arg |-> arg]
  <2>1. p \in Packet /\ Push(c, p)
    BY <1>2, PacketTypes DEF SendRequest
  <2> QED
    BY <1>2, <2>1, PushType
    DEF SendRequest, BrokerTypeOK, serverVars, acceptVars, clientVars
<1>3. ASSUME NEW tx \in TxIds, NEW fin \in BOOLEAN, NEW ok \in BOOLEAN,
             SendReply(c, tx, fin, ok)
      PROVE  TypeOK'
  <2> DEFINE p == RespondExecute(tx, next[tx], fin, ok)
  <2>1. p \in Packet /\ Push(c, p)
    BY <1>3, PacketTypes DEF SendReply
  <2>2. /\ next' \in [TxIds -> Nat]
        /\ worker' \in [TxIds -> Clients \cup {NoClient}]
    BY <1>3 DEF SendReply
  <2> QED
    BY <1>3, <2>1, <2>2, PushType
    DEF SendReply, BrokerTypeOK, serverVars, acceptVars, clientVars
<1>4. CASE Listen(c)
  <2>1. notes' \in [Clients -> Seq({"recv", "stop"})]
    BY <1>4, QueuesType DEF Listen, BrokerTypeOK
  <2>2. /\ outbox' \in [Clients -> Seq(Packet)]
        /\ worker' \in [TxIds -> Clients \cup {NoClient}]
        /\ got' \in [TxIds -> Nat]
    <3>1. CASE outbox[c] = <<>>
      BY <1>4, <3>1 DEF Listen, BrokerTypeOK
    <3>2. CASE outbox[c] # <<>>
      <4> DEFINE p == Head(outbox[c])
      <4>1. /\ outbox' = [outbox EXCEPT ![c] = Tail(@)]
            /\ worker' = IF p.ptype = "execute" THEN [worker EXCEPT ![p.tx] = c]
                         ELSE worker
            /\ got' = IF p.ptype = "respond_execute"
                      THEN [got EXCEPT ![p.tx] = @ + 1] ELSE got
        BY <1>4, <3>2 DEF Listen
      <4>2. outbox' \in [Clients -> Seq(Packet)]
        BY <3>2, <4>1, QueuesType DEF BrokerTypeOK
      <4>3. worker' \in [TxIds -> Clients \cup {NoClient}]
        BY <4>1
      <4>4. got' \in [TxIds -> Nat]
        <5>1. p.tx \in TxIds
          BY <3>2, QueueType, PacketTypes DEF BrokerTypeOK
        <5>2. got[p.tx] + 1 \in Nat
          BY <5>1
        <5> QED
          BY <4>1, <5>1, <5>2
      <4> QED
        BY <4>2, <4>3, <4>4
    <3> QED
      BY <3>1, <3>2
  <2> QED
    BY <1>4, <2>1, <2>2
    DEF Listen, BrokerTypeOK, serverVars, acceptVars, ghostVars
<1>5. CASE Stop(c)
  <2>1. notes' \in [Clients -> Seq({"recv", "stop"})]
    BY <1>5, QueuesType DEF Stop, BrokerTypeOK
  <2> QED
    BY <1>5, <2>1
    DEF Stop, BrokerTypeOK, serverVars, acceptVars, ghostVars, peerVars
<1>6. CASE TakeStop(c)
  <2>1. notes' \in [Clients -> Seq({"recv", "stop"})]
    BY <1>6, QueuesType DEF TakeStop, BrokerTypeOK
  <2> QED
    BY <1>6, <2>1
    DEF TakeStop, BrokerTypeOK, serverVars, acceptVars, ghostVars, peerVars
<1>7. CASE Close(c)
  BY <1>7
  DEF Close, Hangup, BrokerTypeOK, SocketState, serverVars, acceptVars, ghostVars
<1> QED
  BY <1>1, <1>2, <1>3, <1>4, <1>5, <1>6, <1>7 DEF ClientStep, RequestType

LEMMA TypeStep == TypeOK /\ [Next]_vars => TypeOK'
<1> SUFFICES ASSUME TypeOK, [Next]_vars
             PROVE  TypeOK'
  OBVIOUS
<1>1. CASE BrokerAct
  BY <1>1, BrokerStepType DEF BrokerAct, TypeOK, peerVars
<1>2. CASE StopBroker
  <2>1. signals' \in Seq(Signal)
    BY <1>2, SignalTypes, QueueType
    DEF StopBroker, BrokerStop, TypeOK, BrokerTypeOK
  <2> QED
    BY <1>2, <2>1
    DEF StopBroker, BrokerStop, TypeOK, BrokerTypeOK, serverVars, acceptVars,
        clientVars, ghostVars, peerVars
<1>3. ASSUME NEW c \in Clients, ClientStep(c)
      PROVE  TypeOK'
  BY <1>3, ClientStepType
<1>4. CASE UNCHANGED vars
  BY <1>4
  DEF vars, brokerVars, serverVars, acceptVars, clientVars, ghostVars, peerVars,
      TypeOK, BrokerTypeOK
<1> QED
  BY <1>1, <1>2, <1>3, <1>4 DEF Next

LEMMA TypeStarts == Init => TypeOK
  BY DEF Init, BrokerInit, TypeOK, BrokerTypeOK, SocketState

\* Every variable of the broker and its clients keeps its type.
THEOREM TypeCorrect == Spec => []TypeOK
  BY TypeStarts, TypeStep, PTL DEF Spec

-----------------------------------------------------------------------------
(* Who holds a channel.                                                    *)

\* A channel is held by a connected client, whatever the number of clients
\* and channels: the disconnect releases the channels of its client.
THEOREM Connected == Spec => []SubscriberIsConnected
<1>1. Init => SubscriberIsConnected
  BY DEF Init, BrokerInit, SubscriberIsConnected
<1>2. TypeOK /\ SubscriberIsConnected /\ [Next]_vars => SubscriberIsConnected'
  <2> SUFFICES ASSUME TypeOK, SubscriberIsConnected, [Next]_vars
               PROVE  SubscriberIsConnected'
    OBVIOUS
  <2> USE DEF SubscriberIsConnected
  <2>1. CASE Accept
    BY <2>1 DEF Accept, serverVars
  <2>2. CASE Register
    BY <2>2 DEF Register
  <2>3. CASE Stopped
    BY <2>3 DEF Stopped
  <2>4. ASSUME NEW c \in Clients, HandleRecv(c)
        PROVE  SubscriberIsConnected'
    <3>1. CASE IgnoreRecv(c)
      BY <3>1 DEF IgnoreRecv, serverVars
    <3>2. CASE HandleConnect(c)
      BY <3>2 DEF HandleConnect
    <3>3. CASE HandleDisconnect(c)
      BY <3>3 DEF HandleDisconnect
    <3>4. CASE HandleSubscribe(c)
      BY <3>4 DEF HandleSubscribe, Receive, TypeOK, BrokerTypeOK
    <3>5. CASE HandleUnsubscribe(c)
      BY <3>5 DEF HandleUnsubscribe, TypeOK, BrokerTypeOK
    <3>6. CASE HandleExecute(c)
      BY <3>6 DEF HandleExecute
    <3>7. CASE HandleRespondExecute(c)
      BY <3>7 DEF HandleRespondExecute
    <3> QED
      BY <2>4, <3>1, <3>2, <3>3, <3>4, <3>5, <3>6, <3>7 DEF HandleRecv
  <2>5. CASE StopBroker
    BY <2>5 DEF StopBroker, BrokerStop, serverVars
  <2>6. ASSUME NEW c \in Clients, ClientStep(c)
        PROVE  SubscriberIsConnected'
    BY <2>6
    DEF ClientStep, Connect, Dial, SendRequest, SendReply, Listen, Stop, TakeStop,
        Close, serverVars
  <2>7. CASE UNCHANGED vars
    BY <2>7 DEF vars, brokerVars, serverVars
  <2> QED
    BY <2>1, <2>2, <2>3, <2>4, <2>5, <2>6, <2>7 DEF Next, BrokerAct, BrokerStep
<1> QED
  BY <1>1, <1>2, TypeCorrect, PTL DEF Spec

\* No client loses a channel to another one: only the unsubscribe and the
\* disconnect of its holder release it, and nobody takes it over.
THEOREM NobodyHijacks == Spec => NoHijack
<1> DEFINE Keeps(ch) ==
      LET c == subscriptions[ch]
      IN  c # NoClient /\ subscriptions'[ch] # c
          => /\ subscriptions'[ch] = NoClient
             /\ inbox[c] # <<>> /\ inbox'[c] = Tail(inbox[c])
             /\ LET p == Head(inbox[c])
                IN \/ p.ptype = "disconnect"
                   \/ p.ptype = "unsubscribe" /\ p.ch = ch
<1>1. TypeOK /\ [Next]_vars => [\A ch \in Channels : Keeps(ch)]_vars
  <2> SUFFICES ASSUME TypeOK, [Next]_vars, NEW ch \in Channels
               PROVE  Keeps(ch)
    OBVIOUS
  <2>1. ASSUME UNCHANGED subscriptions
        PROVE  Keeps(ch)
    BY <2>1
  <2>2. CASE Accept \/ Register \/ Stopped
    BY <2>1, <2>2 DEF Accept, Register, Stopped, serverVars
  <2>3. ASSUME NEW c \in Clients, HandleRecv(c)
        PROVE  Keeps(ch)
    <3>1. CASE \/ IgnoreRecv(c) \/ HandleConnect(c) \/ HandleExecute(c)
               \/ HandleRespondExecute(c)
      BY <2>1, <3>1
      DEF IgnoreRecv, HandleConnect, HandleExecute, HandleRespondExecute, serverVars
    <3>2. CASE HandleDisconnect(c)
      BY <3>2 DEF HandleDisconnect, Receive, TypeOK, BrokerTypeOK
    <3>3. CASE HandleSubscribe(c)
      BY <3>3 DEF HandleSubscribe, TypeOK, BrokerTypeOK
    <3>4. CASE HandleUnsubscribe(c)
      BY <3>4 DEF HandleUnsubscribe, Receive, TypeOK, BrokerTypeOK
    <3> QED
      BY <2>3, <3>1, <3>2, <3>3, <3>4 DEF HandleRecv
  <2>4. CASE StopBroker
    BY <2>1, <2>4 DEF StopBroker, BrokerStop, serverVars
  <2>5. ASSUME NEW c \in Clients, ClientStep(c)
        PROVE  Keeps(ch)
    <3>1. UNCHANGED subscriptions
      BY <2>5
      DEF ClientStep, Connect, Dial, SendRequest, SendReply, Listen, Stop,
          TakeStop, Close, serverVars
    <3> QED
      BY <2>1, <3>1
  <2>6. CASE UNCHANGED vars
    BY <2>1, <2>6 DEF vars, brokerVars, serverVars
  <2> QED
    BY <2>2, <2>3, <2>4, <2>5, <2>6 DEF Next, BrokerAct, BrokerStep
<1>2. [][\A ch \in Channels : Keeps(ch)]_vars => NoHijack
  BY PTL DEF NoHijack
<1> QED
  BY <1>1, <1>2, TypeCorrect, PTL DEF Spec

-----------------------------------------------------------------------------
(* Where replies go.                                                       *)

\* What a client asks for, it asks under a uuid of its own.
RequestsAreOwn ==
    \A c \in Clients : \A p \in Range(inbox[c]) :
        p.ptype \in RequestType => Issuer[p.tx] = c

\* A transaction is recorded for the client that began it.
TransactionsAreOwn ==
    \A tx \in TxIds : transactions[tx] \in {NoClient, Issuer[tx]}

\* RepliesReachTheIssuer, in terms of what is in the mailbox.
RepliesAreOwn ==
    \A c \in Clients : \A p \in Range(outbox[c]) :
        IsReply(p) => Issuer[p.tx] = c

RoutingInv == RequestsAreOwn /\ TransactionsAreOwn /\ RepliesAreOwn

\* The packets the broker makes are replies under the uuid they are given.
LEMMA ReplyFields ==
    \A tx, n, fin, ok :
        /\ Respond(tx, ok).tx = tx
        /\ RespondExecute(tx, n, fin, ok).tx = tx
        /\ RespondExecute(tx, n, fin, ok).ptype \notin RequestType
  BY DEF Respond, RespondExecute, RequestType

\* A packet the client of c sends is all that is new in the mailboxes.
LEMMA PushRange ==
    ASSUME BrokerTypeOK, NEW c \in Clients, NEW p, Push(c, p)
    PROVE  \A d \in Clients : \A y \in Range(inbox'[d]) :
              y \in Range(inbox[d]) \/ (d = c /\ y = p)
<1>1. CASE CanPush(c)
  <2>1. /\ inbox' = [inbox EXCEPT ![c] = Append(@, p)]
        /\ inbox \in [Clients -> Seq(Packet)]
    BY <1>1 DEF Push, BrokerTypeOK
  <2> QED
    BY <2>1, QueuesRange
<1>2. CASE ~CanPush(c)
  BY <1>2 DEF Push
<1> QED
  BY <1>1, <1>2

\* So is a packet the broker sends.
LEMMA DeliverRange ==
    ASSUME BrokerTypeOK, NEW c, NEW p, Deliver(c, p)
    PROVE  \A d \in Clients : \A y \in Range(outbox'[d]) :
              y \in Range(outbox[d]) \/ (d = c /\ y = p)
<1>1. CASE socket[c] = "attached" /\ Len(outbox[c]) < Limit
  <2>1. /\ outbox' = [outbox EXCEPT ![c] = Append(@, p)]
        /\ outbox \in [Clients -> Seq(Packet)]
    BY <1>1 DEF Deliver, BrokerTypeOK
  <2> QED
    BY <2>1, QueuesRange
<1>2. CASE ~(socket[c] = "attached" /\ Len(outbox[c]) < Limit)
  BY <1>2 DEF Deliver
<1> QED
  BY <1>1, <1>2

\* A reply to its own issuer, or a packet that is no reply, does no harm.
LEMMA DeliverOwn ==
    ASSUME BrokerTypeOK, RepliesAreOwn, NEW c, NEW p, Deliver(c, p),
           IsReply(p) => Issuer[p.tx] = c
    PROVE  RepliesAreOwn'
<1> SUFFICES ASSUME NEW d \in Clients, NEW y \in Range(outbox'[d]), IsReply(y)
             PROVE  Issuer[y.tx] = d
  BY DEF RepliesAreOwn, IsReply
<1>1. y \in Range(outbox[d]) \/ (d = c /\ y = p)
  BY DeliverRange
<1> QED
  BY <1>1 DEF RepliesAreOwn

\* What the broker takes off a mailbox was in it, and nothing else is new.
LEMMA ReceiveOwn ==
    ASSUME BrokerTypeOK, RequestsAreOwn, NEW c \in Clients, NEW t, Receive(c, t)
    PROVE  /\ RequestsAreOwn'
           /\ Head(inbox[c]) \in Packet
           /\ Head(inbox[c]).ptype = t
           /\ Head(inbox[c]).tx \in TxIds
           /\ t \in RequestType => Issuer[Head(inbox[c]).tx] = c
<1>1. inbox[c] # <<>> /\ inbox' = [inbox EXCEPT ![c] = Tail(@)]
  BY DEF Receive
<1>2. \A d \in Clients : Range(inbox'[d]) \subseteq Range(inbox[d])
  <2>1. inbox \in [Clients -> Seq(Packet)]
    BY DEF BrokerTypeOK
  <2>2. \A d \in Clients : Range([inbox EXCEPT ![c] = Tail(@)][d]) \subseteq Range(inbox[d])
    BY <1>1, <2>1, QueuesRange
  <2> QED
    BY <1>1, <2>2
<1>3. Head(inbox[c]) \in Range(inbox[c])
  BY <1>1, QueuesRange DEF BrokerTypeOK
<1>4. RequestsAreOwn'
  BY <1>2 DEF RequestsAreOwn
<1>5. Head(inbox[c]).ptype = t
  BY DEF Receive
<1>6. Head(inbox[c]) \in Packet /\ Head(inbox[c]).tx \in TxIds
  BY ReceiveType
<1> QED
  BY <1>3, <1>4, <1>5, <1>6 DEF RequestsAreOwn

\* Each step of the broker keeps the invariant.
LEMMA BrokerStepRouting ==
    ASSUME BrokerTypeOK, RoutingInv, BrokerStep
    PROVE  RoutingInv'
<1> USE DEF RoutingInv
<1>1. ASSUME UNCHANGED <<inbox, outbox, transactions>>
      PROVE  RoutingInv'
  BY <1>1 DEF RequestsAreOwn, TransactionsAreOwn, RepliesAreOwn
<1>2. CASE Accept \/ Register \/ Stopped
  BY <1>1, <1>2 DEF Accept, Register, Stopped, serverVars, clientVars
<1>3. ASSUME NEW c \in Clients, HandleRecv(c)
      PROVE  RoutingInv'
  <2> DEFINE p == Head(inbox[c])
  <2>1. ASSUME NEW t \in RequestType, Receive(c, t), NEW ok,
               Deliver(c, Respond(p.tx, ok)), UNCHANGED transactions
        PROVE  RoutingInv'
    <3>1. RequestsAreOwn' /\ Issuer[p.tx] = c
      BY <2>1, ReceiveOwn
    <3>2. RepliesAreOwn'
      BY <2>1, <3>1, DeliverOwn, ReplyFields
    <3>3. TransactionsAreOwn'
      BY <2>1 DEF TransactionsAreOwn
    <3> QED
      BY <3>1, <3>2, <3>3
  <2>2. CASE IgnoreRecv(c)
    BY <1>1, <2>2 DEF IgnoreRecv, serverVars, clientVars
  <2>3. CASE HandleConnect(c)
    BY <2>1, <2>3 DEF HandleConnect, RequestType
  <2>4. CASE HandleDisconnect(c)
    BY <2>1, <2>4 DEF HandleDisconnect, RequestType
  <2>5. CASE HandleSubscribe(c)
    BY <2>1, <2>5 DEF HandleSubscribe, RequestType
  <2>6. CASE HandleUnsubscribe(c)
    BY <2>1, <2>6 DEF HandleUnsubscribe, RequestType
  <2>7. CASE HandleExecute(c)
    <3> DEFINE target == subscriptions[p.ch]
               refusal == RespondExecute(p.tx, 0, TRUE, FALSE)
    <3>1. /\ RequestsAreOwn' /\ Issuer[p.tx] = c
          /\ p \in Packet /\ p.tx \in TxIds /\ p.ptype = "execute"
      BY <2>7, ReceiveOwn DEF HandleExecute, RequestType
    <3>2. CASE target = NoClient
      <4>1. Deliver(c, refusal) /\ UNCHANGED transactions
        BY <2>7, <3>2 DEF HandleExecute
      <4>2. refusal.tx = p.tx
        BY DEF RespondExecute
      <4>3. RepliesAreOwn'
        BY <3>1, <4>1, <4>2, DeliverOwn
      <4> QED
        BY <3>1, <4>1, <4>3 DEF TransactionsAreOwn
    <3>3. CASE target # NoClient
      <4>1. /\ Deliver(target, p)
            /\ transactions' = [transactions EXCEPT ![p.tx] = c]
        BY <2>7, <3>3 DEF HandleExecute
      <4>2. RepliesAreOwn'
        BY <3>1, <4>1, DeliverOwn DEF IsReply
      <4>3. TransactionsAreOwn'
        BY <3>1, <4>1 DEF TransactionsAreOwn, BrokerTypeOK
      <4> QED
        BY <3>1, <4>2, <4>3
    <3> QED
      BY <3>2, <3>3
  <2>8. CASE HandleRespondExecute(c)
    <3> DEFINE target == transactions[p.tx]
    <3>1. RequestsAreOwn' /\ p.tx \in TxIds
      BY <2>8, ReceiveOwn DEF HandleRespondExecute
    <3>2. CASE target = NoClient
      <4>1. UNCHANGED <<transactions, outbox>>
        BY <2>8, <3>2 DEF HandleRespondExecute
      <4> QED
        BY <3>1, <4>1 DEF TransactionsAreOwn, RepliesAreOwn
    <3>3. CASE target # NoClient
      <4>1. /\ Deliver(target, p)
            /\ transactions' \in {transactions,
                                  [transactions EXCEPT ![p.tx] = NoClient]}
        BY <2>8, <3>3 DEF HandleRespondExecute
      <4>2. target = Issuer[p.tx]
        BY <3>1, <3>3 DEF BrokerTypeOK, TransactionsAreOwn
      <4>3. RepliesAreOwn'
        BY <4>1, <4>2, DeliverOwn
      <4>4. TransactionsAreOwn'
        BY <4>1 DEF TransactionsAreOwn, BrokerTypeOK
      <4> QED
        BY <3>1, <4>3, <4>4
    <3> QED
      BY <3>2, <3>3
  <2> QED
    BY <1>3, <2>2, <2>3, <2>4, <2>5, <2>6, <2>7, <2>8 DEF HandleRecv
<1> QED
  BY <1>2, <1>3 DEF BrokerStep

\* So does each step of a client: its requests are its own, and its replies
\* are bound by nothing.
LEMMA ClientStepRouting ==
    ASSUME TypeOK, RoutingInv, NEW c \in Clients, ClientStep(c)
    PROVE  RoutingInv'
<1> USE DEF RoutingInv, TypeOK
<1>1. ASSUME UNCHANGED <<inbox, outbox, transactions>>
      PROVE  RoutingInv'
  BY <1>1 DEF RequestsAreOwn, TransactionsAreOwn, RepliesAreOwn
<1>2. ASSUME NEW p, Push(c, p), UNCHANGED <<outbox, transactions>>,
             p.ptype \in RequestType => Issuer[p.tx] = c
      PROVE  RoutingInv'
  <2>1. RequestsAreOwn'
    <3> SUFFICES ASSUME NEW d \in Clients, NEW y \in Range(inbox'[d]),
                        y.ptype \in RequestType
                 PROVE  Issuer[y.tx] = d
      BY DEF RequestsAreOwn
    <3>1. y \in Range(inbox[d]) \/ (d = c /\ y = p)
      BY <1>2, PushRange
    <3> QED
      BY <1>2, <3>1 DEF RequestsAreOwn
  <2> QED
    BY <1>2, <2>1 DEF TransactionsAreOwn, RepliesAreOwn
<1>3. CASE Connect(c) \/ Stop(c) \/ TakeStop(c)
  BY <1>1, <1>3 DEF Connect, Dial, Stop, TakeStop, serverVars
<1>4. ASSUME NEW tx, NEW t, NEW ch, NEW arg, SendRequest(c, tx, t, ch, arg)
      PROVE  RoutingInv'
  BY <1>2, <1>4 DEF SendRequest, clientVars, serverVars
<1>5. ASSUME NEW tx, NEW fin, NEW ok, SendReply(c, tx, fin, ok)
      PROVE  RoutingInv'
  BY <1>2, <1>5, ReplyFields DEF SendReply, clientVars, serverVars
<1>6. CASE Listen(c)
  <2>1. \A d \in Clients : Range(outbox'[d]) \subseteq Range(outbox[d])
    <3>1. CASE outbox[c] = <<>>
      BY <1>6, <3>1 DEF Listen
    <3>2. CASE outbox[c] # <<>>
      <4>1. outbox' = [outbox EXCEPT ![c] = Tail(@)]
        BY <1>6, <3>2 DEF Listen
      <4> QED
        <5>1. outbox \in [Clients -> Seq(Packet)]
          BY DEF BrokerTypeOK
        <5>2. \A d \in Clients :
                 Range([outbox EXCEPT ![c] = Tail(@)][d]) \subseteq Range(outbox[d])
          BY <3>2, <5>1, QueuesRange
        <5> QED
          BY <4>1, <5>2
    <3> QED
      BY <3>1, <3>2
  <2>2. UNCHANGED <<inbox, transactions>>
    BY <1>6 DEF Listen, serverVars
  <2> QED
    BY <2>1, <2>2 DEF RequestsAreOwn, TransactionsAreOwn, RepliesAreOwn
<1>7. CASE Close(c)
  <2>1. /\ UNCHANGED <<inbox, transactions>>
        /\ outbox' = [outbox EXCEPT ![c] = <<>>]
    BY <1>7 DEF Close, Hangup, serverVars
  <2>2. \A d \in Clients : Range(outbox'[d]) \subseteq Range(outbox[d])
    <3>1. Range(<<>>) = {}
      BY DEF Range
    <3> QED
      BY <2>1, <3>1 DEF BrokerTypeOK
  <2> QED
    BY <2>1, <2>2 DEF RequestsAreOwn, TransactionsAreOwn, RepliesAreOwn
<1> QED
  BY <1>3, <1>4, <1>5, <1>6, <1>7 DEF ClientStep

\* Every packet on its way is under a uuid of the client it is for or from.
LEMMA RoutingStarts == Init => RoutingInv
  BY DEF Init, BrokerInit, RoutingInv, RequestsAreOwn, TransactionsAreOwn,
         RepliesAreOwn, Range

LEMMA RoutingStep == TypeOK /\ RoutingInv /\ [Next]_vars => RoutingInv'
<1> SUFFICES ASSUME TypeOK, RoutingInv, [Next]_vars
             PROVE  RoutingInv'
  OBVIOUS
<1>1. CASE BrokerAct
  BY <1>1, BrokerStepRouting DEF BrokerAct, TypeOK
<1>2. ASSUME NEW c \in Clients, ClientStep(c)
      PROVE  RoutingInv'
  BY <1>2, ClientStepRouting
<1>3. ASSUME UNCHANGED <<inbox, outbox, transactions>>
      PROVE  RoutingInv'
  BY <1>3
  DEF RoutingInv, RequestsAreOwn, TransactionsAreOwn, RepliesAreOwn
<1>4. CASE StopBroker
  BY <1>3, <1>4 DEF StopBroker, BrokerStop, serverVars, clientVars
<1>5. CASE UNCHANGED vars
  BY <1>3, <1>5 DEF vars, brokerVars, serverVars, clientVars
<1> QED
  BY <1>1, <1>2, <1>4, <1>5 DEF Next

\* A reply is in the mailbox of the client that asked and in no other,
\* whatever the clients send each other and however many there are.
THEOREM RepliesAreRouted == Spec => []RepliesReachTheIssuer
<1>1. TypeOK /\ RoutingInv => RepliesReachTheIssuer
  BY DEF RoutingInv, RepliesAreOwn, RepliesReachTheIssuer, Range
<1> QED
  BY <1>1, RoutingStarts, RoutingStep, TypeCorrect, PTL DEF Spec

\* How many of the elements of S stand before position i of a queue, and in
\* all of it.
NumberBefore(q, S, i) == Cardinality({j \in 1 .. i - 1 : q[j] \in S})
NumberIn(q, S) == NumberBefore(q, S, Len(q) + 1)

\* Such a number counts a finite set.
LEMMA NumberType ==
    ASSUME NEW q, NEW S, NEW i \in Nat
    PROVE  /\ IsFiniteSet({j \in 1 .. i - 1 : q[j] \in S})
           /\ NumberBefore(q, S, i) \in Nat
           /\ NumberBefore(q, S, 1) = 0
<1>1. IsFiniteSet(1 .. i - 1)
  BY FS_Interval
<1>2. IsFiniteSet({j \in 1 .. i - 1 : q[j] \in S})
  <2>1. {j \in 1 .. i - 1 : q[j] \in S} \in SUBSET (1 .. i - 1)
    OBVIOUS
  <2> QED
    BY <1>1, <2>1, FS_Subset
<1>3. NumberBefore(q, S, 1) = 0
  <2>1. {j \in 1 .. 1 - 1 : q[j] \in S} = {}
    OBVIOUS
  <2> QED
    BY <2>1, FS_EmptySet DEF NumberBefore
<1> QED
  BY <1>2, <1>3, FS_CardinalityType DEF NumberBefore

\* Going one position further.
LEMMA NumberNext ==
    ASSUME NEW q, NEW S, NEW i \in Nat \ {0}
    PROVE  NumberBefore(q, S, i + 1)
              = NumberBefore(q, S, i) + (IF q[i] \in S THEN 1 ELSE 0)
<1> DEFINE A == {j \in 1 .. i - 1 : q[j] \in S}
           B == {j \in 1 .. (i + 1) - 1 : q[j] \in S}
<1>1. 1 .. (i + 1) - 1 = 1 .. i - 1 \cup {i} /\ i \notin 1 .. i - 1
  OBVIOUS
<1>2. IsFiniteSet(A) /\ NumberBefore(q, S, i) \in Nat
  BY NumberType
<1>3. CASE q[i] \in S
  <2>1. B = A \cup {i} /\ i \notin A
    BY <1>1, <1>3
  <2>2. Cardinality(B) = Cardinality(A) + 1
    BY <1>2, <2>1, FS_AddElement
  <2> QED
    BY <2>2, <1>3 DEF NumberBefore
<1>4. CASE q[i] \notin S
  <2>1. B = A
    BY <1>1, <1>4
  <2>2. NumberBefore(q, S, i + 1) = NumberBefore(q, S, i)
    BY <2>1 DEF NumberBefore
  <2> QED
    BY <2>2, <1>2, <1>4
<1> QED
  BY <1>3, <1>4

\* Putting something behind the others.
LEMMA NumberAppend ==
    ASSUME NEW T, NEW q \in Seq(T), NEW x, NEW S
    PROVE  /\ \A i \in 1 .. Len(q) + 1 :
                 NumberBefore(Append(q, x), S, i) = NumberBefore(q, S, i)
           /\ NumberIn(Append(q, x), S)
                 = NumberIn(q, S) + (IF x \in S THEN 1 ELSE 0)
<1> DEFINE r == Append(q, x)
           n == Len(q) + 1
<1>1. /\ Len(q) \in Nat /\ n \in Nat \ {0} /\ Len(r) = n /\ r[n] = x
      /\ \A j \in 1 .. Len(q) : r[j] = q[j]
  OBVIOUS
<1>2. ASSUME NEW i \in 1 .. n
      PROVE  NumberBefore(r, S, i) = NumberBefore(q, S, i)
  <2>1. i - 1 <= Len(q)
    BY <1>1
  <2>2. {j \in 1 .. i - 1 : r[j] \in S} = {j \in 1 .. i - 1 : q[j] \in S}
    BY <1>1, <2>1
  <2> QED
    BY <2>2 DEF NumberBefore
<1>3. NumberBefore(r, S, n + 1) = NumberBefore(r, S, n) + (IF r[n] \in S THEN 1 ELSE 0)
  <2>1. n \in Nat \ {0}
    BY <1>1
  <2> HIDE DEF r, n
  <2> QED
    BY <2>1, NumberNext
<1>4. n \in 1 .. n
  BY <1>1
<1> QED
  BY <1>1, <1>2, <1>3, <1>4 DEF NumberIn

\* Taking the first one.
LEMMA NumberTail ==
    ASSUME NEW T, NEW q \in Seq(T), q # <<>>, NEW S
    PROVE  /\ \A i \in 1 .. Len(q) :
                 NumberBefore(q, S, i + 1)
                    = NumberBefore(Tail(q), S, i) + (IF Head(q) \in S THEN 1 ELSE 0)
           /\ NumberIn(q, S)
                 = NumberIn(Tail(q), S) + (IF Head(q) \in S THEN 1 ELSE 0)
<1>1. /\ Len(q) \in Nat \ {0} /\ Len(Tail(q)) = Len(q) - 1 /\ Head(q) = q[1]
      /\ \A j \in 1 .. Len(q) - 1 : Tail(q)[j] = q[j + 1]
  OBVIOUS
<1>2. ASSUME NEW i \in 1 .. Len(q)
      PROVE  NumberBefore(q, S, i + 1)
                = NumberBefore(Tail(q), S, i) + (IF Head(q) \in S THEN 1 ELSE 0)
  <2> DEFINE A == {j \in 1 .. (i + 1) - 1 : q[j] \in S}
             B == {j \in 1 .. i - 1 : Tail(q)[j] \in S}
             U == A \ {1}
             f == [j \in B |-> j + 1]
  <2>1. i \in Nat \ {0} /\ i - 1 <= Len(q) - 1
    BY <1>1
  <2>2. \A j \in 1 .. i - 1 : Tail(q)[j] = q[j + 1]
    BY <1>1, <2>1
  <2>3. IsFiniteSet(A) /\ IsFiniteSet(B) /\ NumberBefore(Tail(q), S, i) \in Nat
    <3>1. i \in Nat /\ i + 1 \in Nat
      BY <2>1
    <3>2. IsFiniteSet(A)
      BY <3>1, NumberType
    <3>3. IsFiniteSet(B) /\ NumberBefore(Tail(q), S, i) \in Nat
      BY <3>1, NumberType
    <3> QED
      BY <3>2, <3>3
  <2>4. f \in Bijection(B, U)
    <3>1. f \in [B -> U]
      <4>1. \A j \in B : j + 1 \in U
        BY <2>1, <2>2
      <4> QED
        BY <4>1
    <3>2. \A j, k \in B : f[j] = f[k] => j = k
      BY <2>1
    <3>3. \A u \in U : \E j \in B : f[j] = u
      <4> TAKE u \in U
      <4>1. u - 1 \in B /\ (u - 1) + 1 = u
        BY <2>1, <2>2
      <4>2. f[u - 1] = u
        BY <4>1
      <4> QED
        BY <4>1, <4>2
    <3> HIDE DEF f, B, U
    <3> QED
      BY <3>1, <3>2, <3>3, Zenon DEF Bijection, Injection, Surjection, IsInjective
  <2>5. Cardinality(U) = Cardinality(B)
    <3>1. ExistsBijection(B, U)
      BY <2>4 DEF ExistsBijection
    <3> QED
      BY <3>1, <2>3, FS_Bijection
  <2>6. CASE Head(q) \in S
    <3>1. 1 \in A
      BY <1>1, <2>1, <2>6
    <3>2. A = U \cup {1} /\ 1 \notin U /\ IsFiniteSet(U)
      <4>1. A = U \cup {1} /\ 1 \notin U
        BY <3>1
      <4>2. IsFiniteSet(A) => IsFiniteSet(U)
        BY <3>1, FS_RemoveElement
      <4> QED
        BY <2>3, <4>1, <4>2
    <3>3. Cardinality(A) = Cardinality(U) + 1
      BY <3>2, FS_AddElement
    <3> QED
      BY <2>5, <2>6, <3>3 DEF NumberBefore
  <2>7. CASE Head(q) \notin S
    <3>1. A = U
      BY <1>1, <2>7
    <3>2. NumberBefore(q, S, i + 1) = NumberBefore(Tail(q), S, i)
      BY <2>5, <3>1 DEF NumberBefore
    <3> QED
      BY <2>3, <2>7, <3>2
  <2> QED
    BY <2>6, <2>7
<1>3. Len(q) \in 1 .. Len(q) /\ Len(Tail(q)) + 1 = Len(q)
  BY <1>1
<1> QED
  BY <1>2, <1>3 DEF NumberIn

-----------------------------------------------------------------------------
(* Signals and packets.                                                    *)

\* Nobody is twice in the acceptor's mailbox, and whoever has not dialed or
\* waits there is unknown to the broker and has sent it nothing.
DialInv ==
    /\ \A i, j \in DOMAIN acceptQ : acceptQ[i] = acceptQ[j] => i = j
    /\ \A c \in Clients : socket[c] = "none" \/ c \in Range(acceptQ) =>
          inbox[c] = <<>> /\ c \notin sockets /\ c # accepting
    /\ \A c \in Range(acceptQ) : socket[c] \in {"dialed", "closed"}

\* The signals of a client that wait for the broker.
Owed(c) == NumberIn(signals, {RecvSignal(c)})

\* The number in a queue is the Count of the properties.
LEMMA CountIsNumber ==
    ASSUME NEW T, NEW q \in Seq(T), NEW e
    PROVE  Count(q, e) = NumberIn(q, {e})
<1>1. DOMAIN q = 1 .. (Len(q) + 1) - 1
  OBVIOUS
<1>2. {i \in DOMAIN q : q[i] = e} = {i \in 1 .. (Len(q) + 1) - 1 : q[i] \in {e}}
  BY <1>1
<1> QED
  BY <1>2 DEF Count, NumberIn, NumberBefore

LEMMA NumberInType ==
    ASSUME NEW T, NEW q \in Seq(T), NEW S
    PROVE  NumberIn(q, S) \in Nat
<1>1. Len(q) + 1 \in Nat
  OBVIOUS
<1> QED
  BY <1>1, NumberType DEF NumberIn

\* Signals are told apart by the client they are about.
LEMMA SignalsDiffer ==
    \A c, d \in Clients :
        /\ RecvSignal(c) = RecvSignal(d) => c = d
        /\ RecvSignal(c) # AcceptSignal /\ RecvSignal(c) # StopSignal
  BY DEF RecvSignal, AcceptSignal, StopSignal

\* A signal more or less is counted for the client it is about.
LEMMA OwedChanges ==
    ASSUME BrokerTypeOK, NEW c \in Clients
    PROVE  /\ Owed(c) \in Nat
           /\ signals' = signals => Owed(c)' = Owed(c)
           /\ \A s : signals' = Append(signals, s) =>
                 Owed(c)' = Owed(c) + (IF s = RecvSignal(c) THEN 1 ELSE 0)
           /\ signals # <<>> /\ signals' = Tail(signals) =>
                 Owed(c) = Owed(c)' + (IF Head(signals) = RecvSignal(c) THEN 1 ELSE 0)
<1> DEFINE S == {RecvSignal(c)}
<1>1. signals \in Seq(Signal)
  BY DEF BrokerTypeOK
<1>2. Owed(c) = NumberIn(signals, S) /\ Owed(c)' = NumberIn(signals', S)
  BY DEF Owed, RecvSignal
<1>3. \A s : s \in S <=> s = RecvSignal(c)
  OBVIOUS
<1> HIDE DEF S
<1>4. Owed(c) \in Nat
  BY <1>1, <1>2, NumberInType
<1>5. signals' = signals => Owed(c)' = Owed(c)
  BY <1>2
<1>6. ASSUME NEW s, signals' = Append(signals, s)
      PROVE  Owed(c)' = Owed(c) + (IF s = RecvSignal(c) THEN 1 ELSE 0)
  BY <1>1, <1>2, <1>3, <1>6, NumberAppend
<1>7. ASSUME signals # <<>>, signals' = Tail(signals)
      PROVE  Owed(c) = Owed(c)' + (IF Head(signals) = RecvSignal(c) THEN 1 ELSE 0)
  BY <1>1, <1>2, <1>3, <1>7, NumberTail
<1> QED
  BY <1>4, <1>5, <1>6, <1>7

LEMMA OwedType ==
    ASSUME BrokerTypeOK, signals # <<>>, signals' = Tail(signals)
    PROVE  \A c \in Clients : Owed(c)' \in Nat
<1>1. signals' \in Seq(Signal)
  BY DEF BrokerTypeOK
<1> QED
  BY <1>1, NumberInType DEF Owed, RecvSignal

\* So is a recv among the signals of a client.
LEMMA NotesChange ==
    ASSUME BrokerTypeOK, NEW c \in Clients
    PROVE  /\ NumberIn(notes[c], {"recv"}) \in Nat
           /\ \A s : NumberIn(Append(notes[c], s), {"recv"})
                        = NumberIn(notes[c], {"recv"}) + (IF s = "recv" THEN 1 ELSE 0)
           /\ notes[c] # <<>> =>
                 NumberIn(notes[c], {"recv"})
                    = NumberIn(Tail(notes[c]), {"recv"})
                      + (IF Head(notes[c]) = "recv" THEN 1 ELSE 0)
<1> DEFINE S == {"recv"}
<1>1. notes[c] \in Seq({"recv", "stop"})
  BY DEF BrokerTypeOK
<1>2. \A s : s \in S <=> s = "recv"
  OBVIOUS
<1> HIDE DEF S
<1>3. NumberIn(notes[c], S) \in Nat
  BY <1>1, NumberInType
<1>4. \A s : NumberIn(Append(notes[c], s), S)
               = NumberIn(notes[c], S) + (IF s = "recv" THEN 1 ELSE 0)
  BY <1>1, <1>2, NumberAppend
<1>5. notes[c] # <<>> =>
        NumberIn(notes[c], S)
           = NumberIn(Tail(notes[c]), S) + (IF Head(notes[c]) = "recv" THEN 1 ELSE 0)
  BY <1>1, <1>2, NumberTail
<1> QED
  BY <1>3, <1>4, <1>5 DEF S

\* Who leaves a mailbox in which everybody is once is no longer in it.
LEMMA DistinctTail ==
    ASSUME NEW T, NEW q \in Seq(T), q # <<>>,
           \A i, j \in DOMAIN q : q[i] = q[j] => i = j
    PROVE  /\ \A i, j \in DOMAIN Tail(q) : Tail(q)[i] = Tail(q)[j] => i = j
           /\ Head(q) \notin Range(Tail(q))
<1>1. /\ Len(q) \in Nat \ {0} /\ DOMAIN q = 1 .. Len(q) /\ Head(q) = q[1]
      /\ DOMAIN Tail(q) = 1 .. Len(q) - 1
      /\ \A i \in 1 .. Len(q) - 1 : Tail(q)[i] = q[i + 1]
  OBVIOUS
<1> QED
  BY <1>1 DEF Range

\* Who comes into a mailbox is once in it if it was not in it before.
LEMMA DistinctAppend ==
    ASSUME NEW T, NEW q \in Seq(T), NEW x, x \notin Range(q),
           \A i, j \in DOMAIN q : q[i] = q[j] => i = j
    PROVE  LET r == Append(q, x)
           IN  \A i, j \in DOMAIN r : r[i] = r[j] => i = j
<1>1. /\ Len(q) \in Nat /\ DOMAIN q = 1 .. Len(q)
      /\ DOMAIN Append(q, x) = 1 .. Len(q) + 1
      /\ \A i \in 1 .. Len(q) : Append(q, x)[i] = q[i]
      /\ Append(q, x)[Len(q) + 1] = x
  OBVIOUS
<1> QED
  BY <1>1 DEF Range

\* A client that dials is new to the broker.
LEMMA DialStep == TypeOK /\ DialInv /\ [Next]_vars => DialInv'
<1> SUFFICES ASSUME TypeOK, DialInv, [Next]_vars
             PROVE  DialInv'
  OBVIOUS
<1>1. ASSUME UNCHANGED <<acceptQ, accepting>>, sockets' \subseteq sockets,
             \A c \in Clients : /\ inbox[c] = <<>> => inbox'[c] = <<>>
                                /\ socket'[c] \in {socket[c], "closed"}
      PROVE  DialInv'
  <2>1. \A c \in Range(acceptQ) : c \in Clients
    BY DEF TypeOK, BrokerTypeOK, Range
  <2> QED
    BY <1>1, <2>1 DEF DialInv
<1>2. ASSUME NEW c \in Clients, NEW p, Push(c, p),
             UNCHANGED <<acceptVars, sockets, socket>>
      PROVE  DialInv'
  <2>1. CASE CanPush(c)
    <3>1. socket[c] = "attached" /\ inbox' = [inbox EXCEPT ![c] = Append(@, p)]
      BY <1>2, <2>1 DEF Push, CanPush
    <3>2. c \notin Range(acceptQ) /\ socket[c] # "none"
      BY <3>1 DEF DialInv
    <3> QED
      BY <1>2, <3>1, <3>2 DEF DialInv, TypeOK, BrokerTypeOK, acceptVars
  <2>2. CASE ~CanPush(c)
    BY <1>1, <1>2, <2>2 DEF Push, acceptVars
  <2> QED
    BY <2>1, <2>2
<1>3. CASE Accept
  <2>1. CASE acceptQ = <<>>
    BY <1>1, <1>3, <2>1 DEF Accept, acceptVars, serverVars
  <2>2. CASE acceptQ # <<>>
    <3> DEFINE c == Head(acceptQ)
    <3>1. /\ acceptQ \in Seq(Clients) /\ c \in Range(acceptQ)
          /\ Range(Tail(acceptQ)) \subseteq Range(acceptQ)
      BY <2>2, QueueRange DEF TypeOK, BrokerTypeOK
    <3>2. /\ c \notin Range(Tail(acceptQ))
          /\ \A i, j \in DOMAIN Tail(acceptQ) :
                Tail(acceptQ)[i] = Tail(acceptQ)[j] => i = j
      BY <2>2, <3>1, DistinctTail DEF DialInv
    <3>3. socket[c] \in {"dialed", "closed"}
      BY <3>1 DEF DialInv
    <3>4. /\ accepting' = c /\ acceptQ' = Tail(acceptQ)
          /\ UNCHANGED <<sockets, inbox>>
          /\ socket' = IF socket[c] = "dialed"
                       THEN [socket EXCEPT ![c] = "attached"] ELSE socket
      BY <1>3, <2>2 DEF Accept, serverVars
    <3> HIDE DEF c
    <3>5. \A d \in Clients : /\ d # c => socket'[d] = socket[d]
                             /\ socket'[d] = "none" => socket[d] = "none"
      BY <3>4 DEF TypeOK, BrokerTypeOK
    <3>6. \A d \in Range(Tail(acceptQ)) : d # c /\ d \in Clients
      BY <3>1, <3>2 DEF Range
    <3>7. \A d \in Clients : socket[d] = "none" => d # c
      BY <3>3
    <3>8. ASSUME NEW d \in Clients, socket'[d] = "none" \/ d \in Range(acceptQ')
          PROVE  inbox'[d] = <<>> /\ d \notin sockets' /\ d # accepting'
      BY <3>1, <3>4, <3>5, <3>6, <3>7, <3>8 DEF DialInv
    <3>9. \A d \in Range(acceptQ') : socket'[d] \in {"dialed", "closed"}
      BY <3>1, <3>4, <3>5, <3>6 DEF DialInv
    <3> QED
      BY <3>2, <3>4, <3>8, <3>9 DEF DialInv
  <2> QED
    BY <2>1, <2>2
<1>4. CASE Register
  BY <1>4 DEF Register, DialInv, clientVars, TypeOK, BrokerTypeOK
<1>5. CASE Stopped
  BY <1>1, <1>5 DEF Stopped, acceptVars, clientVars
<1>6. ASSUME NEW c \in Clients, HandleRecv(c)
      PROVE  DialInv'
  <2>1. CASE IgnoreRecv(c)
    BY <1>1, <2>1 DEF IgnoreRecv, acceptVars, clientVars, serverVars
  <2>2. ASSUME NEW t, Receive(c, t), sockets' \subseteq sockets
        PROVE  DialInv'
    BY <1>1, <2>2 DEF Receive, acceptVars, TypeOK, BrokerTypeOK
  <2> QED
    BY <1>6, <2>1, <2>2
    DEF HandleRecv, HandleConnect, HandleDisconnect, HandleSubscribe,
        HandleUnsubscribe, HandleExecute, HandleRespondExecute
<1>7. ASSUME NEW c \in Clients, ClientStep(c)
      PROVE  DialInv'
  <2>1. CASE Connect(c)
    <3>1. /\ socket[c] = "none" /\ c \notin Range(acceptQ)
          /\ UNCHANGED <<accepting, sockets, inbox>>
      BY <2>1 DEF Connect, Dial, serverVars, DialInv
    <3>2. CASE Len(acceptQ) < Limit
      <4>1. /\ acceptQ' = Append(acceptQ, c)
            /\ socket' = [socket EXCEPT ![c] = "dialed"]
        BY <2>1, <3>2 DEF Connect, Dial
      <4>2. acceptQ \in Seq(Clients)
        BY DEF TypeOK, BrokerTypeOK
      <4>3. Range(acceptQ') = Range(acceptQ) \cup {c}
        BY <4>1, <4>2, QueueRange
      <4>4. \A i, j \in DOMAIN acceptQ : acceptQ[i] = acceptQ[j] => i = j
        BY DEF DialInv
      <4>5. \A i, j \in DOMAIN acceptQ' : acceptQ'[i] = acceptQ'[j] => i = j
        BY <3>1, <4>1, <4>2, <4>4, DistinctAppend
      <4>6. Range(acceptQ) \subseteq Clients
        BY <4>2 DEF Range
      <4>7. \A d \in Clients : d # c => socket'[d] = socket[d]
        BY <4>1 DEF TypeOK, BrokerTypeOK
      <4>8. socket'[c] = "dialed"
        BY <4>1 DEF TypeOK, BrokerTypeOK
      <4>9. \A d \in Clients : socket'[d] = "none" \/ d \in Range(acceptQ') =>
               socket[d] = "none" \/ d \in Range(acceptQ)
        BY <3>1, <4>3, <4>7
      <4> QED
        BY <3>1, <4>3, <4>5, <4>6, <4>7, <4>8, <4>9 DEF DialInv
    <3>3. CASE ~(Len(acceptQ) < Limit)
      <4>1. /\ acceptQ' = acceptQ
            /\ socket' = [socket EXCEPT ![c] = "closed"]
        BY <2>1, <3>3 DEF Connect, Dial
      <4> QED
        BY <1>1, <3>1, <4>1 DEF TypeOK, BrokerTypeOK
    <3> QED
      BY <3>2, <3>3
  <2>2. ASSUME NEW tx, NEW t, NEW ch, NEW arg, SendRequest(c, tx, t, ch, arg)
        PROVE  DialInv'
    BY <1>2, <2>2 DEF SendRequest, acceptVars, serverVars, clientVars
  <2>3. ASSUME NEW tx, NEW fin, NEW ok, SendReply(c, tx, fin, ok)
        PROVE  DialInv'
    BY <1>2, <2>3 DEF SendReply, acceptVars, serverVars, clientVars
  <2>4. CASE Listen(c) \/ Stop(c) \/ TakeStop(c)
    BY <1>1, <2>4 DEF Listen, Stop, TakeStop, acceptVars, serverVars
  <2>5. CASE Close(c)
    BY <1>1, <2>5 DEF Close, Hangup, acceptVars, serverVars, TypeOK, BrokerTypeOK
  <2> QED
    BY <1>7, <2>1, <2>2, <2>3, <2>4, <2>5 DEF ClientStep
<1>8. CASE StopBroker
  BY <1>1, <1>8 DEF StopBroker, BrokerStop, serverVars, acceptVars, clientVars
<1>9. CASE UNCHANGED vars
  BY <1>1, <1>9 DEF vars, brokerVars, serverVars, acceptVars, clientVars
<1> QED
  BY <1>3, <1>4, <1>5, <1>6, <1>7, <1>8, <1>9 DEF Next, BrokerAct, BrokerStep

\* What a client has sent and what the broker was told of it.
OwedInv ==
    /\ \A c \in Clients : Owed(c) <= Len(inbox[c])
    /\ \A c \in Clients \ early : c \in sockets \/ c = accepting =>
          Owed(c) = Len(inbox[c])

LEMMA OwedStep == TypeOK /\ DialInv /\ OwedInv /\ [Next]_vars => OwedInv'
<1> SUFFICES ASSUME TypeOK, DialInv, OwedInv, [Next]_vars
             PROVE  OwedInv'
  OBVIOUS
<1>t. /\ signals \in Seq(Signal) /\ inbox \in [Clients -> Seq(Packet)]
      /\ BrokerTypeOK
      /\ \A c \in Clients : Owed(c) \in Nat /\ Len(inbox[c]) \in Nat
  BY OwedChanges DEF TypeOK, BrokerTypeOK
<1>1. ASSUME UNCHANGED <<inbox, early>>,
             \/ UNCHANGED signals
             \/ \E s \in {AcceptSignal, StopSignal} :
                   \/ signals' = Append(signals, s)
                   \/ PopSignal(s),
             \A c \in Clients : c \in sockets' \/ c = accepting' =>
                c \in sockets \/ c = accepting \/ inbox[c] = <<>>
      PROVE  OwedInv'
  <2>1. ASSUME NEW c \in Clients
        PROVE  Owed(c)' = Owed(c)
    <3>1. CASE UNCHANGED signals
      BY <1>t, <3>1, OwedChanges
    <3>2. ASSUME NEW s \in {AcceptSignal, StopSignal},
                 signals' = Append(signals, s) \/ PopSignal(s)
          PROVE  Owed(c)' = Owed(c)
      <4>1. s # RecvSignal(c)
        BY SignalsDiffer
      <4>2. CASE signals' = Append(signals, s)
        BY <1>t, <4>1, <4>2, OwedChanges
      <4>3. CASE PopSignal(s)
        <5>1. signals # <<>> /\ signals' = Tail(signals) /\ Head(signals) # RecvSignal(c)
          BY <4>1, <4>3 DEF PopSignal
        <5>2. Owed(c)' \in Nat
          BY <1>t, <5>1, OwedType
        <5> QED
          BY <1>t, <5>1, <5>2, OwedChanges
      <4> QED
        BY <3>2, <4>2, <4>3
    <3> QED
      BY <1>1, <3>1, <3>2
  <2>2. \A c \in Clients : inbox[c] = <<>> => Owed(c) = Len(inbox[c])
    BY <1>t DEF OwedInv
  <2> QED
    BY <1>1, <2>1, <2>2 DEF OwedInv
<1>2. ASSUME NEW c \in Clients, NEW p, Push(c, p), UNCHANGED <<accepting, sockets>>
      PROVE  OwedInv'
  <2>1. CASE CanPush(c)
    <3>1. /\ inbox' = [inbox EXCEPT ![c] = Append(@, p)]
          /\ \/ signals' = Append(signals, RecvSignal(c)) /\ early' = early
             \/ signals' = signals /\ early' = early \cup {c}
      BY <1>2, <2>1 DEF Push
    <3>2. /\ \A d \in Clients : d # c => inbox'[d] = inbox[d]
          /\ Len(inbox'[c]) = Len(inbox[c]) + 1
      BY <1>t, <3>1
    <3>3. /\ \A d \in Clients : d # c => Owed(d)' = Owed(d)
          /\ \/ Owed(c)' = Owed(c) + 1 /\ early' = early
             \/ Owed(c)' = Owed(c) /\ early' = early \cup {c}
      BY <1>t, <3>1, OwedChanges, SignalsDiffer
    <3>4. Owed(c) <= Len(inbox[c]) /\ Owed(c) \in Nat /\ Len(inbox[c]) \in Nat
      BY <1>t DEF OwedInv
    <3>5. \A d \in Clients : Owed(d)' <= Len(inbox'[d])
      BY <3>2, <3>3, <3>4 DEF OwedInv
    <3>6. ASSUME NEW d \in Clients \ early', d \in sockets \/ d = accepting
          PROVE  Owed(d)' = Len(inbox'[d])
      <4>1. d \in Clients \ early /\ Owed(d) = Len(inbox[d])
        BY <3>3, <3>6 DEF OwedInv
      <4>2. CASE d = c
        <5>1. Owed(c)' = Owed(c) + 1
          BY <3>3, <3>6, <4>2
        <5> QED
          BY <3>2, <4>1, <4>2, <5>1
      <4>3. CASE d # c
        BY <3>2, <3>3, <4>1, <4>3
      <4> QED
        BY <4>2, <4>3
    <3> QED
      BY <1>2, <3>5, <3>6 DEF OwedInv
  <2>2. CASE ~CanPush(c)
    BY <1>1, <1>2, <2>2 DEF Push
  <2> QED
    BY <2>1, <2>2
<1>3. ASSUME NEW c \in Clients, PopSignal(RecvSignal(c))
      PROVE  /\ \A d \in Clients : d # c => Owed(d)' = Owed(d)
             /\ Owed(c)' = Owed(c) - 1 /\ Owed(c) > 0
  <2>1. /\ signals # <<>> /\ signals' = Tail(signals)
        /\ Head(signals) = RecvSignal(c)
    BY <1>3 DEF PopSignal
  <2>2. \A d \in Clients : Owed(d) = Owed(d)' + (IF d = c THEN 1 ELSE 0)
    BY <1>t, <2>1, OwedChanges, SignalsDiffer
  <2>3. \A d \in Clients : Owed(d)' \in Nat
    BY <1>t, <2>1, OwedType
  <2>4. Owed(c) \in Nat /\ Owed(c)' \in Nat /\ Owed(c) = Owed(c)' + 1
    BY <1>t, <2>2, <2>3
  <2>5. \A d \in Clients : d # c => Owed(d) = Owed(d)' + 0
    BY <2>2
  <2> QED
    BY <1>t, <2>3, <2>4, <2>5
<1>4. CASE Accept
  <2>1. CASE acceptQ = <<>>
    BY <1>1, <1>4, <2>1 DEF Accept, acceptVars, serverVars, ghostVars
  <2>2. CASE acceptQ # <<>>
    <3>1. Head(acceptQ) \in Range(acceptQ)
      BY <2>2, QueueRange DEF TypeOK, BrokerTypeOK
    <3>2. Head(acceptQ) \in Clients => inbox[Head(acceptQ)] = <<>>
      BY <3>1 DEF DialInv
    <3> QED
      BY <1>1, <1>4, <2>2, <3>2 DEF Accept, serverVars, ghostVars
  <2> QED
    BY <2>1, <2>2
<1>5. CASE Register
  BY <1>1, <1>5, <1>t DEF Register, ghostVars
<1>6. CASE Stopped
  BY <1>1, <1>6 DEF Stopped, acceptVars, ghostVars
<1>7. ASSUME NEW c \in Clients, HandleRecv(c)
      PROVE  OwedInv'
  <2>1. CASE IgnoreRecv(c)
    <3>1. /\ PopSignal(RecvSignal(c))
          /\ c \notin sockets \/ inbox[c] = <<>>
          /\ UNCHANGED <<inbox, early, sockets, accepting>>
      BY <2>1 DEF IgnoreRecv, serverVars, acceptVars, ghostVars
    <3>2. accepting = NoClient
      BY <3>1 DEF PopSignal
    <3>3. c \notin sockets
      BY <1>t, <1>3, <3>1 DEF OwedInv
    <3>4. \A d \in Clients : d # c => Owed(d)' = Owed(d)
      BY <1>3, <3>1
    <3>5. Owed(c)' <= Len(inbox[c])
      <4>1. Owed(c)' = Owed(c) - 1 /\ Owed(c) <= Len(inbox[c])
        BY <1>3, <3>1 DEF OwedInv
      <4> QED
        BY <1>t, <4>1
    <3>6. \A d \in Clients : Owed(d)' <= Len(inbox'[d])
      BY <3>1, <3>4, <3>5 DEF OwedInv
    <3>7. accepting # c
      BY <3>2
    <3>8. \A d \in Clients \ early : d \in sockets \/ d = accepting =>
             Owed(d)' = Len(inbox[d])
      BY <3>3, <3>4, <3>7 DEF OwedInv
    <3> QED
      BY <3>1, <3>6, <3>8 DEF OwedInv
  <2>2. ASSUME NEW t, Receive(c, t), sockets' \subseteq sockets
        PROVE  OwedInv'
    <3>1. /\ PopSignal(RecvSignal(c)) /\ inbox[c] # <<>>
          /\ inbox' = [inbox EXCEPT ![c] = Tail(@)]
          /\ UNCHANGED <<early, accepting>>
      BY <2>2 DEF Receive, acceptVars
    <3>2. /\ \A d \in Clients : d # c => inbox'[d] = inbox[d]
          /\ Len(inbox'[c]) = Len(inbox[c]) - 1
      BY <1>t, <3>1
    <3> QED
      BY <1>t, <1>3, <2>2, <3>1, <3>2 DEF OwedInv
  <2> QED
    BY <1>7, <2>1, <2>2
    DEF HandleRecv, HandleConnect, HandleDisconnect, HandleSubscribe,
        HandleUnsubscribe, HandleExecute, HandleRespondExecute
<1>8. ASSUME NEW c \in Clients, ClientStep(c)
      PROVE  OwedInv'
  <2>1. CASE Connect(c)
    BY <1>1, <2>1 DEF Connect, Dial, serverVars, ghostVars
  <2>2. ASSUME NEW tx, NEW t, NEW ch, NEW arg, SendRequest(c, tx, t, ch, arg)
        PROVE  OwedInv'
    BY <1>2, <2>2 DEF SendRequest, acceptVars, serverVars
  <2>3. ASSUME NEW tx, NEW fin, NEW ok, SendReply(c, tx, fin, ok)
        PROVE  OwedInv'
    BY <1>2, <2>3 DEF SendReply, acceptVars, serverVars
  <2>4. CASE Listen(c) \/ Stop(c) \/ TakeStop(c) \/ Close(c)
    BY <1>1, <2>4
    DEF Listen, Stop, TakeStop, Close, acceptVars, serverVars, ghostVars
  <2> QED
    BY <1>8, <2>1, <2>2, <2>3, <2>4 DEF ClientStep
<1>9. CASE StopBroker
  BY <1>1, <1>9 DEF StopBroker, BrokerStop, serverVars, acceptVars, ghostVars
<1>10. CASE UNCHANGED vars
  BY <1>1, <1>10 DEF vars, brokerVars, serverVars, acceptVars, ghostVars
<1> QED
  BY <1>4, <1>5, <1>6, <1>7, <1>8, <1>9, <1>10 DEF Next, BrokerAct, BrokerStep

\* What the broker has sent a client and what that was told of it.
NotesInv == \A c \in Clients : Len(outbox[c]) <= NumberIn(notes[c], {"recv"})

LEMMA NotesStep == TypeOK /\ NotesInv /\ [Next]_vars => NotesInv'
<1> SUFFICES ASSUME TypeOK, NotesInv, [Next]_vars
             PROVE  NotesInv'
  OBVIOUS
<1>t. /\ notes \in [Clients -> Seq({"recv", "stop"})]
      /\ outbox \in [Clients -> Seq(Packet)] /\ BrokerTypeOK
      /\ \A c \in Clients : /\ NumberIn(notes[c], {"recv"}) \in Nat
                            /\ Len(outbox[c]) \in Nat
  BY NotesChange DEF TypeOK, BrokerTypeOK
<1>1. ASSUME UNCHANGED <<outbox, notes>>
      PROVE  NotesInv'
  BY <1>1 DEF NotesInv
<1>2. ASSUME NEW c, NEW p, Deliver(c, p)
      PROVE  NotesInv'
  <2>1. CASE socket[c] = "attached" /\ Len(outbox[c]) < Limit
    <3>1. /\ outbox' = [outbox EXCEPT ![c] = Append(@, p)]
          /\ notes' = [notes EXCEPT ![c] = Append(@, "recv")]
      BY <1>2, <2>1 DEF Deliver
    <3>2. ASSUME NEW d \in Clients
          PROVE  Len(outbox'[d]) <= NumberIn(notes'[d], {"recv"})
      <4>1. CASE d = c
        <5>1. Len(outbox'[d]) = Len(outbox[d]) + 1
              /\ notes'[d] = Append(notes[d], "recv")
          BY <1>t, <3>1, <4>1
        <5>2. NumberIn(notes'[d], {"recv"}) = NumberIn(notes[d], {"recv"}) + 1
          BY <1>t, <5>1, NotesChange
        <5> QED
          BY <1>t, <5>1, <5>2 DEF NotesInv
      <4>2. CASE d # c
        BY <1>t, <3>1, <4>2 DEF NotesInv
      <4> QED
        BY <4>1, <4>2
    <3> QED
      BY <3>2 DEF NotesInv
  <2>2. CASE ~(socket[c] = "attached" /\ Len(outbox[c]) < Limit)
    BY <1>1, <1>2, <2>2 DEF Deliver
  <2> QED
    BY <2>1, <2>2
<1>3. CASE Accept \/ Register \/ Stopped
  BY <1>1, <1>3 DEF Accept, Register, Stopped, clientVars
<1>4. ASSUME NEW c \in Clients, HandleRecv(c)
      PROVE  NotesInv'
  BY <1>1, <1>2, <1>4
  DEF HandleRecv, IgnoreRecv, clientVars, HandleConnect, HandleDisconnect,
      HandleSubscribe, HandleUnsubscribe, HandleExecute, HandleRespondExecute
<1>5. ASSUME NEW c \in Clients, ClientStep(c)
      PROVE  NotesInv'
  <2>1. ASSUME \A d \in Clients : d # c => UNCHANGED <<outbox[d], notes[d]>>,
               Len(outbox'[c]) <= NumberIn(notes'[c], {"recv"})
        PROVE  NotesInv'
    BY <2>1 DEF NotesInv
  <2>2. CASE Connect(c)
    BY <1>1, <2>2 DEF Connect, Dial
  <2>3. ASSUME NEW tx, NEW t, NEW ch, NEW arg, SendRequest(c, tx, t, ch, arg)
        PROVE  NotesInv'
    BY <1>1, <2>3 DEF SendRequest, clientVars
  <2>4. ASSUME NEW tx, NEW fin, NEW ok, SendReply(c, tx, fin, ok)
        PROVE  NotesInv'
    BY <1>1, <2>4 DEF SendReply, clientVars
  <2>5. CASE Listen(c)
    <3>1. /\ notes[c] # <<>> /\ notes' = [notes EXCEPT ![c] = Tail(@)]
          /\ outbox' = IF outbox[c] = <<>> THEN outbox
                       ELSE [outbox EXCEPT ![c] = Tail(@)]
      BY <2>5 DEF Listen
    <3>2. notes'[c] = Tail(notes[c])
          /\ Len(outbox'[c]) = IF outbox[c] = <<>> THEN 0 ELSE Len(outbox[c]) - 1
      BY <1>t, <3>1
    <3>3. NumberIn(notes[c], {"recv"}) <= NumberIn(notes'[c], {"recv"}) + 1
          /\ NumberIn(notes'[c], {"recv"}) \in Nat
      <4>1. notes'[c] \in Seq({"recv", "stop"})
        BY <1>t, <3>1, <3>2
      <4>2. NumberIn(notes'[c], {"recv"}) \in Nat
        BY <4>1, NumberInType
      <4>3. NumberIn(notes[c], {"recv"})
               = NumberIn(notes'[c], {"recv"})
                 + (IF Head(notes[c]) = "recv" THEN 1 ELSE 0)
        BY <1>t, <3>1, <3>2, NotesChange
      <4> QED
        BY <1>t, <4>2, <4>3
    <3> QED
      BY <1>t, <2>1, <3>1, <3>2, <3>3 DEF NotesInv
  <2>6. CASE Stop(c)
    <3>1. notes'[c] = Append(notes[c], "stop") /\ outbox' = outbox
          /\ \A d \in Clients : d # c => notes'[d] = notes[d]
      BY <1>t, <2>6 DEF Stop
    <3>2. NumberIn(notes'[c], {"recv"}) = NumberIn(notes[c], {"recv"}) + 0
      BY <1>t, <3>1, NotesChange
    <3> QED
      BY <1>t, <2>1, <3>1, <3>2 DEF NotesInv
  <2>7. CASE TakeStop(c)
    <3>1. notes'[c] = Tail(notes[c]) /\ outbox' = outbox
          /\ notes[c] # <<>> /\ Head(notes[c]) # "recv"
          /\ \A d \in Clients : d # c => notes'[d] = notes[d]
      BY <1>t, <2>7 DEF TakeStop
    <3>2. NumberIn(notes'[c], {"recv"}) \in Nat
      <4>1. notes'[c] \in Seq({"recv", "stop"})
        BY <1>t, <3>1
      <4> QED
        BY <4>1, NumberInType
    <3> QED
      BY <1>t, <2>1, <3>1, <3>2, NotesChange DEF NotesInv
  <2>8. CASE Close(c)
    <3>1. notes'[c] = <<>> /\ outbox'[c] = <<>>
          /\ \A d \in Clients : d # c => UNCHANGED <<outbox[d], notes[d]>>
      BY <1>t, <2>8 DEF Close, Hangup
    <3>2. notes'[c] \in Seq({"recv"}) /\ Len(outbox'[c]) = 0
      BY <3>1
    <3>3. NumberIn(notes'[c], {"recv"}) \in Nat
      BY <3>2, NumberInType
    <3> QED
      BY <2>1, <3>1, <3>2, <3>3
  <2> QED
    BY <1>5, <2>2, <2>3, <2>4, <2>5, <2>6, <2>7, <2>8 DEF ClientStep
<1>6. CASE StopBroker \/ UNCHANGED vars
  BY <1>1, <1>6 DEF StopBroker, BrokerStop, clientVars, vars, brokerVars
<1> QED
  BY <1>3, <1>4, <1>5, <1>6 DEF Next, BrokerAct, BrokerStep

\* A signal of the broker or of a client has its packet, and a packet has its
\* signal, however many clients there are and however long they talk.
THEOREM SignalsAreTrue == Spec => []SignalsMatchPackets
<1>1. Init => TypeOK /\ DialInv /\ OwedInv /\ NotesInv
  <2> SUFFICES ASSUME Init
               PROVE  TypeOK /\ DialInv /\ OwedInv /\ NotesInv
    OBVIOUS
  <2>1. TypeOK
    BY DEF Init, BrokerInit, TypeOK, BrokerTypeOK, SocketState
  <2>2. DialInv
    BY DEF Init, BrokerInit, DialInv, Range
  <2>3. \A S : NumberIn(<<>>, S) = 0
    <3>1. Len(<<>>) + 1 = 1 /\ 1 \in Nat
      OBVIOUS
    <3> QED
      BY <3>1, NumberType DEF NumberIn
  <2> QED
    BY <2>1, <2>2, <2>3 DEF Init, BrokerInit, OwedInv, NotesInv, Owed
<1>2. TypeOK /\ DialInv /\ OwedInv /\ NotesInv => SignalsMatchPackets
  <2> SUFFICES ASSUME TypeOK, DialInv, OwedInv, NotesInv
               PROVE  SignalsMatchPackets
    OBVIOUS
  <2>1. \A c \in Clients : Count(signals, RecvSignal(c)) = Owed(c)
    BY CountIsNumber DEF TypeOK, BrokerTypeOK, Owed
  <2>2. \A c \in Clients : Count(notes[c], "recv") = NumberIn(notes[c], {"recv"})
    BY CountIsNumber DEF TypeOK, BrokerTypeOK
  <2>3. sockets \subseteq Clients
    BY DEF TypeOK, BrokerTypeOK
  <2> QED
    BY <2>1, <2>2, <2>3
    DEF SignalsMatchPackets, NoEmptyRecv, NoStrandedRequest, NoStrandedReply,
        OwedInv, NotesInv
<1> QED
  BY <1>1, <1>2, TypeCorrect, DialStep, OwedStep, NotesStep, PTL DEF Spec

-----------------------------------------------------------------------------
(* Where the packets of a transaction are.                                 *)

\* In a table of queues f: the packets of tx are nowhere, at one place only,
\* or all in the queue of d; in a queue q: there is none behind place i.
Nowhere(f, tx) ==
    \A d \in Clients : \A i \in DOMAIN f[d] : f[d][i].tx # tx
OnlyAt(f, d, i, tx) ==
    \A e \in Clients : \A j \in DOMAIN f[e] : f[e][j].tx = tx => e = d /\ j = i
OnlyWith(f, d, tx) ==
    \A e \in Clients : \A j \in DOMAIN f[e] : f[e][j].tx = tx => e = d
LastOf(q, i, tx) == \A j \in DOMAIN q : j > i => q[j].tx # tx

\* Nobody works on tx and nobody has heard of it.
Idle(tx) == worker[tx] = NoClient /\ next[tx] = 0 /\ got[tx] = 0

\* A request is alone until the broker answers it or forwards it ...
SentInv(tx) ==
    \A d \in Clients : \A i \in DOMAIN inbox[d] :
        LET p == inbox[d][i]
        IN  /\ p.tx = tx /\ p.ptype \in RequestType =>
                  /\ Idle(tx) /\ transactions[tx] = NoClient
                  /\ OnlyAt(inbox, d, i, tx) /\ Nowhere(outbox, tx)
            /\ p.tx = tx /\ p.ptype \notin RequestType =>
                  /\ p.ptype = "respond_execute"
                  /\ transactions[tx] # NoClient /\ worker[tx] \in {d, NoClient}
                  /\ OnlyWith(inbox, d, tx)
                  /\ p.fin => worker[tx] = NoClient /\ LastOf(inbox[d], i, tx)

\* ... an execute is alone until its worker takes it, and a finished reply
\* is the last of its transaction.
DeliveredInv(tx) ==
    \A d \in Clients : \A i \in DOMAIN outbox[d] :
        LET p == outbox[d][i]
        IN  /\ p.tx = tx /\ p.ptype \in RequestType =>
                  /\ p.ptype = "execute"
                  /\ Idle(tx) /\ transactions[tx] # NoClient
                  /\ OnlyAt(outbox, d, i, tx) /\ Nowhere(inbox, tx)
            /\ p.tx = tx /\ p.ptype \notin RequestType /\ p.fin =>
                  /\ worker[tx] = NoClient /\ transactions[tx] = NoClient
                  /\ Nowhere(inbox, tx) /\ LastOf(outbox[d], i, tx)

PlaceOf(tx) ==
    /\ tx \notin used => /\ Idle(tx) /\ transactions[tx] = NoClient
                         /\ Nowhere(inbox, tx) /\ Nowhere(outbox, tx)
    /\ worker[tx] # NoClient => transactions[tx] # NoClient
    /\ SentInv(tx)
    /\ DeliveredInv(tx)

PlaceInv == \A tx \in TxIds : PlaceOf(tx)

\* Between f and g no packet of tx has come, and those that are left have
\* kept their order.
Kept(f, g, tx) ==
    \E k \in [Clients -> Nat] : \A d \in Clients : \A j \in DOMAIN g[d] :
        g[d][j].tx = tx => j + k[d] \in DOMAIN f[d] /\ f[d][j + k[d]] = g[d][j]

\* What is where when a packet p is put behind queue c of a table.
LEMMA TableAppend ==
    ASSUME NEW f \in [Clients -> Seq(Packet)], NEW c \in Clients, NEW p
    PROVE  LET g == [f EXCEPT ![c] = Append(@, p)]
           IN  /\ \A d \in Clients : d # c => g[d] = f[d]
               /\ \A j \in DOMAIN f[c] :
                     j \in DOMAIN g[c] /\ g[c][j] = f[c][j] /\ j < Len(f[c]) + 1
               /\ \A j \in DOMAIN g[c] :
                     \/ j \in DOMAIN f[c] /\ g[c][j] = f[c][j]
                     \/ j = Len(f[c]) + 1 /\ g[c][j] = p
               /\ g[c] = Append(f[c], p)
<1>1. /\ DOMAIN f[c] = 1 .. Len(f[c]) /\ Len(f[c]) \in Nat
      /\ DOMAIN Append(f[c], p) = 1 .. Len(f[c]) + 1
      /\ \A j \in 1 .. Len(f[c]) : Append(f[c], p)[j] = f[c][j]
      /\ Append(f[c], p)[Len(f[c]) + 1] = p
  OBVIOUS
<1> QED
  BY <1>1

\* What is where when the first packet of queue c is taken.
LEMMA TableTail ==
    ASSUME NEW f \in [Clients -> Seq(Packet)], NEW c \in Clients, f[c] # <<>>
    PROVE  LET g == [f EXCEPT ![c] = Tail(@)]
           IN  /\ \A d \in Clients : d # c => g[d] = f[d]
               /\ 1 \in DOMAIN f[c] /\ f[c][1] = Head(f[c])
               /\ \A j \in DOMAIN g[c] :
                     /\ j \in Nat /\ j + 1 > 1
                     /\ j + 1 \in DOMAIN f[c] /\ f[c][j + 1] = g[c][j]
               /\ g[c] = Tail(f[c])
<1>1. /\ DOMAIN f[c] = 1 .. Len(f[c]) /\ Len(f[c]) \in Nat \ {0}
      /\ DOMAIN Tail(f[c]) = 1 .. Len(f[c]) - 1
      /\ \A j \in 1 .. Len(f[c]) - 1 : Tail(f[c])[j] = f[c][j + 1]
      /\ Head(f[c]) = f[c][1]
  OBVIOUS
<1> QED
  BY <1>1

\* Whatever happens to other transactions leaves the packets of tx in order,
\* and so does what takes some of them away.
LEMMA KeptAppend ==
    ASSUME NEW f \in [Clients -> Seq(Packet)], NEW c \in Clients, NEW p,
           NEW tx, p.tx # tx
    PROVE  Kept(f, [f EXCEPT ![c] = Append(@, p)], tx)
<1> DEFINE g == [f EXCEPT ![c] = Append(@, p)]
           k == [d \in Clients |-> 0]
<1>1. ASSUME NEW d \in Clients, NEW j \in DOMAIN g[d], g[d][j].tx = tx
      PROVE  j + k[d] \in DOMAIN f[d] /\ f[d][j + k[d]] = g[d][j]
  <2>1. j \in DOMAIN f[d] /\ f[d][j] = g[d][j]
    BY <1>1, TableAppend
  <2>2. j \in Nat
    BY <2>1
  <2> QED
    BY <2>1, <2>2
<1>2. k \in [Clients -> Nat]
  OBVIOUS
<1> QED
  BY <1>1, <1>2 DEF Kept

LEMMA KeptTail ==
    ASSUME NEW f \in [Clients -> Seq(Packet)], NEW c \in Clients, NEW tx,
           f[c] # <<>>
    PROVE  Kept(f, [f EXCEPT ![c] = Tail(@)], tx)
<1> DEFINE g == [f EXCEPT ![c] = Tail(@)]
           k == [d \in Clients |-> IF d = c THEN 1 ELSE 0]
<1>1. ASSUME NEW d \in Clients, NEW j \in DOMAIN g[d]
      PROVE  j + k[d] \in DOMAIN f[d] /\ f[d][j + k[d]] = g[d][j]
  <2>1. CASE d = c
    BY <2>1, TableTail
  <2>2. CASE d # c
    <3>1. g[d] = f[d] /\ j \in Nat
      BY <2>2, TableTail
    <3> QED
      BY <2>2, <3>1
  <2> QED
    BY <2>1, <2>2
<1>2. k \in [Clients -> Nat]
  OBVIOUS
<1> QED
  BY <1>1, <1>2 DEF Kept

LEMMA KeptSame ==
    ASSUME NEW f \in [Clients -> Seq(Packet)], NEW tx,
           NEW g, \A d \in Clients : g[d] \in {f[d], <<>>}
    PROVE  Kept(f, g, tx)
<1> DEFINE k == [d \in Clients |-> 0]
<1>1. ASSUME NEW d \in Clients, NEW j \in DOMAIN g[d]
      PROVE  j + k[d] \in DOMAIN f[d] /\ f[d][j + k[d]] = g[d][j]
  <2>1. g[d] = f[d] \/ DOMAIN g[d] = {}
    OBVIOUS
  <2>2. j \in Nat /\ g[d] = f[d]
    BY <2>1
  <2> QED
    BY <2>2
<1>2. k \in [Clients -> Nat]
  OBVIOUS
<1> QED
  BY <1>1, <1>2 DEF Kept

\* A transaction that nothing is added to is where it was.
LEMMA PlaceKept ==
    ASSUME NEW tx \in TxIds, PlaceOf(tx),
           inbox \in [Clients -> Seq(Packet)], inbox' \in [Clients -> Seq(Packet)],
           outbox \in [Clients -> Seq(Packet)], outbox' \in [Clients -> Seq(Packet)],
           Kept(inbox, inbox', tx), Kept(outbox, outbox', tx),
           tx \in used' <=> tx \in used,
           transactions'[tx] = transactions[tx],
           worker'[tx] \in {worker[tx], NoClient},
           next'[tx] = next[tx], got'[tx] = got[tx]
    PROVE  PlaceOf(tx)'
<1>1. PICK k \in [Clients -> Nat] :
        \A d \in Clients : \A j \in DOMAIN inbox'[d] : inbox'[d][j].tx = tx =>
           j + k[d] \in DOMAIN inbox[d] /\ inbox[d][j + k[d]] = inbox'[d][j]
  BY DEF Kept
<1>2. PICK m \in [Clients -> Nat] :
        \A d \in Clients : \A j \in DOMAIN outbox'[d] : outbox'[d][j].tx = tx =>
           j + m[d] \in DOMAIN outbox[d] /\ outbox[d][j + m[d]] = outbox'[d][j]
  BY DEF Kept
<1>3. \A d \in Clients : /\ DOMAIN inbox'[d] \subseteq Nat /\ k[d] \in Nat
                         /\ DOMAIN outbox'[d] \subseteq Nat /\ m[d] \in Nat
  OBVIOUS
<1>4. Nowhere(inbox, tx) => Nowhere(inbox, tx)'
  BY <1>1 DEF Nowhere
<1>5. Nowhere(outbox, tx) => Nowhere(outbox, tx)'
  BY <1>2 DEF Nowhere
<1>6. Idle(tx) => Idle(tx)'
  BY DEF Idle
<1>7. ASSUME NEW d \in Clients, NEW i \in DOMAIN inbox'[d]
      PROVE  /\ OnlyAt(inbox, d, i + k[d], tx) => OnlyAt(inbox', d, i, tx)
             /\ OnlyWith(inbox, d, tx) => OnlyWith(inbox', d, tx)
             /\ LastOf(inbox[d], i + k[d], tx) => LastOf(inbox'[d], i, tx)
  <2>1. ASSUME OnlyAt(inbox, d, i + k[d], tx)
        PROVE  OnlyAt(inbox', d, i, tx)
    <3> SUFFICES ASSUME NEW e \in Clients, NEW j \in DOMAIN inbox'[e], inbox'[e][j].tx = tx
                 PROVE  e = d /\ j = i
      BY DEF OnlyAt
    <3>1. e = d /\ j + k[e] = i + k[d]
      BY <1>1, <2>1 DEF OnlyAt
    <3>2. i \in Nat /\ j \in Nat /\ k[d] \in Nat
      BY <1>3
    <3> QED
      BY <3>1, <3>2
  <2>2. ASSUME LastOf(inbox[d], i + k[d], tx)
        PROVE  LastOf(inbox'[d], i, tx)
    <3> SUFFICES ASSUME NEW j \in DOMAIN inbox'[d], j > i, inbox'[d][j].tx = tx
                 PROVE  FALSE
      BY DEF LastOf
    <3>1. i \in Nat /\ j \in Nat /\ k[d] \in Nat
      BY <1>3
    <3>2. j + k[d] > i + k[d]
      BY <3>1
    <3> QED
      BY <1>1, <2>2, <3>2 DEF LastOf
  <2>3. OnlyWith(inbox, d, tx) => OnlyWith(inbox', d, tx)
    <3> SUFFICES ASSUME OnlyWith(inbox, d, tx),
                        NEW e \in Clients, NEW j \in DOMAIN inbox'[e], inbox'[e][j].tx = tx
                 PROVE  e = d
      BY DEF OnlyWith
    <3>1. j + k[e] \in DOMAIN inbox[e] /\ inbox[e][j + k[e]] = inbox'[e][j]
      BY <1>1
    <3> QED
      BY <3>1 DEF OnlyWith
  <2> QED
    BY <2>1, <2>2, <2>3
<1>8. ASSUME NEW d \in Clients, NEW i \in DOMAIN outbox'[d]
      PROVE  /\ OnlyAt(outbox, d, i + m[d], tx) => OnlyAt(outbox', d, i, tx)
             /\ LastOf(outbox[d], i + m[d], tx) => LastOf(outbox'[d], i, tx)
  <2>1. ASSUME OnlyAt(outbox, d, i + m[d], tx)
        PROVE  OnlyAt(outbox', d, i, tx)
    <3> SUFFICES ASSUME NEW e \in Clients, NEW j \in DOMAIN outbox'[e], outbox'[e][j].tx = tx
                 PROVE  e = d /\ j = i
      BY DEF OnlyAt
    <3>1. e = d /\ j + m[e] = i + m[d]
      BY <1>2, <2>1 DEF OnlyAt
    <3>2. i \in Nat /\ j \in Nat /\ m[d] \in Nat
      BY <1>3
    <3> QED
      BY <3>1, <3>2
  <2>2. ASSUME LastOf(outbox[d], i + m[d], tx)
        PROVE  LastOf(outbox'[d], i, tx)
    <3> SUFFICES ASSUME NEW j \in DOMAIN outbox'[d], j > i, outbox'[d][j].tx = tx
                 PROVE  FALSE
      BY DEF LastOf
    <3>1. i \in Nat /\ j \in Nat /\ m[d] \in Nat
      BY <1>3
    <3>2. j + m[d] > i + m[d]
      BY <3>1
    <3> QED
      BY <1>2, <2>2, <3>2 DEF LastOf
  <2> QED
    BY <2>1, <2>2
<1>9. SentInv(tx)'
  <2> SUFFICES ASSUME NEW d \in Clients, NEW i \in DOMAIN inbox'[d],
                      inbox'[d][i].tx = tx
               PROVE  /\ inbox'[d][i].ptype \in RequestType =>
                            /\ Idle(tx)' /\ transactions'[tx] = NoClient
                            /\ OnlyAt(inbox', d, i, tx) /\ Nowhere(outbox', tx)
                      /\ inbox'[d][i].ptype \notin RequestType =>
                            /\ inbox'[d][i].ptype = "respond_execute"
                            /\ transactions'[tx] # NoClient
                            /\ worker'[tx] \in {d, NoClient}
                            /\ OnlyWith(inbox', d, tx)
                            /\ inbox'[d][i].fin =>
                                  worker'[tx] = NoClient /\ LastOf(inbox'[d], i, tx)
    BY DEF SentInv, OnlyAt, OnlyWith, Nowhere, LastOf
  <2>1. i + k[d] \in DOMAIN inbox[d] /\ inbox[d][i + k[d]] = inbox'[d][i]
    BY <1>1
  <2>2. Nowhere(outbox, tx) => Nowhere(outbox', tx)
    BY <1>5 DEF Nowhere
  <2> QED
    BY <1>6, <1>7, <2>1, <2>2 DEF PlaceOf, SentInv
<1>10. DeliveredInv(tx)'
  <2> SUFFICES ASSUME NEW d \in Clients, NEW i \in DOMAIN outbox'[d],
                      outbox'[d][i].tx = tx
               PROVE  /\ outbox'[d][i].ptype \in RequestType =>
                            /\ outbox'[d][i].ptype = "execute"
                            /\ Idle(tx)' /\ transactions'[tx] # NoClient
                            /\ OnlyAt(outbox', d, i, tx) /\ Nowhere(inbox', tx)
                      /\ outbox'[d][i].ptype \notin RequestType /\ outbox'[d][i].fin =>
                            /\ worker'[tx] = NoClient /\ transactions'[tx] = NoClient
                            /\ Nowhere(inbox', tx) /\ LastOf(outbox'[d], i, tx)
    BY DEF DeliveredInv, OnlyAt, Nowhere, LastOf
  <2>1. i + m[d] \in DOMAIN outbox[d] /\ outbox[d][i + m[d]] = outbox'[d][i]
    BY <1>2
  <2>2. Nowhere(inbox, tx) => Nowhere(inbox', tx)
    BY <1>4 DEF Nowhere
  <2> QED
    BY <1>6, <1>8, <2>1, <2>2 DEF PlaceOf, DeliveredInv
<1> QED
  BY <1>4, <1>5, <1>6, <1>9, <1>10 DEF PlaceOf

\* When the last packet of tx is taken, there is no other left.
LEMMA TakenLast ==
    ASSUME NEW f \in [Clients -> Seq(Packet)], NEW c \in Clients, NEW tx,
           f[c] # <<>>,
           OnlyAt(f, c, 1, tx) \/ (OnlyWith(f, c, tx) /\ LastOf(f[c], 1, tx))
    PROVE  Nowhere([f EXCEPT ![c] = Tail(@)], tx)
<1> DEFINE g == [f EXCEPT ![c] = Tail(@)]
<1>1. SUFFICES ASSUME NEW d \in Clients, NEW i \in DOMAIN g[d], g[d][i].tx = tx
               PROVE  FALSE
  BY DEF Nowhere
<1>2. CASE d = c
  <2>1. i + 1 \in DOMAIN f[c] /\ i + 1 > 1 /\ f[c][i + 1].tx = tx
    BY <1>1, <1>2, TableTail
  <2>2. i + 1 # 1
    BY <2>1
  <2> HIDE DEF g
  <2> QED
    BY <1>1, <2>1, <2>2 DEF OnlyAt, LastOf
<1>3. CASE d # c
  <2>1. g[d] = f[d]
    BY <1>3, TableTail
  <2> QED
    BY <1>1, <1>3, <2>1 DEF OnlyAt, OnlyWith
<1> QED
  BY <1>2, <1>3

\* The packets of tx are one place in queue c, which holds p.
Sole(f, c, p, tx) ==
    \A d \in Clients : \A i \in DOMAIN f[d] : f[d][i].tx = tx =>
        /\ d = c /\ f[d][i] = p
        /\ OnlyAt(f, d, i, tx) /\ LastOf(f[d], i, tx)

\* So it is when p is put into a table without packets of its transaction.
LEMMA PutFirst ==
    ASSUME NEW f \in [Clients -> Seq(Packet)], NEW c \in Clients, NEW p,
           NEW tx, p.tx = tx, Nowhere(f, tx)
    PROVE  Sole([f EXCEPT ![c] = Append(@, p)], c, p, tx)
<1> DEFINE g == [f EXCEPT ![c] = Append(@, p)]
           n == Len(f[c]) + 1
<1>1. \A e \in Clients : \A j \in DOMAIN g[e] : g[e][j].tx = tx =>
         e = c /\ j = n /\ g[e][j] = p
  <2> TAKE e \in Clients
  <2> TAKE j \in DOMAIN g[e]
  <2>1. CASE e = c
    BY <2>1, TableAppend DEF Nowhere
  <2>2. CASE e # c
    <3>1. g[e] = f[e]
      BY <2>2, TableAppend
    <3> QED
      BY <3>1 DEF Nowhere
  <2> QED
    BY <2>1, <2>2
<1>2. n \in Nat
  OBVIOUS
<1> HIDE DEF g, n
<1>3. Sole(g, c, p, tx)
  BY <1>1, <1>2 DEF Sole, OnlyAt, LastOf
<1> QED
  BY <1>3 DEF g

\* A packet that is delivered is behind all others, and the rest has stayed.
LEMMA DeliverKept ==
    ASSUME outbox \in [Clients -> Seq(Packet)], NEW c, NEW p,
           Deliver(c, p), NEW tx
    PROVE  /\ p.tx # tx => Kept(outbox, outbox', tx)
           /\ \/ c \in Clients /\ outbox' = [outbox EXCEPT ![c] = Append(@, p)]
              \/ outbox' = outbox
<1>1. Kept(outbox, outbox, tx)
  BY KeptSame
<1>2. \/ c \in Clients /\ outbox' = [outbox EXCEPT ![c] = Append(@, p)]
      \/ outbox' = outbox
  BY DEF Deliver
<1>3. c \in Clients /\ p.tx # tx =>
         Kept(outbox, [outbox EXCEPT ![c] = Append(@, p)], tx)
  BY KeptAppend
<1> QED
  BY <1>1, <1>2, <1>3

\* Replies on their way to the broker stay what they are.
LEMMA SentKept ==
    ASSUME NEW tx \in TxIds, SentInv(tx),
           inbox \in [Clients -> Seq(Packet)], inbox' \in [Clients -> Seq(Packet)],
           Kept(inbox, inbox', tx),
           \A d \in Clients : \A i \in DOMAIN inbox[d] : inbox[d][i].tx = tx =>
              inbox[d][i].ptype \notin RequestType,
           transactions'[tx] = transactions[tx],
           worker'[tx] \in {worker[tx], NoClient}
    PROVE  SentInv(tx)'
<1>1. PICK k \in [Clients -> Nat] :
        \A d \in Clients : \A j \in DOMAIN inbox'[d] : inbox'[d][j].tx = tx =>
           j + k[d] \in DOMAIN inbox[d] /\ inbox[d][j + k[d]] = inbox'[d][j]
  BY DEF Kept
<1>2. \A d \in Clients : DOMAIN inbox'[d] \subseteq Nat /\ k[d] \in Nat
  OBVIOUS
<1>3. SUFFICES ASSUME NEW d \in Clients, NEW i \in DOMAIN inbox'[d],
                      inbox'[d][i].tx = tx
               PROVE  /\ inbox'[d][i].ptype \notin RequestType
                      /\ inbox'[d][i].ptype = "respond_execute"
                      /\ transactions'[tx] # NoClient
                      /\ worker'[tx] \in {d, NoClient}
                      /\ OnlyWith(inbox', d, tx)
                      /\ inbox'[d][i].fin =>
                            worker'[tx] = NoClient /\ LastOf(inbox'[d], i, tx)
  BY DEF SentInv, OnlyWith, LastOf
<1>4. i + k[d] \in DOMAIN inbox[d] /\ inbox[d][i + k[d]] = inbox'[d][i]
  BY <1>1, <1>3
<1>5. OnlyWith(inbox, d, tx) => OnlyWith(inbox', d, tx)
  BY <1>1 DEF OnlyWith
<1>6. ASSUME LastOf(inbox[d], i + k[d], tx)
      PROVE  LastOf(inbox'[d], i, tx)
  <2> SUFFICES ASSUME NEW j \in DOMAIN inbox'[d], j > i, inbox'[d][j].tx = tx
               PROVE  FALSE
    BY DEF LastOf
  <2>1. i \in Nat /\ j \in Nat /\ k[d] \in Nat
    BY <1>2
  <2>2. j + k[d] > i + k[d]
    BY <2>1
  <2> QED
    BY <1>1, <1>6, <2>2 DEF LastOf
<1> QED
  BY <1>3, <1>4, <1>5, <1>6 DEF SentInv

\* So do the replies that wait for a client.
LEMMA DeliveredKept ==
    ASSUME NEW tx \in TxIds, DeliveredInv(tx),
           outbox \in [Clients -> Seq(Packet)], outbox' \in [Clients -> Seq(Packet)],
           Kept(outbox, outbox', tx),
           \A d \in Clients : \A i \in DOMAIN outbox[d] : outbox[d][i].tx = tx =>
              outbox[d][i].ptype \notin RequestType,
           UNCHANGED <<inbox, transactions, worker>>
    PROVE  DeliveredInv(tx)'
<1>1. PICK k \in [Clients -> Nat] :
        \A d \in Clients : \A j \in DOMAIN outbox'[d] : outbox'[d][j].tx = tx =>
           j + k[d] \in DOMAIN outbox[d] /\ outbox[d][j + k[d]] = outbox'[d][j]
  BY DEF Kept
<1>2. \A d \in Clients : DOMAIN outbox'[d] \subseteq Nat /\ k[d] \in Nat
  OBVIOUS
<1>3. SUFFICES ASSUME NEW d \in Clients, NEW i \in DOMAIN outbox'[d],
                      outbox'[d][i].tx = tx
               PROVE  /\ outbox'[d][i].ptype \notin RequestType
                      /\ outbox'[d][i].fin =>
                            /\ worker[tx] = NoClient /\ transactions[tx] = NoClient
                            /\ Nowhere(inbox, tx) /\ LastOf(outbox'[d], i, tx)
  BY DEF DeliveredInv, LastOf, Nowhere
<1>4. i + k[d] \in DOMAIN outbox[d] /\ outbox[d][i + k[d]] = outbox'[d][i]
  BY <1>1, <1>3
<1>5. ASSUME LastOf(outbox[d], i + k[d], tx)
      PROVE  LastOf(outbox'[d], i, tx)
  <2> SUFFICES ASSUME NEW j \in DOMAIN outbox'[d], j > i, outbox'[d][j].tx = tx
               PROVE  FALSE
    BY DEF LastOf
  <2>1. i \in Nat /\ j \in Nat /\ k[d] \in Nat
    BY <1>2
  <2>2. j + k[d] > i + k[d]
    BY <2>1
  <2> QED
    BY <1>1, <1>5, <2>2 DEF LastOf
<1> QED
  BY <1>3, <1>4, <1>5 DEF DeliveredInv

\* The broker answers a request and forgets it.
LEMMA AnswerPlaces ==
    ASSUME BrokerTypeOK, BrokerTypeOK', PlaceInv, NEW c \in Clients,
           inbox[c] # <<>>, inbox' = [inbox EXCEPT ![c] = Tail(@)],
           Head(inbox[c]).ptype \in RequestType,
           NEW r, r.tx = Head(inbox[c]).tx, r.ptype \notin RequestType,
           Deliver(c, r),
           UNCHANGED <<transactions, peerVars>>
    PROVE  PlaceInv'
<1> DEFINE p == Head(inbox[c])
<1>t. /\ inbox \in [Clients -> Seq(Packet)] /\ outbox \in [Clients -> Seq(Packet)]
      /\ inbox' \in [Clients -> Seq(Packet)] /\ outbox' \in [Clients -> Seq(Packet)]
  BY DEF BrokerTypeOK
<1>u. UNCHANGED <<used, worker, next, got, transactions>>
  BY DEF peerVars
<1>1. 1 \in DOMAIN inbox[c] /\ inbox[c][1] = p
  BY <1>t, TableTail
<1>2. SUFFICES ASSUME NEW tx \in TxIds
               PROVE  PlaceOf(tx)'
  BY DEF PlaceInv
<1>3. PlaceOf(tx)
  BY DEF PlaceInv
<1>4. CASE tx # p.tx
  <2>1. Kept(inbox, inbox', tx) /\ Kept(outbox, outbox', tx)
    BY <1>t, <1>4, KeptTail, DeliverKept
  <2> QED
    BY <1>t, <1>u, <1>3, <2>1, PlaceKept
<1>5. CASE tx = p.tx
  <2>1. /\ Idle(tx) /\ transactions[tx] = NoClient
        /\ OnlyAt(inbox, c, 1, tx) /\ Nowhere(outbox, tx)
    BY <1>1, <1>3, <1>5 DEF PlaceOf, SentInv
  <2>2. tx \in used
    BY <1>1, <1>3, <1>5 DEF PlaceOf, Nowhere
  <2>3. Nowhere(inbox', tx)
    BY <1>t, <2>1, TakenLast
  <2>4. /\ Idle(tx)' /\ transactions'[tx] = NoClient /\ worker'[tx] = NoClient
        /\ tx \in used'
    BY <1>u, <2>1, <2>2 DEF Idle
  <2>5. SentInv(tx)'
    BY <2>3 DEF SentInv, Nowhere
  <2>6. \A d \in Clients : \A i \in DOMAIN outbox'[d] : outbox'[d][i].tx = tx =>
           outbox'[d][i] = r /\ LastOf(outbox'[d], i, tx)
    <3>1. CASE outbox' = [outbox EXCEPT ![c] = Append(@, r)]
      <4>1. r.tx = tx
        BY <1>5
      <4>2. Sole(outbox', c, r, tx)
        BY <1>t, <2>1, <3>1, <4>1, PutFirst
      <4> QED
        BY <4>2 DEF Sole
    <3>2. CASE outbox' = outbox
      BY <2>1, <3>2 DEF Nowhere
    <3> QED
      BY <1>t, <3>1, <3>2, DeliverKept
  <2>7. DeliveredInv(tx)'
    <3>1. Nowhere(inbox, tx)'
      BY <2>3 DEF Nowhere
    <3>2. \A d, i : LastOf(outbox'[d], i, tx) => LastOf(outbox[d], i, tx)'
      BY DEF LastOf
    <3> QED
      BY <2>4, <2>6, <3>1, <3>2 DEF DeliveredInv
  <2> QED
    BY <2>4, <2>5, <2>7 DEF PlaceOf
<1> QED
  BY <1>4, <1>5

\* The broker forwards an execute and records its transaction.
LEMMA ForwardPlaces ==
    ASSUME BrokerTypeOK, BrokerTypeOK', PlaceInv, NEW c \in Clients,
           inbox[c] # <<>>, inbox' = [inbox EXCEPT ![c] = Tail(@)],
           Head(inbox[c]).ptype = "execute",
           NEW e, Deliver(e, Head(inbox[c])),
           transactions' = [transactions EXCEPT ![Head(inbox[c]).tx] = c],
           UNCHANGED peerVars
    PROVE  PlaceInv'
<1> DEFINE p == Head(inbox[c])
<1>t. /\ inbox \in [Clients -> Seq(Packet)] /\ outbox \in [Clients -> Seq(Packet)]
      /\ inbox' \in [Clients -> Seq(Packet)] /\ outbox' \in [Clients -> Seq(Packet)]
      /\ transactions \in [TxIds -> Clients \cup {NoClient}]
  BY DEF BrokerTypeOK
<1>u. UNCHANGED <<used, worker, next, got>>
  BY DEF peerVars
<1>1. 1 \in DOMAIN inbox[c] /\ inbox[c][1] = p
  BY <1>t, TableTail
<1>2. SUFFICES ASSUME NEW tx \in TxIds
               PROVE  PlaceOf(tx)'
  BY DEF PlaceInv
<1>3. PlaceOf(tx)
  BY DEF PlaceInv
<1>4. CASE tx # p.tx
  <2>1. Kept(inbox, inbox', tx) /\ Kept(outbox, outbox', tx)
    BY <1>t, <1>4, KeptTail, DeliverKept
  <2>2. transactions'[tx] = transactions[tx]
    BY <1>t, <1>4
  <2> QED
    BY <1>t, <1>u, <1>3, <2>1, <2>2, PlaceKept
<1>5. CASE tx = p.tx
  <2>1. Idle(tx) /\ OnlyAt(inbox, c, 1, tx) /\ Nowhere(outbox, tx)
    BY <1>1, <1>3, <1>5 DEF PlaceOf, SentInv, RequestType
  <2>2. tx \in used
    BY <1>1, <1>3, <1>5 DEF PlaceOf, Nowhere
  <2>3. Nowhere(inbox', tx)
    BY <1>t, <2>1, TakenLast
  <2>4. Idle(tx)' /\ transactions'[tx] # NoClient /\ tx \in used'
    BY <1>t, <1>u, <1>5, <2>1, <2>2 DEF Idle
  <2>5. SentInv(tx)'
    BY <2>3 DEF SentInv, Nowhere
  <2>6. \A d \in Clients : \A i \in DOMAIN outbox'[d] : outbox'[d][i].tx = tx =>
           outbox'[d][i] = p /\ OnlyAt(outbox', d, i, tx)
    <3>1. CASE e \in Clients /\ outbox' = [outbox EXCEPT ![e] = Append(@, p)]
      <4>1. Sole(outbox', e, p, tx)
        BY <1>t, <1>5, <2>1, <3>1, PutFirst
      <4> QED
        BY <4>1 DEF Sole
    <3>2. CASE outbox' = outbox
      BY <2>1, <3>2 DEF Nowhere
    <3> QED
      BY <1>t, <3>1, <3>2, DeliverKept
  <2>7. DeliveredInv(tx)'
    <3>1. Nowhere(inbox, tx)'
      BY <2>3 DEF Nowhere
    <3>2. \A d, i : OnlyAt(outbox', d, i, tx) => OnlyAt(outbox, d, i, tx)'
      BY DEF OnlyAt
    <3>3. p.ptype = "execute" /\ p.ptype \in RequestType
      BY DEF RequestType
    <3> HIDE DEF p
    <3> QED
      BY <2>4, <2>6, <3>1, <3>2, <3>3 DEF DeliveredInv
  <2> QED
    BY <2>4, <2>5, <2>7 DEF PlaceOf
<1> QED
  BY <1>4, <1>5

\* The broker passes a reply on; the one that ends its transaction is the last.
LEMMA RelayPlaces ==
    ASSUME BrokerTypeOK, BrokerTypeOK', PlaceInv, NEW c \in Clients,
           inbox[c] # <<>>, inbox' = [inbox EXCEPT ![c] = Tail(@)],
           Head(inbox[c]).ptype = "respond_execute",
           NEW e, Deliver(e, Head(inbox[c])),
           transactions' = IF Head(inbox[c]).fin
                           THEN [transactions EXCEPT ![Head(inbox[c]).tx] = NoClient]
                           ELSE transactions,
           UNCHANGED peerVars
    PROVE  PlaceInv'
<1> DEFINE p == Head(inbox[c])
<1>t. /\ inbox \in [Clients -> Seq(Packet)] /\ outbox \in [Clients -> Seq(Packet)]
      /\ inbox' \in [Clients -> Seq(Packet)] /\ outbox' \in [Clients -> Seq(Packet)]
      /\ transactions \in [TxIds -> Clients \cup {NoClient}]
  BY DEF BrokerTypeOK
<1>u. UNCHANGED <<used, worker, next, got>>
  BY DEF peerVars
<1>1. 1 \in DOMAIN inbox[c] /\ inbox[c][1] = p
  BY <1>t, TableTail
<1>2. SUFFICES ASSUME NEW tx \in TxIds
               PROVE  PlaceOf(tx)'
  BY DEF PlaceInv
<1>3. PlaceOf(tx)
  BY DEF PlaceInv
<1>4. CASE tx # p.tx
  <2>1. Kept(inbox, inbox', tx) /\ Kept(outbox, outbox', tx)
    BY <1>t, <1>4, KeptTail, DeliverKept
  <2>2. transactions'[tx] = transactions[tx]
    BY <1>t, <1>4
  <2> QED
    BY <1>t, <1>u, <1>3, <2>1, <2>2, PlaceKept
<1>5. CASE tx = p.tx
  <2>0. p.ptype \notin RequestType
    BY DEF RequestType
  <2>1. /\ transactions[tx] # NoClient /\ OnlyWith(inbox, c, tx)
        /\ p.fin => worker[tx] = NoClient /\ LastOf(inbox[c], 1, tx)
    BY <1>1, <1>3, <1>5, <2>0 DEF PlaceOf, SentInv
  <2>2. tx \in used /\ ~Nowhere(inbox, tx)
    BY <1>1, <1>3, <1>5 DEF PlaceOf, Nowhere
  <2>3. /\ Kept(inbox, inbox', tx)
        /\ p.fin => Nowhere(inbox', tx) /\ transactions'[tx] = NoClient
        /\ ~p.fin => transactions' = transactions
    BY <1>t, <1>5, <2>1, TakenLast, KeptTail
  <2>4. \A d \in Clients : \A i \in DOMAIN inbox[d] : inbox[d][i].tx = tx =>
           inbox[d][i].ptype \notin RequestType
    BY <1>1, <1>3, <1>5, <2>0 DEF PlaceOf, SentInv, OnlyAt
  <2>5. \A d \in Clients : \A i \in DOMAIN outbox'[d] : outbox'[d][i].tx = tx =>
           /\ outbox'[d][i].ptype \notin RequestType
           /\ outbox'[d][i].fin => outbox'[d][i] = p /\ LastOf(outbox'[d], i, tx)
    <3>1. \A d \in Clients : \A i \in DOMAIN outbox[d] : outbox[d][i].tx = tx =>
             outbox[d][i].ptype \notin RequestType /\ ~outbox[d][i].fin
      BY <1>3, <2>2 DEF PlaceOf, DeliveredInv
    <3>2. CASE e \in Clients /\ outbox' = [outbox EXCEPT ![e] = Append(@, p)]
      <4> SUFFICES ASSUME NEW d \in Clients, NEW i \in DOMAIN outbox'[d],
                          outbox'[d][i].tx = tx
                   PROVE  /\ outbox'[d][i].ptype \notin RequestType
                          /\ outbox'[d][i].fin =>
                                outbox'[d][i] = p /\ LastOf(outbox'[d], i, tx)
        OBVIOUS
      <4>1. CASE d = e
        <5>1. \/ i \in DOMAIN outbox[e] /\ outbox'[e][i] = outbox[e][i]
              \/ i = Len(outbox[e]) + 1 /\ outbox'[e][i] = p
          BY <1>t, <3>2, <4>1, TableAppend
        <5>2. \A j \in DOMAIN outbox'[e] : j <= Len(outbox[e]) + 1
          BY <1>t, <3>2
        <5>3. Len(outbox[e]) \in Nat /\ DOMAIN outbox'[e] \subseteq Nat
          <6>1. outbox[e] \in Seq(Packet) /\ outbox'[e] \in Seq(Packet)
            BY <1>t, <3>2
          <6> QED
            BY <6>1
        <5>4. i = Len(outbox[e]) + 1 => LastOf(outbox'[e], i, tx)
          BY <5>2, <5>3 DEF LastOf
        <5> HIDE DEF p
        <5> QED
          BY <2>0, <3>1, <4>1, <5>1, <5>4
      <4>2. CASE d # e
        <5>1. outbox'[d] = outbox[d]
          BY <1>t, <3>2, <4>2, TableAppend
        <5> QED
          BY <3>1, <5>1
      <4> QED
        BY <4>1, <4>2
    <3>3. CASE outbox' = outbox
      BY <3>1, <3>3
    <3> QED
      BY <1>t, <3>2, <3>3, DeliverKept
  <2>6. DeliveredInv(tx)'
    <3>1. p.fin => worker'[tx] = NoClient /\ transactions'[tx] = NoClient
      BY <1>u, <2>1, <2>3
    <3>2. p.fin => Nowhere(inbox, tx)'
      BY <2>3 DEF Nowhere
    <3>3. \A d, i : LastOf(outbox'[d], i, tx) => LastOf(outbox[d], i, tx)'
      BY DEF LastOf
    <3> HIDE DEF p
    <3> QED
      BY <2>5, <3>1, <3>2, <3>3 DEF DeliveredInv
  <2>7. CASE p.fin
    <3>1. SentInv(tx)'
      BY <2>3, <2>7 DEF SentInv, Nowhere
    <3>2. worker'[tx] = NoClient /\ tx \in used'
      BY <1>u, <2>1, <2>2, <2>7
    <3> QED
      BY <2>6, <3>1, <3>2 DEF PlaceOf
  <2>8. CASE ~p.fin
    <3>1. SentInv(tx)'
      BY <1>u, <1>t, <1>3, <2>3, <2>4, <2>8, SentKept DEF PlaceOf
    <3>2. tx \in used' /\ transactions'[tx] # NoClient
      BY <1>u, <2>1, <2>2, <2>3, <2>8
    <3> QED
      BY <2>6, <3>1, <3>2 DEF PlaceOf
  <2> QED
    BY <2>7, <2>8
<1> QED
  BY <1>4, <1>5

\* A client makes a request under a uuid that nobody has seen.
LEMMA RequestPlaces ==
    ASSUME TypeOK, TypeOK', PlaceInv, NEW c \in Clients, NEW tx \in TxIds,
           NEW t \in RequestType, NEW ch, NEW arg, SendRequest(c, tx, t, ch, arg)
    PROVE  PlaceInv'
<1> DEFINE p == [ptype |-> t, tx |-> tx, ch |-> ch, arg |-> arg]
<1>t. /\ inbox \in [Clients -> Seq(Packet)] /\ outbox \in [Clients -> Seq(Packet)]
      /\ inbox' \in [Clients -> Seq(Packet)] /\ outbox' \in [Clients -> Seq(Packet)]
  BY DEF TypeOK, BrokerTypeOK
<1>u. /\ UNCHANGED <<outbox, transactions, worker, next, got>>
      /\ used' = used \cup {tx} /\ tx \notin used
  BY DEF SendRequest, serverVars, clientVars
<1>1. \/ inbox' = [inbox EXCEPT ![c] = Append(@, p)]
      \/ inbox' = inbox
  BY DEF SendRequest, Push
<1>p. p.tx = tx /\ p.ptype \in RequestType
  OBVIOUS
<1> HIDE DEF p
<1>2. SUFFICES ASSUME NEW x \in TxIds
               PROVE  PlaceOf(x)'
  BY DEF PlaceInv
<1>3. PlaceOf(x)
  BY DEF PlaceInv
<1>4. Kept(inbox, inbox, x) /\ Kept(outbox, outbox', x)
  BY <1>t, <1>u, KeptSame
<1>5. CASE x # tx
  <2>1. Kept(inbox, inbox', x)
    <3>1. Kept(inbox, [inbox EXCEPT ![c] = Append(@, p)], x)
      BY <1>t, <1>p, <1>5, KeptAppend
    <3> QED
      BY <1>1, <1>4, <3>1
  <2> QED
    BY <1>t, <1>u, <1>3, <1>4, <1>5, <2>1, PlaceKept
<1>6. CASE x = tx
  <2>1. Idle(tx) /\ transactions[tx] = NoClient /\ Nowhere(inbox, tx) /\ Nowhere(outbox, tx)
    BY <1>u, <1>3, <1>6 DEF PlaceOf
  <2>2. Idle(tx)' /\ transactions'[tx] = NoClient /\ Nowhere(outbox', tx)
    BY <1>u, <2>1 DEF Idle
  <2>3. \A d \in Clients : \A i \in DOMAIN inbox'[d] : inbox'[d][i].tx = tx =>
           inbox'[d][i] = p /\ OnlyAt(inbox', d, i, tx)
    <3>1. CASE inbox' = [inbox EXCEPT ![c] = Append(@, p)]
      <4>1. Sole(inbox', c, p, tx)
        BY <1>t, <1>p, <2>1, <3>1, PutFirst
      <4> QED
        BY <4>1 DEF Sole
    <3>2. CASE inbox' = inbox
      BY <2>1, <3>2 DEF Nowhere
    <3> QED
      BY <1>1, <3>1, <3>2
  <2>4. SentInv(tx)'
    <3>1. \A d, i : OnlyAt(inbox', d, i, tx) => OnlyAt(inbox, d, i, tx)'
      BY DEF OnlyAt
    <3>2. Nowhere(outbox, tx)'
      BY <2>2 DEF Nowhere
    <3> QED
      BY <1>p, <2>2, <2>3, <3>1, <3>2 DEF SentInv
  <2>5. DeliveredInv(tx)'
    BY <2>2 DEF DeliveredInv, Nowhere
  <2>6. worker'[tx] = NoClient /\ tx \in used'
    BY <1>u, <2>1 DEF Idle
  <2> QED
    BY <1>6, <2>4, <2>5, <2>6 DEF PlaceOf
<1> QED
  BY <1>5, <1>6

\* The worker of a transaction makes a reply, and is done if it finishes it.
LEMMA ReplyPlaces ==
    ASSUME TypeOK, TypeOK', PlaceInv, NEW c \in Clients, NEW tx \in TxIds,
           NEW fin \in BOOLEAN, NEW ok \in BOOLEAN, SendReply(c, tx, fin, ok)
    PROVE  PlaceInv'
<1> DEFINE p == RespondExecute(tx, next[tx], fin, ok)
<1>t. /\ inbox \in [Clients -> Seq(Packet)] /\ outbox \in [Clients -> Seq(Packet)]
      /\ inbox' \in [Clients -> Seq(Packet)] /\ outbox' \in [Clients -> Seq(Packet)]
      /\ worker \in [TxIds -> Clients \cup {NoClient}] /\ next \in [TxIds -> Nat]
  BY DEF TypeOK, BrokerTypeOK
<1>u. /\ UNCHANGED <<outbox, transactions, used, got>>
      /\ worker[tx] = c
      /\ worker' = IF fin \/ ~ok THEN [worker EXCEPT ![tx] = NoClient] ELSE worker
      /\ next' = [next EXCEPT ![tx] = @ + 1]
  BY DEF SendReply, serverVars, clientVars
<1>1. \/ inbox' = [inbox EXCEPT ![c] = Append(@, p)]
      \/ inbox' = inbox
  BY DEF SendReply, Push
<1>p. p.tx = tx /\ p.ptype = "respond_execute" /\ p.fin = (fin \/ ~ok)
      /\ p.ptype \notin RequestType
  BY DEF RespondExecute, RequestType
<1> HIDE DEF p
<1>2. SUFFICES ASSUME NEW x \in TxIds
               PROVE  PlaceOf(x)'
  BY DEF PlaceInv
<1>3. PlaceOf(x)
  BY DEF PlaceInv
<1>4. Kept(inbox, inbox, x) /\ Kept(outbox, outbox', x)
  BY <1>t, <1>u, KeptSame
<1>5. CASE x # tx
  <2>1. Kept(inbox, inbox', x)
    <3>1. Kept(inbox, [inbox EXCEPT ![c] = Append(@, p)], x)
      BY <1>t, <1>p, <1>5, KeptAppend
    <3> QED
      BY <1>1, <1>4, <3>1
  <2>2. worker'[x] = worker[x] /\ next'[x] = next[x]
    BY <1>t, <1>u, <1>5
  <2> QED
    BY <1>t, <1>u, <1>3, <1>4, <2>1, <2>2, PlaceKept
<1>6. CASE x = tx
  <2>0. worker[tx] # NoClient
    BY <1>u
  <2>1. transactions[tx] # NoClient /\ tx \in used
    BY <1>3, <1>6, <2>0 DEF PlaceOf, Idle
  <2>2. \A d \in Clients : \A i \in DOMAIN inbox[d] : inbox[d][i].tx = tx =>
           /\ d = c /\ inbox[d][i].ptype = "respond_execute" /\ ~inbox[d][i].fin
    BY <1>u, <1>3, <1>6, <2>0 DEF PlaceOf, SentInv, Idle
  <2>3. \A d \in Clients : \A i \in DOMAIN outbox[d] : outbox[d][i].tx = tx =>
           outbox[d][i].ptype \notin RequestType /\ ~outbox[d][i].fin
    BY <1>u, <1>3, <1>6, <2>0 DEF PlaceOf, DeliveredInv, Idle
  <2>4. /\ worker'[tx] \in {c, NoClient}
        /\ p.fin => worker'[tx] = NoClient
    BY <1>t, <1>u, <1>p
  <2>5. \A d \in Clients : \A i \in DOMAIN inbox'[d] : inbox'[d][i].tx = tx =>
           /\ d = c /\ inbox'[d][i].ptype = "respond_execute"
           /\ inbox'[d][i].fin => worker'[tx] = NoClient /\ LastOf(inbox'[d], i, tx)
    <3> SUFFICES ASSUME NEW d \in Clients, NEW i \in DOMAIN inbox'[d],
                        inbox'[d][i].tx = tx
                 PROVE  /\ d = c /\ inbox'[d][i].ptype = "respond_execute"
                        /\ inbox'[d][i].fin =>
                              worker'[tx] = NoClient /\ LastOf(inbox'[d], i, tx)
      OBVIOUS
    <3>1. CASE inbox' = [inbox EXCEPT ![c] = Append(@, p)]
      <4>1. CASE d = c
        <5>1. \/ i \in DOMAIN inbox[c] /\ inbox'[c][i] = inbox[c][i]
              \/ i = Len(inbox[c]) + 1 /\ inbox'[c][i] = p
          BY <1>t, <3>1, <4>1, TableAppend
        <5>2. \A j \in DOMAIN inbox'[c] : j <= Len(inbox[c]) + 1
          BY <1>t, <3>1
        <5>3. Len(inbox[c]) \in Nat /\ DOMAIN inbox'[c] \subseteq Nat
          <6>1. inbox[c] \in Seq(Packet) /\ inbox'[c] \in Seq(Packet)
            BY <1>t
          <6> QED
            BY <6>1
        <5>4. i = Len(inbox[c]) + 1 => LastOf(inbox'[c], i, tx)
          BY <5>2, <5>3 DEF LastOf
        <5>5. CASE i \in DOMAIN inbox[c] /\ inbox'[c][i] = inbox[c][i]
          BY <2>2, <4>1, <5>5
        <5>6. CASE i = Len(inbox[c]) + 1 /\ inbox'[c][i] = p
          BY <1>p, <2>4, <4>1, <5>4, <5>6
        <5> QED
          BY <5>1, <5>5, <5>6
      <4>2. CASE d # c
        <5>1. inbox'[d] = inbox[d]
          BY <1>t, <3>1, <4>2, TableAppend
        <5> QED
          BY <2>2, <4>2, <5>1
      <4> QED
        BY <4>1, <4>2
    <3>2. CASE inbox' = inbox
      BY <2>2, <3>2
    <3> QED
      BY <1>1, <3>1, <3>2
  <2>6. SentInv(tx)'
    <3>1. \A d, i : LastOf(inbox'[d], i, tx) => LastOf(inbox[d], i, tx)'
      BY DEF LastOf
    <3>2. OnlyWith(inbox, c, tx)'
      BY <2>5 DEF OnlyWith
    <3>3. \A d \in Clients : \A i \in DOMAIN inbox'[d] : inbox'[d][i].tx = tx =>
             inbox'[d][i].ptype \notin RequestType
      BY <2>5 DEF RequestType
    <3>4. transactions'[tx] # NoClient
      BY <1>u, <2>1
    <3> QED
      BY <2>4, <2>5, <3>1, <3>2, <3>3, <3>4 DEF SentInv
  <2>7. DeliveredInv(tx)'
    BY <1>u, <2>3 DEF DeliveredInv
  <2>8. tx \in used' /\ transactions'[tx] # NoClient
    BY <1>u, <2>1
  <2> QED
    BY <1>6, <2>6, <2>7, <2>8 DEF PlaceOf
<1> QED
  BY <1>5, <1>6

\* A client takes a packet: an execute makes it the worker.
LEMMA ListenPlaces ==
    ASSUME TypeOK, TypeOK', PlaceInv, NEW c \in Clients, Listen(c)
    PROVE  PlaceInv'
<1>t. /\ inbox \in [Clients -> Seq(Packet)] /\ outbox \in [Clients -> Seq(Packet)]
      /\ inbox' \in [Clients -> Seq(Packet)] /\ outbox' \in [Clients -> Seq(Packet)]
      /\ worker \in [TxIds -> Clients \cup {NoClient}] /\ got \in [TxIds -> Nat]
  BY DEF TypeOK, BrokerTypeOK
<1>u. UNCHANGED <<inbox, transactions, used, next>>
  BY DEF Listen, serverVars
<1>1. SUFFICES ASSUME NEW tx \in TxIds
               PROVE  PlaceOf(tx)'
  BY DEF PlaceInv
<1>2. PlaceOf(tx) /\ Kept(inbox, inbox', tx)
  BY <1>t, <1>u, KeptSame DEF PlaceInv
<1>3. CASE outbox[c] = <<>>
  <2>1. UNCHANGED <<outbox, worker, got>>
    BY <1>3 DEF Listen
  <2>2. Kept(outbox, outbox', tx)
    BY <1>t, <2>1, KeptSame
  <2> QED
    BY <1>t, <1>u, <1>2, <2>1, <2>2, PlaceKept
<1>4. CASE outbox[c] # <<>>
  <2> DEFINE p == Head(outbox[c])
  <2>1. /\ outbox' = [outbox EXCEPT ![c] = Tail(@)]
        /\ worker' = IF p.ptype = "execute" THEN [worker EXCEPT ![p.tx] = c] ELSE worker
        /\ got' = IF p.ptype = "respond_execute" THEN [got EXCEPT ![p.tx] = @ + 1]
                  ELSE got
    BY <1>4 DEF Listen
  <2>2. 1 \in DOMAIN outbox[c] /\ outbox[c][1] = p
    BY <1>t, <1>4, TableTail
  <2>3. Kept(outbox, outbox', tx)
    BY <1>t, <1>4, <2>1, KeptTail
  <2> HIDE DEF p
  <2>4. CASE p.tx # tx \/ p.ptype \notin {"execute", "respond_execute"}
    <3>1. worker'[tx] = worker[tx] /\ got'[tx] = got[tx]
      BY <1>t, <2>1, <2>4
    <3> QED
      BY <1>t, <1>u, <1>2, <2>3, <3>1, PlaceKept
  <2>5. CASE p.tx = tx /\ p.ptype = "execute"
    <3>1. /\ transactions[tx] # NoClient /\ OnlyAt(outbox, c, 1, tx)
          /\ Nowhere(inbox, tx)
      BY <1>2, <2>2, <2>5 DEF PlaceOf, DeliveredInv, RequestType
    <3>2. tx \in used
      BY <1>2, <2>2, <2>5 DEF PlaceOf, Nowhere
    <3>3. Nowhere(outbox', tx)
      BY <1>t, <1>4, <2>1, <3>1, TakenLast
    <3>4. SentInv(tx)' /\ DeliveredInv(tx)'
      BY <1>u, <3>1, <3>3 DEF SentInv, DeliveredInv, Nowhere
    <3> QED
      BY <1>u, <3>1, <3>2, <3>4 DEF PlaceOf
  <2>6. CASE p.tx = tx /\ p.ptype = "respond_execute"
    <3>1. tx \in used /\ ~Nowhere(outbox, tx)
      BY <1>2, <2>2, <2>6 DEF PlaceOf, Nowhere
    <3>2. worker' = worker
      BY <2>1, <2>6
    <3>3. \A d \in Clients : \A i \in DOMAIN inbox[d] : inbox[d][i].tx = tx =>
             inbox[d][i].ptype \notin RequestType
      BY <1>2, <3>1 DEF PlaceOf, SentInv
    <3>4. SentInv(tx)'
      BY <1>t, <1>u, <1>2, <3>2, <3>3, SentKept DEF PlaceOf
    <3>5. DeliveredInv(tx)'
      <4>1. \A d \in Clients : \A i \in DOMAIN outbox[d] : outbox[d][i].tx = tx =>
               outbox[d][i].ptype \notin RequestType
        BY <1>2, <2>2, <2>6 DEF PlaceOf, DeliveredInv, OnlyAt, RequestType
      <4> QED
        BY <1>t, <1>u, <1>2, <2>3, <3>2, <4>1, DeliveredKept DEF PlaceOf
    <3> QED
      BY <1>u, <1>2, <3>1, <3>2, <3>4, <3>5 DEF PlaceOf
  <2> QED
    BY <2>4, <2>5, <2>6
<1> QED
  BY <1>3, <1>4

\* Each step leaves every transaction in an order in which only one packet
\* of it, or only replies of its worker, are on their way.
LEMMA PlaceStep ==
    TypeOK /\ TypeOK' /\ PlaceInv /\ [Next]_vars => PlaceInv'
<1> SUFFICES ASSUME TypeOK, TypeOK', PlaceInv, [Next]_vars
             PROVE  PlaceInv'
  OBVIOUS
<1>t. /\ inbox \in [Clients -> Seq(Packet)] /\ outbox \in [Clients -> Seq(Packet)]
      /\ inbox' \in [Clients -> Seq(Packet)] /\ outbox' \in [Clients -> Seq(Packet)]
      /\ worker \in [TxIds -> Clients \cup {NoClient}]
      /\ BrokerTypeOK /\ BrokerTypeOK'
  BY DEF TypeOK, BrokerTypeOK
<1>1. ASSUME UNCHANGED <<inbox, transactions, used, next, got>>,
             \A d \in Clients : outbox'[d] \in {outbox[d], <<>>},
             \A tx \in TxIds : worker'[tx] \in {worker[tx], NoClient}
      PROVE  PlaceInv'
  <2>1. \A tx \in TxIds : Kept(inbox, inbox', tx) /\ Kept(outbox, outbox', tx)
    BY <1>t, <1>1, KeptSame
  <2> QED
    BY <1>t, <1>1, <2>1, PlaceKept DEF PlaceInv
<1>2. CASE BrokerAct
  <2>u. UNCHANGED peerVars
    BY <1>2 DEF BrokerAct
  <2>1. CASE Accept \/ Register \/ Stopped
    BY <1>1, <2>u, <2>1 DEF Accept, Register, Stopped, serverVars, clientVars, peerVars
  <2>2. ASSUME NEW c \in Clients, HandleRecv(c)
        PROVE  PlaceInv'
    <3> DEFINE p == Head(inbox[c])
    <3>1. CASE IgnoreRecv(c)
      BY <1>1, <2>u, <3>1 DEF IgnoreRecv, serverVars, clientVars, peerVars
    <3>2. ASSUME NEW t, Receive(c, t)
          PROVE  /\ inbox[c] # <<>> /\ inbox' = [inbox EXCEPT ![c] = Tail(@)]
                 /\ p.ptype = t /\ p.tx \in TxIds /\ p \in Packet
      BY <1>t, <3>2, ReceiveType DEF Receive
    <3>3. ASSUME NEW t \in RequestType, Receive(c, t), NEW ok,
                 Deliver(c, Respond(p.tx, ok)), UNCHANGED transactions
          PROVE  PlaceInv'
      <4>1. Respond(p.tx, ok).tx = p.tx /\ Respond(p.tx, ok).ptype \notin RequestType
        BY DEF Respond, RequestType
      <4> QED
        BY <1>t, <2>u, <3>2, <3>3, <4>1, AnswerPlaces
    <3>4. CASE HandleConnect(c)
      BY <3>3, <3>4 DEF HandleConnect, RequestType
    <3>5. CASE HandleDisconnect(c)
      BY <3>3, <3>5 DEF HandleDisconnect, RequestType
    <3>6. CASE HandleSubscribe(c)
      BY <3>3, <3>6 DEF HandleSubscribe, RequestType
    <3>7. CASE HandleUnsubscribe(c)
      BY <3>3, <3>7 DEF HandleUnsubscribe, RequestType
    <3>8. CASE HandleExecute(c)
      <4> DEFINE target == subscriptions[p.ch]
                 r == RespondExecute(p.tx, 0, TRUE, FALSE)
      <4>1. /\ inbox[c] # <<>> /\ inbox' = [inbox EXCEPT ![c] = Tail(@)]
            /\ p.ptype = "execute" /\ p.tx \in TxIds /\ p \in Packet
        BY <3>2, <3>8 DEF HandleExecute
      <4>2. CASE target = NoClient
        <5>1. Deliver(c, r) /\ UNCHANGED transactions
          BY <3>8, <4>2 DEF HandleExecute
        <5>2. r.tx = p.tx /\ r.ptype \notin RequestType /\ p.ptype \in RequestType
          BY <4>1 DEF RespondExecute, RequestType
        <5> HIDE DEF r
        <5> QED
          BY <1>t, <2>u, <4>1, <5>1, <5>2, AnswerPlaces
      <4>3. CASE target # NoClient
        <5>1. /\ Deliver(target, p)
              /\ transactions' = [transactions EXCEPT ![p.tx] = c]
          BY <3>8, <4>3 DEF HandleExecute
        <5> QED
          BY <1>t, <2>u, <4>1, <5>1, ForwardPlaces
      <4> QED
        BY <4>2, <4>3
    <3>9. CASE HandleRespondExecute(c)
      <4> DEFINE target == transactions[p.tx]
      <4>1. /\ inbox[c] # <<>> /\ inbox' = [inbox EXCEPT ![c] = Tail(@)]
            /\ p.ptype = "respond_execute" /\ p.tx \in TxIds
        BY <3>2, <3>9 DEF HandleRespondExecute
      <4>2. target # NoClient
        <5>1. 1 \in DOMAIN inbox[c] /\ inbox[c][1] = p
          BY <1>t, <4>1, TableTail
        <5> QED
          BY <4>1, <5>1 DEF PlaceInv, PlaceOf, SentInv, RequestType
      <4>3. /\ Deliver(target, p)
            /\ transactions' = IF p.fin THEN [transactions EXCEPT ![p.tx] = NoClient]
                               ELSE transactions
        BY <3>9, <4>2 DEF HandleRespondExecute
      <4> QED
        BY <1>t, <2>u, <4>1, <4>3, RelayPlaces
    <3> QED
      BY <2>2, <3>1, <3>4, <3>5, <3>6, <3>7, <3>8, <3>9 DEF HandleRecv
  <2> QED
    BY <1>2, <2>1, <2>2 DEF BrokerAct, BrokerStep
<1>3. CASE StopBroker
  BY <1>1, <1>3 DEF StopBroker, BrokerStop, serverVars, clientVars, peerVars
<1>4. ASSUME NEW c \in Clients, ClientStep(c)
      PROVE  PlaceInv'
  <2>1. CASE Connect(c) \/ Stop(c) \/ TakeStop(c)
    BY <1>1, <2>1 DEF Connect, Dial, Stop, TakeStop, serverVars, peerVars
  <2>2. ASSUME NEW tx \in TxIds, NEW t \in RequestType, NEW ch, NEW arg,
               SendRequest(c, tx, t, ch, arg)
        PROVE  PlaceInv'
    BY <2>2, RequestPlaces
  <2>3. ASSUME NEW tx \in TxIds, NEW fin \in BOOLEAN, NEW ok \in BOOLEAN,
               SendReply(c, tx, fin, ok)
        PROVE  PlaceInv'
    BY <2>3, ReplyPlaces
  <2>4. CASE Listen(c)
    BY <2>4, ListenPlaces
  <2>5. CASE Close(c)
    <3>1. UNCHANGED <<inbox, transactions, used, next, got>>
      BY <2>5 DEF Close, serverVars
    <3>2. \A d \in Clients : outbox'[d] \in {outbox[d], <<>>}
      BY <1>t, <2>5 DEF Close, Hangup
    <3>3. \A tx \in TxIds : worker'[tx] \in {worker[tx], NoClient}
      BY <2>5 DEF Close
    <3> QED
      BY <1>1, <3>1, <3>2, <3>3
  <2> QED
    BY <1>4, <2>1, <2>2, <2>3, <2>4, <2>5 DEF ClientStep, RequestType
<1>5. CASE UNCHANGED vars
  BY <1>1, <1>5 DEF vars, brokerVars, serverVars, clientVars, peerVars
<1> QED
  BY <1>2, <1>3, <1>4, <1>5 DEF Next

-----------------------------------------------------------------------------
(* The order of a stream.                                                  *)

\* The elements of the stream of tx.
Elements(tx) == {p \in Packet : p.ptype = "respond_execute" /\ p.tx = tx}

\* The elements of S in a queue carry the numbers n, n + 1, ...
Numbered(q, S, n) ==
    \A i \in DOMAIN q : q[i] \in S => q[i].seq = n + NumberBefore(q, S, i)

\* What the issuer of tx has taken or finds in its mailbox.
Arrived(tx) == got[tx] + NumberIn(outbox[Issuer[tx]], Elements(tx))

\* What is on the way continues what waits, and what the worker says next
\* continues what is on the way.
StreamOf(tx) ==
    tx \notin lost /\ socket[Issuer[tx]] # "closed" =>
        /\ Numbered(outbox[Issuer[tx]], Elements(tx), got[tx])
        /\ \A d \in Clients :
              /\ Numbered(inbox[d], Elements(tx), Arrived(tx))
              /\ worker[tx] = d =>
                    next[tx] = Arrived(tx) + NumberIn(inbox[d], Elements(tx))

StreamInv == \A tx \in TxIds : StreamOf(tx)

\* Numbers in a queue that grows or shrinks.
LEMMA NumberedAppend ==
    ASSUME NEW q \in Seq(Packet), NEW S, NEW n \in Nat, NEW x,
           Numbered(q, S, n), x \in S => x.seq = n + NumberIn(q, S)
    PROVE  Numbered(Append(q, x), S, n)
<1>1. /\ Len(q) \in Nat /\ DOMAIN q = 1 .. Len(q)
      /\ DOMAIN Append(q, x) = 1 .. Len(q) + 1
      /\ \A i \in 1 .. Len(q) : Append(q, x)[i] = q[i]
      /\ Append(q, x)[Len(q) + 1] = x
  OBVIOUS
<1>2. \A i \in 1 .. Len(q) + 1 : NumberBefore(Append(q, x), S, i) = NumberBefore(q, S, i)
  BY NumberAppend
<1>3. ASSUME NEW i \in 1 .. Len(q) + 1, Append(q, x)[i] \in S
      PROVE  Append(q, x)[i].seq = n + NumberBefore(Append(q, x), S, i)
  <2>1. CASE i = Len(q) + 1
    BY <1>1, <1>2, <1>3, <2>1 DEF NumberIn
  <2>2. CASE i # Len(q) + 1
    <3>1. i \in DOMAIN q
      BY <1>1, <2>2
    <3> QED
      BY <1>1, <1>2, <1>3, <3>1 DEF Numbered
  <2> QED
    BY <2>1, <2>2
<1> QED
  BY <1>1, <1>3 DEF Numbered

LEMMA NumberedTail ==
    ASSUME NEW q \in Seq(Packet), NEW S, NEW n \in Nat, q # <<>>, Numbered(q, S, n)
    PROVE  /\ Numbered(Tail(q), S, n + (IF Head(q) \in S THEN 1 ELSE 0))
           /\ Head(q) \in S => Head(q).seq = n
<1>1. /\ Len(q) \in Nat \ {0} /\ DOMAIN q = 1 .. Len(q) /\ Head(q) = q[1]
      /\ DOMAIN Tail(q) = 1 .. Len(q) - 1
      /\ \A i \in 1 .. Len(q) - 1 : Tail(q)[i] = q[i + 1]
  OBVIOUS
<1>2. \A i \in 1 .. Len(q) : NumberBefore(q, S, i + 1)
         = NumberBefore(Tail(q), S, i) + (IF Head(q) \in S THEN 1 ELSE 0)
  BY NumberTail
<1>3. ASSUME NEW i \in 1 .. Len(q) - 1, Tail(q)[i] \in S
      PROVE  Tail(q)[i].seq = n + (IF Head(q) \in S THEN 1 ELSE 0)
                                + NumberBefore(Tail(q), S, i)
  <2>1. i + 1 \in DOMAIN q /\ i \in 1 .. Len(q) /\ i \in Nat
    BY <1>1
  <2>2. Tail(q)[i].seq = n + NumberBefore(q, S, i + 1)
    BY <1>1, <1>3, <2>1 DEF Numbered
  <2>3. NumberBefore(Tail(q), S, i) \in Nat
    BY <2>1, NumberType
  <2> QED
    BY <1>2, <2>1, <2>2, <2>3
<1>4. Head(q) \in S => Head(q).seq = n
  <2>1. 1 \in DOMAIN q
    BY <1>1
  <2>2. NumberBefore(q, S, 1) = 0
    BY NumberType
  <2> QED
    BY <1>1, <2>1, <2>2 DEF Numbered
<1> QED
  BY <1>1, <1>3, <1>4 DEF Numbered

LEMMA NumberedNone ==
    ASSUME NEW q \in Seq(Packet), NEW S, NEW n, \A i \in DOMAIN q : q[i] \notin S
    PROVE  Numbered(q, S, n) /\ NumberIn(q, S) = 0
<1>1. DOMAIN q = 1 .. (Len(q) + 1) - 1
  OBVIOUS
<1>2. {i \in 1 .. (Len(q) + 1) - 1 : q[i] \in S} = {}
  BY <1>1
<1>3. NumberIn(q, S) = 0
  BY <1>2, FS_EmptySet DEF NumberIn, NumberBefore
<1> QED
  BY <1>3 DEF Numbered

\* What may happen to a queue without its elements of S being touched.
Beside(q, r, S) ==
    \/ r = q
    \/ \E x : x \notin S /\ r = Append(q, x)
    \/ q # <<>> /\ Head(q) \notin S /\ r = Tail(q)

LEMMA BesideKeeps ==
    ASSUME NEW q \in Seq(Packet), NEW r, NEW S, Beside(q, r, S)
    PROVE  /\ NumberIn(r, S) = NumberIn(q, S)
           /\ \A n \in Nat : Numbered(q, S, n) => Numbered(r, S, n)
<1>0. NumberIn(q, S) \in Nat
  BY NumberInType
<1>1. CASE r = q
  BY <1>1
<1>2. ASSUME NEW x, x \notin S, r = Append(q, x)
      PROVE  /\ NumberIn(r, S) = NumberIn(q, S)
             /\ \A n \in Nat : Numbered(q, S, n) => Numbered(r, S, n)
  <2>1. NumberIn(r, S) = NumberIn(q, S) + (IF x \in S THEN 1 ELSE 0)
    BY <1>2, NumberAppend
  <2>2. \A n \in Nat : Numbered(q, S, n) => Numbered(r, S, n)
    BY <1>2, NumberedAppend
  <2> QED
    BY <1>0, <1>2, <2>1, <2>2
<1>3. CASE q # <<>> /\ Head(q) \notin S /\ r = Tail(q)
  <2>1. NumberIn(q, S) = NumberIn(r, S) + (IF Head(q) \in S THEN 1 ELSE 0)
    BY <1>3, NumberTail
  <2>2. NumberIn(r, S) \in Nat
    <3>1. r \in Seq(Packet)
      BY <1>3
    <3> QED
      BY <3>1, NumberInType
  <2>3. ASSUME NEW n \in Nat, Numbered(q, S, n)
        PROVE  Numbered(r, S, n)
    <3>1. Numbered(Tail(q), S, n + (IF Head(q) \in S THEN 1 ELSE 0))
      BY <1>3, <2>3, NumberedTail
    <3>2. n + (IF Head(q) \in S THEN 1 ELSE 0) = n
      BY <1>3
    <3> QED
      BY <1>3, <3>1, <3>2
  <2> QED
    BY <1>3, <2>1, <2>2, <2>3
<1> QED
  BY <1>1, <1>2, <1>3 DEF Beside

\* StreamOf after a step, in terms of the state after it.
LEMMA StreamAfter ==
    ASSUME NEW tx \in TxIds, NEW b, b = Issuer[tx], NEW S, S = Elements(tx),
           tx \notin lost' /\ socket'[b] # "closed" =>
              /\ Numbered(outbox'[b], S, got'[tx])
              /\ \A d \in Clients :
                    /\ Numbered(inbox'[d], S, got'[tx] + NumberIn(outbox'[b], S))
                    /\ worker'[tx] = d =>
                          next'[tx] = got'[tx] + NumberIn(outbox'[b], S)
                                      + NumberIn(inbox'[d], S)
    PROVE  StreamOf(tx)'
<1>1. /\ Elements(tx)' = S /\ (Issuer[tx])' = b
  BY DEF Elements
<1>2. /\ Numbered(outbox[Issuer[tx]], Elements(tx), got[tx])'
          = Numbered(outbox'[b], S, got'[tx])
      /\ Arrived(tx)' = got'[tx] + NumberIn(outbox'[b], S)
  BY <1>1 DEF Arrived, Numbered, NumberIn, NumberBefore
<1>3. ASSUME NEW d \in Clients
      PROVE  /\ Numbered(inbox[d], Elements(tx), Arrived(tx))'
                 = Numbered(inbox'[d], S, Arrived(tx)')
             /\ NumberIn(inbox[d], Elements(tx))' = NumberIn(inbox'[d], S)
  BY <1>1 DEF Numbered, NumberIn, NumberBefore
<1>4. (tx \notin lost /\ socket[Issuer[tx]] # "closed")'
         = (tx \notin lost' /\ socket'[b] # "closed")
  OBVIOUS
<1>5. ASSUME (tx \notin lost /\ socket[Issuer[tx]] # "closed")'
      PROVE  /\ Numbered(outbox[Issuer[tx]], Elements(tx), got[tx])'
             /\ \A d \in Clients :
                   /\ Numbered(inbox[d], Elements(tx), Arrived(tx))'
                   /\ (worker[tx] = d =>
                         next[tx] = Arrived(tx) + NumberIn(inbox[d], Elements(tx)))'
  <2>1. tx \notin lost' /\ socket'[b] # "closed"
    BY <1>4, <1>5
  <2>2. Numbered(outbox[Issuer[tx]], Elements(tx), got[tx])'
    BY <1>2, <2>1
  <2>3. ASSUME NEW d \in Clients
        PROVE  Numbered(inbox[d], Elements(tx), Arrived(tx))'
    BY <1>2, <1>3, <2>1
  <2>4. ASSUME NEW d \in Clients, (worker[tx] = d)'
        PROVE  (next[tx] = Arrived(tx) + NumberIn(inbox[d], Elements(tx)))'
    <3>1. next'[tx] = got'[tx] + NumberIn(outbox'[b], S) + NumberIn(inbox'[d], S)
      BY <2>1, <2>4
    <3> QED
      BY <1>2, <1>3, <3>1
  <2> QED
    BY <2>2, <2>3, <2>4
<1> QED
  BY <1>5 DEF StreamOf

\* The stream of a transaction whose elements are not touched.
LEMMA StreamKept ==
    ASSUME TypeOK, NEW tx \in TxIds, StreamOf(tx),
           lost \subseteq lost', socket'[Issuer[tx]] # "closed" => socket[Issuer[tx]] # "closed",
           next'[tx] = next[tx], got'[tx] = got[tx],
           worker'[tx] \in {worker[tx], NoClient},
           socket'[Issuer[tx]] # "closed" =>
              Beside(outbox[Issuer[tx]], outbox'[Issuer[tx]], Elements(tx)),
           \A d \in Clients : Beside(inbox[d], inbox'[d], Elements(tx))
    PROVE  StreamOf(tx)'
<1> DEFINE c == Issuer[tx]
           S == Elements(tx)
<1>t. /\ c \in Clients /\ outbox[c] \in Seq(Packet) /\ got[tx] \in Nat
      /\ \A d \in Clients : inbox[d] \in Seq(Packet)
  BY DEF TypeOK, BrokerTypeOK
<1>1. SUFFICES ASSUME tx \notin lost', socket'[c] # "closed"
               PROVE  /\ Numbered(outbox'[c], S, got'[tx])
                      /\ \A d \in Clients :
                            /\ Numbered(inbox'[d], S, got'[tx] + NumberIn(outbox'[c], S))
                            /\ worker'[tx] = d =>
                                  next'[tx] = got'[tx] + NumberIn(outbox'[c], S)
                                              + NumberIn(inbox'[d], S)
  BY StreamAfter
<1> HIDE DEF c, S
<1>2. /\ Numbered(outbox[c], S, got[tx])
      /\ \A d \in Clients :
            /\ Numbered(inbox[d], S, got[tx] + NumberIn(outbox[c], S))
            /\ worker[tx] = d =>
                  next[tx] = got[tx] + NumberIn(outbox[c], S) + NumberIn(inbox[d], S)
  BY <1>1 DEF StreamOf, Arrived, c, S
<1>3. /\ NumberIn(outbox'[c], S) = NumberIn(outbox[c], S)
      /\ Numbered(outbox'[c], S, got[tx])
  <2>1. Beside(outbox[c], outbox'[c], S)
    BY <1>1 DEF c, S
  <2> QED
    BY <1>t, <1>2, <2>1, BesideKeeps
<1>4. got[tx] + NumberIn(outbox[c], S) \in Nat
  <2>1. NumberIn(outbox[c], S) \in Nat
    BY <1>t, NumberInType
  <2> QED
    BY <1>t, <2>1
<1>5. ASSUME NEW d \in Clients
      PROVE  /\ NumberIn(inbox'[d], S) = NumberIn(inbox[d], S)
             /\ Numbered(inbox'[d], S, got[tx] + NumberIn(outbox[c], S))
  <2>1. Beside(inbox[d], inbox'[d], S)
    BY DEF S
  <2> QED
    BY <1>t, <1>2, <1>4, <2>1, BesideKeeps
<1>6. \A d \in Clients : worker'[tx] = d => worker[tx] = d
  OBVIOUS
<1> QED
  BY <1>2, <1>3, <1>5, <1>6

\* The broker takes a packet of another stream and sends one of another stream.
LEMMA StreamBesideRelay ==
    ASSUME TypeOK, NEW tx \in TxIds, StreamOf(tx), NEW c \in Clients,
           inbox[c] # <<>>, inbox' = [inbox EXCEPT ![c] = Tail(@)],
           Head(inbox[c]) \notin Elements(tx),
           NEW e, NEW r, r \notin Elements(tx), Deliver(e, r),
           UNCHANGED <<socket, peerVars>>
    PROVE  StreamOf(tx)'
<1>1. /\ UNCHANGED <<next, got, worker>> /\ lost \subseteq lost'
  BY DEF peerVars, Deliver
<1>2. \A d \in Clients : Beside(inbox[d], inbox'[d], Elements(tx))
  BY DEF Beside, TypeOK, BrokerTypeOK
<1>3. \A d \in Clients : Beside(outbox[d], outbox'[d], Elements(tx))
  <2>1. outbox' = [outbox EXCEPT ![e] = Append(@, r)] \/ outbox' = outbox
    BY DEF Deliver
  <2>2. ASSUME NEW d \in Clients, outbox'[d] # outbox[d]
        PROVE  outbox'[d] = Append(outbox[d], r)
    BY <2>1, <2>2 DEF TypeOK, BrokerTypeOK
  <2> QED
    BY <2>2 DEF Beside
<1>4. Issuer[tx] \in Clients
  OBVIOUS
<1> QED
  BY <1>1, <1>2, <1>3, <1>4, StreamKept

\* An execute that nobody can serve is refused: that reply is all there is.
LEMMA StreamRefused ==
    ASSUME TypeOK, TypeOK', RoutingInv, NEW tx \in TxIds, PlaceOf(tx),
           NEW c \in Clients, inbox[c] # <<>>,
           inbox' = [inbox EXCEPT ![c] = Tail(@)],
           Head(inbox[c]).ptype = "execute", Head(inbox[c]).tx = tx,
           Deliver(c, RespondExecute(tx, 0, TRUE, FALSE)),
           UNCHANGED <<socket, peerVars>>
    PROVE  StreamOf(tx)'
<1> DEFINE p == Head(inbox[c])
           r == RespondExecute(tx, 0, TRUE, FALSE)
           S == Elements(tx)
<1>t. /\ inbox \in [Clients -> Seq(Packet)] /\ outbox \in [Clients -> Seq(Packet)]
      /\ inbox' \in [Clients -> Seq(Packet)]
  BY DEF TypeOK, BrokerTypeOK
<1>u. UNCHANGED <<next, got, worker>>
  BY DEF peerVars
<1>1. 1 \in DOMAIN inbox[c] /\ inbox[c][1] = p
  BY <1>t, TableTail
<1>2. Idle(tx) /\ OnlyAt(inbox, c, 1, tx) /\ Nowhere(outbox, tx)
  BY <1>1 DEF PlaceOf, SentInv, RequestType
<1>3. Issuer[tx] = c
  <2>1. p \in Range(inbox[c])
    BY <1>1 DEF Range
  <2> QED
    BY <2>1 DEF RoutingInv, RequestsAreOwn, RequestType
<1>4. Nowhere(inbox', tx)
  BY <1>t, <1>2, TakenLast
<1>5. SUFFICES ASSUME tx \notin lost'
               PROVE  /\ Numbered(outbox'[c], S, got'[tx])
                      /\ \A d \in Clients :
                            /\ Numbered(inbox'[d], S, got'[tx] + NumberIn(outbox'[c], S))
                            /\ worker'[tx] # d
  BY <1>3, StreamAfter
<1>6. r.tx = tx /\ r.seq = 0
  BY DEF RespondExecute
<1>7. outbox' = [outbox EXCEPT ![c] = Append(@, r)]
  <2> HIDE DEF r
  <2>1. lost' = lost \cup {r.tx} \/ outbox' = [outbox EXCEPT ![c] = Append(@, r)]
    BY DEF Deliver, r
  <2> QED
    BY <1>5, <1>6, <2>1
<1>8. \A d \in Clients : \A i \in DOMAIN inbox'[d] : inbox'[d][i] \notin S
  BY <1>4 DEF Nowhere, Elements
<1>9. \A i \in DOMAIN outbox[c] : outbox[c][i] \notin S
  BY <1>2 DEF Nowhere, Elements
<1>10. got'[tx] = 0 /\ worker'[tx] = NoClient
  BY <1>u, <1>2 DEF Idle
<1>11. outbox'[c] = Append(outbox[c], r)
  BY <1>t, <1>7
<1> HIDE DEF r, S
<1>12. Numbered(outbox[c], S, 0) /\ NumberIn(outbox[c], S) = 0
  BY <1>t, <1>9, NumberedNone
<1>13. Numbered(outbox'[c], S, 0)
  <2>1. outbox[c] \in Seq(Packet)
    BY <1>t
  <2>2. r.seq = 0 + NumberIn(outbox[c], S)
    BY <1>6, <1>12
  <2>3. Numbered(Append(outbox[c], r), S, 0)
    BY <1>12, <2>1, <2>2, NumberedAppend
  <2> QED
    BY <1>11, <2>3
<1>14. \A d \in Clients : \A n : Numbered(inbox'[d], S, n)
  BY <1>8 DEF Numbered
<1> QED
  BY <1>10, <1>13, <1>14

\* A reply of tx that the broker passes on continues what waits.
LEMMA StreamRelayed ==
    ASSUME TypeOK, TypeOK', NEW tx \in TxIds, PlaceOf(tx), StreamOf(tx),
           NEW c \in Clients, inbox[c] # <<>>,
           inbox' = [inbox EXCEPT ![c] = Tail(@)],
           Head(inbox[c]).ptype = "respond_execute", Head(inbox[c]).tx = tx,
           Deliver(Issuer[tx], Head(inbox[c])),
           UNCHANGED <<socket, peerVars>>
    PROVE  StreamOf(tx)'
<1> DEFINE p == Head(inbox[c])
           b == Issuer[tx]
           S == Elements(tx)
<1>t. /\ inbox \in [Clients -> Seq(Packet)] /\ outbox \in [Clients -> Seq(Packet)]
      /\ inbox' \in [Clients -> Seq(Packet)] /\ b \in Clients /\ got[tx] \in Nat
  BY DEF TypeOK, BrokerTypeOK
<1>u. UNCHANGED <<next, got, worker>>
  BY DEF peerVars
<1>1. 1 \in DOMAIN inbox[c] /\ inbox[c][1] = p
  BY <1>t, TableTail
<1>2. OnlyWith(inbox, c, tx) /\ worker[tx] \in {c, NoClient}
  BY <1>1 DEF PlaceOf, SentInv, RequestType
<1>3. p \in S /\ p.tx = tx
  <2>1. p \in Packet
    BY <1>t
  <2> QED
    BY <2>1 DEF Elements
<1>4. SUFFICES ASSUME tx \notin lost', socket[b] # "closed"
               PROVE  /\ Numbered(outbox'[b], S, got[tx])
                      /\ \A d \in Clients :
                            /\ Numbered(inbox'[d], S, got[tx] + NumberIn(outbox'[b], S))
                            /\ worker[tx] = d =>
                                  next[tx] = got[tx] + NumberIn(outbox'[b], S)
                                             + NumberIn(inbox'[d], S)
  BY <1>u, StreamAfter
<1>5. outbox'[b] = Append(outbox[b], p) /\ tx \notin lost
  <2> HIDE DEF p
  <2>1. \/ lost' = lost \cup {p.tx}
        \/ outbox' = [outbox EXCEPT ![b] = Append(@, p)] /\ lost' = lost
    BY DEF Deliver, p
  <2>2. outbox' = [outbox EXCEPT ![b] = Append(@, p)] /\ lost' = lost
    BY <1>3, <1>4, <2>1
  <2> QED
    BY <1>t, <1>4, <2>2
<1> HIDE DEF p, b, S
<1>6. /\ Numbered(outbox[b], S, got[tx])
      /\ \A d \in Clients :
            /\ Numbered(inbox[d], S, got[tx] + NumberIn(outbox[b], S))
            /\ worker[tx] = d =>
                  next[tx] = got[tx] + NumberIn(outbox[b], S) + NumberIn(inbox[d], S)
  BY <1>4, <1>5 DEF StreamOf, Arrived, S, b
<1>7. NumberIn(outbox[b], S) \in Nat /\ got[tx] + NumberIn(outbox[b], S) \in Nat
  <2>1. outbox[b] \in Seq(Packet)
    BY <1>t
  <2>2. NumberIn(outbox[b], S) \in Nat
    BY <2>1, NumberInType
  <2> QED
    BY <1>t, <2>2
<1>8. inbox'[c] = Tail(inbox[c]) /\ inbox[c] \in Seq(Packet) /\ Head(inbox[c]) = p
  BY <1>t DEF p
<1>9. p.seq = got[tx] + NumberIn(outbox[b], S)
      /\ Numbered(inbox'[c], S, got[tx] + NumberIn(outbox[b], S) + 1)
  <2>1. /\ Numbered(Tail(inbox[c]), S, got[tx] + NumberIn(outbox[b], S)
                      + (IF Head(inbox[c]) \in S THEN 1 ELSE 0))
        /\ Head(inbox[c]) \in S => Head(inbox[c]).seq = got[tx] + NumberIn(outbox[b], S)
    BY <1>6, <1>7, <1>8, NumberedTail
  <2> QED
    BY <1>3, <1>8, <2>1
<1>10. /\ Numbered(outbox'[b], S, got[tx])
       /\ NumberIn(outbox'[b], S) = NumberIn(outbox[b], S) + 1
  <2>1. outbox[b] \in Seq(Packet)
    BY <1>t
  <2>2. Numbered(Append(outbox[b], p), S, got[tx])
    BY <1>t, <1>6, <1>9, <2>1, NumberedAppend
  <2>3. NumberIn(Append(outbox[b], p), S)
          = NumberIn(outbox[b], S) + (IF p \in S THEN 1 ELSE 0)
    BY <2>1, NumberAppend
  <2> QED
    BY <1>3, <1>5, <2>2, <2>3
<1>11. NumberIn(inbox[c], S) = NumberIn(inbox'[c], S) + 1
       /\ NumberIn(inbox'[c], S) \in Nat
  <2>1. NumberIn(inbox[c], S)
          = NumberIn(Tail(inbox[c]), S) + (IF Head(inbox[c]) \in S THEN 1 ELSE 0)
    BY <1>8, NumberTail
  <2>2. inbox'[c] \in Seq(Packet)
    BY <1>t
  <2>3. NumberIn(inbox'[c], S) \in Nat
    BY <2>2, NumberInType
  <2> QED
    BY <1>3, <1>8, <2>1, <2>3
<1>12. ASSUME NEW d \in Clients, d # c
       PROVE  (\A n : Numbered(inbox'[d], S, n)) /\ worker[tx] # d
  <2>1. inbox'[d] = inbox[d]
    BY <1>t, <1>12
  <2>2. \A i \in DOMAIN inbox[d] : inbox[d][i] \notin S
    BY <1>2, <1>12 DEF OnlyWith, S, Elements
  <2> QED
    BY <1>2, <1>12, <2>1, <2>2 DEF Numbered
<1>13. got[tx] + NumberIn(outbox'[b], S) = got[tx] + NumberIn(outbox[b], S) + 1
  BY <1>t, <1>7, <1>10
<1>14. worker[tx] = c =>
         next[tx] = got[tx] + NumberIn(outbox'[b], S) + NumberIn(inbox'[c], S)
  <2>1. worker[tx] = c =>
           next[tx] = got[tx] + NumberIn(outbox[b], S) + NumberIn(inbox[c], S)
    BY <1>6
  <2>2. got[tx] + NumberIn(outbox[b], S) + NumberIn(inbox[c], S)
           = got[tx] + NumberIn(outbox[b], S) + 1 + NumberIn(inbox'[c], S)
    <3> DEFINE A == got[tx] + NumberIn(outbox[b], S)
               I == NumberIn(inbox'[c], S)
               Y == NumberIn(inbox[c], S)
    <3>1. A \in Nat /\ I \in Nat /\ Y = I + 1
      BY <1>7, <1>11
    <3> HIDE DEF A, I, Y
    <3>2. A + Y = A + 1 + I
      BY <3>1
    <3> QED
      BY <3>2 DEF A, I, Y
  <2> QED
    BY <1>13, <2>1, <2>2
<1>15. ASSUME NEW d \in Clients
       PROVE  /\ Numbered(inbox'[d], S, got[tx] + NumberIn(outbox'[b], S))
              /\ worker[tx] = d =>
                    next[tx] = got[tx] + NumberIn(outbox'[b], S) + NumberIn(inbox'[d], S)
  <2>1. CASE d = c
    BY <1>9, <1>13, <1>14, <2>1
  <2>2. CASE d # c
    BY <1>12, <2>2
  <2> QED
    BY <2>1, <2>2
<1> QED
  BY <1>10, <1>15

\* What the worker of tx says continues what is on the way.
LEMMA StreamReplied ==
    ASSUME TypeOK, TypeOK', NEW c \in Clients, NEW tx \in TxIds, StreamOf(tx),
           NEW fin \in BOOLEAN, NEW ok \in BOOLEAN, SendReply(c, tx, fin, ok)
    PROVE  StreamOf(tx)'
<1> DEFINE p == RespondExecute(tx, next[tx], fin, ok)
           b == Issuer[tx]
           S == Elements(tx)
<1>t. /\ inbox \in [Clients -> Seq(Packet)] /\ outbox \in [Clients -> Seq(Packet)]
      /\ b \in Clients /\ got[tx] \in Nat /\ worker \in [TxIds -> Clients \cup {NoClient}]
      /\ next \in [TxIds -> Nat] /\ inbox' \in [Clients -> Seq(Packet)]
  BY DEF TypeOK, BrokerTypeOK
<1>u. /\ UNCHANGED <<outbox, got, socket>> /\ worker[tx] = c
      /\ next'[tx] = next[tx] + 1 /\ worker'[tx] \in {c, NoClient}
  BY <1>t DEF SendReply, clientVars
<1>1. p.tx = tx /\ p.seq = next[tx]
  BY DEF RespondExecute
<1>2. SUFFICES ASSUME tx \notin lost', socket[b] # "closed"
               PROVE  /\ Numbered(outbox[b], S, got[tx])
                      /\ \A d \in Clients :
                            /\ Numbered(inbox'[d], S, got[tx] + NumberIn(outbox[b], S))
                            /\ worker'[tx] = d =>
                                  next'[tx] = got[tx] + NumberIn(outbox[b], S)
                                              + NumberIn(inbox'[d], S)
  BY <1>u, StreamAfter
<1>3. inbox' = [inbox EXCEPT ![c] = Append(@, p)] /\ tx \notin lost
  <2> HIDE DEF p
  <2>1. Push(c, p)
    BY DEF SendReply, p
  <2> QED
    BY <1>1, <1>2, <2>1 DEF Push
<1>4. p \in S
  <2> HIDE DEF p
  <2>1. inbox'[c] = Append(inbox[c], p)
    BY <1>t, <1>3
  <2>2. inbox[c] \in Seq(Packet) /\ inbox'[c] \in Seq(Packet)
    BY <1>t
  <2>3. p \in Packet
    <3>1. Len(inbox[c]) + 1 \in DOMAIN inbox'[c] /\ inbox'[c][Len(inbox[c]) + 1] = p
      BY <2>1, <2>2
    <3> QED
      BY <2>2, <3>1
  <2> QED
    BY <1>1, <2>3 DEF Elements, RespondExecute, p
<1> HIDE DEF p, b, S
<1>5. /\ Numbered(outbox[b], S, got[tx])
      /\ \A d \in Clients :
            /\ Numbered(inbox[d], S, got[tx] + NumberIn(outbox[b], S))
            /\ worker[tx] = d =>
                  next[tx] = got[tx] + NumberIn(outbox[b], S) + NumberIn(inbox[d], S)
  BY <1>2, <1>3 DEF StreamOf, Arrived, S, b
<1>6. got[tx] + NumberIn(outbox[b], S) \in Nat
  <2>1. outbox[b] \in Seq(Packet)
    BY <1>t
  <2>2. NumberIn(outbox[b], S) \in Nat
    BY <2>1, NumberInType
  <2> QED
    BY <1>t, <2>2
<1>7. /\ inbox'[c] = Append(inbox[c], p) /\ inbox[c] \in Seq(Packet)
      /\ \A d \in Clients : d # c => inbox'[d] = inbox[d]
  BY <1>t, <1>3
<1>8. next[tx] = got[tx] + NumberIn(outbox[b], S) + NumberIn(inbox[c], S)
  BY <1>u, <1>5
<1>9. Numbered(inbox'[c], S, got[tx] + NumberIn(outbox[b], S))
  <2>1. p.seq = got[tx] + NumberIn(outbox[b], S) + NumberIn(inbox[c], S)
    BY <1>1, <1>8
  <2> QED
    BY <1>5, <1>6, <1>7, <2>1, NumberedAppend
<1>10. next'[tx] = got[tx] + NumberIn(outbox[b], S) + NumberIn(inbox'[c], S)
  <2>1. NumberIn(inbox'[c], S) = NumberIn(inbox[c], S) + 1
    BY <1>4, <1>7, NumberAppend
  <2>2. NumberIn(inbox[c], S) \in Nat
    BY <1>7, NumberInType
  <2> QED
    BY <1>u, <1>6, <1>8, <2>1, <2>2
<1>11. ASSUME NEW d \in Clients
       PROVE  /\ Numbered(inbox'[d], S, got[tx] + NumberIn(outbox[b], S))
              /\ worker'[tx] = d =>
                    next'[tx] = got[tx] + NumberIn(outbox[b], S) + NumberIn(inbox'[d], S)
  <2>1. CASE d = c
    BY <1>9, <1>10, <2>1
  <2>2. CASE d # c
    BY <1>u, <1>5, <1>7, <2>2
  <2> QED
    BY <2>1, <2>2
<1> QED
  BY <1>5, <1>11

\* The client that takes an execute begins its stream.
LEMMA StreamBegun ==
    ASSUME TypeOK, TypeOK', NEW c \in Clients, NEW tx \in TxIds, PlaceOf(tx), Listen(c),
           outbox[c] # <<>>, Head(outbox[c]).tx = tx, Head(outbox[c]).ptype = "execute"
    PROVE  StreamOf(tx)'
<1> DEFINE b == Issuer[tx]
           S == Elements(tx)
<1>t. /\ inbox \in [Clients -> Seq(Packet)] /\ outbox \in [Clients -> Seq(Packet)]
      /\ outbox' \in [Clients -> Seq(Packet)] /\ b \in Clients
  BY DEF TypeOK, BrokerTypeOK
<1>u. UNCHANGED <<inbox, next, got>> /\ outbox' = [outbox EXCEPT ![c] = Tail(@)]
  BY DEF Listen
<1>1. 1 \in DOMAIN outbox[c] /\ outbox[c][1] = Head(outbox[c])
  BY <1>t, TableTail
<1>2. Idle(tx) /\ OnlyAt(outbox, c, 1, tx) /\ Nowhere(inbox, tx)
  BY <1>1 DEF PlaceOf, DeliveredInv, RequestType
<1>3. Nowhere(outbox', tx)
  BY <1>t, <1>u, <1>2, TakenLast
<1>4. \A d \in Clients : \A n :
         /\ Numbered(inbox[d], S, n) /\ NumberIn(inbox[d], S) = 0
         /\ Numbered(outbox'[d], S, n) /\ NumberIn(outbox'[d], S) = 0
  <2> SUFFICES ASSUME NEW d \in Clients, NEW n
               PROVE  /\ Numbered(inbox[d], S, n) /\ NumberIn(inbox[d], S) = 0
                      /\ Numbered(outbox'[d], S, n) /\ NumberIn(outbox'[d], S) = 0
    OBVIOUS
  <2>1. /\ \A i \in DOMAIN inbox[d] : inbox[d][i] \notin S
        /\ \A i \in DOMAIN outbox'[d] : outbox'[d][i] \notin S
    BY <1>2, <1>3 DEF Nowhere, Elements
  <2>2. inbox[d] \in Seq(Packet) /\ outbox'[d] \in Seq(Packet)
    BY <1>t
  <2> HIDE DEF S
  <2> QED
    BY <2>1, <2>2, NumberedNone
<1>5. got'[tx] = 0 /\ next'[tx] = 0
  BY <1>u, <1>2 DEF Idle
<1> HIDE DEF b, S
<1>6. /\ Numbered(outbox'[b], S, got'[tx])
      /\ \A d \in Clients :
            /\ Numbered(inbox'[d], S, got'[tx] + NumberIn(outbox'[b], S))
            /\ next'[tx] = got'[tx] + NumberIn(outbox'[b], S) + NumberIn(inbox'[d], S)
  <2>1. NumberIn(outbox'[b], S) = 0 /\ Numbered(outbox'[b], S, got'[tx])
    BY <1>t, <1>4
  <2>2. got'[tx] + NumberIn(outbox'[b], S) = 0
    BY <1>5, <2>1
  <2>3. ASSUME NEW d \in Clients
        PROVE  /\ Numbered(inbox'[d], S, 0)
               /\ next'[tx] = 0 + NumberIn(inbox'[d], S)
    <3>1. NumberIn(inbox'[d], S) = 0 /\ Numbered(inbox'[d], S, 0)
      BY <1>u, <1>4
    <3> QED
      BY <1>5, <3>1
  <2> QED
    BY <2>1, <2>2, <2>3
<1> QED
  BY <1>6, StreamAfter DEF b, S

\* The issuer takes the element it waits for.
LEMMA StreamTaken ==
    ASSUME TypeOK, TypeOK', RepliesAreOwn, NEW c \in Clients, NEW tx \in TxIds,
           StreamOf(tx), Listen(c), outbox[c] # <<>>,
           Head(outbox[c]).tx = tx, Head(outbox[c]).ptype = "respond_execute"
    PROVE  StreamOf(tx)'
<1> DEFINE S == Elements(tx)
           p == Head(outbox[c])
<1>t. /\ inbox \in [Clients -> Seq(Packet)] /\ outbox \in [Clients -> Seq(Packet)]
      /\ outbox' \in [Clients -> Seq(Packet)] /\ got \in [TxIds -> Nat]
  BY DEF TypeOK, BrokerTypeOK
<1>u. /\ UNCHANGED <<inbox, next, worker, lost, socket>>
      /\ outbox' = [outbox EXCEPT ![c] = Tail(@)]
      /\ got'[tx] = got[tx] + 1
  BY <1>t DEF Listen, ghostVars
<1>1. 1 \in DOMAIN outbox[c] /\ outbox[c][1] = p
  BY <1>t, TableTail
<1>2. p \in Packet /\ p \in Range(outbox[c])
  <2>1. p \in Packet
    BY <1>t
  <2>2. p \in Range(outbox[c])
    BY <1>1 DEF Range
  <2> QED
    BY <2>1, <2>2
<1>3. Issuer[tx] = c /\ p \in S
  BY <1>2 DEF RepliesAreOwn, IsReply, Elements
<1>4. SUFFICES ASSUME tx \notin lost, socket[c] # "closed"
               PROVE  /\ Numbered(outbox'[c], S, got'[tx])
                      /\ \A d \in Clients :
                            /\ Numbered(inbox[d], S, got'[tx] + NumberIn(outbox'[c], S))
                            /\ worker[tx] = d =>
                                  next[tx] = got'[tx] + NumberIn(outbox'[c], S)
                                             + NumberIn(inbox[d], S)
  BY <1>u, <1>3, StreamAfter
<1>5. /\ Numbered(outbox[c], S, got[tx])
      /\ \A d \in Clients :
            /\ Numbered(inbox[d], S, got[tx] + NumberIn(outbox[c], S))
            /\ worker[tx] = d =>
                  next[tx] = got[tx] + NumberIn(outbox[c], S) + NumberIn(inbox[d], S)
  BY <1>3, <1>4 DEF StreamOf, Arrived
<1>6. /\ outbox[c] \in Seq(Packet) /\ outbox'[c] = Tail(outbox[c])
      /\ outbox'[c] \in Seq(Packet) /\ got[tx] \in Nat
  BY <1>t, <1>u
<1> HIDE DEF S
<1>7. Numbered(outbox'[c], S, got'[tx])
  <2>1. Numbered(Tail(outbox[c]), S, got[tx] + (IF Head(outbox[c]) \in S THEN 1 ELSE 0))
    BY <1>5, <1>6, NumberedTail
  <2> QED
    BY <1>u, <1>3, <1>6, <2>1
<1>8. got'[tx] + NumberIn(outbox'[c], S) = got[tx] + NumberIn(outbox[c], S)
  <2>1. NumberIn(outbox[c], S)
          = NumberIn(Tail(outbox[c]), S) + (IF Head(outbox[c]) \in S THEN 1 ELSE 0)
    BY <1>6, NumberTail
  <2>2. NumberIn(outbox'[c], S) \in Nat
    BY <1>6, NumberInType
  <2>3. NumberIn(outbox[c], S) = NumberIn(outbox'[c], S) + 1
    BY <1>3, <1>6, <2>1
  <2> QED
    BY <1>u, <1>6, <2>2, <2>3
<1> QED
  BY <1>5, <1>7, <1>8

\* A client makes a request, takes a packet or answers.
LEMMA ClientStreams ==
    ASSUME TypeOK, TypeOK', RoutingInv, PlaceInv, StreamInv,
           NEW c \in Clients, NEW x \in TxIds
    PROVE  /\ \A tx \in TxIds, t \in RequestType,
                 ch \in Channels \cup {NoChannel}, arg \in Args \cup {NoArg} :
                 SendRequest(c, tx, t, ch, arg) => StreamOf(x)'
           /\ \A tx \in TxIds, fin, ok \in BOOLEAN :
                 SendReply(c, tx, fin, ok) => StreamOf(x)'
           /\ Listen(c) => StreamOf(x)'
<1>t. /\ inbox \in [Clients -> Seq(Packet)] /\ outbox \in [Clients -> Seq(Packet)]
      /\ worker \in [TxIds -> Clients \cup {NoClient}]
      /\ next \in [TxIds -> Nat] /\ got \in [TxIds -> Nat]
  BY DEF TypeOK, BrokerTypeOK
<1>0. StreamOf(x) /\ PlaceOf(x) /\ Issuer[x] \in Clients
  BY DEF StreamInv, PlaceInv
<1>s. ASSUME UNCHANGED <<outbox, socket, got>>, lost \subseteq lost',
             NEW p, p \notin Elements(x),
             inbox' = [inbox EXCEPT ![c] = Append(@, p)] \/ inbox' = inbox,
             next'[x] = next[x], worker'[x] \in {worker[x], NoClient}
      PROVE  StreamOf(x)'
  <2>1. \A d \in Clients : Beside(inbox[d], inbox'[d], Elements(x))
    <3> SUFFICES ASSUME NEW d \in Clients
                 PROVE  Beside(inbox[d], inbox'[d], Elements(x))
      OBVIOUS
    <3>1. inbox'[d] = inbox[d] \/ inbox'[d] = Append(inbox[d], p)
      BY <1>t, <1>s
    <3> QED
      BY <1>s, <3>1 DEF Beside
  <2>2. Beside(outbox[Issuer[x]], outbox'[Issuer[x]], Elements(x))
    BY <1>s DEF Beside
  <2>3. got'[x] = got[x] /\ socket'[Issuer[x]] = socket[Issuer[x]]
    BY <1>s
  <2> QED
    BY <1>0, <1>s, <2>1, <2>2, <2>3, StreamKept
<1>1. ASSUME NEW tx \in TxIds, NEW t \in RequestType, NEW ch, NEW arg,
             SendRequest(c, tx, t, ch, arg)
      PROVE  StreamOf(x)'
  <2> DEFINE p == [ptype |-> t, tx |-> tx, ch |-> ch, arg |-> arg]
  <2>1. UNCHANGED <<outbox, socket, got, next, worker>> /\ Push(c, p)
    BY <1>1 DEF SendRequest, clientVars
  <2>2. p \notin Elements(x)
    BY DEF Elements, RequestType
  <2> HIDE DEF p
  <2>3. /\ lost \subseteq lost'
        /\ inbox' = [inbox EXCEPT ![c] = Append(@, p)] \/ inbox' = inbox
    BY <2>1 DEF Push
  <2> QED
    BY <1>s, <2>1, <2>2, <2>3
<1>2. ASSUME NEW tx \in TxIds, NEW fin \in BOOLEAN, NEW ok \in BOOLEAN,
             SendReply(c, tx, fin, ok)
      PROVE  StreamOf(x)'
  <2>1. CASE x = tx
    BY <1>0, <1>2, <2>1, StreamReplied
  <2>2. CASE x # tx
    <3> DEFINE p == RespondExecute(tx, next[tx], fin, ok)
    <3>1. UNCHANGED <<outbox, socket, got>> /\ Push(c, p)
      BY <1>2 DEF SendReply, clientVars
    <3>2. next'[x] = next[x] /\ worker'[x] = worker[x]
      BY <1>t, <1>2, <2>2 DEF SendReply
    <3>3. p \notin Elements(x)
      BY <2>2 DEF Elements, RespondExecute
    <3> HIDE DEF p
    <3>4. /\ lost \subseteq lost'
          /\ inbox' = [inbox EXCEPT ![c] = Append(@, p)] \/ inbox' = inbox
      BY <3>1 DEF Push
    <3> QED
      BY <1>s, <3>1, <3>2, <3>3, <3>4
  <2> QED
    BY <2>1, <2>2
<1>3. CASE Listen(c)
  <2> DEFINE p == Head(outbox[c])
  <2>1. UNCHANGED <<inbox, socket, next, lost>>
    BY <1>3 DEF Listen, ghostVars
  <2>2. CASE outbox[c] # <<>> /\ p.tx = x /\ p.ptype = "execute"
    BY <1>0, <1>3, <2>2, StreamBegun
  <2>3. CASE outbox[c] # <<>> /\ p.tx = x /\ p.ptype = "respond_execute"
    BY <1>0, <1>3, <2>3, StreamTaken DEF RoutingInv
  <2>4. CASE outbox[c] = <<>> \/ p.tx # x \/ p.ptype \notin {"execute", "respond_execute"}
    <3>1. worker'[x] = worker[x] /\ got'[x] = got[x]
      BY <1>t, <1>3, <2>4 DEF Listen
    <3>2. \A d \in Clients : Beside(outbox[d], outbox'[d], Elements(x))
      <4> SUFFICES ASSUME NEW d \in Clients
                   PROVE  Beside(outbox[d], outbox'[d], Elements(x))
        OBVIOUS
      <4>1. \/ outbox'[d] = outbox[d]
            \/ d = c /\ outbox[c] # <<>> /\ outbox'[c] = Tail(outbox[c])
        BY <1>t, <1>3 DEF Listen
      <4>2. outbox[c] # <<>> => p \notin Elements(x)
        BY <2>4 DEF Elements
      <4> QED
        BY <4>1, <4>2 DEF Beside
    <3>3. \A d \in Clients : Beside(inbox[d], inbox'[d], Elements(x))
      BY <2>1 DEF Beside
    <3> QED
      BY <1>0, <2>1, <3>1, <3>2, <3>3, StreamKept
  <2> QED
    BY <2>2, <2>3, <2>4
<1> QED
  BY <1>1, <1>2, <1>3

\* The broker handles a packet.
LEMMA BrokerStreams ==
    ASSUME TypeOK, TypeOK', RoutingInv, PlaceInv, StreamInv,
           NEW c \in Clients, HandleRecv(c), UNCHANGED peerVars, ~IgnoreRecv(c),
           NEW x \in TxIds
    PROVE  StreamOf(x)'
<1> DEFINE p == Head(inbox[c])
<1>t. /\ inbox \in [Clients -> Seq(Packet)] /\ BrokerTypeOK
  BY DEF TypeOK, BrokerTypeOK
<1>0. StreamOf(x) /\ PlaceOf(x)
  BY DEF StreamInv, PlaceInv
<1>1. ASSUME NEW t, Receive(c, t)
      PROVE  /\ inbox[c] # <<>> /\ inbox' = [inbox EXCEPT ![c] = Tail(@)]
             /\ p.ptype = t /\ p.tx \in TxIds /\ p \in Packet
             /\ UNCHANGED socket
  BY <1>t, <1>1, ReceiveType DEF Receive
<1>2. ASSUME NEW t, Receive(c, t), p \notin Elements(x), NEW e,
             NEW r, r \notin Elements(x), Deliver(e, r)
      PROVE  StreamOf(x)'
  <2>1. /\ inbox[c] # <<>> /\ inbox' = [inbox EXCEPT ![c] = Tail(@)]
        /\ UNCHANGED <<socket, peerVars>>
    BY <1>1, <1>2
  <2> QED
    BY <1>0, <1>2, <2>1, StreamBesideRelay
<1>3. ASSUME NEW t \in RequestType, Receive(c, t), NEW ok,
             Deliver(c, Respond(p.tx, ok))
      PROVE  StreamOf(x)'
  <2>1. Respond(p.tx, ok) \notin Elements(x)
    BY DEF Respond, Elements
  <2>2. p \notin Elements(x)
    BY <1>1, <1>3 DEF Elements, RequestType
  <2> QED
    BY <1>2, <1>3, <2>1, <2>2
<1>4. CASE HandleConnect(c)
  BY <1>3, <1>4 DEF HandleConnect, RequestType
<1>5. CASE HandleDisconnect(c)
  BY <1>3, <1>5 DEF HandleDisconnect, RequestType
<1>6. CASE HandleSubscribe(c)
  BY <1>3, <1>6 DEF HandleSubscribe, RequestType
<1>7. CASE HandleUnsubscribe(c)
  BY <1>3, <1>7 DEF HandleUnsubscribe, RequestType
<1>8. CASE HandleExecute(c)
  <2> DEFINE target == subscriptions[p.ch]
             r == RespondExecute(p.tx, 0, TRUE, FALSE)
  <2>1. /\ Receive(c, "execute") /\ p.ptype = "execute"
        /\ inbox[c] # <<>> /\ inbox' = [inbox EXCEPT ![c] = Tail(@)]
        /\ UNCHANGED <<socket, peerVars>>
    BY <1>1, <1>8 DEF HandleExecute
  <2>2. p \notin Elements(x)
    BY <2>1 DEF Elements
  <2>3. CASE target # NoClient
    <3>1. Deliver(target, p)
      BY <1>8, <2>3 DEF HandleExecute
    <3> QED
      BY <1>2, <2>1, <2>2, <3>1
  <2>4. CASE target = NoClient
    <3>1. Deliver(c, r)
      BY <1>8, <2>4 DEF HandleExecute
    <3>2. CASE p.tx = x
      BY <1>0, <2>1, <3>1, <3>2, StreamRefused
    <3>3. CASE p.tx # x
      <4>1. r \notin Elements(x)
        BY <3>3 DEF Elements, RespondExecute
      <4> QED
        BY <1>2, <2>1, <2>2, <3>1, <4>1
    <3> QED
      BY <3>2, <3>3
  <2> QED
    BY <2>3, <2>4
<1>9. CASE HandleRespondExecute(c)
  <2> DEFINE target == transactions[p.tx]
  <2>1. /\ Receive(c, "respond_execute") /\ p.ptype = "respond_execute"
        /\ inbox[c] # <<>> /\ inbox' = [inbox EXCEPT ![c] = Tail(@)]
        /\ UNCHANGED <<socket, peerVars>> /\ p.tx \in TxIds
    BY <1>1, <1>9 DEF HandleRespondExecute
  <2>2. target # NoClient
    <3>1. 1 \in DOMAIN inbox[c] /\ inbox[c][1] = p
      BY <1>t, <2>1, TableTail
    <3> QED
      BY <2>1, <3>1 DEF PlaceInv, PlaceOf, SentInv, RequestType
  <2>3. Deliver(target, p)
    BY <1>9, <2>2 DEF HandleRespondExecute
  <2>4. CASE p.tx = x
    <3>1. target = Issuer[x]
      BY <2>1, <2>2, <2>4 DEF RoutingInv, TransactionsAreOwn
    <3> QED
      BY <1>0, <2>1, <2>3, <2>4, <3>1, StreamRelayed
  <2>5. CASE p.tx # x
    <3>1. p \notin Elements(x)
      BY <2>5 DEF Elements
    <3> QED
      BY <1>2, <2>1, <2>3, <3>1
  <2> QED
    BY <2>4, <2>5
<1> QED
  BY <1>4, <1>5, <1>6, <1>7, <1>8, <1>9 DEF HandleRecv

LEMMA StreamStep ==
    TypeOK /\ TypeOK' /\ RoutingInv /\ PlaceInv /\ StreamInv /\ [Next]_vars => StreamInv'
<1> SUFFICES ASSUME TypeOK, TypeOK', RoutingInv, PlaceInv, StreamInv, [Next]_vars,
                    NEW x \in TxIds
             PROVE  StreamOf(x)'
  BY DEF StreamInv
<1>t. socket \in [Clients -> SocketState] /\ outbox \in [Clients -> Seq(Packet)]
  BY DEF TypeOK, BrokerTypeOK
<1>0. StreamOf(x) /\ Issuer[x] \in Clients
  BY DEF StreamInv
<1>1. ASSUME UNCHANGED <<inbox, next, got, lost>>,
             worker'[x] \in {worker[x], NoClient},
             \A d \in Clients : socket'[d] # "closed" =>
                socket[d] # "closed" /\ outbox'[d] = outbox[d]
      PROVE  StreamOf(x)'
  <2>1. \A d \in Clients : /\ Beside(inbox[d], inbox'[d], Elements(x))
                           /\ outbox'[d] = outbox[d] =>
                                 Beside(outbox[d], outbox'[d], Elements(x))
    BY <1>1 DEF Beside
  <2> QED
    BY <1>0, <1>1, <2>1, StreamKept
<1>2. CASE BrokerAct
  <2>u. UNCHANGED peerVars
    BY <1>2 DEF BrokerAct
  <2>1. CASE Accept \/ Register \/ Stopped
    <3>1. UNCHANGED <<inbox, outbox, next, got, lost, worker>>
      BY <2>u, <2>1 DEF Accept, Register, Stopped, clientVars, ghostVars, peerVars
    <3>2. \A d \in Clients : socket'[d] # "closed" => socket[d] # "closed"
      BY <1>t, <2>1 DEF Accept, Register, Stopped, clientVars
    <3> QED
      BY <1>1, <3>1, <3>2
  <2>2. ASSUME NEW c \in Clients, HandleRecv(c)
        PROVE  StreamOf(x)'
    <3>1. CASE IgnoreRecv(c)
      BY <1>1, <2>u, <3>1 DEF IgnoreRecv, clientVars, ghostVars, peerVars
    <3> QED
      BY <2>u, <2>2, <3>1, BrokerStreams
  <2> QED
    BY <1>2, <2>1, <2>2 DEF BrokerAct, BrokerStep
<1>3. CASE StopBroker
  BY <1>1, <1>3 DEF StopBroker, BrokerStop, clientVars, ghostVars, peerVars
<1>4. ASSUME NEW c \in Clients, ClientStep(c)
      PROVE  StreamOf(x)'
  <2>1. CASE Connect(c)
    <3>1. UNCHANGED <<inbox, outbox, next, got, lost, worker>>
      BY <2>1 DEF Connect, Dial, ghostVars, peerVars
    <3>2. \A d \in Clients : socket'[d] # "closed" => socket[d] # "closed"
      BY <1>t, <2>1 DEF Connect, Dial
    <3> QED
      BY <1>1, <3>1, <3>2
  <2>2. CASE Stop(c) \/ TakeStop(c)
    BY <1>1, <2>2 DEF Stop, TakeStop, ghostVars, peerVars
  <2>3. CASE Close(c)
    <3>1. UNCHANGED <<inbox, next, got, lost>> /\ worker'[x] \in {worker[x], NoClient}
      BY <2>3 DEF Close, ghostVars
    <3>2. \A d \in Clients : socket'[d] # "closed" =>
             socket[d] # "closed" /\ outbox'[d] = outbox[d]
      BY <1>t, <2>3 DEF Close, Hangup
    <3> QED
      BY <1>1, <3>1, <3>2
  <2> QED
    BY <1>4, <2>1, <2>2, <2>3, ClientStreams DEF ClientStep, RequestType
<1>5. CASE UNCHANGED vars
  BY <1>1, <1>5 DEF vars, brokerVars, clientVars, ghostVars, peerVars
<1> QED
  BY <1>2, <1>3, <1>4, <1>5 DEF Next

LEMMA PlacesStart == Init => PlaceInv /\ StreamInv
<1> SUFFICES ASSUME Init, NEW tx \in TxIds
             PROVE  PlaceOf(tx) /\ StreamOf(tx)
  BY DEF PlaceInv, StreamInv
<1>1. /\ \A d \in Clients : inbox[d] = <<>> /\ outbox[d] = <<>>
      /\ Idle(tx) /\ transactions[tx] = NoClient /\ Issuer[tx] \in Clients
  BY DEF Init, BrokerInit, Idle
<1>2. PlaceOf(tx)
  BY <1>1 DEF PlaceOf, SentInv, DeliveredInv, Nowhere, Idle
<1>3. \A n : Numbered(<<>>, Elements(tx), n) /\ NumberIn(<<>>, Elements(tx)) = 0
  <2> DEFINE q == <<>>
  <2>1. q \in Seq(Packet) /\ \A i \in DOMAIN q : q[i] \notin Elements(tx)
    OBVIOUS
  <2> HIDE DEF q
  <2>2. \A n : Numbered(q, Elements(tx), n) /\ NumberIn(q, Elements(tx)) = 0
    BY <2>1, NumberedNone
  <2> QED
    BY <2>2 DEF q
<1>4. StreamOf(tx)
  BY <1>1, <1>3 DEF StreamOf, Arrived, Idle
<1> QED
  BY <1>2, <1>4

\* broker.cpp:126-150: the reply with the finish header is the last packet of
\* its transaction anywhere, and what comes before it comes whole and in order.
THEOREM StreamsArrive == Spec => []StreamsAreWhole
<1>1. TypeOK /\ PlaceInv => FinishIsLast
  <2> SUFFICES ASSUME TypeOK, PlaceInv, NEW c \in Clients, NEW i \in DOMAIN outbox[c],
                      IsReply(outbox[c][i]), outbox[c][i].fin
               PROVE  LET p == outbox[c][i]
                      IN  /\ transactions[p.tx] = NoClient
                          /\ \A j \in DOMAIN outbox[c] :
                                j > i /\ IsReply(outbox[c][j]) => outbox[c][j].tx # p.tx
                          /\ \A d \in Clients : \A j \in DOMAIN inbox[d] :
                                inbox[d][j].tx # p.tx
    BY DEF FinishIsLast
  <2> DEFINE p == outbox[c][i]
  <2>1. p \in Packet
    <3>1. outbox[c] \in Seq(Packet)
      BY DEF TypeOK, BrokerTypeOK
    <3> QED
      BY <3>1
  <2>2. p.tx \in TxIds /\ p.ptype \notin RequestType
    BY <2>1, PacketTypes DEF IsReply, RequestType
  <2>3. DeliveredInv(p.tx)
    BY <2>2 DEF PlaceInv, PlaceOf
  <2>4. transactions[p.tx] = NoClient /\ Nowhere(inbox, p.tx) /\ LastOf(outbox[c], i, p.tx)
    BY <2>2, <2>3 DEF DeliveredInv
  <2> QED
    BY <2>4 DEF Nowhere, LastOf
<1>2. TypeOK /\ RoutingInv /\ StreamInv => StreamIsContiguous
  <2> SUFFICES ASSUME TypeOK, RoutingInv, StreamInv,
                      NEW c \in Clients, NEW i \in DOMAIN outbox[c],
                      socket[c] = "attached", outbox[c][i].ptype = "respond_execute",
                      outbox[c][i].tx \notin lost
               PROVE  outbox[c][i].seq
                        = got[outbox[c][i].tx]
                          + Cardinality({j \in 1 .. i - 1 :
                                            /\ outbox[c][j].ptype = "respond_execute"
                                            /\ outbox[c][j].tx = outbox[c][i].tx})
    BY DEF StreamIsContiguous
  <2> DEFINE p == outbox[c][i]
             S == Elements(p.tx)
  <2>1. outbox[c] \in Seq(Packet) /\ p \in Packet
    <3>1. outbox[c] \in Seq(Packet)
      BY DEF TypeOK, BrokerTypeOK
    <3> QED
      BY <3>1
  <2>2. p.tx \in TxIds /\ p \in S
    BY <2>1, PacketTypes DEF Elements
  <2>3. Issuer[p.tx] = c
    <3>1. p \in Range(outbox[c])
      BY DEF Range
    <3> QED
      BY <3>1 DEF RoutingInv, RepliesAreOwn, IsReply
  <2>4. Numbered(outbox[c], S, got[p.tx])
    BY <2>2, <2>3 DEF StreamInv, StreamOf
  <2>5. p.seq = got[p.tx] + NumberBefore(outbox[c], S, i)
    BY <2>2, <2>4 DEF Numbered
  <2>6. \A j \in 1 .. i - 1 : outbox[c][j] \in Packet
    BY <2>1
  <2>7. {j \in 1 .. i - 1 : outbox[c][j] \in S}
           = {j \in 1 .. i - 1 : /\ outbox[c][j].ptype = "respond_execute"
                                 /\ outbox[c][j].tx = p.tx}
    BY <2>6 DEF Elements
  <2> QED
    BY <2>5, <2>7 DEF NumberBefore
<1>3. TypeOK /\ RoutingInv /\ PlaceInv /\ StreamInv => StreamsAreWhole
  BY <1>1, <1>2 DEF StreamsAreWhole
<1> QED
  BY <1>3, RoutingStarts, RoutingStep, PlacesStart, PlaceStep, StreamStep, TypeCorrect,
     PTL DEF Spec

-----------------------------------------------------------------------------
(* The system.                                                             *)

LEMMA ChannelKinds ==
    \A ch \in Channels :
        \/ ch \in FunctionChannels /\ ch[1] = "call_function"
        \/ ch \in FactoryChannels /\ ch[1] = "define_component"
        \/ \E k \in CompNames : ch = DeleteComponent(k) /\ ch[1] = "delete_component" /\ ch[2] = k
        \/ \E k \in CompNames, m \in Methods :
              ch = CallMethod(k, m) /\ ch[1] = "call_method" /\ ch[2] = k
  BY VMChannels
  DEF FunctionChannels, FactoryChannels, ComponentChannels, MethodChannels,
      CallFunction, DefineComponent, DeleteComponent, CallMethod

\* A function takes finitely many values on a finite set.
LEMMA FiniteImage ==
    ASSUME NEW f, IsFiniteSet(DOMAIN f)
    PROVE  IsFiniteSet({f[x] : x \in DOMAIN f})
<1> DEFINE T == {f[x] : x \in DOMAIN f}
           g == [x \in DOMAIN f |-> f[x]]
<1>1. g \in Surjection(DOMAIN f, T)
  BY DEF Surjection
<1> HIDE DEF g
<1> QED
  BY <1>1, FS_Surjection

LEMMA ChannelSets ==
    /\ FunctionChannels \subseteq Channels /\ FactoryChannels \subseteq Channels
    /\ IsFiniteSet(FunctionChannels) /\ IsFiniteSet(FactoryChannels)
    /\ \A k \in CompNames :
          /\ MethodChannels(k) \subseteq Channels /\ DeleteComponent(k) \in Channels
          /\ ComponentChannels(k) \subseteq Channels
          /\ IsFiniteSet(MethodChannels(k)) /\ IsFiniteSet(ComponentChannels(k))
          /\ ComponentChannels(k) = MethodChannels(k) \cup {DeleteComponent(k)}
<1>1. IsFiniteSet(FunctionChannels)
  <2> DEFINE g == [f \in Functions |-> CallFunction(f)]
  <2>1. IsFiniteSet({g[f] : f \in DOMAIN g})
    BY VMFinite, FiniteImage
  <2> QED
    BY <2>1 DEF FunctionChannels
<1>2. IsFiniteSet(FactoryChannels)
  <2> DEFINE g == [c \in CompTypes |-> DefineComponent(c)]
  <2>1. IsFiniteSet({g[c] : c \in DOMAIN g})
    BY VMFinite, FiniteImage
  <2> QED
    BY <2>1 DEF FactoryChannels
<1>3. ASSUME NEW k \in CompNames
      PROVE  IsFiniteSet(MethodChannels(k)) /\ IsFiniteSet(ComponentChannels(k))
  <2>1. IsFiniteSet(MethodChannels(k))
    <3> DEFINE g == [m \in Methods |-> CallMethod(k, m)]
    <3>1. IsFiniteSet({g[m] : m \in DOMAIN g})
      BY VMFinite, FiniteImage
    <3> QED
      BY <3>1 DEF MethodChannels
  <2>2. IsFiniteSet({DeleteComponent(k)})
    BY FS_Singleton
  <2> QED
    BY <2>1, <2>2, FS_Union DEF ComponentChannels
<1> QED
  BY <1>1, <1>2, <1>3, VMChannels DEF ComponentChannels

\* SetToSeq lists a set.
LEMMA SetToSeqLists ==
    ASSUME NEW S, IsFiniteSet(S)
    PROVE  /\ SetToSeq(S) \in Seq(S)
           /\ \A x \in S : \E i \in DOMAIN SetToSeq(S) : SetToSeq(S)[i] = x
<1>1. Cardinality(S) \in Nat /\ ExistsBijection(1 .. Cardinality(S), S)
  BY FS_CardinalityType
<1>2. \E f \in [1 .. Cardinality(S) -> S] : IsInjective(f)
  BY <1>1, Zenon DEF ExistsBijection, Bijection, Injection, Surjection, IsInjective
<1>3. SetToSeq(S) \in [1 .. Cardinality(S) -> S] /\ IsInjective(SetToSeq(S))
  BY <1>2, Zenon DEF SetToSeq
<1> DEFINE f == SetToSeq(S)
<1>4. f \in Injection(1 .. Cardinality(S), S)
  BY <1>3 DEF Injection
<1>5. f \in Surjection(1 .. Cardinality(S), S)
  <2>1. IsFiniteSet(1 .. Cardinality(S)) /\ Cardinality(1 .. Cardinality(S)) = Cardinality(S)
    BY <1>1, FS_Interval
  <2> QED
    BY <1>4, <2>1, FS_Injection
<1>6. \A x \in S : \E i \in 1 .. Cardinality(S) : f[i] = x
  BY <1>5 DEF Surjection
<1> HIDE DEF f
<1>7. f \in Seq(S) /\ DOMAIN f = 1 .. Cardinality(S)
  BY <1>1, <1>3 DEF f
<1> QED
  BY <1>6, <1>7 DEF f

Sends == {"subscribe", "unsubscribe"} \X Channels

\* The packets of an import, a define, a delete or a stop.
LEMMA SendsList ==
    ASSUME NEW chs, IsFiniteSet(chs), chs \subseteq Channels
    PROVE  /\ Subscribes(chs) \in Seq(Sends) /\ Unsubscribes(chs) \in Seq(Sends)
           /\ \A ch \in chs : \E i \in DOMAIN Subscribes(chs) :
                 Subscribes(chs)[i] = <<"subscribe", ch>>
           /\ \A ch \in chs : \E i \in DOMAIN Unsubscribes(chs) :
                 Unsubscribes(chs)[i] = <<"unsubscribe", ch>>
           /\ \A i \in DOMAIN Subscribes(chs) : \E ch \in chs :
                 Subscribes(chs)[i] = <<"subscribe", ch>>
           /\ \A i \in DOMAIN Unsubscribes(chs) : \E ch \in chs :
                 Unsubscribes(chs)[i] = <<"unsubscribe", ch>>
<1> DEFINE A == {<<"subscribe", ch>> : ch \in chs}
           B == {<<"unsubscribe", ch>> : ch \in chs}
<1>1. IsFiniteSet(A)
  <2> DEFINE g == [ch \in chs |-> <<"subscribe", ch>>]
  <2>1. IsFiniteSet({g[ch] : ch \in DOMAIN g})
    BY FiniteImage
  <2> QED
    BY <2>1
<1>2. IsFiniteSet(B)
  <2> DEFINE g == [ch \in chs |-> <<"unsubscribe", ch>>]
  <2>1. IsFiniteSet({g[ch] : ch \in DOMAIN g})
    BY FiniteImage
  <2> QED
    BY <2>1
<1>3. A \subseteq Sends /\ B \subseteq Sends
  BY DEF Sends
<1>4. \A ch \in chs : <<"subscribe", ch>> \in A /\ <<"unsubscribe", ch>> \in B
  OBVIOUS
<1>5. /\ \A x \in A : \E ch \in chs : x = <<"subscribe", ch>>
      /\ \A x \in B : \E ch \in chs : x = <<"unsubscribe", ch>>
  OBVIOUS
<1>6. /\ Subscribes(chs) \in Seq(A) /\ Unsubscribes(chs) \in Seq(B)
      /\ \A x \in A : \E i \in DOMAIN Subscribes(chs) : Subscribes(chs)[i] = x
      /\ \A x \in B : \E i \in DOMAIN Unsubscribes(chs) : Unsubscribes(chs)[i] = x
  BY <1>1, <1>2, SetToSeqLists DEF Subscribes, Unsubscribes
<1> HIDE DEF A, B
<1>7. /\ \A i \in DOMAIN Subscribes(chs) : Subscribes(chs)[i] \in A
      /\ \A i \in DOMAIN Unsubscribes(chs) : Unsubscribes(chs)[i] \in B
  BY <1>6
<1>8. Subscribes(chs) \in Seq(Sends) /\ Unsubscribes(chs) \in Seq(Sends)
  BY <1>3, <1>6
<1> QED
  BY <1>4, <1>5, <1>6, <1>7, <1>8

\* Lists of what to send, put together.
LEMMA ListConcat ==
    ASSUME NEW p \in Seq(Sends), NEW q \in Seq(Sends)
    PROVE  /\ p \o q \in Seq(Sends)
           /\ \A x : (\E i \in DOMAIN (p \o q) : (p \o q)[i] = x)
                  <=> (\E i \in DOMAIN p : p[i] = x) \/ (\E i \in DOMAIN q : q[i] = x)
<1>1. /\ p \o q \in Seq(Sends)
      /\ Len(p) \in Nat /\ Len(q) \in Nat
      /\ DOMAIN p = 1 .. Len(p) /\ DOMAIN q = 1 .. Len(q)
      /\ DOMAIN (p \o q) = 1 .. Len(p) + Len(q)
      /\ \A i \in 1 .. Len(p) : (p \o q)[i] = p[i]
      /\ \A i \in 1 .. Len(q) : (p \o q)[Len(p) + i] = q[i]
  OBVIOUS
<1>2. \A i \in 1 .. Len(p) + Len(q) :
         i \in 1 .. Len(p) \/ (i - Len(p) \in 1 .. Len(q) /\ Len(p) + (i - Len(p)) = i)
  BY <1>1
<1>3. \A i \in 1 .. Len(q) : Len(p) + i \in 1 .. Len(p) + Len(q)
  BY <1>1
<1>4. \A i \in 1 .. Len(p) : i \in 1 .. Len(p) + Len(q)
  BY <1>1
<1>5. ASSUME NEW x, NEW i \in DOMAIN (p \o q), (p \o q)[i] = x
      PROVE  (\E n \in DOMAIN p : p[n] = x) \/ (\E n \in DOMAIN q : q[n] = x)
  <2>1. CASE i \in 1 .. Len(p)
    BY <1>1, <1>5, <2>1
  <2>2. CASE i - Len(p) \in 1 .. Len(q) /\ Len(p) + (i - Len(p)) = i
    BY <1>1, <1>5, <2>2
  <2> QED
    BY <1>1, <1>2, <2>1, <2>2
<1>6. ASSUME NEW x, NEW n \in DOMAIN p, p[n] = x
      PROVE  \E i \in DOMAIN (p \o q) : (p \o q)[i] = x
  BY <1>1, <1>4, <1>6
<1>7. ASSUME NEW x, NEW n \in DOMAIN q, q[n] = x
      PROVE  \E i \in DOMAIN (p \o q) : (p \o q)[i] = x
  BY <1>1, <1>3, <1>7
<1> QED
  BY <1>1, <1>5, <1>6, <1>7

\* A handler is at work as long as its answer is not complete.
JobInv == \A v \in VMs : vpc[v] = "handle" <=> job[v] # NoJob

\* An execute on its way is what its issuer has asked for.
AskedInv ==
    \A c \in Clients : \A p \in Range(inbox[c]) \cup Range(outbox[c]) :
        p.ptype = "execute" =>
            what[p.tx] = [ch |-> p.ch, arg |-> p.arg] /\ what[p.tx] \in Calls

SysTypeInv ==
    /\ VMTypeOK /\ RuntimeTypeOK /\ JobInv
    /\ \A v \in VMs : IsFiniteSet(components[v])
    /\ \A v \in VMs : job[v] # NoJob => IsFiniteSet(job[v][3])

-----------------------------------------------------------------------------
(* VMs and runtimes are clients of the broker.                             *)

\* What a client does that asks nobody to execute anything.
QuietStep(c) ==
    \/ Connect(c)
    \/ \E tx \in TxIds, ptype \in RequestType \ {"execute"},
          ch \in Channels \cup {NoChannel} : SendRequest(c, tx, ptype, ch, NoArg)
    \/ \E tx \in TxIds, fin, ok \in BOOLEAN : SendReply(c, tx, fin, ok)
    \/ Listen(c)
    \/ Stop(c)
    \/ TakeStop(c)
    \/ Close(c)

LEMMA VMIsClient ==
    ASSUME TypeOK, SysTypeInv, NEW v \in VMs, VMStep(v)
    PROVE  /\ ClientStep(v) \/ UNCHANGED vars
           /\ QuietStep(v) \/ UNCHANGED vars
<1> USE DEF QuietStep, ClientStep
<1>0. {"connect", "disconnect", "subscribe", "unsubscribe"} \subseteq RequestType \ {"execute"}
  BY DEF RequestType
<1>1. v \in Clients /\ \A tx \in NextTx(v) : tx \in TxIds
  BY VMAssumption DEF NextTx, Fresh
<1>2. CASE VMStart(v)
  BY <1>2 DEF VMStart
<1>3. CASE VMSendConnect(v)
  BY <1>0, <1>1, <1>3 DEF VMSendConnect
<1>4. CASE VMConnected(v) \/ VMNoContents(v) \/ VMRespond(v) \/ VMGoodbye(v)
  BY <1>4 DEF VMConnected, VMNoContents, VMRespond, VMGoodbye, VMReceive
<1>5. CASE VMTimeout(v) \/ VMSent(v) \/ VMSqueezeTimeout(v) \/ VMSqueezed(v)
  BY <1>5 DEF VMTimeout, VMSent, VMSqueezeTimeout, VMSqueezed
<1>6. CASE VMSend(v)
  <2>1. Head(todo[v]) \in Sends
    BY <1>6 DEF VMSend, SysTypeInv, VMTypeOK, Sends
  <2>2. Head(todo[v])[1] \in {"subscribe", "unsubscribe"} /\ Head(todo[v])[2] \in Channels
    BY <2>1 DEF Sends
  <2> QED
    BY <1>0, <1>1, <1>6, <2>2 DEF VMSend
<1>7. CASE \/ handle_call_function(v) \/ handle_define_component(v)
           \/ handle_delete_component(v) \/ handle_call_method(v)
  BY <1>7 DEF handle_call_function, handle_define_component, handle_delete_component,
              handle_call_method, VMExecute, VMReceive
<1>8. CASE VMReply(v)
  <2>1. job[v] \in TxIds \X Plan \X SUBSET CompNames
    BY <1>8 DEF VMReply, SysTypeInv, VMTypeOK, JobInv
  <2>2. job[v][1] \in TxIds
    BY <2>1
  <2> QED
    BY <1>8, <2>2 DEF VMReply
<1>9. CASE VMStop(v)
  BY <1>9 DEF VMStop
<1>10. CASE VMSqueeze(v)
  BY <1>10 DEF VMSqueeze
<1>11. CASE VMSendDisconnect(v)
  BY <1>0, <1>1, <1>11 DEF VMSendDisconnect
<1>12. CASE VMReturn(v) \/ VMThrow(v)
  BY <1>12 DEF VMReturn, VMThrow
<1> QED
  BY <1>2, <1>3, <1>4, <1>5, <1>6, <1>7, <1>8, <1>9, <1>10, <1>11, <1>12 DEF VMStep

LEMMA RuntimeIsClient ==
    ASSUME NEW r \in Runtimes, RuntimeStep(r)
    PROVE  /\ ClientStep(r) \/ UNCHANGED vars
           /\ QuietStep(r) \/ RTCall(r) \/ UNCHANGED vars
<1> USE DEF QuietStep, ClientStep
<1>0. {"connect", "disconnect"} \subseteq RequestType \ {"execute"}
  BY DEF RequestType
<1>1. \A tx \in NextTx(r) : tx \in TxIds
  BY DEF NextTx, Fresh
<1>2. CASE RTConnect(r)
  BY <1>2 DEF RTConnect
<1>3. CASE RTSendConnect(r) \/ RTStop(r)
  BY <1>0, <1>1, <1>3 DEF RTSendConnect, RTStop
<1>4. CASE RTConnected(r) \/ RTListen(r)
  BY <1>4 DEF RTConnected, RTListen, Keep
<1>5. CASE RTConnectTimeout(r) \/ RTTake(r)
  BY <1>5 DEF RTConnectTimeout, RTTake
<1>6. CASE RTCall(r)
  <2>1. \A c \in Calls : c.ch \in Channels /\ c.arg \in Args \cup {NoArg}
    BY CallsAssumption
  <2> QED
    BY <1>0, <1>1, <1>6, <2>1 DEF RTCall
<1>7. CASE RTDisconnected(r)
  BY <1>7 DEF RTDisconnected
<1> QED
  BY <1>2, <1>3, <1>4, <1>5, <1>6, <1>7 DEF RuntimeStep

LEMMA SysIsBroker ==
    ASSUME TypeOK, SysTypeInv, [SysNext]_sysVars
    PROVE  [Next]_vars
<1>1. CASE BrokerTurn
  BY <1>1 DEF BrokerTurn, Next
<1>2. CASE stop_threads
  <2>1. Machine \in Clients
    BY OwnerAssumption, VMAssumption
  <2>2. CASE RTStopVM
    BY <2>1, <2>2 DEF RTStopVM, vm_stop, ClientStep, Next
  <2>3. CASE RTJoinVM
    BY <2>3 DEF RTJoinVM, Next
  <2>4. CASE RTJoinBroker
    BY <2>4 DEF RTJoinBroker
  <2> QED
    BY <1>2, <2>2, <2>3, <2>4 DEF stop_threads
<1>3. ASSUME NEW v \in VMs, VMTurn(v)
      PROVE  [Next]_vars
  BY <1>3, VMIsClient, VMAssumption DEF VMTurn, Next
<1>4. ASSUME NEW r \in Runtimes, RuntimeTurn(r)
      PROVE  [Next]_vars
  BY <1>4, RuntimeIsClient, RuntimeAssumption DEF RuntimeTurn, Next
<1>5. CASE UNCHANGED sysVars
  BY <1>5 DEF sysVars
<1> QED
  BY <1>1, <1>2, <1>3, <1>4, <1>5 DEF SysNext

-----------------------------------------------------------------------------
(* Who may ask a VM to execute something.                                  *)

\* Nobody else gives rise to an execute.
LEMMA QuietExecutes ==
    ASSUME TypeOK,
           \/ BrokerAct \/ StopBroker \/ UNCHANGED vars
           \/ \E c \in Clients : QuietStep(c),
           NEW d \in Clients, NEW y \in Range(inbox'[d]) \cup Range(outbox'[d]),
           y.ptype = "execute"
    PROVE  \E e \in Clients : y \in Range(inbox[e]) \cup Range(outbox[e])
<1>t. /\ BrokerTypeOK /\ inbox \in [Clients -> Seq(Packet)]
      /\ outbox \in [Clients -> Seq(Packet)]
  BY DEF TypeOK, BrokerTypeOK
<1> DEFINE Old == \E e \in Clients : y \in Range(inbox[e]) \cup Range(outbox[e])
<1>1. UNCHANGED <<inbox, outbox>> => Old
  OBVIOUS
<1>2. ASSUME NEW c \in Clients, NEW p, Push(c, p), UNCHANGED outbox, p.ptype # "execute"
      PROVE  Old
  BY <1>t, <1>2, PushRange
<1>3. ASSUME NEW c \in Clients, HandleRecv(c)
      PROVE  Old
  <2>1. CASE IgnoreRecv(c)
    BY <1>1, <2>1 DEF IgnoreRecv, clientVars
  <2>2. ASSUME NEW t, Receive(c, t)
        PROVE  Range(inbox'[d]) \subseteq Range(inbox[d]) /\ Head(inbox[c]) \in Range(inbox[c])
    BY <1>t, <2>2, QueuesRange DEF Receive
  <2>3. ASSUME NEW t, Receive(c, t), NEW e, NEW p, Deliver(e, p),
               p = Head(inbox[c]) \/ p.ptype # "execute"
        PROVE  Old
    BY <1>t, <2>2, <2>3, DeliverRange
  <2>4. ASSUME NEW t, Receive(c, t), UNCHANGED <<outbox>>
        PROVE  Old
    BY <2>2, <2>4
  <2>5. \A tx, n, fin, ok : /\ Respond(tx, ok).ptype # "execute"
                            /\ RespondExecute(tx, n, fin, ok).ptype # "execute"
    BY DEF Respond, RespondExecute
  <2> HIDE DEF Old
  <2>6. CASE HandleConnect(c) \/ HandleDisconnect(c)
    BY <2>3, <2>5, <2>6 DEF HandleConnect, HandleDisconnect
  <2>7. CASE HandleSubscribe(c) \/ HandleUnsubscribe(c)
    BY <2>3, <2>5, <2>7 DEF HandleSubscribe, HandleUnsubscribe
  <2>8. CASE HandleExecute(c) \/ HandleRespondExecute(c)
    BY <2>3, <2>4, <2>5, <2>8 DEF HandleExecute, HandleRespondExecute
  <2> QED
    BY <1>3, <2>1, <2>6, <2>7, <2>8 DEF HandleRecv
<1>4. ASSUME NEW c \in Clients, QuietStep(c)
      PROVE  Old
  <2>1. CASE Connect(c)
    BY <1>1, <2>1 DEF Connect, Dial
  <2>2. ASSUME NEW tx, NEW t \in RequestType \ {"execute"}, NEW ch,
               SendRequest(c, tx, t, ch, NoArg)
        PROVE  Old
    BY <1>2, <2>2 DEF SendRequest, clientVars
  <2>3. ASSUME NEW tx, NEW fin, NEW ok, SendReply(c, tx, fin, ok)
        PROVE  Old
    <3>1. RespondExecute(tx, next[tx], fin, ok).ptype # "execute"
      BY DEF RespondExecute
    <3> QED
      BY <1>2, <2>3, <3>1 DEF SendReply, clientVars
  <2>4. CASE Listen(c)
    <3>1. UNCHANGED inbox
      BY <2>4 DEF Listen
    <3>2. Range(outbox'[d]) \subseteq Range(outbox[d])
      BY <1>t, <2>4, QueuesRange DEF Listen
    <3> QED
      BY <3>1, <3>2
  <2>5. CASE Stop(c) \/ TakeStop(c)
    BY <1>1, <2>5 DEF Stop, TakeStop
  <2>6. CASE Close(c)
    <3>1. UNCHANGED inbox
      BY <2>6 DEF Close
    <3>2. outbox'[d] = outbox[d] \/ outbox'[d] = <<>>
      BY <1>t, <2>6 DEF Close, Hangup
    <3>3. Range(<<>>) = {}
      BY DEF Range
    <3> QED
      BY <3>1, <3>2, <3>3
  <2> QED
    BY <1>4, <2>1, <2>2, <2>3, <2>4, <2>5, <2>6 DEF QuietStep
<1>5. CASE Accept \/ Register \/ Stopped
  BY <1>1, <1>5 DEF Accept, Register, Stopped, clientVars
<1>6. CASE StopBroker \/ UNCHANGED vars
  BY <1>1, <1>6 DEF StopBroker, BrokerStop, clientVars, vars, brokerVars
<1> QED
  BY <1>3, <1>4, <1>5, <1>6 DEF BrokerAct, BrokerStep

\* In terms of the broker, a step of the system is a call or something quiet.
LEMMA SysIsQuiet ==
    ASSUME TypeOK, SysTypeInv, [SysNext]_sysVars
    PROVE  \/ /\ UNCHANGED what
              /\ \/ BrokerAct \/ StopBroker \/ UNCHANGED vars
                 \/ \E c \in Clients : QuietStep(c)
           \/ \E r \in Runtimes : RuntimeTurn(r) /\ RTCall(r)
<1>1. CASE BrokerTurn
  BY <1>1 DEF BrokerTurn, rtVars
<1>2. CASE stop_threads
  <2>1. Machine \in Clients
    BY OwnerAssumption, VMAssumption
  <2>2. CASE RTStopVM
    BY <2>1, <2>2 DEF RTStopVM, vm_stop, QuietStep
  <2>3. CASE RTJoinVM
    BY <2>3 DEF RTJoinVM
  <2>4. CASE RTJoinBroker
    BY <2>4 DEF RTJoinBroker
  <2> QED
    BY <1>2, <2>2, <2>3, <2>4 DEF stop_threads
<1>3. ASSUME NEW v \in VMs, VMTurn(v)
      PROVE  /\ UNCHANGED what
             /\ UNCHANGED vars \/ \E c \in Clients : QuietStep(c)
  BY <1>3, VMIsClient, VMAssumption DEF VMTurn, rtVars
<1>4. ASSUME NEW r \in Runtimes, RuntimeTurn(r), ~RTCall(r)
      PROVE  /\ UNCHANGED what
             /\ UNCHANGED vars \/ \E c \in Clients : QuietStep(c)
  <2>1. QuietStep(r) \/ UNCHANGED vars
    BY <1>4, RuntimeIsClient DEF RuntimeTurn
  <2>2. UNCHANGED what
    BY <1>4
    DEF RuntimeTurn, RuntimeStep, RTConnect, RTSendConnect, RTConnected,
        RTConnectTimeout, RTListen, RTTake, RTStop, RTDisconnected
  <2> QED
    BY <2>1, <2>2, RuntimeAssumption
<1>5. CASE UNCHANGED sysVars
  BY <1>5 DEF sysVars, rtVars
<1> QED
  BY <1>1, <1>2, <1>3, <1>4, <1>5 DEF SysNext

LEMMA AskedStep ==
    TypeOK /\ PlaceInv /\ SysTypeInv /\ AskedInv /\ [SysNext]_sysVars => AskedInv'
<1> SUFFICES ASSUME TypeOK, PlaceInv, SysTypeInv, AskedInv, [SysNext]_sysVars,
                    NEW d \in Clients, NEW y \in Range(inbox'[d]) \cup Range(outbox'[d]),
                    y.ptype = "execute"
             PROVE  what'[y.tx] = [ch |-> y.ch, arg |-> y.arg] /\ what'[y.tx] \in Calls
  BY DEF AskedInv
<1>t. /\ BrokerTypeOK /\ inbox \in [Clients -> Seq(Packet)]
      /\ outbox \in [Clients -> Seq(Packet)] /\ what \in [TxIds -> Calls \cup {Nothing}]
  BY DEF TypeOK, BrokerTypeOK, SysTypeInv, RuntimeTypeOK
<1>1. CASE /\ UNCHANGED what
           /\ \/ BrokerAct \/ StopBroker \/ UNCHANGED vars
              \/ \E c \in Clients : QuietStep(c)
  BY <1>1, QuietExecutes DEF AskedInv
<1>2. ASSUME NEW r \in Runtimes, RTCall(r)
      PROVE  what'[y.tx] = [ch |-> y.ch, arg |-> y.arg] /\ what'[y.tx] \in Calls
  <2>1. PICK tx \in NextTx(r), c \in Calls :
           SendRequest(r, tx, "execute", c.ch, c.arg) /\ what' = [what EXCEPT ![tx] = c]
    BY <1>2 DEF RTCall
  <2> DEFINE p == [ptype |-> "execute", tx |-> tx, ch |-> c.ch, arg |-> c.arg]
  <2>2. tx \in TxIds /\ r \in Clients /\ tx \notin used
    BY RuntimeAssumption DEF NextTx, Fresh
  <2>3. Push(r, p) /\ UNCHANGED outbox
    BY <2>1 DEF SendRequest, clientVars
  <2>4. p.tx = tx /\ p.ch = c.ch /\ p.arg = c.arg
    OBVIOUS
  <2>5. c = [ch |-> c.ch, arg |-> c.arg]
    BY CallsAssumption
  <2> HIDE DEF p
  <2>6. \/ y \in Range(inbox[d]) \cup Range(outbox[d])
        \/ y = p
    BY <1>t, <2>2, <2>3, PushRange
  <2>7. CASE y = p
    BY <1>t, <2>1, <2>2, <2>4, <2>5, <2>7
  <2>8. CASE y \in Range(inbox[d]) \cup Range(outbox[d])
    <3>1. y.tx # tx
      BY <2>2, <2>8 DEF PlaceInv, PlaceOf, Nowhere, Range
    <3>2. what'[y.tx] = what[y.tx]
      BY <1>t, <2>1, <3>1
    <3> QED
      BY <2>8, <3>2 DEF AskedInv
  <2> QED
    BY <2>6, <2>7, <2>8
<1> QED
  BY <1>1, <1>2, SysIsQuiet

-----------------------------------------------------------------------------
(* The types of a VM.                                                      *)

\* What the handler in v is told to do is what a call has asked for.
LEMMA AskedHead ==
    ASSUME TypeOK, SysTypeInv, AskedInv, NEW v \in VMs, outbox[v] # <<>>,
           Head(outbox[v]).ptype = "execute"
    PROVE  /\ Head(outbox[v]).tx \in TxIds
           /\ Head(outbox[v]).ch \in Channels
           /\ Head(outbox[v]).ch[1] = "define_component" =>
                 Head(outbox[v]).arg \in CompNames
<1> DEFINE p == Head(outbox[v])
<1>1. v \in Clients /\ outbox[v] \in Seq(Packet)
  BY VMAssumption DEF TypeOK, BrokerTypeOK
<1>2. p \in Packet /\ p \in Range(outbox[v])
  BY <1>1, QueueType, QueueRange
<1>3. p.tx \in TxIds
  BY <1>2, PacketTypes
<1>4. what[p.tx] = [ch |-> p.ch, arg |-> p.arg] /\ what[p.tx] \in Calls
  BY <1>1, <1>2 DEF AskedInv
<1> HIDE DEF p
<1>5. what[p.tx].ch = p.ch /\ what[p.tx].arg = p.arg
  BY <1>4
<1>6. p.ch \in Channels
  BY <1>4, <1>5, CallsAssumption
<1>7. p.ch[1] = "define_component" => p.ch \in FactoryChannels
  BY <1>6, ChannelKinds
<1>8. p.ch[1] = "define_component" => p.arg \in CompNames
  BY <1>4, <1>5, <1>7, DefineAssumption
<1> QED
  BY <1>3, <1>6, <1>8 DEF p

\* The lists of packets of the handlers are lists of packets.
LEMMA ListsTyped ==
    ASSUME NEW comps \in SUBSET CompNames, IsFiniteSet(comps)
    PROVE  /\ Subscribes(FunctionChannels \cup FactoryChannels) \in Seq(Sends)
           /\ \A k \in CompNames :
                 /\ Subscribes({DeleteComponent(k)}) \o Subscribes(MethodChannels(k))
                       \in Seq(Sends)
                 /\ Unsubscribes(MethodChannels(k)) \o Unsubscribes({DeleteComponent(k)})
                       \in Seq(Sends)
           /\ Unsubscribes(FunctionChannels) \o Unsubscribes(FactoryChannels)
                 \o Unsubscribes(UNION {ComponentChannels(k) : k \in comps}) \in Seq(Sends)
<1>1. Subscribes(FunctionChannels \cup FactoryChannels) \in Seq(Sends)
  <2>1. IsFiniteSet(FunctionChannels \cup FactoryChannels)
    BY ChannelSets, FS_Union
  <2> QED
    BY <2>1, ChannelSets, SendsList
<1>2. ASSUME NEW k \in CompNames
      PROVE  /\ Subscribes({DeleteComponent(k)}) \o Subscribes(MethodChannels(k))
                   \in Seq(Sends)
             /\ Unsubscribes(MethodChannels(k)) \o Unsubscribes({DeleteComponent(k)})
                   \in Seq(Sends)
  <2>1. IsFiniteSet({DeleteComponent(k)}) /\ {DeleteComponent(k)} \subseteq Channels
    BY ChannelSets, FS_Singleton
  <2>2. /\ Subscribes({DeleteComponent(k)}) \in Seq(Sends)
        /\ Unsubscribes({DeleteComponent(k)}) \in Seq(Sends)
    BY <2>1, SendsList
  <2>3. Subscribes(MethodChannels(k)) \in Seq(Sends) /\ Unsubscribes(MethodChannels(k)) \in Seq(Sends)
    BY ChannelSets, SendsList
  <2> QED
    BY <2>2, <2>3, ListConcat
<1>3. Unsubscribes(FunctionChannels) \o Unsubscribes(FactoryChannels)
         \o Unsubscribes(UNION {ComponentChannels(k) : k \in comps}) \in Seq(Sends)
  <2> DEFINE f == [k \in comps |-> ComponentChannels(k)]
             U == UNION {f[k] : k \in DOMAIN f}
  <2>1. IsFiniteSet({f[k] : k \in DOMAIN f})
    BY FiniteImage
  <2>2. \A S \in {f[k] : k \in DOMAIN f} : IsFiniteSet(S) /\ S \subseteq Channels
    BY ChannelSets
  <2>3. U = UNION {ComponentChannels(k) : k \in comps}
    OBVIOUS
  <2> HIDE DEF f
  <2>4. IsFiniteSet(U)
    BY <2>1, <2>2, FS_UNION
  <2>5. U \subseteq Channels
    BY <2>2
  <2>6. Unsubscribes(U) \in Seq(Sends)
    BY <2>4, <2>5, SendsList
  <2>7. Unsubscribes(FunctionChannels) \in Seq(Sends) /\ Unsubscribes(FactoryChannels) \in Seq(Sends)
    BY ChannelSets, SendsList
  <2>8. Unsubscribes(FunctionChannels) \o Unsubscribes(FactoryChannels) \in Seq(Sends)
    BY <2>7, ListConcat
  <2> QED
    BY <2>3, <2>6, <2>8, ListConcat
<1> QED
  BY <1>1, <1>2, <1>3

LEMMA VMTypeStep ==
    ASSUME TypeOK, SysTypeInv, AskedInv, NEW v \in VMs, VMStep(v)
    PROVE  /\ VMTypeOK' /\ JobInv'
           /\ \A w \in VMs : IsFiniteSet(components'[w])
           /\ \A w \in VMs : job'[w] # NoJob => IsFiniteSet(job'[w][3])
<1> DEFINE Fin == \A w \in VMs : IsFiniteSet(components'[w])
           Few == \A w \in VMs : job'[w] # NoJob => IsFiniteSet(job'[w][3])
<1>t. /\ vpc \in [VMs -> VMState] /\ vmStates \subseteq VMs
      /\ expected \in [VMs -> SUBSET TxIds]
      /\ components \in [VMs -> SUBSET CompNames]
      /\ todo \in [VMs -> Seq(Sends)]
      /\ job \in [VMs -> (TxIds \X Plan \X SUBSET CompNames) \cup {NoJob}]
      /\ retry \in 0 .. MaxRetry /\ forced \subseteq VMs
      /\ \A w \in VMs : (vpc[w] = "handle" <=> job[w] # NoJob) /\ IsFiniteSet(components[w])
      /\ \A w \in VMs : job[w] # NoJob => IsFiniteSet(job[w][3])
  BY DEF SysTypeInv, VMTypeOK, JobInv, Sends
<1>0. \A tx \in NextTx(v) : tx \in TxIds
  BY DEF NextTx, Fresh
<1>s. ASSUME vpc' \in [VMs -> VMState], vmStates' \subseteq VMs,
             expected' \in [VMs -> SUBSET TxIds],
             components' \in [VMs -> SUBSET CompNames],
             todo' \in [VMs -> Seq(Sends)],
             job' \in [VMs -> (TxIds \X Plan \X SUBSET CompNames) \cup {NoJob}],
             retry' \in 0 .. MaxRetry, forced' \subseteq VMs
      PROVE  VMTypeOK'
  BY <1>s DEF VMTypeOK, Sends
<1>g. ASSUME NEW l \in VMState \ {"handle"}, Goto(v, l), vpc[v] # "handle", UNCHANGED job
      PROVE  vpc' \in [VMs -> VMState] /\ JobInv'
  BY <1>t, <1>g DEF Goto, JobInv
<1>f. UNCHANGED components => Fin
  BY <1>t
<1>j. UNCHANGED job => Few
  BY <1>t
<1> USE DEF VMState
<1>1. CASE VMStart(v)
  <2>1. \E l \in {"connect", "failed"} : Goto(v, l)
    BY <1>1 DEF VMStart
  <2> QED
    BY <1>t, <1>s, <1>g, <1>1, <2>1 DEF VMStart
<1>2. CASE VMSendConnect(v)
  <2>1. \E l \in {"handshake", "throw"} : Goto(v, l)
    BY <1>2 DEF VMSendConnect
  <2> QED
    BY <1>t, <1>s, <1>g, <1>2, <2>1 DEF VMSendConnect
<1>3. CASE VMConnected(v)
  <2>1. \E l \in {"import", "throw"} : Goto(v, l)
    BY <1>3 DEF VMConnected
  <2>2. todo' \in [VMs -> Seq(Sends)]
    <3>1. components[v] \in SUBSET CompNames /\ IsFiniteSet(components[v])
      BY <1>t
    <3>2. Subscribes(FunctionChannels \cup FactoryChannels) \in Seq(Sends)
      BY <3>1, ListsTyped
    <3>3. <<>> \in Seq(Sends)
      OBVIOUS
    <3> QED
      BY <1>t, <1>3, <3>2, <3>3 DEF VMConnected
  <2> QED
    BY <1>t, <1>s, <1>g, <1>3, <2>1, <2>2 DEF VMConnected
<1>4. CASE VMTimeout(v)
  BY <1>t, <1>s, <1>g, <1>4 DEF VMTimeout
<1>5. CASE VMSend(v)
  <2>1. todo[v] # <<>> /\ todo' = [todo EXCEPT ![v] = Tail(@)]
    BY <1>5 DEF VMSend
  <2>2. todo' \in [VMs -> Seq(Sends)]
    BY <1>t, <2>1, QueuesType
  <2>3. expected' \in [VMs -> SUBSET TxIds]
    BY <1>t, <1>0, <1>5 DEF VMSend
  <2>4. vpc' \in [VMs -> VMState] /\ JobInv'
    BY <1>t, <1>5 DEF VMSend, Goto, JobInv
  <2> QED
    BY <1>t, <1>s, <1>5, <2>2, <2>3, <2>4 DEF VMSend
<1>6. CASE VMSent(v)
  BY <1>t, <1>s, <1>g, <1>6 DEF VMSent
<1>7. CASE VMNoContents(v)
  BY <1>t, <1>7 DEF VMNoContents, vmVars, SysTypeInv, VMTypeOK, JobInv
<1>8. CASE VMRespond(v)
  BY <1>t, <1>s, <1>8 DEF VMRespond, JobInv
<1>9. ASSUME NEW i, VMExecute(v, i), NEW plan \in Plan,
             NEW names \in SUBSET CompNames, IsFiniteSet(names),
             job' = [job EXCEPT ![v] = <<Head(outbox[v]).tx, plan, names>>]
      PROVE  /\ vpc' \in [VMs -> VMState] /\ JobInv' /\ Few
             /\ job' \in [VMs -> (TxIds \X Plan \X SUBSET CompNames) \cup {NoJob}]
  <2>1. Head(outbox[v]).tx \in TxIds
    BY <1>9, AskedHead DEF VMExecute, VMReceive
  <2> DEFINE x == <<Head(outbox[v]).tx, plan, names>>
  <2>2. x \in TxIds \X Plan \X SUBSET CompNames /\ x # <<>> /\ x[3] = names
    BY <1>9, <2>1
  <2>3. vpc' = [vpc EXCEPT ![v] = "handle"]
    BY <1>9 DEF VMExecute, Goto
  <2>j. job' = [job EXCEPT ![v] = x]
    BY <1>9
  <2> HIDE DEF x
  <2>4. JobInv'
    BY <1>t, <2>2, <2>3, <2>j, <1>9 DEF JobInv, NoJob, VMExecute
  <2>5. Few
    BY <1>t, <1>9, <2>2, <2>j
  <2>6. job' \in [VMs -> (TxIds \X Plan \X SUBSET CompNames) \cup {NoJob}]
    BY <1>t, <2>2, <2>j
  <2>7. vpc' \in [VMs -> VMState]
    BY <1>t, <2>3
  <2> QED
    BY <2>4, <2>5, <2>6, <2>7
<1>e. {} \in SUBSET CompNames /\ IsFiniteSet({})
  BY FS_EmptySet
<1> USE DEF Plan
<1>10. CASE handle_call_function(v)
  BY <1>t, <1>s, <1>f, <1>e, <1>9, <1>10 DEF handle_call_function, VMExecute
<1>11. CASE handle_define_component(v)
  <2> DEFINE p == Head(outbox[v])
  <2>1. VMExecute(v, "define_component")
    BY <1>11 DEF handle_define_component
  <2>2. p.arg \in CompNames
    BY <2>1, AskedHead DEF VMExecute, VMReceive
  <2>3. CASE job' = [job EXCEPT ![v] = <<p.tx, "fail", {}>>] /\ UNCHANGED todo
    BY <1>t, <1>s, <1>f, <1>e, <1>9, <1>11, <2>1, <2>3 DEF handle_define_component, VMExecute
  <2>4. CASE /\ job' = [job EXCEPT ![v] = <<p.tx, "ok", {p.arg}>>]
             /\ todo' = [todo EXCEPT ![v] = Subscribes({DeleteComponent(p.arg)})
                                               \o Subscribes(MethodChannels(p.arg))]
    <3>1. todo' \in [VMs -> Seq(Sends)]
      <4>1. Subscribes({DeleteComponent(p.arg)}) \o Subscribes(MethodChannels(p.arg)) \in Seq(Sends)
        BY <1>t, <2>2, ListsTyped
      <4> QED
        BY <1>t, <2>4, <4>1
    <3>2. UNCHANGED components
      BY <1>11 DEF handle_define_component
    <3>3. {p.arg} \in SUBSET CompNames /\ IsFiniteSet({p.arg})
      BY <2>2, FS_Singleton
    <3>4. /\ vpc' \in [VMs -> VMState] /\ JobInv' /\ Few
          /\ job' \in [VMs -> (TxIds \X Plan \X SUBSET CompNames) \cup {NoJob}]
      BY <1>9, <2>1, <2>4, <3>3
    <3> QED
      BY <1>t, <1>s, <1>f, <2>1, <3>1, <3>2, <3>4 DEF VMExecute
  <2> QED
    BY <1>11, <2>3, <2>4 DEF handle_define_component
<1>12. CASE handle_delete_component(v)
  <2> DEFINE p == Head(outbox[v])
             k == p.ch[2]
  <2>1. VMExecute(v, "delete_component")
    BY <1>12 DEF handle_delete_component
  <2>2. CASE k \notin components[v]
    BY <1>t, <1>s, <1>f, <1>e, <1>9, <1>12, <2>1, <2>2 DEF handle_delete_component, VMExecute
  <2>3. CASE k \in components[v]
    <3>1. /\ components' = [components EXCEPT ![v] = @ \ {k}]
          /\ todo' = [todo EXCEPT ![v] = Unsubscribes(MethodChannels(k))
                                            \o Unsubscribes({DeleteComponent(k)})]
          /\ job' = [job EXCEPT ![v] = <<p.tx, "ok", {}>>]
      BY <1>12, <2>3 DEF handle_delete_component
    <3>2. k \in CompNames
      BY <1>t, <2>3
    <3>3. todo' \in [VMs -> Seq(Sends)]
      <4>1. Unsubscribes(MethodChannels(k)) \o Unsubscribes({DeleteComponent(k)}) \in Seq(Sends)
        BY <1>t, <3>2, ListsTyped
      <4> QED
        BY <1>t, <3>1, <4>1
    <3>4. components' \in [VMs -> SUBSET CompNames]
      BY <1>t, <3>1
    <3>5. Fin
      <4>1. IsFiniteSet(components[v] \ {k})
        BY <1>t, FS_Difference
      <4> QED
        BY <1>t, <3>1, <4>1
    <3> QED
      BY <1>t, <1>s, <1>e, <1>9, <2>1, <3>1, <3>3, <3>4, <3>5 DEF VMExecute
  <2> QED
    BY <2>2, <2>3
<1>13. CASE handle_call_method(v)
  <2>1. VMExecute(v, "call_method") /\ UNCHANGED <<components, todo>>
    BY <1>13 DEF handle_call_method
  <2>2. \E plan \in Plan : job' = [job EXCEPT ![v] = <<Head(outbox[v]).tx, plan, {}>>]
    BY <1>13 DEF handle_call_method
  <2> QED
    BY <1>t, <1>s, <1>f, <1>e, <1>9, <2>1, <2>2 DEF VMExecute
<1>14. CASE VMReply(v)
  <2>1. \/ UNCHANGED <<vpc, job, components>>
        \/ /\ vpc' = [vpc EXCEPT ![v] = "loop"]
           /\ job' = [job EXCEPT ![v] = NoJob]
           /\ components' = [components EXCEPT ![v] = @ \cup job[v][3]]
    BY <1>14 DEF VMReply, Goto
  <2>2. /\ vpc' \in [VMs -> VMState] /\ JobInv' /\ Few
        /\ job' \in [VMs -> (TxIds \X Plan \X SUBSET CompNames) \cup {NoJob}]
    BY <1>t, <2>1 DEF JobInv
  <2>3. job[v] \in TxIds \X Plan \X SUBSET CompNames /\ IsFiniteSet(job[v][3])
    BY <1>t, <1>14 DEF VMReply
  <2> DEFINE x == components[v] \cup job[v][3]
  <2> HIDE DEF x
  <2>4. x \in SUBSET CompNames /\ IsFiniteSet(x)
    BY <1>t, <2>3, FS_Union DEF x
  <2>0. components' = [components EXCEPT ![v] = x] \/ UNCHANGED components
    BY <2>1 DEF x
  <2>5. components' \in [VMs -> SUBSET CompNames] /\ Fin
    BY <1>t, <2>0, <2>4
  <2> QED
    BY <1>t, <1>s, <1>14, <2>2, <2>5 DEF VMReply
<1>15. CASE VMStop(v)
  <2>1. todo' \in [VMs -> Seq(Sends)]
    <3>1. components[v] \in SUBSET CompNames /\ IsFiniteSet(components[v])
      BY <1>t
    <3>2. Unsubscribes(FunctionChannels) \o Unsubscribes(FactoryChannels)
             \o Unsubscribes(UNION {ComponentChannels(k) : k \in components[v]}) \in Seq(Sends)
      BY <3>1, ListsTyped
    <3> QED
      BY <1>t, <1>15, <3>2 DEF VMStop
  <2> QED
    BY <1>t, <1>s, <1>g, <1>15, <2>1 DEF VMStop
<1>16. CASE VMSqueeze(v)
  <2>1. expected' \in [VMs -> SUBSET TxIds]
    <3> DEFINE x == Head(outbox[v]).tx
    <3>1. \/ expected' = [expected EXCEPT ![v] = @ \ {x}]
          \/ expected' = expected
      BY <1>16 DEF VMSqueeze
    <3> HIDE DEF x
    <3>2. expected[v] \ {x} \in SUBSET TxIds
      BY <1>t
    <3>3. [expected EXCEPT ![v] = @ \ {x}] \in [VMs -> SUBSET TxIds]
      BY <1>t, <3>2
    <3> QED
      BY <1>t, <3>1, <3>3
  <2>2. retry' \in 0 .. MaxRetry
    BY <1>16, RetryAssumption DEF VMSqueeze
  <2>3. UNCHANGED <<vpc, vmStates, components, todo, job, forced>>
    BY <1>16 DEF VMSqueeze
  <2> QED
    BY <1>t, <1>s, <2>1, <2>2, <2>3 DEF JobInv
<1>17. CASE VMSqueezeTimeout(v)
  <2>1. retry' \in 0 .. MaxRetry
    BY <1>t, <1>17, RetryAssumption DEF VMSqueezeTimeout
  <2> QED
    BY <1>t, <1>s, <1>17, <2>1 DEF VMSqueezeTimeout, JobInv
<1>18. CASE VMSqueezed(v)
  <2>1. forced' \subseteq VMs
    BY <1>t, <1>18 DEF VMSqueezed
  <2> QED
    BY <1>t, <1>s, <1>g, <1>18, <2>1 DEF VMSqueezed
<1>19. CASE VMSendDisconnect(v)
  <2>1. \E l \in {"goodbye", "throw"} : Goto(v, l)
    BY <1>19 DEF VMSendDisconnect
  <2> QED
    BY <1>t, <1>s, <1>g, <1>19, <2>1 DEF VMSendDisconnect
<1>20. CASE VMGoodbye(v) \/ VMReturn(v)
  BY <1>t, <1>s, <1>g, <1>20 DEF VMGoodbye, VMReturn
<1>21. CASE VMThrow(v)
  BY <1>t, <1>s, <1>g, <1>21 DEF VMThrow
<1> QED
  BY <1>1, <1>2, <1>3, <1>4, <1>5, <1>6, <1>7, <1>8, <1>10, <1>11, <1>12, <1>13, <1>14,
     <1>15, <1>16, <1>17, <1>18, <1>19, <1>20, <1>21
  DEF VMStep

-----------------------------------------------------------------------------
(* The types of a runtime, and of the system.                              *)

LEMMA RuntimeTypeStep ==
    ASSUME TypeOK, SysTypeInv, NEW r \in Runtimes, RuntimeStep(r)
    PROVE  RuntimeTypeOK'
<1> DEFINE Taken == [seq : Nat, fin : BOOLEAN, ok : BOOLEAN]
<1>t. /\ rpc \in [Runtimes -> RuntimeState] /\ ctl \in [Runtimes -> SUBSET TxIds]
      /\ responses \in [Runtimes -> SUBSET TxIds]
      /\ store \in [TxIds -> SUBSET Taken] /\ idx \in [TxIds -> Nat]
      /\ call \in [TxIds -> CallState] /\ what \in [TxIds -> Calls \cup {Nothing}]
  BY DEF SysTypeInv, RuntimeTypeOK
<1>s. ASSUME rpc' \in [Runtimes -> RuntimeState], ctl' \in [Runtimes -> SUBSET TxIds],
             responses' \in [Runtimes -> SUBSET TxIds],
             store' \in [TxIds -> SUBSET Taken], idx' \in [TxIds -> Nat],
             call' \in [TxIds -> CallState], what' \in [TxIds -> Calls \cup {Nothing}]
      PROVE  RuntimeTypeOK'
  BY <1>s DEF RuntimeTypeOK
<1>0. \A tx \in NextTx(r) : tx \in TxIds
  BY DEF NextTx, Fresh
<1>g. \A l \in RuntimeState : RTGoto(r, l) => rpc' \in [Runtimes -> RuntimeState]
  BY <1>t DEF RTGoto
<1>k. ASSUME Keep(r)
      PROVE  /\ responses' \in [Runtimes -> SUBSET TxIds]
             /\ store' \in [TxIds -> SUBSET Taken]
  <2> DEFINE p == Head(outbox[r])
  <2>1. p \in Packet
    <3>1. r \in Clients /\ outbox[r] \in Seq(Packet) /\ outbox[r] # <<>>
      BY <1>k, RuntimeAssumption DEF Keep, TypeOK, BrokerTypeOK
    <3> QED
      BY <3>1, QueueType
  <2>2. p.tx \in TxIds
    BY <2>1, PacketTypes
  <2>3. p.ptype = "respond_execute" => p \in Reply
    BY <2>1 DEF Packet, Request, RequestType
  <2>4. p.ptype = "respond_execute" => [seq |-> p.seq, fin |-> p.fin, ok |-> p.ok] \in Taken
    BY <2>3 DEF Reply
  <2>5. CASE p.ptype = "respond_execute"
    <3>1. /\ store' = [store EXCEPT ![p.tx] =
                          @ \cup {[seq |-> p.seq, fin |-> p.fin, ok |-> p.ok]}]
          /\ UNCHANGED responses
      BY <1>k, <2>5 DEF Keep
    <3>2. store[p.tx] \cup {[seq |-> p.seq, fin |-> p.fin, ok |-> p.ok]} \in SUBSET Taken
      BY <1>t, <2>2, <2>4, <2>5
    <3> HIDE DEF Taken
    <3> QED
      BY <1>t, <3>1, <3>2
  <2>6. CASE p.ptype # "respond_execute"
    <3>1. responses' = [responses EXCEPT ![r] = @ \cup {p.tx}] /\ UNCHANGED store
      BY <1>k, <2>6 DEF Keep
    <3> QED
      BY <1>t, <2>2, <3>1
  <2> QED
    BY <2>5, <2>6
<1> USE DEF RuntimeState
<1>1. CASE RTConnect(r)
  <2>1. \E l \in RuntimeState : RTGoto(r, l)
    BY <1>1 DEF RTConnect
  <2> QED
    BY <1>t, <1>s, <1>g, <1>1, <2>1 DEF RTConnect
<1>2. CASE RTSendConnect(r)
  <2>1. \E l \in RuntimeState : RTGoto(r, l)
    BY <1>2 DEF RTSendConnect
  <2>2. ctl' \in [Runtimes -> SUBSET TxIds]
    BY <1>t, <1>0, <1>2 DEF RTSendConnect
  <2> QED
    BY <1>t, <1>s, <1>g, <1>2, <2>1, <2>2 DEF RTSendConnect
<1>3. CASE RTConnected(r)
  BY <1>t, <1>s, <1>g, <1>k, <1>3 DEF RTConnected
<1>4. CASE RTConnectTimeout(r)
  BY <1>t, <1>s, <1>g, <1>4 DEF RTConnectTimeout
<1>5. CASE RTCall(r)
  <2>1. what' \in [TxIds -> Calls \cup {Nothing}] /\ call' \in [TxIds -> CallState]
    BY <1>t, <1>0, <1>5 DEF RTCall, CallState
  <2> QED
    BY <1>t, <1>s, <1>5, <2>1 DEF RTCall
<1>6. CASE RTListen(r)
  BY <1>t, <1>s, <1>k, <1>6 DEF RTListen
<1>7. CASE RTTake(r)
  <2>0. PICK tx \in TxIds : \E p \in store[tx] :
           /\ \/ UNCHANGED <<store, idx>>
              \/ /\ store' = [store EXCEPT ![tx] = @ \ {p}]
                 /\ idx' = [idx EXCEPT ![tx] = @ + 1]
           /\ call' = [call EXCEPT ![tx] = IF ~p.ok THEN "raised"
                                           ELSE IF p.fin THEN "returned" ELSE "open"]
    BY <1>7 DEF RTTake
  <2>1. PICK p \in store[tx] :
           /\ \/ UNCHANGED <<store, idx>>
              \/ /\ store' = [store EXCEPT ![tx] = @ \ {p}]
                 /\ idx' = [idx EXCEPT ![tx] = @ + 1]
           /\ call' = [call EXCEPT ![tx] = IF ~p.ok THEN "raised"
                                           ELSE IF p.fin THEN "returned" ELSE "open"]
    BY <2>0
  <2> HIDE DEF Taken
  <2>2. store' \in [TxIds -> SUBSET Taken]
    BY <1>t, <2>1
  <2>3. idx' \in [TxIds -> Nat]
    BY <1>t, <2>1
  <2>4. call' \in [TxIds -> CallState]
    BY <1>t, <2>1 DEF CallState
  <2> QED
    BY <1>t, <1>s, <1>7, <2>2, <2>3, <2>4 DEF RTTake
<1>8. CASE RTStop(r)
  <2>1. \E l \in RuntimeState : RTGoto(r, l)
    BY <1>8 DEF RTStop
  <2>2. ctl' \in [Runtimes -> SUBSET TxIds]
    BY <1>t, <1>0, <1>8 DEF RTStop
  <2> QED
    BY <1>t, <1>s, <1>g, <1>8, <2>1, <2>2 DEF RTStop
<1>9. CASE RTDisconnected(r)
  BY <1>t, <1>s, <1>g, <1>9 DEF RTDisconnected
<1> QED
  BY <1>1, <1>2, <1>3, <1>4, <1>5, <1>6, <1>7, <1>8, <1>9 DEF RuntimeStep

LEMMA SysTypeStep ==
    TypeOK /\ SysTypeInv /\ AskedInv /\ [SysNext]_sysVars => SysTypeInv'
<1> SUFFICES ASSUME TypeOK, SysTypeInv, AskedInv, [SysNext]_sysVars
             PROVE  SysTypeInv'
  OBVIOUS
<1>v. UNCHANGED vmVars => /\ VMTypeOK' /\ JobInv' /\ \A v \in VMs : IsFiniteSet(components'[v])
                          /\ \A v \in VMs : job'[v] # NoJob => IsFiniteSet(job'[v][3])
  BY DEF vmVars, SysTypeInv, VMTypeOK, JobInv
<1>r. UNCHANGED rtVars => RuntimeTypeOK'
  BY DEF rtVars, SysTypeInv, RuntimeTypeOK
<1>1. CASE BrokerTurn
  BY <1>v, <1>r, <1>1 DEF BrokerTurn, SysTypeInv
<1>2. CASE stop_threads
  <2>1. UNCHANGED vmVars
    BY <1>2 DEF stop_threads, RTStopVM, vm_stop, RTJoinVM, RTJoinBroker
  <2>2. /\ UNCHANGED <<ctl, responses, store, idx, call, what>>
        /\ \E l \in RuntimeState : RTGoto(Owner, l)
    BY <1>2 DEF stop_threads, RTStopVM, RTJoinVM, RTJoinBroker, RuntimeState
  <2>3. RuntimeTypeOK'
    BY <2>2, OwnerAssumption DEF SysTypeInv, RuntimeTypeOK, RTGoto
  <2> QED
    BY <1>v, <2>1, <2>3 DEF SysTypeInv
<1>3. ASSUME NEW v \in VMs, VMTurn(v)
      PROVE  SysTypeInv'
  BY <1>r, <1>3, VMTypeStep DEF VMTurn, SysTypeInv
<1>4. ASSUME NEW r \in Runtimes, RuntimeTurn(r)
      PROVE  SysTypeInv'
  BY <1>v, <1>4, RuntimeTypeStep DEF RuntimeTurn, SysTypeInv
<1>5. CASE UNCHANGED sysVars
  BY <1>v, <1>r, <1>5 DEF sysVars, SysTypeInv
<1> QED
  BY <1>1, <1>2, <1>3, <1>4, <1>5 DEF SysNext

LEMMA SysStarts == SysInit => Init /\ SysTypeInv /\ AskedInv
<1> SUFFICES ASSUME SysInit
             PROVE  SysTypeInv /\ AskedInv
  BY DEF SysInit
<1>1. VMTypeOK /\ JobInv
  BY RetryAssumption DEF SysInit, VMInit, VMTypeOK, VMState, JobInv, NoJob
<1>2. RuntimeTypeOK
  BY DEF SysInit, RuntimeInit, RuntimeTypeOK, RuntimeState, CallState, Nothing
<1>3. \A v \in VMs : IsFiniteSet(components[v]) /\ job[v] = NoJob
  BY FS_EmptySet DEF SysInit, VMInit
<1>4. AskedInv
  BY DEF SysInit, Init, BrokerInit, AskedInv, Range
<1> QED
  BY <1>1, <1>2, <1>3, <1>4 DEF SysTypeInv

\* What is known of the broker and its clients, and of what they say.
SysInv == /\ TypeOK /\ RoutingInv /\ PlaceInv /\ NotesInv
          /\ SysTypeInv /\ AskedInv

LEMMA SysInvStarts == SysInit => SysInv
<1>1. Init => TypeOK /\ RoutingInv /\ PlaceInv
  BY TypeStarts, RoutingStarts, PlacesStart
<1>2. Init => NotesInv
  <2>1. NumberIn(<<>>, {"recv"}) = 0
    <3>1. Len(<<>>) + 1 = 1 /\ 1 \in Nat
      OBVIOUS
    <3> QED
      BY <3>1, NumberType DEF NumberIn
  <2> QED
    <3> SUFFICES ASSUME Init, NEW c \in Clients
                 PROVE  Len(outbox[c]) <= NumberIn(notes[c], {"recv"})
      BY DEF NotesInv
    <3>1. outbox[c] = <<>> /\ notes[c] = <<>>
      BY DEF Init, BrokerInit
    <3> QED
      BY <2>1, <3>1
<1> QED
  BY <1>1, <1>2, SysStarts DEF SysInv

LEMMA SysInvStep == SysInv /\ [SysNext]_sysVars => SysInv' /\ [Next]_vars
<1> SUFFICES ASSUME SysInv, [SysNext]_sysVars
             PROVE  SysInv' /\ [Next]_vars
  OBVIOUS
<1>1. [Next]_vars
  BY SysIsBroker DEF SysInv
<1>2. TypeOK' /\ RoutingInv' /\ NotesInv'
  BY <1>1, TypeStep, RoutingStep, NotesStep DEF SysInv
<1>3. PlaceInv'
  BY <1>1, <1>2, PlaceStep DEF SysInv
<1>4. SysTypeInv' /\ AskedInv'
  BY SysTypeStep, AskedStep DEF SysInv
<1> QED
  BY <1>1, <1>2, <1>3, <1>4 DEF SysInv

\* broker_client.cpp: the VMs and the runtimes together are clients of the broker as
\* BrokerClient describes them, so what is proved of those holds in the whole system.
THEOREM SystemIsBroker == SysSpec => Spec
<1>1. SysInit => Init
  BY DEF SysInit
<1> QED
  BY <1>1, SysInvStarts, SysInvStep, PTL DEF SysSpec, Spec

\* ailoy: every variable of the broker, of the VMs and of the runtimes keeps its type,
\* whatever the users ask for and whoever is stopped.
THEOREM SystemTypeCorrect == SysSpec => [](TypeOK /\ VMTypeOK /\ RuntimeTypeOK)
<1>1. SysInv => TypeOK /\ VMTypeOK /\ RuntimeTypeOK
  BY DEF SysInv, SysTypeInv
<1> QED
  BY <1>1, SysInvStarts, SysInvStep, PTL DEF SysSpec

-----------------------------------------------------------------------------
(* The signals of a VM that is being stopped.                              *)

Recvs(v) == NumberIn(notes[v], {"recv"})
Stops(v) == NumberIn(notes[v], {"stop"})
Even(v) == Recvs(v) = Len(outbox[v])

\* vm_stop has been called.
Told == rpc[Owner] \in {"vmjoin", "brokerjoin", "closed"}

\* The one stop a VM is told finds its signals and packets even, and only a VM that
\* took it for something else, and so never leaves its loop, has them odd.
SqueezeOf(v) ==
    /\ v # Machine \/ ~Told => Stops(v) = 0 /\ Even(v)
    /\ Stops(v) <= 1
    /\ Stops(v) = 1 => Even(v)
    /\ vpc[v] \in {"unsubscribe", "squeeze"} =>
          v = Machine /\ Told /\ Stops(v) = 0 /\ Even(v)

SqueezeInv == \A v \in VMs : SqueezeOf(v)

\* The numbers of recvs and of stops among the signals of a client, when one comes or goes.
LEMMA NotesNumbers ==
    ASSUME BrokerTypeOK, NEW v \in Clients
    PROVE  /\ Recvs(v) \in Nat /\ Stops(v) \in Nat /\ Len(outbox[v]) \in Nat
           /\ UNCHANGED notes[v] => Recvs(v)' = Recvs(v) /\ Stops(v)' = Stops(v)
           /\ notes'[v] = Append(notes[v], "recv") =>
                 Recvs(v)' = Recvs(v) + 1 /\ Stops(v)' = Stops(v)
           /\ notes'[v] = Append(notes[v], "stop") =>
                 Recvs(v)' = Recvs(v) /\ Stops(v)' = Stops(v) + 1
           /\ notes[v] # <<>> /\ notes'[v] = Tail(notes[v]) =>
                 /\ Recvs(v)' \in Nat /\ Stops(v)' \in Nat
                 /\ \/ /\ Head(notes[v]) = "recv"
                       /\ Recvs(v) = Recvs(v)' + 1 /\ Stops(v) = Stops(v)'
                    \/ /\ Head(notes[v]) = "stop"
                       /\ Recvs(v) = Recvs(v)' /\ Stops(v) = Stops(v)' + 1
           /\ notes'[v] = <<>> => Recvs(v)' = 0 /\ Stops(v)' = 0
<1> DEFINE R == {"recv"}
           S == {"stop"}
<1>1. notes[v] \in Seq({"recv", "stop"}) /\ outbox[v] \in Seq(Packet)
  BY DEF BrokerTypeOK
<1>2. /\ Recvs(v) = NumberIn(notes[v], R) /\ Recvs(v)' = NumberIn(notes'[v], R)
      /\ Stops(v) = NumberIn(notes[v], S) /\ Stops(v)' = NumberIn(notes'[v], S)
  BY DEF Recvs, Stops
<1>3. "recv" \in R /\ "recv" \notin S /\ "stop" \in S /\ "stop" \notin R
  OBVIOUS
<1> HIDE DEF R, S
<1>4. Recvs(v) \in Nat /\ Stops(v) \in Nat /\ Len(outbox[v]) \in Nat
  BY <1>1, <1>2, NumberInType
<1>6. ASSUME notes[v] # <<>>, notes'[v] = Tail(notes[v])
      PROVE  /\ Recvs(v)' \in Nat /\ Stops(v)' \in Nat /\ Head(notes[v]) \in {"recv", "stop"}
             /\ Recvs(v) = Recvs(v)' + (IF Head(notes[v]) \in R THEN 1 ELSE 0)
             /\ Stops(v) = Stops(v)' + (IF Head(notes[v]) \in S THEN 1 ELSE 0)
  <2>1. notes'[v] \in Seq({"recv", "stop"}) /\ Head(notes[v]) \in {"recv", "stop"}
    BY <1>1, <1>6, QueueType
  <2>2. Recvs(v)' \in Nat /\ Stops(v)' \in Nat
    BY <1>2, <2>1, NumberInType
  <2> QED
    BY <1>1, <1>2, <1>6, <2>1, <2>2, NumberTail
<1>7. ASSUME notes'[v] = <<>>
      PROVE  Recvs(v)' = 0 /\ Stops(v)' = 0
  <2>1. Len(<<>>) + 1 = 1 /\ 1 \in Nat
    OBVIOUS
  <2>2. \A T : NumberIn(<<>>, T) = 0
    BY <2>1, NumberType DEF NumberIn
  <2> QED
    BY <1>2, <1>7, <2>2
<1>8. UNCHANGED notes[v] => Recvs(v)' = Recvs(v) /\ Stops(v)' = Stops(v)
  BY <1>2
<1>9. ASSUME notes'[v] = Append(notes[v], "recv")
      PROVE  Recvs(v)' = Recvs(v) + 1 /\ Stops(v)' = Stops(v) + 0
  <2>1. /\ Recvs(v)' = Recvs(v) + (IF "recv" \in R THEN 1 ELSE 0)
        /\ Stops(v)' = Stops(v) + (IF "recv" \in S THEN 1 ELSE 0)
    BY <1>1, <1>2, <1>9, NumberAppend
  <2> QED
    BY <1>3, <1>4, <2>1
<1>10. ASSUME notes'[v] = Append(notes[v], "stop")
      PROVE  Recvs(v)' = Recvs(v) + 0 /\ Stops(v)' = Stops(v) + 1
  <2>1. /\ Recvs(v)' = Recvs(v) + (IF "stop" \in R THEN 1 ELSE 0)
        /\ Stops(v)' = Stops(v) + (IF "stop" \in S THEN 1 ELSE 0)
    BY <1>1, <1>2, <1>10, NumberAppend
  <2> QED
    BY <1>3, <1>4, <2>1
<1>11. ASSUME notes[v] # <<>>, notes'[v] = Tail(notes[v])
       PROVE  /\ Recvs(v)' \in Nat /\ Stops(v)' \in Nat
              /\ \/ /\ Head(notes[v]) = "recv"
                    /\ Recvs(v) = Recvs(v)' + 1 /\ Stops(v) = Stops(v)'
                 \/ /\ Head(notes[v]) = "stop"
                    /\ Recvs(v) = Recvs(v)' /\ Stops(v) = Stops(v)' + 1
  BY <1>3, <1>4, <1>6, <1>11
<1> QED
  BY <1>4, <1>7, <1>8, <1>9, <1>10, <1>11

\* What the broker, or another client, does to the boxes of a VM.
LEMMA SqueezeFrame ==
    ASSUME BrokerTypeOK, NEW v \in VMs, SqueezeOf(v),
           \/ UNCHANGED <<notes[v], outbox[v]>>
           \/ \E p : /\ notes'[v] = Append(notes[v], "recv")
                     /\ outbox'[v] = Append(outbox[v], p),
           Told' = Told,
           vpc'[v] = vpc[v] \/ vpc'[v] \notin {"unsubscribe", "squeeze"}
             \/ vpc[v] = "unsubscribe"
    PROVE  SqueezeOf(v)'
<1>1. v \in Clients /\ outbox[v] \in Seq(Packet)
  BY VMAssumption DEF BrokerTypeOK
<1>2. CASE UNCHANGED <<notes[v], outbox[v]>>
  <2>1. Recvs(v)' = Recvs(v) /\ Stops(v)' = Stops(v) /\ Len(outbox'[v]) = Len(outbox[v])
    BY <1>1, <1>2, NotesNumbers
  <2> QED
    BY <2>1 DEF SqueezeOf, Even
<1>3. ASSUME NEW p, notes'[v] = Append(notes[v], "recv"), outbox'[v] = Append(outbox[v], p)
      PROVE  SqueezeOf(v)'
  <2>1. Recvs(v)' = Recvs(v) + 1 /\ Stops(v)' = Stops(v)
        /\ Len(outbox'[v]) = Len(outbox[v]) + 1
    BY <1>1, <1>3, NotesNumbers
  <2> QED
    BY <2>1 DEF SqueezeOf, Even
<1> QED
  BY <1>2, <1>3

\* A client leaves the boxes of the others alone, and the broker only adds to them.
LEMMA BoxesApart ==
    ASSUME TypeOK, NEW w \in Clients
    PROVE  /\ \A c \in Clients : c # w /\ ClientStep(c) => UNCHANGED <<notes[w], outbox[w]>>
           /\ BrokerAct =>
                 \/ UNCHANGED <<notes[w], outbox[w]>>
                 \/ \E p : /\ notes'[w] = Append(notes[w], "recv")
                           /\ outbox'[w] = Append(outbox[w], p)
<1>t. /\ notes \in [Clients -> Seq({"recv", "stop"})] /\ outbox \in [Clients -> Seq(Packet)]
  BY DEF TypeOK, BrokerTypeOK
<1>1. ASSUME NEW c \in Clients, c # w, ClientStep(c)
      PROVE  UNCHANGED <<notes[w], outbox[w]>>
  BY <1>t, <1>1
  DEF ClientStep, Connect, Dial, SendRequest, SendReply, Listen, Stop, TakeStop, Close,
      Hangup, clientVars
<1> DEFINE Added == \/ UNCHANGED <<notes[w], outbox[w]>>
                    \/ \E p : /\ notes'[w] = Append(notes[w], "recv")
                              /\ outbox'[w] = Append(outbox[w], p)
<1>2. ASSUME NEW c, NEW p, Deliver(c, p)
      PROVE  Added
  <2>1. \/ outbox' = outbox /\ notes' = notes
        \/ /\ outbox' = [outbox EXCEPT ![c] = Append(@, p)]
           /\ notes' = [notes EXCEPT ![c] = Append(@, "recv")]
    BY <1>2 DEF Deliver
  <2>2. \/ UNCHANGED <<notes[w], outbox[w]>>
        \/ notes'[w] = Append(notes[w], "recv") /\ outbox'[w] = Append(outbox[w], p)
    BY <1>t, <2>1
  <2> QED
    BY <2>2
<1>3. ASSUME UNCHANGED <<outbox, notes>>
      PROVE  Added
  <2>1. UNCHANGED <<notes[w], outbox[w]>>
    BY <1>3
  <2> QED
    BY <2>1
<1> HIDE DEF Added
<1>4. ASSUME NEW c \in Clients, HandleRecv(c)
      PROVE  Added
  BY <1>2, <1>3, <1>4
  DEF HandleRecv, IgnoreRecv, clientVars, HandleConnect, HandleDisconnect,
      HandleSubscribe, HandleUnsubscribe, HandleExecute, HandleRespondExecute
<1>5. Accept \/ Register \/ Stopped => Added
  BY <1>3 DEF Accept, Register, Stopped, clientVars
<1>6. ASSUME BrokerAct
      PROVE  Added
  <2>1. BrokerStep
    BY <1>6 DEF BrokerAct
  <2> QED
    BY <1>4, <1>5, <2>1 DEF BrokerStep
<1> QED
  BY <1>1, <1>6 DEF Added

\* A VM takes a packet and its signal.
LEMMA SqueezeListens ==
    ASSUME BrokerTypeOK, NEW v \in VMs, SqueezeOf(v), Listen(v), Told' = Told,
           \/ vpc'[v] \notin {"unsubscribe", "squeeze"}
           \/ vpc'[v] = vpc[v]
    PROVE  SqueezeOf(v)'
<1>1. v \in Clients /\ outbox \in [Clients -> Seq(Packet)] /\ outbox[v] \in Seq(Packet)
      /\ notes \in [Clients -> Seq({"recv", "stop"})]
  BY VMAssumption DEF BrokerTypeOK
<1>2. /\ notes[v] # <<>> /\ notes'[v] = Tail(notes[v])
      /\ outbox'[v] = IF outbox[v] = <<>> THEN <<>> ELSE Tail(outbox[v])
  BY <1>1 DEF Listen
<1>3. /\ Len(outbox[v]) \in Nat
      /\ Len(outbox'[v]) = IF Len(outbox[v]) = 0 THEN 0 ELSE Len(outbox[v]) - 1
  BY <1>1, <1>2
<1>4. /\ Recvs(v) \in Nat /\ Stops(v) \in Nat /\ Recvs(v)' \in Nat /\ Stops(v)' \in Nat
      /\ \/ Recvs(v) = Recvs(v)' + 1 /\ Stops(v) = Stops(v)'
         \/ Recvs(v) = Recvs(v)' /\ Stops(v) = Stops(v)' + 1
  BY <1>1, <1>2, NotesNumbers
<1>5. Stops(v)' <= 1 /\ (Stops(v)' = 1 => Even(v)')
  <2>1. Stops(v) <= 1 /\ (Stops(v) = 1 => Recvs(v) = Len(outbox[v]))
    BY DEF SqueezeOf, Even
  <2> QED
    BY <1>3, <1>4, <2>1 DEF Even
<1>6. Stops(v) = 0 /\ Even(v) => Stops(v)' = 0 /\ Even(v)'
  BY <1>3, <1>4 DEF Even
<1> QED
  BY <1>5, <1>6 DEF SqueezeOf

\* It takes a stop for what it is, which tells it that its boxes are even.
LEMMA SqueezeStops ==
    ASSUME BrokerTypeOK, NEW v \in VMs, SqueezeOf(v), TakeStop(v), Told' = Told
    PROVE  SqueezeOf(v)'
<1>1. v \in Clients /\ notes \in [Clients -> Seq({"recv", "stop"})]
  BY VMAssumption DEF BrokerTypeOK
<1>2. notes[v] # <<>> /\ Head(notes[v]) = "stop" /\ notes'[v] = Tail(notes[v])
      /\ outbox' = outbox
  BY <1>1 DEF TakeStop
<1>3. /\ Recvs(v) \in Nat /\ Stops(v) \in Nat /\ Recvs(v)' \in Nat /\ Stops(v)' \in Nat
      /\ Recvs(v) = Recvs(v)' /\ Stops(v) = Stops(v)' + 1
  BY <1>1, <1>2, NotesNumbers
<1>4. Stops(v) = 1 /\ Even(v) /\ v = Machine /\ Told
  BY <1>3 DEF SqueezeOf
<1>5. Stops(v)' = 0 /\ Even(v)'
  BY <1>2, <1>3, <1>4 DEF Even
<1> QED
  BY <1>4, <1>5 DEF SqueezeOf

LEMMA SqueezeVM ==
    ASSUME TypeOK, SysTypeInv, NEW v \in VMs, SqueezeOf(v), VMStep(v), Told' = Told
    PROVE  SqueezeOf(v)'
<1>t. /\ BrokerTypeOK /\ v \in Clients /\ vpc \in [VMs -> VMState]
      /\ notes \in [Clients -> Seq({"recv", "stop"})] /\ outbox \in [Clients -> Seq(Packet)]
  BY VMAssumption DEF TypeOK, BrokerTypeOK, SysTypeInv, VMTypeOK
<1>u. ASSUME UNCHANGED <<notes, outbox>>,
             \/ vpc'[v] = vpc[v]
             \/ vpc'[v] \notin {"unsubscribe", "squeeze"}
             \/ vpc[v] = "unsubscribe"
      PROVE  SqueezeOf(v)'
  BY <1>t, <1>u, SqueezeFrame
<1>g. ASSUME NEW l, Goto(v, l)
      PROVE  vpc'[v] = l
  BY <1>t, <1>g DEF Goto
<1>1. CASE VMStart(v)
  <2>1. UNCHANGED <<notes, outbox>>
    BY <1>1 DEF VMStart, Connect, Dial
  <2>2. vpc'[v] \in {"connect", "failed"}
    BY <1>1, <1>g DEF VMStart
  <2> QED
    BY <1>u, <2>1, <2>2
<1>2. CASE VMSendConnect(v)
  <2>1. UNCHANGED <<notes, outbox>>
    BY <1>2 DEF VMSendConnect, SendRequest, clientVars
  <2>2. vpc'[v] \in {"handshake", "throw"}
    BY <1>2, <1>g DEF VMSendConnect
  <2> QED
    BY <1>u, <2>1, <2>2
<1>3. CASE VMConnected(v)
  <2>1. vpc'[v] \in {"import", "throw"}
    BY <1>3, <1>g DEF VMConnected
  <2> QED
    BY <1>t, <1>3, <2>1, SqueezeListens DEF VMConnected
<1>4. CASE VMTimeout(v)
  BY <1>u, <1>g, <1>4 DEF VMTimeout, vars, brokerVars, clientVars
<1>5. CASE VMSend(v)
  <2>1. UNCHANGED <<notes, outbox>>
    BY <1>5 DEF VMSend, SendRequest, clientVars
  <2>2. vpc'[v] \in {"throw", vpc[v]}
    BY <1>5, <1>g DEF VMSend
  <2> QED
    BY <1>u, <2>1, <2>2
<1>6. CASE VMSent(v)
  BY <1>u, <1>g, <1>6 DEF VMSent, vars, brokerVars, clientVars
<1>7. CASE VMNoContents(v) \/ VMRespond(v)
  BY <1>t, <1>7, SqueezeListens DEF VMNoContents, VMRespond, VMReceive, vmVars
<1>8. CASE \/ handle_call_function(v) \/ handle_define_component(v)
           \/ handle_delete_component(v) \/ handle_call_method(v)
  <2>1. \E i : VMExecute(v, i)
    BY <1>8 DEF handle_call_function, handle_define_component, handle_delete_component,
                handle_call_method
  <2>2. Listen(v) /\ vpc'[v] = "handle"
    BY <1>g, <2>1 DEF VMExecute, VMReceive
  <2> QED
    BY <1>t, <2>2, SqueezeListens
<1>9. CASE VMReply(v)
  <2>1. UNCHANGED <<notes, outbox>>
    BY <1>9 DEF VMReply, SendReply, clientVars
  <2>2. vpc'[v] \in {"loop", vpc[v]}
    BY <1>9, <1>g DEF VMReply
  <2> QED
    BY <1>u, <2>1, <2>2
<1>10. CASE VMStop(v)
  BY <1>t, <1>10, SqueezeStops DEF VMStop
<1>11. CASE VMSqueeze(v)
  BY <1>t, <1>11, SqueezeListens, SqueezeStops DEF VMSqueeze
<1>12. CASE VMSqueezeTimeout(v)
  BY <1>u, <1>12 DEF VMSqueezeTimeout, vars, brokerVars, clientVars
<1>13. CASE VMSqueezed(v)
  BY <1>u, <1>g, <1>13 DEF VMSqueezed, vars, brokerVars, clientVars
<1>14. CASE VMSendDisconnect(v)
  <2>1. UNCHANGED <<notes, outbox>>
    BY <1>14 DEF VMSendDisconnect, SendRequest, clientVars
  <2>2. vpc'[v] \in {"goodbye", "throw"}
    BY <1>14, <1>g DEF VMSendDisconnect
  <2> QED
    BY <1>u, <2>1, <2>2
<1>15. CASE VMGoodbye(v)
  BY <1>t, <1>g, <1>15, SqueezeListens DEF VMGoodbye
<1>16. CASE VMReturn(v) \/ VMThrow(v)
  <2>1. notes'[v] = <<>> /\ outbox'[v] = <<>>
    BY <1>t, <1>16 DEF VMReturn, VMThrow, Close, Hangup
  <2>2. vpc'[v] \in {"exited", "failed"}
    BY <1>g, <1>16 DEF VMReturn, VMThrow
  <2>3. Recvs(v)' = 0 /\ Stops(v)' = 0 /\ Len(outbox'[v]) = 0
    BY <1>t, <2>1, NotesNumbers
  <2> QED
    BY <2>2, <2>3 DEF SqueezeOf, Even
<1> QED
  BY <1>1, <1>2, <1>3, <1>4, <1>5, <1>6, <1>7, <1>8, <1>9, <1>10, <1>11, <1>12, <1>13,
     <1>14, <1>15, <1>16
  DEF VMStep

LEMMA SqueezeStep == SysInv /\ SqueezeInv /\ [SysNext]_sysVars => SqueezeInv'
<1> SUFFICES ASSUME SysInv, SqueezeInv, [SysNext]_sysVars, NEW w \in VMs
             PROVE  SqueezeOf(w)'
  BY DEF SqueezeInv
<1>t. /\ TypeOK /\ BrokerTypeOK /\ SysTypeInv /\ SqueezeOf(w) /\ w \in Clients
      /\ rpc \in [Runtimes -> RuntimeState] /\ Owner \in Runtimes
      /\ notes \in [Clients -> Seq({"recv", "stop"})] /\ outbox \in [Clients -> Seq(Packet)]
  BY VMAssumption, OwnerAssumption
  DEF SysInv, SqueezeInv, TypeOK, BrokerTypeOK, SysTypeInv, RuntimeTypeOK
<1>o. UNCHANGED rtVars => Told' = Told
  BY DEF rtVars, Told
<1>v. UNCHANGED vmVars => vpc'[w] = vpc[w]
  BY DEF vmVars
<1>1. CASE BrokerTurn
  BY <1>t, <1>o, <1>v, <1>1, BoxesApart, SqueezeFrame DEF BrokerTurn
<1>2. CASE RTStopVM
  <2>1. ~Told /\ Told' /\ UNCHANGED vmVars
    BY <1>t, <1>2 DEF RTStopVM, RTGoto, Told, vm_stop
  <2>2. Stops(w) = 0 /\ Even(w) /\ vpc[w] \notin {"unsubscribe", "squeeze"}
    BY <1>t, <2>1 DEF SqueezeOf
  <2>3. \/ UNCHANGED <<notes[w], outbox[w]>>
        \/ w = Machine /\ notes'[w] = Append(notes[w], "stop") /\ outbox' = outbox
    BY <1>t, <1>2 DEF RTStopVM, vm_stop, Stop, vars, brokerVars, clientVars
  <2>4. CASE UNCHANGED <<notes[w], outbox[w]>>
    <3>1. Stops(w)' = 0 /\ Even(w)'
      BY <1>t, <2>2, <2>4, NotesNumbers DEF Even
    <3> QED
      BY <1>v, <2>1, <2>2, <3>1 DEF SqueezeOf
  <2>5. CASE w = Machine /\ notes'[w] = Append(notes[w], "stop") /\ outbox' = outbox
    <3>1. Stops(w)' = 1 /\ Recvs(w)' = Recvs(w)
      BY <1>t, <2>2, <2>5, NotesNumbers
    <3>2. Even(w)'
      BY <2>2, <2>5, <3>1 DEF Even
    <3> QED
      BY <1>v, <2>1, <2>2, <2>5, <3>1, <3>2 DEF SqueezeOf
  <2> QED
    BY <2>3, <2>4, <2>5
<1>3. CASE RTJoinVM \/ RTJoinBroker
  <2>1. Told /\ Told' /\ UNCHANGED vmVars
    BY <1>t, <1>3 DEF RTJoinVM, RTJoinBroker, RTGoto, Told
  <2>2. UNCHANGED <<notes[w], outbox[w]>>
    BY <1>3 DEF RTJoinVM, RTJoinBroker, StopBroker, BrokerStop, vars, brokerVars, clientVars
  <2> QED
    BY <1>t, <1>v, <2>1, <2>2, SqueezeFrame
<1>4. ASSUME NEW v \in VMs, VMTurn(v)
      PROVE  SqueezeOf(w)'
  <2>1. CASE v = w
    BY <1>t, <1>o, <1>4, <2>1, SqueezeVM DEF VMTurn
  <2>2. CASE v # w
    <3>1. UNCHANGED <<notes[w], outbox[w]>>
      <4>1. ClientStep(v) \/ UNCHANGED vars
        BY <1>t, <1>4, VMIsClient DEF VMTurn
      <4> QED
        BY <1>t, <2>2, <4>1, BoxesApart, VMAssumption DEF vars, brokerVars, clientVars
    <3>2. vpc'[w] = vpc[w]
      <4>1. VMStep(v)
        BY <1>4 DEF VMTurn
      <4>2. UNCHANGED vpc \/ \E l : Goto(v, l)
        <5>1. CASE \/ VMStart(v) \/ VMSendConnect(v) \/ VMConnected(v) \/ VMTimeout(v)
                   \/ VMSend(v) \/ VMSent(v)
          BY <5>1 DEF VMStart, VMSendConnect, VMConnected, VMTimeout, VMSend, VMSent
        <5>2. CASE \/ VMNoContents(v) \/ VMRespond(v) \/ handle_call_function(v)
                   \/ handle_define_component(v) \/ handle_delete_component(v)
                   \/ handle_call_method(v)
          BY <5>2
          DEF VMNoContents, VMRespond, handle_call_function, handle_define_component,
              handle_delete_component, handle_call_method, VMExecute, vmVars
        <5>3. CASE \/ VMReply(v) \/ VMStop(v) \/ VMSqueeze(v) \/ VMSqueezeTimeout(v)
                   \/ VMSqueezed(v)
          BY <5>3 DEF VMReply, VMStop, VMSqueeze, VMSqueezeTimeout, VMSqueezed
        <5>4. CASE VMSendDisconnect(v) \/ VMGoodbye(v) \/ VMReturn(v) \/ VMThrow(v)
          BY <5>4 DEF VMSendDisconnect, VMGoodbye, VMReturn, VMThrow
        <5> QED
          BY <4>1, <5>1, <5>2, <5>3, <5>4 DEF VMStep
      <4> QED
        BY <1>t, <2>2, <4>2 DEF Goto, SysTypeInv, VMTypeOK
    <3> QED
      BY <1>t, <1>o, <1>4, <3>1, <3>2, SqueezeFrame DEF VMTurn
  <2> QED
    BY <2>1, <2>2
<1>5. ASSUME NEW r \in Runtimes, RuntimeTurn(r)
      PROVE  SqueezeOf(w)'
  <2>1. r \in Clients /\ r # w
    BY RuntimeAssumption, VMAssumption
  <2>2. UNCHANGED <<notes[w], outbox[w]>>
    <3>1. ClientStep(r) \/ UNCHANGED vars
      BY <1>5, RuntimeIsClient DEF RuntimeTurn
    <3> QED
      BY <1>t, <2>1, <3>1, BoxesApart DEF vars, brokerVars, clientVars
  <2>3. Told' = Told
    BY <1>t, <1>5
    DEF RuntimeTurn, RuntimeStep, RTConnect, RTSendConnect, RTConnected, RTConnectTimeout,
        RTCall, RTListen, RTTake, RTStop, RTDisconnected, RTGoto, Told
  <2> QED
    BY <1>t, <1>v, <1>5, <2>2, <2>3, SqueezeFrame DEF RuntimeTurn
<1>6. CASE UNCHANGED sysVars
  <2>1. UNCHANGED rtVars /\ UNCHANGED vmVars /\ UNCHANGED <<notes[w], outbox[w]>>
    BY <1>6 DEF sysVars, vars, brokerVars, clientVars
  <2> QED
    BY <1>t, <1>o, <1>v, <2>1, SqueezeFrame
<1> QED
  BY <1>1, <1>2, <1>3, <1>4, <1>5, <1>6 DEF SysNext, stop_threads

\* vm.cpp:215-250: in the squeeze loop of a VM, for any number of VMs and runtimes, a
\* recv signal has its packet.
THEOREM SystemSound == SysSpec => []SystemIsSound
<1>1. SysInit => SqueezeInv
  <2> SUFFICES ASSUME SysInit, NEW v \in VMs
               PROVE  SqueezeOf(v)
    BY DEF SqueezeInv
  <2>1. notes[v] = <<>> /\ outbox[v] = <<>> /\ vpc[v] = "off"
    BY VMAssumption DEF SysInit, Init, BrokerInit, VMInit
  <2>2. \A T : NumberIn(<<>>, T) = 0
    <3>1. Len(<<>>) + 1 = 1 /\ 1 \in Nat
      OBVIOUS
    <3> QED
      BY <3>1, NumberType DEF NumberIn
  <2>3. Stops(v) = 0 /\ Even(v)
    BY <2>1, <2>2 DEF Stops, Even, Recvs
  <2> QED
    BY <2>1, <2>3 DEF SqueezeOf
<1>2. SysInv /\ SqueezeInv => SystemIsSound
  <2> SUFFICES ASSUME SysInv, SqueezeInv, NEW v \in VMs,
                      vpc[v] = "squeeze", notes[v] # <<>>, Head(notes[v]) = "recv"
               PROVE  outbox[v] # <<>>
    BY DEF SystemIsSound, SysInv, SysTypeInv
  <2>1. BrokerTypeOK /\ v \in Clients /\ notes[v] \in Seq({"recv", "stop"})
    BY VMAssumption DEF SysInv, TypeOK, BrokerTypeOK
  <2>2. Recvs(v) = Len(outbox[v])
    BY DEF SqueezeInv, SqueezeOf, Even
  <2>3. Recvs(v) = NumberIn(Tail(notes[v]), {"recv"}) + 1
    BY <2>1, NotesChange DEF Recvs
  <2>4. NumberIn(Tail(notes[v]), {"recv"}) \in Nat
    <3>1. Tail(notes[v]) \in Seq({"recv", "stop"})
      BY <2>1
    <3> QED
      BY <3>1, NumberInType
  <2>5. Len(outbox[v]) # 0
    BY <2>2, <2>3, <2>4
  <2> QED
    BY <2>5
<1> QED
  BY <1>1, <1>2, SysInvStarts, SysInvStep, SqueezeStep, PTL DEF SysSpec

-----------------------------------------------------------------------------
(* The numbers of a stream rise.                                           *)

\* The elements of S in a queue carry rising numbers.
Rising(q, S) ==
    \A i, j \in DOMAIN q : i < j /\ q[i] \in S /\ q[j] \in S => q[i].seq < q[j].seq

\* The elements of the stream of tx that wait for its issuer, and those that have yet to
\* be passed on by the broker.
Waiting(tx) == {p \in Elements(tx) : p \in Range(outbox[Issuer[tx]])}
OnWay(tx) == {p \in Elements(tx) : \E d \in Clients : p \in Range(inbox[d])}

\* Whatever is lost, what waits is in order, what is on the way comes later, and what the
\* worker has yet to say later still.
RiseOf(tx) ==
    /\ Rising(outbox[Issuer[tx]], Elements(tx))
    /\ \A d \in Clients : Rising(inbox[d], Elements(tx))
    /\ \A p \in Waiting(tx), q \in OnWay(tx) : p.seq < q.seq
    /\ worker[tx] # NoClient => \A p \in Waiting(tx) \cup OnWay(tx) : p.seq < next[tx]

RiseInv == \A tx \in TxIds : RiseOf(tx)

\* What a step does to the stream of tx: nothing is new, or it begins, or its worker
\* has added to it.
Stays(tx) ==
    /\ Waiting(tx)' \cup OnWay(tx)' \subseteq Waiting(tx) \cup OnWay(tx)
    /\ next'[tx] = next[tx] /\ worker'[tx] \in {worker[tx], NoClient}
    /\ got'[tx] \in {got[tx], got[tx] + 1}
Begins(tx) == got[tx] = 0 /\ got'[tx] = 0 /\ next'[tx] = 0
Grows(tx) ==
    /\ worker[tx] # NoClient /\ got'[tx] = got[tx] /\ next'[tx] = next[tx] + 1
    /\ \A p \in Waiting(tx)' \cup OnWay(tx)' : p \in Waiting(tx) \cup OnWay(tx) \/ p.seq = next[tx]

LEMMA ElementFields ==
    ASSUME NEW tx, NEW p \in Elements(tx)
    PROVE  p.seq \in Nat /\ p.fin \in BOOLEAN /\ p.ok \in BOOLEAN /\ p.tx = tx
<1>1. p \in Reply /\ p.tx = tx
  BY DEF Elements, Packet, Request, RequestType
<1> QED
  BY <1>1 DEF Reply

\* Rising numbers in a queue that grows or shrinks.
LEMMA RisingAppend ==
    ASSUME NEW q \in Seq(Packet), NEW S, Rising(q, S), NEW x,
           x \in S => \A y \in Range(q) : y \in S => y.seq < x.seq
    PROVE  Rising(Append(q, x), S)
<1>1. /\ Len(q) \in Nat /\ DOMAIN q = 1 .. Len(q)
      /\ DOMAIN Append(q, x) = 1 .. Len(q) + 1
      /\ \A i \in 1 .. Len(q) : Append(q, x)[i] = q[i] /\ q[i] \in Range(q)
      /\ Append(q, x)[Len(q) + 1] = x
  BY DEF Range
<1> SUFFICES ASSUME NEW i \in 1 .. Len(q) + 1, NEW j \in 1 .. Len(q) + 1, i < j,
                    Append(q, x)[i] \in S, Append(q, x)[j] \in S
             PROVE  Append(q, x)[i].seq < Append(q, x)[j].seq
  BY <1>1 DEF Rising
<1>2. i \in 1 .. Len(q)
  BY <1>1
<1>3. CASE j = Len(q) + 1
  BY <1>1, <1>2, <1>3
<1>4. CASE j # Len(q) + 1
  <2>1. j \in 1 .. Len(q)
    BY <1>1, <1>4
  <2> QED
    BY <1>1, <1>2, <2>1 DEF Rising
<1> QED
  BY <1>3, <1>4

LEMMA RisingTail ==
    ASSUME NEW q \in Seq(Packet), NEW S, q # <<>>, Rising(q, S)
    PROVE  /\ Rising(Tail(q), S)
           /\ Head(q) \in S => \A y \in Range(Tail(q)) : y \in S => Head(q).seq < y.seq
<1>1. /\ Len(q) \in Nat \ {0} /\ DOMAIN q = 1 .. Len(q) /\ Head(q) = q[1]
      /\ DOMAIN Tail(q) = 1 .. Len(q) - 1
      /\ \A i \in 1 .. Len(q) - 1 : Tail(q)[i] = q[i + 1] /\ i + 1 \in 1 .. Len(q) /\ 1 < i + 1
  OBVIOUS
<1>2. Rising(Tail(q), S)
  <2> SUFFICES ASSUME NEW i \in 1 .. Len(q) - 1, NEW j \in 1 .. Len(q) - 1, i < j,
                      Tail(q)[i] \in S, Tail(q)[j] \in S
               PROVE  Tail(q)[i].seq < Tail(q)[j].seq
    BY <1>1 DEF Rising
  <2>1. i + 1 < j + 1
    OBVIOUS
  <2> QED
    BY <1>1, <2>1 DEF Rising
<1>3. ASSUME Head(q) \in S, NEW y \in Range(Tail(q)), y \in S
      PROVE  Head(q).seq < y.seq
  <2>1. PICK i \in 1 .. Len(q) - 1 : y = Tail(q)[i]
    BY <1>1 DEF Range
  <2>2. y = q[i + 1] /\ 1 \in 1 .. Len(q)
    BY <1>1, <2>1
  <2> QED
    BY <1>1, <1>3, <2>2 DEF Rising
<1> QED
  BY <1>2, <1>3

LEMMA RisingBeside ==
    ASSUME NEW q \in Seq(Packet), NEW r, NEW S, Rising(q, S), Beside(q, r, S)
    PROVE  Rising(r, S) /\ \A y \in Range(r) : y \in S => y \in Range(q)
<1>1. CASE r = q
  BY <1>1
<1>2. ASSUME NEW x, x \notin S, r = Append(q, x)
      PROVE  Rising(r, S) /\ \A y \in Range(r) : y \in S => y \in Range(q)
  <2>1. Rising(r, S)
    BY <1>2, RisingAppend
  <2>2. Range(r) = Range(q) \cup {x}
    BY <1>2, QueueRange
  <2> QED
    BY <1>2, <2>1, <2>2
<1>3. CASE q # <<>> /\ r = Tail(q)
  BY <1>3, RisingTail, QueueRange
<1> QED
  BY <1>1, <1>2, <1>3 DEF Beside

LEMMA RisingNone ==
    ASSUME NEW q, NEW S, \A i \in DOMAIN q : q[i] \notin S
    PROVE  Rising(q, S) /\ \A y \in Range(q) : y \notin S
  BY DEF Rising, Range

\* The stream of tx after a step, in terms of its queues.
LEMMA RiseAfter ==
    ASSUME NEW tx \in TxIds, NEW b, b = Issuer[tx], NEW S, S = Elements(tx),
           Rising(outbox'[b], S), \A d \in Clients : Rising(inbox'[d], S),
           \A d \in Clients : \A p \in Range(outbox'[b]), q \in Range(inbox'[d]) :
              p \in S /\ q \in S => p.seq < q.seq,
           worker'[tx] # NoClient =>
              /\ \A p \in Range(outbox'[b]) : p \in S => p.seq < next'[tx]
              /\ \A d \in Clients : \A q \in Range(inbox'[d]) : q \in S => q.seq < next'[tx]
    PROVE  RiseOf(tx)'
<1>1. Elements(tx)' = S /\ (Issuer[tx])' = b
  BY DEF Elements
<1>2. Waiting(tx)' = {p \in S : p \in Range(outbox'[b])}
      /\ OnWay(tx)' = {p \in S : \E d \in Clients : p \in Range(inbox'[d])}
  BY <1>1 DEF Waiting, OnWay, Range
<1>3. /\ Rising(outbox[Issuer[tx]], Elements(tx))' = Rising(outbox'[b], S)
      /\ \A d \in Clients : Rising(inbox[d], Elements(tx))' = Rising(inbox'[d], S)
  BY <1>1 DEF Rising
<1>4. (\A p \in Waiting(tx), q \in OnWay(tx) : p.seq < q.seq)'
  BY <1>2
<1>5. (worker[tx] # NoClient => \A p \in Waiting(tx) \cup OnWay(tx) : p.seq < next[tx])'
  BY <1>2
<1> QED
  BY <1>3, <1>4, <1>5 DEF RiseOf

\* What RiseOf says of the queues.
LEMMA RiseNow ==
    ASSUME NEW tx \in TxIds, RiseOf(tx), NEW b, b = Issuer[tx], NEW S, S = Elements(tx)
    PROVE  /\ Rising(outbox[b], S) /\ \A d \in Clients : Rising(inbox[d], S)
           /\ \A d \in Clients : \A p \in Range(outbox[b]), q \in Range(inbox[d]) :
                 p \in S /\ q \in S => p.seq < q.seq
           /\ worker[tx] # NoClient =>
                 /\ \A p \in Range(outbox[b]) : p \in S => p.seq < next[tx]
                 /\ \A d \in Clients : \A q \in Range(inbox[d]) : q \in S => q.seq < next[tx]
           /\ \A p : p \in Waiting(tx) <=> p \in S /\ p \in Range(outbox[b])
           /\ \A p : p \in OnWay(tx) <=> p \in S /\ \E d \in Clients : p \in Range(inbox[d])
           /\ \A p : p \in Waiting(tx)' <=> p \in S /\ p \in Range(outbox'[b])
           /\ \A p : p \in OnWay(tx)' <=> p \in S /\ \E d \in Clients : p \in Range(inbox'[d])
<1>1. Elements(tx)' = S
  BY DEF Elements
<1> QED
  BY <1>1 DEF RiseOf, Waiting, OnWay, Range

\* A stream whose elements are not touched, or dropped with their box.
LEMMA RiseKept ==
    ASSUME TypeOK, NEW tx \in TxIds, RiseOf(tx),
           next'[tx] = next[tx], got'[tx] = got[tx],
           worker'[tx] \in {worker[tx], NoClient},
           \/ outbox'[Issuer[tx]] = <<>>
           \/ Beside(outbox[Issuer[tx]], outbox'[Issuer[tx]], Elements(tx)),
           \A d \in Clients : Beside(inbox[d], inbox'[d], Elements(tx))
    PROVE  RiseOf(tx)' /\ Stays(tx)
<1> DEFINE b == Issuer[tx]
           S == Elements(tx)
<1>t. /\ b \in Clients /\ outbox[b] \in Seq(Packet)
      /\ \A d \in Clients : inbox[d] \in Seq(Packet)
  BY IssuerAssumption DEF TypeOK, BrokerTypeOK
<1>1. Rising(outbox'[b], S) /\ \A y \in Range(outbox'[b]) : y \in S => y \in Range(outbox[b])
  <2>1. CASE outbox'[b] = <<>>
    <3>1. \A i \in DOMAIN outbox'[b] : outbox'[b][i] \notin S
      BY <2>1
    <3> HIDE DEF S
    <3> QED
      BY <3>1, RisingNone
  <2>2. CASE Beside(outbox[b], outbox'[b], S)
    BY <1>t, <2>2, RisingBeside, RiseNow
  <2> QED
    BY <2>1, <2>2
<1>2. ASSUME NEW d \in Clients
      PROVE  Rising(inbox'[d], S) /\ \A y \in Range(inbox'[d]) : y \in S => y \in Range(inbox[d])
  BY <1>t, RisingBeside, RiseNow
<1>3. worker'[tx] # NoClient => worker[tx] # NoClient
  OBVIOUS
<1> HIDE DEF b, S
<1>4. RiseOf(tx)'
  <2>1. /\ \A d \in Clients : \A p \in Range(outbox'[b]), q \in Range(inbox'[d]) :
              p \in S /\ q \in S => p.seq < q.seq
        /\ worker'[tx] # NoClient =>
              /\ \A p \in Range(outbox'[b]) : p \in S => p.seq < next'[tx]
              /\ \A d \in Clients : \A q \in Range(inbox'[d]) : q \in S => q.seq < next'[tx]
    BY <1>1, <1>2, <1>3, RiseNow DEF b, S
  <2> QED
    BY <1>1, <1>2, <2>1, RiseAfter DEF b, S
<1>5. Stays(tx)
  <2>1. \A p : p \in Waiting(tx)' \cup OnWay(tx)' => p \in Waiting(tx) \cup OnWay(tx)
    BY <1>1, <1>2, RiseNow DEF b, S
  <2> QED
    BY <2>1 DEF Stays
<1> QED
  BY <1>4, <1>5

\* The issuer takes the first element that waits.
LEMMA RiseTaken ==
    ASSUME TypeOK, RepliesAreOwn, NEW c \in Clients, NEW tx \in TxIds, RiseOf(tx), Listen(c),
           outbox[c] # <<>>, Head(outbox[c]).tx = tx, Head(outbox[c]).ptype = "respond_execute"
    PROVE  /\ RiseOf(tx)' /\ Stays(tx) /\ c = Issuer[tx]
           /\ Head(outbox[c]) \in Waiting(tx)
           /\ \A q \in Waiting(tx)' \cup OnWay(tx)' : Head(outbox[c]).seq < q.seq
<1> DEFINE S == Elements(tx)
           p == Head(outbox[c])
<1>t. outbox \in [Clients -> Seq(Packet)] /\ got \in [TxIds -> Nat] /\ outbox[c] \in Seq(Packet)
  BY DEF TypeOK, BrokerTypeOK
<1>u. /\ UNCHANGED <<inbox, next, worker>> /\ outbox'[c] = Tail(outbox[c])
      /\ got'[tx] = got[tx] + 1
  BY <1>t DEF Listen
<1>1. p \in Packet /\ p \in Range(outbox[c])
  BY <1>t, QueueType, QueueRange
<1>2. Issuer[tx] = c /\ p \in S
  BY <1>1 DEF RepliesAreOwn, IsReply, Elements
<1> HIDE DEF S, p
<1>3. /\ Rising(outbox'[c], S) /\ \A y \in Range(outbox'[c]) : y \in S => p.seq < y.seq
      /\ \A y \in Range(outbox'[c]) : y \in Range(outbox[c])
  <2>1. Rising(outbox[c], S)
    BY <1>2, RiseNow DEF S
  <2> QED
    BY <1>t, <1>u, <1>2, <2>1, RisingTail, QueueRange DEF p
<1>4. RiseOf(tx)'
  <2>1. /\ \A d \in Clients : Rising(inbox'[d], S)
        /\ \A d \in Clients : \A y \in Range(outbox'[c]), q \in Range(inbox'[d]) :
              y \in S /\ q \in S => y.seq < q.seq
        /\ worker'[tx] # NoClient =>
              /\ \A y \in Range(outbox'[c]) : y \in S => y.seq < next'[tx]
              /\ \A d \in Clients : \A q \in Range(inbox'[d]) : q \in S => q.seq < next'[tx]
    BY <1>u, <1>2, <1>3, RiseNow DEF S
  <2> QED
    BY <1>2, <1>3, <2>1, RiseAfter DEF S
<1>5. /\ \A q : q \in Waiting(tx)' => q \in Waiting(tx) /\ p.seq < q.seq
      /\ \A q : q \in OnWay(tx)' => q \in OnWay(tx) /\ p.seq < q.seq
      /\ p \in Waiting(tx)
  BY <1>u, <1>1, <1>2, <1>3, RiseNow DEF S
<1> QED
  BY <1>u, <1>2, <1>4, <1>5 DEF Stays, p

\* Nothing of tx is left in the boxes.
LEMMA RiseNowhere ==
    ASSUME NEW tx \in TxIds, Nowhere(inbox', tx), Nowhere(outbox', tx)
    PROVE  RiseOf(tx)' /\ Waiting(tx)' = {} /\ OnWay(tx)' = {}
<1> DEFINE S == Elements(tx)
           b == Issuer[tx]
<1>1. b \in Clients
  BY IssuerAssumption
<1>2. \A d \in Clients : /\ \A i \in DOMAIN inbox'[d] : inbox'[d][i] \notin S
                         /\ \A i \in DOMAIN outbox'[d] : outbox'[d][i] \notin S
  BY DEF Nowhere, Elements
<1> HIDE DEF S, b
<1>3. \A d \in Clients : /\ Rising(inbox'[d], S) /\ \A y \in Range(inbox'[d]) : y \notin S
                         /\ Rising(outbox'[d], S) /\ \A y \in Range(outbox'[d]) : y \notin S
  BY <1>2, RisingNone
<1>4. RiseOf(tx)'
  BY <1>1, <1>3, RiseAfter DEF S, b
<1>5. Elements(tx)' = S
  BY DEF Elements, S
<1> QED
  BY <1>1, <1>3, <1>4, <1>5 DEF Waiting, OnWay, Range, b

\* A client takes an execute.
LEMMA RiseBegun ==
    ASSUME TypeOK, NEW c \in Clients, NEW tx \in TxIds, PlaceOf(tx), Listen(c),
           outbox[c] # <<>>, Head(outbox[c]).tx = tx, Head(outbox[c]).ptype = "execute"
    PROVE  RiseOf(tx)' /\ Begins(tx)
<1>t. outbox \in [Clients -> Seq(Packet)]
  BY DEF TypeOK, BrokerTypeOK
<1>u. UNCHANGED <<inbox, next, got>> /\ outbox' = [outbox EXCEPT ![c] = Tail(@)]
  BY DEF Listen
<1>1. 1 \in DOMAIN outbox[c] /\ outbox[c][1] = Head(outbox[c])
  BY <1>t, TableTail
<1>2. Idle(tx) /\ OnlyAt(outbox, c, 1, tx) /\ Nowhere(inbox, tx)
  BY <1>1 DEF PlaceOf, DeliveredInv, RequestType
<1>3. Nowhere(outbox', tx)
  BY <1>t, <1>u, <1>2, TakenLast
<1>4. Nowhere(inbox', tx)
  BY <1>u, <1>2
<1> QED
  BY <1>u, <1>2, <1>3, <1>4, RiseNowhere DEF Begins, Idle

\* An execute is refused.
LEMMA RiseRefused ==
    ASSUME TypeOK, RoutingInv, NEW tx \in TxIds, PlaceOf(tx),
           NEW c \in Clients, inbox[c] # <<>>,
           inbox' = [inbox EXCEPT ![c] = Tail(@)],
           Head(inbox[c]).ptype = "execute", Head(inbox[c]).tx = tx,
           Deliver(c, RespondExecute(tx, 0, TRUE, FALSE)), UNCHANGED peerVars
    PROVE  RiseOf(tx)' /\ Begins(tx)
<1> DEFINE p == Head(inbox[c])
           r == RespondExecute(tx, 0, TRUE, FALSE)
           S == Elements(tx)
<1>t. /\ inbox \in [Clients -> Seq(Packet)] /\ outbox \in [Clients -> Seq(Packet)]
  BY DEF TypeOK, BrokerTypeOK
<1>u. UNCHANGED <<next, got, worker>>
  BY DEF peerVars
<1>1. 1 \in DOMAIN inbox[c] /\ inbox[c][1] = p
  BY <1>t, TableTail
<1>2. Idle(tx) /\ OnlyAt(inbox, c, 1, tx) /\ Nowhere(outbox, tx)
  BY <1>1 DEF PlaceOf, SentInv, RequestType
<1>3. Issuer[tx] = c
  <2>1. p \in Range(inbox[c])
    BY <1>1 DEF Range
  <2> QED
    BY <2>1 DEF RoutingInv, RequestsAreOwn, RequestType
<1>4. Nowhere(inbox', tx)
  BY <1>t, <1>2, TakenLast
<1>5. \A d \in Clients : /\ \A i \in DOMAIN inbox'[d] : inbox'[d][i] \notin S
                         /\ \A i \in DOMAIN outbox[d] : outbox[d][i] \notin S
  BY <1>2, <1>4 DEF Nowhere, Elements
<1>6. outbox'[c] = outbox[c] \/ outbox'[c] = Append(outbox[c], r)
  BY <1>t DEF Deliver
<1> HIDE DEF S, r
<1>7. \A d \in Clients : /\ Rising(inbox'[d], S) /\ \A y \in Range(inbox'[d]) : y \notin S
                         /\ Rising(outbox[d], S) /\ \A y \in Range(outbox[d]) : y \notin S
  BY <1>5, RisingNone
<1>8. Rising(outbox'[c], S)
  <2>1. outbox[c] \in Seq(Packet) /\ Rising(outbox[c], S)
    BY <1>t, <1>7
  <2>2. Rising(Append(outbox[c], r), S)
    BY <1>7, <2>1, RisingAppend
  <2> QED
    BY <1>6, <2>1, <2>2
<1>9. worker'[tx] = NoClient
  BY <1>u, <1>2 DEF Idle
<1>10. RiseOf(tx)'
  BY <1>3, <1>7, <1>8, <1>9, RiseAfter DEF S
<1> QED
  BY <1>u, <1>2, <1>10 DEF Begins, Idle

\* The broker passes an element on: it comes behind what waits and before the others.
LEMMA RiseRelayed ==
    ASSUME TypeOK, NEW tx \in TxIds, PlaceOf(tx), RiseOf(tx),
           NEW c \in Clients, inbox[c] # <<>>,
           inbox' = [inbox EXCEPT ![c] = Tail(@)],
           Head(inbox[c]).ptype = "respond_execute", Head(inbox[c]).tx = tx,
           Deliver(Issuer[tx], Head(inbox[c])), UNCHANGED peerVars
    PROVE  RiseOf(tx)' /\ Stays(tx)
<1> DEFINE p == Head(inbox[c])
           b == Issuer[tx]
           S == Elements(tx)
<1>t. /\ inbox \in [Clients -> Seq(Packet)] /\ outbox \in [Clients -> Seq(Packet)]
      /\ b \in Clients /\ inbox[c] \in Seq(Packet) /\ outbox[b] \in Seq(Packet)
  BY IssuerAssumption DEF TypeOK, BrokerTypeOK
<1>u. UNCHANGED <<next, got, worker>>
  BY DEF peerVars
<1>1. 1 \in DOMAIN inbox[c] /\ inbox[c][1] = p
  BY <1>t, TableTail
<1>2. OnlyWith(inbox, c, tx)
  BY <1>1 DEF PlaceOf, SentInv, RequestType
<1>3. p \in S /\ p \in Range(inbox[c])
  <2>1. p \in Packet /\ p \in Range(inbox[c])
    BY <1>t, QueueType, QueueRange
  <2> QED
    BY <2>1 DEF Elements
<1>4. outbox'[b] = outbox[b] \/ outbox'[b] = Append(outbox[b], p)
  BY <1>t DEF Deliver
<1>5. \A d \in Clients : d # c => \A y \in Range(inbox[d]) : y \notin S
  BY <1>2 DEF OnlyWith, Elements, Range
<1>6. inbox'[c] = Tail(inbox[c]) /\ \A d \in Clients : d # c => inbox'[d] = inbox[d]
  BY <1>t
<1> HIDE DEF p, b, S
<1>7. /\ Rising(outbox[b], S) /\ \A d \in Clients : Rising(inbox[d], S)
      /\ \A d \in Clients : \A y \in Range(outbox[b]), q \in Range(inbox[d]) :
            y \in S /\ q \in S => y.seq < q.seq
      /\ worker[tx] # NoClient =>
            /\ \A y \in Range(outbox[b]) : y \in S => y.seq < next[tx]
            /\ \A d \in Clients : \A q \in Range(inbox[d]) : q \in S => q.seq < next[tx]
  BY RiseNow DEF b, S
<1>8. /\ \A d \in Clients : Rising(inbox'[d], S)
      /\ \A d \in Clients : \A y \in Range(inbox'[d]) : y \in Range(inbox[d])
      /\ \A d \in Clients : \A y \in Range(inbox'[d]) : y \in S => p.seq < y.seq
  <2>1. /\ Rising(Tail(inbox[c]), S)
        /\ \A y \in Range(Tail(inbox[c])) : y \in Range(inbox[c])
        /\ \A y \in Range(Tail(inbox[c])) : y \in S => p.seq < y.seq
    BY <1>t, <1>3, <1>7, RisingTail, QueueRange DEF p
  <2> QED
    BY <1>5, <1>6, <1>7, <2>1
<1>9. /\ Rising(outbox'[b], S)
      /\ \A y \in Range(outbox'[b]) : y \in Range(outbox[b]) \/ y = p
  <2>1. CASE outbox'[b] = outbox[b]
    BY <1>7, <2>1
  <2>2. CASE outbox'[b] = Append(outbox[b], p)
    <3>1. \A y \in Range(outbox[b]) : y \in S => y.seq < p.seq
      BY <1>3, <1>7
    <3>2. Rising(Append(outbox[b], p), S)
      BY <1>t, <1>7, <3>1, RisingAppend
    <3>3. Range(Append(outbox[b], p)) = Range(outbox[b]) \cup {p}
      BY <1>t, QueueRange
    <3> QED
      BY <2>2, <3>2, <3>3
  <2> QED
    BY <1>4, <2>1, <2>2
<1>10. RiseOf(tx)'
  <2>1. /\ \A d \in Clients : \A y \in Range(outbox'[b]), q \in Range(inbox'[d]) :
              y \in S /\ q \in S => y.seq < q.seq
        /\ worker'[tx] # NoClient =>
              /\ \A y \in Range(outbox'[b]) : y \in S => y.seq < next'[tx]
              /\ \A d \in Clients : \A q \in Range(inbox'[d]) : q \in S => q.seq < next'[tx]
    BY <1>u, <1>3, <1>7, <1>8, <1>9
  <2> QED
    BY <1>8, <1>9, <2>1, RiseAfter DEF b, S
<1>11. \A y : y \in Waiting(tx)' \cup OnWay(tx)' => y \in Waiting(tx) \cup OnWay(tx)
  BY <1>3, <1>8, <1>9, RiseNow DEF b, S
<1> QED
  BY <1>u, <1>10, <1>11 DEF Stays

\* The worker says something new.
LEMMA RiseReplied ==
    ASSUME TypeOK, TypeOK', NEW c \in Clients, NEW tx \in TxIds, RiseOf(tx),
           NEW fin \in BOOLEAN, NEW ok \in BOOLEAN, SendReply(c, tx, fin, ok)
    PROVE  RiseOf(tx)' /\ Grows(tx)
<1> DEFINE p == RespondExecute(tx, next[tx], fin, ok)
           b == Issuer[tx]
           S == Elements(tx)
<1>t. /\ inbox \in [Clients -> Seq(Packet)] /\ b \in Clients
      /\ worker \in [TxIds -> Clients \cup {NoClient}] /\ next \in [TxIds -> Nat]
      /\ inbox[c] \in Seq(Packet)
  BY IssuerAssumption DEF TypeOK, BrokerTypeOK
<1>u. /\ UNCHANGED <<outbox, got>> /\ worker[tx] # NoClient
      /\ next'[tx] = next[tx] + 1 /\ next[tx] \in Nat
  BY <1>t, ClientAssumption DEF SendReply, clientVars
<1>1. p.seq = next[tx]
  BY DEF RespondExecute
<1>2. \/ inbox' = inbox
      \/ inbox' = [inbox EXCEPT ![c] = Append(@, p)]
  <2> HIDE DEF p
  <2>1. Push(c, p)
    BY DEF SendReply, p
  <2> QED
    BY <2>1 DEF Push
<1>3. /\ inbox'[c] = inbox[c] \/ inbox'[c] = Append(inbox[c], p)
      /\ \A d \in Clients : d # c => inbox'[d] = inbox[d]
  BY <1>t, <1>2
<1> HIDE DEF p, b, S
<1>4. /\ Rising(outbox[b], S) /\ \A d \in Clients : Rising(inbox[d], S)
      /\ \A d \in Clients : \A y \in Range(outbox[b]), q \in Range(inbox[d]) :
            y \in S /\ q \in S => y.seq < q.seq
      /\ \A y \in Range(outbox[b]) : y \in S => y.seq < next[tx]
      /\ \A d \in Clients : \A q \in Range(inbox[d]) : q \in S => q.seq < next[tx]
  BY <1>u, RiseNow DEF b, S
<1>5. Rising(inbox'[c], S) /\ \A y \in Range(inbox'[c]) : y \in Range(inbox[c]) \/ y = p
  <2>1. CASE inbox'[c] = inbox[c]
    BY <1>4, <2>1
  <2>2. CASE inbox'[c] = Append(inbox[c], p)
    <3>1. Rising(Append(inbox[c], p), S)
      BY <1>t, <1>1, <1>4, RisingAppend
    <3>2. Range(Append(inbox[c], p)) = Range(inbox[c]) \cup {p}
      BY <1>t, QueueRange
    <3> QED
      BY <2>2, <3>1, <3>2
  <2> QED
    BY <1>3, <2>1, <2>2
<1>6. /\ \A d \in Clients : Rising(inbox'[d], S)
      /\ \A d \in Clients : \A y \in Range(inbox'[d]) : y \in Range(inbox[d]) \/ y = p
  BY <1>3, <1>4, <1>5
<1>n. \A y \in S : y.seq \in Nat
  BY ElementFields DEF S
<1>7. RiseOf(tx)'
  <2>1. \A d \in Clients : \A y \in Range(outbox[b]), q \in Range(inbox'[d]) :
              y \in S /\ q \in S => y.seq < q.seq
    BY <1>1, <1>4, <1>6
  <2>2. \A m \in Nat : m < next[tx] \/ m = next[tx] => m < next[tx] + 1
    BY <1>u
  <2>3. \A y \in Range(outbox[b]) : y \in S => y.seq < next'[tx]
    BY <1>u, <1>n, <1>4, <2>2
  <2>4. \A d \in Clients : \A q \in Range(inbox'[d]) : q \in S => q.seq < next'[tx]
    BY <1>u, <1>n, <1>1, <1>4, <1>6, <2>2
  <2>5. outbox' = outbox
    BY <1>u
  <2> QED
    BY <1>4, <1>6, <2>1, <2>3, <2>4, <2>5, RiseAfter DEF b, S
<1>8. \A y : y \in Waiting(tx)' \cup OnWay(tx)' =>
         y \in Waiting(tx) \cup OnWay(tx) \/ y.seq = next[tx]
  <2>1. \A y : y \in Waiting(tx)' => y \in Waiting(tx)
    BY <1>u, RiseNow DEF b, S
  <2>2. \A y : y \in OnWay(tx)' => y \in OnWay(tx) \/ y = p
    BY <1>6, RiseNow DEF b, S
  <2> QED
    BY <1>1, <2>1, <2>2
<1> QED
  BY <1>u, <1>7, <1>8 DEF Grows

\* A step keeps the order of the stream of tx, and either adds nothing, begins or continues it.
Flows(tx) == RiseOf(tx)' /\ (Stays(tx) \/ Begins(tx) \/ Grows(tx))

\* A client makes a request, takes a packet or answers.
LEMMA ClientRises ==
    ASSUME TypeOK, TypeOK', RoutingInv, PlaceInv, RiseInv,
           NEW c \in Clients, NEW x \in TxIds
    PROVE  /\ \A tx \in TxIds, t \in RequestType,
                 ch \in Channels \cup {NoChannel}, arg \in Args \cup {NoArg} :
                 SendRequest(c, tx, t, ch, arg) => Flows(x)
           /\ \A tx \in TxIds, fin, ok \in BOOLEAN :
                 SendReply(c, tx, fin, ok) => Flows(x)
           /\ Listen(c) => Flows(x)
<1>t. /\ inbox \in [Clients -> Seq(Packet)] /\ outbox \in [Clients -> Seq(Packet)]
      /\ worker \in [TxIds -> Clients \cup {NoClient}]
      /\ next \in [TxIds -> Nat] /\ got \in [TxIds -> Nat]
  BY DEF TypeOK, BrokerTypeOK
<1>0. RiseOf(x) /\ PlaceOf(x) /\ Issuer[x] \in Clients
  BY IssuerAssumption DEF RiseInv, PlaceInv
<1>s. ASSUME UNCHANGED <<outbox, got>>, NEW p, p \notin Elements(x),
             inbox' = [inbox EXCEPT ![c] = Append(@, p)] \/ inbox' = inbox,
             next'[x] = next[x], worker'[x] \in {worker[x], NoClient}
      PROVE  Flows(x)
  <2>1. \A d \in Clients : Beside(inbox[d], inbox'[d], Elements(x))
    <3> SUFFICES ASSUME NEW d \in Clients
                 PROVE  Beside(inbox[d], inbox'[d], Elements(x))
      OBVIOUS
    <3>1. inbox'[d] = inbox[d] \/ inbox'[d] = Append(inbox[d], p)
      BY <1>t, <1>s
    <3> QED
      BY <1>s, <3>1 DEF Beside
  <2>2. Beside(outbox[Issuer[x]], outbox'[Issuer[x]], Elements(x))
    BY <1>s DEF Beside
  <2>3. got'[x] = got[x]
    BY <1>s
  <2> QED
    BY <1>0, <1>s, <2>1, <2>2, <2>3, RiseKept DEF Flows
<1>1. ASSUME NEW tx \in TxIds, NEW t \in RequestType, NEW ch, NEW arg,
             SendRequest(c, tx, t, ch, arg)
      PROVE  Flows(x)
  <2> DEFINE p == [ptype |-> t, tx |-> tx, ch |-> ch, arg |-> arg]
  <2>1. UNCHANGED <<outbox, got, next, worker>> /\ Push(c, p)
    BY <1>1 DEF SendRequest, clientVars
  <2>2. p \notin Elements(x)
    BY DEF Elements, RequestType
  <2> HIDE DEF p
  <2>3. inbox' = [inbox EXCEPT ![c] = Append(@, p)] \/ inbox' = inbox
    BY <2>1 DEF Push
  <2> QED
    BY <1>s, <2>1, <2>2, <2>3
<1>2. ASSUME NEW tx \in TxIds, NEW fin \in BOOLEAN, NEW ok \in BOOLEAN,
             SendReply(c, tx, fin, ok)
      PROVE  Flows(x)
  <2>1. CASE x = tx
    BY <1>0, <1>2, <2>1, RiseReplied DEF Flows
  <2>2. CASE x # tx
    <3> DEFINE p == RespondExecute(tx, next[tx], fin, ok)
    <3>1. UNCHANGED <<outbox, got>> /\ Push(c, p)
      BY <1>2 DEF SendReply, clientVars
    <3>2. next'[x] = next[x] /\ worker'[x] = worker[x]
      BY <1>t, <1>2, <2>2 DEF SendReply
    <3>3. p \notin Elements(x)
      BY <2>2 DEF Elements, RespondExecute
    <3> HIDE DEF p
    <3>4. inbox' = [inbox EXCEPT ![c] = Append(@, p)] \/ inbox' = inbox
      BY <3>1 DEF Push
    <3> QED
      BY <1>s, <3>1, <3>2, <3>3, <3>4
  <2> QED
    BY <2>1, <2>2
<1>3. CASE Listen(c)
  <2> DEFINE p == Head(outbox[c])
  <2>1. UNCHANGED <<inbox, next>>
    BY <1>3 DEF Listen
  <2>2. CASE outbox[c] # <<>> /\ p.tx = x /\ p.ptype = "execute"
    BY <1>0, <1>3, <2>2, RiseBegun DEF Flows
  <2>3. CASE outbox[c] # <<>> /\ p.tx = x /\ p.ptype = "respond_execute"
    BY <1>0, <1>3, <2>3, RiseTaken DEF RoutingInv, Flows
  <2>4. CASE outbox[c] = <<>> \/ p.tx # x \/ p.ptype \notin {"execute", "respond_execute"}
    <3>1. worker'[x] = worker[x] /\ got'[x] = got[x]
      BY <1>t, <1>3, <2>4 DEF Listen
    <3>2. \A d \in Clients : Beside(outbox[d], outbox'[d], Elements(x))
      <4> SUFFICES ASSUME NEW d \in Clients
                   PROVE  Beside(outbox[d], outbox'[d], Elements(x))
        OBVIOUS
      <4>1. \/ outbox'[d] = outbox[d]
            \/ d = c /\ outbox[c] # <<>> /\ outbox'[c] = Tail(outbox[c])
        BY <1>t, <1>3 DEF Listen
      <4>2. outbox[c] # <<>> => p \notin Elements(x)
        BY <2>4 DEF Elements
      <4> QED
        BY <4>1, <4>2 DEF Beside
    <3>3. \A d \in Clients : Beside(inbox[d], inbox'[d], Elements(x))
      BY <2>1 DEF Beside
    <3>4. next'[x] = next[x]
      BY <2>1
    <3> QED
      BY <1>0, <3>1, <3>2, <3>3, <3>4, RiseKept DEF Flows
  <2> QED
    BY <2>2, <2>3, <2>4
<1> QED
  BY <1>1, <1>2, <1>3

\* The broker takes a packet that is none of the stream and sends another.
LEMMA RiseBesideRelay ==
    ASSUME TypeOK, NEW tx \in TxIds, RiseOf(tx), NEW c \in Clients,
           inbox[c] # <<>>, inbox' = [inbox EXCEPT ![c] = Tail(@)],
           Head(inbox[c]) \notin Elements(tx),
           NEW e, NEW r, r \notin Elements(tx), Deliver(e, r), UNCHANGED peerVars
    PROVE  Flows(tx)
<1>1. next'[tx] = next[tx] /\ got'[tx] = got[tx] /\ worker'[tx] \in {worker[tx], NoClient}
  BY DEF peerVars
<1>2. \A d \in Clients : Beside(inbox[d], inbox'[d], Elements(tx))
  BY DEF Beside, TypeOK, BrokerTypeOK
<1>3. \A d \in Clients : Beside(outbox[d], outbox'[d], Elements(tx))
  <2>1. outbox' = [outbox EXCEPT ![e] = Append(@, r)] \/ outbox' = outbox
    BY DEF Deliver
  <2>2. ASSUME NEW d \in Clients, outbox'[d] # outbox[d]
        PROVE  outbox'[d] = Append(outbox[d], r)
    BY <2>1, <2>2 DEF TypeOK, BrokerTypeOK
  <2> QED
    BY <2>2 DEF Beside
<1>4. Issuer[tx] \in Clients
  BY IssuerAssumption
<1> QED
  BY <1>1, <1>2, <1>3, <1>4, RiseKept DEF Flows

\* The broker handles a packet.
LEMMA BrokerRises ==
    ASSUME TypeOK, TypeOK', RoutingInv, PlaceInv, RiseInv,
           NEW c \in Clients, HandleRecv(c), UNCHANGED peerVars, ~IgnoreRecv(c),
           NEW x \in TxIds
    PROVE  Flows(x)
<1> DEFINE p == Head(inbox[c])
<1>t. /\ inbox \in [Clients -> Seq(Packet)] /\ BrokerTypeOK
  BY DEF TypeOK, BrokerTypeOK
<1>0. RiseOf(x) /\ PlaceOf(x)
  BY DEF RiseInv, PlaceInv
<1>1. ASSUME NEW t, Receive(c, t)
      PROVE  /\ inbox[c] # <<>> /\ inbox' = [inbox EXCEPT ![c] = Tail(@)]
             /\ p.ptype = t /\ p.tx \in TxIds /\ p \in Packet
  BY <1>t, <1>1, ReceiveType DEF Receive
<1>2. ASSUME NEW t, Receive(c, t), p \notin Elements(x), NEW e,
             NEW r, r \notin Elements(x), Deliver(e, r)
      PROVE  Flows(x)
  <2>1. inbox[c] # <<>> /\ inbox' = [inbox EXCEPT ![c] = Tail(@)]
    BY <1>1, <1>2
  <2> QED
    BY <1>0, <1>2, <2>1, RiseBesideRelay
<1>3. ASSUME NEW t \in RequestType, Receive(c, t), NEW ok,
             Deliver(c, Respond(p.tx, ok))
      PROVE  Flows(x)
  <2>1. Respond(p.tx, ok) \notin Elements(x)
    BY DEF Respond, Elements
  <2>2. p \notin Elements(x)
    BY <1>1, <1>3 DEF Elements, RequestType
  <2> QED
    BY <1>2, <1>3, <2>1, <2>2
<1>4. CASE HandleConnect(c)
  BY <1>3, <1>4 DEF HandleConnect, RequestType
<1>5. CASE HandleDisconnect(c)
  BY <1>3, <1>5 DEF HandleDisconnect, RequestType
<1>6. CASE HandleSubscribe(c)
  BY <1>3, <1>6 DEF HandleSubscribe, RequestType
<1>7. CASE HandleUnsubscribe(c)
  BY <1>3, <1>7 DEF HandleUnsubscribe, RequestType
<1>8. CASE HandleExecute(c)
  <2> DEFINE target == subscriptions[p.ch]
             r == RespondExecute(p.tx, 0, TRUE, FALSE)
  <2>1. /\ Receive(c, "execute") /\ p.ptype = "execute"
        /\ inbox[c] # <<>> /\ inbox' = [inbox EXCEPT ![c] = Tail(@)]
    BY <1>1, <1>8 DEF HandleExecute
  <2>2. p \notin Elements(x)
    BY <2>1 DEF Elements
  <2>3. CASE target # NoClient
    <3>1. Deliver(target, p)
      BY <1>8, <2>3 DEF HandleExecute
    <3> QED
      BY <1>2, <2>1, <2>2, <3>1
  <2>4. CASE target = NoClient
    <3>1. Deliver(c, r)
      BY <1>8, <2>4 DEF HandleExecute
    <3>2. CASE p.tx = x
      BY <1>0, <2>1, <3>1, <3>2, RiseRefused DEF Flows
    <3>3. CASE p.tx # x
      <4>1. r \notin Elements(x)
        BY <3>3 DEF Elements, RespondExecute
      <4> QED
        BY <1>2, <2>1, <2>2, <3>1, <4>1
    <3> QED
      BY <3>2, <3>3
  <2> QED
    BY <2>3, <2>4
<1>9. CASE HandleRespondExecute(c)
  <2> DEFINE target == transactions[p.tx]
  <2>1. /\ Receive(c, "respond_execute") /\ p.ptype = "respond_execute"
        /\ inbox[c] # <<>> /\ inbox' = [inbox EXCEPT ![c] = Tail(@)]
        /\ p.tx \in TxIds
    BY <1>1, <1>9 DEF HandleRespondExecute
  <2>2. target # NoClient
    <3>1. 1 \in DOMAIN inbox[c] /\ inbox[c][1] = p
      BY <1>t, <2>1, TableTail
    <3> QED
      BY <2>1, <3>1 DEF PlaceInv, PlaceOf, SentInv, RequestType
  <2>3. Deliver(target, p)
    BY <1>9, <2>2 DEF HandleRespondExecute
  <2>4. CASE p.tx = x
    <3>1. target = Issuer[x]
      BY <2>1, <2>2, <2>4 DEF RoutingInv, TransactionsAreOwn
    <3> QED
      BY <1>0, <2>1, <2>3, <2>4, <3>1, RiseRelayed DEF Flows
  <2>5. CASE p.tx # x
    <3>1. p \notin Elements(x)
      BY <2>5 DEF Elements
    <3> QED
      BY <1>2, <2>1, <2>3, <3>1
  <2> QED
    BY <2>4, <2>5
<1> QED
  BY <1>4, <1>5, <1>6, <1>7, <1>8, <1>9 DEF HandleRecv

LEMMA RiseStep ==
    ASSUME TypeOK, TypeOK', RoutingInv, PlaceInv, RiseInv, [Next]_vars, NEW x \in TxIds
    PROVE  Flows(x)
<1>t. socket \in [Clients -> SocketState] /\ outbox \in [Clients -> Seq(Packet)]
  BY DEF TypeOK, BrokerTypeOK
<1>0. RiseOf(x) /\ Issuer[x] \in Clients
  BY IssuerAssumption DEF RiseInv
<1>1. ASSUME UNCHANGED <<inbox, next, got>>, worker'[x] \in {worker[x], NoClient},
             \A d \in Clients : outbox'[d] = <<>> \/ outbox'[d] = outbox[d]
      PROVE  Flows(x)
  <2>1. \A d \in Clients : /\ Beside(inbox[d], inbox'[d], Elements(x))
                           /\ outbox'[d] = outbox[d] =>
                                 Beside(outbox[d], outbox'[d], Elements(x))
    BY <1>1 DEF Beside
  <2>2. next'[x] = next[x] /\ got'[x] = got[x]
    BY <1>1
  <2> QED
    BY <1>0, <1>1, <2>1, <2>2, RiseKept DEF Flows
<1>2. CASE BrokerAct
  <2>u. UNCHANGED peerVars
    BY <1>2 DEF BrokerAct
  <2>1. CASE Accept \/ Register \/ Stopped
    <3>1. UNCHANGED <<inbox, outbox, next, got, worker>>
      BY <2>u, <2>1 DEF Accept, Register, Stopped, clientVars, ghostVars, peerVars
    <3> QED
      BY <1>1, <3>1
  <2>2. ASSUME NEW c \in Clients, HandleRecv(c)
        PROVE  Flows(x)
    <3>1. CASE IgnoreRecv(c)
      BY <1>1, <2>u, <3>1 DEF IgnoreRecv, clientVars, ghostVars, peerVars
    <3> QED
      BY <2>u, <2>2, <3>1, BrokerRises
  <2> QED
    BY <1>2, <2>1, <2>2 DEF BrokerAct, BrokerStep
<1>3. CASE StopBroker
  BY <1>1, <1>3 DEF StopBroker, BrokerStop, clientVars, ghostVars, peerVars
<1>4. ASSUME NEW c \in Clients, ClientStep(c)
      PROVE  Flows(x)
  <2>1. CASE Connect(c)
    BY <1>1, <2>1 DEF Connect, Dial, ghostVars, peerVars
  <2>2. CASE Stop(c) \/ TakeStop(c)
    BY <1>1, <2>2 DEF Stop, TakeStop, ghostVars, peerVars
  <2>3. CASE Close(c)
    <3>1. UNCHANGED <<inbox, next, got>> /\ worker'[x] \in {worker[x], NoClient}
      BY <2>3 DEF Close, ghostVars
    <3>2. \A d \in Clients : outbox'[d] = <<>> \/ outbox'[d] = outbox[d]
      BY <1>t, <2>3 DEF Close, Hangup
    <3> QED
      BY <1>1, <3>1, <3>2
  <2> QED
    BY <1>4, <2>1, <2>2, <2>3, ClientRises DEF ClientStep, RequestType
<1>5. CASE UNCHANGED vars
  BY <1>1, <1>5 DEF vars, brokerVars, clientVars, ghostVars, peerVars
<1> QED
  BY <1>2, <1>3, <1>4, <1>5 DEF Next

LEMMA RiseStarts == Init => RiseInv
<1> SUFFICES ASSUME Init, NEW tx \in TxIds
             PROVE  RiseOf(tx)
  BY DEF RiseInv
<1>1. /\ \A d \in Clients : inbox[d] = <<>> /\ outbox[d] = <<>>
      /\ worker[tx] = NoClient /\ Issuer[tx] \in Clients
  BY IssuerAssumption DEF Init, BrokerInit
<1>2. Waiting(tx) = {} /\ OnWay(tx) = {}
  BY <1>1 DEF Waiting, OnWay, Range
<1> QED
  BY <1>1, <1>2 DEF RiseOf, Rising

-----------------------------------------------------------------------------
(* What has ended stays so.                                                *)

\* Nothing of tx is left anywhere, and nobody works on it.
OverFor(tx) ==
    /\ transactions[tx] = NoClient /\ worker[tx] = NoClient
    /\ Nowhere(inbox, tx) /\ Nowhere(outbox, tx)

\* What a step makes of a queue that gets no packet of tx.
Fades(q, r, tx) ==
    \/ r = q \/ r = <<>>
    \/ q # <<>> /\ r = Tail(q)
    \/ \E x : x.tx # tx /\ r = Append(q, x)

LEMMA NowhereAfter ==
    ASSUME NEW f \in [Clients -> Seq(Packet)], NEW g, NEW tx, Nowhere(f, tx),
           \A d \in Clients : Fades(f[d], g[d], tx)
    PROVE  Nowhere(g, tx)
<1> SUFFICES ASSUME NEW d \in Clients, NEW i \in DOMAIN g[d]
             PROVE  g[d][i].tx # tx
  BY DEF Nowhere
<1>t. f[d] \in Seq(Packet) /\ \A j \in DOMAIN f[d] : f[d][j].tx # tx
  BY DEF Nowhere
<1>1. CASE g[d] = f[d] \/ g[d] = <<>>
  BY <1>t, <1>1
<1>2. CASE f[d] # <<>> /\ g[d] = Tail(f[d])
  <2>1. i + 1 \in DOMAIN f[d] /\ g[d][i] = f[d][i + 1]
    BY <1>t, <1>2
  <2> QED
    BY <1>t, <2>1
<1>3. ASSUME NEW x, x.tx # tx, g[d] = Append(f[d], x)
      PROVE  g[d][i].tx # tx
  <2>1. \/ i \in DOMAIN f[d] /\ g[d][i] = f[d][i]
        \/ g[d][i] = x
    BY <1>t, <1>3
  <2> QED
    BY <1>t, <1>3, <2>1
<1> QED
  BY <1>1, <1>2, <1>3 DEF Fades

LEMMA OverStays ==
    ASSUME TypeOK, NEW tx \in TxIds, tx \in used, OverFor(tx), [Next]_vars
    PROVE  OverFor(tx)'
<1>t. /\ inbox \in [Clients -> Seq(Packet)] /\ outbox \in [Clients -> Seq(Packet)]
      /\ worker \in [TxIds -> Clients \cup {NoClient}]
      /\ transactions \in [TxIds -> Clients \cup {NoClient}] /\ BrokerTypeOK
  BY DEF TypeOK, BrokerTypeOK
<1>0. /\ transactions[tx] = NoClient /\ worker[tx] = NoClient
      /\ Nowhere(inbox, tx) /\ Nowhere(outbox, tx)
  BY DEF OverFor
<1>h. \A c \in Clients : /\ inbox[c] # <<>> => Head(inbox[c]).tx # tx
                         /\ outbox[c] # <<>> => Head(outbox[c]).tx # tx
  BY <1>t, <1>0, TableTail DEF Nowhere
<1>1. ASSUME transactions'[tx] = NoClient, worker'[tx] = NoClient,
             \A d \in Clients : Fades(inbox[d], inbox'[d], tx),
             \A d \in Clients : Fades(outbox[d], outbox'[d], tx)
      PROVE  OverFor(tx)'
  <2>1. Nowhere(inbox', tx)
    BY <1>t, <1>0, <1>1, NowhereAfter
  <2>2. Nowhere(outbox', tx)
    BY <1>t, <1>0, <1>1, NowhereAfter
  <2>3. Nowhere(inbox, tx)' = Nowhere(inbox', tx) /\ Nowhere(outbox, tx)' = Nowhere(outbox', tx)
    BY DEF Nowhere
  <2> QED
    BY <1>1, <2>1, <2>2, <2>3 DEF OverFor
<1>2. CASE BrokerAct
  <2>u. worker' = worker
    BY <1>2 DEF BrokerAct, peerVars
  <2>1. CASE Accept \/ Register \/ Stopped
    BY <1>0, <1>1, <2>u, <2>1 DEF Accept, Register, Stopped, clientVars, serverVars, Fades
  <2>2. ASSUME NEW c \in Clients, HandleRecv(c)
        PROVE  OverFor(tx)'
    <3> DEFINE p == Head(inbox[c])
    <3>1. CASE IgnoreRecv(c)
      BY <1>0, <1>1, <2>u, <3>1 DEF IgnoreRecv, clientVars, serverVars, Fades
    <3>2. ASSUME NEW t, Receive(c, t)
          PROVE  /\ inbox[c] # <<>> /\ p.tx # tx
                 /\ \A d \in Clients : Fades(inbox[d], inbox'[d], tx)
      BY <1>t, <1>h, <3>2 DEF Receive, Fades
    <3>3. ASSUME NEW t, Receive(c, t), NEW e, NEW r, r.tx = p.tx, Deliver(e, r),
                 transactions'[tx] = transactions[tx]
          PROVE  OverFor(tx)'
      <4>1. outbox' = outbox \/ outbox' = [outbox EXCEPT ![e] = Append(@, r)]
        BY <3>3 DEF Deliver
      <4>2. \A d \in Clients : outbox'[d] = outbox[d] \/ outbox'[d] = Append(outbox[d], r)
        BY <1>t, <4>1
      <4>3. r.tx # tx
        BY <3>2, <3>3
      <4>4. \A d \in Clients : Fades(outbox[d], outbox'[d], tx)
        BY <4>2, <4>3 DEF Fades
      <4> QED
        BY <1>0, <1>1, <2>u, <3>2, <3>3, <4>4
    <3>4. CASE HandleConnect(c) \/ HandleDisconnect(c) \/ HandleSubscribe(c)
               \/ HandleUnsubscribe(c)
      <4>1. \A ok : Respond(p.tx, ok).tx = p.tx
        BY DEF Respond
      <4>2. UNCHANGED transactions
        BY <3>4 DEF HandleConnect, HandleDisconnect, HandleSubscribe, HandleUnsubscribe
      <4>3. ASSUME NEW t, Receive(c, t), NEW ok, Deliver(c, Respond(p.tx, ok))
            PROVE  OverFor(tx)'
        BY <3>3, <4>1, <4>2, <4>3
      <4>4. CASE HandleConnect(c)
        BY <4>3, <4>4 DEF HandleConnect
      <4>5. CASE HandleDisconnect(c)
        BY <4>3, <4>5 DEF HandleDisconnect
      <4>6. CASE HandleSubscribe(c)
        BY <4>3, <4>6 DEF HandleSubscribe
      <4>7. CASE HandleUnsubscribe(c)
        BY <4>3, <4>7 DEF HandleUnsubscribe
      <4> QED
        BY <3>4, <4>4, <4>5, <4>6, <4>7
    <3>5. CASE HandleExecute(c)
      <4>1. RespondExecute(p.tx, 0, TRUE, FALSE).tx = p.tx
        BY DEF RespondExecute
      <4>2. transactions'[tx] = transactions[tx]
        BY <1>t, <3>2, <3>5 DEF HandleExecute
      <4> QED
        BY <3>3, <3>5, <4>1, <4>2 DEF HandleExecute
    <3>6. CASE HandleRespondExecute(c)
      <4>1. Receive(c, "respond_execute")
        BY <3>6 DEF HandleRespondExecute
      <4>2. transactions'[tx] = transactions[tx]
        BY <1>t, <3>2, <3>6 DEF HandleRespondExecute
      <4>3. CASE transactions[p.tx] # NoClient
        <5>1. Deliver(transactions[p.tx], p)
          BY <3>6, <4>3 DEF HandleRespondExecute
        <5> QED
          BY <3>3, <4>1, <4>2, <5>1
      <4>4. CASE transactions[p.tx] = NoClient
        <5>1. outbox' = outbox
          BY <3>6, <4>4 DEF HandleRespondExecute
        <5>2. \A d \in Clients : Fades(outbox[d], outbox'[d], tx)
          BY <5>1 DEF Fades
        <5> QED
          BY <1>0, <1>1, <2>u, <3>2, <4>1, <4>2, <5>2
      <4> QED
        BY <4>3, <4>4
    <3> QED
      BY <2>2, <3>1, <3>4, <3>5, <3>6 DEF HandleRecv
  <2> QED
    BY <1>2, <2>1, <2>2 DEF BrokerAct, BrokerStep
<1>3. CASE StopBroker
  BY <1>0, <1>1, <1>3 DEF StopBroker, BrokerStop, clientVars, serverVars, peerVars,
     Fades
<1>4. ASSUME NEW c \in Clients, ClientStep(c)
      PROVE  OverFor(tx)'
  <2>1. CASE Connect(c) \/ Stop(c) \/ TakeStop(c)
    BY <1>0, <1>1, <2>1 DEF Connect, Dial, Stop, TakeStop, serverVars, peerVars,
       Fades
  <2>2. ASSUME NEW p, p.tx # tx, Push(c, p), UNCHANGED <<transactions, outbox>>,
               worker'[tx] = NoClient
        PROVE  OverFor(tx)'
    <3>1. inbox' = inbox \/ inbox' = [inbox EXCEPT ![c] = Append(@, p)]
      BY <2>2 DEF Push
    <3>2. \A d \in Clients : inbox'[d] = inbox[d] \/ inbox'[d] = Append(inbox[d], p)
      BY <1>t, <3>1
    <3> QED
      BY <1>0, <1>1, <2>2, <3>2 DEF Fades
  <2>3. ASSUME NEW x \in TxIds, NEW t \in RequestType, NEW ch, NEW arg,
               SendRequest(c, x, t, ch, arg)
        PROVE  OverFor(tx)'
    <3> DEFINE p == [ptype |-> t, tx |-> x, ch |-> ch, arg |-> arg]
    <3>1. p.tx # tx
      BY <2>3 DEF SendRequest
    <3>2. Push(c, p) /\ UNCHANGED <<transactions, outbox, worker>>
      BY <2>3 DEF SendRequest, serverVars, clientVars
    <3> HIDE DEF p
    <3> QED
      BY <1>0, <2>2, <3>1, <3>2
  <2>4. ASSUME NEW x \in TxIds, NEW fin \in BOOLEAN, NEW ok \in BOOLEAN,
               SendReply(c, x, fin, ok)
        PROVE  OverFor(tx)'
    <3> DEFINE p == RespondExecute(x, next[x], fin, ok)
    <3>1. x # tx
      BY <1>0, <2>4, ClientAssumption DEF SendReply
    <3>2. p.tx # tx
      BY <3>1 DEF RespondExecute
    <3>3. Push(c, p) /\ UNCHANGED <<transactions, outbox>>
      BY <2>4 DEF SendReply, serverVars, clientVars
    <3>4. worker'[tx] = NoClient
      BY <1>t, <1>0, <2>4, <3>1 DEF SendReply
    <3> HIDE DEF p
    <3> QED
      BY <2>2, <3>2, <3>3, <3>4
  <2>5. CASE Listen(c)
    <3>1. UNCHANGED <<inbox, transactions>>
      BY <2>5 DEF Listen, serverVars
    <3>2. worker'[tx] = NoClient
      BY <1>t, <1>0, <1>h, <2>5 DEF Listen
    <3>3. \A d \in Clients : \/ outbox'[d] = outbox[d]
                             \/ outbox[d] # <<>> /\ outbox'[d] = Tail(outbox[d])
      BY <1>t, <2>5 DEF Listen
    <3> QED
      BY <1>0, <1>1, <3>1, <3>2, <3>3 DEF Fades
  <2>6. CASE Close(c)
    <3>1. UNCHANGED <<inbox, transactions>> /\ worker'[tx] = NoClient
      BY <1>0, <2>6 DEF Close, serverVars
    <3>2. \A d \in Clients : outbox'[d] = outbox[d] \/ outbox'[d] = <<>>
      BY <1>t, <2>6 DEF Close, Hangup
    <3> QED
      BY <1>0, <1>1, <3>1, <3>2 DEF Fades
  <2> QED
    BY <1>4, <2>1, <2>3, <2>4, <2>5, <2>6 DEF ClientStep, RequestType
<1>5. CASE UNCHANGED vars
  BY <1>0, <1>1, <1>5 DEF vars, brokerVars, serverVars, clientVars, peerVars, Fades
<1> QED
  BY <1>2, <1>3, <1>4, <1>5 DEF Next

-----------------------------------------------------------------------------
(* What a VM works on is its own.                                          *)

WorkInv == \A v \in VMs : job[v] # NoJob => worker[job[v][1]] = v

\* Only its worker gives up a transaction.
LEMMA WorkerStays ==
    ASSUME TypeOK, PlaceInv, NEW c \in Clients, ClientStep(c), NEW tx \in TxIds,
           worker[tx] \in Clients, worker[tx] # c
    PROVE  worker'[tx] = worker[tx]
<1>t. worker \in [TxIds -> Clients \cup {NoClient}] /\ outbox \in [Clients -> Seq(Packet)]
  BY DEF TypeOK, BrokerTypeOK
<1>1. CASE Connect(c) \/ Stop(c) \/ TakeStop(c)
  BY <1>1 DEF Connect, Stop, TakeStop, peerVars
<1>2. ASSUME NEW x, NEW t, NEW ch, NEW arg, SendRequest(c, x, t, ch, arg)
      PROVE  worker'[tx] = worker[tx]
  BY <1>2 DEF SendRequest
<1>3. ASSUME NEW x \in TxIds, NEW fin \in BOOLEAN, NEW ok \in BOOLEAN, SendReply(c, x, fin, ok)
      PROVE  worker'[tx] = worker[tx]
  BY <1>t, <1>3 DEF SendReply
<1>4. CASE Listen(c)
  <2>1. CASE outbox[c] # <<>> /\ Head(outbox[c]).ptype = "execute" /\ Head(outbox[c]).tx = tx
    <3>1. 1 \in DOMAIN outbox[c] /\ outbox[c][1] = Head(outbox[c])
      BY <1>t, <2>1, TableTail
    <3>2. worker[tx] = NoClient
      BY <2>1, <3>1 DEF PlaceInv, PlaceOf, DeliveredInv, RequestType, Idle
    <3> QED
      BY <3>2, ClientAssumption
  <2>2. CASE ~(outbox[c] # <<>> /\ Head(outbox[c]).ptype = "execute" /\ Head(outbox[c]).tx = tx)
    BY <1>t, <1>4, <2>2 DEF Listen
  <2> QED
    BY <2>1, <2>2
<1>5. CASE Close(c)
  BY <1>5 DEF Close
<1> QED
  BY <1>1, <1>2, <1>3, <1>4, <1>5 DEF ClientStep

LEMMA WorkStep ==
    TypeOK /\ PlaceInv /\ SysTypeInv /\ WorkInv /\ [SysNext]_sysVars => WorkInv'
<1> SUFFICES ASSUME TypeOK, PlaceInv, SysTypeInv, WorkInv, [SysNext]_sysVars
             PROVE  WorkInv'
  OBVIOUS
<1>t. /\ worker \in [TxIds -> Clients \cup {NoClient}]
      /\ outbox \in [Clients -> Seq(Packet)]
      /\ job \in [VMs -> (TxIds \X Plan \X SUBSET CompNames) \cup {NoJob}] /\ VMs \subseteq Clients
      /\ vpc \in [VMs -> VMState] /\ todo \in [VMs -> Seq(Sends)]
      /\ \A v \in VMs : vpc[v] = "handle" <=> job[v] # NoJob
  BY VMAssumption DEF TypeOK, BrokerTypeOK, SysTypeInv, VMTypeOK, JobInv, Sends
<1>n. \A v \in VMs : job[v] # NoJob => job[v][1] \in TxIds
  BY <1>t
<1>1. ASSUME UNCHANGED <<worker, job>>
      PROVE  WorkInv'
  BY <1>1 DEF WorkInv
<1>2. ASSUME NEW c \in Clients, ClientStep(c), NEW v \in VMs, v # c, job'[v] = job[v]
      PROVE  job'[v] # NoJob => worker'[job'[v][1]] = v
  BY <1>t, <1>n, <1>2, WorkerStays DEF WorkInv
<1>3. CASE BrokerTurn
  BY <1>1, <1>3 DEF BrokerTurn, BrokerAct, peerVars, vmVars
<1>4. CASE stop_threads
  <2>1. UNCHANGED worker
    BY <1>4 DEF stop_threads, RTStopVM, RTJoinVM, RTJoinBroker, vm_stop, Stop, StopBroker,
                peerVars, vars
  <2>2. UNCHANGED job
    BY <1>4 DEF stop_threads, RTStopVM, RTJoinVM, RTJoinBroker, vm_stop, vmVars
  <2> QED
    BY <1>1, <2>1, <2>2
<1>5. ASSUME NEW r \in Runtimes, RuntimeTurn(r)
      PROVE  WorkInv'
  <2>1. ClientStep(r) \/ UNCHANGED vars
    BY <1>5, RuntimeIsClient DEF RuntimeTurn
  <2>2. r \notin VMs /\ r \in Clients /\ UNCHANGED job
    BY <1>5, RuntimeAssumption, VMAssumption DEF RuntimeTurn, vmVars
  <2>3. CASE UNCHANGED vars
    BY <1>1, <2>2, <2>3 DEF vars, peerVars
  <2>4. CASE ClientStep(r)
    <3>1. \A v \in VMs : v # r /\ job'[v] = job[v]
      BY <2>2
    <3> QED
      BY <1>2, <2>2, <2>4, <3>1 DEF WorkInv
  <2> QED
    BY <2>1, <2>3, <2>4
<1>6. ASSUME NEW v \in VMs, VMTurn(v)
      PROVE  WorkInv'
  <2>v. VMStep(v) /\ v \in Clients
    BY <1>t, <1>6 DEF VMTurn
  <2>0. ClientStep(v) \/ UNCHANGED vars
    BY <2>v, VMIsClient
  <2>j. \/ UNCHANGED job
        \/ \E x : job' = [job EXCEPT ![v] = x]
    <3>1. CASE \/ handle_call_function(v) \/ handle_define_component(v)
               \/ handle_delete_component(v) \/ handle_call_method(v)
      BY <3>1 DEF handle_call_function, handle_define_component, handle_delete_component,
         handle_call_method
    <3>2. CASE VMReply(v)
      BY <3>2 DEF VMReply
    <3>3. CASE ~ \/ handle_call_function(v) \/ handle_define_component(v)
                 \/ handle_delete_component(v) \/ handle_call_method(v) \/ VMReply(v)
      BY <2>v, <3>3 DEF VMStep, VMStart, VMSendConnect, VMConnected, VMTimeout, VMSend, VMSent,
         VMNoContents, VMRespond, VMStop, VMSqueeze, VMSqueezeTimeout, VMSqueezed,
         VMSendDisconnect, VMGoodbye, VMReturn, VMThrow, vmVars
    <3> QED
      BY <3>1, <3>2, <3>3
  <2>1. \A w \in VMs : w # v => job'[w] = job[w]
    BY <1>t, <2>j
  <2>2. ASSUME NEW w \in VMs, w # v
        PROVE  job'[w] # NoJob => worker'[job'[w][1]] = w
    <3>1. CASE ClientStep(v)
      BY <1>2, <2>v, <2>1, <2>2, <3>1
    <3>2. CASE UNCHANGED vars
      BY <2>1, <2>2, <3>2 DEF vars, peerVars, WorkInv
    <3> QED
      BY <2>0, <3>1, <3>2
  <2>3. job'[v] # NoJob => worker'[job'[v][1]] = v
    <3>1. CASE VMSend(v)
      <4>1. job' = job /\ worker' = worker
        BY <3>1 DEF VMSend, SendRequest
      <4> QED
        BY <4>1 DEF WorkInv
    <3>2. CASE VMReply(v)
      <4>1. job[v] # NoJob /\ job[v][1] \in TxIds /\ worker[job[v][1]] = v
        BY <1>t, <1>n, <3>2 DEF VMReply, WorkInv
      <4>2. PICK fin \in BOOLEAN, ok \in BOOLEAN :
              /\ SendReply(v, job[v][1], fin, ok) /\ (ok \/ fin)
              /\ IF fin THEN job' = [job EXCEPT ![v] = NoJob] ELSE job' = job
        BY <3>2 DEF VMReply
      <4>3. CASE fin
        BY <1>t, <4>2, <4>3
      <4>4. CASE ~fin
        <5>1. worker' = worker /\ job' = job
          BY <4>2, <4>4 DEF SendReply
        <5> QED
          BY <4>1, <5>1
      <4> QED
        BY <4>3, <4>4
    <3>3. ASSUME NEW i, VMExecute(v, i), NEW plan, NEW names,
                 job' = [job EXCEPT ![v] = <<Head(outbox[v]).tx, plan, names>>]
          PROVE  job'[v] # NoJob => worker'[job'[v][1]] = v
      <4>1. /\ Listen(v) /\ outbox[v] # <<>> /\ Head(outbox[v]).ptype = "execute"
        BY <3>3 DEF VMExecute, VMReceive
      <4>2. Head(outbox[v]).tx \in TxIds
        <5>1. Head(outbox[v]) \in Packet
          BY <1>t, <2>v, <4>1
        <5> QED
          BY <5>1, PacketTypes
      <4>3. worker'[Head(outbox[v]).tx] = v
        BY <1>t, <4>1, <4>2 DEF Listen
      <4>4. job'[v] = <<Head(outbox[v]).tx, plan, names>>
        BY <1>t, <3>3
      <4> QED
        BY <4>3, <4>4
    <3>4. CASE \/ handle_call_function(v) \/ handle_define_component(v)
               \/ handle_delete_component(v) \/ handle_call_method(v)
      BY <3>3, <3>4 DEF handle_call_function, handle_define_component,
         handle_delete_component, handle_call_method
    <3>5. CASE ~ \/ VMSend(v) \/ VMReply(v)
                 \/ handle_call_function(v) \/ handle_define_component(v)
                 \/ handle_delete_component(v) \/ handle_call_method(v)
      <4>1. vpc[v] # "handle" /\ job' = job
        BY <2>v, <3>5 DEF VMStep, VMStart, VMSendConnect, VMConnected, VMTimeout, VMSent,
           VMNoContents, VMRespond, VMStop, VMSqueeze, VMSqueezeTimeout, VMSqueezed,
           VMSendDisconnect, VMGoodbye, VMReturn, VMThrow, vmVars
      <4> QED
        BY <1>t, <4>1
    <3> QED
      BY <3>1, <3>2, <3>4, <3>5
  <2> QED
    BY <2>2, <2>3 DEF WorkInv
<1>7. CASE UNCHANGED sysVars
  BY <1>1, <1>7 DEF sysVars, vars, peerVars, vmVars
<1> QED
  BY <1>3, <1>4, <1>5, <1>6, <1>7 DEF SysNext

-----------------------------------------------------------------------------
(* What the caller has put away.                                           *)

\* What has yet to reach the issuer of tx.
Ahead(tx) == Waiting(tx) \cup OnWay(tx)

\* An element the caller keeps comes before what has yet to reach it, and the finished one
\* after all others, with nothing left of its transaction.
KeptOf(tx) ==
    \A p \in store[tx] :
        /\ idx[tx] <= p.seq /\ \A q \in Ahead(tx) : p.seq < q.seq
        /\ worker[tx] # NoClient => p.seq < next[tx]
        /\ \A q \in store[tx] : q.seq = p.seq => q = p
        /\ p.fin => OverFor(tx) /\ \A q \in store[tx] : q.seq <= p.seq

\* The number the caller waits for has not been passed.
NumberOf(tx) ==
    /\ \A q \in Ahead(tx) : idx[tx] <= q.seq
    /\ worker[tx] # NoClient => idx[tx] <= next[tx]

StoreOf(tx) ==
    /\ got[tx] = 0 => store[tx] = {} /\ idx[tx] = 0 /\ call[tx] # "returned"
    /\ KeptOf(tx) /\ NumberOf(tx)
    /\ call[tx] = "returned" => OverFor(tx) /\ store[tx] = {}

StoreInv == \A tx \in TxIds : StoreOf(tx)

EndInv == RiseInv /\ WorkInv /\ StoreInv

\* What is kept is typed.
LEMMA StoreTypes ==
    ASSUME TypeOK, SysTypeInv, NEW tx \in TxIds
    PROVE  /\ got[tx] \in Nat /\ next[tx] \in Nat /\ idx[tx] \in Nat
           /\ \A p \in store[tx] : p.seq \in Nat /\ p.fin \in BOOLEAN /\ p.ok \in BOOLEAN
           /\ \A q \in Ahead(tx) \cup Ahead(tx)' : q.seq \in Nat
<1>1. got[tx] \in Nat /\ next[tx] \in Nat
  BY DEF TypeOK
<1>2. idx[tx] \in Nat /\ store[tx] \in SUBSET [seq : Nat, fin : BOOLEAN, ok : BOOLEAN]
  BY DEF SysTypeInv, RuntimeTypeOK
<1>3. \A q \in Ahead(tx) \cup Ahead(tx)' : q \in Elements(tx)
  BY DEF Ahead, Waiting, OnWay, Elements
<1>4. \A q \in Ahead(tx) \cup Ahead(tx)' : q.seq \in Nat
  BY <1>3, ElementFields
<1> QED
  BY <1>1, <1>2, <1>4

\* A transaction somebody has heard of is used.
LEMMA HeardIsUsed ==
    ASSUME NEW tx \in TxIds, PlaceOf(tx), got[tx] # 0
    PROVE  tx \in used
  BY DEF PlaceOf, Idle

\* The caller of tx does nothing, whatever happens to its stream.
LEMMA StoreKept ==
    ASSUME TypeOK, TypeOK', SysTypeInv, PlaceInv, [Next]_vars, NEW x \in TxIds,
           Flows(x), StoreOf(x),
           store'[x] = store[x], idx'[x] = idx[x],
           call'[x] = call[x] \/ call'[x] # "returned"
    PROVE  StoreOf(x)'
<1>t. /\ got[x] \in Nat /\ next[x] \in Nat /\ idx[x] \in Nat
      /\ \A p \in store[x] : p.seq \in Nat /\ p.fin \in BOOLEAN
      /\ \A q \in Ahead(x) \cup Ahead(x)' : q.seq \in Nat
      /\ got'[x] \in Nat /\ next'[x] \in Nat
  BY StoreTypes DEF TypeOK
<1>0. /\ got[x] = 0 => store[x] = {} /\ idx[x] = 0 /\ call[x] # "returned"
      /\ KeptOf(x) /\ NumberOf(x)
      /\ call[x] = "returned" => OverFor(x) /\ store[x] = {}
  BY DEF StoreOf
<1>1. ASSUME got[x] # 0, OverFor(x)
      PROVE  OverFor(x)'
  BY <1>1, HeardIsUsed, OverStays DEF PlaceInv
<1>2. call'[x] = "returned" => OverFor(x)' /\ store'[x] = {}
  BY <1>0, <1>1
<1>3. CASE Begins(x)
  <2>1. got[x] = 0 /\ got'[x] = 0 /\ next'[x] = 0 /\ store[x] = {} /\ idx[x] = 0
    BY <1>0, <1>3 DEF Begins
  <2>2. KeptOf(x)'
    BY <2>1 DEF KeptOf
  <2>3. NumberOf(x)'
    BY <1>t, <2>1 DEF NumberOf
  <2> QED
    BY <1>0, <1>2, <2>1, <2>2, <2>3 DEF StoreOf
<1>4. CASE Stays(x)
  <2>1. /\ Ahead(x)' \subseteq Ahead(x) /\ next'[x] = next[x]
        /\ worker'[x] # NoClient => worker[x] # NoClient
        /\ got'[x] = 0 => got[x] = 0
    BY <1>t, <1>4 DEF Stays, Ahead
  <2>2. KeptOf(x)'
    <3>1. \A p \in store[x] : p.fin => OverFor(x)'
      BY <1>0, <1>1 DEF KeptOf
    <3> QED
      BY <1>0, <2>1, <3>1 DEF KeptOf
  <2>3. NumberOf(x)'
    BY <1>0, <2>1 DEF NumberOf
  <2> QED
    BY <1>0, <1>2, <2>1, <2>2, <2>3 DEF StoreOf
<1>5. CASE Grows(x)
  <2>1. /\ \A q \in Ahead(x)' : q \in Ahead(x) \/ q.seq = next[x]
        /\ next'[x] = next[x] + 1 /\ worker[x] # NoClient /\ got'[x] = got[x]
    BY <1>5 DEF Grows, Ahead
  <2>2. KeptOf(x)'
    <3>1. \A p \in store[x] : p.fin => OverFor(x)'
      BY <1>0, <1>1 DEF KeptOf
    <3>2. \A p \in store[x] : p.seq < next[x] /\ p.seq < next[x] + 1
      BY <1>t, <1>0, <2>1 DEF KeptOf
    <3>3. \A p \in store[x] : \A q \in Ahead(x)' : p.seq < q.seq
      BY <1>0, <2>1, <3>2 DEF KeptOf
    <3> QED
      BY <1>0, <2>1, <3>1, <3>2, <3>3 DEF KeptOf
  <2>3. NumberOf(x)'
    <3>1. idx[x] <= next[x] /\ idx[x] <= next[x] + 1
      BY <1>t, <1>0, <2>1 DEF NumberOf
    <3> QED
      BY <1>0, <2>1, <3>1 DEF NumberOf
  <2> QED
    BY <1>0, <1>2, <2>1, <2>2, <2>3 DEF StoreOf
<1> QED
  BY <1>3, <1>4, <1>5 DEF Flows

\* _sync_listen: the caller puts an element of its stream away.
LEMMA StorePut ==
    ASSUME TypeOK, TypeOK', SysTypeInv, RoutingInv, PlaceInv, NEW r \in Clients,
           NEW x \in TxIds, RiseOf(x), StoreOf(x),
           Listen(r), outbox[r] # <<>>,
           Head(outbox[r]).tx = x, Head(outbox[r]).ptype = "respond_execute",
           store'[x] = store[x] \cup {[seq |-> Head(outbox[r]).seq, fin |-> Head(outbox[r]).fin,
                                       ok |-> Head(outbox[r]).ok]},
           idx'[x] = idx[x], call'[x] = call[x]
    PROVE  StoreOf(x)'
<1> DEFINE p == Head(outbox[r])
           e == [seq |-> p.seq, fin |-> p.fin, ok |-> p.ok]
<1>t. /\ got[x] \in Nat /\ next[x] \in Nat /\ idx[x] \in Nat
      /\ \A y \in store[x] : y.seq \in Nat /\ y.fin \in BOOLEAN
      /\ \A q \in Ahead(x) \cup Ahead(x)' : q.seq \in Nat
      /\ outbox \in [Clients -> Seq(Packet)] /\ got \in [TxIds -> Nat]
  BY StoreTypes DEF TypeOK, BrokerTypeOK
<1>0. KeptOf(x) /\ NumberOf(x) /\ (call[x] = "returned" => OverFor(x))
  BY DEF StoreOf
<1>1. /\ Stays(x) /\ p \in Waiting(x) /\ p \in Ahead(x)
      /\ \A q \in Ahead(x)' : p.seq < q.seq
  BY RiseTaken DEF Ahead, RoutingInv
<1>2. /\ Ahead(x)' \subseteq Ahead(x) /\ next'[x] = next[x]
      /\ worker'[x] # NoClient => worker[x] # NoClient
  BY <1>1 DEF Stays, Ahead
<1>3. got'[x] = got[x] + 1
  BY <1>t DEF Listen
<1>4. 1 \in DOMAIN outbox[r] /\ outbox[r][1] = p /\ p \in Range(outbox[r])
  <2>1. 1 \in DOMAIN outbox[r] /\ outbox[r][1] = p
    BY <1>t, TableTail
  <2> QED
    BY <2>1 DEF Range
<1>5. ~OverFor(x)
  BY <1>4 DEF OverFor, Nowhere
<1>6. /\ e.seq = p.seq /\ e.fin = p.fin /\ p.seq \in Nat /\ p.fin \in BOOLEAN
  BY <1>t, <1>1, ElementFields DEF Waiting
<1>7. p.fin => OverFor(x)'
  <2> SUFFICES ASSUME p.fin
               PROVE  OverFor(x)'
    OBVIOUS
  <2>1. PlaceOf(x) /\ p.ptype \notin RequestType
    BY DEF PlaceInv, RequestType
  <2>2. /\ worker[x] = NoClient /\ transactions[x] = NoClient
        /\ Nowhere(inbox, x) /\ LastOf(outbox[r], 1, x)
    BY <1>4, <2>1 DEF PlaceOf, DeliveredInv
  <2>3. OnlyWith(outbox, r, x)
    <3> SUFFICES ASSUME NEW d \in Clients, NEW j \in DOMAIN outbox[d], outbox[d][j].tx = x, d # r
                 PROVE  FALSE
      BY DEF OnlyWith
    <3>1. outbox[d][j] \in Packet /\ outbox[d][j] \in Range(outbox[d])
      <4>1. outbox[d] \in Seq(Packet)
        BY <1>t
      <4> QED
        BY <4>1 DEF Range
    <3>2. CASE outbox[d][j].ptype \in RequestType
      <4>1. OnlyAt(outbox, d, j, x)
        BY <2>1, <3>2 DEF PlaceOf, DeliveredInv
      <4> QED
        BY <1>4, <4>1 DEF OnlyAt
    <3>3. CASE outbox[d][j].ptype \notin RequestType
      <4>1. IsReply(outbox[d][j]) /\ IsReply(p)
        <5>1. outbox[d][j].ptype \in {"respond", "respond_execute"}
          BY <3>1, <3>3 DEF Packet, Request, Reply
        <5> QED
          BY <5>1 DEF IsReply
      <4>2. Issuer[x] = d /\ Issuer[x] = r
        BY <1>4, <3>1, <4>1 DEF RoutingInv, RepliesAreOwn
      <4> QED
        BY <4>2
    <3> QED
      BY <3>2, <3>3
  <2>4. outbox' = [outbox EXCEPT ![r] = Tail(@)] /\ UNCHANGED <<inbox, transactions, worker>>
    BY DEF Listen, serverVars
  <2>5. Nowhere(outbox', x)
    BY <1>t, <2>2, <2>3, <2>4, TakenLast
  <2>6. Nowhere(inbox, x)' = Nowhere(inbox', x) /\ Nowhere(outbox, x)' = Nowhere(outbox', x)
    BY DEF Nowhere
  <2> QED
    BY <2>2, <2>4, <2>5, <2>6 DEF OverFor
<1>8. /\ idx[x] <= p.seq
      /\ worker[x] # NoClient => p.seq < next[x]
      /\ \A y \in store[x] : y.seq < p.seq /\ ~y.fin
  BY <1>0, <1>1, <1>5 DEF KeptOf, NumberOf, RiseOf
<1> HIDE DEF p, e
<1>9. store'[x] = store[x] \cup {e}
  BY DEF e, p
<1>10. KeptOf(x)'
  <2>1. \A y \in store'[x] : \A q \in Ahead(x)' : y.seq < q.seq
    BY <1>0, <1>1, <1>2, <1>6, <1>9 DEF KeptOf
  <2>2. \A y \in store'[x] : idx'[x] <= y.seq /\ (worker'[x] # NoClient => y.seq < next'[x])
    BY <1>0, <1>2, <1>6, <1>8, <1>9 DEF KeptOf
  <2>3. \A y \in store[x] : y.seq # e.seq
    BY <1>t, <1>6, <1>8
  <2>4. \A y \in store'[x] : \A q \in store'[x] : q.seq = y.seq => q = y
    BY <1>0, <1>9, <2>3 DEF KeptOf
  <2>5. \A y \in store'[x] : y.fin => y = e
    BY <1>8, <1>9
  <2>6. \A q \in store'[x] : q.seq <= e.seq
    BY <1>t, <1>6, <1>8, <1>9
  <2> QED
    BY <1>6, <1>7, <2>1, <2>2, <2>4, <2>5, <2>6 DEF KeptOf
<1>11. NumberOf(x)'
  BY <1>0, <1>2 DEF NumberOf
<1>12. call'[x] # "returned" /\ got'[x] # 0
  BY <1>t, <1>0, <1>3, <1>5
<1> QED
  BY <1>10, <1>11, <1>12 DEF StoreOf

\* The generator pops the element it waits for.
LEMMA StorePop ==
    ASSUME TypeOK, SysTypeInv, UNCHANGED vars, NEW x \in TxIds, StoreOf(x), NEW p \in store[x],
           p.seq = idx[x], store'[x] = store[x] \ {p}, idx'[x] = idx[x] + 1,
           call'[x] = "returned" => p.fin
    PROVE  StoreOf(x)'
<1>t. /\ got[x] \in Nat /\ next[x] \in Nat /\ idx[x] \in Nat
      /\ \A y \in store[x] : y.seq \in Nat
      /\ \A q \in Ahead(x) : q.seq \in Nat
  BY StoreTypes
<1>0. KeptOf(x) /\ NumberOf(x) /\ got[x] # 0
  BY DEF StoreOf
<1>u. UNCHANGED <<inbox, outbox, worker, next, got, transactions>>
  BY DEF vars, brokerVars, serverVars, clientVars, peerVars
<1>1. Ahead(x)' = Ahead(x) /\ (OverFor(x)' <=> OverFor(x))
  BY <1>u DEF Ahead, Waiting, OnWay, Elements, OverFor, Nowhere
<1>2. /\ \A y \in store'[x] : y \in store[x] /\ y.seq # idx[x] /\ idx[x] <= y.seq
      /\ \A q \in Ahead(x) : idx[x] < q.seq
      /\ worker[x] # NoClient => idx[x] < next[x]
  BY <1>0 DEF KeptOf
<1>3. /\ \A y \in store'[x] : idx[x] + 1 <= y.seq
      /\ \A q \in Ahead(x) : idx[x] + 1 <= q.seq
      /\ worker[x] # NoClient => idx[x] + 1 <= next[x]
  BY <1>t, <1>2
<1>4. KeptOf(x)'
  BY <1>u, <1>0, <1>1, <1>2, <1>3 DEF KeptOf
<1>5. NumberOf(x)'
  BY <1>u, <1>1, <1>3 DEF NumberOf
<1>6. p.fin => OverFor(x)' /\ store'[x] = {}
  <2>1. p.fin => OverFor(x) /\ \A y \in store[x] : y.seq <= idx[x]
    BY <1>0 DEF KeptOf
  <2>2. p.fin => \A y \in store'[x] : FALSE
    BY <1>t, <1>2, <2>1
  <2> QED
    BY <1>1, <2>1, <2>2
<1> QED
  BY <1>u, <1>0, <1>4, <1>5, <1>6 DEF StoreOf

LEMMA StoreStep ==
    SysInv /\ EndInv /\ [SysNext]_sysVars => EndInv'
<1> SUFFICES ASSUME SysInv, EndInv, [SysNext]_sysVars
             PROVE  EndInv'
  OBVIOUS
<1>0. SysInv' /\ [Next]_vars
  BY SysInvStep
<1>t. /\ TypeOK /\ TypeOK' /\ RoutingInv /\ PlaceInv /\ SysTypeInv
      /\ RiseInv /\ WorkInv /\ StoreInv
  BY <1>0 DEF SysInv, EndInv
<1>1. WorkInv'
  BY <1>t, WorkStep
<1>2. \A x \in TxIds : Flows(x)
  BY <1>t, <1>0, RiseStep
<1>3. RiseInv'
  BY <1>2 DEF RiseInv, Flows
<1>4. SUFFICES ASSUME NEW x \in TxIds
               PROVE  StoreOf(x)'
  BY <1>1, <1>3 DEF EndInv, StoreInv
<1>5. ASSUME store'[x] = store[x], idx'[x] = idx[x],
             call'[x] = call[x] \/ call'[x] # "returned"
      PROVE  StoreOf(x)'
  BY <1>t, <1>0, <1>2, <1>5, StoreKept DEF StoreInv
<1>6. CASE BrokerTurn \/ UNCHANGED sysVars \/ \E v \in VMs : VMTurn(v)
  BY <1>5, <1>6 DEF BrokerTurn, VMTurn, rtVars, sysVars
<1>7. CASE stop_threads
  <2>1. UNCHANGED <<store, idx, call>>
    BY <1>7 DEF stop_threads, RTStopVM, RTJoinVM, RTJoinBroker
  <2> QED
    BY <1>5, <2>1
<1>8. ASSUME NEW r \in Runtimes, RuntimeTurn(r)
      PROVE  StoreOf(x)'
  <2>0. RuntimeStep(r) /\ r \in Clients
    BY <1>8, RuntimeAssumption DEF RuntimeTurn
  <2>t. /\ store \in [TxIds -> SUBSET [seq : Nat, fin : BOOLEAN, ok : BOOLEAN]]
        /\ idx \in [TxIds -> Nat] /\ call \in [TxIds -> CallState]
    BY <1>t DEF SysTypeInv, RuntimeTypeOK
  <2>1. CASE RTConnect(r) \/ RTSendConnect(r) \/ RTConnectTimeout(r) \/ RTStop(r)
             \/ RTDisconnected(r)
    BY <1>5, <2>1 DEF RTConnect, RTSendConnect, RTConnectTimeout, RTStop, RTDisconnected
  <2>2. ASSUME Keep(r), UNCHANGED <<idx, call>>
        PROVE  StoreOf(x)'
    <3> DEFINE p == Head(outbox[r])
    <3>1. CASE p.ptype = "respond_execute" /\ p.tx = x
      <4>1. /\ Listen(r) /\ outbox[r] # <<>>
            /\ store'[x] = store[x] \cup {[seq |-> p.seq, fin |-> p.fin, ok |-> p.ok]}
        BY <2>t, <2>2, <3>1 DEF Keep
      <4> QED
        BY <1>t, <2>0, <2>2, <3>1, <4>1, StorePut DEF RiseInv, StoreInv
    <3>2. CASE ~(p.ptype = "respond_execute" /\ p.tx = x)
      <4>1. store'[x] = store[x]
        BY <2>t, <2>2, <3>2 DEF Keep
      <4> QED
        BY <1>5, <2>2, <4>1
    <3> QED
      BY <3>1, <3>2
  <2>3. CASE RTConnected(r) \/ RTListen(r)
    BY <2>2, <2>3 DEF RTConnected, RTListen
  <2>4. CASE RTCall(r)
    <3>1. PICK tx \in NextTx(r) :
            call' = [call EXCEPT ![tx] = IF CanPush(r) THEN "open" ELSE "raised"]
      BY <2>4 DEF RTCall
    <3>2. call'[x] = call[x] \/ call'[x] # "returned"
      BY <2>t, <3>1
    <3> QED
      BY <1>5, <2>4, <3>2 DEF RTCall
  <2>5. CASE RTTake(r)
    <3>1. PICK tx \in TxIds : \E p \in store[tx] :
              /\ p.seq = idx[tx]
              /\ \/ ~p.ok /\ UNCHANGED <<store, idx>>
                 \/ /\ store' = [store EXCEPT ![tx] = @ \ {p}]
                    /\ idx' = [idx EXCEPT ![tx] = @ + 1]
              /\ call' = [call EXCEPT ![tx] = IF ~p.ok THEN "raised"
                                              ELSE IF p.fin THEN "returned"
                                              ELSE "open"]
      BY <2>5 DEF RTTake
    <3>2. PICK p \in store[tx] :
              /\ p.seq = idx[tx]
              /\ \/ ~p.ok /\ UNCHANGED <<store, idx>>
                 \/ /\ store' = [store EXCEPT ![tx] = @ \ {p}]
                    /\ idx' = [idx EXCEPT ![tx] = @ + 1]
              /\ call' = [call EXCEPT ![tx] = IF ~p.ok THEN "raised"
                                              ELSE IF p.fin THEN "returned"
                                              ELSE "open"]
      BY <3>1
    <3>3. CASE tx # x \/ UNCHANGED <<store, idx>>
      <4>1. store'[x] = store[x] /\ idx'[x] = idx[x]
        BY <2>t, <3>2, <3>3
      <4>2. call'[x] = call[x] \/ call'[x] # "returned"
        <5>1. CASE tx # x
          BY <2>t, <3>2, <5>1
        <5>2. CASE tx = x
          <6>1. CASE ~p.ok
            BY <2>t, <3>2, <5>2, <6>1
          <6>2. CASE p.ok
            <7>1. p \in store[x] /\ p \notin store'[x]
              BY <2>t, <3>2, <5>2, <6>2
            <7> QED
              BY <4>1, <7>1
          <6> QED
            BY <6>1, <6>2
        <5> QED
          BY <5>1, <5>2
      <4> QED
        BY <1>5, <4>1, <4>2
    <3>4. CASE tx = x /\ ~UNCHANGED <<store, idx>>
      <4>1. /\ p \in store[x] /\ p.seq = idx[x] /\ store'[x] = store[x] \ {p}
            /\ idx'[x] = idx[x] + 1 /\ (call'[x] = "returned" => p.fin)
        BY <2>t, <3>2, <3>4
      <4>2. UNCHANGED vars
        BY <2>5 DEF RTTake
      <4> QED
        BY <1>t, <4>1, <4>2, StorePop DEF StoreInv
    <3> QED
      BY <3>3, <3>4
  <2> QED
    BY <2>0, <2>1, <2>3, <2>4, <2>5 DEF RuntimeStep
<1> QED
  BY <1>6, <1>7, <1>8 DEF SysNext

LEMMA StoreStarts == SysInit => EndInv
<1> SUFFICES ASSUME SysInit
             PROVE  EndInv
  OBVIOUS
<1>1. RiseInv
  BY RiseStarts DEF SysInit
<1>2. WorkInv
  BY DEF SysInit, VMInit, WorkInv
<1>3. ASSUME NEW tx \in TxIds
      PROVE  StoreOf(tx)
  <2>1. /\ store[tx] = {} /\ idx[tx] = 0 /\ call[tx] = "none" /\ worker[tx] = NoClient
        /\ \A d \in Clients : inbox[d] = <<>> /\ outbox[d] = <<>>
    BY <1>3 DEF SysInit, Init, BrokerInit, RuntimeInit
  <2>2. Ahead(tx) = {}
    <3>1. Issuer[tx] \in Clients
      BY IssuerAssumption
    <3> QED
      BY <2>1, <3>1 DEF Ahead, Waiting, OnWay, Range
  <2> QED
    BY <2>1, <2>2 DEF StoreOf, KeptOf, NumberOf
<1> QED
  BY <1>1, <1>2, <1>3 DEF EndInv, StoreInv

\* runtime.py: a call that has returned has nothing left to come: its store is empty, the
\* broker has forgotten it, no packet of it waits and no VM works on it.
THEOREM EndedStaysOver == SysSpec => []EndedIsOver
<1>1. SysInv /\ EndInv => EndedIsOver
  <2> SUFFICES ASSUME SysInv, EndInv, NEW tx \in TxIds, call[tx] = "returned"
               PROVE  /\ store[tx] = {}
                      /\ transactions[tx] = NoClient
                      /\ \A i \in DOMAIN outbox[Issuer[tx]] : outbox[Issuer[tx]][i].tx # tx
                      /\ \A v \in VMs : job[v] # NoJob => job[v][1] # tx
    BY DEF EndedIsOver
  <2>1. OverFor(tx) /\ store[tx] = {}
    BY DEF EndInv, StoreInv, StoreOf
  <2>2. \A v \in VMs : job[v] # NoJob => job[v][1] # tx
    BY <2>1, VMAssumption, ClientAssumption DEF EndInv, WorkInv, OverFor
  <2> QED
    BY <2>1, <2>2, IssuerAssumption DEF OverFor, Nowhere
<1> QED
  BY <1>1, SysInvStarts, SysInvStep, StoreStarts, StoreStep, PTL DEF SysSpec

-----------------------------------------------------------------------------
(* Who serves what, in a system with one VM.                               *)

\* The components the VM has or is defining.
Held == Known(Machine)

\* The VM is at the service of users or on its way there.
Up == vpc[Machine] \in {"off", "connect", "handshake", "import", "loop", "handle"}

Is(p, t, ch) == p.ptype = t /\ p.ch = ch
OkReply(p, tx) == p.ptype = "respond_execute" /\ p.tx = tx /\ p.ok

\* Only the VM subscribes, and it disconnects when it is done.
MailInv ==
    /\ \A c \in Clients \ {Machine} : \A p \in Range(inbox[c]) :
          p.ptype \notin {"subscribe", "unsubscribe", "respond_execute"}
    /\ \A p \in Range(inbox[Machine]) : p.ptype = "disconnect" => ~Up
    /\ \A ch \in Channels : subscriptions[ch] \in {Machine, NoClient}
    /\ \A tx \in TxIds : what[tx] # Nothing => tx \in used

\* What the VM has yet to send about a component is what its handler is about.
TodoInv ==
    /\ vpc[Machine] \in {"off", "connect", "handshake", "loop"} => todo[Machine] = <<>>
    /\ vpc[Machine] \in {"off", "connect", "handshake", "import"} => Held = {}
    /\ \A k \in CompNames : \A ch \in ComponentChannels(k) :
          /\ <<"subscribe", ch>> \in Range(todo[Machine]) => k \in Held
          /\ <<"unsubscribe", ch>> \in Range(todo[Machine]) =>
                ~Up \/ k \notin Held

Opposite(s) == IF s = "subscribe" THEN "unsubscribe" ELSE "subscribe"
Holder(s) == IF s = "subscribe" THEN Machine ELSE NoClient

\* When the broker has handled what the VM has sent before its n-th packet, and whatever
\* the VM has sent else by then, ch is held as s leaves it.
Comes(ch, s, n) ==
    /\ subscriptions[ch] # Holder(s) =>
          \E j \in DOMAIN inbox[Machine] : j < n /\ Is(inbox[Machine][j], s, ch)
    /\ \A i \in DOMAIN inbox[Machine] : Is(inbox[Machine][i], Opposite(s), ch) =>
          \E j \in DOMAIN inbox[Machine] : i < j /\ j < n /\ Is(inbox[Machine][j], s, ch)

Wanted(k) == IF k \in Held THEN "subscribe" ELSE "unsubscribe"

RegistryInv ==
    lost = {} /\ Up =>
        \A k \in CompNames : \A ch \in ComponentChannels(k) :
            \/ <<Wanted(k), ch>> \in Range(todo[Machine])
            \/ Comes(ch, Wanted(k), Len(inbox[Machine]) + 1)

\* The execute tx has been sent and has reached the VM, or nobody.
Gone(tx) ==
    /\ tx \in used
    /\ \A c \in Clients : \A p \in Range(inbox[c]) \cup Range(outbox[c]) :
          p.tx = tx => p.ptype # "execute"

ComponentInv == \A k \in Held : \E d \in Define(k) : Gone(d)

\* k has been defined, nobody is about to define it, and it is there no more.
Dead(k) ==
    /\ Define(k) # {} /\ \A d \in Define(k) : Gone(d)
    /\ k \notin Held

About(k, s) == IF s = "subscribe" THEN Define(k) ELSE Delete(k)
Fixed(k, s) == IF s = "subscribe" THEN k \in Held ELSE Dead(k)

\* Nothing has come between.
Alone(k, s) == IF s = "subscribe" THEN Up /\ Delete(k) = {} ELSE \A d, e \in Define(k) : d = e

Confirmed(tx) ==
    \/ \E c \in Clients : \E i \in DOMAIN outbox[c] : OkReply(outbox[c][i], tx)
    \/ \E p \in store[tx] : p.ok
    \/ call[tx] = "returned"

StageOf(k, s, tx) ==
    /\ job[Machine] # NoJob /\ job[Machine][1] = tx =>
          /\ job[Machine][2] # "stream"
          /\ job[Machine][2] = "ok" => Fixed(k, s)
    /\ \A i \in DOMAIN inbox[Machine] : OkReply(inbox[Machine][i], tx) =>
          Fixed(k, s) /\ \A ch \in ComponentChannels(k) : Comes(ch, s, i)
    /\ Confirmed(tx) => Fixed(k, s) /\ \A ch \in ComponentChannels(k) : Comes(ch, s, 0)

StageInv ==
    lost = {} =>
        \A k \in CompNames : \A s \in {"subscribe", "unsubscribe"} : Alone(k, s) =>
            \A tx \in About(k, s) : StageOf(k, s, tx)

-----------------------------------------------------------------------------
(* The order of what the VM sends.                                         *)

LEMMA OppositeIsNot ==
    \A p, ch : \A s \in {"subscribe", "unsubscribe"} : ~(Is(p, s, ch) /\ Is(p, Opposite(s), ch))
  BY DEF Is, Opposite

\* Something else is sent, or nothing.
LEMMA ComesStays ==
    ASSUME NEW ch, NEW s, NEW n \in Nat, NEW m \in Nat, n <= m, Comes(ch, s, n),
           inbox'[Machine] = inbox[Machine],
           subscriptions'[ch] = subscriptions[ch] \/ subscriptions'[ch] = Holder(s),
           inbox[Machine] \in Seq(Packet)
    PROVE  Comes(ch, s, m)'
<1>1. \A j \in DOMAIN inbox[Machine] : j \in Nat
  OBVIOUS
<1>2. \A j \in DOMAIN inbox[Machine] : j < n => j < m
  BY <1>1
<1> QED
  BY <1>2 DEF Comes, Holder, Opposite

LEMMA ComesAppend ==
    ASSUME NEW ch, NEW s, NEW n \in Nat, NEW m \in Nat, n <= m, Comes(ch, s, n),
           NEW p, inbox'[Machine] = Append(inbox[Machine], p), ~Is(p, Opposite(s), ch),
           subscriptions'[ch] = subscriptions[ch],
           inbox[Machine] \in Seq(Packet)
    PROVE  Comes(ch, s, m)'
<1> DEFINE q == inbox[Machine]
           r == Append(q, p)
<1>1. /\ \A j \in DOMAIN q : j \in Nat /\ j \in DOMAIN r /\ r[j] = q[j]
      /\ \A j \in DOMAIN r : j \in DOMAIN q \/ r[j] = p
  OBVIOUS
<1>2. \A j \in DOMAIN q : j < n => j < m
  BY <1>1
<1> HIDE DEF r
<1>3. inbox'[Machine] = r
  BY DEF r
<1>4. subscriptions[ch] # Holder(s) =>
         \E j \in DOMAIN r : j < m /\ Is(r[j], s, ch)
  BY <1>1, <1>2 DEF Comes
<1>5. ASSUME NEW i \in DOMAIN r, Is(r[i], Opposite(s), ch)
      PROVE  \E j \in DOMAIN r : i < j /\ j < m /\ Is(r[j], s, ch)
  <2>1. i \in DOMAIN q /\ r[i] = q[i]
    BY <1>1, <1>5
  <2>2. PICK j \in DOMAIN q : i < j /\ j < n /\ Is(q[j], s, ch)
    BY <1>5, <2>1 DEF Comes
  <2> QED
    BY <1>1, <1>2, <2>2
<1> QED
  BY <1>3, <1>4, <1>5 DEF Comes, Holder, Opposite

\* The last word.
LEMMA ComesPut ==
    ASSUME NEW ch, NEW s \in {"subscribe", "unsubscribe"}, NEW p, Is(p, s, ch),
           inbox'[Machine] = Append(inbox[Machine], p),
           inbox[Machine] \in Seq(Packet)
    PROVE  Comes(ch, s, Len(inbox[Machine]) + 1)'
<1> DEFINE q == inbox[Machine]
           r == Append(q, p)
           l == Len(q) + 1
<1>1. /\ l \in DOMAIN r /\ r[l] = p /\ Len(r) = l /\ l \in Nat /\ l < l + 1
      /\ \A i \in DOMAIN r : i \in Nat /\ (i < l \/ i = l)
  OBVIOUS
<1> HIDE DEF r, l
<1>2. inbox'[Machine] = r
  BY DEF r
<1>3. \A i \in DOMAIN r : Is(r[i], Opposite(s), ch) => i < l
  BY <1>1, OppositeIsNot
<1> QED
  BY <1>1, <1>2, <1>3 DEF Comes, Holder, Opposite

\* How the broker leaves ch when it has handled a packet p of the VM.
After(p, ch) ==
    IF Is(p, "subscribe", ch) THEN Machine
    ELSE IF Is(p, "unsubscribe", ch) \/ p.ptype = "disconnect" THEN NoClient
    ELSE subscriptions[ch]

\* A packet of the VM is handled.
LEMMA ComesTake ==
    ASSUME NEW ch, NEW s \in {"subscribe", "unsubscribe"},
           NEW n \in Nat, NEW m \in Nat, n <= m + 1, Comes(ch, s, n),
           inbox[Machine] # <<>>, inbox'[Machine] = Tail(inbox[Machine]),
           subscriptions'[ch] = After(Head(inbox[Machine]), ch),
           s = "subscribe" => Head(inbox[Machine]).ptype # "disconnect",
           inbox[Machine] \in Seq(Packet)
    PROVE  Comes(ch, s, m)'
<1> DEFINE q == inbox[Machine]
           r == Tail(q)
           p == Head(q)
<1>1. /\ 1 \in DOMAIN q /\ q[1] = p
      /\ \A j \in DOMAIN r : j \in Nat /\ j + 1 \in DOMAIN q /\ r[j] = q[j + 1]
      /\ \A j \in DOMAIN q : /\ j \in Nat
                             /\ j # 1 => j - 1 \in DOMAIN r /\ r[j - 1] = q[j] /\ j - 1 \in Nat
  OBVIOUS
<1>2. \A j \in DOMAIN q : j < n => j - 1 < m
  BY <1>1
<1> HIDE DEF r, p
<1>3. inbox'[Machine] = r
  BY DEF r
<1>4. ASSUME NEW i \in DOMAIN r, Is(r[i], Opposite(s), ch)
      PROVE  \E j \in DOMAIN r : i < j /\ j < m /\ Is(r[j], s, ch)
  <2>1. i + 1 \in DOMAIN q /\ Is(q[i + 1], Opposite(s), ch) /\ i \in Nat
    BY <1>1, <1>4
  <2>2. PICK j \in DOMAIN q : i + 1 < j /\ j < n /\ Is(q[j], s, ch)
    BY <2>1 DEF Comes
  <2>3. j # 1 /\ j \in Nat
    BY <1>1, <2>1, <2>2
  <2>4. j - 1 \in DOMAIN r /\ r[j - 1] = q[j]
    BY <1>1, <2>2, <2>3
  <2>5. i < j - 1
    BY <2>1, <2>2, <2>3
  <2>6. j - 1 < m
    BY <1>2, <2>2
  <2> QED
    BY <2>2, <2>4, <2>5, <2>6
<1>5. ASSUME subscriptions'[ch] # Holder(s)
      PROVE  \E j \in DOMAIN r : j < m /\ Is(r[j], s, ch)
  <2>1. subscriptions'[ch] = After(p, ch) /\ (s = "subscribe" => p.ptype # "disconnect")
    BY DEF p
  <2>2. ~Is(p, s, ch)
    <3>1. s = "subscribe" => ~Is(p, s, ch)
      BY <1>5, <2>1 DEF After, Holder
    <3>2. s = "unsubscribe" => ~Is(p, s, ch)
      BY <1>5, <2>1 DEF After, Holder, Is
    <3> QED
      BY <3>1, <3>2
  <2>3. CASE Is(p, Opposite(s), ch)
    <3>1. PICK j \in DOMAIN q : 1 < j /\ j < n /\ Is(q[j], s, ch)
      BY <1>1, <2>3 DEF Comes
    <3>2. j \in Nat /\ j # 1
      BY <1>1, <3>1
    <3> QED
      BY <1>1, <1>2, <3>1, <3>2
  <2>4. CASE ~Is(p, Opposite(s), ch)
    <3>1. subscriptions[ch] # Holder(s)
      <4>1. CASE s = "subscribe"
        BY <1>5, <2>1, <2>2, <2>4, <4>1 DEF After, Opposite
      <4>2. CASE s = "unsubscribe"
        <5>1. p.ptype # "disconnect"
          BY <1>5, <2>1, <2>4, <4>2 DEF After, Opposite, Holder
        <5> QED
          BY <1>5, <2>1, <2>2, <2>4, <4>2, <5>1 DEF After, Opposite
      <4> QED
        BY <4>1, <4>2
    <3>2. PICK j \in DOMAIN q : j < n /\ Is(q[j], s, ch)
      BY <3>1 DEF Comes
    <3>3. j # 1 /\ j \in Nat
      BY <1>1, <2>2, <3>2
    <3> QED
      BY <1>1, <1>2, <3>2, <3>3
  <2> QED
    BY <2>3, <2>4
<1> QED
  BY <1>3, <1>4, <1>5 DEF Comes, Holder, Opposite

-----------------------------------------------------------------------------
(* What the broker does with the packets of the VM.                        *)

\* What the broker does to the packets and the channels of the VM.
LEMMA BrokerHandles ==
    ASSUME TypeOK, MailInv, BrokerStep
    PROVE  /\ \A c \in Clients : Range(inbox'[c]) \subseteq Range(inbox[c])
           /\ \/ /\ inbox'[Machine] = inbox[Machine]
                 /\ \A ch \in Channels : subscriptions'[ch] = subscriptions[ch]
              \/ /\ inbox[Machine] # <<>> /\ inbox'[Machine] = Tail(inbox[Machine])
                 /\ \A ch \in Channels :
                       subscriptions'[ch] = After(Head(inbox[Machine]), ch)
<1> DEFINE Less == \A c \in Clients : Range(inbox'[c]) \subseteq Range(inbox[c])
           Still == /\ inbox'[Machine] = inbox[Machine]
                    /\ \A ch \in Channels : subscriptions'[ch] = subscriptions[ch]
           Handled == /\ inbox[Machine] # <<>> /\ inbox'[Machine] = Tail(inbox[Machine])
                      /\ \A ch \in Channels :
                            subscriptions'[ch] = After(Head(inbox[Machine]), ch)
<1>t. /\ inbox \in [Clients -> Seq(Packet)] /\ Machine \in Clients
      /\ subscriptions \in [Channels -> Clients \cup {NoClient}]
      /\ NoClient # Machine
  BY OwnerAssumption, VMAssumption DEF TypeOK, BrokerTypeOK
<1>m. \A ch \in Channels : subscriptions[ch] \in {Machine, NoClient}
  BY DEF MailInv
<1>1. CASE Accept \/ Register \/ Stopped
  BY <1>1 DEF Accept, Register, Stopped, serverVars
<1>2. ASSUME NEW c \in Clients, HandleRecv(c)
      PROVE  Less /\ (Still \/ Handled)
  <2> DEFINE p == Head(inbox[c])
  <2>1. CASE IgnoreRecv(c)
    BY <2>1 DEF IgnoreRecv, serverVars
  <2>2. ASSUME NEW t, Receive(c, t)
        PROVE  /\ inbox[c] # <<>> /\ inbox' = [inbox EXCEPT ![c] = Tail(@)]
               /\ p.ptype = t /\ p \in Range(inbox[c])
               /\ Less /\ (c # Machine => inbox'[Machine] = inbox[Machine])
    <3>1. inbox[c] # <<>> /\ inbox' = [inbox EXCEPT ![c] = Tail(@)] /\ p.ptype = t
      BY <2>2 DEF Receive
    <3>2. Less /\ p \in Range(inbox[c])
      BY <1>t, <3>1, QueuesRange
    <3> QED
      BY <1>t, <3>1, <3>2
  <2>3. CASE c # Machine
    <3>1. ASSUME NEW t \in {"subscribe", "unsubscribe", "respond_execute"}, Receive(c, t)
          PROVE  FALSE
      BY <2>2, <2>3, <3>1 DEF MailInv
    <3>2. CASE HandleSubscribe(c) \/ HandleUnsubscribe(c) \/ HandleRespondExecute(c)
      BY <3>1, <3>2 DEF HandleSubscribe, HandleUnsubscribe, HandleRespondExecute
    <3>3. CASE HandleConnect(c) \/ HandleExecute(c)
      BY <2>2, <2>3, <3>3 DEF HandleConnect, HandleExecute
    <3>4. CASE HandleDisconnect(c)
      <4>1. \A ch \in Channels : subscriptions'[ch] = subscriptions[ch]
        BY <1>t, <1>m, <2>3, <3>4 DEF HandleDisconnect
      <4> QED
        BY <2>2, <2>3, <3>4, <4>1 DEF HandleDisconnect
    <3> QED
      BY <1>2, <2>1, <3>2, <3>3, <3>4 DEF HandleRecv
  <2>4. CASE c = Machine
    <3> HIDE DEF p
    <3>0. ASSUME NEW t, Receive(c, t), \A ch \in Channels : subscriptions'[ch] = After(p, ch)
          PROVE  Less /\ Handled
      <4>1. inbox'[Machine] = Tail(inbox[Machine]) /\ p = Head(inbox[Machine])
        BY <1>t, <2>2, <2>4, <3>0 DEF p
      <4> QED
        BY <2>2, <2>4, <3>0, <4>1
    <3>1. CASE HandleConnect(c) \/ HandleExecute(c) \/ HandleRespondExecute(c)
      <4>1. PICK t \in {"connect", "execute", "respond_execute"} : Receive(c, t)
        BY <3>1 DEF HandleConnect, HandleExecute, HandleRespondExecute
      <4>2. UNCHANGED subscriptions
        BY <3>1 DEF HandleConnect, HandleExecute, HandleRespondExecute
      <4>3. \A ch \in Channels : subscriptions'[ch] = After(p, ch)
        BY <2>2, <4>1, <4>2 DEF After, Is
      <4> QED
        BY <3>0, <4>1, <4>3
    <3>2. CASE HandleDisconnect(c)
      <4>1. Receive(c, "disconnect")
        BY <3>2 DEF HandleDisconnect
      <4>2. \A ch \in Channels : subscriptions'[ch] = NoClient
        BY <1>m, <2>4, <3>2 DEF HandleDisconnect
      <4>3. \A ch \in Channels : subscriptions'[ch] = After(p, ch)
        BY <2>2, <4>1, <4>2 DEF After, Is
      <4> QED
        BY <3>0, <4>1, <4>3
    <3>3. CASE HandleSubscribe(c)
      <4>1. Receive(c, "subscribe")
        BY <3>3 DEF HandleSubscribe
      <4>2. subscriptions' = IF subscriptions[p.ch] = NoClient
                             THEN [subscriptions EXCEPT ![p.ch] = Machine] ELSE subscriptions
        BY <2>4, <3>3 DEF HandleSubscribe, p
      <4>3. p.ptype = "subscribe"
        BY <2>2, <4>1
      <4>4. ASSUME NEW ch \in Channels
            PROVE  subscriptions'[ch] = After(p, ch)
        <5>1. CASE p.ch = ch
          BY <1>t, <1>m, <4>2, <4>3, <5>1 DEF After, Is
        <5>2. CASE p.ch # ch
          BY <1>t, <4>2, <4>3, <5>2 DEF After, Is
        <5> QED
          BY <5>1, <5>2
      <4> QED
        BY <3>0, <4>1, <4>4
    <3>4. CASE HandleUnsubscribe(c)
      <4>1. Receive(c, "unsubscribe")
        BY <3>4 DEF HandleUnsubscribe
      <4>2. subscriptions' = IF subscriptions[p.ch] = Machine
                             THEN [subscriptions EXCEPT ![p.ch] = NoClient] ELSE subscriptions
        BY <2>4, <3>4 DEF HandleUnsubscribe, p
      <4>3. p.ptype = "unsubscribe"
        BY <2>2, <4>1
      <4>4. ASSUME NEW ch \in Channels
            PROVE  subscriptions'[ch] = After(p, ch)
        <5>1. CASE p.ch = ch
          BY <1>t, <1>m, <4>2, <4>3, <5>1 DEF After, Is
        <5>2. CASE p.ch # ch
          BY <1>t, <4>2, <4>3, <5>2 DEF After, Is
        <5> QED
          BY <5>1, <5>2
      <4> QED
        BY <3>0, <4>1, <4>4
    <3> HIDE DEF Less, Still, Handled
    <3>5. IgnoreRecv(c) => Less /\ Still
      BY DEF IgnoreRecv, serverVars, Less, Still
    <3> QED
      BY <1>2, <3>1, <3>2, <3>3, <3>4, <3>5 DEF HandleRecv
  <2> QED
    BY <2>3, <2>4
<1> QED
  BY <1>1, <1>2 DEF BrokerStep

\* What a VM sends nothing with.
VMSilent(v) ==
    \/ VMStart(v) \/ VMConnected(v) \/ VMTimeout(v) \/ VMSent(v) \/ VMNoContents(v)
    \/ VMRespond(v) \/ handle_call_function(v) \/ handle_define_component(v)
    \/ handle_delete_component(v) \/ handle_call_method(v) \/ VMStop(v) \/ VMSqueeze(v)
    \/ VMSqueezeTimeout(v) \/ VMSqueezed(v) \/ VMGoodbye(v) \/ VMReturn(v) \/ VMThrow(v)

LEMMA SilentVM ==
    ASSUME NEW v, VMSilent(v)
    PROVE  UNCHANGED <<inbox, subscriptions, used, lost>>
<1>1. CASE VMStart(v)
  BY <1>1 DEF VMStart, Connect, Dial, serverVars, ghostVars, peerVars
<1>2. ASSUME Listen(v) \/ TakeStop(v) \/ Close(v) \/ UNCHANGED vars
      PROVE  UNCHANGED <<inbox, subscriptions, used, lost>>
  BY <1>2 DEF Listen, TakeStop, Close, vars, brokerVars, serverVars, ghostVars, peerVars
<1>3. CASE VMConnected(v) \/ VMTimeout(v) \/ VMSent(v) \/ VMNoContents(v) \/ VMRespond(v)
  BY <1>2, <1>3 DEF VMConnected, VMTimeout, VMSent, VMNoContents, VMRespond, VMReceive
<1>4. CASE handle_call_function(v) \/ handle_define_component(v)
           \/ handle_delete_component(v) \/ handle_call_method(v)
  BY <1>2, <1>4 DEF handle_call_function, handle_define_component, handle_delete_component,
                    handle_call_method, VMExecute, VMReceive
<1>5. CASE VMStop(v) \/ VMSqueeze(v) \/ VMSqueezeTimeout(v) \/ VMSqueezed(v)
  BY <1>2, <1>5 DEF VMStop, VMSqueeze, VMSqueezeTimeout, VMSqueezed
<1>6. CASE VMGoodbye(v) \/ VMReturn(v) \/ VMThrow(v)
  BY <1>2, <1>6 DEF VMGoodbye, VMReturn, VMThrow
<1> QED
  BY <1>1, <1>3, <1>4, <1>5, <1>6 DEF VMSilent

\* What a VM sends, and what it does else.
VMSays(v, p) ==
    \/ VMSendConnect(v) /\ p.ptype = "connect"
    \/ VMSend(v) /\ p.ptype = Head(todo[v])[1] /\ p.ch = Head(todo[v])[2]
    \/ VMSendDisconnect(v) /\ p.ptype = "disconnect"
    \/ /\ VMReply(v) /\ p.ptype = "respond_execute" /\ p.tx = job[v][1]
       /\ p.ok => job[v][2] # "fail"

LEMMA VMSpeaks ==
    ASSUME TypeOK, NEW v \in VMs, VMStep(v)
    PROVE  /\ UNCHANGED subscriptions /\ used \subseteq used' /\ lost \subseteq lost'
           /\ \A c \in Clients \ {v} : inbox'[c] = inbox[c]
           /\ \/ VMSilent(v) /\ UNCHANGED <<inbox, lost>>
              \/ \E p : /\ VMSays(v, p)
                        /\ \/ inbox'[v] = Append(inbox[v], p)
                           \/ UNCHANGED inbox /\ lost' # {}
<1>t. inbox \in [Clients -> Seq(Packet)] /\ v \in Clients
  BY VMAssumption DEF TypeOK, BrokerTypeOK
<1> DEFINE Goal == /\ UNCHANGED subscriptions /\ used \subseteq used' /\ lost \subseteq lost'
                   /\ \A c \in Clients \ {v} : inbox'[c] = inbox[c]
                   /\ \/ VMSilent(v) /\ UNCHANGED <<inbox, lost>>
                      \/ \E p : /\ VMSays(v, p)
                                /\ \/ inbox'[v] = Append(inbox[v], p)
                                   \/ UNCHANGED inbox /\ lost' # {}
<1> SUFFICES Goal
  OBVIOUS
<1>1. ASSUME NEW p, Push(v, p), VMSays(v, p), UNCHANGED subscriptions, used \subseteq used'
      PROVE  Goal
  <2>1. CASE CanPush(v)
    <3>1. inbox' = [inbox EXCEPT ![v] = Append(@, p)] /\ UNCHANGED lost
      BY <1>1, <2>1 DEF Push
    <3>2. inbox'[v] = Append(inbox[v], p) /\ \A c \in Clients \ {v} : inbox'[c] = inbox[c]
      BY <1>t, <3>1
    <3> QED
      BY <1>1, <3>1, <3>2
  <2>2. CASE ~CanPush(v)
    <3>1. lost' = lost \cup {p.tx} /\ UNCHANGED inbox
      BY <1>1, <2>2 DEF Push
    <3> QED
      BY <1>1, <3>1
  <2> QED
    BY <2>1, <2>2
<1>2. CASE VMSilent(v)
  BY <1>2, SilentVM
<1>3. ASSUME NEW tx, NEW t, NEW ch, SendRequest(v, tx, t, ch, NoArg),
             \A p : p.ptype = t /\ p.ch = ch => VMSays(v, p)
      PROVE  Goal
  <2> DEFINE p == [ptype |-> t, tx |-> tx, ch |-> ch, arg |-> NoArg]
  <2>1. Push(v, p) /\ p.ptype = t /\ p.ch = ch
    BY <1>3 DEF SendRequest
  <2>2. UNCHANGED subscriptions /\ used \subseteq used'
    BY <1>3 DEF SendRequest, serverVars
  <2> HIDE DEF p, Goal
  <2> QED
    BY <1>1, <1>3, <2>1, <2>2
<1> HIDE DEF Goal
<1>4. CASE VMSendConnect(v)
  <2>1. \A p : p.ptype = "connect" => VMSays(v, p)
    BY <1>4 DEF VMSays
  <2>2. PICK tx \in NextTx(v) : SendRequest(v, tx, "connect", NoChannel, NoArg)
    BY <1>4 DEF VMSendConnect
  <2> QED
    BY <1>3, <2>1, <2>2
<1>5. CASE VMSend(v)
  <2>1. \A p : p.ptype = Head(todo[v])[1] /\ p.ch = Head(todo[v])[2] => VMSays(v, p)
    BY <1>5 DEF VMSays
  <2>2. PICK tx \in NextTx(v) : SendRequest(v, tx, Head(todo[v])[1], Head(todo[v])[2], NoArg)
    BY <1>5 DEF VMSend
  <2> QED
    BY <1>3, <2>1, <2>2
<1>6. CASE VMSendDisconnect(v)
  <2>1. \A p : p.ptype = "disconnect" => VMSays(v, p)
    BY <1>6 DEF VMSays
  <2>2. PICK tx \in NextTx(v) : SendRequest(v, tx, "disconnect", NoChannel, NoArg)
    BY <1>6 DEF VMSendDisconnect
  <2> QED
    BY <1>3, <2>1, <2>2
<1>7. CASE VMReply(v)
  <2>1. PICK fin \in BOOLEAN, ok \in BOOLEAN :
           /\ job[v][2] = "fail" => ~ok
           /\ SendReply(v, job[v][1], fin, ok)
    BY <1>7 DEF VMReply
  <2> DEFINE p == RespondExecute(job[v][1], next[job[v][1]], fin, ok)
  <2>2. p.ptype = "respond_execute" /\ p.tx = job[v][1] /\ p.ok = ok
    BY DEF RespondExecute
  <2>3. Push(v, p) /\ UNCHANGED subscriptions /\ used \subseteq used'
    BY <2>1 DEF SendReply, serverVars
  <2> HIDE DEF p
  <2>4. VMSays(v, p)
    BY <1>7, <2>1, <2>2 DEF VMSays
  <2> QED
    BY <1>1, <2>3, <2>4
<1> QED
  BY <1>2, <1>4, <1>5, <1>6, <1>7 DEF VMStep, VMSilent, Goal

\* A VM that is leaving does not come back.
LEMMA UpEnds ==
    ASSUME SysTypeInv, VMStep(Machine), Up'
    PROVE  Up
<1>t. vpc \in [VMs -> VMState] /\ Machine \in VMs
  BY OwnerAssumption DEF SysTypeInv, VMTypeOK
<1>0. ASSUME UNCHANGED vpc
      PROVE  Up
  BY <1>0 DEF Up
<1> USE DEF Up, Goto
<1>1. CASE \/ VMStart(Machine) \/ VMSendConnect(Machine) \/ VMConnected(Machine)
           \/ VMTimeout(Machine)
  BY <1>t, <1>1 DEF VMStart, VMSendConnect, VMConnected, VMTimeout
<1>2. CASE VMSend(Machine)
  BY <1>t, <1>2 DEF VMSend
<1>3. CASE VMSent(Machine) \/ VMReply(Machine)
  BY <1>t, <1>3 DEF VMSent, VMReply
<1>4. CASE VMNoContents(Machine) \/ VMRespond(Machine)
  BY <1>t, <1>4 DEF VMNoContents, VMRespond
<1>5. CASE handle_call_function(Machine) \/ handle_define_component(Machine)
           \/ handle_delete_component(Machine) \/ handle_call_method(Machine)
  BY <1>t, <1>5 DEF handle_call_function, handle_define_component,
                    handle_delete_component, handle_call_method, VMExecute
<1>6. CASE VMStop(Machine) \/ VMSqueezed(Machine) \/ VMSendDisconnect(Machine)
           \/ VMGoodbye(Machine) \/ VMReturn(Machine) \/ VMThrow(Machine)
  BY <1>t, <1>6 DEF VMStop, VMSqueezed, VMSendDisconnect, VMGoodbye, VMReturn, VMThrow
<1>7. CASE VMSqueeze(Machine) \/ VMSqueezeTimeout(Machine)
  BY <1>0, <1>7 DEF VMSqueeze, VMSqueezeTimeout
<1> QED
  BY <1>1, <1>2, <1>3, <1>4, <1>5, <1>6, <1>7 DEF VMStep

-----------------------------------------------------------------------------
(* What the others send.                                                   *)

\* What a runtime sends.
LEMMA RuntimeSpeaks ==
    ASSUME TypeOK, NEW r \in Runtimes, RuntimeStep(r)
    PROVE  /\ UNCHANGED subscriptions /\ used \subseteq used' /\ lost \subseteq lost'
           /\ r \in Clients \ {Machine} /\ inbox'[Machine] = inbox[Machine]
           /\ \A c \in Clients : \A p \in Range(inbox'[c]) :
                 \/ p \in Range(inbox[c])
                 \/ c # Machine /\ p.ptype \in {"connect", "disconnect", "execute"}
<1> DEFINE Goal == /\ UNCHANGED subscriptions /\ used \subseteq used' /\ lost \subseteq lost'
                   /\ inbox'[Machine] = inbox[Machine]
                   /\ \A c \in Clients : \A p \in Range(inbox'[c]) :
                         \/ p \in Range(inbox[c])
                         \/ c # Machine /\ p.ptype \in {"connect", "disconnect", "execute"}
<1>0. r \in Clients \ {Machine} /\ Machine \in Clients
  BY RuntimeAssumption, VMAssumption, OwnerAssumption
<1>t. BrokerTypeOK /\ inbox \in [Clients -> Seq(Packet)]
  BY DEF TypeOK, BrokerTypeOK
<1> SUFFICES Goal
  BY <1>0
<1>1. ASSUME NEW tx, NEW t \in {"connect", "disconnect", "execute"}, NEW ch, NEW arg,
             SendRequest(r, tx, t, ch, arg)
      PROVE  Goal
  <2> DEFINE p == [ptype |-> t, tx |-> tx, ch |-> ch, arg |-> arg]
  <2>1. /\ Push(r, p) /\ p.ptype = t /\ UNCHANGED subscriptions /\ used \subseteq used'
    BY <1>1 DEF SendRequest, serverVars
  <2> HIDE DEF p
  <2>2. lost \subseteq lost' /\ inbox'[Machine] = inbox[Machine]
    BY <1>0, <1>t, <2>1 DEF Push
  <2>3. \A c \in Clients : \A y \in Range(inbox'[c]) : y \in Range(inbox[c]) \/ (c = r /\ y = p)
    BY <1>0, <1>t, <2>1, PushRange
  <2> QED
    BY <1>0, <2>1, <2>2, <2>3
<1>2. ASSUME Connect(r) \/ Listen(r) \/ Close(r) \/ UNCHANGED vars
      PROVE  Goal
  <2>1. UNCHANGED <<inbox, subscriptions, used, lost>>
    BY <1>2 DEF Connect, Dial, Listen, Close, vars, brokerVars, serverVars, ghostVars, peerVars
  <2> QED
    BY <2>1
<1> HIDE DEF Goal
<1>3. CASE RTConnect(r)
  BY <1>2, <1>3 DEF RTConnect
<1>4. CASE RTSendConnect(r)
  BY <1>1, <1>4 DEF RTSendConnect
<1>5. CASE RTStop(r)
  BY <1>1, <1>5 DEF RTStop
<1>6. CASE RTCall(r)
  BY <1>1, <1>6 DEF RTCall
<1>7. CASE RTConnected(r) \/ RTListen(r)
  BY <1>2, <1>7 DEF RTConnected, RTListen, Keep
<1>8. CASE RTConnectTimeout(r) \/ RTTake(r) \/ RTDisconnected(r)
  BY <1>2, <1>8 DEF RTConnectTimeout, RTTake, RTDisconnected
<1> QED
  BY <1>3, <1>4, <1>5, <1>6, <1>7, <1>8 DEF RuntimeStep

\* stop_threads sends the broker nothing.
LEMMA StopSends ==
    ASSUME stop_threads
    PROVE  /\ UNCHANGED <<inbox, outbox, subscriptions, used, lost>>
           /\ UNCHANGED <<vpc, todo, components, job>>
           /\ UNCHANGED <<store, call, what>>
<1>1. CASE RTStopVM
  BY <1>1 DEF RTStopVM, vm_stop, Stop, vars, brokerVars, serverVars, clientVars, ghostVars,
              peerVars, vmVars
<1>2. CASE RTJoinVM
  BY <1>2 DEF RTJoinVM, StopBroker, BrokerStop, serverVars, clientVars, ghostVars, peerVars,
              vmVars
<1>3. CASE RTJoinBroker
  BY <1>3 DEF RTJoinBroker, vars, brokerVars, serverVars, clientVars, ghostVars, peerVars,
              vmVars
<1> QED
  BY <1>1, <1>2, <1>3 DEF stop_threads

LEMMA MailStep ==
    ASSUME VMs = {Machine}, TypeOK, SysTypeInv, MailInv, [SysNext]_sysVars
    PROVE  MailInv'
<1>t. /\ inbox \in [Clients -> Seq(Packet)] /\ Machine \in Clients
      /\ what \in [TxIds -> Calls \cup {Nothing}]
  BY OwnerAssumption, VMAssumption DEF TypeOK, BrokerTypeOK, SysTypeInv, RuntimeTypeOK
<1>m. ASSUME \A c \in Clients : \A p \in Range(inbox'[c]) :
                \/ p \in Range(inbox[c])
                \/ /\ c # Machine => p.ptype \notin {"subscribe", "unsubscribe", "respond_execute"}
                   /\ c = Machine /\ p.ptype = "disconnect" => ~Up',
             Up' => Up,
             \A ch \in Channels : subscriptions'[ch] \in {subscriptions[ch], Machine, NoClient},
             \A tx \in TxIds : what'[tx] # Nothing => what[tx] # Nothing \/ tx \in used',
             used \subseteq used'
      PROVE  MailInv'
  <2>1. \A c \in Clients \ {Machine} : \A p \in Range(inbox'[c]) :
           p.ptype \notin {"subscribe", "unsubscribe", "respond_execute"}
    BY <1>m DEF MailInv
  <2>2. \A p \in Range(inbox'[Machine]) : p.ptype = "disconnect" => ~Up'
    BY <1>t, <1>m DEF MailInv
  <2>3. \A ch \in Channels : subscriptions'[ch] \in {Machine, NoClient}
    BY <1>m DEF MailInv
  <2>4. \A tx \in TxIds : what'[tx] # Nothing => tx \in used'
    BY <1>m DEF MailInv
  <2> QED
    BY <2>1, <2>2, <2>3, <2>4 DEF MailInv
<1>1. CASE BrokerTurn
  <2>1. BrokerStep /\ UNCHANGED <<used, what, vpc>>
    BY <1>1 DEF BrokerTurn, BrokerAct, peerVars, vmVars, rtVars
  <2>2. \A c \in Clients : Range(inbox'[c]) \subseteq Range(inbox[c])
    BY <2>1, BrokerHandles
  <2>3. \A ch \in Channels : subscriptions'[ch] \in {subscriptions[ch], Machine, NoClient}
    BY <2>1, BrokerHandles DEF After
  <2>4. Up' <=> Up
    BY <2>1 DEF Up
  <2> QED
    BY <1>m, <2>1, <2>2, <2>3, <2>4
<1>2. CASE stop_threads
  <2>1. UNCHANGED <<inbox, subscriptions, used, what, vpc>>
    BY <1>2, StopSends
  <2>2. Up' <=> Up
    BY <2>1 DEF Up
  <2> QED
    BY <1>m, <2>1, <2>2
<1>3. ASSUME VMTurn(Machine)
      PROVE  MailInv'
  <2>0. VMStep(Machine) /\ UNCHANGED what /\ Machine \in VMs
    BY <1>3, OwnerAssumption DEF VMTurn, rtVars
  <2>1. Up' => Up
    BY <2>0, UpEnds
  <2>2. /\ UNCHANGED subscriptions /\ used \subseteq used'
        /\ \A c \in Clients \ {Machine} : inbox'[c] = inbox[c]
    BY <2>0, VMSpeaks
  <2>3. ASSUME NEW p, VMSays(Machine, p), p.ptype = "disconnect"
        PROVE  ~Up'
    <3>1. VMSendDisconnect(Machine) \/ (VMSend(Machine) /\ p.ptype = Head(todo[Machine])[1])
      BY <2>3 DEF VMSays
    <3>2. ~(VMSend(Machine) /\ p.ptype = Head(todo[Machine])[1])
      <4>1. VMSend(Machine) => Head(todo[Machine]) \in Sends
        BY <2>0 DEF VMSend, SysTypeInv, VMTypeOK, Sends
      <4> QED
        BY <2>3, <4>1 DEF Sends
    <3>3. vpc \in [VMs -> VMState]
      BY DEF SysTypeInv, VMTypeOK
    <3> QED
      BY <2>0, <3>1, <3>2, <3>3 DEF VMSendDisconnect, Goto, Up
  <2>4. \A p \in Range(inbox'[Machine]) :
           p \in Range(inbox[Machine]) \/ (p.ptype = "disconnect" => ~Up')
    <3>1. ASSUME NEW q, VMSays(Machine, q), inbox'[Machine] = Append(inbox[Machine], q)
          PROVE  \A p \in Range(inbox'[Machine]) : p \in Range(inbox[Machine]) \/ p = q
      <4>1. inbox[Machine] \in Seq(Packet)
        BY <1>t
      <4> QED
        BY <3>1, <4>1, QueueRange
    <3>2. \/ UNCHANGED inbox
          \/ \E q : VMSays(Machine, q) /\ inbox'[Machine] = Append(inbox[Machine], q)
      BY <2>0, VMSpeaks
    <3> QED
      BY <2>3, <3>1, <3>2
  <2>5. \A c \in Clients : \A p \in Range(inbox'[c]) :
                \/ p \in Range(inbox[c])
                \/ /\ c # Machine => p.ptype \notin {"subscribe", "unsubscribe", "respond_execute"}
                   /\ c = Machine /\ p.ptype = "disconnect" => ~Up'
    BY <2>2, <2>4
  <2> QED
    BY <1>m, <2>0, <2>1, <2>2, <2>5
<1>4. ASSUME NEW r \in Runtimes, RuntimeTurn(r)
      PROVE  MailInv'
  <2>0. RuntimeStep(r) /\ UNCHANGED vpc
    BY <1>4 DEF RuntimeTurn, vmVars
  <2>1. Up' <=> Up
    BY <2>0 DEF Up
  <2>2. /\ UNCHANGED subscriptions /\ used \subseteq used'
        /\ \A c \in Clients : \A p \in Range(inbox'[c]) :
              \/ p \in Range(inbox[c])
              \/ c # Machine /\ p.ptype \in {"connect", "disconnect", "execute"}
    BY <2>0, RuntimeSpeaks
  <2>3. \A tx \in TxIds : what'[tx] # Nothing => what[tx] # Nothing \/ tx \in used'
    <3>1. CASE RTCall(r)
      <4>1. PICK tx \in NextTx(r), c \in Calls :
              SendRequest(r, tx, "execute", c.ch, c.arg) /\ what' = [what EXCEPT ![tx] = c]
        BY <3>1 DEF RTCall
      <4>2. tx \in used'
        BY <4>1 DEF SendRequest
      <4> QED
        BY <1>t, <4>1, <4>2
    <3>2. CASE ~RTCall(r)
      <4>1. UNCHANGED what
        BY <2>0, <3>2 DEF RuntimeStep, RTConnect, RTSendConnect, RTConnected,
               RTConnectTimeout, RTListen, RTTake, RTStop, RTDisconnected
      <4> QED
        BY <4>1
    <3> QED
      BY <3>1, <3>2
  <2> QED
    BY <1>m, <2>1, <2>2, <2>3
<1>5. CASE UNCHANGED sysVars
  <2>1. UNCHANGED <<inbox, subscriptions, used, what, vpc>>
    BY <1>5 DEF sysVars, vars, brokerVars, serverVars, peerVars, vmVars, rtVars
  <2>2. Up' <=> Up
    BY <2>1 DEF Up
  <2> QED
    BY <1>m, <2>1, <2>2
<1> QED
  BY <1>1, <1>2, <1>3, <1>4, <1>5 DEF SysNext

-----------------------------------------------------------------------------
(* Channels, and the lists a handler is to send.                           *)

\* A channel tells what it is for.
LEMMA ChannelsApart ==
    ASSUME NEW k \in CompNames, NEW ch \in ComponentChannels(k)
    PROVE  /\ ch \in Channels /\ ch \notin FunctionChannels /\ ch \notin FactoryChannels
           /\ \A l \in CompNames : ch \in ComponentChannels(l) => l = k
<1>1. ch \in Channels
  BY ChannelSets
<1>2. /\ ch[1] \in {"delete_component", "call_method"} /\ ch[2] = k
      /\ \A l \in CompNames : ch \in ComponentChannels(l) => ch[2] = l
  BY DEF ComponentChannels, MethodChannels, DeleteComponent, CallMethod
<1>3. \A x \in FunctionChannels \cup FactoryChannels :
         x[1] \in {"call_function", "define_component"}
  BY DEF FunctionChannels, FactoryChannels, CallFunction, DefineComponent
<1> QED
  BY <1>1, <1>2, <1>3

\* What is in a list that has been put together.
LEMMA ListRange ==
    ASSUME NEW p \in Seq(Sends), NEW q \in Seq(Sends)
    PROVE  p \o q \in Seq(Sends) /\ Range(p \o q) = Range(p) \cup Range(q)
<1>1. /\ p \o q \in Seq(Sends)
      /\ \A x : (\E i \in DOMAIN (p \o q) : (p \o q)[i] = x)
             <=> (\E i \in DOMAIN p : p[i] = x) \/ (\E i \in DOMAIN q : q[i] = x)
  BY ListConcat
<1>2. ASSUME NEW l, NEW x
      PROVE  x \in Range(l) <=> \E i \in DOMAIN l : l[i] = x
  BY DEF Range
<1>3. \A x : x \in Range(p \o q) <=> x \in Range(p) \/ x \in Range(q)
  BY <1>1, <1>2, Zenon
<1> QED
  BY <1>1, <1>3

DefineList(k) == Subscribes({DeleteComponent(k)}) \o Subscribes(MethodChannels(k))
DeleteList(k) == Unsubscribes(MethodChannels(k)) \o Unsubscribes({DeleteComponent(k)})
StopList(ks) == Unsubscribes(FunctionChannels) \o Unsubscribes(FactoryChannels)
                   \o Unsubscribes(UNION {ComponentChannels(k) : k \in ks})

LEMMA SendsRange ==
    ASSUME NEW chs, IsFiniteSet(chs), chs \subseteq Channels
    PROVE  /\ Subscribes(chs) \in Seq(Sends) /\ Unsubscribes(chs) \in Seq(Sends)
           /\ Range(Subscribes(chs)) = {<<"subscribe", ch>> : ch \in chs}
           /\ Range(Unsubscribes(chs)) = {<<"unsubscribe", ch>> : ch \in chs}
<1> DEFINE s == Subscribes(chs)
           u == Unsubscribes(chs)
<1>1. /\ s \in Seq(Sends) /\ u \in Seq(Sends)
      /\ \A ch \in chs : \E i \in DOMAIN s : s[i] = <<"subscribe", ch>>
      /\ \A ch \in chs : \E i \in DOMAIN u : u[i] = <<"unsubscribe", ch>>
      /\ \A i \in DOMAIN s : \E ch \in chs : s[i] = <<"subscribe", ch>>
      /\ \A i \in DOMAIN u : \E ch \in chs : u[i] = <<"unsubscribe", ch>>
  BY SendsList
<1> HIDE DEF s, u
<1>2. Range(s) = {<<"subscribe", ch>> : ch \in chs}
  <2>1. \A x \in Range(s) : \E ch \in chs : x = <<"subscribe", ch>>
    BY <1>1 DEF Range
  <2>2. \A ch \in chs : <<"subscribe", ch>> \in Range(s)
    BY <1>1 DEF Range
  <2> QED
    BY <2>1, <2>2
<1>3. Range(u) = {<<"unsubscribe", ch>> : ch \in chs}
  <2>1. \A x \in Range(u) : \E ch \in chs : x = <<"unsubscribe", ch>>
    BY <1>1 DEF Range
  <2>2. \A ch \in chs : <<"unsubscribe", ch>> \in Range(u)
    BY <1>1 DEF Range
  <2> QED
    BY <2>1, <2>2
<1> QED
  BY <1>1, <1>2, <1>3 DEF s, u

\* The lists of a define and of a delete have the channels of their component.
LEMMA HandlerLists ==
    ASSUME NEW k \in CompNames
    PROVE  /\ DefineList(k) \in Seq(Sends) /\ DeleteList(k) \in Seq(Sends)
           /\ Range(DefineList(k)) = {<<"subscribe", ch>> : ch \in ComponentChannels(k)}
           /\ Range(DeleteList(k)) = {<<"unsubscribe", ch>> : ch \in ComponentChannels(k)}
<1> DEFINE D == {DeleteComponent(k)}
           M == MethodChannels(k)
<1>1. /\ IsFiniteSet(D) /\ D \subseteq Channels /\ IsFiniteSet(M) /\ M \subseteq Channels
      /\ ComponentChannels(k) = M \cup D
  BY ChannelSets, FS_Singleton
<1>2. DefineList(k) = Subscribes(D) \o Subscribes(M) /\ DeleteList(k) = Unsubscribes(M) \o Unsubscribes(D)
  BY DEF DefineList, DeleteList
<1> HIDE DEF D, M
<1>3. /\ Subscribes(D) \in Seq(Sends) /\ Unsubscribes(D) \in Seq(Sends)
      /\ Subscribes(M) \in Seq(Sends) /\ Unsubscribes(M) \in Seq(Sends)
  BY <1>1, SendsRange
<1>4. /\ Range(Subscribes(D)) = {<<"subscribe", ch>> : ch \in D}
      /\ Range(Unsubscribes(D)) = {<<"unsubscribe", ch>> : ch \in D}
      /\ Range(Subscribes(M)) = {<<"subscribe", ch>> : ch \in M}
      /\ Range(Unsubscribes(M)) = {<<"unsubscribe", ch>> : ch \in M}
  BY <1>1, SendsRange
<1>5. /\ DefineList(k) \in Seq(Sends)
      /\ Range(DefineList(k)) = Range(Subscribes(D)) \cup Range(Subscribes(M))
  BY <1>2, <1>3, ListRange
<1>6. /\ DeleteList(k) \in Seq(Sends)
      /\ Range(DeleteList(k)) = Range(Unsubscribes(M)) \cup Range(Unsubscribes(D))
  BY <1>2, <1>3, ListRange
<1> QED
  BY <1>1, <1>4, <1>5, <1>6

\* on_stop only takes back.
LEMMA StopLists ==
    ASSUME NEW ks \in SUBSET CompNames, IsFiniteSet(ks)
    PROVE  \A x \in Range(StopList(ks)) : \A ch : x # <<"subscribe", ch>>
<1> DEFINE A == Unsubscribes(FunctionChannels)
           B == Unsubscribes(FactoryChannels)
           f == [k \in ks |-> ComponentChannels(k)]
           U == UNION {f[k] : k \in DOMAIN f}
           C == Unsubscribes(U)
<1>1. U = UNION {ComponentChannels(k) : k \in ks}
  OBVIOUS
<1>2. IsFiniteSet({f[k] : k \in DOMAIN f})
  BY FiniteImage
<1>3. \A S \in {f[k] : k \in DOMAIN f} : IsFiniteSet(S) /\ S \subseteq Channels
  BY ChannelSets
<1> HIDE DEF f
<1>4. IsFiniteSet(U) /\ U \subseteq Channels
  BY <1>2, <1>3, FS_UNION
<1>5. StopList(ks) = (A \o B) \o C
  BY <1>1 DEF StopList
<1> HIDE DEF U
<1>6. /\ A \in Seq(Sends) /\ B \in Seq(Sends) /\ C \in Seq(Sends)
      /\ Range(A) = {<<"unsubscribe", ch>> : ch \in FunctionChannels}
      /\ Range(B) = {<<"unsubscribe", ch>> : ch \in FactoryChannels}
      /\ Range(C) = {<<"unsubscribe", ch>> : ch \in U}
  BY <1>4, ChannelSets, SendsRange
<1> HIDE DEF A, B, C
<1>7. A \o B \in Seq(Sends) /\ Range(A \o B) = Range(A) \cup Range(B)
  BY <1>6, ListRange
<1>8. Range(StopList(ks)) = Range(A \o B) \cup Range(C)
  BY <1>5, <1>6, <1>7, ListRange
<1> QED
  BY <1>6, <1>7, <1>8

-----------------------------------------------------------------------------
(* What the VM does.                                                       *)

\* Where nothing is left to send, and where no component is there yet.
Done == {"off", "connect", "handshake", "loop"}
Bare == {"off", "connect", "handshake", "import"}

\* What a step of the VM does to what it has and to what it has to send.
Idles ==
    /\ Held' = Held /\ todo'[Machine] = todo[Machine]
    /\ vpc'[Machine] \in Done => vpc[Machine] \in Done \/ todo[Machine] = <<>>
    /\ vpc'[Machine] \in Bare => vpc[Machine] \in Bare
Takes(k) ==
    /\ VMReceive(Machine, "execute")
    /\ vpc[Machine] = "loop" /\ vpc'[Machine] = "handle"
    /\ job'[Machine] # NoJob /\ job'[Machine][1] = Head(outbox[Machine]).tx
    /\ job'[Machine][2] = "ok"
    /\ k \in CompNames
Defines(k) ==
    /\ Takes(k) /\ Head(outbox[Machine]).tx \in Define(k)
    /\ Held' = Held \cup {k}
    /\ todo'[Machine] = DefineList(k)
Deletes(k) ==
    /\ Takes(k) /\ Head(outbox[Machine]).tx \in Delete(k)
    /\ k \in Held /\ Held' = Held \ {k}
    /\ todo'[Machine] = DeleteList(k)

\* An execute that is refused, or that is about no component.
Passes ==
    LET p == Head(outbox[Machine])
    IN  /\ VMReceive(Machine, "execute")
        /\ \/ job'[Machine] = <<p.tx, "fail", {}>>
           \/ /\ job'[Machine] = <<p.tx, "stream", {}>>
              /\ \A k : p.tx \notin Define(k) /\ p.tx \notin Delete(k)
Keeps == job'[Machine] \in {job[Machine], NoJob}

\* The VM has taken an execute: it is what somebody has asked for.
LEMMA ExecuteAsked ==
    ASSUME TypeOK, SysTypeInv, AskedInv, NEW i, VMExecute(Machine, i)
    PROVE  LET p == Head(outbox[Machine])
           IN  /\ p.tx \in TxIds /\ what[p.tx] = [ch |-> p.ch, arg |-> p.arg]
               /\ what[p.tx] \in Calls /\ p.ch[1] = i /\ p.ch \in Channels
<1> DEFINE p == Head(outbox[Machine])
<1>1. Machine \in Clients /\ outbox[Machine] \in Seq(Packet) /\ outbox[Machine] # <<>>
  BY OwnerAssumption, VMAssumption DEF TypeOK, BrokerTypeOK, VMExecute, VMReceive
<1>2. p \in Packet /\ p \in Range(outbox[Machine])
  BY <1>1, QueueType, QueueRange
<1>3. p.ptype = "execute" /\ p.ch[1] = i
  BY DEF VMExecute, VMReceive
<1>4. p.tx \in TxIds
  BY <1>2, PacketTypes
<1>5. what[p.tx] = [ch |-> p.ch, arg |-> p.arg] /\ what[p.tx] \in Calls
  BY <1>1, <1>2, <1>3 DEF AskedInv
<1>6. what[p.tx].ch = p.ch
  BY <1>5
<1>7. p.ch \in Channels
  BY <1>5, <1>6, CallsAssumption
<1> QED
  BY <1>3, <1>4, <1>5, <1>7

\* Outside a handler the VM is defining nothing.
LEMMA HeldAtRest ==
    ASSUME SysTypeInv, vpc[Machine] # "handle"
    PROVE  job[Machine] = NoJob /\ Held = components[Machine]
<1>1. job[Machine] = NoJob
  BY OwnerAssumption DEF SysTypeInv, JobInv
<1> QED
  BY <1>1 DEF Held, Known

LEMMA HeldKept ==
    ASSUME UNCHANGED <<components, job>>
    PROVE  Held' = Held
BY DEF Held, Known

LEMMA HeldType ==
    ASSUME SysTypeInv
    PROVE  Held \in SUBSET CompNames
<1>t. /\ components[Machine] \in SUBSET CompNames
      /\ job[Machine] \in (TxIds \X Plan \X SUBSET CompNames) \cup {NoJob}
  BY OwnerAssumption DEF SysTypeInv, VMTypeOK
<1>1. job[Machine] # NoJob => job[Machine][3] \in SUBSET CompNames
  BY <1>t
<1> QED
  BY <1>t, <1>1 DEF Held, Known

\* The answer to a define registers what was being defined.
LEMMA HeldReply ==
    ASSUME SysTypeInv, VMReply(Machine)
    PROVE  Held' = Held
<1>t. /\ Machine \in VMs /\ components \in [VMs -> SUBSET CompNames]
      /\ job \in [VMs -> (TxIds \X Plan \X SUBSET CompNames) \cup {NoJob}]
      /\ job[Machine] # NoJob
  BY OwnerAssumption DEF SysTypeInv, VMTypeOK, VMReply, JobInv
<1>1. CASE UNCHANGED <<components, job>>
  BY <1>1, HeldKept
<1>2. CASE /\ job' = [job EXCEPT ![Machine] = NoJob]
           /\ components' = [components EXCEPT ![Machine] = @ \cup job[Machine][3]]
  <2>1. job'[Machine] = NoJob /\ components'[Machine] = components[Machine] \cup job[Machine][3]
    BY <1>t, <1>2
  <2>2. Held' = components'[Machine]
    BY <2>1 DEF Held, Known
  <2>3. Held = components[Machine] \cup job[Machine][3]
    BY <1>t DEF Held, Known
  <2> QED
    BY <2>1, <2>2, <2>3
<1> QED
  BY <1>1, <1>2 DEF VMReply

LEMMA VMMoves ==
    ASSUME TypeOK, SysTypeInv, AskedInv, VMStep(Machine)
    PROVE  \/ Idles /\ (Keeps \/ Passes)
           \/ (VMConnected(Machine) \/ VMSend(Machine) \/ VMStop(Machine)) /\ Keeps
           \/ \E k : Defines(k) \/ Deletes(k)
<1> DEFINE M == Machine
           p == Head(outbox[M])
           Goal == \/ Idles /\ (Keeps \/ Passes)
                   \/ (VMConnected(M) \/ VMSend(M) \/ VMStop(M)) /\ Keeps
                   \/ \E k : Defines(k) \/ Deletes(k)
<1>t. /\ M \in VMs /\ vpc \in [VMs -> VMState]
      /\ components \in [VMs -> SUBSET CompNames]
      /\ todo \in [VMs -> Seq(Sends)]
      /\ job \in [VMs -> (TxIds \X Plan \X SUBSET CompNames) \cup {NoJob}]
  BY OwnerAssumption DEF SysTypeInv, VMTypeOK, Sends
<1> SUFFICES Goal
  OBVIOUS
<1>h. vpc[M] = "loop" => Held = components[M]
  BY HeldAtRest
<1>i. ASSUME NEW l, Goto(M, l), l \in Done => vpc[M] \in Done \/ todo[M] = <<>>,
             l \in Bare => vpc[M] \in Bare, UNCHANGED <<components, todo, job>>
      PROVE  Goal
  <2>1. vpc'[M] = l
    BY <1>t, <1>i DEF Goto
  <2> QED
    BY <1>i, <2>1, HeldKept DEF Idles, Keeps
<1>s. ASSUME UNCHANGED <<vpc, components, todo, job>>
      PROVE  Goal
  BY <1>s, HeldKept DEF Idles, Keeps
<1> HIDE DEF Goal
<1> USE DEF Done, Bare
<1>1. CASE VMStart(M) \/ VMSendConnect(M) \/ VMTimeout(M) \/ VMSent(M)
  BY <1>i, <1>1 DEF VMStart, VMSendConnect, VMTimeout, VMSent
<1>2. CASE VMConnected(M) \/ VMSend(M) \/ VMStop(M)
  BY <1>2 DEF VMConnected, VMSend, VMStop, Keeps, Goal
<1>3. CASE VMNoContents(M) \/ VMRespond(M) \/ VMSqueeze(M) \/ VMSqueezeTimeout(M)
  BY <1>s, <1>3 DEF VMNoContents, VMRespond, VMSqueeze, VMSqueezeTimeout, vmVars
<1>4. CASE VMSqueezed(M) \/ VMSendDisconnect(M) \/ VMGoodbye(M) \/ VMReturn(M) \/ VMThrow(M)
  BY <1>i, <1>4 DEF VMSqueezed, VMSendDisconnect, VMGoodbye, VMReturn, VMThrow
<1>5. CASE VMReply(M)
  <2>1. CASE UNCHANGED <<vpc, job, components>>
    BY <1>s, <1>5, <2>1 DEF VMReply
  <2>2. CASE Goto(M, "loop") /\ job' = [job EXCEPT ![M] = NoJob]
    <3>1. vpc'[M] = "loop" /\ job'[M] = NoJob
      BY <1>t, <2>2 DEF Goto
    <3>2. UNCHANGED todo /\ todo[M] = <<>> /\ vpc[M] = "handle"
      BY <1>5 DEF VMReply
    <3>3. Idles /\ Keeps
      BY <1>5, <3>1, <3>2, HeldReply DEF Idles, Keeps
    <3> QED
      BY <3>3 DEF Goal
  <2> QED
    BY <1>5, <2>1, <2>2 DEF VMReply
<1>e. ASSUME NEW i, VMExecute(M, i)
      PROVE  /\ VMReceive(M, "execute") /\ vpc[M] = "loop" /\ vpc'[M] = "handle"
             /\ p.tx \in TxIds /\ what[p.tx].ch = p.ch /\ what[p.tx].arg = p.arg
             /\ p.ch[1] = i /\ p.ch \in Channels
  <2>1. vpc'[M] = "handle"
    BY <1>t, <1>e DEF VMExecute, Goto
  <2>2. what[p.tx] = [ch |-> p.ch, arg |-> p.arg]
    BY <1>e, ExecuteAsked
  <2>3. what[p.tx].ch = p.ch /\ what[p.tx].arg = p.arg
    BY <2>2
  <2>4. VMReceive(M, "execute") /\ vpc[M] = "loop"
    BY <1>e DEF VMExecute
  <2> QED
    BY <1>e, <2>1, <2>3, <2>4, ExecuteAsked
<1>p. ASSUME NEW i, VMExecute(M, i), UNCHANGED <<components, todo>>,
             NEW plan \in Plan, job' = [job EXCEPT ![M] = <<p.tx, plan, {}>>],
             plan = "fail" \/ (plan = "stream" /\ i \notin {"define_component", "delete_component"})
      PROVE  Goal
  <2>1. /\ VMReceive(M, "execute") /\ vpc'[M] = "handle"
        /\ what[p.tx].ch = p.ch /\ p.ch[1] = i
    BY <1>e, <1>p
  <2>2. job'[M] = <<p.tx, plan, {}>>
    BY <1>t, <1>p
  <2>h. Held' = Held
    <3>1. job'[M] # NoJob /\ job'[M][3] = {}
      BY <2>2 DEF NoJob
    <3>2. components'[M] = components[M]
      BY <1>p
    <3>3. Held' = components'[M]
      BY <3>1 DEF Held, Known
    <3> QED
      BY <1>h, <1>e, <1>p, <3>2, <3>3
  <2>3. i \notin {"define_component", "delete_component"} =>
           \A k : p.tx \notin Define(k) /\ p.tx \notin Delete(k)
    <3>1. \A k : DeleteComponent(k)[1] = "delete_component"
      BY DEF DeleteComponent
    <3>2. \A ch \in FactoryChannels : ch[1] = "define_component"
      BY DEF FactoryChannels, DefineComponent
    <3> QED
      BY <2>1, <3>1, <3>2 DEF Define, Delete
  <2>4. Passes
    BY <1>p, <2>1, <2>2, <2>3 DEF Passes
  <2>5. Idles
    BY <1>p, <2>1, <2>h DEF Idles
  <2> QED
    BY <2>4, <2>5 DEF Goal
<1>6. CASE handle_call_function(M)
  <2>1. /\ VMExecute(M, "call_function") /\ UNCHANGED <<components, todo>>
        /\ job' = [job EXCEPT ![M] = <<p.tx, "stream", {}>>]
    BY <1>6 DEF handle_call_function
  <2>2. "stream" \in Plan /\ "call_function" \notin {"define_component", "delete_component"}
    BY DEF Plan
  <2> QED
    BY <1>p, <2>1, <2>2, Zenon
<1>7. CASE handle_call_method(M)
  <2>1. VMExecute(M, "call_method") /\ UNCHANGED <<components, todo>>
    BY <1>7 DEF handle_call_method
  <2>2. PICK plan \in {"stream", "fail"} : job' = [job EXCEPT ![M] = <<p.tx, plan, {}>>]
    BY <1>7 DEF handle_call_method
  <2>3. plan \in Plan /\ "call_method" \notin {"define_component", "delete_component"}
    BY <2>2 DEF Plan
  <2>4. plan = "stream" \/ plan = "fail"
    BY <2>2
  <2> QED
    BY <1>p, <2>1, <2>2, <2>3, <2>4, Zenon
<1>8. CASE handle_define_component(M)
  <2>1. VMExecute(M, "define_component")
    BY <1>8 DEF handle_define_component
  <2>0. UNCHANGED components
    BY <1>8 DEF handle_define_component
  <2>2. CASE job' = [job EXCEPT ![M] = <<p.tx, "fail", {}>>] /\ UNCHANGED todo
    BY <1>p, <2>0, <2>1, <2>2 DEF Plan
  <2>3. CASE /\ job' = [job EXCEPT ![M] = <<p.tx, "ok", {p.arg}>>]
             /\ todo' = [todo EXCEPT ![M] = Subscribes({DeleteComponent(p.arg)})
                                               \o Subscribes(MethodChannels(p.arg))]
    <3>j. job'[M] = <<p.tx, "ok", {p.arg}>>
      BY <1>t, <2>3
    <3>k. /\ job'[M] # NoJob /\ job'[M][1] = p.tx /\ job'[M][2] = "ok"
          /\ job'[M][3] = {p.arg}
      BY <3>j DEF NoJob
    <3>h. Held' = components[M] \cup {p.arg}
      BY <2>0, <3>k DEF Held, Known
    <3>1. /\ Held' = Held \cup {p.arg} /\ todo'[M] = DefineList(p.arg)
      BY <1>t, <1>h, <1>e, <2>1, <2>3, <3>h DEF DefineList
    <3>2. p.arg \in CompNames
      BY <1>t, <2>1, AskedHead DEF VMExecute, VMReceive
    <3>3. p.tx \in Define(p.arg)
      <4>1. p.ch \in FactoryChannels
        BY <1>e, <2>1, ChannelKinds
      <4> QED
        BY <1>e, <2>1, <4>1 DEF Define
    <3>4. Defines(p.arg)
      BY <1>e, <2>1, <3>k, <3>1, <3>2, <3>3 DEF Defines, Takes
    <3> QED
      BY <3>4 DEF Goal
  <2> QED
    BY <1>8, <2>2, <2>3 DEF handle_define_component
<1>9. CASE handle_delete_component(M)
  <2> DEFINE k == p.ch[2]
  <2>1. VMExecute(M, "delete_component")
    BY <1>9 DEF handle_delete_component
  <2>h. Held = components[M]
    BY <1>h, <1>e, <2>1
  <2>2. CASE k \notin Held
    <3>1. job' = [job EXCEPT ![M] = <<p.tx, "fail", {}>>] /\ UNCHANGED <<components, todo>>
      BY <1>9, <2>2, <2>h DEF handle_delete_component
    <3> QED
      BY <1>p, <2>1, <3>1 DEF Plan
  <2>3. CASE k \in Held
    <3>j. job'[M] = <<p.tx, "ok", {}>>
      BY <1>t, <1>9, <2>3, <2>h DEF handle_delete_component
    <3>k. /\ job'[M] # NoJob /\ job'[M][1] = p.tx /\ job'[M][2] = "ok"
          /\ job'[M][3] = {}
      BY <3>j DEF NoJob
    <3>0. components'[M] = components[M] \ {k} /\ todo'[M] = DeleteList(k)
      BY <1>t, <1>9, <2>3, <2>h DEF handle_delete_component, DeleteList
    <3>h. Held' = components'[M]
      BY <3>k DEF Held, Known
    <3>1. Held' = Held \ {k} /\ todo'[M] = DeleteList(k)
      BY <2>h, <3>0, <3>h
    <3>2. k \in CompNames
      BY <1>t, <2>3, <2>h
    <3>3. p.ch = DeleteComponent(k)
      BY <1>e, <2>1, ChannelKinds
    <3>4. p.tx \in Delete(k)
      BY <1>e, <2>1, <3>3 DEF Delete
    <3>5. Deletes(k)
      BY <1>e, <2>1, <2>3, <3>k, <3>1, <3>2, <3>4 DEF Deletes, Takes
    <3> QED
      BY <3>5 DEF Goal
  <2> QED
    BY <2>2, <2>3
<1> QED
  BY <1>1, <1>2, <1>3, <1>4, <1>5, <1>6, <1>7, <1>8, <1>9 DEF VMStep

-----------------------------------------------------------------------------
(* What it has yet to send is what it is about.                            *)

LEMMA TodoMoves ==
    ASSUME TypeOK, SysTypeInv, AskedInv, TodoInv, VMStep(Machine)
    PROVE  TodoInv'
<1> DEFINE M == Machine
<1>t. /\ M \in VMs /\ vpc \in [VMs -> VMState]
      /\ components \in [VMs -> SUBSET CompNames] /\ IsFiniteSet(components[M])
      /\ todo \in [VMs -> Seq(Sends)]
  BY OwnerAssumption DEF SysTypeInv, VMTypeOK, Sends
<1>u. Up' => Up
  BY UpEnds
<1>g. ASSUME vpc'[M] \in Done => todo'[M] = <<>>,
             vpc'[M] \in Bare => Held' = {},
             ASSUME NEW k \in CompNames, NEW ch \in ComponentChannels(k)
             PROVE  /\ <<"subscribe", ch>> \in Range(todo'[M]) => k \in Held'
                    /\ <<"unsubscribe", ch>> \in Range(todo'[M]) => ~Up' \/ k \notin Held'
      PROVE  TodoInv'
  BY <1>g DEF TodoInv, Done, Bare
<1> USE DEF Done, Bare
<1>a. /\ vpc[M] \in Done => todo[M] = <<>>
      /\ vpc[M] \in Bare => Held = {}
      /\ \A k \in CompNames : \A ch \in ComponentChannels(k) :
            /\ <<"subscribe", ch>> \in Range(todo[M]) => k \in Held
            /\ <<"unsubscribe", ch>> \in Range(todo[M]) => ~Up \/ k \notin Held
  BY DEF TodoInv
<1>1. CASE Idles
  BY <1>a, <1>g, <1>u, <1>1 DEF Idles
<1>2. CASE VMConnected(M)
  <2>1. /\ vpc[M] = "handshake" /\ vpc'[M] \in {"throw", "import"}
        /\ Held' = Held
    BY <1>t, <1>2, HeldKept DEF VMConnected, Goto
  <2>2. todo'[M] \in {<<>>, Subscribes(FunctionChannels \cup FactoryChannels)}
    BY <1>t, <1>2 DEF VMConnected
  <2>3. Range(Subscribes(FunctionChannels \cup FactoryChannels))
           = {<<"subscribe", ch>> : ch \in FunctionChannels \cup FactoryChannels}
    <3>1. IsFiniteSet(FunctionChannels \cup FactoryChannels)
      BY ChannelSets, FS_Union
    <3> QED
      BY <3>1, ChannelSets, SendsRange
  <2>4. \A x \in Range(todo'[M]) : \E ch \in FunctionChannels \cup FactoryChannels : x = <<"subscribe", ch>>
    <3>1. Range(<<>>) = {}
      BY DEF Range
    <3> QED
      BY <2>2, <2>3, <3>1
  <2>5. \A k \in CompNames : \A ch \in ComponentChannels(k) :
           <<"subscribe", ch>> \notin Range(todo'[M]) /\ <<"unsubscribe", ch>> \notin Range(todo'[M])
    BY <2>4, ChannelsApart
  <2> QED
    BY <1>a, <1>g, <2>1, <2>5
<1>3. CASE VMSend(M)
  <2>1. /\ vpc[M] \in {"import", "handle", "unsubscribe"} /\ vpc'[M] \in {vpc[M], "throw"}
        /\ Held' = Held
        /\ todo[M] # <<>> /\ todo'[M] = Tail(todo[M])
    BY <1>t, <1>3, HeldKept DEF VMSend, Goto
  <2>2. Range(todo'[M]) \subseteq Range(todo[M])
    BY <1>t, <2>1, QueueRange
  <2> QED
    BY <1>a, <1>g, <1>u, <2>1, <2>2
<1>4. CASE VMStop(M)
  <2>1. vpc'[M] = "unsubscribe" /\ todo'[M] = StopList(components[M])
    BY <1>t, <1>4 DEF VMStop, Goto, StopList
  <2>2. \A x \in Range(todo'[M]) : \A ch : x # <<"subscribe", ch>>
    BY <1>t, <2>1, StopLists
  <2>3. ~Up'
    BY <2>1 DEF Up
  <2> QED
    BY <1>g, <2>1, <2>2, <2>3
<1>5. ASSUME NEW k, Defines(k)
      PROVE  TodoInv'
  <2>1. vpc'[M] = "handle" /\ k \in CompNames /\ k \in Held'
    BY <1>5 DEF Defines, Takes
  <2>2. Range(todo'[M]) = {<<"subscribe", ch>> : ch \in ComponentChannels(k)}
    BY <1>5, <2>1, HandlerLists DEF Defines
  <2>3. ASSUME NEW l \in CompNames, NEW ch \in ComponentChannels(l)
        PROVE  /\ <<"subscribe", ch>> \in Range(todo'[M]) => l = k
               /\ <<"unsubscribe", ch>> \notin Range(todo'[M])
    BY <2>1, <2>2, ChannelsApart
  <2> QED
    BY <1>g, <2>1, <2>3
<1>6. ASSUME NEW k, Deletes(k)
      PROVE  TodoInv'
  <2>1. vpc'[M] = "handle" /\ k \in CompNames /\ k \notin Held'
    BY <1>6 DEF Deletes, Takes
  <2>2. Range(todo'[M]) = {<<"unsubscribe", ch>> : ch \in ComponentChannels(k)}
    BY <1>6, <2>1, HandlerLists DEF Deletes
  <2>3. ASSUME NEW l \in CompNames, NEW ch \in ComponentChannels(l)
        PROVE  /\ <<"unsubscribe", ch>> \in Range(todo'[M]) => l = k
               /\ <<"subscribe", ch>> \notin Range(todo'[M])
    BY <2>1, <2>2, ChannelsApart
  <2> QED
    BY <1>g, <2>1, <2>3
<1> QED
  BY <1>1, <1>2, <1>3, <1>4, <1>5, <1>6, VMMoves

\* Of what the VM has and has to send, nothing changes but by its own steps.
LEMMA OthersLeave ==
    ASSUME VMs = {Machine}, [SysNext]_sysVars, ~VMTurn(Machine)
    PROVE  UNCHANGED <<vpc, components, todo, job>> /\ (Up' <=> Up)
<1>1. CASE BrokerTurn \/ UNCHANGED sysVars
  BY <1>1 DEF BrokerTurn, sysVars, vmVars, Up
<1>2. CASE stop_threads
  BY <1>2, StopSends DEF Up
<1>3. ASSUME NEW r \in Runtimes, RuntimeTurn(r)
      PROVE  UNCHANGED <<vpc, components, todo, job>> /\ (Up' <=> Up)
  BY <1>3 DEF RuntimeTurn, vmVars, Up
<1> QED
  BY <1>1, <1>2, <1>3 DEF SysNext

LEMMA TodoStep ==
    ASSUME VMs = {Machine}, TypeOK, SysTypeInv, AskedInv, TodoInv, [SysNext]_sysVars
    PROVE  TodoInv'
<1>1. CASE VMTurn(Machine)
  BY <1>1, TodoMoves DEF VMTurn
<1>2. CASE ~VMTurn(Machine)
  BY <1>2, OthersLeave, HeldKept DEF TodoInv
<1> QED
  BY <1>1, <1>2

-----------------------------------------------------------------------------
(* Routes.                                                                 *)

Words == {"subscribe", "unsubscribe"}

\* A channel that is held as it is wanted, or comes to be.
RouteOf(k, ch, s, n) ==
    /\ s \in Words /\ (s = "subscribe" <=> k \in Held)
    /\ n \in Nat /\ n = Len(inbox[Machine]) + 1
    /\ <<s, ch>> \in Range(todo[Machine]) \/ Comes(ch, s, n)

LEMMA RoutesNow ==
    ASSUME TypeOK, RegistryInv, lost = {}, Up,
           NEW k \in CompNames, NEW ch \in ComponentChannels(k)
    PROVE  \E s, n : RouteOf(k, ch, s, n)
<1>1. Len(inbox[Machine]) + 1 \in Nat
  BY OwnerAssumption, VMAssumption DEF TypeOK, BrokerTypeOK
<1>2. <<Wanted(k), ch>> \in Range(todo[Machine]) \/ Comes(ch, Wanted(k), Len(inbox[Machine]) + 1)
  BY DEF RegistryInv
<1>3. Wanted(k) \in Words /\ (Wanted(k) = "subscribe" <=> k \in Held)
  BY DEF Wanted, Words
<1> QED
  BY <1>1, <1>2, <1>3 DEF RouteOf

LEMMA RoutesThen ==
    ASSUME \A k \in CompNames : \A ch \in ComponentChannels(k) :
              lost' = {} /\ Up' => \E s, n : RouteOf(k, ch, s, n)'
    PROVE  RegistryInv'
<1> SUFFICES ASSUME lost' = {}, Up', NEW k \in CompNames, NEW ch \in ComponentChannels(k)
             PROVE  \/ <<Wanted(k)', ch>> \in Range(todo'[Machine])
                    \/ Comes(ch, Wanted(k), Len(inbox[Machine]) + 1)'
  BY DEF RegistryInv
<1>1. PICK s, n : RouteOf(k, ch, s, n)'
  OBVIOUS
<1>2. s = Wanted(k)' /\ n = Len(inbox'[Machine]) + 1
  BY <1>1 DEF RouteOf, Words, Wanted
<1>3. <<s, ch>> \in Range(todo'[Machine]) \/ Comes(ch, s, n)'
  BY <1>1 DEF RouteOf
<1> QED
  BY <1>2, <1>3 DEF Comes

\* Nothing of a channel changes, or something else is sent.
LEMMA RouteKept ==
    ASSUME TypeOK, NEW k, NEW ch, NEW s, NEW n, RouteOf(k, ch, s, n),
           inbox'[Machine] = inbox[Machine], subscriptions'[ch] = subscriptions[ch],
           k \in Held' <=> k \in Held,
           todo'[Machine] = todo[Machine] \/ todo[Machine] = <<>>
    PROVE  RouteOf(k, ch, s, n)'
<1>1. inbox[Machine] \in Seq(Packet)
  BY OwnerAssumption, VMAssumption DEF TypeOK, BrokerTypeOK
<1>2. n \in Nat /\ n <= n
  BY DEF RouteOf
<1>3. Comes(ch, s, n) => Comes(ch, s, n)'
  BY <1>1, <1>2, ComesStays
<1>4. todo[Machine] = <<>> => <<s, ch>> \notin Range(todo[Machine])
  BY DEF Range
<1> QED
  BY <1>3, <1>4 DEF RouteOf

LEMMA RouteSent ==
    ASSUME TypeOK, NEW k, NEW ch, NEW s, NEW n, RouteOf(k, ch, s, n),
           NEW p, inbox'[Machine] = Append(inbox[Machine], p), ~Is(p, Opposite(s), ch),
           subscriptions'[ch] = subscriptions[ch],
           Held' = Held,
           \/ todo'[Machine] = todo[Machine]
           \/ /\ todo[Machine] # <<>> /\ todo'[Machine] = Tail(todo[Machine])
              /\ todo[Machine] \in Seq(Sends)
              /\ p.ptype = Head(todo[Machine])[1] /\ p.ch = Head(todo[Machine])[2]
    PROVE  RouteOf(k, ch, s, n + 1)'
<1> DEFINE q == inbox[Machine]
           t == todo[Machine]
<1>1. q \in Seq(Packet)
  BY OwnerAssumption, VMAssumption DEF TypeOK, BrokerTypeOK
<1>2. n \in Nat /\ n <= n + 1 /\ n + 1 \in Nat /\ n = Len(q) + 1 /\ s \in Words
      /\ (s = "subscribe" <=> k \in Held)
  BY DEF RouteOf
<1>3. Comes(ch, s, n) => Comes(ch, s, n + 1)'
  BY <1>1, <1>2, ComesAppend
<1>4. n + 1 = Len(inbox'[Machine]) + 1
  BY <1>1, <1>2
<1>5. ASSUME <<s, ch>> \in Range(t)
      PROVE  <<s, ch>> \in Range(todo'[Machine]) \/ Comes(ch, s, n + 1)'
  <2>1. CASE todo'[Machine] = t
    BY <1>5, <2>1
  <2>2. CASE /\ t # <<>> /\ todo'[Machine] = Tail(t) /\ t \in Seq(Sends)
             /\ p.ptype = Head(t)[1] /\ p.ch = Head(t)[2]
    <3>1. <<s, ch>> = Head(t) \/ <<s, ch>> \in Range(Tail(t))
      <4>1. PICK i \in DOMAIN t : t[i] = <<s, ch>>
        BY <1>5 DEF Range
      <4>2. i = 1 => t[i] = Head(t)
        BY <2>2
      <4>3. i # 1 => i - 1 \in DOMAIN Tail(t) /\ Tail(t)[i - 1] = t[i]
        BY <2>2
      <4>4. i # 1 => t[i] \in Range(Tail(t))
        BY <4>3 DEF Range
      <4> QED
        BY <4>1, <4>2, <4>4
    <3>2. ASSUME <<s, ch>> = Head(t)
          PROVE  Comes(ch, s, n + 1)'
      <4>1. Head(t)[1] = s /\ Head(t)[2] = ch
        BY <3>2
      <4>2. Is(p, s, ch)
        BY <2>2, <4>1 DEF Is
      <4>3. Comes(ch, s, Len(q) + 1)'
        BY <1>1, <1>2, <4>2, ComesPut DEF Words
      <4>4. \A m : m = Len(inbox'[Machine]) + 1 /\ Comes(ch, s, Len(q) + 1)' => Comes(ch, s, m)'
        BY DEF Comes
      <4> QED
        BY <1>4, <4>3, <4>4
    <3> QED
      BY <2>2, <3>1, <3>2
  <2> QED
    BY <2>1, <2>2
<1> QED
  BY <1>2, <1>3, <1>4, <1>5 DEF RouteOf

\* The broker handles one packet of the VM, or none.
LEMMA RouteHandled ==
    ASSUME TypeOK, MailInv, Up, BrokerStep, UNCHANGED <<todo, Held>>,
           NEW k \in CompNames, NEW ch \in ComponentChannels(k), NEW s, NEW n,
           RouteOf(k, ch, s, n)
    PROVE  \E m : RouteOf(k, ch, s, m)'
<1> DEFINE q == inbox[Machine]
<1>t. q \in Seq(Packet) /\ ch \in Channels
  BY OwnerAssumption, VMAssumption, ChannelSets DEF TypeOK, BrokerTypeOK
<1>1. CASE inbox'[Machine] = q /\ subscriptions'[ch] = subscriptions[ch]
  BY <1>1, RouteKept
<1>2. CASE /\ q # <<>> /\ inbox'[Machine] = Tail(q)
           /\ subscriptions'[ch] = After(Head(q), ch)
  <2>1. PICK m \in Nat : m = Len(inbox'[Machine]) + 1 /\ n = m + 1 /\ n <= m + 1
    <3>1. Len(Tail(q)) \in Nat /\ Len(q) = Len(Tail(q)) + 1
      BY <1>t, <1>2
    <3> QED
      BY <1>2, <3>1 DEF RouteOf
  <2>2. Head(q).ptype # "disconnect"
    <3>1. Head(q) \in Range(q)
      BY <1>t, <1>2, QueueRange
    <3> QED
      BY <3>1 DEF MailInv
  <2>3. n \in Nat /\ s \in {"subscribe", "unsubscribe"} /\ (s = "subscribe" <=> k \in Held)
    BY DEF RouteOf, Words
  <2>4. Comes(ch, s, n) => Comes(ch, s, m)'
    BY <1>t, <1>2, <2>1, <2>2, <2>3, ComesTake
  <2> QED
    BY <2>1, <2>3, <2>4 DEF RouteOf, Words
<1> QED
  BY <1>t, <1>1, <1>2, BrokerHandles

\* The VM takes a step.
LEMMA RouteMoves ==
    ASSUME TypeOK, SysTypeInv, AskedInv, TodoInv, VMStep(Machine), Up, Up', lost' = {},
           NEW k \in CompNames, NEW ch \in ComponentChannels(k), NEW s, NEW n,
           RouteOf(k, ch, s, n)
    PROVE  \E r, m : RouteOf(k, ch, r, m)'
<1> DEFINE M == Machine
           Goal == \E r, m : RouteOf(k, ch, r, m)'
<1>t. /\ M \in VMs /\ vpc \in [VMs -> VMState] /\ todo \in [VMs -> Seq(Sends)]
      /\ components \in [VMs -> SUBSET CompNames]
      /\ inbox[M] \in Seq(Packet)
      /\ vpc[M] \in Done => todo[M] = <<>>
  BY OwnerAssumption, VMAssumption
  DEF SysTypeInv, VMTypeOK, Sends, TodoInv, Done, TypeOK, BrokerTypeOK
<1>n. /\ s \in Words /\ (s = "subscribe" <=> k \in Held)
      /\ n \in Nat /\ n = Len(inbox[M]) + 1
  BY DEF RouteOf
<1> SUFFICES Goal
  OBVIOUS
<1> HIDE DEF Goal
<1>s. UNCHANGED subscriptions
  BY <1>t, VMSpeaks
<1>1. ASSUME VMSilent(M), UNCHANGED inbox
      PROVE  Goal
  <2>k. ASSUME k \in Held' <=> k \in Held,
               todo'[M] = todo[M] \/ todo[M] = <<>>
        PROVE  Goal
    BY <1>1, <1>s, <2>k, RouteKept DEF Goal
  <2>0. UNCHANGED used
    BY <1>1, SilentVM
  <2>1. CASE Idles
    BY <2>k, <2>1 DEF Idles
  <2>2. CASE VMConnected(M)
    <3>1. vpc[M] = "handshake" /\ UNCHANGED Held
      BY <2>2, HeldKept DEF VMConnected
    <3> QED
      BY <1>t, <2>k, <3>1 DEF Done
  <2>3. CASE VMSend(M)
    <3>1. PICK tx \in NextTx(M) : tx \notin used /\ used' = used \cup {tx}
      BY <2>3 DEF VMSend, SendRequest
    <3> QED
      BY <2>0, <3>1
  <2>4. CASE VMStop(M)
    <3>1. vpc'[M] = "unsubscribe"
      BY <1>t, <2>4 DEF VMStop, Goto
    <3> QED
      BY <3>1 DEF Up
  <2>5. ASSUME NEW l, Defines(l) \/ Deletes(l)
        PROVE  Goal
    <3>1. vpc[M] = "loop" /\ l \in CompNames
      BY <2>5 DEF Defines, Deletes, Takes
    <3>2. todo[M] = <<>>
      BY <1>t, <3>1 DEF Done
    <3>3. CASE l # k
      BY <2>k, <2>5, <3>2, <3>3 DEF Defines, Deletes
    <3>4. CASE l = k
      <4>1. n = Len(inbox'[M]) + 1
        BY <1>n, <1>1
      <4>2. CASE Defines(k)
        <5>1. k \in Held' /\ <<"subscribe", ch>> \in Range(todo'[M])
          BY <4>2, HandlerLists DEF Defines
        <5>2. RouteOf(k, ch, "subscribe", n)'
          BY <1>n, <4>1, <5>1 DEF RouteOf, Words
        <5> QED
          BY <5>2 DEF Goal
      <4>3. CASE Deletes(k)
        <5>1. k \notin Held' /\ <<"unsubscribe", ch>> \in Range(todo'[M])
          BY <4>3, HandlerLists DEF Deletes
        <5>2. RouteOf(k, ch, "unsubscribe", n)'
          BY <1>n, <4>1, <5>1 DEF RouteOf, Words
        <5> QED
          BY <5>2 DEF Goal
      <4> QED
        BY <2>5, <3>4, <4>2, <4>3
    <3> QED
      BY <3>3, <3>4
  <2> QED
    BY <2>1, <2>2, <2>3, <2>4, <2>5, VMMoves
<1>2. ASSUME NEW p, VMSays(M, p), inbox'[M] = Append(inbox[M], p)
      PROVE  Goal
  <2>s. ASSUME ~Is(p, Opposite(s), ch), Held' = Held,
               \/ todo'[M] = todo[M]
               \/ /\ todo[M] # <<>> /\ todo'[M] = Tail(todo[M])
                  /\ p.ptype = Head(todo[M])[1] /\ p.ch = Head(todo[M])[2]
        PROVE  Goal
    BY <1>2, <1>s, <1>t, <2>s, RouteSent DEF Goal
  <2>o. Opposite(s) \in Words
    BY DEF Opposite, Words
  <2>1. CASE VMSendConnect(M) /\ p.ptype = "connect"
    BY <2>s, <2>o, <2>1, HeldKept DEF VMSendConnect, Is, Words
  <2>2. CASE VMSend(M) /\ p.ptype = Head(todo[M])[1] /\ p.ch = Head(todo[M])[2]
    <3>1. Held' = Held /\ todo[M] # <<>> /\ todo'[M] = Tail(todo[M])
      BY <1>t, <2>2, HeldKept DEF VMSend
    <3>2. Head(todo[M]) \in Range(todo[M]) /\ Head(todo[M]) \in Sends
      BY <1>t, <3>1, QueueRange, QueueType
    <3>3. ~Is(p, Opposite(s), ch)
      <4>1. SUFFICES ASSUME Is(p, Opposite(s), ch)
                     PROVE  FALSE
        OBVIOUS
      <4>2. Head(todo[M]) = <<Opposite(s), ch>>
        BY <2>2, <3>2, <4>1 DEF Is, Sends
      <4>3. /\ <<"subscribe", ch>> \in Range(todo[M]) => k \in Held
            /\ <<"unsubscribe", ch>> \in Range(todo[M]) => k \notin Held
        BY DEF TodoInv
      <4> QED
        BY <1>n, <3>2, <4>2, <4>3 DEF Opposite, Words
    <3> QED
      BY <2>s, <2>2, <3>1, <3>3
  <2>3. CASE VMSendDisconnect(M)
    BY <2>3 DEF VMSendDisconnect, Up
  <2>4. CASE VMReply(M) /\ p.ptype = "respond_execute"
    BY <2>s, <2>o, <2>4, HeldReply DEF VMReply, Is, Words
  <2> QED
    BY <1>2, <2>1, <2>2, <2>3, <2>4 DEF VMSays
<1> QED
  BY <1>t, <1>1, <1>2, VMSpeaks

-----------------------------------------------------------------------------
(* The broker and the VM agree.                                            *)

\* What has been dropped stays dropped.
LEMMA BrokerDrops ==
    ASSUME BrokerStep
    PROVE  lost \subseteq lost'
<1>d. ASSUME NEW c, NEW p, Deliver(c, p)
      PROVE  lost \subseteq lost'
  BY <1>d DEF Deliver
<1>1. CASE Accept \/ Register \/ Stopped
  BY <1>1 DEF Accept, Register, Stopped, ghostVars
<1>2. ASSUME NEW c \in Clients, HandleRecv(c)
      PROVE  lost \subseteq lost'
  <2>1. CASE IgnoreRecv(c)
    BY <2>1 DEF IgnoreRecv, ghostVars
  <2>2. CASE HandleConnect(c) \/ HandleDisconnect(c) \/ HandleSubscribe(c) \/ HandleUnsubscribe(c)
    BY <1>d, <2>2 DEF HandleConnect, HandleDisconnect, HandleSubscribe, HandleUnsubscribe
  <2>3. CASE HandleExecute(c)
    BY <1>d, <2>3 DEF HandleExecute
  <2>4. CASE HandleRespondExecute(c)
    BY <1>d, <2>4 DEF HandleRespondExecute
  <2> QED
    BY <1>2, <2>1, <2>2, <2>3, <2>4 DEF HandleRecv
<1> QED
  BY <1>1, <1>2 DEF BrokerStep

LEMMA DropsStay ==
    ASSUME VMs = {Machine}, TypeOK, [SysNext]_sysVars
    PROVE  lost \subseteq lost'
<1>1. CASE BrokerTurn
  BY <1>1, BrokerDrops DEF BrokerTurn, BrokerAct
<1>2. CASE stop_threads
  BY <1>2, StopSends
<1>3. CASE VMTurn(Machine)
  BY <1>3, VMSpeaks, OwnerAssumption DEF VMTurn
<1>4. ASSUME NEW r \in Runtimes, RuntimeTurn(r)
      PROVE  lost \subseteq lost'
  BY <1>4, RuntimeSpeaks DEF RuntimeTurn
<1>5. CASE UNCHANGED sysVars
  BY <1>5 DEF sysVars, vars, brokerVars, ghostVars
<1> QED
  BY <1>1, <1>2, <1>3, <1>4, <1>5 DEF SysNext

LEMMA RegistryStep ==
    ASSUME VMs = {Machine}, TypeOK, SysTypeInv, AskedInv, MailInv, TodoInv, RegistryInv,
           [SysNext]_sysVars
    PROVE  RegistryInv'
<1>t. inbox \in [Clients -> Seq(Packet)] /\ Machine \in Clients /\ Machine \in VMs
  BY OwnerAssumption, VMAssumption DEF TypeOK, BrokerTypeOK
<1> SUFFICES ASSUME lost' = {}, Up', NEW k \in CompNames, NEW ch \in ComponentChannels(k)
             PROVE  \E s, n : RouteOf(k, ch, s, n)'
  BY RoutesThen
<1>1. lost = {}
  BY DropsStay
<1>2. Up
  <2>1. CASE VMTurn(Machine)
    BY <2>1, UpEnds DEF VMTurn
  <2> QED
    BY <2>1, OthersLeave
<1>3. PICK s, n : RouteOf(k, ch, s, n)
  BY <1>1, <1>2, RoutesNow
<1>c. ch \in Channels
  BY ChannelSets
<1>4. CASE BrokerTurn
  <2>1. BrokerStep /\ UNCHANGED <<todo, Held>>
    BY <1>4, HeldKept DEF BrokerTurn, BrokerAct, vmVars
  <2> QED
    BY <1>2, <1>3, <2>1, RouteHandled
<1>5. CASE VMTurn(Machine)
  <2>1. VMStep(Machine)
    BY <1>5 DEF VMTurn
  <2> QED
    BY <1>2, <1>3, <2>1, RouteMoves
<1>6. ASSUME inbox'[Machine] = inbox[Machine],
             UNCHANGED <<subscriptions, todo, components, job>>
      PROVE  \E m : RouteOf(k, ch, s, m)'
  BY <1>3, <1>6, RouteKept, HeldKept
<1>7. CASE stop_threads
  BY <1>6, <1>7, StopSends
<1>8. ASSUME NEW r \in Runtimes, RuntimeTurn(r)
      PROVE  \E m : RouteOf(k, ch, s, m)'
  BY <1>6, <1>8, RuntimeSpeaks DEF RuntimeTurn, vmVars
<1>9. CASE UNCHANGED sysVars
  BY <1>6, <1>9 DEF sysVars, vars, brokerVars, serverVars, vmVars
<1> QED
  BY <1>4, <1>5, <1>7, <1>8, <1>9 DEF SysNext

\* What the broker and the VM are about to agree on.
HoldInv == MailInv /\ TodoInv /\ RegistryInv

LEMMA HoldStarts ==
    ASSUME VMs = {Machine}, SysInit
    PROVE  HoldInv
<1>0. Range(<<>>) = {}
  BY DEF Range
<1>1. /\ Machine \in Clients /\ Machine \in VMs
      /\ inbox = [c \in Clients |-> <<>>] /\ subscriptions = [ch \in Channels |-> NoClient]
      /\ todo[Machine] = <<>> /\ Held = {}
      /\ what = [tx \in TxIds |-> Nothing]
  BY OwnerAssumption, VMAssumption
  DEF SysInit, Init, BrokerInit, VMInit, RuntimeInit, Held, Known
<1>2. \A c \in Clients : Range(inbox[c]) = {}
  BY <1>0, <1>1
<1>3. MailInv
  BY <1>1, <1>2 DEF MailInv
<1>4. TodoInv
  BY <1>0, <1>1 DEF TodoInv
<1>5. ASSUME NEW k \in CompNames, NEW ch \in ComponentChannels(k)
      PROVE  Comes(ch, Wanted(k), Len(inbox[Machine]) + 1)
  <2>1. DOMAIN inbox[Machine] = {}
    BY <1>1
  <2>2. subscriptions[ch] = Holder(Wanted(k))
    BY <1>1, ChannelSets DEF Wanted, Holder
  <2> QED
    BY <2>1, <2>2 DEF Comes
<1> QED
  BY <1>3, <1>4, <1>5 DEF HoldInv, RegistryInv

LEMMA HoldStep ==
    ASSUME VMs = {Machine}, SysInv, HoldInv, [SysNext]_sysVars
    PROVE  HoldInv'
  BY MailStep, TodoStep, RegistryStep DEF HoldInv, SysInv

LEMMA HoldAgrees ==
    ASSUME HoldInv
    PROVE  RegistryAgrees
<1> SUFFICES ASSUME lost = {}, Serving(Machine),
                    NEW k \in CompNames, NEW ch \in ComponentChannels(k)
             PROVE  IF k \in Held
                    THEN subscriptions[ch] = Machine \/ Pending(Machine, "subscribe", ch)
                    ELSE subscriptions[ch] = NoClient \/ Pending(Machine, "unsubscribe", ch)
  BY DEF RegistryAgrees, Held
<1>1. \/ <<Wanted(k), ch>> \in Range(todo[Machine])
      \/ Comes(ch, Wanted(k), Len(inbox[Machine]) + 1)
  BY DEF HoldInv, RegistryInv, Serving, Up
<1>2. ASSUME NEW s, <<s, ch>> \in Range(todo[Machine])
      PROVE  Pending(Machine, s, ch)
  <2>1. \E i \in DOMAIN todo[Machine] : todo[Machine][i] = <<s, ch>>
    BY <1>2 DEF Range
  <2> QED
    BY <2>1 DEF Pending
<1>3. ASSUME NEW s, NEW n, Comes(ch, s, n)
      PROVE  subscriptions[ch] = Holder(s) \/ Pending(Machine, s, ch)
  BY <1>3 DEF Comes, Is, Pending
<1>4. subscriptions[ch] = Holder(Wanted(k)) \/ Pending(Machine, Wanted(k), ch)
  BY <1>1, <1>2, <1>3
<1> QED
  BY <1>4 DEF Holder, Wanted

\* vm.cpp:355-372, 404-413: with the one VM start_threads starts, the channels the broker
\* holds and the components the VM has are the same ones, or a subscribe or an unsubscribe
\* the VM has yet to send, or the broker to handle, makes them so.
THEOREM RegistryHolds ==
    ASSUME VMs = {Machine}
    PROVE  SysSpec => []RegistryAgrees
<1>1. SysInit => SysInv /\ HoldInv
  BY SysInvStarts, HoldStarts
<1>2. SysInv /\ HoldInv /\ [SysNext]_sysVars => (SysInv /\ HoldInv)'
  BY SysInvStep, HoldStep
<1>3. HoldInv => RegistryAgrees
  BY HoldAgrees
<1> QED
  BY <1>1, <1>2, <1>3, PTL DEF SysSpec

-----------------------------------------------------------------------------
(* What has been asked for.                                                *)

\* A call is made under a uuid nobody has used.
Asks(tx, c) ==
    /\ tx \in TxIds \ used /\ c \in Calls /\ what[tx] = Nothing
    /\ what' = [what EXCEPT ![tx] = c]

LEMMA AskedGrows ==
    ASSUME TypeOK, SysTypeInv, MailInv, [SysNext]_sysVars
    PROVE  UNCHANGED what \/ \E tx, c : Asks(tx, c)
<1>1. ASSUME NEW r \in Runtimes, RTCall(r)
      PROVE  \E tx, c : Asks(tx, c)
  <2>1. PICK tx \in NextTx(r), c \in Calls :
           SendRequest(r, tx, "execute", c.ch, c.arg) /\ what' = [what EXCEPT ![tx] = c]
    BY <1>1 DEF RTCall
  <2>2. tx \in TxIds \ used
    BY <2>1 DEF NextTx, Fresh
  <2>3. what[tx] = Nothing
    BY <2>2 DEF MailInv
  <2> QED
    BY <2>1, <2>2, <2>3 DEF Asks
<1> QED
  BY <1>1, SysIsQuiet

\* Nothing is asked of nobody, and what has been asked stays asked.
LEMMA AskedStays ==
    ASSUME TypeOK, SysTypeInv, MailInv, [SysNext]_sysVars, NEW k \in CompNames
    PROVE  /\ Define(k) \subseteq Define(k)' /\ Delete(k) \subseteq Delete(k)'
           /\ \A tx \in used : (tx \in Define(k)' => tx \in Define(k))
                               /\ (tx \in Delete(k)' => tx \in Delete(k))
<1>1. what \in [TxIds -> Calls \cup {Nothing}]
  BY DEF SysTypeInv, RuntimeTypeOK
<1>2. UNCHANGED what \/ \E tx, c : Asks(tx, c)
  BY AskedGrows
<1>3. CASE UNCHANGED what
  BY <1>3 DEF Define, Delete
<1>4. ASSUME NEW t, NEW c, Asks(t, c)
      PROVE  /\ Define(k) \subseteq Define(k)' /\ Delete(k) \subseteq Delete(k)'
             /\ \A tx \in used : (tx \in Define(k)' => tx \in Define(k))
                                 /\ (tx \in Delete(k)' => tx \in Delete(k))
  <2>1. \A tx \in TxIds : tx # t => what'[tx] = what[tx]
    BY <1>1, <1>4 DEF Asks
  <2>2. t \notin used /\ what[t].ch = NoChannel
    BY <1>4 DEF Asks, Nothing
  <2>3. FactoryChannels \subseteq Channels /\ NoChannel \notin Channels
    BY ChannelSets, ChannelAssumption
  <2>4. t \notin Define(k)
    BY <2>2, <2>3 DEF Define
  <2>5. Define(k) \subseteq Define(k)' /\ \A tx \in used : tx \in Define(k)' => tx \in Define(k)
    BY <2>1, <2>2, <2>4 DEF Define
  <2>6. \A tx \in used : tx \in Delete(k)' => tx \in Delete(k)
    BY <2>1, <2>2 DEF Delete
  <2>7. t \notin Delete(k)
    <3>1. DeleteComponent(k) # NoChannel
      BY ChannelSets, ChannelAssumption
    <3> QED
      BY <2>2, <3>1 DEF Delete
  <2>8. Delete(k) \subseteq Delete(k)'
    BY <2>1, <2>7 DEF Delete
  <2> QED
    BY <2>5, <2>6, <2>8
<1> QED
  BY <1>2, <1>3, <1>4

LEMMA UsedStays ==
    ASSUME TypeOK, VMs = {Machine}, [SysNext]_sysVars
    PROVE  used \subseteq used'
<1>1. CASE BrokerTurn
  BY <1>1 DEF BrokerTurn, BrokerAct, peerVars
<1>2. CASE stop_threads
  BY <1>2, StopSends
<1>3. CASE VMTurn(Machine)
  BY <1>3, VMSpeaks, OwnerAssumption DEF VMTurn
<1>4. ASSUME NEW r \in Runtimes, RuntimeTurn(r)
      PROVE  used \subseteq used'
  BY <1>4, RuntimeSpeaks DEF RuntimeTurn
<1>5. CASE UNCHANGED sysVars
  BY <1>5 DEF sysVars, vars, peerVars
<1> QED
  BY <1>1, <1>2, <1>3, <1>4, <1>5 DEF SysNext

\* An execute that has gone stays gone.
LEMMA GoneStays ==
    ASSUME VMs = {Machine}, TypeOK, SysTypeInv, [SysNext]_sysVars, NEW tx, Gone(tx)
    PROVE  Gone(tx)'
<1>t. BrokerTypeOK
  BY DEF TypeOK
<1>1. tx \in used'
  BY UsedStays DEF Gone
<1>2. ASSUME NEW d \in Clients, NEW y \in Range(inbox'[d]) \cup Range(outbox'[d]),
             y.tx = tx, y.ptype = "execute"
      PROVE  FALSE
  <2>1. CASE \/ BrokerAct \/ StopBroker \/ UNCHANGED vars
             \/ \E c \in Clients : QuietStep(c)
    BY <1>2, <2>1, QuietExecutes DEF Gone
  <2>2. ASSUME NEW r \in Runtimes, RTCall(r)
        PROVE  FALSE
    <3>1. PICK t \in NextTx(r), c \in Calls : SendRequest(r, t, "execute", c.ch, c.arg)
      BY <2>2 DEF RTCall
    <3> DEFINE p == [ptype |-> "execute", tx |-> t, ch |-> c.ch, arg |-> c.arg]
    <3>2. t \notin used /\ p.tx = t /\ r \in Clients
      BY RuntimeAssumption DEF NextTx, Fresh
    <3>3. Push(r, p) /\ UNCHANGED outbox
      BY <3>1 DEF SendRequest, clientVars
    <3> HIDE DEF p
    <3>4. y \in Range(inbox[d]) \cup Range(outbox[d]) \/ y = p
      BY <1>t, <3>2, <3>3, PushRange
    <3> QED
      BY <1>2, <3>2, <3>4 DEF Gone
  <2> QED
    BY <2>1, <2>2, SysIsQuiet
<1> QED
  BY <1>1, <1>2 DEF Gone

\* The VM has taken the execute.
LEMMA TakenGone ==
    ASSUME TypeOK, PlaceInv, VMReceive(Machine, "execute"),
           NEW x \in TxIds, x = Head(outbox[Machine]).tx
    PROVE  Gone(x)' /\ ~Gone(x)
<1> DEFINE M == Machine
           p == Head(outbox[M])
<1>t. outbox \in [Clients -> Seq(Packet)] /\ M \in Clients
  BY OwnerAssumption, VMAssumption DEF TypeOK, BrokerTypeOK
<1>1. outbox[M] # <<>> /\ p.ptype = "execute" /\ p.tx = x /\ Listen(M)
  BY DEF VMReceive
<1>2. 1 \in DOMAIN outbox[M] /\ outbox[M][1] = p
  BY <1>t, <1>1
<1>3. PlaceOf(x)
  BY DEF PlaceInv
<1>4. OnlyAt(outbox, M, 1, x) /\ Nowhere(inbox, x) /\ x \in used
  <2>1. x \in used
    BY <1>2, <1>t, <1>3 DEF PlaceOf, Nowhere
  <2>2. p.tx = x /\ p.ptype \in RequestType
    BY <1>1 DEF RequestType
  <2> HIDE DEF p
  <2> QED
    BY <1>2, <1>t, <1>3, <2>1, <2>2 DEF PlaceOf, DeliveredInv
<1>5. /\ UNCHANGED <<inbox, used>> /\ outbox' = [outbox EXCEPT ![M] = Tail(@)]
  BY <1>1 DEF Listen
<1> HIDE DEF p
<1>6. ASSUME NEW c \in Clients, NEW j \in DOMAIN outbox'[c], outbox'[c][j].tx = x
      PROVE  FALSE
  <2>1. CASE c # M
    BY <1>t, <1>4, <1>5, <1>6, <2>1 DEF OnlyAt
  <2>2. CASE c = M
    <3>1. outbox'[M] = Tail(outbox[M])
      BY <1>t, <1>5
    <3>2. j + 1 \in DOMAIN outbox[M] /\ outbox'[M][j] = outbox[M][j + 1] /\ j + 1 # 1
      BY <1>t, <1>1, <1>6, <2>2, <3>1
    <3> QED
      BY <1>t, <1>4, <1>6, <2>2, <3>2 DEF OnlyAt
  <2> QED
    BY <2>1, <2>2
<1>7. \A c \in Clients : \A y \in Range(inbox'[c]) \cup Range(outbox'[c]) : y.tx # x
  BY <1>4, <1>5, <1>6 DEF Range, Nowhere
<1>8. Gone(x)'
  BY <1>4, <1>5, <1>7 DEF Gone
<1>9. ~Gone(x)
  <2>1. p \in Range(outbox[M])
    BY <1>2 DEF Range
  <2>2. p.tx = x
    BY <1>1
  <2> QED
    BY <1>1, <1>t, <2>1, <2>2 DEF Gone
<1> QED
  BY <1>8, <1>9

-----------------------------------------------------------------------------
(* The components of the VM.                                               *)

\* What a step does to the components of the VM.
LEMMA ComponentsMove ==
    ASSUME VMs = {Machine}, SysInv, [SysNext]_sysVars
    PROVE  \/ Held' = Held
           \/ \E k \in CompNames, tx \in TxIds :
                 /\ Gone(tx)' /\ ~Gone(tx)
                 /\ \/ tx \in Define(k) /\ Held' = Held \cup {k}
                    \/ /\ tx \in Delete(k) /\ k \in Held
                       /\ Held' = Held \ {k}
<1>i. TypeOK /\ SysTypeInv /\ AskedInv /\ PlaceInv
  BY DEF SysInv
<1>1. CASE ~VMTurn(Machine)
  BY <1>1, OthersLeave, HeldKept
<1>2. CASE VMTurn(Machine)
  <2>0. VMStep(Machine)
    BY <1>2 DEF VMTurn
  <2>1. CASE Idles
    BY <2>1 DEF Idles
  <2>2. CASE VMConnected(Machine) \/ VMSend(Machine) \/ VMStop(Machine)
    BY <2>2, HeldKept DEF VMConnected, VMSend, VMStop
  <2>3. ASSUME NEW k, Defines(k) \/ Deletes(k)
        PROVE  \E tx \in TxIds :
                  /\ Gone(tx)' /\ ~Gone(tx) /\ k \in CompNames
                  /\ \/ tx \in Define(k) /\ Held' = Held \cup {k}
                     \/ /\ tx \in Delete(k) /\ k \in Held
                        /\ Held' = Held \ {k}
    <3>1. Takes(k)
      BY <2>3 DEF Defines, Deletes
    <3>2. PICK tx \in TxIds : tx = Head(outbox[Machine]).tx
      BY <2>3 DEF Defines, Deletes, Define, Delete
    <3>3. Gone(tx)' /\ ~Gone(tx)
      BY <1>i, <3>1, <3>2, TakenGone DEF Takes
    <3> QED
      BY <2>3, <3>1, <3>2, <3>3 DEF Defines, Deletes, Takes
  <2> QED
    BY <1>i, <2>0, <2>1, <2>2, <2>3, VMMoves
<1> QED
  BY <1>1, <1>2

LEMMA ComponentStep ==
    ASSUME VMs = {Machine}, SysInv, MailInv, ComponentInv, [SysNext]_sysVars
    PROVE  ComponentInv'
<1>i. TypeOK /\ SysTypeInv /\ Held \in SUBSET CompNames
  BY HeldType DEF SysInv
<1> SUFFICES ASSUME NEW k \in Held'
             PROVE  \E d \in Define(k)' : Gone(d)'
  BY DEF ComponentInv
<1>1. CASE k \in Held
  <2>1. PICK d \in Define(k) : Gone(d)
    BY <1>1 DEF ComponentInv
  <2>2. d \in Define(k)'
    BY <1>i, <1>1, AskedStays
  <2> QED
    BY <1>i, <2>1, <2>2, GoneStays
<1>2. CASE k \notin Held
  <2>1. PICK tx \in TxIds : k \in CompNames /\ Gone(tx)' /\ tx \in Define(k)
    BY <1>2, ComponentsMove
  <2>2. tx \in Define(k)'
    BY <1>i, <2>1, AskedStays
  <2> QED
    BY <2>1, <2>2
<1> QED
  BY <1>1, <1>2

LEMMA UpWas ==
    ASSUME VMs = {Machine}, SysTypeInv, [SysNext]_sysVars, Up'
    PROVE  Up
<1>1. CASE VMTurn(Machine)
  BY <1>1, UpEnds DEF VMTurn
<1> QED
  BY <1>1, OthersLeave

\* What comes between does not go away.
LEMMA AloneWas ==
    ASSUME VMs = {Machine}, SysInv, MailInv, [SysNext]_sysVars, NEW k \in CompNames, NEW s,
           Alone(k, s)'
    PROVE  Alone(k, s)
<1>1. Define(k) \subseteq Define(k)' /\ Delete(k) \subseteq Delete(k)'
  BY AskedStays DEF SysInv
<1>2. Up' => Up
  BY UpWas DEF SysInv
<1>3. CASE s = "subscribe"
  BY <1>1, <1>2, <1>3 DEF Alone
<1>4. CASE s # "subscribe"
  <2>1. \A d, e \in Define(k)' : d = e
    BY <1>4 DEF Alone
  <2>2. \A d, e \in Define(k) : d = e
    BY <1>1, <2>1
  <2> QED
    BY <1>4, <2>2 DEF Alone
<1> QED
  BY <1>3, <1>4

\* A component that has been defined for good, or deleted for good.
LEMMA FixedStays ==
    ASSUME VMs = {Machine}, SysInv, MailInv, [SysNext]_sysVars, NEW k \in CompNames,
           NEW s \in Words, Alone(k, s)', Fixed(k, s)
    PROVE  Fixed(k, s)'
<1>i. TypeOK /\ SysTypeInv
  BY DEF SysInv
<1>a. Alone(k, s) /\ Define(k) \subseteq Define(k)' /\ Delete(k) \subseteq Delete(k)'
  BY <1>i, AloneWas, AskedStays
<1>1. CASE s = "subscribe"
  <2>1. k \in Held /\ Delete(k) = {}
    BY <1>1, <1>a DEF Alone, Fixed
  <2>2. k \in Held'
    BY <2>1, ComponentsMove
  <2> QED
    BY <1>1, <2>2 DEF Fixed
<1>2. CASE s # "subscribe"
  <2>1. Define(k) # {} /\ (\A d \in Define(k) : Gone(d)) /\ k \notin Held
    BY <1>2 DEF Fixed, Dead
  <2>2. \A d, e \in Define(k)' : d = e
    BY <1>2 DEF Alone
  <2>3. Define(k)' = Define(k)
    BY <1>a, <2>1, <2>2
  <2>4. \A d \in Define(k)' : Gone(d)'
    BY <1>i, <2>1, <2>3, GoneStays
  <2>5. k \notin Held'
    BY <2>1, ComponentsMove
  <2>6. Dead(k)'
    BY <2>1, <2>3, <2>4, <2>5 DEF Dead
  <2> QED
    BY <1>2, <2>6 DEF Fixed
<1> QED
  BY <1>1, <1>2

-----------------------------------------------------------------------------
(* What is on its way comes.                                               *)

\* What a step does to the packets of the VM, and to the channels.
Rests ==
    /\ inbox'[Machine] = inbox[Machine]
    /\ \A ch \in Channels : subscriptions'[ch] = subscriptions[ch]
Says(p) ==
    /\ VMTurn(Machine) /\ VMSays(Machine, p)
    /\ inbox'[Machine] = Append(inbox[Machine], p) /\ UNCHANGED subscriptions
Handles ==
    /\ BrokerTurn
    /\ inbox[Machine] # <<>> /\ inbox'[Machine] = Tail(inbox[Machine])
    /\ \A ch \in Channels : subscriptions'[ch] = After(Head(inbox[Machine]), ch)

LEMMA InboxMoves ==
    ASSUME VMs = {Machine}, TypeOK, MailInv, [SysNext]_sysVars
    PROVE  Rests \/ (\E p : Says(p)) \/ Handles \/ lost' # {}
<1>1. CASE BrokerTurn
  BY <1>1, BrokerHandles DEF BrokerTurn, BrokerAct, Rests, Handles
<1>2. CASE stop_threads
  BY <1>2, StopSends DEF Rests
<1>3. CASE VMTurn(Machine)
  <2>1. VMStep(Machine) /\ Machine \in VMs
    BY <1>3, OwnerAssumption DEF VMTurn
  <2>2. /\ UNCHANGED subscriptions
        /\ \/ UNCHANGED inbox
           \/ \E p : /\ VMSays(Machine, p)
                     /\ \/ inbox'[Machine] = Append(inbox[Machine], p)
                        \/ UNCHANGED inbox
    BY <2>1, VMSpeaks
  <2> QED
    BY <1>3, <2>2 DEF Rests, Says
<1>4. ASSUME NEW r \in Runtimes, RuntimeTurn(r)
      PROVE  Rests
  BY <1>4, RuntimeSpeaks DEF RuntimeTurn, Rests
<1>5. CASE UNCHANGED sysVars
  BY <1>5 DEF sysVars, vars, brokerVars, serverVars, Rests
<1> QED
  BY <1>1, <1>2, <1>3, <1>4, <1>5 DEF SysNext

\* The VM does not take back what has been fixed.
LEMMA NothingAgainst ==
    ASSUME SysTypeInv, TodoInv, NEW k \in CompNames, NEW s \in Words,
           NEW ch \in ComponentChannels(k), Alone(k, s), Fixed(k, s),
           NEW p, VMSays(Machine, p)
    PROVE  ~Is(p, Opposite(s), ch)
<1> DEFINE t == todo[Machine]
<1>t. t \in Seq(Sends)
  BY OwnerAssumption DEF SysTypeInv, VMTypeOK, Sends
<1>o. Opposite(s) \in Words /\ Opposite(s) # s
  BY DEF Opposite, Words
<1>1. CASE p.ptype \in {"connect", "disconnect", "respond_execute"}
  BY <1>o, <1>1 DEF Is, Words
<1>2. CASE VMSend(Machine) /\ p.ptype = Head(t)[1] /\ p.ch = Head(t)[2]
  <2>1. Head(t) \in Range(t) /\ Head(t) \in Sends
    <3>1. t # <<>>
      BY <1>2 DEF VMSend
    <3> QED
      BY <1>t, <3>1, QueueRange, QueueType
  <2>2. SUFFICES ASSUME Is(p, Opposite(s), ch)
                 PROVE  FALSE
    OBVIOUS
  <2>3. <<Opposite(s), ch>> \in Range(t)
    <3>1. Head(t) = <<Opposite(s), ch>>
      BY <1>2, <2>1, <2>2 DEF Is, Sends
    <3> QED
      BY <2>1, <3>1
  <2>4. /\ <<"subscribe", ch>> \in Range(t) => k \in Held
        /\ <<"unsubscribe", ch>> \in Range(t) => ~Up \/ k \notin Held
    BY DEF TodoInv
  <2>5. CASE s = "subscribe"
    <3>1. Up /\ k \in Held /\ Opposite(s) = "unsubscribe"
      BY <2>5 DEF Alone, Fixed, Opposite
    <3> QED
      BY <2>3, <2>4, <3>1
  <2>6. CASE s = "unsubscribe"
    <3>1. k \notin Held /\ Opposite(s) = "subscribe"
      BY <2>6 DEF Fixed, Dead, Opposite
    <3> QED
      BY <2>3, <2>4, <3>1
  <2> QED
    BY <2>5, <2>6 DEF Words
<1> QED
  BY <1>1, <1>2 DEF VMSays

\* What is on its way comes.
LEMMA ComesOn ==
    ASSUME TypeOK, SysTypeInv, MailInv, TodoInv, NEW k \in CompNames, NEW s \in Words,
           NEW ch \in ComponentChannels(k), Alone(k, s), Fixed(k, s)
    PROVE  /\ Rests \/ (\E p : Says(p)) =>
                 \A n \in Nat : Comes(ch, s, n) => Comes(ch, s, n)'
           /\ Handles => \A n, m \in Nat : n <= m + 1 /\ Comes(ch, s, n) => Comes(ch, s, m)'
<1>t. inbox[Machine] \in Seq(Packet) /\ ch \in Channels
  BY OwnerAssumption, VMAssumption, ChannelSets DEF TypeOK, BrokerTypeOK
<1>r. \A n \in Nat : n <= n
  OBVIOUS
<1>1. ASSUME Rests, NEW n \in Nat, Comes(ch, s, n)
      PROVE  Comes(ch, s, n)'
  BY <1>t, <1>r, <1>1, ComesStays DEF Rests
<1>2. ASSUME NEW p, Says(p), NEW n \in Nat, Comes(ch, s, n)
      PROVE  Comes(ch, s, n)'
  <2>1. ~Is(p, Opposite(s), ch)
    BY <1>2, NothingAgainst DEF Says
  <2> QED
    BY <1>t, <1>r, <1>2, <2>1, ComesAppend DEF Says
<1>3. ASSUME Handles, NEW n \in Nat, NEW m \in Nat, n <= m + 1, Comes(ch, s, n)
      PROVE  Comes(ch, s, m)'
  <2>1. s = "subscribe" => Head(inbox[Machine]).ptype # "disconnect"
    <3>1. Head(inbox[Machine]) \in Range(inbox[Machine])
      BY <1>t, <1>3, QueueRange DEF Handles
    <3> QED
      BY <3>1 DEF MailInv, Alone
  <2>2. s \in {"subscribe", "unsubscribe"}
    BY DEF Words
  <2>3. /\ inbox[Machine] # <<>> /\ inbox'[Machine] = Tail(inbox[Machine])
        /\ subscriptions'[ch] = After(Head(inbox[Machine]), ch)
    BY <1>t, <1>3 DEF Handles
  <2> QED
    BY <1>t, <1>3, <2>1, <2>2, <2>3, ComesTake
<1> QED
  BY <1>1, <1>2, <1>3

\* A transaction is about one thing.
LEMMA AboutOne ==
    ASSUME NEW k \in CompNames, NEW l \in CompNames, NEW tx
    PROVE  /\ tx \in Define(k) /\ tx \in Define(l) => k = l
           /\ tx \in Delete(k) /\ tx \in Delete(l) => k = l
           /\ ~(tx \in Define(k) /\ tx \in Delete(l))
<1>1. tx \in Define(k) /\ tx \in Define(l) => k = l
  BY DEF Define
<1>2. DeleteComponent(k) = DeleteComponent(l) => k = l
  <2>1. DeleteComponent(k)[2] = k /\ DeleteComponent(l)[2] = l
    BY DEF DeleteComponent
  <2> QED
    BY <2>1
<1>3. DeleteComponent(l) \notin FactoryChannels
  <2>1. DeleteComponent(l) \in ComponentChannels(l)
    BY ChannelSets
  <2> QED
    BY <2>1, ChannelsApart
<1> QED
  BY <1>1, <1>2, <1>3 DEF Define, Delete

\* What the handler of a define or of a delete is to answer.
LEMMA StageJob ==
    ASSUME VMs = {Machine}, SysInv, MailInv, ComponentInv, [SysNext]_sysVars,
           NEW k \in CompNames, NEW s \in Words, Alone(k, s)', NEW tx \in About(k, s),
           StageOf(k, s, tx), job'[Machine] # NoJob, job'[Machine][1] = tx
    PROVE  /\ job'[Machine][2] # "stream"
           /\ job'[Machine][2] = "ok" => Fixed(k, s)'
<1> DEFINE Goal == /\ job'[Machine][2] # "stream"
                   /\ job'[Machine][2] = "ok" => Fixed(k, s)'
<1>i. TypeOK /\ SysTypeInv /\ AskedInv
  BY DEF SysInv
<1> SUFFICES Goal
  OBVIOUS
<1>1. ASSUME job'[Machine] = job[Machine]
      PROVE  Goal
  <2>1. job[Machine][2] # "stream" /\ (job[Machine][2] = "ok" => Fixed(k, s))
    BY <1>1 DEF StageOf
  <2> QED
    BY <1>1, <2>1, FixedStays
<1> HIDE DEF Goal
<1>2. CASE ~VMTurn(Machine)
  BY <1>1, <1>2, OthersLeave
<1>3. CASE Keeps
  BY <1>1, <1>3 DEF Keeps
<1>4. CASE Passes
  <2> DEFINE x == Head(outbox[Machine]).tx
  <2>1. \/ job'[Machine] = <<x, "fail", {}>>
        \/ job'[Machine] = <<x, "stream", {}>> /\ \A l : x \notin Define(l) /\ x \notin Delete(l)
    BY <1>4 DEF Passes
  <2>2. CASE job'[Machine] = <<x, "fail", {}>>
    <3>1. job'[Machine][2] = "fail"
      BY <2>2
    <3> QED
      BY <3>1 DEF Goal
  <2>3. CASE job'[Machine] = <<x, "stream", {}>> /\ \A l : x \notin Define(l) /\ x \notin Delete(l)
    <3>1. x = tx
      BY <2>3
    <3> QED
      BY <2>3, <3>1 DEF About
  <2> QED
    BY <2>1, <2>2, <2>3
<1>5. ASSUME NEW l, Defines(l)
      PROVE  Goal
  <2>1. l \in CompNames
    BY <1>5 DEF Defines, Takes
  <2>2. job'[Machine][1] = Head(outbox[Machine]).tx /\ job'[Machine][2] = "ok"
    BY <1>5 DEF Defines, Takes
  <2>3. tx \in Define(l)
    BY <1>5, <2>2 DEF Defines
  <2>4. tx \in Define(k) /\ s = "subscribe" /\ l = k
    BY <2>1, <2>3, AboutOne DEF About, Words
  <2>5. k \in Held'
    BY <1>5, <2>4 DEF Defines
  <2> QED
    BY <2>2, <2>4, <2>5 DEF Goal, Fixed
<1>6. ASSUME NEW l, Deletes(l)
      PROVE  Goal
  <2>1. l \in CompNames
    BY <1>6 DEF Deletes, Takes
  <2>2. job'[Machine][1] = Head(outbox[Machine]).tx /\ job'[Machine][2] = "ok"
    BY <1>6 DEF Deletes, Takes
  <2>3. tx \in Delete(l)
    BY <1>6, <2>2 DEF Deletes
  <2>4. tx \in Delete(k) /\ s # "subscribe" /\ l = k
    BY <2>1, <2>3, AboutOne DEF About, Words
  <2>5. k \in Held /\ k \notin Held'
    BY <1>6, <2>4 DEF Deletes
  <2>6. PICK d \in Define(k) : Gone(d)
    BY <2>5 DEF ComponentInv
  <2>7. d \in Define(k)' /\ Gone(d)'
    BY <1>i, <2>6, AskedStays, GoneStays
  <2>8. \A e \in Define(k)' : e = d
    BY <2>4, <2>7 DEF Alone
  <2>9. Dead(k)'
    BY <2>5, <2>7, <2>8 DEF Dead
  <2> QED
    BY <2>2, <2>4, <2>9 DEF Goal, Fixed
<1>7. CASE VMConnected(Machine) \/ VMSend(Machine) \/ VMStop(Machine)
  BY <1>1, <1>7 DEF VMConnected, VMSend, VMStop
<1>8. CASE VMTurn(Machine)
  <2>1. VMStep(Machine)
    BY <1>8 DEF VMTurn
  <2> QED
    BY <1>i, <2>1, <1>3, <1>4, <1>5, <1>6, <1>7, VMMoves
<1> QED
  BY <1>2, <1>8

-----------------------------------------------------------------------------
(* What the callers have been told.                                        *)

Answered(tx) == \E c \in Clients : \E p \in Range(outbox[c]) : OkReply(p, tx)

LEMMA ConfirmedHow ==
    ASSUME NEW tx
    PROVE  Confirmed(tx) <=> Answered(tx) \/ (\E p \in store[tx] : p.ok) \/ call[tx] = "returned"
  BY DEF Confirmed, Answered, Range

\* A client gets no packets but from the broker.
LEMMA OnlyTaken ==
    ASSUME TypeOK, NEW d \in Clients,
           \/ UNCHANGED vars \/ StopBroker
           \/ \E c \in Clients : QuietStep(c)
           \/ \E r \in Runtimes : RTCall(r)
    PROVE  Range(outbox'[d]) \subseteq Range(outbox[d])
<1>t. outbox \in [Clients -> Seq(Packet)]
  BY DEF TypeOK, BrokerTypeOK
<1>1. CASE UNCHANGED outbox
  BY <1>1
<1>2. ASSUME NEW c \in Clients, QuietStep(c)
      PROVE  Range(outbox'[d]) \subseteq Range(outbox[d])
  <2>1. CASE Connect(c) \/ Stop(c) \/ TakeStop(c)
    BY <1>1, <2>1 DEF Connect, Dial, Stop, TakeStop
  <2>2. ASSUME NEW tx, NEW t, NEW ch, NEW arg, SendRequest(c, tx, t, ch, arg)
        PROVE  UNCHANGED outbox
    BY <2>2 DEF SendRequest, clientVars
  <2>3. ASSUME NEW tx, NEW fin, NEW ok, SendReply(c, tx, fin, ok)
        PROVE  UNCHANGED outbox
    BY <2>3 DEF SendReply, clientVars
  <2>4. CASE Listen(c)
    BY <1>t, <2>4, QueuesRange DEF Listen
  <2>5. CASE Close(c)
    <3>1. outbox'[d] = outbox[d] \/ outbox'[d] = <<>>
      BY <1>t, <2>5 DEF Close, Hangup
    <3>2. Range(<<>>) = {}
      BY DEF Range
    <3> QED
      BY <3>1, <3>2
  <2> QED
    BY <1>1, <1>2, <2>1, <2>2, <2>3, <2>4, <2>5 DEF QuietStep
<1>3. ASSUME NEW r \in Runtimes, RTCall(r)
      PROVE  UNCHANGED outbox
  BY <1>3 DEF RTCall, SendRequest, clientVars
<1>4. CASE UNCHANGED vars \/ StopBroker
  BY <1>1, <1>4 DEF vars, brokerVars, StopBroker, BrokerStop, clientVars
<1> QED
  BY <1>1, <1>2, <1>3, <1>4

\* What the broker answers with a success, the VM has said.
LEMMA BrokerAnswers ==
    ASSUME TypeOK, MailInv, BrokerStep, NEW tx, Answered(tx)'
    PROVE  \/ Answered(tx)
           \/ /\ inbox[Machine] # <<>> /\ inbox'[Machine] = Tail(inbox[Machine])
              /\ UNCHANGED subscriptions /\ OkReply(Head(inbox[Machine]), tx)
<1> DEFINE Goal == \/ Answered(tx)
                   \/ /\ inbox[Machine] # <<>> /\ inbox'[Machine] = Tail(inbox[Machine])
                      /\ UNCHANGED subscriptions /\ OkReply(Head(inbox[Machine]), tx)
<1>t. /\ BrokerTypeOK /\ inbox \in [Clients -> Seq(Packet)] /\ Machine \in Clients
  BY OwnerAssumption, VMAssumption DEF TypeOK, BrokerTypeOK
<1>d. PICK d \in Clients : \E y \in Range(outbox'[d]) : OkReply(y, tx)
  BY DEF Answered
<1>0. PICK y \in Range(outbox'[d]) : OkReply(y, tx)
  BY <1>d
<1>1. UNCHANGED outbox => Goal
  BY DEF Answered
<1> SUFFICES Goal
  OBVIOUS
<1>2. ASSUME NEW c, NEW p, Deliver(c, p), ~OkReply(p, tx)
      PROVE  Goal
  <2>1. y \in Range(outbox[d]) \/ y = p
    <3>1. \A x \in Range(outbox'[d]) : x \in Range(outbox[d]) \/ (d = c /\ x = p)
      BY <1>t, <1>2, DeliverRange
    <3> QED
      BY <3>1
  <2> QED
    BY <1>0, <1>2, <2>1 DEF Answered
<1>3. \A x, n, fin, ok : /\ ~OkReply(Respond(x, ok), tx)
                         /\ ~OkReply(RespondExecute(x, n, fin, FALSE), tx)
  BY DEF OkReply, Respond, RespondExecute
<1> HIDE DEF Goal
<1>4. CASE Accept \/ Register \/ Stopped
  BY <1>1, <1>4 DEF Accept, Register, Stopped, clientVars
<1>5. ASSUME NEW c \in Clients, HandleRecv(c)
      PROVE  Goal
  <2>1. CASE IgnoreRecv(c)
    BY <1>1, <2>1 DEF IgnoreRecv, clientVars
  <2>2. CASE HandleConnect(c) \/ HandleDisconnect(c)
    BY <1>2, <1>3, <2>2 DEF HandleConnect, HandleDisconnect
  <2>3. CASE HandleSubscribe(c) \/ HandleUnsubscribe(c)
    BY <1>2, <1>3, <2>3 DEF HandleSubscribe, HandleUnsubscribe
  <2>4. CASE HandleExecute(c)
    <3>1. ~OkReply(Head(inbox[c]), tx)
      BY <2>4 DEF HandleExecute, Receive, OkReply
    <3> QED
      BY <1>1, <1>2, <1>3, <2>4, <3>1 DEF HandleExecute
  <2>5. CASE HandleRespondExecute(c)
    <3> DEFINE p == Head(inbox[c])
    <3>1. /\ inbox[c] # <<>> /\ inbox' = [inbox EXCEPT ![c] = Tail(@)]
          /\ p.ptype = "respond_execute" /\ UNCHANGED subscriptions
      BY <2>5 DEF HandleRespondExecute, Receive
    <3>2. p \in Range(inbox[c])
      BY <1>t, <3>1, QueueRange
    <3>3. c = Machine
      BY <3>1, <3>2 DEF MailInv
    <3>4. CASE UNCHANGED outbox
      BY <1>1, <3>4
    <3>5. ASSUME NEW e, Deliver(e, p)
          PROVE  Goal
      <4>1. CASE OkReply(p, tx)
        BY <1>t, <3>1, <3>3, <4>1 DEF Goal
      <4>2. CASE ~OkReply(p, tx)
        BY <1>2, <3>5, <4>2
      <4> QED
        BY <4>1, <4>2
    <3> QED
      BY <2>5, <3>4, <3>5 DEF HandleRespondExecute
  <2> QED
    BY <1>5, <2>1, <2>2, <2>3, <2>4, <2>5 DEF HandleRecv
<1> QED
  BY <1>4, <1>5 DEF BrokerStep

\* A success is a success from the time on that the broker has passed it on.
LEMMA ConfirmedFrom ==
    ASSUME TypeOK, SysTypeInv, MailInv, [SysNext]_sysVars, NEW tx \in TxIds, Confirmed(tx)'
    PROVE  Confirmed(tx) \/ (Handles /\ OkReply(Head(inbox[Machine]), tx))
<1> DEFINE Goal == Confirmed(tx) \/ (Handles /\ OkReply(Head(inbox[Machine]), tx))
<1>t. /\ store \in [TxIds -> SUBSET [seq : Nat, fin : BOOLEAN, ok : BOOLEAN]]
      /\ call \in [TxIds -> CallState] /\ outbox \in [Clients -> Seq(Packet)]
  BY DEF SysTypeInv, RuntimeTypeOK, TypeOK, BrokerTypeOK
<1>0. Answered(tx)' \/ (\E p \in store'[tx] : p.ok) \/ call'[tx] = "returned"
  <2>1. Confirmed(tx)' <=> (Answered(tx)' \/ (\E p \in store'[tx] : p.ok) \/ call'[tx] = "returned")
    BY DEF Confirmed, Answered, Range
  <2> QED
    BY <2>1
<1> SUFFICES Goal
  OBVIOUS
<1>1. ASSUME Answered(tx) \/ (\E p \in store[tx] : p.ok) \/ call[tx] = "returned"
      PROVE  Goal
  BY <1>1, ConfirmedHow
<1> HIDE DEF Goal
<1>2. ASSUME ~Answered(tx), Answered(tx)'
      PROVE  Goal
  <2>1. CASE BrokerTurn
    <3>1. /\ inbox[Machine] # <<>> /\ inbox'[Machine] = Tail(inbox[Machine])
          /\ UNCHANGED subscriptions /\ OkReply(Head(inbox[Machine]), tx)
      BY <1>2, <2>1, BrokerAnswers DEF BrokerTurn, BrokerAct
    <3>2. \A ch : After(Head(inbox[Machine]), ch) = subscriptions[ch]
      BY <3>1 DEF After, Is, OkReply
    <3> QED
      BY <2>1, <3>1, <3>2 DEF Handles, Goal
  <2>2. CASE ~BrokerTurn
    <3>1. \/ UNCHANGED vars \/ StopBroker
          \/ \E c \in Clients : QuietStep(c)
          \/ \E r \in Runtimes : RTCall(r)
          \/ UNCHANGED outbox
      <4>1. CASE stop_threads
        BY <4>1, StopSends
      <4>2. ASSUME NEW v \in VMs, VMTurn(v)
            PROVE  UNCHANGED vars \/ \E c \in Clients : QuietStep(c)
        BY <4>2, VMIsClient, VMAssumption DEF VMTurn
      <4>3. ASSUME NEW r \in Runtimes, RuntimeTurn(r)
            PROVE  \/ UNCHANGED vars \/ \E c \in Clients : QuietStep(c)
                   \/ RTCall(r)
        BY <4>3, RuntimeIsClient, RuntimeAssumption DEF RuntimeTurn
      <4>4. CASE UNCHANGED sysVars
        BY <4>4 DEF sysVars
      <4> QED
        BY <2>2, <4>1, <4>2, <4>3, <4>4 DEF SysNext
    <3>2. \A d \in Clients : Range(outbox'[d]) \subseteq Range(outbox[d])
      BY <3>1, OnlyTaken
    <3> QED
      BY <1>2, <3>2 DEF Answered
  <2> QED
    BY <2>1, <2>2
<1>3. ASSUME (\E p \in store'[tx] : p.ok) \/ call'[tx] = "returned"
      PROVE  Goal
  <2>1. CASE store'[tx] = store[tx] /\ call'[tx] = call[tx]
    BY <1>1, <1>3, <2>1
  <2>2. CASE BrokerTurn \/ UNCHANGED sysVars \/ \E v \in VMs : VMTurn(v)
    BY <2>1, <2>2 DEF BrokerTurn, VMTurn, rtVars, sysVars
  <2>3. CASE stop_threads
    BY <2>1, <2>3, StopSends
  <2>4. ASSUME NEW r \in Runtimes, RuntimeTurn(r)
        PROVE  Goal
    <3>0. RuntimeStep(r) /\ r \in Clients
      BY <2>4, RuntimeAssumption DEF RuntimeTurn
    <3>1. CASE RTConnect(r) \/ RTSendConnect(r) \/ RTConnectTimeout(r) \/ RTStop(r)
               \/ RTDisconnected(r)
      BY <2>1, <3>1 DEF RTConnect, RTSendConnect, RTConnectTimeout, RTStop, RTDisconnected
    <3>2. CASE Keep(r) /\ UNCHANGED call
      <4> DEFINE p == Head(outbox[r])
      <4>1. p \in Range(outbox[r])
        BY <1>t, <3>0, <3>2, QueueRange DEF Keep
      <4>2. CASE p.ptype = "respond_execute" /\ p.tx = tx /\ p.ok
        BY <1>1, <3>0, <4>1, <4>2 DEF Answered, OkReply
      <4>3. CASE ~(p.ptype = "respond_execute" /\ p.tx = tx /\ p.ok)
        <5>1. \A e \in store'[tx] : e \in store[tx] \/ ~e.ok
          <6>1. CASE p.ptype = "respond_execute" /\ p.tx = tx
            <7>1. store'[tx] = store[tx] \cup {[seq |-> p.seq, fin |-> p.fin, ok |-> p.ok]}
              BY <1>t, <3>2, <6>1 DEF Keep
            <7>2. ~[seq |-> p.seq, fin |-> p.fin, ok |-> p.ok].ok
              BY <4>3, <6>1
            <7> QED
              BY <7>1, <7>2
          <6>2. CASE ~(p.ptype = "respond_execute" /\ p.tx = tx)
            BY <1>t, <3>2, <6>2 DEF Keep
          <6> QED
            BY <6>1, <6>2
        <5> QED
          BY <1>1, <1>3, <3>2, <5>1
      <4> QED
        BY <4>2, <4>3
    <3>3. CASE RTConnected(r) \/ RTListen(r)
      BY <3>2, <3>3 DEF RTConnected, RTListen
    <3>4. CASE RTCall(r)
      <4>1. PICK t \in NextTx(r) :
              call' = [call EXCEPT ![t] = IF CanPush(r) THEN "open" ELSE "raised"]
        BY <3>4 DEF RTCall
      <4>2. call'[tx] = "returned" => call[tx] = "returned"
        BY <1>t, <4>1
      <4>3. store' = store
        BY <3>4 DEF RTCall
      <4> QED
        BY <1>1, <1>3, <4>2, <4>3
    <3>5. CASE RTTake(r)
      <4>1. PICK t \in TxIds : \E p \in store[t] :
              /\ \/ UNCHANGED store
                 \/ store' = [store EXCEPT ![t] = @ \ {p}]
              /\ call' = [call EXCEPT ![t] = IF ~p.ok THEN "raised"
                                             ELSE IF p.fin THEN "returned" ELSE "open"]
        BY <3>5 DEF RTTake
      <4>2. PICK p \in store[t] :
              /\ \/ UNCHANGED store
                 \/ store' = [store EXCEPT ![t] = @ \ {p}]
              /\ call' = [call EXCEPT ![t] = IF ~p.ok THEN "raised"
                                             ELSE IF p.fin THEN "returned" ELSE "open"]
        BY <4>1
      <4>3. store'[tx] \subseteq store[tx]
        BY <1>t, <4>2
      <4>4. call'[tx] = "returned" => call[tx] = "returned" \/ (t = tx /\ p.ok)
        BY <1>t, <4>2
      <4> QED
        BY <1>1, <1>3, <4>2, <4>3, <4>4
    <3> QED
      BY <3>0, <3>1, <3>3, <3>4, <3>5 DEF RuntimeStep
  <2> QED
    BY <2>2, <2>3, <2>4 DEF SysNext
<1> QED
  BY <1>0, <1>1, <1>2, <1>3

-----------------------------------------------------------------------------
(* What they have been told is so.                                         *)

\* What has not been asked for is nowhere when it is.
LEMMA StageFresh ==
    ASSUME SysInv, EndInv, MailInv, [SysNext]_sysVars, NEW k, NEW s,
           NEW tx \in TxIds \ used, what'[tx] # Nothing
    PROVE  StageOf(k, s, tx)'
<1>i. TypeOK /\ SysTypeInv /\ PlaceOf(tx) /\ what[tx] = Nothing
  BY DEF SysInv, PlaceInv, MailInv
<1>t. /\ Machine \in VMs /\ Machine \in Clients /\ Machine # NoClient
      /\ job \in [VMs -> (TxIds \X Plan \X SUBSET CompNames) \cup {NoJob}]
  BY <1>i, OwnerAssumption, VMAssumption DEF SysTypeInv, VMTypeOK
<1>1. PICK r \in Runtimes : RuntimeTurn(r)
  BY <1>i, SysIsQuiet
<1>2. job' = job /\ inbox'[Machine] = inbox[Machine]
  BY <1>i, <1>1, RuntimeSpeaks DEF RuntimeTurn, vmVars
<1>3. Idle(tx) /\ Nowhere(inbox, tx) /\ Nowhere(outbox, tx)
  BY <1>i DEF PlaceOf
<1>4. job[Machine] # NoJob => job[Machine][1] # tx
  BY <1>t, <1>3 DEF EndInv, WorkInv, Idle
<1>5. \A i \in DOMAIN inbox[Machine] : ~OkReply(inbox[Machine][i], tx)
  BY <1>t, <1>3 DEF Nowhere, OkReply
<1>6. ~Confirmed(tx)
  <2>1. store[tx] = {} /\ call[tx] # "returned"
    BY <1>3 DEF EndInv, StoreInv, StoreOf, Idle
  <2>2. \A c \in Clients : \A i \in DOMAIN outbox[c] : ~OkReply(outbox[c][i], tx)
    BY <1>3 DEF Nowhere, OkReply
  <2> QED
    BY <2>1, <2>2 DEF Confirmed
<1>7. ~Handles
  BY <1>i DEF Handles, BrokerTurn, rtVars
<1>8. ~Confirmed(tx)'
  BY <1>i, <1>6, <1>7, ConfirmedFrom
<1> QED
  BY <1>2, <1>4, <1>5, <1>8 DEF StageOf

\* What is told is so, or comes to be before it is told.
LEMMA StageSaid ==
    ASSUME SysTypeInv, RegistryInv, lost = {}, NEW k \in CompNames, NEW s \in Words,
           NEW tx, StageOf(k, s, tx), NEW p, VMSays(Machine, p), OkReply(p, tx)
    PROVE  /\ Fixed(k, s)
           /\ \A ch \in ComponentChannels(k) : Comes(ch, s, Len(inbox[Machine]) + 1)
<1>t. /\ Machine \in VMs /\ todo[Machine] \in Seq(Sends)
      /\ job[Machine] \in (TxIds \X Plan \X SUBSET CompNames) \cup {NoJob}
      /\ vpc[Machine] = "handle" <=> job[Machine] # NoJob
  BY OwnerAssumption DEF SysTypeInv, VMTypeOK, JobInv, Sends
<1>1. p.ptype = "respond_execute" /\ p.tx = tx /\ p.ok
  BY DEF OkReply
<1>2. ~VMSend(Machine) \/ p.ptype # Head(todo[Machine])[1]
  <2> SUFFICES ASSUME VMSend(Machine)
               PROVE  p.ptype # Head(todo[Machine])[1]
    OBVIOUS
  <2>1. Head(todo[Machine]) \in Sends
    BY <1>t, QueueType DEF VMSend
  <2> QED
    BY <1>1, <2>1 DEF Sends
<1>3. VMReply(Machine) /\ p.tx = job[Machine][1] /\ job[Machine][2] # "fail"
  BY <1>1, <1>2 DEF VMSays
<1>4. vpc[Machine] = "handle" /\ todo[Machine] = <<>> /\ job[Machine] # NoJob
  BY <1>t, <1>3 DEF VMReply
<1>5. job[Machine][2] \in {"stream", "ok", "fail"}
  BY <1>t, <1>4 DEF Plan
<1>6. Fixed(k, s)
  BY <1>1, <1>3, <1>4, <1>5 DEF StageOf
<1>7. Wanted(k) = s
  BY <1>6 DEF Fixed, Dead, Wanted, Words
<1>8. ASSUME NEW ch \in ComponentChannels(k)
      PROVE  Comes(ch, s, Len(inbox[Machine]) + 1)
  <2>1. <<s, ch>> \notin Range(todo[Machine])
    BY <1>4 DEF Range
  <2> QED
    BY <1>4, <1>7, <2>1 DEF RegistryInv, Up
<1> QED
  BY <1>6, <1>8

LEMMA StageKept ==
    ASSUME VMs = {Machine}, SysInv, HoldInv, ComponentInv, [SysNext]_sysVars, lost = {}, lost' = {},
           NEW k \in CompNames, NEW s \in Words, Alone(k, s)', Alone(k, s),
           NEW tx \in About(k, s), StageOf(k, s, tx)
    PROVE  StageOf(k, s, tx)'
<1> DEFINE q == inbox[Machine]
<1>i. /\ TypeOK /\ SysTypeInv /\ MailInv /\ TodoInv /\ RegistryInv
      /\ q \in Seq(Packet) /\ tx \in TxIds
  BY OwnerAssumption, VMAssumption
  DEF SysInv, HoldInv, TypeOK, BrokerTypeOK, About, Define, Delete
<1>f. Fixed(k, s) => Fixed(k, s)'
  BY <1>i, FixedStays
<1>m. Rests \/ (\E p : Says(p)) \/ Handles
  BY <1>i, InboxMoves
<1>c. ASSUME NEW n \in Nat, Fixed(k, s), \A ch \in ComponentChannels(k) : Comes(ch, s, n)
      PROVE  /\ Rests \/ (\E p : Says(p)) =>
                   \A ch \in ComponentChannels(k) : Comes(ch, s, n)'
             /\ Handles => \A m \in Nat : n <= m + 1 =>
                   \A ch \in ComponentChannels(k) : Comes(ch, s, m)'
  BY <1>i, <1>c, ComesOn
<1>1. job'[Machine] # NoJob /\ job'[Machine][1] = tx =>
         job'[Machine][2] # "stream" /\ (job'[Machine][2] = "ok" => Fixed(k, s)')
  BY <1>i, StageJob
<1>2. ASSUME NEW i \in DOMAIN inbox'[Machine], OkReply(inbox'[Machine][i], tx)
      PROVE  Fixed(k, s)' /\ \A ch \in ComponentChannels(k) : Comes(ch, s, i)'
  <2>1. ASSUME i \in DOMAIN q, inbox'[Machine][i] = q[i], Rests \/ \E p : Says(p)
        PROVE  Fixed(k, s)' /\ \A ch \in ComponentChannels(k) : Comes(ch, s, i)'
    <3>1. i \in Nat
      BY <1>i, <2>1
    <3>2. Fixed(k, s) /\ \A ch \in ComponentChannels(k) : Comes(ch, s, i)
      BY <1>2, <2>1 DEF StageOf
    <3> QED
      BY <1>c, <1>f, <2>1, <3>1, <3>2
  <2>2. CASE Rests
    BY <1>2, <2>1, <2>2 DEF Rests
  <2>3. ASSUME NEW p, Says(p)
        PROVE  Fixed(k, s)' /\ \A ch \in ComponentChannels(k) : Comes(ch, s, i)'
    <3>1. inbox'[Machine] = Append(q, p) /\ VMSays(Machine, p)
      BY <2>3 DEF Says
    <3>2. \/ i \in DOMAIN q /\ inbox'[Machine][i] = q[i]
          \/ i = Len(q) + 1 /\ inbox'[Machine][i] = p
      BY <1>i, <1>2, <3>1
    <3>3. CASE i = Len(q) + 1 /\ inbox'[Machine][i] = p
      <4>1. Len(q) + 1 \in Nat
        BY <1>i
      <4>2. Fixed(k, s) /\ \A ch \in ComponentChannels(k) : Comes(ch, s, Len(q) + 1)
        BY <1>i, <1>2, <3>1, <3>3, StageSaid
      <4>3. \A ch \in ComponentChannels(k) : Comes(ch, s, i)
        BY <3>3, <4>2
      <4>4. i \in Nat
        BY <3>3, <4>1
      <4> QED
        BY <1>c, <1>f, <2>3, <4>2, <4>3, <4>4
    <3> QED
      BY <2>1, <2>3, <3>2, <3>3
  <2>4. CASE Handles
    <3>1. inbox'[Machine] = Tail(q) /\ q # <<>>
      BY <2>4 DEF Handles
    <3>2. i \in Nat /\ i + 1 \in Nat /\ i + 1 \in DOMAIN q /\ inbox'[Machine][i] = q[i + 1]
      BY <1>i, <1>2, <3>1
    <3>3. Fixed(k, s) /\ \A ch \in ComponentChannels(k) : Comes(ch, s, i + 1)
      BY <1>2, <3>2 DEF StageOf
    <3>4. i + 1 <= i + 1
      BY <3>2
    <3> QED
      BY <1>c, <1>f, <2>4, <3>2, <3>3, <3>4
  <2> QED
    BY <1>m, <2>2, <2>3, <2>4
<1>3. ASSUME Confirmed(tx)'
      PROVE  Fixed(k, s)' /\ \A ch \in ComponentChannels(k) : Comes(ch, s, 0)'
  <2>0. 0 \in Nat /\ 1 \in Nat /\ 0 <= 0 + 1 /\ 1 <= 0 + 1
    OBVIOUS
  <2>1. CASE Confirmed(tx)
    <3>1. Fixed(k, s) /\ \A ch \in ComponentChannels(k) : Comes(ch, s, 0)
      BY <2>1 DEF StageOf
    <3> QED
      BY <1>c, <1>f, <1>m, <2>0, <3>1
  <2>2. CASE Handles /\ OkReply(Head(q), tx)
    <3>1. 1 \in DOMAIN q /\ q[1] = Head(q)
      BY <1>i, <2>2 DEF Handles
    <3>2. OkReply(q[1], tx)
      BY <2>2, <3>1
    <3>3. Fixed(k, s) /\ \A ch \in ComponentChannels(k) : Comes(ch, s, 1)
      BY <3>1, <3>2 DEF StageOf
    <3> QED
      BY <1>c, <1>f, <2>0, <2>2, <3>3
  <2> QED
    BY <1>i, <1>3, <2>1, <2>2, ConfirmedFrom
<1> QED
  BY <1>1, <1>2, <1>3 DEF StageOf

LEMMA StageStep ==
    ASSUME VMs = {Machine}, SysInv, EndInv, HoldInv, ComponentInv, StageInv, [SysNext]_sysVars
    PROVE  StageInv'
<1>i. TypeOK /\ SysTypeInv /\ MailInv
  BY DEF SysInv, HoldInv
<1> SUFFICES ASSUME lost' = {}, NEW k \in CompNames, NEW s \in Words, Alone(k, s)'
             PROVE  \A tx \in About(k, s)' : StageOf(k, s, tx)'
  BY DEF StageInv, Words
<1>1. lost = {} /\ Alone(k, s)
  BY <1>i, DropsStay, AloneWas
<1>2. ASSUME NEW tx \in TxIds \ used, tx \in About(k, s)'
      PROVE  StageOf(k, s, tx)'
  <2>1. what'[tx] # Nothing
    <3>1. NoChannel \notin FactoryChannels /\ DeleteComponent(k) # NoChannel
      BY ChannelSets, ChannelAssumption
    <3>2. what'[tx].ch # NoChannel
      BY <1>2, <3>1 DEF About, Define, Delete
    <3> QED
      BY <3>2 DEF Nothing
  <2> QED
    BY <1>i, <1>2, <2>1, StageFresh
<1>3. ASSUME NEW tx \in used, tx \in About(k, s)'
      PROVE  StageOf(k, s, tx)'
  <2>1. tx \in About(k, s)
    BY <1>i, <1>3, AskedStays DEF About
  <2>2. StageOf(k, s, tx)
    BY <1>1, <2>1 DEF StageInv, Words
  <2> QED
    BY <1>1, <2>1, <2>2, StageKept
<1>4. \A tx \in About(k, s)' : tx \in TxIds
  BY DEF About, Define, Delete
<1> QED
  BY <1>2, <1>3, <1>4

LEMMA StageStarts ==
    ASSUME SysInit
    PROVE  ComponentInv /\ StageInv
<1>1. Held = {} /\ \A tx \in TxIds : what[tx] = Nothing
  BY OwnerAssumption DEF SysInit, VMInit, RuntimeInit, Held, Known
<1>2. ASSUME NEW k \in CompNames, NEW s
      PROVE  About(k, s) = {}
  <2>1. NoChannel \notin FactoryChannels /\ DeleteComponent(k) # NoChannel
    BY ChannelSets, ChannelAssumption
  <2>2. \A tx \in TxIds : what[tx].ch = NoChannel
    BY <1>1 DEF Nothing
  <2> QED
    BY <2>1, <2>2 DEF About, Define, Delete
<1> QED
  BY <1>1, <1>2 DEF ComponentInv, StageInv

LEMMA StageRoutes ==
    ASSUME TypeOK, StageInv
    PROVE  RoutesFollowComponents
<1>t. inbox[Machine] \in Seq(Packet)
  BY OwnerAssumption, VMAssumption DEF TypeOK, BrokerTypeOK
<1> SUFFICES ASSUME lost = {}
             PROVE  DefinedIsRouted /\ DeletedIsUnrouted
  BY DEF RoutesFollowComponents
<1>1. ASSUME NEW k \in CompNames, NEW s \in Words, Alone(k, s), Returned(About(k, s)) # {},
             NEW ch \in ComponentChannels(k)
      PROVE  subscriptions[ch] = Holder(s)
  <2>0. \A j \in DOMAIN inbox[Machine] : j \in Nat
    BY <1>t
  <2>1. PICK tx \in About(k, s) : call[tx] = "returned"
    BY <1>1 DEF Returned
  <2>2. StageOf(k, s, tx)
    BY <1>1 DEF StageInv, Words
  <2>3. Comes(ch, s, 0)
    BY <1>1, <2>1, <2>2 DEF StageOf, Confirmed
  <2>4. ~\E j \in DOMAIN inbox[Machine] : j < 0 /\ Is(inbox[Machine][j], s, ch)
    BY <2>0
  <2> QED
    BY <2>3, <2>4 DEF Comes
<1>2. DefinedIsRouted
  BY <1>1 DEF DefinedIsRouted, Words, Alone, About, Serving, Up, Holder
<1>3. DeletedIsUnrouted
  BY <1>1 DEF DeletedIsUnrouted, Words, Alone, About, Holder
<1> QED
  BY <1>2, <1>3

\* vm.cpp:372, 413: with the one VM start_threads starts, and while no full mailbox has
\* dropped a packet, a define that has returned has routed the channels of its component
\* to the VM, and a delete that has returned has routed them to nobody.
THEOREM RoutesHold ==
    ASSUME VMs = {Machine}
    PROVE  SysSpec => []RoutesFollowComponents
<1> DEFINE Inv == SysInv /\ EndInv /\ HoldInv /\ ComponentInv /\ StageInv
<1>1. SysInit => Inv
  BY SysInvStarts, StoreStarts, HoldStarts, StageStarts
<1>2. Inv /\ [SysNext]_sysVars => Inv'
  <2> SUFFICES ASSUME Inv, [SysNext]_sysVars
               PROVE  Inv'
    OBVIOUS
  <2>1. SysInv' /\ EndInv' /\ HoldInv'
    BY SysInvStep, StoreStep, HoldStep
  <2>2. ComponentInv' /\ StageInv'
    BY ComponentStep, StageStep DEF HoldInv
  <2> QED
    BY <2>1, <2>2
<1>3. Inv => RoutesFollowComponents
  BY StageRoutes DEF SysInv
<1> QED
  BY <1>1, <1>2, <1>3, PTL DEF SysSpec

=============================================================================

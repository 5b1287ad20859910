------------------------------- MODULE Broker -------------------------------
(***************************************************************************)
(* The message broker: broker_start()/broker_stop() of broker.cpp, on top  *)
(* of the in-process sockets it is connected by (inproc_socket.cpp) and    *)
(* the monitors that wake both sides up (thread.cpp).                      *)
(*                                                                         *)
(* The broker is one thread.  It pops a signal off its monitor and handles *)
(* it: "accept" takes a socket out of the acceptor's mailbox, "recv" takes *)
(* one packet out of the mailbox of the socket that signalled, "stop"      *)
(* leaves the loop.  Packets are uninterpreted but for the fields the      *)
(* broker and its clients branch on.                                       *)
(*                                                                         *)
(* The actions here are the broker's; the operators Dial, Push and Hangup  *)
(* are the effects of a client's calls on the shared state, which the      *)
(* modules that model clients build their actions from.                    *)
(***************************************************************************)
EXTENDS Naturals, Sequences

CONSTANTS
    Clients,    \* the client sockets; one value per broker_client_t instance
    Channels,   \* what can be subscribed: "<instruction>/<name>[/<method>]"
    TxIds,      \* the uuids generate_uuid() can return
    Args,       \* the bodies of execute packets, which the broker never loads
    Limit,      \* mailbox_t::limit
    NoClient, NoChannel, NoArg

ASSUME LimitAssumption == Limit \in Nat \ {0}
ASSUME ClientAssumption == NoClient \notin Clients
ASSUME ChannelAssumption == NoChannel \notin Channels

RequestType == {"connect", "disconnect", "subscribe", "unsubscribe", "execute"}

Request == [ptype : RequestType, tx : TxIds, ch : Channels \cup {NoChannel},
            arg : Args \cup {NoArg}]

\* Both kinds of reply carry a tx id and a status.  A `respond' is the whole
\* answer to its request; a `respond_execute' is one element of a stream.
Reply == [ptype : {"respond", "respond_execute"}, tx : TxIds, seq : Nat,
          fin : BOOLEAN, ok : BOOLEAN]

Packet == Request \cup Reply

Respond(tx, ok) ==
    [ptype |-> "respond", tx |-> tx, seq |-> 0, fin |-> TRUE, ok |-> ok]

\* A failure packet always has its finish header set.
RespondExecute(tx, seq, fin, ok) ==
    [ptype |-> "respond_execute", tx |-> tx, seq |-> seq, fin |-> (fin \/ ~ok),
     ok |-> ok]

Signal == [what : {"recv"}, who : Clients]
             \cup [what : {"accept", "stop"}, who : {NoClient}]

RecvSignal(c) == [what |-> "recv", who |-> c]
AcceptSignal == [what |-> "accept", who |-> NoClient]
StopSignal == [what |-> "stop", who |-> NoClient]

VARIABLES
    running,        \* broker_start() is in its loop
    signals,        \* queue of the broker's monitor
    acceptQ,        \* mailbox of the acceptor
    accepting,      \* the client accept() attached and the loop has not yet
                    \* given a monitor, or NoClient
    sockets,        \* clients in socket_map_t
    subscriptions,  \* subscription_map_t
    transactions,   \* transaction_map_t
    inbox,          \* inbox[c]: mailbox of the broker's socket for c
    socket,         \* socket[c]: state of the client's own socket
    outbox,         \* outbox[c]: mailbox of the client's own socket
    notes,          \* notes[c]: queue of the client's monitor
    lost,           \* ghost: tx ids of which a packet was dropped by a mailbox
    early           \* ghost: clients that sent before their Register

serverVars == <<running, sockets, subscriptions, transactions>>
acceptVars == <<acceptQ, accepting>>
clientVars == <<socket, outbox, notes>>
ghostVars == <<lost, early>>
brokerVars == <<serverVars, acceptVars, signals, inbox, clientVars, ghostVars>>

SocketState == {"none", "dialed", "attached", "closed"}

BrokerTypeOK ==
    /\ running \in BOOLEAN
    /\ signals \in Seq(Signal)
    /\ acceptQ \in Seq(Clients)
    /\ accepting \in Clients \cup {NoClient}
    /\ sockets \in SUBSET Clients
    /\ subscriptions \in [Channels -> Clients \cup {NoClient}]
    /\ transactions \in [TxIds -> Clients \cup {NoClient}]
    /\ inbox \in [Clients -> Seq(Packet)]
    /\ socket \in [Clients -> SocketState]
    /\ outbox \in [Clients -> Seq(Packet)]
    /\ notes \in [Clients -> Seq({"recv", "stop"})]
    /\ lost \in SUBSET TxIds
    /\ early \in SUBSET Clients

\* The acceptor has its monitor: Inproc models how it gets there.
BrokerInit ==
    /\ running = TRUE
    /\ signals = <<>>
    /\ acceptQ = <<>>
    /\ accepting = NoClient
    /\ sockets = {}
    /\ subscriptions = [ch \in Channels |-> NoClient]
    /\ transactions = [tx \in TxIds |-> NoClient]
    /\ inbox = [c \in Clients |-> <<>>]
    /\ socket = [c \in Clients |-> "none"]
    /\ outbox = [c \in Clients |-> <<>>]
    /\ notes = [c \in Clients |-> <<>>]
    /\ lost = {}
    /\ early = {}

-----------------------------------------------------------------------------
(* Sockets.                                                                *)

\* Some shared_ptr still owns the broker's socket for c.  The map of
\* transactions can keep it alive after the disconnect of its client.
Owned(c) ==
    \/ accepting = c
    \/ c \in sockets
    \/ \E ch \in Channels : subscriptions[ch] = c
    \/ \E tx \in TxIds : transactions[tx] = c

\* socket_t::send of the client returns true.
CanPush(c) ==
    /\ socket[c] = "attached"
    /\ running
    /\ Owned(c)
    /\ Len(inbox[c]) < Limit

\* socket_t::send of the client: the mailbox, then the broker's monitor if
\* the broker's socket has been given it.
Push(c, p) ==
    IF CanPush(c)
    THEN /\ inbox' = [inbox EXCEPT ![c] = Append(@, p)]
         /\ signals' = IF accepting = c THEN signals
                       ELSE Append(signals, RecvSignal(c))
         /\ early' = IF accepting = c THEN early \cup {c} ELSE early
         /\ UNCHANGED lost
    ELSE /\ lost' = lost \cup {p.tx}
         /\ UNCHANGED <<inbox, signals, early>>

\* Variant: the client is notified only of the first packet in its mailbox.
DeliverSignalsFirst(c, p) ==
    IF socket[c] = "attached" /\ Len(outbox[c]) < Limit
    THEN /\ outbox' = [outbox EXCEPT ![c] = Append(@, p)]
         /\ notes' = IF outbox[c] = <<>>
                     THEN [notes EXCEPT ![c] = Append(@, "recv")] ELSE notes
         /\ UNCHANGED lost
    ELSE /\ lost' = lost \cup {p.tx}
         /\ UNCHANGED <<outbox, notes>>

\* socket_t::send of the broker; every caller ignores its result.
Deliver(c, p) ==
    IF socket[c] = "attached" /\ Len(outbox[c]) < Limit
    THEN /\ outbox' = [outbox EXCEPT ![c] = Append(@, p)]
         /\ notes' = [notes EXCEPT ![c] = Append(@, "recv")]
         /\ UNCHANGED lost
    ELSE /\ lost' = lost \cup {p.tx}
         /\ UNCHANGED <<outbox, notes>>

\* socket_t::connect with the acceptor present: request_accepting notifies
\* whether or not the mailbox took the socket, and a refusal makes the
\* constructor of broker_client_t throw.
Dial(c) ==
    /\ running
    /\ socket[c] = "none"
    /\ signals' = Append(signals, AcceptSignal)
    /\ IF Len(acceptQ) < Limit
       THEN /\ acceptQ' = Append(acceptQ, c)
            /\ socket' = [socket EXCEPT ![c] = "dialed"]
       ELSE /\ socket' = [socket EXCEPT ![c] = "closed"]
            /\ UNCHANGED acceptQ
    /\ UNCHANGED <<serverVars, accepting, inbox, outbox, notes, ghostVars>>

\* The client's socket and monitor are destroyed; the broker is not told.
Hangup(c) ==
    /\ socket' = [socket EXCEPT ![c] = "closed"]
    /\ outbox' = [outbox EXCEPT ![c] = <<>>]
    /\ notes' = [notes EXCEPT ![c] = <<>>]

-----------------------------------------------------------------------------
(* The broker's loop.                                                      *)

\* monitor(100ms) returned s; without a signal the loop goes round.
PopSignal(s) ==
    /\ running
    /\ accepting = NoClient
    /\ signals # <<>>
    /\ Head(signals) = s
    /\ signals' = Tail(signals)

\* accept(): the two sockets are attached to each other, and until Register
\* the client can already send to a socket that has no monitor.
Accept ==
    /\ PopSignal(AcceptSignal)
    /\ IF acceptQ = <<>>
       THEN UNCHANGED <<acceptVars, socket>>
       ELSE /\ accepting' = Head(acceptQ)
            /\ acceptQ' = Tail(acceptQ)
            /\ socket' = IF socket[Head(acceptQ)] = "dialed"
                         THEN [socket EXCEPT ![Head(acceptQ)] = "attached"]
                         ELSE socket
    /\ UNCHANGED <<serverVars, inbox, outbox, notes, ghostVars>>

Register ==
    /\ running
    /\ accepting # NoClient
    /\ sockets' = sockets \cup {accepting}
    /\ accepting' = NoClient
    /\ UNCHANGED <<running, subscriptions, transactions, acceptQ, signals,
                   inbox, clientVars, ghostVars>>

\* A signal of a socket that has disconnected, or with no packet behind it.
IgnoreRecv(c) ==
    /\ PopSignal(RecvSignal(c))
    /\ c \notin sockets \/ inbox[c] = <<>>
    /\ UNCHANGED <<serverVars, acceptVars, inbox, clientVars, ghostVars>>

\* recv() on the socket that signalled yields a packet of the given type.
Receive(c, ptype) ==
    /\ PopSignal(RecvSignal(c))
    /\ c \in sockets
    /\ inbox[c] # <<>>
    /\ Head(inbox[c]).ptype = ptype
    /\ inbox' = [inbox EXCEPT ![c] = Tail(@)]
    /\ UNCHANGED <<running, acceptVars, socket, early>>

HandleConnect(c) ==
    /\ Receive(c, "connect")
    /\ Deliver(c, Respond(Head(inbox[c]).tx, TRUE))
    /\ UNCHANGED <<sockets, subscriptions, transactions>>

\* Variant: the socket is forgotten and its subscriptions stay.
DisconnectKeepsChannels(c) ==
    /\ Receive(c, "disconnect")
    /\ sockets' = sockets \ {c}
    /\ Deliver(c, Respond(Head(inbox[c]).tx, TRUE))
    /\ UNCHANGED <<subscriptions, transactions>>

\* The subscriptions of c go with it; its transactions stay.
HandleDisconnect(c) ==
    /\ Receive(c, "disconnect")
    /\ subscriptions' = [ch \in Channels |->
                            IF subscriptions[ch] = c THEN NoClient
                            ELSE subscriptions[ch]]
    /\ sockets' = sockets \ {c}
    /\ Deliver(c, Respond(Head(inbox[c]).tx, TRUE))
    /\ UNCHANGED transactions

HandleSubscribe(c) ==
    /\ Receive(c, "subscribe")
    /\ LET p == Head(inbox[c])
           free == subscriptions[p.ch] = NoClient
       IN /\ subscriptions' = IF free THEN [subscriptions EXCEPT ![p.ch] = c]
                              ELSE subscriptions
          /\ Deliver(c, Respond(p.tx, free))
    /\ UNCHANGED <<sockets, transactions>>

\* Variant: whoever asks may unsubscribe.
UnsubscribeByAnyone(c) ==
    /\ Receive(c, "unsubscribe")
    /\ LET p == Head(inbox[c])
       IN /\ subscriptions' = [subscriptions EXCEPT ![p.ch] = NoClient]
          /\ Deliver(c, Respond(p.tx, subscriptions[p.ch] # NoClient))
    /\ UNCHANGED <<sockets, transactions>>

\* Refused when the channel is free or held by another client.
HandleUnsubscribe(c) ==
    /\ Receive(c, "unsubscribe")
    /\ LET p == Head(inbox[c])
           mine == subscriptions[p.ch] = c
       IN /\ subscriptions' = IF mine
                              THEN [subscriptions EXCEPT ![p.ch] = NoClient]
                              ELSE subscriptions
          /\ Deliver(c, Respond(p.tx, mine))
    /\ UNCHANGED <<sockets, transactions>>

\* Variant: the subscriber is recorded in place of the caller.
ExecuteRecordsTarget(c) ==
    /\ Receive(c, "execute")
    /\ LET p == Head(inbox[c])
           target == subscriptions[p.ch]
       IN IF target = NoClient
          THEN /\ Deliver(c, RespondExecute(p.tx, 0, TRUE, FALSE))
               /\ UNCHANGED transactions
          ELSE /\ transactions' = [transactions EXCEPT ![p.tx] = target]
               /\ Deliver(target, p)
    /\ UNCHANGED <<sockets, subscriptions>>

HandleExecute(c) ==
    /\ Receive(c, "execute")
    /\ LET p == Head(inbox[c])
           target == subscriptions[p.ch]
       IN IF target = NoClient
          THEN /\ Deliver(c, RespondExecute(p.tx, 0, TRUE, FALSE))
               /\ UNCHANGED transactions
          ELSE /\ transactions' = [transactions EXCEPT ![p.tx] = c]
               /\ Deliver(target, p)
    /\ UNCHANGED <<sockets, subscriptions>>

\* Variant: the end of a stream does not end its transaction.
RespondExecuteLeaks(c) ==
    /\ Receive(c, "respond_execute")
    /\ LET p == Head(inbox[c])
           target == transactions[p.tx]
       IN IF target = NoClient
          THEN UNCHANGED <<outbox, notes, lost>>
          ELSE Deliver(target, p)
    /\ UNCHANGED <<sockets, subscriptions, transactions>>

HandleRespondExecute(c) ==
    /\ Receive(c, "respond_execute")
    /\ LET p == Head(inbox[c])
           target == transactions[p.tx]
       IN IF target = NoClient
          THEN UNCHANGED <<transactions, outbox, notes, lost>>
          ELSE /\ Deliver(target, p)
               /\ transactions' = IF p.fin
                                  THEN [transactions EXCEPT ![p.tx] = NoClient]
                                  ELSE transactions
    /\ UNCHANGED <<sockets, subscriptions>>

\* broker_stop() notifies the monitor through the stop_t of this url ...
\* (Bound: one stop signal at a time; the first one ends the loop.)
BrokerStop ==
    /\ running
    /\ \A i \in DOMAIN signals : signals[i] # StopSignal
    /\ signals' = Append(signals, StopSignal)
    /\ UNCHANGED <<serverVars, acceptVars, inbox, clientVars, ghostVars>>

\* ... and the loop ends when the signals before it have been handled.  The
\* acceptor, the sockets and their mailboxes are destroyed.
Stopped ==
    /\ PopSignal(StopSignal)
    /\ running' = FALSE
    /\ UNCHANGED <<sockets, subscriptions, transactions, acceptVars, inbox,
                   clientVars, ghostVars>>

HandleRecv(c) ==
    \/ IgnoreRecv(c)
    \/ HandleConnect(c)
    \/ HandleDisconnect(c)
    \/ HandleSubscribe(c)
    \/ HandleUnsubscribe(c)
    \/ HandleExecute(c)
    \/ HandleRespondExecute(c)

\* One round of the loop.
BrokerStep ==
    \/ Accept
    \/ Register
    \/ Stopped
    \/ \E c \in Clients : HandleRecv(c)

=============================================================================

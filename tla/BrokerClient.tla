---------------------------- MODULE BrokerClient ----------------------------
(***************************************************************************)
(* The broker with arbitrary clients: every client is a broker_client_t    *)
(* (broker_client.cpp) that may dial, send any request under a fresh uuid, *)
(* listen, answer the executes it has received, be told to stop, and go    *)
(* away at any moment.  The only discipline is the one the client code     *)
(* keeps: a uuid is used once, and the replies to one execute are numbered *)
(* 0, 1, ... and end with the first that carries the finish header.        *)
(***************************************************************************)
EXTENDS Broker, SequencesExt

CONSTANTS
    Issuer,     \* Issuer[tx]: the client whose generate_uuid() returns tx
    Stoppable,  \* the clients whose monitor also hears a stop_t (the VMs)
    MaxSeq      \* bound: a stream has at most MaxSeq + 1 replies

ASSUME IssuerAssumption == Issuer \in [TxIds -> Clients]
ASSUME StoppableAssumption == Stoppable \subseteq Clients
ASSUME MaxSeqAssumption == MaxSeq \in Nat

VARIABLES
    used,       \* the uuids generated so far
    worker,     \* worker[tx]: client that runs the execute tx, or NoClient
    next,       \* next[tx]: sequence number of the next reply its worker sends
    got         \* ghost, got[tx]: stream replies the issuer of tx has taken

peerVars == <<used, worker, next, got>>
vars == <<brokerVars, peerVars>>

TypeOK ==
    /\ BrokerTypeOK
    /\ used \in SUBSET TxIds
    /\ worker \in [TxIds -> Clients \cup {NoClient}]
    /\ next \in [TxIds -> Nat]
    /\ got \in [TxIds -> Nat]

Init ==
    /\ BrokerInit
    /\ used = {}
    /\ worker = [tx \in TxIds |-> NoClient]
    /\ next = [tx \in TxIds |-> 0]
    /\ got = [tx \in TxIds |-> 0]

-----------------------------------------------------------------------------

Connect(c) ==
    /\ Dial(c)
    /\ UNCHANGED peerVars

\* generate_uuid(): which of the unused uuids it is makes no difference, so
\* the clients that are modelled in detail draw the one in NextTx.
Fresh(c) == {tx \in TxIds \ used : Issuer[tx] = c}
NextTx(c) == {tx \in Fresh(c) : tx = CHOOSE t \in Fresh(c) : TRUE}

\* send<ptype, itype>(generate_uuid(), ...); a send that returns false has
\* still used up the uuid.
SendRequest(c, tx, ptype, ch, arg) ==
    /\ socket[c] \in {"dialed", "attached"}
    /\ Issuer[tx] = c
    /\ tx \notin used
    /\ used' = used \cup {tx}
    /\ Push(c, [ptype |-> ptype, tx |-> tx, ch |-> ch, arg |-> arg])
    /\ UNCHANGED <<serverVars, acceptVars, clientVars, worker, next, got>>

\* Variant: the sequence number is advanced before the send.
SendReplyFromOne(c, tx, fin, ok) ==
    /\ socket[c] = "attached"
    /\ worker[tx] = c
    /\ next[tx] < MaxSeq \/ fin \/ ~ok
    /\ Push(c, RespondExecute(tx, next[tx] + 1, fin, ok))
    /\ next' = [next EXCEPT ![tx] = @ + 1]
    /\ worker' = IF fin \/ ~ok THEN [worker EXCEPT ![tx] = NoClient] ELSE worker
    /\ UNCHANGED <<serverVars, acceptVars, clientVars, used, got>>

\* send<respond_execute, ok>(tx, i, finish, ...), whatever it returns.
SendReply(c, tx, fin, ok) ==
    /\ socket[c] = "attached"
    /\ worker[tx] = c
    /\ next[tx] < MaxSeq \/ fin \/ ~ok
    /\ Push(c, RespondExecute(tx, next[tx], fin, ok))
    /\ next' = [next EXCEPT ![tx] = @ + 1]
    /\ worker' = IF fin \/ ~ok THEN [worker EXCEPT ![tx] = NoClient] ELSE worker
    /\ UNCHANGED <<serverVars, acceptVars, clientVars, used, got>>

\* listen(): pop a signal, then recv() pops a packet if there is one.
Listen(c) ==
    /\ notes[c] # <<>>
    /\ notes' = [notes EXCEPT ![c] = Tail(@)]
    /\ IF outbox[c] = <<>>
       THEN UNCHANGED <<outbox, worker, got>>
       ELSE LET p == Head(outbox[c])
            IN /\ outbox' = [outbox EXCEPT ![c] = Tail(@)]
               /\ worker' = IF p.ptype = "execute"
                            THEN [worker EXCEPT ![p.tx] = c] ELSE worker
               /\ got' = IF p.ptype = "respond_execute"
                         THEN [got EXCEPT ![p.tx] = @ + 1] ELSE got
    /\ UNCHANGED <<serverVars, acceptVars, signals, inbox, socket, ghostVars,
                   used, next>>

\* Another thread calls stop() on the stop_t that shares this monitor ...
\* (Bound: one stop signal at a time.)
Stop(c) ==
    /\ c \in Stoppable
    /\ socket[c] \in {"dialed", "attached"}
    /\ \A i \in DOMAIN notes[c] : notes[c][i] # "stop"
    /\ notes' = [notes EXCEPT ![c] = Append(@, "stop")]
    /\ UNCHANGED <<serverVars, acceptVars, signals, inbox, socket, outbox,
                   ghostVars, peerVars>>

\* ... and the owner of the monitor takes that signal for what it is.
TakeStop(c) ==
    /\ notes[c] # <<>>
    /\ Head(notes[c]) = "stop"
    /\ notes' = [notes EXCEPT ![c] = Tail(@)]
    /\ UNCHANGED <<serverVars, acceptVars, signals, inbox, socket, outbox,
                   ghostVars, peerVars>>

\* The broker_client_t is destroyed, after a disconnect or without one.
Close(c) ==
    /\ socket[c] \in {"dialed", "attached"}
    /\ Hangup(c)
    /\ worker' = [tx \in TxIds |-> IF worker[tx] = c THEN NoClient
                                   ELSE worker[tx]]
    /\ UNCHANGED <<serverVars, acceptVars, signals, inbox, ghostVars, used,
                   next, got>>

BrokerAct == BrokerStep /\ UNCHANGED peerVars

StopBroker == BrokerStop /\ UNCHANGED peerVars

ClientStep(c) ==
    \/ Connect(c)
    \/ \E tx \in TxIds, ptype \in {"connect", "disconnect"} :
          SendRequest(c, tx, ptype, NoChannel, NoArg)
    \/ \E tx \in TxIds, ptype \in {"subscribe", "unsubscribe"}, ch \in Channels :
          SendRequest(c, tx, ptype, ch, NoArg)
    \/ \E tx \in TxIds, ch \in Channels, arg \in Args \cup {NoArg} :
          SendRequest(c, tx, "execute", ch, arg)
    \/ \E tx \in TxIds, fin, ok \in BOOLEAN : SendReply(c, tx, fin, ok)
    \/ Listen(c)
    \/ Stop(c)
    \/ TakeStop(c)
    \/ Close(c)

Next ==
    \/ BrokerAct
    \/ StopBroker
    \/ \E c \in Clients : ClientStep(c)

Spec == Init /\ [][Next]_vars

-----------------------------------------------------------------------------
(* Properties.                                                             *)

IsReply(p) == p.ptype \in {"respond", "respond_execute"}

Count(s, e) == Cardinality({i \in DOMAIN s : s[i] = e})

\* No channel is held by a client that is not connected: when a client
\* disconnects, broker.cpp looks for its channels before it forgets the
\* socket, so that the next execute is refused instead of being forwarded
\* to nobody.
SubscriberIsConnected ==
    \A ch \in Channels : subscriptions[ch] # NoClient => subscriptions[ch] \in sockets

\* Replies reach the client that asked and nobody else, whoever sends them:
\* the broker routes a respond_execute by the transactions it has recorded
\* and a respond by the socket the request came from.
RepliesReachTheIssuer ==
    \A c \in Clients : \A i \in DOMAIN outbox[c] :
        IsReply(outbox[c][i]) => Issuer[outbox[c][i].tx] = c

\* The finish header ends a transaction: once a finished reply waits for the
\* caller, the broker has released the transaction, and no other packet of it
\* is behind that reply or on its way to the broker.  A caller that stops
\* listening at the finish (as the runtimes do) misses nothing.
FinishIsLast ==
    \A c \in Clients : \A i \in DOMAIN outbox[c] :
        LET p == outbox[c][i]
        IN  IsReply(p) /\ p.fin =>
               /\ transactions[p.tx] = NoClient
               /\ \A j \in DOMAIN outbox[c] :
                     j > i /\ IsReply(outbox[c][j]) => outbox[c][j].tx # p.tx
               /\ \A d \in Clients : \A j \in DOMAIN inbox[d] :
                     inbox[d][j].tx # p.tx

\* The stream of a transaction none of whose packets was dropped is
\* delivered without a gap, a repetition or a reordering: what waits for
\* the caller continues from what it has already taken.
StreamIsContiguous ==
    \A c \in Clients : \A i \in DOMAIN outbox[c] :
        LET p == outbox[c][i]
            ahead == {j \in 1 .. i - 1 : /\ outbox[c][j].ptype = "respond_execute"
                                         /\ outbox[c][j].tx = p.tx}
        IN  socket[c] = "attached" /\ p.ptype = "respond_execute" /\ p.tx \notin lost
            => p.seq = got[p.tx] + Cardinality(ahead)

\* broker.cpp:126-150: what a caller is given of a transaction is whole, from its first
\* packet to the one with the finish header, and nothing comes behind that.
StreamsAreWhole == FinishIsLast /\ StreamIsContiguous

\* A recv signal always has a packet behind it: the loops of the broker and
\* of the VM count on recv() returning one for each signal.
NoEmptyRecv ==
    \A c \in Clients : Count(signals, RecvSignal(c)) <= Len(inbox[c])

\* No packet waits in the broker for a signal that will not come, unless
\* its client sent before the broker had given the new socket its monitor.
NoStrandedRequest ==
    \A c \in sockets \ early :
        Count(signals, RecvSignal(c)) = Len(inbox[c])

\* On the client's side, where the monitor is set before the first send, no
\* packet is ever stranded, a stop signal taken for a reply included.
NoStrandedReply ==
    \A c \in Clients : Len(outbox[c]) <= Count(notes[c], "recv")

\* Packets and their signals stay in step, on either side of every connection,
\* although they travel through two queues: broker and clients pop a signal and
\* then expect one packet, no more and no less.
SignalsMatchPackets == NoEmptyRecv /\ NoStrandedRequest /\ NoStrandedReply

\* A channel changes hands only through its holder: no step of any other
\* client, and no execute, takes a subscription away or passes it on.
NoHijack ==
    [][\A ch \in Channels :
          LET c == subscriptions[ch]
          IN  c # NoClient /\ subscriptions'[ch] # c
              => /\ subscriptions'[ch] = NoClient
                 /\ inbox[c] # <<>> /\ inbox'[c] = Tail(inbox[c])
                 /\ LET p == Head(inbox[c])
                    IN \/ p.ptype = "disconnect"
                       \/ p.ptype = "unsubscribe" /\ p.ch = ch]_vars

=============================================================================

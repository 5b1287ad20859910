------------------------------- MODULE Inproc -------------------------------
(***************************************************************************)
(* How a client's socket and the broker find each other and exchange       *)
(* packets (inproc_socket.cpp, thread.cpp and the accepting half of        *)
(* broker_start), at the grain of the critical sections: what one thread   *)
(* does under dialer.m, a mailbox's mutex or a monitor's mutex is one      *)
(* step, and the steps of the threads interleave.  Broker.tla takes over   *)
(* where the acceptor has its monitor.                                     *)
(*                                                                         *)
(* acceptor_t::on_monitor_set walks dialer.connections without dialer.m,   *)
(* so a client whose wait times out may change the multimap under it.  The *)
(* walk is modelled as one step per waiter, in any order, with the         *)
(* time-outs between them: the orders in which the entries go, not the     *)
(* damage a concurrent erase can do to the iterators.                      *)
(***************************************************************************)
EXTENDS Integers, Sequences, FiniteSets

CONSTANTS
    Clients,    \* client threads, each with one socket
    Limit,      \* mailbox_t::limit
    MaxSend,    \* bound: packets a client sends
    NoClient

ASSUME InprocLimit == Limit \in Nat \ {0}
ASSUME InprocClient == NoClient \notin Clients

VARIABLES
    \* the broker's thread
    spc,            \* where it is
    hasMonitor,     \* the acceptor has its monitor
    unserved,       \* waiters on_monitor_set has still to visit
    acceptQ,        \* the acceptor's mailbox
    current,        \* the client whose socket is being accepted
    monitored,      \* clients whose broker-side socket has its monitor
    signals,        \* the broker's monitor: clients for "recv", NoClient for "accept"
    taken,          \* taken[c]: packets received from c
    \* the dialer
    listening,      \* the acceptor is in dialer.acceptors
    waiters,        \* dialer.connections
    \* the clients' threads
    cpc,            \* where they are
    attached,       \* clients whose socket has a peer
    inbox,          \* inbox[c]: mailbox of the broker-side socket of c
    sent,           \* sent[c]: packets the mailbox has accepted from c
    \* ghosts
    unheard,        \* clients whose "accept" was notified to no monitor
    early           \* clients whose "recv" was notified to no monitor

brokerVars == <<spc, hasMonitor, unserved, current, monitored, taken>>
dialerVars == <<listening, waiters>>
clientVars == <<cpc, sent>>
vars == <<brokerVars, acceptQ, signals, dialerVars, clientVars, attached,
          inbox, unheard, early>>

BrokerPC == {"start", "registered", "walk", "walknotify", "loop", "attach",
             "setmonitor", "stopping", "down"}
ClientPC == {"idle", "waiting", "granted", "refused", "connected", "notifying",
             "failed"}

TypeOK ==
    /\ spc \in BrokerPC
    /\ hasMonitor \in BOOLEAN
    /\ unserved \subseteq Clients
    /\ acceptQ \in Seq(Clients)
    /\ current \in Clients \cup {NoClient}
    /\ monitored \subseteq Clients
    /\ signals \in Seq(Clients \cup {NoClient})
    /\ taken \in [Clients -> Nat]
    /\ listening \in BOOLEAN
    /\ waiters \subseteq Clients
    /\ cpc \in [Clients -> ClientPC]
    /\ attached \subseteq Clients
    /\ inbox \in [Clients -> Seq(Nat)]
    /\ sent \in [Clients -> Nat]
    /\ unheard \subseteq Clients
    /\ early \subseteq Clients

Init ==
    /\ spc = "start"
    /\ hasMonitor = FALSE
    /\ unserved = {}
    /\ acceptQ = <<>>
    /\ current = NoClient
    /\ monitored = {}
    /\ signals = <<>>
    /\ taken = [c \in Clients |-> 0]
    /\ listening = FALSE
    /\ waiters = {}
    /\ cpc = [c \in Clients |-> "idle"]
    /\ attached = {}
    /\ inbox = [c \in Clients |-> <<>>]
    /\ sent = [c \in Clients |-> 0]
    /\ unheard = {}
    /\ early = {}

-----------------------------------------------------------------------------

\* dialer.m is free.  connect() of a client that finds the acceptor holds it until
\* request_accepting has returned.
DialerFree == \A c \in Clients : cpc[c] \notin {"granted", "refused"}

\* acceptor_t::request_accepting for the socket of c: the mailbox, under its mutex ...
RequestSet(c) ==
    acceptQ' = IF Len(acceptQ) < Limit THEN Append(acceptQ, c) ELSE acceptQ

\* Variant: the monitor is notified only of the first socket in the mailbox.
RequestNotifyFirst ==
    signals' = IF hasMonitor /\ Len(acceptQ) <= 1 THEN Append(signals, NoClient)
               ELSE signals

\* ... then notify("accept"), under the monitor's mutex, whatever the mailbox said.
\* The broker's thread may take the socket in between.
RequestNotify ==
    signals' = IF hasMonitor THEN Append(signals, NoClient) ELSE signals

\* socket_t::connect, under dialer.m: what the mailbox answers is the result ...
ConnectNow(c) ==
    /\ cpc[c] = "idle"
    /\ DialerFree
    /\ listening
    /\ RequestSet(c)
    /\ cpc' = [cpc EXCEPT ![c] = IF Len(acceptQ) < Limit THEN "granted"
                                 ELSE "refused"]
    /\ UNCHANGED <<brokerVars, signals, dialerVars, attached, inbox, sent,
                   unheard, early>>

\* ... of connect(), which returns after the notification.
ConnectNotify(c) ==
    /\ cpc[c] \in {"granted", "refused"}
    /\ RequestNotify
    /\ cpc' = [cpc EXCEPT ![c] = IF @ = "granted" THEN "connected" ELSE "failed"]
    /\ unheard' = IF hasMonitor THEN unheard ELSE unheard \cup {c}
    /\ UNCHANGED <<brokerVars, acceptQ, dialerVars, attached, inbox, sent, early>>

ConnectWait(c) ==
    /\ cpc[c] = "idle"
    /\ DialerFree
    /\ ~listening
    /\ waiters' = waiters \cup {c}
    /\ cpc' = [cpc EXCEPT ![c] = "waiting"]
    /\ UNCHANGED <<brokerVars, acceptQ, signals, listening, attached, inbox,
                   sent, unheard, early>>

\* cv.wait_for takes dialer.m again, because no connection waits for this url any
\* more ...
ConnectWoken(c) ==
    /\ cpc[c] = "waiting"
    /\ DialerFree
    /\ waiters = {}
    /\ cpc' = [cpc EXCEPT ![c] = "connected"]
    /\ UNCHANGED <<brokerVars, acceptQ, signals, dialerVars, attached, inbox,
                   sent, unheard, early>>

\* Variant: the result of wait_for is not looked at.
TimeoutIgnored(c) ==
    /\ cpc[c] = "waiting"
    /\ DialerFree
    /\ waiters # {}
    /\ waiters' = waiters \ {c}
    /\ cpc' = [cpc EXCEPT ![c] = "connected"]
    /\ UNCHANGED <<brokerVars, acceptQ, signals, listening, attached, inbox,
                   sent, unheard, early>>

\* ... or because a second has passed and some connection still does.
ConnectTimeout(c) ==
    /\ cpc[c] = "waiting"
    /\ DialerFree
    /\ waiters # {}
    /\ waiters' = waiters \ {c}
    /\ cpc' = [cpc EXCEPT ![c] = "failed"]
    /\ UNCHANGED <<brokerVars, acceptQ, signals, listening, attached, inbox,
                   sent, unheard, early>>

\* socket_t::send: the mailbox (sends that return false change nothing) ...
SendSet(c) ==
    /\ cpc[c] = "connected"
    /\ c \in attached
    /\ spc # "down"
    /\ Len(inbox[c]) < Limit
    /\ sent[c] < MaxSend
    /\ sent' = [sent EXCEPT ![c] = @ + 1]
    /\ inbox' = [inbox EXCEPT ![c] = Append(@, sent[c] + 1)]
    /\ cpc' = [cpc EXCEPT ![c] = "notifying"]
    /\ UNCHANGED <<brokerVars, acceptQ, signals, dialerVars, attached,
                   unheard, early>>

\* Variant: a monitor with signals in its queue is not notified.
NotifyIdleOnly(c) ==
    /\ cpc[c] = "notifying"
    /\ cpc' = [cpc EXCEPT ![c] = "connected"]
    /\ signals' = IF c \in monitored /\ signals = <<>> THEN Append(signals, c)
                  ELSE signals
    /\ early' = IF c \in monitored THEN early ELSE early \cup {c}
    /\ UNCHANGED <<brokerVars, acceptQ, dialerVars, attached, inbox, sent,
                   unheard>>

\* ... then peer_notify: notify_t::notify drops the signal when the socket
\* has no monitor.
SendNotify(c) ==
    /\ cpc[c] = "notifying"
    /\ cpc' = [cpc EXCEPT ![c] = "connected"]
    /\ signals' = IF c \in monitored THEN Append(signals, c) ELSE signals
    /\ early' = IF c \in monitored THEN early ELSE early \cup {c}
    /\ UNCHANGED <<brokerVars, acceptQ, dialerVars, attached, inbox, sent,
                   unheard>>

ClientStep(c) ==
    \/ ConnectNow(c)
    \/ ConnectNotify(c)
    \/ ConnectWait(c)
    \/ ConnectWoken(c)
    \/ ConnectTimeout(c)
    \/ SendSet(c)
    \/ SendNotify(c)

-----------------------------------------------------------------------------

\* acceptor_t::acceptor_t, under dialer.m.
CreateAcceptor ==
    /\ spc = "start"
    /\ DialerFree
    /\ listening' = TRUE
    /\ spc' = "registered"
    /\ UNCHANGED <<hasMonitor, unserved, current, monitored, taken, acceptQ,
                   signals, waiters, clientVars, attached, inbox, unheard, early>>

\* notify_t::set_monitor on the acceptor: the monitor ...
SetAcceptorMonitor ==
    /\ spc = "registered"
    /\ hasMonitor' = TRUE
    /\ unserved' = waiters
    /\ spc' = "walk"
    /\ UNCHANGED <<current, monitored, taken, acceptQ, signals, dialerVars,
                   clientVars, attached, inbox, unheard, early>>

\* ... and on_monitor_set, which does not take dialer.m: each waiter still there is
\* put in the mailbox ...
ServeWaiter(c) ==
    /\ spc = "walk"
    /\ c \in unserved
    /\ unserved' = unserved \ {c}
    /\ IF c \in waiters
       THEN RequestSet(c) /\ spc' = "walknotify"
       ELSE UNCHANGED <<acceptQ, spc>>
    /\ UNCHANGED <<hasMonitor, current, monitored, taken, signals, dialerVars,
                   clientVars, attached, inbox, unheard, early>>

\* ... and the monitor, which is there by now, is told of it ...
WalkNotify ==
    /\ spc = "walknotify"
    /\ RequestNotify
    /\ spc' = "walk"
    /\ UNCHANGED <<hasMonitor, unserved, current, monitored, taken, acceptQ,
                   dialerVars, clientVars, attached, inbox, unheard, early>>

\* ... and the range is erased.  No condition variable is notified here.
EraseWaiters ==
    /\ spc = "walk"
    /\ unserved = {}
    /\ waiters' = {}
    /\ spc' = "loop"
    /\ UNCHANGED <<hasMonitor, unserved, current, monitored, taken, acceptQ,
                   signals, listening, clientVars, attached, inbox, unheard,
                   early>>

\* broker_start on "accept": acceptor_t::accept takes a socket, if any ...
AcceptGet ==
    /\ spc = "loop"
    /\ signals # <<>>
    /\ Head(signals) = NoClient
    /\ signals' = Tail(signals)
    /\ IF acceptQ = <<>>
       THEN UNCHANGED <<acceptQ, current, spc>>
       ELSE /\ acceptQ' = Tail(acceptQ)
            /\ current' = Head(acceptQ)
            /\ spc' = "attach"
    /\ UNCHANGED <<hasMonitor, unserved, monitored, taken, dialerVars,
                   clientVars, attached, inbox, unheard, early>>

\* ... attaches the two sockets to each other ...
AcceptAttach ==
    /\ spc = "attach"
    /\ attached' = attached \cup {current}
    /\ spc' = "setmonitor"
    /\ UNCHANGED <<hasMonitor, unserved, current, monitored, taken, acceptQ,
                   signals, dialerVars, clientVars, inbox, unheard, early>>

\* ... and only then does the loop give the new socket its monitor.
AcceptSetMonitor ==
    /\ spc = "setmonitor"
    /\ monitored' = monitored \cup {current}
    /\ current' = NoClient
    /\ spc' = "loop"
    /\ UNCHANGED <<hasMonitor, unserved, taken, acceptQ, signals, dialerVars,
                   clientVars, attached, inbox, unheard, early>>

\* broker_start on "recv".
Recv(c) ==
    /\ spc = "loop"
    /\ signals # <<>>
    /\ Head(signals) = c
    /\ signals' = Tail(signals)
    /\ IF inbox[c] = <<>>
       THEN UNCHANGED <<inbox, taken>>
       ELSE /\ taken' = [taken EXCEPT ![c] = Head(inbox[c])]
            /\ inbox' = [inbox EXCEPT ![c] = Tail(@)]
    /\ UNCHANGED <<spc, hasMonitor, unserved, current, monitored, acceptQ,
                   dialerVars, clientVars, attached, unheard, early>>

\* The loop ends: acceptor_t::~acceptor_t takes the url out of the dialer
\* under dialer.m, then the sockets and the monitor go.
DestroyAcceptor ==
    /\ spc = "loop"
    /\ DialerFree
    /\ listening' = FALSE
    /\ spc' = "stopping"
    /\ UNCHANGED <<hasMonitor, unserved, current, monitored, taken, acceptQ,
                   signals, waiters, clientVars, attached, inbox, unheard, early>>

DestroySockets ==
    /\ spc = "stopping"
    /\ spc' = "down"
    /\ acceptQ' = <<>>
    /\ signals' = <<>>
    /\ monitored' = {}
    /\ UNCHANGED <<hasMonitor, unserved, current, taken, dialerVars, clientVars,
                   attached, inbox, unheard, early>>

BrokerLoop ==
    \/ CreateAcceptor
    \/ SetAcceptorMonitor
    \/ \E c \in Clients : ServeWaiter(c)
    \/ WalkNotify
    \/ EraseWaiters
    \/ AcceptGet
    \/ AcceptAttach
    \/ AcceptSetMonitor
    \/ \E c \in Clients : Recv(c)

BrokerExit == DestroyAcceptor \/ DestroySockets

Next == BrokerLoop \/ BrokerExit \/ \E c \in Clients : ClientStep(c)

Spec == Init /\ [][Next]_vars

\* The broker's thread keeps running its loop (a stop is never forced on it),
\* wait_for returns after a second at the latest, and a dial and a send end.
Fairness ==
    /\ WF_vars(BrokerLoop)
    /\ \A c \in Clients :
          WF_vars(\/ ConnectNotify(c)
                  \/ ConnectWoken(c)
                  \/ ConnectTimeout(c)
                  \/ SendNotify(c))

FairSpec == Spec /\ Fairness

-----------------------------------------------------------------------------
(* Properties.                                                             *)

Count(s, e) == Cardinality({i \in DOMAIN s : s[i] = e})
InMailbox(c) == \E i \in DOMAIN acceptQ : acceptQ[i] = c
Up == spc \notin {"stopping", "down"}
Connected(c) == cpc[c] \in {"granted", "connected", "notifying"}

\* A socket whose connect() returns true is in the hands of the acceptor:
\* in its mailbox, being accepted, or attached.  Nothing on the way from the
\* waiting list to the mailbox may lose it.
ConnectedIsKept ==
    \A c \in Clients : Connected(c) /\ Up
        => InMailbox(c) \/ c = current \/ c \in attached

\* A socket is accepted once: it is not queued twice, nor again after its
\* attach, which would tie the client to a second broker-side socket.
AcceptedOnce ==
    \A c \in Clients :
        /\ Count(acceptQ, c) <= 1
        /\ InMailbox(c) => c # current /\ c \notin attached

\* inproc_socket.cpp:46-72 and 132-139: a connection that was promised is neither lost
\* nor made twice, whatever races between a time-out, the walk of the waiting list and
\* a second dial.
ConnectionsAreKept == ConnectedIsKept /\ AcceptedOnce

\* Notifications that are about to be sent for a socket already in the mailbox: by the
\* client that holds dialer.m, and by the walk.
AboutToSignal ==
    (IF \E c \in Clients : cpc[c] = "granted" THEN 1 ELSE 0)
  + (IF spc = "walknotify" THEN 1 ELSE 0)

\* Each queued socket has an accept signal, or is about to get one, except as many
\* as there were notified before the acceptor had its monitor.
AcceptIsSignalled ==
    spc # "down" => Len(acceptQ) <= Count(signals, NoClient) + AboutToSignal
                                    + Cardinality(unheard)

\* recv() called on a signal finds a packet: the signal is sent after the
\* packet is in the mailbox and each takes one away.
NoEmptyRecv ==
    \A c \in Clients : Count(signals, c) <= Len(inbox[c])

\* Packets and signals stay in step for a client whose every notification
\* found the monitor, the one it is about to send included.
NoStrandedPacket ==
    \A c \in monitored \ early :
        Len(inbox[c]) = Count(signals, c) + (IF cpc[c] = "notifying" THEN 1 ELSE 0)

\* inproc_socket.cpp:89-96 and 154-158: whoever pops the signal of a packet finds it,
\* and nothing is left in a mailbox without a signal that is in the queue or about to
\* be sent, at every point between the critical sections of a send, a dial, the walk
\* of the waiting list and the broker's loop.
SignalsMatchPackets == AcceptIsSignalled /\ NoEmptyRecv /\ NoStrandedPacket

\* connect() does not block for ever, broker or no broker.
ConnectReturns ==
    \A c \in Clients : cpc[c] = "waiting" ~> cpc[c] # "waiting"

\* While no notification has been lost, a connected client is attached.
HeardIsAttached ==
    \A c \in Clients :
        Connected(c) /\ unheard = {} ~> c \in attached \/ unheard # {} \/ ~Up

\* inproc_socket.cpp:53-71 and 141-152: a dial comes to an end, and one that succeeded
\* comes to be a connection.
ConnectionsComeToBe == ConnectReturns /\ HeardIsAttached

\* What a client sent is received, unless a signal of its was dropped.
SentIsTaken ==
    \A c \in Clients : \A n \in 1 .. MaxSend :
        sent[c] >= n ~> taken[c] >= n \/ c \in early \/ ~Up

=============================================================================

------------------------------- MODULE Service -------------------------------
(***************************************************************************)
(* The broker and the VM as one runtime sees them: requests are answered   *)
(* in some order, the replies to one execute are in order and end once     *)
(* (BrokerClient!FinishIsLast, StreamIsContiguous), and what was sent      *)
(* waits in the mailbox of the runtime's socket until listen() pops it.    *)
(* The state the two runtimes have in common is here as well.              *)
(***************************************************************************)
EXTENDS Naturals, Sequences, FiniteSets

CONSTANTS
    TxIds,          \* transactions: one for each call
    Last,           \* Last[tx]: the largest number a reply to tx can have (bound)
    NoPacket        \* what listen() returns after a second without a signal

Controls == {"connect", "disconnect"}

EndState == {"no", "finish", "failure"}
StreamState == {"none", "open", "returned", "raised", "abandoned"}
Packet == [tx : TxIds \cup Controls, seq : Nat, end : EndState]

ASSUME LastAssumption == Last \in [TxIds -> Nat]
ASSUME TxIdsAssumption == TxIds \cap Controls = {}
ASSUME NoPacketAssumption == NoPacket \notin Packet

VARIABLES
    made,           \* ghost, made[tx]: how many replies the VM has made
    ended,          \* ghost, ended[tx]: how it ended the call
    requested,      \* "connect" and "disconnect" packets not answered yet
    mail,           \* packets in the runtime's mailbox
    call,           \* call[tx]: what became of the call
    given           \* ghost, given[tx]: numbers of the values the caller got

serviceVars == <<made, ended, requested, mail>>
callVars == <<call, given>>

ServiceTypeOK ==
    /\ made \in [TxIds -> Nat]
    /\ ended \in [TxIds -> EndState]
    /\ requested \subseteq Controls
    /\ mail \in Seq(Packet)
    /\ call \in [TxIds -> StreamState]
    /\ given \in [TxIds -> Seq(Nat)]

ServiceInit ==
    /\ made = [tx \in TxIds |-> 0]
    /\ ended = [tx \in TxIds |-> "no"]
    /\ requested = {}
    /\ mail = <<>>
    /\ call = [tx \in TxIds |-> "none"]
    /\ given = [tx \in TxIds |-> <<>>]

\* The VM makes one more reply to the execute tx; the one with the largest
\* number is the end of its call.
Reply(tx) ==
    /\ call[tx] # "none" /\ ended[tx] = "no"
    /\ \E e \in IF made[tx] < Last[tx] THEN EndState ELSE EndState \ {"no"} :
          /\ mail' = Append(mail, [tx |-> tx, seq |-> made[tx], end |-> e])
          /\ ended' = [ended EXCEPT ![tx] = e]
    /\ made' = [made EXCEPT ![tx] = @ + 1]
    /\ UNCHANGED requested

\* The broker answers a connect or a disconnect.
Respond(c) ==
    /\ c \in requested
    /\ requested' = requested \ {c}
    /\ mail' = Append(mail, [tx |-> c, seq |-> 0, end |-> "finish"])
    /\ UNCHANGED <<made, ended>>

Serve == \/ \E tx \in TxIds : Reply(tx)
         \/ \E c \in Controls : Respond(c)

\* broker_client_t::listen(timeout_default).
Listened == IF mail = <<>> THEN NoPacket ELSE Head(mail)
RestOfMail == IF mail = <<>> THEN <<>> ELSE Tail(mail)

-----------------------------------------------------------------------------

\* The caller of tx has been given every value of a call that is finished.
Complete(tx) == ended[tx] = "finish" /\ Len(given[tx]) = made[tx]

\* The refinement mapping to Streams: with the last value in its hands, the
\* caller has only to ask again to be told that there are no more.
Promised == INSTANCE Streams WITH
    call <- [tx \in TxIds |-> IF Complete(tx) THEN "returned" ELSE call[tx]]

=============================================================================

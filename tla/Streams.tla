------------------------------- MODULE Streams -------------------------------
(***************************************************************************)
(* What a runtime promises of its calls, whatever language it is written   *)
(* in: the VM makes the replies to a call, numbered from 0; the caller is  *)
(* given their values in that order, each once; the call returns after the *)
(* reply with the finish flag, raises at a failure, and at no other time.  *)
(***************************************************************************)
EXTENDS Naturals, Sequences

CONSTANTS
    TxIds,      \* transactions: one for each call
    Last        \* Last[tx]: the largest number a reply to tx can have

VARIABLES
    made,       \* made[tx]: how many replies the VM has made
    ended,      \* ended[tx]: how it ended the call
    call,       \* call[tx]: what became of the call
    given       \* given[tx]: numbers of the replies whose value the caller has

streamVars == <<made, ended, call, given>>

EndState == {"no", "finish", "failure"}
StreamState == {"none", "open", "returned", "raised", "abandoned"}

StreamsTypeOK ==
    /\ made \in [TxIds -> Nat]
    /\ ended \in [TxIds -> EndState]
    /\ call \in [TxIds -> StreamState]
    /\ given \in [TxIds -> Seq(Nat)]

StreamsInit ==
    /\ made = [tx \in TxIds |-> 0]
    /\ ended = [tx \in TxIds |-> "no"]
    /\ call = [tx \in TxIds |-> "none"]
    /\ given = [tx \in TxIds |-> <<>>]

Begin(tx) ==
    /\ call[tx] = "none"
    /\ call' = [call EXCEPT ![tx] = "open"]
    /\ UNCHANGED <<made, ended, given>>

\* The VM does not learn that a caller has lost interest.
Produce(tx) ==
    /\ call[tx] # "none" /\ ended[tx] = "no" /\ made[tx] <= Last[tx]
    /\ made' = [made EXCEPT ![tx] = @ + 1]
    /\ \E e \in EndState : ended' = [ended EXCEPT ![tx] = e]
    /\ UNCHANGED <<call, given>>

\* The next reply; a failure carries no value.
Consume(tx) ==
    LET n == Len(given[tx])
        end == IF n + 1 = made[tx] THEN ended[tx] ELSE "no"
    IN  /\ call[tx] = "open" /\ n < made[tx]
        /\ given' = IF end = "failure" THEN given
                    ELSE [given EXCEPT ![tx] = Append(@, n)]
        /\ call' = [call EXCEPT ![tx] = CASE end = "no" -> "open"
                                          [] end = "finish" -> "returned"
                                          [] end = "failure" -> "raised"]
        /\ UNCHANGED <<made, ended>>

\* The caller breaks out of its loop, is cancelled, or stops the runtime.
Abandon(tx) ==
    /\ call[tx] = "open"
    /\ call' = [call EXCEPT ![tx] = "abandoned"]
    /\ UNCHANGED <<made, ended, given>>

StreamsNext ==
    \E tx \in TxIds : Begin(tx) \/ Produce(tx) \/ Consume(tx) \/ Abandon(tx)

StreamsSpec == StreamsInit /\ [][StreamsNext]_streamVars

=============================================================================

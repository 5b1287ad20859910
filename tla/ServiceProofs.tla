---------------------------- MODULE ServiceProofs ----------------------------
(***************************************************************************)
(* What every runtime may rely on and must keep so that its calls are      *)
(* those of Streams: the packets it handles tell the truth about the       *)
(* replies the VM has made.  Proved for any calls and any numbers of       *)
(* replies; AsyncProofs and NodeProofs cite these facts.                   *)
(***************************************************************************)
EXTENDS Service, FiniteSetTheorems, TLAPS

USE LastAssumption, TxIdsAssumption

\* How the reply with number n to tx is flagged.
EndOf(tx, n) == IF n + 1 = made[tx] THEN ended[tx] ELSE "no"

\* A packet is a reply that was made, or a response of the broker.
Honest(p) ==
    p.tx \in TxIds => p.seq < made[p.tx] /\ p.end = EndOf(p.tx, p.seq)

\* Packets that are filed are honest, and filed under their transaction.
Filed(st) ==
    /\ st \in [TxIds -> SUBSET Packet]
    /\ \A tx \in TxIds : \A p \in st[tx] : p.tx = tx /\ Honest(p)

ServiceInv ==
    /\ ServiceTypeOK
    /\ \A i \in 1 .. Len(mail) : Honest(mail[i])
    /\ \A tx \in TxIds :
          /\ Len(given[tx]) <= made[tx]
          /\ ended[tx] = "no" => made[tx] <= Last[tx]
          /\ call[tx] = "none" => ended[tx] = "no"

-----------------------------------------------------------------------------

\* Nothing has happened yet.
LEMMA ServiceStarts ==
    ASSUME ServiceInit
    PROVE  ServiceInv /\ Promised!StreamsInit
<1>1. ServiceInv
  BY DEF ServiceInit, ServiceInv, ServiceTypeOK, EndState, StreamState
<1>2. Promised!StreamsInit
  BY DEF ServiceInit, Promised!StreamsInit, Complete
<1> QED
  BY <1>1, <1>2

\* A reply that is made leaves the earlier ones what they were, and no call
\* that was complete gets another.
LEMMA ReplyKeeps ==
    ASSUME ServiceInv, NEW tx \in TxIds, Reply(tx), UNCHANGED callVars
    PROVE  /\ ServiceInv'
           /\ Promised!Produce(tx)
           /\ \A p \in Packet : Honest(p) => Honest(p)'
           /\ \A t \in TxIds : Complete(t) => Complete(t)'
<1>1. PICK e \in EndState :
        /\ mail' = Append(mail, [tx |-> tx, seq |-> made[tx], end |-> e])
        /\ ended' = [ended EXCEPT ![tx] = e]
        /\ e = "no" => made[tx] < Last[tx]
  BY DEF Reply, EndState
<1>2. /\ call[tx] # "none" /\ ended[tx] = "no"
      /\ made' = [made EXCEPT ![tx] = @ + 1]
      /\ requested' = requested /\ call' = call /\ given' = given
  BY DEF Reply, callVars
<1>3. /\ made \in [TxIds -> Nat] /\ ended \in [TxIds -> EndState]
      /\ mail \in Seq(Packet)
      /\ call \in [TxIds -> StreamState]
      /\ given \in [TxIds -> Seq(Nat)]
      /\ Last \in [TxIds -> Nat]
  BY DEF ServiceInv, ServiceTypeOK
<1>4. PICK new \in Packet : new = [tx |-> tx, seq |-> made[tx], end |-> e]
  BY <1>3 DEF Packet
<1>5. \A p \in Packet : Honest(p) => Honest(p)'
  <2> SUFFICES ASSUME NEW p \in Packet, Honest(p), p.tx \in TxIds
               PROVE  p.seq < made'[p.tx] /\ p.end = EndOf(p.tx, p.seq)'
    BY DEF Honest
  <2>1. p.seq \in Nat /\ p.seq < made[p.tx] /\ p.end = EndOf(p.tx, p.seq)
    BY DEF Honest, Packet
  <2>2. CASE p.tx = tx
    BY <2>1, <2>2, <1>1, <1>2, <1>3 DEF EndOf
  <2>3. CASE p.tx # tx
    BY <2>1, <2>3, <1>1, <1>2, <1>3 DEF EndOf
  <2> QED
    BY <2>2, <2>3
<1>6. Honest(new)'
  BY <1>1, <1>2, <1>3, <1>4 DEF Honest, EndOf
<1>7. ServiceInv'
  <2>1. ServiceTypeOK'
    BY <1>1, <1>2, <1>3, <1>4 DEF ServiceInv, ServiceTypeOK
  <2>2. (\A i \in 1 .. Len(mail) : Honest(mail[i]))'
    <3>1. Len(mail') = Len(mail) + 1 /\ Len(mail) \in Nat
      BY <1>1, <1>3, <1>4
    <3>2. \A i \in 1 .. Len(mail) :
             mail'[i] = mail[i] /\ mail[i] \in Packet /\ Honest(mail[i])
      BY <1>1, <1>3, <1>4 DEF ServiceInv
    <3>3. mail'[Len(mail) + 1] = new
      BY <1>1, <1>3, <1>4
    <3> SUFFICES ASSUME NEW i \in 1 .. Len(mail')
                 PROVE  \E p \in Packet : mail'[i] = p /\ Honest(p)'
      BY DEF Honest, EndOf
    <3>4. CASE i \in 1 .. Len(mail)
      BY <3>2, <3>4, <1>5
    <3>5. CASE i = Len(mail) + 1
      BY <3>3, <3>5, <1>4, <1>6
    <3> QED
      BY <3>1, <3>4, <3>5
  <2>3. ASSUME NEW t \in TxIds
        PROVE  /\ Len(given'[t]) <= made'[t]
               /\ ended'[t] = "no" => made'[t] <= Last[t]
               /\ call'[t] = "none" => ended'[t] = "no"
    <3>1. /\ Len(given[t]) <= made[t] /\ Len(given[t]) \in Nat
          /\ ended[t] = "no" => made[t] <= Last[t]
          /\ call[t] = "none" => ended[t] = "no"
      BY <1>3 DEF ServiceInv
    <3>2. CASE t = tx
      BY <3>1, <3>2, <1>1, <1>2, <1>3
    <3>3. CASE t # tx
      BY <3>1, <3>3, <1>1, <1>2, <1>3
    <3> QED
      BY <3>2, <3>3
  <2> QED
    BY <2>1, <2>2, <2>3 DEF ServiceInv
<1>8. ASSUME NEW t \in TxIds PROVE Complete(t) <=> Complete(t)'
  <2>1. /\ Len(given[tx]) <= made[tx] /\ Len(given[tx]) \in Nat
    BY <1>3 DEF ServiceInv
  <2>2. CASE t = tx
    BY <2>1, <2>2, <1>1, <1>2, <1>3 DEF Complete
  <2>3. CASE t # tx
    BY <2>3, <1>1, <1>2, <1>3 DEF Complete
  <2> QED
    BY <2>2, <2>3
<1>9. Promised!Produce(tx)
  <2>1. ~Complete(tx) /\ made[tx] <= Last[tx]
    BY <1>2 DEF Complete, ServiceInv
  <2>2. [t \in TxIds |-> IF Complete(t) THEN "returned" ELSE call[t]]'
        = [t \in TxIds |-> IF Complete(t) THEN "returned" ELSE call[t]]
    BY <1>2, <1>8
  <2> QED
    BY <2>1, <2>2, <1>1, <1>2 DEF Promised!Produce, Promised!EndState, EndState
<1> QED
  BY <1>5, <1>7, <1>8, <1>9

\* What every step preserves that makes no reply: replies stay what they were.
LEMMA HonestStays ==
    ASSUME UNCHANGED <<made, ended>>, NEW p
    PROVE  Honest(p)' <=> Honest(p)
  BY DEF Honest, EndOf

\* A mailbox of honest packets is one after listen() has taken the first,
\* which is honest, if there is one.
LEMMA ListenKeeps ==
    ASSUME ServiceInv, UNCHANGED <<made, ended, requested, callVars>>,
           mail' = RestOfMail
    PROVE  /\ ServiceInv'
           /\ Listened # NoPacket => Listened \in Packet /\ Honest(Listened)
<1>1. CASE mail = <<>>
  <2>1. mail' = mail /\ Listened = NoPacket
    BY <1>1 DEF RestOfMail, Listened
  <2> QED
    BY <2>1 DEF ServiceInv, ServiceTypeOK, Honest, EndOf, callVars
<1>2. CASE mail # <<>>
  <2>1. /\ mail \in Seq(Packet) /\ Len(mail) \in Nat \ {0}
        /\ mail' = Tail(mail) /\ Listened = mail[1]
    BY <1>2 DEF ServiceInv, ServiceTypeOK, RestOfMail, Listened
  <2>2. /\ mail' \in Seq(Packet) /\ Len(mail') = Len(mail) - 1
        /\ \A i \in 1 .. Len(mail') : mail'[i] = mail[i + 1]
        /\ mail[1] \in Packet
    BY <2>1, <1>2
  <2>3. (\A i \in 1 .. Len(mail) : Honest(mail[i]))'
    BY <2>1, <2>2 DEF ServiceInv, Honest, EndOf
  <2> QED
    BY <2>1, <2>2, <2>3 DEF ServiceInv, ServiceTypeOK, callVars
<1> QED
  BY <1>1, <1>2

\* The broker and the VM only ever produce replies, as far as callers can see.
LEMMA ServeKeeps ==
    ASSUME ServiceInv, Serve, UNCHANGED callVars
    PROVE  /\ ServiceInv'
           /\ [Promised!StreamsNext]_Promised!streamVars
           /\ \A p \in Packet : Honest(p) => Honest(p)'
           /\ \A tx \in TxIds : Complete(tx) => Complete(tx)'
<1>1. CASE \E tx \in TxIds : Reply(tx)
  BY <1>1, ReplyKeeps DEF Promised!StreamsNext
<1>2. ASSUME NEW c \in Controls, Respond(c)
      PROVE  /\ ServiceInv'
             /\ UNCHANGED <<made, ended, call, given>>
  <2>1. PICK p \in Packet : p = [tx |-> c, seq |-> 0, end |-> "finish"]
    BY DEF Packet, EndState
  <2>2. /\ mail' = Append(mail, p) /\ requested' = requested \ {c}
        /\ UNCHANGED <<made, ended, call, given>>
    BY <1>2, <2>1 DEF Respond, callVars
  <2>3. /\ mail \in Seq(Packet) /\ mail' \in Seq(Packet)
        /\ Len(mail') = Len(mail) + 1 /\ mail'[Len(mail) + 1] = p
        /\ \A i \in 1 .. Len(mail) : mail'[i] = mail[i]
    BY <2>2 DEF ServiceInv, ServiceTypeOK
  <2>4. Honest(p)
    BY <2>1 DEF Honest
  <2>5. (\A i \in 1 .. Len(mail) : Honest(mail[i]))'
    BY <2>2, <2>3, <2>4 DEF ServiceInv, Honest, EndOf
  <2> QED
    BY <2>2, <2>3, <2>5 DEF ServiceInv, ServiceTypeOK
<1>3. CASE \E c \in Controls : Respond(c)
  BY <1>2, <1>3 DEF Promised!streamVars, Honest, EndOf, Complete
<1> QED
  BY <1>1, <1>3 DEF Serve

\* What a reply is flagged with does not change when others are made.
LEMMA FlagsStay ==
    ASSUME ServiceInv, Serve, NEW tx \in TxIds, NEW n \in Nat, n < made[tx]
    PROVE  n < made'[tx] /\ EndOf(tx, n)' = EndOf(tx, n)
<1>1. made \in [TxIds -> Nat] /\ ended \in [TxIds -> EndState]
  BY DEF ServiceInv, ServiceTypeOK
<1>2. ASSUME NEW t \in TxIds, Reply(t)
      PROVE  n < made'[tx] /\ EndOf(tx, n)' = EndOf(tx, n)
  <2>1. /\ made' = [made EXCEPT ![t] = @ + 1] /\ ended[t] = "no"
        /\ \A u \in TxIds \ {t} : ended'[u] = ended[u]
    BY <1>1, <1>2 DEF Reply
  <2> QED
    BY <1>1, <2>1 DEF EndOf
<1>3. ASSUME NEW c \in Controls, Respond(c)
      PROVE  n < made'[tx] /\ EndOf(tx, n)' = EndOf(tx, n)
  BY <1>3 DEF Respond, EndOf
<1> QED
  BY <1>2, <1>3 DEF Serve

\* The service does not depend on what callers do with what they were given.
LEMMA CallersKeep ==
    ASSUME ServiceInv, UNCHANGED <<made, ended, mail>>,
           requested' \subseteq Controls,
           call' \in [TxIds -> StreamState], given' \in [TxIds -> Seq(Nat)],
           \A tx \in TxIds : /\ Len(given'[tx]) <= made[tx]
                             /\ call'[tx] = "none" => call[tx] = "none"
    PROVE  ServiceInv'
  BY DEF ServiceInv, ServiceTypeOK, Honest, EndOf

\* A call is begun.
LEMMA BeginKeeps ==
    ASSUME ServiceInv, NEW tx \in TxIds, call[tx] = "none",
           call' = [call EXCEPT ![tx] = "open"], UNCHANGED <<made, ended, given>>
    PROVE  Promised!Begin(tx)
<1>1. ~Complete(tx) /\ \A t \in TxIds : Complete(t)' <=> Complete(t)
  BY DEF ServiceInv, Complete
<1>2. call \in [TxIds -> StreamState]
  BY DEF ServiceInv, ServiceTypeOK
<1> QED
  BY <1>1, <1>2 DEF Promised!Begin

\* The caller leaves: it had all there was, or its call is abandoned.
LEMMA LeaveKeeps ==
    ASSUME ServiceInv, NEW tx \in TxIds, call[tx] = "open",
           call' = [call EXCEPT ![tx] = "abandoned"],
           UNCHANGED <<made, ended, given>>
    PROVE  Promised!Abandon(tx) \/ UNCHANGED Promised!streamVars
<1>1. \A t \in TxIds : Complete(t)' <=> Complete(t)
  BY DEF Complete
<1>2. call \in [TxIds -> StreamState]
  BY DEF ServiceInv, ServiceTypeOK
<1> QED
  BY <1>1, <1>2 DEF Promised!Abandon, Promised!streamVars

\* The caller who had the last value is told that there is no other.
LEMMA ReturnKeeps ==
    ASSUME ServiceInv, NEW tx \in TxIds, Complete(tx),
           call' = [call EXCEPT ![tx] = "returned"],
           UNCHANGED <<made, ended, given>>
    PROVE  UNCHANGED Promised!streamVars
<1>1. \A t \in TxIds : Complete(t)' <=> Complete(t)
  BY DEF Complete
<1>2. call \in [TxIds -> StreamState]
  BY DEF ServiceInv, ServiceTypeOK
<1> QED
  BY <1>1, <1>2 DEF Promised!streamVars

\* The caller is given the reply after the last it had, or its failure.
LEMMA ConsumeKeeps ==
    ASSUME ServiceInv, NEW tx \in TxIds, NEW n \in Nat,
           call[tx] = "open", n = Len(given[tx]), n < made[tx],
           UNCHANGED <<made, ended>>,
           IF EndOf(tx, n) = "failure"
           THEN call' = [call EXCEPT ![tx] = "raised"] /\ given' = given
           ELSE given' = [given EXCEPT ![tx] = Append(@, n)] /\ call' = call
    PROVE  /\ Promised!Consume(tx)
           /\ EndOf(tx, n) = "finish" => Complete(tx)'
           /\ given' \in [TxIds -> Seq(Nat)]
           /\ \A t \in TxIds : Len(given'[t]) <= made[t]
           /\ \A t \in TxIds \ {tx} : Complete(t)' <=> Complete(t)
<1>1. /\ call \in [TxIds -> StreamState] /\ given \in [TxIds -> Seq(Nat)]
      /\ made \in [TxIds -> Nat] /\ ended \in [TxIds -> EndState]
      /\ \A t \in TxIds : Len(given[t]) <= made[t]
  BY DEF ServiceInv, ServiceTypeOK
<1>2. ~Complete(tx)
  BY <1>1 DEF Complete
<1>3. \A t \in TxIds \ {tx} : Complete(t)' <=> Complete(t)
  BY <1>1 DEF Complete
<1>4. EndOf(tx, n) \in EndState
  BY <1>1 DEF EndOf, EndState
<1>5. CASE EndOf(tx, n) = "failure"
  <2>1. n + 1 = made[tx] /\ ended[tx] = "failure"
    BY <1>1, <1>5 DEF EndOf
  <2>2. ~Complete(tx)'
    BY <2>1 DEF Complete
  <2>3. Promised!Consume(tx)
    BY <1>1, <1>2, <1>3, <1>5, <2>1, <2>2 DEF Promised!Consume
  <2> QED
    BY <1>1, <1>3, <1>5, <2>3
<1>6. CASE EndOf(tx, n) # "failure"
  <2>1. /\ given' = [given EXCEPT ![tx] = Append(@, n)] /\ call' = call
        /\ given' \in [TxIds -> Seq(Nat)]
        /\ Len(given'[tx]) = n + 1
        /\ \A t \in TxIds \ {tx} : given'[t] = given[t]
    <3>1. given[tx] \in Seq(Nat)
      BY <1>1
    <3>2. /\ Append(given[tx], n) \in Seq(Nat)
          /\ Len(Append(given[tx], n)) = n + 1
      BY <3>1
    <3> QED
      BY <1>1, <1>6, <3>2
  <2>2. Complete(tx)' <=> EndOf(tx, n) = "finish"
    BY <1>1, <2>1 DEF Complete, EndOf
  <2>3. Promised!Consume(tx)
    <3>1. CASE EndOf(tx, n) = "finish"
      BY <1>1, <1>2, <1>3, <2>1, <2>2, <3>1 DEF Promised!Consume, EndOf
    <3>2. CASE EndOf(tx, n) = "no"
      BY <1>1, <1>2, <1>3, <2>1, <2>2, <3>2 DEF Promised!Consume, EndOf
    <3> QED
      BY <1>4, <1>6, <3>1, <3>2 DEF EndState
  <2> QED
    BY <1>1, <1>3, <2>1, <2>2, <2>3
<1> QED
  BY <1>5, <1>6

-----------------------------------------------------------------------------
(* Where a reply is.                                                       *)

\* p is reply number n to tx, and where in the mailbox it is.
ReplyAt(p, tx, n) == p # NoPacket /\ p.tx = tx /\ p.seq = n
InMail(tx, n) == {i \in DOMAIN mail : ReplyAt(mail[i], tx, n)}

\* A set with one element; one of three sets has one and the others are empty.
Single(S) == \E x : S = {x}
OneOf(M, H, S) ==
    \/ Single(M) /\ H = {} /\ S = {}
    \/ M = {} /\ Single(H) /\ S = {}
    \/ M = {} /\ H = {} /\ Single(S)

LEMMA OneOfCounts ==
    ASSUME NEW M, NEW H, NEW S, OneOf(M, H, S)
    PROVE  Cardinality(M) + Cardinality(H) + Cardinality(S) = 1
<1>1. Cardinality({}) = 0
  BY FS_EmptySet
<1>2. \A X : Single(X) => Cardinality(X) = 1
  BY FS_Singleton DEF Single
<1>3. CASE Single(M) /\ H = {} /\ S = {}
  BY <1>1, <1>2, <1>3
<1>4. CASE M = {} /\ Single(H) /\ S = {}
  BY <1>1, <1>2, <1>4
<1>5. CASE M = {} /\ H = {} /\ Single(S)
  BY <1>1, <1>2, <1>5
<1> QED
  BY <1>3, <1>4, <1>5 DEF OneOf

\* A reply that is made is in the mailbox; the others stay where they are.
LEMMA ServeFinds ==
    ASSUME ServiceInv, Serve, UNCHANGED callVars, NEW tx \in TxIds, NEW n \in Nat
    PROVE  /\ n < made[tx] => InMail(tx, n)' = InMail(tx, n)
           /\ n >= made[tx] /\ n < made'[tx] => InMail(tx, n) = {} /\ Single(InMail(tx, n)')
<1>t. /\ made \in [TxIds -> Nat] /\ mail \in Seq(Packet)
      /\ \A i \in DOMAIN mail : mail[i] \in Packet /\ Honest(mail[i])
      /\ DOMAIN mail = 1 .. Len(mail) /\ Len(mail) \in Nat
  <2>1. made \in [TxIds -> Nat] /\ mail \in Seq(Packet)
    BY DEF ServiceInv, ServiceTypeOK
  <2>2. DOMAIN mail = 1 .. Len(mail) /\ Len(mail) \in Nat
    BY <2>1
  <2> QED
    BY <2>1, <2>2 DEF ServiceInv
<1>1. ASSUME NEW p, p \in Packet, mail' = Append(mail, p)
      PROVE  InMail(tx, n)' = InMail(tx, n) \cup
                                (IF ReplyAt(p, tx, n) THEN {Len(mail) + 1} ELSE {})
  <2>1. /\ DOMAIN mail' = 1 .. Len(mail) + 1 /\ mail'[Len(mail) + 1] = p
        /\ \A i \in 1 .. Len(mail) : mail'[i] = mail[i]
    BY <1>t, <1>1
  <2>2. InMail(tx, n)' = {i \in DOMAIN mail' : ReplyAt(mail'[i], tx, n)}
    BY DEF InMail, ReplyAt
  <2>3. 1 .. Len(mail) + 1 = DOMAIN mail \cup {Len(mail) + 1}
    BY <1>t
  <2> QED
    BY <1>t, <2>1, <2>2, <2>3 DEF InMail
<1>2. ASSUME NEW t \in TxIds, Reply(t)
      PROVE  /\ n < made[tx] => InMail(tx, n)' = InMail(tx, n)
             /\ n >= made[tx] /\ n < made'[tx] =>
                  InMail(tx, n) = {} /\ Single(InMail(tx, n)')
  <2>1. PICK p \in Packet : p.tx = t /\ p.seq = made[t] /\ mail' = Append(mail, p)
    <3>1. PICK e \in EndState : mail' = Append(mail, [tx |-> t, seq |-> made[t], end |-> e])
      BY <1>2 DEF Reply, EndState
    <3>2. [tx |-> t, seq |-> made[t], end |-> e] \in Packet
      BY <1>t DEF Packet
    <3> QED
      BY <3>1, <3>2
  <2>2. made' = [made EXCEPT ![t] = @ + 1]
    BY <1>2 DEF Reply
  <2>3. CASE t = tx
    <3>1. n < made[tx] => ~ReplyAt(p, tx, n)
      BY <1>t, <2>1, <2>3 DEF ReplyAt
    <3>2. n >= made[tx] /\ n < made'[tx] => n = made[tx] /\ ReplyAt(p, tx, n)
      BY <1>t, <2>1, <2>2, <2>3, NoPacketAssumption DEF ReplyAt
    <3>3. n >= made[tx] => InMail(tx, n) = {}
      BY <1>t DEF InMail, ReplyAt, Honest
    <3>4. n >= made[tx] /\ n < made'[tx] => InMail(tx, n)' = {Len(mail) + 1}
      BY <1>1, <2>1, <3>2, <3>3
    <3> QED
      BY <1>1, <2>1, <3>1, <3>3, <3>4 DEF Single
  <2>4. CASE t # tx
    <3>1. ~ReplyAt(p, tx, n) /\ made'[tx] = made[tx]
      BY <1>t, <2>1, <2>2, <2>4 DEF ReplyAt
    <3>2. InMail(tx, n)' = InMail(tx, n)
      BY <1>1, <2>1, <3>1
    <3>3. ~(n >= made[tx] /\ n < made'[tx])
      BY <1>t, <3>1
    <3> QED
      BY <3>2, <3>3
  <2> QED
    BY <2>3, <2>4
<1>3. ASSUME NEW c \in Controls, Respond(c)
      PROVE  InMail(tx, n)' = InMail(tx, n) /\ made' = made
  <2>1. PICK p \in Packet : p.tx = c /\ mail' = Append(mail, p)
    BY <1>3 DEF Respond, Packet, EndState
  <2>2. ~ReplyAt(p, tx, n)
    BY <2>1 DEF ReplyAt
  <2> QED
    BY <1>1, <1>3, <2>1, <2>2 DEF Respond
<1> QED
  BY <1>t, <1>2, <1>3 DEF Serve

\* listen() takes a reply out of the mailbox and leaves the others there.
LEMMA ListenFinds ==
    ASSUME ServiceInv, mail' = RestOfMail, NEW tx \in TxIds, NEW n \in Nat
    PROVE  /\ ReplyAt(Listened, tx, n) =>
                /\ InMail(tx, n) # {}
                /\ Single(InMail(tx, n)) => InMail(tx, n)' = {}
           /\ ~ReplyAt(Listened, tx, n) =>
                /\ Single(InMail(tx, n)) => Single(InMail(tx, n)')
                /\ InMail(tx, n) = {} => InMail(tx, n)' = {}
<1>t. mail \in Seq(Packet)
  BY DEF ServiceInv, ServiceTypeOK
<1>p. InMail(tx, n)' = {i \in DOMAIN mail' : ReplyAt(mail'[i], tx, n)}
  BY DEF InMail, ReplyAt
<1>1. CASE mail = <<>>
  <2>1. mail' = mail /\ ~ReplyAt(Listened, tx, n)
    BY <1>1 DEF RestOfMail, Listened, ReplyAt
  <2> QED
    BY <1>p, <2>1 DEF InMail
<1>2. CASE mail # <<>>
  <2>1. /\ DOMAIN mail = 1 .. Len(mail) /\ Len(mail) \in Nat \ {0}
        /\ DOMAIN mail' = 1 .. Len(mail) - 1 /\ Listened = mail[1]
        /\ \A i \in 1 .. Len(mail) - 1 : mail'[i] = mail[i + 1]
    BY <1>t, <1>2 DEF RestOfMail, Listened
  <2>2. \A i \in DOMAIN mail : i # 1 => i - 1 \in DOMAIN mail' /\ mail'[i - 1] = mail[i]
    BY <2>1
  <2>3. \A i \in DOMAIN mail' : i \in Nat /\ i + 1 \in DOMAIN mail /\ i + 1 # 1
                                /\ mail'[i] = mail[i + 1]
    BY <2>1
  <2>4. 1 \in InMail(tx, n) <=> ReplyAt(Listened, tx, n)
    BY <2>1 DEF InMail
  <2>5. InMail(tx, n) \subseteq DOMAIN mail /\ InMail(tx, n) \subseteq Nat
    BY <2>1 DEF InMail
  <2>6. \A i \in InMail(tx, n)' : i + 1 \in InMail(tx, n) /\ i + 1 # 1 /\ i \in Nat
    BY <1>p, <2>3 DEF InMail
  <2>7. \A i \in InMail(tx, n) : i # 1 => i - 1 \in InMail(tx, n)'
    BY <1>p, <2>2 DEF InMail
  <2>8. CASE ReplyAt(Listened, tx, n)
    <3>1. Single(InMail(tx, n)) => InMail(tx, n) = {1}
      BY <2>4, <2>8 DEF Single
    <3> QED
      BY <2>4, <2>6, <2>8, <3>1
  <2>9. CASE ~ReplyAt(Listened, tx, n)
    <3>1. ASSUME NEW x, InMail(tx, n) = {x}
          PROVE  InMail(tx, n)' = {x - 1}
      <4>1. x \in Nat /\ x # 1
        BY <2>4, <2>5, <2>9, <3>1
      <4>2. \A i \in InMail(tx, n)' : i + 1 = x /\ i \in Nat
        BY <2>6, <3>1
      <4>3. x - 1 \in InMail(tx, n)'
        BY <2>7, <3>1, <4>1
      <4>4. \A i \in InMail(tx, n)' : i = x - 1
        BY <4>1, <4>2
      <4> QED
        BY <4>3, <4>4
    <3>2. InMail(tx, n) = {} => InMail(tx, n)' = {}
      BY <2>6
    <3> QED
      BY <2>9, <3>1, <3>2 DEF Single
  <2> QED
    BY <2>8, <2>9
<1> QED
  BY <1>1, <1>2

\* The mailbox is as it was.
LEMMA MailStays ==
    ASSUME mail' = mail, NEW tx, NEW n
    PROVE  InMail(tx, n)' = InMail(tx, n)
  BY DEF InMail, ReplyAt

=============================================================================

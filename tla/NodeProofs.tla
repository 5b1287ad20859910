------------------------------ MODULE NodeProofs ------------------------------
(***************************************************************************)
(* Theorems about NodeRuntime, for any number of calls and of replies, and *)
(* about the in-process sockets it listens on, for any number of clients:  *)
(* what is promised is kept, and signals and packets stay in step.  The    *)
(* two have no state in common.                                            *)
(***************************************************************************)
EXTENDS NodeRuntime, ServiceProofs, Inproc

-----------------------------------------------------------------------------
(* Queues.                                                                 *)

LEMMA QueueType ==
    ASSUME NEW S, NEW q \in Seq(S)
    PROVE  /\ \A e \in S : Append(q, e) \in Seq(S)
           /\ q # <<>> => Head(q) \in S /\ Tail(q) \in Seq(S)
  OBVIOUS

\* How often something is in a queue.
LEMMA CountType ==
    ASSUME NEW S, NEW q \in Seq(S), NEW e
    PROVE  /\ Count(q, e) \in Nat
           /\ IsFiniteSet({i \in DOMAIN q : q[i] = e})
<1>1. IsFiniteSet(1 .. Len(q))
  BY FS_Interval
<1>2. {i \in DOMAIN q : q[i] = e} \in SUBSET (1 .. Len(q))
  OBVIOUS
<1>3. IsFiniteSet({i \in DOMAIN q : q[i] = e})
  BY <1>1, <1>2, FS_Subset
<1> QED
  BY <1>3, FS_CardinalityType DEF Count

LEMMA CountEmpty == ASSUME NEW e PROVE Count(<<>>, e) = 0
<1>1. {i \in DOMAIN <<>> : <<>>[i] = e} = {}
  OBVIOUS
<1> QED
  BY <1>1, FS_EmptySet DEF Count

LEMMA CountAppend ==
    ASSUME NEW S, NEW q \in Seq(S), NEW x \in S, NEW e
    PROVE  Count(Append(q, x), e) = Count(q, e) + (IF x = e THEN 1 ELSE 0)
<1> DEFINE A == {i \in DOMAIN q : q[i] = e}
           B == {i \in DOMAIN Append(q, x) : Append(q, x)[i] = e}
           n == Len(q) + 1
<1>1. IsFiniteSet(A)
  BY CountType
<1>2. /\ DOMAIN q = 1 .. Len(q) /\ DOMAIN Append(q, x) = 1 .. n /\ n \notin 1 .. Len(q)
      /\ 1 .. n = 1 .. Len(q) \cup {n}
      /\ \A i \in 1 .. Len(q) : Append(q, x)[i] = q[i]
      /\ Append(q, x)[n] = x
  OBVIOUS
<1>3. CASE x = e
  <2>1. B = A \cup {n} /\ n \notin A
    BY <1>2, <1>3
  <2>2. Cardinality(B) = Cardinality(A) + 1
    BY <1>1, <2>1, FS_AddElement
  <2> QED
    BY <2>2, <1>3 DEF Count
<1>4. CASE x # e
  <2>1. B = A
    BY <1>2, <1>4
  <2>2. Count(q, e) \in Nat
    BY CountType
  <2>3. Count(Append(q, x), e) = Count(q, e)
    BY <2>1 DEF Count
  <2> QED
    BY <2>2, <2>3, <1>4
<1> QED
  BY <1>3, <1>4

LEMMA CountTail ==
    ASSUME NEW S, NEW q \in Seq(S), q # <<>>, NEW e
    PROVE  Count(q, e) = Count(Tail(q), e) + (IF Head(q) = e THEN 1 ELSE 0)
<1> DEFINE A == {i \in DOMAIN q : q[i] = e}
           T == {i \in DOMAIN Tail(q) : Tail(q)[i] = e}
           U == A \ {1}
           f == [i \in T |-> i + 1]
<1>1. /\ Len(q) \in Nat \ {0} /\ DOMAIN q = 1 .. Len(q)
      /\ DOMAIN Tail(q) = 1 .. Len(q) - 1
      /\ \A i \in 1 .. Len(q) - 1 : Tail(q)[i] = q[i + 1]
      /\ Head(q) = q[1] /\ Tail(q) \in Seq(S)
  OBVIOUS
<1>2. IsFiniteSet(A) /\ IsFiniteSet(T) /\ Count(Tail(q), e) \in Nat
  BY <1>1, CountType
<1>3. f \in Bijection(T, U)
  <2>1. f \in [T -> U]
    BY <1>1
  <2>2. \A i, j \in T : f[i] = f[j] => i = j
    BY <1>1
  <2>3. \A u \in U : \E i \in T : f[i] = u
    <3> TAKE u \in U
    <3>1. u - 1 \in T /\ f[u - 1] = u
      BY <1>1
    <3> QED
      BY <3>1
  <2> HIDE DEF f, T, U
  <2> QED
    BY <2>1, <2>2, <2>3, Zenon DEF Bijection, Injection, Surjection, IsInjective
<1>4. Cardinality(U) = Cardinality(T)
  <2>1. ExistsBijection(T, U)
    BY <1>3 DEF ExistsBijection
  <2> QED
    BY <2>1, <1>2, FS_Bijection
<1>5. CASE Head(q) = e
  <2>1. 1 \in A
    BY <1>1, <1>5
  <2>2. A = U \cup {1} /\ 1 \notin U /\ IsFiniteSet(U)
    BY <2>1, <1>2, FS_RemoveElement
  <2>3. Cardinality(A) = Cardinality(U) + 1
    BY <2>2, FS_AddElement
  <2> QED
    BY <2>3, <1>4, <1>5 DEF Count
<1>6. CASE Head(q) # e
  <2>1. A = U
    BY <1>1, <1>6
  <2>2. Count(q, e) = Count(Tail(q), e)
    BY <2>1, <1>4 DEF Count
  <2> QED
    BY <2>2, <1>2, <1>6
<1> QED
  BY <1>5, <1>6


-----------------------------------------------------------------------------
(* Types.                                                                  *)

LEMMA RequestType ==
    ASSUME TypeOK
    PROVE  /\ \A c \in Clients : RequestSet(c) => acceptQ' \in Seq(Clients)
           /\ RequestNotify => signals' \in Seq(Clients \cup {NoClient})
<1>1. /\ \A c \in Clients : Append(acceptQ, c) \in Seq(Clients)
      /\ Append(signals, NoClient) \in Seq(Clients \cup {NoClient})
  BY QueueType DEF TypeOK
<1> QED
  BY <1>1 DEF TypeOK, RequestSet, RequestNotify

\* The socket that is being accepted is one.
TypeInv ==
    /\ TypeOK
    /\ spc \in {"attach", "setmonitor"} => current \in Clients

LEMMA TypeStep == TypeInv /\ [Next]_vars => TypeInv'
<1> SUFFICES ASSUME TypeInv, [Next]_vars PROVE TypeInv'
  OBVIOUS
<1> USE DEF brokerVars, dialerVars, clientVars, BrokerPC, ClientPC
<1>0. CASE UNCHANGED vars
  BY <1>0 DEF TypeInv, TypeOK, vars
<1>1. ASSUME NEW c \in Clients, ConnectNow(c) PROVE TypeInv'
  <2>1. acceptQ' \in Seq(Clients)
    BY <1>1, RequestType DEF ConnectNow, TypeInv
  <2> QED
    BY <1>1, <2>1 DEF TypeInv, TypeOK, ConnectNow
<1>17. ASSUME NEW c \in Clients, ConnectNotify(c) PROVE TypeInv'
  <2>1. signals' \in Seq(Clients \cup {NoClient})
    BY <1>17, RequestType DEF ConnectNotify, TypeInv
  <2> QED
    BY <1>17, <2>1 DEF TypeInv, TypeOK, ConnectNotify
<1>2. ASSUME NEW c \in Clients, ConnectWait(c) PROVE TypeInv'
  BY <1>2 DEF TypeInv, TypeOK, ConnectWait
<1>3. ASSUME NEW c \in Clients, ConnectWoken(c) PROVE TypeInv'
  BY <1>3 DEF TypeInv, TypeOK, ConnectWoken
<1>4. ASSUME NEW c \in Clients, ConnectTimeout(c) PROVE TypeInv'
  BY <1>4 DEF TypeInv, TypeOK, ConnectTimeout
<1>5. ASSUME NEW c \in Clients, SendSet(c) PROVE TypeInv'
  <2>1. sent[c] + 1 \in Nat /\ Append(inbox[c], sent[c] + 1) \in Seq(Nat)
    BY QueueType DEF TypeInv, TypeOK
  <2> QED
    BY <1>5, <2>1 DEF TypeInv, TypeOK, SendSet
<1>6. ASSUME NEW c \in Clients, SendNotify(c) PROVE TypeInv'
  <2>1. Append(signals, c) \in Seq(Clients \cup {NoClient})
    BY QueueType DEF TypeInv, TypeOK
  <2> QED
    BY <1>6, <2>1 DEF TypeInv, TypeOK, SendNotify
<1>7. CASE CreateAcceptor
  BY <1>7 DEF TypeInv, TypeOK, CreateAcceptor
<1>8. CASE SetAcceptorMonitor
  BY <1>8 DEF TypeInv, TypeOK, SetAcceptorMonitor
<1>9. ASSUME NEW c \in Clients, ServeWaiter(c) PROVE TypeInv'
  <2>1. acceptQ' \in Seq(Clients)
    BY <1>9, RequestType DEF ServeWaiter, TypeInv, TypeOK
  <2> QED
    BY <1>9, <2>1 DEF TypeInv, TypeOK, ServeWaiter
<1>18. CASE WalkNotify
  <2>1. signals' \in Seq(Clients \cup {NoClient})
    BY <1>18, RequestType DEF WalkNotify, TypeInv
  <2> QED
    BY <1>18, <2>1 DEF TypeInv, TypeOK, WalkNotify
<1>10. CASE EraseWaiters
  BY <1>10 DEF TypeInv, TypeOK, EraseWaiters
<1>11. CASE AcceptGet
  <2>1. /\ Tail(signals) \in Seq(Clients \cup {NoClient})
        /\ acceptQ # <<>> => Head(acceptQ) \in Clients /\ Tail(acceptQ) \in Seq(Clients)
    BY <1>11, QueueType DEF TypeInv, TypeOK, AcceptGet
  <2> QED
    BY <1>11, <2>1 DEF TypeInv, TypeOK, AcceptGet
<1>12. CASE AcceptAttach
  BY <1>12 DEF TypeInv, TypeOK, AcceptAttach
<1>13. CASE AcceptSetMonitor
  BY <1>13 DEF TypeInv, TypeOK, AcceptSetMonitor
<1>14. ASSUME NEW c \in Clients, Recv(c) PROVE TypeInv'
  <2>1. /\ Tail(signals) \in Seq(Clients \cup {NoClient})
        /\ inbox[c] # <<>> => Head(inbox[c]) \in Nat /\ Tail(inbox[c]) \in Seq(Nat)
    BY <1>14, QueueType DEF TypeInv, TypeOK, Recv
  <2> QED
    BY <1>14, <2>1 DEF TypeInv, TypeOK, Recv
<1>15. CASE DestroyAcceptor
  BY <1>15 DEF TypeInv, TypeOK, DestroyAcceptor
<1>16. CASE DestroySockets
  BY <1>16 DEF TypeInv, TypeOK, DestroySockets
<1> QED
  BY <1>0, <1>1, <1>2, <1>3, <1>4, <1>5, <1>6, <1>7, <1>8, <1>9, <1>10, <1>11,
     <1>12, <1>13, <1>14, <1>15, <1>16, <1>17, <1>18
     DEF Next, BrokerLoop, BrokerExit, ClientStep

LEMMA InitType == Init => TypeInv
<1>1. /\ <<>> \in Seq(Clients) /\ <<>> \in Seq(Clients \cup {NoClient})
      /\ [c \in Clients |-> <<>>] \in [Clients -> Seq(Nat)]
      /\ [c \in Clients |-> 0] \in [Clients -> Nat]
      /\ [c \in Clients |-> "idle"] \in [Clients -> ClientPC]
  BY DEF ClientPC
<1> QED
  BY <1>1, Zenon DEF Init, TypeInv, TypeOK, BrokerPC

\* inproc_socket.cpp, thread.cpp: every variable of the sockets keeps its type.
THEOREM InprocTypeCorrect == Spec => []TypeOK
<1>1. TypeInv => TypeOK
  BY DEF TypeInv
<1> QED
  BY InitType, <1>1, TypeStep, PTL DEF Spec

-----------------------------------------------------------------------------
(* Connections.                                                            *)

Has(q, e) == \E i \in DOMAIN q : q[i] = e
Distinct(q) == \A i, j \in DOMAIN q : q[i] = q[j] => i = j

LEMMA DistinctAppend ==
    ASSUME NEW S, NEW q \in Seq(S), NEW x \in S
    PROVE  /\ \A e : Has(Append(q, x), e) <=> Has(q, e) \/ e = x
           /\ Distinct(q) /\ ~Has(q, x) => Distinct(Append(q, x))
<1>1. /\ DOMAIN Append(q, x) = 1 .. Len(q) + 1 /\ DOMAIN q = 1 .. Len(q)
      /\ \A i \in 1 .. Len(q) : Append(q, x)[i] = q[i]
      /\ Append(q, x)[Len(q) + 1] = x /\ Len(q) \in Nat
  OBVIOUS
<1>2. 1 .. Len(q) + 1 = 1 .. Len(q) \cup {Len(q) + 1}
  BY <1>1
<1> HIDE <1>1
<1>3. \A e : Has(Append(q, x), e) <=> Has(q, e) \/ e = x
  BY <1>1, <1>2 DEF Has
<1>4. Distinct(q) /\ ~Has(q, x) => Distinct(Append(q, x))
  BY <1>1, <1>2 DEF Has, Distinct
<1> QED
  BY <1>3, <1>4

LEMMA DistinctTail ==
    ASSUME NEW S, NEW q \in Seq(S), q # <<>>
    PROVE  /\ \A e : Has(q, e) <=> e = Head(q) \/ Has(Tail(q), e)
           /\ Distinct(q) => Distinct(Tail(q)) /\ ~Has(Tail(q), Head(q))
<1>1. /\ Len(q) \in Nat \ {0} /\ DOMAIN q = 1 .. Len(q)
      /\ DOMAIN Tail(q) = 1 .. Len(q) - 1
      /\ \A i \in 1 .. Len(q) - 1 : Tail(q)[i] = q[i + 1]
      /\ Head(q) = q[1]
  OBVIOUS
<1>2. \A i \in 1 .. Len(q) : i = 1 \/ (i - 1 \in 1 .. Len(q) - 1 /\ (i - 1) + 1 = i)
  BY <1>1
<1>3. \A e : Has(q, e) <=> e = Head(q) \/ Has(Tail(q), e)
  <2>1. ASSUME NEW e, Has(q, e) PROVE e = Head(q) \/ Has(Tail(q), e)
    <3>1. PICK i \in DOMAIN q : q[i] = e
      BY <2>1 DEF Has
    <3>2. CASE i = 1
      BY <1>1, <3>1, <3>2
    <3>3. CASE i # 1
      <4>1. i - 1 \in DOMAIN Tail(q) /\ (i - 1) + 1 = i
        BY <1>1, <1>2, <3>1, <3>3
      <4>2. Tail(q)[i - 1] = e
        BY <1>1, <3>1, <4>1
      <4> QED
        BY <4>1, <4>2 DEF Has
    <3> QED
      BY <3>2, <3>3
  <2>2. \A i \in 1 .. Len(q) - 1 : i + 1 \in 1 .. Len(q)
    BY <1>1
  <2>3. 1 \in 1 .. Len(q)
    BY <1>1
  <2>4. ASSUME NEW e, e = Head(q) \/ Has(Tail(q), e) PROVE Has(q, e)
    <3>1. CASE e = Head(q)
      BY <1>1, <2>3, <3>1 DEF Has
    <3>2. CASE Has(Tail(q), e)
      <4>1. PICK i \in DOMAIN Tail(q) : Tail(q)[i] = e
        BY <3>2 DEF Has
      <4>2. i + 1 \in DOMAIN q /\ q[i + 1] = e
        BY <1>1, <2>2, <4>1
      <4> QED
        BY <4>2 DEF Has
    <3> QED
      BY <2>4, <3>1, <3>2
  <2> QED
    BY <2>1, <2>4
<1>4. Distinct(q) => Distinct(Tail(q)) /\ ~Has(Tail(q), Head(q))
  BY <1>1 DEF Has, Distinct
<1> QED
  BY <1>3, <1>4

LEMMA DistinctCount ==
    ASSUME NEW S, NEW q \in Seq(S), Distinct(q), NEW e
    PROVE  Count(q, e) <= 1
<1> DEFINE A == {i \in DOMAIN q : q[i] = e}
<1>1. CASE A = {}
  BY <1>1, FS_EmptySet DEF Count
<1>2. CASE A # {}
  <2>1. PICK i \in A : A = {i}
    BY <1>2 DEF Distinct
  <2>2. Cardinality({i}) = 1
    BY FS_Singleton
  <2>3. Count(q, e) = 1
    BY <2>1, <2>2, Zenon DEF Count
  <2> QED
    BY <2>3
<1> QED
  BY <1>1, <1>2

\* A mailbox in which everybody is once has room for one who is not in it.
LEMMA Room ==
    ASSUME IsFiniteSet(Clients), Cardinality(Clients) <= Limit,
           NEW q \in Seq(Clients), Distinct(q), NEW c \in Clients, ~Has(q, c)
    PROVE  Len(q) < Limit
<1> DEFINE Rest == Clients \ {c}
<1>1. IsFiniteSet(Rest) /\ Cardinality(Rest) = Cardinality(Clients) - 1
  BY FS_RemoveElement
<1>2. q \in [1 .. Len(q) -> Rest]
  BY DEF Has
<1>3. q \in Injection(1 .. Len(q), Rest)
  BY <1>2, Zenon DEF Injection, IsInjective, Distinct
<1>4. Cardinality(1 .. Len(q)) <= Cardinality(Rest)
  BY <1>1, <1>3, FS_Injection
<1>5. Cardinality(1 .. Len(q)) = Len(q)
  <2>1. Len(q) \in Nat
    OBVIOUS
  <2>2. Cardinality(1 .. Len(q)) = IF 1 > Len(q) THEN 0 ELSE Len(q) - 1 + 1
    BY <2>1, FS_Interval
  <2> QED
    BY <2>1, <2>2
<1> QED
  BY <1>1, <1>4, <1>5, FS_CardinalityType, InprocLimit

Nowhere(c) == ~InMailbox(c) /\ c # current /\ c \notin attached
Kept(c) == InMailbox(c) \/ c = current \/ c \in attached

\* What is known of the broker's thread by its place.
BrokerPlace ==
    /\ listening <=> spc \notin {"start", "stopping", "down"}
    /\ hasMonitor <=> spc \notin {"start", "registered"}
    /\ current = NoClient \/ spc \in {"attach", "setmonitor"}
    /\ spc = "setmonitor" => current \in attached

\* One who waits is still in the list, and nowhere else until the walk has come to
\* it; when the list is gone, it is where the walk has put it.
Hoped(c) ==
    CASE spc \in {"start", "registered"} -> c \in waiters /\ Nowhere(c)
      [] spc \in {"walk", "walknotify"} -> c \in waiters /\ IF c \in unserved THEN Nowhere(c) ELSE Kept(c)
      [] OTHER -> Kept(c)

ClientPlace(c) ==
    /\ InMailbox(c) => c # current /\ c \notin attached
    /\ cpc[c] = "idle" => Nowhere(c)
    /\ c \in waiters => cpc[c] = "waiting"
    /\ cpc[c] = "waiting" /\ Up => Hoped(c)
    /\ Connected(c) /\ Up => Kept(c)

ConnInv ==
    /\ TypeInv
    /\ Distinct(acceptQ)
    /\ BrokerPlace
    /\ \A c \in Clients : ClientPlace(c)

LEMMA QueuedIsHad == \A c : InMailbox(c) <=> Has(acceptQ, c)
  BY DEF InMailbox, Has

\* A socket that is nowhere gets into the acceptor's mailbox.
LEMMA RequestQueues ==
    ASSUME IsFiniteSet(Clients), Cardinality(Clients) <= Limit, ConnInv,
           NEW c \in Clients, Nowhere(c), RequestSet(c)
    PROVE  /\ Len(acceptQ) < Limit
           /\ Distinct(acceptQ')
           /\ \A d : InMailbox(d)' <=> InMailbox(d) \/ d = c
<1>1. acceptQ \in Seq(Clients) /\ Distinct(acceptQ) /\ ~Has(acceptQ, c)
  BY QueuedIsHad DEF ConnInv, TypeInv, TypeOK, Nowhere
<1>2. Len(acceptQ) < Limit
  BY <1>1, Room
<1>3. acceptQ' = Append(acceptQ, c)
  BY <1>2 DEF RequestSet
<1>4. /\ \A d : Has(acceptQ', d) <=> Has(acceptQ, d) \/ d = c
      /\ Distinct(acceptQ')
  BY <1>1, <1>3, DistinctAppend
<1>5. \A d : InMailbox(d)' <=> Has(acceptQ', d)
  BY DEF InMailbox, Has
<1> QED
  BY <1>2, <1>4, <1>5, QueuedIsHad

LEMMA ConnStep ==
    ASSUME IsFiniteSet(Clients), Cardinality(Clients) <= Limit
    PROVE  ConnInv /\ [Next]_vars => ConnInv'
<1> SUFFICES ASSUME ConnInv, [Next]_vars PROVE ConnInv'
  OBVIOUS
<1> DEFINE Same == acceptQ' = acceptQ
<1>t. TypeInv /\ TypeInv'
  BY TypeStep DEF ConnInv
<1>s. Same => \A d : InMailbox(d)' <=> InMailbox(d)
  BY DEF InMailbox
<1>n. NoClient \notin Clients
  BY InprocClient
<1> USE DEF brokerVars, dialerVars, clientVars, Nowhere, Kept, Hoped, Up, Connected,
            BrokerPlace, ClientPlace
<1>0. CASE UNCHANGED vars
  BY <1>0, <1>s, <1>t DEF ConnInv, vars
<1>1. ASSUME NEW c \in Clients, ConnectNow(c) PROVE ConnInv'
  <2>1. Nowhere(c) /\ RequestSet(c)
    BY <1>1 DEF ConnInv, ConnectNow
  <2>2. /\ Len(acceptQ) < Limit /\ Distinct(acceptQ')
        /\ \A d : InMailbox(d)' <=> InMailbox(d) \/ d = c
    BY <2>1, RequestQueues
  <2> QED
    BY <1>1, <2>1, <2>2, <1>t DEF ConnInv, ConnectNow, TypeInv, TypeOK
<1>17. ASSUME NEW c \in Clients, ConnectNotify(c) PROVE ConnInv'
  BY <1>17, <1>s, <1>t DEF ConnInv, ConnectNotify, TypeInv, TypeOK
<1>2. ASSUME NEW c \in Clients, ConnectWait(c) PROVE ConnInv'
  BY <1>2, <1>s, <1>t DEF ConnInv, ConnectWait, TypeInv, TypeOK
<1>3. ASSUME NEW c \in Clients, ConnectWoken(c) PROVE ConnInv'
  BY <1>3, <1>s, <1>t DEF ConnInv, ConnectWoken, TypeInv, TypeOK
<1>4. ASSUME NEW c \in Clients, ConnectTimeout(c) PROVE ConnInv'
  BY <1>4, <1>s, <1>t DEF ConnInv, ConnectTimeout, TypeInv, TypeOK
<1>5. ASSUME NEW c \in Clients, SendSet(c) PROVE ConnInv'
  BY <1>5, <1>s, <1>t DEF ConnInv, SendSet, TypeInv, TypeOK
<1>6. ASSUME NEW c \in Clients, SendNotify(c) PROVE ConnInv'
  BY <1>6, <1>s, <1>t DEF ConnInv, SendNotify, TypeInv, TypeOK
<1>7. CASE CreateAcceptor
  BY <1>7, <1>s, <1>t DEF ConnInv, CreateAcceptor
<1>8. CASE SetAcceptorMonitor
  BY <1>8, <1>s, <1>t DEF ConnInv, SetAcceptorMonitor
<1>9. ASSUME NEW c \in Clients, ServeWaiter(c) PROVE ConnInv'
  <2>1. CASE c \in waiters
    <3>1. Nowhere(c) /\ RequestSet(c)
      BY <1>9, <2>1 DEF ConnInv, ServeWaiter
    <3>2. /\ Len(acceptQ) < Limit /\ Distinct(acceptQ')
          /\ \A d : InMailbox(d)' <=> InMailbox(d) \/ d = c
      BY <3>1, RequestQueues
    <3> QED
      BY <1>9, <2>1, <3>1, <3>2, <1>t DEF ConnInv, ServeWaiter
  <2>2. CASE c \notin waiters
    BY <1>9, <2>2, <1>s, <1>t DEF ConnInv, ServeWaiter
  <2> QED
    BY <2>1, <2>2
<1>18. CASE WalkNotify
  BY <1>18, <1>s, <1>t DEF ConnInv, WalkNotify
<1>10. CASE EraseWaiters
  BY <1>10, <1>s, <1>t DEF ConnInv, EraseWaiters
<1>11. CASE AcceptGet
  <2>1. CASE acceptQ = <<>>
    BY <1>11, <2>1, <1>s, <1>t DEF ConnInv, AcceptGet
  <2>2. CASE acceptQ # <<>>
    <3>1. /\ \A d : Has(acceptQ, d) <=> d = Head(acceptQ) \/ Has(Tail(acceptQ), d)
          /\ Distinct(Tail(acceptQ)) /\ ~Has(Tail(acceptQ), Head(acceptQ))
      BY <2>2, <1>t, DistinctTail DEF ConnInv, TypeInv, TypeOK
    <3>2. acceptQ' = Tail(acceptQ) /\ current' = Head(acceptQ)
      BY <1>11, <2>2 DEF AcceptGet
    <3>3. \A d : InMailbox(d)' <=> Has(Tail(acceptQ), d)
      BY <3>2 DEF InMailbox, Has
    <3>4. /\ Distinct(acceptQ')
          /\ \A d : InMailbox(d) <=> d = current' \/ InMailbox(d)'
          /\ \A d : d = current' => ~InMailbox(d)'
      BY <3>1, <3>2, <3>3, QueuedIsHad
    <3> QED
      BY <1>11, <2>2, <3>4, <1>t, <1>n DEF ConnInv, AcceptGet
  <2> QED
    BY <2>1, <2>2
<1>12. CASE AcceptAttach
  BY <1>12, <1>s, <1>t DEF ConnInv, AcceptAttach
<1>13. CASE AcceptSetMonitor
  BY <1>13, <1>s, <1>t, <1>n DEF ConnInv, AcceptSetMonitor
<1>14. ASSUME NEW c \in Clients, Recv(c) PROVE ConnInv'
  BY <1>14, <1>s, <1>t DEF ConnInv, Recv
<1>15. CASE DestroyAcceptor
  BY <1>15, <1>s, <1>t DEF ConnInv, DestroyAcceptor
<1>16. CASE DestroySockets
  <2>1. Distinct(acceptQ') /\ \A d : ~InMailbox(d)'
    BY <1>16 DEF DestroySockets, Distinct, InMailbox
  <2> QED
    BY <1>16, <2>1, <1>t DEF ConnInv, DestroySockets
<1> QED
  BY <1>0, <1>1, <1>2, <1>3, <1>4, <1>5, <1>6, <1>7, <1>8, <1>9, <1>10, <1>11,
     <1>12, <1>13, <1>14, <1>15, <1>16, <1>17, <1>18
     DEF Next, BrokerLoop, BrokerExit, ClientStep

\* inproc_socket.cpp:46-72 and 132-139: when the acceptor's mailbox has room for all,
\* no connection that was promised is lost or made twice.
THEOREM ConnectionsStay ==
    ASSUME IsFiniteSet(Clients), Cardinality(Clients) <= Limit
    PROVE  Spec => []ConnectionsAreKept
<1>1. Init => ConnInv
  <2> SUFFICES ASSUME Init PROVE ConnInv
    OBVIOUS
  <2>1. TypeInv
    BY InitType
  <2>2. Distinct(acceptQ) /\ \A c : ~InMailbox(c)
    BY DEF Init, Distinct, InMailbox
  <2>3. BrokerPlace
    BY DEF Init, BrokerPlace
  <2>4. ASSUME NEW c \in Clients PROVE ClientPlace(c)
    BY <2>2, InprocClient DEF Init, ClientPlace, Nowhere, Connected
  <2> QED
    BY <2>1, <2>2, <2>3, <2>4 DEF ConnInv
<1>2. ConnInv => ConnectionsAreKept
  <2> SUFFICES ASSUME ConnInv PROVE ConnectionsAreKept
    OBVIOUS
  <2>1. \A c : Count(acceptQ, c) <= 1
    BY DistinctCount DEF ConnInv, TypeInv, TypeOK
  <2> QED
    BY <2>1 DEF ConnInv, ClientPlace, Kept, ConnectionsAreKept, ConnectedIsKept, AcceptedOnce
<1> QED
  BY <1>1, <1>2, ConnStep, PTL DEF Spec

-----------------------------------------------------------------------------
(* Signals and packets.                                                    *)

LEMMA BrokerStep == TypeInv /\ BrokerPlace /\ [Next]_vars => BrokerPlace'
<1> SUFFICES ASSUME TypeInv, BrokerPlace, [Next]_vars PROVE BrokerPlace'
  OBVIOUS
<1> USE DEF BrokerPlace, brokerVars, dialerVars, clientVars
<1>1. CASE UNCHANGED vars
  BY <1>1 DEF vars
<1>2. CASE \E c \in Clients : ClientStep(c)
  BY <1>2 DEF ClientStep, ConnectNow, ConnectNotify, ConnectWait, ConnectWoken, ConnectTimeout,
              SendSet, SendNotify
<1>3. CASE BrokerLoop
  BY <1>3 DEF BrokerLoop, CreateAcceptor, SetAcceptorMonitor, ServeWaiter, WalkNotify,
              EraseWaiters, AcceptGet, AcceptAttach, AcceptSetMonitor, Recv
<1>4. CASE BrokerExit
  BY <1>4 DEF BrokerExit, DestroyAcceptor, DestroySockets
<1> QED
  BY <1>1, <1>2, <1>3, <1>4 DEF Next

\* A packet without a signal is one whose signal is about to be sent, or was dropped.
Unsent(c) == IF cpc[c] = "notifying" THEN 1 ELSE 0
ClientSignals(c) ==
    /\ Count(signals, c) + Unsent(c) <= Len(inbox[c])
    /\ c \notin early => Len(inbox[c]) = Count(signals, c) + Unsent(c)

\* dialer.m is held by one thread at a time, and by none while the acceptor is away.
Holding(c) == cpc[c] \in {"granted", "refused"}
OneDialer ==
    /\ \A c, d \in Clients : Holding(c) /\ Holding(d) => c = d
    /\ ~listening => DialerFree

SignalInv ==
    /\ TypeInv /\ BrokerPlace
    /\ \A c \in unheard : cpc[c] \notin {"idle", "waiting", "granted", "refused"}
    /\ OneDialer
    /\ AcceptIsSignalled
    /\ spc # "down" => \A c \in Clients : ClientSignals(c)
    /\ spc = "down" => signals = <<>> /\ monitored = {}

LEMMA DialerStep == TypeInv /\ OneDialer /\ [Next]_vars => OneDialer'
<1> SUFFICES ASSUME TypeInv, OneDialer, [Next]_vars PROVE OneDialer'
  OBVIOUS
<1> USE DEF OneDialer, Holding, DialerFree, brokerVars, dialerVars, clientVars
<1>2. ASSUME NEW c \in Clients, ConnectNow(c) PROVE OneDialer'
  BY <1>2 DEF ConnectNow, TypeInv, TypeOK
<1>3. ASSUME NEW c \in Clients, ClientStep(c), ~ConnectNow(c) PROVE OneDialer'
  <2>1. /\ listening' = listening /\ cpc'[c] \notin {"granted", "refused"}
        /\ \A d \in Clients \ {c} : cpc'[d] = cpc[d]
    BY <1>3 DEF ClientStep, ConnectNotify, ConnectWait, ConnectWoken, ConnectTimeout,
       SendSet, SendNotify, TypeInv, TypeOK
  <2> QED
    BY <2>1
<1>4. CASE BrokerLoop \/ BrokerExit \/ UNCHANGED vars
  BY <1>4 DEF BrokerLoop, CreateAcceptor, SetAcceptorMonitor, ServeWaiter, WalkNotify,
     EraseWaiters, AcceptGet, AcceptAttach, AcceptSetMonitor, Recv,
     BrokerExit, DestroyAcceptor, DestroySockets, vars
<1> QED
  BY <1>2, <1>3, <1>4 DEF Next

LEMMA AboutKept ==
    ASSUME \A d \in Clients : cpc'[d] = "granted" <=> cpc[d] = "granted",
           spc' = "walknotify" <=> spc = "walknotify"
    PROVE  AboutToSignal' = AboutToSignal
  BY DEF AboutToSignal

LEMMA SignalCount == TypeInv => \A e : Count(signals, e) \in Nat
  BY CountType DEF TypeInv, TypeOK

\* Who queues a socket is about to signal, whether or not there is room.
LEMMA SetSignals ==
    ASSUME IsFiniteSet(Clients), SignalInv, spc # "down", spc' # "down",
           NEW c \in Clients, RequestSet(c),
           signals' = signals, unheard' = unheard,
           \/ /\ spc' = spc /\ DialerFree
              /\ cpc' = [cpc EXCEPT ![c] = IF Len(acceptQ) < Limit THEN "granted"
                                           ELSE "refused"]
           \/ cpc' = cpc /\ spc # "walknotify" /\ spc' = "walknotify"
    PROVE  AcceptIsSignalled'
<1>1. acceptQ \in Seq(Clients) /\ cpc \in [Clients -> ClientPC]
  BY DEF SignalInv, TypeInv, TypeOK
<1>2. Len(acceptQ) \in Nat /\ Count(signals, NoClient) \in Nat
  BY <1>1, SignalCount DEF SignalInv
<1>3. Len(acceptQ) <= Count(signals, NoClient) + AboutToSignal + Cardinality(unheard)
  BY DEF SignalInv, AcceptIsSignalled
<1>4. Len(acceptQ') = IF Len(acceptQ) < Limit THEN Len(acceptQ) + 1 ELSE Len(acceptQ)
  BY <1>1 DEF RequestSet
<1>5. AboutToSignal' = IF Len(acceptQ) < Limit \/ cpc' = cpc THEN AboutToSignal + 1
                       ELSE AboutToSignal
  BY <1>1 DEF AboutToSignal, DialerFree
<1>6. AboutToSignal \in Nat
  BY DEF AboutToSignal
<1>7. Cardinality(unheard) \in Nat
  BY FS_Subset, FS_CardinalityType DEF SignalInv, TypeInv, TypeOK
<1> QED
  BY <1>2, <1>3, <1>4, <1>5, <1>6, <1>7 DEF AcceptIsSignalled

\* The signal comes, or the socket joins the unheard ones.
LEMMA NotifySignals ==
    ASSUME IsFiniteSet(Clients), SignalInv, spc # "down", spc' # "down", RequestNotify,
           acceptQ' = acceptQ, AboutToSignal <= AboutToSignal' + 1,
           \/ hasMonitor /\ unheard' = unheard
           \/ ~hasMonitor /\ \E c \in Clients \ unheard : unheard' = unheard \cup {c}
    PROVE  /\ AcceptIsSignalled'
           /\ \A d \in Clients : Count(signals', d) = Count(signals, d)
<1> DEFINE T == Clients \cup {NoClient}
<1>1. /\ signals \in Seq(T) /\ NoClient \in T /\ acceptQ \in Seq(Clients)
      /\ unheard \in SUBSET Clients
  BY DEF SignalInv, TypeInv, TypeOK
<1>2. /\ \A e : Count(Append(signals, NoClient), e)
                 = Count(signals, e) + (IF NoClient = e THEN 1 ELSE 0)
      /\ \A e : Count(signals, e) \in Nat
  BY <1>1, CountAppend, CountType
<1>3. IsFiniteSet(unheard) /\ Cardinality(unheard) \in Nat
  BY <1>1, FS_Subset, FS_CardinalityType
<1>4. \A c \in Clients \ unheard : Cardinality(unheard \cup {c}) = Cardinality(unheard) + 1
  BY <1>3, FS_AddElement
<1>5. Len(acceptQ) \in Nat /\ AboutToSignal \in Nat /\ AboutToSignal' \in Nat
  BY <1>1 DEF AboutToSignal
<1>6. Len(acceptQ) <= Count(signals, NoClient) + AboutToSignal + Cardinality(unheard)
  BY DEF SignalInv, AcceptIsSignalled
<1>9. Count(signals, NoClient) \in Nat
  BY <1>2
<1>7. CASE hasMonitor
  <2>1. signals' = Append(signals, NoClient) /\ unheard' = unheard
    BY <1>7 DEF RequestNotify
  <2>2. Count(signals', NoClient) = Count(signals, NoClient) + 1
    BY <2>1, <1>2
  <2>3. AcceptIsSignalled'
    <3>1. Len(acceptQ') <= Count(signals', NoClient) + AboutToSignal' + Cardinality(unheard')
      BY <2>1, <2>2, <1>3, <1>5, <1>6, <1>9 DEF AboutToSignal
    <3> QED
      BY <3>1 DEF AcceptIsSignalled
  <2>4. \A d \in Clients : Count(signals', d) = Count(signals, d)
    BY <2>1, <1>2, InprocClient
  <2> QED
    BY <2>3, <2>4
<1>8. CASE ~hasMonitor
  <2>1. signals' = signals /\ Cardinality(unheard') = Cardinality(unheard) + 1
    BY <1>4, <1>8 DEF RequestNotify
  <2>2. AcceptIsSignalled'
    <3>1. Len(acceptQ') <= Count(signals', NoClient) + AboutToSignal' + Cardinality(unheard')
      BY <2>1, <1>3, <1>5, <1>6, <1>9 DEF AboutToSignal
    <3> QED
      BY <3>1 DEF AcceptIsSignalled
  <2> QED
    BY <2>1, <2>2
<1> QED
  BY <1>7, <1>8

LEMMA SignalStep ==
    ASSUME IsFiniteSet(Clients) PROVE SignalInv /\ [Next]_vars => SignalInv'
<1> SUFFICES ASSUME SignalInv, [Next]_vars PROVE SignalInv'
  OBVIOUS
<1>t. TypeInv /\ TypeInv' /\ BrokerPlace /\ BrokerPlace' /\ OneDialer'
  BY TypeStep, BrokerStep, DialerStep DEF SignalInv
<1>n. NoClient \notin Clients
  BY InprocClient
<1>c. \A e : Count(signals, e) \in Nat
  BY <1>t, CountType DEF TypeInv, TypeOK
<1> USE DEF brokerVars, dialerVars, clientVars, Unsent, ClientSignals
<1>0. CASE UNCHANGED vars
  <2>1. AboutToSignal' = AboutToSignal
    BY <1>0, AboutKept DEF vars
  <2> QED
    BY <1>0, <2>1, <1>t DEF SignalInv, vars, AcceptIsSignalled
<1>1. ASSUME NEW c \in Clients, ConnectNow(c) PROVE SignalInv'
  <2>1. /\ spc # "down" /\ spc' = spc /\ RequestSet(c) /\ DialerFree
        /\ signals' = signals /\ unheard' = unheard
    BY <1>1, <1>t DEF ConnectNow, BrokerPlace
  <2>2. AcceptIsSignalled'
    BY <1>1, <2>1, SetSignals DEF ConnectNow
  <2>3. \A d \in unheard' : cpc'[d] \notin {"idle", "waiting", "granted", "refused"}
    BY <1>1, <1>t, <2>1 DEF SignalInv, ConnectNow, TypeInv, TypeOK
  <2>4. \A d \in Clients : ClientSignals(d)'
    BY <1>1, <1>t, <2>1 DEF SignalInv, ConnectNow, TypeInv, TypeOK
  <2> QED
    BY <2>1, <2>2, <2>3, <2>4, <1>t DEF SignalInv
<1>17. ASSUME NEW c \in Clients, ConnectNotify(c) PROVE SignalInv'
  <2>1. c \notin unheard /\ RequestNotify /\ spc' = spc
    BY <1>17 DEF SignalInv, ConnectNotify
  <2>2. spc # "down"
    BY <1>17, <1>t DEF ConnectNotify, SignalInv, OneDialer, DialerFree, BrokerPlace
  <2>3. AboutToSignal <= AboutToSignal' + 1
    BY <2>1 DEF AboutToSignal
  <2>4. /\ AcceptIsSignalled'
        /\ \A d \in Clients : Count(signals', d) = Count(signals, d)
    BY <1>17, <2>1, <2>2, <2>3, NotifySignals DEF ConnectNotify
  <2>5. \A d \in unheard' : cpc'[d] \notin {"idle", "waiting", "granted", "refused"}
    BY <1>17, <1>t DEF SignalInv, ConnectNotify, TypeInv, TypeOK
  <2>6. \A d \in Clients : ClientSignals(d)'
    BY <1>17, <1>t, <2>2, <2>4 DEF SignalInv, ConnectNotify, TypeInv, TypeOK
  <2> QED
    BY <2>1, <2>2, <2>4, <2>5, <2>6, <1>t DEF SignalInv
<1>2. ASSUME NEW c \in Clients,
             ConnectWait(c) \/ ConnectWoken(c) \/ ConnectTimeout(c)
      PROVE  SignalInv'
  <2>1. /\ spc' = spc /\ signals' = signals /\ acceptQ' = acceptQ /\ unheard' = unheard
        /\ \A d \in Clients : cpc'[d] = "granted" <=> cpc[d] = "granted"
    BY <1>2, <1>t DEF ConnectWait, ConnectWoken, ConnectTimeout, TypeInv, TypeOK
  <2>2. \A d \in unheard' : cpc'[d] \notin {"idle", "waiting", "granted", "refused"}
    BY <1>2, <1>t DEF SignalInv, ConnectWait, ConnectWoken, ConnectTimeout, TypeInv, TypeOK
  <2>3. spc' # "down" => \A d \in Clients : ClientSignals(d)'
    BY <1>2, <1>t DEF SignalInv, ConnectWait, ConnectWoken, ConnectTimeout, TypeInv, TypeOK
  <2>4. AcceptIsSignalled'
    BY <2>1, AboutKept DEF SignalInv, AcceptIsSignalled
  <2> QED
    BY <1>2, <2>1, <2>2, <2>3, <2>4, <1>t
       DEF SignalInv, ConnectWait, ConnectWoken, ConnectTimeout
<1>5. ASSUME NEW c \in Clients, SendSet(c) PROVE SignalInv'
  <2>1. Len(inbox[c]) \in Nat /\ Len(inbox'[c]) = Len(inbox[c]) + 1
    BY <1>5, <1>t DEF SendSet, TypeInv, TypeOK
  <2>2. AcceptIsSignalled'
    <3>1. AboutToSignal' = AboutToSignal
      BY <1>5, <1>t, AboutKept DEF SendSet, TypeInv, TypeOK
    <3> QED
      BY <1>5, <3>1 DEF SignalInv, AcceptIsSignalled, SendSet
  <2>3. \A d \in unheard' : cpc'[d] \notin {"idle", "waiting", "granted", "refused"}
    BY <1>5, <1>t DEF SignalInv, SendSet, TypeInv, TypeOK
  <2>4. ClientSignals(c)'
    <3>1. spc # "down" /\ signals' = signals /\ early' = early /\ cpc'[c] = "notifying"
      BY <1>5, <1>t DEF SendSet, TypeInv, TypeOK
    <3>2. ClientSignals(c) /\ Unsent(c) = 0
      BY <1>5, <3>1 DEF SignalInv, SendSet
    <3> QED
      BY <3>1, <3>2, <2>1, <1>c
  <2>5. \A d \in Clients \ {c} : ClientSignals(d)'
    BY <1>5, <1>t DEF SignalInv, SendSet, TypeInv, TypeOK
  <2> QED
    BY <1>5, <2>2, <2>3, <2>4, <2>5, <1>t DEF SignalInv, SendSet
<1>6. ASSUME NEW c \in Clients, SendNotify(c) PROVE SignalInv'
  <2>1. \A e : Count(Append(signals, c), e) = Count(signals, e) + (IF c = e THEN 1 ELSE 0)
    <3>1. signals \in Seq(Clients \cup {NoClient}) /\ c \in Clients \cup {NoClient}
      BY <1>t DEF TypeInv, TypeOK
    <3> QED
      BY <3>1, CountAppend
  <2>2. AcceptIsSignalled'
    <3>1. AboutToSignal' = AboutToSignal
      BY <1>6, <1>t, AboutKept DEF SendNotify, TypeInv, TypeOK
    <3> QED
      BY <1>6, <1>n, <1>c, <2>1, <3>1 DEF SignalInv, AcceptIsSignalled, SendNotify
  <2>3. \A d \in unheard' : cpc'[d] \notin {"idle", "waiting", "granted", "refused"}
    BY <1>6, <1>t DEF SignalInv, SendNotify, TypeInv, TypeOK
  <2>4. Len(inbox[c]) \in Nat
    BY <1>t DEF TypeInv, TypeOK
  <2>5. spc # "down" => ClientSignals(c)'
    BY <1>6, <1>t, <1>c, <2>1, <2>4 DEF SignalInv, SendNotify, TypeInv, TypeOK
  <2>6. spc # "down" => \A d \in Clients \ {c} : ClientSignals(d)'
    <3> SUFFICES ASSUME spc # "down", NEW d \in Clients \ {c} PROVE ClientSignals(d)'
      OBVIOUS
    <3>1. Count(signals', d) = Count(signals, d)
      <4>1. Count(Append(signals, c), d) = Count(signals, d)
        BY <1>c, <2>1
      <4> QED
        BY <1>6, <4>1 DEF SendNotify
    <3>2. inbox' = inbox /\ cpc'[d] = cpc[d] /\ (d \in early' <=> d \in early)
      BY <1>6, <1>t DEF SendNotify, TypeInv, TypeOK
    <3>3. ClientSignals(d)
      BY DEF SignalInv
    <3> QED
      BY <3>1, <3>2, <3>3
  <2> QED
    BY <1>6, <2>2, <2>3, <2>5, <2>6, <1>t DEF SignalInv, SendNotify
<1>7. CASE CreateAcceptor \/ SetAcceptorMonitor \/ EraseWaiters \/ AcceptAttach
           \/ AcceptSetMonitor \/ DestroyAcceptor
  <2>1. AboutToSignal' = AboutToSignal
    BY <1>7, AboutKept DEF CreateAcceptor, SetAcceptorMonitor, EraseWaiters, AcceptAttach,
       AcceptSetMonitor, DestroyAcceptor
  <2> QED
    BY <1>7, <2>1, <1>t DEF SignalInv, AcceptIsSignalled, CreateAcceptor, SetAcceptorMonitor,
       EraseWaiters, AcceptAttach, AcceptSetMonitor, DestroyAcceptor
<1>9. ASSUME NEW c \in Clients, ServeWaiter(c) PROVE SignalInv'
  <2>1. CASE c \in waiters
    <3>1. /\ spc = "walk" /\ spc' = "walknotify" /\ RequestSet(c)
          /\ signals' = signals /\ unheard' = unheard /\ cpc' = cpc
      BY <1>9, <2>1 DEF ServeWaiter
    <3>2. AcceptIsSignalled'
      BY <3>1, SetSignals
    <3> QED
      BY <1>9, <3>1, <3>2, <1>t DEF SignalInv, ServeWaiter
  <2>2. CASE c \notin waiters
    <3>1. spc' = spc /\ AboutToSignal' = AboutToSignal
      BY <1>9, <2>2, AboutKept DEF ServeWaiter
    <3> QED
      BY <1>9, <2>2, <3>1, <1>t DEF SignalInv, AcceptIsSignalled, ServeWaiter
  <2> QED
    BY <2>1, <2>2
<1>18. CASE WalkNotify
  <2>1. /\ spc = "walknotify" /\ spc' = "walk" /\ RequestNotify /\ hasMonitor
        /\ acceptQ' = acceptQ /\ unheard' = unheard /\ cpc' = cpc
    BY <1>18, <1>t DEF WalkNotify, BrokerPlace
  <2>2. AboutToSignal <= AboutToSignal' + 1
    BY <2>1 DEF AboutToSignal
  <2>3. /\ AcceptIsSignalled'
        /\ \A d \in Clients : Count(signals', d) = Count(signals, d)
    BY <2>1, <2>2, NotifySignals
  <2> QED
    BY <1>18, <2>1, <2>3, <1>t DEF SignalInv, WalkNotify
<1>11. CASE AcceptGet
  <2>1. /\ signals # <<>> /\ Head(signals) = NoClient /\ signals' = Tail(signals)
        /\ spc = "loop" /\ spc' # "down"
    BY <1>11 DEF AcceptGet
  <2>2. \A e : Count(signals, e) = Count(signals', e) + (IF NoClient = e THEN 1 ELSE 0)
    BY <2>1, <1>t, CountTail DEF TypeInv, TypeOK
  <2>3. \A e : Count(signals', e) \in Nat
    BY <1>t, CountType DEF TypeInv, TypeOK
  <2>4. /\ Len(acceptQ) \in Nat
        /\ Len(acceptQ') = IF acceptQ = <<>> THEN 0 ELSE Len(acceptQ) - 1
    <3>1. acceptQ \in Seq(Clients)
      BY <1>t DEF TypeInv, TypeOK
    <3>2. acceptQ' = IF acceptQ = <<>> THEN acceptQ ELSE Tail(acceptQ)
      BY <1>11 DEF AcceptGet
    <3> QED
      BY <3>1, <3>2
  <2>5. Cardinality(unheard) \in Nat
    BY <1>t, FS_Subset, FS_CardinalityType DEF TypeInv, TypeOK
  <2>6. AcceptIsSignalled'
    <3>1. AboutToSignal' = AboutToSignal /\ AboutToSignal \in Nat
      BY <1>11, AboutKept DEF AcceptGet, AboutToSignal
    <3> QED
      BY <1>11, <2>1, <2>2, <2>3, <2>4, <2>5, <3>1 DEF SignalInv, AcceptIsSignalled, AcceptGet
  <2>7. \A d \in Clients : Count(signals', d) = Count(signals, d)
    BY <2>2, <2>3, <1>n
  <2> QED
    BY <1>11, <2>1, <2>6, <2>7, <1>t DEF SignalInv, AcceptGet
<1>14. ASSUME NEW c \in Clients, Recv(c) PROVE SignalInv'
  <2>1. /\ signals # <<>> /\ Head(signals) = c /\ signals' = Tail(signals)
        /\ spc = "loop" /\ spc' = "loop"
    BY <1>14 DEF Recv
  <2>2. \A e : Count(signals, e) = Count(signals', e) + (IF c = e THEN 1 ELSE 0)
    BY <2>1, <1>t, CountTail DEF TypeInv, TypeOK
  <2>3. \A e : Count(signals', e) \in Nat
    BY <1>t, CountType DEF TypeInv, TypeOK
  <2>4. Len(inbox[c]) \in Nat /\ Len(inbox[c]) > 0
    <3>1. Len(inbox[c]) \in Nat
      BY <1>t DEF TypeInv, TypeOK
    <3>2. Count(signals, c) >= 1 /\ Count(signals, c) \in Nat
      BY <2>2, <2>3
    <3>3. Count(signals, c) + Unsent(c) <= Len(inbox[c]) /\ Unsent(c) \in {0, 1}
      BY <2>1 DEF SignalInv
    <3> HIDE DEF Unsent
    <3> QED
      BY <3>1, <3>2, <3>3
  <2>5. Len(inbox'[c]) = Len(inbox[c]) - 1
    BY <1>14, <2>4, <1>t DEF Recv, TypeInv, TypeOK
  <2>6. ClientSignals(c)'
    <3>1. Count(signals', c) = Count(signals, c) - 1 /\ Count(signals, c) \in Nat
      BY <2>2, <2>3
    <3>2. Unsent(c)' = Unsent(c) /\ Unsent(c) \in {0, 1} /\ early' = early
      BY <1>14 DEF Recv
    <3>3. ClientSignals(c)
      BY <2>1 DEF SignalInv
    <3> HIDE DEF Unsent
    <3> QED
      BY <2>4, <2>5, <3>1, <3>2, <3>3
  <2>7. ASSUME NEW d \in Clients \ {c} PROVE ClientSignals(d)'
    <3>1. Count(signals', d) = Count(signals, d)
      BY <2>2, <2>3
    <3>2. inbox'[d] = inbox[d] /\ cpc' = cpc /\ early' = early
      BY <1>14, <1>t DEF Recv, TypeInv, TypeOK
    <3>3. ClientSignals(d)
      BY <2>1 DEF SignalInv
    <3> QED
      BY <3>1, <3>2, <3>3
  <2>8. AcceptIsSignalled'
    <3>1. AboutToSignal' = AboutToSignal /\ AboutToSignal \in Nat
      BY <1>14, AboutKept DEF Recv, AboutToSignal
    <3> QED
      BY <1>14, <2>1, <2>2, <2>3, <3>1, <1>n DEF SignalInv, AcceptIsSignalled, Recv
  <2> QED
    BY <1>14, <2>1, <2>6, <2>7, <2>8, <1>t DEF SignalInv, Recv
<1>16. CASE DestroySockets
  BY <1>16, <1>t DEF SignalInv, DestroySockets, AcceptIsSignalled
<1> QED
  BY <1>0, <1>1, <1>2, <1>5, <1>6, <1>7, <1>9, <1>11, <1>14, <1>16, <1>17, <1>18
     DEF Next, BrokerLoop, BrokerExit, ClientStep

\* inproc_socket.cpp, thread.cpp: whatever the limit of a mailbox, whoever pops a signal
\* finds what it stands for, and nothing is left without one.
THEOREM SignalsAgree == ASSUME IsFiniteSet(Clients) PROVE Spec => []SignalsMatchPackets
<1>1. Init => SignalInv
  <2> SUFFICES ASSUME Init PROVE SignalInv
    OBVIOUS
  <2>1. TypeInv
    BY InitType
  <2>2. \A e : Count(signals, e) = 0
    BY CountEmpty DEF Init
  <2>3. AcceptIsSignalled
    BY <2>2, FS_EmptySet DEF Init, AcceptIsSignalled, AboutToSignal
  <2>4. OneDialer
    BY DEF Init, OneDialer, Holding, DialerFree
  <2> QED
    BY <2>1, <2>2, <2>3, <2>4 DEF Init, SignalInv, BrokerPlace, ClientSignals, Unsent
<1>2. SignalInv => SignalsMatchPackets
  <2> SUFFICES ASSUME SignalInv PROVE SignalsMatchPackets
    OBVIOUS
  <2>1. \A e : Count(signals, e) \in Nat
    BY CountType DEF SignalInv, TypeInv, TypeOK
  <2>2. \A c \in Clients : Len(inbox[c]) \in Nat
    BY DEF SignalInv, TypeInv, TypeOK
  <2>3. spc = "down" => \A e : Count(signals, e) = 0
    BY CountEmpty DEF SignalInv
  <2>4. NoEmptyRecv
    BY <2>1, <2>2, <2>3 DEF SignalInv, NoEmptyRecv, ClientSignals, Unsent
  <2>5. NoStrandedPacket
    BY DEF SignalInv, NoStrandedPacket, ClientSignals, Unsent, TypeInv, TypeOK
  <2> QED
    BY <2>4, <2>5 DEF SignalInv, SignalsMatchPackets
<1> QED
  BY <1>1, <1>2, SignalStep, PTL DEF Spec

-----------------------------------------------------------------------------
(* The types of the runtime.                                               *)

USE NoIndexAssumption

\* A continuation is one of a loop or one of the user.
LEMMA JobKinds ==
    ASSUME NEW j \in Job
    PROVE  /\ "user" \in DOMAIN j =>
                j \in [user : Loops, outcome : Outcome, seq : Nat]
           /\ "loop" \in DOMAIN j => j \in [loop : Loops]
  BY DEF Job

\* What is settled is a continuation of the user.
LEMMA SettledType ==
    ASSUME NEW p \in Packet
    PROVE  Settled(p) \in Job
  BY DEF Settled, UserJob, Packet, Job, Loops, Outcome

\* When the listener's promise is resolved, every loop that waits for it is
\* queued, none of them for the user.
LEMMA WaitingLoopsType ==
    ASSUME waiting \in Seq(Loops)
    PROVE  /\ WaitingLoops \in Seq(Job)
           /\ Len(WaitingLoops) = Len(waiting)
           /\ \A i \in 1 .. Len(WaitingLoops) :
                 WaitingLoops[i] = [loop |-> waiting[i]]
<1>1. \A i \in 1 .. Len(waiting) : [loop |-> waiting[i]] \in Job
  BY DEF Job
<1>2. WaitingLoops = [i \in 1 .. Len(waiting) |-> [loop |-> waiting[i]]]
  BY DEF WaitingLoops
<1> QED
  BY <1>1, <1>2

\* A continuation before others.
LEMMA JobFirst ==
    ASSUME NEW s \in Seq(Job), NEW j \in Job
    PROVE  /\ <<j>> \o s \in Seq(Job)
           /\ Len(<<j>> \o s) = Len(s) + 1
           /\ (<<j>> \o s)[1] = j
           /\ \A i \in 1 .. Len(s) : (<<j>> \o s)[i + 1] = s[i]
  OBVIOUS

\* A loop that awaits the listener starts it when there is none.
LEMMA AwaitListenType ==
    ASSUME NodeTypeOK, NEW l \in Loops, AwaitListen(l)
    PROVE  /\ listener' \in BOOLEAN /\ waiting' \in Seq(Loops) /\ busy' \in Nat
           /\ OneListen /\ arrived' = arrived => OneListen'
  BY DEF NodeTypeOK, AwaitListen, OneListen

-----------------------------------------------------------------------------
(* The invariant.                                                          *)

IsFor(j, tx) == "user" \in DOMAIN j /\ j.user = tx

\* A continuation of a call's user brings the next reply or, after the last
\* one, says that there is no other.
Brings(j, tx) ==
    /\ user[tx] = "awaiting" /\ execResolvers[tx] = NoIndex
    /\ \/ /\ j.outcome = "done"
          /\ Complete(tx) /\ idx[tx] = Len(given[tx])
       \/ /\ j.outcome =
               IF EndOf(tx, j.seq) = "failure" THEN "failure" ELSE "value"
          /\ j.seq = Len(given[tx]) /\ j.seq < made[tx]
          /\ idx[tx] = j.seq + 1
          /\ finished[tx] => EndOf(tx, j.seq) = "finish"

JobsOK ==
    \A tx \in TxIds :
        /\ \A i \in 1 .. Len(jobs) : IsFor(jobs[i], tx) => Brings(jobs[i], tx)
        /\ \A i, j \in 1 .. Len(jobs) :
              IsFor(jobs[i], tx) /\ IsFor(jobs[j], tx) => i = j

CallOK(tx) ==
    /\ call[tx] = "none" => user[tx] = "none"
    /\ user[tx] \in {"held", "awaiting"} => call[tx] = "open"
    /\ user[tx] \in {"none", "held"} =>
         idx[tx] = Len(given[tx]) /\ (finished[tx] => Complete(tx))
    /\ execResolvers[tx] # NoIndex =>
         /\ user[tx] = "awaiting"
         /\ execResolvers[tx] = Len(given[tx])
         /\ idx[tx] = Len(given[tx]) + 1
         /\ ~finished[tx]

ArrivedOK == \A i \in 1 .. Len(arrived) : arrived[i] # NoPacket => Honest(arrived[i])

NodeInv ==
    /\ NodeTypeOK
    /\ ServiceInv
    /\ OneListen
    /\ ArrivedOK
    /\ Filed(execResponses)
    /\ JobsOK
    /\ \A tx \in TxIds : CallOK(tx)

\* A step of Streams, or one its callers do not see.
Promises == [Promised!StreamsNext]_Promised!streamVars

LEMMA NodeStarts ==
    ASSUME NodeInit
    PROVE  NodeInv /\ Promised!StreamsInit
<1>1. ServiceInv /\ Promised!StreamsInit
  BY ServiceStarts DEF NodeInit
<1>2. NodeTypeOK
  <2>1. /\ waiting \in Seq(Loops) /\ arrived \in Seq(Packet \cup {NoPacket})
        /\ jobs \in Seq(Job)
    BY DEF NodeInit
  <2> QED
    BY <1>1, <2>1 DEF NodeInit, NodeTypeOK, ServiceInv
<1>3. OneListen /\ ArrivedOK /\ Filed(execResponses) /\ JobsOK
  BY DEF NodeInit, OneListen, ArrivedOK, Filed, JobsOK
<1>4. \A tx \in TxIds : CallOK(tx)
  BY DEF NodeInit, ServiceInit, CallOK
<1> QED
  BY <1>1, <1>2, <1>3, <1>4 DEF NodeInv

\* The broker and the VM go on.
LEMMA ServingKeeps ==
    ASSUME NodeInv, Serving
    PROVE  NodeInv' /\ Promises
<1>1. /\ Serve
      /\ UNCHANGED <<call, given, user, idx, finished, execResolvers,
                     execResponses, resolvers, listener, waiting, busy, arrived,
                     jobs, alive, main, threads>>
  BY DEF Serving, callVars, iterVars, loopVars, lifeVars
<1>2. /\ ServiceInv' /\ Promises
      /\ \A p \in Packet : Honest(p) => Honest(p)'
      /\ \A tx \in TxIds : Complete(tx) => Complete(tx)'
  BY <1>1, ServeKeeps DEF NodeInv, Promises, callVars
<1>3. \A tx \in TxIds : \A n \in Nat :
         n < made[tx] => n < made'[tx] /\ EndOf(tx, n)' = EndOf(tx, n)
  BY <1>1, FlagsStay DEF NodeInv
<1>4. /\ NodeTypeOK /\ ArrivedOK /\ Filed(execResponses) /\ JobsOK
      /\ \A tx \in TxIds : CallOK(tx)
      /\ given \in [TxIds -> Seq(Nat)] /\ arrived \in Seq(Packet \cup {NoPacket})
      /\ jobs \in Seq(Job)
  BY DEF NodeInv, NodeTypeOK, ServiceTypeOK
<1>5. NodeTypeOK' /\ OneListen'
  BY <1>1, <1>2, <1>4 DEF NodeTypeOK, NodeInv, OneListen, ServiceInv
<1>6. ArrivedOK'
  <2> SUFFICES ASSUME NEW i \in 1 .. Len(arrived), arrived[i] # NoPacket
               PROVE  \E p \in Packet : p = arrived'[i] /\ Honest(p)'
    BY <1>1 DEF ArrivedOK, Honest, EndOf
  <2>1. arrived[i] \in Packet /\ Honest(arrived[i])
    BY <1>4 DEF ArrivedOK
  <2> QED
    BY <1>1, <1>2, <2>1
<1>7. Filed(execResponses)'
  BY <1>1, <1>2, <1>4 DEF Filed, Honest, EndOf
<1>8. JobsOK'
  <2> SUFFICES ASSUME NEW tx \in TxIds, NEW i \in 1 .. Len(jobs),
                      IsFor(jobs[i], tx)
               PROVE  Brings(jobs[i], tx)'
    BY <1>1, <1>4 DEF JobsOK, IsFor
  <2>1. Brings(jobs[i], tx) /\ jobs[i].seq \in Nat
    BY <1>4, JobKinds DEF JobsOK, IsFor
  <2> QED
    BY <1>1, <1>2, <1>3, <2>1 DEF Brings
<1>9. \A tx \in TxIds : CallOK(tx)'
  BY <1>1, <1>2, <1>4 DEF CallOK
<1> QED
  BY <1>2, <1>5, <1>6, <1>7, <1>8, <1>9 DEF NodeInv

-----------------------------------------------------------------------------
(* Steps that give nothing to any caller.                                  *)

\* What is left to be shown of a step that makes no reply and gives none.
LEMMA QuietStep ==
    ASSUME NodeInv, UNCHANGED <<made, ended, given>>,
           NodeTypeOK', ServiceInv', OneListen',
           \A i \in 1 .. Len(arrived') :
              arrived'[i] # NoPacket => Honest(arrived'[i]),
           Filed(execResponses'), JobsOK',
           \A tx \in TxIds : CallOK(tx)'
    PROVE  NodeInv'
  BY DEF NodeInv, ArrivedOK, Filed, Honest, EndOf

\* Calls are looked at through these variables alone.
LEMMA CallsStay ==
    ASSUME NodeInv,
           UNCHANGED <<made, ended, given, call, user, idx, finished, execResolvers>>
    PROVE  /\ Promises
           /\ \A tx \in TxIds : CallOK(tx)'
           /\ jobs' = jobs => JobsOK'
           /\ jobs' = Tail(jobs) => JobsOK' \/ jobs = <<>>
<1>1. Promises
  BY DEF Promises, Promised!streamVars, Complete
<1>2. \A tx \in TxIds : CallOK(tx)'
  BY DEF NodeInv, CallOK, Complete
<1>3. \A j, tx : Brings(j, tx)' <=> Brings(j, tx)
  BY DEF Brings, EndOf, Complete
<1>4. jobs \in Seq(Job)
  BY DEF NodeInv, NodeTypeOK
<1>5. CASE jobs' = jobs
  BY <1>1, <1>2, <1>5 DEF NodeInv, JobsOK, Brings, EndOf, Complete
<1>6. CASE jobs' = Tail(jobs) /\ jobs # <<>>
  <2>1. /\ Len(jobs') = Len(jobs) - 1 /\ Len(jobs) \in Nat
        /\ \A i \in 1 .. Len(jobs') : jobs'[i] = jobs[i + 1]
    BY <1>4, <1>6
  <2>2. SUFFICES ASSUME NEW tx \in TxIds
                 PROVE  /\ \A i \in 1 .. Len(jobs') :
                              IsFor(jobs[i + 1], tx) => Brings(jobs[i + 1], tx)
                        /\ \A i, j \in 1 .. Len(jobs') :
                              IsFor(jobs[i + 1], tx) /\ IsFor(jobs[j + 1], tx)
                              => i = j
    BY <1>1, <1>2, <2>1 DEF JobsOK, IsFor, Brings, EndOf, Complete
  <2> QED
    BY <2>1 DEF NodeInv, JobsOK
<1> QED
  BY <1>1, <1>2, <1>5, <1>6

\* A thread of the pool takes a packet out of the mailbox.
LEMMA ExecuteKeeps ==
    ASSUME NodeInv, Execute
    PROVE  NodeInv' /\ Promises
<1>1. /\ busy > 0 /\ busy' = busy - 1
      /\ arrived' = Append(arrived, Listened) /\ mail' = RestOfMail
      /\ UNCHANGED <<made, ended, requested, call, given, user, idx, finished,
                     execResolvers, execResponses, resolvers, listener, waiting,
                     jobs, alive, main, threads>>
  BY DEF Execute, callVars, iterVars, lifeVars
<1>2. /\ ServiceInv' /\ Listened \in Packet \cup {NoPacket}
      /\ Listened # NoPacket => Honest(Listened)
  BY <1>1, ListenKeeps DEF NodeInv, callVars
<1>3. /\ arrived \in Seq(Packet \cup {NoPacket}) /\ busy \in Nat
      /\ arrived' \in Seq(Packet \cup {NoPacket})
      /\ Len(arrived') = Len(arrived) + 1 /\ Len(arrived) \in Nat
      /\ arrived'[Len(arrived) + 1] = Listened
      /\ \A i \in 1 .. Len(arrived) : arrived'[i] = arrived[i]
  <2>1. arrived \in Seq(Packet \cup {NoPacket}) /\ busy \in Nat
    BY DEF NodeInv, NodeTypeOK
  <2> QED
    BY <1>1, <1>2, <2>1
<1>4. NodeTypeOK' /\ OneListen'
  <2>1. busy' \in Nat /\ busy' + Len(arrived') = busy + Len(arrived)
    BY <1>1, <1>3
  <2>2. OneListen'
    BY <1>1, <2>1 DEF NodeInv, OneListen
  <2>3. NodeTypeOK'
    BY <1>1, <1>2, <1>3, <2>1 DEF NodeInv, NodeTypeOK, ServiceInv
  <2> QED
    BY <2>2, <2>3
<1>5. \A i \in 1 .. Len(arrived') : arrived'[i] # NoPacket => Honest(arrived'[i])
  BY <1>2, <1>3 DEF NodeInv, ArrivedOK
<1>6. Promises /\ JobsOK' /\ \A tx \in TxIds : CallOK(tx)'
  BY <1>1, CallsStay
<1> QED
  BY <1>1, <1>2, <1>4, <1>5, <1>6, QuietStep DEF NodeInv

\* A loop that is continued listens again or is done; start() and stop() then
\* set what their users see of the runtime.
LEMMA LoopsKeep ==
    ASSUME NodeInv, ExecLoop \/ ControlLoop
    PROVE  NodeInv' /\ Promises
<1> DEFINE l == Head(jobs).loop
<1>1. /\ NodeTypeOK /\ ServiceInv /\ OneListen /\ ArrivedOK
      /\ Filed(execResponses) /\ jobs \in Seq(Job)
      /\ busy \in Nat /\ listener \in BOOLEAN /\ waiting \in Seq(Loops)
      /\ alive \in BOOLEAN /\ threads \in BOOLEAN
  BY DEF NodeInv, NodeTypeOK
<1>2. /\ jobs # <<>> /\ jobs' = Tail(jobs)
      /\ UNCHANGED <<made, ended, requested, mail, call, given, user, idx,
                     finished, execResolvers, execResponses, resolvers, arrived,
                     main>>
      /\ AwaitListen(l) \/ UNCHANGED <<listener, waiting, busy>>
      /\ alive' \in BOOLEAN /\ threads' \in BOOLEAN
  BY <1>1 DEF ExecLoop, ControlLoop, NextJobIs, serviceVars, callVars, iterVars,
              lifeVars, loopVars
<1>3. l \in Loops
  BY DEF ExecLoop, ControlLoop, Loops
<1>4. /\ listener' \in BOOLEAN /\ waiting' \in Seq(Loops) /\ busy' \in Nat
      /\ OneListen'
  <2>1. CASE AwaitListen(l)
    <3> HIDE DEF l
    <3> QED
      BY <1>1, <1>2, <1>3, <2>1, AwaitListenType
  <2>2. CASE UNCHANGED <<listener, waiting, busy>>
    BY <1>1, <1>2, <2>2 DEF OneListen
  <2> QED
    BY <1>2, <2>1, <2>2
<1>5. jobs' \in Seq(Job)
  BY <1>1, <1>2
<1>6. ServiceInv'
  BY <1>1, <1>2, CallersKeep DEF ServiceInv, ServiceTypeOK
<1>7. NodeTypeOK'
  BY <1>1, <1>2, <1>4, <1>5, <1>6 DEF NodeTypeOK, ServiceInv
<1>8. Promises /\ JobsOK' /\ \A tx \in TxIds : CallOK(tx)'
  BY <1>2, CallsStay
<1> QED
  BY <1>1, <1>2, <1>4, <1>6, <1>7, <1>8, QuietStep DEF ArrivedOK

\* The user of start() or stop() is told that it is done.
LEMMA UserIsToldKeeps ==
    ASSUME NodeInv, UserIsTold
    PROVE  NodeInv' /\ Promises
<1>1. /\ jobs # <<>> /\ jobs' = Tail(jobs)
      /\ main' \in {"started", "stopped"}
      /\ UNCHANGED <<made, ended, requested, mail, call, given, user, idx,
                     finished, execResolvers, execResponses, resolvers, listener,
                     waiting, busy, arrived, alive, threads>>
  BY DEF UserIsTold, NextJobIs, serviceVars, callVars, iterVars, loopVars
<1>2. jobs' \in Seq(Job)
  BY <1>1 DEF NodeInv, NodeTypeOK
<1>3. ServiceInv'
  BY <1>1, CallersKeep DEF NodeInv, ServiceInv, ServiceTypeOK
<1>4. NodeTypeOK' /\ OneListen'
  BY <1>1, <1>2, <1>3 DEF NodeInv, NodeTypeOK, ServiceInv, OneListen
<1>5. Promises /\ JobsOK' /\ \A tx \in TxIds : CallOK(tx)'
  BY <1>1, CallsStay
<1> QED
  BY <1>1, <1>3, <1>4, <1>5, QuietStep DEF NodeInv, ArrivedOK

\* start() and stop() send their packet, or find nothing to stop.
LEMMA ControlsKeep ==
    ASSUME NodeInv, start \/ stop
    PROVE  NodeInv' /\ Promises
<1>1. /\ requested' \subseteq Controls /\ resolvers' \subseteq Controls
      /\ main' \in {"starting", "stopping", "stopped"}
      /\ UNCHANGED <<made, ended, mail, call, given, user, idx, finished,
                     execResolvers, execResponses, arrived, jobs, alive, threads>>
      /\ \/ \E c \in Controls : AwaitListen(c)
         \/ UNCHANGED <<listener, waiting, busy>>
  BY DEF NodeInv, NodeTypeOK, ServiceTypeOK, start, stop, Request, Controls,
         serviceVars, callVars, iterVars, loopVars
<1>2. /\ listener' \in BOOLEAN /\ waiting' \in Seq(Loops) /\ busy' \in Nat
      /\ OneListen'
  <2>1. ASSUME NEW c \in Controls, AwaitListen(c)
        PROVE  /\ listener' \in BOOLEAN /\ waiting' \in Seq(Loops)
               /\ busy' \in Nat /\ OneListen'
    BY <1>1, <2>1, AwaitListenType DEF NodeInv, Loops
  <2>2. CASE UNCHANGED <<listener, waiting, busy>>
    BY <1>1, <2>2 DEF NodeInv, NodeTypeOK, OneListen
  <2> QED
    BY <1>1, <2>1, <2>2
<1>3. ServiceInv'
  BY <1>1, CallersKeep DEF NodeInv, ServiceInv, ServiceTypeOK
<1>4. NodeTypeOK'
  BY <1>1, <1>2, <1>3 DEF NodeInv, NodeTypeOK, ServiceInv
<1>5. Promises /\ JobsOK' /\ \A tx \in TxIds : CallOK(tx)'
  BY <1>1, CallsStay
<1> QED
  BY <1>1, <1>2, <1>3, <1>4, <1>5, QuietStep DEF NodeInv, ArrivedOK

-----------------------------------------------------------------------------
(* Steps of a call.                                                        *)

\* A continuation is of an awaited call only.
LEMMA NoJobUnlessAwaited ==
    ASSUME NodeInv, NEW tx \in TxIds, user[tx] # "awaiting"
    PROVE  \A i \in 1 .. Len(jobs) : ~IsFor(jobs[i], tx)
  BY DEF NodeInv, JobsOK, Brings

\* What one call does leaves the others alone.
LEMMA OthersStay ==
    ASSUME NodeInv, NEW tx \in TxIds, UNCHANGED <<made, ended>>,
           NEW t \in TxIds \ {tx},
           call'[t] = call[t], given'[t] = given[t], user'[t] = user[t],
           idx'[t] = idx[t], finished'[t] = finished[t],
           execResolvers'[t] = execResolvers[t]
    PROVE  /\ CallOK(t)'
           /\ \A j : Brings(j, t)' <=> Brings(j, t)
<1>1. CallOK(t)'
  BY DEF NodeInv, CallOK, Complete
<1>2. \A j : Brings(j, t)' <=> Brings(j, t)
  BY DEF Brings, EndOf, Complete
<1> QED
  BY <1>1, <1>2

\* A user begins a call, or leaves it.
LEMMA UserKeeps ==
    ASSUME NodeInv, NEW tx \in TxIds, callIter(tx) \/ Leave(tx)
    PROVE  NodeInv' /\ Promises
<1>1. /\ UNCHANGED <<made, ended, requested, mail, given, idx, finished,
                     execResolvers, execResponses, resolvers, listener, waiting,
                     busy, arrived, jobs, alive, main, threads>>
      /\ \/ /\ call[tx] = "none" /\ call' = [call EXCEPT ![tx] = "open"]
            /\ user' = [user EXCEPT ![tx] = "held"]
         \/ /\ user[tx] = "held" /\ call' = [call EXCEPT ![tx] = "abandoned"]
            /\ user' = [user EXCEPT ![tx] = "over"]
  BY DEF callIter, Leave, serviceVars, loopVars, lifeVars
<1>2. /\ call \in [TxIds -> StreamState] /\ given \in [TxIds -> Seq(Nat)]
      /\ user \in [TxIds -> {"none", "held", "awaiting", "over"}]
      /\ requested \subseteq Controls /\ jobs \in Seq(Job)
      /\ \A t \in TxIds : CallOK(t) /\ Len(given[t]) <= made[t]
  BY DEF NodeInv, NodeTypeOK, ServiceInv, ServiceTypeOK
<1>3. ASSUME call[tx] = "none", call' = [call EXCEPT ![tx] = "open"]
      PROVE  Promises
  <2>1. ServiceInv /\ UNCHANGED <<made, ended, given>>
    BY <1>1 DEF NodeInv
  <2>2. Promised!Begin(tx)
    BY <1>3, <2>1, BeginKeeps
  <2> QED
    BY <2>2 DEF Promises, Promised!StreamsNext
<1>4. ASSUME user[tx] = "held", call' = [call EXCEPT ![tx] = "abandoned"]
      PROVE  Promises
  <2>1. ServiceInv /\ UNCHANGED <<made, ended, given>> /\ call[tx] = "open"
    BY <1>1, <1>2, <1>4 DEF NodeInv, CallOK
  <2>2. Promised!Abandon(tx) \/ UNCHANGED Promised!streamVars
    BY <1>4, <2>1, LeaveKeeps
  <2> QED
    BY <2>2 DEF Promises, Promised!StreamsNext
<1>5. Promises
  BY <1>1, <1>3, <1>4
<1>6. /\ call' \in [TxIds -> StreamState]
      /\ user' \in [TxIds -> {"none", "held", "awaiting", "over"}]
      /\ \A t \in TxIds : call'[t] = "none" => call[t] = "none"
  BY <1>1, <1>2 DEF StreamState
<1>7. ServiceInv'
  BY <1>1, <1>2, <1>6, CallersKeep DEF NodeInv
<1>8. NodeTypeOK' /\ OneListen'
  BY <1>1, <1>6, <1>7 DEF NodeInv, NodeTypeOK, ServiceInv, OneListen
<1>9. user[tx] \in {"none", "held"} /\ user'[tx] \in {"held", "over"}
  BY <1>1, <1>2 DEF CallOK
<1>10. \A t \in TxIds \ {tx} : CallOK(t)' /\ \A j : Brings(j, t)' <=> Brings(j, t)
  BY <1>1, <1>2, OthersStay
<1>11. CallOK(tx)'
  BY <1>1, <1>2, <1>9 DEF CallOK, Complete
<1>12. JobsOK'
  <2>1. \A i \in 1 .. Len(jobs) : ~IsFor(jobs[i], tx)
    BY <1>9, NoJobUnlessAwaited
  <2>2. SUFFICES ASSUME NEW t \in TxIds, NEW i \in 1 .. Len(jobs),
                        IsFor(jobs[i], t)
                 PROVE  Brings(jobs[i], t)'
    BY <1>1 DEF NodeInv, JobsOK, IsFor
  <2>3. Brings(jobs[i], t) /\ t # tx
    BY <2>1, <2>2 DEF NodeInv, JobsOK
  <2> QED
    BY <1>1, <1>10, <2>3 DEF Brings, EndOf, Complete
<1> QED
  BY <1>1, <1>5, <1>7, <1>8, <1>10, <1>11, <1>12, QuietStep DEF NodeInv, ArrivedOK

\* A user's continuation is about one request, the one it is made for.
LEMMA UserJobIsFor ==
    ASSUME NEW tx \in Loops, NEW o \in Outcome, NEW n \in Nat
    PROVE  /\ UserJob(tx, o, n) \in Job
           /\ \A t : IsFor(UserJob(tx, o, n), t) <=> t = tx
           /\ UserJob(tx, o, n).outcome = o /\ UserJob(tx, o, n).seq = n
  BY DEF UserJob, Job, Loops, IsFor

\* The first continuation of an awaited call is queued behind those of others.
LEMMA JobQueued ==
    ASSUME NodeInv, NEW tx \in TxIds, user[tx] # "awaiting",
           \A t \in TxIds \ {tx} : \A j : Brings(j, t)' <=> Brings(j, t),
           NEW new \in Job, jobs' = Append(jobs, new),
           \A t \in TxIds : IsFor(new, t) <=> t = tx, Brings(new, tx)'
    PROVE  JobsOK'
<1>1. /\ Len(jobs') = Len(jobs) + 1 /\ Len(jobs) \in Nat
      /\ jobs'[Len(jobs) + 1] = new
      /\ \A i \in 1 .. Len(jobs) : jobs'[i] = jobs[i]
  BY DEF NodeInv, NodeTypeOK
<1>2. \A i \in 1 .. Len(jobs) : ~IsFor(jobs[i], tx)
  BY NoJobUnlessAwaited
<1>3. ASSUME NEW t \in TxIds, NEW i \in 1 .. Len(jobs'), IsFor(jobs'[i], t)
      PROVE  /\ t = tx => i = Len(jobs) + 1 /\ jobs'[i] = new
             /\ t # tx => i \in 1 .. Len(jobs) /\ jobs'[i] = jobs[i]
  BY <1>1, <1>2, <1>3
<1>4. ASSUME NEW t \in TxIds, NEW i \in 1 .. Len(jobs'), IsFor(jobs'[i], t)
      PROVE  \E j : j = jobs'[i] /\ Brings(j, t)'
  <2>1. CASE t = tx
    BY <1>3, <1>4, <2>1
  <2>2. CASE t # tx
    <3>1. i \in 1 .. Len(jobs) /\ jobs'[i] = jobs[i] /\ Brings(jobs[i], t)
      BY <1>3, <1>4, <2>2 DEF NodeInv, JobsOK
    <3> QED
      BY <2>2, <3>1
  <2> QED
    BY <2>1, <2>2
<1>5. \A t \in TxIds : \A i, j \in 1 .. Len(jobs') :
         IsFor(jobs'[i], t) /\ IsFor(jobs'[j], t) => i = j
  <2> SUFFICES ASSUME NEW t \in TxIds, NEW i \in 1 .. Len(jobs'),
                      NEW j \in 1 .. Len(jobs'),
                      IsFor(jobs'[i], t), IsFor(jobs'[j], t)
               PROVE  i = j
    OBVIOUS
  <2>1. CASE t = tx
    BY <1>3, <2>1
  <2>2. CASE t # tx
    <3>1. /\ i \in 1 .. Len(jobs) /\ j \in 1 .. Len(jobs)
          /\ IsFor(jobs[i], t) /\ IsFor(jobs[j], t)
      BY <1>3, <2>2
    <3> QED
      BY <3>1 DEF NodeInv, JobsOK
  <2> QED
    BY <2>1, <2>2
<1> QED
  BY <1>4, <1>5 DEF JobsOK, IsFor, Brings, EndOf, Complete

\* A user asks for the next value.
LEMMA NextKeeps ==
    ASSUME NodeInv, NEW tx \in TxIds, next(tx)
    PROVE  NodeInv' /\ Promises
<1>1. /\ user[tx] = "held" /\ user' = [user EXCEPT ![tx] = "awaiting"]
      /\ UNCHANGED <<made, ended, requested, mail, call, given, resolvers,
                     arrived, alive, main, threads>>
  BY DEF next, serviceVars, callVars, lifeVars
<1>2. /\ NodeTypeOK /\ ServiceInv /\ OneListen /\ ArrivedOK
      /\ Filed(execResponses) /\ JobsOK /\ CallOK(tx)
      /\ given \in [TxIds -> Seq(Nat)]
      /\ user \in [TxIds -> {"none", "held", "awaiting", "over"}]
      /\ idx \in [TxIds -> Nat] /\ finished \in [TxIds -> BOOLEAN]
      /\ execResolvers \in [TxIds -> Nat \cup {NoIndex}]
      /\ execResponses \in [TxIds -> SUBSET Packet]
      /\ jobs \in Seq(Job) /\ waiting \in Seq(Loops)
  BY DEF NodeInv, NodeTypeOK, ServiceTypeOK
<1>3. /\ call[tx] = "open" /\ idx[tx] = Len(given[tx])
      /\ finished[tx] => Complete(tx)
      /\ execResolvers[tx] = NoIndex
  BY <1>1, <1>2 DEF CallOK
<1>4. ServiceInv' /\ Promises
  <2>1. ServiceInv'
    BY <1>1, <1>2, CallersKeep DEF ServiceInv, ServiceTypeOK
  <2>2. Promises
    BY <1>1 DEF Promises, Promised!streamVars, Complete
  <2> QED
    BY <2>1, <2>2
\* What the three ways of next() have to show.
<1>5. ASSUME idx' \in [TxIds -> Nat], finished' \in [TxIds -> BOOLEAN],
             execResolvers' \in [TxIds -> Nat \cup {NoIndex}],
             Filed(execResponses'), jobs' \in Seq(Job),
             listener' \in BOOLEAN, waiting' \in Seq(Loops), busy' \in Nat,
             OneListen', JobsOK', CallOK(tx)',
             \A t \in TxIds \ {tx} : CallOK(t)'
      PROVE  NodeInv'
  <2>1. user' \in [TxIds -> {"none", "held", "awaiting", "over"}]
    BY <1>1, <1>2
  <2>2. NodeTypeOK'
    BY <1>1, <1>2, <1>4, <1>5, <2>1 DEF NodeTypeOK, ServiceInv, Filed
  <2>3. \A i \in 1 .. Len(arrived') :
           arrived'[i] # NoPacket => Honest(arrived'[i])
    BY <1>1, <1>2 DEF ArrivedOK
  <2> QED
    BY <1>1, <1>4, <1>5, <2>2, <2>3, QuietStep
<1>6. CASE NextDone(tx)
  <2>1. /\ finished[tx] /\ jobs' = Append(jobs, UserJob(tx, "done", 0))
        /\ UNCHANGED <<idx, finished, execResolvers, execResponses, listener,
                       waiting, busy>>
    BY <1>6 DEF NextDone, loopVars
  <2>2. PICK new \in Job :
          /\ jobs' = Append(jobs, new) /\ new.outcome = "done"
          /\ \A t \in TxIds : IsFor(new, t) <=> t = tx
    BY <2>1, UserJobIsFor DEF Outcome, Loops
  <2>3. \A t \in TxIds \ {tx} : CallOK(t)' /\ \A j : Brings(j, t)' <=> Brings(j, t)
    BY <1>1, <1>2, <2>1, OthersStay
  <2>4. Brings(new, tx)' /\ CallOK(tx)'
    BY <1>1, <1>2, <1>3, <2>1, <2>2 DEF Brings, CallOK, Complete
  <2>5. JobsOK'
    BY <1>1, <2>2, <2>3, <2>4, JobQueued
  <2>6. OneListen' /\ jobs' \in Seq(Job)
    BY <1>1, <1>2, <2>1, <2>2 DEF OneListen
  <2> QED
    BY <1>2, <1>4, <1>5, <2>1, <2>3, <2>4, <2>5, <2>6 DEF NodeTypeOK
<1>7. CASE NextBuffered(tx)
  <2>1. PICK p \in execResponses[tx] :
          /\ p.seq = idx[tx]
          /\ execResponses' = [execResponses EXCEPT ![tx] = @ \ {p}]
          /\ finished' = [finished EXCEPT ![tx] = p.end = "finish"]
          /\ jobs' = Append(jobs, Settled(p))
    BY <1>7 DEF NextBuffered
  <2>2. /\ idx' = [idx EXCEPT ![tx] = @ + 1]
        /\ UNCHANGED <<execResolvers, listener, waiting, busy>>
    BY <1>7 DEF NextBuffered, loopVars
  <2>3. /\ p \in Packet /\ p.tx = tx /\ p.seq \in Nat
        /\ p.seq < made[tx] /\ p.end = EndOf(tx, p.seq)
    <3>1. p \in Packet /\ p.tx = tx /\ Honest(p)
      BY <1>2, <2>1 DEF Filed
    <3> QED
      BY <3>1 DEF Honest, Packet
  <2>4. PICK new \in Job :
          /\ jobs' = Append(jobs, new) /\ new.seq = p.seq
          /\ new.outcome = IF p.end = "failure" THEN "failure" ELSE "value"
          /\ \A t \in TxIds : IsFor(new, t) <=> t = tx
    BY <2>1, <2>3, UserJobIsFor DEF Settled, Outcome, Loops
  <2>5. \A t \in TxIds \ {tx} : CallOK(t)' /\ \A j : Brings(j, t)' <=> Brings(j, t)
    BY <1>1, <1>2, <2>1, <2>2, OthersStay
  <2>6. /\ finished' \in [TxIds -> BOOLEAN] /\ finished'[tx] = (p.end = "finish")
        /\ idx' \in [TxIds -> Nat] /\ idx'[tx] = p.seq + 1
        /\ user'[tx] = "awaiting" /\ EndOf(tx, p.seq)' = EndOf(tx, p.seq)
    BY <1>1, <1>2, <2>1, <2>2 DEF EndOf
  <2>7. Brings(new, tx)' /\ CallOK(tx)'
    <3>1. Brings(new, tx)'
      BY <1>1, <1>3, <2>1, <2>2, <2>3, <2>4, <2>6 DEF Brings, EndOf
    <3>2. CallOK(tx)'
      BY <1>1, <1>3, <2>2, <2>6 DEF CallOK
    <3> QED
      BY <3>1, <3>2
  <2>8. JobsOK'
    BY <1>1, <2>4, <2>5, <2>7, JobQueued
  <2>9. OneListen' /\ jobs' \in Seq(Job) /\ Filed(execResponses')
    <3>1. Filed(execResponses')
      BY <1>2, <2>1 DEF Filed
    <3> QED
      BY <1>1, <1>2, <2>2, <2>4, <3>1 DEF OneListen
  <2> QED
    BY <1>2, <1>4, <1>5, <2>2, <2>5, <2>6, <2>7, <2>8, <2>9 DEF NodeTypeOK
<1>8. CASE NextListens(tx)
  <2>1. /\ ~finished[tx]
        /\ execResolvers' = [execResolvers EXCEPT ![tx] = idx[tx]]
        /\ idx' = [idx EXCEPT ![tx] = @ + 1]
        /\ AwaitListen(tx)
        /\ UNCHANGED <<finished, execResponses, jobs>>
    BY <1>8 DEF NextListens
  <2>2. /\ listener' \in BOOLEAN /\ waiting' \in Seq(Loops) /\ busy' \in Nat
        /\ OneListen'
    BY <1>1, <1>2, <2>1, AwaitListenType DEF Loops
  <2>3. \A t \in TxIds \ {tx} : CallOK(t)' /\ \A j : Brings(j, t)' <=> Brings(j, t)
    BY <1>1, <1>2, <2>1, OthersStay
  <2>4. CallOK(tx)'
    BY <1>1, <1>2, <1>3, <2>1 DEF CallOK
  <2>5. JobsOK'
    <3>1. \A i \in 1 .. Len(jobs) : ~IsFor(jobs[i], tx)
      BY <1>1, NoJobUnlessAwaited
    <3>2. SUFFICES ASSUME NEW t \in TxIds, NEW i \in 1 .. Len(jobs),
                          IsFor(jobs[i], t)
                   PROVE  Brings(jobs[i], t)'
      BY <1>2, <2>1 DEF JobsOK, IsFor
    <3>3. Brings(jobs[i], t) /\ t # tx
      BY <1>2, <3>1, <3>2 DEF JobsOK
    <3> QED
      BY <2>1, <2>3, <3>3 DEF Brings, EndOf, Complete
  <2>6. idx' \in [TxIds -> Nat] /\ execResolvers' \in [TxIds -> Nat \cup {NoIndex}]
    BY <1>2, <2>1
  <2> QED
    BY <1>2, <1>4, <1>5, <2>1, <2>2, <2>3, <2>4, <2>5, <2>6
<1> QED
  BY <1>4, <1>6, <1>7, <1>8 DEF next

\* The user of a call is given its next value, or told of its end.
LEMMA UserGoesOnKeeps ==
    ASSUME NodeInv, UserGoesOn
    PROVE  NodeInv' /\ Promises
<1>1. PICK j \in Job : jobs # <<>> /\ j = Head(jobs) /\ "user" \in DOMAIN j
  BY DEF UserGoesOn, NextJobIs, NodeInv, NodeTypeOK
<1>2. PICK tx \in TxIds : tx = j.user
  BY <1>1 DEF UserGoesOn
<1>3. /\ user' = [user EXCEPT ![tx] = IF j.outcome = "value" THEN "held" ELSE "over"]
      /\ given' = IF j.outcome = "value"
                  THEN [given EXCEPT ![tx] = Append(@, j.seq)] ELSE given
      /\ call' = [call EXCEPT ![tx] = CASE j.outcome = "value" -> @
                                        [] j.outcome = "done" -> "returned"
                                        [] j.outcome = "failure" -> "raised"]
      /\ jobs' = Tail(jobs)
      /\ UNCHANGED <<made, ended, requested, mail, idx, finished, execResolvers,
                     execResponses, resolvers, listener, waiting, busy, arrived,
                     alive, main, threads>>
  BY <1>1, <1>2 DEF UserGoesOn, serviceVars, loopVars, lifeVars
<1>4. /\ NodeTypeOK /\ ServiceInv /\ OneListen /\ ArrivedOK
      /\ Filed(execResponses) /\ JobsOK /\ CallOK(tx)
      /\ call \in [TxIds -> StreamState] /\ given \in [TxIds -> Seq(Nat)]
      /\ made \in [TxIds -> Nat]
      /\ user \in [TxIds -> {"none", "held", "awaiting", "over"}]
      /\ requested \subseteq Controls /\ jobs \in Seq(Job)
      /\ \A t \in TxIds : Len(given[t]) <= made[t]
  BY DEF NodeInv, NodeTypeOK, ServiceInv, ServiceTypeOK
<1>5. /\ Len(jobs) \in Nat \ {0} /\ jobs[1] = j
      /\ jobs' \in Seq(Job) /\ Len(jobs') = Len(jobs) - 1
      /\ \A i \in 1 .. Len(jobs') : jobs'[i] = jobs[i + 1]
  BY <1>1, <1>3, <1>4
<1>6. /\ j.outcome \in Outcome /\ j.seq \in Nat
      /\ IsFor(jobs[1], tx) /\ Brings(j, tx)
  <2>1. j \in [user : Loops, outcome : Outcome, seq : Nat]
    BY <1>1, JobKinds
  <2>2. IsFor(jobs[1], tx)
    BY <1>1, <1>2, <1>5 DEF IsFor
  <2>3. 1 \in 1 .. Len(jobs)
    BY <1>5
  <2>4. Brings(jobs[1], tx)
    BY <1>4, <2>2, <2>3 DEF JobsOK
  <2> QED
    BY <1>5, <2>1, <2>2, <2>4
<1>7. /\ user[tx] = "awaiting" /\ call[tx] = "open" /\ execResolvers[tx] = NoIndex
  BY <1>4, <1>6 DEF Brings, CallOK
\* No other continuation is for this call.
<1>8. ASSUME NEW t \in TxIds, NEW i \in 1 .. Len(jobs'), IsFor(jobs'[i], t)
      PROVE  t # tx /\ i + 1 \in 1 .. Len(jobs) /\ Brings(jobs'[i], t)
  <2>1. /\ 1 \in 1 .. Len(jobs) /\ i + 1 \in 1 .. Len(jobs) /\ i + 1 # 1
        /\ jobs'[i] = jobs[i + 1]
    BY <1>5
  <2>2. IsFor(jobs[i + 1], t)
    BY <1>8, <2>1
  <2>3. Brings(jobs[i + 1], t)
    BY <1>4, <2>1, <2>2 DEF JobsOK
  <2>4. t # tx
    BY <1>4, <1>6, <2>1, <2>2 DEF JobsOK
  <2> QED
    BY <2>1, <2>3, <2>4
\* What has to be shown of the three outcomes.
<1>9. ASSUME Promises, CallOK(tx)',
             call' = [call EXCEPT ![tx] = call'[tx]],
             call'[tx] \in {"open", "returned", "raised"},
             given' \in [TxIds -> Seq(Nat)],
             \A t \in TxIds : Len(given'[t]) <= made[t],
             \A t \in TxIds \ {tx} : given'[t] = given[t],
             \A p : Honest(p) => Honest(p)'
      PROVE  NodeInv' /\ Promises
  <2>1. /\ call' \in [TxIds -> StreamState]
        /\ \A t \in TxIds : call'[t] = "none" => call[t] = "none"
    BY <1>4, <1>9 DEF StreamState
  <2>2. ServiceInv'
    BY <1>3, <1>4, <1>9, <2>1, CallersKeep
  <2>3. NodeTypeOK' /\ OneListen'
    BY <1>3, <1>4, <1>5, <2>2 DEF NodeTypeOK, ServiceInv, OneListen
  <2>4. \A t \in TxIds \ {tx} : CallOK(t)' /\ \A k : Brings(k, t)' <=> Brings(k, t)
    BY <1>3, <1>4, <1>9, OthersStay
  <2>5. JobsOK'
    <3>1. \A t \in TxIds : \A i \in 1 .. Len(jobs') :
             IsFor(jobs'[i], t) => \E k : k = jobs'[i] /\ Brings(k, t)'
      BY <1>8, <2>4
    <3>2. \A t \in TxIds : \A i, k \in 1 .. Len(jobs') :
             IsFor(jobs'[i], t) /\ IsFor(jobs'[k], t) => i = k
      <4> SUFFICES ASSUME NEW t \in TxIds, NEW i \in 1 .. Len(jobs'),
                          NEW k \in 1 .. Len(jobs'),
                          IsFor(jobs'[i], t), IsFor(jobs'[k], t)
                   PROVE  i = k
        OBVIOUS
      <4>1. /\ i + 1 \in 1 .. Len(jobs) /\ k + 1 \in 1 .. Len(jobs)
            /\ IsFor(jobs[i + 1], t) /\ IsFor(jobs[k + 1], t)
        BY <1>5
      <4>2. i + 1 = k + 1
        BY <1>4, <4>1 DEF JobsOK
      <4> QED
        BY <4>2
    <3> QED
      BY <3>1, <3>2 DEF JobsOK, IsFor, Brings, EndOf, Complete
  <2>6. ArrivedOK' /\ Filed(execResponses)'
    BY <1>3, <1>4 DEF ArrivedOK, Filed, Honest, EndOf
  <2> QED
    BY <1>9, <2>2, <2>3, <2>4, <2>5, <2>6 DEF NodeInv
<1>10. \A p : Honest(p) => Honest(p)'
  BY <1>3 DEF Honest, EndOf
<1>11. CASE j.outcome = "done"
  <2>1. /\ Complete(tx) /\ idx[tx] = Len(given[tx])
        /\ call' = [call EXCEPT ![tx] = "returned"] /\ given' = given
        /\ user'[tx] = "over"
    BY <1>3, <1>4, <1>6, <1>11 DEF Brings
  <2>2. Promises
    <3>1. UNCHANGED Promised!streamVars
      BY <1>3, <1>4, <2>1, ReturnKeeps
    <3> QED
      BY <3>1 DEF Promises
  <2>3. CallOK(tx)'
    BY <1>3, <1>4, <1>7, <2>1 DEF CallOK
  <2> QED
    BY <1>4, <1>9, <1>10, <2>1, <2>2, <2>3
<1>12. CASE j.outcome # "done"
  <2>1. /\ j.outcome = IF EndOf(tx, j.seq) = "failure" THEN "failure" ELSE "value"
        /\ j.seq = Len(given[tx]) /\ j.seq < made[tx]
        /\ idx[tx] = j.seq + 1
        /\ finished[tx] => EndOf(tx, j.seq) = "finish"
    BY <1>6, <1>12 DEF Brings
  <2>2. IF EndOf(tx, j.seq) = "failure"
        THEN call' = [call EXCEPT ![tx] = "raised"] /\ given' = given
        ELSE given' = [given EXCEPT ![tx] = Append(@, j.seq)] /\ call' = call
    BY <1>3, <1>4, <2>1
  <2>3. /\ Promised!Consume(tx)
        /\ EndOf(tx, j.seq) = "finish" => Complete(tx)'
        /\ given' \in [TxIds -> Seq(Nat)]
        /\ \A t \in TxIds : Len(given'[t]) <= made[t]
    <3> DEFINE n == j.seq
    <3>1. n \in Nat /\ n = Len(given[tx]) /\ n < made[tx]
      BY <1>6, <2>1
    <3>2. IF EndOf(tx, n) = "failure"
          THEN call' = [call EXCEPT ![tx] = "raised"] /\ given' = given
          ELSE given' = [given EXCEPT ![tx] = Append(@, n)] /\ call' = call
      BY <2>2
    <3> HIDE DEF n
    <3>3. /\ Promised!Consume(tx)
          /\ EndOf(tx, n) = "finish" => Complete(tx)'
          /\ given' \in [TxIds -> Seq(Nat)]
          /\ \A t \in TxIds : Len(given'[t]) <= made[t]
      BY <1>3, <1>4, <1>7, <3>1, <3>2, ConsumeKeeps
    <3> QED
      BY <3>3 DEF n
  <2>4. Promises
    BY <2>3 DEF Promises, Promised!StreamsNext
  <2>5. CallOK(tx)'
    <3>1. CASE EndOf(tx, j.seq) = "failure"
      BY <1>3, <1>4, <1>7, <2>1, <2>2, <3>1 DEF CallOK
    <3>2. CASE EndOf(tx, j.seq) # "failure"
      <4>1. /\ user'[tx] = "held" /\ call' = call
            /\ Len(given'[tx]) = j.seq + 1
        <5>1. given[tx] \in Seq(Nat)
          BY <1>4
        <5>2. Len(Append(given[tx], j.seq)) = Len(given[tx]) + 1
          BY <5>1
        <5> QED
          BY <1>3, <1>4, <2>1, <2>2, <3>2, <5>2
      <4> QED
        BY <1>3, <1>7, <2>1, <2>3, <4>1 DEF CallOK
    <3> QED
      BY <3>1, <3>2
  <2>6. /\ call' = [call EXCEPT ![tx] = call'[tx]]
        /\ call'[tx] \in {"open", "returned", "raised"}
        /\ \A t \in TxIds \ {tx} : given'[t] = given[t]
    BY <1>4, <1>7, <2>2
  <2> QED
    BY <1>9, <1>10, <2>3, <2>4, <2>5, <2>6
<1> QED
  BY <1>11, <1>12

\* A packet comes in and finds its resolver, or is buffered.
LEMMA OnOKKeeps ==
    ASSUME NodeInv, OnOK
    PROVE  NodeInv' /\ Promises
<1>1. PICK p \in Packet \cup {NoPacket} :
        /\ jobs = <<>> /\ arrived # <<>> /\ p = Head(arrived)
        /\ \/ listenTimeout(p)
           \/ p # NoPacket /\ (registerResponse(p) \/ registerExecResponse(p))
  BY DEF OnOK, NodeInv, NodeTypeOK
<1>2. /\ arrived' = Tail(arrived) /\ listener' = FALSE /\ waiting' = <<>>
      /\ UNCHANGED <<made, ended, requested, mail, call, given, busy, alive, main,
                     threads>>
  BY DEF OnOK, serviceVars, callVars, lifeVars
<1>3. /\ NodeTypeOK /\ ServiceInv /\ OneListen /\ ArrivedOK
      /\ Filed(execResponses)
      /\ user \in [TxIds -> {"none", "held", "awaiting", "over"}]
      /\ idx \in [TxIds -> Nat] /\ finished \in [TxIds -> BOOLEAN]
      /\ execResolvers \in [TxIds -> Nat \cup {NoIndex}]
      /\ arrived \in Seq(Packet \cup {NoPacket}) /\ busy \in Nat
      /\ listener \in BOOLEAN /\ waiting \in Seq(Loops)
      /\ resolvers \subseteq Controls
      /\ given \in [TxIds -> Seq(Nat)] /\ made \in [TxIds -> Nat]
      /\ \A t \in TxIds : CallOK(t)
  BY DEF NodeInv, NodeTypeOK, ServiceTypeOK
<1>4. /\ Len(arrived) \in Nat \ {0} /\ p = arrived[1]
      /\ arrived' \in Seq(Packet \cup {NoPacket})
      /\ Len(arrived') = Len(arrived) - 1
      /\ \A i \in 1 .. Len(arrived') : arrived'[i] = arrived[i + 1]
  BY <1>1, <1>2, <1>3
<1>5. p # NoPacket => p \in Packet /\ Honest(p)
  <2>1. 1 \in 1 .. Len(arrived)
    BY <1>4
  <2> QED
    BY <1>3, <1>4, <2>1 DEF ArrivedOK
<1>6. OneListen'
  <2>1. busy + Len(arrived) = 1
    BY <1>3, <1>4 DEF OneListen
  <2> QED
    BY <1>2, <1>3, <1>4, <2>1 DEF OneListen
<1>7. \A i \in 1 .. Len(arrived') : arrived'[i] # NoPacket => Honest(arrived'[i])
  <2> SUFFICES ASSUME NEW i \in 1 .. Len(arrived')
               PROVE  /\ i + 1 \in 1 .. Len(arrived)
                      /\ arrived'[i] = arrived[i + 1]
    BY <1>3 DEF ArrivedOK
  <2> QED
    BY <1>4
<1>8. ServiceInv' /\ Promises
  <2>1. ServiceInv'
    BY <1>2, <1>3, CallersKeep DEF ServiceInv, ServiceTypeOK
  <2>2. Promises
    BY <1>2 DEF Promises, Promised!streamVars, Complete
  <2> QED
    BY <2>1, <2>2
<1>9. /\ WaitingLoops \in Seq(Job)
      /\ \A i \in 1 .. Len(WaitingLoops) :
            WaitingLoops[i] = [loop |-> waiting[i]]
  BY <1>3, WaitingLoopsType
<1>10. \A i \in 1 .. Len(WaitingLoops) : \A t : ~IsFor(WaitingLoops[i], t)
  <2>1. \A l : "user" \notin DOMAIN [loop |-> l]
    OBVIOUS
  <2> QED
    BY <1>9, <2>1 DEF IsFor
\* What has to be shown of the ways a packet can go.
<1>11. ASSUME user' = user, idx' = idx, finished' \in [TxIds -> BOOLEAN],
              execResolvers' \in [TxIds -> Nat \cup {NoIndex}],
              resolvers' \subseteq Controls, Filed(execResponses'),
              jobs' \in Seq(Job), JobsOK', \A t \in TxIds : CallOK(t)'
       PROVE  NodeInv' /\ Promises
  <2>1. waiting' \in Seq(Loops) /\ listener' \in BOOLEAN
    <3>1. <<>> \in Seq(Loops)
      OBVIOUS
    <3> QED
      BY <1>2, <3>1
  <2>2. NodeTypeOK'
    BY <1>2, <1>3, <1>4, <1>8, <1>11, <2>1 DEF NodeTypeOK, ServiceInv, Filed
  <2> QED
    BY <1>2, <1>6, <1>7, <1>8, <1>11, <2>2, QuietStep
\* Only loops are queued.
<1>12. ASSUME jobs' = WaitingLoops, user' = user, idx' = idx,
              finished' = finished, execResolvers' = execResolvers,
              resolvers' \subseteq Controls, Filed(execResponses')
       PROVE  NodeInv' /\ Promises
  <2>1. JobsOK'
    <3>1. \A t \in TxIds : \A i \in 1 .. Len(jobs') : ~IsFor(jobs'[i], t)
      BY <1>10, <1>12
    <3> QED
      BY <3>1 DEF JobsOK, IsFor
  <2>2. \A t \in TxIds : CallOK(t)'
    BY <1>2, <1>12, CallsStay
  <2> QED
    BY <1>3, <1>9, <1>11, <1>12, <2>1, <2>2
\* One continuation of a user comes first.
<1>13. ASSUME NEW j \in Job, jobs' = <<j>> \o WaitingLoops,
              \A t \in TxIds : IsFor(j, t) => Brings(j, t)'
       PROVE  JobsOK' /\ jobs' \in Seq(Job)
  <2>1. /\ jobs' \in Seq(Job) /\ jobs'[1] = j
        /\ Len(WaitingLoops) \in Nat /\ Len(jobs') = Len(WaitingLoops) + 1
        /\ \A i \in 1 .. Len(WaitingLoops) : jobs'[i + 1] = WaitingLoops[i]
    <3>1. Len(WaitingLoops) \in Nat
      BY <1>9
    <3> QED
      BY <1>9, <1>13, <3>1, JobFirst
  <2>2. ASSUME NEW t \in TxIds, NEW i \in 1 .. Len(jobs'), IsFor(jobs'[i], t)
        PROVE  i = 1
    <3> SUFFICES ASSUME i # 1 PROVE FALSE
      OBVIOUS
    <3>1. PICK k \in 1 .. Len(WaitingLoops) : i = k + 1
      BY <2>1
    <3>2. jobs'[i] = WaitingLoops[k]
      BY <2>1, <3>1
    <3> QED
      BY <1>10, <2>2, <3>2
  <2>3. \A t \in TxIds : \A i \in 1 .. Len(jobs') :
           IsFor(jobs'[i], t) => \E k : k = jobs'[i] /\ Brings(k, t)'
    BY <1>13, <2>1, <2>2
  <2>4. \A t \in TxIds : \A i, k \in 1 .. Len(jobs') :
           IsFor(jobs'[i], t) /\ IsFor(jobs'[k], t) => i = k
    BY <2>2
  <2> QED
    BY <2>1, <2>3, <2>4 DEF JobsOK, IsFor, Brings, EndOf, Complete
<1>14. CASE listenTimeout(p)
  BY <1>3, <1>12, <1>14 DEF listenTimeout, iterVars
<1>15. CASE p # NoPacket /\ registerResponse(p)
  <2>1. /\ p.tx \in resolvers /\ resolvers' = resolvers \ {p.tx}
        /\ jobs' = <<UserJob(p.tx, "value", p.seq)>> \o WaitingLoops
        /\ UNCHANGED <<user, idx, finished, execResolvers, execResponses>>
    BY <1>15 DEF registerResponse, iterVars
  <2>2. p.tx \in Controls /\ p.seq \in Nat
    BY <1>3, <1>5, <1>15, <2>1 DEF Packet
  <2>3. PICK j \in Job :
          /\ jobs' = <<j>> \o WaitingLoops
          /\ \A t \in TxIds : ~IsFor(j, t)
    <3>1. PICK j \in Job :
            j = UserJob(p.tx, "value", p.seq) /\ \A t \in TxIds : ~IsFor(j, t)
      BY <2>2, UserJobIsFor, TxIdsAssumption DEF Loops, Outcome
    <3> QED
      BY <2>1, <3>1
  <2>4. \A t \in TxIds : CallOK(t)'
    BY <1>2, <2>1, CallsStay
  <2> QED
    BY <1>3, <1>11, <1>13, <2>1, <2>3, <2>4
<1>16. CASE p # NoPacket /\ registerExecResponse(p)
  <2> DEFINE tx == p.tx
  <2>1. /\ tx \in TxIds /\ p \in Packet /\ p.seq \in Nat
        /\ p.seq < made[tx] /\ p.end = EndOf(tx, p.seq)
        /\ UNCHANGED <<user, idx, resolvers>>
    BY <1>5, <1>16 DEF registerExecResponse, Honest, Packet
  <2>2. CASE execResolvers[tx] = p.seq
    <3>1. /\ execResolvers' = [execResolvers EXCEPT ![tx] = NoIndex]
          /\ finished' = [finished EXCEPT ![tx] = p.end = "finish"]
          /\ jobs' = <<Settled(p)>> \o WaitingLoops
          /\ execResponses' = execResponses
      BY <1>16, <2>2 DEF registerExecResponse
    <3>2. PICK j \in Job :
            /\ jobs' = <<j>> \o WaitingLoops /\ j.seq = p.seq
            /\ j.outcome = IF p.end = "failure" THEN "failure" ELSE "value"
            /\ \A t \in TxIds : IsFor(j, t) <=> t = tx
      <4>1. PICK j \in Job :
              /\ j = Settled(p) /\ j.seq = p.seq
              /\ j.outcome = IF p.end = "failure" THEN "failure" ELSE "value"
              /\ \A t \in TxIds : IsFor(j, t) <=> t = tx
        BY <2>1, UserJobIsFor DEF Settled, Outcome, Loops
      <4> QED
        BY <3>1, <4>1
    <3>3. /\ user[tx] = "awaiting" /\ p.seq = Len(given[tx])
          /\ idx[tx] = p.seq + 1
      <4>1. execResolvers[tx] # NoIndex
        BY <2>1, <2>2
      <4> QED
        BY <1>3, <2>1, <2>2, <4>1 DEF CallOK
    <3>4. /\ finished' \in [TxIds -> BOOLEAN] /\ finished'[tx] = (p.end = "finish")
          /\ execResolvers' \in [TxIds -> Nat \cup {NoIndex}]
          /\ execResolvers'[tx] = NoIndex
          /\ EndOf(tx, p.seq)' = EndOf(tx, p.seq)
      BY <1>2, <1>3, <2>1, <3>1 DEF EndOf
    <3>5. Brings(j, tx)'
      BY <1>2, <2>1, <3>2, <3>3, <3>4 DEF Brings, EndOf
    <3>6. JobsOK' /\ jobs' \in Seq(Job)
      BY <1>13, <3>2, <3>5
    <3>7. CallOK(tx)'
      BY <1>2, <1>3, <2>1, <3>3, <3>4 DEF CallOK
    <3>8. \A t \in TxIds \ {tx} : CallOK(t)'
      BY <1>2, <1>3, <2>1, <3>1, OthersStay
    <3> QED
      BY <1>3, <1>11, <2>1, <3>1, <3>4, <3>6, <3>7, <3>8
  <2>3. CASE execResolvers[tx] # p.seq
    <3>1. /\ execResponses' = [execResponses EXCEPT ![tx] = @ \cup {p}]
          /\ jobs' = WaitingLoops
          /\ UNCHANGED <<execResolvers, finished>>
      BY <1>16, <2>3 DEF registerExecResponse
    <3>2. Filed(execResponses')
      BY <1>3, <1>5, <1>16, <2>1, <3>1 DEF Filed
    <3> QED
      BY <1>3, <1>12, <2>1, <3>1, <3>2
  <2> QED
    BY <2>2, <2>3
<1> QED
  BY <1>1, <1>14, <1>15, <1>16

-----------------------------------------------------------------------------
(* Theorems.                                                               *)

\* Every step keeps the invariant and is one of Streams or a stutter.
LEMMA NodeSteps ==
    ASSUME NodeInv, [NodeNext]_nodeVars
    PROVE  NodeInv' /\ Promises
<1>1. CASE RunJob
  BY <1>1, LoopsKeep, UserGoesOnKeeps, UserIsToldKeeps DEF RunJob
<1>2. ASSUME NEW tx \in TxIds, callIter(tx) \/ next(tx) \/ Leave(tx)
      PROVE  NodeInv' /\ Promises
  BY <1>2, UserKeeps, NextKeeps
<1>3. CASE UNCHANGED nodeVars
  <2>1. UNCHANGED <<made, ended, requested, mail, call, given, user, idx,
                    finished, execResolvers, execResponses, resolvers, listener,
                    waiting, busy, arrived, jobs, alive, main, threads>>
    BY <1>3 DEF nodeVars, iterVars, loopVars, lifeVars
  <2>2. ServiceInv'
    BY <2>1, CallersKeep DEF NodeInv, ServiceInv, ServiceTypeOK
  <2>3. NodeTypeOK' /\ OneListen'
    BY <2>1, <2>2 DEF NodeInv, NodeTypeOK, ServiceInv, OneListen
  <2>4. Promises /\ JobsOK' /\ \A tx \in TxIds : CallOK(tx)'
    BY <2>1, CallsStay
  <2> QED
    BY <2>1, <2>2, <2>3, <2>4, QuietStep DEF NodeInv, ArrivedOK
<1> QED
  BY <1>1, <1>2, <1>3, ServingKeeps, ExecuteKeeps, OnOKKeeps, ControlsKeep
     DEF NodeNext

\* The variables of NodeRuntime always have their types.
THEOREM NodeTypeCorrect == NodeSpec => []NodeTypeOK
<1>1. NodeInit => NodeInv
  BY NodeStarts
<1>2. NodeInv /\ [NodeNext]_nodeVars => NodeInv'
  BY NodeSteps
<1>3. NodeInv => NodeTypeOK
  BY DEF NodeInv
<1> QED
  BY <1>1, <1>2, <1>3, PTL DEF NodeSpec

\* However many calls wait, one listen() runs, and exactly while there is a
\* listener promise that its packet will resolve.
THEOREM OneListenRuns == NodeSpec => []OneListen
<1>1. NodeInit => NodeInv
  BY NodeStarts
<1>2. NodeInv /\ [NodeNext]_nodeVars => NodeInv'
  BY NodeSteps
<1>3. NodeInv => OneListen
  BY DEF NodeInv
<1> QED
  BY <1>1, <1>2, <1>3, PTL DEF NodeSpec

\* Whether a reply is there before it is asked for or comes after: each user
\* is given the values of its call in order, each once, its call returns after
\* the reply with the finish flag and raises at a failure.
THEOREM NodeRuntimeKeepsPromise == NodeSpec => NodeKeepsPromise
<1>1. NodeInit => NodeInv /\ Promised!StreamsInit
  BY NodeStarts
<1>2. NodeInv /\ [NodeNext]_nodeVars
        => NodeInv' /\ [Promised!StreamsNext]_Promised!streamVars
  BY NodeSteps DEF Promises
<1> QED
  BY <1>1, <1>2, PTL DEF NodeSpec, NodeKeepsPromise, Promised!StreamsSpec

-----------------------------------------------------------------------------
(* Loops for resolvers.                                                    *)

\* A loop for l waits for the listener or is queued.
Waits(w, l) == \E i \in DOMAIN w : w[i] = l
Queued(js, l) == \E i \in DOMAIN js : "loop" \in DOMAIN js[i] /\ js[i].loop = l

LEMMA WaitsAppend ==
    ASSUME NEW w \in Seq(Loops), NEW k \in Loops
    PROVE  \A l : Waits(Append(w, k), l) <=> Waits(w, l) \/ l = k
<1>1. /\ DOMAIN w = 1 .. Len(w) /\ Len(w) \in Nat
      /\ DOMAIN Append(w, k) = 1 .. Len(w) + 1
      /\ \A i \in 1 .. Len(w) : Append(w, k)[i] = w[i]
      /\ Append(w, k)[Len(w) + 1] = k
  OBVIOUS
<1> QED
  BY <1>1 DEF Waits

LEMMA QueuedAppend ==
    ASSUME NEW js \in Seq(Job), NEW j \in Job
    PROVE  \A l : Queued(js, l) => Queued(Append(js, j), l)
<1>1. /\ DOMAIN js = 1 .. Len(js) /\ Len(js) \in Nat
      /\ DOMAIN Append(js, j) = 1 .. Len(js) + 1
      /\ \A i \in 1 .. Len(js) : Append(js, j)[i] = js[i]
  OBVIOUS
<1> QED
  BY <1>1 DEF Queued

LEMMA QueuedTail ==
    ASSUME NEW js \in Seq(Job), js # <<>>
    PROVE  /\ \A l : Queued(js, l) =>
                 Queued(Tail(js), l) \/ ("loop" \in DOMAIN Head(js) /\ l = Head(js).loop)
           /\ Head(js) \in Job
           /\ "user" \in DOMAIN Head(js) => "loop" \notin DOMAIN Head(js)
<1>1. /\ DOMAIN js = 1 .. Len(js) /\ Len(js) \in Nat \ {0} /\ Head(js) = js[1]
      /\ DOMAIN Tail(js) = 1 .. Len(js) - 1
      /\ \A i \in 1 .. Len(js) - 1 : Tail(js)[i] = js[i + 1]
      /\ Head(js) \in Job
  OBVIOUS
<1>2. \A i \in DOMAIN js : i # 1 => i - 1 \in DOMAIN Tail(js) /\ Tail(js)[i - 1] = js[i]
  BY <1>1
<1>3. \A l : Queued(js, l) =>
         Queued(Tail(js), l) \/ ("loop" \in DOMAIN Head(js) /\ l = Head(js).loop)
  BY <1>1, <1>2 DEF Queued
<1>4. "user" \in DOMAIN Head(js) => "loop" \notin DOMAIN Head(js)
  BY <1>1, JobKinds
<1> QED
  BY <1>1, <1>3, <1>4

\* A continuation before others loses none of them.
LEMMA QueuedAfterFirst ==
    ASSUME NEW s \in Seq(Job), NEW j \in Job, NEW l, Queued(s, l)
    PROVE  Queued(<<j>> \o s, l)
<1>1. /\ DOMAIN s = 1 .. Len(s) /\ Len(s) \in Nat
  OBVIOUS
<1>2. PICK i \in 1 .. Len(s) : "loop" \in DOMAIN s[i] /\ s[i].loop = l
  BY <1>1 DEF Queued
<1>3. /\ <<j>> \o s \in Seq(Job)
      /\ Len(<<j>> \o s) = Len(s) + 1
      /\ (<<j>> \o s)[i + 1] = s[i]
  BY JobFirst
<1>4. i + 1 \in DOMAIN (<<j>> \o s)
  BY <1>1, <1>3
<1> QED
  BY <1>2, <1>3, <1>4 DEF Queued

\* When the listener's promise is resolved, the loops that waited are queued.
LEMMA WaitersQueued ==
    ASSUME waiting \in Seq(Loops)
    PROVE  /\ WaitingLoops \in Seq(Job)
           /\ \A l : Waits(waiting, l) => Queued(WaitingLoops, l)
           /\ \A l, j : j \in Job /\ Waits(waiting, l)
                        => Queued(<<j>> \o WaitingLoops, l)
<1>1. /\ WaitingLoops \in Seq(Job) /\ Len(WaitingLoops) = Len(waiting)
      /\ \A i \in 1 .. Len(WaitingLoops) : WaitingLoops[i] = [loop |-> waiting[i]]
  BY WaitingLoopsType
<1>2. DOMAIN WaitingLoops = 1 .. Len(WaitingLoops) /\ DOMAIN waiting = 1 .. Len(waiting)
      /\ Len(waiting) \in Nat
  BY <1>1
<1>3. ASSUME NEW l, Waits(waiting, l)
      PROVE  Queued(WaitingLoops, l)
  <2>1. PICK i \in 1 .. Len(waiting) : waiting[i] = l
    BY <1>2, <1>3 DEF Waits
  <2>2. i \in DOMAIN WaitingLoops /\ WaitingLoops[i] = [loop |-> l]
    BY <1>1, <1>2, <2>1
  <2>3. "loop" \in DOMAIN WaitingLoops[i] /\ WaitingLoops[i].loop = l
    BY <2>2
  <2> QED
    BY <2>2, <2>3 DEF Queued
<1> QED
  BY <1>1, <1>3, QueuedAfterFirst

\* The loops of a resolver keep coming.
LEMMA LoopsCome ==
    ASSUME NodeInv, ResolverHasLoop, [NodeNext]_nodeVars
    PROVE  ResolverHasLoop'
<1> DEFINE Coming(l) == Waits(waiting, l) \/ Queued(jobs, l)
           Comes(l) == Waits(waiting', l) \/ Queued(jobs', l)
<1>t. /\ waiting \in Seq(Loops) /\ jobs \in Seq(Job)
      /\ resolvers \subseteq Controls
      /\ execResolvers \in [TxIds -> Nat \cup {NoIndex}]
      /\ TxIds \cap Controls = {} /\ Loops = TxIds \cup Controls
      /\ execResponses \in [TxIds -> SUBSET Packet]
      /\ arrived \in Seq(Packet \cup {NoPacket})
  BY TxIdsAssumption DEF NodeInv, NodeTypeOK, Loops
<1>c. \A l : Coming(l) <=> LoopIsComing(l)
  BY DEF LoopIsComing, Waits, Queued
<1>d. \A l : Comes(l) => LoopIsComing(l)'
  BY DEF LoopIsComing, Waits, Queued
<1>h. /\ \A tx \in TxIds : execResolvers[tx] # NoIndex => Coming(tx)
      /\ \A c \in resolvers : Coming(c)
  BY <1>c DEF ResolverHasLoop
<1>g. SUFFICES /\ \A tx \in TxIds : execResolvers'[tx] # NoIndex => Comes(tx)
               /\ \A c \in resolvers' : Comes(c)
  BY <1>d DEF ResolverHasLoop
<1>1. CASE UNCHANGED <<waiting, jobs, resolvers, execResolvers>>
  BY <1>h, <1>1
<1>2. CASE Serving \/ Execute \/ UNCHANGED nodeVars
  BY <1>1, <1>2 DEF Serving, Execute, nodeVars, iterVars, loopVars
<1>3. CASE OnOK
  <2> DEFINE p == Head(arrived)
  <2>1. jobs = <<>> /\ arrived # <<>>
    BY <1>3 DEF OnOK
  <2>2. \A l : Coming(l) => Waits(waiting, l)
    BY <2>1 DEF Queued
  <2>3. p \in Packet \cup {NoPacket}
    BY <1>t, <2>1
  <2>4. /\ \E j \in Job : jobs' \in {WaitingLoops, <<j>> \o WaitingLoops}
        /\ resolvers' \subseteq resolvers
        /\ \A tx \in TxIds : execResolvers'[tx] \in {execResolvers[tx], NoIndex}
    <3>1. CASE p = NoPacket
      <4>1. jobs' = WaitingLoops /\ UNCHANGED <<resolvers, execResolvers>>
        BY <1>3, <3>1 DEF OnOK, listenTimeout, iterVars
      <4>2. [loop |-> "connect"] \in Job
        BY DEF Job, Loops, Controls
      <4> QED
        BY <4>1, <4>2
    <3>2. CASE p # NoPacket /\ registerResponse(p)
      <4>1. UserJob(p.tx, "value", p.seq) \in Job
        BY <2>3, <3>2 DEF UserJob, Job, Packet, Loops, Outcome
      <4> QED
        BY <3>2, <4>1 DEF registerResponse, iterVars
    <3>3. CASE p # NoPacket /\ registerExecResponse(p)
      <4>1. Settled(p) \in Job
        BY <2>3, <3>3, SettledType
      <4> QED
        BY <1>t, <3>3, <4>1 DEF registerExecResponse
    <3> QED
      BY <1>3, <3>1, <3>2, <3>3 DEF OnOK
  <2>5. ASSUME NEW l, Coming(l)
        PROVE  Comes(l)
    <3>1. Waits(waiting, l)
      BY <2>2, <2>5
    <3>2. PICK j \in Job : jobs' = WaitingLoops \/ jobs' = <<j>> \o WaitingLoops
      BY <2>4
    <3>3. Queued(jobs', l)
      BY <1>t, <3>1, <3>2, WaitersQueued
    <3> QED
      BY <3>3
  <2> HIDE DEF Coming, Comes
  <2> QED
    BY <1>h, <2>4, <2>5
\* A job that was the user's, or a loop that nobody needs or that waits again.
<1>4. ASSUME jobs # <<>>, jobs' = Tail(jobs), UNCHANGED <<resolvers, execResolvers>>,
             \/ "user" \in DOMAIN Head(jobs) /\ waiting' = waiting
             \/ waiting' = Append(waiting, Head(jobs).loop) /\ Head(jobs).loop \in Loops
             \/ /\ waiting' = waiting
                /\ Head(jobs).loop \in TxIds => execResolvers[Head(jobs).loop] = NoIndex
                /\ Head(jobs).loop \notin resolvers
      PROVE  /\ \A tx \in TxIds : execResolvers'[tx] # NoIndex => Comes(tx)
             /\ \A c \in resolvers' : Comes(c)
  <2>1. /\ \A l : Queued(jobs, l) =>
              Queued(jobs', l) \/ ("loop" \in DOMAIN Head(jobs) /\ l = Head(jobs).loop)
        /\ "user" \in DOMAIN Head(jobs) => "loop" \notin DOMAIN Head(jobs)
    BY <1>t, <1>4, QueuedTail
  <2>2. CASE "user" \in DOMAIN Head(jobs) /\ waiting' = waiting
    BY <1>h, <1>4, <2>1, <2>2
  <2>3. CASE waiting' = Append(waiting, Head(jobs).loop) /\ Head(jobs).loop \in Loops
    <3>1. \A l : Waits(waiting', l) <=> Waits(waiting, l) \/ l = Head(jobs).loop
      BY <1>t, <2>3, WaitsAppend
    <3> QED
      BY <1>h, <1>4, <2>1, <3>1
  <2>4. CASE /\ waiting' = waiting
             /\ Head(jobs).loop \in TxIds => execResolvers[Head(jobs).loop] = NoIndex
             /\ Head(jobs).loop \notin resolvers
    BY <1>h, <1>4, <2>1, <2>4
  <2> QED
    BY <1>4, <2>2, <2>3, <2>4
<1>5. CASE RunJob
  <2>1. CASE ExecLoop
    BY <1>4, <1>t, <2>1 DEF ExecLoop, NextJobIs, AwaitListen, iterVars, loopVars
  <2>2. CASE ControlLoop
    BY <1>4, <1>t, <2>2 DEF ControlLoop, NextJobIs, AwaitListen, iterVars, loopVars
  <2>3. CASE UserGoesOn
    BY <1>4, <2>3 DEF UserGoesOn, NextJobIs, loopVars
  <2>4. CASE UserIsTold
    BY <1>4, <2>4 DEF UserIsTold, NextJobIs, iterVars, loopVars
  <2> QED
    BY <1>5, <2>1, <2>2, <2>3, <2>4 DEF RunJob
<1>6. CASE start \/ stop
  <2>1. CASE UNCHANGED <<waiting, jobs, resolvers, execResolvers>>
    BY <1>1, <2>1
  <2>2. ASSUME NEW c \in Controls, NEW m, Request(c, m)
        PROVE  /\ \A tx \in TxIds : execResolvers'[tx] # NoIndex => Comes(tx)
               /\ \A d \in resolvers' : Comes(d)
    <3>1. /\ waiting' = Append(waiting, c) /\ UNCHANGED <<jobs, execResolvers>>
          /\ resolvers' = resolvers \cup {c}
      BY <2>2 DEF Request, AwaitListen, iterVars
    <3>2. \A l : Waits(waiting', l) <=> Waits(waiting, l) \/ l = c
      BY <1>t, <3>1, WaitsAppend
    <3> QED
      BY <1>h, <3>1, <3>2
  <2> QED
    BY <1>6, <2>1, <2>2 DEF start, stop, Controls, iterVars, loopVars
<1>7. ASSUME NEW tx \in TxIds, callIter(tx) \/ next(tx) \/ Leave(tx)
      PROVE  /\ \A t \in TxIds : execResolvers'[t] # NoIndex => Comes(t)
             /\ \A c \in resolvers' : Comes(c)
  <2>1. CASE callIter(tx) \/ Leave(tx)
    BY <1>1, <2>1 DEF callIter, Leave, loopVars
  <2>2. CASE next(tx) /\ (NextDone(tx) \/ NextBuffered(tx))
    <3>1. UNCHANGED <<waiting, resolvers, execResolvers>>
      BY <2>2 DEF next, NextDone, NextBuffered, loopVars
    <3>2. \E j \in Job : jobs' = Append(jobs, j)
      <4>1. CASE NextDone(tx)
        <5>1. UserJob(tx, "done", 0) \in Job
          BY DEF UserJob, Job, Loops, Outcome
        <5> QED
          BY <4>1, <5>1 DEF NextDone
      <4>2. CASE NextBuffered(tx)
        <5>1. PICK p \in execResponses[tx] : jobs' = Append(jobs, Settled(p))
          BY <4>2 DEF NextBuffered
        <5>2. Settled(p) \in Job
          BY <1>t, SettledType
        <5> QED
          BY <5>1, <5>2
      <4> QED
        BY <2>2, <4>1, <4>2
    <3>3. \A l : Queued(jobs, l) => Queued(jobs', l)
      BY <1>t, <3>2, QueuedAppend
    <3> QED
      BY <1>h, <3>1, <3>3
  <2>3. CASE next(tx) /\ NextListens(tx)
    <3>1. /\ waiting' = Append(waiting, tx) /\ UNCHANGED <<jobs, resolvers>>
          /\ execResolvers' = [execResolvers EXCEPT ![tx] = idx[tx]]
      BY <2>3 DEF next, NextListens, AwaitListen
    <3>2. \A l : Waits(waiting', l) <=> Waits(waiting, l) \/ l = tx
      BY <1>t, <3>1, WaitsAppend
    <3> QED
      BY <1>t, <1>h, <3>1, <3>2
  <2> QED
    BY <1>7, <2>1, <2>2, <2>3 DEF next
<1> QED
  BY <1>2, <1>3, <1>5, <1>6, <1>7 DEF NodeNext

-----------------------------------------------------------------------------
(* Where the replies are that a call has not asked for.                    *)

InArrived(tx, n) == {i \in DOMAIN arrived : ReplyAt(arrived[i], tx, n)}
InBuffer(tx, n) == {p \in execResponses[tx] : ReplyAt(p, tx, n)}

PacketInv ==
    \A tx \in TxIds :
        /\ \A n \in Nat : n >= idx[tx] /\ n < made[tx] =>
              OneOf(InMail(tx, n), InArrived(tx, n), InBuffer(tx, n))
        /\ \A p \in execResponses[tx] : p.seq # execResolvers[tx]

\* PacketInv after a step, in terms of the state after it.
LEMMA PacketsAfter ==
    ASSUME \A tx \in TxIds :
        /\ \A n \in Nat : n >= idx'[tx] /\ n < made'[tx] =>
              OneOf(InMail(tx, n)', {i \in DOMAIN arrived' : ReplyAt(arrived'[i], tx, n)},
                    {p \in execResponses'[tx] : ReplyAt(p, tx, n)})
        /\ \A p \in execResponses'[tx] : p.seq # execResolvers'[tx]
    PROVE  PacketInv'
<1>1. \A tx, n : /\ InArrived(tx, n)' = {i \in DOMAIN arrived' : ReplyAt(arrived'[i], tx, n)}
                 /\ InBuffer(tx, n)' = {p \in execResponses'[tx] : ReplyAt(p, tx, n)}
  BY DEF InArrived, InBuffer, ReplyAt
<1> SUFFICES ASSUME NEW tx \in TxIds
             PROVE  /\ \A n \in Nat : n >= idx'[tx] /\ n < made'[tx] =>
                          OneOf(InMail(tx, n), InArrived(tx, n), InBuffer(tx, n))'
                    /\ \A p \in execResponses'[tx] : p.seq # execResolvers'[tx]
  BY DEF PacketInv
<1>2. ASSUME NEW n \in Nat, n >= idx'[tx], n < made'[tx]
      PROVE  OneOf(InMail(tx, n), InArrived(tx, n), InBuffer(tx, n))'
  <2>1. OneOf(InMail(tx, n)', InArrived(tx, n)', InBuffer(tx, n)')
    BY <1>1, <1>2
  <2> QED
    BY <2>1 DEF OneOf, Single
<1> QED
  BY <1>2

LEMMA PacketSteps ==
    ASSUME NodeInv, PacketInv, [NodeNext]_nodeVars
    PROVE  PacketInv'
<1>t. /\ made \in [TxIds -> Nat] /\ idx \in [TxIds -> Nat]
      /\ execResolvers \in [TxIds -> Nat \cup {NoIndex}]
      /\ execResponses \in [TxIds -> SUBSET Packet]
      /\ arrived \in Seq(Packet \cup {NoPacket}) /\ resolvers \subseteq Controls
      /\ busy \in Nat /\ ServiceInv /\ Filed(execResponses) /\ TxIds \cap Controls = {}
  BY TxIdsAssumption DEF NodeInv, NodeTypeOK, ServiceTypeOK
<1>l. Len(arrived) \in Nat /\ DOMAIN arrived = 1 .. Len(arrived)
      /\ busy + Len(arrived) <= 1
  <2>1. Len(arrived) \in Nat /\ DOMAIN arrived = 1 .. Len(arrived)
    BY <1>t
  <2> QED
    BY <2>1 DEF NodeInv, OneListen
<1>f. /\ \A tx \in TxIds, n \in Nat : n >= idx[tx] /\ n < made[tx] =>
            OneOf(InMail(tx, n), {i \in DOMAIN arrived : ReplyAt(arrived[i], tx, n)},
                  {p \in execResponses[tx] : ReplyAt(p, tx, n)})
      /\ \A tx \in TxIds : \A p \in execResponses[tx] : p.seq # execResolvers[tx]
  BY DEF PacketInv, InArrived, InBuffer
<1>1. ASSUME UNCHANGED <<mail, made, idx, execResolvers, execResponses, arrived>>
      PROVE  PacketInv'
  <2>1. \A tx, n : InMail(tx, n)' = InMail(tx, n)
    BY <1>1, MailStays
  <2> QED
    BY <1>f, <1>1, <2>1, PacketsAfter
<1>2. CASE ExecLoop \/ ControlLoop \/ UserIsTold \/ UserGoesOn \/ UNCHANGED nodeVars
  BY <1>1, <1>2
  DEF ExecLoop, ControlLoop, UserIsTold, UserGoesOn, nodeVars, iterVars, serviceVars
<1>3. CASE start \/ stop
  BY <1>1, <1>3 DEF start, stop, Request, iterVars, serviceVars
<1>4. CASE Serving
  <2>1. UNCHANGED <<call, given, idx, execResolvers, execResponses, arrived>> /\ Serve
    BY <1>4 DEF Serving, callVars, iterVars
  <2>2. ASSUME NEW tx \in TxIds, NEW n \in Nat, n >= idx[tx], n < made'[tx]
        PROVE  OneOf(InMail(tx, n)', {i \in DOMAIN arrived : ReplyAt(arrived[i], tx, n)},
                     {p \in execResponses[tx] : ReplyAt(p, tx, n)})
    <3>1. /\ n < made[tx] => InMail(tx, n)' = InMail(tx, n)
          /\ n >= made[tx] => InMail(tx, n) = {} /\ Single(InMail(tx, n)')
      BY <1>t, <2>1, <2>2, ServeFinds DEF callVars
    <3>2. CASE n < made[tx]
      BY <1>f, <2>2, <3>1, <3>2
    <3>3. CASE n >= made[tx]
      <4>1. {i \in DOMAIN arrived : ReplyAt(arrived[i], tx, n)} = {}
        BY <1>t, <1>l, <3>3 DEF ReplyAt, NodeInv, ArrivedOK, Honest
      <4>2. {p \in execResponses[tx] : ReplyAt(p, tx, n)} = {}
        BY <1>t, <3>3 DEF ReplyAt, Filed, Honest
      <4> QED
        BY <3>1, <3>3, <4>1, <4>2 DEF OneOf
    <3> QED
      BY <1>t, <3>2, <3>3
  <2> QED
    BY <1>f, <2>1, <2>2, PacketsAfter
<1>5. CASE Execute
  <2>1. /\ UNCHANGED <<made, idx, execResolvers, execResponses>> /\ busy > 0
        /\ arrived' = Append(arrived, Listened) /\ mail' = RestOfMail
    BY <1>5 DEF Execute, iterVars
  <2>2. arrived = <<>> /\ arrived' = <<Listened>>
    <3>1. Len(arrived) = 0
      BY <1>t, <1>l, <2>1
    <3>2. arrived = <<>>
      BY <1>t, <3>1
    <3> QED
      BY <2>1, <3>2
  <2>3. ASSUME NEW tx \in TxIds, NEW n \in Nat, n >= idx[tx], n < made[tx]
        PROVE  OneOf(InMail(tx, n)', {i \in DOMAIN arrived' : ReplyAt(arrived'[i], tx, n)},
                     {p \in execResponses[tx] : ReplyAt(p, tx, n)})
    <3>1. OneOf(InMail(tx, n), {}, {p \in execResponses[tx] : ReplyAt(p, tx, n)})
      <4>1. {i \in DOMAIN arrived : ReplyAt(arrived[i], tx, n)} = {}
        BY <2>2
      <4> QED
        BY <1>f, <2>3, <4>1
    <3>2. {i \in DOMAIN arrived' : ReplyAt(arrived'[i], tx, n)}
            = IF ReplyAt(Listened, tx, n) THEN {1} ELSE {}
      <4>1. DOMAIN arrived' = {1} /\ arrived'[1] = Listened
        BY <2>2
      <4> QED
        BY <4>1
    <3>3. /\ ReplyAt(Listened, tx, n) =>
               /\ InMail(tx, n) # {}
               /\ Single(InMail(tx, n)) => InMail(tx, n)' = {}
          /\ ~ReplyAt(Listened, tx, n) =>
               /\ Single(InMail(tx, n)) => Single(InMail(tx, n)')
               /\ InMail(tx, n) = {} => InMail(tx, n)' = {}
      BY <1>t, <2>1, ListenFinds
    <3> QED
      BY <3>1, <3>2, <3>3 DEF OneOf, Single
  <2> QED
    BY <1>f, <2>1, <2>3, PacketsAfter
<1>6. CASE OnOK
  <2> DEFINE p == Head(arrived)
  <2>1. UNCHANGED <<mail, made>> /\ arrived # <<>> /\ arrived' = Tail(arrived)
    BY <1>6 DEF OnOK, serviceVars
  <2>2. arrived' = <<>> /\ DOMAIN arrived = {1} /\ arrived[1] = p
        /\ p \in Packet \cup {NoPacket}
    <3>1. Len(arrived) = 1
      BY <1>t, <1>l, <2>1
    <3> QED
      BY <1>t, <1>l, <2>1, <3>1
  <2>3. \A tx, n : InMail(tx, n)' = InMail(tx, n)
    BY <2>1, MailStays
  <2>4. \A tx, n : {i \in DOMAIN arrived : ReplyAt(arrived[i], tx, n)}
                     = IF ReplyAt(p, tx, n) THEN {1} ELSE {}
    BY <2>2
  <2>5. \A tx, n : {i \in DOMAIN arrived' : ReplyAt(arrived'[i], tx, n)} = {}
    BY <2>2
  <2>6. \A tx \in TxIds, n \in Nat : n >= idx[tx] /\ n < made[tx] =>
           OneOf(InMail(tx, n), IF ReplyAt(p, tx, n) THEN {1} ELSE {},
                 {q \in execResponses[tx] : ReplyAt(q, tx, n)})
    BY <1>f, <2>4
  <2> HIDE DEF p
  <2>7. ASSUME \A tx \in TxIds, n \in Nat : n >= idx[tx] => ~ReplyAt(p, tx, n),
               UNCHANGED <<idx, execResponses>>,
               \A tx \in TxIds : execResolvers'[tx] \in {execResolvers[tx], NoIndex}
        PROVE  PacketInv'
    <3>1. ASSUME NEW tx \in TxIds, NEW n \in Nat, n >= idx[tx], n < made[tx]
          PROVE  OneOf(InMail(tx, n)', {}, {q \in execResponses[tx] : ReplyAt(q, tx, n)})
      <4>1. OneOf(InMail(tx, n), IF ReplyAt(p, tx, n) THEN {1} ELSE {},
                 {q \in execResponses[tx] : ReplyAt(q, tx, n)})
        BY <2>6, <3>1
      <4>2. ~ReplyAt(p, tx, n)
        BY <2>7, <3>1
      <4> QED
        BY <2>3, <4>1, <4>2
    <3>2. \A tx \in TxIds : \A q \in execResponses[tx] : q.seq # execResolvers'[tx]
      <4>1. \A tx \in TxIds : \A q \in execResponses[tx] : q.seq \in Nat
        BY <1>t DEF Packet
      <4> QED
        BY <1>f, <2>7, <4>1
    <3> QED
      BY <2>1, <2>5, <2>7, <3>1, <3>2, PacketsAfter
  <2>8. CASE p = NoPacket
    <3>1. UNCHANGED <<idx, execResponses, execResolvers>>
      BY <1>6, <2>8 DEF OnOK, listenTimeout, iterVars, p
    <3> QED
      BY <2>7, <2>8, <3>1 DEF ReplyAt
  <2>9. CASE p # NoPacket /\ registerResponse(p)
    <3>1. UNCHANGED <<idx, execResponses, execResolvers>> /\ p.tx \in Controls
      BY <1>t, <2>9 DEF registerResponse, iterVars
    <3>2. \A tx \in TxIds, n \in Nat : ~ReplyAt(p, tx, n)
      BY <1>t, <3>1 DEF ReplyAt
    <3> QED
      BY <2>7, <3>1, <3>2
  <2>10. CASE /\ p # NoPacket /\ registerExecResponse(p)
              /\ execResolvers[p.tx] = p.seq
    <3>1. /\ UNCHANGED <<idx, execResponses>> /\ p.tx \in TxIds /\ p \in Packet
          /\ execResolvers' = [execResolvers EXCEPT ![p.tx] = NoIndex]
      BY <2>2, <2>10 DEF registerExecResponse
    <3>2. idx[p.tx] = p.seq + 1 /\ p.seq \in Nat
      BY <2>10, <3>1 DEF NodeInv, CallOK, Packet
    <3>3. \A tx \in TxIds, n \in Nat : n >= idx[tx] => ~ReplyAt(p, tx, n)
      BY <3>2 DEF ReplyAt
    <3> QED
      BY <1>t, <2>7, <3>1, <3>3
  <2>11. CASE /\ p # NoPacket /\ registerExecResponse(p)
              /\ execResolvers[p.tx] # p.seq
    <3>1. /\ UNCHANGED <<idx, execResolvers>> /\ p.tx \in TxIds
          /\ execResponses' = [execResponses EXCEPT ![p.tx] = @ \cup {p}]
      BY <2>11 DEF registerExecResponse
    <3>2. ASSUME NEW tx \in TxIds, NEW n \in Nat, n >= idx[tx], n < made[tx]
          PROVE  OneOf(InMail(tx, n)', {}, {q \in execResponses'[tx] : ReplyAt(q, tx, n)})
      <4>1. {q \in execResponses'[tx] : ReplyAt(q, tx, n)}
              = {q \in execResponses[tx] : ReplyAt(q, tx, n)}
                  \cup (IF ReplyAt(p, tx, n) THEN {p} ELSE {})
        BY <1>t, <3>1 DEF ReplyAt
      <4>2. OneOf(InMail(tx, n), IF ReplyAt(p, tx, n) THEN {1} ELSE {},
                 {q \in execResponses[tx] : ReplyAt(q, tx, n)})
        BY <2>6, <3>2
      <4> QED
        BY <2>3, <4>1, <4>2 DEF OneOf, Single
    <3>3. \A tx \in TxIds : \A q \in execResponses'[tx] : q.seq # execResolvers'[tx]
      BY <1>t, <1>f, <2>11, <3>1
    <3> QED
      BY <2>1, <2>5, <3>1, <3>2, <3>3, PacketsAfter
  <2> QED
    BY <1>6, <2>8, <2>9, <2>10, <2>11 DEF OnOK, p
<1>7. ASSUME NEW tx \in TxIds, callIter(tx) \/ Leave(tx) \/ (next(tx) /\ NextDone(tx))
      PROVE  PacketInv'
  BY <1>1, <1>7 DEF callIter, Leave, next, NextDone, serviceVars
<1>8. ASSUME NEW tx \in TxIds, next(tx), NextBuffered(tx) \/ NextListens(tx)
      PROVE  PacketInv'
  <2>1. /\ UNCHANGED <<mail, made, arrived>> /\ idx' = [idx EXCEPT ![tx] = @ + 1]
    BY <1>8 DEF next, NextBuffered, NextListens, serviceVars
  <2>2. \A t, n : InMail(t, n)' = InMail(t, n)
    BY <2>1, MailStays
  <2>3. \A t \in TxIds, n \in Nat : n >= idx'[t] => n >= idx[t] /\ (t = tx => n # idx[tx])
    BY <1>t, <2>1
  <2>4. ASSUME NEW t \in TxIds, NEW n \in Nat, n >= idx'[t]
        PROVE  {q \in execResponses'[t] : ReplyAt(q, t, n)}
                 = {q \in execResponses[t] : ReplyAt(q, t, n)}
    <3>1. CASE NextBuffered(tx)
      <4>1. PICK p \in execResponses[tx] :
              p.seq = idx[tx] /\ execResponses' = [execResponses EXCEPT ![tx] = @ \ {p}]
        BY <3>1 DEF NextBuffered
      <4>2. t = tx => ~ReplyAt(p, t, n)
        BY <2>3, <2>4, <4>1 DEF ReplyAt
      <4> QED
        BY <1>t, <4>1, <4>2
    <3>2. CASE NextListens(tx)
      BY <3>2 DEF NextListens
    <3> QED
      BY <1>8, <3>1, <3>2
  <2>5. \A t \in TxIds : \A q \in execResponses'[t] : q.seq # execResolvers'[t]
    <3>1. CASE NextBuffered(tx)
      <4>1. \A t \in TxIds : execResponses'[t] \subseteq execResponses[t]
        BY <1>t, <3>1 DEF NextBuffered
      <4> QED
        BY <1>f, <3>1, <4>1 DEF NextBuffered
    <3>2. CASE NextListens(tx)
      BY <1>t, <1>f, <3>2 DEF NextListens
    <3> QED
      BY <1>8, <3>1, <3>2
  <2>6. ASSUME NEW t \in TxIds, NEW n \in Nat, n >= idx'[t], n < made[t]
        PROVE  OneOf(InMail(t, n)', {i \in DOMAIN arrived : ReplyAt(arrived[i], t, n)},
                     {q \in execResponses'[t] : ReplyAt(q, t, n)})
    BY <1>f, <2>2, <2>3, <2>4, <2>6
  <2> QED
    BY <2>1, <2>5, <2>6, PacketsAfter
<1> QED
  BY <1>2, <1>3, <1>4, <1>5, <1>6, <1>7, <1>8 DEF NodeNext, RunJob, next

\* runtime.ts:218-266: every resolver has a loop that will see its packet, and
\* every reply that has not been asked for is in one place, the buffer only if
\* nobody waits for it.
THEOREM PacketsMeetResolvers == NodeSpec => []PacketsFindResolvers
<1>1. NodeInit => NodeInv /\ PacketInv /\ ResolverHasLoop
  <2>1. NodeInit => PacketInv /\ ResolverHasLoop
    BY DEF NodeInit, ServiceInit, PacketInv, ResolverHasLoop
  <2> QED
    BY <2>1, NodeStarts
<1>2. NodeInv /\ PacketInv /\ ResolverHasLoop /\ [NodeNext]_nodeVars
        => NodeInv' /\ PacketInv' /\ ResolverHasLoop'
  BY NodeSteps, PacketSteps, LoopsCome
<1>3. NodeInv /\ PacketInv => BufferedOrComing
  <2> SUFFICES ASSUME NodeInv, PacketInv, NEW tx \in TxIds
               PROVE  /\ \A n \in idx[tx] .. made[tx] - 1 : Places(tx, n) = 1
                      /\ \A p \in execResponses[tx] : p.seq # execResolvers[tx]
    BY DEF BufferedOrComing
  <2>1. idx[tx] \in Nat /\ made[tx] \in Nat
    BY DEF NodeInv, NodeTypeOK, ServiceTypeOK
  <2>2. ASSUME NEW n \in idx[tx] .. made[tx] - 1
        PROVE  Places(tx, n) = 1
    <3>1. OneOf(InMail(tx, n), InArrived(tx, n), InBuffer(tx, n))
      BY <2>1 DEF PacketInv
    <3>2. Cardinality(InMail(tx, n)) + Cardinality(InArrived(tx, n))
            + Cardinality(InBuffer(tx, n)) = 1
      BY <3>1, OneOfCounts
    <3> QED
      BY <3>2 DEF Places, InMail, InArrived, InBuffer, ReplyAt
  <2> QED
    BY <2>2 DEF PacketInv
<1> QED
  BY <1>1, <1>2, <1>3, PTL DEF NodeSpec, PacketsFindResolvers

=============================================================================

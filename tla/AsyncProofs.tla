----------------------------- MODULE AsyncProofs -----------------------------
(***************************************************************************)
(* Proofs about AsyncRuntime, for any number of coroutines, any numbers of *)
(* replies and any set of calls that may be cancelled.                     *)
(***************************************************************************)
EXTENDS AsyncRuntime, ServiceProofs

USE NoTaskAssumption

\* The coroutine's user has not been told of an end.
Asking == {"held"} \cup Awaiting

Tasks(ts) ==
    /\ ts \in [TxIds -> TaskState]
    /\ \A tx \in TxIds : ts[tx] \in Asking => call[tx] = "open"

HandsOK == \A tx \in TxIds : hand[tx] # NoPacket => Honest(hand[tx])
FinishedOK == \A tx \in TxIds : finished[tx] => Complete(tx)

AsyncInv ==
    /\ AsyncTypeOK
    /\ ServiceInv
    /\ Filed(store)
    /\ Tasks(task)
    /\ HandsOK
    /\ FinishedOK

-----------------------------------------------------------------------------

\* Filing a packet that listen() has returned keeps the store in order.
LEMMA StoreKeeps ==
    ASSUME AsyncInv, NEW p \in Packet \cup {NoPacket}, p # NoPacket => Honest(p)
    PROVE  Filed(StoreWith(p)) /\ ResponsesWith(p) \subseteq Controls
<1>1. store \in [TxIds -> SUBSET Packet] /\ responses \subseteq Controls
  BY DEF AsyncInv, AsyncTypeOK
<1>2. Filed(StoreWith(p))
  BY <1>1 DEF AsyncInv, Filed, StoreWith
<1> QED
  BY <1>1, <1>2 DEF ResponsesWith

\* Setting the event changes nothing but who is ready to run.
LEMMA WokenKeeps ==
    ASSUME AsyncInv
    PROVE  Tasks(Woken)
  BY DEF AsyncInv, Tasks, Woken, TaskState, Asking, Awaiting

\* The generator: wherever it is run from, with whatever it finds filed, its
\* step is one of Streams or is not seen by its caller.
LEMMA RunKeeps ==
    ASSUME AsyncInv, NEW tx \in TxIds, call[tx] = "open",
           NEW st, Filed(st), NEW lk \in TxIds \cup {NoTask}, NEW ts, Tasks(ts),
           Run(tx, st, lk, ts), UNCHANGED serviceVars
    PROVE  /\ ServiceInv'
           /\ Filed(store)'
           /\ Tasks(task)'
           /\ FinishedOK'
           /\ finished' \in [TxIds -> BOOLEAN]
           /\ lock' \in TxIds \cup {NoTask}
           /\ pool' \subseteq TxIds
           /\ Promised!Consume(tx) \/ Promised!Abandon(tx)
                \/ UNCHANGED Promised!streamVars
<1>1. /\ UNCHANGED <<made, ended, requested, mail>>
      /\ ServiceInv /\ ServiceTypeOK
      /\ call \in [TxIds -> StreamState] /\ given \in [TxIds -> Seq(Nat)]
      /\ finished \in [TxIds -> BOOLEAN] /\ pool \subseteq TxIds
      /\ st \in [TxIds -> SUBSET Packet] /\ ts \in [TxIds -> TaskState]
      /\ \A t \in TxIds : finished[t] => Complete(t)
  BY DEF AsyncInv, AsyncTypeOK, ServiceTypeOK, serviceVars, Filed, Tasks, FinishedOK
<1>2. /\ \A p : Honest(p)' <=> Honest(p)
      /\ \A t \in TxIds : \A p \in st[t] : p.tx = t /\ Honest(p)
      /\ \A t \in TxIds : ts[t] \in Asking => call[t] = "open"
  BY <1>1 DEF Honest, EndOf, Filed, Tasks
<1>3. ASSUME call' \in [TxIds -> StreamState], given' \in [TxIds -> Seq(Nat)],
             \A t \in TxIds : Len(given'[t]) <= made[t],
             \A t \in TxIds : call'[t] = "none" => call[t] = "none"
      PROVE  ServiceInv'
  BY <1>1, <1>2, <1>3 DEF ServiceInv, ServiceTypeOK
<1>4. \A t \in TxIds : Len(given[t]) <= made[t]
  BY <1>1 DEF ServiceInv
<1>5. CASE Exhaust(tx, st, lk, ts)
  <2>1. /\ Complete(tx)
        /\ call' = [call EXCEPT ![tx] = "returned"]
        /\ store' = [st EXCEPT ![tx] = {}]
        /\ lock' = lk
        /\ task' = [ts EXCEPT ![tx] = "over"]
        /\ UNCHANGED <<given, finished, pool>>
    BY <1>1, <1>5 DEF Exhaust, Ends
  <2>2. UNCHANGED Promised!streamVars
    BY <1>1, <2>1, ReturnKeeps
  <2>3. ServiceInv'
    BY <1>1, <1>3, <1>4, <2>1 DEF StreamState
  <2>4. Filed(store)'
    BY <1>1, <1>2, <2>1 DEF Filed
  <2>5. Tasks(task)'
    BY <1>1, <1>2, <2>1 DEF Tasks, TaskState, Asking, Awaiting
  <2>6. FinishedOK'
    BY <1>1, <2>1 DEF FinishedOK, Complete
  <2> QED
    BY <1>1, <2>1, <2>2, <2>3, <2>4, <2>5, <2>6
<1>6. CASE Take(tx, st, lk, ts)
  <2>1. PICK p \in st[tx] :
          /\ p.seq = Len(given[tx])
          /\ store' = [st EXCEPT ![tx] = @ \ {p}]
          /\ finished' = [finished EXCEPT ![tx] = p.end = "finish"]
          /\ IF p.end = "failure"
             THEN /\ call' = [call EXCEPT ![tx] = "raised"]
                  /\ task' = [ts EXCEPT ![tx] = "over"]
                  /\ given' = given
             ELSE /\ given' = [given EXCEPT ![tx] = Append(@, p.seq)]
                  /\ task' = [ts EXCEPT ![tx] = "held"]
                  /\ call' = call
    BY <1>6 DEF Take, Ends
  <2>2. lock' = lk /\ pool' = pool
    BY <1>6 DEF Take
  <2>3. /\ p \in Packet /\ p.seq \in Nat
        /\ p.seq < made[tx] /\ p.end = EndOf(tx, p.seq)
    <3>1. p \in Packet /\ p.tx = tx /\ Honest(p)
      BY <1>1, <1>2, <2>1
    <3> QED
      BY <3>1 DEF Honest, Packet
  <2>4. /\ Promised!Consume(tx)
        /\ p.end = "finish" => Complete(tx)'
        /\ given' \in [TxIds -> Seq(Nat)]
        /\ \A t \in TxIds : Len(given'[t]) <= made[t]
        /\ \A t \in TxIds \ {tx} : Complete(t)' <=> Complete(t)
    <3> DEFINE n == p.seq
    <3>1. n \in Nat /\ n = Len(given[tx]) /\ n < made[tx]
      BY <2>1, <2>3
    <3>2. IF EndOf(tx, n) = "failure"
          THEN call' = [call EXCEPT ![tx] = "raised"] /\ given' = given
          ELSE given' = [given EXCEPT ![tx] = Append(@, n)] /\ call' = call
      BY <2>1, <2>3
    <3>3. p.end = EndOf(tx, n)
      BY <2>3
    <3> HIDE DEF n
    <3> QED
      BY <1>1, <3>1, <3>2, <3>3, ConsumeKeeps
  <2>5. ServiceInv'
    BY <1>1, <1>3, <2>1, <2>4 DEF StreamState
  <2>6. Filed(store)'
    BY <1>1, <1>2, <2>1 DEF Filed
  <2>7. Tasks(task)'
    <3>1. \A t \in TxIds \ {tx} : call'[t] = call[t]
      BY <1>1, <2>1
    <3>2. CASE p.end = "failure"
      <4>1. task' = [ts EXCEPT ![tx] = "over"]
        BY <2>1, <3>2
      <4> QED
        BY <1>1, <1>2, <3>1, <4>1 DEF Tasks, TaskState, Asking, Awaiting
    <3>3. CASE p.end # "failure"
      <4>1. task' = [ts EXCEPT ![tx] = "held"] /\ call' = call
        BY <2>1, <3>3
      <4>2. call[tx] = "open"
        OBVIOUS
      <4> QED
        BY <1>1, <1>2, <4>1, <4>2 DEF Tasks, TaskState, Asking, Awaiting
    <3> QED
      BY <3>2, <3>3
  <2>8. FinishedOK' /\ finished' \in [TxIds -> BOOLEAN]
    <3>1. finished' \in [TxIds -> BOOLEAN]
      BY <1>1, <2>1
    <3>2. finished'[tx] => Complete(tx)'
      BY <1>1, <2>1, <2>4
    <3>3. \A t \in TxIds \ {tx} : finished'[t] => Complete(t)'
      BY <1>1, <2>1, <2>4
    <3> QED
      BY <3>1, <3>2, <3>3 DEF FinishedOK
  <2> QED
    BY <1>1, <2>2, <2>4, <2>5, <2>6, <2>7, <2>8
<1>7. CASE Listen(tx, st, lk, ts)
  <2>1. store' = st /\ UNCHANGED <<given, finished>>
    BY <1>7 DEF Listen
  <2>2. /\ task' \in [TxIds -> TaskState]
        /\ \A t \in TxIds \ {tx} : task'[t] = ts[t]
        /\ lock' \in TxIds \cup {NoTask} /\ pool' \subseteq TxIds
        /\ \/ call' = call
           \/ call' = [call EXCEPT ![tx] = "abandoned"] /\ task'[tx] = "over"
    BY <1>1, <1>7 DEF Listen, WaitForListener, BecomeListener, ClientIsGone, Ends,
                      TaskState, Awaiting
  <2>3. Promised!Abandon(tx) \/ UNCHANGED Promised!streamVars
    <3>1. CASE call' = call
      BY <1>1, <2>1, <3>1 DEF Promised!streamVars, Complete
    <3>2. CASE call' = [call EXCEPT ![tx] = "abandoned"]
      BY <1>1, <2>1, <3>2, LeaveKeeps
    <3> QED
      BY <2>2, <3>1, <3>2
  <2>4. ServiceInv'
    BY <1>1, <1>3, <1>4, <2>1, <2>2 DEF StreamState
  <2>5. Filed(store)'
    BY <1>1, <1>2, <2>1 DEF Filed
  <2>6. Tasks(task)'
    BY <1>1, <1>2, <2>2 DEF Tasks, Asking, Awaiting
  <2>7. FinishedOK'
    BY <1>1, <2>1 DEF FinishedOK, Complete
  <2> QED
    BY <1>1, <2>1, <2>2, <2>3, <2>4, <2>5, <2>6, <2>7
<1> QED
  BY <1>5, <1>6, <1>7 DEF Run

-----------------------------------------------------------------------------
(* The invariant.                                                          *)

\* A step of Streams, or one its callers do not see.
Promises == [Promised!StreamsNext]_Promised!streamVars

LEMMA AsyncStarts ==
    ASSUME AsyncInit
    PROVE  AsyncInv /\ Promised!StreamsInit
<1>1. ServiceInv /\ Promised!StreamsInit
  BY ServiceStarts DEF AsyncInit
<1>2. AsyncTypeOK
  BY <1>1 DEF AsyncInit, AsyncTypeOK, ServiceInv, TaskState
<1>3. Filed(store) /\ Tasks(task) /\ HandsOK /\ FinishedOK
  BY DEF AsyncInit, Filed, Tasks, HandsOK, FinishedOK, TaskState, Asking, Awaiting
<1> QED
  BY <1>1, <1>2, <1>3 DEF AsyncInv

LEMMA AsyncSteps ==
    ASSUME AsyncInv, [AsyncNext]_asyncVars
    PROVE  AsyncInv' /\ Promises
<1>1. /\ AsyncTypeOK /\ ServiceInv /\ Filed(store) /\ Tasks(task)
      /\ HandsOK /\ FinishedOK
  BY DEF AsyncInv
<1>2. /\ ServiceTypeOK
      /\ task \in [TxIds -> TaskState] /\ finished \in [TxIds -> BOOLEAN]
      /\ lock \in TxIds \cup {NoTask} /\ pool \subseteq TxIds
      /\ hand \in [TxIds -> Packet \cup {NoPacket}]
      /\ store \in [TxIds -> SUBSET Packet] /\ responses \subseteq Controls
      /\ main \in {"loop", "stopping", "stopped"}
      /\ dropped \subseteq TxIds \cup Controls
      /\ call \in [TxIds -> StreamState] /\ given \in [TxIds -> Seq(Nat)]
      /\ \A tx \in TxIds : task[tx] \in Asking => call[tx] = "open"
      /\ \A tx \in TxIds : hand[tx] # NoPacket => Honest(hand[tx])
  BY <1>1 DEF AsyncTypeOK, ServiceTypeOK, Tasks, HandsOK
\* The replies are what they were.
<1>3. ASSUME UNCHANGED <<made, ended>>
      PROVE  /\ \A p : Honest(p)' <=> Honest(p)
             /\ Filed(store') => Filed(store)'
  BY <1>3, HonestStays DEF Filed, Honest, EndOf
\* A generator runs.
<1>4. ASSUME NEW tx \in TxIds, call[tx] = "open", UNCHANGED serviceVars,
             NEW st, Filed(st), NEW lk \in TxIds \cup {NoTask},
             NEW ts, Tasks(ts), Run(tx, st, lk, ts),
             hand' = hand \/ hand' = [hand EXCEPT ![tx] = NoPacket],
             responses' \subseteq Controls, UNCHANGED <<main, dropped>>
      PROVE  AsyncInv' /\ Promises
  <2>1. /\ ServiceInv' /\ Filed(store)' /\ Tasks(task)' /\ FinishedOK'
        /\ finished' \in [TxIds -> BOOLEAN]
        /\ lock' \in TxIds \cup {NoTask} /\ pool' \subseteq TxIds
        /\ Promised!Consume(tx) \/ Promised!Abandon(tx)
             \/ UNCHANGED Promised!streamVars
    BY <1>4, RunKeeps
  <2>2. \A p : Honest(p)' <=> Honest(p)
    BY <1>3, <1>4 DEF serviceVars
  <2>3. hand' \in [TxIds -> Packet \cup {NoPacket}] /\ HandsOK'
    <3>1. \A t \in TxIds : hand'[t] # NoPacket => hand'[t] = hand[t]
      BY <1>2, <1>4
    <3>2. \A t \in TxIds : hand'[t] # NoPacket => Honest(hand[t])'
      BY <1>2, <2>2, <3>1, <1>4 DEF Honest, EndOf, serviceVars
    <3> QED
      BY <1>2, <1>4, <3>1, <3>2 DEF HandsOK, Honest, EndOf
  <2>4. AsyncTypeOK'
    BY <1>2, <1>4, <2>1, <2>3 DEF AsyncTypeOK, ServiceInv, Filed, Tasks
  <2>5. Promises
    BY <2>1 DEF Promises, Promised!StreamsNext
  <2> QED
    BY <2>1, <2>3, <2>4, <2>5 DEF AsyncInv
<1>5. CASE Serving
  <2>1. /\ Serve
        /\ UNCHANGED <<call, given, task, finished, lock, pool, hand, store,
                       responses, main, dropped>>
    BY <1>5 DEF Serving, callVars
  <2>2. /\ ServiceInv' /\ Promises
        /\ \A p \in Packet : Honest(p) => Honest(p)'
        /\ \A tx \in TxIds : Complete(tx) => Complete(tx)'
    BY <1>1, <2>1, ServeKeeps DEF Promises, callVars
  <2>3. AsyncTypeOK'
    BY <1>2, <2>1, <2>2 DEF AsyncTypeOK, ServiceInv
  <2>4. Filed(store)'
    BY <1>1, <1>2, <2>1, <2>2 DEF Filed, Honest, EndOf
  <2>5. Tasks(task)' /\ FinishedOK'
    BY <1>1, <2>1, <2>2 DEF Tasks, FinishedOK
  <2>6. HandsOK'
    <3>1. \A tx \in TxIds : hand[tx] # NoPacket => hand[tx] \in Packet
      BY <1>2
    <3>2. SUFFICES ASSUME NEW tx \in TxIds, hand[tx] # NoPacket
                   PROVE  \E p \in Packet : p = hand'[tx] /\ Honest(p)'
      BY <2>1 DEF HandsOK, Honest, EndOf
    <3> QED
      BY <1>2, <2>1, <2>2, <3>1, <3>2
  <2> QED
    BY <2>2, <2>3, <2>4, <2>5, <2>6 DEF AsyncInv
\* Nothing is given and no reply made: what is left to be shown of a step.
<1>6. ASSUME UNCHANGED <<made, ended, given, finished>>,
             ServiceInv', AsyncTypeOK', Promises, Filed(store'),
             \A tx \in TxIds : task'[tx] \in Asking => call'[tx] = "open",
             \A tx \in TxIds : hand'[tx] # NoPacket => Honest(hand'[tx])
      PROVE  AsyncInv' /\ Promises
  <2>1. Filed(store)' /\ \A p : Honest(p)' <=> Honest(p)
    BY <1>3, <1>6
  <2>2. Tasks(task)'
    BY <1>6 DEF AsyncTypeOK, Tasks
  <2>3. FinishedOK'
    BY <1>1, <1>6 DEF FinishedOK, Complete
  <2>4. HandsOK'
    BY <1>6 DEF HandsOK, Honest, EndOf
  <2> QED
    BY <1>6, <2>1, <2>2, <2>3, <2>4 DEF AsyncInv
\* A call is left.
<1>7. ASSUME NEW tx \in TxIds, call[tx] = "open",
             call' = [call EXCEPT ![tx] = "abandoned"],
             UNCHANGED <<made, ended, given, requested, mail>>
      PROVE  ServiceInv' /\ Promises
  <2>1. Promises
    BY <1>1, <1>7, LeaveKeeps DEF Promises, Promised!StreamsNext
  <2>2. ServiceInv'
    BY <1>1, <1>2, <1>7 DEF ServiceInv, ServiceTypeOK, Honest, EndOf, StreamState
  <2> QED
    BY <2>1, <2>2
\* No call is touched.
<1>8. ASSUME UNCHANGED <<made, ended, given, call>>
      PROVE  Promises
  BY <1>8 DEF Promises, Promised!streamVars, Complete
<1>9. CASE Stop \/ Stopped
  <2>1. /\ requested' \subseteq Controls
        /\ main' \in {"stopping", "stopped"}
        /\ UNCHANGED <<made, ended, mail, call, given, task, finished, lock,
                       pool, hand, store, responses, dropped>>
    BY <1>2, <1>9 DEF Stop, Stopped, callVars, serviceVars, Controls, ServiceTypeOK
  <2>2. ServiceInv'
    BY <1>1, <1>2, <2>1 DEF ServiceInv, ServiceTypeOK, Honest, EndOf
  <2>3. AsyncTypeOK'
    BY <1>2, <2>1, <2>2 DEF AsyncTypeOK, ServiceInv
  <2> QED
    BY <1>1, <1>2, <1>6, <1>8, <2>1, <2>2, <2>3
<1>10. CASE SyncListen
  <2>1. /\ store' = StoreWith(Listened) /\ responses' = ResponsesWith(Listened)
        /\ mail' = RestOfMail
        /\ UNCHANGED <<made, ended, requested, call, given, task, finished,
                       lock, pool, hand, main, dropped>>
    BY <1>10 DEF SyncListen, callVars
  <2>2. /\ ServiceInv' /\ Listened \in Packet \cup {NoPacket}
        /\ Listened # NoPacket => Honest(Listened)
    BY <1>1, <2>1, ListenKeeps DEF callVars
  <2>3. Filed(store') /\ responses' \subseteq Controls
    BY <2>1, <2>2, StoreKeeps
  <2>4. AsyncTypeOK'
    BY <1>2, <2>1, <2>2, <2>3 DEF AsyncTypeOK, ServiceInv, Filed
  <2> QED
    BY <1>2, <1>6, <1>8, <2>1, <2>2, <2>3, <2>4
<1>11. ASSUME NEW tx \in TxIds, Ask(tx)
       PROVE  AsyncInv' /\ Promises
  <2>1. /\ call[tx] = "none" /\ call' = [call EXCEPT ![tx] = "open"]
        /\ task' = [task EXCEPT ![tx] = "held"]
        /\ UNCHANGED <<made, ended, requested, mail, given, finished, lock,
                       pool, hand, store, responses, main, dropped>>
    BY <1>11 DEF Ask, Ends, serviceVars
  <2>2. Promises
    BY <1>1, <2>1, BeginKeeps DEF Promises, Promised!StreamsNext
  <2>3. ServiceInv'
    BY <1>1, <1>2, <2>1 DEF ServiceInv, ServiceTypeOK, Honest, EndOf, StreamState
  <2>4. AsyncTypeOK'
    BY <1>2, <2>1, <2>3 DEF AsyncTypeOK, ServiceInv, TaskState
  <2>5. \A t \in TxIds : task'[t] \in Asking => call'[t] = "open"
    BY <1>2, <2>1
  <2> QED
    BY <1>1, <1>2, <1>6, <2>1, <2>2, <2>3, <2>4, <2>5
<1>12. ASSUME NEW tx \in TxIds, Next(tx) \/ Wake(tx)
       PROVE  AsyncInv' /\ Promises
  <2>1. /\ call[tx] = "open" /\ Run(tx, store, lock, task)
        /\ UNCHANGED serviceVars /\ hand' = hand
        /\ UNCHANGED <<main, dropped, responses>>
    BY <1>2, <1>12 DEF Next, Wake, Asking, Awaiting
  <2> QED
    BY <1>1, <1>2, <1>4, <2>1
<1>13. ASSUME NEW tx \in TxIds, Deliver(tx)
       PROVE  AsyncInv' /\ Promises
  <2>1. /\ call[tx] = "open" /\ Run(tx, StoreWith(hand[tx]), NoTask, Woken)
        /\ UNCHANGED serviceVars
        /\ hand' = [hand EXCEPT ![tx] = NoPacket]
        /\ responses' = ResponsesWith(hand[tx])
        /\ UNCHANGED <<main, dropped>>
    BY <1>2, <1>13 DEF Deliver, Asking, Awaiting
  <2>2. Filed(StoreWith(hand[tx])) /\ responses' \subseteq Controls
    BY <1>2, <2>1, StoreKeeps
  <2>3. Tasks(Woken)
    BY WokenKeeps
  <2> QED
    BY <1>4, <2>1, <2>2, <2>3
<1>14. ASSUME NEW tx \in TxIds, Leave(tx)
       PROVE  AsyncInv' /\ Promises
  <2>1. /\ call[tx] = "open" /\ call' = [call EXCEPT ![tx] = "abandoned"]
        /\ task' = [task EXCEPT ![tx] = "over"]
        /\ UNCHANGED <<made, ended, requested, mail, given, finished, lock,
                       pool, hand, store, responses, main, dropped>>
    BY <1>2, <1>14 DEF Leave, Ends, serviceVars, Asking
  <2>2. ServiceInv' /\ Promises
    BY <1>7, <2>1
  <2>3. AsyncTypeOK'
    BY <1>2, <2>1, <2>2 DEF AsyncTypeOK, ServiceInv, TaskState
  <2>4. \A t \in TxIds : task'[t] \in Asking => call'[t] = "open"
    BY <1>2, <2>1 DEF Asking, Awaiting
  <2> QED
    BY <1>1, <1>2, <1>6, <2>1, <2>2, <2>3, <2>4
<1>15. ASSUME NEW tx \in TxIds, Cancel(tx)
       PROVE  AsyncInv' /\ Promises
  <2>1. /\ call[tx] = "open" /\ call' = [call EXCEPT ![tx] = "abandoned"]
        /\ task' = [task EXCEPT ![tx] = "over"]
        /\ pool' \subseteq TxIds
        /\ hand' = [hand EXCEPT ![tx] = NoPacket]
        /\ UNCHANGED <<made, ended, requested, mail, given, finished, lock,
                       store, responses, main>>
    BY <1>2, <1>15 DEF Cancel, Ends, serviceVars, Asking
  <2>2. dropped' \subseteq TxIds \cup Controls
    BY <1>2, <1>15 DEF Cancel, Loses, Packet
  <2>3. ServiceInv' /\ Promises
    BY <1>7, <2>1
  <2>4. AsyncTypeOK'
    BY <1>2, <2>1, <2>2, <2>3 DEF AsyncTypeOK, ServiceInv, TaskState
  <2>5. \A t \in TxIds : task'[t] \in Asking => call'[t] = "open"
    BY <1>2, <2>1 DEF Asking, Awaiting
  <2>6. \A t \in TxIds : hand'[t] # NoPacket => Honest(hand'[t])
    BY <1>2, <2>1
  <2> QED
    BY <1>1, <1>6, <2>1, <2>3, <2>4, <2>5, <2>6
<1>16. ASSUME NEW tx \in TxIds, Thread(tx)
       PROVE  AsyncInv' /\ Promises
  <2>1. /\ mail' = RestOfMail /\ pool' = pool \ {tx}
        /\ \/ hand' = [hand EXCEPT ![tx] = Listened] /\ dropped' = dropped
           \/ Loses(Listened) /\ hand' = hand
        /\ UNCHANGED <<made, ended, requested, call, given, task, finished,
                       lock, store, responses, main>>
    BY <1>16 DEF Thread, callVars
  <2>2. /\ ServiceInv' /\ Listened \in Packet \cup {NoPacket}
        /\ Listened # NoPacket => Honest(Listened)
    BY <1>1, <2>1, ListenKeeps DEF callVars
  <2>3. dropped' \subseteq TxIds \cup Controls
    BY <1>2, <2>1, <2>2 DEF Loses, Packet
  <2>4. hand' \in [TxIds -> Packet \cup {NoPacket}]
    BY <1>2, <2>1, <2>2
  <2>5. \A t \in TxIds : hand'[t] # NoPacket => Honest(hand'[t])
    BY <1>2, <2>1, <2>2
  <2>6. AsyncTypeOK'
    BY <1>2, <2>1, <2>2, <2>3, <2>4 DEF AsyncTypeOK, ServiceInv
  <2> QED
    BY <1>1, <1>2, <1>6, <1>8, <2>1, <2>2, <2>5, <2>6
<1>17. CASE UNCHANGED asyncVars
  <2>1. /\ UNCHANGED <<made, ended, given, call, requested, mail>>
        /\ UNCHANGED <<task, finished, lock, pool, hand, store, responses, main,
                       dropped>>
    BY <1>17 DEF asyncVars
  <2>2. ServiceInv'
    BY <1>1, <1>2, <2>1 DEF ServiceInv, ServiceTypeOK, Honest, EndOf
  <2>3. AsyncTypeOK'
    BY <1>2, <2>1, <2>2 DEF AsyncTypeOK, ServiceInv
  <2> QED
    BY <1>1, <1>2, <1>6, <1>8, <2>1, <2>2, <2>3
<1> QED
  BY <1>5, <1>9, <1>10, <1>11, <1>12, <1>13, <1>14, <1>15, <1>16, <1>17
     DEF AsyncNext

-----------------------------------------------------------------------------
(* Theorems.                                                               *)

\* The variables of AsyncRuntime always have their types.
THEOREM AsyncTypeCorrect == AsyncSpec => []AsyncTypeOK
<1>1. AsyncInit => AsyncInv
  BY AsyncStarts
<1>2. AsyncInv /\ [AsyncNext]_asyncVars => AsyncInv'
  BY AsyncSteps
<1>3. AsyncInv => AsyncTypeOK
  BY DEF AsyncInv
<1> QED
  BY <1>1, <1>2, <1>3, PTL DEF AsyncSpec

\* However coroutines listen for each other, are cancelled, leave, or are
\* stopped: each is given the values of its call in order, each once, and its
\* call returns after the reply with the finish flag and raises at a failure.
THEOREM AsyncRuntimeKeepsPromise == AsyncSpec => AsyncKeepsPromise
<1>1. AsyncInit => AsyncInv /\ Promised!StreamsInit
  BY AsyncStarts
<1>2. AsyncInv /\ [AsyncNext]_asyncVars
        => AsyncInv' /\ [Promised!StreamsNext]_Promised!streamVars
  BY AsyncSteps DEF Promises
<1> QED
  BY <1>1, <1>2, PTL DEF AsyncSpec, AsyncKeepsPromise, Promised!StreamsSpec

-----------------------------------------------------------------------------
(* The one who listens.                                                    *)

Excused(tx) == tx \in Cancellable /\ call[tx] = "abandoned"

\* The event that is waited for is somebody's, and who has the lock listens.
ListenInv ==
    /\ \A tx \in TxIds : task[tx] = "waiting" => lock \in TxIds
    /\ lock \in TxIds =>
         task[lock] = "listening" \/ Excused(lock) \/ main = "stopped"

\* A generator that listens takes the lock or leaves it with another.
LEMMA RunListens ==
    ASSUME AsyncInv, NEW tx \in TxIds, call[tx] = "open",
           NEW lk \in TxIds \cup {NoTask}, NEW ts, Tasks(ts),
           \A t \in TxIds \ {tx} : ts[t] = "waiting" => lk \in TxIds,
           lk \in TxIds =>
             \/ lk # tx /\ (ts[lk] = "listening" \/ Excused(lk))
             \/ main = "stopped",
           NEW st, Run(tx, st, lk, ts), main' = main
    PROVE  ListenInv'
<1>1. /\ ts \in [TxIds -> TaskState]
      /\ call \in [TxIds -> StreamState]
  BY DEF Tasks, AsyncInv, AsyncTypeOK, ServiceTypeOK
<1>2. CASE Exhaust(tx, st, lk, ts) \/ Take(tx, st, lk, ts)
  <2>1. /\ lock' = lk
        /\ \A t \in TxIds \ {tx} : task'[t] = ts[t] /\ call'[t] = call[t]
        /\ task'[tx] \in {"held", "over"}
    BY <1>1, <1>2 DEF Exhaust, Take, Ends
  <2> QED
    BY <2>1 DEF ListenInv, Excused
<1>3. CASE Listen(tx, st, lk, ts)
  <2>1. \A t \in TxIds \ {tx} : task'[t] = ts[t] /\ call'[t] = call[t]
    BY <1>1, <1>3 DEF Listen, WaitForListener, BecomeListener, ClientIsGone, Ends
  <2>2. CASE WaitForListener(tx, lk, ts)
    BY <1>1, <2>1, <2>2 DEF WaitForListener, ListenInv, Excused
  <2>3. CASE BecomeListener(tx, lk, ts) \/ ClientIsGone(tx, lk, ts)
    <3>1. lock' = tx /\ (task'[tx] = "listening" \/ main = "stopped")
      BY <1>1, <2>3 DEF BecomeListener, ClientIsGone
    <3> QED
      BY <3>1 DEF ListenInv
  <2> QED
    BY <1>3, <2>2, <2>3 DEF Listen
<1> QED
  BY <1>2, <1>3 DEF Run

LEMMA ListenSteps ==
    ASSUME AsyncInv, ListenInv, [AsyncNext]_asyncVars
    PROVE  ListenInv'
<1>1. /\ task \in [TxIds -> TaskState] /\ call \in [TxIds -> StreamState]
      /\ lock \in TxIds \cup {NoTask} /\ Tasks(task)
      /\ \A tx \in TxIds : task[tx] \in Asking => call[tx] = "open"
  BY DEF AsyncInv, AsyncTypeOK, ServiceTypeOK, Tasks
<1>2. ASSUME UNCHANGED <<task, call, lock>>, main = "stopped" => main' = "stopped"
      PROVE  ListenInv'
  BY <1>2 DEF ListenInv, Excused
<1>3. CASE Serving \/ Stop \/ SyncListen \/ Stopped \/ UNCHANGED asyncVars
  BY <1>2, <1>3 DEF Serving, Stop, SyncListen, Stopped, asyncVars, callVars, serviceVars
<1>4. ASSUME NEW tx \in TxIds, Ask(tx)
      PROVE  ListenInv'
  BY <1>1, <1>4 DEF Ask, Ends, ListenInv, Excused, Asking, Awaiting
<1>5. ASSUME NEW tx \in TxIds, Next(tx) \/ Wake(tx)
      PROVE  ListenInv'
  <2>1. /\ task[tx] \in {"held", "ready"} /\ call[tx] = "open" /\ main' = main
        /\ Run(tx, store, lock, task)
    BY <1>1, <1>5 DEF Next, Wake, Asking, Awaiting
  <2>2. lock \in TxIds =>
          \/ lock # tx /\ (task[lock] = "listening" \/ Excused(lock))
          \/ main = "stopped"
    BY <2>1 DEF ListenInv, Excused
  <2> QED
    BY <1>1, <2>1, <2>2, RunListens DEF ListenInv
<1>6. ASSUME NEW tx \in TxIds, Deliver(tx)
      PROVE  ListenInv'
  <2>1. /\ call[tx] = "open" /\ main' = main
        /\ Run(tx, StoreWith(hand[tx]), NoTask, Woken)
    BY <1>1, <1>6 DEF Deliver, Asking, Awaiting
  <2>2. Tasks(Woken) /\ \A t \in TxIds : Woken[t] # "waiting"
    BY WokenKeeps DEF Woken
  <2> QED
    BY <2>1, <2>2, RunListens
<1>7. ASSUME NEW tx \in TxIds, Leave(tx) \/ Cancel(tx)
      PROVE  ListenInv'
  <2>1. /\ task' = [task EXCEPT ![tx] = "over"]
        /\ call' = [call EXCEPT ![tx] = "abandoned"]
        /\ lock' = lock /\ main' = main
        /\ task[tx] = "held" \/ tx \in Cancellable
    BY <1>7 DEF Leave, Cancel, Ends
  <2>2. CASE lock = tx
    <3>1. call[tx] = "open"
      BY <1>1, <1>7 DEF Leave, Cancel, Asking
    <3> QED
      BY <1>1, <2>1, <2>2, <3>1 DEF ListenInv, Excused
  <2>3. CASE lock # tx
    BY <1>1, <2>1, <2>3 DEF ListenInv, Excused
  <2> QED
    BY <2>2, <2>3
<1>8. ASSUME NEW tx \in TxIds, Thread(tx)
      PROVE  ListenInv'
  BY <1>2, <1>8 DEF Thread, callVars
<1> QED
  BY <1>3, <1>4, <1>5, <1>6, <1>7, <1>8 DEF AsyncNext

\* Nobody waits for an event that will not be set: with any number of
\* coroutines, one has the lock and listens, unless it was cancelled while it
\* did, or the client is gone.
THEOREM ListenersExist == AsyncSpec => []SomebodyListens
<1>1. AsyncInit => AsyncInv /\ ListenInv
  BY AsyncStarts DEF AsyncInit, ListenInv
<1>2. AsyncInv /\ ListenInv /\ [AsyncNext]_asyncVars => AsyncInv' /\ ListenInv'
  BY AsyncSteps, ListenSteps
<1>3. ListenInv => SomebodyListens
  BY DEF ListenInv, SomebodyListens, Excused
<1> QED
  BY <1>1, <1>2, <1>3, PTL DEF AsyncSpec

-----------------------------------------------------------------------------
(* Where the replies of open calls are.                                    *)

InHands(hs, tx, n) == {l \in TxIds : ReplyAt(hs[l], tx, n)}
InStore(st, tx, n) == {p \in st[tx] : ReplyAt(p, tx, n)}

\* With hs in the listeners' hands and st filed, what an open call has not been
\* given is in one place.
KeptIn(hs, st) ==
    \A tx \in TxIds : call[tx] = "open" /\ tx \notin dropped =>
        \A n \in Nat : n >= Len(given[tx]) /\ n < made[tx] =>
            OneOf(InMail(tx, n), InHands(hs, tx, n), InStore(st, tx, n))

HandsInv == \A tx \in TxIds : hand[tx] # NoPacket => task[tx] = "listening" /\ tx \notin pool

PacketInv ==
    /\ HandsInv
    /\ \A tx \in TxIds : call[tx] = "none" => made[tx] = 0
    /\ KeptIn(hand, store)

\* KeptIn after a step, in terms of the state after it.
LEMMA KeptAfter ==
    ASSUME NEW hs, NEW st, hand' = hs, store' = st,
           \A tx \in TxIds : call'[tx] = "open" /\ tx \notin dropped' =>
              \A n \in Nat : n >= Len(given'[tx]) /\ n < made'[tx] =>
                 OneOf(InMail(tx, n)', InHands(hs, tx, n), InStore(st, tx, n))
    PROVE  KeptIn(hand, store)'
<1>1. \A tx, n : /\ InHands(hand, tx, n)' = InHands(hs, tx, n)
                 /\ InStore(store, tx, n)' = InStore(st, tx, n)
  BY DEF InHands, InStore, ReplyAt
<1>2. \A M, H, S : OneOf(M, H, S)' <=> OneOf(M', H', S')
  BY DEF OneOf, Single
<1> SUFFICES ASSUME NEW tx \in TxIds, call'[tx] = "open", tx \notin dropped', NEW n \in Nat,
                    n >= Len(given'[tx]), n < made'[tx]
             PROVE  OneOf(InMail(tx, n), InHands(hand, tx, n), InStore(store, tx, n))'
  BY DEF KeptIn
<1>3. OneOf(InMail(tx, n)', InHands(hand, tx, n)', InStore(store, tx, n)')
  BY <1>1
<1> QED
  BY <1>3 DEF OneOf, Single

\* A generator takes no packet but the one it gives its user.
LEMMA RunKeepsPackets ==
    ASSUME AsyncInv, NEW tx \in TxIds, NEW hs, NEW st, Filed(st), KeptIn(hs, st),
           NEW lk, NEW ts, Run(tx, st, lk, ts),
           UNCHANGED <<mail, made, dropped>>, hand' = hs
    PROVE  KeptIn(hand, store)'
<1>t. /\ st \in [TxIds -> SUBSET Packet] /\ call \in [TxIds -> StreamState]
      /\ given \in [TxIds -> Seq(Nat)] /\ made \in [TxIds -> Nat]
  BY DEF AsyncInv, AsyncTypeOK, ServiceTypeOK, Filed
<1>1. \A t \in TxIds, n \in Nat : InMail(t, n)' = InMail(t, n)
  BY MailStays
<1>2. ASSUME NEW t \in TxIds, t # tx
      PROVE  store'[t] = st[t] /\ given'[t] = given[t] /\ call'[t] = call[t]
  BY <1>t, <1>2
  DEF Run, Exhaust, Take, Listen, WaitForListener, BecomeListener, ClientIsGone, Ends
<1>3. ASSUME call'[tx] = "open", NEW n \in Nat, n >= Len(given'[tx]), n < made[tx]
      PROVE  /\ call[tx] = "open" /\ n >= Len(given[tx])
             /\ InStore(store', tx, n) = InStore(st, tx, n)
  <2>1. CASE Exhaust(tx, st, lk, ts)
    BY <1>t, <1>3, <2>1 DEF Exhaust, Ends
  <2>2. CASE Take(tx, st, lk, ts)
    <3>1. PICK p \in st[tx] :
            /\ p.seq = Len(given[tx])
            /\ store' = [st EXCEPT ![tx] = @ \ {p}]
            /\ p.end = "failure" => Ends(tx, "raised")
            /\ p.end # "failure" =>
                 given' = [given EXCEPT ![tx] = Append(@, p.seq)] /\ call' = call
      BY <2>2 DEF Take
    <3>2. p.end # "failure"
      BY <1>t, <1>3, <3>1 DEF Ends
    <3>3. /\ call[tx] = "open" /\ Len(given[tx]) \in Nat
          /\ Len(given'[tx]) = Len(given[tx]) + 1
      <4>1. given[tx] \in Seq(Nat) /\ p.seq \in Nat
        BY <1>t DEF Packet
      <4> QED
        BY <1>t, <1>3, <3>1, <3>2, <4>1
    <3>4. n > Len(given[tx]) /\ ~ReplyAt(p, tx, n)
      BY <1>3, <3>1, <3>3 DEF ReplyAt
    <3> QED
      BY <1>t, <3>1, <3>3, <3>4 DEF InStore
  <2>3. CASE Listen(tx, st, lk, ts)
    <3>1. store' = st /\ given' = given /\ (call' = call \/ Ends(tx, "abandoned"))
      BY <2>3 DEF Listen, WaitForListener, BecomeListener, ClientIsGone
    <3>2. call' = call
      BY <1>t, <1>3, <3>1 DEF Ends
    <3> QED
      BY <1>3, <3>1, <3>2
  <2> QED
    BY <2>1, <2>2, <2>3 DEF Run
<1>4. ASSUME NEW t \in TxIds, call'[t] = "open", t \notin dropped', NEW n \in Nat,
             n >= Len(given'[t]), n < made'[t]
      PROVE  OneOf(InMail(t, n)', InHands(hs, t, n), InStore(store', t, n))
  <2>1. /\ call[t] = "open" /\ n >= Len(given[t]) /\ n < made[t] /\ t \notin dropped
        /\ InStore(store', t, n) = InStore(st, t, n)
    BY <1>2, <1>3, <1>4 DEF InStore
  <2>2. OneOf(InMail(t, n), InHands(hs, t, n), InStore(st, t, n))
    BY <2>1 DEF KeptIn
  <2> QED
    BY <1>1, <2>1, <2>2
<1> QED
  BY <1>4, KeptAfter

\* A packet that listen() returned goes where somebody holds it.
LEMMA FiledFinds ==
    ASSUME store \in [TxIds -> SUBSET Packet], NEW p, NEW tx \in TxIds, NEW n
    PROVE  InStore(StoreWith(p), tx, n)
             = InStore(store, tx, n) \cup (IF ReplyAt(p, tx, n) THEN {p} ELSE {})
  BY DEF InStore, StoreWith, ReplyAt

LEMMA PacketSteps ==
    ASSUME AsyncInv, AsyncInv', PacketInv, [AsyncNext]_asyncVars
    PROVE  PacketInv'
<1>t. /\ store \in [TxIds -> SUBSET Packet] /\ call \in [TxIds -> StreamState]
      /\ given \in [TxIds -> Seq(Nat)] /\ made \in [TxIds -> Nat]
      /\ hand \in [TxIds -> Packet \cup {NoPacket}] /\ task \in [TxIds -> TaskState]
      /\ ServiceInv /\ Filed(store)
  BY DEF AsyncInv, AsyncTypeOK, ServiceTypeOK
<1>f. \A tx \in TxIds, n \in Nat : n >= Len(given[tx]) /\ n < made[tx]
         /\ call[tx] = "open" /\ tx \notin dropped =>
            OneOf(InMail(tx, n), InHands(hand, tx, n), InStore(store, tx, n))
  BY DEF PacketInv, KeptIn
\* What is left to be shown of a step that keeps calls closed.
<1>1. ASSUME HandsInv', KeptIn(hand, store)', made' = made,
             \A tx \in TxIds : call'[tx] = "none" => call[tx] = "none"
      PROVE  PacketInv'
  BY <1>1 DEF PacketInv
<1>2. ASSUME UNCHANGED <<mail, made, hand, store, given>>, dropped \subseteq dropped',
             \A tx \in TxIds : call'[tx] = "open" => call[tx] = "open"
      PROVE  KeptIn(hand, store)'
  <2>1. \A tx \in TxIds, n \in Nat : InMail(tx, n)' = InMail(tx, n)
    BY <1>2, MailStays
  <2>2. \A tx \in TxIds : call'[tx] = "open" /\ tx \notin dropped' =>
           \A n \in Nat : n >= Len(given'[tx]) /\ n < made'[tx] =>
              OneOf(InMail(tx, n)', InHands(hand, tx, n), InStore(store, tx, n))
    BY <1>f, <1>2, <2>1
  <2> QED
    BY <1>2, <2>2, KeptAfter
<1>3. CASE Serving
  <2>1. UNCHANGED <<call, given, task, pool, hand, store, dropped>> /\ Serve
    BY <1>3 DEF Serving, callVars
  <2>2. ASSUME NEW tx \in TxIds, call[tx] = "open", tx \notin dropped, NEW n \in Nat,
               n >= Len(given[tx]), n < made'[tx]
        PROVE  OneOf(InMail(tx, n)', InHands(hand, tx, n), InStore(store, tx, n))
    <3>1. /\ n < made[tx] => InMail(tx, n)' = InMail(tx, n)
          /\ n >= made[tx] => InMail(tx, n) = {} /\ Single(InMail(tx, n)')
      BY <1>t, <2>1, <2>2, ServeFinds DEF callVars
    <3>2. CASE n < made[tx]
      BY <1>f, <2>2, <3>1, <3>2
    <3>3. CASE n >= made[tx]
      <4>1. InHands(hand, tx, n) = {}
        BY <1>t, <3>3 DEF InHands, ReplyAt, AsyncInv, HandsOK, Honest
      <4>2. InStore(store, tx, n) = {}
        BY <1>t, <3>3 DEF InStore, ReplyAt, Filed, Honest
      <4> QED
        BY <3>1, <3>3, <4>1, <4>2 DEF OneOf
    <3> QED
      BY <1>t, <3>2, <3>3
  <2>3. KeptIn(hand, store)'
    BY <2>1, <2>2, KeptAfter
  <2>4. \A tx \in TxIds : call[tx] = "none" => made'[tx] = made[tx]
    BY <1>t, <2>1 DEF Serve, Reply, Respond
  <2> QED
    BY <2>1, <2>3, <2>4 DEF PacketInv, HandsInv
<1>4. CASE Stop \/ Stopped \/ UNCHANGED asyncVars
  <2>1. UNCHANGED <<mail, made, hand, store, given, dropped, call, task, pool>>
    BY <1>4 DEF Stop, Stopped, asyncVars, serviceVars, callVars
  <2>2. KeptIn(hand, store)'
    BY <1>2, <2>1
  <2> QED
    BY <1>1, <2>1, <2>2 DEF PacketInv, HandsInv
<1>5. CASE SyncListen
  <2>1. /\ UNCHANGED <<made, call, given, task, pool, hand, dropped>>
        /\ mail' = RestOfMail /\ store' = StoreWith(Listened)
    BY <1>5 DEF SyncListen, callVars
  <2>2. ASSUME NEW tx \in TxIds, call[tx] = "open", tx \notin dropped, NEW n \in Nat,
               n >= Len(given[tx]), n < made[tx]
        PROVE  OneOf(InMail(tx, n)', InHands(hand, tx, n), InStore(store', tx, n))
    <3>1. OneOf(InMail(tx, n), InHands(hand, tx, n), InStore(store, tx, n))
      BY <1>f, <2>2
    <3>2. InStore(store', tx, n)
            = InStore(store, tx, n) \cup (IF ReplyAt(Listened, tx, n) THEN {Listened} ELSE {})
      BY <1>t, <2>1, FiledFinds
    <3>3. /\ ReplyAt(Listened, tx, n) =>
               /\ InMail(tx, n) # {}
               /\ Single(InMail(tx, n)) => InMail(tx, n)' = {}
          /\ ~ReplyAt(Listened, tx, n) =>
               /\ Single(InMail(tx, n)) => Single(InMail(tx, n)')
               /\ InMail(tx, n) = {} => InMail(tx, n)' = {}
      BY <1>t, <2>1, ListenFinds
    <3> QED
      BY <3>1, <3>2, <3>3 DEF OneOf, Single
  <2>3. KeptIn(hand, store)'
    BY <2>1, <2>2, KeptAfter
  <2> QED
    BY <1>1, <2>1, <2>3 DEF PacketInv, HandsInv
<1>6. ASSUME NEW tx \in TxIds, Ask(tx)
      PROVE  PacketInv'
  <2>1. /\ UNCHANGED <<mail, made, hand, store, given, dropped, pool>>
        /\ call[tx] = "none" /\ call' = [call EXCEPT ![tx] = "open"]
        /\ task' = [task EXCEPT ![tx] = "held"]
    BY <1>6 DEF Ask, Ends, serviceVars
  <2>2. hand[tx] = NoPacket
    <3>1. task[tx] # "listening"
      BY <2>1 DEF AsyncInv, Tasks, Asking, Awaiting
    <3> QED
      BY <3>1 DEF PacketInv, HandsInv
  <2>3. HandsInv'
    BY <1>t, <2>1, <2>2 DEF PacketInv, HandsInv
  <2>4. KeptIn(hand, store)'
    <3>1. \A t \in TxIds, n \in Nat : InMail(t, n)' = InMail(t, n)
      BY <2>1, MailStays
    <3>2. made[tx] = 0
      BY <2>1 DEF PacketInv
    <3>3. \A t \in TxIds : call'[t] = "open" /\ t \notin dropped' =>
             \A n \in Nat : n >= Len(given'[t]) /\ n < made'[t] =>
                OneOf(InMail(t, n)', InHands(hand, t, n), InStore(store, t, n))
      BY <1>t, <1>f, <2>1, <3>1, <3>2
    <3> QED
      BY <2>1, <3>3, KeptAfter
  <2> QED
    BY <1>t, <1>1, <2>1, <2>3, <2>4
<1>7. ASSUME NEW tx \in TxIds, Next(tx) \/ Wake(tx)
      PROVE  PacketInv'
  <2>1. /\ task[tx] \in {"held", "ready"} /\ Run(tx, store, lock, task)
        /\ UNCHANGED <<mail, made, hand, dropped>>
    BY <1>7 DEF Next, Wake, serviceVars
  <2>2. KeptIn(hand, store)'
    BY <1>t, <2>1, RunKeepsPackets DEF PacketInv
  <2>3. \A t \in TxIds \ {tx} : task'[t] = task[t] /\ (t \in pool' => t \in pool)
    BY <1>t, <2>1
    DEF Run, Exhaust, Take, Listen, WaitForListener, BecomeListener, ClientIsGone
  <2>4. hand[tx] = NoPacket
    BY <2>1 DEF PacketInv, HandsInv
  <2>5. HandsInv'
    BY <2>1, <2>3, <2>4 DEF PacketInv, HandsInv
  <2>6. \A t \in TxIds : call'[t] = "none" => call[t] = "none"
    BY <1>t, <2>1
    DEF Run, Exhaust, Take, Listen, WaitForListener, BecomeListener, ClientIsGone, Ends
  <2> QED
    BY <1>1, <2>1, <2>2, <2>5, <2>6
<1>8. ASSUME NEW tx \in TxIds, Deliver(tx)
      PROVE  PacketInv'
  <2> DEFINE p == hand[tx]
             hs == [hand EXCEPT ![tx] = NoPacket]
             st == StoreWith(p)
  <2>1. /\ Run(tx, st, NoTask, Woken) /\ hand' = hs
        /\ UNCHANGED <<mail, made, dropped>>
    BY <1>8 DEF Deliver, serviceVars
  <2>2. Filed(st)
    BY <1>t, StoreKeeps DEF AsyncInv, HandsOK
  <2>3. KeptIn(hs, st)
    <3> SUFFICES ASSUME NEW t \in TxIds, call[t] = "open", t \notin dropped, NEW n \in Nat,
                        n >= Len(given[t]), n < made[t]
                 PROVE  OneOf(InMail(t, n), InHands(hs, t, n), InStore(st, t, n))
      BY DEF KeptIn
    <3>1. OneOf(InMail(t, n), InHands(hand, t, n), InStore(store, t, n))
      BY <1>f
    <3>2. InStore(st, t, n) = InStore(store, t, n)
                                \cup (IF ReplyAt(p, t, n) THEN {p} ELSE {})
      BY <1>t, FiledFinds
    <3>3. InHands(hs, t, n) = InHands(hand, t, n) \ {tx}
      BY <1>t DEF InHands, ReplyAt
    <3>4. tx \in InHands(hand, t, n) <=> ReplyAt(p, t, n)
      BY DEF InHands
    <3> QED
      BY <3>1, <3>2, <3>3, <3>4 DEF OneOf, Single
  <2>4. KeptIn(hand, store)'
    <3> HIDE DEF hs, st
    <3> QED
      BY <2>1, <2>2, <2>3, RunKeepsPackets
  <2>5. \A t \in TxIds \ {tx} : /\ task[t] = "listening" => task'[t] = "listening"
                                /\ t \in pool' => t \in pool
    <3> HIDE DEF st
    <3>1. Woken \in [TxIds -> TaskState]
      BY WokenKeeps DEF Tasks
    <3>2. \A t \in TxIds : task[t] = "listening" => Woken[t] = "listening"
      BY DEF Woken
    <3> QED
      BY <1>t, <2>1, <3>1, <3>2
      DEF Run, Exhaust, Take, Listen, WaitForListener, BecomeListener, ClientIsGone
  <2>6. HandsInv'
    BY <1>t, <2>1, <2>5 DEF PacketInv, HandsInv
  <2>7. \A t \in TxIds : call'[t] = "none" => call[t] = "none"
    <3> HIDE DEF st
    <3> QED
      BY <1>t, <2>1
      DEF Run, Exhaust, Take, Listen, WaitForListener, BecomeListener, ClientIsGone, Ends
  <2> QED
    BY <1>1, <2>1, <2>4, <2>6, <2>7
<1>9. ASSUME NEW tx \in TxIds, Leave(tx)
      PROVE  PacketInv'
  <2>1. /\ UNCHANGED <<mail, made, hand, store, given, dropped, pool>>
        /\ call' = [call EXCEPT ![tx] = "abandoned"] /\ task[tx] = "held"
        /\ task' = [task EXCEPT ![tx] = "over"]
    BY <1>9 DEF Leave, Ends, serviceVars
  <2>2. HandsInv'
    BY <1>t, <2>1 DEF PacketInv, HandsInv
  <2>3. /\ \A t \in TxIds : call'[t] = "open" => call[t] = "open"
        /\ \A t \in TxIds : call'[t] = "none" => call[t] = "none"
    BY <1>t, <2>1
  <2> QED
    BY <1>1, <1>2, <2>1, <2>2, <2>3
<1>10. ASSUME NEW tx \in TxIds, Cancel(tx)
       PROVE  PacketInv'
  <2>1. /\ UNCHANGED <<mail, made, store, given>>
        /\ call' = [call EXCEPT ![tx] = "abandoned"]
        /\ task' = [task EXCEPT ![tx] = "over"] /\ pool' \subseteq pool
        /\ hand' = [hand EXCEPT ![tx] = NoPacket]
        /\ dropped' = IF hand[tx] = NoPacket THEN dropped ELSE dropped \cup {hand[tx].tx}
    BY <1>10 DEF Cancel, Ends, Loses, serviceVars
  <2>2. HandsInv'
    BY <1>t, <2>1 DEF PacketInv, HandsInv
  <2>3. ASSUME NEW t \in TxIds, call'[t] = "open", t \notin dropped', NEW n \in Nat,
               n >= Len(given[t]), n < made[t]
        PROVE  OneOf(InMail(t, n)', InHands(hand', t, n), InStore(store, t, n))
    <3>1. call[t] = "open" /\ t \notin dropped /\ ~ReplyAt(hand[tx], t, n)
      BY <1>t, <2>1, <2>3 DEF ReplyAt
    <3>2. InHands(hand', t, n) = InHands(hand, t, n)
      BY <1>t, <2>1, <3>1 DEF InHands, ReplyAt
    <3>3. InMail(t, n)' = InMail(t, n)
      BY <2>1, MailStays
    <3> QED
      BY <1>f, <2>3, <3>1, <3>2, <3>3
  <2>4. KeptIn(hand, store)'
    BY <2>1, <2>3, KeptAfter
  <2>5. \A t \in TxIds : call'[t] = "none" => call[t] = "none"
    BY <1>t, <2>1
  <2> QED
    BY <1>1, <2>1, <2>2, <2>4, <2>5
<1>11. ASSUME NEW tx \in TxIds, Thread(tx)
       PROVE  PacketInv'
  <2>1. /\ UNCHANGED <<made, call, given, task, store>>
        /\ tx \in pool /\ pool' = pool \ {tx} /\ mail' = RestOfMail
        /\ \/ /\ task[tx] = "listening" /\ hand' = [hand EXCEPT ![tx] = Listened]
              /\ dropped' = dropped
           \/ /\ dropped' = IF Listened = NoPacket THEN dropped
                            ELSE dropped \cup {Listened.tx}
              /\ hand' = hand
    BY <1>11 DEF Thread, Loses, callVars
  <2>2. hand[tx] = NoPacket
    BY <2>1 DEF PacketInv, HandsInv
  <2>3. HandsInv'
    BY <1>t, <2>1, <2>2 DEF PacketInv, HandsInv
  <2>4. ASSUME NEW t \in TxIds, call[t] = "open", t \notin dropped', NEW n \in Nat,
               n >= Len(given[t]), n < made[t]
        PROVE  OneOf(InMail(t, n)', InHands(hand', t, n), InStore(store, t, n))
    <3>1. OneOf(InMail(t, n), InHands(hand, t, n), InStore(store, t, n))
      BY <1>f, <2>1, <2>4
    <3>2. /\ ReplyAt(Listened, t, n) =>
               /\ InMail(t, n) # {}
               /\ Single(InMail(t, n)) => InMail(t, n)' = {}
          /\ ~ReplyAt(Listened, t, n) =>
               /\ Single(InMail(t, n)) => Single(InMail(t, n)')
               /\ InMail(t, n) = {} => InMail(t, n)' = {}
      BY <1>t, <2>1, ListenFinds
    <3>3. CASE hand' = [hand EXCEPT ![tx] = Listened]
      <4>1. InHands(hand', t, n) = InHands(hand, t, n)
                                     \cup (IF ReplyAt(Listened, t, n) THEN {tx} ELSE {})
        BY <1>t, <2>2, <3>3 DEF InHands, ReplyAt
      <4> QED
        BY <3>1, <3>2, <4>1 DEF OneOf, Single
    <3>4. CASE hand' = hand /\ t # Listened.tx
      <4>1. ~ReplyAt(Listened, t, n)
        BY <3>4 DEF ReplyAt
      <4> QED
        BY <3>1, <3>2, <3>4, <4>1 DEF OneOf
    <3>5. CASE hand' = hand /\ Listened = NoPacket
      <4>1. ~ReplyAt(Listened, t, n)
        BY <3>5 DEF ReplyAt
      <4> QED
        BY <3>1, <3>2, <3>5, <4>1 DEF OneOf
    <3> QED
      BY <2>1, <2>4, <3>3, <3>4, <3>5
  <2>5. KeptIn(hand, store)'
    BY <2>1, <2>4, KeptAfter
  <2> QED
    BY <1>1, <2>1, <2>3, <2>5
<1> QED
  BY <1>3, <1>4, <1>5, <1>6, <1>7, <1>8, <1>9, <1>10, <1>11 DEF AsyncNext

\* runtime.py:43-53 and 96-114: a reply that its open call has not been given
\* is in one place, the mailbox, the hand of a listener or _exec_responses,
\* however coroutines listen for each other.
THEOREM PacketsStay == AsyncSpec => []PacketsAreKept
<1>1. AsyncInit => AsyncInv /\ PacketInv
  <2>1. AsyncInit => PacketInv
    BY DEF AsyncInit, ServiceInit, PacketInv, HandsInv, KeptIn
  <2> QED
    BY <2>1, AsyncStarts
<1>2. AsyncInv /\ PacketInv /\ [AsyncNext]_asyncVars => AsyncInv' /\ PacketInv'
  BY AsyncSteps, PacketSteps
<1>3. AsyncInv /\ PacketInv => PacketsAreKept
  <2> SUFFICES ASSUME AsyncInv, PacketInv, NEW tx \in TxIds, call[tx] = "open",
                      tx \notin dropped, NEW n \in Len(given[tx]) .. made[tx] - 1
               PROVE  Places(tx, n) = 1
    BY DEF PacketsAreKept
  <2>1. given[tx] \in Seq(Nat) /\ made[tx] \in Nat
    BY DEF AsyncInv, AsyncTypeOK, ServiceTypeOK
  <2>2. n \in Nat /\ n >= Len(given[tx]) /\ n < made[tx]
    BY <2>1
  <2>3. OneOf(InMail(tx, n), InHands(hand, tx, n), InStore(store, tx, n))
    BY <2>2 DEF PacketInv, KeptIn
  <2>4. Cardinality(InMail(tx, n)) + Cardinality(InHands(hand, tx, n))
          + Cardinality(InStore(store, tx, n)) = 1
    BY <2>3, OneOfCounts
  <2> QED
    BY <2>4 DEF Places, InMail, InHands, InStore, ReplyAt
<1> QED
  BY <1>1, <1>2, <1>3, PTL DEF AsyncSpec

=============================================================================

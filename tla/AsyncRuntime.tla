---------------------------- MODULE AsyncRuntime ----------------------------
(***************************************************************************)
(* AsyncRuntime of bindings/python/ailoy/runtime.py: coroutines on one     *)
(* event loop, each iterating over the replies to its own execute, that    *)
(* share one socket.  The one that finds no listener (_listen_lock is None)*)
(* listens for all, on a thread of the pool; the others wait for its event.*)
(*                                                                         *)
(* A step of the event loop runs a coroutine up to its next await.  The    *)
(* binding of listen() keeps the interpreter lock, so the thread that runs *)
(* it is one step, but the packet it returns reaches the loop in a later   *)
(* one.  The generator of a call is as in module Runtime.                  *)
(***************************************************************************)
EXTENDS Service

CONSTANTS
    Cancellable,    \* the calls whose task may be cancelled
    Stops,          \* whether stop() is called
    NoTask          \* no coroutine

ASSUME CancellableAssumption == Cancellable \subseteq TxIds
ASSUME StopsAssumption == Stops \in BOOLEAN
ASSUME NoTaskAssumption == NoTask \notin TxIds

VARIABLES
    task,           \* task[tx]: the coroutine that iterates over tx
    finished,       \* finished[tx]: local variable of the generator
    lock,           \* whose event _listen_lock is
    pool,           \* the tx whose to_thread(listen) has yet to run
    hand,           \* hand[tx]: what listen() returned to tx's thread
    store,          \* store[tx]: _exec_responses[txid]
    responses,      \* what is in _responses
    main,           \* the runtime object
    dropped         \* ghost: transactions a cancelled listener lost a packet of

asyncVars == <<made, ended, requested, mail, call, given, task, finished, lock,
               pool, hand, store, responses, main, dropped>>

\* A generator is "held" while its user has a value, or has not begun.
Awaiting == {"ready", "waiting", "listening"}
TaskState == {"none", "held", "over"} \cup Awaiting

AsyncTypeOK ==
    /\ ServiceTypeOK
    /\ task \in [TxIds -> TaskState]
    /\ finished \in [TxIds -> BOOLEAN]
    /\ lock \in TxIds \cup {NoTask}
    /\ pool \subseteq TxIds
    /\ hand \in [TxIds -> Packet \cup {NoPacket}]
    /\ store \in [TxIds -> SUBSET Packet]
    /\ responses \subseteq Controls
    /\ main \in {"loop", "stopping", "stopped"}
    /\ dropped \subseteq TxIds \cup Controls

AsyncInit ==
    /\ ServiceInit
    /\ task = [tx \in TxIds |-> "none"]
    /\ finished = [tx \in TxIds |-> FALSE]
    /\ lock = NoTask
    /\ pool = {}
    /\ hand = [tx \in TxIds |-> NoPacket]
    /\ store = [tx \in TxIds |-> {}]
    /\ responses = {}
    /\ main = "loop"
    /\ dropped = {}

\* stop() does not await: nothing else runs on the loop while it listens.
LoopRuns == main # "stopping"

Ends(tx, how) == call' = [call EXCEPT ![tx] = how]

-----------------------------------------------------------------------------
(* The generator, run from where it waits to its next await or yield, with *)
(* st, lk and ts for the store, the lock and the tasks it finds.           *)

\* After the last value.
Exhaust(tx, st, lk, ts) ==
    /\ finished[tx]
    /\ Ends(tx, "returned")
    /\ store' = [st EXCEPT ![tx] = {}]
    /\ lock' = lk
    /\ task' = [ts EXCEPT ![tx] = "over"]
    /\ UNCHANGED <<given, finished, pool>>

\* Variant: whatever packet is there is taken for the next.
TakeAny(tx, st, lk, ts) ==
    /\ ~finished[tx]
    /\ \E p \in st[tx] :
          /\ store' = [st EXCEPT ![tx] = @ \ {p}]
          /\ finished' = [finished EXCEPT ![tx] = p.end = "finish"]
          /\ IF p.end = "failure"
             THEN /\ Ends(tx, "raised")
                  /\ task' = [ts EXCEPT ![tx] = "over"]
                  /\ UNCHANGED given
             ELSE /\ given' = [given EXCEPT ![tx] = Append(@, p.seq)]
                  /\ task' = [ts EXCEPT ![tx] = "held"]
                  /\ UNCHANGED call
    /\ lock' = lk
    /\ UNCHANGED pool

\* The packet is there: yield its value, or raise.
Take(tx, st, lk, ts) ==
    /\ ~finished[tx]
    /\ \E p \in st[tx] :
          /\ p.seq = Len(given[tx])
          /\ store' = [st EXCEPT ![tx] = @ \ {p}]
          /\ finished' = [finished EXCEPT ![tx] = p.end = "finish"]
          /\ IF p.end = "failure"
             THEN /\ Ends(tx, "raised")
                  /\ task' = [ts EXCEPT ![tx] = "over"]
                  /\ UNCHANGED given
             ELSE /\ given' = [given EXCEPT ![tx] = Append(@, p.seq)]
                  /\ task' = [ts EXCEPT ![tx] = "held"]
                  /\ UNCHANGED call
    /\ lock' = lk
    /\ UNCHANGED pool

\* _listen: wait for the one who listens ...
WaitForListener(tx, lk, ts) ==
    /\ lk # NoTask
    /\ task' = [ts EXCEPT ![tx] = "waiting"]
    /\ lock' = lk
    /\ UNCHANGED <<call, pool>>

\* ... or listen ...
BecomeListener(tx, lk, ts) ==
    /\ lk = NoTask /\ main = "loop"
    /\ task' = [ts EXCEPT ![tx] = "listening"]
    /\ lock' = tx
    /\ pool' = pool \cup {tx}
    /\ UNCHANGED call

\* ... which after stop() fails at self._client.listen, with the lock taken.
ClientIsGone(tx, lk, ts) ==
    /\ lk = NoTask /\ main = "stopped"
    /\ task' = [ts EXCEPT ![tx] = "over"]
    /\ lock' = tx
    /\ Ends(tx, "abandoned")
    /\ UNCHANGED pool

Listen(tx, st, lk, ts) ==
    /\ ~finished[tx]
    /\ \A p \in st[tx] : p.seq # Len(given[tx])
    /\ \/ WaitForListener(tx, lk, ts)
       \/ BecomeListener(tx, lk, ts)
       \/ ClientIsGone(tx, lk, ts)
    /\ store' = st
    /\ UNCHANGED <<given, finished>>

Run(tx, st, lk, ts) ==
    \/ Exhaust(tx, st, lk, ts)
    \/ Take(tx, st, lk, ts)
    \/ Listen(tx, st, lk, ts)

-----------------------------------------------------------------------------
(* Steps of the event loop.                                                *)

\* call_iter, call, define, delete: the execute is sent at once.
Ask(tx) ==
    /\ main = "loop" /\ call[tx] = "none"
    /\ Ends(tx, "open")
    /\ task' = [task EXCEPT ![tx] = "held"]
    /\ UNCHANGED <<serviceVars, given, finished, lock, pool, hand, store,
                   responses, main, dropped>>

\* The user asks for the next value.
Next(tx) ==
    /\ LoopRuns /\ task[tx] = "held"
    /\ Run(tx, store, lock, task)
    /\ UNCHANGED <<serviceVars, hand, responses, main, dropped>>

\* A coroutine whose event was set runs on.
Wake(tx) ==
    /\ LoopRuns /\ task[tx] = "ready"
    /\ Run(tx, store, lock, task)
    /\ UNCHANGED <<serviceVars, hand, responses, main, dropped>>

\* Variant: a packet replaces those of its transaction that nobody has taken.
StoreOnly(p) ==
    [tx \in TxIds |-> IF p # NoPacket /\ p.tx = tx THEN {p} ELSE store[tx]]

\* Where a packet goes: _exec_responses or _responses.
StoreWith(p) ==
    [tx \in TxIds |-> IF p # NoPacket /\ p.tx = tx THEN store[tx] \cup {p}
                                                   ELSE store[tx]]
ResponsesWith(p) ==
    IF p # NoPacket /\ p.tx \in Controls THEN responses \cup {p.tx} ELSE responses

\* Variant: the event is never set.
WokenNone == task

\* Setting the event makes those that wait for it ready.
Woken == [tx \in TxIds |-> IF task[tx] = "waiting" THEN "ready" ELSE task[tx]]

\* Variant: the lock is not given up.
DeliverLocked(tx) ==
    /\ LoopRuns /\ task[tx] = "listening" /\ tx \notin pool
    /\ Run(tx, StoreWith(hand[tx]), lock, Woken)
    /\ responses' = ResponsesWith(hand[tx])
    /\ hand' = [hand EXCEPT ![tx] = NoPacket]
    /\ UNCHANGED <<serviceVars, main, dropped>>

\* The listener gets its thread's packet, files it, sets the event, gives up
\* the lock, and goes on with its own loop before anybody it woke.
Deliver(tx) ==
    /\ LoopRuns /\ task[tx] = "listening" /\ tx \notin pool
    /\ Run(tx, StoreWith(hand[tx]), NoTask, Woken)
    /\ responses' = ResponsesWith(hand[tx])
    /\ hand' = [hand EXCEPT ![tx] = NoPacket]
    /\ UNCHANGED <<serviceVars, main, dropped>>

\* The user breaks out of the loop over the values.
Leave(tx) ==
    /\ LoopRuns /\ task[tx] = "held"
    /\ Ends(tx, "abandoned")
    /\ task' = [task EXCEPT ![tx] = "over"]
    /\ UNCHANGED <<serviceVars, given, finished, lock, pool, hand, store,
                   responses, main, dropped>>

Loses(p) == dropped' = IF p = NoPacket THEN dropped ELSE dropped \cup {p.tx}

\* The task of tx is cancelled where it waits.  There is no "finally" in
\* _listen: a listener leaves its event unset and the lock taken.  A thread
\* that has not begun is withdrawn, any other runs on for nobody.
Cancel(tx) ==
    /\ LoopRuns /\ tx \in Cancellable /\ task[tx] \in Awaiting
    /\ Ends(tx, "abandoned")
    /\ task' = [task EXCEPT ![tx] = "over"]
    /\ pool' \in {pool, pool \ {tx}}
    /\ Loses(hand[tx])
    /\ hand' = [hand EXCEPT ![tx] = NoPacket]
    /\ UNCHANGED <<serviceVars, given, finished, lock, store, responses, main>>

\* A thread of the pool runs listen().
Thread(tx) ==
    /\ tx \in pool
    /\ pool' = pool \ {tx}
    /\ mail' = RestOfMail
    /\ IF task[tx] = "listening"
       THEN hand' = [hand EXCEPT ![tx] = Listened] /\ UNCHANGED dropped
       ELSE Loses(Listened) /\ UNCHANGED hand
    /\ UNCHANGED <<made, ended, requested, callVars, task, finished, lock, store,
                   responses, main>>

\* stop() (which is not a coroutine): send disconnect ...
Stop ==
    /\ Stops /\ main = "loop"
    /\ main' = "stopping"
    /\ requested' = requested \cup {"disconnect"}
    /\ UNCHANGED <<made, ended, mail, callVars, task, finished, lock, pool, hand,
                   store, responses, dropped>>

\* ... and _sync_listen until the response is there ...
SyncListen ==
    /\ main = "stopping" /\ "disconnect" \notin responses
    /\ mail # <<>>
    /\ store' = StoreWith(Listened)
    /\ responses' = ResponsesWith(Listened)
    /\ mail' = RestOfMail
    /\ UNCHANGED <<made, ended, requested, callVars, task, finished, lock, pool,
                   hand, main, dropped>>

\* ... and stop the threads.
Stopped ==
    /\ main = "stopping" /\ "disconnect" \in responses
    /\ main' = "stopped"
    /\ UNCHANGED <<serviceVars, callVars, task, finished, lock, pool, hand, store,
                   responses, dropped>>

\* The VM and the broker, until their threads are stopped.
Serving ==
    /\ main # "stopped"
    /\ Serve
    /\ UNCHANGED <<callVars, task, finished, lock, pool, hand, store, responses,
                   main, dropped>>

AsyncNext ==
    \/ Serving \/ Stop \/ SyncListen \/ Stopped
    \/ \E tx \in TxIds :
          \/ Ask(tx) \/ Next(tx) \/ Wake(tx) \/ Deliver(tx)
          \/ Leave(tx) \/ Cancel(tx) \/ Thread(tx)

AsyncSpec == AsyncInit /\ [][AsyncNext]_asyncVars

\* The loop runs what is ready, the pool its threads, the service answers.
\* What is not forced: anything a user does.
AsyncFairness ==
    /\ WF_asyncVars(Serving)
    /\ WF_asyncVars(SyncListen \/ Stopped)
    /\ \A tx \in TxIds : /\ WF_asyncVars(Wake(tx))
                         /\ WF_asyncVars(Deliver(tx))
                         /\ WF_asyncVars(Thread(tx))

AsyncFairSpec == AsyncSpec /\ AsyncFairness

-----------------------------------------------------------------------------
(* Properties.                                                             *)

\* Values reach their caller in order, each once, and the call ends where the
\* VM ended it, however the coroutines take turns in listening for each other,
\* are cancelled or stopped.
AsyncKeepsPromise == Promised!StreamsSpec

\* No coroutine waits for an event nobody will set: the one whose event it is
\* listens, or was cancelled while it did; or stop() has closed the runtime.
SomebodyListens ==
    \A tx \in TxIds :
        task[tx] = "waiting" =>
            \/ lock \in TxIds /\ task[lock] = "listening"
            \/ lock \in Cancellable /\ call[lock] = "abandoned"
            \/ main = "stopped"

\* A reply an open call has not taken is in exactly one place: in the mailbox,
\* with the listener, or in _exec_responses.
Places(tx, n) ==
    LET Is(p) == p # NoPacket /\ p.tx = tx /\ p.seq = n
    IN  Cardinality({i \in DOMAIN mail : Is(mail[i])})
        + Cardinality({l \in TxIds : Is(hand[l])})
        + Cardinality({p \in store[tx] : Is(p)})
PacketsAreKept ==
    \A tx \in TxIds :
        call[tx] = "open" /\ tx \notin dropped =>
            \A n \in Len(given[tx]) .. made[tx] - 1 : Places(tx, n) = 1

\* Whoever awaits the next value comes to have it, or the end of the call, as
\* long as the runtime is not stopped: no wake-up is missed and no packet is
\* filed where nobody looks.  Except when a listener is cancelled, which keeps its
\* lock for ever and may take a packet of the call with it.
LockIsOrphaned == lock \in TxIds /\ task[lock] = "over"
AwaitReturns ==
    \A tx \in TxIds :
        task[tx] \in Awaiting ~>
            task[tx] \in {"held", "over"} \/ main # "loop" \/ LockIsOrphaned

\* stop() returns, unless the thread of a coroutine's listen() takes the
\* response to its disconnect.
TakenFromStop ==
    \/ "disconnect" \in dropped
    \/ \E tx \in TxIds : hand[tx] # NoPacket /\ hand[tx].tx = "disconnect"
AsyncStopReturns == main = "stopping" ~> main = "stopped" \/ TakenFromStop

\* runtime.py:43-53 and 96-114: nobody waits for ever, in a coroutine or in stop().
TasksReturn == AwaitReturns /\ AsyncStopReturns

=============================================================================

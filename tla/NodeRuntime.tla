----------------------------- MODULE NodeRuntime -----------------------------
(***************************************************************************)
(* Runtime of bindings/js-node/src/runtime.ts.  Every next(), start() and  *)
(* stop() registers a resolver and then loops over listen() until it is    *)
(* gone.  All loops share the promise of the one listen that is running;   *)
(* when its packet comes, the resolver it is for is called, and then that  *)
(* promise is resolved: the continuations of both are queued as jobs, the  *)
(* user's before those of the loops.  Jobs run in their order before the   *)
(* next event.                                                             *)
(*                                                                         *)
(* User code runs between any two jobs (it may await what it likes         *)
(* meanwhile), but never calls next() before the last one is settled, nor  *)
(* after the call has raised.                                              *)
(***************************************************************************)
EXTENDS Service

CONSTANT NoIndex    \* no resolver

ASSUME NoIndexAssumption == NoIndex \notin Nat

VARIABLES
    user,           \* user[tx]: the user's loop over the values of tx
    idx,            \* idx[tx]: number the next next() asks for
    finished,       \* finished[tx]: local variable of the iterator
    execResolvers,  \* execResolvers[tx]: index of the resolver, if any
    execResponses,  \* execResponses[tx]: buffered packets
    resolvers,      \* connect and disconnect if they are waited for
    listener,       \* whether there is a listener promise
    waiting,        \* the loops that await it, in order
    busy,           \* how many listen() run on threads of the pool
    arrived,        \* what they returned, not yet seen by the main thread
    jobs,           \* continuations to be run
    alive,          \* alive
    main,           \* what the user has been told of start() and stop()
    threads         \* whether the threads of broker and VM run

iterVars == <<user, idx, finished, execResolvers, execResponses>>
loopVars == <<listener, waiting, busy>>
lifeVars == <<alive, main, threads>>
nodeVars == <<made, ended, requested, mail, call, given, iterVars, resolvers,
              loopVars, arrived, jobs, lifeVars>>

Loops == TxIds \cup Controls
Outcome == {"value", "done", "failure"}
Job == [loop : Loops] \cup [user : Loops, outcome : Outcome, seq : Nat]

NodeTypeOK ==
    /\ ServiceTypeOK
    /\ user \in [TxIds -> {"none", "held", "awaiting", "over"}]
    /\ idx \in [TxIds -> Nat]
    /\ finished \in [TxIds -> BOOLEAN]
    /\ execResolvers \in [TxIds -> Nat \cup {NoIndex}]
    /\ execResponses \in [TxIds -> SUBSET Packet]
    /\ resolvers \subseteq Controls
    /\ listener \in BOOLEAN
    /\ waiting \in Seq(Loops)
    /\ busy \in Nat
    /\ arrived \in Seq(Packet \cup {NoPacket})
    /\ jobs \in Seq(Job)
    /\ alive \in BOOLEAN
    /\ main \in {"new", "starting", "started", "stopping", "stopped"}
    /\ threads \in BOOLEAN

NodeInit ==
    /\ ServiceInit
    /\ user = [tx \in TxIds |-> "none"]
    /\ idx = [tx \in TxIds |-> 0]
    /\ finished = [tx \in TxIds |-> FALSE]
    /\ execResolvers = [tx \in TxIds |-> NoIndex]
    /\ execResponses = [tx \in TxIds |-> {}]
    /\ resolvers = {}
    /\ listener = FALSE
    /\ waiting = <<>>
    /\ busy = 0
    /\ arrived = <<>>
    /\ jobs = <<>>
    /\ alive = FALSE
    /\ main = "new"
    /\ threads = TRUE

-----------------------------------------------------------------------------
(* listen() and what is done with its packet.                              *)

\* Variant: every loop starts a listen of its own.
AwaitListenAnew(l) ==
    /\ listener' = TRUE
    /\ busy' = busy + 1
    /\ waiting' = Append(waiting, l)

\* "await this.listen()": start listening unless somebody does, and wait.
AwaitListen(l) ==
    /\ listener' = TRUE
    /\ busy' = IF listener THEN busy ELSE busy + 1
    /\ waiting' = Append(waiting, l)

\* js_broker_listener_t::Execute, on a thread of the pool.
Execute ==
    /\ busy > 0
    /\ busy' = busy - 1
    /\ arrived' = Append(arrived, Listened)
    /\ mail' = RestOfMail
    /\ UNCHANGED <<made, ended, requested, callVars, iterVars, resolvers, listener,
                   waiting, jobs, lifeVars>>

UserJob(l, o, n) == [user |-> l, outcome |-> o, seq |-> n]

Settled(p) == UserJob(p.tx, IF p.end = "failure" THEN "failure" ELSE "value", p.seq)

WaitingLoops == [i \in DOMAIN waiting |-> [loop |-> waiting[i]]]

registerResponse(p) ==
    /\ p.tx \in resolvers
    /\ resolvers' = resolvers \ {p.tx}
    /\ jobs' = <<UserJob(p.tx, "value", p.seq)>> \o WaitingLoops
    /\ UNCHANGED iterVars

registerExecResponse(p) ==
    /\ p.tx \in TxIds
    /\ IF execResolvers[p.tx] = p.seq
       THEN /\ execResolvers' = [execResolvers EXCEPT ![p.tx] = NoIndex]
            /\ finished' = [finished EXCEPT ![p.tx] = p.end = "finish"]
            /\ jobs' = <<Settled(p)>> \o WaitingLoops
            /\ UNCHANGED execResponses
       ELSE /\ execResponses' = [execResponses EXCEPT ![p.tx] = @ \cup {p}]
            /\ jobs' = WaitingLoops
            /\ UNCHANGED <<execResolvers, finished>>
    /\ UNCHANGED <<user, idx, resolvers>>

listenTimeout(p) ==
    /\ p = NoPacket
    /\ jobs' = WaitingLoops
    /\ UNCHANGED <<iterVars, resolvers>>

\* OnOK resolves the promise of client.listen(); its continuation in listen()
\* clears the listener, files the packet and resolves the listener's promise.
OnOK ==
    /\ jobs = <<>> /\ arrived # <<>>
    /\ LET p == Head(arrived)
       IN IF p = NoPacket THEN listenTimeout(p)
          ELSE registerResponse(p) \/ registerExecResponse(p)
    /\ arrived' = Tail(arrived)
    /\ listener' = FALSE
    /\ waiting' = <<>>
    /\ UNCHANGED <<serviceVars, callVars, busy, lifeVars>>

-----------------------------------------------------------------------------
(* Jobs.                                                                   *)

NextJobIs(kind) == jobs # <<>> /\ kind \in DOMAIN Head(jobs)

\* Variant: "if" for "while", a loop listens once.
ExecLoopOnce ==
    /\ NextJobIs("loop")
    /\ Head(jobs).loop \in TxIds
    /\ jobs' = Tail(jobs)
    /\ UNCHANGED <<serviceVars, callVars, iterVars, resolvers, loopVars, arrived,
                   lifeVars>>

\* while (execResolvers.has(txid)) await listen()
ExecLoop ==
    /\ NextJobIs("loop")
    /\ LET l == Head(jobs).loop IN
          /\ l \in TxIds
          /\ IF execResolvers[l] # NoIndex THEN AwaitListen(l)
                                           ELSE UNCHANGED loopVars
    /\ jobs' = Tail(jobs)
    /\ UNCHANGED <<serviceVars, callVars, iterVars, resolvers, arrived, lifeVars>>

\* while (resolvers.has(txid)) await listen(), and what start() and stop() do
\* after it.
ControlLoop ==
    /\ NextJobIs("loop")
    /\ LET l == Head(jobs).loop IN
          /\ l \in Controls
          /\ IF l \in resolvers
             THEN AwaitListen(l) /\ UNCHANGED <<alive, threads>>
             ELSE /\ alive' = (l = "connect")
                  /\ threads' = (threads /\ l = "connect")
                  /\ UNCHANGED loopVars
    /\ jobs' = Tail(jobs)
    /\ UNCHANGED <<serviceVars, callVars, iterVars, resolvers, arrived, main>>

\* The user's "await next()" continues, or its "for await" ends.
UserGoesOn ==
    /\ NextJobIs("user")
    /\ LET tx == Head(jobs).user
           o == Head(jobs).outcome
           n == Head(jobs).seq
       IN /\ tx \in TxIds
          /\ user' = [user EXCEPT ![tx] = IF o = "value" THEN "held" ELSE "over"]
          /\ given' = IF o = "value"
                      THEN [given EXCEPT ![tx] = Append(@, n)] ELSE given
          /\ call' = [call EXCEPT ![tx] = CASE o = "value" -> @
                                            [] o = "done" -> "returned"
                                            [] o = "failure" -> "raised"]
    /\ jobs' = Tail(jobs)
    /\ UNCHANGED <<serviceVars, idx, finished, execResolvers, execResponses,
                   resolvers, loopVars, arrived, lifeVars>>

\* The user's "await rt.start()" or "await rt.stop()" continues.
UserIsTold ==
    /\ NextJobIs("user")
    /\ Head(jobs).user \in Controls
    /\ main' = IF Head(jobs).user = "connect" THEN "started" ELSE "stopped"
    /\ jobs' = Tail(jobs)
    /\ UNCHANGED <<serviceVars, callVars, iterVars, resolvers, loopVars, arrived,
                   alive, threads>>

-----------------------------------------------------------------------------
(* What users call.                                                        *)

\* Send the packet, register the resolver, begin to loop.
Request(c, l) ==
    /\ requested' = requested \cup {c}
    /\ resolvers' = resolvers \cup {c}
    /\ AwaitListen(c)
    /\ main' = l
    /\ UNCHANGED <<made, ended, mail, callVars, iterVars, arrived, jobs, alive,
                   threads>>

start == main = "new" /\ Request("connect", "starting")

\* A runtime that is not alive has nothing to stop: Promise.resolve().
stop ==
    /\ main = "started"
    /\ IF alive
       THEN Request("disconnect", "stopping")
       ELSE /\ main' = "stopped"
            /\ UNCHANGED <<serviceVars, callVars, iterVars, resolvers, loopVars,
                           arrived, jobs, alive, threads>>

\* callIter, call, define, delete: the execute is sent at once.
callIter(tx) ==
    /\ main = "started" /\ call[tx] = "none"
    /\ call' = [call EXCEPT ![tx] = "open"]
    /\ user' = [user EXCEPT ![tx] = "held"]
    /\ UNCHANGED <<serviceVars, given, idx, finished, execResolvers, execResponses,
                   resolvers, loopVars, arrived, jobs, lifeVars>>

\* next(): no more values ...
NextDone(tx) ==
    /\ finished[tx]
    /\ jobs' = Append(jobs, UserJob(tx, "done", 0))
    /\ UNCHANGED <<idx, finished, execResolvers, execResponses, loopVars>>

\* Variant: any packet in the buffer will do.
NextAnyBuffered(tx) ==
    /\ ~finished[tx]
    /\ \E p \in execResponses[tx] :
          /\ execResponses' = [execResponses EXCEPT ![tx] = @ \ {p}]
          /\ finished' = [finished EXCEPT ![tx] = p.end = "finish"]
          /\ jobs' = Append(jobs, Settled(p))
    /\ idx' = [idx EXCEPT ![tx] = @ + 1]
    /\ UNCHANGED <<execResolvers, loopVars>>

\* Variant: setFinish() is forgotten.
NextBufferedUnfinished(tx) ==
    /\ ~finished[tx]
    /\ \E p \in execResponses[tx] :
          /\ p.seq = idx[tx]
          /\ execResponses' = [execResponses EXCEPT ![tx] = @ \ {p}]
          /\ jobs' = Append(jobs, Settled(p))
    /\ idx' = [idx EXCEPT ![tx] = @ + 1]
    /\ UNCHANGED <<finished, execResolvers, loopVars>>

\* ... or one that is in the buffer ...
NextBuffered(tx) ==
    /\ ~finished[tx]
    /\ \E p \in execResponses[tx] :
          /\ p.seq = idx[tx]
          /\ execResponses' = [execResponses EXCEPT ![tx] = @ \ {p}]
          /\ finished' = [finished EXCEPT ![tx] = p.end = "finish"]
          /\ jobs' = Append(jobs, Settled(p))
    /\ idx' = [idx EXCEPT ![tx] = @ + 1]
    /\ UNCHANGED <<execResolvers, loopVars>>

\* ... or one to come.
NextListens(tx) ==
    /\ ~finished[tx]
    /\ \A p \in execResponses[tx] : p.seq # idx[tx]
    /\ execResolvers' = [execResolvers EXCEPT ![tx] = idx[tx]]
    /\ idx' = [idx EXCEPT ![tx] = @ + 1]
    /\ AwaitListen(tx)
    /\ UNCHANGED <<finished, execResponses, jobs>>

next(tx) ==
    /\ user[tx] = "held"
    /\ user' = [user EXCEPT ![tx] = "awaiting"]
    /\ NextDone(tx) \/ NextBuffered(tx) \/ NextListens(tx)
    /\ UNCHANGED <<serviceVars, callVars, resolvers, arrived, lifeVars>>

\* The user breaks out of the loop over the values.
Leave(tx) ==
    /\ user[tx] = "held"
    /\ user' = [user EXCEPT ![tx] = "over"]
    /\ call' = [call EXCEPT ![tx] = "abandoned"]
    /\ UNCHANGED <<serviceVars, given, idx, finished, execResolvers, execResponses,
                   resolvers, loopVars, arrived, jobs, lifeVars>>

\* The VM and the broker, until their threads are stopped.
Serving ==
    /\ threads
    /\ Serve
    /\ UNCHANGED <<callVars, iterVars, resolvers, loopVars, arrived, jobs, lifeVars>>

RunJob == ExecLoop \/ ControlLoop \/ UserGoesOn \/ UserIsTold

NodeNext ==
    \/ Serving \/ Execute \/ OnOK \/ RunJob \/ start \/ stop
    \/ \E tx \in TxIds : callIter(tx) \/ next(tx) \/ Leave(tx)

NodeSpec == NodeInit /\ [][NodeNext]_nodeVars

\* Node runs its jobs and events, the pool its threads, the service answers.
\* What is not forced: anything a user does.
NodeFairness ==
    /\ WF_nodeVars(Serving)
    /\ WF_nodeVars(Execute)
    /\ WF_nodeVars(OnOK)
    /\ WF_nodeVars(RunJob)

NodeFairSpec == NodeSpec /\ NodeFairness

-----------------------------------------------------------------------------
(* Properties.                                                             *)

\* Values reach their caller in order, each once, and the call ends where the
\* VM ended it, although packets of all calls come through one listener and
\* those nobody awaits yet are buffered.
NodeKeepsPromise == Promised!StreamsSpec

\* runtime.ts:41: one listen at a time, and exactly while there is a promise
\* for it.
OneListen == busy + Len(arrived) = IF listener THEN 1 ELSE 0

\* A registered resolver has a loop that will see its packet coming in.
LoopIsComing(l) ==
    \/ \E i \in DOMAIN waiting : waiting[i] = l
    \/ \E i \in DOMAIN jobs : "loop" \in DOMAIN jobs[i] /\ jobs[i].loop = l
ResolverHasLoop ==
    /\ \A tx \in TxIds : execResolvers[tx] # NoIndex => LoopIsComing(tx)
    /\ \A c \in resolvers : LoopIsComing(c)

\* A reply an open call has not consumed is in exactly one place, and one
\* that is waited for is not in the buffer, where nobody would look again.
Places(tx, n) ==
    LET Is(p) == p # NoPacket /\ p.tx = tx /\ p.seq = n
    IN  Cardinality({i \in DOMAIN mail : Is(mail[i])})
        + Cardinality({i \in DOMAIN arrived : Is(arrived[i])})
        + Cardinality({p \in execResponses[tx] : Is(p)})
BufferedOrComing ==
    \A tx \in TxIds :
        /\ \A n \in idx[tx] .. made[tx] - 1 : Places(tx, n) = 1
        /\ \A p \in execResponses[tx] : p.seq # execResolvers[tx]

\* runtime.ts:218-266: a packet and whoever waits for it find each other, the one in the
\* buffer or the other among the resolvers.
PacketsFindResolvers == ResolverHasLoop /\ BufferedOrComing

\* Whoever awaits next() comes to have its value or the end of the call, as
\* long as the runtime is not stopped.
NextSettles == \A tx \in TxIds : user[tx] = "awaiting" ~> user[tx] # "awaiting" \/ ~threads

\* When a call is over, the loops of its next()s end: nothing goes on to
\* listen on its behalf, which would keep the process from exiting.
LoopsEnd == \A tx \in TxIds : user[tx] = "over" ~> ~LoopIsComing(tx)

\* A stop() that has something to stop resolves, and the threads stop.
StopStops == main = "stopping" ~> main = "stopped" /\ ~threads

\* runtime.ts:64-103 and 336-357: every promise the runtime hands out is settled, and
\* every loop that listens for one ends.
NodeCallsSettle == NextSettles /\ LoopsEnd /\ StopStops

=============================================================================

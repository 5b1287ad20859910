--------------------------------- MODULE VM ---------------------------------
(***************************************************************************)
(* The virtual machine: vm_start(), vm_stop() and the four handlers of     *)
(* vm.cpp, run by one thread per VM as a client of the broker.             *)
(*                                                                         *)
(* Operators and component methods are black boxes: a call yields any      *)
(* stream of successful outputs that ends with the finish flag or with an  *)
(* error (module.hpp).  Every VM imports the same modules, and every       *)
(* component type has the same methods.  A handler runs to completion, but *)
(* its sends are separate steps, between which the broker and the other    *)
(* clients go on.                                                          *)
(***************************************************************************)
EXTENDS BrokerClient

CONSTANTS
    VMs,            \* the clients that are VMs
    Functions,      \* names of the operators in the modules
    CompTypes,      \* names of the component factories in the modules
    CompNames,      \* names users give to components
    Methods,        \* operator names of a component
    MaxRetry        \* the 3 of the squeeze loop

CallFunction(f) == <<"call_function", f>>
DefineComponent(t) == <<"define_component", t>>
DeleteComponent(k) == <<"delete_component", k>>
CallMethod(k, m) == <<"call_method", k, m>>

\* packet_t::get_channel
FunctionChannels == {CallFunction(f) : f \in Functions}
FactoryChannels == {DefineComponent(t) : t \in CompTypes}
MethodChannels(k) == {CallMethod(k, m) : m \in Methods}
ComponentChannels(k) == {DeleteComponent(k)} \cup MethodChannels(k)

ASSUME VMAssumption == VMs \subseteq Clients /\ Stoppable = VMs
ASSUME VMChannels ==
    Channels = FunctionChannels \cup FactoryChannels
                  \cup UNION {ComponentChannels(k) : k \in CompNames}
ASSUME VMArgs == CompNames \subseteq Args

\* The modules are tables in the program, and max_retry is a number.
ASSUME VMFinite == IsFiniteSet(Functions) /\ IsFiniteSet(CompTypes) /\ IsFiniteSet(Methods)
ASSUME RetryAssumption == MaxRetry \in Nat

VARIABLES
    vpc,            \* vpc[v]: where vm_start is
    vmStates,       \* the static registry vm_states
    expected,       \* expected[v]: expected_responses
    components,     \* components[v]: names of the components defined in v
    todo,           \* todo[v]: <<ptype, channel>> the current handler has to send
    job,            \* job[v]: <<tx, plan, names>> of the execute being handled, or
                    \* <<>>; names is {k} while the component k is being defined
    retry,          \* the static counter of the squeeze loop, shared by all VMs
    forced          \* ghost: VMs that left the squeeze loop by force

vmVars == <<vpc, vmStates, expected, components, todo, job, retry, forced>>

VMState == {"off", "connect", "handshake", "import", "loop", "handle",
            "unsubscribe", "squeeze", "leave", "goodbye", "throw", "return",
            "exited", "failed"}

\* What a handler answers: the outputs of an operator, one success, one failure.
Plan == {"stream", "ok", "fail"}
NoJob == <<>>

VMTypeOK ==
    /\ vpc \in [VMs -> VMState]
    /\ vmStates \subseteq VMs
    /\ expected \in [VMs -> SUBSET TxIds]
    /\ components \in [VMs -> SUBSET CompNames]
    /\ todo \in [VMs -> Seq({"subscribe", "unsubscribe"} \X Channels)]
    /\ job \in [VMs -> (TxIds \X Plan \X SUBSET CompNames) \cup {NoJob}]
    /\ retry \in 0 .. MaxRetry
    /\ forced \subseteq VMs

VMInit ==
    /\ vpc = [v \in VMs |-> "off"]
    /\ vmStates = {}
    /\ expected = [v \in VMs |-> {}]
    /\ components = [v \in VMs |-> {}]
    /\ todo = [v \in VMs |-> <<>>]
    /\ job = [v \in VMs |-> NoJob]
    /\ retry = 0
    /\ forced = {}

Goto(v, l) == vpc' = [vpc EXCEPT ![v] = l]

Subscribes(chs) == SetToSeq({<<"subscribe", ch>> : ch \in chs})
Unsubscribes(chs) == SetToSeq({<<"unsubscribe", ch>> : ch \in chs})

-----------------------------------------------------------------------------
(* vm_start up to its loop.                                                *)

\* The broker client connects (its constructor throws when it cannot), and the
\* VM becomes known to vm_stop.
VMStart(v) ==
    /\ vpc[v] = "off"
    /\ v \notin vmStates
    /\ Connect(v)
    /\ IF socket'[v] = "dialed"
       THEN vmStates' = vmStates \cup {v} /\ Goto(v, "connect")
       ELSE Goto(v, "failed") /\ UNCHANGED vmStates
    /\ UNCHANGED <<expected, components, todo, job, retry, forced>>

\* A send that fails makes vm_start throw: nobody has accepted the socket yet.
VMSendConnect(v) ==
    /\ vpc[v] = "connect"
    /\ \E tx \in NextTx(v) : SendRequest(v, tx, "connect", NoChannel, NoArg)
    /\ Goto(v, IF CanPush(v) THEN "handshake" ELSE "throw")
    /\ UNCHANGED <<vmStates, expected, components, todo, job, retry, forced>>

\* Any signal ends the wait for the response to the connect, a stop as well.
VMConnected(v) ==
    /\ vpc[v] = "handshake"
    /\ Listen(v)
    /\ Goto(v, IF outbox[v] = <<>> THEN "throw" ELSE "import")
    /\ todo' = [todo EXCEPT ![v] =
                   IF outbox[v] = <<>> THEN <<>>
                   ELSE Subscribes(FunctionChannels \cup FactoryChannels)]
    /\ UNCHANGED <<vmStates, expected, components, job, retry, forced>>

\* monitor(1s) times out, in the handshake or in the goodbye.
VMTimeout(v) ==
    /\ vpc[v] \in {"handshake", "goodbye"}
    /\ notes[v] = <<>>
    /\ Goto(v, "throw")
    /\ UNCHANGED <<vars, vmStates, expected, components, todo, job, retry, forced>>

\* The next packet of the current handler, of the import or of on_stop.
VMSend(v) ==
    /\ vpc[v] \in {"import", "handle", "unsubscribe"}
    /\ todo[v] # <<>>
    /\ \E tx \in NextTx(v) :
          /\ SendRequest(v, tx, Head(todo[v])[1], Head(todo[v])[2], NoArg)
          /\ expected' = [expected EXCEPT ![v] = @ \cup {tx}]
    /\ todo' = [todo EXCEPT ![v] = Tail(@)]
    /\ Goto(v, IF vpc[v] = "import" /\ ~CanPush(v) THEN "throw" ELSE vpc[v])
    /\ UNCHANGED <<vmStates, components, job, retry, forced>>

VMSent(v) ==
    /\ todo[v] = <<>>
    /\ \/ vpc[v] = "import" /\ Goto(v, "loop")
       \/ vpc[v] = "unsubscribe" /\ Goto(v, "squeeze")
    /\ UNCHANGED <<vars, vmStates, expected, components, todo, job, retry, forced>>

-----------------------------------------------------------------------------
(* The loop.                                                               *)

\* Variant: the packet is looked at and stays in the mailbox.
VMPeek(v, ptype) ==
    /\ notes[v] # <<>>
    /\ Head(notes[v]) = "recv"
    /\ outbox[v] # <<>>
    /\ Head(outbox[v]).ptype = ptype
    /\ notes' = [notes EXCEPT ![v] = Tail(@)]
    /\ UNCHANGED <<serverVars, acceptVars, signals, inbox, socket, outbox,
                   ghostVars, peerVars>>

\* The loop pops a signal of a packet of the given type.
VMReceive(v, ptype) ==
    /\ notes[v] # <<>>
    /\ Head(notes[v]) = "recv"
    /\ outbox[v] # <<>>
    /\ Head(outbox[v]).ptype = ptype
    /\ Listen(v)

\* "message arrived but no contents"
VMNoContents(v) ==
    /\ vpc[v] = "loop"
    /\ notes[v] # <<>>
    /\ Head(notes[v]) = "recv"
    /\ outbox[v] = <<>>
    /\ Listen(v)
    /\ UNCHANGED vmVars

VMRespond(v) ==
    /\ vpc[v] = "loop"
    /\ VMReceive(v, "respond")
    /\ expected' = [expected EXCEPT ![v] = @ \ {Head(outbox[v]).tx}]
    /\ UNCHANGED <<vpc, vmStates, components, todo, job, retry, forced>>

\* An execute whose channel has the given instruction.
VMExecute(v, instruction) ==
    /\ vpc[v] = "loop"
    /\ VMReceive(v, "execute")
    /\ Head(outbox[v]).ch[1] = instruction
    /\ Goto(v, "handle")
    /\ UNCHANGED <<vmStates, expected, retry, forced>>

\* The operator is known: only channels of operators are subscribed.
handle_call_function(v) ==
    /\ VMExecute(v, "call_function")
    /\ job' = [job EXCEPT ![v] = <<Head(outbox[v]).tx, "stream", {}>>]
    /\ UNCHANGED <<components, todo>>

\* The name is looked up among the factories; the factory may fail.  The component is
\* put in the registry when the subscribes have been sent, with the answer (VMReply).
handle_define_component(v) ==
    /\ VMExecute(v, "define_component")
    /\ LET p == Head(outbox[v])
           Plans(plan, names) == job' = [job EXCEPT ![v] = <<p.tx, plan, names>>]
       IN \/ Plans("fail", {}) /\ UNCHANGED todo
          \/ /\ p.arg \notin CompTypes
             /\ Plans("ok", {p.arg})
             /\ todo' = [todo EXCEPT ![v] =
                            Subscribes({DeleteComponent(p.arg)})
                               \o Subscribes(MethodChannels(p.arg))]
    /\ UNCHANGED components

\* Variant: the component stays in vm_state.
DeleteKeepsComponent(v) ==
    /\ VMExecute(v, "delete_component")
    /\ LET p == Head(outbox[v])
           k == p.ch[2]
           Plans(plan) == job' = [job EXCEPT ![v] = <<p.tx, plan, {}>>]
       IN IF k \notin components[v]
          THEN Plans("fail") /\ UNCHANGED <<components, todo>>
          ELSE /\ Plans("ok")
               /\ todo' = [todo EXCEPT ![v] =
                              Unsubscribes(MethodChannels(k))
                                 \o Unsubscribes({DeleteComponent(k)})]
               /\ UNCHANGED components

handle_delete_component(v) ==
    /\ VMExecute(v, "delete_component")
    /\ LET p == Head(outbox[v])
           k == p.ch[2]
           Plans(plan) == job' = [job EXCEPT ![v] = <<p.tx, plan, {}>>]
       IN IF k \notin components[v]
          THEN Plans("fail") /\ UNCHANGED <<components, todo>>
          ELSE /\ Plans("ok")
               /\ components' = [components EXCEPT ![v] = @ \ {k}]
               /\ todo' = [todo EXCEPT ![v] =
                              Unsubscribes(MethodChannels(k))
                                 \o Unsubscribes({DeleteComponent(k)})]

\* Variant: a call of a component that is gone is logged and not answered.
MethodUnanswered(v) ==
    /\ vpc[v] = "loop"
    /\ VMReceive(v, "execute")
    /\ LET p == Head(outbox[v])
       IN /\ p.ch[1] = "call_method"
          /\ IF p.ch[2] \in components[v]
             THEN Goto(v, "handle") /\ job' = [job EXCEPT ![v] = <<p.tx, "stream", {}>>]
             ELSE UNCHANGED <<vpc, job>>
    /\ UNCHANGED <<vmStates, expected, components, todo, retry, forced>>

handle_call_method(v) ==
    /\ VMExecute(v, "call_method")
    /\ LET p == Head(outbox[v])
           plan == IF p.ch[2] \in components[v] THEN "stream" ELSE "fail"
       IN job' = [job EXCEPT ![v] = <<p.tx, plan, {}>>]
    /\ UNCHANGED <<components, todo>>

\* Variant: the answer does not wait for the sends of the handler.
VMReplyFirst(v) ==
    /\ vpc[v] = "handle"
    /\ job[v] # NoJob
    /\ \E fin, ok \in BOOLEAN :
          /\ job[v][2] = "ok" => fin /\ ok
          /\ job[v][2] = "fail" => ~ok
          /\ ok \/ fin
          /\ SendReply(v, job[v][1], fin, ok)
          /\ IF fin
             THEN /\ Goto(v, IF todo[v] = <<>> THEN "loop" ELSE "handle")
                  /\ job' = [job EXCEPT ![v] = NoJob]
                  /\ components' = [components EXCEPT ![v] = @ \cup job[v][3]]
             ELSE UNCHANGED <<vpc, job, components>>
    /\ UNCHANGED <<vmStates, expected, todo, retry, forced>>

\* One reply of the handler; the loop over step() ends with a finished output
\* or an error, and an error of initialize() is a stream of one failure.  A define
\* registers its component just before it answers, in place of one of the same name.
VMReply(v) ==
    /\ vpc[v] = "handle"
    /\ todo[v] = <<>>
    /\ \E fin, ok \in BOOLEAN :
          /\ job[v][2] = "ok" => fin /\ ok
          /\ job[v][2] = "fail" => ~ok
          /\ ok \/ fin
          /\ SendReply(v, job[v][1], fin, ok)
          /\ IF fin
             THEN /\ Goto(v, "loop")
                  /\ job' = [job EXCEPT ![v] = NoJob]
                  /\ components' = [components EXCEPT ![v] = @ \cup job[v][3]]
             ELSE UNCHANGED <<vpc, job, components>>
    /\ UNCHANGED <<vmStates, expected, todo, retry, forced>>

\* Variant: the loop is not left.
VMStopStays(v) ==
    /\ vpc[v] = "loop"
    /\ TakeStop(v)
    /\ UNCHANGED vmVars

\* Variant: recv() is called before the signal is looked at.
VMStopReceives(v) ==
    /\ vpc[v] = "loop"
    /\ notes[v] # <<>>
    /\ Head(notes[v]) = "stop"
    /\ Listen(v)
    /\ todo' = [todo EXCEPT ![v] =
                   Unsubscribes(FunctionChannels) \o Unsubscribes(FactoryChannels)
                      \o Unsubscribes(UNION {ComponentChannels(k) :
                                                k \in components[v]})]
    /\ Goto(v, "unsubscribe")
    /\ UNCHANGED <<vmStates, expected, components, job, retry, forced>>

\* "stop": on_stop unsubscribes everything.
VMStop(v) ==
    /\ vpc[v] = "loop"
    /\ TakeStop(v)
    /\ todo' = [todo EXCEPT ![v] =
                   Unsubscribes(FunctionChannels) \o Unsubscribes(FactoryChannels)
                      \o Unsubscribes(UNION {ComponentChannels(k) :
                                                k \in components[v]})]
    /\ Goto(v, "unsubscribe")
    /\ UNCHANGED <<vmStates, expected, components, job, retry, forced>>

-----------------------------------------------------------------------------
(* After the loop.                                                         *)

\* Responses are collected; an execute is ignored, and nobody answers it.  The
\* code uses what recv() returns unchecked: no step here stands for a null.
VMSqueeze(v) ==
    /\ vpc[v] = "squeeze"
    /\ expected[v] # {}
    /\ retry < MaxRetry
    /\ retry' = 0
    /\ notes[v] # <<>>
    /\ \/ /\ Head(notes[v]) = "recv"
          /\ outbox[v] # <<>>
          /\ Listen(v)
          /\ expected' = IF Head(outbox[v]).ptype = "respond"
                         THEN [expected EXCEPT ![v] = @ \ {Head(outbox[v]).tx}]
                         ELSE expected
       \/ TakeStop(v) /\ UNCHANGED expected
    /\ UNCHANGED <<vpc, vmStates, components, todo, job, forced>>

VMSqueezeTimeout(v) ==
    /\ vpc[v] = "squeeze"
    /\ expected[v] # {}
    /\ retry < MaxRetry
    /\ notes[v] = <<>>
    /\ retry' = retry + 1
    /\ UNCHANGED <<vars, vpc, vmStates, expected, components, todo, job, forced>>

\* Variant: vm_start returns without a disconnect.
VMSqueezedReturns(v) ==
    /\ vpc[v] = "squeeze"
    /\ expected[v] = {} \/ retry >= MaxRetry
    /\ forced' = IF expected[v] = {} THEN forced ELSE forced \cup {v}
    /\ Goto(v, "return")
    /\ UNCHANGED <<vars, vmStates, expected, components, todo, job, retry>>

VMSqueezed(v) ==
    /\ vpc[v] = "squeeze"
    /\ expected[v] = {} \/ retry >= MaxRetry
    /\ forced' = IF expected[v] = {} THEN forced ELSE forced \cup {v}
    /\ Goto(v, "leave")
    /\ UNCHANGED <<vars, vmStates, expected, components, todo, job, retry>>

VMSendDisconnect(v) ==
    /\ vpc[v] = "leave"
    /\ \E tx \in NextTx(v) : SendRequest(v, tx, "disconnect", NoChannel, NoArg)
    /\ Goto(v, IF CanPush(v) THEN "goodbye" ELSE "throw")
    /\ UNCHANGED <<vmStates, expected, components, todo, job, retry, forced>>

\* Whatever wakes the monitor up is taken for the response.
VMGoodbye(v) ==
    /\ vpc[v] = "goodbye"
    /\ Listen(v)
    /\ Goto(v, "return")
    /\ UNCHANGED <<vmStates, expected, components, todo, job, retry, forced>>

\* vm_start returns; its entry of vm_states stays.
VMReturn(v) ==
    /\ vpc[v] = "return"
    /\ Close(v)
    /\ Goto(v, "exited")
    /\ UNCHANGED <<vmStates, expected, components, todo, job, retry, forced>>

\* raise_exception
VMThrow(v) ==
    /\ vpc[v] = "throw"
    /\ Close(v)
    /\ vmStates' = vmStates \ {v}
    /\ Goto(v, "failed")
    /\ UNCHANGED <<expected, components, todo, job, retry, forced>>

\* vm_stop: a VM that has not registered, or has gone, is not told.
vm_stop(v) ==
    /\ v \in vmStates
    /\ Stop(v)
    /\ UNCHANGED vmVars

VMStep(v) ==
    \/ VMStart(v)
    \/ VMSendConnect(v)
    \/ VMConnected(v)
    \/ VMTimeout(v)
    \/ VMSend(v)
    \/ VMSent(v)
    \/ VMNoContents(v)
    \/ VMRespond(v)
    \/ handle_call_function(v)
    \/ handle_define_component(v)
    \/ handle_delete_component(v)
    \/ handle_call_method(v)
    \/ VMReply(v)
    \/ VMStop(v)
    \/ VMSqueeze(v)
    \/ VMSqueezeTimeout(v)
    \/ VMSqueezed(v)
    \/ VMSendDisconnect(v)
    \/ VMGoodbye(v)
    \/ VMReturn(v)
    \/ VMThrow(v)

=============================================================================

-------------------------------- MODULE Ailoy --------------------------------
(***************************************************************************)
(* The whole system in one process: the broker, the VMs and the runtimes   *)
(* of its users.  One runtime owns the threads: its stop() goes on to      *)
(* stop_threads (bindings/python/csrc/binding.cpp), which stops and joins  *)
(* the VM, then the broker.                                                *)
(***************************************************************************)
EXTENDS VM, Runtime

CONSTANTS
    Owner,      \* the runtime whose start_threads() started the threads
    Machine     \* the VM it started

ASSUME OwnerAssumption == Owner \in Runtimes /\ Machine \in VMs

\* runtime.define() gives the component a name.
ASSUME DefineAssumption ==
    \A c \in Calls : c.ch \in FactoryChannels => c.arg \in CompNames

sysVars == <<vars, vmVars, rtVars>>

SysInit == Init /\ VMInit /\ RuntimeInit

\* An exception that leaves vm_start leaves its std::thread: std::terminate.
Terminated == \E v \in VMs : vpc[v] = "failed"

\* stop_threads: vm_stop, which finds no VM that has yet to register ...
RTStopVM ==
    /\ rpc[Owner] = "vmstop"
    /\ IF Machine \in vmStates /\ socket[Machine] # "closed"
       THEN vm_stop(Machine)
       ELSE UNCHANGED <<vars, vmVars>>
    /\ RTGoto(Owner, "vmjoin")
    /\ UNCHANGED <<ctl, responses, store, idx, call, what>>

\* ... join, broker_stop ...
RTJoinVM ==
    /\ rpc[Owner] = "vmjoin"
    /\ vpc[Machine] = "exited"
    /\ StopBroker
    /\ RTGoto(Owner, "brokerjoin")
    /\ UNCHANGED <<vmVars, ctl, responses, store, idx, call, what>>

\* ... and join.
RTJoinBroker ==
    /\ rpc[Owner] = "brokerjoin"
    /\ ~running
    /\ RTGoto(Owner, "closed")
    /\ UNCHANGED <<vars, vmVars, ctl, responses, store, idx, call, what>>

stop_threads == ~Terminated /\ (RTStopVM \/ RTJoinVM \/ RTJoinBroker)

BrokerTurn == ~Terminated /\ BrokerAct /\ UNCHANGED <<vmVars, rtVars>>
VMTurn(v) == ~Terminated /\ VMStep(v) /\ UNCHANGED rtVars
RuntimeTurn(r) == ~Terminated /\ RuntimeStep(r) /\ UNCHANGED vmVars

SysNext ==
    \/ BrokerTurn
    \/ stop_threads
    \/ \E v \in VMs : VMTurn(v)
    \/ \E r \in Runtimes : RuntimeTurn(r)

SysSpec == SysInit /\ [][SysNext]_sysVars

\* Every thread keeps running.  What is not forced: that users make calls or
\* stop the runtime, and that a monitor times out although signals keep coming.
SysFairness ==
    /\ WF_sysVars(BrokerTurn)
    /\ WF_sysVars(stop_threads)
    /\ \A v \in VMs : WF_sysVars(VMTurn(v))
    /\ \A r \in Runtimes :
          /\ WF_sysVars(rpc[r] \in {"off", "connect", "handshake"} /\ RuntimeTurn(r))
          /\ WF_sysVars(~Terminated /\ (RTListen(r) \/ RTDisconnected(r)) /\ UNCHANGED vmVars)
          /\ WF_sysVars(~Terminated /\ RTTake(r) /\ UNCHANGED vmVars)

SysFairSpec == SysSpec /\ SysFairness

-----------------------------------------------------------------------------
(* Properties.                                                             *)

Define(k) == {tx \in TxIds : what[tx].ch \in FactoryChannels /\ what[tx].arg = k}
Delete(k) == {tx \in TxIds : what[tx].ch = DeleteComponent(k)}
Returned(txs) == {tx \in txs : call[tx] = "returned"}
Serving(v) == vpc[v] \in {"loop", "handle"}

\* Once define() has returned, the component can be reached: its channels are
\* subscribed until somebody asks for its deletion.  The VM answers the define
\* without waiting for the responses to its subscribes; it is the order of its
\* packets in the broker's mailbox that makes this true.
DefinedIsRouted ==
    \A k \in CompNames :
        Returned(Define(k)) # {} /\ Delete(k) = {} /\ Serving(Machine)
        => \A ch \in ComponentChannels(k) : subscriptions[ch] = Machine

\* Once delete() of a component that was defined once has returned, no channel of it is
\* left behind, so a later call is refused by the broker and never reaches the VM.
DeletedIsUnrouted ==
    \A k \in CompNames :
        Returned(Delete(k)) # {} /\ (\A d, e \in Define(k) : d = e)
        => \A ch \in ComponentChannels(k) : subscriptions[ch] = NoClient

\* vm.cpp:372 and 413: what define() and delete() tell their callers is what the broker
\* does with the calls that follow, unless a full mailbox has dropped a packet.
RoutesFollowComponents == lost = {} => DefinedIsRouted /\ DeletedIsUnrouted

\* vm.cpp:357-372 and 393-412: the broker and the VM agree on who serves what.  The VM
\* subscribes first and registers last, and unsubscribes what it has taken out before:
\* the channels of a component it has, or is about to register, are subscribed or their
\* subscribes are still on their way, and a channel held for any other name is about
\* to be released.
Pending(v, ptype, ch) ==
    \/ \E i \in DOMAIN todo[v] : todo[v][i] = <<ptype, ch>>
    \/ \E i \in DOMAIN inbox[v] :
          inbox[v][i].ptype = ptype /\ inbox[v][i].ch = ch
Known(v) == components[v] \cup (IF job[v] = NoJob THEN {} ELSE job[v][3])
RegistryAgrees ==
    lost = {} /\ Serving(Machine) =>
        \A k \in CompNames : \A ch \in ComponentChannels(k) :
            IF k \in Known(Machine)
            THEN subscriptions[ch] = Machine \/ Pending(Machine, "subscribe", ch)
            ELSE subscriptions[ch] = NoClient \/ Pending(Machine, "unsubscribe", ch)

\* vm.cpp:215-250: every variable of the system keeps its type, the static counter of
\* the squeeze loop its limit, and the loop, which dereferences what recv() gives it
\* without a check, finds a packet behind each of its signals.
SystemIsSound ==
    /\ TypeOK /\ VMTypeOK /\ RuntimeTypeOK
    /\ \A v \in VMs :
          vpc[v] = "squeeze" /\ notes[v] # <<>> /\ Head(notes[v]) = "recv"
          => outbox[v] # <<>>

\* broker.cpp:118-127 and runtime.py:154-187: a call that has returned has nothing left
\* to come: no packet put away for it, no route of its replies in the broker, no reply
\* in the mailbox of its runtime, no VM still at work for it.
EndedIsOver ==
    \A tx \in TxIds :
        call[tx] = "returned" =>
            /\ store[tx] = {}
            /\ transactions[tx] = NoClient
            /\ \A i \in DOMAIN outbox[Issuer[tx]] : outbox[Issuer[tx]][i].tx # tx
            /\ \A v \in VMs : job[v] # NoJob => job[v][1] # tx

\* vm.cpp:384-437 and broker.cpp:103-127: every call ends, also one that is forwarded to a
\* VM whose component is being defined or has been deleted meanwhile, as long as its
\* runtime is not stopped and no mailbox overflows.
CallsEnd ==
    \A tx \in {t \in TxIds : Issuer[t] \in Runtimes} :
        call[tx] = "open" ~>
            \/ call[tx] # "open" \/ rpc[Issuer[tx]] # "ready"
            \/ lost # {} \/ Terminated

\* stop() of the owner returns once it has been told the disconnect is done,
\* if the VM was in its loop by then (or the VM misses its goodbye, which
\* ends the process).
StopReturns ==
    rpc[Owner] = "vmstop" /\ Serving(Machine)
        ~> rpc[Owner] = "closed" \/ Terminated

\* When vm_start has returned, the broker comes to forget the VM: the disconnect
\* is handled although the VM is gone by then and the broker is being stopped.
GoneIsForgotten ==
    \A v \in VMs :
        vpc[v] = "exited" ~>
            \/ v \notin sockets /\ \A ch \in Channels : subscriptions[ch] # v
            \/ Terminated

\* vm.cpp: "Component already exists" is the answer to the define of a name
\* that is in use, so of two defines without a delete one is refused.
DuplicateDefineRefused ==
    \A k \in CompNames : Delete(k) = {} => Cardinality(Returned(Define(k))) <= 1

=============================================================================

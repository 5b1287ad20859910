------------------------------- MODULE Runtime -------------------------------
(***************************************************************************)
(* The user-facing runtime (bindings/python/ailoy/runtime.py) as a client  *)
(* of the broker.  Its calls are generators over the replies to one        *)
(* execute: a packet taken off the socket is put in _exec_responses under  *)
(* its transaction and number, and the generator of the transaction takes  *)
(* number 0, 1, ... out of there until the finish flag or a failure.       *)
(*                                                                         *)
(* Listening and taking are separate steps and any number of calls may be  *)
(* open, so the behaviours are those of AsyncRuntime, with those of the    *)
(* synchronous Runtime among them.                                         *)
(***************************************************************************)
EXTENDS BrokerClient

CONSTANTS
    Runtimes,       \* the clients that are runtimes
    Calls           \* what users execute, as [ch, arg]

ASSUME RuntimeAssumption == Runtimes \subseteq Clients \ Stoppable
ASSUME CallsAssumption == Calls \subseteq [ch : Channels, arg : Args \cup {NoArg}]

VARIABLES
    rpc,            \* rpc[r]: where the runtime object is in its life
    ctl,            \* ctl[r]: tx id of its connect or disconnect packet
    responses,      \* responses[r]: tx ids in _responses
    store,          \* store[tx]: _exec_responses[txid], as [seq, fin, ok]
    idx,            \* idx[tx]: number the generator waits for
    call,           \* call[tx]: what became of the call
    what            \* ghost, what[tx]: what was executed under tx

rtVars == <<rpc, ctl, responses, store, idx, call, what>>

RuntimeState == {"off", "connect", "handshake", "ready", "dispose", "stopping",
                 "vmstop", "vmjoin", "brokerjoin", "closed", "error"}
CallState == {"none", "open", "returned", "raised"}
Nothing == [ch |-> NoChannel, arg |-> NoArg]

RuntimeTypeOK ==
    /\ rpc \in [Runtimes -> RuntimeState]
    /\ ctl \in [Runtimes -> SUBSET TxIds]
    /\ responses \in [Runtimes -> SUBSET TxIds]
    /\ store \in [TxIds -> SUBSET [seq : Nat, fin : BOOLEAN, ok : BOOLEAN]]
    /\ idx \in [TxIds -> Nat]
    /\ call \in [TxIds -> CallState]
    /\ what \in [TxIds -> Calls \cup {Nothing}]

RuntimeInit ==
    /\ rpc = [r \in Runtimes |-> "off"]
    /\ ctl = [r \in Runtimes |-> {}]
    /\ responses = [r \in Runtimes |-> {}]
    /\ store = [tx \in TxIds |-> {}]
    /\ idx = [tx \in TxIds |-> 0]
    /\ call = [tx \in TxIds |-> "none"]
    /\ what = [tx \in TxIds |-> Nothing]

RTGoto(r, l) == rpc' = [rpc EXCEPT ![r] = l]

\* _sync_listen/_listen: put the packet away.
Keep(r) ==
    /\ Listen(r)
    /\ outbox[r] # <<>>
    /\ LET p == Head(outbox[r])
       IN IF p.ptype = "respond_execute"
          THEN /\ store' = [store EXCEPT ![p.tx] =
                              @ \cup {[seq |-> p.seq, fin |-> p.fin, ok |-> p.ok]}]
               /\ UNCHANGED responses
          ELSE /\ responses' = [responses EXCEPT ![r] = @ \cup {p.tx}]
               /\ UNCHANGED store

-----------------------------------------------------------------------------

RTConnect(r) ==
    /\ rpc[r] = "off"
    /\ Connect(r)
    /\ RTGoto(r, IF socket'[r] = "dialed" THEN "connect" ELSE "error")
    /\ UNCHANGED <<ctl, responses, store, idx, call, what>>

\* A constructor that raises leaves an object whose __del__ calls stop().
RTSendConnect(r) ==
    /\ rpc[r] = "connect"
    /\ \E tx \in NextTx(r) :
          /\ SendRequest(r, tx, "connect", NoChannel, NoArg)
          /\ ctl' = [ctl EXCEPT ![r] = {tx}]
    /\ RTGoto(r, IF CanPush(r) THEN "handshake" ELSE "dispose")
    /\ UNCHANGED <<responses, store, idx, call, what>>

\* The constructor listens once, for a second.
RTConnected(r) ==
    /\ rpc[r] = "handshake"
    /\ Keep(r)
    /\ RTGoto(r, "ready")
    /\ UNCHANGED <<ctl, idx, call, what>>

RTConnectTimeout(r) ==
    /\ rpc[r] = "handshake"
    /\ notes[r] = <<>>
    /\ RTGoto(r, "dispose")
    /\ UNCHANGED <<vars, ctl, responses, store, idx, call, what>>

\* call_iter, define, delete, call_iter_method: the execute is sent at once,
\* and a send that fails raises.  (Bound: as many calls as TxIds leaves r,
\* one uuid being kept for its disconnect.)
RTCall(r) ==
    /\ rpc[r] = "ready"
    /\ Cardinality(Fresh(r)) > 1
    /\ \E tx \in NextTx(r), c \in Calls :
          /\ SendRequest(r, tx, "execute", c.ch, c.arg)
          /\ what' = [what EXCEPT ![tx] = c]
          /\ call' = [call EXCEPT ![tx] = IF CanPush(r) THEN "open" ELSE "raised"]
    /\ UNCHANGED <<rpc, ctl, responses, store, idx>>

RTListen(r) ==
    /\ rpc[r] \in {"ready", "stopping"}
    /\ Keep(r)
    /\ UNCHANGED <<rpc, ctl, idx, call, what>>

\* The generator pops the packet it waits for.  define() and delete() raise on a
\* failure without popping it, so the packet stays in _exec_responses.
RTTake(r) ==
    /\ rpc[r] = "ready"
    /\ \E tx \in TxIds : \E p \in store[tx] :
          /\ Issuer[tx] = r
          /\ call[tx] = "open"
          /\ p.seq = idx[tx]
          /\ IF ~p.ok /\ what[tx].ch[1] \in {"define_component", "delete_component"}
             THEN UNCHANGED <<store, idx>>
             ELSE /\ store' = [store EXCEPT ![tx] = @ \ {p}]
                  /\ idx' = [idx EXCEPT ![tx] = @ + 1]
          /\ call' = [call EXCEPT ![tx] = IF ~p.ok THEN "raised"
                                          ELSE IF p.fin THEN "returned"
                                          ELSE "open"]
    /\ UNCHANGED <<vars, rpc, ctl, responses, what>>

\* stop(): disconnect, and listen until the response is there ...
RTStop(r) ==
    /\ rpc[r] \in {"ready", "dispose"}
    /\ \E tx \in NextTx(r) :
          /\ SendRequest(r, tx, "disconnect", NoChannel, NoArg)
          /\ ctl' = [ctl EXCEPT ![r] = {tx}]
    /\ RTGoto(r, IF CanPush(r) THEN "stopping" ELSE "error")
    /\ UNCHANGED <<responses, store, idx, call, what>>

\* ... then drop the client; stop_threads follows.
RTDisconnected(r) ==
    /\ rpc[r] = "stopping"
    /\ ctl[r] \subseteq responses[r]
    /\ Close(r)
    /\ RTGoto(r, "vmstop")
    /\ UNCHANGED <<ctl, responses, store, idx, call, what>>

RuntimeStep(r) ==
    \/ RTConnect(r)
    \/ RTSendConnect(r)
    \/ RTConnected(r)
    \/ RTConnectTimeout(r)
    \/ RTCall(r)
    \/ RTListen(r)
    \/ RTTake(r)
    \/ RTStop(r)
    \/ RTDisconnected(r)

=============================================================================

------------------------------ MODULE MCAiloy ------------------------------
(* One VM, one runtime: the VM's uuids are <<v1, n>>, the runtime's <<r1, n>>. *)
EXTENDS Ailoy

CONSTANTS v1, r1, f1, t1, k1, m1,
    VMTx, RTTx      \* how many uuids the VM and the runtime may draw

MCTxIds == ({v1} \X (1 .. VMTx)) \cup ({r1} \X (1 .. RTTx))
MCIssuer == [tx \in MCTxIds |-> tx[1]]
MCChannels == FunctionChannels \cup FactoryChannels \cup ComponentChannels(k1)

MCCalls == {[ch |-> CallFunction(f1), arg |-> NoArg],
            [ch |-> DefineComponent(t1), arg |-> k1],
            [ch |-> DeleteComponent(k1), arg |-> NoArg],
            [ch |-> CallMethod(k1, m1), arg |-> NoArg]}

\* A component is defined, then called and deleted: the call and the deletion go out in
\* either order, and each may meet the other, and both the definition, at the broker or
\* at the VM.
MCUseCalls == {[ch |-> DefineComponent(t1), arg |-> k1],
               [ch |-> DeleteComponent(k1), arg |-> NoArg],
               [ch |-> CallMethod(k1, m1), arg |-> NoArg]}
MCUses == {tx \in TxIds : what[tx] # Nothing}
MCUsesInTurn ==
    /\ \A tx, u \in MCUses : what[tx] = what[u] => tx = u
    /\ \A tx \in MCUses : tx[2] = 2 <=> what[tx].arg = k1
MCUseSpec ==
    SysInit /\ [][SysNext /\ MCUsesInTurn']_sysVars /\ SysFairness

=============================================================================

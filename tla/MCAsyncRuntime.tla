--------------------------- MODULE MCAsyncRuntime ----------------------------
(* Calls of up to two replies and calls of one.                            *)
EXTENDS AsyncRuntime

CONSTANT Long    \* the calls that may have two

MCLast == [tx \in TxIds |-> IF tx \in Long THEN 1 ELSE 0]

=============================================================================

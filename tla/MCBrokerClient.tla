--------------------------- MODULE MCBrokerClient ---------------------------
(* Two clients that may each issue two requests, over one channel.         *)
EXTENDS BrokerClient

CONSTANTS a, b, a1, a2, b1

MCClients == {a, b}
MCTxIds == {a1, a2, b1}
MCIssuer == (a1 :> a) @@ (a2 :> a) @@ (b1 :> b)
MCSymmetry == Permutations({a1, a2})

=============================================================================

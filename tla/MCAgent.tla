------------------------------ MODULE MCAgent ------------------------------
EXTENDS Agent, TLC
CONSTANTS a, b

MCJson == ("ab" :> <<a, b>>) @@ ("odd" :> <<"odd">>) @@ ("none" :> <<>>)

\* A model that thinks, one that talks and calls tools, one that only calls them.
Thinker == [pieces |-> {"word", "botc", "eotc", "think", "unthink", "ab"}, limit |-> 4]
Talker == [pieces |-> {"word", "botc", "eotc", "ab", "odd", "none"}, limit |-> 4]
Caller == [pieces |-> {"botc", "eotc", "ab"}, limit |-> 4]

Case(bi, ba, m, n) == [binding |-> bi, backend |-> ba, model |-> m, queries |-> n]
MCScenarios ==
    {Case("python", "tvm", Thinker, 1), Case("node", "tvm", Talker, 1),
     Case("python", "tvm", Caller, 2)} \cup
    {Case(bi, "openai", Caller, 2) : bi \in {"python", "node"}}
=============================================================================

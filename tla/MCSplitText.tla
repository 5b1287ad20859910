---------------------------- MODULE MCSplitText ----------------------------
EXTENDS SplitText, SequencesExt

Newline == "newline"
MCTexts == SeqOf({"x", "space", Newline}, 7)
MCSizes == {-1} \cup 1 .. 5
MCOverlaps == {-1, 0, 1, 2}
Default == <<<<Newline, Newline>>, <<Newline>>, <<"space">>, <<>>>>
MCScenarios ==
    {[op |-> "plain", separators |-> <<s>>] : s \in {<<Newline, Newline>>, <<"x", "x">>}}
    \cup {[op |-> "recursive", separators |-> s] :
             s \in {Default, <<<<"x", "x">>, <<"space">>>>, <<>>}}
=============================================================================

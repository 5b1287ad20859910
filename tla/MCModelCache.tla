---------------------------- MODULE MCModelCache ----------------------------
EXTENDS ModelCache, TLC
CONSTANTS p1, p2, f1, f2

\* The second release has another f1, and an f2 without bytes.
MCFiles == <<f1, f2>>
MCContent == << (f1 :> "a1") @@ (f2 :> "b1"), (f1 :> "a2") @@ (f2 :> "none") >>
=============================================================================

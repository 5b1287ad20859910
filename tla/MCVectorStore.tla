--------------------------- MODULE MCVectorStore ---------------------------
EXTENDS VectorStore, TLC
CONSTANTS p1, p2

MCScenarios == {(p1 :> "chromadb") @@ (p2 :> "chromadb"),
                p1 :> "faiss", p1 :> "unknown"}
MCSymmetry == Permutations(Docs) \cup Permutations(Collections)
MCTopK == {-1, 0, 1, 2}
=============================================================================

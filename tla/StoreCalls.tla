---------------------------- MODULE StoreCalls ----------------------------
(***************************************************************************)
(* What the two vector stores have in common: the processes that use them, *)
(* each with one VM and one user, and how a call of an operator ends.      *)
(***************************************************************************)
EXTENDS Items, Sequences

CONSTANTS
    Procs,          \* processes
    Docs,           \* documents with their embeddings and metadata
    MaxIds,         \* bound: items ever added to one store
    TopK,           \* the top_k users ask for, a negative one among them
    Foreign         \* an id no store has given

ASSUME StoreAssumption == MaxIds \in Nat \ {0} /\ TopK \subseteq Int /\ Foreign \notin Int

Ids == 0 .. MaxIds - 1

\* What a user may give as an id.
Keys == Ids \cup {Foreign}

VARIABLES
    thrown,         \* thrown[p]: the exception on its way out of p's VM, or "no"
    answer          \* ghost: question, argument and items of a read or a removal
                    \* that has just ended

callVars == <<thrown, answer>>

\* Nothing catches an exception in the VM's thread.  It comes from invalid input, an
\* answer that did not come, a server that no longer has what it had, or an item that
\* was asked for and is not there.
Exception == {"no", "input", "lost", "race", "absent"}

CallInit ==
    /\ thrown = [p \in Procs |-> "no"]
    /\ answer = <<>>

\* An output that says nothing of the store, or an error output.
Done == answer' = <<>> /\ UNCHANGED thrown

Throw(p, why) == thrown' = [thrown EXCEPT ![p] = why] /\ answer' = <<>>

Answers(question, of, items) == answer' = <<question, of, items>> /\ UNCHANGED thrown

\* The items numbered from n on, one for each of ds.
Numbered(n, ds) == [i \in n .. n + Len(ds) - 1 |-> ds[i - n + 1]]

=============================================================================

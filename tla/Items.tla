------------------------------- MODULE Items -------------------------------
(***************************************************************************)
(* The contents of a vector store: a function from ids to documents.       *)
(***************************************************************************)
EXTENDS Integers, FiniteSets, FiniteSetsExt, Functions

NoItems == [i \in {} |-> i]

Keep(content, ids) == Restrict(content, DOMAIN content \cap ids)

With(content, new) ==
    [i \in DOMAIN content \cup DOMAIN new |->
        IF i \in DOMAIN new THEN new[i] ELSE content[i]]

\* Item i of content, if it is there, as a result for the key.
Under(key, content, i) ==
    [k \in {k \in {key} : i \in DOMAIN content} |-> content[i]]

\* The results a search for k items of content may give.
Found(content, k) ==
    LET size == Cardinality(DOMAIN content)
    IN {Keep(content, s) : s \in kSubset(IF k < size THEN k ELSE size,
                                         DOMAIN content)}

=============================================================================

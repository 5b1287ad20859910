------------------------------- MODULE Store -------------------------------
(***************************************************************************)
(* What vector_store.hpp promises of a vector store, whatever keeps it:    *)
(* documents under ids of their own, found by id or by similarity until    *)
(* they are removed, one by one or all at once.  Embeddings and metadata   *)
(* go with their document; which documents are similar is left open.       *)
(***************************************************************************)
EXTENDS Items

CONSTANTS
    Ids,            \* the identifiers of its items
    Keys,           \* what a user may give as an identifier
    Docs,           \* documents with their embeddings and metadata
    TopK            \* how many items a search may ask for

VARIABLES
    docs,           \* the items in the store
    given,          \* the ids handed out since the store was made
    answer          \* the question, its argument and the items of a read or a
                    \* removal that has just ended

storeVars == <<docs, given, answer>>

StoreInit ==
    /\ docs = NoItems
    /\ given = {}
    /\ answer = <<>>

Silent == answer' = <<>>

\* "Unique identifiers of the added vectors"
Add ==
    /\ \E new \in SUBSET (Ids \ given) :
           /\ \E content \in [new -> Docs] : docs' = With(docs, content)
           /\ given' = given \cup new
    /\ Silent

\* Item i is removed for a user who has asked to remove the key.
DropAs(key, i) ==
    /\ answer' = <<"remove_vector", key, NoItems>>
    /\ docs' = Keep(docs, Ids \ {i})
    /\ UNCHANGED given

Drop == \E key \in Keys : DropAs(key, key)

Empty == docs' = NoItems /\ Silent /\ UNCHANGED given

\* The store is made anew and its ids start again.
Renew == docs' = NoItems /\ given' = {} /\ Silent

\* Item i, if there is one, is given under the key that was asked for.
GetAs(key, i) ==
    /\ answer' = <<"get_by_id", key, Under(key, docs, i)>>
    /\ UNCHANGED <<docs, given>>

\* "id, text, metadata and vector of found item, nullopt otherwise"
Get == \E key \in Keys : GetAs(key, key)

Search ==
    /\ \E k \in TopK : \E items \in Found(docs, k) : answer' = <<"retrieve", k, items>>
    /\ UNCHANGED <<docs, given>>

Idle == Silent /\ UNCHANGED <<docs, given>>

StoreNext == Add \/ Drop \/ Empty \/ Renew \/ Get \/ Search \/ Idle

StoreSpec == StoreInit /\ [][StoreNext]_storeVars

=============================================================================

------------------------------- MODULE Faiss -------------------------------
(***************************************************************************)
(* faiss_vector_store.cpp: a store in the memory of the process that       *)
(* defined it.  The vectors are in an index of the FAISS library, which    *)
(* knows nothing of documents, and the documents in a table beside it,     *)
(* under the same numbers.                                                 *)
(*                                                                         *)
(* A vector is abstracted to the document it was made from, so an item is  *)
(* mixed up when the two disagree.                                         *)
(***************************************************************************)
EXTENDS StoreCalls

VARIABLES
    index,          \* index[p]: index_, a function from numbers to vectors
    documents,      \* documents[p]: document_store_
    idCounter       \* idCounter[p]: id_counter_, the number of the next item

faissVars == <<index, documents, idCounter>>

FaissInit ==
    /\ index = [p \in Procs |-> NoItems]
    /\ documents = [p \in Procs |-> NoItems]
    /\ idCounter = [p \in Procs |-> 0]

FaissCreate(p) ==
    /\ index' = [index EXCEPT ![p] = NoItems]
    /\ documents' = [documents EXCEPT ![p] = NoItems]
    /\ idCounter' = [idCounter EXCEPT ![p] = 0]

\* std::strtoll: what does not begin with a number counts as zero.
Strtoll(id) == IF id = Foreign THEN 0 ELSE id

\* Variant: the next number is the number of items.
FaissAddNext(p, ds, fits) ==
    LET n == Cardinality(DOMAIN documents[p])
        new == Numbered(n, ds)
    IN  IF ~fits THEN Throw(p, "input") /\ UNCHANGED faissVars
        ELSE /\ n + Len(ds) <= MaxIds
             /\ index' = [index EXCEPT ![p] = With(@, new)]
             /\ documents' = [documents EXCEPT ![p] = With(@, new)]
             /\ idCounter' = [idCounter EXCEPT ![p] = n + Len(ds)]
             /\ Done

\* add_vector and add_vectors look at every embedding before they add any.
FaissAdd(p, ds, fits) ==
    LET new == Numbered(idCounter[p], ds)
    IN  IF ~fits THEN Throw(p, "input") /\ UNCHANGED faissVars
        ELSE /\ idCounter[p] + Len(ds) <= MaxIds
             /\ idCounter' = [idCounter EXCEPT ![p] = @ + Len(ds)]
             /\ index' = [index EXCEPT ![p] = With(@, new)]
             /\ documents' = [documents EXCEPT ![p] = With(@, new)]
             /\ Done

\* reconstruct() throws for a number that is not in the index, which is the one
\* exception that is caught.  The result carries the id as it was given.
FaissGet(p, id) ==
    LET n == Strtoll(id)
    IN  /\ Answers("get_by_id", id,
                   [k \in {k \in {id} : n \in DOMAIN index[p]} |-> documents[p][n]])
        /\ UNCHANGED faissVars

\* A negative top_k is less than ntotal, and no vector has that length.
FaissRetrieve(p, k, fits) ==
    /\ IF ~fits \/ k < 0 THEN Throw(p, "input")
       ELSE \E items \in Found(index[p], k) :
                Answers("retrieve", k,
                        [i \in DOMAIN items |-> documents[p][i]])
    /\ UNCHANGED faissVars

FaissRemove(p, id) ==
    LET rest == Ids \ {Strtoll(id)}
    IN  /\ index' = [index EXCEPT ![p] = Keep(@, rest)]
        /\ documents' = [documents EXCEPT ![p] = Keep(@, rest)]
        /\ Answers("remove_vector", id, NoItems)
        /\ UNCHANGED idCounter

FaissClear(p) ==
    /\ index' = [index EXCEPT ![p] = NoItems]
    /\ documents' = [documents EXCEPT ![p] = NoItems]
    /\ Done
    /\ UNCHANGED idCounter

=============================================================================

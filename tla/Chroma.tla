------------------------------ MODULE Chroma ------------------------------
(***************************************************************************)
(* chromadb_vector_store.cpp: a store on a Chroma server, shared by all    *)
(* the processes that name its collection.  A client looks the id of the   *)
(* collection up once and uses it from then on; clear() deletes the        *)
(* collection by its name and creates another one, with another id.        *)
(*                                                                         *)
(* The server is external: it handles one request at a time and keeps what *)
(* it has been told.  A request may not reach it, or its answer may not    *)
(* come back: the client dereferences the result it did not get.           *)
(***************************************************************************)
EXTENDS StoreCalls

CONSTANTS Collections, NoCollection   \* ids of collections, and none

ASSUME ChromaAssumption ==
    NoCollection \notin Collections /\ Cardinality(Collections) > Cardinality(Procs)

VARIABLES
    collection,     \* the server's collection of the one name, if it exists
    rows,           \* the items in it
    uuids,          \* how many ids have been generated by all clients
    collectionId,   \* collectionId[p]: collection_id_
    request,        \* request[p]: the request a create or clear is about to make
    overtaken,      \* ghost: p's collection was deleted by another client
    before          \* ghost: before[p]: the items p's clear() is to remove

serverVars == <<collection, rows, uuids>>
clientVars == <<collectionId, request, overtaken, before>>
chromaVars == <<serverVars, clientVars>>

ChromaInit ==
    /\ collection = NoCollection
    /\ rows = NoItems
    /\ uuids = 0
    /\ collectionId = [p \in Procs |-> NoCollection]
    /\ request = [p \in Procs |-> "none"]
    /\ overtaken = [p \in Procs |-> FALSE]
    /\ before = [p \in Procs |-> {}]

Goes(p, r) == request' = [request EXCEPT ![p] = r]

\* Ids are never used twice: one that nobody holds is as good as a new one.
NewCollections ==
    Collections \ ({collectionId[p] : p \in Procs} \cup {collection})

\* The answer to p's request comes back as effect says, or does not.
Answered(p, effect) == effect \/ Throw(p, "lost")

Attached(p) == collectionId[p] = collection /\ collection # NoCollection

\* The process goes away, and with it what its client remembers.
ChromaForget(p) ==
    /\ collectionId' = [collectionId EXCEPT ![p] = NoCollection]
    /\ overtaken' = [overtaken EXCEPT ![p] = FALSE]
    /\ before' = [before EXCEPT ![p] = {}]
    /\ Goes(p, "none")
    /\ UNCHANGED serverVars

\* The request never arrives.
NotServed(p) == Throw(p, "lost") /\ UNCHANGED chromaVars

Adopt(p, c) ==
    /\ collectionId' = [collectionId EXCEPT ![p] = c]
    /\ overtaken' = [overtaken EXCEPT ![p] = FALSE]
    /\ before' = [before EXCEPT ![p] = {}]
    /\ Goes(p, "none")
    /\ Done

\* Variant: that the collection exists already is an error like any other.
PostOnce(p) ==
    /\ request[p] = "post"
    /\ IF collection = NoCollection
       THEN \E c \in NewCollections : collection' = c /\ Adopt(p, c)
       ELSE Throw(p, "race") /\ UNCHANGED <<collection, clientVars>>
    /\ UNCHANGED <<rows, uuids>>

\* _create_collection: POST, which answers 200 or 409.
PostCollection(p) ==
    /\ request[p] = "post"
    /\ IF collection = NoCollection
       THEN \E c \in NewCollections :
               /\ collection' = c
               /\ \/ Adopt(p, c)
                  \/ Throw(p, "lost") /\ UNCHANGED clientVars
       ELSE /\ UNCHANGED <<collection, collectionId, overtaken, before>>
            /\ \/ Goes(p, "lookup") /\ Done
               \/ Throw(p, "lost") /\ UNCHANGED request
    /\ UNCHANGED <<rows, uuids>>

\* The collection exists: GET it by its name.  By now it may not.
GetCollection(p) ==
    /\ request[p] = "lookup"
    /\ \/ collection # NoCollection /\ Adopt(p, collection)
       \/ collection = NoCollection /\ Throw(p, "race") /\ UNCHANGED clientVars
       \/ Throw(p, "lost") /\ UNCHANGED clientVars
    /\ UNCHANGED serverVars

\* Variant: clear() relies on the creation to replace the collection.
DeleteNothing(p) ==
    /\ request[p] = "delete"
    /\ Goes(p, "post") /\ Done
    /\ UNCHANGED <<serverVars, collectionId, overtaken, before>>

\* _delete_collection: DELETE by the name, whoever has created it.
DeleteCollection(p) ==
    /\ request[p] = "delete"
    /\ IF collection = NoCollection
       THEN Throw(p, "race") /\ UNCHANGED chromaVars
       ELSE /\ collection' = NoCollection
            /\ rows' = NoItems
            /\ overtaken' = [q \in Procs |->
                   overtaken[q] \/ (q # p /\ collectionId[q] = collection)]
            /\ \/ Goes(p, "post") /\ Done
               \/ Throw(p, "lost") /\ UNCHANGED request
            /\ UNCHANGED <<uuids, collectionId, before>>

CreateCollection(p) ==
    Goes(p, "post") /\ UNCHANGED <<serverVars, collectionId, overtaken, before>>

ChromaClear(p) ==
    /\ Goes(p, "delete")
    /\ before' = [before EXCEPT ![p] = DOMAIN rows]
    /\ UNCHANGED <<serverVars, collectionId, overtaken>>

\* A request by the collection's id: served when that collection is the one
\* there is, answered with an error otherwise, for which the client throws.
ById(p, served) ==
    \/ Attached(p) /\ served
    \/ ~Attached(p) /\ Throw(p, "race") /\ UNCHANGED <<rows, uuids>>

ChromaAdd(p, ds, fits) ==
    /\ uuids + Len(ds) <= MaxIds
    /\ ById(p, \/ /\ fits
                  /\ rows' = With(rows, Numbered(uuids, ds))
                  /\ uuids' = uuids + Len(ds)
                  /\ Answered(p, Done)
               \/ ~fits /\ Throw(p, "input") /\ UNCHANGED <<rows, uuids>>)
    /\ UNCHANGED <<collection, clientVars>>

\* Any status but 200 is taken for "no such item", so a client that has been
\* overtaken finds nothing; and an item that is not there has status 200 and an
\* empty list, whose first element is not a string: get() throws.
ChromaGet(p, id) ==
    /\ Answered(p,
          IF ~Attached(p) THEN Done
          ELSE IF id \in DOMAIN rows
          THEN Answers("get_by_id", id, Under(id, rows, id))
          ELSE Throw(p, "absent"))
    /\ UNCHANGED chromaVars

\* The server refuses to search for less than one item.
ChromaRetrieve(p, k, fits) ==
    /\ ById(p, /\ IF k < 1 \/ ~fits THEN Throw(p, "input")
                  ELSE \E items \in Found(rows, k) :
                          Answered(p, Answers("retrieve", k, items))
               /\ UNCHANGED <<rows, uuids>>)
    /\ UNCHANGED <<collection, clientVars>>

ChromaRemove(p, id) ==
    /\ ById(p, /\ rows' = Keep(rows, Ids \ {id})
               /\ answer' = <<"remove_vector", id, NoItems>>
               /\ thrown' \in {thrown, [thrown EXCEPT ![p] = "lost"]}
               /\ UNCHANGED uuids)
    /\ UNCHANGED <<collection, clientVars>>

=============================================================================

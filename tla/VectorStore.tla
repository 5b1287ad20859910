---------------------------- MODULE VectorStore ----------------------------
(***************************************************************************)
(* Vector stores from the user to the server: the VectorStore classes of   *)
(* vector_store.py and vector_store.ts, which define an embedding model    *)
(* and a store under two names, the operators of the store's component     *)
(* (vector_store.hpp), and the two stores behind them.                     *)
(*                                                                         *)
(* A process runs one call at a time.  It may go away at any moment, and   *)
(* does after an exception; another one may then be started in its place.  *)
(***************************************************************************)
EXTENDS Faiss, Chroma

CONSTANT Scenarios  \* which process uses which backend

VARIABLES
    backend,        \* backend[p]: the vector store p's user asks for
    pc,             \* pc[p]: where p's user is
    embedding,      \* processes with the component of the embedding model
    vecstore,       \* processes with the component of the vector store
    valid           \* processes whose VectorStore has its valid flag set

userVars == <<pc, embedding, vecstore, valid>>
vars == <<faissVars, chromaVars, callVars, backend, userVars>>

Backends == {"faiss", "chromadb", "unknown"}

\* A store in memory has one user; that of a server has as many as there are.
ASSUME ScenarioAssumption ==
    \A b \in Scenarios :
        /\ DOMAIN b \subseteq Procs /\ \A p \in DOMAIN b : b[p] \in Backends
        /\ \A p \in DOMAIN b : b[p] = "faiss" => DOMAIN b = {p}

Users == DOMAIN backend
PC == {"off", "idle", "defining", "creating", "clearing", "deleting"}

Init ==
    /\ FaissInit /\ ChromaInit /\ CallInit
    /\ backend \in Scenarios
    /\ pc = [p \in Procs |-> "off"]
    /\ embedding = {} /\ vecstore = {} /\ valid = {}

Goto(p, l) == pc' = [pc EXCEPT ![p] = l]
Runs(p, l) == pc[p] = l /\ thrown[p] = "no"
Without(set, p) == set \ {p}

Start(p) ==
    /\ pc[p] = "off"
    /\ Goto(p, "idle") /\ Done
    /\ UNCHANGED <<faissVars, chromaVars, backend, embedding, vecstore, valid>>

\* The process is killed, or std::terminate has been called in it.
Terminate(p) ==
    /\ pc[p] # "off"
    /\ Goto(p, "off")
    /\ embedding' = Without(embedding, p)
    /\ vecstore' = Without(vecstore, p)
    /\ valid' = Without(valid, p)
    /\ FaissCreate(p) /\ ChromaForget(p)
    /\ thrown' = [thrown EXCEPT ![p] = "no"] /\ answer' = <<>>
    /\ UNCHANGED backend

-----------------------------------------------------------------------------
(* define() and delete() of the VectorStore classes.                       *)

\* The first runtime.define: the model may be unknown or not be loadable.
DefineEmbedding(p) ==
    /\ Runs(p, "idle") /\ p \notin valid
    /\ \/ embedding' = embedding \cup {p} /\ Goto(p, "defining") /\ Done
       \/ Done /\ UNCHANGED <<pc, embedding>>
    /\ UNCHANGED <<faissVars, chromaVars, backend, vecstore, valid>>

\* The second one makes the store, or is not made for a name that is unknown.
\* The attributes may be of the wrong type, and FAISS needs a dimension among them.
DefineStore(p) ==
    /\ Runs(p, "defining")
    /\ \/ /\ backend[p] = "faiss"
          /\ FaissCreate(p)
          /\ vecstore' = vecstore \cup {p} /\ valid' = valid \cup {p}
          /\ Goto(p, "idle") /\ Done
          /\ UNCHANGED chromaVars
       \/ /\ backend[p] = "faiss" /\ Throw(p, "input")
          /\ UNCHANGED <<faissVars, chromaVars, pc, vecstore, valid>>
       \/ /\ backend[p] = "chromadb"
          /\ \/ CreateCollection(p) /\ Goto(p, "creating") /\ Done
             \/ Throw(p, "input") /\ UNCHANGED <<chromaVars, pc>>
          /\ UNCHANGED <<faissVars, vecstore, valid>>
       \/ /\ backend[p] = "unknown"
          /\ Done /\ Goto(p, "idle")
          /\ UNCHANGED <<faissVars, chromaVars, vecstore, valid>>
    /\ UNCHANGED <<backend, embedding>>

\* A request of the collection's creation or of clear(), and the return of the
\* call that made it.
ClientStep(p) ==
    /\ pc[p] \in {"creating", "clearing"} /\ thrown[p] = "no"
    /\ \/ PostCollection(p) \/ GetCollection(p) \/ DeleteCollection(p)
       \/ request[p] # "none" /\ NotServed(p)
    /\ UNCHANGED <<faissVars, backend, userVars>>

ClientReturns(p) ==
    /\ pc[p] \in {"creating", "clearing"} /\ request[p] = "none" /\ thrown[p] = "no"
    /\ IF pc[p] = "creating"
       THEN vecstore' = vecstore \cup {p} /\ valid' = valid \cup {p}
       ELSE UNCHANGED <<vecstore, valid>>
    /\ Goto(p, "idle") /\ Done
    /\ UNCHANGED <<faissVars, chromaVars, backend, embedding>>

DeleteEmbedding(p) ==
    /\ Runs(p, "idle") /\ p \in valid
    /\ embedding' = Without(embedding, p)
    /\ Goto(p, "deleting") /\ Done
    /\ UNCHANGED <<faissVars, chromaVars, backend, vecstore, valid>>

\* Variant: the store is left to the runtime.
DeleteOnlyEmbedding(p) ==
    /\ Runs(p, "deleting")
    /\ valid' = Without(valid, p)
    /\ Goto(p, "idle") /\ Done
    /\ UNCHANGED <<faissVars, chromaVars, backend, embedding, vecstore>>

\* The destructor of a Chroma store sends nothing: the flag for it is never set.
DeleteStore(p) ==
    /\ Runs(p, "deleting")
    /\ vecstore' = Without(vecstore, p) /\ valid' = Without(valid, p)
    /\ FaissCreate(p) /\ ChromaForget(p)
    /\ Goto(p, "idle") /\ Done
    /\ UNCHANGED <<backend, embedding>>

-----------------------------------------------------------------------------
(* The operators of the component.                                         *)

\* An input of the wrong type, a call of a component that is not there and, in
\* Python, clean(), which calls an operator that does not exist, are answered
\* with an error.
CallRefused(p) ==
    /\ Runs(p, "idle")
    /\ Done
    /\ UNCHANGED <<faissVars, chromaVars, backend, userVars>>

\* insert looks the embedding up to say that there is none.
InsertNothing(p) ==
    /\ Runs(p, "idle") /\ p \in vecstore
    /\ Throw(p, "input")
    /\ UNCHANGED <<faissVars, chromaVars, backend, userVars>>

Calls(p, faiss, chroma) ==
    /\ Runs(p, "idle") /\ p \in vecstore
    /\ \/ backend[p] = "faiss" /\ faiss /\ UNCHANGED chromaVars
       \/ backend[p] = "chromadb" /\ chroma /\ UNCHANGED faissVars
    /\ UNCHANGED <<backend, embedding, vecstore, valid>>

Returns == UNCHANGED pc

\* insert and insert_many; the embedding model has made the vectors, unless the
\* user brings others.
Insert(p) ==
    \E ds \in [{1} -> Docs] \cup [{1, 2} -> Docs], fits \in BOOLEAN :
        Calls(p, FaissAdd(p, ds, fits), ChromaAdd(p, ds, fits)) /\ Returns

GetById(p) ==
    \E id \in Keys : Calls(p, FaissGet(p, id), ChromaGet(p, id)) /\ Returns

Retrieve(p) ==
    \E k \in TopK, fits \in BOOLEAN :
        Calls(p, FaissRetrieve(p, k, fits), ChromaRetrieve(p, k, fits)) /\ Returns

Remove(p) ==
    \E id \in Keys :
        Calls(p, FaissRemove(p, id), ChromaRemove(p, id)) /\ Returns

Clear(p) ==
    Calls(p, FaissClear(p) /\ Returns,
             ChromaClear(p) /\ Done /\ Goto(p, "clearing"))

Unserved(p) ==
    Calls(p, FALSE, NotServed(p)) /\ Returns

Next ==
    \E p \in Users :
        \/ Start(p) \/ Terminate(p)
        \/ DefineEmbedding(p) \/ DefineStore(p) \/ ClientStep(p) \/ ClientReturns(p)
        \/ DeleteEmbedding(p) \/ DeleteStore(p)
        \/ CallRefused(p) \/ InsertNothing(p) \/ Insert(p) \/ GetById(p)
        \/ Retrieve(p) \/ Remove(p) \/ Clear(p) \/ Unserved(p)

Spec == Init /\ [][Next]_vars

-----------------------------------------------------------------------------
(* Properties.                                                             *)

\* vector_store.hpp: both stores are a Store, through crashes, restarts and
\* clients that overtake each other: what is found is what was added and neither
\* removed nor cleared, under the id that was asked for, and no id is given twice.
\* An answer counts when its client's collection still was the collection.
\* The exception is a disagreement: vector_store.hpp:58-60 says "id, text, metadata
\* and vector of found item, nullopt otherwise", while FAISS takes an id that is not
\* a number for item 0, which it returns or removes (faiss_vector_store.cpp:85,140).
InMemory == \E p \in Users : backend[p] = "faiss"
OneFaiss == CHOOSE p \in Users : backend[p] = "faiss"
S == INSTANCE Store WITH
        docs <- IF InMemory THEN documents[OneFaiss] ELSE rows,
        given <- IF InMemory THEN 0 .. idCounter[OneFaiss] - 1 ELSE 0 .. uuids - 1
TakenForZero == InMemory /\ (S!GetAs(Foreign, 0) \/ S!DropAs(Foreign, 0))
StoreKeepsPromise == S!StoreInit /\ [][S!StoreNext \/ TakenForZero]_(S!storeVars)

\* chromadb_vector_store.cpp: when clear() returns, nothing that was in the store
\* when it was called can be found through this client, whoever has deleted and
\* created collections in between.
ClearForgets ==
    [][\A p \in Procs :
          pc[p] = "clearing" /\ request[p] # "none" /\ request'[p] = "none"
             /\ pc'[p] # "off"
          => collectionId'[p] = collection' /\ DOMAIN rows' \cap before[p] = {}]_vars

\* Nothing catches an exception in the VM, so it ends the process.  With valid
\* input and a server that answers, a client throws only when another one has
\* deleted the collection under it, or between the two requests that look it up, and,
\* although vector_store.hpp:58-60 promises "nullopt otherwise", when get_by_id asks
\* a Chroma server for an item that is not there (chromadb_vector_store.cpp:191-194).
OnlyFaultsKill ==
    [][\A p \in Procs :
          thrown[p] = "no" /\ thrown'[p] # "no" =>
              \/ thrown'[p] \in {"lost", "input"}
              \/ backend[p] = "chromadb" /\ thrown'[p] = "absent"
              \/ overtaken[p]
              \/ request[p] = "lookup" /\ collection = NoCollection]_vars

\* vector_store.py, vector_store.ts: what a VectorStore has defined is deleted or
\* can still be deleted with it, except after a define() of an unknown store.
NothingLeaks ==
    \A p \in Users :
        pc[p] = "idle" /\ p \notin valid /\ backend[p] # "unknown" =>
            p \notin embedding \cup vecstore

=============================================================================

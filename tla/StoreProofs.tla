---------------------------- MODULE StoreProofs ----------------------------
(***************************************************************************)
(* Theorems about the vector stores, for any number of processes, ids and  *)
(* documents: what a VectorStore has defined does not leak, what clear()   *)
(* promises is kept whatever the other clients do, both stores implement   *)
(* the Store, and a process is ended by faults only.                       *)
(***************************************************************************)
EXTENDS VectorStore, TLAPS

-----------------------------------------------------------------------------
(* The user's side.                                                        *)

\* Where p's user is tells what p has defined.
Defined(p) ==
    /\ pc[p] = "off" => p \notin embedding /\ p \notin vecstore /\ p \notin valid
    /\ pc[p] = "idle" /\ p \notin valid =>
          p \notin vecstore /\ (backend[p] = "unknown" \/ p \notin embedding)
    /\ pc[p] = "defining" => p \notin vecstore /\ p \notin valid
    /\ pc[p] = "clearing" => p \in valid
    /\ pc[p] = "deleting" => p \notin embedding

UserInv ==
    /\ backend \in Scenarios
    /\ DOMAIN pc = Procs
    /\ \A p \in Users : Defined(p)

LEMMA UsersAreProcs == backend \in Scenarios => Users \subseteq Procs
  BY ScenarioAssumption DEF Users

LEMMA UserStep == UserInv /\ [Next]_vars => UserInv'
<1> SUFFICES ASSUME UserInv, [Next]_vars PROVE UserInv'
  OBVIOUS
<1> USE DEF userVars
<1>1. backend \in Scenarios /\ DOMAIN pc = Procs /\ \A q \in Users : q \in Procs /\ Defined(q)
  BY UsersAreProcs DEF UserInv
<1>2. CASE UNCHANGED vars
  BY <1>1, <1>2 DEF vars, UserInv, Users, Defined
<1>3. ASSUME NEW p \in Users,
             UNCHANGED <<backend, userVars>>
      PROVE  UserInv'
  BY <1>1, <1>3 DEF UserInv, Users, Defined
<1>4. ASSUME NEW p \in Users, backend' = backend, DOMAIN pc' = Procs,
             \A q \in Users : q # p => /\ pc'[q] = pc[q]
                                       /\ q \in embedding' <=> q \in embedding
                                       /\ q \in vecstore' <=> q \in vecstore
                                       /\ q \in valid' <=> q \in valid,
             Defined(p)'
      PROVE  UserInv'
  BY <1>1, <1>4 DEF UserInv, Users, Defined
<1>5. ASSUME NEW p \in Users, Start(p) PROVE UserInv'
  BY <1>1, <1>4, <1>5 DEF Start, Goto, Defined
<1>6. ASSUME NEW p \in Users, Terminate(p) PROVE UserInv'
  BY <1>1, <1>4, <1>6 DEF Terminate, Goto, Defined, Without
<1>7. ASSUME NEW p \in Users, DefineEmbedding(p) PROVE UserInv'
  BY <1>1, <1>4, <1>7 DEF DefineEmbedding, Runs, Goto, Defined
<1>8. ASSUME NEW p \in Users, DefineStore(p) PROVE UserInv'
  BY <1>1, <1>4, <1>8 DEF DefineStore, Runs, Goto, Defined
<1>9. ASSUME NEW p \in Users, ClientReturns(p) PROVE UserInv'
  BY <1>1, <1>4, <1>9 DEF ClientReturns, Goto, Defined
<1>10. ASSUME NEW p \in Users, DeleteEmbedding(p) \/ DeleteStore(p) PROVE UserInv'
  BY <1>1, <1>4, <1>10 DEF DeleteEmbedding, DeleteStore, Runs, Goto, Without, Defined
<1>11. ASSUME NEW p \in Users, ClientStep(p) \/ CallRefused(p) \/ InsertNothing(p)
       PROVE UserInv'
  BY <1>3, <1>11 DEF ClientStep, CallRefused, InsertNothing
<1>12. ASSUME NEW p \in Users, Insert(p) \/ GetById(p) \/ Retrieve(p) \/ Remove(p) \/ Unserved(p)
       PROVE UserInv'
  <2>1. UNCHANGED <<backend, userVars>>
    BY <1>12 DEF Insert, GetById, Retrieve, Remove, Unserved, Calls, Returns
  <2> QED
    BY <1>3, <2>1
<1>13. ASSUME NEW p \in Users, Clear(p) PROVE UserInv'
  <2>1. /\ UNCHANGED <<backend, embedding, vecstore, valid>>
        /\ Runs(p, "idle") /\ p \in vecstore
        /\ pc' = pc \/ Goto(p, "clearing")
    BY <1>13 DEF Clear, Calls, Returns
  <2> QED
    BY <1>1, <1>3, <1>4, <2>1 DEF Runs, Goto, Defined
<1> QED
  BY <1>2, <1>5, <1>6, <1>7, <1>8, <1>9, <1>10, <1>11, <1>12, <1>13 DEF Next

LEMMA UserInit == Init => UserInv
<1> SUFFICES ASSUME Init PROVE UserInv
  OBVIOUS
<1>1. Users \subseteq Procs
  BY UsersAreProcs DEF Init
<1> QED
  BY <1>1 DEF Init, UserInv, Defined

\* vector_store.py, vector_store.ts: the component of an embedding model or of a store
\* is left behind by no define() and no delete(), whichever of their calls fails, except
\* the define() of a store that does not exist.
THEOREM NothingIsLeaked == Spec => []NothingLeaks
<1>1. UserInv => NothingLeaks
  BY DEF UserInv, NothingLeaks, Defined
<1> QED
  BY <1>1, UserInit, UserStep, PTL DEF Spec

-----------------------------------------------------------------------------
(* The server's side.                                                      *)

LEMMA SameEnd ==
    ASSUME NEW a \in Nat, NEW b \in Nat, 1 .. a = 1 .. b
    PROVE  a = b
  OBVIOUS

LEMMA NumberedIds ==
    ASSUME NEW n \in Nat, NEW ds \in [{1} -> Docs] \cup [{1, 2} -> Docs]
    PROVE  /\ Len(ds) \in Nat \ {0}
           /\ DOMAIN Numbered(n, ds) = n .. n + Len(ds) - 1
           /\ Numbered(n, ds) \in [n .. n + Len(ds) - 1 -> Docs]
<1>1. PICK k \in {1, 2} : ds \in [1 .. k -> Docs]
  <2>1. {1} = 1 .. 1 /\ {1, 2} = 1 .. 2
    OBVIOUS
  <2> QED
    BY <2>1
<1>2. Len(ds) = k
  <2>1. ds \in Seq(Docs)
    BY <1>1
  <2>2. DOMAIN ds = 1 .. Len(ds) /\ DOMAIN ds = 1 .. k /\ Len(ds) \in Nat
    BY <1>1, <2>1
  <2>3. k \in Nat /\ 1 .. Len(ds) = 1 .. k
    BY <1>1, <2>2
  <2> QED
    BY <2>2, <2>3, SameEnd
<1>3. \A i \in n .. n + k - 1 : ds[i - n + 1] \in Docs
  BY <1>1
<1>4. /\ DOMAIN Numbered(n, ds) = n .. n + k - 1
      /\ Numbered(n, ds) \in [n .. n + k - 1 -> Docs]
  BY <1>2, <1>3 DEF Numbered
<1>5. k \in Nat \ {0}
  BY <1>1
<1> QED
  BY <1>2, <1>4, <1>5

\* What the server has, and what a client that is clearing knows of it once the
\* collection it found has been deleted.
Numbers(ids) == ids \subseteq 0 .. uuids - 1

ServerInv ==
    /\ uuids \in Nat /\ uuids <= MaxIds /\ Numbers(DOMAIN rows)
    /\ rows = [i \in DOMAIN rows |-> rows[i]]

Cleared(p) ==
    /\ Numbers(before[p])
    /\ pc[p] = "clearing" /\ request[p] \in {"post", "lookup"} =>
          DOMAIN rows \cap before[p] = {}

ClearInv ==
    /\ UserInv /\ ServerInv
    /\ DOMAIN request = Procs /\ DOMAIN before = Procs /\ DOMAIN collectionId = Procs
    /\ \A p \in Procs : Cleared(p)

LEMMA ItemFacts ==
    /\ DOMAIN NoItems = {}
    /\ NoItems = [i \in DOMAIN NoItems |-> NoItems[i]]
    /\ \A f, ids : /\ DOMAIN Keep(f, ids) = DOMAIN f \cap ids
                   /\ Keep(f, ids) = [i \in DOMAIN f \cap ids |-> f[i]]
    /\ \A f, g : /\ DOMAIN With(f, g) = DOMAIN f \cup DOMAIN g
                 /\ With(f, g) = [i \in DOMAIN With(f, g) |-> With(f, g)[i]]
  BY DEF NoItems, Keep, With, Restrict

\* What a step does to the server, whoever makes it.
ServerStep ==
    \/ UNCHANGED <<rows, uuids>>
    \/ rows' = NoItems /\ uuids' = uuids
    \/ \E ids : rows' = Keep(rows, ids) /\ uuids' = uuids
    \/ \E m \in Nat \ {0} : \E new :
          /\ uuids + m <= MaxIds
          /\ DOMAIN new = uuids .. uuids + m - 1
          /\ rows' = With(rows, new) /\ uuids' = uuids + m

LEMMA Segments ==
    ASSUME NEW a \in Nat, NEW m \in Nat \ {0}
    PROVE  /\ a + m \in Nat
           /\ \A i \in 0 .. a - 1 : i \in 0 .. a + m - 1 /\ i \notin a .. a + m - 1
           /\ \A i \in a .. a + m - 1 : i \in 0 .. a + m - 1
  OBVIOUS

LEMMA ServerStepKept ==
    ASSUME ServerInv, ServerStep
    PROVE  /\ ServerInv'
           /\ \A ids : Numbers(ids) => Numbers(ids)'
           /\ \A ids : Numbers(ids) /\ DOMAIN rows \cap ids = {} => DOMAIN rows' \cap ids = {}
<1>1. uuids \in Nat
  BY DEF ServerInv
<1>2. CASE UNCHANGED <<rows, uuids>>
  BY <1>2 DEF ServerInv, Numbers
<1>3. CASE rows' = NoItems /\ uuids' = uuids
  <2>1. DOMAIN rows' = {} /\ rows' = [i \in DOMAIN rows' |-> rows'[i]]
    BY <1>3, ItemFacts
  <2> QED
    BY <1>3, <2>1 DEF ServerInv, Numbers
<1>4. ASSUME NEW ids, rows' = Keep(rows, ids), uuids' = uuids
      PROVE  /\ ServerInv'
             /\ \A s : Numbers(s) => Numbers(s)'
             /\ \A s : Numbers(s) /\ DOMAIN rows \cap s = {} => DOMAIN rows' \cap s = {}
  <2>1. DOMAIN rows' = DOMAIN rows \cap ids /\ rows' = [i \in DOMAIN rows' |-> rows'[i]]
    BY <1>4, ItemFacts
  <2> QED
    BY <1>4, <2>1 DEF ServerInv, Numbers
<1>5. ASSUME NEW m \in Nat \ {0}, NEW new, uuids + m <= MaxIds,
             DOMAIN new = uuids .. uuids + m - 1,
             rows' = With(rows, new), uuids' = uuids + m
      PROVE  /\ ServerInv'
             /\ \A s : Numbers(s) => Numbers(s)'
             /\ \A s : Numbers(s) /\ DOMAIN rows \cap s = {} => DOMAIN rows' \cap s = {}
  <2>1. /\ DOMAIN rows' = DOMAIN rows \cup DOMAIN new
        /\ rows' = [i \in DOMAIN rows' |-> rows'[i]]
    <3>1. /\ DOMAIN With(rows, new) = DOMAIN rows \cup DOMAIN new
          /\ With(rows, new) = [i \in DOMAIN With(rows, new) |-> With(rows, new)[i]]
      BY DEF With
    <3>2. rows' = With(rows, new)
      BY <1>5
    <3> QED
      BY <3>1, <3>2
  <2>2. /\ uuids' \in Nat /\ uuids' <= MaxIds
        /\ \A i \in 0 .. uuids - 1 : i \in 0 .. uuids' - 1 /\ i \notin DOMAIN new
        /\ \A i \in DOMAIN new : i \in 0 .. uuids' - 1
    BY <1>1, <1>5, Segments
  <2> QED
    BY <2>1, <2>2 DEF ServerInv, Numbers
<1> QED
  BY <1>2, <1>3, <1>4, <1>5 DEF ServerStep

LEMMA ServerSteps ==
    ASSUME ServerInv, [Next]_vars
    PROVE  ServerStep
<1> USE DEF chromaVars, serverVars
<1>1. CASE UNCHANGED vars
  BY <1>1 DEF vars, ServerStep
<1>2. ASSUME NEW p \in Users,
             \/ Start(p) \/ Terminate(p) \/ DefineEmbedding(p) \/ DefineStore(p)
             \/ ClientReturns(p) \/ DeleteEmbedding(p) \/ DeleteStore(p)
             \/ CallRefused(p) \/ InsertNothing(p)
      PROVE  UNCHANGED <<rows, uuids>>
  BY <1>2 DEF Start, Terminate, DefineEmbedding, DefineStore, ClientReturns, DeleteEmbedding,
              DeleteStore, CallRefused, InsertNothing, ChromaForget, CreateCollection
<1>3. ASSUME NEW p \in Users, ClientStep(p)
      PROVE  UNCHANGED <<rows, uuids>> \/ (rows' = NoItems /\ uuids' = uuids)
  BY <1>3 DEF ClientStep, PostCollection, GetCollection, DeleteCollection, NotServed
<1>4. ASSUME NEW p \in Users, GetById(p) \/ Retrieve(p) \/ Clear(p) \/ Unserved(p)
      PROVE  UNCHANGED <<rows, uuids>>
  BY <1>4 DEF GetById, Retrieve, Clear, Unserved, Calls, ChromaGet, ChromaRetrieve, ChromaClear,
              NotServed, ById
<1>5. ASSUME NEW p \in Users, Remove(p)
      PROVE  UNCHANGED <<rows, uuids>> \/ \E ids : rows' = Keep(rows, ids) /\ uuids' = uuids
  BY <1>5 DEF Remove, Calls, ChromaRemove, ById
<1>6. ASSUME NEW p \in Users, Insert(p)
      PROVE  ServerStep
  <2>1. \/ UNCHANGED <<rows, uuids>>
        \/ \E ds \in [{1} -> Docs] \cup [{1, 2} -> Docs] :
              /\ uuids + Len(ds) <= MaxIds
              /\ rows' = With(rows, Numbered(uuids, ds))
              /\ uuids' = uuids + Len(ds)
    BY <1>6 DEF Insert, Calls, ChromaAdd, ById
  <2>2. ASSUME NEW ds \in [{1} -> Docs] \cup [{1, 2} -> Docs]
        PROVE  /\ Len(ds) \in Nat \ {0}
               /\ DOMAIN Numbered(uuids, ds) = uuids .. uuids + Len(ds) - 1
    <3>1. uuids \in Nat
      BY DEF ServerInv
    <3> QED
      BY <3>1, NumberedIds
  <2> QED
    BY <2>1, <2>2 DEF ServerStep
<1> QED
  BY <1>1, <1>2, <1>3, <1>4, <1>5, <1>6 DEF Next, ServerStep

\* A step that ends no clear() leaves what every client knows.
LEMMA ClearStep == ClearInv /\ [Next]_vars => ClearInv'
<1> SUFFICES ASSUME ClearInv, [Next]_vars PROVE ClearInv'
  OBVIOUS
<1> USE DEF chromaVars, serverVars, clientVars
<1>1. /\ UserInv /\ ServerInv /\ UserInv' /\ ServerInv' /\ ServerStep
      /\ \A q \in Procs : Numbers(before[q]) /\ Cleared(q)
      /\ DOMAIN request = Procs /\ DOMAIN before = Procs /\ DOMAIN collectionId = Procs
      /\ DOMAIN pc = Procs
  BY UserStep, ServerSteps, ServerStepKept DEF ClearInv, UserInv, Cleared
<1>2. \A ids : /\ Numbers(ids) => Numbers(ids)'
               /\ Numbers(ids) /\ DOMAIN rows \cap ids = {} => DOMAIN rows' \cap ids = {}
  BY <1>1, ServerStepKept
<1>3. Numbers({}) /\ Numbers(DOMAIN rows)
  BY <1>1 DEF Numbers, ServerInv
<1>4. Users \subseteq Procs
  BY <1>1, UsersAreProcs DEF UserInv
\* What a step of p may do to p's own client.
<1>5. ASSUME NEW p \in Procs,
             DOMAIN request' = Procs /\ DOMAIN before' = Procs /\ DOMAIN collectionId' = Procs,
             \A q \in Procs : q # p => /\ pc'[q] = pc[q] /\ request'[q] = request[q]
                                       /\ before'[q] = before[q],
             before'[p] \in {before[p], {}, DOMAIN rows},
             pc'[p] = "clearing" /\ request'[p] \in {"post", "lookup"} =>
                 \/ before'[p] = {} \/ DOMAIN rows' = {}
                 \/ /\ before'[p] = before[p]
                    /\ pc[p] = "clearing" /\ request[p] \in {"post", "lookup"}
      PROVE  ClearInv'
  <2>1. Numbers(before[p])'
    <3>1. \A ids : Numbers(ids) => ids \subseteq 0 .. uuids' - 1
      BY <1>2 DEF Numbers
    <3> QED
      BY <1>1, <1>3, <1>5, <3>1 DEF Numbers
  <2>2. Cleared(p)'
    BY <1>1, <1>2, <1>5, <2>1 DEF Cleared
  <2>3. ASSUME NEW q \in Procs, q # p PROVE Cleared(q)'
    <3>1. /\ pc'[q] = pc[q] /\ request'[q] = request[q] /\ before'[q] = before[q]
          /\ Numbers(before[q])
      BY <1>1, <1>5, <2>3
    <3>2. \A ids : Numbers(ids) => ids \subseteq 0 .. uuids' - 1
      BY <1>2 DEF Numbers
    <3>3. before'[q] \subseteq 0 .. uuids' - 1
      BY <3>1, <3>2
    <3>4. DOMAIN rows \cap before[q] = {} => DOMAIN rows' \cap before[q] = {}
      BY <1>2, <3>1
    <3> QED
      BY <1>1, <3>1, <3>3, <3>4 DEF Cleared, Numbers
  <2> QED
    BY <1>1, <1>5, <2>2, <2>3 DEF ClearInv
<1>6. CASE UNCHANGED vars
  BY <1>1, <1>6 DEF vars, callVars, userVars, ClearInv, Cleared, Numbers
<1>7. ASSUME NEW p \in Users, UNCHANGED <<pc, request, before, collectionId>> PROVE ClearInv'
  BY <1>1, <1>4, <1>5, <1>7 DEF Cleared
<1>8. ASSUME NEW p \in Users, UNCHANGED clientVars, pc'[p] # "clearing",
             \A q \in Procs : q # p => pc'[q] = pc[q]
      PROVE ClearInv'
  BY <1>1, <1>4, <1>5, <1>8
<1>9. ASSUME NEW p \in Users, ChromaForget(p), pc'[p] # "clearing",
             \A q \in Procs : q # p => pc'[q] = pc[q]
      PROVE ClearInv'
  BY <1>1, <1>4, <1>5, <1>9 DEF ChromaForget, Goes
<1>10. ASSUME NEW p \in Users, Start(p) \/ DefineEmbedding(p) \/ DeleteEmbedding(p)
                               \/ ClientReturns(p)
       PROVE ClearInv'
  BY <1>1, <1>4, <1>8, <1>10 DEF Start, DefineEmbedding, DeleteEmbedding, ClientReturns, Runs, Goto
<1>11. ASSUME NEW p \in Users, Terminate(p) \/ DeleteStore(p) PROVE ClearInv'
  BY <1>1, <1>4, <1>9, <1>11 DEF Terminate, DeleteStore, Goto
<1>12. ASSUME NEW p \in Users, DefineStore(p) PROVE ClearInv'
  <2>1. /\ pc'[p] # "clearing" /\ \A q \in Procs : q # p => pc'[q] = pc[q]
        /\ UNCHANGED <<before, collectionId>>
        /\ request' = request \/ Goes(p, "post")
    BY <1>1, <1>4, <1>12 DEF DefineStore, Runs, Goto, CreateCollection
  <2> QED
    BY <1>1, <1>4, <1>5, <2>1 DEF Goes
<1>13. ASSUME NEW p \in Users, CallRefused(p) \/ InsertNothing(p) PROVE ClearInv'
  BY <1>7, <1>13 DEF CallRefused, InsertNothing, userVars
<1>14. ASSUME NEW p \in Users,
              Insert(p) \/ GetById(p) \/ Retrieve(p) \/ Remove(p) \/ Unserved(p)
       PROVE ClearInv'
  <2>1. UNCHANGED <<pc, request, before, collectionId>>
    BY <1>14 DEF Insert, GetById, Retrieve, Remove, Unserved, Calls, Returns, ChromaAdd, ChromaGet,
                 ChromaRetrieve, ChromaRemove, NotServed
  <2> QED
    BY <1>7, <2>1
<1>15. ASSUME NEW p \in Users, Clear(p) PROVE ClearInv'
  <2>1. CASE UNCHANGED <<pc, request, before, collectionId>>
    BY <1>7, <2>1
  <2>2. CASE ChromaClear(p) /\ Goto(p, "clearing")
    BY <1>1, <1>4, <1>5, <2>2 DEF ChromaClear, Goes, Goto
  <2> QED
    BY <1>15, <2>1, <2>2 DEF Clear, Calls, Returns
<1>16. ASSUME NEW p \in Users, ClientStep(p) PROVE ClearInv'
  <2>1. pc' = pc /\ p \in Procs
    BY <1>4, <1>16 DEF ClientStep, userVars
  <2>2. CASE UNCHANGED <<request, before, collectionId>>
    BY <1>7, <2>1, <2>2
  <2>3. ASSUME NEW c, Adopt(p, c) PROVE ClearInv'
    BY <1>1, <1>5, <2>1, <2>3 DEF Adopt, Goes
  <2>4. CASE request[p] = "post" /\ Goes(p, "lookup") /\ UNCHANGED <<before, collectionId>>
    BY <1>1, <1>5, <2>1, <2>4 DEF Goes
  <2>5. CASE rows' = NoItems /\ Goes(p, "post") /\ UNCHANGED <<before, collectionId>>
    <3>1. DOMAIN rows' = {}
      BY <2>5, ItemFacts
    <3> QED
      BY <1>1, <1>5, <2>1, <2>5, <3>1 DEF Goes
  <2>6. PostCollection(p) => \/ UNCHANGED <<request, before, collectionId>>
                             \/ \E c : Adopt(p, c)
                             \/ /\ request[p] = "post" /\ Goes(p, "lookup")
                                /\ UNCHANGED <<before, collectionId>>
    BY DEF PostCollection
  <2>7. GetCollection(p) => UNCHANGED <<request, before, collectionId>> \/ \E c : Adopt(p, c)
    BY DEF GetCollection
  <2>8. DeleteCollection(p) => \/ UNCHANGED <<request, before, collectionId>>
                               \/ /\ rows' = NoItems /\ Goes(p, "post")
                                  /\ UNCHANGED <<before, collectionId>>
    BY DEF DeleteCollection
  <2>9. NotServed(p) => UNCHANGED <<request, before, collectionId>>
    BY DEF NotServed
  <2> QED
    BY <1>16, <2>2, <2>3, <2>4, <2>5, <2>6, <2>7, <2>8, <2>9 DEF ClientStep
<1> QED
  BY <1>6, <1>10, <1>11, <1>12, <1>13, <1>14, <1>15, <1>16 DEF Next

LEMMA ClearInit == Init => ClearInv
<1> SUFFICES ASSUME Init PROVE ClearInv
  OBVIOUS
<1>1. UserInv
  BY UserInit
<1>2. 0 \in Nat /\ 0 <= MaxIds
  BY StoreAssumption
<1>3. ServerInv
  BY <1>2, ItemFacts DEF Init, ChromaInit, ServerInv, Numbers
<1> QED
  BY <1>1, <1>3 DEF Init, ChromaInit, ClearInv, Cleared, Numbers

\* chromadb_vector_store.cpp:259-262: when clear() returns, its client has the collection
\* there is, and none of the items that were there when it was called is left, whatever
\* the other clients have deleted, created and added between its requests.
THEOREM ClearingForgets == Spec => ClearForgets
<1> USE DEF chromaVars, serverVars, clientVars
<1>1. ASSUME ClearInv, [Next]_vars, NEW p \in Procs,
             pc[p] = "clearing", request[p] # "none", request'[p] = "none", pc'[p] # "off"
      PROVE  collectionId'[p] = collection' /\ DOMAIN rows' \cap before[p] = {}
  <2>1. /\ Cleared(p) /\ p \in DOMAIN collectionId /\ DOMAIN request = Procs /\ DOMAIN pc = Procs
        /\ Users \subseteq Procs
    BY <1>1, UsersAreProcs DEF ClearInv, UserInv
  <2>2. ASSUME NEW c, Adopt(p, c), UNCHANGED rows,
             request[p] \in {"post", "lookup"}, collection' = c
        PROVE  collectionId'[p] = collection' /\ DOMAIN rows' \cap before[p] = {}
    BY <1>1, <2>1, <2>2 DEF Adopt, Cleared
  <2>3. ASSUME NEW q \in Users, ClientStep(q), q = p
        PROVE  \E c : Adopt(p, c) /\ UNCHANGED rows /\ request[p] \in {"post", "lookup"}
                      /\ collection' = c
    BY <1>1, <2>1, <2>3 DEF ClientStep, PostCollection, GetCollection, DeleteCollection,
                            NotServed, Goes
  <2>4. ASSUME NEW q \in Users, ClientStep(q), q # p
        PROVE  request'[p] = request[p]
    BY <1>1, <2>1, <2>4 DEF ClientStep, PostCollection, GetCollection, DeleteCollection, NotServed,
                            Goes, Adopt
  <2>5. ASSUME NEW q \in Users, Terminate(q) \/ DeleteStore(q)
        PROVE  request'[p] = request[p]
    BY <1>1, <2>1, <2>5 DEF Terminate, DeleteStore, ChromaForget, Goes, Goto, Runs
  <2>6. ASSUME NEW q \in Users, DefineStore(q)
        PROVE  request'[p] # "none"
    BY <1>1, <2>1, <2>6 DEF DefineStore, CreateCollection, Goes
  <2>7. ASSUME NEW q \in Users, Clear(q)
        PROVE  request'[p] # "none"
    BY <1>1, <2>1, <2>7 DEF Clear, Calls, Returns, ChromaClear, Goes
  <2>8. ASSUME NEW q \in Users,
               Insert(q) \/ GetById(q) \/ Retrieve(q) \/ Remove(q) \/ Unserved(q)
        PROVE  request' = request
    BY <2>8 DEF Insert, GetById, Retrieve, Remove, Unserved, Calls, ChromaAdd, ChromaGet,
                ChromaRetrieve, ChromaRemove, NotServed
  <2>9. ASSUME NEW q \in Users,
               \/ Start(q) \/ DefineEmbedding(q) \/ DeleteEmbedding(q) \/ ClientReturns(q)
               \/ CallRefused(q) \/ InsertNothing(q)
        PROVE  request' = request
    BY <2>9 DEF Start, DefineEmbedding, DeleteEmbedding, ClientReturns, CallRefused, InsertNothing
  <2>10. CASE UNCHANGED vars
    BY <1>1, <2>10 DEF vars
  <2> QED
    BY <1>1, <2>2, <2>3, <2>4, <2>5, <2>6, <2>7, <2>8, <2>9, <2>10 DEF Next
<1>2. ClearInv /\ [Next]_vars =>
        \A p \in Procs :
          pc[p] = "clearing" /\ request[p] # "none" /\ request'[p] = "none"
             /\ pc'[p] # "off"
          => collectionId'[p] = collection' /\ DOMAIN rows' \cap before[p] = {}
  BY <1>1
<1> QED
  BY <1>2, ClearInit, ClearStep, PTL DEF Spec, ClearForgets

-----------------------------------------------------------------------------
(* Both stores are a Store: d and n are its items and how many there ever  *)
(* were, before a step, and e and m after it.                              *)

Kept(d, n) ==
    /\ n \in Nat /\ n <= MaxIds
    /\ DOMAIN d \subseteq 0 .. n - 1 /\ d = [i \in DOMAIN d |-> d[i]]

\* The Store of this state.
Stands(d, n) ==
    /\ (IF InMemory THEN documents[OneFaiss] ELSE rows) = d
    /\ (IF InMemory THEN 0 .. idCounter[OneFaiss] - 1 ELSE 0 .. uuids - 1) = 0 .. n - 1

\* Some items are added, all are removed, or the store is made anew; items are read;
\* one is removed.
Writes(d, n, e, m) ==
    \/ e = d /\ m = n
    \/ e = NoItems /\ m \in {n, 0}
    \/ \E ds \in [{1} -> Docs] \cup [{1, 2} -> Docs] :
          n + Len(ds) <= MaxIds /\ e = With(d, Numbered(n, ds)) /\ m = n + Len(ds)

Reads(d) ==
    \/ \E key \in Keys : answer' = <<"get_by_id", key, Under(key, d, key)>>
    \/ \E k \in TopK : \E items \in Found(d, k) : answer' = <<"retrieve", k, items>>

Removes(d, e) ==
    \E key \in Keys : /\ answer' = <<"remove_vector", key, NoItems>>
                      /\ e = Keep(d, Ids \ {key})

StoreStep(d, n, e, m) ==
    \/ answer' = <<>> /\ Writes(d, n, e, m)
    \/ Reads(d) /\ e = d /\ m = n
    \/ Removes(d, e) /\ m = n

\* What FAISS does when it is asked for an id that is not a number.
ZeroStep(d, n, e, m) ==
    /\ m = n
    /\ \/ answer' = <<"get_by_id", Foreign, Under(Foreign, d, 0)>> /\ e = d
       \/ answer' = <<"remove_vector", Foreign, NoItems>> /\ e = Keep(d, Ids \ {0})

Step(d, n, e, m) ==
    \/ Writes(d, n, e, m)
    \/ m = n /\ \E ids : e = Keep(d, ids)

LEMMA Additions ==
    ASSUME NEW d, NEW n, Kept(d, n), NEW ds \in [{1} -> Docs] \cup [{1, 2} -> Docs],
           n + Len(ds) <= MaxIds
    PROVE  /\ Kept(With(d, Numbered(n, ds)), n + Len(ds))
           /\ \E new \in SUBSET (Ids \ (0 .. n - 1)) :
                 /\ Numbered(n, ds) \in [new -> Docs]
                 /\ 0 .. (n + Len(ds)) - 1 = (0 .. n - 1) \cup new
<1> DEFINE new == Numbered(n, ds)
           l == Len(ds)
<1>1. n \in Nat /\ DOMAIN d \subseteq 0 .. n - 1
  BY DEF Kept
<1>2. /\ l \in Nat \ {0} /\ DOMAIN new = n .. n + l - 1
      /\ new \in [n .. n + l - 1 -> Docs]
  BY <1>1, NumberedIds
<1>3. n + l <= MaxIds
  OBVIOUS
<1>4. MaxIds \in Nat
  BY StoreAssumption
<1> HIDE DEF l, new
<1>5. /\ n + l \in Nat
      /\ \A i \in 0 .. n - 1 : i \in 0 .. n + l - 1 /\ i \notin n .. n + l - 1
      /\ \A i \in n .. n + l - 1 : i \in 0 .. n + l - 1
  BY <1>1, <1>2, Segments
<1>6. 0 .. (n + l) - 1 = (0 .. n - 1) \cup (n .. n + l - 1)
  BY <1>1, <1>2
<1>7. n .. n + l - 1 \subseteq Ids \ (0 .. n - 1)
  BY <1>1, <1>2, <1>3, <1>4 DEF Ids
<1>8. /\ DOMAIN With(d, new) = DOMAIN d \cup DOMAIN new
      /\ With(d, new) = [i \in DOMAIN With(d, new) |-> With(d, new)[i]]
  BY DEF With
<1>9. Kept(With(d, new), n + l)
  BY <1>1, <1>2, <1>3, <1>5, <1>8 DEF Kept
<1> QED
  BY <1>2, <1>6, <1>7, <1>9 DEF l, new

LEMMA StaysKept ==
    ASSUME NEW d, NEW n, NEW e, NEW m, Kept(d, n), Step(d, n, e, m)
    PROVE  Kept(e, m)
<1>1. CASE e = d /\ m = n
  BY <1>1
<1>2. CASE e = NoItems /\ m \in {n, 0}
  <2>1. DOMAIN e = {} /\ e = [i \in DOMAIN e |-> e[i]]
    BY <1>2, ItemFacts
  <2>2. m \in Nat /\ m <= MaxIds
    BY <1>2, StoreAssumption DEF Kept
  <2> QED
    BY <2>1, <2>2 DEF Kept
<1>3. ASSUME NEW ids, e = Keep(d, ids), m = n PROVE Kept(e, m)
  <2>1. DOMAIN e \subseteq DOMAIN d /\ e = [j \in DOMAIN e |-> e[j]]
    BY <1>3 DEF Keep, Restrict
  <2> QED
    BY <1>3, <2>1 DEF Kept
<1>4. ASSUME NEW ds \in [{1} -> Docs] \cup [{1, 2} -> Docs],
             n + Len(ds) <= MaxIds, e = With(d, Numbered(n, ds)), m = n + Len(ds)
      PROVE  Kept(e, m)
  BY <1>4, Additions
<1> QED
  BY <1>1, <1>2, <1>3, <1>4 DEF Step, Writes

LEMMA StepsKept ==
    ASSUME NEW d, NEW n, NEW e, NEW m, Kept(d, n), StoreStep(d, n, e, m) \/ ZeroStep(d, n, e, m)
    PROVE  Kept(e, m)
<1>1. Step(d, n, e, m)
  BY DEF Step, StoreStep, ZeroStep, Removes, Writes
<1> QED
  BY <1>1, StaysKept

\* What the Store calls by these names is what the two stores call so.
LEMMA SameItems ==
    /\ S!NoItems = NoItems
    /\ \A f, ids : S!Keep(f, ids) = Keep(f, ids)
    /\ \A f, g : S!With(f, g) = With(f, g)
    /\ \A f, k : S!Found(f, k) = Found(f, k)
    /\ \A key, f, i : S!Under(key, f, i) = Under(key, f, i)
<1>0. \A key, f, i : S!Under(key, f, i) = Under(key, f, i)
  BY DEF S!Under, Under
<1>1. S!NoItems = NoItems
  BY DEF S!NoItems, NoItems
<1>2. \A f, ids : S!Keep(f, ids) = Keep(f, ids)
  BY DEF S!Keep, Keep, S!Restrict, Restrict
<1>3. \A f, g : S!With(f, g) = With(f, g)
  BY DEF S!With, With
<1>4. \A k, s : S!kSubset(k, s) = kSubset(k, s)
  BY DEF S!kSubset, kSubset, S!Cardinality, Cardinality
<1>5. \A f, k : S!Found(f, k) = Found(f, k)
  BY <1>2, <1>4 DEF S!Found, Found, S!Cardinality, Cardinality
<1> QED
  BY <1>0, <1>1, <1>2, <1>3, <1>5

LEMMA Mapped ==
    ASSUME NEW d, NEW n, NEW e, NEW m, Kept(d, n), Stands(d, n), Stands(e, m)',
           StoreStep(d, n, e, m)
    PROVE  S!StoreNext
<1> USE DEF S!StoreNext, S!Silent
<1>1. CASE answer' = <<>> /\ e = d /\ m = n
  BY <1>1 DEF S!Idle, Stands
<1>2. CASE answer' = <<>> /\ e = NoItems /\ m = n
  BY <1>2, SameItems DEF S!Empty, Stands
<1>3. CASE answer' = <<>> /\ e = NoItems /\ m = 0
  <2>1. 0 .. m - 1 = {}
    BY <1>3
  <2> QED
    BY <1>3, <2>1, SameItems DEF S!Renew, Stands
<1>4. ASSUME NEW key \in Keys, answer' = <<"remove_vector", key, NoItems>>,
             e = Keep(d, Ids \ {key}), m = n
      PROVE  S!StoreNext
  BY <1>4, SameItems DEF S!Drop, S!DropAs, Stands
<1>5. ASSUME NEW ds \in [{1} -> Docs] \cup [{1, 2} -> Docs], answer' = <<>>,
             n + Len(ds) <= MaxIds, e = With(d, Numbered(n, ds)), m = n + Len(ds)
      PROVE  S!StoreNext
  <2>1. PICK new \in SUBSET (Ids \ (0 .. n - 1)) :
            /\ Numbered(n, ds) \in [new -> Docs]
            /\ 0 .. (n + Len(ds)) - 1 = (0 .. n - 1) \cup new
    BY <1>5, Additions
  <2>2. 0 .. m - 1 = (0 .. n - 1) \cup new
    BY <1>5, <2>1
  <2>3. answer' = <<>> /\ e = With(d, Numbered(n, ds))
    BY <1>5
  <2> QED
    BY <2>1, <2>2, <2>3, SameItems DEF S!Add, Stands
<1>6. ASSUME NEW key \in Keys, answer' = <<"get_by_id", key, Under(key, d, key)>>, e = d, m = n
      PROVE  S!StoreNext
  BY <1>6, SameItems DEF S!Get, S!GetAs, Stands
<1>7. ASSUME NEW k \in TopK, NEW items \in Found(d, k), answer' = <<"retrieve", k, items>>,
             e = d, m = n
      PROVE  S!StoreNext
  BY <1>7, SameItems DEF S!Search, Stands
<1> QED
  BY <1>1, <1>2, <1>3, <1>4, <1>5, <1>6, <1>7 DEF StoreStep, Writes, Reads, Removes

LEMMA MappedZero ==
    ASSUME NEW d, NEW n, NEW e, NEW m, InMemory, Stands(d, n), Stands(e, m)',
           ZeroStep(d, n, e, m)
    PROVE  TakenForZero
  BY SameItems DEF TakenForZero, S!GetAs, S!DropAs, ZeroStep, Stands

LEMMA FoundItems ==
    ASSUME NEW d, NEW k, NEW items \in Found(d, k)
    PROVE  items = [i \in DOMAIN items |-> d[i]]
  BY DEF Found, Keep, Restrict

\* A store in memory.
LEMMA FaissSteps ==
    ASSUME NEW p \in Users, UserInv, Next, backend[p] = "faiss",
           DOMAIN documents = Procs, DOMAIN index = Procs, DOMAIN idCounter = Procs,
           index[p] = documents[p], Kept(documents[p], idCounter[p])
    PROVE  /\ \/ StoreStep(documents[p], idCounter[p], documents'[p], idCounter'[p])
              \/ ZeroStep(documents[p], idCounter[p], documents'[p], idCounter'[p])
           /\ index'[p] = documents'[p]
           /\ DOMAIN documents' = Procs /\ DOMAIN index' = Procs /\ DOMAIN idCounter' = Procs
<1> USE DEF faissVars, callVars
<1>1. p \in Procs /\ Users = {p}
  BY ScenarioAssumption DEF Users, UserInv
<1>2. ASSUME UNCHANGED faissVars, answer' = <<>>
      PROVE  /\ StoreStep(documents[p], idCounter[p], documents'[p], idCounter'[p])
             /\ index'[p] = documents'[p]
             /\ DOMAIN documents' = Procs /\ DOMAIN index' = Procs /\ DOMAIN idCounter' = Procs
  BY <1>2 DEF StoreStep, Writes
<1>3. ASSUME FaissCreate(p), answer' = <<>>
      PROVE  /\ StoreStep(documents[p], idCounter[p], documents'[p], idCounter'[p])
             /\ index'[p] = documents'[p]
             /\ DOMAIN documents' = Procs /\ DOMAIN index' = Procs /\ DOMAIN idCounter' = Procs
  BY <1>1, <1>3 DEF FaissCreate, StoreStep, Writes
<1>4. CASE \/ Start(p) \/ DefineEmbedding(p) \/ ClientStep(p) \/ ClientReturns(p)
           \/ DeleteEmbedding(p) \/ CallRefused(p) \/ InsertNothing(p) \/ Unserved(p)
  <2>1. UNCHANGED faissVars /\ answer' = <<>>
    BY <1>4 DEF Start, DefineEmbedding, ClientStep, ClientReturns, DeleteEmbedding, CallRefused,
           InsertNothing, Unserved, Calls, PostCollection, GetCollection, DeleteCollection, Adopt,
           NotServed, Done, Throw
  <2> QED
    BY <1>2, <2>1
<1>5. CASE Terminate(p) \/ DeleteStore(p) \/ DefineStore(p)
  <2>1. (FaissCreate(p) \/ UNCHANGED faissVars) /\ answer' = <<>>
    BY <1>5 DEF Terminate, DeleteStore, DefineStore, Done, Throw
  <2> QED
    BY <1>2, <1>3, <2>1
<1>6. CASE Insert(p)
  <2>1. PICK ds \in [{1} -> Docs] \cup [{1, 2} -> Docs], fits \in BOOLEAN : FaissAdd(p, ds, fits)
    BY <1>6 DEF Insert, Calls
  <2>2. CASE ~fits
    BY <1>2, <2>1, <2>2 DEF FaissAdd, Throw
  <2>3. CASE fits
    BY <1>1, <2>1, <2>3 DEF FaissAdd, Done, StoreStep, Writes
  <2> QED
    BY <2>2, <2>3
<1>7. CASE GetById(p)
  <2>1. PICK id \in Keys : FaissGet(p, id)
    BY <1>7 DEF GetById, Calls
  <2>2. answer' = <<"get_by_id", id, Under(id, documents[p], Strtoll(id))>>
    BY <2>1 DEF FaissGet, Answers, Under
  <2>3. UNCHANGED faissVars
    BY <2>1 DEF FaissGet
  <2>4. Strtoll(id) = id \/ (id = Foreign /\ Strtoll(id) = 0)
    BY DEF Strtoll
  <2> QED
    BY <2>2, <2>3, <2>4 DEF StoreStep, ZeroStep, Reads
<1>8. CASE Retrieve(p)
  <2>1. PICK k \in TopK, fits \in BOOLEAN : FaissRetrieve(p, k, fits)
    BY <1>8 DEF Retrieve, Calls
  <2>2. CASE ~fits \/ k < 0
    BY <1>2, <2>1, <2>2 DEF FaissRetrieve, Throw
  <2>3. CASE ~(~fits \/ k < 0)
    <3>1. PICK items \in Found(documents[p], k) :
              answer' = <<"retrieve", k, [i \in DOMAIN items |-> documents[p][i]]>>
      BY <2>1, <2>3 DEF FaissRetrieve, Answers
    <3>2. answer' = <<"retrieve", k, items>>
      BY <3>1, FoundItems
    <3> QED
      BY <2>1, <3>2 DEF FaissRetrieve, StoreStep, Reads
  <2> QED
    BY <2>2, <2>3
<1>9. CASE Remove(p)
  <2>1. PICK id \in Keys : FaissRemove(p, id)
    BY <1>9 DEF Remove, Calls
  <2>2. /\ answer' = <<"remove_vector", id, NoItems>>
        /\ documents'[p] = Keep(documents[p], Ids \ {Strtoll(id)})
        /\ index'[p] = documents'[p] /\ idCounter' = idCounter
        /\ DOMAIN documents' = Procs /\ DOMAIN index' = Procs
    BY <1>1, <2>1 DEF FaissRemove, Answers
  <2>3. Strtoll(id) = id \/ (id = Foreign /\ Strtoll(id) = 0)
    BY DEF Strtoll
  <2> QED
    BY <2>2, <2>3 DEF StoreStep, ZeroStep, Removes
<1>10. CASE Clear(p)
  BY <1>1, <1>10 DEF Clear, Calls, FaissClear, Done, StoreStep, Writes
<1> QED
  BY <1>1, <1>4, <1>5, <1>6, <1>7, <1>8, <1>9, <1>10 DEF Next

\* A store on a server, as all its clients see it.
LEMMA ChromaSteps ==
    ASSUME UserInv, Next, ~InMemory, Kept(rows, uuids)
    PROVE  StoreStep(rows, uuids, rows', uuids')
<1> USE DEF chromaVars, serverVars
<1>0. \A p \in Users : backend[p] # "faiss"
  BY DEF InMemory
<1>1. ASSUME UNCHANGED <<rows, uuids>>, answer' = <<>>
      PROVE  StoreStep(rows, uuids, rows', uuids')
  BY <1>1 DEF StoreStep, Writes
<1>2. ASSUME NEW p \in Users,
             \/ Start(p) \/ DefineEmbedding(p) \/ ClientReturns(p) \/ DeleteEmbedding(p)
             \/ CallRefused(p) \/ InsertNothing(p) \/ Terminate(p) \/ DeleteStore(p)
             \/ DefineStore(p)
      PROVE  StoreStep(rows, uuids, rows', uuids')
  <2>1. UNCHANGED <<rows, uuids>> /\ answer' = <<>>
    BY <1>2 DEF Start, DefineEmbedding, ClientReturns, DeleteEmbedding, CallRefused, InsertNothing,
           Terminate, DeleteStore, DefineStore, ChromaForget, CreateCollection, Done, Throw
  <2> QED
    BY <1>1, <2>1
<1>3. ASSUME NEW p \in Users, ClientStep(p)
      PROVE  StoreStep(rows, uuids, rows', uuids')
  <2>1. /\ answer' = <<>> /\ uuids' = uuids
        /\ rows' = rows \/ rows' = NoItems
    BY <1>3 DEF ClientStep, PostCollection, GetCollection, DeleteCollection, NotServed, Adopt, Done,
                Throw
  <2> QED
    BY <2>1 DEF StoreStep, Writes
<1>4. ASSUME NEW p \in Users, Clear(p) \/ Unserved(p)
      PROVE  StoreStep(rows, uuids, rows', uuids')
  <2>1. UNCHANGED <<rows, uuids>> /\ answer' = <<>>
    BY <1>0, <1>4 DEF Clear, Unserved, Calls, ChromaClear, NotServed, Done, Throw
  <2> QED
    BY <1>1, <2>1
<1>5. ASSUME NEW p \in Users, Insert(p)
      PROVE  StoreStep(rows, uuids, rows', uuids')
  <2>1. PICK ds \in [{1} -> Docs] \cup [{1, 2} -> Docs], fits \in BOOLEAN : ChromaAdd(p, ds, fits)
    BY <1>0, <1>5 DEF Insert, Calls
  <2>2. answer' = <<>>
    BY <2>1 DEF ChromaAdd, ById, Answered, Done, Throw
  <2>3. \/ UNCHANGED <<rows, uuids>>
        \/ /\ uuids + Len(ds) <= MaxIds
           /\ rows' = With(rows, Numbered(uuids, ds)) /\ uuids' = uuids + Len(ds)
    BY <2>1 DEF ChromaAdd, ById
  <2> QED
    BY <2>2, <2>3 DEF StoreStep, Writes
<1>6. ASSUME NEW p \in Users, GetById(p)
      PROVE  StoreStep(rows, uuids, rows', uuids')
  <2>1. PICK id \in Keys : ChromaGet(p, id)
    BY <1>0, <1>6 DEF GetById, Calls
  <2>3. UNCHANGED <<rows, uuids>>
    BY <2>1 DEF ChromaGet
  <2>4. answer' = <<>> \/ answer' = <<"get_by_id", id, Under(id, rows, id)>>
    BY <2>1 DEF ChromaGet, Answered, Answers, Done, Throw
  <2> QED
    BY <1>1, <2>3, <2>4 DEF StoreStep, Reads
<1>7. ASSUME NEW p \in Users, Retrieve(p)
      PROVE  StoreStep(rows, uuids, rows', uuids')
  <2>1. PICK k \in TopK, fits \in BOOLEAN : ChromaRetrieve(p, k, fits)
    BY <1>0, <1>7 DEF Retrieve, Calls
  <2>2. UNCHANGED <<rows, uuids>>
    BY <2>1 DEF ChromaRetrieve, ById
  <2>3. answer' = <<>> \/ \E items \in Found(rows, k) : answer' = <<"retrieve", k, items>>
    BY <2>1 DEF ChromaRetrieve, ById, Answered, Answers, Throw
  <2> QED
    BY <1>1, <2>2, <2>3 DEF StoreStep, Reads
<1>8. ASSUME NEW p \in Users, Remove(p)
      PROVE  StoreStep(rows, uuids, rows', uuids')
  <2>1. PICK id \in Keys : ChromaRemove(p, id)
    BY <1>0, <1>8 DEF Remove, Calls
  <2>2. /\ uuids' = uuids
        /\ \/ answer' = <<>> /\ rows' = rows
           \/ answer' = <<"remove_vector", id, NoItems>> /\ rows' = Keep(rows, Ids \ {id})
    BY <2>1 DEF ChromaRemove, ById, Throw
  <2> QED
    BY <2>2 DEF StoreStep, Writes, Removes
<1> QED
  BY <1>2, <1>3, <1>4, <1>5, <1>6, <1>7, <1>8 DEF Next

ItemsInv ==
    /\ UserInv
    /\ ~InMemory => Kept(rows, uuids)
    /\ \A p \in Users : backend[p] = "faiss" =>
          /\ DOMAIN documents = Procs /\ DOMAIN index = Procs /\ DOMAIN idCounter = Procs
          /\ index[p] = documents[p] /\ Kept(documents[p], idCounter[p])

\* Which store it is never changes.
LEMMA SameStore ==
    ASSUME UserInv, [Next]_vars
    PROVE  /\ backend' = backend /\ Users' = Users
           /\ InMemory' <=> InMemory
           /\ InMemory => \E p \in Users : /\ backend[p] = "faiss" /\ Users = {p}
                                           /\ OneFaiss = p /\ OneFaiss' = p
<1>1. backend' = backend
  BY DEF Next, vars, Start, Terminate, DefineEmbedding, DefineStore, ClientStep, ClientReturns,
         DeleteEmbedding, DeleteStore, CallRefused, InsertNothing, Insert, GetById, Retrieve,
         Remove, Clear, Unserved, Calls
<1>2. Users' = Users /\ (InMemory' <=> InMemory)
  BY <1>1 DEF Users, InMemory
<1>3. ASSUME InMemory
      PROVE  \E p \in Users : /\ backend[p] = "faiss" /\ Users = {p}
                              /\ OneFaiss = p /\ OneFaiss' = p
  <2>1. PICK p \in Users : backend[p] = "faiss"
    BY <1>3 DEF InMemory
  <2>2. Users = {p}
    BY <2>1, ScenarioAssumption DEF Users, UserInv
  <2>3. OneFaiss \in Users
    BY <2>1 DEF OneFaiss
  <2>4. OneFaiss' \in Users'
    <3>1. \E q \in Users' : backend'[q] = "faiss"
      BY <1>1, <1>2, <2>1
    <3> QED
      BY <3>1 DEF OneFaiss
  <2> QED
    BY <1>2, <2>1, <2>2, <2>3, <2>4
<1> QED
  BY <1>1, <1>2, <1>3

LEMMA ItemsStep ==
    ASSUME ItemsInv, [Next]_vars
    PROVE  ItemsInv' /\ [S!StoreNext \/ TakenForZero]_(S!storeVars)
<1> USE DEF ItemsInv
<1>1. UserInv'
  BY UserStep
<1>2. CASE UNCHANGED vars
  <2>1. UNCHANGED <<faissVars, chromaVars, answer, backend>>
    BY <1>2 DEF vars, callVars
  <2>2. UNCHANGED <<index, documents, idCounter, rows, uuids, answer, backend>>
    BY <2>1 DEF faissVars, chromaVars, serverVars
  <2>3. ItemsInv'
    BY <1>1, <2>2 DEF Users, Kept, InMemory
  <2>4. UNCHANGED S!storeVars
    BY <2>2 DEF S!storeVars, InMemory, OneFaiss, Users
  <2> QED
    BY <2>3, <2>4
<1>3. CASE Next /\ InMemory
  <2>1. PICK p \in Users : /\ backend[p] = "faiss" /\ Users = {p}
                           /\ OneFaiss = p /\ OneFaiss' = p
                           /\ backend' = backend /\ Users' = Users /\ InMemory /\ InMemory'
    BY <1>3, SameStore
  <2>2. /\ \/ StoreStep(documents[p], idCounter[p], documents'[p], idCounter'[p])
           \/ ZeroStep(documents[p], idCounter[p], documents'[p], idCounter'[p])
        /\ index'[p] = documents'[p]
        /\ DOMAIN documents' = Procs /\ DOMAIN index' = Procs /\ DOMAIN idCounter' = Procs
    BY <1>3, <2>1, FaissSteps
  <2>3. Kept(documents'[p], idCounter'[p])
    BY <2>1, <2>2, StepsKept
  <2>5. ItemsInv'
    BY <1>1, <2>1, <2>2, <2>3 DEF Kept
  <2>6. Stands(documents[p], idCounter[p])
    BY <2>1 DEF Stands
  <2>7. \A e, m : e = documents'[p] /\ m = idCounter'[p] => Stands(e, m)'
    BY <2>1 DEF Stands
  <2>8. S!StoreNext \/ TakenForZero
    BY <2>1, <2>2, <2>6, <2>7, Mapped, MappedZero
  <2> QED
    BY <2>5, <2>8
<1>4. CASE Next /\ ~InMemory
  <2>1. /\ backend' = backend /\ Users' = Users /\ ~InMemory /\ ~InMemory'
    BY <1>4, SameStore
  <2>2. StoreStep(rows, uuids, rows', uuids')
    BY <1>4, ChromaSteps
  <2>3. Kept(rows', uuids')
    BY <1>4, <2>2, StepsKept
  <2>5. ItemsInv'
    BY <1>1, <2>1, <2>3 DEF Kept, InMemory
  <2>6. Stands(rows, uuids)
    BY <2>1 DEF Stands
  <2>7. \A e, m : e = rows' /\ m = uuids' => Stands(e, m)'
    BY <2>1 DEF Stands
  <2>8. S!StoreNext
    BY <2>1, <2>2, <2>6, <2>7, Mapped
  <2> QED
    BY <2>5, <2>8
<1> QED
  BY <1>2, <1>3, <1>4

LEMMA ItemsInit == Init => ItemsInv /\ S!StoreInit
<1> SUFFICES ASSUME Init PROVE ItemsInv /\ S!StoreInit
  OBVIOUS
<1>1. UserInv
  BY UserInit
<1>2. Kept(NoItems, 0)
  BY StoreAssumption, ItemFacts DEF Kept
<1>3. 0 .. 0 - 1 = {}
  OBVIOUS
<1>4. \A p \in Users : p \in Procs
  BY UsersAreProcs DEF Init
<1>5. rows = NoItems /\ uuids = 0 /\ answer = <<>>
  BY DEF Init, ChromaInit, CallInit
<1>6. \A p \in Procs : index[p] = NoItems /\ documents[p] = NoItems /\ idCounter[p] = 0
  BY DEF Init, FaissInit
<1>7. ItemsInv
  BY <1>1, <1>2, <1>4, <1>5, <1>6 DEF ItemsInv, Init, FaissInit
<1>8. InMemory => OneFaiss \in Procs
  BY <1>4 DEF InMemory, OneFaiss
<1>9. S!StoreInit
  BY <1>3, <1>5, <1>6, <1>8, SameItems DEF S!StoreInit
<1> QED
  BY <1>7, <1>9

\* vector_store.hpp:36-84: the store in memory and the one on a server, with all the
\* processes that use it, come and go and overtake each other, implement the Store, but
\* for the ids that FAISS takes for zero.
THEOREM PromiseIsKept == Spec => StoreKeepsPromise
<1>1. Init => ItemsInv /\ S!StoreInit
  BY ItemsInit
<1>2. ItemsInv /\ [Next]_vars => ItemsInv' /\ [S!StoreNext \/ TakenForZero]_(S!storeVars)
  BY ItemsStep
<1> QED
  BY <1>1, <1>2, PTL DEF Spec, StoreKeepsPromise

-----------------------------------------------------------------------------
(* Why a client throws.                                                    *)

\* p's client is about to name its collection to the server ...
Names(p) ==
    \/ pc[p] = "idle" /\ p \in vecstore /\ backend[p] = "chromadb"
    \/ pc[p] \in {"creating", "clearing"} /\ request[p] \in {"none", "delete"}

\* ... which is the one there is, unless another client has deleted it.
Holds(p) ==
    /\ collectionId[p] # NoCollection
    /\ collectionId[p] = collection \/ overtaken[p]

HoldInv ==
    /\ UserInv
    /\ DOMAIN request = Procs /\ DOMAIN collectionId = Procs
    /\ DOMAIN overtaken = Procs /\ DOMAIN thrown = Procs
    /\ \A p \in Users : thrown[p] = "no" /\ Names(p) => Holds(p)

\* The domains stay what they are.
LEMMA DomainsStay ==
    ASSUME HoldInv, [Next]_vars
    PROVE  /\ DOMAIN request' = Procs /\ DOMAIN collectionId' = Procs
           /\ DOMAIN overtaken' = Procs /\ DOMAIN thrown' = Procs
<1> USE DEF chromaVars, serverVars, clientVars, callVars, Done, Throw, Answers
<1>1. /\ DOMAIN request = Procs /\ DOMAIN collectionId = Procs
      /\ DOMAIN overtaken = Procs /\ DOMAIN thrown = Procs
  BY DEF HoldInv
<1>2. CASE UNCHANGED vars
  BY <1>1, <1>2 DEF vars
<1>3. ASSUME NEW p \in Users,
             \/ Start(p) \/ Terminate(p) \/ DefineEmbedding(p) \/ DefineStore(p)
             \/ ClientReturns(p) \/ DeleteEmbedding(p) \/ DeleteStore(p)
             \/ CallRefused(p) \/ InsertNothing(p)
      PROVE  /\ DOMAIN request' = Procs /\ DOMAIN collectionId' = Procs
             /\ DOMAIN overtaken' = Procs /\ DOMAIN thrown' = Procs
  BY <1>1, <1>3
  DEF Start, Terminate, DefineEmbedding, DefineStore, ClientReturns, DeleteEmbedding,
      DeleteStore, CallRefused, InsertNothing, ChromaForget, CreateCollection, Goes
<1>4. ASSUME NEW p \in Users, ClientStep(p)
      PROVE  /\ DOMAIN request' = Procs /\ DOMAIN collectionId' = Procs
             /\ DOMAIN overtaken' = Procs /\ DOMAIN thrown' = Procs
  <2>1. \A c : Adopt(p, c) => /\ DOMAIN request' = Procs /\ DOMAIN collectionId' = Procs
                              /\ DOMAIN overtaken' = Procs /\ DOMAIN thrown' = Procs
    BY <1>1 DEF Adopt, Goes
  <2> QED
    BY <1>1, <1>4, <2>1
    DEF ClientStep, PostCollection, GetCollection, DeleteCollection, NotServed, Goes
<1>5. ASSUME NEW p \in Users,
             Insert(p) \/ GetById(p) \/ Retrieve(p) \/ Remove(p) \/ Clear(p) \/ Unserved(p)
      PROVE  /\ DOMAIN request' = Procs /\ DOMAIN collectionId' = Procs
             /\ DOMAIN overtaken' = Procs /\ DOMAIN thrown' = Procs
  <2>1. CASE Insert(p)
    BY <1>1, <2>1 DEF Insert, Calls, FaissAdd, ChromaAdd, ById, Answered
  <2>2. CASE GetById(p)
    BY <1>1, <2>2 DEF GetById, Calls, FaissGet, ChromaGet, Answered
  <2>3. CASE Retrieve(p)
    BY <1>1, <2>3 DEF Retrieve, Calls, FaissRetrieve, ChromaRetrieve, ById, Answered
  <2>4. CASE Remove(p)
    BY <1>1, <2>4 DEF Remove, Calls, FaissRemove, ChromaRemove, ById, Answered
  <2>5. CASE Clear(p) \/ Unserved(p)
    BY <1>1, <2>5 DEF Clear, Unserved, Calls, FaissClear, ChromaClear, NotServed, Goes
  <2> QED
    BY <1>5, <2>1, <2>2, <2>3, <2>4, <2>5
<1> QED
  BY <1>2, <1>3, <1>4, <1>5 DEF Next

LEMMA HoldStep == HoldInv /\ [Next]_vars => HoldInv'
<1> SUFFICES ASSUME HoldInv, [Next]_vars PROVE HoldInv'
  OBVIOUS
<1> USE DEF chromaVars, serverVars, clientVars
<1>1. /\ UserInv /\ UserInv' /\ Users \subseteq Procs
      /\ DOMAIN request = Procs /\ DOMAIN collectionId = Procs /\ DOMAIN pc = Procs
      /\ DOMAIN overtaken = Procs /\ DOMAIN thrown = Procs
      /\ \A p \in Users : thrown[p] = "no" /\ Names(p) => Holds(p)
      /\ \A p \in Users : Defined(p)
  BY UserStep, UsersAreProcs DEF HoldInv, UserInv
<1>2. /\ DOMAIN request' = Procs /\ DOMAIN collectionId' = Procs
      /\ DOMAIN overtaken' = Procs /\ DOMAIN thrown' = Procs
  BY DomainsStay
<1>3. SUFFICES ASSUME Users' = Users, backend' = backend, NEW p \in Users,
                      (thrown[p] = "no" /\ Names(p))'
               PROVE  Holds(p)'
  <2>1. backend' = backend /\ Users' = Users
    <3>1. backend' = backend
      BY DEF Next, vars, Start, Terminate, DefineEmbedding, DefineStore, ClientStep,
             ClientReturns, DeleteEmbedding, DeleteStore, CallRefused, InsertNothing, Insert,
             GetById, Retrieve, Remove, Clear, Unserved, Calls
    <3> QED
      BY <3>1 DEF Users
  <2> QED
    BY <1>1, <1>2, <2>1 DEF HoldInv
<1>4. p \in Procs /\ thrown'[p] = "no"
  BY <1>1, <1>3
<1>c. \A c \in NewCollections : /\ c # NoCollection /\ \A q \in Procs : collectionId[q] # c
  BY ChromaAssumption DEF NewCollections
\* Nothing that matters to p has changed.
<1>5. ASSUME thrown[p] = "no", Names(p), UNCHANGED <<collectionId, overtaken>>,
             UNCHANGED collection \/ (collection = NoCollection)
      PROVE  Holds(p)'
  BY <1>1, <1>3, <1>4, <1>5 DEF Holds
<1>6. CASE UNCHANGED vars
  BY <1>3, <1>5, <1>6 DEF vars, callVars, userVars, Names
\* A step of another process.
<1>7. ASSUME NEW q \in Users, q # p, pc'[p] = pc[p], thrown'[p] = thrown[p],
             p \in vecstore' <=> p \in vecstore, request'[p] = request[p],
             collectionId'[p] = collectionId[p],
             \/ collection' = collection /\ overtaken'[p] = overtaken[p]
             \/ /\ collection = NoCollection /\ overtaken'[p] = overtaken[p]
             \/ overtaken'[p] = (overtaken[p] \/ collectionId[p] = collection)
      PROVE  Holds(p)'
  <2>1. thrown[p] = "no" /\ Names(p)
    BY <1>3, <1>7 DEF Names
  <2>2. Holds(p)
    BY <1>1, <1>4, <2>1
  <2> QED
    BY <1>7, <2>2 DEF Holds
<1>8. ASSUME NEW q \in Users, Start(q) \/ Terminate(q) \/ DefineEmbedding(q) \/ DefineStore(q)
                              \/ ClientReturns(q) \/ DeleteEmbedding(q) \/ DeleteStore(q)
      PROVE  Holds(p)'
  <2>1. CASE q # p
    <3>1. /\ pc'[p] = pc[p] /\ thrown'[p] = thrown[p] /\ collection' = collection
          /\ p \in vecstore' <=> p \in vecstore
          /\ request'[p] = request[p] /\ collectionId'[p] = collectionId[p]
          /\ overtaken'[p] = overtaken[p]
      BY <1>1, <1>8, <2>1
      DEF Start, Terminate, DefineEmbedding, DefineStore, ClientReturns, DeleteEmbedding,
          DeleteStore, ChromaForget, CreateCollection, Goto, Goes, Without, Runs, Done, Throw
    <3> QED
      BY <1>7, <2>1, <3>1
  <2>2. CASE q = p
    <3>1. CASE Start(p) \/ Terminate(p) \/ DefineEmbedding(p) \/ DeleteEmbedding(p)
               \/ DeleteStore(p)
      <4>1. ~Names(p)'
        BY <1>1, <3>1
        DEF Names, Defined, Start, Terminate, DefineEmbedding, DeleteEmbedding, DeleteStore,
            Goto, Runs, Without
      <4> QED
        BY <1>3, <4>1
    <3>2. CASE DefineStore(p)
      <4>1. \/ Throw(p, "input")
            \/ CreateCollection(p) /\ Goto(p, "creating")
        BY <1>1, <1>3, <3>2 DEF DefineStore, Names, Goto
      <4>2. CASE Throw(p, "input")
        BY <1>1, <1>4, <4>2 DEF Throw
      <4>3. CASE CreateCollection(p) /\ Goto(p, "creating")
        BY <1>1, <1>3, <4>3 DEF CreateCollection, Goto, Goes, Names
      <4> QED
        BY <4>1, <4>2, <4>3
    <3>3. CASE ClientReturns(p)
      <4>1. thrown[p] = "no" /\ Names(p) /\ UNCHANGED <<collectionId, overtaken, collection>>
        BY <3>3 DEF ClientReturns, Names
      <4> QED
        BY <1>5, <4>1
    <3> QED
      BY <1>8, <2>2, <3>1, <3>2, <3>3
  <2> QED
    BY <2>1, <2>2
<1>9. ASSUME NEW q \in Users, ClientStep(q)
      PROVE  Holds(p)'
  <2>1. UNCHANGED <<pc, vecstore>>
    BY <1>9 DEF ClientStep, userVars
  <2>2. CASE q # p
    <3>1. \A c : Adopt(q, c) => /\ request'[p] = request[p] /\ thrown'[p] = thrown[p]
                                /\ collectionId'[p] = collectionId[p]
                                /\ overtaken'[p] = overtaken[p]
      BY <1>1, <2>2 DEF Adopt, Goes, Done
    <3>2. CASE PostCollection(q)
      <4>1. /\ request'[p] = request[p] /\ thrown'[p] = thrown[p]
            /\ collectionId'[p] = collectionId[p] /\ overtaken'[p] = overtaken[p]
            /\ collection' = collection \/ collection = NoCollection
        BY <1>1, <2>2, <3>1, <3>2 DEF PostCollection, Throw, Done, Goes
      <4> QED
        BY <1>7, <2>1, <2>2, <4>1
    <3>3. CASE GetCollection(q) \/ NotServed(q)
      <4>1. /\ request'[p] = request[p] /\ thrown'[p] = thrown[p]
            /\ collectionId'[p] = collectionId[p] /\ overtaken'[p] = overtaken[p]
            /\ collection' = collection
        BY <1>1, <2>2, <3>1, <3>3 DEF GetCollection, NotServed, Throw
      <4> QED
        BY <1>7, <2>1, <2>2, <4>1
    <3>4. CASE DeleteCollection(q)
      <4>1. /\ request'[p] = request[p] /\ thrown'[p] = thrown[p]
            /\ collectionId'[p] = collectionId[p]
            /\ \/ overtaken'[p] = overtaken[p] /\ collection' = collection
               \/ overtaken'[p] = (overtaken[p] \/ collectionId[p] = collection)
        BY <1>1, <2>2, <3>4 DEF DeleteCollection, Throw, Done, Goes
      <4> QED
        BY <1>7, <2>1, <2>2, <4>1
    <3> QED
      BY <1>9, <3>2, <3>3, <3>4 DEF ClientStep
  <2>3. CASE q = p
    <3>1. pc[p] \in {"creating", "clearing"} /\ pc'[p] = pc[p]
      BY <1>9, <2>1, <2>3 DEF ClientStep
    <3>2. ASSUME NEW c, Adopt(p, c), c # NoCollection, collection' = c
          PROVE  Holds(p)'
      BY <1>1, <3>2 DEF Adopt, Holds
    <3>3. ~Throw(p, "lost") /\ ~Throw(p, "race")
      BY <1>1, <1>4 DEF Throw
    <3>4. request'[p] \notin {"post", "lookup"}
      BY <1>3, <3>1 DEF Names
    <3>5. CASE PostCollection(p)
      BY <1>1, <1>c, <3>2, <3>3, <3>4, <3>5 DEF PostCollection, Goes
    <3>6. CASE GetCollection(p)
      BY <1>1, <3>2, <3>3, <3>6 DEF GetCollection
    <3>7. CASE DeleteCollection(p)
      BY <1>1, <3>3, <3>4, <3>7 DEF DeleteCollection, Goes
    <3> QED
      BY <1>9, <2>3, <3>3, <3>5, <3>6, <3>7 DEF ClientStep, NotServed
  <2> QED
    BY <2>2, <2>3
\* A call of an operator, which only clear() follows by more requests.
<1>10. ASSUME NEW q \in Users,
              \/ CallRefused(q) \/ InsertNothing(q) \/ Insert(q) \/ GetById(q)
              \/ Retrieve(q) \/ Remove(q) \/ Clear(q) \/ Unserved(q)
       PROVE  Holds(p)'
  <2>1. /\ UNCHANGED <<collection, collectionId, overtaken, vecstore>>
        /\ Runs(q, "idle")
        /\ \A r \in Procs : r # q => thrown'[r] = thrown[r]
        /\ \/ UNCHANGED <<pc, request>>
           \/ /\ q \in vecstore /\ backend[q] = "chromadb"
              /\ pc' = [pc EXCEPT ![q] = "clearing"]
              /\ request' = [request EXCEPT ![q] = "delete"]
    <3> USE <1>1 DEF Done, Throw, Answers, Calls, Returns, Answered, ById
    <3>1. CASE CallRefused(q) \/ InsertNothing(q)
      BY <3>1 DEF CallRefused, InsertNothing, userVars
    <3>2. CASE Insert(q)
      BY <3>2 DEF Insert, FaissAdd, ChromaAdd
    <3>3. CASE GetById(q)
      BY <3>3 DEF GetById, FaissGet, ChromaGet
    <3>4. CASE Retrieve(q)
      BY <3>4 DEF Retrieve, FaissRetrieve, ChromaRetrieve
    <3>5. CASE Remove(q)
      BY <3>5 DEF Remove, FaissRemove, ChromaRemove
    <3>6. CASE Clear(q)
      BY <3>6 DEF Clear, FaissClear, ChromaClear, Goes, Goto
    <3>7. CASE Unserved(q)
      BY <3>7 DEF Unserved, NotServed
    <3> QED
      BY <1>10, <3>1, <3>2, <3>3, <3>4, <3>5, <3>6, <3>7
  <2>2. CASE q # p
    <3>1. pc'[p] = pc[p] /\ request'[p] = request[p] /\ thrown'[p] = thrown[p]
      BY <1>1, <2>1, <2>2
    <3> QED
      BY <1>7, <2>1, <2>2, <3>1
  <2>3. CASE q = p
    <3>1. thrown[p] = "no" /\ Names(p)
      BY <1>1, <1>3, <2>1, <2>3 DEF Runs, Names
    <3> QED
      BY <1>5, <2>1, <3>1
  <2> QED
    BY <2>2, <2>3
<1> QED
  BY <1>6, <1>8, <1>9, <1>10 DEF Next

\* vm.cpp catches nothing, so what a store throws ends its process.  With valid input and
\* a server that answers, it throws only when another client has deleted its collection,
\* between the two requests that look the collection up, or when a Chroma server is asked
\* for an item that is not there.
THEOREM OnlyFaultsEndProcesses == Spec => OnlyFaultsKill
<1>1. Init => HoldInv
  <2> SUFFICES ASSUME Init PROVE HoldInv
    OBVIOUS
  <2>1. UserInv
    BY UserInit
  <2> QED
    BY <2>1, UsersAreProcs DEF HoldInv, UserInv, Init, CallInit, ChromaInit, Names
<1>2. ASSUME HoldInv, [Next]_vars, NEW p \in Procs, thrown[p] = "no", thrown'[p] # "no"
      PROVE  \/ thrown'[p] \in {"lost", "input"}
             \/ backend[p] = "chromadb" /\ thrown'[p] = "absent"
             \/ overtaken[p]
             \/ request[p] = "lookup" /\ collection = NoCollection
  <2> SUFFICES ASSUME thrown'[p] \notin {"lost", "input"},
                      ~(backend[p] = "chromadb" /\ thrown'[p] = "absent")
               PROVE  overtaken[p] \/ (request[p] = "lookup" /\ collection = NoCollection)
    OBVIOUS
  <2> USE DEF chromaVars, clientVars
  <2>1. /\ DOMAIN thrown = Procs /\ Users \subseteq Procs
        /\ \A r \in Users : thrown[r] = "no" /\ Names(r) => Holds(r)
        /\ \A r \in Users : Defined(r)
    BY <1>2, UsersAreProcs DEF HoldInv, UserInv
  <2>2. \A q \in Procs : ~Throw(q, "lost") /\ ~Throw(q, "input")
    BY <1>2, <2>1 DEF Throw
  <2>l. \A q \in Procs : thrown' # [thrown EXCEPT ![q] = "lost"]
    BY <1>2, <2>1
  <2>a. \A q \in Procs : backend[q] = "chromadb" => ~Throw(q, "absent")
    BY <1>2, <2>1 DEF Throw
  <2>3. \A q \in Procs : Throw(q, "race") => q = p
    BY <1>2, <2>1 DEF Throw
  <2>4. thrown' # thrown
    BY <1>2
  <2>5. PICK q \in Users :
            \/ ClientStep(q)
            \/ /\ Runs(q, "idle") /\ q \in vecstore /\ backend[q] = "chromadb"
               /\ Throw(q, "race") /\ ~Attached(q)
    <3> USE DEF Done, Answers
    <3>1. ~UNCHANGED vars
      BY <2>4 DEF vars, callVars
    <3>2. ASSUME NEW q \in Users,
                 \/ Start(q) \/ Terminate(q) \/ DefineEmbedding(q) \/ DefineStore(q)
                 \/ ClientReturns(q) \/ DeleteEmbedding(q) \/ DeleteStore(q)
                 \/ CallRefused(q) \/ InsertNothing(q)
          PROVE  FALSE
      <4>1. \/ thrown' = thrown \/ Throw(q, "input")
            \/ thrown' = [thrown EXCEPT ![q] = "no"]
        BY <3>2
        DEF Start, Terminate, DefineEmbedding, DefineStore, ClientReturns, DeleteEmbedding,
            DeleteStore, CallRefused, InsertNothing, callVars
      <4> QED
        BY <1>2, <2>1, <2>2, <2>4, <4>1
    <3>3. ASSUME NEW q \in Users,
                 Insert(q) \/ GetById(q) \/ Retrieve(q) \/ Remove(q) \/ Clear(q) \/ Unserved(q)
          PROVE  /\ Runs(q, "idle") /\ q \in vecstore /\ backend[q] = "chromadb"
                 /\ Throw(q, "race") /\ ~Attached(q)
      <4>1. q \in Procs
        BY <2>1
      <4> USE <2>2, <2>a, <2>l, <2>4, <4>1 DEF Calls, Answered, ById
      <4>2. CASE Insert(q)
        BY <4>2 DEF Insert, FaissAdd, ChromaAdd
      <4>3. CASE GetById(q)
        BY <4>3 DEF GetById, FaissGet, ChromaGet
      <4>4. CASE Retrieve(q)
        BY <4>4 DEF Retrieve, FaissRetrieve, ChromaRetrieve
      <4>5. CASE Remove(q)
        BY <4>5 DEF Remove, FaissRemove, ChromaRemove
      <4>6. CASE Clear(q)
        BY <4>6 DEF Clear, FaissClear
      <4>7. CASE Unserved(q)
        BY <4>7 DEF Unserved, NotServed
      <4> QED
        BY <3>3, <4>2, <4>3, <4>4, <4>5, <4>6, <4>7
    <3> QED
      BY <1>2, <3>1, <3>2, <3>3 DEF Next
  <2>6. CASE ClientStep(q)
    <3>1. Throw(q, "race") /\ (GetCollection(q) \/ DeleteCollection(q))
      <4>1. \A c : ~Adopt(q, c)
        BY <2>4 DEF Adopt, Done
      <4> QED
        BY <2>1, <2>2, <2>4, <2>6, <4>1
        DEF ClientStep, PostCollection, GetCollection, DeleteCollection, NotServed, Done
    <3>2. q = p /\ thrown[q] = "no"
      BY <2>1, <2>3, <2>6, <3>1 DEF ClientStep
    <3>3. CASE GetCollection(p)
      <4>1. \A c : ~Adopt(p, c)
        BY <2>4 DEF Adopt, Done
      <4> QED
        BY <2>2, <3>3, <4>1 DEF GetCollection
    <3>4. CASE DeleteCollection(p)
      <4>1. request[p] = "delete" /\ collection = NoCollection
        <5>1. CASE collection # NoCollection
          BY <2>1, <2>2, <2>4, <3>2, <3>4, <5>1 DEF DeleteCollection, Done
        <5> QED
          BY <3>4, <5>1 DEF DeleteCollection
      <4>2. Names(p)
        BY <2>6, <3>2, <4>1 DEF ClientStep, Names
      <4>3. Holds(p)
        BY <2>1, <3>2, <4>2
      <4> QED
        BY <4>1, <4>3 DEF Holds
    <3> QED
      BY <3>1, <3>2, <3>3, <3>4
  <2>7. CASE /\ Runs(q, "idle") /\ q \in vecstore /\ backend[q] = "chromadb"
             /\ Throw(q, "race") /\ ~Attached(q)
    <3>1. q = p /\ thrown[p] = "no" /\ Names(p)
      BY <2>1, <2>3, <2>7 DEF Runs, Names
    <3>2. Holds(p) /\ ~Attached(p)
      BY <2>1, <2>7, <3>1
    <3> QED
      BY <3>2 DEF Holds, Attached
  <2> QED
    BY <2>5, <2>6, <2>7
<1>3. HoldInv /\ [Next]_vars =>
          \A p \in Procs :
             thrown[p] = "no" /\ thrown'[p] # "no" =>
                \/ thrown'[p] \in {"lost", "input"}
                \/ backend[p] = "chromadb" /\ thrown'[p] = "absent"
                \/ overtaken[p]
                \/ request[p] = "lookup" /\ collection = NoCollection
  BY <1>2
<1> QED
  BY <1>1, <1>3, HoldStep, PTL DEF Spec, OnlyFaultsKill

=============================================================================

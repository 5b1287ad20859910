---------------------------- MODULE CacheProofs ----------------------------
(***************************************************************************)
(* Theorems about the model cache, for any number of processes, files,     *)
(* chunks and releases: what a download_model that nobody disturbs finds   *)
(* and leaves in a directory in which anything may have happened before.   *)
(***************************************************************************)
EXTENDS ModelCache, TLAPS

-----------------------------------------------------------------------------
(* Lists of files.                                                         *)

Has(q, e) == \E i \in DOMAIN q : q[i] = e
Unique(q) == \A i, j \in DOMAIN q : q[i] = q[j] => i = j

LEMMA ListType ==
    ASSUME NEW S, NEW q \in Seq(S)
    PROVE  /\ \A e \in S : Append(q, e) \in Seq(S)
           /\ q # <<>> => Head(q) \in S /\ Tail(q) \in Seq(S) /\ Has(q, Head(q))
           /\ \A e : Has(q, e) => e \in S
<1>1. \A e : Has(q, e) => e \in S
  BY DEF Has
<1>2. q # <<>> => Has(q, Head(q))
  BY DEF Has
<1> QED
  BY <1>1, <1>2

LEMMA UniqueAppend ==
    ASSUME NEW S, NEW q \in Seq(S), NEW x \in S
    PROVE  /\ \A e : Has(Append(q, x), e) <=> Has(q, e) \/ e = x
           /\ Unique(q) /\ ~Has(q, x) => Unique(Append(q, x))
<1>1. /\ DOMAIN Append(q, x) = 1 .. Len(q) \cup {Len(q) + 1} /\ DOMAIN q = 1 .. Len(q)
      /\ \A i \in 1 .. Len(q) : Append(q, x)[i] = q[i]
      /\ Append(q, x)[Len(q) + 1] = x
  OBVIOUS
<1> HIDE <1>1
<1> QED
  BY <1>1 DEF Has, Unique

LEMMA UniqueTail ==
    ASSUME NEW S, NEW q \in Seq(S), q # <<>>
    PROVE  /\ \A e : Has(q, e) <=> e = Head(q) \/ Has(Tail(q), e)
           /\ Unique(q) => Unique(Tail(q)) /\ ~Has(Tail(q), Head(q))
<1>1. /\ Len(q) \in Nat \ {0} /\ DOMAIN q = 1 .. Len(q)
      /\ DOMAIN Tail(q) = 1 .. Len(q) - 1
      /\ \A i \in 1 .. Len(q) - 1 : Tail(q)[i] = q[i + 1]
      /\ Head(q) = q[1]
  OBVIOUS
<1>2. \A e : Has(q, e) => e = Head(q) \/ Has(Tail(q), e)
  <2>1. \A i \in 1 .. Len(q) : i = 1 \/ (i - 1 \in 1 .. Len(q) - 1 /\ (i - 1) + 1 = i)
    BY <1>1
  <2>2. ASSUME NEW e, Has(q, e) PROVE e = Head(q) \/ Has(Tail(q), e)
    <3>1. PICK i \in DOMAIN q : q[i] = e
      BY <2>2 DEF Has
    <3>2. CASE i = 1
      BY <1>1, <3>1, <3>2
    <3>3. CASE i # 1
      <4>1. i - 1 \in DOMAIN Tail(q) /\ (i - 1) + 1 = i
        BY <1>1, <2>1, <3>1, <3>3
      <4>2. Tail(q)[i - 1] = e
        BY <1>1, <3>1, <4>1
      <4> QED
        BY <4>1, <4>2 DEF Has
    <3> QED
      BY <3>2, <3>3
  <2> QED
    BY <2>2
<1>3. \A e : e = Head(q) \/ Has(Tail(q), e) => Has(q, e)
  BY <1>1 DEF Has
<1>4. Unique(q) => Unique(Tail(q)) /\ ~Has(Tail(q), Head(q))
  BY <1>1 DEF Has, Unique
<1> QED
  BY <1>2, <1>3, <1>4

-----------------------------------------------------------------------------
(* Types.                                                                  *)

Going == {"check", "next", "receive"}     \* the places of one that goes by a manifest

\* One is receiving a file that is still on the list; before it goes by a manifest
\* it has no list.
Lists(p) == /\ pc[p] = "receive" => wanted[p] # <<>>
            /\ pc[p] \notin Going => wanted[p] = <<>>

Typed == TypeOK /\ \A p \in Procs : Lists(p)

LEMMA Ranges ==
    /\ Releases \subseteq Manifest
    /\ Absent \in Manifest /\ Broken \in Manifest /\ Other \in Manifest
    /\ "idle" \in PC /\ "get" \in PC /\ "open" \in PC /\ "write" \in PC
    /\ "read" \in PC /\ "drop" \in PC /\ "check" \in PC /\ "next" \in PC /\ "receive" \in PC
  BY DEF Manifest, PC

LEMMA ForgetType ==
    ASSUME Typed, NEW p \in Procs, Forget(p)
    PROVE  /\ pc' \in [Procs -> PC] /\ body' \in [Procs -> Manifest]
           /\ queue' \in [Procs -> Seq(FileSet)] /\ wanted' \in [Procs -> Seq(FileSet)]
           /\ DOMAIN served' = Procs /\ wrong' \in [Procs -> SUBSET FileSet]
           /\ \A q \in Procs : Lists(q)'
<1>1. <<>> \in Seq(FileSet) /\ "idle" \notin Going /\ Absent \in Manifest /\ "idle" \in PC
  BY DEF PC, Manifest, Going
<1> QED
  BY <1>1 DEF Typed, TypeOK, Lists, Forget, Goto, Put

LEMMA LeaveType ==
    ASSUME Typed, NEW p \in Procs, Leave(p)
    PROVE  /\ pc' \in [Procs -> PC] /\ body' \in [Procs -> Manifest]
           /\ queue' \in [Procs -> Seq(FileSet)] /\ wanted' \in [Procs -> Seq(FileSet)]
           /\ DOMAIN served' = Procs /\ wrong' \in [Procs -> SUBSET FileSet]
           /\ held' \subseteq Procs /\ \A q \in Procs : Lists(q)'
<1>1. held' \subseteq Procs
  BY DEF Leave, Typed, TypeOK
<1> QED
  BY <1>1, ForgetType DEF Leave

LEMMA TypeStep == Typed /\ [Next]_vars => Typed'
<1> SUFFICES ASSUME Typed, [Next]_vars PROVE Typed'
  OBVIOUS
<1> USE DEF procVars, Put, Goto, Acts, Going
<1>0. CASE UNCHANGED vars
  BY <1>0 DEF Typed, Lists, TypeOK, vars
<1>1. CASE Publish
  <2>1. release' \in Releases
    BY <1>1 DEF Publish
  <2> QED
    BY <1>1, <2>1 DEF Typed, Lists, TypeOK, Publish
<1>2. ASSUME NEW p \in Procs, Remove(p) \/ CalmDown(p) PROVE Typed'
  BY <1>2 DEF Typed, Lists, TypeOK, Remove, CalmDown, Manifest
<1>3. ASSUME NEW p \in Procs, Start(p) PROVE Typed'
  <2>1. pc' \in [Procs -> PC] /\ alone' \subseteq Procs
    BY <1>3 DEF Typed, Lists, TypeOK, Start, PC
  <2> QED
    BY <1>3, <2>1 DEF Typed, Lists, TypeOK, Start
<1>4. ASSUME NEW p \in Procs, GetManifest(p) PROVE Typed'
  <2>1. /\ pc' \in [Procs -> PC] /\ body' \in [Procs -> Manifest]
        /\ queue' \in [Procs -> Seq(FileSet)] /\ wanted' \in [Procs -> Seq(FileSet)]
        /\ DOMAIN served' = Procs /\ wrong' \in [Procs -> SUBSET FileSet]
        /\ held' \subseteq Procs /\ \A q \in Procs : Lists(q)'
    <3>1. CASE Leave(p)
      BY <3>1, LeaveType
    <3>2. ASSUME NEW b \in Manifest, pc[p] = "get",
                 Goto(p, "open"), body' = Put(body, p, b),
                 UNCHANGED <<held, queue, wanted, served, wrong>>
          PROVE  /\ pc' \in [Procs -> PC] /\ body' \in [Procs -> Manifest]
                 /\ queue' \in [Procs -> Seq(FileSet)] /\ wanted' \in [Procs -> Seq(FileSet)]
                 /\ DOMAIN served' = Procs /\ wrong' \in [Procs -> SUBSET FileSet]
                 /\ held' \subseteq Procs /\ \A q \in Procs : Lists(q)'
      BY <3>2, Ranges DEF Typed, Lists, TypeOK
    <3> QED
      BY <1>4, <3>1, <3>2, Ranges DEF Typed, TypeOK, GetManifest
  <2> QED
    BY <1>4, <2>1 DEF Typed, Lists, TypeOK, GetManifest
<1>5. ASSUME NEW p \in Procs, OpenManifest(p) \/ WriteManifest(p) PROVE Typed'
  <2>1. manifest' \in Manifest
    BY <1>5, Ranges DEF Typed, TypeOK, OpenManifest, WriteManifest
  <2>2. pc' \in [Procs -> PC] /\ body' \in [Procs -> Manifest]
    <3>1. PICK l \in {"write", "read"} : Goto(p, l)
      BY <1>5 DEF OpenManifest, WriteManifest
    <3>2. body' = body \/ body' = Put(body, p, Absent)
      BY <1>5 DEF OpenManifest, WriteManifest
    <3> QED
      BY <3>1, <3>2, Ranges DEF Typed, TypeOK
  <2>3. held' \subseteq Procs /\ alone' \subseteq Procs
    BY <1>5 DEF Typed, TypeOK, OpenManifest, WriteManifest
  <2>4. /\ pc[p] \notin Going /\ pc'[p] \notin Going
        /\ \A q \in Procs \ {p} : pc'[q] = pc[q]
    BY <1>5 DEF Typed, TypeOK, OpenManifest, WriteManifest
  <2>5. UNCHANGED <<release, directory, disk, queue, wanted, served, wrong, calm>>
    BY <1>5 DEF OpenManifest, WriteManifest
  <2>6. \A q \in Procs : Lists(q)'
    BY <2>4, <2>5 DEF Typed, Lists
  <2> QED
    BY <2>1, <2>2, <2>3, <2>5, <2>6 DEF Typed, TypeOK
<1>6. ASSUME NEW p \in Procs, ReadManifest(p) PROVE Typed'
  <2>1. CASE manifest \in Releases
    <3>1. pc' \in [Procs -> PC] /\ body' \in [Procs -> Manifest]
      BY <1>6, <2>1, Ranges DEF Typed, Lists, TypeOK, ReadManifest, ReadAs
    <3>2. Files \in Seq(FileSet)
      BY CacheAssumption
    <3>3. queue' \in [Procs -> Seq(FileSet)]
      BY <1>6, <2>1, <3>2 DEF Typed, Lists, TypeOK, ReadManifest, ReadAs
    <3> QED
      BY <1>6, <2>1, <3>1, <3>3 DEF Typed, Lists, TypeOK, ReadManifest, ReadAs
  <2>2. CASE manifest \notin Releases /\ Leave(p)
    BY <1>6, <2>2, LeaveType DEF Typed, Lists, TypeOK, ReadManifest, ReadAs
  <2>3. CASE Goto(p, "drop") /\ UNCHANGED <<body, held, queue, wanted, served, wrong>>
    BY <1>6, <2>3, Ranges DEF Typed, Lists, TypeOK, ReadManifest, ReadAs
  <2> QED
    BY <1>6, <2>1, <2>2, <2>3 DEF ReadManifest, ReadAs
<1>12. ASSUME NEW p \in Procs, DropManifest(p) PROVE Typed'
  BY <1>12, ForgetType, Ranges DEF Typed, Lists, TypeOK, DropManifest
<1>7. ASSUME NEW p \in Procs, CheckFiles(p) PROVE Typed'
  <2>1. queue[p] # <<>> => /\ Tail(queue[p]) \in Seq(FileSet)
                           /\ Append(wanted[p], Head(queue[p])) \in Seq(FileSet)
    BY ListType DEF Typed, Lists, TypeOK
  <2>2. queue' \in [Procs -> Seq(FileSet)] /\ wanted' \in [Procs -> Seq(FileSet)]
    BY <1>7, <2>1 DEF Typed, TypeOK, CheckFiles, ListFiles
  <2>3. pc' \in [Procs -> PC] /\ alone' \subseteq Procs
    BY <1>7, Ranges DEF Typed, TypeOK, CheckFiles, ListFiles
  <2>4. \A q \in Procs : Lists(q)'
    <3>1. /\ pc[p] = "check" /\ pc'[p] \in {"check", "next"}
          /\ \A q \in Procs \ {p} : pc'[q] = pc[q] /\ wanted'[q] = wanted[q]
      BY <1>7 DEF Typed, TypeOK, CheckFiles, ListFiles
    <3> QED
      BY <3>1 DEF Typed, Lists
  <2> QED
    BY <1>7, <2>2, <2>3, <2>4 DEF Typed, TypeOK, CheckFiles, ListFiles
<1>8. ASSUME NEW p \in Procs, Requests(p) PROVE Typed'
  <2>1. Head(wanted[p]) \in FileSet /\ wanted[p] # <<>>
    BY <1>8, ListType DEF Typed, TypeOK, Requests
  <2>2. wrong' \in [Procs -> SUBSET FileSet]
    BY <1>8, <2>1 DEF Typed, TypeOK, Requests
  <2>3. DOMAIN served' = Procs /\ pc' \in [Procs -> PC]
    BY <1>8, Ranges DEF Typed, TypeOK, Requests
  <2>4. \A q \in Procs : Lists(q)'
    BY <1>8, <2>1 DEF Typed, TypeOK, Lists, Requests
  <2> QED
    BY <1>8, <2>2, <2>3, <2>4 DEF Typed, TypeOK, Requests
<1>9. ASSUME NEW p \in Procs, Succeeds(p) \/ Fail(p) PROVE Typed'
  BY <1>9, LeaveType DEF Typed, Lists, TypeOK, Succeeds, Fail
<1>10. ASSUME NEW p \in Procs, Receive(p) \/ ReceiveNothing(p) PROVE Typed'
  <2>1. wanted[p] \in Seq(FileSet) /\ wanted[p] # <<>> /\ pc[p] = "receive"
    BY <1>10 DEF Typed, Lists, TypeOK, Receive, ReceiveNothing
  <2>2. Tail(wanted[p]) \in Seq(FileSet)
    BY <2>1, ListType
  <2>3. /\ UNCHANGED <<release, directory, manifest, body, held, queue, wrong, calm>>
        /\ alone' \subseteq Procs /\ DOMAIN disk' = FileSet
    BY <1>10 DEF Typed, TypeOK, Receive, ReceiveNothing
  <2>4. \/ Finish(p)
        \/ DOMAIN served' = Procs /\ UNCHANGED <<pc, wanted>>
    BY <1>10 DEF Typed, TypeOK, Receive, ReceiveNothing
  <2>5. /\ DOMAIN served' = Procs /\ pc' \in [Procs -> PC]
        /\ wanted' \in [Procs -> Seq(FileSet)] /\ \A q \in Procs : Lists(q)'
    <3>1. CASE Finish(p)
      <4>1. pc'[p] = "next" /\ \A q \in Procs \ {p} : pc'[q] = pc[q] /\ wanted'[q] = wanted[q]
        BY <3>1 DEF Typed, TypeOK, Finish
      <4>2. \A q \in Procs : Lists(q)'
        BY <4>1 DEF Typed, Lists
      <4> QED
        BY <2>2, <3>1, <4>2, Ranges DEF Typed, TypeOK, Finish
    <3>2. CASE DOMAIN served' = Procs /\ UNCHANGED <<pc, wanted>>
      BY <3>2 DEF Typed, TypeOK, Lists
    <3> QED
      BY <2>4, <3>1, <3>2
  <2> QED
    BY <2>3, <2>5 DEF Typed, TypeOK
<1>11. ASSUME NEW p \in Procs, ReceivePage(p) PROVE Typed'
  BY <1>11, LeaveType DEF Typed, Lists, TypeOK, ReceivePage
<1> QED
  BY <1>0, <1>1, <1>2, <1>3, <1>4, <1>5, <1>6, <1>7, <1>8, <1>9, <1>10, <1>11, <1>12
     DEF Next, Download

-----------------------------------------------------------------------------
(* What a call that nobody disturbs knows of the directory.                *)

Partial(c, n) == [i \in 1 .. n |-> <<c, i>>]

\* No manifest is of a release to come.
Released ==
    /\ manifest \in Releases => manifest <= release
    /\ \A p \in Procs : body[p] \in Releases => body[p] <= release

\* The manifest p goes by is the one in the directory; a file that is not as the
\* manifest says is still to be looked at or to be downloaded, is another one by
\* now, has no bytes, or is what something else than the server has sent.
Accounted(p) ==
    /\ body[p] \in Releases /\ manifest = body[p]
    /\ \A f \in FileSet : \/ Matches(f, body[p]) \/ ~Current(f, body[p])
                          \/ Bare(f, body[p]) \/ f \in wrong[p]
                          \/ Has(wanted[p], f)
                          \/ pc[p] = "check" /\ Has(queue[p], f)

\* No file is looked at twice or downloaded twice.
Once(p) ==
    /\ Unique(wanted[p])
    /\ pc[p] = "check" => /\ Unique(queue[p])
                          /\ \A f \in FileSet : ~(Has(queue[p], f) /\ Has(wanted[p], f))

\* What is to be downloaded is not there as it should be.
Needed(p) ==
    IF pc[p] = "receive"
    THEN \A f \in FileSet : Has(Tail(wanted[p]), f) => ~Matches(f, body[p])
    ELSE \A f \in FileSet : Has(wanted[p], f) => ~Matches(f, body[p])

\* What p is served as file f is of a release between that of the manifest and the
\* present one, or is not the server's.
Sent(p, f, c) ==
    \/ f \in wrong[p]
    \/ \E r \in Releases : body[p] <= r /\ r <= release /\ c = Content[r][f]

\* The chunks on the disk are those that have been served.
Coming(p, f, c, n) ==
    /\ served[p] = <<c, n>>
    /\ Sent(p, f, c)
    /\ IF n = 1 THEN ~Matches(f, body[p]) ELSE disk[f] = Partial(c, n - 1)

Served(p) == \E c : \E n \in 1 .. Chunks : Coming(p, Head(wanted[p]), c, n)

Knows(p) ==
    /\ pc[p] \in Going => Accounted(p) /\ Once(p) /\ Needed(p)
    /\ pc[p] = "receive" => Served(p)

CacheInv == Typed /\ Released /\ \A p \in alone : Knows(p)

LEMMA SameFunction ==
    ASSUME NEW S, NEW a, NEW b, a = [i \in S |-> a[i]], b = [i \in S |-> b[i]],
           \A i \in S : a[i] = b[i]
    PROVE  a = b
<1>1. [i \in S |-> a[i]] = [i \in S |-> b[i]]
  BY Zenon
<1> QED
  BY <1>1, Zenon

LEMMA Chunked ==
    ASSUME NEW c, NEW n \in Nat \ {0}
    PROVE  /\ Partial(c, 1) = <<<<c, 1>>>>
           /\ n > 1 => Append(Partial(c, n - 1), <<c, n>>) = Partial(c, n)
           /\ \A d : \A m \in Nat : Partial(c, n) = Partial(d, m) => n = m
<1>1. Partial(c, 1) = <<<<c, 1>>>>
  BY DEF Partial
<1>2. ASSUME n > 1 PROVE Append(Partial(c, n - 1), <<c, n>>) = Partial(c, n)
  <2> DEFINE S == {<<c, i>> : i \in 1 .. n}
             q == Partial(c, n - 1)
  <2>1. q \in Seq(S) /\ Len(q) = n - 1
    BY <1>2 DEF Partial
  <2>2. /\ Append(q, <<c, n>>) \in Seq(S) /\ Len(Append(q, <<c, n>>)) = n
        /\ \A i \in 1 .. n - 1 : Append(q, <<c, n>>)[i] = q[i]
        /\ Append(q, <<c, n>>)[n] = <<c, n>>
    BY <2>1
  <2>3. \A i \in 1 .. n - 1 : q[i] = <<c, i>>
    BY DEF Partial
  <2>4. Partial(c, n) \in Seq(S) /\ Len(Partial(c, n)) = n
        /\ \A i \in 1 .. n : Partial(c, n)[i] = <<c, i>>
    BY DEF Partial
  <2>5. /\ Append(q, <<c, n>>) = [i \in 1 .. n |-> Append(q, <<c, n>>)[i]]
        /\ Partial(c, n) = [i \in 1 .. n |-> Partial(c, n)[i]]
    BY <2>2, <2>4
  <2>6. ASSUME NEW i \in 1 .. n PROVE Append(q, <<c, n>>)[i] = Partial(c, n)[i]
    <3>1. CASE i = n
      BY <3>1, <2>2, <2>4
    <3>2. CASE i # n
      <4>1. i \in 1 .. n - 1
        BY <3>2
      <4> HIDE DEF S, q
      <4> QED
        BY <4>1, <2>2, <2>3, <2>4
    <3> QED
      BY <3>1, <3>2
  <2> HIDE DEF S, q
  <2> QED
    BY <2>5, <2>6, SameFunction DEF q
<1>3. ASSUME NEW d, NEW m \in Nat, Partial(c, n) = Partial(d, m) PROVE n = m
  <2>1. DOMAIN Partial(c, n) = 1 .. n /\ DOMAIN Partial(d, m) = 1 .. m
    BY DEF Partial
  <2>2. 1 .. n = 1 .. m
    BY <1>3, <2>1
  <2> QED
    BY <2>2
<1> QED
  BY <1>1, <1>2, <1>3

LEMMA Ordered == release \in Releases => release \in Nat /\ \A r \in Releases : r \in Nat
  BY CacheAssumption

LEMMA ReleasedStep == Typed /\ Released /\ [Next]_vars => Released'
<1> SUFFICES ASSUME Typed, Released, [Next]_vars PROVE Released'
  OBVIOUS
<1> USE DEF procVars, Put, Goto, Leave, Forget, Typed, TypeOK, Released
<1>0. release \in Releases /\ Releases \subseteq Nat /\ release \in Nat
  BY Ordered
<1>1. Absent \notin Releases /\ Broken \notin Releases /\ Other \notin Releases
  BY CacheAssumption DEF Absent, Broken, Other
<1>2. CASE UNCHANGED vars
  BY <1>2 DEF vars
<1>3. CASE Publish
  <2>1. release' = release + 1 /\ release' \in Releases
    BY <1>3 DEF Publish
  <2>2. \A r \in Releases : r <= release => r <= release'
    BY <1>0, <2>1
  <2> QED
    BY <1>3, <2>2 DEF Publish
<1>4. ASSUME NEW p \in Procs, Remove(p) \/ CalmDown(p) PROVE Released'
  BY <1>1, <1>4 DEF Remove, CalmDown
<1>5. ASSUME NEW p \in Procs, GetManifest(p) PROVE Released'
  <2>1. /\ UNCHANGED <<release, manifest>>
        /\ \E b \in {release, Broken, Other, Absent} : body' = [body EXCEPT ![p] = b]
    BY <1>5 DEF GetManifest
  <2> QED
    BY <1>0, <1>1, <2>1
<1>6. ASSUME NEW p \in Procs, OpenManifest(p) \/ WriteManifest(p) \/ ReadManifest(p)
                                 \/ DropManifest(p)
      PROVE Released'
  <2>1. /\ release' = release
        /\ manifest' \in {manifest, Broken, Absent} \/ manifest' = body[p]
        /\ \E b \in {body[p], Absent} \cup (Releases \cap {manifest}) : body' = [body EXCEPT ![p] = b]
    <3>1. body \in [Procs -> Manifest]
      OBVIOUS
    <3>2. body = [body EXCEPT ![p] = body[p]]
      BY <3>1
    <3>3. CASE OpenManifest(p)
      BY <3>2, <3>3 DEF OpenManifest
    <3>4. CASE WriteManifest(p)
      BY <3>4 DEF WriteManifest
    <3>5. CASE ReadManifest(p)
      BY <3>2, <3>5 DEF ReadManifest, ReadAs
    <3>6. CASE DropManifest(p)
      BY <3>6 DEF DropManifest
    <3> QED
      BY <1>6, <3>3, <3>4, <3>5, <3>6
  <2>2. manifest' \in Releases => manifest' <= release
    BY <1>1, <2>1
  <2>3. \A q \in Procs : body'[q] \in Releases => body'[q] <= release
    BY <1>1, <2>1
  <2> QED
    BY <2>1, <2>2, <2>3
<1>7. ASSUME NEW p \in Procs,
             Start(p) \/ CheckFiles(p) \/ Requests(p) \/ Succeeds(p) \/ Receive(p)
             \/ ReceiveNothing(p) \/ ReceivePage(p) \/ Fail(p)
      PROVE Released'
  <2>1. /\ UNCHANGED <<release, manifest>>
        /\ body' = body \/ body' = [body EXCEPT ![p] = Absent]
    BY <1>7 DEF Start, CheckFiles, ListFiles, Requests, Succeeds, Receive, ReceiveNothing,
                ReceivePage, Fail
  <2> QED
    BY <1>1, <2>1
<1> QED
  BY <1>2, <1>3, <1>4, <1>5, <1>6, <1>7 DEF Next, Download

\* A call that is alone after a step was alone before it, or has begun with it;
\* and the step was its own or none of the directory's.
LEMMA OwnStep ==
    ASSUME Typed, [Next]_vars, NEW p \in alone'
    PROVE  /\ p \in Procs
           /\ \/ p \in alone /\ UNCHANGED <<directory, manifest, disk, procVars, wrong>>
                 /\ (release' = release \/ (release' = release + 1 /\ release' \in Releases))
              \/ Start(p) \/ Remove(p)
              \/ p \in alone /\ Download(p)
<1>1. alone \subseteq Procs
  BY DEF Typed, TypeOK
<1>2. CASE UNCHANGED vars
  BY <1>1, <1>2 DEF vars
<1>3. CASE Publish
  BY <1>1, <1>3 DEF Publish
<1>4. ASSUME NEW q \in Procs, CalmDown(q)
      PROVE  p \in alone /\ UNCHANGED <<directory, manifest, disk, procVars, wrong, release>>
  BY <1>4 DEF CalmDown
<1>5. ASSUME NEW q \in Procs, Remove(q) PROVE p = q
  BY <1>5 DEF Remove, Acts
<1>6. ASSUME NEW q \in Procs, Start(q) PROVE p = q
  BY <1>6 DEF Start
<1>7. ASSUME NEW q \in Procs, Download(q), ~Start(q) PROVE p = q /\ p \in alone
  <2>1. alone' = alone \cap {q}
    BY <1>7 DEF Download, GetManifest, OpenManifest, WriteManifest, ReadManifest, ReadAs,
                DropManifest, CheckFiles, ListFiles, Requests, Succeeds, Receive,
                ReceiveNothing, ReceivePage, Fail, Acts
  <2> QED
    BY <2>1
<1> QED
  BY <1>1, <1>2, <1>3, <1>4, <1>5, <1>6, <1>7 DEF Next

LEMMA QuietStep ==
    ASSUME Typed, NEW p \in Procs, Knows(p),
           UNCHANGED <<directory, manifest, disk, procVars, wrong>>,
           release' = release \/ (release' = release + 1 /\ release' \in Releases)
    PROVE  Knows(p)'
<1>1. release \in Nat /\ release' \in Nat /\ release <= release' /\ Releases \subseteq Nat
  BY Ordered DEF Typed, TypeOK
<1>2. \A f, r : r \in Releases /\ ~Current(f, r) => ~Current(f, r)'
  BY <1>1 DEF Current
<1>3. \A f, r : Matches(f, r)' = Matches(f, r)
  BY DEF Matches
<1>4. \A r \in Releases : r <= release => r <= release'
  BY <1>1
<1> QED
  <2>1. Accounted(p) => Accounted(p)'
    BY <1>2, <1>3 DEF Accounted, Bare, procVars
  <2>2. (Once(p) => Once(p)') /\ (Needed(p) => Needed(p)')
    BY <1>3 DEF Once, Needed, procVars
  <2>3. ASSUME NEW c, NEW n \in 1 .. Chunks, Coming(p, Head(wanted[p]), c, n)
        PROVE  Coming(p, Head(wanted[p]), c, n)'
    BY <1>3, <1>4, <2>3 DEF Coming, Sent, procVars
  <2>4. Served(p) => Served(p)'
    BY <2>3 DEF Served
  <2> QED
    BY <2>1, <2>2, <2>4 DEF Knows, procVars

LEMMA ReadStep ==
    ASSUME Typed, Unique(Files), NEW p \in Procs, ReadManifest(p)
    PROVE  Knows(p)'
<1> USE DEF Typed, TypeOK, ReadManifest, ReadAs, Goto, Put
<1>1. CASE manifest \in Releases
  <2>1. /\ pc'[p] = "check" /\ body'[p] = manifest /\ manifest' = manifest
        /\ queue'[p] = Files /\ wanted'[p] = wanted[p]
    BY <1>1
  <2>2. wanted[p] = <<>>
    BY DEF Lists, Going
  <2>3. Unique(wanted'[p]) /\ \A f : ~Has(wanted'[p], f)
    BY <2>1, <2>2 DEF Unique, Has
  <2>4. \A f \in FileSet : Has(Files, f)
    BY DEF Has, FileSet
  <2>5. Accounted(p)'
    BY <1>1, <2>1, <2>4 DEF Accounted
  <2>6. Once(p)' /\ Needed(p)'
    BY <2>1, <2>3 DEF Once, Needed
  <2> QED
    BY <2>1, <2>5, <2>6 DEF Knows
<1>2. CASE manifest \notin Releases
  BY <1>2 DEF Knows, Leave, Forget, Going
<1> QED
  BY <1>1, <1>2

LEMMA CheckStep ==
    ASSUME Typed, NEW p \in Procs, Knows(p), CheckFiles(p)
    PROVE  Knows(p)'
<1> USE DEF Goto, Put
<1>1. pc[p] = "check" /\ Accounted(p) /\ Once(p) /\ Needed(p)
  BY DEF Knows, Going, CheckFiles, ListFiles
<1>2. \A f, r : Matches(f, r)' = Matches(f, r) /\ Current(f, r)' = Current(f, r)
  BY DEF Matches, Current, CheckFiles, ListFiles
<1>3. queue[p] \in Seq(FileSet) /\ wanted[p] \in Seq(FileSet)
  BY DEF Typed, TypeOK
<1>4. UNCHANGED <<manifest, body, wrong>>
  BY DEF CheckFiles, ListFiles
<1>5. CASE queue[p] = <<>>
  <2>1. pc'[p] = "next" /\ UNCHANGED <<queue, wanted>>
    BY <1>5 DEF CheckFiles, ListFiles, Typed, TypeOK
  <2>2. \A f : ~Has(queue[p], f)
    BY <1>5 DEF Has
  <2> QED
    BY <1>1, <1>2, <1>4, <2>1, <2>2 DEF Knows, Accounted, Bare, Once, Needed
<1>6. CASE queue[p] # <<>>
  <2> DEFINE h == Head(queue[p])
  <2>1. /\ h \in FileSet
        /\ \A f : Has(queue[p], f) <=> f = h \/ Has(Tail(queue[p]), f)
        /\ Unique(Tail(queue[p])) /\ ~Has(Tail(queue[p]), h)
    BY <1>1, <1>3, <1>6, ListType, UniqueTail DEF Once
  <2>2. pc'[p] = "check" /\ queue'[p] = Tail(queue[p])
    BY <1>1, <1>6 DEF CheckFiles, ListFiles, Typed, TypeOK
  <2>3. CASE Matches(h, body[p])
    <3>1. wanted'[p] = wanted[p]
      BY <1>6, <2>3 DEF CheckFiles, ListFiles
    <3> QED
      BY <1>1, <1>2, <1>4, <2>1, <2>2, <2>3, <3>1 DEF Knows, Accounted, Bare, Once, Needed
  <2>4. CASE ~Matches(h, body[p])
    <3>1. wanted'[p] = Append(wanted[p], h)
      BY <1>6, <2>1, <2>4 DEF CheckFiles, ListFiles, Typed, TypeOK
    <3>2. /\ \A f : Has(wanted'[p], f) <=> Has(wanted[p], f) \/ f = h
          /\ Unique(wanted'[p])
      BY <1>1, <1>3, <2>1, <3>1, UniqueAppend DEF Once
    <3> HIDE DEF h
    <3> QED
      BY <1>1, <1>2, <1>4, <2>1, <2>2, <2>4, <3>2 DEF Knows, Accounted, Bare, Once, Needed
  <2> QED
    BY <2>3, <2>4
<1> QED
  BY <1>5, <1>6

LEMMA RequestStep ==
    ASSUME Typed, Released, NEW p \in Procs, Knows(p), Requests(p)
    PROVE  Knows(p)'
<1>0. PICK h : h = Head(wanted[p])
  OBVIOUS
<1>1. pc[p] = "next" /\ Accounted(p) /\ Once(p) /\ Needed(p)
  BY DEF Knows, Going, Requests
<1>2. /\ h \in FileSet
      /\ \A f : Has(wanted[p], f) <=> f = h \/ Has(Tail(wanted[p]), f)
  BY <1>0, ListType, UniqueTail DEF Requests, Typed, TypeOK
<1>3. PICK c : /\ served' = Put(served, p, <<c, 1>>)
               /\ wrong' = IF c = Content[release][h] THEN wrong
                           ELSE Put(wrong, p, wrong[p] \cup {h})
  BY <1>0 DEF Requests
<1>4. /\ pc'[p] = "receive" /\ served'[p] = <<c, 1>>
      /\ UNCHANGED <<release, manifest, disk, body, wanted>>
      /\ wrong[p] \subseteq wrong'[p] /\ (c = Content[release][h] \/ h \in wrong'[p])
  BY <1>3 DEF Requests, Goto, Put, Typed, TypeOK
<1>5. \A f, r : Matches(f, r)' = Matches(f, r) /\ Current(f, r)' = Current(f, r)
  BY <1>4 DEF Matches, Current
<1>6. Accounted(p)' /\ Once(p)' /\ Needed(p)'
  BY <1>1, <1>2, <1>4, <1>5 DEF Accounted, Bare, Once, Needed
<1>7. release \in Releases /\ 1 \in 1 .. Chunks /\ release <= release /\ body[p] <= release
  BY <1>1, CacheAssumption, Ordered DEF Released, Accounted, Typed, TypeOK
<1>8. Sent(p, h, c)'
  BY <1>4, <1>7 DEF Sent
<1>9. Coming(p, h, c, 1)'
  BY <1>1, <1>2, <1>4, <1>5, <1>8 DEF Coming, Needed
<1> QED
  BY <1>0, <1>4, <1>6, <1>7, <1>9 DEF Knows, Served

\* What a chunk makes of the file it belongs to.
LEMMA ChunkWritten ==
    ASSUME Typed, NEW p \in Procs, Knows(p), Receive(p)
    PROVE  \E c : \E n \in 1 .. Chunks :
              /\ Coming(p, Head(wanted[p]), c, n) /\ n <= Size(c)
              /\ disk' = [disk EXCEPT ![Head(wanted[p])] = Partial(c, n)]
<1>0. PICK h : h = Head(wanted[p])
  OBVIOUS
<1>1. PICK c : \E n \in 1 .. Chunks : Coming(p, h, c, n)
  BY <1>0 DEF Knows, Served, Receive
<1> PICK n \in 1 .. Chunks : Coming(p, h, c, n)
  BY <1>1
<1>2. n \in Nat \ {0}
  BY CacheAssumption
<1>3. served[p][1] = c /\ served[p][2] = n
  BY DEF Coming
<1>4. /\ disk' = [disk EXCEPT ![h] = IF n = 1 THEN <<<<c, 1>>>>
                                     ELSE Append(disk[h], <<c, n>>)]
      /\ n <= Size(c)
  BY <1>0, <1>3 DEF Receive, Put
<1>5. Partial(c, n) = IF n = 1 THEN <<<<c, 1>>>> ELSE Append(disk[h], <<c, n>>)
  <2>1. n # 1 => disk[h] = Partial(c, n - 1) /\ n > 1
    BY <1>2 DEF Coming
  <2> QED
    BY <1>2, <2>1, Chunked
<1> QED
  BY <1>0, <1>4, <1>5

\* A download ends and leaves its file as the manifest says or as an exception.
LEMMA FinishStep ==
    ASSUME Typed, NEW p \in Procs, Knows(p), pc[p] = "receive", Finish(p),
           UNCHANGED <<release, manifest, body, queue, wrong>>,
           NEW h, h = Head(wanted[p]),
           \A f \in FileSet : f # h => disk'[f] = disk[f],
           \/ Matches(h, body[p])' \/ ~Current(h, body[p])
           \/ Bare(h, body[p]) \/ h \in wrong[p]
    PROVE  Knows(p)'
<1>1. /\ Accounted(p) /\ Once(p) /\ Needed(p)
      /\ wanted[p] \in Seq(FileSet) /\ wanted[p] # <<>>
  BY DEF Knows, Going, Typed, TypeOK, Lists
<1>2. /\ h \in FileSet
      /\ \A f : Has(wanted[p], f) <=> f = h \/ Has(Tail(wanted[p]), f)
      /\ Unique(Tail(wanted[p])) /\ ~Has(Tail(wanted[p]), h)
  BY <1>1, ListType, UniqueTail DEF Once
<1>3. pc'[p] = "next" /\ wanted'[p] = Tail(wanted[p])
  BY DEF Finish, Put, Goto, Typed, TypeOK
<1>4. \A f \in FileSet : f # h => \A s : Matches(f, s)' = Matches(f, s)
  BY DEF Matches
<1>5. \A f, s : Current(f, s)' = Current(f, s)
  BY DEF Current
<1>7. Accounted(p)'
  BY <1>1, <1>2, <1>3, <1>4, <1>5 DEF Accounted, Bare
<1>8. Once(p)' /\ Needed(p)'
  BY <1>1, <1>2, <1>3, <1>4 DEF Once, Needed
<1> QED
  BY <1>3, <1>7, <1>8 DEF Knows

\* The server's contents of a file are those of the manifest if it still has them.
LEMMA SentIsCurrent ==
    ASSUME Typed, NEW p \in Procs, body[p] \in Releases, NEW f, NEW c, Sent(p, f, c),
           f \notin wrong[p], Current(f, body[p])
    PROVE  c = Content[body[p]][f]
<1>1. PICK r \in Releases : body[p] <= r /\ r <= release /\ c = Content[r][f]
  BY DEF Sent
<1>2. r \in body[p] .. release
  BY <1>1, CacheAssumption DEF Typed, TypeOK
<1> QED
  BY <1>1, <1>2 DEF Current

LEMMA ReceiveStep ==
    ASSUME Typed, NEW p \in Procs, Knows(p), Receive(p)
    PROVE  Knows(p)'
<1>0. PICK h : h = Head(wanted[p])
  OBVIOUS
<1>1. /\ pc[p] = "receive" /\ Accounted(p) /\ Once(p) /\ Needed(p)
      /\ wanted[p] \in Seq(FileSet) /\ wanted[p] # <<>>
  BY DEF Knows, Going, Receive, Typed, TypeOK, Lists
<1>2. PICK c : \E n \in 1 .. Chunks :
          /\ Coming(p, h, c, n) /\ n <= Size(c)
          /\ disk' = [disk EXCEPT ![h] = Partial(c, n)]
  BY <1>0, ChunkWritten
<1> PICK n \in 1 .. Chunks :
          /\ Coming(p, h, c, n) /\ n <= Size(c)
          /\ disk' = [disk EXCEPT ![h] = Partial(c, n)]
  BY <1>2
<1>3. /\ h \in FileSet
      /\ \A f : Has(wanted[p], f) <=> f = h \/ Has(Tail(wanted[p]), f)
      /\ Unique(Tail(wanted[p])) /\ ~Has(Tail(wanted[p]), h)
  BY <1>0, <1>1, ListType, UniqueTail DEF Once
<1>4. /\ disk'[h] = Partial(c, n)
      /\ \A f \in FileSet : f # h => disk'[f] = disk[f]
  BY <1>3 DEF Typed, TypeOK
<1>5. UNCHANGED <<release, manifest, body, queue, wrong>> /\ DOMAIN served = Procs
  BY DEF Receive, Typed, TypeOK
<1>6. \A f \in FileSet : f # h => \A s : Matches(f, s)' = Matches(f, s)
  BY <1>4 DEF Matches
<1>7. \A f, s : Current(f, s)' = Current(f, s)
  BY <1>5 DEF Current
<1>8. served[p] = <<c, n>> /\ Sent(p, h, c)
  BY DEF Coming
<1>9. n \in Nat \ {0} /\ Chunks \in Nat /\ Size(c) \in 0 .. Chunks /\ n <= Size(c)
  BY CacheAssumption DEF Size
<1>10. n < Size(c) \/ Finish(p)
  BY <1>8 DEF Receive
<1>11. CASE n < Size(c)
  <2>1. pc' = pc /\ wanted' = wanted /\ served'[p] = <<c, n + 1>>
    BY <1>5, <1>8, <1>11 DEF Receive, Put
  <2>2. n + 1 \in 1 .. Chunks /\ n + 1 # 1 /\ (n + 1) - 1 = n
    BY <1>9, <1>11
  <2>3. Accounted(p)' /\ Once(p)' /\ Needed(p)'
    BY <1>1, <1>3, <1>5, <1>6, <1>7, <2>1 DEF Accounted, Bare, Once, Needed
  <2>4. Sent(p, h, c)'
    BY <1>5, <1>8 DEF Sent
  <2>5. Coming(p, h, c, n + 1)'
    BY <1>4, <2>1, <2>2, <2>4 DEF Coming
  <2>6. Served(p)'
    BY <1>0, <2>1, <2>2, <2>5 DEF Served
  <2> QED
    BY <2>3, <2>6 DEF Knows
<1>12. CASE n >= Size(c) /\ Finish(p)
  <2>1. n = Size(c)
    BY <1>9, <1>12
  <2>2. disk'[h] = Whole(c)
    BY <1>4, <2>1 DEF Whole, Partial
  <2>3. Matches(h, body[p])' \/ ~Current(h, body[p]) \/ h \in wrong[p]
    <3>1. SUFFICES ASSUME Current(h, body[p]), h \notin wrong[p]
                   PROVE  Matches(h, body[p])'
      OBVIOUS
    <3>2. c = Content[body[p]][h]
      BY <1>1, <1>8, <3>1, SentIsCurrent DEF Accounted
    <3> QED
      BY <1>5, <2>2, <3>2 DEF Matches
  <2> QED
    BY <1>0, <1>1, <1>4, <1>5, <1>12, <2>3, FinishStep
<1> QED
  BY <1>9, <1>10, <1>11, <1>12

LEMMA NothingStep ==
    ASSUME Typed, NEW p \in Procs, Knows(p), ReceiveNothing(p)
    PROVE  Knows(p)'
<1>0. PICK h : h = Head(wanted[p])
  OBVIOUS
<1>1. pc[p] = "receive" /\ Finish(p) /\ UNCHANGED <<release, manifest, disk, body, queue, wrong>>
  BY DEF ReceiveNothing
<1>2. Accounted(p) /\ Served(p)
  BY <1>1 DEF Knows, Going
<1>3. PICK c : \E n \in 1 .. Chunks : Coming(p, h, c, n)
  BY <1>0, <1>2 DEF Served
<1>4. served[p][1] = c /\ Sent(p, h, c)
  BY <1>3 DEF Coming
<1>5. c = Empty
  BY <1>4, CacheAssumption DEF ReceiveNothing, Size
<1>6. ~Current(h, body[p]) \/ Bare(h, body[p]) \/ h \in wrong[p]
  BY <1>2, <1>4, <1>5, SentIsCurrent DEF Accounted, Bare
<1> QED
  BY <1>0, <1>1, <1>6, FinishStep

LEMMA InvStep == Unique(Files) /\ CacheInv /\ [Next]_vars => CacheInv'
<1> SUFFICES ASSUME Unique(Files), CacheInv, [Next]_vars PROVE CacheInv'
  OBVIOUS
<1>1. Typed /\ Released /\ \A p \in alone : Knows(p)
  BY DEF CacheInv
<1>2. Typed' /\ Released'
  BY <1>1, TypeStep, ReleasedStep
<1>3. ASSUME NEW p \in alone' PROVE Knows(p)'
  <2>1. /\ p \in Procs
        /\ \/ p \in alone /\ UNCHANGED <<directory, manifest, disk, procVars, wrong>>
              /\ (release' = release \/ (release' = release + 1 /\ release' \in Releases))
           \/ Start(p) \/ Remove(p)
           \/ p \in alone /\ Download(p)
    BY <1>1, OwnStep
  <2>2. p \in Procs
    BY <2>1
  <2>3. pc'[p] \notin Going => Knows(p)'
    BY DEF Knows, Going
  <2>4. CASE p \in alone /\ UNCHANGED <<directory, manifest, disk, procVars, wrong>>
             /\ (release' = release \/ (release' = release + 1 /\ release' \in Releases))
    BY <1>1, <2>2, <2>4, QuietStep
  <2>5. CASE \/ Start(p) \/ Remove(p) \/ GetManifest(p) \/ OpenManifest(p) \/ WriteManifest(p)
             \/ DropManifest(p) \/ Succeeds(p) \/ ReceivePage(p) \/ Fail(p)
    <3>1. pc'[p] \in {"idle", "get", "open", "write", "read"}
      BY <1>1, <2>2, <2>5 DEF Start, Remove, GetManifest, OpenManifest, WriteManifest, DropManifest,
             Succeeds, ReceivePage, Fail, Leave, Forget, Goto, Typed, TypeOK
    <3> QED
      BY <2>3, <3>1 DEF Going
  <2>6. CASE ReadManifest(p)
    BY <1>1, <2>2, <2>6, ReadStep
  <2>7. CASE p \in alone /\ CheckFiles(p)
    BY <1>1, <2>2, <2>7, CheckStep
  <2>8. CASE p \in alone /\ Requests(p)
    BY <1>1, <2>2, <2>8, RequestStep
  <2>9. CASE p \in alone /\ Receive(p)
    BY <1>1, <2>2, <2>9, ReceiveStep
  <2>10. CASE p \in alone /\ ReceiveNothing(p)
    BY <1>1, <2>2, <2>10, NothingStep
  <2> QED
    BY <2>1, <2>4, <2>5, <2>6, <2>7, <2>8, <2>9, <2>10 DEF Download
<1> QED
  BY <1>2, <1>3 DEF CacheInv

LEMMA InitInv == Init => CacheInv
<1> SUFFICES ASSUME Init PROVE CacheInv
  OBVIOUS
<1>1. 1 \in Releases /\ <<>> \in Seq(FileSet) /\ Absent \notin Releases
  BY CacheAssumption DEF Absent
<1>2. TypeOK
  BY <1>1, Ranges DEF Init, TypeOK
<1>3. Released /\ \A p \in Procs : Lists(p)
  BY <1>1 DEF Init, Released, Lists, Going
<1> QED
  BY <1>2, <1>3 DEF CacheInv, Typed, Init

-----------------------------------------------------------------------------
(* Theorems.                                                               *)

\* The places of download_model, its lists and the directory keep their types,
\* whatever the processes do to each other.
THEOREM CacheTypeCorrect == Spec => []TypeOK
<1>1. Init => Typed
  BY InitInv DEF CacheInv, Init
<1>2. Typed => TypeOK
  BY DEF Typed
<1> QED
  BY <1>1, <1>2, TypeStep, PTL DEF Spec

LEMMA CacheInvariant == Unique(Files) => (Spec => []CacheInv)
<1> SUFFICES ASSUME Unique(Files) PROVE Spec => []CacheInv
  OBVIOUS
<1> QED
  BY InitInv, InvStep, PTL DEF Spec

\* A call of download_model that has run alone reports success with every file in
\* place that the server still has, but for files without bytes and those this call
\* was sent by something else with a status of 200, if the manifest names no file
\* twice: whatever interrupted calls and wrong answers have left behind before.
THEOREM SuccessHolds ==
    ASSUME Unique(Files)
    PROVE  Spec => SuccessIsWhole
<1>1. ASSUME CacheInv, NEW p \in alone, Succeeds(p), wanted[p] = <<>>
      PROVE  Listed' /\ \A f \in FileSet \ wrong[p] :
                             \/ Matches(f, body[p])
                             \/ Bare(f, body[p]) \/ ~Current(f, body[p])
  <2>1. pc[p] = "next" /\ Accounted(p)
    BY <1>1 DEF CacheInv, Knows, Going, Succeeds
  <2>2. \A f : ~Has(wanted[p], f)
    BY <1>1 DEF Has
  <2>3. Listed'
    BY <1>1, <2>1 DEF Accounted, Listed, Succeeds
  <2> QED
    BY <2>1, <2>2, <2>3 DEF Accounted
<1>2. CacheInv => \A p \in alone : pc[p] = "next" /\ wanted[p] = <<>> /\ Succeeds(p) =>
          /\ Listed'
          /\ \A f \in FileSet \ wrong[p] :
                 \/ Matches(f, body[p])
                 \/ Bare(f, body[p]) \/ ~Current(f, body[p])
  BY <1>1
<1> QED
  BY <1>2, CacheInvariant, PTL DEF SuccessIsWhole

\* A call that runs alone writes no file that is as its manifest says, down to the
\* last chunk: the files an earlier call completed are not fetched again.
THEOREM GoodFilesHold ==
    ASSUME Unique(Files)
    PROVE  Spec => GoodFilesStay
<1>1. ASSUME CacheInv, NEW p \in alone, NEW f \in FileSet,
             manifest \in Releases, Matches(f, manifest), Download(p)
      PROVE  disk'[f] = disk[f]
  <2>1. Typed /\ Knows(p) /\ p \in Procs
    BY <1>1 DEF CacheInv, Typed, TypeOK
  <2>2. CASE disk' = disk
    BY <2>2
  <2>3. ASSUME Receive(p) \/ ReceivePage(p), f = Head(wanted[p]) PROVE FALSE
    <3>1. Accounted(p) /\ manifest = body[p]
      BY <2>1, <2>3 DEF Knows, Going, Receive, ReceivePage, Accounted
    <3>2. PICK c : \E n \in 1 .. Chunks : Coming(p, f, c, n)
      BY <2>1, <2>3 DEF Knows, Served, Receive, ReceivePage
    <3> PICK n \in 1 .. Chunks : Coming(p, f, c, n)
      BY <3>2
    <3>3. n # 1 /\ disk[f] = Partial(c, n - 1)
      BY <1>1, <3>1 DEF Coming
    <3>4. disk[f] = Partial(Content[manifest][f], Size(Content[manifest][f]))
      BY <1>1 DEF Matches, Whole, Partial
    <3>5. /\ n - 1 \in Nat \ {0} /\ Size(Content[manifest][f]) \in Nat
          /\ n - 1 # Size(Content[manifest][f])
      BY <3>3, CacheAssumption DEF Size
    <3> QED
      BY <3>3, <3>4, <3>5, Chunked
  <2>4. ASSUME Receive(p) \/ ReceivePage(p), f # Head(wanted[p]) PROVE disk'[f] = disk[f]
    BY <1>1, <2>1, <2>4 DEF Receive, ReceivePage, Put, Typed, TypeOK
  <2>5. disk' = disk \/ Receive(p) \/ ReceivePage(p)
    BY <1>1 DEF Download, Start, GetManifest, OpenManifest, WriteManifest, ReadManifest, ReadAs,
                DropManifest, CheckFiles, ListFiles, Requests, ReceiveNothing, Succeeds, Fail
  <2> QED
    BY <2>2, <2>3, <2>4, <2>5
<1>2. CacheInv => \A p \in alone, f \in FileSet :
          manifest \in Releases /\ Matches(f, manifest) /\ Download(p) => disk'[f] = disk[f]
  BY <1>1
<1> QED
  BY <1>2, CacheInvariant, PTL DEF GoodFilesStay

=============================================================================

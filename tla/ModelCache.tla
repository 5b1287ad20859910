---------------------------- MODULE ModelCache ----------------------------
(***************************************************************************)
(* model_cache.cpp: the files of one model in the cache directory, which   *)
(* several processes share without a lock, and the server they come from.  *)
(*                                                                         *)
(* A manifest lists the files of the release it belongs to with their      *)
(* checksums.  It is fetched when it is not there, never again when it is; *)
(* a file is fetched when it is not there or its checksum is not that of   *)
(* the manifest.  A process may be interrupted or killed at any step, and  *)
(* an answer of the server may end early.                                  *)
(*                                                                         *)
(* A file is a sequence of chunks, none if it has no bytes, and a checksum *)
(* tells contents apart.  Removing a directory and writing one chunk are   *)
(* single steps.                                                           *)
(***************************************************************************)
EXTENDS Integers, Sequences

CONSTANTS
    Procs,          \* processes that use the cache
    Files,          \* the files of the model, in the order of the manifest
    Chunks,         \* bound: the chunks of a file that has bytes
    Content,        \* Content[r][f]: the contents of file f in release r
    Empty,          \* the contents of a file without bytes
    NoProc

Releases == DOMAIN Content
FileSet == {Files[i] : i \in DOMAIN Files}

ASSUME CacheAssumption ==
    /\ Chunks \in Nat \ {0} /\ NoProc \notin Procs
    /\ Files \in Seq(FileSet)
    /\ Len(Content) \in Nat \ {0} /\ Releases = 1 .. Len(Content)
    /\ \A r \in Releases : DOMAIN Content[r] = FileSet

VARIABLES
    release,        \* the release the server has
    directory,      \* model_cache_path exists
    manifest,       \* the manifest in it: a release, Absent, Broken or Other
    disk,           \* disk[f]: the chunks of a file, NoFile if it is not there
    pc,             \* pc[p]: where download_model is
    body,           \* body[p]: the manifest p has received, then the one it goes by
    held,           \* processes whose open manifest is the one in the directory
    queue,          \* queue[p]: the files to look at, then those to download
    wanted,         \* wanted[p]: files_to_download
    served,         \* served[p]: <<contents, next chunk>> of the download under way
    wrong,          \* ghost: wrong[p]: files another than the server has sent p
    alone,          \* ghost: processes nobody has disturbed since their call began
    calm            \* ghost: the one process left, and nothing fails any more

procVars == <<pc, body, held, queue, wanted, served>>
vars == <<release, directory, manifest, disk, procVars, wrong, alone, calm>>

\* What a manifest may be other than that of a release: not there, not JSON, or
\* JSON without a list of files.
Absent == 0
Broken == -1
Other == -2

Page == "page"                      \* what is said with an error, or by a proxy
NoFile == <<<<"nothing", 0>>>>
Size(c) == IF c = Empty THEN 0 ELSE Chunks
Whole(c) == [i \in 1 .. Size(c) |-> <<c, i>>]
Matches(f, r) == disk[f] = Whole(Content[r][f])

PC == {"idle", "get", "open", "write", "read", "drop", "check", "next", "receive"}

Manifest == Releases \cup {Absent, Broken, Other}

TypeOK ==
    /\ release \in Releases /\ directory \in BOOLEAN
    /\ manifest \in Manifest
    /\ DOMAIN disk = FileSet
    /\ pc \in [Procs -> PC]
    /\ body \in [Procs -> Manifest]
    /\ queue \in [Procs -> Seq(FileSet)] /\ wanted \in [Procs -> Seq(FileSet)]
    /\ DOMAIN served = Procs /\ wrong \in [Procs -> SUBSET FileSet]
    /\ held \subseteq Procs /\ alone \subseteq Procs
    /\ calm \in Procs \cup {NoProc}

Init ==
    /\ release = 1
    /\ directory = FALSE
    /\ manifest = Absent
    /\ disk = [f \in FileSet |-> NoFile]
    /\ pc = [p \in Procs |-> "idle"]
    /\ body = [p \in Procs |-> Absent]
    /\ held = {}
    /\ queue = [p \in Procs |-> <<>>]
    /\ wanted = [p \in Procs |-> <<>>]
    /\ served = [p \in Procs |-> <<>>]
    /\ wrong = [p \in Procs |-> {}]
    /\ alone = {}
    /\ calm = NoProc

Goto(p, l) == pc' = [pc EXCEPT ![p] = l]
Put(v, p, x) == [v EXCEPT ![p] = x]

\* Whatever p does disturbs the calls of the others.
Acts(p) == alone' = alone \cap {p}

\* Failures and other processes are things of the past.
Rough == calm = NoProc

\* The call returns, the process is killed, or it throws: all it knew is gone.
Forget(p) ==
    /\ Goto(p, "idle")
    /\ body' = Put(body, p, Absent)
    /\ queue' = Put(queue, p, <<>>)
    /\ wanted' = Put(wanted, p, <<>>)
    /\ served' = Put(served, p, <<>>)
    /\ wrong' = Put(wrong, p, {})

Leave(p) == Forget(p) /\ held' = held \ {p}

-----------------------------------------------------------------------------
(* download_model                                                          *)

\* The directories are created and the manifest is looked for.
Start(p) ==
    /\ pc[p] = "idle" /\ calm \in {NoProc, p}
    /\ directory' = TRUE
    /\ Goto(p, IF manifest = Absent THEN "get" ELSE "read")
    /\ alone' = IF \A q \in Procs : pc[q] = "idle" THEN {p} ELSE {}
    /\ UNCHANGED <<release, manifest, disk, body, held, queue, wanted, served, wrong, calm>>

\* download_file: the whole body first.  What answers may be something else than
\* the server (a proxy's page), or may not answer.
GetManifest(p) ==
    /\ pc[p] = "get"
    /\ \/ body' = Put(body, p, release) /\ Goto(p, "open")
          /\ UNCHANGED <<held, queue, wanted, served, wrong>>
       \/ /\ Rough
          /\ \E b \in {Broken, Other} : body' = Put(body, p, b)
          /\ Goto(p, "open") /\ UNCHANGED <<held, queue, wanted, served, wrong>>
       \/ Rough /\ Leave(p)
    /\ Acts(p)
    /\ UNCHANGED <<release, directory, manifest, disk, calm>>

\* The ofstream empties the file, or fails unnoticed for want of a directory.
OpenManifest(p) ==
    /\ pc[p] = "open"
    /\ Goto(p, "write") /\ Acts(p)
    /\ IF directory THEN manifest' = Broken /\ held' = held \cup {p}
       ELSE UNCHANGED <<manifest, held>>
    /\ UNCHANGED <<release, directory, disk, body, queue, wanted, served, wrong, calm>>

\* A write that fails goes unnoticed as well; one on top of another's may leave
\* the rest of a longer text; and the file may have been removed by now.
WriteManifest(p) ==
    /\ pc[p] = "write"
    /\ Goto(p, "read") /\ Acts(p)
    /\ body' = Put(body, p, Absent) /\ held' = held \ {p}
    /\ IF p \in held
       THEN manifest' = body[p] \/ (Rough /\ manifest' = Broken)
       ELSE UNCHANGED manifest
    /\ UNCHANGED <<release, directory, disk, queue, wanted, served, wrong, calm>>

\* A manifest that cannot be parsed is going to be removed, for the next call to
\* fetch it again; one without files is not.
ReadAs(p, kept) ==
    /\ pc[p] = "read" /\ Acts(p)
    /\ IF manifest \in Releases
       THEN /\ body' = Put(body, p, manifest) /\ queue' = Put(queue, p, Files)
            /\ Goto(p, "check") /\ UNCHANGED <<held, wanted, served, wrong>>
       ELSE IF manifest \in kept THEN Leave(p)
       ELSE Goto(p, "drop") /\ UNCHANGED <<body, held, queue, wanted, served, wrong>>
    /\ UNCHANGED <<release, directory, manifest, disk, calm>>

\* Variant: a manifest that cannot be parsed is left where it is.
ReadOnly(p) == ReadAs(p, {Absent, Broken, Other})

ReadManifest(p) == ReadAs(p, {Absent, Other})

\* fs::remove goes by the name: it takes what is there by now, and who still has
\* the file open writes to one that has no name.
DropManifest(p) ==
    /\ pc[p] = "drop" /\ Acts(p)
    /\ manifest' = Absent /\ held' = {}
    /\ Forget(p)
    /\ UNCHANGED <<release, directory, disk, calm>>

\* The files that are missing or do not have the manifest's checksum.
ListFiles(p, needed) ==
    /\ pc[p] = "check"
    /\ Acts(p)
    /\ IF queue[p] = <<>>
       THEN Goto(p, "next") /\ UNCHANGED <<queue, wanted>>
       ELSE /\ wanted' = IF Head(queue[p]) \in needed
                         THEN Put(wanted, p, Append(wanted[p], Head(queue[p])))
                         ELSE wanted
            /\ queue' = Put(queue, p, Tail(queue[p]))
            /\ UNCHANGED pc
    /\ UNCHANGED <<release, directory, manifest, disk, body, held, served, wrong, calm>>

\* Variant: a file that exists is taken for the one that is wanted.
CheckExistence(p) == ListFiles(p, {f \in FileSet : disk[f] = NoFile})

\* Variant: all files are downloaded again.
CheckNothing(p) == ListFiles(p, FileSet)

CheckFiles(p) == ListFiles(p, {f \in FileSet : ~Matches(f, body[p])})

\* What a request for file f may be answered with and a status of 200: by the
\* server, or by something in its place.
Answers(f) == {Content[release][f]} \cup (IF Rough THEN {Page, Empty} ELSE {})

\* The next file, or success: nothing is checked after the download.
Requests(p) ==
    LET f == Head(wanted[p])
    IN  /\ pc[p] = "next" /\ wanted[p] # <<>>
        /\ \E c \in Answers(f) :
              /\ served' = Put(served, p, <<c, 1>>)
              /\ wrong' = IF c = Content[release][f] THEN wrong
                          ELSE Put(wrong, p, wrong[p] \cup {f})
        /\ Goto(p, "receive") /\ Acts(p)
        /\ UNCHANGED <<release, directory, manifest, disk, body, held, queue, wanted, calm>>

Succeeds(p) ==
    /\ pc[p] = "next" /\ wanted[p] = <<>>
    /\ Leave(p) /\ Acts(p)
    /\ UNCHANGED <<release, directory, manifest, disk, calm>>

\* The answer has ended, and its status is that of a success.
Finish(p) ==
    /\ served' = Put(served, p, <<>>)
    /\ wanted' = Put(wanted, p, Tail(wanted[p]))
    /\ Goto(p, "next")

\* download_file_with_progress: every chunk opens the file by its name again, the
\* first one to empty it and the others to append.
Receive(p) ==
    LET f == Head(wanted[p])
        c == served[p][1]
        n == served[p][2]
    IN  /\ pc[p] = "receive" /\ directory /\ n <= Size(c)
        /\ Acts(p)
        /\ disk' = Put(disk, f, IF n = 1 THEN <<<<c, 1>>>> ELSE Append(disk[f], <<c, n>>))
        /\ IF n < Size(c)
           THEN served' = Put(served, p, <<c, n + 1>>) /\ UNCHANGED <<pc, wanted>>
           ELSE Finish(p)
        /\ UNCHANGED <<release, directory, manifest, body, held, queue, wrong, calm>>

\* Without a byte in the answer nothing opens the file, and that is a success.
ReceiveNothing(p) ==
    /\ pc[p] = "receive" /\ Size(served[p][1]) = 0
    /\ Finish(p) /\ Acts(p)
    /\ UNCHANGED <<release, directory, manifest, disk, body, held, queue, wrong, calm>>

\* The body of an error is written like any other, before the status is seen.
ReceivePage(p) ==
    /\ pc[p] = "receive" /\ served[p][2] = 1 /\ directory /\ Rough
    /\ disk' = Put(disk, Head(wanted[p]), <<<<Page, 1>>>>)
    /\ Leave(p) /\ Acts(p)
    /\ UNCHANGED <<release, directory, manifest, calm>>

\* The connection breaks, SIGINT is seen at the next chunk, the directory is
\* gone, or the process is killed: what has been written stays.
Fail(p) ==
    /\ \/ pc[p] # "idle" /\ Rough
       \/ pc[p] = "receive" /\ ~directory /\ Size(served[p][1]) # 0
    /\ Leave(p) /\ Acts(p)
    /\ UNCHANGED <<release, directory, manifest, disk, calm>>

-----------------------------------------------------------------------------
(* The rest.                                                               *)

\* remove_model, when the user confirms it.
Remove(p) ==
    /\ pc[p] = "idle" /\ directory /\ Rough
    /\ directory' = FALSE
    /\ manifest' = Absent
    /\ disk' = [f \in FileSet |-> NoFile]
    /\ held' = {}
    /\ Acts(p)
    /\ UNCHANGED <<release, pc, body, queue, wanted, served, wrong, calm>>

Publish ==
    /\ Rough /\ release + 1 \in Releases
    /\ release' = release + 1
    /\ UNCHANGED <<directory, manifest, disk, procVars, wrong, alone, calm>>

\* list_local_models: the model is listed by its manifest, whatever its files.
Listed == manifest \in Releases \cup {Other}

\* From some moment on a single user tries again and again.
CalmDown(p) ==
    /\ Rough /\ \A q \in Procs : pc[q] = "idle"
    /\ calm' = p
    /\ UNCHANGED <<release, directory, manifest, disk, procVars, wrong, alone>>

Download(p) ==
    \/ Start(p) \/ GetManifest(p) \/ OpenManifest(p) \/ WriteManifest(p)
    \/ ReadManifest(p) \/ DropManifest(p) \/ CheckFiles(p) \/ Requests(p)
    \/ Receive(p) \/ ReceiveNothing(p) \/ ReceivePage(p) \/ Succeeds(p) \/ Fail(p)

Next ==
    \/ Publish
    \/ \E p \in Procs : Download(p) \/ Remove(p) \/ CalmDown(p)

\* The user of the calm period does not give up, and the processor runs him.
Spec == Init /\ [][Next]_vars /\ \A p \in Procs : WF_vars(calm = p /\ Download(p))

-----------------------------------------------------------------------------
(* Properties.                                                             *)

\* The server still has what the manifest lists for file f.
Current(f, r) == \A s \in r .. release : Content[s][f] = Content[r][f]

\* The manifest lists a file that no download makes: it has no bytes.
Bare(f, r) == Content[r][f] = Empty

\* download_model returns success only with every file of the manifest in place,
\* whatever earlier calls, here or in other processes, have left behind: it has
\* run alone, and a file the server has replaced since is not the manifest's.
\* There are two exceptions, for nothing is verified after the download: a file
\* without bytes, which is not made (receiver not called), and a file this very
\* call was sent by something in the server's place with a status of 200.  A
\* wrong file of an earlier call is no exception: the checksum finds it.
SuccessIsWhole ==
    [][\A p \in alone :
          pc[p] = "next" /\ wanted[p] = <<>> /\ Succeeds(p) =>
              /\ Listed'
              /\ \A f \in FileSet \ wrong[p] :
                     \/ Matches(f, body[p])
                     \/ Bare(f, body[p]) \/ ~Current(f, body[p])]_vars

\* A file that is as it should be is not written again by a call that runs alone.
GoodFilesStay ==
    [][\A p \in alone, f \in FileSet :
          manifest \in Releases /\ Matches(f, manifest) /\ Download(p)
          => disk'[f] = disk[f]]_vars

\* A manifest that was cut off, files that were and files that are somebody else's
\* are put right by trying again, unless the server has gone on to another release
\* or the manifest is a JSON text without files, which only remove_model helps;
\* files without bytes are asked for every time and never made.
TryingAgainHeals ==
    \A p \in Procs :
        calm = p ~>
          \/ manifest \in Releases
             /\ \A f \in FileSet : Matches(f, manifest) \/ Bare(f, manifest)
          \/ manifest = Other
          \/ manifest \in Releases /\ \E f \in FileSet : ~Current(f, manifest)

=============================================================================

----------------------------- MODULE SplitText -----------------------------
(***************************************************************************)
(* The operators of split_text.cpp, from their inputs to the chunks: a     *)
(* text is split at one separator and the splits merged, or split at the   *)
(* first separator of a list that occurs in it, with the splits that are   *)
(* still too big split at the later ones.  The recursion of                *)
(* _split_text_recursive is a stack here.                                  *)
(***************************************************************************)
EXTENDS Merge, FiniteSetsExt, Functions

CONSTANTS
    Texts,          \* texts, as sequences of characters
    White,          \* the characters that are white space
    Scenarios,      \* the operator and its separators
    SizeInputs,     \* what is given for chunk_size and chunk_overlap
    OverlapInputs,
    Word            \* size_t has the values below Word

ASSUME SplitAssumption ==
    /\ Word \in Nat /\ \A t \in Texts : t \in Seq(Range(t)) /\ 2 * Len(t) < Word
    /\ SizeInputs \cup OverlapInputs \subseteq Int
    /\ \A s \in Scenarios :
          /\ s.op \in {"plain", "recursive"}
          /\ s.op = "plain" => Len(s.separators) = 1
          /\ s.separators \in Seq(Range(s.separators))
          /\ \A sep \in Range(s.separators) : sep \in Seq(Range(sep))

VARIABLES
    text,
    scenario,       \* the operator, "plain" or "recursive", and the separators
    parts,          \* what utils::split_text has split off
    left,           \* what it has still to look at
    stack,          \* the calls of _split_text_recursive, the innermost one first
    chunks,         \* the chunks, as intervals of the text
    pc              \* "input", "check", "split", "scan", "merge", or how it ends

vars == <<mergeVars, text, scenario, parts, left, stack, chunks, pc>>

Part(from, to) == [from |-> from, to |-> to]

\* The separator is at position p of the text.
Occurs(sep, p, to) ==
    p + Len(sep) <= to /\ \A i \in DOMAIN sep : text[p + i - 1] = sep[i]

\* _pick_best_separator: the first one that is empty or occurs, or the last one.
Best(seps, from, to) ==
    LET fit == {i \in DOMAIN seps :
                    seps[i] = <<>> \/ \E p \in from .. to : Occurs(seps[i], p, to)}
    IN  IF fit = {} THEN Len(seps) ELSE Min(fit)

Later(seps, i) == IF seps[i] = <<>> THEN <<>> ELSE SubSeq(seps, i + 1, Len(seps))

\* A call of _split_text_recursive for part.
Call(part, seps) ==
    LET best == Best(seps, part.from, part.to)
    IN  [seps |-> Later(seps, best), separator |-> seps[best], pieces |-> <<>>, good |-> 1, i |-> 1]

\* utils::trim on a document that is not blank.
Trimmed(from, to) ==
    LET black == {p \in from .. to - 1 : p \notin blanks}
    IN  Part(Min(black), Max(black) + 1)

-----------------------------------------------------------------------------
Init ==
    /\ text \in Texts /\ scenario \in Scenarios
    /\ chunkSize \in SizeInputs /\ chunkOverlap \in OverlapInputs
    /\ blanks = {p \in DOMAIN text : text[p] \in White}
    /\ splits = <<>> /\ separatorLen = 0
    /\ next = 1 /\ first = 1 /\ total = 0 /\ totalIfMerge = 0 /\ docs = <<>> /\ at = "off"
    /\ parts = <<>> /\ left = Part(1, 1)
    /\ stack = <<>> /\ chunks = <<>> /\ pc = "input"

Goto(l) == pc' = l

\* Only zero is found to be too small: a negative number is a large one by then.
Convert ==
    /\ pc = "input"
    /\ chunkSize' = chunkSize % Word /\ chunkOverlap' = chunkOverlap % Word
    /\ Goto(IF chunkSize' < 1 \/ chunkOverlap' < 1 THEN "refused" ELSE "check")
    /\ UNCHANGED <<blanks, splits, separatorLen, loopVars, text, scenario, parts, left, stack, chunks>>

\* utils::split_text is called.
BeginSplit(part) == left' = part /\ parts' = <<>> /\ Goto("split")

\* _check_chunk_overlap throws what nothing catches, and a list without separators
\* has no last one to take.
Check ==
    /\ pc = "check"
    /\ IF chunkOverlap > chunkSize \/ scenario.separators = <<>>
       THEN Goto("died") /\ UNCHANGED <<parts, left, stack>>
       ELSE LET all == Part(1, Len(text) + 1)
            IN  /\ BeginSplit(all)
                /\ stack' = IF scenario.op = "plain" THEN <<>>
                            ELSE <<Call(all, scenario.separators)>>
    /\ UNCHANGED <<mergeVars, text, scenario, chunks>>

Top == Head(stack)
Piece == Top.pieces[Top.i]
With(frame) == <<frame>> \o Tail(stack)
IsGood == Top.i \in DOMAIN Top.pieces /\ Piece.to - Piece.from < chunkSize

Separator == IF scenario.op = "plain" THEN scenario.separators[1] ELSE Top.separator
Cuts == {p \in left.from .. left.to : Occurs(Separator, p, left.to)}

\* utils::split_text goes from the left: an empty separator makes characters.
SplitOff ==
    /\ pc = "split"
    /\ \/ /\ Separator = <<>> /\ left.from < left.to
          /\ parts' = Append(parts, Part(left.from, left.from + 1))
          /\ left' = Part(left.from + 1, left.to)
       \/ /\ Separator # <<>> /\ Cuts # {}
          /\ parts' = Append(parts, Part(left.from, Min(Cuts)))
          /\ left' = Part(Min(Cuts) + Len(Separator), left.to)
    /\ UNCHANGED <<mergeVars, text, scenario, stack, chunks, pc>>

\* What is left is the last split, empty or not; an empty text has none.
AllParts ==
    IF Separator = <<>> \/ (parts = <<>> /\ left.from = left.to) THEN parts
    ELSE Append(parts, left)

\* _merge_splits is called.
BeginMerge(pieces) ==
    /\ splits' = pieces /\ separatorLen' = Len(Separator)
    /\ next' = 1 /\ first' = 1 /\ total' = 0 /\ totalIfMerge' = 0
    /\ docs' = <<>> /\ at' = "next"
    /\ Goto("merge") /\ UNCHANGED <<blanks, chunkSize, chunkOverlap>>

\* The text is split: all of it is merged, or the call goes through the splits.
SplitDone ==
    /\ pc = "split"
    /\ IF Separator = <<>> THEN left.from = left.to ELSE Cuts = {}
    /\ IF scenario.op = "plain" THEN BeginMerge(AllParts) /\ UNCHANGED stack
       ELSE stack' = With([Top EXCEPT !.pieces = AllParts]) /\ Goto("scan") /\ UNCHANGED mergeVars
    /\ parts' = <<>>
    /\ UNCHANGED <<text, scenario, left, chunks>>

Gather ==
    /\ pc = "scan" /\ IsGood
    /\ stack' = With([Top EXCEPT !.i = @ + 1])
    /\ UNCHANGED <<mergeVars, text, scenario, parts, left, chunks, pc>>

\* The good splits before a big one, or the end, are merged.
MergeGood ==
    /\ pc = "scan" /\ ~IsGood /\ Top.good < Top.i
    /\ BeginMerge(SubSeq(Top.pieces, Top.good, Top.i - 1))
    /\ stack' = With([Top EXCEPT !.good = Top.i])
    /\ UNCHANGED <<text, scenario, parts, left, chunks>>

Merges ==
    /\ pc = "merge" /\ MergeNext
    /\ UNCHANGED <<text, scenario, parts, left, stack, chunks, pc>>

\* Variant: only the first document is put.
PutOne ==
    /\ pc = "merge" /\ at = "done"
    /\ chunks' = chunks \o
          [k \in 1 .. (IF docs = <<>> THEN 0 ELSE 1) |->
              Trimmed(splits[docs[k].first].from, splits[docs[k].last].to)]
    /\ at' = "off"
    /\ Goto(IF stack = <<>> THEN "done" ELSE "scan")
    /\ UNCHANGED <<inputVars, next, first, total, totalIfMerge, docs, text, scenario, parts, left, stack>>

\* _merge_splits_and_put
PutMerged ==
    /\ pc = "merge" /\ at = "done"
    /\ chunks' = chunks \o
          [k \in DOMAIN docs |-> Trimmed(splits[docs[k].first].from, splits[docs[k].last].to)]
    /\ at' = "off"
    /\ Goto(IF stack = <<>> THEN "done" ELSE "scan")
    /\ UNCHANGED <<inputVars, next, first, total, totalIfMerge, docs, text, scenario, parts, left, stack>>

Big == pc = "scan" /\ Top.i \in DOMAIN Top.pieces /\ ~IsGood /\ Top.good = Top.i
After == [Top EXCEPT !.i = @ + 1, !.good = @ + 1]

\* Variant: what comes out of the later separators' splits is put as it is.
PutAlways ==
    /\ Big
    /\ chunks' = Append(chunks, Piece)
    /\ stack' = With(After)
    /\ UNCHANGED <<mergeVars, text, scenario, parts, left, pc>>

\* No separators are left: a big split is a chunk as it is, blanks included.
PutBig ==
    /\ Big /\ Top.seps = <<>>
    /\ chunks' = Append(chunks, Piece)
    /\ stack' = With(After)
    /\ UNCHANGED <<mergeVars, text, scenario, parts, left, pc>>

SplitBig ==
    /\ Big /\ Top.seps # <<>>
    /\ BeginSplit(Piece)
    /\ stack' = <<Call(Piece, Top.seps)>> \o With(After)
    /\ UNCHANGED <<mergeVars, text, scenario, chunks>>

Return ==
    /\ pc = "scan" /\ Top.i \notin DOMAIN Top.pieces /\ Top.good = Top.i
    /\ stack' = Tail(stack)
    /\ Goto(IF stack' = <<>> THEN "done" ELSE "scan")
    /\ UNCHANGED <<mergeVars, text, scenario, parts, left, chunks>>

Ended == pc \in {"refused", "died", "done"} /\ UNCHANGED vars

Next ==
    \/ Convert \/ Check \/ SplitOff \/ SplitDone \/ Gather \/ MergeGood \/ Merges \/ PutMerged
    \/ PutBig \/ SplitBig \/ Return \/ Ended

Spec == Init /\ [][Next]_vars

-----------------------------------------------------------------------------
(* Properties.                                                             *)

\* split_text.cpp: with separators that are white space, and the empty one at the
\* end of the list, no chunk is longer than chunk_size.
ChunksFit ==
    pc = "done" /\ scenario.op = "recursive"
      /\ scenario.separators[Len(scenario.separators)] = <<>>
      /\ (\A i \in DOMAIN scenario.separators : Range(scenario.separators[i]) \subseteq White)
    => \A k \in DOMAIN chunks : chunks[k].to - chunks[k].from <= chunkSize

\* Whatever the sizes, a character is in a chunk unless it is white space or one
\* of a separator's, and the chunks are in the order of the text.  (Two of them may
\* be the same once they are trimmed.)
NothingIsLost ==
    pc = "done" =>
        /\ \A p \in DOMAIN text :
              \/ text[p] \in White
              \/ \E i \in DOMAIN scenario.separators : text[p] \in Range(scenario.separators[i])
              \/ \E k \in DOMAIN chunks : p \in chunks[k].from .. chunks[k].to - 1
        /\ \A k \in DOMAIN chunks : k + 1 \in DOMAIN chunks =>
              chunks[k].from <= chunks[k + 1].from /\ chunks[k].to <= chunks[k + 1].to

=============================================================================

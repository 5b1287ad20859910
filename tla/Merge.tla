------------------------------- MODULE Merge -------------------------------
(***************************************************************************)
(* _merge_splits of split_text.cpp: the splits of a text, in their order,  *)
(* are joined with the separator that was between them into documents of   *)
(* at most chunk_size, of which neighbours share at most chunk_overlap.    *)
(*                                                                         *)
(* A split is the interval of the text it was taken from.  What the joined *)
(* splits of a document give is then again an interval of the text, and    *)
(* all that matters of a character is whether it is white space.           *)
(***************************************************************************)
EXTENDS Integers, Sequences

VARIABLES
    blanks,         \* the positions of white space in the text
    chunkSize,      \* chunk_size
    chunkOverlap,   \* chunk_overlap
    splits,         \* splits[i]: from its first position to the one after its last
    separatorLen,   \* separator_len
    next,           \* the split to be looked at; those from first on are `current'
    first,
    total,          \* total
    totalIfMerge,   \* total_if_merge
    docs,           \* the first and the last split of each document
    at              \* "off", "next" in the loop, "pop" in the inner one, or "done"

inputVars == <<blanks, chunkSize, chunkOverlap, splits, separatorLen>>
loopVars == <<next, first, total, totalIfMerge, docs, at>>
mergeVars == <<inputVars, loopVars>>

Size(i) == splits[i].to - splits[i].from

\* The length of splits i to j when they are joined.
Extent(i, j) == splits[j].to - splits[i].from

\* utils::trim leaves nothing of the joined splits i to j.
Blank(i, j) == splits[i].from .. splits[j].to - 1 \subseteq blanks

Document(i, j) == [first |-> i, last |-> j]

\* separator_len, when there is something to separate split next from.
Gap(f) == IF f < next THEN separatorLen ELSE 0

-----------------------------------------------------------------------------
\* Splits as utils::split_text makes them: in the order of the text, with a separator
\* between two neighbours; and a valid size and overlap.
Interval == [from : Nat, to : Nat]
Inputs ==
    /\ splits \in Seq(Interval)
    /\ separatorLen \in Nat /\ chunkSize \in Nat /\ chunkOverlap \in 0 .. chunkSize
    /\ \A i \in DOMAIN splits : splits[i].from <= splits[i].to
    /\ \A i, j \in DOMAIN splits : i < j => splits[i].to + separatorLen <= splits[j].from
    /\ \A i \in DOMAIN splits : i + 1 \in DOMAIN splits =>
           splits[i + 1].from = splits[i].to + separatorLen

LoopInit ==
    /\ next = 1 /\ first = 1
    /\ total = 0 /\ totalIfMerge = 0
    /\ docs = <<>> /\ at = "next"

MergeInit == Inputs /\ LoopInit

\* complete_document
Complete ==
    docs' = IF first < next /\ ~Blank(first, next - 1)
            THEN Append(docs, Document(first, next - 1)) ELSE docs

\* Variant: the separator is not counted.
PushUncounted ==
    /\ at = "next" /\ next \in DOMAIN splits
    /\ total + Size(next) <= chunkSize \/ first = next
    /\ next' = next + 1
    /\ total' = total + Size(next) /\ totalIfMerge' = total'
    /\ UNCHANGED <<inputVars, first, docs, at>>

\* The split has room in the document, or starts one.
Push ==
    /\ at = "next" /\ next \in DOMAIN splits
    /\ totalIfMerge' = total + Size(next) + Gap(first)
    /\ totalIfMerge' <= chunkSize \/ first = next
    /\ next' = next + 1
    /\ total' = totalIfMerge'
    /\ UNCHANGED <<inputVars, first, docs, at>>

\* It has not: the document is completed.
CompleteDocument ==
    /\ at = "next" /\ next \in DOMAIN splits
    /\ totalIfMerge' = total + Size(next) + Gap(first)
    /\ totalIfMerge' > chunkSize /\ first < next
    /\ Complete
    /\ at' = "pop"
    /\ UNCHANGED <<inputVars, next, first, total>>

\* Variant: the room is not made.
PopsOverlap == total > chunkOverlap

\* The overlap is still too long, or the room too small.
Pops == total > chunkOverlap \/ (totalIfMerge > chunkSize /\ total > 0)

Pop ==
    /\ at = "pop" /\ Pops
    /\ first' = first + 1
    /\ total' = total - (Size(first) + Gap(first + 1))
    /\ totalIfMerge' = total' + Size(next) + Gap(first + 1)
    /\ UNCHANGED <<inputVars, next, docs, at>>

PushAfter ==
    /\ at = "pop" /\ ~Pops
    /\ next' = next + 1
    /\ total' = totalIfMerge
    /\ at' = "next"
    /\ UNCHANGED <<inputVars, first, totalIfMerge, docs>>

CompleteLast ==
    /\ at = "next" /\ next \notin DOMAIN splits
    /\ Complete
    /\ at' = "done"
    /\ UNCHANGED <<inputVars, next, first, total, totalIfMerge>>

MergeNext == Push \/ CompleteDocument \/ Pop \/ PushAfter \/ CompleteLast

MergeSpec == MergeInit /\ [][MergeNext]_mergeVars

-----------------------------------------------------------------------------
(* Properties.                                                             *)

\* split_text.cpp: the sizes are unsigned, and `total' is kept by additions and
\* subtractions: it is the length of what is in `current', never below zero, and
\* nothing is taken out of an empty `current'.
TotalIsExtent ==
    at \in {"next", "pop"} =>
        /\ first <= next /\ total >= 0
        /\ total = IF first = next THEN 0 ELSE Extent(first, next - 1)

\* split_text.cpp, after a document is completed: splits are popped until the overlap
\* is small enough and there is room for the new one.  So a document is not longer
\* than chunk_size, unless it is one split, or one behind splits of no length that the
\* loop has kept; none lies within another, and two neighbours do not share more than
\* chunk_overlap.
Fits(d) ==
    \/ Extent(d.first, d.last) <= chunkSize
    \/ d.first = d.last
    \/ Extent(d.first, d.last - 1) = 0

Follows(d, e) ==
    /\ d.first <= e.first /\ d.last < e.last
    /\ e.first <= d.last => Extent(e.first, d.last) <= chunkOverlap

DocumentsFit ==
    /\ \A k \in DOMAIN docs : Fits(docs[k])
    /\ \A k \in DOMAIN docs : k + 1 \in DOMAIN docs => Follows(docs[k], docs[k + 1])

\* split_text.cpp: every split is in `current' once, and the last `current' is completed
\* behind the loop; so each split that is not blank is in a document when it is done.
SplitsAreKept ==
    at = "done" =>
        \A i \in DOMAIN splits :
            Blank(i, i) \/ \E k \in DOMAIN docs : i \in docs[k].first .. docs[k].last

=============================================================================

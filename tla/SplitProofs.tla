----------------------------- MODULE SplitProofs -----------------------------
(***************************************************************************)
(* Theorems about Merge, for every sequence of splits, size and overlap,   *)
(* and about SplitText, for every text and any separators: no chunk is too *)
(* long where there is something to cut it at, and no character is lost.   *)
(***************************************************************************)
EXTENDS SplitText, SequenceTheorems, WellFoundedInduction, TLAPS

-----------------------------------------------------------------------------
(* The loop of _merge_splits.                                              *)

Documents == [first : Nat \ {0}, last : Nat \ {0}]

LoopTypes ==
    /\ next \in 1 .. Len(splits) + 1 /\ first \in Nat \ {0}
    /\ total \in Int /\ totalIfMerge \in Int
    /\ docs \in Seq(Documents)
    /\ at \in {"next", "pop", "done"}

\* The inner loop runs for a split, with what it would make of total; the outer one
\* runs for all.
LoopOK ==
    /\ at = "pop" =>
          /\ next \in DOMAIN splits
          /\ totalIfMerge = total + Size(next) + Gap(first)
    /\ at = "done" => next = Len(splits) + 1

\* Between two splits `current' fits, or has one split that is of any length.
CurrentFits ==
    at = "next" /\ first < next =>
        \/ total <= chunkSize
        \/ first = next - 1
        \/ Extent(first, next - 2) = 0

\* The documents end before `current' does, and share little with it.
DocsBehind ==
    \A k \in DOMAIN docs :
        /\ docs[k].first <= first /\ docs[k].first <= docs[k].last
        /\ docs[k].last < next
        /\ at = "next" =>
              /\ docs[k].last < next - 1
              /\ first <= docs[k].last => Extent(first, docs[k].last) <= chunkOverlap

InDocs(i) == \E k \in DOMAIN docs : i \in docs[k].first .. docs[k].last

\* A split the loop has gone past is in a document or still in `current'.
Covered ==
    \A i \in 1 .. next - 1 : Blank(i, i) \/ InDocs(i) \/ (at = "next" /\ first <= i)

LoopInv ==
    /\ Inputs /\ LoopTypes /\ TotalIsExtent /\ LoopOK /\ CurrentFits
    /\ DocsBehind /\ DocumentsFit /\ Covered

-----------------------------------------------------------------------------
\* What all lengths come from: the splits are in the order of the text.
LEMMA Ordered ==
    ASSUME Inputs, NEW i \in DOMAIN splits, NEW j \in DOMAIN splits, i <= j
    PROVE  /\ splits[i].from \in Nat /\ splits[i].to \in Nat
           /\ splits[j].from \in Nat /\ splits[j].to \in Nat
           /\ separatorLen \in Nat /\ chunkSize \in Nat /\ chunkOverlap \in Nat
           /\ splits[i].from <= splits[j].from /\ splits[i].to <= splits[j].to
           /\ splits[i].from <= splits[i].to /\ splits[j].from <= splits[j].to
<1>1. splits[i] \in Interval /\ splits[j] \in Interval
  BY DEF Inputs
<1>2. /\ splits[i].from \in Nat /\ splits[i].to \in Nat
      /\ splits[j].from \in Nat /\ splits[j].to \in Nat
  BY <1>1 DEF Interval
<1>3. i \in Nat /\ j \in Nat
  BY DEF Inputs
<1>4. CASE i = j
  BY <1>2, <1>4 DEF Inputs
<1>5. CASE i < j
  BY <1>2, <1>5 DEF Inputs
<1> QED BY <1>3, <1>4, <1>5

\* The length of some splits is a number.
LEMMA Extents ==
    ASSUME Inputs, NEW i \in DOMAIN splits, NEW j \in DOMAIN splits, i <= j
    PROVE  Extent(i, j) \in Nat /\ Extent(i, i) = Size(i) /\ Size(j) \in Nat
BY Ordered DEF Extent, Size

\* One split more at the end, and one fewer at the front.
LEMMA ExtentGrows ==
    ASSUME Inputs, NEW i \in DOMAIN splits, NEW j \in DOMAIN splits, i <= j,
           j + 1 \in DOMAIN splits
    PROVE  Extent(i, j + 1) = Extent(i, j) + separatorLen + Size(j + 1)
<1>1. splits[j + 1].from = splits[j].to + separatorLen
  BY DEF Inputs
<1>2. /\ splits[i].from \in Nat /\ splits[j].to \in Nat
      /\ splits[j + 1].to \in Nat /\ separatorLen \in Nat
  <2>1. j \in Nat /\ j <= j + 1
    BY DEF Inputs
  <2> QED BY <2>1, Ordered
<1> QED BY <1>1, <1>2 DEF Extent, Size

\* Without its first split, and the separator behind it, it is that much less.
LEMMA ExtentShrinks ==
    ASSUME Inputs, NEW i \in DOMAIN splits, NEW j \in DOMAIN splits, i < j
    PROVE  /\ i + 1 \in DOMAIN splits
           /\ Extent(i + 1, j) = Extent(i, j) - (Size(i) + separatorLen)
<1>1. i + 1 \in DOMAIN splits /\ i + 1 <= j /\ i <= i + 1
  BY DEF Inputs
<1>2. splits[i + 1].from = splits[i].to + separatorLen
  BY <1>1 DEF Inputs
<1>3. /\ splits[i].from \in Nat /\ splits[i].to \in Nat
      /\ splits[j].to \in Nat /\ separatorLen \in Nat
  BY <1>1, Ordered
<1> QED BY <1>1, <1>2, <1>3 DEF Extent, Size

\* An interval of splits is not longer than one around it.
LEMMA ExtentWithin ==
    ASSUME Inputs, NEW f \in DOMAIN splits, NEW i \in DOMAIN splits,
           NEW j \in DOMAIN splits, NEW l \in DOMAIN splits, f <= i, i <= j, j <= l
    PROVE  Extent(i, j) <= Extent(f, l)
<1>1. /\ splits[f].from <= splits[i].from /\ splits[j].to <= splits[l].to
      /\ splits[f].from \in Nat /\ splits[i].from \in Nat
      /\ splits[j].to \in Nat /\ splits[l].to \in Nat
  BY Ordered
<1> QED BY <1>1 DEF Extent

\* White space joined is white space in each split.
LEMMA BlankWithin ==
    ASSUME Inputs, NEW f \in DOMAIN splits, NEW i \in DOMAIN splits,
           NEW l \in DOMAIN splits, f <= i, i <= l, Blank(f, l)
    PROVE  Blank(i, i)
<1>1. /\ splits[f].from <= splits[i].from /\ splits[i].to <= splits[l].to
      /\ splits[f].from \in Nat /\ splits[i].from \in Nat
      /\ splits[i].to \in Nat /\ splits[l].to \in Nat
  BY Ordered
<1> QED BY <1>1 DEF Blank

-----------------------------------------------------------------------------
\* Nothing is in `current' yet.
LEMMA LoopStarts == MergeInit => LoopInv
<1> SUFFICES ASSUME MergeInit PROVE LoopInv
  OBVIOUS
<1>1. Inputs /\ next = 1 /\ first = 1 /\ total = 0 /\ totalIfMerge = 0 /\ docs = <<>> /\ at = "next"
  BY DEF MergeInit, LoopInit
<1>2. Len(splits) \in Nat
  BY <1>1 DEF Inputs
<1>3. LoopTypes
  BY <1>1, <1>2 DEF LoopTypes
<1>4. TotalIsExtent /\ LoopOK /\ CurrentFits /\ Covered
  BY <1>1 DEF TotalIsExtent, LoopOK, CurrentFits, Covered
<1>5. DocsBehind /\ DocumentsFit
  BY <1>1 DEF DocsBehind, DocumentsFit
<1> QED BY <1>1, <1>3, <1>4, <1>5 DEF LoopInv

\* What a step that takes split next into `current' computes.
LEMMA Taken ==
    ASSUME LoopInv, next \in DOMAIN splits, first <= next, at \in {"next", "pop"}
    PROVE  /\ total + Size(next) + Gap(first) = Extent(first, next)
           /\ Extent(first, next) \in Nat /\ Size(next) \in Nat
           /\ first \in DOMAIN splits /\ first \in Nat /\ next \in Nat
<1>1. /\ first \in DOMAIN splits /\ first \in Nat /\ next \in Nat
      /\ Extent(first, next) \in Nat /\ Size(next) \in Nat
      /\ Extent(next, next) = Size(next)
      /\ separatorLen \in Nat
  BY Extents DEF LoopInv, LoopTypes, Inputs
<1>2. CASE first = next
  <2>1. total = 0 /\ Gap(first) = 0
    BY <1>1, <1>2 DEF LoopInv, TotalIsExtent, Gap
  <2>2. Extent(first, next) = Size(next)
    BY <1>1, <1>2
  <2> QED BY <1>1, <2>1, <2>2
<1>3. CASE first < next
  <2>1. next - 1 \in DOMAIN splits /\ first <= next - 1 /\ (next - 1) + 1 = next
    BY <1>1, <1>3 DEF LoopInv, Inputs
  <2>2. Extent(first, next) = Extent(first, next - 1) + separatorLen + Size(next)
    BY <1>1, <2>1, ExtentGrows DEF LoopInv
  <2>3. total = Extent(first, next - 1) /\ Gap(first) = separatorLen
    BY <1>1, <1>3 DEF LoopInv, TotalIsExtent, Gap
  <2>4. Extent(first, next - 1) \in Nat
    BY <1>1, <2>1, Extents DEF LoopInv
  <2> QED BY <1>1, <2>2, <2>3, <2>4
<1> QED BY <1>1, <1>2, <1>3

\* What `current' holds is the extent of its splits.
LEMMA Current ==
    ASSUME LoopInv, first < next, at \in {"next", "pop"}
    PROVE  /\ first \in DOMAIN splits /\ next - 1 \in DOMAIN splits
           /\ first \in Nat /\ next \in Nat /\ first <= next - 1
           /\ total = Extent(first, next - 1) /\ total \in Nat
<1>1. /\ first \in DOMAIN splits /\ next - 1 \in DOMAIN splits
      /\ first \in Nat /\ next \in Nat /\ first <= next - 1
  BY DEF LoopInv, LoopTypes, Inputs
<1>2. total = Extent(first, next - 1)
  BY <1>1 DEF LoopInv, TotalIsExtent
<1> QED BY <1>1, <1>2, Extents DEF LoopInv

\* The documents are of splits.
LEMMA DocTypes ==
    ASSUME LoopTypes, NEW k \in DOMAIN docs
    PROVE  docs[k].first \in Nat /\ docs[k].last \in Nat
<1>1. docs \in Seq(Documents)
  BY DEF LoopTypes
<1>2. docs[k] \in Documents
  BY <1>1
<1> QED BY <1>2 DEF Documents

\* A split that has room, or starts a document, leaves the total counted right.
LEMMA PushInv == LoopInv /\ Push => LoopInv'
<1> SUFFICES ASSUME LoopInv, Push PROVE LoopInv'
  OBVIOUS
<1> USE DEF Push, inputVars
<1>1. first <= next /\ next \in DOMAIN splits /\ at = "next"
  BY DEF LoopInv, TotalIsExtent
<1>2. /\ totalIfMerge' = Extent(first, next) /\ Extent(first, next) \in Nat
      /\ first \in DOMAIN splits /\ first \in Nat /\ next \in Nat
  BY <1>1, Taken
<1>3. Inputs'
  BY DEF LoopInv, Inputs
<1>4. LoopTypes'
  BY <1>1, <1>2 DEF LoopInv, LoopTypes, Inputs
<1>5. TotalIsExtent'
  <2>1. next' - 1 = next /\ first < next'
    BY <1>1, <1>2
  <2>2. total' = Extent(first, next' - 1)
    BY <1>2, <2>1
  <2>3. total' = Extent(first, next - 1)'
    BY <2>2 DEF Extent
  <2> QED BY <1>2, <2>1, <2>2, <2>3 DEF TotalIsExtent
<1>6. LoopOK'
  BY <1>1 DEF LoopOK
<1>7. CurrentFits'
  BY <1>1, <1>2 DEF CurrentFits
<1>8. DocsBehind'
  <2> SUFFICES ASSUME NEW k \in DOMAIN docs
               PROVE  /\ docs[k].first <= first /\ docs[k].first <= docs[k].last
                      /\ docs[k].last < next'
                      /\ docs[k].last < next' - 1
                      /\ first <= docs[k].last =>
                            Extent(first, docs[k].last) <= chunkOverlap
    BY DEF DocsBehind, Extent
  <2>1. LoopTypes
    BY DEF LoopInv
  <2>2. docs[k].first \in Nat /\ docs[k].last \in Nat
    BY <2>1, DocTypes
  <2>3. /\ docs[k].first <= first /\ docs[k].first <= docs[k].last
        /\ docs[k].last < next - 1
        /\ first <= docs[k].last => Extent(first, docs[k].last) <= chunkOverlap
    BY <1>1 DEF LoopInv, DocsBehind
  <2> QED BY <1>2, <2>2, <2>3
<1>9. DocumentsFit'
  BY DEF LoopInv, DocumentsFit, Fits, Follows, Extent
<1>10. Covered'
  <2> SUFFICES ASSUME NEW i \in 1 .. next
               PROVE  Blank(i, i) \/ InDocs(i) \/ first <= i
    BY <1>1, <1>2 DEF Covered, Blank, InDocs
  <2>1. CASE i = next
    BY <1>1, <2>1
  <2>2. CASE i \in 1 .. next - 1
    BY <2>2 DEF LoopInv, Covered
  <2> QED BY <1>2, <2>1, <2>2
<1> QED BY <1>3, <1>4, <1>5, <1>6, <1>7, <1>8, <1>9, <1>10 DEF LoopInv

\* complete_document: what it appends fits, follows the others, and covers `current'.
LEMMA Completed ==
    ASSUME LoopInv, Complete, UNCHANGED <<inputVars, next, first, total>>, at = "next"
    PROVE  /\ Inputs' /\ docs' \in Seq(Documents)
           /\ \A k \in DOMAIN docs' :
                 /\ docs'[k].first <= first /\ docs'[k].first <= docs'[k].last
                 /\ docs'[k].last < next
           /\ DocumentsFit'
           /\ \A i \in 1 .. next - 1 : Blank(i, i)' \/ InDocs(i)'
<1> USE DEF inputVars
<1>1. Inputs'
  BY DEF LoopInv, Inputs
<1>2. next \in Nat \ {0} /\ first \in Nat \ {0} /\ first <= next
  BY DEF LoopInv, LoopTypes, Inputs, TotalIsExtent
<1>3. CASE first < next /\ ~Blank(first, next - 1)
  <2> DEFINE d == Document(first, next - 1)
  <2>1. /\ first \in DOMAIN splits /\ next - 1 \in DOMAIN splits /\ first <= next - 1
        /\ total = Extent(first, next - 1) /\ total \in Nat
    BY <1>3, Current
  <2>2. docs' = Append(docs, d)
    BY <1>3 DEF Complete
  <2>3. d \in Documents /\ d.first = first /\ d.last = next - 1
    BY <1>2, <2>1 DEF Document, Documents, LoopInv, Inputs
  <2>4. docs \in Seq(Documents)
    BY DEF LoopInv, LoopTypes
  <2> HIDE DEF d
  <2>5. docs' \in Seq(Documents)
    BY <2>2, <2>3, <2>4
  <2>6. /\ DOMAIN docs' = 1 .. Len(docs) + 1 /\ DOMAIN docs = 1 .. Len(docs)
        /\ Len(docs) \in Nat
        /\ docs'[Len(docs) + 1] = d
        /\ \A k \in DOMAIN docs : docs'[k] = docs[k]
    BY <2>2, <2>3, <2>4
  <2>7. ASSUME NEW k \in DOMAIN docs'
        PROVE  /\ docs'[k].first <= first /\ docs'[k].first <= docs'[k].last
               /\ docs'[k].last < next
    <3>1. CASE k \in DOMAIN docs
      BY <2>6, <3>1 DEF LoopInv, DocsBehind
    <3>2. CASE k = Len(docs) + 1
      BY <1>2, <2>1, <2>3, <2>6, <3>2
    <3> QED BY <2>6, <3>1, <3>2
  <2>8. ASSUME NEW k \in DOMAIN docs'
        PROVE  Fits(docs'[k])
    <3>1. CASE k \in DOMAIN docs
      BY <2>6, <3>1 DEF LoopInv, DocumentsFit
    <3>2. CASE k = Len(docs) + 1
      <4>1. total <= chunkSize \/ first = next - 1 \/ Extent(first, next - 2) = 0
        BY <1>3 DEF LoopInv, CurrentFits
      <4>2. (next - 1) - 1 = next - 2
        BY <1>2
      <4>3. Fits(d)
        BY <2>1, <2>3, <4>1, <4>2 DEF Fits
      <4> QED BY <2>6, <3>2, <4>3
    <3> QED BY <2>6, <3>1, <3>2
  <2>9. ASSUME NEW k \in DOMAIN docs', k + 1 \in DOMAIN docs'
        PROVE  Follows(docs'[k], docs'[k + 1])
    <3>1. CASE k + 1 \in DOMAIN docs
      <4>1. k \in DOMAIN docs
        BY <2>6, <2>9, <3>1
      <4> QED BY <2>6, <3>1, <4>1 DEF LoopInv, DocumentsFit
    <3>2. CASE k + 1 = Len(docs) + 1
      <4>1. k \in DOMAIN docs
        BY <2>6, <3>2
      <4>2. /\ docs[k].first <= first /\ docs[k].last < next - 1
            /\ first <= docs[k].last => Extent(first, docs[k].last) <= chunkOverlap
        BY <4>1 DEF LoopInv, DocsBehind
      <4>3. Follows(docs[k], d)
        BY <2>3, <4>2 DEF Follows
      <4> QED BY <2>6, <3>2, <4>1, <4>3
    <3> QED BY <2>6, <2>9, <3>1, <3>2
  <2>11. DocumentsFit'
    BY <2>8, <2>9 DEF DocumentsFit, Fits, Follows, Extent
  <2>10. ASSUME NEW i \in 1 .. next - 1
         PROVE  Blank(i, i)' \/ InDocs(i)'
    <3>1. CASE first <= i
      BY <1>2, <2>3, <2>6, <3>1 DEF InDocs
    <3>2. CASE InDocs(i)
      <4>1. PICK k \in DOMAIN docs : i \in docs[k].first .. docs[k].last
        BY <3>2 DEF InDocs
      <4> QED BY <2>6, <4>1 DEF InDocs
    <3> QED BY <3>1, <3>2 DEF LoopInv, Covered, Blank
  <2> QED BY <1>1, <2>5, <2>7, <2>10, <2>11
<1>4. CASE ~(first < next /\ ~Blank(first, next - 1))
  <2>1. docs' = docs
    BY <1>4 DEF Complete
  <2>2. ASSUME NEW i \in 1 .. next - 1
        PROVE  Blank(i, i)' \/ InDocs(i)'
    <3>1. CASE first <= i
      <4>1. /\ first \in DOMAIN splits /\ next - 1 \in DOMAIN splits
            /\ i \in DOMAIN splits /\ i <= next - 1 /\ Blank(first, next - 1)
        BY <1>2, <1>4, <3>1, Current DEF LoopInv, LoopTypes, Inputs
      <4>2. Blank(i, i)
        BY <3>1, <4>1, BlankWithin DEF LoopInv
      <4> QED BY <4>2 DEF Blank
    <3> QED BY <2>1, <3>1 DEF LoopInv, Covered, Blank, InDocs
  <2>3. /\ docs' \in Seq(Documents)
        /\ \A k \in DOMAIN docs' :
              /\ docs'[k].first <= first /\ docs'[k].first <= docs'[k].last
              /\ docs'[k].last < next
    BY <2>1 DEF LoopInv, LoopTypes, DocsBehind
  <2>4. DocumentsFit'
    BY <2>1 DEF LoopInv, DocumentsFit, Fits, Follows, Extent
  <2> QED BY <1>1, <2>2, <2>3, <2>4
<1> QED BY <1>3, <1>4

\* A document is completed from `current', which fits.
LEMMA CompleteDocumentInv == LoopInv /\ CompleteDocument => LoopInv'
<1> SUFFICES ASSUME LoopInv, CompleteDocument PROVE LoopInv'
  OBVIOUS
<1> USE DEF CompleteDocument, inputVars
<1>1. /\ next \in DOMAIN splits /\ first < next /\ at = "next" /\ at' = "pop"
      /\ Complete /\ UNCHANGED <<inputVars, next, first, total>>
  OBVIOUS
<1>2. /\ Inputs' /\ docs' \in Seq(Documents)
      /\ \A k \in DOMAIN docs' :
            /\ docs'[k].first <= first /\ docs'[k].first <= docs'[k].last
            /\ docs'[k].last < next
      /\ DocumentsFit'
      /\ \A i \in 1 .. next - 1 : Blank(i, i)' \/ InDocs(i)'
  BY <1>1, Completed
<1>3. totalIfMerge' \in Int
  BY <1>1, Taken DEF LoopInv, TotalIsExtent
<1>4. LoopTypes'
  BY <1>1, <1>2, <1>3 DEF LoopInv, LoopTypes
<1>5. TotalIsExtent'
  BY <1>1 DEF LoopInv, TotalIsExtent, Extent
<1>6. LoopOK'
  BY <1>1 DEF LoopOK, Size, Gap
<1>7. CurrentFits' /\ DocsBehind' /\ Covered'
  BY <1>1, <1>2 DEF CurrentFits, DocsBehind, Covered
<1> QED BY <1>2, <1>4, <1>5, <1>6, <1>7 DEF LoopInv

\* The subtractions stay above zero: a split is only taken out of a `current' that has
\* it, and leaves the extent of the others.
LEMMA PopInv == LoopInv /\ Pop => LoopInv'
<1> SUFFICES ASSUME LoopInv, Pop PROVE LoopInv'
  OBVIOUS
<1> USE DEF Pop, inputVars
<1>1. /\ first <= next /\ next \in DOMAIN splits /\ at = "pop"
      /\ next \in Nat /\ first \in Nat \ {0}
      /\ chunkOverlap \in Nat /\ separatorLen \in Nat
  BY DEF LoopInv, TotalIsExtent, LoopOK, LoopTypes, Inputs
<1>2. first < next
  BY <1>1 DEF LoopInv, TotalIsExtent, Pops
<1>3. /\ first \in DOMAIN splits /\ next - 1 \in DOMAIN splits /\ first <= next - 1
      /\ total = Extent(first, next - 1) /\ total \in Nat
  BY <1>1, <1>2, Current
<1>4. /\ total' \in Nat
      /\ total' = IF first + 1 = next THEN 0 ELSE Extent(first + 1, next - 1)
  <2>1. CASE first + 1 = next
    <3>1. Extent(first, first) = Size(first) /\ Size(first) \in Nat
      BY <1>1, <1>3, Extents DEF LoopInv
    <3>2. Gap(first + 1) = 0 /\ first = next - 1
      BY <1>1, <2>1 DEF Gap
    <3>3. total = Size(first)
      BY <1>3, <3>1, <3>2
    <3> QED BY <2>1, <3>1, <3>2, <3>3
  <2>2. CASE first + 1 < next
    <3>1. first < next - 1 /\ first + 1 <= next - 1 /\ Gap(first + 1) = separatorLen
      BY <1>1, <2>2 DEF Gap
    <3>2. /\ first + 1 \in DOMAIN splits
          /\ Extent(first + 1, next - 1) = Extent(first, next - 1) - (Size(first) + separatorLen)
      BY <1>3, <3>1, ExtentShrinks DEF LoopInv
    <3>3. Extent(first + 1, next - 1) \in Nat
      BY <1>3, <3>1, <3>2, Extents DEF LoopInv
    <3> QED BY <1>1, <1>3, <2>2, <3>1, <3>2, <3>3
  <2> QED BY <1>1, <1>2, <2>1, <2>2
<1>5. Size(next) \in Nat /\ Gap(first + 1) \in Nat
  BY <1>1, Extents DEF LoopInv, Gap
<1>6. Inputs'
  BY DEF LoopInv, Inputs
<1>7. LoopTypes'
  BY <1>1, <1>4, <1>5 DEF LoopInv, LoopTypes
<1>8. TotalIsExtent'
  <2>1. Extent(first + 1, next - 1) = Extent(first, next - 1)'
    BY DEF Extent
  <2> QED BY <1>1, <1>2, <1>4, <2>1 DEF TotalIsExtent
<1>9. LoopOK'
  BY <1>1 DEF LoopOK, Size, Gap
<1>10. CurrentFits'
  BY <1>1 DEF CurrentFits
<1>11. DocsBehind'
  <2> SUFFICES ASSUME NEW k \in DOMAIN docs
               PROVE  /\ docs[k].first <= first + 1 /\ docs[k].first <= docs[k].last
                      /\ docs[k].last < next
    BY <1>1 DEF DocsBehind
  <2>1. LoopTypes
    BY DEF LoopInv
  <2>2. docs[k].first \in Nat /\ docs[k].last \in Nat
    BY <2>1, DocTypes
  <2>3. docs[k].first <= first /\ docs[k].first <= docs[k].last /\ docs[k].last < next
    BY DEF LoopInv, DocsBehind
  <2> QED BY <1>1, <2>2, <2>3
<1>12. DocumentsFit'
  BY DEF LoopInv, DocumentsFit, Fits, Follows, Extent
<1>13. Covered'
  BY <1>1 DEF LoopInv, Covered, Blank, InDocs
<1> QED BY <1>6, <1>7, <1>8, <1>9, <1>10, <1>11, <1>12, <1>13 DEF LoopInv

\* The split is pushed when the overlap and the room are right.
LEMMA PushAfterInv == LoopInv /\ PushAfter => LoopInv'
<1> SUFFICES ASSUME LoopInv, PushAfter PROVE LoopInv'
  OBVIOUS
<1> USE DEF PushAfter, inputVars
<1>1. /\ first <= next /\ next \in DOMAIN splits /\ at = "pop" /\ at' = "next"
      /\ chunkOverlap \in Nat /\ chunkSize \in Nat
  BY DEF LoopInv, TotalIsExtent, LoopOK, Inputs
<1>2. /\ totalIfMerge = Extent(first, next) /\ Extent(first, next) \in Nat
      /\ first \in DOMAIN splits /\ first \in Nat /\ next \in Nat
  BY <1>1, Taken DEF LoopInv, LoopOK
<1>3. total <= chunkOverlap /\ (totalIfMerge <= chunkSize \/ total = 0) /\ total \in Int
  BY <1>1, <1>2 DEF Pops, LoopInv, TotalIsExtent, LoopTypes
<1>4. Inputs'
  BY DEF LoopInv, Inputs
<1>5. LoopTypes'
  BY <1>1, <1>2 DEF LoopInv, LoopTypes, Inputs
<1>6. TotalIsExtent'
  <2>1. next' - 1 = next /\ first < next'
    BY <1>1, <1>2
  <2>2. total' = Extent(first, next' - 1)
    BY <1>2, <2>1
  <2>3. total' = Extent(first, next - 1)'
    BY <2>2 DEF Extent
  <2> QED BY <1>2, <2>1, <2>2, <2>3 DEF TotalIsExtent
<1>7. LoopOK'
  BY <1>1 DEF LoopOK
<1>8. CurrentFits'
  <2>1. CASE totalIfMerge <= chunkSize
    BY <2>1 DEF CurrentFits
  <2>2. CASE total = 0 /\ first = next
    BY <1>2, <2>2 DEF CurrentFits
  <2>3. CASE total = 0 /\ first < next
    <3>1. Extent(first, next - 1) = 0
      BY <1>1, <2>3, Current
    <3>2. next' - 2 = next - 1
      BY <1>2
    <3> QED BY <3>1, <3>2 DEF CurrentFits, Extent
  <2> QED BY <1>1, <1>2, <1>3, <2>1, <2>2, <2>3
<1>9. DocsBehind'
  <2> SUFFICES ASSUME NEW k \in DOMAIN docs
               PROVE  /\ docs[k].first <= first /\ docs[k].first <= docs[k].last
                      /\ docs[k].last < next'
                      /\ docs[k].last < next' - 1
                      /\ first <= docs[k].last =>
                            Extent(first, docs[k].last) <= chunkOverlap
    BY DEF DocsBehind, Extent
  <2>1. LoopTypes
    BY DEF LoopInv
  <2>2. docs[k].first \in Nat /\ docs[k].last \in Nat
    BY <2>1, DocTypes
  <2>3. /\ docs[k].first <= first /\ docs[k].first <= docs[k].last /\ docs[k].last < next
    BY DEF LoopInv, DocsBehind
  <2>4. ASSUME first <= docs[k].last
        PROVE  Extent(first, docs[k].last) <= chunkOverlap
    <3>1. first < next /\ docs[k].last <= next - 1
      BY <1>2, <2>2, <2>3, <2>4
    <3>2. total = Extent(first, next - 1) /\ next - 1 \in DOMAIN splits
      BY <1>1, <3>1, Current
    <3>3. docs[k].last \in DOMAIN splits
      BY <1>1, <1>2, <2>2, <2>4, <3>1 DEF LoopInv, Inputs, LoopTypes
    <3>4. Extent(first, docs[k].last) <= Extent(first, next - 1)
      BY <1>2, <2>4, <3>1, <3>2, <3>3, ExtentWithin DEF LoopInv
    <3>5. Extent(first, docs[k].last) \in Nat
      BY <1>2, <2>4, <3>3, Extents DEF LoopInv
    <3> QED BY <1>1, <1>3, <3>2, <3>4, <3>5
  <2> QED BY <1>2, <2>2, <2>3, <2>4
<1>10. DocumentsFit'
  BY DEF LoopInv, DocumentsFit, Fits, Follows, Extent
<1>11. Covered'
  <2> SUFFICES ASSUME NEW i \in 1 .. next
               PROVE  Blank(i, i) \/ InDocs(i) \/ first <= i
    BY <1>1, <1>2 DEF Covered, Blank, InDocs
  <2>1. CASE i = next
    BY <1>1, <2>1
  <2>2. CASE i \in 1 .. next - 1
    BY <1>1, <2>2 DEF LoopInv, Covered
  <2> QED BY <1>2, <2>1, <2>2
<1> QED BY <1>4, <1>5, <1>6, <1>7, <1>8, <1>9, <1>10, <1>11 DEF LoopInv

\* What is in `current' behind the loop is the last document.
LEMMA CompleteLastInv == LoopInv /\ CompleteLast => LoopInv'
<1> SUFFICES ASSUME LoopInv, CompleteLast PROVE LoopInv'
  OBVIOUS
<1> USE DEF CompleteLast, inputVars
<1>1. /\ at = "next" /\ at' = "done"
      /\ Complete /\ UNCHANGED <<inputVars, next, first, total>>
  OBVIOUS
<1>2. /\ Inputs' /\ docs' \in Seq(Documents)
      /\ \A k \in DOMAIN docs' :
            /\ docs'[k].first <= first /\ docs'[k].first <= docs'[k].last
            /\ docs'[k].last < next
      /\ DocumentsFit'
      /\ \A i \in 1 .. next - 1 : Blank(i, i)' \/ InDocs(i)'
  BY <1>1, Completed
<1>3. LoopTypes'
  BY <1>1, <1>2 DEF LoopInv, LoopTypes
<1>4. LoopOK'
  BY <1>1 DEF LoopOK, LoopInv, LoopTypes, Inputs
<1>5. TotalIsExtent' /\ CurrentFits' /\ DocsBehind' /\ Covered'
  BY <1>1, <1>2 DEF TotalIsExtent, CurrentFits, DocsBehind, Covered
<1> QED BY <1>2, <1>3, <1>4, <1>5 DEF LoopInv

\* When the loop is through, nothing is left in `current' that is not in a document.
LEMMA LoopKeepsSplits == LoopInv => SplitsAreKept
<1> SUFFICES ASSUME LoopInv, at = "done", NEW i \in DOMAIN splits
             PROVE  Blank(i, i) \/ \E k \in DOMAIN docs : i \in docs[k].first .. docs[k].last
  BY DEF SplitsAreKept
<1> QED BY DEF LoopInv, LoopOK, Covered, InDocs, Inputs

-----------------------------------------------------------------------------
\* The loop of _merge_splits never loses count, whatever the splits and the sizes.
LEMMA LoopKeeps == LoopInv /\ [MergeNext]_mergeVars => LoopInv'
<1> SUFFICES ASSUME LoopInv, [MergeNext]_mergeVars PROVE LoopInv'
  OBVIOUS
<1>1. CASE Push
  BY <1>1, PushInv
<1>2. CASE CompleteDocument
  BY <1>2, CompleteDocumentInv
<1>3. CASE Pop
  BY <1>3, PopInv
<1>4. CASE PushAfter
  BY <1>4, PushAfterInv
<1>5. CASE CompleteLast
  BY <1>5, CompleteLastInv
<1>6. CASE UNCHANGED mergeVars
  <2>1. UNCHANGED <<blanks, chunkSize, chunkOverlap, splits, separatorLen,
                    next, first, total, totalIfMerge, docs, at>>
    BY <1>6 DEF mergeVars, inputVars, loopVars
  <2>2. Inputs' /\ LoopTypes' /\ TotalIsExtent'
    BY <2>1 DEF LoopInv, Inputs, LoopTypes, TotalIsExtent, Extent
  <2>3. LoopOK' /\ CurrentFits' /\ DocsBehind'
    BY <2>1 DEF LoopInv, LoopOK, CurrentFits, DocsBehind, Extent, Size, Gap
  <2>4. DocumentsFit' /\ Covered'
    BY <2>1 DEF LoopInv, DocumentsFit, Fits, Follows, Covered, Blank, InDocs, Extent
  <2> QED BY <2>2, <2>3, <2>4 DEF LoopInv
<1> QED BY <1>1, <1>2, <1>3, <1>4, <1>5, <1>6 DEF MergeNext

\* split_text.cpp:49-83: what holds in every state of the loop of _merge_splits.
THEOREM LoopInvariant == MergeSpec => []LoopInv
BY LoopStarts, LoopKeeps, PTL DEF MergeSpec

\* split_text.cpp:67-79: for any splits, total is the length of what is in `current';
\* the unsigned subtractions of the inner loop never wrap, and current.at(0) is never
\* asked of an empty one.
THEOREM TotalNeverWraps == MergeSpec => []TotalIsExtent
<1>1. LoopInv => TotalIsExtent
  BY DEF LoopInv
<1> QED BY <1>1, LoopInvariant, PTL

\* split_text.cpp:70-83: documents keep chunk_size and chunk_overlap, for any splits,
\* sizes and separator length.
THEOREM SizesAreKept == MergeSpec => []DocumentsFit
<1>1. LoopInv => DocumentsFit
  BY DEF LoopInv
<1> QED BY <1>1, LoopInvariant, PTL

\* split_text.cpp:60-83: no split that is not white space is lost.
THEOREM NoSplitIsLost == MergeSpec => []SplitsAreKept
BY LoopInvariant, LoopKeepsSplits, PTL

-----------------------------------------------------------------------------
(* The operators.                                                          *)

\* The separators of a list, and that the last one is empty.
Seps == Range(scenario.separators)
EndsEmpty(seps) == seps # <<>> /\ seps[Len(seps)] = <<>>
Working == pc \in {"split", "scan", "merge"}
Length(I) == I.to - I.from

\* Parts of text t in its order, and sep between two neighbours.
Chain(t, s, sep) ==
    /\ s \in Seq(Interval)
    /\ \A i \in DOMAIN s : 1 <= s[i].from /\ s[i].from <= s[i].to /\ s[i].to <= Len(t) + 1
    /\ \A i, j \in DOMAIN s : i < j => s[i].to + Len(sep) <= s[j].from
    /\ \A i \in DOMAIN s : i + 1 \in DOMAIN s =>
          /\ s[i + 1].from = s[i].to + Len(sep)
          /\ \A j \in DOMAIN sep : t[s[i].to + j - 1] = sep[j]
Units(s) == \A i \in DOMAIN s : s[i].to = s[i].from + 1
Cut(t, s, sep) == Chain(t, s, sep) /\ (sep = <<>> => Units(s))

\* What waits to become chunks: what is being split or merged, and in each call the
\* splits it has not come to.
Rest(f) == {f.pieces[n] : n \in f.good .. Len(f.pieces)}
Framed(stk) == UNION {Rest(stk[k]) : k \in DOMAIN stk}
Active ==
    CASE pc = "split" -> Range(Append(parts, left))
      [] pc = "merge" -> Range(splits)
      [] OTHER -> {}
Pending == Active \cup Framed(stack)
Before(S, T) == \A I \in S, J \in T : I.to <= J.from

\* A call of _split_text_recursive, which has gone through its splits up to f.i and
\* merged those up to f.good.
Frames(seps) == [seps : Seq(Range(seps)), separator : Range(seps), pieces : Seq(Interval),
                 good : Nat, i : Nat]
FrameOK(f, t, size, seps) ==
    /\ Cut(t, f.pieces, f.separator)
    /\ 1 <= f.good /\ f.good <= f.i /\ f.i <= Len(f.pieces) + 1
    /\ \A n \in f.good .. f.i - 1 : Length(f.pieces[n]) < size
    /\ EndsEmpty(seps) => IF f.seps = <<>> THEN f.separator = <<>> ELSE EndsEmpty(f.seps)

StackOK(stk, t, size, seps) ==
    /\ stk \in Seq(Frames(seps))
    /\ \A k \in DOMAIN stk : FrameOK(stk[k], t, size, seps)
    /\ \A k, l \in DOMAIN stk : k < l => Before(Rest(stk[k]), Rest(stk[l]))

StackInv == StackOK(stack, text, chunkSize, scenario.separators) /\ Before(Active, Framed(stack))

InputInv ==
    /\ text \in Texts /\ scenario \in Scenarios
    /\ blanks = {p \in DOMAIN text : text[p] \in White}
    /\ pc \in {"input", "refused", "check", "died", "split", "scan", "merge", "done"}
    /\ chunkSize \in Int /\ chunkOverlap \in Int
    /\ pc # "input" => chunkSize \in Nat /\ chunkOverlap \in Nat
    /\ pc = "check" \/ Working => chunkSize >= 1
    /\ Working \/ pc = "done" => chunkOverlap <= chunkSize /\ scenario.separators # <<>>
    /\ scenario.op = "plain" => stack = <<>> /\ pc # "scan"
    /\ scenario.op = "recursive" /\ Working => stack # <<>>
    /\ ~Working => stack = <<>>
    /\ pc \in {"input", "refused", "check", "died"} => chunks = <<>>

PartsInv ==
    pc = "split" =>
        /\ Chain(text, Append(parts, left), Separator)
        /\ parts \in Seq(Interval) /\ left \in Interval
        /\ Separator = <<>> => Units(parts)
        /\ scenario.op = "recursive" => Top.pieces = <<>>

\* The documents of the loop are not white space only.
Visible == \A k \in DOMAIN docs : ~Blank(docs[k].first, docs[k].last)
MergeInv ==
    IF pc = "merge"
    THEN /\ LoopInv /\ Cut(text, splits, Separator) /\ separatorLen = Len(Separator)
         /\ scenario.op = "recursive" => \A n \in DOMAIN splits : Length(splits[n]) < chunkSize
         /\ Visible
    ELSE at = "off"

InOrder(cs) ==
    \A k \in DOMAIN cs : k + 1 \in DOMAIN cs =>
        cs[k].from <= cs[k + 1].from /\ cs[k].to <= cs[k + 1].to
ChunksInv ==
    /\ chunks \in Seq(Interval) /\ \A k \in DOMAIN chunks : chunks[k].from <= chunks[k].to
    /\ Before(Range(chunks), Pending)
    /\ InOrder(chunks)

\* No character is lost on its way to the chunks.
Within(p, S) == \E I \in S : p \in I.from .. I.to - 1
Cast(c) == c \in White \/ \E sep \in Seps : c \in Range(sep)
KeptInv ==
    Working \/ pc = "done" =>
        \A p \in DOMAIN text : Cast(text[p]) \/ Within(p, Range(chunks)) \/ Within(p, Pending)

Fitting ==
    /\ scenario.op = "recursive" /\ EndsEmpty(scenario.separators)
    /\ \A sep \in Seps : Range(sep) \subseteq White
FitInv == Fitting => \A k \in DOMAIN chunks : Length(chunks[k]) <= chunkSize

SplitInv ==
    InputInv /\ StackInv /\ PartsInv /\ MergeInv /\ ChunksInv /\ KeptInv /\ FitInv

-----------------------------------------------------------------------------
(* Numbers.                                                                *)

\* There is a least number in every set of them, and a greatest one if they are bounded.
LEMMA LeastOf == ASSUME NEW S \in SUBSET Nat, S # {} PROVE \E x \in S : \A y \in S : x <= y
<1> DEFINE R == OpToRel(<, Nat)
<1>1. IsWellFoundedOn(R, Nat)
  BY NatLessThanWellFounded
<1>2. \A x, y \in Nat : x < y => <<x, y>> \in R
  BY DEF OpToRel
<1>. HIDE DEF R
<1>3. PICK x \in S : \A y \in S : ~(<<y, x>> \in R)
  BY <1>1, WFMin
<1>4. ASSUME NEW y \in S PROVE x <= y
  <2>1. x \in Nat /\ y \in Nat
    OBVIOUS
  <2>2. ~(y < x)
    BY <1>2, <1>3, <2>1, Zenon
  <2>3. QED
    BY <2>1, <2>2
<1>5. QED
  BY <1>4

\* What Min and Max are, then.
LEMMA MinIs == ASSUME NEW S \in SUBSET Nat, S # {} PROVE Min(S) \in S /\ \A x \in S : Min(S) <= x
BY LeastOf DEF Min

\* With a bound, subtraction from it turns the greatest into the least.
LEMMA MaxIs ==
    ASSUME NEW S \in SUBSET Nat, S # {}, NEW n \in Nat, \A x \in S : x <= n
    PROVE  Max(S) \in S /\ \A x \in S : x <= Max(S)
<1> DEFINE T == {y \in Nat : n - y \in S}
<1>1. T # {}
  <2>1. PICK x \in S : TRUE
    OBVIOUS
  <2>2. n - x \in Nat /\ n - (n - x) = x
    BY <2>1
  <2>3. QED
    BY <2>1, <2>2
<1>2. PICK y \in T : \A z \in T : y <= z
  BY <1>1, LeastOf
<1>3. n - y \in S /\ y \in Nat
  BY <1>2
<1>4. ASSUME NEW x \in S PROVE n - y >= x
  <2>1. x \in Nat /\ x <= n
    BY <1>4
  <2>2. n - x \in Nat /\ n - (n - x) = x
    BY <2>1
  <2>3. n - x \in T
    BY <1>4, <2>2
  <2>4. y <= n - x
    BY <1>2, <2>3
  <2>5. QED
    BY <1>3, <2>1, <2>4
<1>5. QED
  BY <1>3, <1>4 DEF Max

-----------------------------------------------------------------------------
(* Parts of a text.                                                        *)

\* What is appended comes after what there was.
LEMMA AppendAt ==
    ASSUME NEW S, NEW s \in Seq(S), NEW x \in S
    PROVE  /\ Append(s, x) \in Seq(S) /\ Len(Append(s, x)) = Len(s) + 1
           /\ DOMAIN s = 1 .. Len(s) /\ DOMAIN Append(s, x) = 1 .. Len(s) + 1
           /\ Append(s, x)[Len(s) + 1] = x
           /\ \A i \in 1 .. Len(s) : Append(s, x)[i] = s[i]
           /\ Range(Append(s, x)) = Range(s) \cup {x}
<1>1. /\ Append(s, x) \in Seq(S) /\ Len(Append(s, x)) = Len(s) + 1
      /\ DOMAIN s = 1 .. Len(s) /\ DOMAIN Append(s, x) = 1 .. Len(s) + 1
      /\ Append(s, x)[Len(s) + 1] = x
      /\ \A i \in 1 .. Len(s) : Append(s, x)[i] = s[i]
  OBVIOUS
<1>2. \A i \in 1 .. Len(s) + 1 : i \in 1 .. Len(s) \/ i = Len(s) + 1
  OBVIOUS
<1>3. \A i \in 1 .. Len(s) : i \in 1 .. Len(s) + 1
  OBVIOUS
<1>4. Len(s) + 1 \in 1 .. Len(s) + 1
  OBVIOUS
<1> DEFINE u == Append(s, x)
<1>. HIDE DEF u
<1>5. Range(u) = Range(s) \cup {x}
  BY <1>1, <1>2, <1>3, <1>4 DEF Range, u
<1>6. QED
  BY <1>1, <1>5 DEF u

\* A part has two ends.
LEMMA PartType ==
    /\ \A a, b \in Nat : Part(a, b) \in Interval /\ Part(a, b).from = a /\ Part(a, b).to = b
    /\ \A I \in Interval : I.from \in Nat /\ I.to \in Nat
BY DEF Part, Interval

\* The parts of a chain have ends that are numbers.
LEMMA ChainType ==
    ASSUME NEW t, NEW s, NEW sep, Chain(t, s, sep)
    PROVE  /\ s \in Seq(Interval) /\ DOMAIN s = 1 .. Len(s) /\ Len(s) \in Nat
           /\ \A i \in DOMAIN s : s[i] \in Interval /\ s[i].from \in Nat /\ s[i].to \in Nat
<1>1. s \in Seq(Interval)
  BY DEF Chain
<1>2. DOMAIN s = 1 .. Len(s) /\ Len(s) \in Nat /\ \A i \in DOMAIN s : s[i] \in Interval
  BY <1>1
<1>3. QED
  BY <1>1, <1>2, PartType

\* Every part comes before the next ones.
LEMMA ChainOrder ==
    ASSUME NEW t, NEW s, NEW sep, sep \in Seq(Range(sep)), Chain(t, s, sep),
           NEW i \in DOMAIN s, NEW j \in DOMAIN s, i < j
    PROVE  s[i].to <= s[j].from
<1>1. s[i].to + Len(sep) <= s[j].from
  BY DEF Chain
<1>2. s[i].to \in Nat /\ s[j].from \in Nat /\ Len(sep) \in Nat
  BY ChainType
<1>3. QED
  BY <1>1, <1>2

\* A stretch of the parts is one as well.
Stretch(s, a, b) == SubSeq(s, a, b)

\* It is cut as they are, and has those of them that it spans.
LEMMA ChainSub ==
    ASSUME NEW t, NEW s, NEW sep, Cut(t, s, sep), NEW a \in Nat, NEW b \in Nat,
           1 <= a, a <= b + 1, b <= Len(s)
    PROVE  /\ Cut(t, Stretch(s, a, b), sep)
           /\ Range(Stretch(s, a, b)) = {s[n] : n \in a .. b}
           /\ \A n \in DOMAIN Stretch(s, a, b) :
                 a + n - 1 \in a .. b /\ Stretch(s, a, b)[n] = s[a + n - 1]
<1> DEFINE u == Stretch(s, a, b)
           m == (b - a) + 1
<1>0. s \in Seq(Interval) /\ Len(s) \in Nat /\ DOMAIN s = 1 .. Len(s)
  BY ChainType DEF Cut
<1>1. /\ u \in Seq(Interval) /\ Len(u) = m /\ DOMAIN u = 1 .. m /\ m \in Nat
      /\ \A n \in 1 .. m : u[n] = s[a + n - 1]
  BY <1>0 DEF Stretch
<1>2. \A n \in 1 .. m : a + n - 1 \in a .. b /\ a + n - 1 \in DOMAIN s
  BY <1>0
<1>3. \A n \in a .. b : n - a + 1 \in 1 .. m /\ a + (n - a + 1) - 1 = n
  BY <1>0
<1>. HIDE DEF u, m
<1>4. Range(u) = {s[n] : n \in a .. b}
  <2>1. \A n \in 1 .. m : u[n] \in {s[l] : l \in a .. b}
    BY <1>1, <1>2
  <2>2. \A n \in a .. b : s[n] = u[n - a + 1]
    BY <1>1, <1>3
  <2>3. Range(u) = {u[n] : n \in 1 .. m}
    BY <1>1 DEF Range
  <2>4. Range(u) \subseteq {s[n] : n \in a .. b}
    BY <2>1, <2>3
  <2>5. {s[n] : n \in a .. b} \subseteq Range(u)
    BY <1>3, <2>2, <2>3
  <2>6. QED
    BY <2>4, <2>5
<1>5. Chain(t, u, sep)
  <2>1. \A i \in DOMAIN u : 1 <= u[i].from /\ u[i].from <= u[i].to /\ u[i].to <= Len(t) + 1
    BY <1>1, <1>2 DEF Cut, Chain
  <2>2. \A i, j \in DOMAIN u : i < j => u[i].to + Len(sep) <= u[j].from
    <3>1. SUFFICES ASSUME NEW i \in 1 .. m, NEW j \in 1 .. m, i < j
                   PROVE  u[i].to + Len(sep) <= u[j].from
      BY <1>1
    <3>2. a + i - 1 < a + j - 1
      BY <3>1
    <3>3. QED
      BY <1>1, <1>2, <3>1, <3>2 DEF Cut, Chain
  <2>3. ASSUME NEW i \in DOMAIN u, i + 1 \in DOMAIN u
        PROVE  /\ u[i + 1].from = u[i].to + Len(sep)
               /\ \A j \in DOMAIN sep : t[u[i].to + j - 1] = sep[j]
    <3>1. a + (i + 1) - 1 = (a + i - 1) + 1
      BY <1>1, <2>3
    <3>2. a + i - 1 \in DOMAIN s /\ (a + i - 1) + 1 \in DOMAIN s
      BY <1>1, <1>2, <2>3, <3>1
    <3>3. u[i] = s[a + i - 1] /\ u[i + 1] = s[(a + i - 1) + 1]
      BY <1>1, <2>3, <3>1
    <3>4. QED
      BY <3>2, <3>3 DEF Cut, Chain
  <2>4. QED
    BY <1>1, <2>1, <2>2, <2>3 DEF Chain
<1>6. sep = <<>> => Units(u)
  BY <1>1, <1>2 DEF Cut, Units
<1>7. QED
  BY <1>1, <1>2, <1>4, <1>5, <1>6 DEF Cut, u

\* So is one without its last part.
LEMMA ChainFront ==
    ASSUME NEW t, NEW s \in Seq(Interval), NEW I \in Interval, NEW sep, Chain(t, Append(s, I), sep)
    PROVE  Chain(t, s, sep)
<1>1. /\ DOMAIN s = 1 .. Len(s) /\ DOMAIN Append(s, I) = 1 .. Len(s) + 1 /\ Len(s) \in Nat
      /\ \A i \in 1 .. Len(s) : Append(s, I)[i] = s[i]
  BY AppendAt
<1>2. \A i \in 1 .. Len(s) : i \in 1 .. Len(s) + 1
  BY <1>1
<1> DEFINE u == Append(s, I)
<1>. HIDE DEF u
<1>3. Chain(t, u, sep) /\ DOMAIN u = 1 .. Len(s) + 1 /\ \A i \in 1 .. Len(s) : u[i] = s[i]
  BY <1>1 DEF u
<1>4. QED
  BY <1>1, <1>2, <1>3 DEF Chain

\* The last part can be split in two at a separator.
LEMMA ChainSplit ==
    ASSUME NEW t, t \in Seq(Range(t)), NEW s \in Seq(Interval), NEW I \in Interval, NEW sep, sep \in Seq(Range(sep)),
           Chain(t, Append(s, I), sep),
           NEW p \in Nat, I.from <= p, p + Len(sep) <= I.to,
           \A j \in DOMAIN sep : t[p + j - 1] = sep[j]
    PROVE  Chain(t, Append(Append(s, Part(I.from, p)), Part(p + Len(sep), I.to)), sep)
<1> DEFINE n == Len(s)
           l == Len(sep)
           J == Part(I.from, p)
           K == Part(p + l, I.to)
           v == Append(s, I)
           w == Append(s, J)
           u == Append(w, K)
<1>1. I.from \in Nat /\ I.to \in Nat /\ l \in Nat /\ n \in Nat /\ p + l \in Nat
  BY PartType
<1>2. /\ J \in Interval /\ J.from = I.from /\ J.to = p
      /\ K \in Interval /\ K.from = p + l /\ K.to = I.to
  BY <1>1, PartType
<1>3. /\ DOMAIN v = 1 .. n + 1 /\ v[n + 1] = I /\ \A i \in 1 .. n : v[i] = s[i]
  BY AppendAt
<1>4. /\ w \in Seq(Interval) /\ Len(w) = n + 1 /\ w[n + 1] = J /\ \A i \in 1 .. n : w[i] = s[i]
  BY <1>2, AppendAt
<1>5. /\ u \in Seq(Interval) /\ DOMAIN u = 1 .. (n + 1) + 1 /\ u[(n + 1) + 1] = K
      /\ \A i \in 1 .. n + 1 : u[i] = w[i]
  BY <1>2, <1>4, AppendAt
<1>. HIDE DEF n, l, J, K, u, v, w
<1>6. /\ DOMAIN u = 1 .. n + 2 /\ u[n + 2] = K /\ u[n + 1] = J
      /\ \A i \in 1 .. n : u[i] = s[i] /\ v[i] = s[i]
  <2>1. (n + 1) + 1 = n + 2 /\ n + 1 \in 1 .. n + 1 /\ \A i \in 1 .. n : i \in 1 .. n + 1
    BY <1>1
  <2>2. QED
    BY <1>3, <1>4, <1>5, <2>1
<1>7. Chain(t, v, sep) /\ Len(sep) = l
  BY DEF v, l
<1>8. \A i \in 1 .. n + 1 : v[i].from \in Nat /\ v[i].to \in Nat
  BY <1>3, <1>7, ChainType
<1>9. \A i \in 1 .. n + 2 : i \in 1 .. n \/ i = n + 1 \/ i = n + 2
  BY <1>1
<1>10. n + 1 \in 1 .. n + 1 /\ \A i \in 1 .. n : i \in 1 .. n + 1 /\ i < n + 1 /\ i # n + 1
  BY <1>1
<1>11. \A i \in 1 .. n : /\ 1 <= s[i].from /\ s[i].from <= s[i].to /\ s[i].to <= Len(t) + 1
                         /\ s[i].to + l <= I.from /\ s[i].from \in Nat /\ s[i].to \in Nat
  BY <1>3, <1>6, <1>7, <1>8, <1>10 DEF Chain
<1>12. 1 <= I.from /\ I.to <= Len(t) + 1
  BY <1>3, <1>7, <1>10 DEF Chain
<1>13. I.from <= p /\ p + l <= I.to /\ p <= I.to /\ p \in Nat /\ p \in Int
  BY <1>1 DEF l
<1>14. p <= Len(t) + 1
  <2>1. v[n + 1].to <= Len(t) + 1 /\ p <= v[n + 1].to
    BY <1>3, <1>12, <1>13
  <2>2. Len(t) + 1 \in Nat /\ \A x, y, z \in Nat : x <= y /\ y <= z => x <= z
    OBVIOUS
  <2>3. QED
    BY <1>1, <1>3, <1>13, <2>1, <2>2
<1>15. ASSUME NEW i \in 1 .. n + 2
       PROVE  1 <= u[i].from /\ u[i].from <= u[i].to /\ u[i].to <= Len(t) + 1
  <2>1. CASE i \in 1 .. n
    BY <1>6, <1>11, <2>1
  <2>2. CASE i = n + 1
    BY <1>2, <1>6, <1>12, <1>13, <1>14, <2>2
  <2>3. CASE i = n + 2
    BY <1>1, <1>2, <1>6, <1>12, <1>13, <2>3
  <2>4. QED
    BY <1>9, <2>1, <2>2, <2>3
<1>16. ASSUME NEW i \in 1 .. n + 2, NEW j \in 1 .. n + 2, i < j
       PROVE  u[i].to + l <= u[j].from
  <2>1. i \in 1 .. n \/ (i = n + 1 /\ j = n + 2)
    BY <1>1, <1>16
  <2>2. CASE i = n + 1 /\ j = n + 2
    BY <1>1, <1>2, <1>6, <2>2
  <2>3. CASE i \in 1 .. n /\ j \in 1 .. n
    <3>1. i \in DOMAIN v /\ j \in DOMAIN v
      BY <1>3, <1>10, <2>3
    <3>2. v[i].to + l <= v[j].from
      BY <1>7, <1>16, <3>1 DEF Chain
    <3>3. QED
      BY <1>6, <2>3, <3>2
  <2>4. CASE i \in 1 .. n /\ j = n + 1
    BY <1>2, <1>6, <1>11, <2>4
  <2>5. CASE i \in 1 .. n /\ j = n + 2
    <3>1. \A x, y, z \in Nat : x + l <= y /\ y <= z => x + l <= z + l
      BY <1>1
    <3>2. s[i].to + l <= p + l
      BY <1>1, <1>11, <1>13, <2>5, <3>1
    <3>3. QED
      BY <1>2, <1>6, <2>5, <3>2
  <2>6. QED
    BY <1>9, <2>1, <2>2, <2>3, <2>4, <2>5
<1>17. ASSUME NEW i \in 1 .. n + 2, i + 1 \in 1 .. n + 2
       PROVE  /\ u[i + 1].from = u[i].to + l
              /\ \A j \in DOMAIN sep : t[u[i].to + j - 1] = sep[j]
  <2>1. i \in 1 .. n + 1
    BY <1>1, <1>17
  <2>2. CASE i = n + 1
    BY <1>1, <1>2, <1>6, <2>2
  <2>3. CASE i \in 1 .. n
    <3>1. v[i + 1].from = u[i + 1].from
      <4>1. i + 1 \in 1 .. n \/ i + 1 = n + 1
        BY <1>1, <2>3
      <4>2. QED
        BY <1>2, <1>3, <1>6, <4>1
    <3>2. i \in DOMAIN v /\ i + 1 \in DOMAIN v
      BY <1>1, <1>3, <2>3
    <3>3. /\ v[i + 1].from = v[i].to + l
          /\ \A j \in DOMAIN sep : t[v[i].to + j - 1] = sep[j]
      BY <1>7, <3>2 DEF Chain
    <3>4. QED
      BY <1>6, <2>3, <3>1, <3>3
  <2>4. QED
    BY <1>1, <2>1, <2>2, <2>3
<1>18. Chain(t, u, sep)
  BY <1>5, <1>6, <1>7, <1>15, <1>16, <1>17 DEF Chain
<1>19. QED
  BY <1>18 DEF u, w, J, K, l

-----------------------------------------------------------------------------
(* The calls.                                                              *)

\* What a call has not come to is parts.
LEMMA RestType ==
    ASSUME NEW f, NEW t, NEW size, NEW seps, f \in Frames(seps), FrameOK(f, t, size, seps)
    PROVE  /\ Rest(f) \subseteq Interval
           /\ f.seps \in Seq(Range(seps)) /\ f.separator \in Range(seps)
           /\ f.pieces \in Seq(Interval) /\ Len(f.pieces) \in Nat
           /\ DOMAIN f.pieces = 1 .. Len(f.pieces)
           /\ f.good \in Nat /\ f.i \in Nat
           /\ 1 <= f.good /\ f.good <= f.i /\ f.i <= Len(f.pieces) + 1
<1>1. /\ f.seps \in Seq(Range(seps)) /\ f.separator \in Range(seps)
      /\ f.pieces \in Seq(Interval) /\ f.good \in Nat /\ f.i \in Nat
  BY DEF Frames
<1>2. Len(f.pieces) \in Nat /\ DOMAIN f.pieces = 1 .. Len(f.pieces)
  BY <1>1
<1>3. 1 <= f.good /\ f.good <= f.i /\ f.i <= Len(f.pieces) + 1
  BY DEF FrameOK
<1>4. \A n \in f.good .. Len(f.pieces) : f.pieces[n] \in Interval
  <2>1. \A n \in f.good .. Len(f.pieces) : n \in 1 .. Len(f.pieces)
    BY <1>1, <1>2, <1>3
  <2>2. QED
    BY <1>1, <1>2, <2>1
<1>5. QED
  BY <1>1, <1>2, <1>3, <1>4 DEF Rest

\* No calls wait for nothing.
LEMMA NoCalls ==
    ASSUME NEW t, NEW size, NEW seps
    PROVE  StackOK(<<>>, t, size, seps) /\ Framed(<<>>) = {}
<1>1. <<>> \in Seq(Frames(seps)) /\ DOMAIN <<>> = {}
  OBVIOUS
<1>2. QED
  BY <1>1 DEF StackOK, Framed

\* The outermost call, which has no splits yet.
LEMMA OneCall ==
    ASSUME NEW t, NEW size, NEW seps, NEW f \in Frames(seps), FrameOK(f, t, size, seps), Rest(f) = {}
    PROVE  StackOK(<<f>>, t, size, seps) /\ Framed(<<f>>) = {}
<1>1. <<f>> \in Seq(Frames(seps)) /\ DOMAIN <<f>> = {1} /\ <<f>>[1] = f
  OBVIOUS
<1> DEFINE u == <<f>>
<1>. HIDE DEF u
<1>2. u \in Seq(Frames(seps)) /\ DOMAIN u = {1} /\ u[1] = f
  BY <1>1 DEF u
<1>3. StackOK(u, t, size, seps) /\ Framed(u) = {}
  BY <1>2 DEF StackOK, Framed
<1>4. QED
  BY <1>3 DEF u

\* What is put on the stack has less far to go than the calls under it.
LEMMA Entering ==
    ASSUME NEW s, NEW t, NEW size, NEW seps, StackOK(s, t, size, seps),
           NEW f \in Frames(seps), FrameOK(f, t, size, seps), Before(Rest(f), Framed(s))
    PROVE  /\ StackOK(<<f>> \o s, t, size, seps)
           /\ Framed(<<f>> \o s) = Rest(f) \cup Framed(s)
           /\ Head(<<f>> \o s) = f /\ Tail(<<f>> \o s) = s /\ <<f>> \o s # <<>>
<1>1. s \in Seq(Frames(seps)) /\ <<f>> \in Seq(Frames(seps)) /\ Len(<<f>>) = 1 /\ <<f>>[1] = f
  BY DEF StackOK
<1> DEFINE u == <<f>> \o s
           m == Len(s)
<1>2. m \in Nat /\ DOMAIN s = 1 .. m
  BY <1>1
<1>3. /\ u \in Seq(Frames(seps)) /\ Len(u) = 1 + m /\ DOMAIN u = 1 .. 1 + m
      /\ \A k \in 1 .. 1 + m : u[k] = IF k <= 1 THEN f ELSE s[k - 1]
  BY <1>1, <1>2, ConcatProperties
<1>4. Head(u) = f /\ Tail(u) = s /\ u # <<>>
  <2>1. u # <<>>
    BY <1>2, <1>3
  <2>2. 1 \in 1 .. 1 + m /\ u[1] = f
    BY <1>2, <1>3
  <2>3. Head(u) = f
    BY <1>3, <2>1, <2>2
  <2>4. /\ Tail(u) \in Seq(Frames(seps)) /\ Len(Tail(u)) = m
        /\ \A k \in 1 .. m : Tail(u)[k] = u[k + 1]
    BY <1>2, <1>3, <2>1
  <2>5. \A k \in 1 .. m : u[k + 1] = s[k]
    <3>1. \A k \in 1 .. m : k + 1 \in 1 .. 1 + m /\ ~(k + 1 <= 1) /\ (k + 1) - 1 = k
      BY <1>2
    <3>2. QED
      BY <1>3, <3>1
  <2>6. Tail(u) = s
    BY <1>1, <2>4, <2>5, SeqEqual
  <2>7. QED
    BY <2>1, <2>3, <2>6
<1>. HIDE DEF u, m
<1>5. /\ 1 \in DOMAIN u /\ u[1] = f
      /\ \A k \in DOMAIN s : k + 1 \in DOMAIN u /\ u[k + 1] = s[k]
      /\ \A k \in DOMAIN u : k = 1 \/ (k - 1 \in DOMAIN s /\ (k - 1) + 1 = k)
  <2>1. \A k \in 1 .. m : k + 1 \in 1 .. 1 + m /\ ~(k + 1 <= 1) /\ (k + 1) - 1 = k
    BY <1>2
  <2>2. 1 \in 1 .. 1 + m /\ 1 <= 1
    BY <1>2
  <2>3. \A k \in 1 .. 1 + m : k = 1 \/ (k - 1 \in 1 .. m /\ (k - 1) + 1 = k)
    BY <1>2
  <2>4. QED
    BY <1>2, <1>3, <2>1, <2>2, <2>3
<1>6. Framed(u) = Rest(f) \cup Framed(s)
  <2>1. \A k \in DOMAIN u : Rest(u[k]) \subseteq Rest(f) \cup Framed(s)
    <3>1. SUFFICES ASSUME NEW k \in DOMAIN u, k # 1 PROVE Rest(u[k]) \subseteq Framed(s)
      BY <1>5
    <3>2. k - 1 \in DOMAIN s /\ u[k] = s[k - 1]
      BY <1>5, <3>1
    <3>3. QED
      BY <3>2 DEF Framed
  <2>2. \A k \in DOMAIN s : Rest(s[k]) \subseteq Framed(u)
    <3>1. TAKE k \in DOMAIN s
    <3>2. k + 1 \in DOMAIN u /\ u[k + 1] = s[k]
      BY <1>5
    <3>3. QED
      BY <3>2 DEF Framed
  <2>3. Rest(f) \subseteq Framed(u)
    BY <1>5 DEF Framed
  <2>4. QED
    BY <2>1, <2>2, <2>3 DEF Framed
<1>7. \A k \in DOMAIN u : FrameOK(u[k], t, size, seps)
  <2>1. \A k \in DOMAIN s : FrameOK(s[k], t, size, seps)
    BY DEF StackOK
  <2>2. QED
    BY <1>5, <2>1
<1>8. ASSUME NEW k \in DOMAIN u, NEW l \in DOMAIN u, k < l
      PROVE  Before(Rest(u[k]), Rest(u[l]))
  <2>1. k \in Nat /\ l \in Nat /\ 1 <= k
    BY <1>2, <1>3
  <2>2. l - 1 \in DOMAIN s /\ u[l] = s[l - 1]
    BY <1>5, <1>8, <2>1
  <2>3. CASE k = 1
    BY <1>5, <2>2, <2>3 DEF Before, Framed
  <2>4. CASE k # 1
    <3>1. k - 1 \in DOMAIN s /\ u[k] = s[k - 1] /\ k - 1 < l - 1
      BY <1>5, <1>8, <2>1, <2>4
    <3>2. QED
      BY <2>2, <3>1 DEF StackOK
  <2>5. QED
    BY <2>3, <2>4
<1>9. QED
  BY <1>3, <1>4, <1>6, <1>7, <1>8 DEF StackOK, u

\* The innermost call, and those it returns to.
LEMMA Innermost ==
    ASSUME NEW s, NEW t, NEW size, NEW seps, StackOK(s, t, size, seps), s # <<>>
    PROVE  /\ Head(s) \in Frames(seps) /\ FrameOK(Head(s), t, size, seps)
           /\ StackOK(Tail(s), t, size, seps)
           /\ Framed(s) = Rest(Head(s)) \cup Framed(Tail(s))
           /\ Before(Rest(Head(s)), Framed(Tail(s)))
<1>1. s \in Seq(Frames(seps))
  BY DEF StackOK
<1> DEFINE u == Tail(s)
           m == Len(s)
<1>2. m \in Nat /\ m >= 1 /\ DOMAIN s = 1 .. m /\ Head(s) = s[1] /\ 1 \in DOMAIN s
  BY <1>1
<1>3. /\ u \in Seq(Frames(seps)) /\ DOMAIN u = 1 .. m - 1
      /\ \A k \in 1 .. m - 1 : u[k] = s[k + 1]
  BY <1>1, <1>2
<1>. HIDE DEF u, m
<1>4. /\ \A k \in DOMAIN u : k + 1 \in DOMAIN s /\ u[k] = s[k + 1] /\ 1 < k + 1
      /\ \A k \in DOMAIN s : k = 1 \/ (k - 1 \in DOMAIN u /\ u[k - 1] = s[k])
  <2>1. \A k \in 1 .. m - 1 : k + 1 \in 1 .. m /\ 1 < k + 1
    BY <1>2
  <2>2. \A k \in 1 .. m : k = 1 \/ (k - 1 \in 1 .. m - 1 /\ (k - 1) + 1 = k)
    BY <1>2
  <2>3. QED
    BY <1>2, <1>3, <2>1, <2>2
<1>5. Head(s) \in Frames(seps) /\ FrameOK(Head(s), t, size, seps)
  BY <1>1, <1>2 DEF StackOK
<1>6. Framed(s) = Rest(Head(s)) \cup Framed(u)
  <2>1. \A k \in DOMAIN s : Rest(s[k]) \subseteq Rest(Head(s)) \cup Framed(u)
    <3>1. SUFFICES ASSUME NEW k \in DOMAIN s, k # 1 PROVE Rest(s[k]) \subseteq Framed(u)
      BY <1>2
    <3>2. k - 1 \in DOMAIN u /\ u[k - 1] = s[k]
      BY <1>4, <3>1
    <3>3. QED
      BY <3>2 DEF Framed
  <2>2. \A k \in DOMAIN u : Rest(u[k]) \subseteq Framed(s)
    <3>1. TAKE k \in DOMAIN u
    <3>2. k + 1 \in DOMAIN s /\ u[k] = s[k + 1]
      BY <1>4
    <3>3. QED
      BY <3>2 DEF Framed
  <2>3. Rest(Head(s)) \subseteq Framed(s)
    BY <1>2 DEF Framed
  <2>4. QED
    BY <2>1, <2>2, <2>3 DEF Framed
<1>7. Before(Rest(Head(s)), Framed(u))
  <2>1. \A k \in DOMAIN u : Before(Rest(Head(s)), Rest(u[k]))
    BY <1>2, <1>4 DEF StackOK
  <2>2. QED
    BY <2>1 DEF Before, Framed
<1>8. StackOK(u, t, size, seps)
  <2>1. \A k \in DOMAIN u : FrameOK(u[k], t, size, seps)
    BY <1>4 DEF StackOK
  <2>2. ASSUME NEW k \in DOMAIN u, NEW l \in DOMAIN u, k < l
        PROVE  Before(Rest(u[k]), Rest(u[l]))
    <3>1. k + 1 < l + 1
      BY <1>2, <1>3, <2>2
    <3>2. QED
      BY <1>4, <3>1 DEF StackOK
  <2>3. QED
    BY <1>3, <2>1, <2>2 DEF StackOK
<1>9. QED
  BY <1>5, <1>6, <1>7, <1>8 DEF u

-----------------------------------------------------------------------------
(* The states.                                                             *)

\* Where the text, the separators and what is under way are.
LEMMA GivenTypes ==
    ASSUME InputInv
    PROVE  /\ text \in Seq(Range(text)) /\ Len(text) \in Nat /\ DOMAIN text = 1 .. Len(text)
           /\ scenario.separators \in Seq(Seps)
           /\ scenario.op \in {"plain", "recursive"}
           /\ scenario.op = "plain" => Len(scenario.separators) = 1
           /\ \A sep \in Seps : sep \in Seq(Range(sep)) /\ Len(sep) \in Nat
           /\ Word \in Nat \ {0}
<1>1. text \in Texts /\ scenario \in Scenarios
  BY DEF InputInv
<1>2. text \in Seq(Range(text)) /\ Word \in Nat /\ 2 * Len(text) < Word
  BY <1>1, SplitAssumption
<1>3. Len(text) \in Nat /\ DOMAIN text = 1 .. Len(text)
  BY <1>2
<1>4. Word \in Nat \ {0}
  BY <1>2, <1>3
<1>5. /\ scenario.separators \in Seq(Seps)
      /\ scenario.op \in {"plain", "recursive"}
      /\ scenario.op = "plain" => Len(scenario.separators) = 1
      /\ \A sep \in Seps : sep \in Seq(Range(sep))
  BY <1>1, SplitAssumption DEF Seps
<1>6. \A sep \in Seps : Len(sep) \in Nat
  BY <1>5
<1>7. QED
  BY <1>2, <1>3, <1>4, <1>5, <1>6

\* The calls of the recursive operator, and what the innermost one has.
LEMMA TopIs ==
    ASSUME InputInv, StackInv, scenario.op = "recursive", Working
    PROVE  /\ stack # <<>> /\ Top \in Frames(scenario.separators)
           /\ FrameOK(Top, text, chunkSize, scenario.separators)
           /\ StackOK(Tail(stack), text, chunkSize, scenario.separators)
           /\ Framed(stack) = Rest(Top) \cup Framed(Tail(stack))
           /\ Before(Rest(Top), Framed(Tail(stack)))
<1>1. stack # <<>>
  BY DEF InputInv
<1>2. StackOK(stack, text, chunkSize, scenario.separators)
  BY DEF StackInv
<1>3. QED
  BY <1>1, <1>2, Innermost DEF Top

\* The separator the text is split at is one of those given.
LEMMA SeparatorType ==
    ASSUME InputInv, StackInv, Working
    PROVE  Separator \in Seps /\ Separator \in Seq(Range(Separator)) /\ Len(Separator) \in Nat
<1>1. Separator \in Seps
  <2>1. CASE scenario.op = "plain"
    <3>1. scenario.separators \in Seq(Seps) /\ Len(scenario.separators) = 1
      BY <2>1, GivenTypes
    <3>2. scenario.separators[1] \in Seps
      BY <3>1
    <3>3. QED
      BY <2>1, <3>2 DEF Separator
  <2>2. CASE scenario.op # "plain"
    <3>1. scenario.op = "recursive"
      BY <2>2, GivenTypes
    <3>2. Top.separator \in Seps
      BY <3>1, TopIs, RestType DEF Seps
    <3>3. QED
      BY <2>2, <3>2 DEF Separator
  <2>3. QED
    BY <2>1, <2>2
<1>2. QED
  BY <1>1, GivenTypes

\* All that waits is parts of the text.
Framework == InputInv /\ StackInv /\ PartsInv /\ MergeInv

\* They are before what the calls still have to do.
LEMMA PendingType ==
    Framework => /\ Active \subseteq Interval /\ Framed(stack) \subseteq Interval
                 /\ Pending \subseteq Interval /\ Before(Active, Framed(stack))
<1>0. SUFFICES ASSUME Framework
               PROVE  /\ Active \subseteq Interval /\ Framed(stack) \subseteq Interval
                      /\ Pending \subseteq Interval /\ Before(Active, Framed(stack))
  OBVIOUS
<1>1. StackOK(stack, text, chunkSize, scenario.separators) /\ Before(Active, Framed(stack))
  BY <1>0 DEF Framework, StackInv
<1>2. Framed(stack) \subseteq Interval
  <2>1. \A k \in DOMAIN stack : Rest(stack[k]) \subseteq Interval
    <3>1. TAKE k \in DOMAIN stack
    <3>2. stack[k] \in Frames(scenario.separators)
      BY <1>1 DEF StackOK
    <3>3. FrameOK(stack[k], text, chunkSize, scenario.separators)
      BY <1>1 DEF StackOK
    <3>4. QED
      BY <3>2, <3>3, RestType
  <2>2. QED
    BY <2>1 DEF Framed
<1>3. Active \subseteq Interval
  <2>1. CASE pc = "split"
    <3>1. parts \in Seq(Interval) /\ left \in Interval
      BY <1>0, <2>1 DEF Framework, PartsInv
    <3>2. Range(Append(parts, left)) = Range(parts) \cup {left} /\ Range(parts) \subseteq Interval
      BY <3>1, AppendAt DEF Range
    <3>3. QED
      BY <2>1, <3>1, <3>2 DEF Active
  <2>2. CASE pc = "merge"
    <3>1. splits \in Seq(Interval)
      BY <1>0, <2>2 DEF Framework, MergeInv, Cut, Chain
    <3>2. Range(splits) \subseteq Interval
      BY <3>1 DEF Range
    <3>3. QED
      BY <2>2, <3>2 DEF Active
  <2>3. QED
    BY <2>1, <2>2 DEF Active
<1>4. QED
  BY <1>1, <1>2, <1>3 DEF Pending

\* The same of the next state.
LEMMA PendingTypeNext ==
    Framework' => (/\ Active \subseteq Interval /\ Framed(stack) \subseteq Interval
                   /\ Pending \subseteq Interval /\ Before(Active, Framed(stack)))'
BY PendingType, PTL

\* Before the text is split, or when it never is, nothing is under way.
LEMMA NothingYet ==
    pc \in {"input", "refused", "check", "died"} /\ stack = <<>> /\ chunks = <<>> /\ at = "off"
    => StackInv /\ PartsInv /\ MergeInv /\ ChunksInv /\ KeptInv /\ FitInv
<1>0. SUFFICES ASSUME pc \in {"input", "refused", "check", "died"}, stack = <<>>, chunks = <<>>, at = "off"
               PROVE  StackInv /\ PartsInv /\ MergeInv /\ ChunksInv /\ KeptInv /\ FitInv
  OBVIOUS
<1>1. /\ StackOK(stack, text, chunkSize, scenario.separators) /\ Framed(stack) = {}
      /\ Active = {} /\ pc # "split" /\ pc # "merge" /\ ~Working /\ pc # "done"
  BY <1>0, NoCalls DEF Active, Working
<1>2. chunks \in Seq(Interval) /\ DOMAIN chunks = {} /\ Range(chunks) = {}
  BY <1>0 DEF Range
<1>3. StackInv
  BY <1>1 DEF StackInv, Before
<1>4. PartsInv /\ MergeInv /\ KeptInv
  BY <1>0, <1>1 DEF PartsInv, MergeInv, KeptInv
<1>5. ChunksInv /\ FitInv
  BY <1>2 DEF ChunksInv, Before, InOrder, FitInv
<1>6. QED
  BY <1>3, <1>4, <1>5

\* The same of the next state.
LEMMA NothingYetNext ==
    (pc \in {"input", "refused", "check", "died"} /\ stack = <<>> /\ chunks = <<>> /\ at = "off")'
    => (StackInv /\ PartsInv /\ MergeInv /\ ChunksInv /\ KeptInv /\ FitInv)'
BY NothingYet, PTL

\* A call has all of its part before it, and separators of the list.
LEMMA CallIs ==
    ASSUME InputInv, NEW part, NEW seps \in Seq(Seps), seps # <<>>,
           EndsEmpty(scenario.separators) => EndsEmpty(seps)
    PROVE  /\ Call(part, seps) \in Frames(scenario.separators)
           /\ FrameOK(Call(part, seps), text, chunkSize, scenario.separators)
           /\ Rest(Call(part, seps)) = {} /\ Call(part, seps).pieces = <<>>
           /\ Call(part, seps).separator \in Seps
<1> DEFINE f == Call(part, seps)
           best == Best(seps, part.from, part.to)
           n == Len(seps)
<1>1. n \in Nat /\ n >= 1 /\ DOMAIN seps = 1 .. n
  OBVIOUS
<1>2. best \in 1 .. n
  <2> DEFINE fit == {i \in DOMAIN seps :
                    seps[i] = <<>> \/ \E p \in part.from .. part.to : Occurs(seps[i], p, part.to)}
  <2>1. best = IF fit = {} THEN n ELSE Min(fit)
    BY DEF Best
  <2>2. fit \in SUBSET Nat /\ fit \subseteq 1 .. n
    BY <1>1
  <2>. HIDE DEF fit
  <2>3. fit # {} => Min(fit) \in fit
    BY <2>2, MinIs
  <2>4. CASE fit = {}
    <3>1. best = n
      BY <2>1, <2>4
    <3>2. QED
      BY <1>1, <3>1
  <2>5. CASE fit # {}
    <3>1. best = Min(fit)
      BY <2>1, <2>5
    <3>2. Min(fit) \in 1 .. n
      BY <2>2, <2>3, <2>5, Zenon
    <3>3. QED
      BY <3>1, <3>2
  <2>6. QED
    BY <2>4, <2>5
<1>. HIDE DEF n, best
<1>3. f = [seps |-> Later(seps, best), separator |-> seps[best], pieces |-> <<>>, good |-> 1, i |-> 1]
  BY DEF Call, best
<1>4. seps[best] \in Seps
  BY <1>1, <1>2
<1>5. Later(seps, best) \in Seq(Seps)
  BY <1>1, <1>2 DEF Later, n
<1>6. f \in Frames(scenario.separators)
  BY <1>3, <1>4, <1>5 DEF Frames, Seps
<1>7. EndsEmpty(seps) => IF Later(seps, best) = <<>> THEN seps[best] = <<>>
                         ELSE EndsEmpty(Later(seps, best))
  <2>1. SUFFICES ASSUME seps[n] = <<>>, seps[best] # <<>>
                 PROVE  Later(seps, best) # <<>> /\ EndsEmpty(Later(seps, best))
    BY <1>1, <1>2 DEF EndsEmpty, Later, n
  <2>2. best < n
    BY <1>1, <1>2, <2>1
  <2>3. Later(seps, best) = SubSeq(seps, best + 1, n)
    BY <2>1 DEF Later, n
  <2>4. /\ Len(SubSeq(seps, best + 1, n)) = n - best
        /\ \A l \in 1 .. n - best : SubSeq(seps, best + 1, n)[l] = seps[best + 1 + l - 1]
    <3>1. /\ best + 1 \in 1 .. n /\ n \in 1 .. n /\ n = Len(seps)
          /\ n - (best + 1) + 1 = n - best
      BY <1>1, <1>2, <2>2 DEF n
    <3>2. /\ Len(SubSeq(seps, best + 1, n)) = n - (best + 1) + 1
          /\ \A l \in 1 .. n - (best + 1) + 1 : SubSeq(seps, best + 1, n)[l] = seps[best + 1 + l - 1]
      BY <1>1, <1>2, <2>2, <3>1
    <3>3. QED
      BY <3>1, <3>2
  <2>5. n - best \in 1 .. n - best /\ best + 1 + (n - best) - 1 = n /\ n - best # 0
    BY <1>1, <1>2, <2>2
  <2>6. SubSeq(seps, best + 1, n)[n - best] = <<>>
    BY <2>1, <2>4, <2>5
  <2>7. SubSeq(seps, best + 1, n) # <<>>
    BY <2>4, <2>5
  <2>8. QED
    BY <2>3, <2>4, <2>6, <2>7 DEF EndsEmpty
<1>8. FrameOK(f, text, chunkSize, scenario.separators)
  <2>1. Cut(text, <<>>, seps[best])
    <3>1. <<>> \in Seq(Interval) /\ DOMAIN <<>> = {}
      OBVIOUS
    <3>2. QED
      BY <3>1 DEF Cut, Chain, Units
  <2>2. Len(<<>>) = 0
    OBVIOUS
  <2>3. /\ 1 <= f.good /\ f.good <= f.i /\ f.i <= Len(f.pieces) + 1
        /\ \A l \in f.good .. f.i - 1 : Length(f.pieces[l]) < chunkSize
    BY <1>3, <2>2
  <2>4. QED
    BY <1>3, <1>7, <2>1, <2>3 DEF FrameOK
<1>9. Rest(f) = {}
  BY <1>3 DEF Rest
<1>10. QED
  BY <1>3, <1>4, <1>6, <1>8, <1>9

\* The chunks are as they were, and what waits starts no earlier: all is well if a
\* character that waited still does, or is white space or a separator's.
LEMMA PendingKeeps ==
    ASSUME Framework, Framework', Working, ChunksInv, KeptInv, FitInv,
           UNCHANGED <<text, scenario, chunkSize, chunks>>,
           \A J \in Pending' : \E I \in Pending : I.from <= J.from,
           \A p \in DOMAIN text : Within(p, Pending) => Cast(text[p]) \/ Within(p, Pending')
    PROVE  ChunksInv' /\ KeptInv' /\ FitInv'
<1>1. Pending \subseteq Interval
  BY PendingType
<1>2. Pending' \subseteq Interval
  BY PendingTypeNext
<1>3. chunks \in Seq(Interval) /\ Range(chunks) \subseteq Interval
  BY DEF ChunksInv, Range
<1>4. Before(Range(chunks), Pending')
  <2>1. SUFFICES ASSUME NEW I \in Range(chunks), NEW J \in Pending' PROVE I.to <= J.from
    BY DEF Before
  <2>2. PICK K \in Pending : K.from <= J.from
    OBVIOUS
  <2>3. I.to <= K.from
    BY DEF ChunksInv, Before
  <2>4. I \in Interval /\ K \in Interval /\ J \in Interval
    BY <1>1, <1>2, <1>3
  <2>5. I.to \in Nat /\ K.from \in Nat /\ J.from \in Nat
    BY <2>4, PartType
  <2>6. QED
    BY <2>2, <2>3, <2>5
<1>5. ChunksInv'
  BY <1>4 DEF ChunksInv
<1>6. KeptInv'
  <2>1. \A p \in DOMAIN text : Cast(text[p]) \/ Within(p, Range(chunks)) \/ Within(p, Pending')
    BY DEF KeptInv
  <2>2. Seps' = Seps
    BY DEF Seps
  <2>3. QED
    BY <2>1, <2>2 DEF KeptInv, Cast
<1>7. FitInv'
  <2>1. Seps' = Seps
    BY DEF Seps
  <2>2. Fitting' = Fitting
    BY <2>1 DEF Fitting
  <2>3. QED
    BY <2>2 DEF FitInv
<1>8. QED
  BY <1>5, <1>6, <1>7

-----------------------------------------------------------------------------
(* The steps.                                                              *)

\* At first nothing waits and there are no chunks.
LEMMA SplitStarts == Init => SplitInv
<1>1. SUFFICES ASSUME Init PROVE SplitInv
  OBVIOUS
<1>2. text \in Texts /\ scenario \in Scenarios /\ chunkSize \in Int /\ chunkOverlap \in Int
  BY <1>1, SplitAssumption DEF Init
<1>3. pc = "input" /\ stack = <<>> /\ chunks = <<>> /\ at = "off"
  BY <1>1 DEF Init
<1>4. InputInv
  BY <1>1, <1>2, <1>3 DEF Init, InputInv, Working
<1>5. QED
  BY <1>3, <1>4, NothingYet DEF SplitInv

\* What is idle stays idle.
LEMMA StillNothing ==
    ASSUME pc' \in {"input", "refused", "check", "died"}, stack' = <<>>, chunks' = <<>>, at' = "off",
           InputInv'
    PROVE  SplitInv'
<1>1. (StackInv /\ PartsInv /\ MergeInv /\ ChunksInv /\ KeptInv /\ FitInv)'
  BY NothingYetNext
<1>2. QED
  BY <1>1 DEF SplitInv

\* The sizes become unsigned.
LEMMA ConvertKeeps == SplitInv /\ Convert => SplitInv'
<1>1. SUFFICES ASSUME SplitInv, Convert PROVE SplitInv'
  OBVIOUS
<1>2. /\ pc = "input" /\ pc' = IF chunkSize' < 1 \/ chunkOverlap' < 1 THEN "refused" ELSE "check"
      /\ chunkSize' = chunkSize % Word /\ chunkOverlap' = chunkOverlap % Word
      /\ UNCHANGED <<blanks, at, text, scenario, stack, chunks>>
  BY <1>1 DEF Convert, Goto, loopVars
<1>3. InputInv /\ MergeInv
  BY <1>1 DEF SplitInv
<1>4. stack = <<>> /\ chunks = <<>> /\ at = "off"
  BY <1>2, <1>3 DEF InputInv, MergeInv, Working
<1>5. chunkSize' \in Nat /\ chunkOverlap' \in Nat
  <2>1. chunkSize \in Int /\ chunkOverlap \in Int /\ Word \in Nat \ {0}
    BY <1>3, GivenTypes DEF InputInv
  <2>2. \A x \in Int : x % Word \in Nat
    BY <2>1
  <2>3. QED
    BY <1>2, <2>1, <2>2
<1>6. pc' \in {"refused", "check"} /\ (pc' = "check" => chunkSize' >= 1)
  BY <1>2, <1>5
<1>7. InputInv'
  BY <1>2, <1>3, <1>4, <1>5, <1>6 DEF InputInv, Working
<1>8. QED
  BY <1>2, <1>4, <1>6, <1>7, StillNothing

\* A stack of one call.
LEMMA CheckKeeps == SplitInv /\ Check => SplitInv'
<1>1. SUFFICES ASSUME SplitInv, Check PROVE SplitInv'
  OBVIOUS
<1>2. /\ pc = "check"
      /\ UNCHANGED <<blanks, chunkSize, chunkOverlap, at, text, scenario, chunks>>
  BY <1>1 DEF Check, mergeVars, inputVars, loopVars
<1>3. InputInv /\ MergeInv
  BY <1>1 DEF SplitInv
<1>4. stack = <<>> /\ chunks = <<>> /\ at = "off" /\ chunkSize \in Nat /\ chunkOverlap \in Nat
  BY <1>2, <1>3 DEF InputInv, MergeInv, Working
<1>5. CASE chunkOverlap > chunkSize \/ scenario.separators = <<>>
  <2>1. pc' = "died" /\ UNCHANGED stack
    BY <1>1, <1>5 DEF Check, Goto
  <2>2. InputInv'
    BY <1>2, <1>3, <1>4, <2>1 DEF InputInv, Working
  <2>3. QED
    BY <1>2, <1>4, <2>1, <2>2, StillNothing
<1>6. CASE ~(chunkOverlap > chunkSize \/ scenario.separators = <<>>)
  <2> DEFINE all == Part(1, Len(text) + 1)
             f == Call(all, scenario.separators)
  <2>1. /\ left' = all /\ parts' = <<>> /\ pc' = "split"
        /\ stack' = IF scenario.op = "plain" THEN <<>> ELSE <<f>>
    BY <1>1, <1>6 DEF Check, BeginSplit, Goto
  <2>2. /\ text \in Seq(Range(text)) /\ Len(text) \in Nat /\ DOMAIN text = 1 .. Len(text)
        /\ scenario.separators \in Seq(Seps)
        /\ scenario.op \in {"plain", "recursive"}
    BY <1>3, GivenTypes
  <2>3. all \in Interval /\ all.from = 1 /\ all.to = Len(text) + 1
    BY <2>2, PartType
  <2>4. /\ f \in Frames(scenario.separators)
        /\ FrameOK(f, text, chunkSize, scenario.separators)
        /\ Rest(f) = {} /\ f.pieces = <<>>
    BY <1>3, <1>6, <2>2, CallIs
  <2>. HIDE DEF all, f
  <2>5. InputInv'
    <3>1. scenario.op = "plain" => stack' = <<>>
      BY <2>1
    <3>2. scenario.op = "recursive" => stack' # <<>>
      BY <2>1
    <3>3. chunkOverlap <= chunkSize /\ scenario.separators # <<>>
      BY <1>4, <1>6
    <3>4. QED
      BY <1>2, <1>3, <1>4, <2>1, <3>1, <3>2, <3>3 DEF InputInv, Working
  <2>6. StackOK(stack', text, chunkSize, scenario.separators) /\ Framed(stack') = {}
    <3>1. CASE scenario.op = "plain"
      BY <2>1, <3>1, NoCalls
    <3>2. CASE scenario.op # "plain"
      <4>1. stack' = <<f>>
        BY <2>1, <3>2
      <4>2. StackOK(<<f>>, text, chunkSize, scenario.separators) /\ Framed(<<f>>) = {}
        BY <2>4, OneCall
      <4>3. QED
        BY <4>1, <4>2
    <3>3. QED
      BY <3>1, <3>2
  <2>7. StackInv'
    BY <1>2, <2>6 DEF StackInv, Before
  <2>8. PartsInv'
    <3>1. /\ Append(<<>>, left') \in Seq(Interval) /\ DOMAIN Append(<<>>, left') = 1 .. 1
          /\ Append(<<>>, left')[1] = all /\ <<>> \in Seq(Interval)
      BY <2>1, <2>3
    <3>2. Chain(text, Append(<<>>, left'), Separator')
      BY <2>2, <2>3, <3>1 DEF Chain
    <3>3. Units(<<>>)
      BY DEF Units
    <3>4. scenario.op = "recursive" => Head(stack').pieces = <<>>
      BY <2>1, <2>4
    <3>5. QED
      BY <1>2, <2>1, <2>3, <3>1, <3>2, <3>3, <3>4 DEF PartsInv, Top
  <2>9. MergeInv'
    BY <1>2, <1>4, <2>1 DEF MergeInv
  <2>10. Pending' = {all}
    <3>1. Range(Append(parts', left')) = {all}
      <4> DEFINE none == <<>>
      <4>1. none \in Seq(Interval) /\ Range(none) = {} /\ parts' = none
        BY <2>1 DEF Range
      <4>. HIDE DEF none
      <4>2. Range(Append(none, all)) = Range(none) \cup {all}
        BY <2>3, <4>1, AppendAt
      <4>3. QED
        BY <2>1, <4>1, <4>2
    <3>2. QED
      BY <2>1, <2>6, <3>1 DEF Pending, Active
  <2>11. chunks' = <<>> /\ <<>> \in Seq(Interval) /\ DOMAIN <<>> = {} /\ Range(<<>>) = {}
    BY <1>2, <1>4 DEF Range
  <2>12. ChunksInv' /\ FitInv'
    BY <2>11 DEF ChunksInv, FitInv, Before, InOrder
  <2>13. KeptInv'
    <3>1. \A p \in DOMAIN text : Within(p, Pending')
      BY <2>2, <2>3, <2>10 DEF Within
    <3>2. QED
      BY <1>2, <3>1 DEF KeptInv
  <2>14. QED
    BY <2>5, <2>7, <2>8, <2>9, <2>12, <2>13 DEF SplitInv
<1>7. QED
  BY <1>5, <1>6

\* What is left is a part of the text, the last one.
LEMMA LeftIs ==
    ASSUME InputInv, PartsInv, pc = "split"
    PROVE  /\ parts \in Seq(Interval) /\ left \in Interval
           /\ left.from \in Nat /\ left.to \in Nat
           /\ 1 <= left.from /\ left.from <= left.to /\ left.to <= Len(text) + 1
           /\ Active = Range(parts) \cup {left} /\ Chain(text, Append(parts, left), Separator)
<1>1. /\ parts \in Seq(Interval) /\ left \in Interval
      /\ Chain(text, Append(parts, left), Separator)
  BY DEF PartsInv
<1> DEFINE u == Append(parts, left)
           n == Len(parts) + 1
<1>2. u[n] = left /\ DOMAIN u = 1 .. n /\ Range(u) = Range(parts) \cup {left} /\ n \in 1 .. n
  BY <1>1, AppendAt
<1>3. Active = Range(u)
  BY DEF Active
<1>. HIDE DEF u, n
<1>4. n \in DOMAIN u /\ Chain(text, u, Separator)
  BY <1>1, <1>2 DEF u
<1>5. 1 <= u[n].from /\ u[n].from <= u[n].to /\ u[n].to <= Len(text) + 1
  BY <1>4 DEF Chain
<1>6. QED
  BY <1>1, <1>2, <1>3, <1>5, PartType

\* A part is split off what is left, up to p.
LEMMA SplitOffAt ==
    ASSUME SplitInv, pc = "split", NEW p \in Nat,
           left.from <= p, p + Len(Separator) <= left.to,
           \A j \in DOMAIN Separator : text[p + j - 1] = Separator[j],
           Separator = <<>> => p = left.from + 1,
           parts' = Append(parts, Part(left.from, p)),
           left' = Part(p + Len(Separator), left.to),
           UNCHANGED <<mergeVars, text, scenario, stack, chunks, pc>>
    PROVE  SplitInv'
<1> DEFINE J == Part(left.from, p)
           K == Part(p + Len(Separator), left.to)
           sep == Separator
<1>1. /\ InputInv /\ StackInv /\ PartsInv /\ MergeInv /\ ChunksInv /\ KeptInv /\ FitInv /\ Working
      /\ Framework
  BY DEF SplitInv, Framework, Working
<1>2. /\ parts \in Seq(Interval) /\ left \in Interval /\ left.from \in Nat /\ left.to \in Nat
      /\ Active = Range(parts) \cup {left} /\ Chain(text, Append(parts, left), Separator)
  BY <1>1, LeftIs
<1>3. sep \in Seps /\ sep \in Seq(Range(sep)) /\ Len(sep) \in Nat
  BY <1>1, SeparatorType
<1>4. p + Len(sep) \in Nat /\ p <= left.to /\ left.from <= p + Len(sep) /\ p <= p + Len(sep)
  BY <1>2, <1>3
<1>5. /\ J \in Interval /\ J.from = left.from /\ J.to = p
      /\ K \in Interval /\ K.from = p + Len(sep) /\ K.to = left.to
  BY <1>2, <1>4, PartType
<1>. HIDE DEF J, K
<1>6. Separator' = Separator
  BY DEF Separator, Top
<1>7. InputInv'
  BY <1>1 DEF InputInv, Working, mergeVars, inputVars
<1>8. parts' = Append(parts, J) /\ left' = K
  BY DEF J, K
<1>9. Append(parts, J) \in Seq(Interval) /\ Range(Append(parts, J)) = Range(parts) \cup {J}
  BY <1>2, <1>5, AppendAt
<1>10. PartsInv'
  <2>1. Chain(text, Append(Append(parts, J), K), Separator)
    BY <1>1, <1>2, <1>3, GivenTypes, ChainSplit DEF J, K
  <2>2. Separator = <<>> => Units(Append(parts, J))
    <3>1. SUFFICES ASSUME Separator = <<>> PROVE Units(Append(parts, J))
      OBVIOUS
    <3>2. Units(parts) /\ J.to = J.from + 1
      BY <1>1, <1>5, <3>1 DEF PartsInv
    <3>3. /\ DOMAIN Append(parts, J) = 1 .. Len(parts) + 1 /\ DOMAIN parts = 1 .. Len(parts)
          /\ Append(parts, J)[Len(parts) + 1] = J
          /\ \A i \in 1 .. Len(parts) : Append(parts, J)[i] = parts[i]
      BY <1>2, <1>5, AppendAt
    <3>4. \A i \in 1 .. Len(parts) + 1 : i \in 1 .. Len(parts) \/ i = Len(parts) + 1
      BY <1>2
    <3>5. QED
      BY <3>2, <3>3, <3>4 DEF Units
  <2>3. scenario.op = "recursive" => Top'.pieces = <<>>
    BY <1>1 DEF PartsInv, Top
  <2>4. QED
    BY <1>5, <1>6, <1>8, <1>9, <2>1, <2>2, <2>3 DEF PartsInv
<1>11. MergeInv'
  BY <1>1 DEF MergeInv, mergeVars, loopVars
<1>12. Active' = Range(parts) \cup {J, K}
  <2> DEFINE w == Append(parts, J)
  <2>1. w \in Seq(Interval) /\ Range(w) = Range(parts) \cup {J} /\ Active' = Range(Append(w, K))
    BY <1>8, <1>9 DEF Active
  <2>. HIDE DEF w
  <2>2. Range(Append(w, K)) = Range(w) \cup {K}
    BY <1>5, <2>1, AppendAt
  <2>3. QED
    BY <2>1, <2>2
<1>13. Framed(stack)' = Framed(stack)
  BY DEF Framed
<1>14. Active \subseteq Interval /\ Framed(stack) \subseteq Interval /\ Before(Active, Framed(stack))
  BY <1>1, PendingType
<1>15. StackInv'
  <2>1. StackOK(stack, text, chunkSize, scenario.separators)
    BY <1>1 DEF StackInv
  <2>2. Before(Active', Framed(stack))
    <3>1. ASSUME NEW M \in Framed(stack) PROVE J.to <= M.from /\ K.to <= M.from
      <4>1. left.to <= M.from
        BY <1>2, <1>14 DEF Before
      <4>2. M.from \in Nat
        BY <1>14, PartType
      <4>3. QED
        BY <1>2, <1>4, <1>5, <4>1, <4>2
    <3>2. \A I \in Range(parts), M \in Framed(stack) : I.to <= M.from
      BY <1>2, <1>14 DEF Before
    <3>3. QED
      BY <1>12, <3>1, <3>2 DEF Before
  <2>3. chunkSize' = chunkSize
    BY DEF mergeVars, inputVars
  <2>4. QED
    BY <2>1, <2>2, <2>3 DEF StackInv
<1>16. Framework'
  BY <1>7, <1>10, <1>11, <1>15 DEF Framework
<1>17. /\ Pending = (Range(parts) \cup Framed(stack)) \cup {left}
       /\ Pending' = (Range(parts) \cup Framed(stack)) \cup {J, K}
  BY <1>2, <1>12, <1>13 DEF Pending
<1>18. \A M \in Pending' : \E I \in Pending : I.from <= M.from
  <2>1. left.from <= J.from /\ left.from <= K.from
    BY <1>2, <1>4, <1>5
  <2>2. \A M \in Pending : M.from <= M.from
    <3>1. \A M \in Pending : M.from \in Nat
      BY <1>1, PendingType, PartType
    <3>2. QED
      BY <3>1
  <2>3. QED
    BY <1>17, <2>1, <2>2
<1>19. ASSUME NEW q \in DOMAIN text, Within(q, Pending)
       PROVE  Cast(text[q]) \/ Within(q, Pending')
  <2>1. q \in Nat
    BY <1>1, GivenTypes
  <2>2. PICK I \in Pending : q \in I.from .. I.to - 1
    BY <1>19 DEF Within
  <2>3. CASE I \in Range(parts) \cup Framed(stack)
    BY <1>17, <2>2, <2>3 DEF Within
  <2>4. CASE I = left
    <3>1. left.from <= q /\ q <= left.to - 1
      BY <1>2, <2>1, <2>2, <2>4
    <3>2. CASE q < p
      <4>1. q \in J.from .. J.to - 1
        BY <1>2, <1>5, <2>1, <3>1, <3>2
      <4>2. QED
        BY <1>17, <4>1 DEF Within
    <3>3. CASE q >= p + Len(sep)
      <4>1. q \in K.from .. K.to - 1
        BY <1>2, <1>3, <1>5, <2>1, <3>1, <3>3
      <4>2. QED
        BY <1>17, <4>1 DEF Within
    <3>4. CASE p <= q /\ q < p + Len(sep)
      <4>1. q - p + 1 \in 1 .. Len(sep) /\ p + (q - p + 1) - 1 = q
        BY <1>3, <2>1, <3>4
      <4>2. DOMAIN sep = 1 .. Len(sep)
        BY <1>3
      <4>3. text[q] = sep[q - p + 1] /\ q - p + 1 \in DOMAIN sep
        BY <4>1, <4>2
      <4>4. text[q] \in Range(sep)
        BY <4>3 DEF Range
      <4>5. QED
        BY <1>3, <4>4 DEF Cast
    <3>5. QED
      BY <1>3, <2>1, <3>2, <3>3, <3>4
  <2>5. QED
    BY <1>17, <2>2, <2>3, <2>4
<1>20. UNCHANGED <<text, scenario, chunkSize, chunks>>
  BY DEF mergeVars, inputVars
<1>21. ChunksInv' /\ KeptInv' /\ FitInv'
  BY <1>1, <1>16, <1>18, <1>19, <1>20, PendingKeeps
<1>22. QED
  BY <1>16, <1>21 DEF SplitInv, Framework

\* A character, or what is before the first separator, is split off.
LEMMA SplitOffKeeps == SplitInv /\ SplitOff => SplitInv'
<1>1. SUFFICES ASSUME SplitInv, SplitOff PROVE SplitInv'
  OBVIOUS
<1>2. /\ pc = "split" /\ InputInv /\ StackInv /\ PartsInv /\ Working
      /\ UNCHANGED <<mergeVars, text, scenario, stack, chunks, pc>>
  BY <1>1 DEF SplitOff, SplitInv, Working
<1>3. left.from \in Nat /\ left.to \in Nat /\ left.from <= left.to
  BY <1>2, LeftIs
<1>4. Separator \in Seq(Range(Separator)) /\ Len(Separator) \in Nat
  BY <1>2, SeparatorType
<1>5. CASE Separator = <<>> /\ left.from < left.to
           /\ parts' = Append(parts, Part(left.from, left.from + 1))
           /\ left' = Part(left.from + 1, left.to)
  <2>1. Len(Separator) = 0 /\ DOMAIN Separator = {}
    BY <1>5
  <2>2. /\ left.from + 1 \in Nat /\ left.from <= left.from + 1
        /\ left.from + 1 + Len(Separator) = left.from + 1
        /\ left.from + 1 + Len(Separator) <= left.to
    BY <1>3, <1>5, <2>1
  <2>3. left' = Part(left.from + 1 + Len(Separator), left.to)
    BY <1>5, <2>2
  <2>4. QED
    BY <1>1, <1>2, <1>5, <2>1, <2>2, <2>3, SplitOffAt
<1>6. CASE Separator # <<>> /\ Cuts # {}
           /\ parts' = Append(parts, Part(left.from, Min(Cuts)))
           /\ left' = Part(Min(Cuts) + Len(Separator), left.to)
  <2>1. Cuts \in SUBSET Nat
    BY <1>3 DEF Cuts
  <2>2. Min(Cuts) \in Cuts
    BY <1>6, <2>1, MinIs
  <2>3. PICK p \in Cuts : p = Min(Cuts)
    BY <2>2
  <2>4. p \in left.from .. left.to /\ Occurs(Separator, p, left.to)
    BY <2>3 DEF Cuts
  <2>5. p \in Nat /\ left.from <= p
    BY <1>3, <2>4
  <2>6. /\ p + Len(Separator) <= left.to
        /\ \A j \in DOMAIN Separator : text[p + j - 1] = Separator[j]
    BY <2>4 DEF Occurs
  <2>7. /\ parts' = Append(parts, Part(left.from, p))
        /\ left' = Part(p + Len(Separator), left.to)
    BY <1>6, <2>3
  <2>8. QED
    BY <1>1, <1>2, <1>6, <2>5, <2>6, <2>7, SplitOffAt
<1>7. QED
  BY <1>1, <1>5, <1>6 DEF SplitOff

\* The same of the next state.
LEMMA LoopStartsNext == MergeInit' => LoopInv'
BY LoopStarts, PTL

\* _merge_splits is called with splits of the text.
LEMMA MergeStarts ==
    ASSUME InputInv, StackInv, Working, NEW pieces, BeginMerge(pieces),
           Cut(text, pieces, Separator), Separator' = Separator, UNCHANGED <<text, scenario>>,
           scenario.op = "recursive" => \A n \in DOMAIN pieces : Length(pieces[n]) < chunkSize
    PROVE  /\ MergeInv' /\ pc' = "merge" /\ Active' = Range(pieces)
           /\ UNCHANGED <<blanks, chunkSize, chunkOverlap>>
<1>1. /\ splits' = pieces /\ separatorLen' = Len(Separator)
      /\ next' = 1 /\ first' = 1 /\ total' = 0 /\ totalIfMerge' = 0
      /\ docs' = <<>> /\ at' = "next" /\ pc' = "merge"
      /\ UNCHANGED <<blanks, chunkSize, chunkOverlap>>
  BY DEF BeginMerge, Goto
<1>2. chunkSize \in Nat /\ chunkOverlap \in Nat /\ chunkOverlap <= chunkSize
  BY DEF InputInv, Working
<1>3. Len(Separator) \in Nat
  BY SeparatorType
<1>4. Chain(text, pieces, Separator)
  BY DEF Cut
<1>5. MergeInit'
  <2>1. chunkOverlap \in 0 .. chunkSize
    BY <1>2
  <2>2. Inputs'
    BY <1>1, <1>2, <1>3, <1>4, <2>1 DEF Inputs, Chain
  <2>3. LoopInit'
    BY <1>1 DEF LoopInit
  <2>4. QED
    BY <2>2, <2>3 DEF MergeInit
<1>6. LoopInv'
  BY <1>5, LoopStartsNext
<1>7. Visible'
  BY <1>1 DEF Visible
<1>8. Cut(text, pieces, Separator)'
  BY <1>1
<1>9. MergeInv'
  BY <1>1, <1>6, <1>7 DEF MergeInv
<1>10. Active' = Range(pieces)
  BY <1>1 DEF Active
<1>11. QED
  BY <1>1, <1>9, <1>10

\* What utils::split_text returns: all the text but the separators.
LEMMA AllPartsAre ==
    ASSUME SplitInv, pc = "split", Separator = <<>> => left.from = left.to
    PROVE  /\ Cut(text, AllParts, Separator)
           /\ Range(AllParts) \subseteq Active
           /\ Active \subseteq Range(AllParts) \cup {left}
           /\ left \notin Range(AllParts) => left.from = left.to
<1>1. InputInv /\ PartsInv
  BY DEF SplitInv
<1>2. /\ parts \in Seq(Interval) /\ left \in Interval /\ left.from \in Nat /\ left.to \in Nat
      /\ Active = Range(parts) \cup {left} /\ Chain(text, Append(parts, left), Separator)
  BY <1>1, LeftIs
<1>3. CASE Separator = <<>> \/ (parts = <<>> /\ left.from = left.to)
  <2>1. AllParts = parts /\ left.from = left.to
    BY <1>3 DEF AllParts
  <2>2. Chain(text, parts, Separator)
    BY <1>2, ChainFront
  <2>3. Separator = <<>> => Units(parts)
    BY <1>1 DEF PartsInv
  <2>4. QED
    BY <1>2, <2>1, <2>2, <2>3 DEF Cut
<1>4. CASE ~(Separator = <<>> \/ (parts = <<>> /\ left.from = left.to))
  <2>1. AllParts = Append(parts, left) /\ Separator # <<>>
    BY <1>4 DEF AllParts
  <2>2. Range(Append(parts, left)) = Range(parts) \cup {left}
    BY <1>2, AppendAt
  <2>3. QED
    BY <1>2, <2>1, <2>2 DEF Cut
<1>5. QED
  BY <1>3, <1>4

\* The splits take the place of what was split.
LEMMA SplitDoneKeeps == SplitInv /\ SplitDone => SplitInv'
<1>1. SUFFICES ASSUME SplitInv, SplitDone PROVE SplitInv'
  OBVIOUS
<1>2. /\ pc = "split" /\ UNCHANGED <<text, scenario, left, chunks>>
      /\ IF scenario.op = "plain" THEN BeginMerge(AllParts) /\ UNCHANGED stack
         ELSE /\ stack' = With([Top EXCEPT !.pieces = AllParts]) /\ pc' = "scan"
              /\ UNCHANGED mergeVars
      /\ Separator = <<>> => left.from = left.to
  BY <1>1 DEF SplitDone, Goto
<1>3. /\ InputInv /\ StackInv /\ PartsInv /\ MergeInv /\ ChunksInv /\ KeptInv /\ FitInv /\ Working
      /\ Framework
  BY <1>1, <1>2 DEF SplitInv, Framework, Working
<1>4. /\ Cut(text, AllParts, Separator) /\ Range(AllParts) \subseteq Active
      /\ Active \subseteq Range(AllParts) \cup {left}
      /\ left \notin Range(AllParts) => left.from = left.to
  BY <1>1, <1>2, AllPartsAre
<1>5. Active \subseteq Interval /\ Framed(stack) \subseteq Interval /\ Before(Active, Framed(stack))
  BY <1>3, PendingType
<1> DEFINE all == AllParts
<1>. HIDE DEF all
<1>6. all = AllParts
  BY DEF all
<1>7. /\ InputInv' /\ StackInv' /\ PartsInv' /\ MergeInv' /\ Pending' = Range(all) \cup Framed(stack)
      /\ UNCHANGED chunkSize
  <2>1. CASE scenario.op = "plain"
    <3>1. BeginMerge(all) /\ UNCHANGED stack
      BY <1>2, <1>6, <2>1
    <3>2. Separator' = Separator
      BY <1>2, <3>1 DEF Separator, Top
    <3>3. /\ MergeInv' /\ pc' = "merge" /\ Active' = Range(all)
          /\ UNCHANGED <<blanks, chunkSize, chunkOverlap>>
      BY <1>2, <1>3, <1>4, <1>6, <2>1, <3>1, <3>2, MergeStarts
    <3>4. InputInv'
      BY <1>2, <1>3, <2>1, <3>1, <3>3 DEF InputInv, Working
    <3>5. StackInv'
      <4>1. Before(Range(all), Framed(stack))
        BY <1>4, <1>5, <1>6 DEF Before
      <4>2. QED
        BY <1>2, <1>3, <3>1, <3>3, <4>1 DEF StackInv
    <3>6. PartsInv'
      BY <3>3 DEF PartsInv
    <3>7. Pending' = Range(all) \cup Framed(stack)
      BY <3>1, <3>3 DEF Pending
    <3>8. QED
      BY <3>3, <3>4, <3>5, <3>6, <3>7
  <2>2. CASE scenario.op # "plain"
    <3> DEFINE f == [Top EXCEPT !.pieces = all]
               deep == Tail(stack)
    <3>1. scenario.op = "recursive"
      BY <1>3, <2>2, GivenTypes
    <3>2. stack' = <<f>> \o deep /\ pc' = "scan" /\ UNCHANGED mergeVars
      BY <1>2, <1>6, <2>2 DEF With
    <3>3. /\ Top \in Frames(scenario.separators)
          /\ FrameOK(Top, text, chunkSize, scenario.separators)
          /\ StackOK(deep, text, chunkSize, scenario.separators)
          /\ Framed(stack) = Rest(Top) \cup Framed(deep)
      BY <1>3, <3>1, TopIs
    <3>4. Top.pieces = <<>> /\ Top.separator = Separator
      BY <1>2, <1>3, <2>2, <3>1 DEF PartsInv, Separator
    <3>5. Top.good = 1 /\ Top.i = 1
      <4>1. /\ Top.good \in Nat /\ Top.i \in Nat
            /\ 1 <= Top.good /\ Top.good <= Top.i /\ Top.i <= Len(Top.pieces) + 1
        BY <3>3, RestType
      <4>2. Len(<<>>) = 0
        OBVIOUS
      <4>3. QED
        BY <3>4, <4>1, <4>2
    <3>6. all \in Seq(Interval) /\ Len(all) \in Nat /\ DOMAIN all = 1 .. Len(all)
      BY <1>4, <1>6, ChainType DEF Cut
    <3>7. /\ f \in Frames(scenario.separators) /\ f.pieces = all /\ f.good = 1 /\ f.i = 1
          /\ f.separator = Top.separator /\ f.seps = Top.seps
      BY <3>3, <3>5, <3>6 DEF Frames
    <3>. HIDE DEF f, deep
    <3>8. FrameOK(f, text, chunkSize, scenario.separators)
      <4>1. f.i <= Len(f.pieces) + 1
        BY <3>6, <3>7
      <4>2. \A n \in f.good .. f.i - 1 : Length(f.pieces[n]) < chunkSize
        BY <3>7
      <4>3. Cut(text, f.pieces, f.separator)
        BY <1>4, <1>6, <3>4, <3>7
      <4>4. QED
        BY <3>3, <3>7, <4>1, <4>2, <4>3 DEF FrameOK
    <3>9. Rest(f) = Range(all)
      BY <3>6, <3>7 DEF Rest, Range
    <3>10. Rest(Top) = {} /\ Framed(stack) = Framed(deep)
      <4>1. Len(<<>>) = 0
        OBVIOUS
      <4>2. Rest(Top) = {}
        BY <3>4, <3>5, <4>1 DEF Rest
      <4>3. QED
        BY <3>3, <4>2
    <3>11. Before(Rest(f), Framed(deep))
      BY <1>4, <1>5, <1>6, <3>9, <3>10 DEF Before
    <3>12. /\ StackOK(<<f>> \o deep, text, chunkSize, scenario.separators)
           /\ Framed(<<f>> \o deep) = Rest(f) \cup Framed(deep)
           /\ <<f>> \o deep # <<>>
      BY <3>3, <3>7, <3>8, <3>11, Entering
    <3>13. Active' = {}
      BY <3>2 DEF Active
    <3>14. UNCHANGED <<blanks, chunkSize, chunkOverlap, at>>
      BY <3>2 DEF mergeVars, inputVars, loopVars
    <3>15. InputInv'
      BY <1>2, <1>3, <2>2, <3>2, <3>12, <3>14 DEF InputInv, Working
    <3>16. StackInv'
      BY <1>2, <3>2, <3>12, <3>13, <3>14 DEF StackInv, Before
    <3>17. PartsInv'
      BY <3>2 DEF PartsInv
    <3>18. MergeInv'
      BY <1>2, <1>3, <3>2, <3>14 DEF MergeInv
    <3>19. Pending' = Range(all) \cup Framed(stack)
      BY <3>2, <3>9, <3>10, <3>12, <3>13 DEF Pending
    <3>20. QED
      BY <3>14, <3>15, <3>16, <3>17, <3>18, <3>19
  <2>3. QED
    BY <2>1, <2>2
<1>8. Framework'
  BY <1>7 DEF Framework
<1>9. Pending = Active \cup Framed(stack)
  BY DEF Pending
<1>10. \A M \in Pending' : \E I \in Pending : I.from <= M.from
  <2>1. \A M \in Pending' : M \in Pending /\ M.from \in Nat
    BY <1>4, <1>5, <1>6, <1>7, <1>9, PartType
  <2>2. QED
    BY <2>1
<1>11. ASSUME NEW q \in DOMAIN text, Within(q, Pending)
       PROVE  Within(q, Pending')
  <2>1. PICK I \in Pending : q \in I.from .. I.to - 1
    BY <1>11 DEF Within
  <2>2. I \in Pending'
    <3>1. CASE I \in Pending'
      BY <3>1
    <3>2. CASE I \notin Pending'
      <4>1. I = left /\ left.from = left.to
        BY <1>4, <1>6, <1>7, <1>9, <3>2
      <4>2. left.from \in Nat
        BY <1>2, <1>3, LeftIs
      <4>3. QED
        BY <2>1, <4>1, <4>2
    <3>3. QED
      BY <3>1, <3>2
  <2>3. QED
    BY <2>1, <2>2 DEF Within
<1>12. ChunksInv' /\ KeptInv' /\ FitInv'
  BY <1>2, <1>3, <1>7, <1>8, <1>10, <1>11, PendingKeeps
<1>13. QED
  BY <1>7, <1>12 DEF SplitInv

\* The innermost call goes on.
LEMMA TopMoves ==
    ASSUME InputInv, StackInv, Working, scenario.op = "recursive",
           NEW f \in Frames(scenario.separators),
           f.pieces = Top.pieces, f.separator = Top.separator, f.seps = Top.seps,
           Top.good <= f.good, f.good <= f.i, f.i <= Len(Top.pieces) + 1,
           \A n \in f.good .. f.i - 1 : Length(Top.pieces[n]) < chunkSize
    PROVE  /\ StackOK(With(f), text, chunkSize, scenario.separators) /\ With(f) # <<>>
           /\ Head(With(f)) = f /\ Tail(With(f)) = Tail(stack)
           /\ Framed(With(f)) = Rest(f) \cup Framed(Tail(stack))
           /\ Rest(f) \subseteq Rest(Top) /\ Framed(With(f)) \subseteq Framed(stack)
           /\ FrameOK(f, text, chunkSize, scenario.separators)
<1> DEFINE deep == Tail(stack)
<1>1. /\ Top \in Frames(scenario.separators)
      /\ FrameOK(Top, text, chunkSize, scenario.separators)
      /\ StackOK(deep, text, chunkSize, scenario.separators)
      /\ Framed(stack) = Rest(Top) \cup Framed(deep)
      /\ Before(Rest(Top), Framed(deep))
  BY TopIs
<1>2. With(f) = <<f>> \o deep
  BY DEF With
<1>. HIDE DEF deep
<1>3. /\ Top.good \in Nat /\ 1 <= Top.good /\ f.good \in Nat /\ f.i \in Nat
      /\ Len(Top.pieces) \in Nat
  BY <1>1, RestType DEF Frames
<1>4. FrameOK(f, text, chunkSize, scenario.separators)
  <2>1. 1 <= f.good
    BY <1>3
  <2>2. QED
    BY <1>1, <2>1 DEF FrameOK
<1>5. Rest(f) \subseteq Rest(Top)
  <2>1. \A n \in f.good .. Len(Top.pieces) : n \in Top.good .. Len(Top.pieces)
    BY <1>3
  <2>2. QED
    BY <2>1 DEF Rest
<1>6. Before(Rest(f), Framed(deep))
  BY <1>1, <1>5 DEF Before
<1>7. /\ StackOK(<<f>> \o deep, text, chunkSize, scenario.separators)
      /\ Framed(<<f>> \o deep) = Rest(f) \cup Framed(deep)
      /\ Head(<<f>> \o deep) = f /\ Tail(<<f>> \o deep) = deep /\ <<f>> \o deep # <<>>
  BY <1>1, <1>4, <1>6, Entering
<1>8. QED
  BY <1>1, <1>2, <1>4, <1>5, <1>7 DEF deep

\* Where the innermost call is in its splits.
LEMMA ScanIs ==
    ASSUME SplitInv, pc = "scan"
    PROVE  /\ Framework /\ Working /\ scenario.op = "recursive"
           /\ Top \in Frames(scenario.separators)
           /\ FrameOK(Top, text, chunkSize, scenario.separators)
           /\ Top.pieces \in Seq(Interval) /\ Len(Top.pieces) \in Nat
           /\ DOMAIN Top.pieces = 1 .. Len(Top.pieces)
           /\ Top.good \in Nat /\ Top.i \in Nat
           /\ 1 <= Top.good /\ Top.good <= Top.i /\ Top.i <= Len(Top.pieces) + 1
           /\ \A n \in Top.good .. Top.i - 1 : Length(Top.pieces[n]) < chunkSize
           /\ Framed(stack) = Rest(Top) \cup Framed(Tail(stack))
           /\ Before(Rest(Top), Framed(Tail(stack)))
           /\ Active = {} /\ Pending = Framed(stack) /\ at = "off"
<1>1. InputInv /\ StackInv /\ Framework /\ Working
  BY DEF SplitInv, Framework, Working
<1>2. scenario.op = "recursive"
  BY <1>1, GivenTypes DEF InputInv
<1>3. Active = {} /\ at = "off"
  BY DEF Active, SplitInv, MergeInv
<1>4. /\ Top \in Frames(scenario.separators)
      /\ FrameOK(Top, text, chunkSize, scenario.separators)
      /\ Framed(stack) = Rest(Top) \cup Framed(Tail(stack))
      /\ Before(Rest(Top), Framed(Tail(stack)))
  BY <1>1, <1>2, TopIs
<1>5. \A n \in Top.good .. Top.i - 1 : Length(Top.pieces[n]) < chunkSize
  BY <1>4 DEF FrameOK
<1>6. QED
  BY <1>1, <1>2, <1>3, <1>4, <1>5, RestType DEF Pending

\* What waits still waits.
LEMMA PendingSame ==
    ASSUME SplitInv, Framework', Working, Pending' = Pending,
           UNCHANGED <<text, scenario, chunkSize, chunks>>
    PROVE  SplitInv'
<1>1. Framework /\ ChunksInv /\ KeptInv /\ FitInv
  BY DEF SplitInv, Framework
<1>2. \A M \in Pending' : \E I \in Pending : I.from <= M.from
  <2>1. \A M \in Pending : M.from <= M.from
    <3>1. \A M \in Pending : M.from \in Nat
      BY <1>1, PendingType, PartType
    <3>2. QED
      BY <3>1
  <2>2. QED
    BY <2>1
<1>3. \A q \in DOMAIN text : Within(q, Pending) => Within(q, Pending')
  OBVIOUS
<1>4. ChunksInv' /\ KeptInv' /\ FitInv'
  BY <1>1, <1>2, <1>3, PendingKeeps
<1>5. QED
  BY <1>4 DEF SplitInv, Framework

\* A good split goes on waiting.
LEMMA GatherKeeps == SplitInv /\ Gather => SplitInv'
<1>1. SUFFICES ASSUME SplitInv, Gather PROVE SplitInv'
  OBVIOUS
<1> DEFINE f == [Top EXCEPT !.i = @ + 1]
<1>2. /\ pc = "scan" /\ Top.i \in DOMAIN Top.pieces /\ Length(Top.pieces[Top.i]) < chunkSize
      /\ stack' = With(f) /\ UNCHANGED <<mergeVars, text, scenario, parts, left, chunks, pc>>
  BY <1>1 DEF Gather, IsGood, Piece, Length
<1>3. /\ Framework /\ Working /\ scenario.op = "recursive"
      /\ Top \in Frames(scenario.separators)
      /\ Len(Top.pieces) \in Nat /\ DOMAIN Top.pieces = 1 .. Len(Top.pieces)
      /\ Top.good \in Nat /\ Top.i \in Nat
      /\ 1 <= Top.good /\ Top.good <= Top.i
      /\ \A n \in Top.good .. Top.i - 1 : Length(Top.pieces[n]) < chunkSize
      /\ Framed(stack) = Rest(Top) \cup Framed(Tail(stack))
      /\ Active = {} /\ Pending = Framed(stack)
  BY <1>1, <1>2, ScanIs
<1>4. InputInv /\ StackInv /\ PartsInv /\ MergeInv
  BY <1>1 DEF SplitInv
<1>5. /\ f \in Frames(scenario.separators)
      /\ f.pieces = Top.pieces /\ f.separator = Top.separator /\ f.seps = Top.seps
      /\ f.good = Top.good /\ f.i = Top.i + 1
  BY <1>3 DEF Frames
<1>. HIDE DEF f
<1>6. \A n \in f.good .. f.i - 1 : Length(Top.pieces[n]) < chunkSize
  <2>1. \A n \in f.good .. f.i - 1 : n \in Top.good .. Top.i - 1 \/ n = Top.i
    BY <1>3, <1>5
  <2>2. QED
    BY <1>2, <1>3, <2>1
<1>7. Top.good <= f.good /\ f.good <= f.i /\ f.i <= Len(Top.pieces) + 1
  BY <1>2, <1>3, <1>5
<1>8. /\ StackOK(With(f), text, chunkSize, scenario.separators) /\ With(f) # <<>>
      /\ Framed(With(f)) = Rest(f) \cup Framed(Tail(stack))
  BY <1>3, <1>4, <1>5, <1>6, <1>7, TopMoves
<1>9. Rest(f) = Rest(Top)
  BY <1>5 DEF Rest
<1>10. UNCHANGED <<blanks, chunkSize, chunkOverlap, at>>
  BY <1>2 DEF mergeVars, inputVars, loopVars
<1>11. Active' = {} /\ Pending' = Pending
  BY <1>2, <1>3, <1>8, <1>9 DEF Active, Pending
<1>12. Framework'
  <2>1. InputInv'
    BY <1>2, <1>4, <1>8, <1>10, <1>3 DEF InputInv, Working
  <2>2. StackInv'
    BY <1>2, <1>8, <1>10, <1>11 DEF StackInv, Before
  <2>3. PartsInv' /\ MergeInv'
    BY <1>2, <1>4, <1>10 DEF PartsInv, MergeInv
  <2>4. QED
    BY <2>1, <2>2, <2>3 DEF Framework
<1>13. QED
  BY <1>1, <1>2, <1>3, <1>10, <1>11, <1>12, PendingSame

\* A call returns when it has gone through its splits.
LEMMA ReturnKeeps == SplitInv /\ Return => SplitInv'
<1>1. SUFFICES ASSUME SplitInv, Return PROVE SplitInv'
  OBVIOUS
<1>2. /\ pc = "scan" /\ Top.i \notin DOMAIN Top.pieces /\ Top.good = Top.i
      /\ stack' = Tail(stack) /\ pc' = IF stack' = <<>> THEN "done" ELSE "scan"
      /\ UNCHANGED <<mergeVars, text, scenario, parts, left, chunks>>
  BY <1>1 DEF Return, Goto
<1>3. /\ Framework /\ Working /\ scenario.op = "recursive"
      /\ Len(Top.pieces) \in Nat /\ DOMAIN Top.pieces = 1 .. Len(Top.pieces)
      /\ Top.good \in Nat /\ Top.i \in Nat /\ 1 <= Top.good
      /\ Framed(stack) = Rest(Top) \cup Framed(Tail(stack))
      /\ Active = {} /\ Pending = Framed(stack)
  BY <1>1, <1>2, ScanIs
<1>4. InputInv /\ StackInv /\ PartsInv /\ MergeInv
  BY <1>1 DEF SplitInv
<1>5. Rest(Top) = {}
  <2>1. \A n \in Top.good .. Len(Top.pieces) : FALSE
    BY <1>2, <1>3
  <2>2. QED
    BY <2>1 DEF Rest
<1>6. StackOK(Tail(stack), text, chunkSize, scenario.separators)
  BY <1>3, <1>4, TopIs
<1>7. UNCHANGED <<blanks, chunkSize, chunkOverlap, at>>
  BY <1>2 DEF mergeVars, inputVars, loopVars
<1>8. Active' = {} /\ Pending' = Pending
  BY <1>2, <1>3, <1>5 DEF Active, Pending
<1>9. Framework'
  <2>1. InputInv'
    BY <1>2, <1>3, <1>4, <1>7 DEF InputInv, Working
  <2>2. StackInv'
    BY <1>2, <1>6, <1>7, <1>8 DEF StackInv, Before
  <2>3. PartsInv' /\ MergeInv'
    BY <1>2, <1>4, <1>7 DEF PartsInv, MergeInv
  <2>4. QED
    BY <2>1, <2>2, <2>3 DEF Framework
<1>10. QED
  BY <1>1, <1>2, <1>3, <1>7, <1>8, <1>9, PendingSame

\* The loop does not complete a document that is white space.
LEMMA DocsShown ==
    ASSUME LoopInv, Visible, MergeNext
    PROVE  Visible' /\ UNCHANGED inputVars
<1>1. UNCHANGED inputVars /\ (Complete \/ UNCHANGED docs)
  BY DEF MergeNext, Push, CompleteDocument, Pop, PushAfter, CompleteLast
<1>2. UNCHANGED <<splits, blanks>>
  BY <1>1 DEF inputVars
<1>3. \A i, j : Blank(i, j)' = Blank(i, j)
  BY <1>2 DEF Blank
<1>4. docs \in Seq(Documents) /\ first \in Nat \ {0} /\ next \in Int
  BY DEF LoopInv, LoopTypes
<1>5. CASE UNCHANGED docs
  BY <1>1, <1>3, <1>5 DEF Visible
<1>6. CASE docs' # docs
  <2>1. Complete
    BY <1>1, <1>6
  <2> DEFINE d == Document(first, next - 1)
  <2>2. docs' = Append(docs, d) /\ first < next /\ ~Blank(first, next - 1)
    BY <1>6, <2>1 DEF Complete
  <2>3. d \in Documents /\ d.first = first /\ d.last = next - 1
    <3>1. next - 1 \in Nat \ {0}
      BY <1>4, <2>2
    <3>2. QED
      BY <1>4, <3>1 DEF Document, Documents
  <2>. HIDE DEF d
  <2>4. /\ DOMAIN docs = 1 .. Len(docs) /\ DOMAIN docs' = 1 .. Len(docs) + 1
        /\ docs'[Len(docs) + 1] = d /\ \A k \in 1 .. Len(docs) : docs'[k] = docs[k]
    BY <1>4, <2>2, <2>3, AppendAt
  <2>5. \A k \in 1 .. Len(docs) + 1 : k \in 1 .. Len(docs) \/ k = Len(docs) + 1
    BY <1>4
  <2>6. \A k \in DOMAIN docs' : ~Blank(docs'[k].first, docs'[k].last)
    BY <2>2, <2>3, <2>4, <2>5 DEF Visible
  <2>7. QED
    BY <1>1, <1>3, <2>6 DEF Visible
<1>7. QED
  BY <1>5, <1>6

\* The loop of _merge_splits makes a step.
LEMMA MergesKeeps == SplitInv /\ Merges => SplitInv'
<1>1. SUFFICES ASSUME SplitInv, Merges PROVE SplitInv'
  OBVIOUS
<1>2. /\ pc = "merge" /\ MergeNext
      /\ UNCHANGED <<text, scenario, parts, left, stack, chunks, pc>>
  BY <1>1 DEF Merges
<1>3. InputInv /\ StackInv /\ PartsInv /\ MergeInv /\ Working
  BY <1>1, <1>2 DEF SplitInv, Working
<1>4. LoopInv /\ Visible
  BY <1>2, <1>3 DEF MergeInv
<1>5. LoopInv'
  BY <1>2, <1>4, LoopKeeps
<1>6. Visible' /\ UNCHANGED <<blanks, chunkSize, chunkOverlap, splits, separatorLen>>
  BY <1>2, <1>4, DocsShown DEF inputVars
<1>7. Active' = Active /\ Pending' = Pending
  BY <1>2, <1>6 DEF Active, Pending
<1>8. Separator' = Separator
  BY <1>2 DEF Separator, Top
<1>9. Framework'
  <2>1. InputInv'
    BY <1>2, <1>3, <1>6 DEF InputInv, Working
  <2>2. StackInv'
    BY <1>2, <1>3, <1>6, <1>7 DEF StackInv
  <2>3. PartsInv'
    BY <1>2 DEF PartsInv
  <2>4. MergeInv'
    <3>1. Cut(text, splits, Separator) /\ separatorLen = Len(Separator)
      BY <1>2, <1>3 DEF MergeInv
    <3>2. scenario.op = "recursive" => \A n \in DOMAIN splits : Length(splits[n]) < chunkSize
      BY <1>2, <1>3 DEF MergeInv
    <3>3. Cut(text, splits, Separator)'
      BY <1>2, <1>6, <1>8, <3>1
    <3>4. QED
      BY <1>2, <1>5, <1>6, <1>8, <3>1, <3>2, <3>3 DEF MergeInv
  <2>5. QED
    BY <2>1, <2>2, <2>3, <2>4 DEF Framework
<1>10. QED
  BY <1>1, <1>2, <1>3, <1>6, <1>7, <1>9, PendingSame

\* The good splits of a call are taken to be merged.
LEMMA MergeGoodKeeps == SplitInv /\ MergeGood => SplitInv'
<1>1. SUFFICES ASSUME SplitInv, MergeGood PROVE SplitInv'
  OBVIOUS
<1> DEFINE f == [Top EXCEPT !.good = Top.i]
           good == Stretch(Top.pieces, Top.good, Top.i - 1)
<1>2. /\ pc = "scan" /\ Top.good < Top.i /\ BeginMerge(good)
      /\ stack' = With(f) /\ UNCHANGED <<text, scenario, parts, left, chunks>>
  BY <1>1 DEF MergeGood, Stretch
<1>3. /\ Framework /\ Working /\ scenario.op = "recursive"
      /\ Top \in Frames(scenario.separators)
      /\ FrameOK(Top, text, chunkSize, scenario.separators)
      /\ Top.pieces \in Seq(Interval)
      /\ Len(Top.pieces) \in Nat /\ DOMAIN Top.pieces = 1 .. Len(Top.pieces)
      /\ Top.good \in Nat /\ Top.i \in Nat
      /\ 1 <= Top.good /\ Top.i <= Len(Top.pieces) + 1
      /\ \A n \in Top.good .. Top.i - 1 : Length(Top.pieces[n]) < chunkSize
      /\ Framed(stack) = Rest(Top) \cup Framed(Tail(stack))
      /\ Before(Rest(Top), Framed(Tail(stack)))
      /\ Active = {} /\ Pending = Framed(stack)
  BY <1>1, <1>2, ScanIs
<1>4. InputInv /\ StackInv /\ PartsInv /\ MergeInv
  BY <1>1 DEF SplitInv
<1>5. /\ f \in Frames(scenario.separators)
      /\ f.pieces = Top.pieces /\ f.separator = Top.separator /\ f.seps = Top.seps
      /\ f.good = Top.i /\ f.i = Top.i
  BY <1>3 DEF Frames
<1>. HIDE DEF f
<1>6. /\ StackOK(With(f), text, chunkSize, scenario.separators) /\ With(f) # <<>>
      /\ Head(With(f)) = f
      /\ Framed(With(f)) = Rest(f) \cup Framed(Tail(stack))
  <2>1. Top.good <= f.good /\ f.good <= f.i /\ f.i <= Len(Top.pieces) + 1
    BY <1>2, <1>3, <1>5
  <2>2. \A n \in f.good .. f.i - 1 : Length(Top.pieces[n]) < chunkSize
    BY <1>3, <1>5
  <2>3. QED
    BY <1>3, <1>4, <1>5, <2>1, <2>2, TopMoves
<1>7. Separator = Top.separator /\ Separator' = Separator
  BY <1>2, <1>3, <1>5, <1>6 DEF Separator, Top
<1>8. /\ Cut(text, good, Separator)
      /\ Range(good) = {Top.pieces[n] : n \in Top.good .. Top.i - 1}
      /\ \A n \in DOMAIN good : Length(good[n]) < chunkSize
  <2>1. Cut(text, Top.pieces, Separator)
    BY <1>3, <1>7 DEF FrameOK
  <2>2. PICK b \in Nat : b = Top.i - 1
    BY <1>2, <1>3
  <2>3. Top.good <= b + 1 /\ b <= Len(Top.pieces) /\ Top.good \in Nat /\ 1 <= Top.good
    BY <1>2, <1>3, <2>2
  <2>4. good = Stretch(Top.pieces, Top.good, b)
    BY <2>2
  <2>5. /\ Cut(text, good, Separator)
        /\ Range(good) = {Top.pieces[n] : n \in Top.good .. b}
        /\ \A n \in DOMAIN good : /\ Top.good + n - 1 \in Top.good .. b
                                  /\ good[n] = Top.pieces[Top.good + n - 1]
    BY <2>1, <2>3, <2>4, ChainSub
  <2>6. \A n \in DOMAIN good : Length(good[n]) < chunkSize
    BY <1>3, <2>2, <2>5
  <2>7. QED
    BY <2>2, <2>5, <2>6
<1>. HIDE DEF good
<1>9. /\ MergeInv' /\ pc' = "merge" /\ Active' = Range(good)
      /\ UNCHANGED <<blanks, chunkSize, chunkOverlap>>
  BY <1>2, <1>3, <1>4, <1>7, <1>8, MergeStarts
<1>10. Range(good) \cup Rest(f) = Rest(Top) /\ Range(good) \subseteq Rest(Top)
  <2>1. /\ \A n \in Top.good .. Len(Top.pieces) :
              n \in Top.good .. Top.i - 1 \/ n \in f.good .. Len(Top.pieces)
        /\ \A n \in Top.good .. Top.i - 1 : n \in Top.good .. Len(Top.pieces)
        /\ \A n \in f.good .. Len(Top.pieces) : n \in Top.good .. Len(Top.pieces)
    BY <1>2, <1>3, <1>5
  <2>2. QED
    BY <1>5, <1>8, <2>1 DEF Rest
<1>11. Before(Range(good), Rest(f))
  <2>1. SUFFICES ASSUME NEW n \in Top.good .. Top.i - 1, NEW m \in Top.i .. Len(Top.pieces)
                 PROVE  Top.pieces[n].to <= Top.pieces[m].from
    BY <1>5, <1>8 DEF Before, Rest
  <2>2. n \in DOMAIN Top.pieces /\ m \in DOMAIN Top.pieces /\ n < m
    BY <1>3
  <2>3. Chain(text, Top.pieces, Separator) /\ Separator \in Seq(Range(Separator))
    BY <1>3, <1>4, <1>7, SeparatorType DEF FrameOK, Cut
  <2>4. QED
    BY <2>2, <2>3, ChainOrder
<1>12. Before(Range(good), Framed(Tail(stack)))
  BY <1>3, <1>10 DEF Before
<1>13. Pending' = Pending
  BY <1>2, <1>3, <1>6, <1>9, <1>10 DEF Pending
<1>14. Framework'
  <2>1. InputInv'
    BY <1>2, <1>3, <1>4, <1>6, <1>9 DEF InputInv, Working
  <2>2. StackInv'
    <3>1. Before(Range(good), Framed(With(f)))
      BY <1>6, <1>11, <1>12 DEF Before
    <3>2. QED
      BY <1>2, <1>6, <1>9, <3>1 DEF StackInv
  <2>3. PartsInv'
    BY <1>9 DEF PartsInv
  <2>4. QED
    BY <1>9, <2>1, <2>2, <2>3 DEF Framework
<1>15. QED
  BY <1>1, <1>2, <1>3, <1>9, <1>13, <1>14, PendingSame

\* A big split is the first thing its call still has to do.
LEMMA BigIs ==
    ASSUME SplitInv, Big
    PROVE  /\ InputInv /\ StackInv /\ Framework /\ Working /\ scenario.op = "recursive"
           /\ FrameOK(Top, text, chunkSize, scenario.separators)
           /\ Top \in Frames(scenario.separators)
           /\ Top.i \in DOMAIN Top.pieces
           /\ Piece \in Interval /\ Piece.from \in Nat /\ Piece.to \in Nat
           /\ 1 <= Piece.from /\ Piece.from <= Piece.to /\ Piece.to <= Len(text) + 1
           /\ StackOK(With(After), text, chunkSize, scenario.separators) /\ With(After) # <<>>
           /\ Framed(stack) = {Piece} \cup Framed(With(After))
           /\ Before({Piece}, Framed(With(After)))
           /\ Active = {} /\ Pending = Framed(stack) /\ at = "off"
<1> DEFINE f == After
           deep == Tail(stack)
           n == Len(Top.pieces)
<1>1. pc = "scan" /\ Top.i \in DOMAIN Top.pieces /\ Top.good = Top.i
  BY DEF Big
<1>2. /\ Framework /\ Working /\ scenario.op = "recursive"
      /\ Top \in Frames(scenario.separators)
      /\ FrameOK(Top, text, chunkSize, scenario.separators)
      /\ Top.pieces \in Seq(Interval)
      /\ n \in Nat /\ DOMAIN Top.pieces = 1 .. n
      /\ Top.good \in Nat /\ Top.i \in Nat /\ 1 <= Top.good
      /\ Framed(stack) = Rest(Top) \cup Framed(deep)
      /\ Before(Rest(Top), Framed(deep))
      /\ Active = {} /\ Pending = Framed(stack) /\ at = "off"
  BY <1>1, ScanIs
<1>3. InputInv /\ StackInv
  BY DEF SplitInv
<1>4. /\ f \in Frames(scenario.separators)
      /\ f.pieces = Top.pieces /\ f.separator = Top.separator /\ f.seps = Top.seps
      /\ f.good = Top.good + 1 /\ f.i = Top.i + 1
  <2> DEFINE h == [Top EXCEPT !.i = @ + 1]
  <2>1. /\ h \in Frames(scenario.separators) /\ h.good \in Nat
        /\ h.pieces = Top.pieces /\ h.separator = Top.separator /\ h.seps = Top.seps
        /\ h.good = Top.good /\ h.i = Top.i + 1
    BY <1>2 DEF Frames
  <2>2. f = [h EXCEPT !.good = @ + 1]
    BY DEF After
  <2>. HIDE DEF h, f
  <2>3. /\ f \in Frames(scenario.separators)
        /\ f.pieces = h.pieces /\ f.separator = h.separator /\ f.seps = h.seps
        /\ f.good = h.good + 1 /\ f.i = h.i
    BY <2>1, <2>2 DEF Frames
  <2>4. QED
    BY <2>1, <2>3
<1>. HIDE DEF f, deep, n
<1>5. n = Len(Top.pieces) /\ f = After /\ deep = Tail(stack)
  BY DEF n, f, deep
<1>6. /\ Top.good <= f.good /\ f.good <= f.i /\ f.i <= n + 1
      /\ \A l \in f.good .. f.i - 1 : FALSE
  BY <1>1, <1>2, <1>4
<1>7. /\ StackOK(With(f), text, chunkSize, scenario.separators) /\ With(f) # <<>>
      /\ Framed(With(f)) = Rest(f) \cup Framed(Tail(stack))
  BY <1>2, <1>3, <1>4, <1>5, <1>6, TopMoves
<1>8. Piece = Top.pieces[Top.i] /\ Piece \in Interval
  BY <1>1, <1>2 DEF Piece
<1>9. Chain(text, Top.pieces, Top.separator) /\ Top.separator \in Seq(Range(Top.separator))
  <2>1. Top.separator \in Seps
    BY <1>2, RestType DEF Seps
  <2>2. QED
    BY <1>2, <1>3, <2>1, GivenTypes DEF FrameOK, Cut
<1>10. 1 <= Piece.from /\ Piece.from <= Piece.to /\ Piece.to <= Len(text) + 1
  BY <1>1, <1>8, <1>9 DEF Chain
<1>11. Rest(Top) = {Piece} \cup Rest(f)
  <2>1. /\ \A l \in Top.good .. n : l = Top.i \/ l \in f.good .. n
        /\ \A l \in f.good .. n : l \in Top.good .. n
        /\ Top.i \in Top.good .. n
    BY <1>1, <1>2, <1>4
  <2>2. QED
    BY <1>4, <1>5, <1>8, <2>1 DEF Rest
<1>12. Before({Piece}, Rest(f))
  <2>1. SUFFICES ASSUME NEW m \in f.good .. n PROVE Piece.to <= Top.pieces[m].from
    BY <1>4, <1>5 DEF Before, Rest
  <2>2. m \in DOMAIN Top.pieces /\ Top.i < m
    BY <1>1, <1>2, <1>4
  <2>3. QED
    BY <1>1, <1>8, <1>9, <2>2, ChainOrder
<1>13. Before({Piece}, Framed(With(f)))
  <2>1. Before({Piece}, Framed(deep))
    BY <1>2, <1>11 DEF Before
  <2>2. QED
    BY <1>5, <1>7, <1>12, <2>1 DEF Before
<1>14. Framed(stack) = {Piece} \cup Framed(With(f))
  BY <1>2, <1>5, <1>7, <1>11
<1>15. Piece.from \in Nat /\ Piece.to \in Nat
  BY <1>8, PartType
<1>16. QED
  BY <1>1, <1>2, <1>3, <1>5, <1>7, <1>8, <1>10, <1>13, <1>14, <1>15

\* A big split is split again, by a call that has nothing else to do.
LEMMA SplitBigKeeps == SplitInv /\ SplitBig => SplitInv'
<1>1. SUFFICES ASSUME SplitInv, SplitBig PROVE SplitInv'
  OBVIOUS
<1> DEFINE g == Call(Piece, Top.seps)
           under == With(After)
<1>2. /\ Big /\ Top.seps # <<>> /\ left' = Piece /\ parts' = <<>> /\ pc' = "split"
      /\ stack' = <<g>> \o under
      /\ UNCHANGED <<mergeVars, text, scenario, chunks>>
  BY <1>1 DEF SplitBig, BeginSplit, Goto
<1>3. /\ InputInv /\ StackInv /\ Framework /\ Working /\ scenario.op = "recursive"
      /\ FrameOK(Top, text, chunkSize, scenario.separators)
      /\ Top \in Frames(scenario.separators)
      /\ Piece \in Interval /\ Piece.from \in Nat /\ Piece.to \in Nat
      /\ 1 <= Piece.from /\ Piece.from <= Piece.to /\ Piece.to <= Len(text) + 1
      /\ StackOK(under, text, chunkSize, scenario.separators)
      /\ Framed(stack) = {Piece} \cup Framed(under)
      /\ Before({Piece}, Framed(under))
      /\ Active = {} /\ Pending = Framed(stack) /\ at = "off"
  BY <1>1, <1>2, BigIs
<1>4. /\ g \in Frames(scenario.separators)
      /\ FrameOK(g, text, chunkSize, scenario.separators)
      /\ Rest(g) = {} /\ g.pieces = <<>>
  <2>1. Top.seps \in Seq(Seps)
    BY <1>3, RestType DEF Seps
  <2>2. EndsEmpty(scenario.separators) => EndsEmpty(Top.seps)
    BY <1>2, <1>3 DEF FrameOK
  <2>3. QED
    BY <1>2, <1>3, <2>1, <2>2, CallIs
<1>. HIDE DEF g, under
<1>5. /\ StackOK(<<g>> \o under, text, chunkSize, scenario.separators)
      /\ Framed(<<g>> \o under) = Rest(g) \cup Framed(under)
      /\ Head(<<g>> \o under) = g /\ <<g>> \o under # <<>>
  <2>1. Before(Rest(g), Framed(under))
    BY <1>4 DEF Before
  <2>2. g \in Frames(scenario.separators) /\ FrameOK(g, text, chunkSize, scenario.separators)
    BY <1>4
  <2>3. StackOK(under, text, chunkSize, scenario.separators)
    BY <1>3
  <2>4. QED
    BY <2>1, <2>2, <2>3, Entering
<1>6. Framed(stack') = Framed(under)
  BY <1>2, <1>4, <1>5
<1>7. UNCHANGED <<blanks, chunkSize, chunkOverlap, at>>
  BY <1>2 DEF mergeVars, inputVars, loopVars
<1> DEFINE none == <<>>
<1>8. none \in Seq(Interval) /\ Range(none) = {} /\ DOMAIN none = {} /\ Len(none) = 0 /\ parts' = none
  BY <1>2 DEF Range
<1>. HIDE DEF none
<1>9. /\ Append(none, Piece) \in Seq(Interval) /\ DOMAIN Append(none, Piece) = 1 .. Len(none) + 1
      /\ Append(none, Piece)[Len(none) + 1] = Piece
      /\ Range(Append(none, Piece)) = Range(none) \cup {Piece}
  <2>1. none \in Seq(Interval) /\ Piece \in Interval
    BY <1>3, <1>8
  <2>2. QED
    BY <2>1, AppendAt
<1>10. Active' = {Piece}
  BY <1>2, <1>8, <1>9 DEF Active
<1>11. Framework'
  <2>1. InputInv'
    BY <1>2, <1>3, <1>5, <1>7 DEF InputInv, Working
  <2>2. StackInv'
    BY <1>2, <1>3, <1>5, <1>6, <1>7, <1>10 DEF StackInv
  <2>3. PartsInv'
    <3>1. Chain(text, Append(none, Piece), Separator')
      <4> DEFINE u == Append(none, Piece)
      <4>1. u \in Seq(Interval) /\ DOMAIN u = {1} /\ u[1] = Piece
        BY <1>8, <1>9
      <4>. HIDE DEF u
      <4>2. Chain(text, u, Separator')
        BY <1>3, <4>1 DEF Chain
      <4>3. QED
        BY <4>2 DEF u
    <3>2. Units(none)
      BY <1>8 DEF Units
    <3>3. Top'.pieces = <<>>
      BY <1>2, <1>4, <1>5 DEF Top
    <3>4. QED
      BY <1>2, <1>3, <1>8, <3>1, <3>2, <3>3 DEF PartsInv
  <2>4. MergeInv'
    BY <1>2, <1>3, <1>7 DEF MergeInv
  <2>5. QED
    BY <2>1, <2>2, <2>3, <2>4 DEF Framework
<1>12. Pending' = Pending
  BY <1>3, <1>6, <1>10 DEF Pending
<1>13. QED
  BY <1>1, <1>2, <1>3, <1>7, <1>11, <1>12, PendingSame

\* The chunks stay in order when one is put that comes after them.
LEMMA InOrderAppend ==
    ASSUME NEW cs \in Seq(Interval), InOrder(cs), NEW I \in Interval, I.from <= I.to,
           \A k \in DOMAIN cs : cs[k].from <= cs[k].to /\ cs[k].to <= I.from
    PROVE  InOrder(Append(cs, I))
<1> DEFINE n == Len(cs)
           u == Append(cs, I)
<1>1. /\ DOMAIN cs = 1 .. n /\ DOMAIN u = 1 .. n + 1 /\ n \in Nat
      /\ u[n + 1] = I /\ \A k \in 1 .. n : u[k] = cs[k]
  BY AppendAt
<1>. HIDE DEF n, u
<1>2. ASSUME NEW k \in DOMAIN u, k + 1 \in DOMAIN u
      PROVE  u[k].from <= u[k + 1].from /\ u[k].to <= u[k + 1].to
  <2>1. k \in 1 .. n
    BY <1>1, <1>2
  <2>2. CASE k + 1 \in 1 .. n
    BY <1>1, <2>1, <2>2 DEF InOrder
  <2>3. CASE k + 1 = n + 1
    <3>1. /\ cs[k].from <= cs[k].to /\ cs[k].to <= I.from
          /\ cs[k].from \in Nat /\ cs[k].to \in Nat /\ I.from \in Nat /\ I.to \in Nat
      BY <1>1, <2>1, PartType
    <3>2. cs[k].from <= I.from /\ cs[k].to <= I.to
      BY <3>1
    <3>3. u[k] = cs[k] /\ u[k + 1] = I
      BY <1>1, <2>1, <2>3
    <3>4. QED
      BY <3>2, <3>3
  <2>4. QED
    BY <1>1, <1>2, <2>1, <2>2, <2>3
<1>3. QED
  BY <1>2 DEF InOrder, u

\* A big split that nothing is left to cut it at is put as it is.
LEMMA PutBigKeeps == SplitInv /\ PutBig => SplitInv'
<1>1. SUFFICES ASSUME SplitInv, PutBig PROVE SplitInv'
  OBVIOUS
<1> DEFINE under == With(After)
<1>2. /\ Big /\ pc = "scan" /\ Top.seps = <<>> /\ chunks' = Append(chunks, Piece) /\ stack' = under
      /\ UNCHANGED <<mergeVars, text, scenario, parts, left, pc>>
  BY <1>1 DEF PutBig, Big
<1>3. /\ InputInv /\ StackInv /\ Framework /\ Working /\ scenario.op = "recursive"
      /\ FrameOK(Top, text, chunkSize, scenario.separators)
      /\ Top.i \in DOMAIN Top.pieces
      /\ Piece \in Interval /\ Piece.from \in Nat /\ Piece.to \in Nat
      /\ Piece.from <= Piece.to
      /\ StackOK(under, text, chunkSize, scenario.separators) /\ under # <<>>
      /\ Framed(stack) = {Piece} \cup Framed(under)
      /\ Before({Piece}, Framed(under))
      /\ Active = {} /\ Pending = Framed(stack)
  BY <1>1, <1>2, BigIs
<1>. HIDE DEF under
<1>4. PartsInv /\ MergeInv /\ ChunksInv /\ KeptInv /\ FitInv
  BY <1>1 DEF SplitInv
<1>5. UNCHANGED <<blanks, chunkSize, chunkOverlap, at>>
  BY <1>2 DEF mergeVars, inputVars, loopVars
<1>6. Active' = {} /\ Pending' = Framed(under)
  BY <1>2 DEF Active, Pending
<1>7. InputInv' /\ StackInv' /\ PartsInv' /\ MergeInv'
  <2>1. InputInv'
    BY <1>2, <1>3, <1>5 DEF InputInv, Working
  <2>2. StackInv'
    BY <1>2, <1>3, <1>5, <1>6 DEF StackInv, Before
  <2>3. PartsInv' /\ MergeInv'
    BY <1>2, <1>4, <1>5 DEF PartsInv, MergeInv
  <2>4. QED
    BY <2>1, <2>2, <2>3
<1>8. chunks \in Seq(Interval) /\ DOMAIN chunks = 1 .. Len(chunks) /\ Len(chunks) \in Nat
  BY <1>4 DEF ChunksInv
<1>9. /\ chunks' \in Seq(Interval) /\ DOMAIN chunks' = 1 .. Len(chunks) + 1
      /\ chunks'[Len(chunks) + 1] = Piece /\ \A k \in 1 .. Len(chunks) : chunks'[k] = chunks[k]
      /\ Range(chunks') = Range(chunks) \cup {Piece}
  BY <1>2, <1>3, <1>8, AppendAt
<1>10. \A k \in 1 .. Len(chunks) + 1 : k \in 1 .. Len(chunks) \/ k = Len(chunks) + 1
  BY <1>8
<1>11. ChunksInv'
  <2>1. \A k \in DOMAIN chunks : chunks[k].from <= chunks[k].to /\ chunks[k].to <= Piece.from
    BY <1>3, <1>4 DEF ChunksInv, Before, Range
  <2>2. InOrder(chunks')
    BY <1>2, <1>3, <1>4, <1>8, <2>1, InOrderAppend DEF ChunksInv
  <2>3. Before(Range(chunks'), Pending')
    BY <1>3, <1>4, <1>6, <1>9 DEF ChunksInv, Before
  <2>4. \A k \in DOMAIN chunks' : chunks'[k].from <= chunks'[k].to
    BY <1>3, <1>8, <1>9, <1>10, <2>1
  <2>5. QED
    BY <1>9, <2>2, <2>3, <2>4 DEF ChunksInv
<1>12. KeptInv'
  <2>1. Seps' = Seps
    BY <1>2 DEF Seps
  <2>2. \A p : Within(p, Pending) => Within(p, Pending') \/ Within(p, Range(chunks'))
    BY <1>3, <1>6, <1>9 DEF Within
  <2>3. \A p : Within(p, Range(chunks)) => Within(p, Range(chunks'))
    BY <1>9 DEF Within
  <2>4. QED
    BY <1>2, <1>3, <1>4, <2>1, <2>2, <2>3 DEF KeptInv, Cast
<1>13. FitInv'
  <2>1. Seps' = Seps /\ Fitting' = Fitting
    BY <1>2 DEF Seps, Fitting
  <2>2. SUFFICES ASSUME Fitting PROVE Length(Piece) <= chunkSize
    BY <1>4, <1>5, <1>8, <1>9, <1>10, <2>1 DEF FitInv
  <2>3. Top.separator = <<>>
    BY <1>2, <1>3, <2>2 DEF Fitting, FrameOK
  <2>4. Piece.to = Piece.from + 1
    BY <1>3, <2>3 DEF FrameOK, Cut, Units, Piece
  <2>5. chunkSize \in Int /\ chunkSize >= 1
    BY <1>3 DEF InputInv
  <2>6. QED
    BY <1>3, <2>4, <2>5 DEF Length
<1>14. QED
  BY <1>7, <1>11, <1>12, <1>13 DEF SplitInv

\* What utils::trim leaves: a part that begins and ends in what is not white space,
\* with all that is not.
LEMMA TrimmedIs ==
    ASSUME NEW a \in Nat, NEW b \in Nat, ~(a .. b - 1 \subseteq blanks)
    PROVE  /\ Trimmed(a, b) \in Interval
           /\ Trimmed(a, b).from \in Nat /\ Trimmed(a, b).to \in Nat
           /\ a <= Trimmed(a, b).from /\ Trimmed(a, b).from < Trimmed(a, b).to
           /\ Trimmed(a, b).to <= b
           /\ Trimmed(a, b).from \notin blanks /\ Trimmed(a, b).to - 1 \notin blanks
           /\ \A p \in a .. b - 1 :
                 p \in blanks \/ (Trimmed(a, b).from <= p /\ p < Trimmed(a, b).to)
<1> DEFINE black == {p \in a .. b - 1 : p \notin blanks}
<1>1. black \in SUBSET Nat /\ black # {} /\ \A x \in black : x <= b
  OBVIOUS
<1>2. /\ \A p \in a .. b - 1 : p \in blanks \/ p \in black
      /\ \A p \in black : a <= p /\ p <= b - 1 /\ p \notin blanks
  OBVIOUS
<1>3. Trimmed(a, b) = Part(Min(black), Max(black) + 1)
  BY DEF Trimmed
<1>. HIDE DEF black
<1>4. Min(black) \in black /\ \A x \in black : Min(black) <= x
  BY <1>1, MinIs
<1>5. Max(black) \in black /\ \A x \in black : x <= Max(black)
  BY <1>1, MaxIs
<1>6. PICK x, y \in black : x = Min(black) /\ y = Max(black)
  BY <1>4, <1>5
<1>7. x \in Nat /\ y \in Nat /\ y + 1 \in Nat /\ (y + 1) - 1 = y
  BY <1>1
<1>8. Trimmed(a, b) \in Interval /\ Trimmed(a, b).from = x /\ Trimmed(a, b).to = y + 1
  BY <1>3, <1>6, <1>7, PartType
<1>9. a <= x /\ x < y + 1 /\ y + 1 <= b
  BY <1>2, <1>4, <1>6, <1>7
<1>10. \A p \in a .. b - 1 : p \in blanks \/ (x <= p /\ p < y + 1)
  BY <1>2, <1>4, <1>5, <1>6, <1>7
<1>11. x \notin blanks /\ (y + 1) - 1 \notin blanks
  BY <1>2, <1>6, <1>7
<1>12. QED
  BY <1>7, <1>8, <1>9, <1>10, <1>11

\* A document behind another is not before it when both are trimmed.
LEMMA TrimmedGrows ==
    ASSUME NEW a \in Nat, NEW b \in Nat, NEW c \in Nat, NEW d \in Nat, a <= c, b <= d,
           ~(a .. b - 1 \subseteq blanks), ~(c .. d - 1 \subseteq blanks)
    PROVE  /\ Trimmed(a, b).from <= Trimmed(c, d).from
           /\ Trimmed(a, b).to <= Trimmed(c, d).to
<1>1. PICK T, U : T = Trimmed(a, b) /\ U = Trimmed(c, d)
  OBVIOUS
<1>2. /\ T.from \in Nat /\ T.to \in Nat /\ a <= T.from /\ T.from < T.to /\ T.to <= b
      /\ T.to - 1 \notin blanks
      /\ \A p \in a .. b - 1 : p \in blanks \/ (T.from <= p /\ p < T.to)
  BY <1>1, TrimmedIs
<1>3. /\ U.from \in Nat /\ U.to \in Nat /\ c <= U.from /\ U.from < U.to /\ U.to <= d
      /\ U.from \notin blanks
      /\ \A p \in c .. d - 1 : p \in blanks \/ (U.from <= p /\ p < U.to)
  BY <1>1, TrimmedIs
<1>4. T.from <= U.from
  <2>1. CASE U.from <= b - 1
    <3>1. U.from \in a .. b - 1
      BY <1>3, <2>1
    <3>2. QED
      BY <1>2, <1>3, <3>1
  <2>2. CASE ~(U.from <= b - 1)
    BY <1>2, <1>3, <2>2
  <2>3. QED
    BY <2>1, <2>2
<1>5. T.to <= U.to
  <2>1. CASE c <= T.to - 1
    <3>1. T.to - 1 \in c .. d - 1
      BY <1>2, <2>1
    <3>2. T.to - 1 < U.to
      BY <1>2, <1>3, <3>1
    <3>3. QED
      BY <1>2, <1>3, <3>2
  <2>2. CASE ~(c <= T.to - 1)
    BY <1>2, <1>3, <2>2
  <2>3. QED
    BY <2>1, <2>2
<1>6. QED
  BY <1>1, <1>4, <1>5

\* What _merge_splits_and_put puts for a document.
Whole(k) == Trimmed(splits[docs[k].first].from, splits[docs[k].last].to)

\* A document is of splits, and what is put for it is within them.
LEMMA WholeIs ==
    ASSUME LoopInv, Visible, at = "done", NEW k \in DOMAIN docs
    PROVE  /\ docs[k].first \in DOMAIN splits /\ docs[k].last \in DOMAIN splits
           /\ docs[k].first \in Nat /\ docs[k].last \in Nat /\ docs[k].first <= docs[k].last
           /\ splits[docs[k].first].from \in Nat /\ splits[docs[k].last].to \in Nat
           /\ ~(splits[docs[k].first].from .. splits[docs[k].last].to - 1 \subseteq blanks)
           /\ Whole(k) \in Interval /\ Whole(k).from \in Nat /\ Whole(k).to \in Nat
           /\ splits[docs[k].first].from <= Whole(k).from /\ Whole(k).from < Whole(k).to
           /\ Whole(k).to <= splits[docs[k].last].to
           /\ Whole(k).from \notin blanks
           /\ \A p \in splits[docs[k].first].from .. splits[docs[k].last].to - 1 :
                 p \in blanks \/ (Whole(k).from <= p /\ p < Whole(k).to)
<1>1. /\ docs \in Seq(Documents) /\ next = Len(splits) + 1
      /\ docs[k].first <= docs[k].last /\ docs[k].last < next
      /\ splits \in Seq(Interval) /\ Inputs
  BY DEF LoopInv, LoopTypes, LoopOK, DocsBehind, Inputs
<1>2. docs[k] \in Documents
  BY <1>1
<1>3. docs[k].first \in Nat \ {0} /\ docs[k].last \in Nat \ {0}
  BY <1>2 DEF Documents
<1>4. docs[k].first \in DOMAIN splits /\ docs[k].last \in DOMAIN splits
  BY <1>1, <1>3
<1>5. PICK a, b \in Nat : a = splits[docs[k].first].from /\ b = splits[docs[k].last].to
  BY <1>1, <1>4, Ordered
<1>6. ~(a .. b - 1 \subseteq blanks)
  BY <1>5 DEF Visible, Blank
<1>7. Whole(k) = Trimmed(a, b)
  BY <1>5 DEF Whole
<1>8. /\ Whole(k) \in Interval /\ Whole(k).from \in Nat /\ Whole(k).to \in Nat
      /\ a <= Whole(k).from /\ Whole(k).from < Whole(k).to
      /\ Whole(k).to <= b /\ Whole(k).from \notin blanks
      /\ \A p \in a .. b - 1 : p \in blanks \/ (Whole(k).from <= p /\ p < Whole(k).to)
  BY <1>6, <1>7, TrimmedIs
<1>9. QED
  BY <1>1, <1>3, <1>4, <1>5, <1>6, <1>8

\* With white separators, and single characters behind the last of them, what is put
\* for a document is not too long.
LEMMA WholeFits ==
    ASSUME InputInv, StackInv, MergeInv, pc = "merge", at = "done", Fitting, NEW k \in DOMAIN docs
    PROVE  Length(Whole(k)) <= chunkSize
<1>1. /\ LoopInv /\ Visible /\ Cut(text, splits, Separator) /\ Working
      /\ \A n \in DOMAIN splits : Length(splits[n]) < chunkSize
  BY DEF MergeInv, Fitting, Working
<1>2. Inputs /\ splits \in Seq(Interval) /\ chunkSize \in Nat
  BY <1>1 DEF LoopInv, Inputs
<1>3. PICK f, l \in DOMAIN splits : f = docs[k].first /\ l = docs[k].last
  BY <1>1, WholeIs
<1>4. f \in Nat /\ l \in Nat /\ f <= l
  BY <1>1, <1>3, WholeIs
<1>5. /\ splits[f].from \in Nat /\ splits[f].to \in Nat /\ splits[l].from \in Nat /\ splits[l].to \in Nat
      /\ splits[f].from <= splits[f].to /\ splits[l].from <= splits[l].to
  BY <1>2, <1>4, Ordered
<1>6. PICK T : T = Whole(k)
  OBVIOUS
<1>7. /\ T.from \in Nat /\ T.to \in Nat /\ splits[f].from <= T.from /\ T.to <= splits[l].to
      /\ T.from \notin blanks
  BY <1>1, <1>3, <1>6, WholeIs
<1>8. SUFFICES T.to - T.from <= chunkSize
  BY <1>6 DEF Length
<1>9. Fits(docs[k])
  BY <1>1 DEF LoopInv, DocumentsFit
<1>10. CASE Extent(f, l) <= chunkSize
  BY <1>2, <1>5, <1>7, <1>10 DEF Extent
<1>11. CASE f = l
  <2>1. splits[f].to - splits[f].from < chunkSize
    BY <1>1 DEF Length
  <2>2. QED
    BY <1>2, <1>5, <1>7, <1>11, <2>1
<1>12. CASE Extent(f, l - 1) = 0 /\ f # l
  <2>1. PICK m \in Nat : m = l - 1
    BY <1>4, <1>12
  <2>2. m \in DOMAIN splits /\ f <= m /\ m < l /\ m + 1 = l
    BY <1>2, <1>4, <1>12, <2>1
  <2>3. /\ splits[m].from \in Nat /\ splits[m].to \in Nat /\ splits[m].from <= splits[m].to
        /\ splits[f].from <= splits[m].from /\ splits[f].to <= splits[m].to
    BY <1>2, <2>2, Ordered
  <2>4. splits[m].to = splits[f].from
    BY <1>5, <1>12, <2>1, <2>3 DEF Extent
  <2>5. splits[f].to = splits[f].from
    BY <1>5, <2>3, <2>4
  <2>6. Separator # <<>>
    <3>1. SUFFICES ASSUME Separator = <<>> PROVE FALSE
      OBVIOUS
    <3>2. splits[f].to = splits[f].from + 1
      BY <1>1, <3>1 DEF Cut, Units
    <3>3. QED
      BY <1>5, <2>5, <3>2
  <2>7. PICK sep : sep = Separator
    OBVIOUS
  <2>8. sep \in Seps /\ sep \in Seq(Range(sep)) /\ Len(sep) \in Nat /\ sep # <<>>
    BY <1>1, <2>6, <2>7, SeparatorType
  <2>9. Len(sep) >= 1 /\ DOMAIN sep = 1 .. Len(sep)
    BY <2>8
  <2>10. Chain(text, splits, sep)
    BY <1>1, <2>7 DEF Cut
  <2>11. /\ splits[l].from = splits[m].to + Len(sep)
         /\ \A j \in DOMAIN sep : text[splits[m].to + j - 1] = sep[j]
    BY <2>2, <2>10 DEF Chain
  <2>12. 1 <= splits[f].from /\ splits[l].to <= Len(text) + 1
    BY <2>10 DEF Chain
  <2>13. T.from >= splits[l].from
    <3>1. SUFFICES ASSUME T.from < splits[l].from PROVE FALSE
      BY <1>5, <1>7
    <3>2. PICK j \in Nat : j = T.from - splits[m].to + 1
      BY <1>5, <1>7, <2>3, <2>4
    <3>3. j \in DOMAIN sep /\ splits[m].to + j - 1 = T.from
      <4>1. splits[m].to <= T.from /\ T.from < splits[m].to + Len(sep)
        BY <1>7, <2>4, <2>11, <3>1
      <4>2. \A x, y \in Nat, z \in Nat :
               x <= y /\ y < x + z => y - x + 1 \in 1 .. z /\ x + (y - x + 1) - 1 = y
        OBVIOUS
      <4>3. QED
        BY <1>7, <2>3, <2>8, <2>9, <3>2, <4>1, <4>2
    <3>4. text[T.from] = sep[j]
      BY <2>11, <3>3
    <3>5. Range(sep) \subseteq White
      BY <2>8 DEF Fitting
    <3>6. text[T.from] \in White
      BY <3>3, <3>4, <3>5 DEF Range
    <3>7. T.from \in DOMAIN text
      <4>1. Len(text) \in Nat /\ DOMAIN text = 1 .. Len(text)
        BY GivenTypes
      <4>2. QED
        BY <1>5, <1>7, <2>12, <3>1, <4>1
    <3>8. QED
      BY <1>7, <3>6, <3>7 DEF InputInv
  <2>14. splits[l].to - splits[l].from < chunkSize
    BY <1>1 DEF Length
  <2>15. QED
    BY <1>2, <1>5, <1>7, <2>13, <2>14
<1>13. QED
  BY <1>3, <1>9, <1>10, <1>11, <1>12 DEF Fits

\* Chunks behind chunks are in order.
LEMMA InOrderConcat ==
    ASSUME NEW cs \in Seq(Interval), NEW ds \in Seq(Interval), InOrder(cs), InOrder(ds),
           \A k \in DOMAIN cs : cs[k].from <= cs[k].to,
           \A l \in DOMAIN ds : ds[l].from <= ds[l].to,
           \A k \in DOMAIN cs, l \in DOMAIN ds : cs[k].to <= ds[l].from
    PROVE  /\ cs \o ds \in Seq(Interval) /\ InOrder(cs \o ds)
           /\ Range(cs \o ds) = Range(cs) \cup Range(ds)
           /\ \A k \in DOMAIN (cs \o ds) : (cs \o ds)[k] \in Range(cs) \cup Range(ds)
<1> DEFINE u == cs \o ds
           m == Len(cs)
           n == Len(ds)
<1>1. m \in Nat /\ n \in Nat /\ DOMAIN cs = 1 .. m /\ DOMAIN ds = 1 .. n
  OBVIOUS
<1>2. /\ u \in Seq(Interval) /\ Len(u) = m + n /\ DOMAIN u = 1 .. m + n
      /\ \A k \in 1 .. m + n : u[k] = IF k <= m THEN cs[k] ELSE ds[k - m]
  BY <1>1, ConcatProperties
<1>. HIDE DEF u, m, n
<1>3. /\ \A k \in 1 .. m : k \in 1 .. m + n /\ u[k] = cs[k]
      /\ \A l \in 1 .. n : l + m \in 1 .. m + n /\ u[l + m] = ds[l]
  <2>1. /\ \A k \in 1 .. m : k \in 1 .. m + n /\ k <= m
        /\ \A l \in 1 .. n : l + m \in 1 .. m + n /\ ~(l + m <= m) /\ (l + m) - m = l
    BY <1>1
  <2>2. QED
    BY <1>2, <2>1
<1>4. \A k \in 1 .. m + n : k \in 1 .. m \/ (k - m \in 1 .. n /\ (k - m) + m = k)
  BY <1>1
<1>5. Range(u) = Range(cs) \cup Range(ds)
  <2>1. \A k \in 1 .. m + n : u[k] \in Range(cs) \cup Range(ds)
    <3>1. TAKE k \in 1 .. m + n
    <3>2. CASE k \in 1 .. m
      BY <1>1, <1>3, <3>2 DEF Range
    <3>3. CASE k - m \in 1 .. n /\ (k - m) + m = k
      <4>1. PICK l \in 1 .. n : l + m = k
        BY <3>3
      <4>2. u[k] = ds[l]
        BY <1>3, <4>1
      <4>3. QED
        BY <1>1, <4>2 DEF Range
    <3>4. QED
      BY <1>4, <3>2, <3>3
  <2>2. Range(cs) \subseteq Range(u) /\ Range(ds) \subseteq Range(u)
    <3>1. \A k \in 1 .. m : cs[k] \in Range(u)
      <4>1. TAKE k \in 1 .. m
      <4>2. k \in DOMAIN u /\ u[k] = cs[k]
        BY <1>2, <1>3
      <4>3. QED
        BY <4>2 DEF Range
    <3>2. \A l \in 1 .. n : ds[l] \in Range(u)
      <4>1. TAKE l \in 1 .. n
      <4>2. l + m \in DOMAIN u /\ u[l + m] = ds[l]
        BY <1>2, <1>3
      <4>3. QED
        BY <4>2 DEF Range
    <3>3. QED
      BY <1>1, <3>1, <3>2 DEF Range
  <2>3. QED
    BY <1>2, <2>1, <2>2 DEF Range
<1>6. ASSUME NEW k \in DOMAIN u, k + 1 \in DOMAIN u
      PROVE  u[k].from <= u[k + 1].from /\ u[k].to <= u[k + 1].to
  <2>1. CASE k \in 1 .. m /\ k + 1 \in 1 .. m
    BY <1>1, <1>3, <2>1 DEF InOrder
  <2>2. CASE k \in 1 .. m /\ k + 1 \notin 1 .. m
    <3>1. k = m /\ 1 \in 1 .. n /\ 1 + m = k + 1
      BY <1>1, <1>2, <1>6, <2>2
    <3>2. u[k] = cs[k] /\ u[k + 1] = ds[1]
      BY <1>3, <2>2, <3>1
    <3>3. /\ cs[k].from <= cs[k].to /\ cs[k].to <= ds[1].from /\ ds[1].from <= ds[1].to
          /\ cs[k].from \in Nat /\ cs[k].to \in Nat /\ ds[1].from \in Nat /\ ds[1].to \in Nat
      BY <1>1, <2>2, <3>1, PartType
    <3>4. QED
      BY <3>2, <3>3
  <2>3. CASE k \notin 1 .. m
    <3>1. PICK l \in 1 .. n : l + m = k
      BY <1>2, <1>4, <1>6, <2>3
    <3>2. l + 1 \in 1 .. n /\ (l + 1) + m = k + 1
      BY <1>1, <1>2, <1>6, <3>1
    <3>3. u[k] = ds[l] /\ u[k + 1] = ds[l + 1]
      BY <1>3, <3>1, <3>2
    <3>4. QED
      BY <1>1, <3>1, <3>2, <3>3 DEF InOrder
  <2>4. QED
    BY <2>1, <2>2, <2>3
<1>7. InOrder(u)
  BY <1>6 DEF InOrder
<1>8. \A k \in DOMAIN u : u[k] \in Range(u)
  BY DEF Range
<1>9. QED
  BY <1>2, <1>5, <1>7, <1>8 DEF u

\* The documents are put as chunks in the place of their splits.
LEMMA PutMergedKeeps == SplitInv /\ PutMerged => SplitInv'
<1>1. SUFFICES ASSUME SplitInv, PutMerged PROVE SplitInv'
  OBVIOUS
<1> DEFINE new == [k \in DOMAIN docs |-> Whole(k)]
<1>2. /\ pc = "merge" /\ at = "done" /\ chunks' = chunks \o new /\ at' = "off"
      /\ pc' = IF stack = <<>> THEN "done" ELSE "scan"
      /\ UNCHANGED <<blanks, chunkSize, chunkOverlap, text, scenario, parts, left, stack>>
  BY <1>1 DEF PutMerged, Goto, Whole, inputVars
<1>3. /\ InputInv /\ StackInv /\ MergeInv /\ ChunksInv /\ KeptInv /\ FitInv /\ Framework /\ Working
  BY <1>1, <1>2 DEF SplitInv, Framework, Working
<1>4. LoopInv /\ Visible /\ Inputs
  BY <1>2, <1>3 DEF MergeInv, LoopInv
<1>5. docs \in Seq(Documents) /\ splits \in Seq(Interval)
  BY <1>4 DEF LoopInv, LoopTypes, Inputs
<1>6. Active = Range(splits) /\ Pending = Range(splits) \cup Framed(stack)
  BY <1>2 DEF Active, Pending
<1>7. Active' = {} /\ Pending' = Framed(stack)
  BY <1>2 DEF Active, Pending
<1>8. /\ new \in Seq(Interval) /\ DOMAIN new = DOMAIN docs
      /\ \A k \in DOMAIN docs : new[k] = Whole(k)
  <2>1. DOMAIN docs = 1 .. Len(docs) /\ Len(docs) \in Nat
    BY <1>5
  <2>2. \A k \in DOMAIN docs : Whole(k) \in Interval
    BY <1>2, <1>4, WholeIs
  <2>3. QED
    BY <2>1, <2>2
<1>. HIDE DEF new
<1>9. Range(new) = {Whole(k) : k \in DOMAIN docs}
  BY <1>8 DEF Range
<1>10. \A k \in DOMAIN new : new[k].from <= new[k].to
  <2>1. TAKE k \in DOMAIN new
  <2>2. Whole(k).from < Whole(k).to /\ Whole(k).from \in Nat /\ Whole(k).to \in Nat
    BY <1>2, <1>4, <1>8, WholeIs
  <2>3. QED
    BY <1>8, <2>2
\* The new chunks are in order, as the documents are.
<1>11. InOrder(new)
  <2>1. SUFFICES ASSUME NEW k \in DOMAIN docs, k + 1 \in DOMAIN docs
                 PROVE  Whole(k).from <= Whole(k + 1).from /\ Whole(k).to <= Whole(k + 1).to
    BY <1>8 DEF InOrder
  <2>2. Follows(docs[k], docs[k + 1])
    BY <1>4, <2>1 DEF LoopInv, DocumentsFit
  <2>3. PICK m : m = k + 1 /\ m \in DOMAIN docs
    BY <2>1
  <2>4. /\ docs[k].first \in DOMAIN splits /\ docs[k].last \in DOMAIN splits
        /\ docs[k].first \in Nat /\ docs[k].last \in Nat
        /\ ~(splits[docs[k].first].from .. splits[docs[k].last].to - 1 \subseteq blanks)
    BY <1>2, <1>4, WholeIs
  <2>5. /\ docs[m].first \in DOMAIN splits /\ docs[m].last \in DOMAIN splits
        /\ docs[m].first \in Nat /\ docs[m].last \in Nat
        /\ ~(splits[docs[m].first].from .. splits[docs[m].last].to - 1 \subseteq blanks)
    BY <1>2, <1>4, <2>3, WholeIs
  <2>6. docs[k].first <= docs[m].first /\ docs[k].last <= docs[m].last
    BY <2>2, <2>3, <2>4, <2>5 DEF Follows
  <2>7. /\ splits[docs[k].first].from <= splits[docs[m].first].from
        /\ splits[docs[k].first].from \in Nat /\ splits[docs[m].first].from \in Nat
    BY <1>4, <2>4, <2>5, <2>6, Ordered
  <2>8. /\ splits[docs[k].last].to <= splits[docs[m].last].to
        /\ splits[docs[k].last].to \in Nat /\ splits[docs[m].last].to \in Nat
    BY <1>4, <2>4, <2>5, <2>6, Ordered
  <2>9. Whole(k).from <= Whole(m).from /\ Whole(k).to <= Whole(m).to
    BY <2>4, <2>5, <2>7, <2>8, TrimmedGrows DEF Whole
  <2>10. QED
    BY <2>3, <2>9
\* They are between the earlier ones and what is still to come.
<1>12. Active \subseteq Interval /\ Framed(stack) \subseteq Interval /\ Before(Active, Framed(stack))
  BY <1>3, PendingType
<1>13. \A k \in DOMAIN docs, J \in Framed(stack) : Whole(k).to <= J.from
  <2>1. TAKE k \in DOMAIN docs, J \in Framed(stack)
  <2>2. /\ Whole(k).to <= splits[docs[k].last].to /\ Whole(k).to \in Nat
        /\ splits[docs[k].last].to \in Nat /\ docs[k].last \in DOMAIN splits
    BY <1>2, <1>4, WholeIs
  <2>3. splits[docs[k].last].to <= J.from
    BY <1>6, <1>12, <2>2 DEF Before, Range
  <2>4. J.from \in Nat
    BY <1>12, PartType
  <2>5. QED
    BY <2>2, <2>3, <2>4
<1>14. chunks \in Seq(Interval) /\ \A k \in DOMAIN chunks : chunks[k].from <= chunks[k].to
  BY <1>3 DEF ChunksInv
<1>15. \A j \in DOMAIN chunks, k \in DOMAIN new : chunks[j].to <= new[k].from
  <2>1. TAKE j \in DOMAIN chunks, k \in DOMAIN new
  <2>2. /\ splits[docs[k].first].from <= Whole(k).from /\ Whole(k).from \in Nat
        /\ splits[docs[k].first].from \in Nat /\ docs[k].first \in DOMAIN splits
    BY <1>2, <1>4, <1>8, WholeIs
  <2>3. chunks[j].to <= splits[docs[k].first].from
    BY <1>3, <1>6, <2>2 DEF ChunksInv, Before, Range
  <2>4. chunks[j].to \in Nat
    BY <1>14, PartType
  <2>5. QED
    BY <1>8, <2>2, <2>3, <2>4
<1>16. /\ chunks' \in Seq(Interval) /\ InOrder(chunks')
       /\ Range(chunks') = Range(chunks) \cup Range(new)
       /\ \A k \in DOMAIN chunks' : chunks'[k] \in Range(chunks) \cup Range(new)
  <2>1. InOrder(chunks)
    BY <1>3 DEF ChunksInv
  <2>2. QED
    BY <1>2, <1>8, <1>10, <1>11, <1>14, <1>15, <2>1, InOrderConcat
<1>17. ChunksInv'
  <2>1. Before(Range(chunks'), Pending')
    <3>1. \A I \in Range(new), J \in Framed(stack) : I.to <= J.from
      BY <1>9, <1>13
    <3>2. \A I \in Range(chunks), J \in Framed(stack) : I.to <= J.from
      BY <1>3, <1>6 DEF ChunksInv, Before
    <3>3. QED
      BY <1>7, <1>16, <3>1, <3>2 DEF Before
  <2>2. \A I \in Range(chunks) \cup Range(new) : I.from <= I.to
    BY <1>10, <1>14 DEF Range
  <2>3. QED
    BY <1>16, <2>1, <2>2 DEF ChunksInv
\* A split that is not white space is in a document.
<1>18. ASSUME NEW q \in DOMAIN text, Within(q, Range(splits))
       PROVE  Cast(text[q]) \/ Within(q, Range(new))
  <2>1. q \in Nat
    BY <1>3, GivenTypes
  <2>2. PICK n \in DOMAIN splits : q \in splits[n].from .. splits[n].to - 1
    BY <1>18 DEF Within, Range
  <2>3. q \in blanks => Cast(text[q])
    BY <1>3 DEF InputInv, Cast
  <2>4. Blank(n, n) \/ \E k \in DOMAIN docs : n \in docs[k].first .. docs[k].last
    BY <1>2, <1>4, LoopKeepsSplits DEF SplitsAreKept
  <2>5. CASE Blank(n, n)
    BY <2>2, <2>3, <2>5 DEF Blank
  <2>6. CASE \E k \in DOMAIN docs : n \in docs[k].first .. docs[k].last
    <3>1. PICK k \in DOMAIN docs : n \in docs[k].first .. docs[k].last
      BY <2>6
    <3>2. /\ docs[k].first \in DOMAIN splits /\ docs[k].last \in DOMAIN splits
          /\ docs[k].first \in Nat /\ docs[k].last \in Nat
          /\ Whole(k).from \in Nat /\ Whole(k).to \in Nat
          /\ \A p \in splits[docs[k].first].from .. splits[docs[k].last].to - 1 :
                p \in blanks \/ (Whole(k).from <= p /\ p < Whole(k).to)
      BY <1>2, <1>4, WholeIs
    <3>3. docs[k].first <= n /\ n <= docs[k].last
      BY <3>1, <3>2
    <3>4. splits[docs[k].first].from <= splits[n].from /\ splits[docs[k].first].from \in Nat
          /\ splits[n].from \in Nat /\ splits[n].to \in Nat
      BY <1>4, <3>2, <3>3, Ordered
    <3>5. splits[n].to <= splits[docs[k].last].to /\ splits[docs[k].last].to \in Nat
      BY <1>4, <3>2, <3>3, Ordered
    <3>6. q \in splits[docs[k].first].from .. splits[docs[k].last].to - 1
      BY <2>1, <2>2, <3>4, <3>5
    <3>7. CASE q \in blanks
      BY <2>3, <3>7
    <3>8. CASE q \notin blanks
      <4>1. q \in Whole(k).from .. Whole(k).to - 1
        BY <2>1, <3>2, <3>6, <3>8
      <4>2. QED
        BY <1>9, <4>1 DEF Within
    <3>9. QED
      BY <3>7, <3>8
  <2>7. QED
    BY <2>4, <2>5, <2>6
<1>19. KeptInv'
  <2>1. Seps' = Seps
    BY <1>2 DEF Seps
  <2>2. \A p : Within(p, Pending) => Within(p, Range(splits)) \/ Within(p, Pending')
    BY <1>6, <1>7 DEF Within
  <2>3. \A p : Within(p, Range(chunks)) \/ Within(p, Range(new)) => Within(p, Range(chunks'))
    BY <1>16 DEF Within
  <2>4. \A p \in DOMAIN text : Cast(text[p]) \/ Within(p, Range(chunks)) \/ Within(p, Pending)
    BY <1>3 DEF KeptInv
  <2>5. QED
    BY <1>2, <1>18, <2>1, <2>2, <2>3, <2>4 DEF KeptInv, Cast
<1>20. FitInv'
  <2>1. Seps' = Seps /\ Fitting' = Fitting
    BY <1>2 DEF Seps, Fitting
  <2>2. SUFFICES ASSUME Fitting
                 PROVE  \A I \in Range(chunks) \cup Range(new) : Length(I) <= chunkSize
    BY <1>2, <1>16, <2>1 DEF FitInv
  <2>3. \A I \in Range(chunks) : Length(I) <= chunkSize
    BY <1>3, <2>2 DEF FitInv, Range
  <2>4. \A k \in DOMAIN docs : Length(Whole(k)) <= chunkSize
    BY <1>2, <1>3, <2>2, WholeFits
  <2>5. QED
    BY <1>9, <2>3, <2>4
<1>21. InputInv'
  <2>1. scenario.op = "recursive" /\ Working' => stack # <<>>
    BY <1>2, <1>3 DEF InputInv, Working
  <2>2. scenario.op = "plain" => stack = <<>>
    BY <1>3 DEF InputInv
  <2>3. QED
    BY <1>2, <1>3, <2>1, <2>2 DEF InputInv, Working
<1>22. StackInv'
  BY <1>2, <1>3, <1>7 DEF StackInv, Before
<1>23. PartsInv' /\ MergeInv'
  BY <1>2 DEF PartsInv, MergeInv
<1>24. QED
  BY <1>17, <1>19, <1>20, <1>21, <1>22, <1>23 DEF SplitInv

-----------------------------------------------------------------------------
\* Every step keeps the invariant.
LEMMA SplitKeeps == SplitInv /\ [Next]_vars => SplitInv'
<1>1. SUFFICES ASSUME SplitInv, [Next]_vars PROVE SplitInv'
  OBVIOUS
<1>2. CASE UNCHANGED vars
  <2>1. UNCHANGED <<text, scenario, parts, left, stack, chunks, pc>> /\ UNCHANGED mergeVars
    BY <1>2 DEF vars
  <2>2. UNCHANGED <<blanks, chunkSize, chunkOverlap, splits, separatorLen, at, docs>>
    BY <2>1 DEF mergeVars, inputVars, loopVars
  <2>3. LoopInv => LoopInv'
    BY <2>1, LoopKeeps
  <2>4. Pending' = Pending /\ Active' = Active
    BY <2>1, <2>2 DEF Pending, Active
  <2>5. InputInv' /\ StackInv'
    BY <1>1, <2>1, <2>2, <2>4 DEF SplitInv, InputInv, Working, StackInv
  <2>6. Separator' = Separator /\ Top' = Top
    BY <2>1 DEF Separator, Top
  <2>7. PartsInv'
    BY <1>1, <2>1, <2>6 DEF SplitInv, PartsInv
  <2>8. MergeInv'
    BY <1>1, <2>1, <2>2, <2>3, <2>6 DEF SplitInv, MergeInv, Visible, Blank
  <2>9. ChunksInv' /\ KeptInv' /\ FitInv'
    <3>1. Seps' = Seps
      BY <2>1 DEF Seps
    <3>2. QED
      BY <1>1, <2>1, <2>2, <2>4, <3>1
         DEF SplitInv, ChunksInv, KeptInv, FitInv, Fitting, Working, Cast
  <2>10. QED
    BY <2>5, <2>7, <2>8, <2>9 DEF SplitInv
<1>3. CASE Next
  <2>1. CASE Convert
    BY <1>1, <2>1, ConvertKeeps
  <2>2. CASE Check
    BY <1>1, <2>2, CheckKeeps
  <2>3. CASE SplitOff
    BY <1>1, <2>3, SplitOffKeeps
  <2>4. CASE SplitDone
    BY <1>1, <2>4, SplitDoneKeeps
  <2>5. CASE Gather
    BY <1>1, <2>5, GatherKeeps
  <2>6. CASE MergeGood
    BY <1>1, <2>6, MergeGoodKeeps
  <2>7. CASE Merges
    BY <1>1, <2>7, MergesKeeps
  <2>8. CASE PutMerged
    BY <1>1, <2>8, PutMergedKeeps
  <2>9. CASE PutBig
    BY <1>1, <2>9, PutBigKeeps
  <2>10. CASE SplitBig
    BY <1>1, <2>10, SplitBigKeeps
  <2>11. CASE Return
    BY <1>1, <2>11, ReturnKeeps
  <2>12. CASE Ended
    BY <1>2, <2>12 DEF Ended
  <2>13. QED
    BY <1>3, <2>1, <2>2, <2>3, <2>4, <2>5, <2>6, <2>7, <2>8, <2>9, <2>10, <2>11, <2>12 DEF Next
<1>4. QED
  BY <1>1, <1>2, <1>3

\* split_text.cpp: whatever the text, the separators and the sizes, what waits to become
\* chunks is parts of the text, behind the chunks that there are, and each character is in
\* one of them, in a chunk, or cast away.
THEOREM SplitInvariant == Spec => []SplitInv
<1>1. SplitInv /\ [Next]_vars => SplitInv'
  BY SplitKeeps
<1>2. QED
  BY <1>1, SplitStarts, PTL DEF Spec

\* split_text.cpp:86-147: when the separators are white space and the last one is
\* empty, no chunk is longer than chunk_size, whatever the text.
THEOREM ChunksAlwaysFit == Spec => []ChunksFit
<1>1. SplitInv => ChunksFit
  <2>1. SUFFICES ASSUME SplitInv, pc = "done", scenario.op = "recursive",
                        scenario.separators[Len(scenario.separators)] = <<>>,
                        \A i \in DOMAIN scenario.separators :
                            Range(scenario.separators[i]) \subseteq White
                 PROVE  \A k \in DOMAIN chunks : chunks[k].to - chunks[k].from <= chunkSize
    BY DEF ChunksFit
  <2>2. InputInv /\ FitInv
    BY <2>1 DEF SplitInv
  <2>3. Fitting
    BY <2>1, <2>2 DEF InputInv, Fitting, Seps, EndsEmpty, Range
  <2>4. QED
    BY <2>2, <2>3 DEF FitInv, Length
<1>2. QED
  BY <1>1, SplitInvariant, PTL

\* split_text.cpp:49-147: no character is lost but white space and the separators', and
\* the chunks are put in the order of the text.
THEOREM NoCharacterIsLost == Spec => []NothingIsLost
<1>1. SplitInv => NothingIsLost
  <2>1. SUFFICES ASSUME SplitInv, pc = "done" PROVE NothingIsLost
    BY DEF NothingIsLost
  <2>2. InputInv /\ ChunksInv /\ KeptInv
    BY <2>1 DEF SplitInv
  <2>3. Pending = {}
    <3>1. stack = <<>>
      BY <2>1, <2>2 DEF InputInv, Working
    <3>2. QED
      BY <2>1, <3>1, NoCalls DEF Pending, Active
  <2>4. ASSUME NEW p \in DOMAIN text
        PROVE  \/ text[p] \in White
               \/ \E i \in DOMAIN scenario.separators : text[p] \in Range(scenario.separators[i])
               \/ \E k \in DOMAIN chunks : p \in chunks[k].from .. chunks[k].to - 1
    <3>1. Cast(text[p]) \/ Within(p, Range(chunks))
      BY <2>1, <2>2, <2>3 DEF KeptInv, Within
    <3>2. CASE Cast(text[p])
      BY <3>2 DEF Cast, Seps, Range
    <3>3. CASE Within(p, Range(chunks))
      BY <3>3 DEF Within, Range
    <3>4. QED
      BY <3>1, <3>2, <3>3
  <2>5. \A k \in DOMAIN chunks : k + 1 \in DOMAIN chunks =>
            chunks[k].from <= chunks[k + 1].from /\ chunks[k].to <= chunks[k + 1].to
    BY <2>2 DEF ChunksInv, InOrder
  <2>6. QED
    BY <2>4, <2>5 DEF NothingIsLost
<1>2. QED
  BY <1>1, SplitInvariant, PTL

\* The documents of the last loop, which stay until the next one.
DocsInv == DocumentsFit /\ (pc = "input" => docs = <<>>)

\* The documents change in the loop only, and the sizes before it.
LEMMA DocsKeep == SplitInv /\ SplitInv' /\ DocsInv /\ [Next]_vars => DocsInv'
<1>1. SUFFICES ASSUME SplitInv', DocsInv, [Next]_vars PROVE DocsInv'
  OBVIOUS
<1>2. CASE pc' = "merge"
  <2>1. LoopInv'
    BY <1>1, <1>2 DEF SplitInv, MergeInv
  <2>2. QED
    BY <1>2, <2>1 DEF DocsInv, LoopInv
<1>3. CASE UNCHANGED <<docs, splits, chunkSize, chunkOverlap, pc>>
  BY <1>1, <1>3 DEF DocsInv, DocumentsFit, Fits, Follows, Extent
<1>4. CASE Convert
  BY <1>1, <1>4 DEF Convert, Goto, loopVars, DocsInv, DocumentsFit
<1>5. CASE UNCHANGED <<docs, splits, chunkSize, chunkOverlap>> /\ pc' # "input"
  BY <1>1, <1>5 DEF DocsInv, DocumentsFit, Fits, Follows, Extent
<1>6. CASE UNCHANGED vars
  BY <1>3, <1>6 DEF vars, mergeVars, inputVars, loopVars
<1>7. CASE Check \/ SplitBig
  BY <1>5, <1>7 DEF Check, SplitBig, BeginSplit, Goto, mergeVars, inputVars, loopVars
<1>8. CASE SplitOff \/ Gather \/ PutBig
  BY <1>5, <1>8 DEF SplitOff, Gather, PutBig, Big, mergeVars, inputVars, loopVars
<1>9. CASE SplitDone
  BY <1>2, <1>5, <1>9 DEF SplitDone, BeginMerge, Goto, mergeVars, inputVars, loopVars
<1>10. CASE MergeGood \/ Merges
  BY <1>2, <1>10 DEF MergeGood, Merges, BeginMerge, Goto
<1>11. CASE PutMerged \/ Return
  BY <1>5, <1>11 DEF PutMerged, Return, Goto, mergeVars, inputVars, loopVars
<1>12. CASE Ended
  BY <1>6, <1>12 DEF Ended
<1>13. QED
  BY <1>1, <1>4, <1>6, <1>7, <1>8, <1>9, <1>10, <1>11, <1>12 DEF Next

\* split_text.cpp:49-83: for every call that the operators make of _merge_splits, the length
\* is counted right and the documents have the sizes asked for.
THEOREM MergedSizesAreKept == Spec => [](TotalIsExtent /\ DocumentsFit)
<1>1. Init => DocsInv
  BY DEF Init, DocsInv, DocumentsFit
<1>2. SplitInv /\ SplitInv' /\ DocsInv /\ [Next]_vars => DocsInv'
  BY DocsKeep
<1>3. SplitInv => TotalIsExtent
  BY DEF SplitInv, MergeInv, LoopInv, TotalIsExtent
<1>4. DocsInv => DocumentsFit
  BY DEF DocsInv
<1>5. QED
  BY <1>1, <1>2, <1>3, <1>4, SplitInvariant, PTL DEF Spec

=============================================================================

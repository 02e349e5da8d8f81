------------------------- MODULE NthElementCollector -------------------------
(***************************************************************************)
(* The bounded top-K hit collector of ha3 (src/aios/ha3/ha3/rank/          *)
(* NthElementCollector.cpp).  The collector owns a pool slab of            *)
(* 2*Size + BATCH_EVALUATE_SCORE_SIZE match-doc handles.  Batches of       *)
(* scored handles are appended to it; a handle that already ranks below    *)
(* the current cut (_minMatchDoc) is rejected on the way in.  When 2*Size  *)
(* handles are buffered an nth_element selection moves the best Size to    *)
(* the front, the cut becomes the handle at position Size-1, and every     *)
(* handle behind it, followed by the rejected ones, is handed back to the  *)
(* caller (retDocs) to be released.                                        *)
(*                                                                         *)
(* The slab is modelled position by position (buf is the written prefix   *)
(* of the slab, Len(buf) its high-water mark) because the handles handed   *)
(* back are a region of the slab, and a wrong offset there leaks or        *)
(* double-frees a handle.  The caller (HitCollectorBase, not under src/)   *)
(* is modelled by its contract: batches of 1..BatchSize fresh handles,     *)
(* every handed-back handle released, flush before steal.                  *)
(***************************************************************************)
EXTENDS Integers, Sequences, SequencesExt, FiniteSets, Bags

CONSTANTS
  Docs,       \* match-doc handles of one session (doc ids, pairwise distinct)
  Score,      \* Docs -> Int: the rank score each handle carries
  Size,       \* _size: the K of the top-K
  BatchSize,  \* BATCH_EVALUATE_SCORE_SIZE: the largest batch the caller passes
  INVALID     \* matchdoc::INVALID_MATCHDOC

ASSUME Size \in Nat \ {0}
ASSUME BatchSize \in Nat \ {0}
ASSUME Score \in [Docs -> Int]
ASSUME INVALID \notin Docs

VARIABLES
  buf,            \* _matchDocBuffer: the written prefix of the pool slab
  matchDocCount,  \* _matchDocCount
  minMatchDoc,    \* _minMatchDoc
  collected,      \* history: every handle ever handed to the collector
  released,       \* bag of handles handed back to the caller and released
  stolen,         \* the target vector filled by doStealAllMatchDocs
  phase           \* caller protocol: "collect", "flushed", "stolen", "destroyed"

vars == <<buf, matchDocCount, minMatchDoc, collected, released, stolen, phase>>

(* Mutation: the constructor allocating _maxBufferSize handles only.       *)
SlabSizeNoBatchRoom == 2 * Size

(* The pool allocation of the constructor: _maxBufferSize + BATCH.         *)
SlabSize == 2 * Size + BatchSize

(***************************************************************************)
(* The combo comparator.  _cmp->compare(a, b) holds when a ranks below b.  *)
(* The rank comparator orders by score; addExtraDocIdentifierCmp appends   *)
(* a doc-id tie-break, so compare is a strict total order on handles.      *)
(* MatchDocComp, the functor given to nth_element, is compare with its     *)
(* arguments swapped ("ranks above").                                      *)
(***************************************************************************)
Cmp(a, b) == Score[a] < Score[b] \/ (Score[a] = Score[b] /\ a > b)
Better(a, b) == Cmp(b, a)

(* The Size best handles of a set.                                         *)
TopK(S) == {d \in S : Cardinality({e \in S : Better(e, d)}) < Size}

(* The handles the collector currently owns: buf[0 .. _matchDocCount).     *)
HeldSeq == SubSeq(buf, 1, matchDocCount)
Held == ToSet(HeldSeq)

(* A store into slab position p (0-based); positions are written in       *)
(* order, so p never lies beyond the high-water mark.                      *)
WriteAtLost(b, p, d) == IF p < Len(b) THEN [b EXCEPT ![p + 1] = d] ELSE b

WriteAt(b, p, d) == IF p < Len(b) THEN [b EXCEPT ![p + 1] = d] ELSE Append(b, d)

(* The handles in slab positions [lo, hi) (0-based); a position never     *)
(* written holds no handle.                                                *)
Region(b, lo, hi) == SubSeq(b, lo + 1, IF hi <= Len(b) THEN hi ELSE Len(b))

(* memcpy(b + p, s, Len(s) * sizeof(MatchDoc)).                            *)
CopyTo(b, p, s) ==
  FoldLeft(LAMBDA acc, i : WriteAt(acc, p + i - 1, s[i]), b, [i \in 1 .. Len(s) |-> i])

(* All orderings of a finite set.                                          *)
Orderings(S) == {f \in [1 .. Cardinality(S) -> S] : IsInjective(f)}

(* The outcomes nth_element(first, first + Size - 1, last, comp) may      *)
(* leave: the Size-th best handle at position Size-1, the better ones      *)
(* before it and the worse ones after it, each part in any order.          *)
NthElementOrders(s) ==
  LET S == ToSet(s) IN
  UNION { { a \o <<kth>> \o r : a \in Orderings({d \in S : Better(d, kth)}),
                                r \in Orderings({d \in S : Cmp(d, kth)}) } :
          kth \in {d \in S : Cardinality({e \in S : Better(e, d)}) = Size - 1} }

(***************************************************************************)
(* Mutations of the definitions below, each a plausible slip in the code. *)
(***************************************************************************)
RejectedByCutScoreOnly(d, count) ==
  minMatchDoc # INVALID /\ count >= Size /\ Score[d] <= Score[minMatchDoc]

FlushNeedsSelectWhenFull == matchDocCount >= 2 * Size

CopyRejectedAtSize(slab, count, filtered) == CopyTo(slab, Size, filtered)

DoNthElementCutAfter(s) ==
  { [buf |-> q, min |-> q[Size + 1]] : q \in NthElementOrders(s) }

(***************************************************************************)
(* findMinMatchDoc: the lowest-ranked handle of s, INVALID for none.       *)
(***************************************************************************)
FindMinMatchDoc(s) ==
  IF Len(s) = 0 THEN INVALID
  ELSE FoldLeft(LAMBDA m, d : IF Cmp(d, m) THEN d ELSE m, s[1], Tail(s))

(***************************************************************************)
(* doNthElement: nth_element(buf, buf + _size - 1, buf + count, comp)     *)
(* over the buffered handles; the new cut is the handle at position        *)
(* Size-1.                                                                 *)
(***************************************************************************)
DoNthElement(s) ==
  { [buf |-> q, min |-> q[Size]] : q \in NthElementOrders(s) }

(***************************************************************************)
(* One iteration of the collectAndReplace loop: a handle ranking below the *)
(* cut is moved to the front of the caller's array (filtered), any other   *)
(* is appended to the slab.                                                *)
(***************************************************************************)
RejectedByCut(d, count) ==
  minMatchDoc # INVALID /\ count >= Size /\ Cmp(d, minMatchDoc)

CollectLoopStep(acc, d) ==
  IF RejectedByCut(d, acc.count)
  THEN [acc EXCEPT !.filtered = Append(@, d)]
  ELSE [acc EXCEPT !.buf = WriteAt(@, acc.count, d), !.count = @ + 1]

(* The test that ends collectAndReplace early: _matchDocCount < _maxBufferSize. *)
BufferFull(count) == count >= 2 * Size

(* memcpy(_matchDocBuffer + _matchDocCount, matchDocs, filtered): the      *)
(* rejected handles are placed right behind the tail that retDocs points   *)
(* at, so the two form one region.                                         *)
CopyRejected(slab, count, filtered) == CopyTo(slab, count, filtered)

(* The batches the caller may pass: 1..BatchSize handles not seen before.  *)
Batches == {s \in BoundedSeq(Docs \ collected, BatchSize) : s # <<>> /\ IsInjective(s)}

(* The bulk imports: 1..2*Size distinct handles.                          *)
QuickInitInputs == {s \in BoundedSeq(Docs, 2 * Size) : s # <<>> /\ IsInjective(s)}

(***************************************************************************)
(* collectAndReplace(matchDocs, count, retDocs).  Below 2*Size buffered    *)
(* handles the rejected ones are handed back; otherwise nth_element runs,  *)
(* retDocs points at buf + Size, the rejected handles are copied behind    *)
(* the buffered ones, and everything from position Size on is handed back. *)
(***************************************************************************)
CollectAndReplace(batch) ==
  LET acc == FoldLeft(CollectLoopStep,
                      [buf |-> buf, count |-> matchDocCount, filtered |-> <<>>], batch)
      f == Len(acc.filtered)
  IN /\ phase = "collect"
     /\ collected' = collected \cup ToSet(batch)
     /\ IF ~BufferFull(acc.count)
        THEN /\ buf' = acc.buf
             /\ matchDocCount' = acc.count
             /\ released' = released (+) ToBag(acc.filtered)
             /\ UNCHANGED minMatchDoc
        ELSE \E sel \in DoNthElement(SubSeq(acc.buf, 1, acc.count)) :
               LET slab == CopyRejected(sel.buf \o SubSeq(acc.buf, acc.count + 1, Len(acc.buf)),
                                        acc.count, acc.filtered)
                   replaced == acc.count - Size + f
               IN /\ buf' = slab
                  /\ minMatchDoc' = sel.min
                  /\ matchDocCount' = Size
                  /\ released' = released (+) ToBag(Region(slab, Size, Size + replaced))
     /\ UNCHANGED <<stolen, phase>>

(***************************************************************************)
(* doQuickInit: bulk import into a fresh collector (count <= 2*Size); the  *)
(* cut is set only when at least Size handles are imported.                *)
(***************************************************************************)
DoQuickInit(docs) ==
  /\ phase = "collect"
  /\ collected = {}
  /\ Len(docs) <= 2 * Size
  /\ buf' = CopyTo(buf, 0, docs)
  /\ matchDocCount' = Len(docs)
  /\ minMatchDoc' = IF Len(docs) >= Size THEN FindMinMatchDoc(docs) ELSE minMatchDoc
  /\ collected' = ToSet(docs)
  /\ UNCHANGED <<released, stolen, phase>>

(***************************************************************************)
(* flushBuffer: at most Size handles only fixes up an unset cut; more runs *)
(* the selection, trims to Size and hands back the tail.                   *)
(***************************************************************************)
FlushNeedsSelect == matchDocCount > Size

FlushBuffer ==
  /\ phase \in {"collect", "flushed"}
  /\ phase' = "flushed"
  /\ IF ~FlushNeedsSelect
     THEN /\ minMatchDoc' = IF minMatchDoc = INVALID THEN FindMinMatchDoc(HeldSeq)
                                                    ELSE minMatchDoc
          /\ UNCHANGED <<buf, matchDocCount, released>>
     ELSE \E sel \in DoNthElement(HeldSeq) :
            LET slab == sel.buf \o SubSeq(buf, matchDocCount + 1, Len(buf)) IN
            /\ buf' = slab
            /\ minMatchDoc' = sel.min
            /\ matchDocCount' = Size
            /\ released' = released (+) ToBag(Region(slab, Size, matchDocCount))
  /\ UNCHANGED <<collected, stolen>>

(* A mutation: the handles are stolen without the flush that selects them. *)
DoStealAllMatchDocsUnflushed ==
  /\ phase \in {"collect", "flushed"}
  /\ matchDocCount <= Size
  /\ stolen' = stolen \o HeldSeq
  /\ matchDocCount' = 0
  /\ phase' = "stolen"
  /\ UNCHANGED <<buf, minMatchDoc, collected, released>>

(***************************************************************************)
(* doStealAllMatchDocs: moves the handles out (asserts count <= Size).     *)
(***************************************************************************)
DoStealAllMatchDocs ==
  /\ phase = "flushed"
  /\ matchDocCount <= Size
  /\ stolen' = stolen \o HeldSeq
  /\ matchDocCount' = 0
  /\ phase' = "stolen"
  /\ UNCHANGED <<buf, minMatchDoc, collected, released>>

(***************************************************************************)
(* ~NthElementCollector: releases every handle still buffered.             *)
(***************************************************************************)
Destroy ==
  /\ phase # "destroyed"
  /\ released' = released (+) ToBag(HeldSeq)
  /\ phase' = "destroyed"
  /\ UNCHANGED <<buf, matchDocCount, minMatchDoc, collected, stolen>>

Init ==
  /\ buf = <<>>
  /\ matchDocCount = 0
  /\ minMatchDoc = INVALID
  /\ collected = {}
  /\ released = EmptyBag
  /\ stolen = <<>>
  /\ phase = "collect"

Next ==
  \/ \E batch \in Batches : CollectAndReplace(batch)
  \/ \E docs \in QuickInitInputs : DoQuickInit(docs)
  \/ FlushBuffer
  \/ DoStealAllMatchDocs
  \/ Destroy

Spec == Init /\ [][Next]_vars

-----------------------------------------------------------------------------
(***************************************************************************)
(* Properties                                                              *)
(***************************************************************************)

(* Types; the count never covers a slab slot no store has written.         *)
TypeOK ==
  /\ buf \in Seq(Docs)
  /\ matchDocCount \in 0 .. Len(buf)
  /\ minMatchDoc \in Docs \cup {INVALID}
  /\ collected \subseteq Docs
  /\ IsABag(released) /\ BagToSet(released) \subseteq Docs
  /\ stolen \in Seq(Docs)
  /\ phase \in {"collect", "flushed", "stolen", "destroyed"}

(* Allocator balance (collectAndReplace, flushBuffer, the destructor):     *)
(* every handle ever collected is owned by exactly one party at a time --  *)
(* buffered once, or released once, or stolen once -- so no handle leaks,  *)
(* is released twice, or is released while still buffered.                *)
OwnershipExact ==
  \A d \in collected :
    CopiesIn(d, ToBag(IF phase = "destroyed" THEN <<>> ELSE HeldSeq)) + CopiesIn(d, released) + CopiesIn(d, ToBag(stolen)) = 1

(* The cut read by collectAndReplace and by top() is a handle the          *)
(* collector still owns and the lowest-ranked of them, so no handle is     *)
(* rejected against a released (reused) slot or an over-strict cut.        *)
MinMatchDocSound ==
  phase \in {"collect", "flushed"} /\ minMatchDoc # INVALID =>
    /\ minMatchDoc \in Held
    /\ \A d \in Held : ~Cmp(d, minMatchDoc)

(* Across any sequence of batches, early rejections and selections, none   *)
(* of the Size best handles seen so far has been handed back.              *)
TopKRetained ==
  phase # "destroyed" => TopK(collected) \subseteq Held \cup ToSet(stolen)

(* After flushBuffer the collector holds exactly the Size best handles of  *)
(* everything collected (or all of them when fewer were collected).        *)
FlushedIsTopK ==
  phase = "flushed" => /\ Held = TopK(collected)
                       /\ matchDocCount = Cardinality(TopK(collected))

(* No store of collectAndReplace (appends, then the copy of the rejected   *)
(* handles behind the buffer) reaches past the slab of 2*Size + BATCH.     *)
SlabBound == Len(buf) <= SlabSize

(* The specification (section 3) and the comment in doQuickInit ("make    *)
(* sure minMatchDoc exist only when at least _size MatchDocs") say the cut *)
(* is INVALID while fewer than Size handles are buffered.                  *)
MinMatchDocOnlyWhenFull ==
  phase \in {"collect", "flushed", "stolen"} /\ matchDocCount < Size => minMatchDoc = INVALID

(* The collector implements the abstract top-K collector: its buffered     *)
(* handles are the abstract kept set, the stolen vector the handed-out     *)
(* set, and every step of collectAndReplace, doQuickInit, flushBuffer,     *)
(* doStealAllMatchDocs and the destructor is a step of TopKCollector.      *)
Abstract == INSTANCE TopKCollector WITH
  seen <- collected,
  kept <- IF phase = "destroyed" THEN {} ELSE Held,
  out <- ToSet(stolen),
  state <- CASE phase = "collect" -> "open" [] phase = "flushed" -> "flushed"
             [] phase = "stolen" -> "taken" [] phase = "destroyed" -> "closed"

ImplementsTopKCollector == Abstract!Spec

=============================================================================

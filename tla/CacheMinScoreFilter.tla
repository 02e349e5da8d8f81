------------------------- MODULE CacheMinScoreFilter -------------------------
(***************************************************************************)
(* The searcher-cache score floor of ha3 (src/aios/ha3/ha3/search/         *)
(* CacheMinScoreFilter.cpp).  storeMinScore records, per first-level sort  *)
(* expression, the score of the cut of the hit collector that produced a   *)
(* cached result; serialize/deserialize carry that vector with the cache   *)
(* entry; filterByMinScore later drops candidates on the wrong side of     *)
(* every floor, tops the survivors up to expectCount with the best of the  *)
(* dropped ones (by the first collector's comparator) and releases the     *)
(* rest.                                                                   *)
(*                                                                         *)
(* score_t is a floating-point type: numeric_limits<score_t>::max() is     *)
(* FloatMax and numeric_limits<score_t>::min() the smallest POSITIVE       *)
(* normal value, FloatMinPositive.  The (score_t) cast of getRankScore     *)
(* rounds a value to MantissaBits significant bits, to nearest with ties  *)
(* to even: a float has 24, so integer scores above 2^24 collide; the      *)
(* model gives score_t 2 bits, so its small scores collide the same way.  *)
(***************************************************************************)
EXTENDS Integers, Sequences, SequencesExt, FiniteSets, Bags

CONSTANTS
  Docs,              \* match-doc handles (doc ids)
  NExprs,            \* most first-level sort expressions (collectors) a request has
  SortAsc,           \* [1..NExprs -> BOOLEAN]: getSortFlag(), TRUE = ascending
  ExprScore,         \* [1..NExprs -> [Docs -> Int]]: the typed value of each expression
  HasRef,            \* [1..NExprs -> BOOLEAN]: the expression has a score reference
  FloatMax,          \* numeric_limits<score_t>::max()
  FloatMinPositive,  \* numeric_limits<score_t>::min()
  MaxExpect,         \* largest expectCount the model passes
  MantissaBits,      \* significant bits of score_t
  INVALID            \* matchdoc::INVALID_MATCHDOC

Exprs == 1 .. NExprs

ASSUME NExprs \in Nat \ {0}
ASSUME SortAsc \in [Exprs -> BOOLEAN] /\ HasRef \in [Exprs -> BOOLEAN]
ASSUME ExprScore \in [Exprs -> [Docs -> Int]]
ASSUME FloatMinPositive > 0
ASSUME \A e \in Exprs, d \in Docs :
         /\ ExprScore[e][d] > 0 => ExprScore[e][d] > FloatMinPositive
         /\ ExprScore[e][d] < FloatMax
ASSUME INVALID \notin Docs
ASSUME MantissaBits \in Nat \ {0}

VARIABLES
  nExprs,      \* firstExpressions.size() of the requests using this cache entry
  scores,      \* _scores
  cacheBytes,  \* the DataBuffer the floor vector was serialized into
  matchDocs,   \* the PoolVector filtered in place by the last filterByMinScore
  released,    \* bag: handles released by the last filterByMinScore
  lastIn,      \* history: the handles passed to the last filterByMinScore
  lastExpect,  \* history: its expectCount
  lastScored,  \* history: isScored() of its collector
  cut          \* history: per recorded floor, the top() it was taken from (INVALID if none or unscored)

vars == <<nExprs, scores, cacheBytes, matchDocs, released, lastIn, lastExpect, lastScored, cut>>

(* The unit in the last place of a magnitude a: the smallest power of two  *)
(* u, from 1 up, with a < 2^MantissaBits * u.                              *)
RECURSIVE UlpOf(_, _)
UlpOf(a, u) == IF a < 2^MantissaBits * u THEN u ELSE UlpOf(a, 2 * u)

(* A mutation: the cast as to a 5-bit signed integer.                     *)
ToScoreTNarrow(v) == ((v + 16) % 32) - 16

(* (score_t)score: round to the nearest value with MantissaBits            *)
(* significant bits, ties to the even one.                                 *)
ToScoreT(v) ==
  LET a == IF v < 0 THEN -v ELSE v
      u == UlpOf(a, 1)
      q == a \div u
      r == a % u
      m == IF 2 * r > u \/ (2 * r = u /\ q % 2 = 1) THEN q + 1 ELSE q
  IN IF v < 0 THEN -(m * u) ELSE m * u

(* getRankScore: the value of the expression cast to score_t; an invalid  *)
(* handle or no reference (no rank scorer attached) gives 0.               *)
GetRankScore(e, d) == IF d = INVALID \/ ~HasRef[e] THEN 0 ELSE ToScoreT(ExprScore[e][d])

(* getRankScore of every expression and handle, evaluated once.           *)
RankScores == [e \in Exprs |-> [d \in Docs |-> GetRankScore(e, d)]]

(* defaultScoreMin(isAsc).                                                 *)
DefaultScoreMin(isAsc) == IF isAsc THEN FloatMax ELSE FloatMinPositive

(* getMinScore for collector e whose top() is top.                         *)
GetMinScore(e, isScored, top) ==
  IF ~isScored \/ top = INVALID THEN DefaultScoreMin(SortAsc[e]) ELSE GetRankScore(e, top)

(* The first collector's combo comparator: Cmp0(a, b) when a ranks below b *)
(* on the first sort expression, the doc id breaking ties.                 *)
Cmp0(a, b) ==
  LET va == ExprScore[1][a]  vb == ExprScore[1][b] IN
  IF va = vb THEN a > b ELSE IF SortAsc[1] THEN va > vb ELSE va < vb
Better0(a, b) == Cmp0(b, a)

(* The n best handles of a set under the first comparator.                 *)
BestN(S, n) == {d \in S : Cardinality({x \in S : Better0(x, d)}) < n}

(***************************************************************************)
(* Mutations of the definitions below, each a plausible slip in the code. *)
(***************************************************************************)
NthSelectReversed(s, n) == SortSeq(s, Cmp0)

CompactNoShift(s, n) == s

SelectCountOffByOne(actual, expect) == expect - actual - 1

IsFilterAscAsDesc(sc, d) ==
  \E e \in 1 .. nExprs :
    LET minScore == IF e > Len(sc) THEN 0 ELSE sc[e] IN
    IF SortAsc[e] THEN RankScores[e][d] >= minScore ELSE RankScores[e][d] >= minScore

(***************************************************************************)
(* isFilter: TRUE when the handle is on the kept side of some floor        *)
(* (ascending: score <= floor; descending: score >= floor); a floor        *)
(* missing from _scores counts as 0.  doFilterByMinScore keeps exactly the *)
(* handles for which isFilter holds.                                       *)
(***************************************************************************)
IsFilter(sc, d) ==
  \E e \in 1 .. nExprs :
    LET minScore == IF e > Len(sc) THEN 0 ELSE sc[e] IN
    IF SortAsc[e] THEN RankScores[e][d] <= minScore ELSE RankScores[e][d] >= minScore

(* nth_element(first, first + n - 1, last, comp) over the rejected         *)
(* handles: the n best come first.  Only which handles lie before and      *)
(* after position n matters to the code that follows, so the sorted order  *)
(* stands for every outcome nth_element may leave.                         *)
NthSelect(s, n) == SortSeq(s, Better0)

(* The shift of selectExtraMatchDocs: rejected[n ..] moved to the front.   *)
Compact(s, n) == [i \in 1 .. Len(s) |-> IF i <= Len(s) - n THEN s[i + n] ELSE s[i]]

(* expectCount - actualCount.                                              *)
SelectCount(actual, expect) == expect - actual

(***************************************************************************)
(* selectExtraMatchDocs(selectCount, comp, filtered, matchDocs): returns   *)
(* the handles appended to matchDocs and the rejected ones left behind.    *)
(***************************************************************************)
SelectExtraMatchDocs(n, rejected) ==
  LET arranged == IF n < Len(rejected) THEN NthSelect(rejected, n) ELSE rejected
      taken == SubSeq(arranged, 1, IF n < Len(arranged) THEN n ELSE Len(arranged))
      shifted == IF n > 0 /\ n < Len(arranged) THEN Compact(arranged, n) ELSE arranged
      left == SubSeq(shifted, 1, IF Len(shifted) > n THEN Len(shifted) - n ELSE 0)
  IN [taken |-> taken, left |-> left]

(***************************************************************************)
(* doFilterByMinScore(infos, matchDocs, filteredMatchDocs): the handles    *)
(* isFilter keeps move, in order, to the front of matchDocs, which is then *)
(* cut to them; every other handle is pushed onto filteredMatchDocs.       *)
(***************************************************************************)
DoFilterByMinScore(in) ==
  [kept |-> SelectSeq(in, LAMBDA d : IsFilter(scores, d)),
   rejected |-> SelectSeq(in, LAMBDA d : ~IsFilter(scores, d))]

(* releaseFilteredMatchDocs: each handle still in filteredMatchDocs is     *)
(* deallocated once per occurrence, and the vector is cleared.             *)
ReleaseFilteredMatchDocs(filtered) == ToBag(filtered)

(***************************************************************************)
(* filterByMinScore(collector, firstExpressions, matchDocs, expectCount):  *)
(* nothing for an unscored collector; otherwise partition in place, top up *)
(* when fewer than expectCount survive, and release the rest.              *)
(***************************************************************************)
FilterByMinScore(in, expect, isScored) ==
  LET partition == DoFilterByMinScore(in)
      kept == partition.kept
      rejected == partition.rejected
      extra == SelectExtraMatchDocs(SelectCount(Len(kept), expect), rejected)
  IN /\ lastIn' = ToSet(in) /\ lastExpect' = expect /\ lastScored' = isScored
     /\ IF ~isScored
        THEN /\ matchDocs' = in
             /\ released' = EmptyBag
        ELSE IF Len(kept) < expect
        THEN /\ matchDocs' = kept \o extra.taken
             /\ released' = ReleaseFilteredMatchDocs(extra.left)
        ELSE /\ matchDocs' = kept
             /\ released' = ReleaseFilteredMatchDocs(rejected)
     /\ UNCHANGED <<scores, cacheBytes, nExprs, cut>>

(***************************************************************************)
(* storeMinScore(collector, firstExpressions): HCT_SINGLE appends the      *)
(* floor of the collector itself, HCT_MULTI one floor per sub-collector.   *)
(* isScored is the outer collector's.  tops[e] is top() of collector e.    *)
(***************************************************************************)
StoreMinScore(single, isScored, tops) ==
  LET n == IF single THEN 1 ELSE nExprs IN
  /\ scores' = scores \o [e \in 1 .. n |-> GetMinScore(e, isScored, tops[e])]
  /\ cut' = cut \o [e \in 1 .. n |-> IF isScored THEN tops[e] ELSE INVALID]
  /\ UNCHANGED <<cacheBytes, matchDocs, released, lastIn, lastExpect, lastScored, nExprs>>

(* serialize: dataBuffer.write(_scores), a length-prefixed vector.         *)
Serialize ==
  /\ cacheBytes' = <<Len(scores)>> \o scores
  /\ UNCHANGED <<cut, scores, matchDocs, released, lastIn, lastExpect, lastScored, nExprs>>

DeserializeNoSkip ==
  /\ cacheBytes # <<>>
  /\ scores' = SubSeq(cacheBytes, 1, cacheBytes[1])
  /\ UNCHANGED <<cacheBytes, matchDocs, released, lastIn, lastExpect, lastScored, nExprs, cut>>

(* deserialize: dataBuffer.read(_scores) replaces the vector.              *)
Deserialize ==
  /\ cacheBytes # <<>>
  /\ scores' = SubSeq(cacheBytes, 2, 1 + cacheBytes[1])
  /\ UNCHANGED <<cacheBytes, matchDocs, released, lastIn, lastExpect, lastScored, nExprs, cut>>

(* The inputs the environment passes.                                      *)
Inputs == {SetToSortSeq(S, <) : S \in SUBSET Docs}
Tops == [1 .. nExprs -> Docs \cup {INVALID}]

Init ==
  /\ nExprs \in Exprs
  /\ scores = <<>>
  /\ cacheBytes = <<>>
  /\ matchDocs = <<>>
  /\ released = EmptyBag
  /\ lastIn = {}
  /\ lastExpect = 0
  /\ lastScored = FALSE
  /\ cut = <<>>

(* A cache entry's filter is stored once, from the collector of the        *)
(* session that produced the entry.                                        *)
Next ==
  \/ scores = <<>> /\ cacheBytes = <<>> /\
       \E single \in BOOLEAN, isScored \in BOOLEAN, tops \in Tops :
         StoreMinScore(single, isScored, tops)
  \/ Serialize
  \/ Deserialize
  \/ \E in \in Inputs, expect \in 0 .. MaxExpect, isScored \in BOOLEAN :
       FilterByMinScore(in, expect, isScored)

Spec == Init /\ [][Next]_vars

-----------------------------------------------------------------------------
(* The values getMinScore can produce: a default or a handle's score.      *)
FloorValues ==
  {FloatMax, FloatMinPositive} \cup {GetRankScore(e, d) : e \in Exprs, d \in Docs \cup {INVALID}}

(* Types; every floor in _scores and in the serialized length-prefixed     *)
(* buffer is a value getMinScore produced.                                 *)
TypeOK ==
  /\ nExprs \in Exprs
  /\ scores \in Seq(FloorValues)
  /\ cacheBytes = <<>> \/ (cacheBytes[1] = Len(cacheBytes) - 1 /\ Tail(cacheBytes) \in Seq(FloorValues))
  /\ matchDocs \in Seq(Docs)
  /\ IsABag(released) /\ BagToSet(released) \subseteq Docs
  /\ lastIn \subseteq Docs
  /\ lastExpect \in 0 .. MaxExpect
  /\ lastScored \in BOOLEAN
  /\ cut \in Seq(Docs \cup {INVALID})

(* filterByMinScore with selectExtraMatchDocs: every handle passed in is   *)
(* either kept once or released once -- the compaction of the rejected    *)
(* vector neither releases a handle it just appended to matchDocs nor     *)
(* leaks one.                                                              *)
FilterConservation ==
  ToBag(matchDocs) (+) released = SetToBag(lastIn)

(* The floor never makes filterByMinScore deliver fewer than expectCount  *)
(* handles while enough were passed in.                                    *)
NoUnderDelivery ==
  Len(matchDocs) >= IF lastExpect < Cardinality(lastIn) THEN lastExpect
                                                        ELSE Cardinality(lastIn)

(* With one sort expression the result contains the expectCount best       *)
(* handles of the input: every survivor of the floor ranks above every     *)
(* handle it drops, and the top-up takes the best of the dropped ones.     *)
(* The floor test compares the (score_t) casts while the top-up compares  *)
(* the typed values: rounding may keep a handle worse than the floor, but *)
(* never drops one better than a kept one.                                 *)
KeepsBestExpected ==
  nExprs = 1 => BestN(lastIn, lastExpect) \subseteq ToSet(matchDocs)

(* Section 4.3 of the specification: from an unscored collector, or one    *)
(* with no top(), storeMinScore records "no floor", so the filter then     *)
(* keeps every handle.                                                     *)
NoFloorKeepsAll ==
  (/\ Len(scores) = nExprs
   /\ \A e \in 1 .. nExprs : scores[e] = DefaultScoreMin(SortAsc[e])
   /\ lastScored)
  => ToSet(matchDocs) = lastIn

(* d ranks at or above the handle t on expression e: no greater for an   *)
(* ascending expression, no smaller for a descending one.                  *)
AtOrAbove(e, d, t) ==
  IF SortAsc[e] THEN ExprScore[e][d] <= ExprScore[e][t] ELSE ExprScore[e][d] >= ExprScore[e][t]

(* The floor carries the cut: after storeMinScore recorded a floor from a  *)
(* scored collector's top(), and across serialize and deserialize of the   *)
(* cache entry, filterByMinScore keeps every handle that ranks at or above *)
(* that top() on the floor's expression.  getMinScore's orientation        *)
(* (defaultScoreMin, the cast of getRankScore) and isFilter's must agree, *)
(* and the score_t rounding must keep the order of the typed values.       *)
FloorKeepsCut ==
  \A e \in 1 .. Len(cut), d \in Docs :
    cut[e] # INVALID /\ AtOrAbove(e, d, cut[e]) => IsFilter(scores, d)
=============================================================================

---------------------------- MODULE RankSearcher ----------------------------
(***************************************************************************)
(* The layered seek driver of ha3 (src/aios/ha3/ha3/search/                *)
(* RankSearcher.cpp): init builds one query executor per layer, the        *)
(* filter wrapper and the aggregator; search walks the layers in order,    *)
(* seeks each layer within its quota, collects every surviving handle      *)
(* into the hit collector (or releases it when no top-K is required),      *)
(* stops on an index I/O error or a timeout, and flushes the collector.    *)
(*                                                                         *)
(* The collector is the abstract TopKCollector, which NthElementCollector  *)
(* is checked to implement.  The code RankSearcher calls but that is not   *)
(* under src/ is modelled from the specification: the layer quota          *)
(* distributor (quota plus what the previous layer left), the single-layer *)
(* seeker (one handle per seek, filter rejects released inside, stop at    *)
(* quota, at the end of the layer or once the terminator fired), and the   *)
(* timeout terminator (may expire at every CheckStep-th seek).             *)
(***************************************************************************)
EXTENDS Integers, Sequences, FiniteSets

CONSTANTS
  Docs,          \* doc handles
  NLayers,       \* number of layers in layerMetas
  LayerDocs,     \* [1..NLayers -> Seq(Docs)]: what each layer's executor yields, in doc-id order
  Quota,         \* [1..NLayers -> Nat]: LayerMeta quota
  FilterRejects, \* handles the FilterWrapper rejects
  Score,         \* [Docs -> Int]: rank score seen by the collector
  Size,          \* the collector's K
  CheckStep,     \* SEEK_CHECK_TIMEOUT_STEP
  JoinMissing,   \* handles with no mapping to the join side
  JoinKeyBuiltin \* the hash-join attribute has a type of BUILTIN_TYPE_MACRO_HELPER

Layers == 1 .. NLayers

ASSUME NLayers \in Nat \ {0}
ASSUME LayerDocs \in [Layers -> Seq(Docs)]
ASSUME Quota \in [Layers -> Nat]
ASSUME CheckStep \in Nat \ {0}
ASSUME JoinKeyBuiltin \in BOOLEAN

VARIABLES
  req,         \* the request: which clauses it carries, what their setup yields
  pc,          \* "init", "initFailed", "ready", "seeking", "done", "aborted"
  join,        \* the session runs searchWithJoin
  executors,   \* _queryExecutors: "none" (NULL), "exec", "pk" (PKQueryExecutor)
  errors,      \* _errorResultPtr: the error codes added, in order
  filterWrapper, \* _filterWrapper # NULL
  joinFilter,  \* a JoinFilter is installed in _filterWrapper ("unset" before createJoinFilter)
  cur,         \* the distributor's current layer
  quota,       \* the quota of the current layer (its own plus the carried left quota)
  seeked,      \* seeks of the current layer's SingleLayerSearcher
  seekErr,     \* error code of the current layer's seek: "OK", "FileIO", "Fatal"
  timedOut,    \* the timeout terminator has expired
  checks,      \* seeks since timeoutTerminator->init(SEEK_CHECK_TIMEOUT_STEP)
  totalSeeked, \* history: seeks over all layers
  matched,     \* history: every handle the seeker returned to the searcher
  drained,     \* history: layers whose seek ran out of quota or of handles
  released,    \* handles deallocated by the searcher side
  cSeen, cKept, cOut, cState  \* the hit collector

vars == <<req, pc, join, executors, errors, filterWrapper, joinFilter, cur, quota, seeked,
          seekErr, timedOut, checks, totalSeeked, matched, drained, released,
          cSeen, cKept, cOut, cState>>

ToSetOf(l) == {LayerDocs[l][i] : i \in 1 .. Len(LayerDocs[l])}

(* Layers are disjoint doc-id ranges: no handle is yielded twice.          *)
ASSUME \A l, m \in Layers : l # m => ToSetOf(l) \cap ToSetOf(m) = {}

Better(a, b) == Score[a] > Score[b] \/ (Score[a] = Score[b] /\ a < b)

Collector == INSTANCE TopKCollector WITH
  seen <- cSeen, kept <- cKept, out <- cOut, state <- cState

(***************************************************************************)
(* The requests and environments init may meet.                            *)
(***************************************************************************)
Requests ==
  [pkClause : BOOLEAN, pkReader : BOOLEAN,       \* PKFilterClause, primary key reader
   filterClause : BOOLEAN, filterOk : BOOLEAN,   \* FilterClause, Filter::createFilter succeeds
   subDoc : BOOLEAN,                             \* the allocator has a sub-doc allocator
   aggClause : BOOLEAN, aggOk : BOOLEAN,         \* AggregateClause, createAggregator succeeds
   needScore : BOOLEAN]                          \* resource._requiredTopK != 0

(* What query->accept(&qeCreator) does for one layer, and, with a PK       *)
(* clause and reader, what the primary-key Lookup does.                    *)
LookupOutcomes == {"built", "empty", "throw", "throwFileIO"}
PKOutcomes == {"ok", "throw", "throwFileIO"}

(* A mutation: the primary-key Lookup's exception is swallowed.           *)
CreateQueryExecutorPKErrorLost(r, lookup, pk) ==
  LET built == IF lookup = "built" THEN "exec" ELSE "none"
  IN CASE lookup = "throw"       -> [qe |-> "none", err |-> <<"ERROR_SEARCH_LOOKUP">>]
       [] lookup = "throwFileIO" -> [qe |-> "none", err |-> <<"ERROR_SEARCH_LOOKUP_FILEIO_ERROR">>]
       [] ~r.pkClause            -> [qe |-> built, err |-> <<>>]
       [] ~r.pkReader            -> [qe |-> "none", err |-> <<>>]
       [] pk \in {"throw", "throwFileIO"} -> [qe |-> built, err |-> <<>>]
       [] OTHER                  -> [qe |-> "pk", err |-> <<>>]

(***************************************************************************)
(* createQueryExecutor (with createPKExecutor) for one layer: the          *)
(* executor left in _queryExecutors and the error code added.              *)
(***************************************************************************)
CreateQueryExecutor(r, lookup, pk) ==
  LET built == IF lookup = "built" THEN "exec" ELSE "none"  \* isEmpty() deletes it
  IN CASE lookup = "throw"       -> [qe |-> "none", err |-> <<"ERROR_SEARCH_LOOKUP">>]
       [] lookup = "throwFileIO" -> [qe |-> "none", err |-> <<"ERROR_SEARCH_LOOKUP_FILEIO_ERROR">>]
       [] ~r.pkClause            -> [qe |-> built, err |-> <<>>]
       [] ~r.pkReader            -> [qe |-> "none", err |-> <<>>]   \* createPKExecutor NULL
       [] pk = "throw"           -> [qe |-> built, err |-> <<"ERROR_SEARCH_LOOKUP">>]
       [] pk = "throwFileIO"     -> [qe |-> built, err |-> <<"ERROR_SEARCH_LOOKUP_FILEIO_ERROR">>]
       [] OTHER                  -> [qe |-> "pk", err |-> <<>>]

(* The errors of all layers, in layer order.                               *)
RECURSIVE LookupErrors(_, _)
LookupErrors(res, l) == IF l > NLayers THEN <<>> ELSE res[l].err \o LookupErrors(res, l + 1)

(***************************************************************************)
(* initQueryExecutors: one executor per layer, then the lookup-timeout     *)
(* check; it succeeds iff some executor was built and the ErrorResult --   *)
(* shared with the rest of the request -- holds no error at all.           *)
(***************************************************************************)
InitQueryExecutors(r, lookups, pks, lookupTimeout) ==
  LET res == [l \in Layers |-> CreateQueryExecutor(r, lookups[l], pks[l])]
      errs == errors \o LookupErrors(res, 1)
                     \o (IF lookupTimeout THEN <<"ERROR_LOOKUP_TIMEOUT">> ELSE <<>>)
      succOnce == \E l \in Layers : res[l].qe # "none"
  IN [executors |-> [l \in Layers |-> res[l].qe], errors |-> errs,
      ok |-> succOnce /\ Len(errs) = 0]

(* createFilterWrapper: fails when the filter clause's filter cannot be    *)
(* created; a wrapper exists when there is a filter or a sub-doc filter.   *)
CreateFilterWrapper(r) ==
  [ok |-> ~(r.filterClause /\ ~r.filterOk), wrapper |-> r.filterClause \/ r.subDoc]

(* setupAggregator: NULL, with ERROR_SEARCH_SETUP_AGGREGATOR, when the     *)
(* aggregator cannot be created.                                           *)
SetupAggregator(r) ==
  IF r.aggClause /\ ~r.aggOk THEN [ok |-> FALSE, err |-> <<"ERROR_SEARCH_SETUP_AGGREGATOR">>]
  ELSE [ok |-> TRUE, err |-> <<>>]

(***************************************************************************)
(* init: initQueryExecutors, then createFilterWrapper (its failure adds    *)
(* ERROR_SEARCH_SETUP_FILTER), then setupAggregator, each failure          *)
(* returning false at once.                                                *)
(***************************************************************************)
InitSearcher ==
  /\ pc = "init"
  /\ \E lookups \in [Layers -> LookupOutcomes], pks \in [Layers -> PKOutcomes],
        lookupTimeout \in BOOLEAN :
       LET qe == InitQueryExecutors(req, lookups, pks, lookupTimeout)
           fw == CreateFilterWrapper(req)
           agg == SetupAggregator(req)
       IN /\ executors' = qe.executors
          /\ timedOut' = lookupTimeout
          /\ errors' = CASE ~qe.ok -> qe.errors
                         [] ~fw.ok -> Append(qe.errors, "ERROR_SEARCH_SETUP_FILTER")
                         [] OTHER  -> qe.errors \o agg.err
          /\ filterWrapper' = (qe.ok /\ fw.ok /\ fw.wrapper)
          /\ pc' = IF qe.ok /\ fw.ok /\ agg.ok THEN "ready" ELSE "initFailed"
  /\ UNCHANGED <<req, join, joinFilter, cur, quota, seeked, seekErr, checks, totalSeeked,
                 matched, drained, released, cSeen, cKept, cOut, cState>>

(***************************************************************************)
(* createJoinFilter(docIdConverterFactory, joinType): nothing without a    *)
(* converter factory or for WEAK_JOIN; otherwise a JoinFilter, in a        *)
(* wrapper created if there was none, when the join is forced strong or    *)
(* the factory has a strong-join converter.                                *)
(***************************************************************************)
CreateJoinFilter ==
  /\ pc = "ready"
  /\ joinFilter = "unset"
  /\ \E factory \in BOOLEAN, joinType \in {"WEAK_JOIN", "STRONG_JOIN", "DEFAULT_JOIN"},
        hasStrongJoinConverter \in BOOLEAN :
       LET install == /\ factory /\ joinType # "WEAK_JOIN"
                      /\ (joinType = "STRONG_JOIN" \/ hasStrongJoinConverter)
       IN /\ joinFilter' = IF install THEN "installed" ELSE "absent"
          /\ filterWrapper' = (filterWrapper \/ install)
  /\ UNCHANGED <<req, pc, join, executors, errors, cur, quota, seeked, seekErr, timedOut,
                 checks, totalSeeked, matched, drained, released, cSeen, cKept, cOut, cState>>

(* The prologue of searchMultiLayers[WithJoin]:                            *)
(* timeoutTerminator->init(SEEK_CHECK_TIMEOUT_STEP) restarts the seek      *)
(* count, and the distributor starts at the first layer.                   *)
EnterSeekLoop(withJoin) ==
  /\ pc = "ready"
  /\ join' = withJoin
  /\ pc' = "seeking"
  /\ checks' = 0
  /\ cur' = 1 /\ quota' = Quota[1] /\ seeked' = 0
  /\ UNCHANGED <<req, executors, errors, filterWrapper, joinFilter, seekErr, timedOut,
                 totalSeeked, matched, drained, released, cSeen, cKept, cOut, cState>>

(* search(resource, hitCollector).                                         *)
StartSearch == EnterSeekLoop(FALSE)

(* searchWithJoin(resource, hashJoinInfo, hitCollector).                   *)
StartSearchWithJoin == EnterSeekLoop(TRUE)

(* searchSingleLayerWithScoreAndJoin / searchSingleLayerJoinWithoutScore:  *)
(* a join attribute whose type is not builtin falls to the default branch, *)
(* whose assert(0) is compiled out, and returns a default-constructed      *)
(* SingleLayerSeekResult without seeking.                                  *)
JoinDispatchDefault == join /\ ~JoinKeyBuiltin

(* The layer is not seeked: no executor, or the join dispatch default.     *)
LayerSkipped == executors[cur] = "none" \/ JoinDispatchDefault

(***************************************************************************)
(* The seek loop of the layer's SingleLayerSearcher runs while seekErr is  *)
(* "OK", the terminator has not fired, and the layer has quota and         *)
(* handles left.                                                           *)
(***************************************************************************)
LayerRunning ==
  /\ ~LayerSkipped
  /\ seekErr = "OK"
  /\ ~timedOut
  /\ seeked < quota
  /\ seeked < Len(LayerDocs[cur])

(* A handle the seeker drops: the filter wrapper's filter or JoinFilter,   *)
(* or, with a hash join, a handle with no join-side key.                   *)
Rejected(d) ==
  \/ filterWrapper /\ d \in FilterRejects
  \/ joinFilter = "installed" /\ d \in JoinMissing
  \/ join /\ d \in JoinMissing

(* searchSingleLayerWithScore / WithoutScore, one seek: a rejected handle  *)
(* is released inside the seeker; a survivor is aggregated and then        *)
(* collected (with a top-K) or released.  Every CheckStep-th seek the      *)
(* terminator consults the clock.                                          *)
SeekDoc ==
  /\ pc = "seeking"
  /\ LayerRunning
  /\ LET d == LayerDocs[cur][seeked + 1] IN
       /\ seeked' = seeked + 1
       /\ totalSeeked' = totalSeeked + 1
       /\ checks' = checks + 1
       /\ timedOut' \in IF (checks + 1) % CheckStep = 0 THEN BOOLEAN ELSE {FALSE}
       /\ matched' = IF Rejected(d) THEN matched ELSE matched \cup {d}
       /\ IF ~Rejected(d) /\ req.needScore
          THEN /\ Collector!Admit /\ cSeen' = cSeen \cup {d}
               /\ UNCHANGED released
          ELSE /\ released' = released \cup {d}
               /\ UNCHANGED <<cSeen, cKept, cOut, cState>>
  /\ UNCHANGED <<req, pc, join, executors, errors, filterWrapper, joinFilter, cur, quota,
                 seekErr, drained>>

(* The seek returns an index error code instead of a handle.               *)
SeekError ==
  /\ pc = "seeking"
  /\ LayerRunning
  /\ seekErr' \in {"FileIO", "Fatal"}
  /\ UNCHANGED <<req, pc, join, executors, errors, filterWrapper, joinFilter, cur, quota,
                 seeked, timedOut, checks, totalSeeked, matched, drained, released,
                 cSeen, cKept, cOut, cState>>

(* SingleLayerSeekResult of the layer: default-constructed (no quota left  *)
(* over) when the layer was skipped.                                       *)
SeekResult ==
  IF LayerSkipped
  THEN [seekCount |-> 0, leftQuota |-> 0]
  ELSE [seekCount |-> seeked, leftQuota |-> quota - seeked]

(***************************************************************************)
(* Mutations of the definitions below, each a plausible slip in the code. *)
(***************************************************************************)
CarriedSeekCount(res) == res.seekCount

FinishSearchNoFlush ==
  /\ UNCHANGED <<cSeen, cKept, cOut, cState>>
  /\ pc' = "done"

MoveToNextLayerStuck(left) ==
  /\ UNCHANGED <<cur, quota, seeked, pc, cSeen, cKept, cOut, cState>>

MoveToNextLayerNoReset(left) ==
  IF cur < NLayers
  THEN /\ cur' = cur + 1
       /\ quota' = Quota[cur + 1] + left
       /\ UNCHANGED <<seeked, pc, cSeen, cKept, cOut, cState>>
  ELSE /\ Collector!Flush /\ pc' = "done"
       /\ UNCHANGED <<cur, quota, seeked>>

MoveToNextLayerOffByOne(left) ==
  IF cur < NLayers - 1
  THEN /\ cur' = cur + 1
       /\ quota' = Quota[cur + 1] + left
       /\ seeked' = 0
       /\ UNCHANGED <<pc, cSeen, cKept, cOut, cState>>
  ELSE /\ Collector!Flush /\ pc' = "done"
       /\ UNCHANGED <<cur, quota, seeked>>

(* The quota handed to moveToNextLayer.                                    *)
CarriedQuota(res) == res.leftQuota

(* After the while loop: hitCollector->flush(), then endRankPhase.         *)
FinishSearch ==
  /\ Collector!Flush
  /\ pc' = "done"

(* The distributor moves on with the carried quota; with no layer left the *)
(* loop ends.                                                              *)
MoveToNextLayer(left) ==
  IF cur < NLayers
  THEN /\ cur' = cur + 1
       /\ quota' = Quota[cur + 1] + left
       /\ seeked' = 0
       /\ UNCHANGED <<pc, cSeen, cKept, cOut, cState>>
  ELSE /\ FinishSearch
       /\ UNCHANGED <<cur, quota, seeked>>

(* The rest of the loop body once the layer's seek loop stopped: an I/O    *)
(* error breaks with ERROR_INDEXLIB_IO, any other error is thrown by       *)
(* ThrowIfError, a timeout breaks with ERROR_SEEKDOC_TIMEOUT, and          *)
(* otherwise the distributor moves to the next layer.                      *)
EndLayer ==
  /\ pc = "seeking"
  /\ ~LayerRunning
  /\ drained' = drained \cup
       IF ~LayerSkipped /\ (seeked = quota \/ seeked = Len(LayerDocs[cur])) THEN {cur} ELSE {}
  /\ CASE seekErr = "FileIO" ->
            /\ errors' = Append(errors, "ERROR_INDEXLIB_IO")
            /\ FinishSearch
            /\ UNCHANGED <<cur, quota, seeked>>
       [] seekErr = "Fatal" ->
            /\ pc' = "aborted"
            /\ UNCHANGED <<errors, cur, quota, seeked, cSeen, cKept, cOut, cState>>
       [] timedOut ->
            /\ errors' = Append(errors, "ERROR_SEEKDOC_TIMEOUT")
            /\ FinishSearch
            /\ UNCHANGED <<cur, quota, seeked>>
       [] OTHER ->
            /\ MoveToNextLayer(CarriedQuota(SeekResult))
            /\ UNCHANGED errors
  /\ seekErr' = "OK"
  /\ UNCHANGED <<req, join, executors, filterWrapper, joinFilter, timedOut, checks,
                 totalSeeked, matched, released>>

(* The same loop tail in searchMultiLayersWithJoin, a line-for-line copy  *)
(* of searchMultiLayers': a searchWithJoin session takes this step.        *)
EndLayerWithJoin ==
  /\ join
  /\ EndLayer

Init ==
  /\ req \in Requests
  /\ pc = "init"
  /\ join = FALSE
  /\ executors = [l \in Layers |-> "none"]
  /\ errors = <<>>
  /\ filterWrapper = FALSE
  /\ joinFilter = "unset"
  /\ cur = 1
  /\ quota = Quota[1]
  /\ seeked = 0
  /\ seekErr = "OK"
  /\ timedOut = FALSE
  /\ checks = 0
  /\ totalSeeked = 0
  /\ matched = {}
  /\ drained = {}
  /\ released = {}
  /\ Collector!Init

(* A session ends when init fails, search returns, or search throws.       *)
Next ==
  \/ InitSearcher
  \/ CreateJoinFilter
  \/ StartSearch
  \/ StartSearchWithJoin
  \/ SeekDoc
  \/ SeekError
  \/ ~join /\ EndLayer
  \/ EndLayerWithJoin

Spec == Init /\ [][Next]_vars /\ WF_vars(Next)

-----------------------------------------------------------------------------
Errors == {"ERROR_SEARCH_LOOKUP", "ERROR_SEARCH_LOOKUP_FILEIO_ERROR", "ERROR_LOOKUP_TIMEOUT",
           "ERROR_SEARCH_SETUP_FILTER", "ERROR_SEARCH_SETUP_AGGREGATOR",
           "ERROR_INDEXLIB_IO", "ERROR_SEEKDOC_TIMEOUT"}

(* The quota of layers 1 .. n together.                                   *)
RECURSIVE FoldQuota(_)
FoldQuota(n) == IF n = 0 THEN 0 ELSE Quota[n] + FoldQuota(n - 1)

ErrorSet == {errors[i] : i \in DOMAIN errors}

(* Types; a layer's seek count stays within the layer's quota.            *)
TypeOK ==
  /\ req \in Requests
  /\ pc \in {"init", "initFailed", "ready", "seeking", "done", "aborted"}
  /\ join \in BOOLEAN /\ joinFilter \in {"unset", "absent", "installed"}
  /\ drained \subseteq Layers
  /\ executors \in [Layers -> {"none", "exec", "pk"}]
  /\ errors \in Seq(Errors)
  /\ filterWrapper \in BOOLEAN
  /\ cur \in Layers
  /\ quota \in Nat /\ seeked \in 0 .. quota
  /\ seekErr \in {"OK", "FileIO", "Fatal"}
  /\ timedOut \in BOOLEAN
  /\ checks \in Nat /\ totalSeeked \in Nat
  /\ matched \subseteq Docs /\ released \subseteq Docs
  /\ cSeen \subseteq Docs /\ cKept \subseteq cSeen /\ cOut = {}

(* A search that returns -- all layers walked, or stopped early on an I/O  *)
(* error or a timeout -- leaves the collector holding exactly the K best   *)
(* of every handle the seekers matched, the partial result included.       *)
SearchResultIsTopK ==
  pc = "done" => cKept = Collector!TopK(IF req.needScore THEN matched ELSE {})

(* The seek never exceeds the quota of the layers walked so far: the       *)
(* quota a layer leaves over moves to the next layer, and nothing more.    *)
QuotaHonored ==
  totalSeeked <= FoldQuota(cur)

(* A search that returns without ERROR_INDEXLIB_IO or ERROR_SEEKDOC_TIMEOUT *)
(* has seeked every layer that has an executor until its quota or its      *)
(* handles ran out: no layer is silently cut short or skipped.             *)
NoSilentTruncation ==
  (pc = "done" /\ ErrorSet \cap {"ERROR_INDEXLIB_IO", "ERROR_SEEKDOC_TIMEOUT"} = {})
  => {l \in Layers : executors[l] # "none"} \subseteq drained

(* Specification 4.1: with a PKFilterClause the layer's executor is        *)
(* wrapped in a PKQueryExecutor.  When createPKExecutor's primary-key      *)
(* Lookup throws, the layer's executor is already built and                *)
(* createQueryExecutor returns it unwrapped; only the lookup error it      *)
(* records makes init fail, so no session seeks a layer without the PK    *)
(* restriction.                                                            *)
PKClauseHonored ==
  (req.pkClause /\ pc \in {"ready", "seeking", "done", "aborted"})
  => \A l \in Layers : executors[l] # "exec"

(* Every session ends: init fails, or search returns or throws.            *)
SearchTerminates ==
  <>(pc \in {"initFailed", "done", "aborted"})

(* Specification S5 / 4.1: a lookup failure on some layers is not fatal    *)
(* while another layer's executor was built; init then fails only on a     *)
(* lookup timeout, a filter or an aggregator it cannot set up.             *)
PartialLookupFailureNonFatal ==
  (/\ pc = "initFailed"
   /\ \E l \in Layers : executors[l] # "none")
  => \E e \in {"ERROR_LOOKUP_TIMEOUT", "ERROR_SEARCH_SETUP_FILTER",
               "ERROR_SEARCH_SETUP_AGGREGATOR"} : e \in ErrorSet

(* Specification 7: every error other than a thrown seek error is reported  *)
(* through _errorResultPtr, so an init that returns false leaves at least   *)
(* one error code -- also when every layer's createQueryExecutor returned   *)
(* NULL without an exception (an empty executor, or a PK clause with no     *)
(* primary-key reader).                                                     *)
InitFailureReported ==
  pc = "initFailed" => ErrorSet # {}
=============================================================================

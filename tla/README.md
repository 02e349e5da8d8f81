# TLA+ models of the havenask ranked retrieval core

This directory holds TLA+ models of the ranked top-K retrieval pipeline of
ha3, as it appears in this excerpt of the repository, and the TLC
configurations that check them. All modules and configs are flat in this
directory. `PROJECT.json` lists the components, the runs, the mutants, the
map from every modelled definition to its source lines, the findings and the
hazards.

## 1. The system

Three source files make up the core (`src/aios/ha3/ha3/...`):

| Part | Source | State | Operations |
|---|---|---|---|
| RankSearcher | `search/RankSearcher.cpp` | one query executor per layer, the filter wrapper (filter, sub-doc filter, join filter), the aggregator, the shared `ErrorResult`, the timeout terminator | `init`, `createJoinFilter`, `search`, `searchWithJoin` (the layer loop and four seek flavours) |
| NthElementCollector | `rank/NthElementCollector.cpp` | a slab of `2K + BATCH` handles, `_matchDocCount`, the cut `_minMatchDoc` | construct, `doQuickInit`, `collectAndReplace`, `flushBuffer`, `doStealAllMatchDocs`, destroy |
| CacheMinScoreFilter | `search/CacheMinScoreFilter.cpp` | `_scores`, one score floor per first-level sort expression | `storeMinScore`, `serialize`, `deserialize`, `filterByMinScore` |

**How they interact.** `RankSearcher::init` builds everything the search
needs. If init fails, the session stops there. Otherwise `search` walks the
layers in order. Each layer's `SingleLayerSearcher` seeks handles within the
layer's quota. Every survivor of the filter wrapper is aggregated, and then:

- if a top-K is required, it goes to `hitCollector->collect`, which batches
  handles into `NthElementCollector::collectAndReplace`;
- otherwise it is released.

A layer's unused quota rolls to the next layer. The loop breaks early:

- on an index I/O error, with `ERROR_INDEXLIB_IO`;
- on a timeout, with `ERROR_SEEKDOC_TIMEOUT`.

Any other seek error is thrown. After the loop the collector is flushed.
When a result is cached, `storeMinScore` records each collector's cut score.
A later query served from the cache uses `filterByMinScore` to drop
candidates on the wrong side of those floors, tops the survivors up to the
expected count and releases the rest.

**Hard behaviours.**

- Per-layer lookup exceptions during init.
- The order of the I/O-error, fatal-error and timeout checks after each
  layer.
- Quota carry between layers.
- The collector's cut test, its slab bound and its partial selection.
- The ownership of every handle: each must be held, released or handed out
  exactly once.
- The floating-point "no floor" default of the cache filter.

**Collaborators not in the excerpt.** `LayerRangeDistributor`,
`SingleLayerSearcher`, `TimeoutTerminator`, `FilterWrapper`,
`HitCollectorBase`, `ComboComparator` and `ResultEstimator` are not under
`src/`. They are modelled from the specification, to the extent that the
code above uses them, and are marked `spec_modelled` in the map.

**The index task scheduler.** Apart from ha3, the excerpt has indexlib's
`ComplexIndexTaskPlanCreator`
(`src/aios/storage/indexlib/table/index_task/`). Each call of
`CreateTaskPlan` asks `ScheduleSimpleTask` for an ordered list of tasks:

1. `alter_table`, when the on-disk version's schema id differs from its read
   schema id;
2. otherwise the designated task;
3. otherwise the configured tasks whose `NeedTriggerTask` says yes,
   stable-sorted by the age of their newest task log, followed by a default
   merge when no merge task is configured.

It then returns the plan of the first task whose creator builds one. It
stops at the first error: an unknown type, a creator error, or a
`GetCandidateTasks` error. Between calls the framework runs the plan, which
adds a task log.

**The clause parser context.** `ClauseParserContext`
(`src/aios/ha3/ha3/queryparser/clause/ClauseParserContext.cpp`) owns one
parsed object per clause kind: aggregate, distinct, virtual attribute,
layer, searcher cache, rank sort and syntax expression. A `parseXClause`
call runs the generated bison parser, which hands any object it builds to
`setX`; `setX` deletes the object already held. The call then checks the
result:

- it resets `_errorResult` to the clause's error code when the parse
  failed and no error is recorded yet, or when no object is held;
- it returns whether `_errorResult` is clean.

`stealX` hands the object to the caller. `getNormalizedExprStr` parses an
expression, steals it and deletes it. The destructor deletes whatever is
still held.

**The CRC mask.** `indexlib/util/CRC32C.h` masks a CRC before it is
stored in a file: `Mask` rotates it right by 15 bits and adds kMaskDelta,
`Unmask` undoes both. Both compute in uint32_t, so the addition and the
subtraction wrap.

The rest of the excerpt is described in section 6.

## 2. Modules

| Module | Models |
|---|---|
| `TopKCollector` | The abstract collector: what any top-K collector promises its caller. It owns a subset of what it was given, drops only handles outside the K best, and after a flush owns exactly the K best. Handing out and destruction empty it. |
| `NthElementCollector` | The collector, operation by operation. See below. |
| `CacheMinScoreFilter` | The score-floor filter. See below. |
| `RankSearcher` | One search session. See below. |
| `IndexTaskPlanCreator` | The index task scheduler. See below. |
| `ClauseParserContext` | The parser context's object ownership and result checks. See below. |
| `CRC32C` | `Mask` and `Unmask` of `indexlib/util/CRC32C.h` at the full uint32 width. See below. |
| `MC*` | Small constants for TLC. |

**`NthElementCollector`** models the slab `buf` position by position.
`Len(buf)` is its high-water mark.

- `CollectAndReplace` is one whole call: the reject loop, then, when the slab
  is full, the `nth_element`, the copy of the rejected handles behind the
  replaced region, and the reset of the count.
- `std::nth_element` is any arrangement whose K-th element is the K-th best
  and whose prefix holds the K best (`NthElementOrders`).
- The handle ownership is tracked in `released` (a bag, so a double release
  shows) and `stolen`.
- Under the refinement mapping, `ImplementsTopKCollector` checks
  `INSTANCE TopKCollector WITH seen <- collected, kept <- held, ...`.

**`CacheMinScoreFilter`** models score_t as a float:

- `numeric_limits::max()` is `FloatMax`;
- `numeric_limits::min()` is `FloatMinPositive`, the smallest positive value;
- the `(score_t)` cast of `getRankScore` is `ToScoreT`: rounding to
  `MantissaBits` significant bits, to nearest with ties to even. A float has
  24, so integer scores above 2^24 meet; the model gives score_t 2 bits, so
  its small scores meet the same way (17 and 20 both become 16). The floor
  test compares the rounded values, the top-up's comparator the typed ones.

The number of first-level sort expressions, `nExprs`, is chosen per
behaviour up to `NExprs`: one descending expression, or two of opposite
order (a multi collector).

A floor vector is stored once, serialized into a length-prefixed buffer and
read back. `FilterByMinScore` is the whole call. It partitions
(`DoFilterByMinScore`), tops up (`SelectExtraMatchDocs`: the selection,
the append and the compaction of the rejected vector) and releases
(`ReleaseFilteredMatchDocs`).

**`RankSearcher`** models one session:

- `InitSearcher` is the whole of `init`, with every layer's lookup outcome
  chosen by the environment: executor built, empty, exception, FileIO
  exception, and a PK lookup that works or throws.
- `CreateJoinFilter` is the optional call that follows init.
- `StartSearch` and `StartSearchWithJoin` are the entries of `search` and
  `searchWithJoin`; both run the prologue `EnterSeekLoop`.
- `SeekDoc` is one seek of a layer together with what the searcher does with
  the handle: reject, collect or release.
- `SeekError` is a seek returning an error code.
- `EndLayer` is the rest of the loop body (`EndLayerWithJoin` is the same
  tail in the join copy of the loop). When the loop ends, it includes
  the flush.

The collector is an `INSTANCE` of `TopKCollector`. `NthElementCollector` is
checked to implement it, so what RankSearcher is shown to do with it holds
for the real collector.

**`IndexTaskPlanCreator`** models one call of `CreateTaskPlan` as one
action, `CreateTaskPlanCall`. The environment of the call is chosen freely:
whether tablet data exists, each config's `NeedTriggerTask` (yes, no or
error) and each creator's `CreateTaskPlan` (plan, null or error). The
scheduled tasks of a call are distinct, so a creator's outcome is chosen per
position of the task list. The tablet's configs, `Configs`, are fixed for a
run and chosen in `Init` among the constant `TabletOptions`.

- `GetCandidateTasks` is a fold over the configs.
- `std::stable_sort` is a recursive insertion sort, `StableSortByPriority`.
- The loop of `CreateTaskPlan` is the recursive `PlanFirst`.

The same action also records `expected`, which is `RefPlan` of the same
call. `RefPlan` states the documented priority order declaratively:
candidates ranked by age with ties in config order (`SetToSortSeq`), and the
first stopping task found by a minimum rather than by a loop.

`IndexTaskHistory` is not under `src/`. `RunPlan` models it as the code
reads it: the plan's task logs `now` as its newest entry, keeping `MaxLogs`.
A task with no log takes the oldest log of all (0 with none). `RunPlan` also
realigns the schema ids after `alter_table` and consumes a designation.
`Tick`, `AlterSchema` and `Designate` are the clock, a schema change and a
user designation.

**`ClauseParserContext`** has one action per public call: `ParseClause(k,
outcome)` (every `parseXClause` and `parseSyntaxExpr`), `Steal(k)`,
`GetNormalizedExprStr` and `Destroy`. The generated parser is not under
`src/`. It is abstracted to what the context sees: an object built with
status OK, status OK with no object, or an error status. Objects are
numbered in allocation order. `stolen` holds the objects handed to callers.
`deleted` is a bag, so a double delete shows. The constructor, in the
header, is `Init`. `getStatusMsg` only formats a message and is left out.

**`CRC32C`** models a uint32_t as a function from bit positions 0..31 to
{0, 1}, because TLC's integers stop at 2^31. The shifts move bits and drop
those moved out, `|` is bitwise, `+` is a ripple-carry addition that loses
the carry out of bit 31 (`AddU32`), and `-` adds the two's complement
(`SubU32`). `StoreMasked` is one call of `Mask`, `LoadUnmasked` one of
`Unmask`. `TypeOK` checks that every word the arithmetic produces is 32
bits of 0 or 1, which a sum kept without reducing each column breaks.

## 3. Runs

| Run | Checks | Shows |
|---|---|---|
| `collector_topk` | TypeOK, MinMatchDocSound, TopKRetained, FlushedIsTopK, OwnershipExact, SlabBound, ImplementsTopKCollector | The cut is never above a held handle. No handle among the K best of all collected is ever dropped. A flush leaves exactly the K best. Every handle given is held, released or stolen exactly once, across every collect, flush, steal and destroy. The slab stays within `2K + BATCH`. The detailed collector implements the abstract `TopKCollector`: a steal without its flush would hand out handles outside the K best. |
| `collector_cut_below_k` (violation) | MinMatchDocOnlyWhenFull | `flushBuffer` sets a cut with fewer than K handles. |
| `cache_filter` | TypeOK, FilterConservation, NoUnderDelivery, FloorKeepsCut, KeepsBestExpected | With one descending expression or two of opposite order, and a score_t that rounds distinct scores together: no handle lost or released twice, at least expectCount delivered, every handle ranking at or above the cut a floor was recorded from (the collector's top()) kept after the floor's serialize and deserialize round trip, and with one expression the expectCount best kept, rounding notwithstanding. `FloorKeepsCut` needs `getMinScore` and `isFilter` to agree on the orientation of each sort flag and the cast to score_t to be monotone. |
| `cache_filter_no_floor` (violation) | NoFloorKeepsAll | The descending "no floor" drops handles scoring 0. |
| `rank_search` | TypeOK, SearchResultIsTopK, QuotaHonored, NoSilentTruncation, PKClauseHonored, SearchTerminates | See below. |
| `rank_init_partial_lookup` (violation) | PartialLookupFailureNonFatal | One layer's lookup exception fails init while another layer's executor exists. |
| `task_plan` | TypeOK, PlanMatchesReference | For two tablets' configs, over every call environment, across plan runs that age the logs, schema changes and designations: every call returns the plan or error of the documented order. This includes age ties in config order, a new task tying with the oldest, the default merge, and a config or designated task of an unregistered type (InvalidArgs unless something earlier stops the scan). |
| `parser_ownership` | TypeOK, OwnershipExact | Over every sequence of parse, steal, normalize and destroy calls with every parser outcome: each clause object is held by one member, handed out, or deleted exactly once. |
| `parser_stale_result` (violation) | SuccessHoldsThisParse | A parse that builds no object returns true when an earlier parse of the same kind left its clause unstolen. `PARSE_AND_CHECK_RESULT` tests the member, not this parse's object, so `setOriginalString` relabels the older clause and the caller steals it. |
| `rank_init_silent_failure` (violation) | InitFailureReported | init returns false with an empty error result when no layer got an executor and no lookup threw: every executor empty, or a PK clause with no primary-key reader. |
| `rank_join_type_default` (violation) | NoSilentTruncation | With a non-builtin hash-join key type, searchWithJoin returns having seeked nothing, with no error. |
| `crc_mask` | TypeOK, UnmaskInvertsMask | Over CRC words around every uint32 wrap point, the masking arithmetic stays within 32 bits and Unmask gives back the CRC that Mask stored. |

`rank_search` checks these over every request shape, init outcome, join
mode, join filter, I/O error, fatal error and timeout point:

- a returned search leaves exactly the K best matched handles, partial
  results included;
- seeks stay within the carried quota;
- no layer is skipped without an error;
- with a PK clause, no session seeks an executor without its PK wrapper.
  When the primary-key Lookup throws, `createQueryExecutor` returns the
  unwrapped executor, and only the lookup error stops init;
- every session ends.

Every property of a passing run has a mutant in `PROJECT.json`: a plausible
slip in the mapped code that TLC shows breaks it.

## 4. Bounds

- **Collector: 6 handles, K = 2, BATCH = 2.** Scores have ties, so the doc-id
  tie-break matters. 6 handles fill the slab (2K = 4) and overflow it with a
  batch, so the selection, the copy of rejected handles into the extra BATCH
  room and the flush with both more and fewer than K handles all happen.
- **Cache filter: 5 handles, expectCount 0..3.** The scores include 0 and a
  negative value, so the top-up, the full-release path and the float "no
  floor" edge occur. Two-bit score_t makes 17 and 20 cast to the same
  value, so the rounding of the floor test matters. Requests carry one
  expression or two of opposite order.
- **CRC mask: 182 CRC words.** Each 16-bit half near 0 or near 2^16, the
  words on either side of the point where `Mask`'s addition starts to wrap,
  and the words just above kMaskDelta. The full 32-bit width is kept.
- **RankSearcher: 2 layers of 3 handles, quotas 4 and 1.** Layer 1 carries 1
  to layer 2, which then has more handles than its own quota. There is one
  filter-rejected handle and one handle with no join key. K = 2 and the
  timeout step is 2. Every init outcome per layer is enumerated, as are
  PK / filter / aggregator / sub-doc flags, join mode and join filter.

- **Scheduler: two tablets of two configs each, two designated tasks, time
  0..1, one log per task.** Two candidates are enough for the sort to order them, both by age
  and by tie. The task logs only ever hold 0 or 1, so ties are frequent, as
  same-second logs are in practice. A new task takes the oldest age. Without
  tablet data every priority is 0. The second tablet's second config, and one
  designated task, have a type no creator is registered for. Every outcome of every creator is enumerated per call.

- **Parser context: three kinds (aggregate, distinct, syntax), three
  objects.** Three allocations are enough to replace a held object, steal
  one and leave one for the destructor, across two kinds and the
  normalize path. The other clause kinds run the same macro as aggregate
  and distinct.

## 5. Fairness

RankSearcher is a single-threaded synchronous call. While the session has not
ended, some step is always enabled, and the code never waits. Weak fairness
of `Next` is therefore what the code's scheduling gives. The collector and
the cache filter are driven by their callers, so they have no liveness
property and no fairness. Neither has the scheduler. A creator that always
fails really does block every later task, so "the default merge is
eventually planned" does not hold for the code, and the model states no such
property.

Deadlock checking is on for the scheduler and the cache filter, where a call
is always possible. It is off for the collector, the parser context, the
CRC round trip and the searcher, because
each models an object or a session that really stops:

- a session that failed, returned or threw;
- a collector that was stolen or destroyed;
- a parser context after its destructor;
- a CRC that was stored and read back.

## 6. Not modelled

- **ResultEstimator and the aggregator.** They affect only the returned
  match-count estimate and the per-layer aggregation decision.
- **Metrics, tracing and `endRankPhase`.** They change no state any property
  reads.
- **The task creators themselves** (merge, split, reclaim and alter-table
  plans). Only their outcome (plan, null, error) matters to the scheduler.
- **The bison grammar of the clause parser.** It is generated code; the
  context model takes its outcomes as input.
- **`~RankSearcher`.** It only deletes the pool objects init created.
- **`CRC32C::Extend`.** Only declared in the header.
- **The epilogue of `searchMultiLayersWithJoin`** (flush, metrics,
  `endRankPhase`). It is a copy of the epilogue of `searchMultiLayers`,
  and `FinishSearch` models both. The join loop's seek steps are the
  shared `SeekDoc` and `SeekError` with `join` set. Its loop tail is the
  action `EndLayerWithJoin`.
- **The remaining headers** (`JoinKernelBase.h`, `DelayDpKernel.h`,
  `PrepareExpressionResourceOp.h`, `TruncateStrategy.h` and the other
  configuration headers). They hold declarations with no bodies apart
  from one-line accessors and `joinRow`, which appends two indexes.
- **document_deduper_helper.** A stateless predicate.
- **OpDefs, RPCChannelManagerBase and the headers.** Registrations, empty
  bodies and declarations.

## 7. Plan for further work

1. The scheduler under a fair environment in which creators eventually
   succeed: check that every triggered task is eventually planned (no
   starvation by age ties).
2. A composition of `NthElementCollector` with `CacheMinScoreFilter`: a rerun
   over the same candidates with the stored floor keeps the K best.
3. The collector's reuse after a steal, if a caller that reuses one appears.

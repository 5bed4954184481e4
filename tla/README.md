# TLA+ verification of Hanoi-Routing

TLA+ models of the program in this repository, the TLC configurations that
check them, and proofs checked by TLAPS. Paths are relative to `src/`;
`core`, `server`, `gateway`, `tools` are crates under `CCH-Hanoi/crates/hanoi-*`,
`IFC` is `rust_road_router/lib/InertialFlowCutter`.

Run a configuration with `tlc -config <X>.cfg <module>` (the module is named in
`PROJECT.json`), the proofs with `tlapm <M>.tla` for the eight modules `...Proofs`.
`PROJECT.json` maps every definition to the lines it stands for, and lists runs,
mutants, findings, hazards and theorems.

## 1. Inventory

Hanoi-Routing answers route queries on a road graph whose edge weights change
while it runs. Data flows from left to right, each step through files:

    OSM file -> cch_generator (RoutingKit import) -> graph directory
             -> conditional_turn_extract          -> conditional turns, chains
             -> validate_graph (between the steps)
             -> InertialFlowCutter                -> order of the nodes
             -> generate_line_graph               -> line graph directory
             -> server, CLI, bench (load, contract, cache, customize, query)

`server` then takes weight vectors that `CCH_Data_Pipeline` posts and queries that
`gateway` forwards or the web page sends.

| part | state | operations | hard behaviour | what makes it correct |
|---|---|---|---|---|
| server: handlers, channels, engine thread (`server/src/{handlers,engine,state,main}.rs`) | `latest_weights`, a watch channel, a bounded query channel, two flags, the customized hierarchy | `/query`, `/customize`, `/reset_weights`, `/info`, `/ready`; the engine loop | two copies of the weights written in two steps; flag polling; panic, disconnect, full queue; shutdown | weights in use are a published vector, never replaced by an older one, stale for at most one route; every query is answered once |
| core: cache (`cch_cache.rs`, both `load_and_build`) | array files and `cache_meta` on disk | validate, map, build, save | crash between files, truncation under a mapping, sources replaced | what is loaded was built from the sources in use |
| core: via-way restrictions (`via_way_restriction.rs`) | adjacency lists, split map | one split per chain | chains that share arcs | exactly the forbidden drives are lost |
| `RoutingKit` contraction hierarchy | remaining graph, hierarchy, query object | contract, reorder, save; every query protocol | bounded witness search, arrays reused between rounds | shortest distances explained by real roads |
| `RoutingKit` customizable hierarchy | chordal supergraph, metric, query object | customize (one sweep, threads, partial), perfect witness search, queries | threads racing for one arc; stale arrays | the same, for every weight vector |
| `RoutingKit` buffered reader | ring of blocks, mirror, flags | read, destroy; worker thread | pointers kept across wrap-around, lost wakeup | the bytes of the source, in order |
| `RoutingKit` OSM import (`osm_decoder`, `osm_profile`, `osm_graph_builder`) | decompressor, decoder, id mappings, builder | scans of a file with callbacks | exceptions between threads, order of entities, delta coding | the graph of the map |
| `RoutingKit` condition parser and restriction resolver; `CCH-Generator`; pipeline script | files of a graph directory | generate, extract, validate, load | a program dies between two files, a map is replaced | what passes the checks can be gone on with; restrictions bind |
| `IFC` separator search (`flow_cutter_accelerated.h`, `separator.h`, `node_flow_cutter.h`) | cutters, tasks, best cut | advance, pierce, report | threads that share cutters, unlocked test of a score | the best minimum cut, and a real separator |
| `IFC` dissection order (`min_fill_in.h`) | tasks over one array of slots | split, contract chains, dissect | tasks writing one array | a permutation that dissects |
| core: query engines, spatial index, geometry | customized weights | snapping, coordinate queries, alternatives | floating point | cost of a shortest permitted route |
| `rust_road_router` CCH | hierarchy | contraction, customization, query | saturation at `INFINITY` | shortest distances |
| server: shutdown, overlays, web page; gateway; data pipeline; diagnosis; camera editor | see `PROJECT.json` | | a drain without bound; overlapping fetches; a post loop that ends | not modelled, section 5 |

Interactions: handlers and engine thread share `AppState` and two channels; CLI, bench
and server share a graph directory with the tools that rewrite it; the reader is the
decoder's source and the file's; the order of `IFC` is an input of both hierarchies;
the chains the resolver writes are the input of the node splits.

## 2. Modules

| module | models |
|---|---|
| `WeightServer` | handlers, channels and engine thread of the server; its inductive invariant |
| `WeightFeed` | abstract: a last-writer-wins feed of weight vectors |
| `WeightServerProofs` | theorems |
| `CchCache`, `CchCacheInv`, `CchCacheProofs` | `load_and_build` over the cache on disk; inductive invariant; theorems |
| `ViaWaySplit`, `ViaWaySplitProofs` | `apply_node_splits` and the reading of its split map; theorems |
| `ShortestDistances`, `ShortestDistancesProofs` | reference: distances by a dynamic program, used by both hierarchies; what it computes |
| `ContractionHierarchy`, `ContractionHierarchyQuery` | the builder; the query object on what it builds |
| `ContractionHierarchyInv`, `ContractionHierarchyProofs` | inductive invariants of the contraction, the finished hierarchy and the query object; theorems |
| `CustomizableCH`, `CustomizableCHQuery` | construction and customization; the query object over the metric |
| `CustomizableCHInv`, `CustomizableCHProofs` | inductive invariants of the customizations and of the query object; theorems on the metric |
| `CustomizableCHQueryProofs` | theorems on the answers of the query object |
| `AsyncReader`, `ByteStream` | worker and main thread of one reader; abstract: a stream of bytes |
| `OsmPbf` | decompressor, decoder and scans of a file |
| `OsmProfile`, `OsmGraphBuilder` | what tags mean; nodes, ways and relations to a graph with forbidden turns |
| `OsmImport` | the two calls that load a map, over `OsmPbf` and `OsmGraphBuilder` |
| `OsmImportProofs` | theorems on the import, and on the readers below it |
| `ConditionCalendar`, `ConditionalTurns` | when a condition is active; resolving restrictions on the saved graph |
| `GraphValidator`, `GraphPipeline` | the checks; the directory and the programs that write it, one file per step |
| `ExpandedGraph`, `FlowCutter` | the doubled graph; one cutter |
| `SeparatorSearch` | one call of `ComputeSeparator`, sequential or by threads |
| `GraphWalks`, `DissectionOrder` | preorder, blocks, tree ranking; the order and its tasks |
| `Ordered` | sorted sequences of a set, shared by the above |
| `MC...` | finite instances for TLC |

Composition: `OsmImport` extends decoder and builder; `GraphPipeline` extends resolver
(which extends the builder), calendar and validator; the query modules extend their
builders; `SeparatorSearch` extends the cutter. Two boundaries are crossed by
abstraction: `OsmPbf` takes its two readers for streams because `AsyncReader` implements
`ByteStream`, and `DissectionOrder` takes any set of nodes for the separator that
`SeparatorSearch` finds.

### WeightServer

A handler is split where it awaits or releases a lock, the engine loop between its
accesses to shared state. `CustomizeStore`/`CustomizeSend` are the two halves of
`handle_customize`: `latest_weights` is overwritten under its lock, the lock is
released, and the vector is sent on the watch channel; `ResetStore`/`ResetSend` are the
same for `handle_reset_weights`. `QueryArrive`, `QuerySend`, `QueryReply` are
`handle_query` between its awaits; `QueryAbandon` is the runtime dropping a handler whose
client left. `EngineCheck` ... `EngineStop` are the loop of `run_normal`, which
`run_line_graph` repeats; `EnginePanic` unwinds it from the two calls that can panic,
dropping both receivers and every queued message. `Shutdown` drops the last senders,
`Exit` is the process ending. `sent` keeps every vector the watch channel ever held so
that versions can be compared; the channel itself holds the last. `log`, `crossed`,
`ackVer`, `lone` and `poll` are history: nothing in the server reads them. A query's
search is reduced to the version of the weights it used and to whether it found
a route or was refused. `Pollers` are the updates whose client polls `/info`.

### CchCache

One step per file opened, written or read. A file's content is the sources it was
computed from, or `torn` from the moment `File::create` truncated it until it is
complete. `topology`, `mapping` and `ranks` stand for the groups of files that
`DirectedCCH` stores; `Written` and `Needed` are kept apart because in the code they are
two lists. `Check` is `is_valid`; `LoadFile`, `Accept`, `Reject` are the
reconstructor with its cross-structure checks, which compare lengths and ranges and so
may or may not notice arrays of other sources; `SaveOpen` ... `MetaWrite` are
`save_impl`. Processes may die anywhere, saves may fail anywhere, the pipeline may
replace the sources at any time.

### ViaWaySplit

Nodes are numbered as in the code: arcs first, copies after them in order of creation,
`splitMap` telling which arc a copy was cloned from. One step per chain: `SkipShort`,
`SkipBroken`, or `Split` with the copies, the redirected or cut edges and the redirected
entry. Adjacency lists are sets: `EdgesAreTurns` checks that a node never has two edges
to the same arc, which is what makes that sound. Edge weights travel with edges and
are left out.

### ContractionHierarchy, ContractionHierarchyQuery

Arcs are kept by their ends: the code sorts them and looks them up by tail and head. The
builder's step is one pop, one target or one node of `contract_node`, so that a witness
search is interrupted by its bound exactly where the code's is; `search` is the
`ShorterPathTest` with the forward search that several targets share. Which node is least
important is left open (`MayBeLeastImportant` is all that remain), hence every order is
covered. `Finish` renames the nodes, reorders them for the cache and computes the
unpacking; `Written`/`ReadBack` are the file. The query object is one step per pop or
per swept node; each array is indexed by the direction, and pinning uses the other
direction's arrays for its lists, as the code does. What a caller may do in which
state follows the `InternalState` assertions. `Ends` lets the chains of predecessors be defined at
every node: the code follows them from reached nodes only, and the predecessor of any other node may be
one of an earlier round.

### CustomizableCH, CustomizableCHQuery

`ContractNode`, `BuildTree`, `FilterNode`, `KeepArcs` are the constructor: chordal supergraph,
elimination tree, filter, one node of a loop per step. `Customize`, `RelaxPair`, `NextNode`
are the loops of `customize()`, one pair of arcs of a node per step, with the cache of down arcs,
which is set anew for the arcs of a node and never cleared of others; `StartParallel`, `TakeArc`, `ReadTop`, `AtomicMinTo`, `Barrier` are
the OpenMP loop over one level: a thread reads its sum once, reads the value to replace, and
stores with a compare-and-swap, in steps of its own. A level is the set of arcs of the nodes
whose lower neighbours are all in `placed`, the nodes of earlier levels; `Reweigh`, `UpdateArcs`,
`PartialStep` the partial customization with its queue. `StartWitnessSearch`, `WitnessStep` are the
perfect witness search, one triangle per step from the top down; `BuildPerfectWitness` puts the arcs
it keeps together, with both ids 0 where no kept lower triangle is found, and ends in `invalid`
where `check_contraction_hierarchy_for_errors` throws. The query module has the
elimination-tree walks, cut off at a common ancestor, the pinned runs and the unpacking.

### AsyncReader

A byte is its position in the source; a cell being written is `Junk`. Steps end where a
thread takes or gives up the mutex; the source is read outside it. The main thread keeps
pointers into the ring, so `ImplementsByteStream` looks through the pointer, after the read
as well as at it. `falling` is the time between the test under the lock and the wait, in
which a failing worker's notification is lost: the flag is set without the lock.

### OsmPbf, OsmProfile, OsmGraphBuilder, OsmImport

`Decompress` is the decompressor thread with its look-ahead, `SeesStatus` the caller
waiting for the header, `Decode` one block into callbacks, `Throws` an exception on either
side, `EndsScan` the end of one of up to three scans over an unsorted file. A block is a record
of what the decoder reads; varints and the deflate format are left out, delta coding and the
string table are in. The profiles are predicates on tags, as far as the keys in
`OsmProfile` go; ids stay those of OSM since the mapper keeps their order. Geographic
distance is the sum of coordinate differences.

### ConditionCalendar, ConditionalTurns, GraphValidator, GraphPipeline

A condition is its sequence of tokens, and the parser's backtracking is modelled: a comma that
no member follows stays where it is. `GraphPipeline` runs programs on a directory:
`StartsGenerate`, `StartsExtract` and `StartsLineGraph` read what the program reads, then each
`SavesFile` is one file in the code's order;
a program may die between two files, and the map may be replaced between two programs.
The validator's checks that only warn are left out; so are geometry files, bearings, the
permutation files, and travel time and coordinates of line graph nodes.

### ExpandedGraph, FlowCutter, SeparatorSearch

`FlowCutter` is one cutter as a function of its state: `Advance` is `advance`, with the
augmenting search, the growing of both sides and piercing by every rating; `SeparatorSearch`
has the terminals, the sequential loop (`Round`) and the threads: `Count`, `AdvanceCutter`,
`ReportCut`, `StoreCut`, `Check`, `Release`, `Uncount`, `Scan`, `TakeCutter` are the accesses to shared
state in `parallel_enum_cuts` and `separator.h`. `StoreCut` tests the score again under the
lock. `Scan` is one step: it reads flags that only send a thread to a cutter,
which it must still acquire. Distances that the code leaves uninitialised for some ratings are a
nondeterministic choice (`unfilled`). Sorting a handful of cutters is taken as
stable and ties of distance go by number.

### GraphWalks, DissectionOrder

A task is a sequence of problems; `Begin`, `TakeBlock`, `ContractChains`, `Dissect` and
`PlaceTrivial` are the functions of `min_fill_in.h` with the split into components
that each ends in. Joins of tasks are left out: a caller may go on before its
tasks have ended, which only adds interleavings. Roads are sets of two nodes (each is an
arc each way); arc weights are read by the search alone. `apart` is history: the
families of components whose parts the order is to keep apart. Inside a separator nothing is
promised, and `whole` marks the problems for which something is.

## 3. What the runs show

| run | question | result |
|---|---|---|
| `server_safety` | all interleavings of 2 queries, 2 updates, engine, panic, disconnect, shutdown; queue of 1 | holds: `AtMostOneStaleRoute`, `AgreeUnlessCrossed`, `AnswersComeFromDispatch`, `EmptyMeansPanicked`, `LonePollIsRight`, `ImplementsFeed` |
| `server_live` | does every query finish and every published vector get applied, with no query to wake the engine | holds: `EveryQueryFinishes`, `PublishedIsApplied` |
| `cache_line` | 2 processes, 2 contents of the sources, line graph | holds: `CacheIsRight`, `MappedStaysWhole`, `LineGraphCacheHits`, `IInv` |
| `via_split` | lists of 2 and 3 chains on 6 arcs | holds: `EdgesAreTurns`, `LegalWalksSurvive`, `ChainsBindUnlessCopied` |
| `ch` | every order, give-up bounds of the witness search, both builders, every query protocol | holds: `CoreKeepsDistances`, `HierarchyIsConsistent`, `RunIsShortest`, `PinnedRunIsShortest`, `PinnedRoadExplainsDistance` |
| `cch` | three ways to customize, two racing threads, new weights between queries | holds: `MetricIsExact`, `TrianglesAreSettled`, `WitnessSearchIsPerfect`, `QueryIsShortest`, `PinnedIsShortest` |
| `reader` | worker, reads of every size, a source that fails, destruction at any time | holds: `ImplementsByteStream`, `EveryCallReturns` |
| `osm` | arrangements of blocks, sound and broken; 343 maps under four profiles | holds: `EveryEntityOnce`, `ArcsFollowTheWays`, `TurnsFollowTheRelations`, `SpeedsAreUsable`, `ImportEnds` |
| `gen` | 384 maps under pairs of restrictions; programs that die, maps that are replaced | holds: `EveryPhasePasses`, `PassedIsUsable`, `RestrictionsBind` |
| `gen_via_node` | does a conditional restriction with a via node bind | violated: `ViaNodesBind` |
| `dissect` | calls of every rating, avoidance and bulk step; two threads sharing four cutters | holds: `CuttersAreSound`, `BestOfAll`, `SeparatorSeparates` |
| `order` | all trees of 5 and 6 nodes, larger graphs, every separator, every interleaving | holds: `OrderDissects`, `TreesAreShallow` |

`gen_via_node`: `generate_graph.cpp` makes every node of a way a node of the graph, the
extractor rebuilds the numbering with the default, in which interior nodes are not. The id of
a via node is then another node's and the restriction is dropped. `RestrictionsBind` shows that
restrictions without via node, and all restrictions where the numberings agree, do bind.

The properties that hold say under which conditions they do. The conditions are where the code
is weaker than one might think:

* `AgreeUnlessCrossed`: two updates that cross between store and send leave `latest_weights`
  with one vector and the engine with the other. `/evaluate_routes` then describes weights no
  query uses.
* `LonePollIsRight`: `customization_active` belongs to whichever vector is being applied;
  polling is right for an update sent to an idle engine only. `engine_alive` is cleared when the
  channel closes, so `/ready` does not notice a panic.
* `CacheIsRight`: the checksum is of the sources. Sources replaced under a loading
  process, or returning to an earlier content after an interrupted save, go unnoticed.
  `LineGraphCacheHits` speaks of the line graph only: the plain CCH stores two
  files and first reads a third (`ranks`), so its cache is never used.
* `ChainsBindUnlessCopied`: two restrictions over the same first and second arc; the first
  split hides the second's entry, which is then skipped. And the arcs in the middle of a chain
  cannot be destinations for a vehicle coming from its first arc, as queries look for the
  base node only (`LegalWalksSurvive` allows for it).
* `WitnessSearchIsPerfect` promises kept arcs that unpack only where nothing was filtered. With
  `filter_always_inf_arcs` the search sees only triangles whose arcs all survived. In `Valley` the arc
  0-1 is lowered over 3 and dropped, but the shortcut 2-1 over 0 is not, since the arc 2-3 is filtered
  out: it is never finite over lower nodes, but over a higher one. Both ids of the shortcut stay 0,
  against the assertion at `customizable_contraction_hierarchy.cpp:1883`, and in a build without assertions
  `check_contraction_hierarchy_for_errors` throws: the run ends in `invalid`. The distances are right even then.
* `EveryCallReturns`: a failure that falls between the main thread's test and its wait
  leaves it asleep for ever.
* `ImportEnds`: a file from which the caller never learns whether it is sorted leaves it waiting.
* `EveryPhasePasses`: conditional files left by an older map make the next validation fail, and the
  script, which runs under `set -e`, stop. `PassedIsUsable` is for fewer than two deaths:
  after two, the roundabout file, which no check covers, may be a third map's.
* `RestrictionsBind`: a restriction is excused where its condition names the whole week as a range of
  days (`NamesWholeWeek`). The loop at `osm_condition_parser.cpp:59` (and 83) ends at the day after the last, which
  for `Mo-Su` is where it begins. The mask is empty, the condition counts as one that cannot be parsed,
  and those are always active: `Mo-Su 07:00-09:00` forbids its turn all day. In a list of days
  the range is missing. Yet the comment at line 44, `docs/done/Conditional Turns Implementation.md:228-229`
  and `docs/walkthrough/Manual Pipeline Guide.md:301` all name `Mo-Su` among what the parser handles. Two
  conditions of the run, `Daily` and `Listed`, are of that kind: without the excuse, `gen` fails on both.
  All other ranges bind when they say, those round the end of the week included. A restriction whose
  via node is renumbered may be lost, as above. A window past midnight uses the day of the moment
  asked about; no condition of the run has both days and such a window, so nothing is said of these.
  A conditional restriction along ways is taken apart into one turn per junction;
  a two-way via way of several segments yields no chain (`Walkable`).
* `BestOfAll`: `node_first` and `edge_first` may end without a separator, which
  `min_fill_in.h` only asserts against.

### Bounds

`WeightServer`: requests are served once each, so the sets `Queries` and `Updates` bound
the run and no counter needs another bound. Two updates are needed for crossing,
overtaking and polling confusion; two queries and a queue of one for waiting senders and
for messages queued behind a dispatch. Two weight vectors tell the copies apart; the
liveness run has one, as its properties compare versions only, and no pollers. Safety uses
the symmetry of requests, liveness none. `CchCache`: two processes for interference, two contents for "changed" and
"changed back"; nothing else is bounded. `ViaWaySplit`: a graph of six arcs in which chains
of three and four arcs can share entry, middle and exit and can be driven again;
`WalkBound` = 6 lets a chain of four be entered and left.

`ContractionHierarchy`: graphs of three and four nodes with loops, parallel arcs, zero
weights, one-way streets and equal alternatives, every contraction order; `PopBounds` {0, 2}
(the code's default is 500) so that the search gives up before and after its first
detour. On graphs of four nodes a shortcut over a shortcut and a stalled node
occur. `MaxSources`, `MaxRounds`, `StartDistances` and `PinLists` bound the callers: more where
the graph has three nodes. `CustomizableCH`: seven graphs, each for one hard thing, named in
`MCCustomizableCH`: racing threads meet only if two triangles of one level share their top arc
(`Diamond`); weights go up, down and to closed (`Traffic`); ways lead over higher nodes (`Hill`, `Valley`). `Inf` = 99 exceeds every sum.

`AsyncReader`: blocks of three bytes, so that reads begin and end anywhere in one, a ring of
five as in the code, a stream of 19 bytes: more than once round the ring of 15,
with an incomplete last block. `OsmImport`: three ways over seven nodes, every pair from
seven sets of tags; 16 arrangements of one map in blocks cover header features, kinds in any order, raw and
deflated blobs and four ways to be broken; two or more blocks let the decompressor be ahead.
`MaxTags` bounds a callback's tag list. `GraphPipeline`: `starts` and `deaths` of a map bound
how often programs run and die; three maps of different size replace each other, so leftovers
of two of them meet; `Moments` are four days and seven minutes at and beside the ends of every
window. `SeparatorSearch`: `ParallelismCutoff` 5000 is shrunk to 4 so that five
nodes count as many; two threads, four cutters; four geographic directions where the
pipeline's call has eight. `DissectionOrder`: `TaskSpawnCutoff` 800 is shrunk to 1, so all components of
two or more nodes are tasks; every labelled tree of five and six nodes is there, as labels decide
where a search is rooted; the graphs have a core, chains inside and outside it, dead ends, several blocks, or
no node of degree two.

### Fairness

`FairSpec` of `WeightServer`: weak fairness of the engine loop (an OS thread that never
blocks longer than 50 ms) and of each handler once its request has arrived (tokio polls ready
tasks). Clients, panics and shutdown owe nothing. A sender waiting for room in the channel
needs no strong fairness here, since no handler can take the freed slot twice.
`AsyncReader`: both threads are scheduled; the worker strongly, as its step needs the mutex that
the main thread takes and releases again and again, and operating systems do not starve
a waiter for ever. Neither the caller nor the source is obliged to call, fail or wake spuriously.
`OsmImport`: the decompressor thread and the calling thread each keep running, weakly fair
per thread; the construction of the graph after the last scan is not needed for `ImportEnds`.

### Deadlock

Checked in `WeightServer`, `CchCache`, `ViaWaySplit` and `SeparatorSearch`, whose `Terminated` or `Finished`
states are the ended program. Switched off where a computation simply ends and the model has no
more calls: both hierarchies (bounded rounds), the reader (destroyed, or the lost wakeup that
`EveryCallReturns` names), the import, the pipeline (bounded starts) and the order.

## 4. What is proved

Forty-two theorems, in eight modules. Each inductive invariant holds on the finite
instances above when added to their INVARIANTS (of `HInv` and `QInv`, on its graphs of four nodes, as far as
TLC comes in five minutes); only `cache_line` keeps it there.

`WeightServerProofs`, for every finite or infinite set of requests and vectors and every
channel capacity above zero, from the assumptions named in `WeightServer` (the baseline
is a vector, `None` is not one, capacity is a positive number, no request is both a query
and an update):

* `TypeCorrect`: `TypeOK`, with the bound on the channel.
* `Freshness`: `AtMostOneStaleRoute`. `EmptyAnswers`: `EmptyMeansPanicked`.
  `CopiesAgree`: `AgreeUnlessCrossed`. `AnswersAreDispatched`: `AnswersComeFromDispatch`.
  `LonePolling`: `LonePollIsRight`.
* `Inductive`: the invariant `IInv` they rest on, and `Refinement`: `Spec => ImplementsFeed`.

None of these properties is inductive. `IInv` adds what carries them: `Versions`
(position in the loop fixes how `applied`, `taken` and `seen` are related, so a dispatch
can only start with everything seen applied), `Debts` (what was published when an
earlier dispatch began has been seen by the time the loop can start another),
`Lifecycle` (no handler outlives `AppState`; replies are dropped only by a panic),
`Agreement` (while no update ever crossed, at most one is between store and send, and the
held weights are its own), `Custody` (a query is before, in, or out of the channel, once)
and `Polling`. The lemmas follow that order, one per conjunct: `NextSplit` reduces a step
to the disjuncts that touch the conjunct's variables, `OutsideFrame` and `AgreementFrame`
dispose of the others, and each later lemma may use the earlier parts of the invariant.
`Refinement` maps `sent`, `applied` and the debt of the last dispatch to the feed.

`CchCacheProofs`, for any set of processes, any contents of the sources and both values of
`LineGraph`, from the assumption that the marks `none`, `missing`, `torn` and `foreign`
are no contents:

* `TypeCorrect`: `TypeOK`. `AcceptedIsRight`: `CacheIsRight`. `MappingsStayWhole`:
  `MappedStaysWhole`. `FinishedSavesAreUsed`: `LineGraphCacheHits`. `Invariance`: `IInv`.

`CacheIsRight` speaks of one process at one moment; what keeps it is about the files.
`Vouched` is the centre: metadata of the present sources means that every readable file is
of the present sources. A finished save establishes it through `Saved` (what a save has
behind it is of the present sources, or torn by another) and `Own` (what a process
loaded is still what is there); a return of the sources to an earlier content keeps it
through `Complete` (no save cut short and none running, so the old metadata describes the
old files) or is excluded by `Known` (every checksum is of sources that were there).
`Reading` carries it to the process that maps files. `Alone`, `Undisturbed` and `Mapped` do
the same for `MappedStaysWhole`, `Promise` for `LineGraphCacheHits`. One lemma per part,
one step per action; `Files` is all that is used of the two file lists.

`ViaWaySplitProofs`, for any number of arcs, any turns, any lists of chains and walks of any
length:

* `NoTurnInvented`: `TypeOK` and `EdgesAreTurns`. Together they are inductive. The step that
  matters is `Split`: `SplitShape`, `SplitEdges` and `SplitArcs` say what it makes of the
  split map and of each node, `SplitRedirects` that a node then leads where one node led
  before, but for at most one arc that gave way to a copy of itself; `EdgesStep` concludes.
* `NoLegalWalkLost`: `LegalWalksSurvive`. `AppliedChainsBind`: `ChainsBindUnlessCopied`.
  `SplitsInvariant`: `IInv`, which both rest on.

`IInv` takes the copies as the states of an automaton: who is on the k-th copy of a chain came
along its first k arcs (`EnteredAlong`), goes on to the next copy if the chain's own turn
is taken, has every other turn of its arc, and finds no forbidden turn on the last one
(`LeadsOn`); arcs themselves keep every turn (`TurnsKept`), perhaps to a copy. The hard part is
that a copy is made from edges which earlier chains redirected and is no longer touched when later
ones redirect its arc: `EnteredAlong` must hold of copies made of copies' predecessors, and
`Caught` (who takes the first turn of a chain is caught by it) only of chains whose first arc had
no copy yet, the exception that `ChainsBindUnlessCopied` names. `Splits` says once what a split
does to map and edges, and each part of the invariant has a lemma for the older chains and one for
the `Fresh` one. The walks themselves are an induction over their length: a legal walk
finds at each node a turn to the arc it wants (`FindsTheTurn`), a drive along a chain stays on its
copies (`OnTheCopies`).

`OsmImportProofs`, for any set of files that are sequences of blocks whose groups are of the kinds the
format knows, with numbers without a sign in speed tags, ids that tell nodes and ways apart, and nodes before ways
where the header says sorted (`FilesAssumption`), any profile, with turns or without, with every node kept or only those that matter:

* `EntitiesOnce`: `EveryEntityOnce`. It rests on `ImportInvariant`: `PbfInv`.
* `UsableSpeeds`: `SpeedsAreUsable`, as every way called back for stands in a group of the file, and
  parsing its speed tag ends above zero (`SpeedTagRead`).
* `TurnsFollow`: `TurnsFollowTheRelations`, by `BuildInv`.
* `ArcsFollow`: `ArcsFollowTheWays`, by `RoadInv`, which adds `OrderInv` and `PlaceInv`.

The property compares the end of a call with the whole file. `Accounted` says it of every moment: unless an
exception is pending, what was delivered of a kind the running scan reads, then what is pending, then what
the blocks ahead of the decoder will give, is what the file holds up to where the decompressor stands; of any other
kind nothing is pending, and either all of the file was delivered or a later scan is to read it. `InOrder`
keeps the scans disjoint and within what was asked for, and says that an ordered call has
called nothing back while it waits for the header, which is why it may still choose between one scan and three. Each step
has a lemma on this balance (`InflatingBalances` ... `SplittingBalances`). They need that decoding for several
kinds at once gives, of each, what decoding for it alone gives (`BlockByKind`): a group gives entities of its own kind or
an exception (`GroupDecodes`). Flattening is a recursion over positions, so its laws are shown by an induction over lengths.

The graph is compared with the whole file too, and again the invariant says it of what was met so far, as long as
nothing was thrown (`Sound`): the ids in use are those of the used ways met by the first scan, and the
routing nodes their ends and the nodes met a second time (`MapInv`, with `WayMapped` for the loop over one way);
then the restrictions are those of the relations met (`LoadInv`), every node met has its position, and
the arcs are the legs of the used ways met (`PlaceInv`). The loop along a way keeps what `WalkAt` says: the legs up to here are done, and since
the last routing node so many points and so much distance were gathered. The arcs of a way take the positions
as they are when the way is met, so all nodes must come before: `NodesComeFirst`. `OrderInv`
is why: either the scans still to come read nodes before ways, or there is one scan, the file says it is sorted,
and what was delivered, what is pending and what the blocks ahead give is the start of the file (`Row`). At the end the scan has met everything
(`AllMet`), so both sides speak of the file. Sorting loses no arc and leaves none before one it belongs
after (`SortKeeps`: the place of an arc is how many are not after it, and no two arcs share it). The turns are worked out from any arcs and any
restrictions: every turn has a restriction that asks for it (`TurnPasses`), and as the arc pair of a restriction
is the only one of its kind (`CandidateIs`), a lone obligation cannot forbid the turn it wants (`WayToGo`).

The same module, on the readers, for every block size above zero, every length of the stream and
whether or not the source may fail:

* `ReaderInvariant`: `IInv`. `ReaderImplementsStream`: `ReaderSpec => ImplementsByteStream`.

`Counted` (how much is held, and that one block is free, two while the source writes) keeps
the cells that are written away from those that are read; `Stored` says where each held byte is, in
the ring and in the mirror block, `HandedKept` that the bytes last handed out lie just before
`dataBegin` and are still there, `Arrived` what waits to be committed, `Ended` what
the flags mean. The lemma `RingGeometry` has the arithmetic of the ring's sizes; `Wrap` is
written with a comparison, as the code's is, so no division is needed.

`CustomizableCHProofs`, for any road graphs, orders and weights (an order names every node, a
weight is a natural number, `invalid_id` is no node and no arc), with or without the filter,
for any set of threads:

* `CustomizationInvariant`: `IInv`. `EveryWaySettles`: when the sweep, a parallel customization or
  any number of partial ones has ended, every arc has the least of its input arcs and
  of the ways over its lower triangles (`TrianglesAreSettled`).
* `SettledMetricIsUnique`: two metrics with that property are equal. So sweep, threads and queue
  end with the same weights, whatever the interleaving and the history of changes.

In between nothing is settled. For the sweep, what is behind the node at hand is relaxed, and the
cached down arcs that the loop looks at are those of this node (older entries are skipped as
their tail is another). `Begun` separates the arcs whose own weight is final (their
lower node is in this level or an earlier one) from those that may still fall: a thread's two
lower arcs are begun, the arc it lowers is not, which is why levels cannot disturb each
other and why a sum read earlier is still right (`WorkersOK`). `Explained` keeps every weight
reachable from below, `Covered` says of each triangle of a begun arc that it is relaxed, or
not handed out, or still on a thread's list; at the barrier only the first remains. The lemma
`ThreadStep` states once what a step of a thread owes, the three actions discharge it. For the
queue, `UnaffectedArc` is the point: an arc the code does not put into the queue keeps its least
weight, although the test mixes the old weight of one side with the present ones of the
others. Uniqueness takes the least arc where two metrics differ.

The same module goes on to what the metric says:

* `EveryWayIsExact`: `MetricIsExact`. The weight of an arc between two nodes is, whichever way the
  metric was made, the distance between them over nodes below both. It is the theorem that the
  chordal supergraph needs no witness search: if it lacked a fill-in arc (a lower triangle without
  top), or the filter dropped an arc that some weights need, this would fail.

* `WitnessSearches`: `WitnessSearchIsPerfect`. Rests on `WitnessSearchInvariant`: `WInv`, which is `IInv` with
  `SearchOK`. It says of the running search that each weight is between the true distance of its
  ends and the exact weight the customization gave it (`Lowered`), that the arcs kept are the finite ones
  not lowered (`Kept`), and what a triangle it has gone over still guarantees (`Searched`): neither of
  its two lower arcs is longer than the exact weight of the other plus the true distance between the upper corners.
  That is more than the step establishes by itself: it compares with the present weight of the upper arc,
  and this weight is the true distance already because the triangles of that arc came before
  (`SearchedIsTrue`: a shortest way from an arc's lower end first rises to a node above it over one exact
  arc, `RisesFirst`, and without the filter the triangle with that node is there). When all triangles are done every weight is the true distance,
  so a kept shortcut has halves of exact weight, true distance, and is thus over kept arcs. For
  the distances less is needed (`KeptArcsKeepDistances`): a shortest way up that begins with the
  nearest node it can rise to begins with an arc that was never lowered, filter or not.

`CustomizableCHQueryProofs`, under the same assumptions, for any sources, targets and pinned lists whose
nodes are nodes and whose start distances are at most `inf_weight` (`CallsAssumption`), and any
number of rounds and changes of weights in between:

* `RunsAreShortest`: `QueryIsShortest`. The distance of a run is that of the best source and target,
  and the arcs and nodes it reports are a road between the two it names, of that length.
* `PinnedRunsAreShortest`: `PinnedIsShortest`. `QueryInvariant`: `QInv`, which both rest on.

`QInv` is `IInv` with `TreeOK` and `QueryOK`. The tree: a set of nodes that holds the parents of its members
holds all their upper neighbours (`TreeOK`), so it is enough that a search space is closed under
`elimination_tree_parent`. The walks: although a node's path is cut off where it meets what is there
already, the loops see every node of the search space once, and none after an upper neighbour
(`WalkOK`, by `WalkGrows`). The arrays: between runs a distance is what the caller gave, or
`inf_weight` (`AtStart`), although `reset` clears only what its walks go over; `Closed` says why
that is enough. The way up keeps `Climbed` step by step and ends with `Settles` (no arc can lower a
distance) and `Backed` (each finite one is a start's or comes over an arc); the way down keeps `Descended` and
ends with `Tops` and `Realised`. Nothing is said of predecessors left from earlier rounds but that they lead
down (`LeadsDown`): it makes the chains of `pred` end, and those that matter are `Backed`.
From there to the true distance: a shortest way has a highest node (`HighestNode`) below which it is in the metric,
so the best meeting node, or the best top of a pinned node, attains it. For the road, a `Drive` is a row of
segments, each over an input arc with the weight of its arc; an arc unpacks into one, by induction over
its lower node (`ArcsUnpack`), and drives join. The recursions of the code (walks, `FirstIn`, unpacking,
chains of predecessors) are functions of which existence is shown first, by rank (`RankedRecursion`).

`ShortestDistancesProofs`, for any number of nodes and any weights up to `Inf`, from the assumption
that `Inf` is a natural number:

* `DistancesAreGreatest`: the dynamic program `Distances`, which both hierarchies are compared with, is
  a metric (zero to itself, the triangle inequality) below the arc weights, and the greatest such.
  Everything else follows from that characterisation, not from the program: `LighterIsNearer`,
  `ShortcutsChangeNothing` (lowering arcs to no less than the distance between their ends) and
  `TakenOutKeepsDistances` (a node can go when every pair of arcs through it has a way around).

It also has the least member of a set of numbers and induction over them, by a descent through finite
sets, as the library's induction over numbers takes an operator.

`ContractionHierarchyProofs`, for any inputs whose arcs have two nodes and a weight in `Nat`
(`InputsAssumption`), any orders that name no node twice (`GivenOrdersAssumption`), an invalid id that is no
node and no arc (`NoIdAssumption`), any pop limit, and callers that give start distances and pins as
`CallsAssumption` says: every property of the `ch` run.

* `ContractionKeepsDistances`: `CoreKeepsDistances`. Between nodes not yet contracted, the distances
  over remaining arcs and shortcuts are those of the input, after every step of every contraction.
* `ContractionInvariant`: `IInv`. Between two steps the contraction of a node is half done, so the
  invariant says for which pairs of arcs a way around the node is known (`Needless`, in `SourcesOK` and
  `TargetsOK`). `Noted` is why a witness may be trusted: whatever a search has noted of a node, in the
  queue or settled, is the length of a real way around the contracted node in the graph as it is
  now. This survives the shortcuts that are added while in-arcs share a forward search
  (`ShortcutShortens`): they only make ways shorter. It says nothing of minimality,
  so stopping a search early or settling any of several nearest nodes costs a needless shortcut at most.
* `FinishedHierarchyIsConsistent`: `HierarchyIsConsistent`. Rests on `HierarchyInvariant`: `HInv`. While nodes
  are contracted, every arc that is kept leads to a node contracted later, and is an arc of the input or
  stands for two arcs of a lower node of just its weight (`Stands`); and a shortest way up from a node
  begins with one of its arcs (`HopsIn`): that is what `IInv` gives at the moment the node is contracted.
  The order for the cache need not follow the order of contraction. It names every node once
  (`OrderIs`) and puts a node below its upper neighbours, so the finished hierarchy has the same two
  properties over its new numbers, with the old ranks as levels (`Levelled`). What is read from a
  file is again such a hierarchy, as the fields it leaves out follow from those it has.
* `RunsAreShortest`: `RunIsShortest`; `PinnedRunDistances`: `PinnedRunIsShortest`; `PinnedRoads`:
  `PinnedRoadExplainsDistance`. All rest on `QueryInvariant`: `QInv`.

`QInv` compares every label with `best`, the true distance from what was added: no label is below it
(`IsLabelled`). That a search only looks up, leaves stalled nodes unexpanded and stops before its queue is
empty makes many labels too long; `Progresses` says which are not. For a node that is the
highest on all its shortest ways (`IsTop`), the highest node on them with a right label is still in the
queue, or the node itself has its right label. A stalled node has a higher right one, an expanded
one puts the next into the queue, and the meeting node of a best road is such a top from both sides
(`Joined` ends it: nothing in a queue can improve on `len`). In a pinned run `ArePins` says that
the list, kept in the arrays of the other direction, has every node above a pin, each after its
upper neighbours; hence the sweep computes `best` (`IsSwept`) whatever the arrays held. `IsTraced` is
the stale half of it: a node that keeps its flag has the label and the predecessor of this round's search, one that
lost it has an arc from a node swept before, and only a node out of reach keeps neither.

For the roads, a `Route` is a row of input arcs; an arc of the hierarchy unpacks to one of its own weight
(`WeightsUnpack`, by its lower node), and the chain of predecessors from a reached node ends at a start with
the label accounted for (`LabelsAreExplained`). After a pinned run the walk goes down swept arcs first
(`Descends`), then along predecessors. The recursive functions of the code (`UnpackArc`, `StartOf`,
`ExtraFromSource`, the orders) are shown to exist by rank before anything is said of them. Stacks, queues and
sorts over sets need only what the lemmas `Sortable`, `SortedByLists` say of a sorted list.

Weights saturate at `Inf` in these proofs, as in the reference; that a sum of weights fits
in 32 bits is an assumption of the code, which checks it nowhere, and of the models.

Only model-checked: all liveness, which needs fairness; the pipeline, the separator and the order. These compare a
recursive computation with its reference and so need induction over data, or use `RECURSIVE` operators.

## 5. Not modelled, and why

* Floating point: snapping, coordinate queries and same-edge cases, spatial index, turn angles,
  bearings, overlays, camera resolution. Their outcome depends on rounding and
  geometry rather than on state.
* `rust_road_router`: the hierarchy the server queries and its alternatives. It is an upstream
  library; it shares the relaxation of triangles with `CustomizableCH` but no code, and so the `cch`
  run says nothing of it.
* The server's drain of its listeners, the gateway's timeout, the posting loop of the data pipeline and the
  web page's overlapping fetches: what they do to the server is in `WeightServer` (a handler
  dropped, a request that never comes, shutdown, a poll); their own state is not modelled.
* A metric built by the perfect witness search and then queried further
  (`customizable_contraction_hierarchy.cpp:1749`): documentation only queries the hierarchy.
* `IFC`: orders from cuts of arcs, path orders, orders around independent sets and the sequential
  cutter, which the pipeline's command (`console.cpp:2879-2900`) does not reach; bulk distances with distance
  cutters, which throw; the reporting of cuts in order, which is switched off.
* Response formats, logging, `/health`, request parsing beyond accepted or refused, UI and
  tracing endpoints; camera editor, turn diagnosis, prompts of the pipeline script.

## 6. What is left

In order of importance, should the project go on:

1. `CoordinateQuery` over an abstract distance oracle: tiered snap pairs, same-edge cases and
   partial costs under changed weights, with distances as small integers.
2. `ServerShutdown`: both listeners, the timer and the engine thread.
3. The line graph's fan-out in the data pipeline: one weight per line-graph edge through the split
   map of `ViaWaySplit`.
4. The hierarchy of `rust_road_router`, as a second implementation of the distances `CustomizableCH` is
   compared with.

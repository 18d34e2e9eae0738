# SSD simulator: TLA+ models and proofs

The repository simulates the firmware of a solid-state drive: a NAND array, a
flash translation layer, garbage collection with wear leveling, a DRAM cache and
the controller that ties them together, fed by a trace replayer, with a second
implementation in JavaScript for the browser. This directory models that program
in TLA+, checks it with TLC on small drives and proves the central facts with
TLAPS for drives of any size.

## 1. Inventory

| component | state | operations | talks to |
|---|---|---|---|
| `Page`, `Block`, `FlashMemory` | per page: free / valid / invalid and its data; per block: erase count | program, invalidate, erase; searches for free pages and blocks | called by controller and GC |
| `FTLMapper` | table LBA -> (block, page) | map, remove, look up, reverse look up | called by controller and GC |
| `GarbageCollector` | cycles run, wear-leveling interval | `runOneCycle`, `staticWearLevel`, `shouldTrigger` | array, table, statistics |
| `SSDController` | watermark; owns all of the above | `write`, `read`, `flushCache`, `garbageCollect`, `setWearLevelInterval`; private `nandWrite` | everything |
| `PageCache` | LRU list of (LBA, data, dirty), four counters | `read`, `insert`, `write`, `flush`, eviction | hands dirty entries back to the controller |
| `StatsTracker` | counters and latency sums | record and charge; WAF, IOPS, lifespan estimate | written by controller and GC, read by reports |
| `RequestQueue`, `ReadRequest`, `WriteRequest` | FIFO of requests, a mutex nobody locks | add, test for empty, take | filled by the parser, drained by `main` into the controller |
| `TraceParser` | three counters | `loadInto` | queue |
| `LatencyModel` | constants | presets SLC, MLC, TLC | controller, GC |
| `main` | results of the scenarios | three demo scenarios of one workload and their comparison; the trace replay | controller, parser, queue |
| `visualizer/index.html` | its own drive in JavaScript; its counters and chart histories; the playback's pending frame, pause flag, speed | write, read, GC, wear leveling; run, pause, reset, speed | browser: clicks and animation frames |

The C++ drive is single-threaded: a host call runs to its end before the next
one starts, and nothing is persistent. What is hard about it is therefore not
concurrency but the *length* and *nesting* of what one call does. A `write` may
evict another LBA, whose `nandWrite` may start a collection, which moves pages
of yet other LBAs one by one, may give up half-way, and may be followed by a
wear-leveling pass that moves more of them; if no page is free after all that,
another collection follows. Each of these reads state the step before has just
changed. The properties that matter relate the table to the array, the cache to
both, and the state now to the state many calls ago. Callbacks interleave in one
place only, the visualizer, where animation frames and clicks come in any order.

* array: pages are programmed in order and only after an erase;
* table: every entry names a valid page that no other entry names;
* GC and wear leveling: invisible to the host, never stuck, no page leaked;
* `nandWrite`: one atomic update of one LBA, or (full drive) none;
* controller with cache: a disk, whatever was cached, evicted or flushed;
* statistics: counters that agree with the array, reports that agree with both;
* demo: scenarios that differ in what they measure only, and takeaways that are true;
* replay: every line of a trace reaches NAND, in order;
* playback: one at most, on its own drive, all of its workload, in order, under
  figures that are that drive's.

## 2. Modules

    FlashMemory <- FTLMapper <- GarbageCollector <- NandWritePath
    NandWritePath, PageCache <- SSDController
    SSDController, LatencyModel <- SSDStatistics
    SSDController <- TraceReplay
    SSDStatistics <- DemoProgram
    SSDStatistics <- VisualizerDrive <- VisualizerPlayback

An arrow points to what is extended. `NandWritePath` refines the abstract
`LogicalDevice`, `SSDController` the abstract `HostDisk`.
`SSDController` also refines `NandWritePath`: to the NAND side the cached
controller is one more host.

| module | what it models |
|---|---|
| `FlashMemory` | `Page`, `Block`, `FlashMemory`: state of each page, erase counts, the searches as relations ("the search returns b"), programming and erasing |
| `FTLMapper` | the mapping table and its reverse lookup, which returns -1 for a page nobody maps to |
| `GarbageCollector` | `runOneCycle` and `staticWearLevel`, one action per loop step: `GCSelect`, `GCMigrate`, `GCErase`, `WLSelect`, `WLMove`, `WLErase` |
| `NandWritePath` | `nandWrite` (`BeginNandWrite`, `Program`, `ForceGC`, `DropWrite`) and the host calls of a drive without cache |
| `PageCache` | the LRU list as a sequence; what each method leaves behind and hands back |
| `SSDController` | the controller with its cache: `CtrlWrite`, `ReadHit`, `ReadMiss`, `ReadUnmapped`, `FlushCache`, `CtrlCollect`, `CtrlSetInterval`, `NextNandWrite` |
| `LatencyModel` | the four timings of a drive and the presets |
| `SSDStatistics` | `StatsTracker` and the cache's counters: each action is one of `SSDController` with the record and charge calls the code makes there; then the figures the reports compute from them and from the array (WAF, latency, IOPS, hit ratio, erase statistics, bars, lifespan estimate) |
| `DemoProgram` | `main`'s scenarios: one workload on three drives (`runScenario`), `collectResult`, the summary and the takeaways |
| `TraceReplay` | `runTraceScenario`: `TraceParser::loadInto` on one path after the other, `RequestQueue`, the drain loop and the final flush |
| `VisualizerDrive` | the drive of `visualizer/index.html` (`createSim`) with its counters: the actions of `SSDStatistics` where the two agree, its own where they differ |
| `VisualizerPlayback` | the page's main loop (`startSim`, `step`, `togglePause`, `resetSim`, `setSpeed`) its workload, its figures and the four histories behind its charts, as clicks and frames over the drive |
| `LogicalDevice` | abstract: a store updated atomically, one LBA per write; `MayDrop` says whether a write may be dropped |
| `HostDisk` | abstract: a read returns the last data written |
| `MC...` | instances for TLC |
| `NandWritePathProofs` | theorems about `NandWritePath`: on any drive; about wear; about drives with a spare block and about full ones |
| `PageCacheProofs`, `ControllerProofs` | lemmas about the cache's lists; theorems about `SSDController` |
| `StatisticsProofs`, `ReplayProofs`, `DemoProofs` | theorems about `SSDStatistics`, `TraceReplay`, `DemoProgram` |
| `VisualizerProofs`, `PlaybackProofs` | theorems about `VisualizerDrive`, `VisualizerPlayback` |

Correspondence of state:

* `pageState[<<b, p>>]` is the pair of flags `isFree`, `isValid` of a page. The
  pair (true, true) does not exist: the constructor sets (true, false),
  `writeData` (false, true), `invalidate` only clears `isValid`.
* `pageData`, `eraseCount`, `mappingTable`, `gcCyclesRun`, `wearLevelInterval`,
  `lruList` are the fields of those names. The cache's `index_` maps each LBA to
  its list node and every method changes both together, so the list stands for
  both.
* `pc`, `returnTo`, `src`, `dst`, `cursor`, `writing`, `toNand` are the control
  point and the locals of the C++ functions in progress: `src` is the victim or
  the wear-leveling source, `cursor` the loop variable `p`, `writing` the
  arguments of `nandWrite`, `toNand` the entries `write`, `read` or `flushCache`
  has still to hand to it.
* `stats` and `cacheStats` are records of the counters. Times are in tenths of a
  microsecond, because the DRAM read takes 0.1 us; sums of whole microseconds,
  which all write and GC times are, are exact in the code's doubles, and
  quotients are modelled rounded down, in the unit their comment names; IOPS is the
  whole number below the code's quotient.
* In `DemoProgram`, `build` holds the compile-time constants of `main.cpp`, chosen
  initially so that one run explores many builds; `scenario`, `phase` and
  `written` are where `main` is. The data of a write is its LBA and round.
* In `TraceReplay`, `phase` is where `runTraceScenario` is, `candidate` the path
  it tries, `parsed` the parser's counters, `queue` the queue. Each line read is any
  member of `Line`, what `loadInto` tells apart: an operation, W, R or another, an LBA
  and data, each of the two possibly missing. `expected`
  and `lost` are history variables: the data of the last W line of each LBA, and
  the LBAs whose last data a full drive dropped.
* In `VisualizerDrive`, `ftlRev` is the JavaScript's second table; a read that
  finds the null of an erased page yields `Blank`.
* In `VisualizerPlayback`, `frames` is the browser's set of pending animation
  frames; the other variables are the page's globals of those names, the locals
  of `startSim` that each run's `step` closes over (`opIdx`, `batchSize`), and
  what the user sees: `buttons`, `status`, `figures` (the snapshot on display, if any)
  and `history`, the four lists of points that `updateCharts` pushes, shifts and
  `resetSim` clears one by one. The page draws two of them; all four are modelled. A
  quotient in a snapshot is represented by what is divided. A button can be clicked
  while it is displayed. `current` is the callback in progress: while there is one, neither a
  click nor a frame is handled, so one callback is one uninterrupted sequence of
  steps, as in a browser.

The steps are finer than the code needs (nothing can run between two of them):
this is what makes "GC is invisible" a statement about every intermediate state,
and what the inductive proofs go along. The watermark, a fraction in the code,
is a percentage; the comparison is then one of integers, and a quotient of two
small integers compares with a decimal literal in double precision as the exact
numbers do, because both are correctly rounded. `unordered_map` iterates in no
particular order, so `FindLogicalAddress` is a set of possible answers. Searches
by ascending index with a strict comparison are written as "b is the first of
the least": `FirstLeast`.

An operator whose name begins with `Faulty` is the operator below it with a
plausible bug; PROJECT.json pairs each property with one, to show that the
property would notice.

## 3. Runs

Passing runs:

| run | drive | question and answer |
|---|---|---|
| `nand_overprovisioned` | 3 blocks x 2 pages, 4 LBAs, watermark 40 %, up to 5 erases | With a block to spare and a watermark of a block or more (`OverProvisioned`): no page leaks (`NoOrphan`), a block less a page is always free between calls (`FreeReserve`), so no collection aborts and the drive is a lossless store (`LosslessStore`). Wear-leveling passes, which need an erase gap of 3, fit their destination (`WearLevelFits`) and never raise the highest erase count (`WearPeakNotRaised`). |
| `nand_tight` | 2 x 3, 4 LBAs, watermark 20 % (the code's default), interval 0, 2 or 5 | Overcommitted: collections abort and writes are dropped, yet `MappingIntegrity`, `ProgrammedInOrder`, `EraseBeforeWrite` and `AtomicStore` hold; and the forced second collection never helps (`ForcedCycleFutile`). |
| `cached` | 3 x 2, 3 LBAs, cache of 2 | The controller is a disk (`ActsAsDisk`), uses NAND as one more host would (`UsesNandAsHost`), keeps one version of an LBA in DRAM and only clean copies of what NAND holds. Its bound of two erases lets no wear-leveling pass, which needs a gap of 3, begin; with passes, what this run shows rests on the theorems `ImplementsHostDisk` and `CacheIsAHostOfNand`, and on `vis_spare`. |
| `stats` | 3 x 2, 3 LBAs, cache of 1, watermark 15 %, MLC, eight requests | Collections start only when no page is free, so that some abort half-way, also after copies, and writes are dropped; a wear-leveling pass runs too. The latency sums charge each program and erase once, to the right side (`NandTimeAccounted`); the physical writes are the programs the array has seen (`ProgramsMatchArray`); a host write leaves DRAM by being programmed, absorbed or dropped, and all but the drop are counted (`WritesAccountedFor`); the report says WORN OUT exactly when a block is marked WORN with a full bar (`WornOutReport`). |
| `replay` | 2 x 2, 3 LBAs, cache of 1, watermark 0, traces of up to five lines | Overcommitted, so that the drive fills up while a trace is drained. The scenario ends (`ReplayEnds`), every call and every `nandWrite` in it returns (`CallsReturn`, `WritesComplete`), and NAND holds what the last W line of each LBA says, but for what a full drive dropped last (`ReplayedTraceInNand`). Watermark 0 is the one setting in which the forced collection can succeed; here some do and some fail. |
| `demo` | the geometry, limits and SLC timing of the repository; 72 builds | The demo as built and with other numbers of cold and hot LBAs, rounds and wear-leveling intervals. It ends (`DemoEnds`); the three scenarios store the same (`SameContents`); passes reduce the variance of the erase counts and never raise the spread, the writes the cache coalesced are the programs it avoided, and it is faster (`TakeawaysHold`), in every build; the build as it is gives the README's 90.7 % and 15x (`ReadmeFigures`). |
| `vis_spare` | 3 x 2, 3 LBAs, cache of 2, up to 6 erases | With a spare block the visualizer's drive only takes steps the C++ one can take, wear leveling included, counts and charges the same (`MirrorsCpp`), and its two tables stay inverse. |
| `playback` | 4 x 4, 4 cold and 1 hot LBA, 10 rounds, cache of 8, histories of 8, two runs | However Run, Pause, Reset and the speeds are clicked between frames: the only pending frame belongs to the drive on display (`FramesAreCurrent`), figures and charts are that drive's, each of the four histories with one point per frame (`FiguresAreCurrent`), badge and buttons tell whether a frame is to come (`StatusTellsPlayback`), a run that completes has played all of its workload in order, down to the final flush (`WorkloadPlayed`), and it does complete unless it is paused or reset (`RunsComplete`). |

Runs that find a counterexample, each to a sentence of the repository (quoted in
PROJECT.json under `findings`):

| run | what it shows |
|---|---|
| `sentinel_lba` | LBA -1 is accepted but is also the "no LBA" answer: its page is erased by GC |
| `full_drive` | a dirty cache entry evicted on a full drive is lost |
| `stats_coalesced` | a write that hits a clean entry is counted as an avoided NAND write, and is not one |
| `vis_full` | on a full drive the visualizer's GC passes over a live page it has no slot for and goes on to the erase, where the C++ one gives up |

Bounds. `MaxErase` stops the host's calls once some block was erased that often;
it bounds the erase counts and with them `gcCyclesRun`. It is tested only where
a call starts, so every call runs to its end. In the C++ models the host can set
the interval even at the bound, so deadlock is checked; `TraceReplay` and
`DemoProgram` end as the program does, and the visualizer's drive has no such
call and stops at the bound, so there it is not; the page's own clicks never end.
`MaxRequests` bounds the reads and writes that `SSDStatistics` counts, and the
host's collections, because an aborted one counts too; eight are enough for a
drive with a one-page cache to fill up, to drop a write and to reach a
wear-leveling pass. `MaxLines` bounds a trace. `MaxRuns` bounds the clicks on Run;
two are what one run can do to the next. The drive and workload of `playback` are
the smallest that the page's sliders offer, with the smallest cache, in which the
whole workload fits: only then does the final flush matter (with more LBAs than
cache entries the closing reads evict every dirty entry). Each instance is small
in one dimension only: two pages per block exercise the partly valid victim, three
the victim that is half moved; the LBAs of `nand_tight` are one more than a block
holds so that aborts occur. Two data values are enough to tell a right copy from a
wrong one, since no action compares data; runs whose properties are not about data
have one. LBAs and data are permuted by symmetry in the runs without liveness.

The builds of `demo` vary each constant of the workload around its value: 8, 16
or 20 cold LBAs, 2 or 4 hot ones, 25, 50 or 75 rounds, and passes as often as
every cycle or as rarely as every eighth. Nothing is bounded in it: the workload
ends, and the choices of the searches for a free slot are the code's, first by
index. For the build of the repository the model computes what the compiled
program prints: 216, 232 and 20 physical writes, 21, 21 and 0 cycles, 0, 2 and 0
passes, variances 6.98 and 3.11, spreads 6 and 5, 2816 and 2681 remaining writes,
1440 and 21600 IOPS. One figure goes the other way in all builds in which passes
run: they lower the variance, but also the lifespan estimate, which their own
programs and erases shorten.

The runs of the visualizer's drive identify states that differ in the counters
alone (`VIEW WithoutCounters`): no step depends on them, and the properties of
these runs are about steps, which TLC takes and judges with their counters, and
about the tables. `HistoryLength`, 80 in the page, is 8 so that a run of 1x speed
fills it. The page's counters do not reach the bound `MaxRequests`.

Fairness. `ReplayFairSpec` and `DemoFairSpec` assume weak fairness of every step,
because there the host is `main`, which runs to its end and contains no wait.
`PlayFairSpec` assumes it of the callbacks and not of the clicks: a browser that
shows the page calls its pending frames, and a callback runs to its end.

## 4. Proofs

The theorems hold for any number of blocks and pages, any LBAs and data, any
watermark, interval, cache size, timing and `MaxErase`. Since `MaxErase` and
`MaxRequests` are arbitrary, the safety theorems cover every finite history.

| theorem | statement | for |
|---|---|---|
| `TypeCorrectness`, `MappingNeverDangles`, `PagesProgrammedInOrder` | `Spec => []TypeOK`, `[]MappingIntegrity`, `[]ProgrammedInOrder` | any drive |
| `ImplementsLogicalDevice` | `Spec => AtomicStore`: `NandWritePath` refines `LogicalDevice` | any drive |
| `PassFitsDestination`, `PeakWearKept`, `OutOfPlaceWrites` | `Spec => []WearLevelFits`, `WearPeakNotRaised`, `EraseBeforeWrite` | any drive |
| `ForcedCycleNeverHelps` | `Spec => []ForcedCycleFutile` | any drive |
| `NoPageLeaks`, `ReserveKept` | `Spec => []NoOrphan`, `[]FreeReserve` | spare block |
| `ImplementsLosslessDevice` | `Spec => LosslessStore`: `NandWritePath` refines the store that drops nothing | spare block |
| `CtrlTypeCorrectness`, `OneVersionPerLBA`, `CleanEntriesCoherent` | `CtrlSpec => []CtrlTypeOK`, `[]OneVersionInDRAM`, `[]CleanEntriesInNand` | any drive |
| `CacheIsAHostOfNand` | `CtrlSpec => UsesNandAsHost`: `SSDController` refines `NandWritePath` | any drive |
| `ImplementsHostDisk` | `CtrlSpec => ActsAsDisk`: `SSDController` refines `HostDisk` | spare block |
| `DirtyEntriesReachNandWhenProvisioned` | `CtrlSpec => DirtyEntriesReachNand`, which `full_drive` refutes on a full one | spare block |
| `StatTypeCorrectness`, `LatencyAccounted`, `ProgramsCounted` | `StatSpec => []StatTypeOK`, `[]NandTimeAccounted`, `[]ProgramsMatchArray` | any drive |
| `HostWritesAccountedFor` | `StatSpec => WritesAccountedFor` | any drive |
| `WriteAmplificationBounded` | the programs are at most as many as the host's writes times the pages of the drive | any drive |
| `WornOutReported` | `StatSpec => []WornOutReport` | any drive |
| `ReplayTypeCorrectness`, `ReplayComplete` | `ReplaySpec => []ReplayTypeOK`, `[]ReplayedTraceInNand` | any drive and trace |
| `ReplayLossless` | and no LBA is ever in `lost`, the writes a full drive dropped | spare block |
| `DemoTypeCorrectness`, `ScenariosStoreTheSame` | `DemoSpec => []DemoTypeOK`, `[]SameContents` | spare block, any builds |
| `TablesStayInverse`, `MirrorsCppWhenProvisioned` | `VisSpec => []TablesInverse`, `MirrorsCpp` | spare block |
| `VisualizerImplementsHostDisk` | `VisSpec => ActsAsDisk`: `VisualizerDrive` refines `HostDisk` | spare block |
| `FramesStayCurrent`, `StatusAlwaysTells`, `FiguresStayCurrent` | `PlaySpec => []FramesAreCurrent`, `[]StatusTellsPlayback`, `[]FiguresAreCurrent` | any drive and workload |
| `PlayTypeCorrectness`, `WorkloadAlwaysPlayed` | `PlaySpec => []PlayTypeOK`, `[]WorkloadPlayed` | spare block, any workload |

**Hypotheses.** `NoLBA \notin LBA`: -1 is not an LBA; `sentinel_lba` refutes
`MappingIntegrity` without it. "Spare block" is `OverProvisioned` (the pages beyond
the LBAs fill a block, and the watermark is a block or more) with finitely many
LBAs; `nand_tight`, `full_drive` and `vis_full` show what happens without it. For
the visualizer's drive also `Blank \notin Data`: the data of an erased page is a
JavaScript null, which no write stores. The playback needs no hypothesis on its LBAs,
which `LbaFacts` finds finitely many and none of them -1. The other assumptions are those the modules
state for their constants (natural numbers where the code has sizes, `Unmapped` not
an address, `NoWrite` not a write, the page's own workload); TLC evaluates them in
every run. The instances of `nand_overprovisioned`, `cached`, `demo`, `vis_spare` and
`playback` satisfy all hypotheses at once; that of `replay` those of `ReplayComplete`.

**The write path** (`IInv`). `MappingIntegrity` alone is not inductive: erasing the
victim keeps it only because no LBA maps into the victim any more, and that is
known only from the loop. `LoopsOK` says so: while a loop runs, every LBA still
mapped into the source block is at a page the cursor has not reached, and while a
pass runs all destination pages from the cursor on are free, so that the break on a
full destination is dead code. `ControlOK` says when a write is under way. Three
lemmas say what changes the array (`CopyPageData`, `EraseBlockData`, `ProgramData`),
then one lemma per group of actions. The refinement follows: copying and erasing
leave what is read through the table unchanged, and `Program` changes one LBA.
The peak of wear needs `WearGap`: the blocks of a pass stay as far apart as when
they were chosen, since its loop erases nothing.

**Pages counted** (`CapacityInv`). With a spare block no collection is cut short. The
invariant says how many pages are free in each phase (`ReserveOK`): a block less a
page when the host calls; while a victim is emptied, at least as many elsewhere as
it has valid pages ahead of the cursor; and the control point after a forced
collection is not reached. It holds because, if nothing can be reclaimed, every
used page is some LBA's and a block's worth is free (`SpareBlock`), and otherwise the
victim has no more valid pages than are free in the other blocks (`VictimFits`).
`OrphansBehindCursor` is needed for that count: valid pages nobody maps to are the
copied ones in the block about to be erased, and nothing else.

**Full drives** (`FutileInv`). Once no page is free after a collection, every victim
that could be chosen has a live page (`Stuck`), nothing can be moved, and the
second collection stops where the first one did. The invariant remembers the victim
from its choice until the cycle gives up.

**The cache** (`CtrlInv`). The lists are reasoned about as the sets of entries they
hold; `PageCacheProofs` shows for each method which entries those are. `OneVersion`
says that an LBA has at most one entry among the list, the entries on their way and
the `nandWrite` in progress, `CleanOK` that clean entries hold what NAND holds: each
needs the other, because an entry handed over must not overtake a newer one, and a
clean one must not be left behind by a write in progress. The value a read returns
(`View`) is then that one version, or NAND's. For `CacheIsAHostOfNand`, which
compares two bounds, `WithinBudget` counts the erases that a call can still cause:
two in each of two collections per entry.

**The statistics** (`Accounts`, `AmplificationInv`). `Accounts` is inductive once each
step is known by its effect on array and counters (`StatKinds`). The sums over
blocks are recursive functions; `SumFacts` shows by induction what a change of one
block does to them. `WritesAccountedFor` follows from a balance of each step
(`Balanced`). `WornOutReport` says that an estimate, rounded down from a quotient, is
0 only when no erase is left, and that needs a bound on the write amplification.
`AmplificationInv` gives it: each write of the host invalidates at most one page,
each collection uses up an invalid page and erases one block, and is followed by
one pass at most. Hence no drive programs more pages per write than it has.

**The replay** (`ReplayInv`). `ReplayedTraceInNand` is about the end; the invariant
follows the last write of the trace to an LBA on its way there. While writes to the
LBA are queued, the last of them is that write (`QueueOK`). Once none is, the drive
shows it unless a full drive dropped it, and whatever DRAM still holds of the LBA
(`Unsaved`) is that write, dropped or not (`AppliedOK`): a dirty entry of it may
still reach NAND after an older one was dropped. At the end DRAM is empty
(`PhaseOK`), so that what the drive shows is what NAND holds. Which LBAs a step can
give unsaved data is `UnsavedFrom`, what a drop does to what the drive shows
`DropShown`. With a spare block `CapacityInv` excludes the drop.

**New drives** (`FreshDrive`, `NewDriveInv`). The demo, for each scenario, and the
visualizer, for each run, make a drive of the constructor's when no call is in
progress on the one before. In the model it inherits the locals of the calls that
have returned; of those `CtrlInv` and `CapacityInv` need only that no collection was
ever forced, which `CapacityInv` of the drive before says.

**The demo** (`DemoInv`). After `written` writes the drive shows the last of them to
each LBA (`WrittenUpTo`), with the cache, where the write goes through `CtrlWrite`,
and without, where it goes to `nandWrite` at once (`UncachedWrite`); only the third
scenario has anything in DRAM, and the flush, which comes last, empties it. What is
collected is then what the workload leaves, which the build alone decides
(`Expected`, `LastIsExpected`).

**The visualizer** (`VisInv`, `PageInv`, `FiguresInv`, `PlayedInv`). `VisInv` is the C++ controller's
`CtrlInv` and `CapacityInv` with the two tables inverse to each other: then the second
table says what the search of the C++ finds (`SameOwner`), a page that has to move
has a slot (`SlotLeft`), a cached null does not occur, and every JavaScript step is one
of the C++ controller. Since those steps keep `CtrlInv` and `CapacityInv`, no proof
about cache, collection or wear leveling is repeated. The playback's
`FramesAreCurrent` needs `PageInv`: a pending frame is the one that `playback` names,
so that a click cancels it, and a callback runs with the badge at Running.
`FiguresInv` counts frames: after k of them the run is at k batches, or at the end,
and during the next one what is left of its batch is known. `PlayedInv` adds what the
drive was given: as many requests as `opIdx` says, of which the last write to each
LBA is what it shows (`PlayedUpTo`) and the last read, if it was the latest, what it
answered. `WorkloadFacts` shows that the four loops of `buildWorkload` put every write
before the first read and leave no LBA out; the reads that close a workload therefore
find its last writes, and the final flush has them all in NAND (`LastIsFinal`).

TLC checked the strengthenings before they were proved, as invariants of the runs'
instances: `CtrlInv` and `WithinBudget` on that of `cached`, `CapacityInv` and
`FutileInv` on those of the write path, `AmplificationInv` on that of
`stats` with a pass due after every cycle. What `ReplayInv`, `PlayedInv` and `DemoInv`
add to them holds on the instances of `replay` (four lines), `playback` and `demo`
(two builds).

**Induction.** `SetInduction` states induction over the natural numbers as a fact about
a set of them, which follows from their well-ordering; with it the lemmas about
recursive functions (`SumFacts`, `MaxFacts`, `DirtyEntriesFacts`) are proved.

**Model-checked only.** Liveness (`ReplayEnds`, `CallsReturn`, `WritesComplete`,
`DemoEnds`, `RunsComplete`), which is out of the provers' reach. `TakeawaysHold` and
`ReadmeFigures`: they are true of the figures that one workload gives on a given
geometry, and no argument short of running it yields them. For other numbers the
takeaways can be false: with a single round and room for every LBA in the cache,
nothing is coalesced and the cached scenario is no faster.

## 5. Not modelled

* Printing and formatting: what the reports compute is modelled, how they lay it
  out is not. The same goes for the verbose messages of the C++ drive.
* How a trace line is split into fields; a line is modelled by its fields.
* Concurrent use of `RequestQueue`. The repository's README calls it thread-safe
  and the class owns a mutex, but no code locks it, and the program has one
  thread; the queue is modelled as that thread uses it.
* The visualizer's log, and how its heatmap and charts are drawn; the figures
  behind them are modelled. Its sliders matter only when Run is clicked, so that
  their values are constants of a run.
* Two properties one might expect and the code does not have, and no text of the
  repository promises as such. The victim of GC is the first block with the most
  invalid pages, so a block that ties with an earlier one again and again is not
  collected: in the demo two blocks full of invalid pages are never erased. And
  the lifespan estimate, which is called conservative, counts the remaining
  erases of the worst block for every page of the drive; under uneven wear the
  first block reaches its limit earlier.
* At the end of a playback the figures and line charts are those before the final
  flush, while erase chart and heatmap are redrawn after it; `FiguresAreCurrent`
  claims that they are current only while frames are to come.

## 6. Plan

Every component is modelled, and every safety property that a passing run checks is
proved, except the two about the figures of the demo. What could still be added:

1. a second data value for `vis_spare`, which has one because its properties are not
   about data: `VisualizerImplementsHostDisk` is proved, and an instance small enough
   for TLC to check it too would have to give up an LBA or the wear-leveling passes;
2. the sums behind `TakeawaysHold`: which workloads make passes lower the variance of
   the erase counts, as a statement about the choice of the pair.

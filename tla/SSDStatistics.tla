--------------------------- MODULE SSDStatistics ---------------------------
(***************************************************************************)
(* StatsTracker and the counters of PageCache: what the controller of      *)
(* SSDController records while it works.  Each action below is one of its  *)
(* actions together with the record and charge calls the code makes there. *)
(*                                                                         *)
(* Times are in tenths of a microsecond.  Write and GC times are sums of   *)
(* whole microseconds, which the code's doubles hold exactly.              *)
(***************************************************************************)
EXTENDS SSDController, LatencyModel

CONSTANTS
  latency,       \* the timings of the drive's flash
  MaxRequests    \* bound on the host's reads and writes, and on its collections

ASSUME LatencyAssumption == latency \in Latency /\ MaxRequests \in Nat

VARIABLES
  stats,        \* StatsTracker
  cacheStats    \* the counters of PageCache

statVars == <<ctrlVars, stats, cacheStats>>

Stat == {"logicalWrites", "physicalWrites", "gcInvocations", "pagesMigrated",
         "logicalReads", "readLatency", "writeLatency", "gcLatency", "wearLevelPasses"}

CacheStat == {"hits", "misses", "coalesced", "dirtyEvictions"}

StatTypeOK ==
  /\ CtrlTypeOK
  /\ stats \in [Stat -> Nat]
  /\ cacheStats \in [CacheStat -> Nat]

\* A counter that the constructor forgets.
FaultyStatInit ==
  /\ CtrlInit
  /\ \E any \in {-1, 0} :
       stats = [s \in Stat |-> IF s = "wearLevelPasses" THEN any ELSE 0]
  /\ cacheStats = [s \in CacheStat |-> 0]

StatInit ==
  /\ CtrlInit
  /\ stats = [s \in Stat |-> 0]
  /\ cacheStats = [s \in CacheStat |-> 0]

\* increments[s] is added to each counter s it has.
Plus(counters, increments) ==
  [s \in DOMAIN counters |->
     counters[s] + (IF s \in DOMAIN increments THEN increments[s] ELSE 0)]

Record(increments) == stats' = Plus(stats, increments)
RecordCache(increments) == cacheStats' = Plus(cacheStats, increments)

-----------------------------------------------------------------------------
(* Host calls. *)

WithinRequests == stats.logicalWrites + stats.logicalReads < MaxRequests

FaultyEvictions == IF IsFull(lruList) THEN 1 ELSE 0

\* evictIfFull counts a dirty victim.
Evictions == Len(DirtyVictim(lruList))

\* The lookup of a request for l in an enabled cache.
CountWrite(l) ==
  IF Cached(lruList, l) THEN RecordCache([hits |-> 1, coalesced |-> 1])
  ELSE RecordCache([misses |-> 1, dirtyEvictions |-> Evictions])

RecordedWrite(l, d) ==
  /\ WithinRequests
  /\ CtrlWrite(l, d)
  /\ Record([logicalWrites |-> 1])
  /\ IF IsEnabled(CacheSize) THEN CountWrite(l) ELSE UNCHANGED cacheStats

RecordedHit(l) ==
  /\ WithinRequests
  /\ ReadHit(l)
  /\ Record([logicalReads |-> 1, readLatency |-> latency.dramRead])
  /\ RecordCache([hits |-> 1])

RecordedMiss(l) ==
  /\ WithinRequests
  /\ ReadMiss(l)
  /\ Record([logicalReads |-> 1, readLatency |-> latency.pageRead])
  /\ IF IsEnabled(CacheSize) THEN RecordCache([misses |-> 1, dirtyEvictions |-> Evictions])
     ELSE UNCHANGED cacheStats

RecordedUnmapped(l) ==
  /\ WithinRequests
  /\ ReadUnmapped(l)
  /\ Record([logicalReads |-> 1])
  /\ IF IsEnabled(CacheSize) THEN RecordCache([misses |-> 1]) ELSE UNCHANGED cacheStats

RecordedRead(l) == RecordedHit(l) \/ RecordedMiss(l) \/ RecordedUnmapped(l)

\* Calls that record nothing themselves.  A collection that aborts counts as
\* invoked without any other progress, so the bound covers these too.
SilentCall ==
  /\ \/ FlushCache
     \/ CtrlCollect /\ stats.gcInvocations < MaxRequests
     \/ \E n \in Intervals : CtrlSetInterval(n)
  /\ UNCHANGED <<stats, cacheStats>>

-----------------------------------------------------------------------------
(* Steps of nandWrite, runOneCycle and staticWearLevel. *)

\* A page program for the host.
HostProgram == [physicalWrites |-> 1, writeLatency |-> latency.pageWrite]

RecordedProgram == Program /\ Record(HostProgram)

\* A cycle counts as invoked once it has a victim.
RecordedSelect ==
  /\ GCSelect
  /\ IF Reclaimable # {} THEN Record([gcInvocations |-> 1]) ELSE UNCHANGED stats

FaultyMigration == [pagesMigrated |-> 1, gcLatency |-> latency.pageWrite]

\* recordPageMigrated and the program time of the copy.
Migration == [pagesMigrated |-> 1, physicalWrites |-> 1, gcLatency |-> latency.pageWrite]

\* The loops record the pages they copy; a copy is what remaps its LBA.
RecordedMove ==
  /\ GCMigrate \/ WLMove
  /\ IF mappingTable' # mappingTable THEN Record(Migration) ELSE UNCHANGED stats

RecordedErase == GCErase /\ Record([gcLatency |-> latency.blockErase])

FaultyRecordedWearErase ==
  WLErase /\ Record([wearLevelPasses |-> 1])

RecordedWearErase ==
  WLErase /\ Record([gcLatency |-> latency.blockErase, wearLevelPasses |-> 1])

RecordedCollect ==
  /\ \/ RecordedSelect \/ RecordedMove \/ RecordedErase \/ RecordedWearErase
     \/ WLSelect /\ UNCHANGED stats
  /\ UNCHANGED writing

RecordedController ==
  \/ NextNandWrite /\ UNCHANGED <<stats, cacheStats>>
  \/ /\ \/ RecordedProgram \/ RecordedCollect
        \/ (ForceGC \/ DropWrite) /\ UNCHANGED stats
     /\ UNCHANGED <<lruList, toNand, answer, cacheStats>>

-----------------------------------------------------------------------------
(* The figures of the reports. *)

\* The sum of f over the blocks.
SumOver(f) ==
  LET upTo[b \in -1 .. NumBlocks - 1] == IF b = -1 THEN 0 ELSE upTo[b - 1] + f[b]
  IN  upTo[NumBlocks - 1]

TotalErases == SumOver(eraseCount)

\* getEraseCountVariance(), times NumBlocks^2 to be a whole number.
EraseVariance ==
  NumBlocks * SumOver([b \in Block |-> eraseCount[b] * eraseCount[b]])
    - TotalErases * TotalErases

FaultyMaxErases == Min({eraseCount[b] : b \in Block})

\* getMaxEraseCount().
MaxErases == Max({eraseCount[b] : b \in Block})

\* getMinEraseCount().
MinErases == Min({eraseCount[b] : b \in Block})

\* estimateRemainingWrites, once there are writes and programs to divide by:
\* remaining * totalPages / WAF, rounded down.  The code divides doubles, so
\* that an exact quotient may come out one less.
RemainingWrites ==
  IF PE_LIMIT <= MaxErases THEN 0
  ELSE ((PE_LIMIT - MaxErases) * Cardinality(Address) * stats.logicalWrites)
         \div stats.physicalWrites

\* displayWearAnalysis: the blocks marked WORN, and the length of a block's bar,
\* of BAR_WIDTH characters at most.
WornOutBlocks == {b \in Block : WornOut(b)}

BAR_WIDTH == 40

BarLength(b) ==
  IF PE_LIMIT <= 0 THEN 0 ELSE Min({BAR_WIDTH, (eraseCount[b] * BAR_WIDTH) \div PE_LIMIT})

\* displayStatus.
UsedPages == Cardinality(Address) - Cardinality(FreeAddresses)

\* getWAF() of the statistics s, in hundredths, and getAvgWriteLatencyUs(), in
\* whole microseconds: GC's time is part of the price of the host's writes.
WAF(s) ==
  IF s.logicalWrites = 0 THEN 0 ELSE (100 * s.physicalWrites) \div s.logicalWrites

AvgWriteLatency(s) ==
  IF s.logicalWrites = 0 THEN 0
  ELSE (s.writeLatency + s.gcLatency) \div (10 * s.logicalWrites)

\* getTotalSimulatedTimeUs().
TotalSimulatedTime(s) == s.readLatency + s.writeLatency + s.gcLatency

\* getIOPS() of the statistics s, rounded down: 10000000 times the requests by the
\* time, which is in tenths of a microsecond, in two parts that fit 32 bits.
IOPS(s) ==
  LET time == TotalSimulatedTime(s)
      n == 1000000 * (s.logicalReads + s.logicalWrites)
  IN  IF time = 0 THEN 0 ELSE 10 * (n \div time) + (10 * (n % time)) \div time

\* getHitRatio(), in thousandths.
HitRatio(c) == IF c.hits + c.misses = 0 THEN 0 ELSE (1000 * c.hits) \div (c.hits + c.misses)

-----------------------------------------------------------------------------

StatNext ==
  \/ \E l \in LBA : (\E d \in Data : RecordedWrite(l, d)) \/ RecordedRead(l)
  \/ SilentCall
  \/ RecordedController

StatSpec == StatInit /\ [][StatNext]_statVars

-----------------------------------------------------------------------------
(* Correctness. *)

ProgramsForHost == stats.physicalWrites - stats.pagesMigrated

\* The latency sums charge every NAND operation once, on the right side: the
\* host pays for the programs of nandWrite, GC for its copies and for every
\* erase the blocks have seen, wear leveling's included.
NandTimeAccounted ==
  /\ stats.writeLatency = ProgramsForHost * latency.pageWrite
  /\ stats.gcLatency = stats.pagesMigrated * latency.pageWrite + TotalErases * latency.blockErase
  /\ TotalErases = gcCyclesRun + stats.wearLevelPasses

\* The physical writes are the programs the array has seen: as many as pages
\* are in use, plus those that erases have reclaimed since.
ProgramsMatchArray ==
  /\ UsedPages <= stats.physicalWrites
  /\ stats.physicalWrites <= UsedPages + PagesPerBlock * TotalErases

\* Dirty data on its way to NAND.
InTransit == Len(toNand) + (IF writing # NoWrite THEN 1 ELSE 0)
Pending == Len(DirtyEntries(lruList)) + InTransit

\* Host writes that are neither programmed nor waiting in DRAM.
Unstored == stats.logicalWrites - ProgramsForHost - Pending

\* A host write leaves DRAM for NAND and is counted as programmed, or it is
\* absorbed by a write to the same LBA and counted as coalesced; only a full drive
\* drops it uncounted.  And each dirty eviction counted is one more entry on its
\* way to NAND, which ends there unless it is dropped.
WritesAccountedFor ==
  [][/\ Unstored' # Unstored =>
          /\ Unstored' = Unstored + 1
          /\ DropWrite \/ cacheStats'.coalesced = cacheStats.coalesced + 1
     /\ (ProgramsForHost + InTransit)' - ProgramsForHost - InTransit
            < cacheStats'.dirtyEvictions - cacheStats.dirtyEvictions
          => DropWrite]_statVars

\* The report says "WORN OUT" when the estimate is 0.  However much GC and wear
\* leveling amplify the writes, that happens only when a block is marked WORN and
\* always then; and the blocks so marked are the ones with a full bar.
WornOutReport ==
  /\ stats.logicalWrites > 0 /\ stats.physicalWrites > 0
       => (RemainingWrites = 0 <=> WornOutBlocks # {})
  /\ PE_LIMIT > 0 => WornOutBlocks = {b \in Block : BarLength(b) = BAR_WIDTH}

\* PageCache.h and printCacheStats: each coalesced write is a NAND write
\* avoided.
CoalescedAvoidsNand ==
  stats.logicalWrites = ProgramsForHost + Pending + cacheStats.coalesced

=============================================================================

---------------------------- MODULE DemoProgram ----------------------------
(***************************************************************************)
(* The demo (main): one workload on three drives, with greedy GC alone,    *)
(* with static wear leveling and with a DRAM cache; a summary of the three *)
(* and takeaways that say which is better.                                 *)
(*                                                                         *)
(* So that the takeaways are checked against more than the one build, the  *)
(* compile-time constants of the workload and of wear leveling are chosen  *)
(* initially.                                                              *)
(***************************************************************************)
EXTENDS SSDStatistics

CONSTANTS
  Builds    \* the values of the constants that are explored

\* A controller whose cache is disabled.
Uncached == INSTANCE SSDStatistics WITH CacheSize <- 0

\* The build of the repository.
Shipped == [COLD_LBAS |-> 16, HOT_LBAS |-> 4, HOT_ROUNDS |-> 50, STATIC_WL_INTERVAL |-> 4]

VARIABLES
  build,     \* COLD_LBAS, HOT_LBAS, HOT_ROUNDS and STATIC_WL_INTERVAL
  scenario,  \* the scenario that runs
  phase,     \* where runScenario is
  written,   \* writes of the workload issued so far
  results    \* the results of the scenarios before

demoVars == <<build, scenario, phase, written, results>>

-----------------------------------------------------------------------------
(* The workload: cold LBAs once, then rounds over a few hot ones. *)

ColdWrites == build.COLD_LBAS
HotWrites == build.HOT_LBAS * build.HOT_ROUNDS
TotalWrites == ColdWrites + HotWrites

\* The i-th write.  Its data is "cold_LBA_<lba>", or names the round.
WorkloadWrite(i) ==
  IF i <= ColdWrites
  THEN [lba |-> 10 * (i - 1), round |-> 0]
  ELSE [lba |-> 200 + 10 * ((i - ColdWrites - 1) % build.HOT_LBAS),
        round |-> 1 + (i - ColdWrites - 1) \div build.HOT_LBAS]

ASSUME DemoAssumption ==
  /\ Builds \subseteq [COLD_LBAS : 1 .. 20, HOT_LBAS : Nat \ {0}, HOT_ROUNDS : Nat \ {0},
                       STATIC_WL_INTERVAL : Nat \ {0}]
  /\ \A k \in Builds :
       /\ \A i \in 1 .. k.COLD_LBAS : 10 * (i - 1) \in LBA
       /\ \A i \in 1 .. k.HOT_LBAS : 200 + 10 * (i - 1) \in LBA
       /\ LBA \X (0 .. k.HOT_ROUNDS) \subseteq Data

-----------------------------------------------------------------------------
(* runScenario and collectResult. *)

Scenarios == <<"Dynamic Only", "Dynamic + Static WL", "Dynamic + Cache">>

Interval == IF scenario = 2 THEN build.STATIC_WL_INTERVAL ELSE 0

CacheEnabled == scenario = 3

DemoTypeOK ==
  /\ StatTypeOK
  /\ build \in Builds
  /\ scenario \in 1 .. Len(Scenarios) + 1
  /\ phase \in {"create", "write", "flush", "done"}
  /\ written \in 0 .. TotalWrites
  /\ Len(results) = scenario - 1

DemoInit ==
  /\ StatInit
  /\ build \in Builds
  /\ scenario = 1 /\ phase = "create" /\ written = 0 /\ results = <<>>

FaultyCreateDrive ==
  /\ phase = "create" /\ scenario <= Len(Scenarios)
  /\ NewDrive
  /\ wearLevelInterval' = Interval
  /\ phase' = "write" /\ written' = 0
  /\ UNCHANGED <<stats, cacheStats, build, scenario, results>>

\* A drive of the scenario's own, with its statistics at 0.
CreateDrive ==
  /\ phase = "create" /\ scenario <= Len(Scenarios)
  /\ NewDrive
  /\ wearLevelInterval' = Interval
  /\ stats' = [s \in Stat |-> 0] /\ cacheStats' = [s \in CacheStat |-> 0]
  /\ phase' = "write" /\ written' = 0
  /\ UNCHANGED <<build, scenario, results>>

WriteNext ==
  /\ phase = "write" /\ written < TotalWrites
  /\ LET w == WorkloadWrite(written + 1)
         data == <<w.lba, w.round>>
     IN  \/ CacheEnabled /\ RecordedWrite(w.lba, data)
         \/ ~ CacheEnabled /\ Uncached!RecordedWrite(w.lba, data)
  /\ written' = written + 1
  /\ UNCHANGED <<build, scenario, phase, results>>

DemoFlush ==
  /\ phase = "write" /\ written = TotalWrites
  /\ FlushCache
  /\ phase' = "flush"
  /\ UNCHANGED <<stats, cacheStats, build, scenario, written, results>>

\* ScenarioResult, and what a read of each LBA would find.
Result ==
  [stats |-> stats, cacheStats |-> cacheStats,
   eraseVariance |-> EraseVariance, minErase |-> MinErases, maxErase |-> MaxErases,
   remainingHostWrites |-> RemainingWrites,
   contents |-> Store]

FaultyCollectResult ==
  /\ phase = "flush" /\ Ready
  /\ results' = <<Result>>
  /\ scenario' = scenario + 1
  /\ phase' = "create"
  /\ UNCHANGED <<statVars, build, written>>

CollectResult ==
  /\ phase = "flush" /\ Ready
  /\ results' = Append(results, Result)
  /\ scenario' = scenario + 1
  /\ phase' = "create"
  /\ UNCHANGED <<statVars, build, written>>

\* The rows of the summary for a result; no hit ratio without a cache.
Summary(r) ==
  [WAF |-> WAF(r.stats),
   writes |-> <<r.stats.physicalWrites, r.stats.logicalWrites>>,
   gcCycles |-> r.stats.gcInvocations,
   passes |-> r.stats.wearLevelPasses,
   eraseVariance |-> r.eraseVariance,
   spread |-> r.maxErase - r.minErase,
   remaining |-> r.remainingHostWrites,
   writeLatency |-> AvgWriteLatency(r.stats),
   IOPS |-> IOPS(r.stats),
   hitRatio |-> IF r.cacheStats.hits + r.cacheStats.misses = 0 THEN "disabled"
                ELSE HitRatio(r.cacheStats)]

\* The summary and the takeaways are printed.
PrintSummary ==
  /\ phase = "create" /\ scenario > Len(Scenarios)
  /\ phase' = "done"
  /\ UNCHANGED <<statVars, build, scenario, written, results>>

DemoNext ==
  \/ CreateDrive \/ WriteNext \/ DemoFlush \/ CollectResult \/ PrintSummary
  \/ RecordedController /\ UNCHANGED demoVars

DemoSpec == DemoInit /\ [][DemoNext]_<<statVars, demoVars>>

\* main runs to its end.
DemoFairSpec == DemoSpec /\ WF_<<statVars, demoVars>>(DemoNext)

-----------------------------------------------------------------------------
(* Correctness. *)

dynamicOnly == Summary(results[1])
staticWL == Summary(results[2])
cached == Summary(results[3])

\* "Erase variance reduced from ..., spread ...", by the passes that ran.
VarianceReduced ==
  /\ dynamicOnly.passes = 0
  /\ staticWL.passes > 0 => staticWL.eraseVariance < dynamicOnly.eraseVariance
  /\ staticWL.passes = 0 => staticWL.eraseVariance = dynamicOnly.eraseVariance
  /\ staticWL.spread <= dynamicOnly.spread

\* "NAND programs avoided by write buffering".
ProgramsAvoided ==
  results[3].cacheStats.coalesced = dynamicOnly.writes[1] - cached.writes[1]

\* "x faster".
CacheFaster == cached.IOPS > dynamicOnly.IOPS

\* The takeaways are printed whatever was measured, and are true of what was
\* measured: passes reduced the variance of the erase counts, and without any the
\* drive wore the same; the writes the cache coalesced are the NAND programs it
\* avoided; and it made the drive faster.
TakeawaysHold == phase = "done" => VarianceReduced /\ ProgramsAvoided /\ CacheFaster

WorkloadLBAs == {WorkloadWrite(i).lba : i \in 1 .. TotalWrites}

LastWrite(l) ==
  CHOOSE i \in 1 .. TotalWrites :
    /\ WorkloadWrite(i).lba = l
    /\ \A j \in i + 1 .. TotalWrites : WorkloadWrite(j).lba # l

\* The scenarios differ in what they measure, not in what they store: through
\* collections, passes, evictions and the final flush each leaves in NAND the
\* last data written to every LBA.
SameContents ==
  phase = "done" =>
    \A i \in DOMAIN results : \A l \in LBA :
      results[i].contents[l] =
        IF l \in WorkloadLBAs THEN <<l, WorkloadWrite(LastWrite(l)).round>> ELSE Unmapped

\* README.md: "15x IOPS improvement demonstrated (90.7% hit rate on a hot-write
\* workload)".
ReadmeFigures ==
  phase = "done" /\ build = Shipped =>
    /\ cached.hitRatio = 907 /\ dynamicOnly.hitRatio = "disabled"
    /\ cached.IOPS = 15 * dynamicOnly.IOPS

\* The demo comes to its end.
DemoEnds == <>(phase = "done")

=============================================================================

----------------------------- MODULE DemoProofs -----------------------------
(***************************************************************************)
(* Proofs about DemoProgram: whatever the numbers of the workload, the     *)
(* three scenarios store the same, on any drive with a block to spare.     *)
(***************************************************************************)
EXTENDS DemoProgram, StatisticsProofs

-----------------------------------------------------------------------------
(* The workload. *)

LEMMA BuildFacts ==
  ASSUME build \in Builds
  PROVE  /\ build.COLD_LBAS \in 1 .. 20
         /\ build.HOT_LBAS \in Nat \ {0} /\ build.HOT_ROUNDS \in Nat \ {0}
         /\ build.STATIC_WL_INTERVAL \in Nat
         /\ HotWrites \in Nat /\ TotalWrites \in Nat
<1>1. build \in [COLD_LBAS : 1 .. 20, HOT_LBAS : Nat \ {0}, HOT_ROUNDS : Nat \ {0},
                 STATIC_WL_INTERVAL : Nat \ {0}]
  BY DemoAssumption
<1>2. HotWrites \in Nat
  BY <1>1 DEF HotWrites
<1> QED
  BY <1>1, <1>2 DEF TotalWrites, ColdWrites

\* Before the end of b rounds of a LBAs each fewer than b are complete.
LEMMA RoundsBefore ==
  ASSUME NEW a \in Nat \ {0}, NEW b \in Nat \ {0}, NEW n \in Nat, n < a * b
  PROVE  n \div a \in 0 .. b - 1 /\ n % a \in 0 .. a - 1
<1>1. PICK q \in Nat : q = n \div a /\ a * q <= n
  OBVIOUS
<1>2. q < b
  <2> SUFFICES ASSUME b <= q PROVE FALSE
    BY <1>1
  <2>1. a * b <= a * q
    BY Multiples
  <2>2. a * b \in Nat /\ a * q \in Nat
    BY <1>1
  <2> QED
    BY <1>1, <2>1, <2>2
<1> QED
  BY <1>1, <1>2

\* The host can write what the workload writes.
LEMMA WorkloadTyped ==
  ASSUME build \in Builds, NEW i \in 1 .. TotalWrites
  PROVE  LET w == WorkloadWrite(i) IN w.lba \in LBA /\ <<w.lba, w.round>> \in Data
<1> DEFINE w == WorkloadWrite(i)
<1>1. /\ build.COLD_LBAS \in 1 .. 20
      /\ build.HOT_LBAS \in Nat \ {0} /\ build.HOT_ROUNDS \in Nat \ {0}
      /\ HotWrites \in Nat /\ TotalWrites \in Nat
  BY BuildFacts
<1>2. /\ \A k \in 1 .. build.COLD_LBAS : 10 * (k - 1) \in LBA
      /\ \A k \in 1 .. build.HOT_LBAS : 200 + 10 * (k - 1) \in LBA
      /\ LBA \X (0 .. build.HOT_ROUNDS) \subseteq Data
  BY DemoAssumption
<1>3. w.lba \in LBA /\ w.round \in 0 .. build.HOT_ROUNDS
  <2>1. CASE i <= ColdWrites
    <3>1. i \in 1 .. build.COLD_LBAS
      BY <1>1, <2>1 DEF ColdWrites
    <3>2. w = [lba |-> 10 * (i - 1), round |-> 0]
      BY <2>1 DEF WorkloadWrite
    <3> QED
      BY <1>1, <1>2, <3>1, <3>2
  <2>2. CASE ~ (i <= ColdWrites)
    <3>1. PICK n \in Nat : n = i - ColdWrites - 1 /\ n < HotWrites
      BY <1>1, <2>2 DEF TotalWrites, ColdWrites
    <3>2. PICK m, q : m = n % build.HOT_LBAS /\ q = n \div build.HOT_LBAS
      OBVIOUS
    <3>3. m \in 0 .. build.HOT_LBAS - 1 /\ q \in 0 .. build.HOT_ROUNDS - 1
      BY <1>1, <3>1, <3>2, RoundsBefore DEF HotWrites
    <3>4. w = [lba |-> 200 + 10 * m, round |-> 1 + q]
      BY <2>2, <3>1, <3>2 DEF WorkloadWrite
    <3>5. m + 1 \in 1 .. build.HOT_LBAS /\ (m + 1) - 1 = m /\ 1 + q \in 0 .. build.HOT_ROUNDS
      BY <1>1, <3>3
    <3>6. 200 + 10 * m \in LBA
      BY <1>2, <3>5
    <3> QED
      BY <3>4, <3>5, <3>6
  <2> QED
    BY <2>1, <2>2
<1> QED
  BY <1>2, <1>3

\* The first n writes that are to l.
WritesAmong(n, l) == {i \in 1 .. n : WorkloadWrite(i).lba = l}

\* The drive shows the last of the first n writes to each LBA, and no other data.
WrittenUpTo(n) ==
  \A l \in LBA :
    IF WritesAmong(n, l) = {} THEN View(l) = Unmapped
    ELSE \E i \in WritesAmong(n, l) :
           (\A j \in WritesAmong(n, l) : j <= i) /\ View(l) = <<l, WorkloadWrite(i).round>>

\* What the workload leaves of l.
Expected(l) ==
  IF l \in WorkloadLBAs THEN <<l, WorkloadWrite(LastWrite(l)).round>> ELSE Unmapped

LEMMA LastIsExpected ==
  ASSUME build \in Builds, WrittenUpTo(TotalWrites), NEW l \in LBA
  PROVE  View(l) = Expected(l)
<1> DEFINE writes == WritesAmong(TotalWrites, l)
<1>1. TotalWrites \in Nat
  BY BuildFacts
<1>2. l \in WorkloadLBAs <=> writes # {}
  BY DEF WorkloadLBAs, WritesAmong
<1>3. CASE writes = {}
  BY <1>2, <1>3 DEF WrittenUpTo, Expected
<1>4. CASE writes # {}
  <2>1. PICK i \in writes : (\A j \in writes : j <= i) /\ View(l) = <<l, WorkloadWrite(i).round>>
    BY <1>4 DEF WrittenUpTo
  <2> DEFINE P(c) == /\ WorkloadWrite(c).lba = l
                     /\ \A j \in c + 1 .. TotalWrites : WorkloadWrite(j).lba # l
             c == CHOOSE m \in 1 .. TotalWrites : P(m)
  <2>2. i \in 1 .. TotalWrites /\ WorkloadWrite(i).lba = l
    BY DEF WritesAmong
  <2>3. ASSUME NEW j \in i + 1 .. TotalWrites, WorkloadWrite(j).lba = l
        PROVE  FALSE
    <3>1. j \in writes /\ ~ (j <= i)
      BY <1>1, <2>2, <2>3 DEF WritesAmong
    <3> QED
      BY <2>1, <3>1
  <2>4. P(i)
    BY <2>2, <2>3
  <2>5. c \in 1 .. TotalWrites /\ P(c)
    BY <2>2, <2>4
  <2>6. LastWrite(l) = c
    BY DEF LastWrite
  <2> HIDE DEF c
  <2>7. c \in writes
    BY <2>5 DEF WritesAmong
  <2>8. c <= i /\ i \in Nat /\ c \in Nat
    BY <1>1, <2>1, <2>2, <2>5, <2>7
  <2>9. ~ (c < i)
    <3> SUFFICES ASSUME c < i PROVE FALSE
      OBVIOUS
    <3>1. i \in c + 1 .. TotalWrites
      BY <1>1, <2>2, <2>8
    <3> QED
      BY <2>2, <2>5, <3>1
  <2>10. c = i
    BY <2>8, <2>9
  <2> QED
    BY <1>2, <1>4, <2>1, <2>6, <2>10 DEF Expected
<1> QED
  BY <1>3, <1>4

\* The build decides what to expect.
LEMMA SameWorkload ==
  ASSUME build' = build
  PROVE  /\ TotalWrites' = TotalWrites
         /\ \A i : WorkloadWrite(i)' = WorkloadWrite(i)
         /\ \A l : Expected(l)' = Expected(l)
         /\ \A n, l : WritesAmong(n, l)' = WritesAmong(n, l)
<1>1. TotalWrites' = TotalWrites /\ ColdWrites' = ColdWrites
  BY DEF TotalWrites, ColdWrites, HotWrites
<1>2. ASSUME NEW i PROVE WorkloadWrite(i)' = WorkloadWrite(i)
  BY <1>1 DEF WorkloadWrite
<1>3. ASSUME NEW l PROVE LastWrite(l)' = LastWrite(l)
  BY <1>1, <1>2 DEF LastWrite
<1>4. WorkloadLBAs' = WorkloadLBAs
  BY <1>1, <1>2 DEF WorkloadLBAs
<1> QED
  BY <1>1, <1>2, <1>3, <1>4 DEF Expected, WritesAmong

LEMMA WritesGrow ==
  ASSUME NEW n \in Nat, NEW l
  PROVE  /\ WritesAmong(0, l) = {} /\ WritesAmong(n, l) \subseteq 1 .. n
         /\ WritesAmong(n + 1, l) = IF WorkloadWrite(n + 1).lba = l
                                    THEN WritesAmong(n, l) \cup {n + 1}
                                    ELSE WritesAmong(n, l)
BY DEF WritesAmong

\* The next write takes effect.
LEMMA OneMoreWrite ==
  ASSUME NEW n \in Nat, WrittenUpTo(n), build' = build,
         \A l \in LBA : View(l)' = LET w == WorkloadWrite(n + 1) IN
                                   IF l = w.lba THEN <<w.lba, w.round>> ELSE View(l)
  PROVE  WrittenUpTo(n + 1)'
<1> SUFFICES ASSUME NEW l \in LBA
             PROVE  IF WritesAmong(n + 1, l) = {} THEN View(l)' = Unmapped
                    ELSE \E i \in WritesAmong(n + 1, l) :
                           /\ \A j \in WritesAmong(n + 1, l) : j <= i
                           /\ View(l)' = <<l, WorkloadWrite(i).round>>
  BY SameWorkload DEF WrittenUpTo
<1>1. CASE WorkloadWrite(n + 1).lba = l
  <2>1. WritesAmong(n + 1, l) = WritesAmong(n, l) \cup {n + 1}
        /\ WritesAmong(n, l) \subseteq 1 .. n
    BY <1>1, WritesGrow
  <2>2. \A j \in WritesAmong(n + 1, l) : j <= n + 1
    BY <2>1
  <2> QED
    BY <1>1, <2>1, <2>2
<1>2. CASE WorkloadWrite(n + 1).lba # l
  <2>1. WritesAmong(n + 1, l) = WritesAmong(n, l) /\ View(l)' = View(l)
    BY <1>2, WritesGrow
  <2> QED
    BY <2>1 DEF WrittenUpTo
<1> QED
  BY <1>1, <1>2

LEMMA SameWritten ==
  ASSUME build' = build, NEW n, WrittenUpTo(n), \A l \in LBA : View(l)' = View(l)
  PROVE  WrittenUpTo(n)'
BY SameWorkload DEF WrittenUpTo

-----------------------------------------------------------------------------
(* The drive of a scenario. *)

Provisioned == OverProvisioned /\ IsFiniteSet(LBA) /\ NoLBA \notin LBA

DriveOK == CtrlInv /\ CapacityInv /\ CountersOK

\* With the cache disabled a write goes straight to nandWrite.
LEMMA UncachedBegin ==
  ASSUME NEW l, NEW d, Uncached!RecordedWrite(l, d)
  PROVE  /\ Idle /\ toNand = <<>> /\ BeginNandWrite(l, d)
         /\ Record([logicalWrites |-> 1])
         /\ UNCHANGED <<lruList, toNand, answer, cacheStats>>
<1>1. \A S : Uncached!Cardinality(S) = Cardinality(S)
  BY DEF Cardinality, Uncached!Cardinality
<1>2. Uncached!CtrlWrite(l, d) /\ Record([logicalWrites |-> 1]) /\ UNCHANGED cacheStats
  BY DEF Uncached!RecordedWrite, Uncached!IsEnabled, Uncached!Record, Record,
         Uncached!Plus, Plus
<1>3. /\ Uncached!Ready /\ Uncached!BeginNandWrite(l, d)
      /\ UNCHANGED <<lruList, toNand, answer>>
  BY <1>2 DEF Uncached!CtrlWrite, Uncached!IsEnabled
<1>4. Idle /\ toNand = <<>>
  BY <1>3 DEF Uncached!Ready, Uncached!Idle, Uncached!WithinBound, Uncached!Block,
              Idle, WithinBound, Block
<1>5. BeginNandWrite(l, d)
  BY <1>1, <1>3
  DEF BeginNandWrite, Uncached!BeginNandWrite, ShouldTrigger, Uncached!ShouldTrigger,
      CallGC, Uncached!CallGC, loopVars, Uncached!loopVars, flashVars, Uncached!flashVars,
      FreeAddresses, Uncached!FreeAddresses, Address, Uncached!Address, Block,
      Uncached!Block, PageIndex, Uncached!PageIndex
<1> QED
  BY <1>2, <1>3, <1>4, <1>5

LEMMA UncachedWrite ==
  ASSUME Provisioned, DriveOK, lruList = <<>>, NEW l \in LBA, NEW d \in Data,
         Uncached!RecordedWrite(l, d)
  PROVE  /\ DriveOK' /\ lruList' = <<>>
         /\ \A k \in LBA : View(k)' = IF k = l THEN d ELSE View(k)
<1>1. /\ Idle /\ toNand = <<>> /\ BeginNandWrite(l, d)
      /\ Record([logicalWrites |-> 1])
      /\ UNCHANGED <<lruList, toNand, answer, cacheStats>>
  BY UncachedBegin
<1>2. [Next]_vars /\ pc = "idle"
  BY <1>1 DEF Next, Host, HostWrite, Idle
<1>3. IInv' /\ HostData' /\ CapacityInv'
  BY <1>1, <1>2, NextIInv, HostDataNext, CapacityBegin DEF Provisioned, DriveOK, CtrlInv
<1>4. Range(lruList) = {} /\ Range(toNand) = {}
  BY <1>1 DEF Range
<1>5. writing = NoWrite /\ InNand = {}
  BY <1>1, ReadyFacts DEF DriveOK, CtrlInv, Ready
<1>6. writing' = [lba |-> l, data |-> d] /\ writing' # NoWrite
  BY <1>1, HostAssumption DEF BeginNandWrite, Write
<1>7. Store' = Store
  BY <1>1 DEF BeginNandWrite, flashVars, Store, HasMapping
<1>8. Range(lruList)' = {} /\ Range(toNand)' = {} /\ InNand' = {writing'}
  BY <1>1, <1>4, <1>6 DEF InNand
<1>9. DramOK' /\ OneVersion' /\ CleanOK'
  BY <1>1, <1>8 DEF DriveOK, CtrlInv, DramOK, OneVersion, CleanOK
<1>10. CtrlInv /\ CtrlInv'
  BY <1>3, <1>9 DEF DriveOK, CtrlInv
<1>11. ViewOK /\ ViewOK'
  BY <1>10, ViewFacts, PTL
<1>12. Versions = {} /\ Versions' = {writing'}
  BY <1>4, <1>5, <1>8 DEF Versions
<1>13. \A k \in LBA : View(k)' = IF k = l THEN d ELSE View(k)
  BY <1>6, <1>7, <1>11, <1>12 DEF ViewOK
<1>14. CountersOK'
  <2>1. stats' \in [Stat -> Nat]
    BY <1>1, PlusFacts DEF Record, DriveOK, CountersOK
  <2> QED
    BY <1>1, <2>1 DEF DriveOK, CountersOK
<1> QED
  BY <1>1, <1>3, <1>10, <1>13, <1>14 DEF DriveOK

\* The steps that are the controller's with its cache.
LEMMA CachedStep ==
  ASSUME Provisioned, DriveOK, [StatNext]_statVars
  PROVE  /\ DriveOK' /\ CtrlInv /\ ViewOK /\ ViewOK' /\ ~ DropWrite
         /\ [CtrlNext]_ctrlVars
<1>1. [CtrlNext]_ctrlVars
  BY StatWatches
<1>2. CtrlInv' /\ CapacityInv' /\ ~ DropWrite
  BY <1>1, CtrlInvNext, CapacityCtrl DEF Provisioned, DriveOK
<1>3. CountersOK'
  BY CountersNext DEF DriveOK
<1>4. CtrlInv /\ ViewOK /\ ViewOK'
  BY <1>2, ViewFacts, PTL DEF DriveOK
<1> QED
  BY <1>1, <1>2, <1>3, <1>4 DEF DriveOK

LEMMA CachedWrite ==
  ASSUME Provisioned, DriveOK, NEW l \in LBA, NEW d \in Data, RecordedWrite(l, d)
  PROVE  DriveOK' /\ \A k \in LBA : View(k)' = IF k = l THEN d ELSE View(k)
<1>1. [StatNext]_statVars
  BY DEF StatNext
<1> QED
  BY <1>1, CachedStep, WriteShown DEF RecordedWrite, Provisioned

\* The flush and what the drive does on its own show nothing new.
LEMMA NothingWritten ==
  ASSUME Provisioned, DriveOK,
         (FlushCache /\ UNCHANGED <<stats, cacheStats>>) \/ RecordedController
  PROVE  /\ DriveOK' /\ \A k \in LBA : View(k)' = View(k)
         /\ lruList' = lruList \/ lruList' = <<>>
         /\ FlushCache => lruList' = <<>>
         /\ RecordedController => ~ (pc = "idle" /\ toNand = <<>>)
<1>1. [StatNext]_statVars
  BY DEF StatNext, SilentCall
<1>2. DriveOK' /\ CtrlInv /\ ViewOK /\ ViewOK' /\ ~ DropWrite /\ NoLBA \notin LBA
  BY <1>1, CachedStep DEF Provisioned
<1>3. RecordedController =>
        \/ NextNandWrite
        \/ NandStep /\ ~ DropWrite /\ UNCHANGED <<lruList, toNand, answer>>
  BY <1>2 DEF RecordedController, RecordedProgram, RecordedCollect, RecordedSelect,
     RecordedMove, RecordedErase, RecordedWearErase, NandStep, Controller, Collect, GCStep
<1>4. \A k \in LBA : View(k)' = View(k)
  BY <1>2, <1>3, OthersShown
<1>5. lruList' = lruList \/ lruList' = <<>>
  BY <1>3 DEF FlushCache, NextNandWrite
<1>6. RecordedController => ~ (pc = "idle" /\ toNand = <<>>)
  BY DEF RecordedController, NextNandWrite, RecordedProgram, RecordedCollect, RecordedSelect,
     RecordedMove, RecordedErase, RecordedWearErase, Program, ForceGC, DropWrite, GCSelect,
     WLSelect, GCMigrate, WLMove, GCErase, WLErase
<1> QED
  BY <1>2, <1>4, <1>5, <1>6 DEF FlushCache

-----------------------------------------------------------------------------
(* The invariant of the demo. *)

\* Where the demo is, and what its drive holds there.
PhaseOK ==
  /\ build \in Builds /\ scenario \in 1 .. 4 /\ written \in 0 .. TotalWrites
  /\ phase \in {"create", "write", "flush", "done"}
  /\ phase \in {"write", "flush"} => scenario <= 3 /\ WrittenUpTo(written)
  /\ phase \in {"create", "done"} => pc = "idle" /\ toNand = <<>>
  /\ phase = "flush" => written = TotalWrites
  /\ lruList # <<>> => scenario = 3 /\ phase = "write"

ResultsOK ==
  /\ \E S : results \in Seq(S)
  /\ Len(results) = scenario - 1
  /\ \A i \in DOMAIN results : \A l \in LBA : results[i].contents[l] = Expected(l)

DemoInv == DriveOK /\ PhaseOK /\ ResultsOK

LEMMA DemoInvInit ==
  ASSUME OverProvisioned
  PROVE  DemoInit => DemoInv
<1> SUFFICES ASSUME DemoInit PROVE DemoInv
  OBVIOUS
<1>1. StatInit /\ CtrlInit /\ Init
  BY DEF DemoInit, StatInit, CtrlInit
<1>2. DriveOK
  BY <1>1, CtrlInvInit, CapacityInit DEF StatInit, DriveOK, CountersOK
<1>3. PhaseOK
  BY <1>1, BuildFacts DEF DemoInit, CtrlInit, Init, GCInit, PhaseOK
<1>4. ResultsOK
  <2>1. results = <<>> /\ results \in Seq({}) /\ Len(results) = 0 /\ scenario = 1
    BY DEF DemoInit
  <2> QED
    BY <2>1 DEF ResultsOK
<1> QED
  BY <1>2, <1>3, <1>4 DEF DemoInv

LEMMA SameResults ==
  ASSUME ResultsOK, UNCHANGED <<build, scenario, results>>
  PROVE  ResultsOK'
BY SameWorkload DEF ResultsOK

\* A new drive shows nothing.
LEMMA CreateInv ==
  ASSUME Provisioned, DemoInv, CreateDrive
  PROVE  DemoInv'
<1>1. CtrlInv' /\ CapacityInv'
  <2>1. wearLevelInterval' \in Int
    BY BuildFacts DEF CreateDrive, Interval, DemoInv, PhaseOK
  <2> QED
    BY <2>1, NewDriveInv DEF CreateDrive, Provisioned, DemoInv, DriveOK, PhaseOK
<1>2. CountersOK'
  BY DEF CreateDrive, CountersOK
<1>3. /\ pc' = "idle" /\ lruList' = <<>> /\ toNand' = <<>> /\ writing' = writing
      /\ \A l \in LBA : mappingTable'[l] = Unmapped
      /\ scenario' = scenario /\ phase' = "write" /\ written' = 0 /\ build' = build
      /\ scenario <= 3
  BY DEF CreateDrive, NewDrive, DemoInv, PhaseOK, Scenarios
<1>4. WrittenUpTo(0)'
  <2>1. writing = NoWrite
    BY DEF CreateDrive, DemoInv, DriveOK, PhaseOK, CtrlInv, IInv, ControlOK, Busy, GCPhases
  <2>2. \A l \in LBA : View(l)' = Unmapped
    BY <1>3, <2>1, UnmappedAssumption
    DEF View, Store, HasMapping, Cached, Positions
  <2> QED
    BY <2>2, SameWorkload, WritesGrow DEF WrittenUpTo, CreateDrive
<1>5. PhaseOK'
  BY <1>3, <1>4, SameWorkload, BuildFacts DEF PhaseOK, DemoInv
<1> QED
  BY <1>1, <1>2, <1>5, SameResults DEF CreateDrive, DemoInv, DriveOK

LEMMA WriteInv ==
  ASSUME Provisioned, DemoInv, WriteNext
  PROVE  DemoInv'
<1>1. PICK n \in Nat : n = written /\ n < TotalWrites /\ n + 1 \in 1 .. TotalWrites
  BY BuildFacts DEF WriteNext, DemoInv, PhaseOK
<1> DEFINE w == WorkloadWrite(n + 1)
<1>2. w.lba \in LBA /\ <<w.lba, w.round>> \in Data
  BY <1>1, WorkloadTyped DEF DemoInv, PhaseOK
<1>3. /\ \/ CacheEnabled /\ RecordedWrite(w.lba, <<w.lba, w.round>>)
         \/ ~ CacheEnabled /\ Uncached!RecordedWrite(w.lba, <<w.lba, w.round>>)
      /\ written' = n + 1 /\ phase = "write"
      /\ UNCHANGED <<build, scenario, phase, results>>
  BY <1>1 DEF WriteNext
<1> HIDE DEF w
<1>4. /\ DriveOK' /\ (~ CacheEnabled => lruList' = <<>>)
      /\ \A k \in LBA : View(k)' = IF k = w.lba THEN <<w.lba, w.round>> ELSE View(k)
  <2>1. CASE CacheEnabled
    BY <1>2, <1>3, <2>1, CachedWrite DEF DemoInv
  <2>2. CASE ~ CacheEnabled
    <3>1. lruList = <<>>
      BY <2>2 DEF DemoInv, PhaseOK, CacheEnabled
    <3> QED
      BY <1>2, <1>3, <2>2, <3>1, UncachedWrite DEF DemoInv
  <2> QED
    BY <2>1, <2>2
<1>5. WrittenUpTo(n + 1)'
  BY <1>1, <1>3, <1>4, OneMoreWrite DEF w, DemoInv, PhaseOK
<1>6. PhaseOK'
  BY <1>1, <1>3, <1>4, <1>5, SameWorkload, BuildFacts DEF DemoInv, PhaseOK, CacheEnabled
<1> QED
  BY <1>3, <1>4, <1>6, SameResults DEF DemoInv

LEMMA FlushInv ==
  ASSUME Provisioned, DemoInv, DemoFlush
  PROVE  DemoInv'
<1>1. /\ DriveOK' /\ lruList' = <<>> /\ \A k \in LBA : View(k)' = View(k)
      /\ phase = "write" /\ written = TotalWrites /\ phase' = "flush"
      /\ UNCHANGED <<build, scenario, written, results>>
  BY NothingWritten DEF DemoFlush, DemoInv
<1>2. WrittenUpTo(written)'
  BY <1>1, SameWritten DEF DemoInv, PhaseOK
<1>3. PhaseOK'
  BY <1>1, <1>2, SameWorkload DEF DemoInv, PhaseOK
<1> QED
  BY <1>1, <1>3, SameResults DEF DemoInv

LEMMA ControllerInv ==
  ASSUME Provisioned, DemoInv, RecordedController, UNCHANGED demoVars
  PROVE  DemoInv'
<1>1. /\ DriveOK' /\ \A k \in LBA : View(k)' = View(k)
      /\ lruList' = lruList \/ lruList' = <<>>
      /\ ~ (pc = "idle" /\ toNand = <<>>)
  BY NothingWritten DEF DemoInv
<1>2. UNCHANGED <<build, scenario, phase, written, results>>
  BY DEF demoVars
<1>3. phase \in {"write", "flush"} /\ WrittenUpTo(written)
  BY <1>1 DEF DemoInv, PhaseOK
<1>4. WrittenUpTo(written)'
  BY <1>1, <1>2, <1>3, SameWritten
<1>5. PhaseOK'
  BY <1>1, <1>2, <1>3, <1>4, SameWorkload DEF DemoInv, PhaseOK
<1> QED
  BY <1>1, <1>2, <1>5, SameResults DEF DemoInv

\* What is collected is what NAND holds once the flush is through.
LEMMA CollectInv ==
  ASSUME Provisioned, DemoInv, CollectResult
  PROVE  DemoInv'
<1>1. /\ phase = "flush" /\ pc = "idle" /\ toNand = <<>> /\ lruList = <<>>
      /\ scenario \in 1 .. 3 /\ WrittenUpTo(TotalWrites)
      /\ results' = Append(results, Result) /\ scenario' = scenario + 1
      /\ phase' = "create" /\ UNCHANGED <<statVars, build, written>>
  BY DEF CollectResult, Ready, Idle, DemoInv, PhaseOK
<1>2. \A l \in LBA : Store[l] = Expected(l)
  <2>1. writing = NoWrite /\ ViewOK
    BY <1>1, ViewFacts DEF DemoInv, DriveOK, CtrlInv, IInv, ControlOK, Busy, GCPhases
  <2>2. \A l \in LBA : View(l) = Store[l]
    BY <1>1, <2>1 DEF ViewOK, Versions, InNand, Range
  <2> QED
    BY <1>1, <2>2, LastIsExpected DEF DemoInv, PhaseOK
<1>3. UNCHANGED <<vars, lruList, toNand, answer, stats, cacheStats>>
  BY <1>1 DEF statVars, ctrlVars
<1>4. DriveOK'
  <2>1. [StatNext]_statVars
    BY <1>1
  <2> QED
    BY <2>1, CachedStep DEF DemoInv
<1>5. PhaseOK'
  BY <1>1, <1>3, SameWorkload DEF DemoInv, PhaseOK, vars, gcVars
<1>6. ResultsOK'
  <2>1. PICK S : results \in Seq(S)
    BY DEF DemoInv, ResultsOK
  <2> DEFINE T == S \cup {Result}
  <2>2. results \in Seq(T) /\ Result \in T
    BY <2>1, SeqMonotonic
  <2> HIDE DEF T
  <2>3. PICK r \in T : r = Result
    BY <2>2
  <2>4. /\ results' \in Seq(T) /\ Len(results') = Len(results) + 1
        /\ \A i \in 1 .. Len(results) : results'[i] = results[i]
        /\ results'[Len(results) + 1] = r
        /\ DOMAIN results = 1 .. Len(results) /\ DOMAIN results' = 1 .. Len(results) + 1
        /\ Len(results) \in Nat
    BY <1>1, <2>2, <2>3
  <2>5. r.contents = Store
    BY <2>3 DEF Result
  <2>6. \A l \in LBA : Expected(l)' = Expected(l)
    BY <1>1, SameWorkload
  <2> QED
    BY <1>1, <1>2, <2>4, <2>5, <2>6 DEF DemoInv, ResultsOK
<1> QED
  BY <1>4, <1>5, <1>6 DEF DemoInv

LEMMA PrintInv ==
  ASSUME Provisioned, DemoInv, PrintSummary \/ UNCHANGED <<statVars, demoVars>>
  PROVE  DemoInv'
<1>1. /\ UNCHANGED <<statVars, build, scenario, written, results>>
      /\ phase' = phase \/ (phase' = "done" /\ phase = "create")
  BY DEF PrintSummary, demoVars
<1>2. DriveOK'
  BY <1>1, CachedStep DEF DemoInv
<1>3. UNCHANGED <<pc, toNand, lruList, writing, Store>>
  BY <1>1 DEF statVars, ctrlVars, vars, gcVars, flashVars, Store, HasMapping
<1>4. \A k \in LBA : View(k)' = View(k)
  BY <1>3 DEF View
<1>5. WrittenUpTo(written) => WrittenUpTo(written)'
  BY <1>1, <1>4, SameWritten
<1>6. PhaseOK'
  BY <1>1, <1>3, <1>5, SameWorkload DEF DemoInv, PhaseOK
<1> QED
  BY <1>1, <1>2, <1>6, SameResults DEF DemoInv

LEMMA DemoInvariance ==
  ASSUME Provisioned
  PROVE  DemoSpec => []DemoInv
<1>1. DemoInit => DemoInv
  BY DemoInvInit DEF Provisioned
<1>2. DemoInv /\ [DemoNext]_<<statVars, demoVars>> => DemoInv'
  BY CreateInv, WriteInv, FlushInv, ControllerInv, CollectInv, PrintInv DEF DemoNext
<1> QED
  BY <1>1, <1>2, PTL DEF DemoSpec

\* Types of the drive and of the demo, in each of its scenarios.
THEOREM DemoTypeCorrectness ==
  ASSUME OverProvisioned, IsFiniteSet(LBA), NoLBA \notin LBA
  PROVE  DemoSpec => []DemoTypeOK
<1>1. DemoInv => DemoTypeOK
  BY CtrlInvTypes
  DEF DemoInv, DriveOK, PhaseOK, ResultsOK, CountersOK, DemoTypeOK, StatTypeOK, Scenarios
<1> QED
  BY <1>1, DemoInvariance, PTL DEF Provisioned

\* For any numbers of cold and hot LBAs, of rounds and of cycles between passes,
\* all scenarios that have run, with and without passes and with the cache of any
\* size, left the last data written to every LBA in NAND.
THEOREM ScenariosStoreTheSame ==
  ASSUME OverProvisioned, IsFiniteSet(LBA), NoLBA \notin LBA
  PROVE  DemoSpec => []SameContents
<1>1. DemoInv => SameContents
  BY DEF DemoInv, ResultsOK, SameContents, Expected
<1> QED
  BY <1>1, DemoInvariance, PTL DEF Provisioned

=============================================================================

-------------------------- MODULE StatisticsProofs --------------------------
(***************************************************************************)
(* Proofs about SSDStatistics: what the counters and the reports say is    *)
(* true of the array, for any drive, any cache and any timings.            *)
(***************************************************************************)
EXTENDS SSDStatistics, ControllerProofs

\* The statistics only watch the controller.
LEMMA StatWatches == [StatNext]_statVars => [CtrlNext]_ctrlVars
<1>1. ASSUME NEW l \in LBA, (\E d \in Data : RecordedWrite(l, d)) \/ RecordedRead(l)
      PROVE  CtrlNext
  BY <1>1 DEF RecordedWrite, RecordedRead, RecordedHit, RecordedMiss, RecordedUnmapped,
              CtrlNext, CtrlHost
<1>2. CASE SilentCall
  BY <1>2 DEF SilentCall, CtrlNext, CtrlHost
<1>3. CASE RecordedController
  <2>1. CASE NextNandWrite
    BY <2>1 DEF CtrlNext, CtrlController
  <2>2. CASE (RecordedProgram \/ RecordedCollect \/ ForceGC \/ DropWrite)
             /\ UNCHANGED <<lruList, toNand, answer>>
    <3>1. Controller
      BY <2>2 DEF RecordedProgram, RecordedCollect, RecordedSelect, RecordedMove,
                  RecordedErase, RecordedWearErase, Controller, Collect, GCStep
    <3> QED
      BY <2>2, <3>1 DEF CtrlNext, CtrlController
  <2> QED
    BY <1>3, <2>1, <2>2 DEF RecordedController
<1>4. CASE UNCHANGED statVars
  BY <1>4 DEF statVars
<1> QED
  BY <1>1, <1>2, <1>3, <1>4 DEF StatNext

\* Adding to some of the counters.
LEMMA PlusFacts ==
  ASSUME NEW S, NEW counters \in [S -> Nat],
         NEW increments, \A s \in DOMAIN increments : increments[s] \in Nat
  PROVE  Plus(counters, increments) \in [S -> Nat]
BY DEF Plus

LEMMA StatInvariance ==
  ASSUME NoLBA \notin LBA
  PROVE  StatSpec => []CtrlInv
<1>1. StatInit => CtrlInv
  BY CtrlInvInit DEF StatInit
<1>2. CtrlInv /\ [StatNext]_statVars => CtrlInv'
  BY StatWatches, CtrlInvNext
<1> QED
  BY <1>1, <1>2, PTL DEF StatSpec

-----------------------------------------------------------------------------
(* What a step does to array and counters. *)

\* The counters of NAND work.
NandWork == {"physicalWrites", "pagesMigrated", "writeLatency", "gcLatency", "wearLevelPasses"}

\* A step that does no NAND work.
NoWork ==
  /\ UNCHANGED <<flashVars, mappingTable, gcCyclesRun>>
  /\ \A s \in NandWork : stats'[s] = stats[s]

\* A page copied by one of the loops.
Copied ==
  /\ pc \in {"migrate", "move"} /\ pc' = pc
  /\ \E from \in Address, to \in FreeAddresses :
       /\ pageState[from] = "valid"
       /\ pageState' = [pageState EXCEPT ![to] = "valid"]
  /\ Record(Migration)
  /\ UNCHANGED <<eraseCount, gcCyclesRun>>

LEMMA StatKinds ==
  ASSUME NoLBA \notin LBA, CtrlInv, stats \in [Stat -> Nat], [StatNext]_statVars
  PROVE  \/ NoWork
         \/ RecordedProgram
         \/ Copied
         \/ RecordedErase
         \/ RecordedWearErase
<1> USE DEF NoWork, NandWork
<1>1. ASSUME NEW increments, Record(increments),
             \A s \in NandWork : s \notin DOMAIN increments
      PROVE  \A s \in NandWork : stats'[s] = stats[s]
  BY <1>1 DEF Record, Plus, Stat
<1>2. ASSUME NEW l \in LBA, (\E d \in Data : RecordedWrite(l, d)) \/ RecordedRead(l)
      PROVE  NoWork
  <2>1. UNCHANGED <<flashVars, mappingTable, gcCyclesRun>>
    BY <1>2 DEF RecordedWrite, RecordedRead, RecordedHit, RecordedMiss, RecordedUnmapped,
                CtrlWrite, BeginNandWrite, ReadHit, ReadMiss, ReadUnmapped, vars, gcVars
  <2>2. \/ Record([logicalWrites |-> 1])
        \/ Record([logicalReads |-> 1])
        \/ \E t \in Nat : Record([logicalReads |-> 1, readLatency |-> t])
    BY <1>2, LatencyAssumption
    DEF RecordedWrite, RecordedRead, RecordedHit, RecordedMiss, RecordedUnmapped, Latency
  <2> QED
    BY <1>1, <2>1, <2>2
<1>3. CASE SilentCall \/ UNCHANGED statVars
  BY <1>3 DEF SilentCall, FlushCache, CtrlCollect, HostCollect, CtrlSetInterval,
              HostSetInterval, statVars, ctrlVars, vars, gcVars
<1>4. CASE (NextNandWrite \/ ForceGC \/ DropWrite) /\ UNCHANGED stats
  BY <1>4 DEF NextNandWrite, BeginNandWrite, ForceGC, DropWrite
<1>5. CASE RecordedSelect
  BY <1>1, <1>5 DEF RecordedSelect, GCSelect
<1>6. CASE WLSelect /\ UNCHANGED stats
  BY <1>6 DEF WLSelect
<1>7. CASE RecordedMove
  <2> DEFINE from == <<src, cursor>>
  <2>1. from \in Address
    BY <1>7, GeometryAssumption
    DEF RecordedMove, GCMigrate, WLMove, CtrlInv, IInv, LoopsOK, GCTypeOK, Address, PageIndex
  <2>2. UNCHANGED gcCyclesRun /\ pc \in {"migrate", "move"}
    BY <1>7 DEF RecordedMove, GCMigrate, WLMove
  <2>3. CASE UNCHANGED <<flashVars, mappingTable>>
    BY <1>7, <2>2, <2>3 DEF RecordedMove
  <2>4. CASE ~ UNCHANGED <<flashVars, mappingTable>>
    <3>1. PICK lba \in FindLogicalAddress(from), to \in FreeAddresses :
            /\ ~ Skips(from, lba) /\ CopyPage(lba, from, to) /\ pc' = pc
      <4>1. CASE GCMigrate
        <5>1. PICK lba \in FindLogicalAddress(from), to \in Address :
                /\ ~ Skips(from, lba) /\ FreeSlot(src, to)
                /\ CopyPage(lba, from, to) /\ pc' = pc
          BY <2>4, <4>1 DEF GCMigrate
        <5>2. to = <<to[1], to[2]>> /\ pageState[<<to[1], to[2]>>] = "free"
          BY <5>1 DEF FreeSlot, FirstFreePage, FreePages, PagesIn, Address
        <5> QED
          BY <5>1, <5>2 DEF FreeAddresses
      <4>2. CASE WLMove
        <5>1. dst \in Block
          BY <4>2 DEF WLMove, CtrlInv, IInv, LoopsOK
        <5> QED
          BY <2>4, <4>2, <5>1 DEF WLMove, FirstFreePage, FreePages, PagesIn,
                                  FreeAddresses, Address
      <4> QED
        BY <1>7, <4>1, <4>2 DEF RecordedMove
    <3>2. lba \in LBA /\ mappingTable[lba] = from /\ pageState[from] = "valid"
      BY <2>1, <3>1, FindFacts DEF CtrlInv, IInv, Skips
    <3>3. to # from
      BY <3>2 DEF FreeAddresses
    <3>4. mappingTable'[lba] = to
      BY <3>1, <3>2 DEF CopyPage, Remapped, CtrlInv, IInv, DataOK, MappingTypeOK
    <3>5. Record(Migration)
      BY <1>7, <3>2, <3>3, <3>4 DEF RecordedMove
    <3> QED
      BY <2>1, <2>2, <3>1, <3>2, <3>5 DEF Copied, CopyPage, ProgramPage, Programmed
  <2> QED
    BY <2>3, <2>4
<1> QED
  BY <1>2, <1>3, <1>4, <1>5, <1>6, <1>7 DEF StatNext, RecordedController, RecordedCollect

-----------------------------------------------------------------------------
(* Sums over the blocks. *)

\* g holds the sums of f up to each block before n.
SumsTo(g, f, n) ==
  g = [b \in -1 .. n - 1 |-> IF b = -1 THEN 0 ELSE g[b - 1] + f[b]]

LEMMA SumDefined ==
  ASSUME NEW f
  PROVE  \E g : SumsTo(g, f, NumBlocks) /\ SumOver(f) = g[NumBlocks - 1]
<1>1. \E g : SumsTo(g, f, NumBlocks)
  <2> DEFINE T == {n \in Nat : \E g : SumsTo(g, f, n)}
  <2>1. 0 \in T
    <3> DEFINE g == [b \in -1 .. 0 - 1 |-> 0]
    <3>1. SumsTo(g, f, 0)
      BY DEF SumsTo
    <3> QED
      BY <3>1
  <2>2. ASSUME NEW n \in T
        PROVE  n + 1 \in T
    <3>1. PICK g : SumsTo(g, f, n)
      BY <2>2
    <3> DEFINE h == [b \in -1 .. n |-> IF b = n THEN g[n - 1] + f[n] ELSE g[b]]
    <3>2. ASSUME NEW b \in -1 .. n
          PROVE  h[b] = IF b = -1 THEN 0 ELSE h[b - 1] + f[b]
      <4>1. CASE b = n
        <5>1. b # -1 /\ b - 1 \in -1 .. n /\ b - 1 # n
          BY <2>2, <4>1
        <5> QED
          BY <4>1, <5>1
      <4>2. CASE b # n
        <5>1. b \in -1 .. n - 1 /\ (b # -1 => b - 1 \in -1 .. n /\ b - 1 # n)
          BY <2>2, <4>2
        <5>2. g[b] = IF b = -1 THEN 0 ELSE g[b - 1] + f[b]
          BY <3>1, <5>1 DEF SumsTo
        <5> QED
          BY <4>2, <5>1, <5>2
      <4> QED
        BY <4>1, <4>2
    <3>3. (n + 1) - 1 = n
      BY <2>2
    <3>4. SumsTo(h, f, n + 1)
      BY <3>2, <3>3 DEF SumsTo
    <3> HIDE DEF h
    <3>5. \E k : SumsTo(k, f, n + 1)
      BY <3>4
    <3> QED
      BY <2>2, <3>5
  <2> HIDE DEF T
  <2>3. T = Nat
    BY <2>1, <2>2, SetInduction DEF T
  <2> QED
    BY <2>3, GeometryAssumption DEF T
<1> QED
  BY <1>1 DEF SumOver, SumsTo

\* Raising one term by one raises the sum by one.
LEMMA SumFacts ==
  ASSUME NEW f \in [Block -> Nat]
  PROVE  /\ SumOver(f) \in Nat
         /\ (\A b \in Block : f[b] = 0) => SumOver(f) = 0
         /\ \A b \in Block : SumOver([f EXCEPT ![b] = @ + 1]) = SumOver(f) + 1
<1>1. PICK g : SumsTo(g, f, NumBlocks) /\ SumOver(f) = g[NumBlocks - 1]
  BY SumDefined
<1>2. ASSUME NEW k, NEW e, SumsTo(k, e, NumBlocks)
      PROVE  /\ k[-1] = 0
             /\ \A n \in Nat : n < NumBlocks => n \in Block /\ k[n] = k[n - 1] + e[n]
  <2>1. -1 \in -1 .. NumBlocks - 1
    BY GeometryAssumption
  <2>2. ASSUME NEW n \in Nat, n < NumBlocks
        PROVE  n \in -1 .. NumBlocks - 1 /\ n # -1 /\ n \in Block
    BY <2>2, GeometryAssumption DEF Block
  <2> QED
    BY <1>2, <2>1, <2>2 DEF SumsTo
<1>3. SumOver(f) \in Nat
  <2> DEFINE T == {n \in Nat : n <= NumBlocks => g[n - 1] \in Nat}
  <2>1. 0 \in T
    BY <1>1, <1>2
  <2>2. ASSUME NEW n \in T, n + 1 <= NumBlocks
        PROVE  g[n + 1 - 1] \in Nat
    <3>1. n \in Nat /\ n < NumBlocks /\ n <= NumBlocks /\ n + 1 - 1 = n
      BY <2>2, GeometryAssumption
    <3>2. g[n - 1] \in Nat /\ f[n] \in Nat /\ g[n] = g[n - 1] + f[n]
      BY <1>1, <1>2, <2>2, <3>1
    <3> QED
      BY <3>1, <3>2
  <2>3. T = Nat
    <3>1. \A n \in T : n + 1 \in T
      BY <2>2
    <3> HIDE DEF T
    <3> QED
      BY <2>1, <3>1, SetInduction DEF T
  <2> QED
    BY <1>1, <2>3, GeometryAssumption
<1>4. ASSUME \A b \in Block : f[b] = 0
      PROVE  SumOver(f) = 0
  <2> DEFINE T == {n \in Nat : n <= NumBlocks => g[n - 1] = 0}
  <2>1. 0 \in T
    BY <1>1, <1>2
  <2>2. ASSUME NEW n \in T, n + 1 <= NumBlocks
        PROVE  g[n + 1 - 1] = 0
    <3>1. n \in Nat /\ n < NumBlocks /\ n <= NumBlocks /\ n + 1 - 1 = n
      BY <2>2, GeometryAssumption
    <3>2. g[n - 1] = 0 /\ f[n] = 0 /\ g[n] = g[n - 1] + f[n]
      BY <1>1, <1>2, <1>4, <2>2, <3>1
    <3> QED
      BY <3>1, <3>2
  <2>3. T = Nat
    <3>1. \A n \in T : n + 1 \in T
      BY <2>2
    <3> HIDE DEF T
    <3> QED
      BY <2>1, <3>1, SetInduction DEF T
  <2>4. NumBlocks \in T /\ NumBlocks <= NumBlocks
    BY <2>3, GeometryAssumption
  <2> QED
    BY <1>1, <2>4
<1>5. ASSUME NEW b \in Block
      PROVE  SumOver([f EXCEPT ![b] = @ + 1]) = SumOver(f) + 1
  <2> DEFINE e == [f EXCEPT ![b] = @ + 1]
             extra(n) == IF n > b THEN 1 ELSE 0
  <2>1. PICK k : SumsTo(k, e, NumBlocks) /\ SumOver(e) = k[NumBlocks - 1]
    BY SumDefined
  <2>2. \A c \in Block : e[c] = f[c] + IF c = b THEN 1 ELSE 0
    OBVIOUS
  <2> HIDE DEF e
  <2> DEFINE T == {n \in Nat : n <= NumBlocks =>
                     g[n - 1] \in Nat /\ k[n - 1] = g[n - 1] + extra(n)}
  <2>3. 0 \in T
    BY <1>1, <1>2, <2>1 DEF Block
  <2>4. ASSUME NEW n \in T, n + 1 <= NumBlocks
        PROVE  g[n + 1 - 1] \in Nat /\ k[n + 1 - 1] = g[n + 1 - 1] + extra(n + 1)
    <3>1. n \in Nat /\ n < NumBlocks /\ n <= NumBlocks /\ n + 1 - 1 = n
      BY <2>4, GeometryAssumption
    <3>2. /\ g[n - 1] \in Nat /\ k[n - 1] = g[n - 1] + extra(n)
          /\ g[n] = g[n - 1] + f[n] /\ k[n] = k[n - 1] + e[n]
          /\ n \in Block /\ f[n] \in Nat
      BY <1>1, <1>2, <2>1, <2>4, <3>1
    <3>3. e[n] = f[n] + IF n = b THEN 1 ELSE 0
      BY <2>2, <3>2
    <3>4. extra(n + 1) = extra(n) + IF n = b THEN 1 ELSE 0
      BY <3>1 DEF Block
    <3>5. g[n] \in Nat /\ k[n] = g[n] + extra(n + 1)
      BY <3>2, <3>3, <3>4
    <3> QED
      BY <3>1, <3>5
  <2>5. T = Nat
    <3>1. \A n \in T : n + 1 \in T
      BY <2>4
    <3> HIDE DEF T
    <3> QED
      BY <2>3, <3>1, SetInduction DEF T
  <2>6. k[NumBlocks - 1] = g[NumBlocks - 1] + extra(NumBlocks)
    BY <2>5, GeometryAssumption
  <2>7. extra(NumBlocks) = 1
    BY GeometryAssumption DEF Block
  <2> QED
    BY <1>1, <2>1, <2>6, <2>7 DEF e
<1> QED
  BY <1>3, <1>4, <1>5

-----------------------------------------------------------------------------
(* How each kind of step changes the numbers of free and of invalid pages. *)

InvalidAddresses == {a \in Address : pageState[a] = "invalid"}

LEMMA PageCountsTyped ==
  /\ FreeAddresses \in SUBSET Address /\ InvalidAddresses \in SUBSET Address
  /\ Cardinality(FreeAddresses) \in Nat /\ Cardinality(InvalidAddresses) \in Nat
  /\ Cardinality(Address) \in Nat
  /\ UsedPages \in Nat /\ UsedPages <= Cardinality(Address)
<1>1. FreeAddresses \in SUBSET Address /\ InvalidAddresses \in SUBSET Address
  BY DEF FreeAddresses, InvalidAddresses
<1>2. Address \in SUBSET Address
  OBVIOUS
<1>3. /\ Cardinality(FreeAddresses) \in Nat /\ Cardinality(InvalidAddresses) \in Nat
      /\ Cardinality(Address) \in Nat
      /\ Cardinality(FreeAddresses) <= Cardinality(Address)
  BY <1>1, <1>2, PageCounting
<1> QED
  BY <1>1, <1>3 DEF UsedPages

\* Taking one page out of a set, or adding at most one.
LEMMA OnePage ==
  ASSUME NEW S \in SUBSET Address, NEW a \in Address
  PROVE  /\ a \in S => Cardinality(S \ {a}) = Cardinality(S) - 1
         /\ Cardinality(S \cup {a}) <= Cardinality(S) + 1
<1>1. IsFiniteSet(S) /\ Cardinality(S) \in Nat
  BY PageCounting
<1> QED
  BY <1>1, FS_RemoveElement, FS_AddElement

\* A page that is used means that the used pages are one or more.
LEMMA SomeUsed ==
  ASSUME NEW a \in Address, pageState[a] # "free"
  PROVE  UsedPages >= 1
<1>1. FreeAddresses \in SUBSET (Address \ {a}) /\ Address \ {a} \in SUBSET Address
  BY DEF FreeAddresses
<1>2. Cardinality(FreeAddresses) <= Cardinality(Address \ {a})
  BY <1>1, PageCounting
<1>3. Cardinality(Address \ {a}) = Cardinality(Address) - 1
  BY OnePage
<1> QED
  BY <1>2, <1>3, PageCountsTyped DEF UsedPages

\* nandWrite uses up one free page and leaves at most one invalid page more;
\* none if the drive held nothing.
LEMMA ProgramCounts ==
  ASSUME IInv, Program
  PROVE  /\ UsedPages' = UsedPages + 1
         /\ Cardinality(InvalidAddresses') <= Cardinality(InvalidAddresses) + 1
         /\ UsedPages = 0 => Cardinality(InvalidAddresses') <= Cardinality(InvalidAddresses)
<1> DEFINE l0 == writing.lba
           old == mappingTable[l0]
<1>1. l0 \in LBA
  BY DEF IInv, ControlOK, Busy, GCPhases, Program, Write
<1>2. PICK b \in Block, p \in PageIndex :
        /\ FirstFreePage(b, p)
        /\ pageState' = IF HasMapping(l0)
                        THEN Invalidated(Programmed(pageState, <<b, p>>), old)
                        ELSE Programmed(pageState, <<b, p>>)
  BY DEF Program
<1>3. <<b, p>> \in Address /\ pageState[<<b, p>>] = "free"
  BY <1>2, FirstFreeFacts DEF IInv, Address
<1>4. HasMapping(l0) => old \in Address /\ pageState[old] = "valid"
  BY <1>1 DEF IInv, DataOK, MappingTypeOK, MappingIntegrity, HasMapping
<1>5. \A a \in Address : pageState'[a] = IF a = <<b, p>> THEN "valid"
                                       ELSE IF HasMapping(l0) /\ a = old THEN "invalid"
                                       ELSE pageState[a]
  BY <1>2, <1>3, <1>4 DEF IInv, DataOK, FlashTypeOK, Programmed, Invalidated
<1> DEFINE new == <<b, p>>
<1> HIDE DEF new
<1>6. new \in Address /\ new \in FreeAddresses /\ FreeAddresses' = FreeAddresses \ {new}
  BY <1>3, <1>4, <1>5 DEF FreeAddresses, new
<1>7. Cardinality(FreeAddresses') = Cardinality(FreeAddresses) - 1
  BY <1>6, PageCountsTyped, OnePage
<1>8. UsedPages' = UsedPages + 1
  BY <1>7, PageCountsTyped DEF UsedPages
<1>9. CASE HasMapping(l0)
  <2>1. InvalidAddresses' = InvalidAddresses \cup {old}
    BY <1>3, <1>4, <1>5, <1>9 DEF InvalidAddresses
  <2>2. UsedPages >= 1
    BY <1>4, <1>9, SomeUsed
  <2>3. Cardinality(InvalidAddresses \cup {old}) <= Cardinality(InvalidAddresses) + 1
    BY <1>4, <1>9, OnePage, PageCountsTyped
  <2> QED
    BY <1>8, <2>1, <2>2, <2>3
<1>10. CASE ~ HasMapping(l0)
  <2>1. InvalidAddresses' = InvalidAddresses
    BY <1>3, <1>5, <1>10 DEF InvalidAddresses
  <2> QED
    BY <1>8, <2>1, PageCountsTyped
<1> QED
  BY <1>9, <1>10

\* A copied page uses up one free page, makes none invalid, and had a source.
LEMMA CopyCounts ==
  ASSUME IInv, Copied
  PROVE  /\ UsedPages' = UsedPages + 1 /\ UsedPages >= 1
         /\ InvalidAddresses' = InvalidAddresses
         /\ \A c \in Block : InvalidPages(c)' = InvalidPages(c)
<1>1. PICK from \in Address, to \in FreeAddresses :
        pageState[from] = "valid" /\ pageState' = [pageState EXCEPT ![to] = "valid"]
  BY DEF Copied
<1>2. to \in Address /\ pageState[to] = "free"
  BY DEF FreeAddresses
<1>3. \A a \in Address : pageState'[a] = IF a = to THEN "valid" ELSE pageState[a]
  BY <1>1, <1>2 DEF IInv, DataOK, FlashTypeOK
<1>4. FreeAddresses' = FreeAddresses \ {to}
  BY <1>3 DEF FreeAddresses
<1>5. Cardinality(FreeAddresses') = Cardinality(FreeAddresses) - 1
  BY <1>2, <1>4, PageCountsTyped, OnePage
<1>6. UsedPages' = UsedPages + 1
  BY <1>5, PageCountsTyped DEF UsedPages
<1>7. UsedPages >= 1
  BY <1>1, SomeUsed
<1>8. \A a \in Address : pageState'[a] = "invalid" <=> pageState[a] = "invalid"
  BY <1>2, <1>3
<1> QED
  BY <1>6, <1>7, <1>8 DEF InvalidAddresses, InvalidPages, PagesIn, Address

\* An erase frees the pages of one block, at most PagesPerBlock of them used,
\* and the invalid ones among them are gone.
LEMMA EraseCounts ==
  ASSUME IInv, NEW b \in Block, EraseBlock(b)
  PROVE  /\ UsedPages' <= UsedPages /\ UsedPages <= UsedPages' + PagesPerBlock
         /\ Cardinality(InvalidAddresses') <= Cardinality(InvalidAddresses)
         /\ InvalidPages(b) # {} =>
              Cardinality(InvalidAddresses') + 1 <= Cardinality(InvalidAddresses)
<1>1. \A a \in Address : pageState'[a] = IF a[1] = b THEN "free" ELSE pageState[a]
  BY DEF EraseBlock
<1>2. /\ FreeAddresses' = FreeAddresses \cup PagesOf(b)
      /\ InvalidAddresses' \in SUBSET InvalidAddresses
  BY <1>1 DEF FreeAddresses, PagesOf, InvalidAddresses
<1>3. PagesOf(b) \in SUBSET Address /\ Cardinality(PagesOf(b)) = PagesPerBlock
  BY BlockSize
<1>4. /\ IsFiniteSet(FreeAddresses) /\ IsFiniteSet(PagesOf(b))
      /\ Cardinality(FreeAddresses \cap PagesOf(b)) \in Nat
      /\ Cardinality(FreeAddresses \cap PagesOf(b)) <= Cardinality(PagesOf(b))
  <2>1. FreeAddresses \cap PagesOf(b) \in SUBSET PagesOf(b)
    OBVIOUS
  <2>2. FreeAddresses \cap PagesOf(b) \in SUBSET Address
    BY <1>3
  <2> QED
    BY <1>3, <2>1, <2>2, PageCounting, PageCountsTyped
<1>5. Cardinality(FreeAddresses')
        = Cardinality(FreeAddresses) + PagesPerBlock - Cardinality(FreeAddresses \cap PagesOf(b))
  BY <1>2, <1>3, <1>4, FS_Union
<1>6. UsedPages' <= UsedPages /\ UsedPages <= UsedPages' + PagesPerBlock
  BY <1>3, <1>4, <1>5, PageCountsTyped, GeometryAssumption DEF UsedPages
<1>7. Cardinality(InvalidAddresses') <= Cardinality(InvalidAddresses)
  BY <1>2, PageCountsTyped, PageCounting
<1>8. ASSUME NEW p \in InvalidPages(b)
      PROVE  Cardinality(InvalidAddresses') + 1 <= Cardinality(InvalidAddresses)
  <2>1. <<b, p>> \in InvalidAddresses /\ <<b, p>> \in Address
    BY DEF InvalidPages, PagesIn, InvalidAddresses, Address
  <2>2. InvalidAddresses' \in SUBSET (InvalidAddresses \ {<<b, p>>})
    BY <1>1, <1>2, <2>1 DEF InvalidAddresses
  <2>3. InvalidAddresses \ {<<b, p>>} \in SUBSET Address
    BY PageCountsTyped
  <2>4. Cardinality(InvalidAddresses') <= Cardinality(InvalidAddresses \ {<<b, p>>})
    BY <2>2, <2>3, PageCounting
  <2>5. Cardinality(InvalidAddresses \ {<<b, p>>}) = Cardinality(InvalidAddresses) - 1
    BY <2>1, PageCountsTyped, OnePage
  <2>6. Cardinality(InvalidAddresses') \in Nat
    <3>1. InvalidAddresses' \in SUBSET Address
      BY <1>2, PageCountsTyped
    <3> QED
      BY <3>1, PageCounting
  <2> QED
    BY <2>4, <2>5, <2>6, PageCountsTyped
<1> QED
  BY <1>6, <1>7, <1>8

-----------------------------------------------------------------------------
(* The counters. *)

CountersOK == stats \in [Stat -> Nat] /\ cacheStats \in [CacheStat -> Nat]

\* What is counted of an eviction.
LEMMA EvictionsTyped ==
  ASSUME CtrlInv, IsEnabled(CacheSize)
  PROVE  Evictions \in Nat
<1>1. DirtyVictim(lruList) \in Seq({x \in CacheEntry : x.dirty})
  BY DirtyVictimFacts DEF CtrlInv, DramOK, OneVersion, IsEnabled
<1> QED
  BY <1>1, LenProperties DEF Evictions

LEMMA CountersNext ==
  ASSUME CtrlInv, CountersOK, [StatNext]_statVars
  PROVE  CountersOK'
<1> USE DEF CountersOK
<1>1. ASSUME NEW increments, \A s \in DOMAIN increments : increments[s] \in Nat
      PROVE  /\ Record(increments) => stats' \in [Stat -> Nat]
             /\ RecordCache(increments) => cacheStats' \in [CacheStat -> Nat]
  BY <1>1, PlusFacts DEF Record, RecordCache
<1>2. /\ latency.dramRead \in Nat /\ latency.pageRead \in Nat
      /\ latency.pageWrite \in Nat /\ latency.blockErase \in Nat
  BY LatencyAssumption DEF Latency
<1>3. ASSUME IsEnabled(CacheSize), NEW l, CountWrite(l)
      PROVE  cacheStats' \in [CacheStat -> Nat]
  BY <1>1, <1>3, EvictionsTyped DEF CountWrite
<1>4. ASSUME NEW l \in LBA, NEW d \in Data, RecordedWrite(l, d)
      PROVE  CountersOK'
  BY <1>1, <1>3, <1>4 DEF RecordedWrite
<1>5. ASSUME NEW l \in LBA, RecordedRead(l)
      PROVE  CountersOK'
  BY <1>1, <1>2, <1>5, EvictionsTyped
  DEF RecordedRead, RecordedHit, RecordedMiss, RecordedUnmapped
<1>6. CASE SilentCall \/ UNCHANGED statVars
  BY <1>6 DEF SilentCall, statVars
<1>7. CASE RecordedController
  <2>1. CASE UNCHANGED <<stats, cacheStats>>
    BY <2>1
  <2>2. CASE RecordedProgram /\ UNCHANGED cacheStats
    BY <1>1, <1>2, <2>2 DEF RecordedProgram, HostProgram
  <2>3. CASE RecordedSelect /\ UNCHANGED cacheStats
    BY <1>1, <2>3 DEF RecordedSelect
  <2>4. CASE RecordedMove /\ UNCHANGED cacheStats
    BY <1>1, <1>2, <2>4 DEF RecordedMove, Migration
  <2>5. CASE RecordedErase /\ UNCHANGED cacheStats
    BY <1>1, <1>2, <2>5 DEF RecordedErase
  <2>6. CASE RecordedWearErase /\ UNCHANGED cacheStats
    BY <1>1, <1>2, <2>6 DEF RecordedWearErase
  <2> QED
    BY <1>7, <2>1, <2>2, <2>3, <2>4, <2>5, <2>6 DEF RecordedController, RecordedCollect
<1> QED
  BY <1>4, <1>5, <1>6, <1>7 DEF StatNext

\* What the three kinds of NAND work add to the counters of NandWork.
LEMMA WorkCounted ==
  ASSUME stats \in [Stat -> Nat]
  PROVE  /\ Record(HostProgram) =>
              /\ stats'.physicalWrites = stats.physicalWrites + 1
              /\ stats'.writeLatency = stats.writeLatency + latency.pageWrite
              /\ \A s \in Stat \ {"physicalWrites", "writeLatency"} : stats'[s] = stats[s]
         /\ Record(Migration) =>
              /\ stats'.physicalWrites = stats.physicalWrites + 1
              /\ stats'.pagesMigrated = stats.pagesMigrated + 1
              /\ stats'.gcLatency = stats.gcLatency + latency.pageWrite
              /\ \A s \in Stat \ {"physicalWrites", "pagesMigrated", "gcLatency"} :
                   stats'[s] = stats[s]
         /\ RecordedErase =>
              /\ stats'.gcLatency = stats.gcLatency + latency.blockErase
              /\ \A s \in Stat \ {"gcLatency"} : stats'[s] = stats[s]
         /\ RecordedWearErase =>
              /\ stats'.gcLatency = stats.gcLatency + latency.blockErase
              /\ stats'.wearLevelPasses = stats.wearLevelPasses + 1
              /\ \A s \in Stat \ {"gcLatency", "wearLevelPasses"} : stats'[s] = stats[s]
BY DEF Record, Plus, HostProgram, Migration, RecordedErase, RecordedWearErase, Stat

\* An erase adds one to the sum.
LEMMA EraseCounted ==
  ASSUME IInv
  PROVE  /\ TotalErases \in Nat
         /\ UNCHANGED eraseCount => TotalErases' = TotalErases
         /\ \A b \in Block : EraseBlock(b) => TotalErases' = TotalErases + 1
<1>1. eraseCount \in [Block -> Nat]
  BY DEF IInv, DataOK, FlashTypeOK
<1>2. TotalErases \in Nat
  BY <1>1, SumFacts DEF TotalErases
<1>3. ASSUME UNCHANGED eraseCount
      PROVE  TotalErases' = TotalErases
  BY <1>3 DEF TotalErases
<1>4. ASSUME NEW b \in Block, EraseBlock(b)
      PROVE  TotalErases' = TotalErases + 1
  <2>1. eraseCount' = [eraseCount EXCEPT ![b] = @ + 1]
    BY <1>4 DEF EraseBlock
  <2>2. SumOver([eraseCount EXCEPT ![b] = @ + 1]) = SumOver(eraseCount) + 1
    BY <1>1, SumFacts
  <2> QED
    BY <2>1, <2>2 DEF TotalErases
<1> QED
  BY <1>2, <1>3, <1>4

\* Both kinds of erase.
LEMMA SourceErased ==
  ASSUME IInv, GCErase \/ WLErase
  PROVE  src \in Block /\ EraseBlock(src)
BY DEF GCErase, WLErase, IInv, LoopsOK

-----------------------------------------------------------------------------
(* The sums match what the array has seen. *)

Accounts == CountersOK /\ NandTimeAccounted /\ ProgramsMatchArray

\* Times, which are products with the latencies.
LEMMA TimeNext ==
  ASSUME NoLBA \notin LBA, CtrlInv, CountersOK, NandTimeAccounted, [StatNext]_statVars
  PROVE  NandTimeAccounted'
<1> DEFINE w == latency.pageWrite
           e == latency.blockErase
           phys == stats.physicalWrites
           moved == stats.pagesMigrated
<1>1. w \in Nat /\ e \in Nat
  BY LatencyAssumption DEF Latency
<1>2. /\ phys \in Nat /\ moved \in Nat /\ stats.writeLatency \in Nat
      /\ stats.gcLatency \in Nat /\ stats.wearLevelPasses \in Nat
      /\ TotalErases \in Nat /\ gcCyclesRun \in Nat
  BY EraseCounted DEF CountersOK, Stat, CtrlInv, IInv, GCTypeOK
<1>3. /\ stats.writeLatency = (phys - moved) * w
      /\ stats.gcLatency = moved * w + TotalErases * e
      /\ TotalErases = gcCyclesRun + stats.wearLevelPasses
  BY DEF NandTimeAccounted, ProgramsForHost
<1>4. \A n \in Int, t \in Nat : (n + 1) * t = n * t + t
  OBVIOUS
<1>5. CASE NoWork
  <2>1. TotalErases' = TotalErases
    BY <1>5 DEF NoWork, flashVars, TotalErases
  <2> QED
    BY <1>5, <2>1 DEF NoWork, NandWork, NandTimeAccounted, ProgramsForHost
<1>6. CASE RecordedProgram
  <2>1. UNCHANGED <<eraseCount, gcCyclesRun>>
    BY <1>6 DEF RecordedProgram, Program
  <2>2. /\ stats'.physicalWrites = phys + 1
        /\ stats'.writeLatency = stats.writeLatency + w
        /\ stats'.pagesMigrated = moved /\ stats'.gcLatency = stats.gcLatency
        /\ stats'.wearLevelPasses = stats.wearLevelPasses
    BY <1>6, WorkCounted DEF RecordedProgram, CountersOK, Stat
  <2>3. (phys + 1 - moved) * w = (phys - moved) * w + w
    <3>1. phys + 1 - moved = (phys - moved) + 1 /\ phys - moved \in Int
      BY <1>2
    <3> QED
      BY <1>1, <1>4, <3>1
  <2>4. TotalErases' = TotalErases
    BY <2>1 DEF TotalErases
  <2> HIDE DEF w, e, phys, moved
  <2>5. stats'.writeLatency = (stats'.physicalWrites - stats'.pagesMigrated) * w
    <3>1. stats'.writeLatency = (phys - moved) * w + w
      BY <1>3, <2>2
    <3>2. phys - moved \in Int /\ stats'.physicalWrites - stats'.pagesMigrated = phys + 1 - moved
      BY <1>2, <2>2
    <3> QED
      BY <1>1, <2>3, <3>1, <3>2
  <2>6. stats'.gcLatency = stats'.pagesMigrated * w + TotalErases' * e
    BY <1>3, <2>2, <2>4
  <2>7. TotalErases' = gcCyclesRun' + stats'.wearLevelPasses
    BY <1>3, <2>1, <2>2, <2>4
  <2> QED
    BY <2>5, <2>6, <2>7 DEF NandTimeAccounted, ProgramsForHost, w, e
<1>7. CASE Copied
  <2>1. UNCHANGED <<eraseCount, gcCyclesRun>>
    BY <1>7 DEF Copied
  <2>2. /\ stats'.physicalWrites = phys + 1
        /\ stats'.pagesMigrated = moved + 1
        /\ stats'.gcLatency = stats.gcLatency + w
        /\ stats'.writeLatency = stats.writeLatency
        /\ stats'.wearLevelPasses = stats.wearLevelPasses
    BY <1>7, WorkCounted DEF Copied, CountersOK, Stat
  <2>3. /\ (moved + 1) * w = moved * w + w
        /\ phys + 1 - (moved + 1) = phys - moved
        /\ moved * w \in Nat /\ TotalErases * e \in Nat
    BY <1>1, <1>2, <1>4
  <2>4. TotalErases' = TotalErases
    BY <2>1 DEF TotalErases
  <2> HIDE DEF w, e, phys, moved
  <2>5. moved * w + TotalErases * e + w = moved * w + w + TotalErases * e
    BY <1>1, <2>3
  <2>6. stats'.writeLatency = (stats'.physicalWrites - stats'.pagesMigrated) * w
    <3>1. stats'.physicalWrites - stats'.pagesMigrated = phys - moved
      BY <1>2, <2>2
    <3> QED
      BY <1>3, <2>2, <3>1
  <2>7. stats'.gcLatency = stats'.pagesMigrated * w + TotalErases' * e
    <3>1. stats'.gcLatency = moved * w + TotalErases * e + w
      BY <1>3, <2>2
    <3> QED
      BY <2>2, <2>3, <2>4, <2>5, <3>1
  <2>8. TotalErases' = gcCyclesRun' + stats'.wearLevelPasses
    BY <1>3, <2>1, <2>2, <2>4
  <2> QED
    BY <2>6, <2>7, <2>8 DEF NandTimeAccounted, ProgramsForHost, w, e
<1>8. CASE RecordedErase \/ RecordedWearErase
  <2>1. TotalErases' = TotalErases + 1
    BY <1>8, SourceErased, EraseCounted DEF RecordedErase, RecordedWearErase, CtrlInv
  <2>2. /\ stats'.physicalWrites = phys /\ stats'.pagesMigrated = moved
        /\ stats'.gcLatency = stats.gcLatency + e
        /\ stats'.writeLatency = stats.writeLatency
    BY <1>8, WorkCounted DEF CountersOK, Stat
  <2>3. gcCyclesRun' + stats'.wearLevelPasses = gcCyclesRun + stats.wearLevelPasses + 1
    <3>1. CASE RecordedErase
      <4>1. stats'.wearLevelPasses = stats.wearLevelPasses /\ gcCyclesRun' = gcCyclesRun + 1
        BY <3>1, WorkCounted DEF CountersOK, Stat, RecordedErase, GCErase
      <4> QED
        BY <1>2, <4>1
    <3>2. CASE RecordedWearErase
      <4>1. /\ stats'.wearLevelPasses = stats.wearLevelPasses + 1
            /\ gcCyclesRun' = gcCyclesRun
        BY <3>2, WorkCounted DEF CountersOK, RecordedWearErase, WLErase
      <4> QED
        BY <1>2, <4>1
    <3> QED
      BY <1>8, <3>1, <3>2
  <2>4. (TotalErases + 1) * e = TotalErases * e + e
        /\ moved * w \in Nat /\ TotalErases * e \in Nat
    BY <1>1, <1>2, <1>4
  <2> HIDE DEF w, e, phys, moved
  <2>5. moved * w + TotalErases * e + e = moved * w + (TotalErases * e + e)
    BY <1>1, <2>4
  <2>6. /\ stats'.writeLatency = (stats'.physicalWrites - stats'.pagesMigrated) * w
        /\ stats'.gcLatency = stats'.pagesMigrated * w + TotalErases' * e
        /\ TotalErases' = gcCyclesRun' + stats'.wearLevelPasses
    BY <1>3, <2>1, <2>2, <2>3, <2>4, <2>5
  <2> QED
    BY <2>6 DEF NandTimeAccounted, ProgramsForHost, w, e
<1> QED
  BY <1>5, <1>6, <1>7, <1>8, StatKinds DEF CountersOK

LEMMA MatchNext ==
  ASSUME NoLBA \notin LBA, CtrlInv, CountersOK, ProgramsMatchArray, [StatNext]_statVars
  PROVE  ProgramsMatchArray'
<1> DEFINE phys == stats.physicalWrites
           reclaimed == PagesPerBlock * TotalErases
<1>1. /\ phys \in Nat /\ TotalErases \in Nat /\ PagesPerBlock \in Nat
      /\ reclaimed \in Nat /\ UsedPages \in Nat
  BY EraseCounted, PageCountsTyped, GeometryAssumption DEF CountersOK, Stat, CtrlInv
<1>2. UsedPages <= phys /\ phys <= UsedPages + reclaimed
  BY DEF ProgramsMatchArray
<1>3. CASE NoWork
  BY <1>3 DEF NoWork, NandWork, flashVars, ProgramsMatchArray, UsedPages, FreeAddresses,
              TotalErases
<1>4. CASE RecordedProgram \/ Copied
  <2>1. UsedPages' = UsedPages + 1
    BY <1>4, ProgramCounts, CopyCounts DEF RecordedProgram, CtrlInv
  <2>2. stats'.physicalWrites = phys + 1
    BY <1>4, WorkCounted DEF RecordedProgram, Copied, CountersOK
  <2>3. PagesPerBlock * TotalErases' = reclaimed
    BY <1>4 DEF RecordedProgram, Program, Copied, TotalErases
  <2> HIDE DEF phys, reclaimed
  <2>4. /\ UsedPages' <= stats'.physicalWrites
        /\ stats'.physicalWrites <= UsedPages' + PagesPerBlock * TotalErases'
    BY <1>1, <1>2, <2>1, <2>2, <2>3
  <2> QED
    BY <2>4 DEF ProgramsMatchArray
<1>5. CASE RecordedErase \/ RecordedWearErase
  <2>1. TotalErases' = TotalErases + 1
    BY <1>5, SourceErased, EraseCounted DEF RecordedErase, RecordedWearErase, CtrlInv
  <2>2. UsedPages' <= UsedPages /\ UsedPages <= UsedPages' + PagesPerBlock
    BY <1>5, SourceErased, EraseCounts DEF RecordedErase, RecordedWearErase, CtrlInv
  <2>3. stats'.physicalWrites = phys
    BY <1>5, WorkCounted DEF CountersOK, Stat
  <2>4. PagesPerBlock * TotalErases' = reclaimed + PagesPerBlock
    <3>1. \A m, n \in Nat : m * (n + 1) = m * n + m
      OBVIOUS
    <3> QED
      BY <1>1, <2>1, <3>1
  <2>5. PICK used \in Int : used = UsedPages'
    <3>1. FreeAddresses' \in SUBSET Address
      BY DEF FreeAddresses
    <3>2. UsedPages' \in Int
      BY <3>1, PageCounting, PageCountsTyped DEF UsedPages
    <3> QED
      BY <3>2
  <2>6. used <= UsedPages /\ UsedPages <= used + PagesPerBlock
    BY <2>2, <2>5
  <2> HIDE DEF phys, reclaimed
  <2>7. used <= phys /\ phys <= used + (reclaimed + PagesPerBlock)
    BY <1>1, <1>2, <2>6
  <2> QED
    BY <2>3, <2>4, <2>5, <2>7 DEF ProgramsMatchArray
<1> QED
  BY <1>3, <1>4, <1>5, StatKinds DEF CountersOK

LEMMA AccountsInit == StatInit => Accounts
<1> SUFFICES ASSUME StatInit PROVE Accounts
  OBVIOUS
<1>1. CountersOK /\ \A s \in Stat : stats[s] = 0
  BY DEF StatInit, CountersOK
<1>2. CtrlInv /\ gcCyclesRun = 0
  BY CtrlInvInit DEF StatInit, CtrlInit, Init, GCInit
<1>3. TotalErases = 0
  BY SumFacts DEF TotalErases, StatInit, CtrlInit, Init, FlashInit
<1>4. UsedPages = 0
  <2>1. FreeAddresses = Address
    BY DEF FreeAddresses, StatInit, CtrlInit, Init, FlashInit
  <2> QED
    BY <2>1, PageCountsTyped DEF UsedPages
<1>5. /\ latency.pageWrite \in Nat /\ latency.blockErase \in Nat
  BY LatencyAssumption DEF Latency
<1>6. /\ stats.physicalWrites = 0 /\ stats.pagesMigrated = 0 /\ stats.writeLatency = 0
      /\ stats.gcLatency = 0 /\ stats.wearLevelPasses = 0
  BY <1>1 DEF Stat
<1>7. NandTimeAccounted
  BY <1>2, <1>3, <1>5, <1>6 DEF NandTimeAccounted, ProgramsForHost
<1>8. ProgramsMatchArray
  BY <1>3, <1>4, <1>6, GeometryAssumption DEF ProgramsMatchArray
<1> QED
  BY <1>1, <1>7, <1>8 DEF Accounts

LEMMA AccountsInvariance ==
  ASSUME NoLBA \notin LBA
  PROVE  StatSpec => [](CtrlInv /\ Accounts)
<1>1. CtrlInv /\ Accounts /\ [StatNext]_statVars => Accounts'
  BY CountersNext, TimeNext, MatchNext DEF Accounts
<1> QED
  BY StatInvariance, AccountsInit, <1>1, PTL DEF StatSpec

\* Types of controller and counters: no counter is ever negative, whatever is
\* added to it and wherever.
THEOREM StatTypeCorrectness ==
  ASSUME NoLBA \notin LBA
  PROVE  StatSpec => []StatTypeOK
<1>1. CtrlInv /\ Accounts => StatTypeOK
  BY CtrlInvTypes DEF Accounts, CountersOK, StatTypeOK
<1> QED
  BY AccountsInvariance, <1>1, PTL

\* The latency sums charge every NAND operation once, on the right side, and the
\* erases the blocks count are those of the collections and passes counted.
THEOREM LatencyAccounted ==
  ASSUME NoLBA \notin LBA
  PROVE  StatSpec => []NandTimeAccounted
<1>1. CtrlInv /\ Accounts => NandTimeAccounted
  BY DEF Accounts
<1> QED
  BY AccountsInvariance, <1>1, PTL

\* The physical writes recorded are the programs the array has seen, up to what
\* the erases have reclaimed.
THEOREM ProgramsCounted ==
  ASSUME NoLBA \notin LBA
  PROVE  StatSpec => []ProgramsMatchArray
<1>1. CtrlInv /\ Accounts => ProgramsMatchArray
  BY DEF Accounts
<1> QED
  BY AccountsInvariance, <1>1, PTL

-----------------------------------------------------------------------------
(* Counting entries.  No LBA occurs twice in a list, so that its length is   *)
(* the number of its entries.                                                *)

LEMMA LengthCounts ==
  ASSUME NEW S, NEW list \in Seq(S), OneEntryPerLBA(list)
  PROVE  /\ IsFiniteSet(Range(list)) /\ Len(list) \in Nat
         /\ Len(list) = Cardinality(Range(list))
<1>1. DOMAIN list = 1 .. Len(list) /\ Len(list) \in Nat
  BY LenProperties
<1>2. IsFiniteSet(1 .. Len(list)) /\ Cardinality(1 .. Len(list)) = Len(list)
  <2>1. 1 \in Int /\ Len(list) \in Int
    BY <1>1
  <2>2. /\ IsFiniteSet(1 .. Len(list))
        /\ Cardinality(1 .. Len(list)) = IF 1 > Len(list) THEN 0 ELSE Len(list) - 1 + 1
    BY <2>1, FS_Interval
  <2> QED
    BY <1>1, <2>2
<1>3. ExistsBijection(1 .. Len(list), Range(list))
  <2>1. list \in [1 .. Len(list) -> Range(list)]
    BY <1>1 DEF Range
  <2>2. list \in Bijection(1 .. Len(list), Range(list))
    BY <1>1, <2>1 DEF Bijection, Injection, Surjection, IsInjective, OneEntryPerLBA, Range
  <2> QED
    BY <2>2 DEF ExistsBijection
<1> QED
  BY <1>1, <1>2, <1>3, FS_Bijection

\* The dirty entries of a list.
Dirty(S) == {x \in S : x.dirty}

LEMMA DirtyCounts ==
  ASSUME NEW S, NEW list \in Seq(S), OneEntryPerLBA(list)
  PROVE  /\ IsFiniteSet(Dirty(Range(list)))
         /\ Len(DirtyEntries(list)) \in Nat
         /\ Len(DirtyEntries(list)) = Cardinality(Dirty(Range(list)))
<1>1. /\ DirtyEntries(list) \in Seq({x \in S : x.dirty})
      /\ OneEntryPerLBA(DirtyEntries(list))
      /\ Range(DirtyEntries(list)) = Dirty(Range(list))
  BY DirtyEntriesFacts DEF Dirty
<1> QED
  BY <1>1, LengthCounts

\* A hit with a dirty entry makes one more entry dirty, unless it was.
LEMMA HitCount ==
  ASSUME NEW S, NEW list \in Seq(S), OneEntryPerLBA(list),
         NEW l, Cached(list, l), NEW e \in S, e.lba = l
  PROVE  LET old == Len(DirtyEntries(list))
             new == Len(DirtyEntries(ToFront(list, l, e)))
         IN  /\ old \in Nat /\ new \in Nat
             /\ e = CachedEntry(list, l) => new = old
             /\ e.dirty => new \in {old, old + 1}
<1> DEFINE list2 == ToFront(list, l, e)
           c == CachedEntry(list, l)
           others == Dirty(Range(list)) \ {c}
<1>1. c \in Range(list) /\ c.lba = l /\ \A x \in Range(list) : x.lba = l => x = c
  BY CachedFacts
<1>2. /\ list2 \in Seq(S) /\ OneEntryPerLBA(list2)
      /\ Range(list2) = {e} \cup {x \in Range(list) : x.lba # l}
  BY ToFrontFacts
<1> HIDE DEF list2, c
<1>3. /\ IsFiniteSet(Dirty(Range(list))) /\ Len(DirtyEntries(list)) \in Nat
      /\ Len(DirtyEntries(list)) = Cardinality(Dirty(Range(list)))
      /\ Len(DirtyEntries(list2)) \in Nat
      /\ Len(DirtyEntries(list2)) = Cardinality(Dirty(Range(list2)))
  BY <1>2, DirtyCounts
<1>4. ASSUME e = c
      PROVE  Dirty(Range(list2)) = Dirty(Range(list))
  BY <1>1, <1>2, <1>4 DEF Dirty
<1>5. ASSUME e.dirty
      PROVE  Len(DirtyEntries(list2)) \in {Len(DirtyEntries(list)), Len(DirtyEntries(list)) + 1}
  <2>1. Dirty(Range(list2)) = others \cup {e} /\ e \notin others
    BY <1>1, <1>2, <1>5 DEF Dirty
  <2>2. IsFiniteSet(others) /\ Cardinality(others) \in Nat
    BY <1>3, FS_Subset, FS_CardinalityType
  <2>3. Cardinality(others \cup {e}) = Cardinality(others) + 1
    BY <2>1, <2>2, FS_AddElement
  <2>4. Cardinality(others) = IF c \in Dirty(Range(list))
                              THEN Cardinality(Dirty(Range(list))) - 1
                              ELSE Cardinality(Dirty(Range(list)))
    BY <1>3, FS_RemoveElement
  <2> HIDE DEF others
  <2> QED
    BY <1>3, <2>1, <2>2, <2>3, <2>4
<1> QED
  BY <1>3, <1>4, <1>5 DEF list2, c

\* A miss adds its entry; a dirty victim is handed over, not lost.
LEMMA MissCount ==
  ASSUME NEW S, NEW list \in Seq(S), OneEntryPerLBA(list),
         CacheSize > 0, Len(list) <= CacheSize,
         NEW e \in S, ~ Cached(list, e.lba)
  PROVE  /\ Len(DirtyEntries(list)) \in Nat /\ Len(DirtyVictim(list)) \in Nat
         /\ Len(DirtyEntries(Inserted(list, e))) \in Nat
         /\ Len(DirtyEntries(Inserted(list, e))) + Len(DirtyVictim(list))
              = Len(DirtyEntries(list)) + (IF e.dirty THEN 1 ELSE 0)
<1> DEFINE rest == Dirty(Range(Evicted(list)))
           victim == Range(DirtyVictim(list))
           before == Dirty(Range(list))
           after == Dirty(Range(Inserted(list, e)))
<1>1. /\ Evicted(list) \in Seq(S) /\ Range(Evicted(list)) \subseteq Range(list)
      /\ DirtyVictim(list) \in Seq({x \in S : x.dirty}) /\ OneEntryPerLBA(DirtyVictim(list))
      /\ victim = {x \in Range(list) : x \notin Range(Evicted(list)) /\ x.dirty}
      /\ Inserted(list, e) \in Seq(S) /\ OneEntryPerLBA(Inserted(list, e))
      /\ Range(Inserted(list, e)) = {e} \cup Range(Evicted(list))
  <2>1. Evicted(list) \in Seq(S) /\ Range(Evicted(list)) \subseteq Range(list)
    BY EvictedFacts
  <2>2. /\ DirtyVictim(list) \in Seq({x \in S : x.dirty}) /\ OneEntryPerLBA(DirtyVictim(list))
        /\ victim = {x \in Range(list) : x \notin Range(Evicted(list)) /\ x.dirty}
    BY DirtyVictimFacts
  <2>3. /\ Inserted(list, e) \in Seq(S) /\ OneEntryPerLBA(Inserted(list, e))
        /\ Range(Inserted(list, e)) = {e} \cup Range(Evicted(list))
    BY InsertedFacts
  <2> QED
    BY <2>1, <2>2, <2>3
<1>2. /\ IsFiniteSet(before) /\ Len(DirtyEntries(list)) \in Nat
      /\ Len(DirtyEntries(list)) = Cardinality(before)
      /\ IsFiniteSet(after) /\ Len(DirtyEntries(Inserted(list, e))) \in Nat
      /\ Len(DirtyEntries(Inserted(list, e))) = Cardinality(after)
      /\ IsFiniteSet(victim) /\ Len(DirtyVictim(list)) \in Nat
      /\ Len(DirtyVictim(list)) = Cardinality(victim)
  BY <1>1, DirtyCounts, LengthCounts
<1>3. before = rest \cup victim /\ rest \cap victim = {}
  BY <1>1 DEF Dirty
<1>4. IsFiniteSet(rest) /\ Cardinality(rest) \in Nat
  <2>1. rest \in SUBSET before
    BY <1>3
  <2> QED
    BY <1>2, <2>1, FS_Subset, FS_CardinalityType
<1>5. Cardinality(before) = Cardinality(rest) + Cardinality(victim)
  <2>1. Cardinality(rest \cup victim)
          = Cardinality(rest) + Cardinality(victim) - Cardinality(rest \cap victim)
    BY <1>2, <1>4, FS_Union
  <2>2. Cardinality(rest \cap victim) = 0
    BY <1>3, FS_EmptySet
  <2> HIDE DEF rest, victim, before
  <2> QED
    BY <1>2, <1>3, <1>4, <2>1, <2>2
<1>6. e \notin rest
  BY <1>1, CachedInRange DEF Dirty
<1>7. after = IF e.dirty THEN rest \cup {e} ELSE rest
  BY <1>1 DEF Dirty
<1>8. Cardinality(after) = Cardinality(rest) + (IF e.dirty THEN 1 ELSE 0)
  <2> HIDE DEF rest, after
  <2>1. Cardinality(rest \cup {e}) = Cardinality(rest) + 1
    BY <1>4, <1>6, FS_AddElement
  <2> QED
    BY <1>4, <1>7, <2>1
<1> HIDE DEF rest, victim, before, after
<1> QED
  BY <1>2, <1>4, <1>5, <1>8

-----------------------------------------------------------------------------
(* Where the host's writes are. *)

LEMMA LedgerTyped ==
  ASSUME CtrlInv, CountersOK
  PROVE  /\ stats.logicalWrites \in Nat /\ ProgramsForHost \in Int
         /\ InTransit \in Nat /\ Len(DirtyEntries(lruList)) \in Nat
         /\ cacheStats.dirtyEvictions \in Nat /\ cacheStats.coalesced \in Nat
         /\ Unstored \in Int
<1>1. Len(toNand) \in Nat
  BY LenProperties DEF CtrlInv, DramOK
<1>2. Len(DirtyEntries(lruList)) \in Nat
  BY DirtyCounts DEF CtrlInv, DramOK, OneVersion
<1> QED
  BY <1>1, <1>2
  DEF CountersOK, Stat, CacheStat, ProgramsForHost, InTransit, Pending, Unstored

Balanced ==
  /\ \/ Unstored' = Unstored
     \/ /\ Unstored' = Unstored + 1
        /\ DropWrite \/ cacheStats'.coalesced = cacheStats.coalesced + 1
  /\ \/ DropWrite
     \/ (ProgramsForHost + InTransit)' - ProgramsForHost - InTransit
           >= cacheStats'.dirtyEvictions - cacheStats.dirtyEvictions

\* The quantities of the balance, after a step on them.
LEMMA Balance ==
  ASSUME CtrlInv, CountersOK,
         NEW w \in {0, 1}, NEW p \in Int, NEW t \in Int, NEW d \in Int, NEW e \in Int,
         stats'.logicalWrites = stats.logicalWrites + w,
         stats'.physicalWrites - stats'.pagesMigrated = ProgramsForHost + p,
         Len(toNand') + (IF writing' # NoWrite THEN 1 ELSE 0) = InTransit + t,
         Len(DirtyEntries(lruList')) = Len(DirtyEntries(lruList)) + d,
         cacheStats'.dirtyEvictions = cacheStats.dirtyEvictions + e,
         \/ w = p + t + d
         \/ /\ w = p + t + d + 1
            /\ DropWrite \/ cacheStats'.coalesced = cacheStats.coalesced + 1,
         DropWrite \/ p + t >= e
  PROVE  Balanced
<1> DEFINE l == stats.logicalWrites
           h == ProgramsForHost
           i == InTransit
           n == Len(DirtyEntries(lruList))
           v == cacheStats.dirtyEvictions
<1>1. l \in Int /\ h \in Int /\ i \in Int /\ n \in Int /\ v \in Int
  BY LedgerTyped
<1>2. Unstored = l - h - (n + i)
  BY DEF Unstored, Pending
<1> DEFINE waiting == Len(toNand') + (IF writing' # NoWrite THEN 1 ELSE 0)
<1>3. /\ stats'.logicalWrites = l + w /\ stats'.physicalWrites - stats'.pagesMigrated = h + p
      /\ waiting = i + t /\ Len(DirtyEntries(lruList')) = n + d
  OBVIOUS
<1>4. /\ Unstored' = stats'.logicalWrites - (stats'.physicalWrites - stats'.pagesMigrated)
                      - (Len(DirtyEntries(lruList')) + waiting)
      /\ (ProgramsForHost + InTransit)' = stats'.physicalWrites - stats'.pagesMigrated + waiting
  BY DEF Unstored, Pending, ProgramsForHost, InTransit
<1> HIDE DEF l, h, i, n, v, waiting
<1>5. Unstored' = Unstored + (w - p - t - d)
  <2>1. Unstored' = l + w - (h + p) - (n + d + (i + t))
    BY <1>1, <1>3, <1>4
  <2> QED
    BY <1>1, <1>2, <2>1
<1>6. (ProgramsForHost + InTransit)' - h - i = p + t
  <2>1. (ProgramsForHost + InTransit)' = h + p + (i + t)
    BY <1>3, <1>4
  <2> QED
    BY <1>1, <2>1
<1>7. cacheStats'.dirtyEvictions - v = e
  BY <1>1 DEF v
<1>8. Unstored \in Int
  BY LedgerTyped
<1>9. \/ Unstored' = Unstored
      \/ /\ Unstored' = Unstored + 1
         /\ DropWrite \/ cacheStats'.coalesced = cacheStats.coalesced + 1
  BY <1>5, <1>8
<1>10. DropWrite \/ (ProgramsForHost + InTransit)' - h - i >= cacheStats'.dirtyEvictions - v
  BY <1>6, <1>7
<1> QED
  BY <1>9, <1>10 DEF Balanced, h, i, v

\* A step that stores, absorbs or drops nothing.
LEMMA QuietBalance ==
  ASSUME CtrlInv, CountersOK, UNCHANGED <<lruList, toNand, writing>>,
         stats'.logicalWrites = stats.logicalWrites,
         stats'.physicalWrites - stats'.pagesMigrated = stats.physicalWrites - stats.pagesMigrated,
         cacheStats'.dirtyEvictions = cacheStats.dirtyEvictions
  PROVE  Balanced
<1>1. /\ stats.logicalWrites \in Nat /\ ProgramsForHost \in Int
      /\ InTransit \in Nat /\ Len(DirtyEntries(lruList)) \in Nat
      /\ cacheStats.dirtyEvictions \in Nat
  BY LedgerTyped
<1>2. /\ stats'.logicalWrites = stats.logicalWrites + 0
      /\ stats'.physicalWrites - stats'.pagesMigrated = ProgramsForHost + 0
      /\ Len(toNand') + (IF writing' # NoWrite THEN 1 ELSE 0) = InTransit + 0
      /\ Len(DirtyEntries(lruList')) = Len(DirtyEntries(lruList)) + 0
      /\ cacheStats'.dirtyEvictions = cacheStats.dirtyEvictions + 0
  <2>1. ProgramsForHost = stats.physicalWrites - stats.pagesMigrated
        /\ InTransit = Len(toNand) + (IF writing # NoWrite THEN 1 ELSE 0)
    BY DEF ProgramsForHost, InTransit
  <2> QED
    BY <1>1, <2>1
<1>3. 0 \in {0, 1} /\ 0 \in Int /\ 0 = 0 + 0 + 0 /\ 0 + 0 >= 0
  OBVIOUS
<1> QED
  BY <1>2, <1>3, Balance

\* What each record adds to the counters of the balance.
LEMMA CallCounted ==
  ASSUME CountersOK
  PROVE  /\ Record([logicalWrites |-> 1]) =>
              /\ stats'.logicalWrites = stats.logicalWrites + 1
              /\ stats'.physicalWrites - stats'.pagesMigrated = ProgramsForHost + 0
         /\ \A t : Record([logicalReads |-> 1, readLatency |-> t]) \/ Record([logicalReads |-> 1])
                    \/ Record([gcInvocations |-> 1]) \/ UNCHANGED stats =>
              /\ stats'.logicalWrites = stats.logicalWrites + 0
              /\ stats'.physicalWrites - stats'.pagesMigrated = ProgramsForHost + 0
         /\ RecordCache([hits |-> 1, coalesced |-> 1]) =>
              /\ cacheStats'.dirtyEvictions = cacheStats.dirtyEvictions + 0
              /\ cacheStats'.coalesced = cacheStats.coalesced + 1
         /\ \A n : RecordCache([misses |-> 1, dirtyEvictions |-> n]) =>
              cacheStats'.dirtyEvictions = cacheStats.dirtyEvictions + n
         /\ RecordCache([hits |-> 1]) \/ RecordCache([misses |-> 1]) \/ UNCHANGED cacheStats =>
              cacheStats'.dirtyEvictions = cacheStats.dirtyEvictions + 0
<1>1. /\ stats.physicalWrites \in Int /\ stats.pagesMigrated \in Int
      /\ stats.logicalWrites \in Int /\ cacheStats.dirtyEvictions \in Int
      /\ cacheStats.coalesced \in Int
  BY DEF CountersOK, Stat, CacheStat
<1>2. ASSUME NEW t, Record([logicalReads |-> 1, readLatency |-> t]) \/ Record([logicalReads |-> 1])
                    \/ Record([gcInvocations |-> 1]) \/ UNCHANGED stats
      PROVE  /\ stats'.logicalWrites = stats.logicalWrites + 0
             /\ stats'.physicalWrites - stats'.pagesMigrated = ProgramsForHost + 0
  <2>1. /\ stats'.logicalWrites = stats.logicalWrites
        /\ stats'.physicalWrites = stats.physicalWrites
        /\ stats'.pagesMigrated = stats.pagesMigrated
    BY <1>1, <1>2 DEF CountersOK, Record, Plus, Stat
  <2> QED
    BY <1>1, <2>1 DEF ProgramsForHost
<1>3. ASSUME Record([logicalWrites |-> 1])
      PROVE  /\ stats'.logicalWrites = stats.logicalWrites + 1
             /\ stats'.physicalWrites - stats'.pagesMigrated = ProgramsForHost + 0
  <2>1. /\ stats'.logicalWrites = stats.logicalWrites + 1
        /\ stats'.physicalWrites = stats.physicalWrites
        /\ stats'.pagesMigrated = stats.pagesMigrated
    BY <1>1, <1>3 DEF CountersOK, Record, Plus, Stat
  <2> QED
    BY <1>1, <2>1 DEF ProgramsForHost
<1>4. /\ RecordCache([hits |-> 1, coalesced |-> 1]) =>
           /\ cacheStats'.dirtyEvictions = cacheStats.dirtyEvictions + 0
           /\ cacheStats'.coalesced = cacheStats.coalesced + 1
      /\ \A n : RecordCache([misses |-> 1, dirtyEvictions |-> n]) =>
           cacheStats'.dirtyEvictions = cacheStats.dirtyEvictions + n
      /\ RecordCache([hits |-> 1]) \/ RecordCache([misses |-> 1]) \/ UNCHANGED cacheStats =>
           cacheStats'.dirtyEvictions = cacheStats.dirtyEvictions + 0
  BY <1>1 DEF CountersOK, RecordCache, Plus, CacheStat
<1> QED
  BY <1>2, <1>3, <1>4

\* Between two calls nothing is on its way; a call can only hand over toNand.
LEMMA HandedOver ==
  ASSUME CtrlInv, Ready, UNCHANGED writing, NEW t \in Nat, Len(toNand') = t
  PROVE  Len(toNand') + (IF writing' # NoWrite THEN 1 ELSE 0) = InTransit + t
<1>1. writing = NoWrite /\ Len(toNand) = 0
  BY ReadyFacts DEF CtrlInv
<1>2. InTransit = 0
  BY <1>1 DEF InTransit
<1>3. Len(toNand') + (IF writing' # NoWrite THEN 1 ELSE 0) = t
  BY <1>1
<1> QED
  BY <1>2, <1>3

\* A write that the cache absorbs, takes in or passes on.
LEMMA WriteBalance ==
  ASSUME CtrlInv, CountersOK, NoLBA \notin LBA,
         NEW l \in LBA, NEW d \in Data, RecordedWrite(l, d)
  PROVE  Balanced
<1> DEFINE n == Len(DirtyEntries(lruList))
<1>1. /\ stats'.logicalWrites = stats.logicalWrites + 1
      /\ stats'.physicalWrites - stats'.pagesMigrated = ProgramsForHost + 0
  BY CallCounted DEF RecordedWrite
<1>2. /\ Ready /\ lruList \in Seq(CacheEntry) /\ OneEntryPerLBA(lruList)
      /\ Len(lruList) <= CacheSize
      /\ Written(lruList, l, d) \in CacheEntry /\ Written(lruList, l, d).lba = l
      /\ Written(lruList, l, d).dirty
  BY DEF RecordedWrite, CtrlWrite, CtrlInv, DramOK, OneVersion, Written, Entry, CacheEntry
<1>3. 0 \in Int /\ 1 \in Int /\ 1 \in {0, 1}
  OBVIOUS
<1>4. CASE IsEnabled(CacheSize) /\ Cached(lruList, l)
  <2>1. /\ lruList' = ToFront(lruList, l, Written(lruList, l, d))
        /\ UNCHANGED <<toNand, writing>>
        /\ RecordCache([hits |-> 1, coalesced |-> 1])
    BY <1>4 DEF RecordedWrite, CtrlWrite, CountWrite, vars
  <2>2. /\ cacheStats'.dirtyEvictions = cacheStats.dirtyEvictions + 0
        /\ cacheStats'.coalesced = cacheStats.coalesced + 1
    BY <2>1, CallCounted
  <2>3. Len(toNand') = 0
    BY <1>2, <2>1 DEF Ready
  <2>4. Len(toNand') + (IF writing' # NoWrite THEN 1 ELSE 0) = InTransit + 0
    BY <1>2, <2>1, <2>3, HandedOver
  <2>5. n \in Nat /\ Len(DirtyEntries(lruList')) \in {n, n + 1}
    BY <1>2, <1>4, <2>1, HitCount
  <2>6. PICK k \in {0, 1} : Len(DirtyEntries(lruList')) = n + k
    BY <2>5
  <2>7. k \in Int /\ (1 = 0 + 0 + k \/ 1 = 0 + 0 + k + 1) /\ 0 + 0 >= 0
    BY <2>6
  <2> QED
    BY <1>1, <1>3, <2>2, <2>4, <2>6, <2>7, Balance
<1>5. CASE IsEnabled(CacheSize) /\ ~ Cached(lruList, l)
  <2>1. /\ lruList' = Inserted(lruList, Written(lruList, l, d))
        /\ toNand' = DirtyVictim(lruList) /\ UNCHANGED writing
        /\ RecordCache([misses |-> 1, dirtyEvictions |-> Evictions])
    BY <1>5 DEF RecordedWrite, CtrlWrite, CountWrite, vars
  <2>2. /\ n \in Nat /\ Evictions \in Nat /\ Len(DirtyEntries(lruList')) \in Nat
        /\ Len(DirtyEntries(lruList')) + Evictions = n + 1
    BY <1>2, <1>5, <2>1, MissCount DEF IsEnabled, Evictions
  <2>3. PICK t \in Nat : t = Evictions
    BY <2>2
  <2>4. cacheStats'.dirtyEvictions = cacheStats.dirtyEvictions + t
    BY <2>1, <2>3, CallCounted
  <2>5. Len(toNand') + (IF writing' # NoWrite THEN 1 ELSE 0) = InTransit + t
    BY <1>2, <2>1, <2>3, HandedOver DEF Evictions
  <2>6. /\ t \in Int /\ 1 - t \in Int /\ Len(DirtyEntries(lruList')) = n + (1 - t)
        /\ 1 = 0 + t + (1 - t) /\ 0 + t >= t
    BY <2>2, <2>3
  <2> QED
    BY <1>1, <1>3, <2>4, <2>5, <2>6, Balance
<1>6. CASE ~ IsEnabled(CacheSize)
  <2>1. CtrlWrite(l, d) /\ UNCHANGED <<lruList, toNand, cacheStats>>
    BY <1>6 DEF RecordedWrite, CtrlWrite
  <2>2. writing' # NoWrite
    BY <1>6, <2>1, BeginFacts, HostAssumption DEF Write
  <2>3. writing = NoWrite /\ Len(toNand) = 0
    BY <1>2, ReadyFacts DEF CtrlInv
  <2>4. Len(toNand') + (IF writing' # NoWrite THEN 1 ELSE 0) = InTransit + 1
    BY <2>1, <2>2, <2>3 DEF InTransit
  <2>5. cacheStats'.dirtyEvictions = cacheStats.dirtyEvictions + 0
    BY <2>1, CallCounted
  <2>6. Len(DirtyEntries(lruList')) = n + 0
    BY <2>1, LedgerTyped
  <2>7. 1 = 0 + 1 + 0 /\ 0 + 1 >= 0
    OBVIOUS
  <2> QED
    BY <1>1, <1>3, <2>4, <2>5, <2>6, <2>7, Balance
<1> QED
  BY <1>4, <1>5, <1>6

\* A read makes no write, but what it puts into the cache may push one out.
LEMMA ReadBalance ==
  ASSUME CtrlInv, CountersOK, NEW l \in LBA, RecordedRead(l)
  PROVE  Balanced
<1> DEFINE n == Len(DirtyEntries(lruList))
<1>1. /\ stats'.logicalWrites = stats.logicalWrites + 0
      /\ stats'.physicalWrites - stats'.pagesMigrated = ProgramsForHost + 0
  BY CallCounted DEF RecordedRead, RecordedHit, RecordedMiss, RecordedUnmapped
<1>2. /\ Ready /\ UNCHANGED writing
      /\ lruList \in Seq(CacheEntry) /\ OneEntryPerLBA(lruList) /\ Len(lruList) <= CacheSize
  BY DEF RecordedRead, RecordedHit, RecordedMiss, RecordedUnmapped, ReadHit, ReadMiss,
         ReadUnmapped, vars, CtrlInv, DramOK, OneVersion
<1>3. 0 \in Int /\ 0 \in {0, 1} /\ 0 = 0 + 0 + 0 /\ 0 + 0 >= 0
  OBVIOUS
<1>4. n \in Nat
  BY LedgerTyped
<1>5. ASSUME Len(DirtyEntries(lruList')) = n + 0, UNCHANGED toNand,
             cacheStats'.dirtyEvictions = cacheStats.dirtyEvictions + 0
      PROVE  Balanced
  <2>1. Len(toNand') = 0
    BY <1>2, <1>5 DEF Ready
  <2>2. Len(toNand') + (IF writing' # NoWrite THEN 1 ELSE 0) = InTransit + 0
    BY <1>2, <2>1, HandedOver
  <2> QED
    BY <1>1, <1>3, <1>5, <2>2, Balance
<1>6. CASE RecordedHit(l)
  <2>1. /\ Cached(lruList, l) /\ UNCHANGED toNand
        /\ lruList' = ToFront(lruList, l, CachedEntry(lruList, l))
        /\ RecordCache([hits |-> 1])
    BY <1>6 DEF RecordedHit, ReadHit
  <2>2. CachedEntry(lruList, l) \in CacheEntry /\ CachedEntry(lruList, l).lba = l
    BY <1>2, <2>1, CachedFacts, EntriesTyped DEF CtrlInv
  <2>3. Len(DirtyEntries(lruList')) = n
    BY <1>2, <2>1, <2>2, HitCount
  <2> QED
    BY <1>4, <1>5, <2>1, <2>3, CallCounted
<1>7. CASE RecordedMiss(l) /\ IsEnabled(CacheSize)
  <2> DEFINE e == Entry(l, pageData[mappingTable[l]], FALSE)
  <2>1. /\ lruList' = Inserted(lruList, e) /\ toNand' = DirtyVictim(lruList)
        /\ ~ Cached(lruList, l) /\ HasMapping(l)
        /\ RecordCache([misses |-> 1, dirtyEvictions |-> Evictions])
    BY <1>7 DEF RecordedMiss, ReadMiss
  <2>2. e \in CacheEntry /\ e.lba = l /\ ~ e.dirty
    BY <2>1, MappedData DEF CtrlInv, Entry, CacheEntry
  <2> HIDE DEF e
  <2>3. /\ Evictions \in Nat /\ Len(DirtyEntries(lruList')) \in Nat
        /\ Len(DirtyEntries(lruList')) + Evictions = n + 0
    BY <1>2, <1>7, <2>1, <2>2, MissCount DEF IsEnabled, Evictions
  <2>4. PICK t \in Nat : t = Evictions
    BY <2>3
  <2>5. cacheStats'.dirtyEvictions = cacheStats.dirtyEvictions + t
    BY <2>1, <2>4, CallCounted
  <2>6. Len(toNand') + (IF writing' # NoWrite THEN 1 ELSE 0) = InTransit + t
    BY <1>2, <2>1, <2>4, HandedOver DEF Evictions
  <2>7. /\ t \in Int /\ 0 - t \in Int /\ Len(DirtyEntries(lruList')) = n + (0 - t)
        /\ 0 = 0 + t + (0 - t) /\ 0 + t >= t
    BY <1>4, <2>3, <2>4
  <2> QED
    BY <1>1, <1>3, <2>5, <2>6, <2>7, Balance
<1>8. CASE RecordedUnmapped(l) \/ (RecordedMiss(l) /\ ~ IsEnabled(CacheSize))
  <2>1. /\ UNCHANGED <<lruList, toNand>>
        /\ RecordCache([misses |-> 1]) \/ UNCHANGED cacheStats
    BY <1>8 DEF RecordedUnmapped, ReadUnmapped, RecordedMiss, ReadMiss
  <2> QED
    BY <1>4, <1>5, <2>1, CallCounted
<1> QED
  BY <1>6, <1>7, <1>8 DEF RecordedRead

\* A nandWrite that starts only moves an entry on.
LEMMA NextBalance ==
  ASSUME CtrlInv, CountersOK, NoLBA \notin LBA, NextNandWrite, UNCHANGED <<stats, cacheStats>>
  PROVE  Balanced
<1>1. /\ toNand # <<>> /\ toNand' = Tail(toNand) /\ UNCHANGED lruList
  BY DEF NextNandWrite
<1>2. Len(toNand) \in Nat /\ Len(toNand') = Len(toNand) - 1
  BY <1>1, NextEntry DEF CtrlInv
<1>3. writing = NoWrite /\ writing' # NoWrite
  BY BeginFacts, HostAssumption DEF Write
<1>4. Len(toNand') + (IF writing' # NoWrite THEN 1 ELSE 0) = InTransit + 0
  BY <1>2, <1>3 DEF InTransit
<1>5. /\ stats'.logicalWrites = stats.logicalWrites + 0
      /\ stats'.physicalWrites - stats'.pagesMigrated = ProgramsForHost + 0
      /\ cacheStats'.dirtyEvictions = cacheStats.dirtyEvictions + 0
      /\ Len(DirtyEntries(lruList')) = Len(DirtyEntries(lruList)) + 0
  BY <1>1, CallCounted, LedgerTyped
<1>6. 0 \in Int /\ 0 \in {0, 1} /\ 0 = 0 + 0 + 0 /\ 0 + 0 >= 0
  OBVIOUS
<1> QED
  BY <1>4, <1>5, <1>6, Balance

\* nandWrite programs its entry, or drops it.
LEMMA EndBalance ==
  ASSUME CtrlInv, CountersOK, RecordedProgram \/ (DropWrite /\ UNCHANGED stats),
         UNCHANGED <<lruList, toNand, cacheStats>>
  PROVE  Balanced
<1>1. writing # NoWrite /\ writing' = NoWrite
  BY HostAssumption
  DEF RecordedProgram, Program, DropWrite, Finish, CtrlInv, IInv, ControlOK, Busy,
      GCPhases
<1>2. Len(toNand) \in Nat
  BY LenProperties DEF CtrlInv, DramOK
<1>3. Len(toNand') + (IF writing' # NoWrite THEN 1 ELSE 0) = InTransit + (-1)
  BY <1>1, <1>2 DEF InTransit
<1>4. /\ cacheStats'.dirtyEvictions = cacheStats.dirtyEvictions + 0
      /\ Len(DirtyEntries(lruList')) = Len(DirtyEntries(lruList)) + 0
  BY CallCounted, LedgerTyped
<1>5. 0 \in Int /\ 1 \in Int /\ -1 \in Int /\ 0 \in {0, 1}
  OBVIOUS
<1>6. CASE RecordedProgram
  <2>1. /\ stats'.physicalWrites = stats.physicalWrites + 1
        /\ stats'.pagesMigrated = stats.pagesMigrated
        /\ stats'.logicalWrites = stats.logicalWrites
    BY <1>6, WorkCounted DEF RecordedProgram, CountersOK, Stat
  <2>2. /\ stats.physicalWrites \in Nat /\ stats.pagesMigrated \in Nat
        /\ stats.logicalWrites \in Nat
    BY DEF CountersOK, Stat
  <2>3. /\ stats'.logicalWrites = stats.logicalWrites + 0
        /\ stats'.physicalWrites - stats'.pagesMigrated = ProgramsForHost + 1
    BY <2>1, <2>2 DEF ProgramsForHost
  <2>4. 0 = 1 + (-1) + 0 /\ 1 + (-1) >= 0
    OBVIOUS
  <2> QED
    BY <1>3, <1>4, <1>5, <2>3, <2>4, Balance
<1>7. CASE DropWrite /\ UNCHANGED stats
  <2>1. /\ stats'.logicalWrites = stats.logicalWrites + 0
        /\ stats'.physicalWrites - stats'.pagesMigrated = ProgramsForHost + 0
    BY <1>7, CallCounted
  <2>2. 0 = 0 + (-1) + 0 + 1
    OBVIOUS
  <2> QED
    BY <1>3, <1>4, <1>5, <1>7, <2>1, <2>2, Balance
<1> QED
  BY <1>6, <1>7

\* A flush hands every dirty entry over.
LEMMA FlushBalance ==
  ASSUME CtrlInv, CountersOK, FlushCache, UNCHANGED <<stats, cacheStats>>
  PROVE  Balanced
<1> DEFINE n == Len(DirtyEntries(lruList))
<1>1. /\ Ready /\ UNCHANGED writing /\ lruList' = <<>> /\ toNand' = DirtyEntries(lruList)
  BY DEF FlushCache, vars
<1>2. n \in Nat
  BY LedgerTyped
<1>3. PICK t \in Nat : t = n
  BY <1>2
<1>4. Len(toNand') + (IF writing' # NoWrite THEN 1 ELSE 0) = InTransit + t
  BY <1>1, <1>3, HandedOver
<1>5. Len(DirtyEntries(<<>>)) = 0
  <2>1. /\ <<>> \in Seq(CacheEntry) /\ OneEntryPerLBA(<<>>)
    BY DEF OneEntryPerLBA, Range
  <2>2. Dirty(Range(<<>>)) = {}
    BY DEF Dirty, Range
  <2> QED
    BY <2>1, <2>2, DirtyCounts, FS_EmptySet
<1>6. /\ stats'.logicalWrites = stats.logicalWrites + 0
      /\ stats'.physicalWrites - stats'.pagesMigrated = ProgramsForHost + 0
      /\ cacheStats'.dirtyEvictions = cacheStats.dirtyEvictions + 0
  BY CallCounted
<1>7. Len(DirtyEntries(lruList')) = n + (0 - t)
  BY <1>1, <1>2, <1>3, <1>5
<1>8. /\ 0 \in Int /\ 0 \in {0, 1} /\ t \in Int /\ 0 - t \in Int
      /\ 0 = 0 + t + (0 - t) /\ 0 + t >= 0
  BY <1>3
<1> QED
  BY <1>4, <1>6, <1>7, <1>8, Balance

LEMMA LedgerNext ==
  ASSUME NoLBA \notin LBA, CtrlInv, CountersOK, [StatNext]_statVars
  PROVE  Balanced
<1>1. ASSUME UNCHANGED <<lruList, toNand, writing, cacheStats>>,
             stats'.logicalWrites = stats.logicalWrites,
             stats'.physicalWrites - stats'.pagesMigrated
               = stats.physicalWrites - stats.pagesMigrated
      PROVE  Balanced
  BY <1>1, QuietBalance
<1>2. CASE SilentCall \/ UNCHANGED statVars
  <2>1. CASE FlushCache /\ UNCHANGED <<stats, cacheStats>>
    BY <2>1, FlushBalance
  <2>2. CASE UNCHANGED <<lruList, toNand, writing, stats, cacheStats>>
    BY <1>1, <2>2
  <2> QED
    BY <1>2, <2>1, <2>2 DEF SilentCall, CtrlCollect, HostCollect, CtrlSetInterval,
                            HostSetInterval, statVars, ctrlVars, vars
<1>3. CASE RecordedController
  <2>1. CASE NextNandWrite /\ UNCHANGED <<stats, cacheStats>>
    BY <2>1, NextBalance
  <2>2. CASE UNCHANGED <<lruList, toNand, cacheStats>> /\
             (RecordedProgram \/ (DropWrite /\ UNCHANGED stats))
    BY <2>2, EndBalance
  <2>3. CASE UNCHANGED <<lruList, toNand, cacheStats>> /\ ForceGC /\ UNCHANGED stats
    BY <1>1, <2>3 DEF ForceGC
  <2>4. CASE UNCHANGED <<lruList, toNand, cacheStats>> /\ RecordedCollect
    <3>1. UNCHANGED writing
      BY <2>4 DEF RecordedCollect
    <3>2. CASE RecordedSelect \/ (WLSelect /\ UNCHANGED stats)
      <4>1. stats'.logicalWrites = stats.logicalWrites
            /\ stats'.physicalWrites - stats'.pagesMigrated
                 = stats.physicalWrites - stats.pagesMigrated
        BY <3>2 DEF RecordedSelect, Record, Plus, CountersOK, Stat
      <4> QED
        BY <1>1, <2>4, <3>1, <4>1
    <3>3. CASE RecordedMove \/ RecordedErase \/ RecordedWearErase
      <4>1. CASE UNCHANGED stats
        BY <1>1, <2>4, <3>1, <4>1
      <4>2. CASE Record(Migration)
        <5>1. /\ stats'.physicalWrites = stats.physicalWrites + 1
              /\ stats'.pagesMigrated = stats.pagesMigrated + 1
              /\ stats'.logicalWrites = stats.logicalWrites
          BY <4>2, WorkCounted DEF CountersOK, Stat
        <5>2. stats.physicalWrites \in Nat /\ stats.pagesMigrated \in Nat
          BY DEF CountersOK, Stat
        <5> QED
          BY <1>1, <2>4, <3>1, <5>1, <5>2
      <4>3. CASE RecordedErase \/ RecordedWearErase
        <5>1. /\ stats'.physicalWrites = stats.physicalWrites
              /\ stats'.pagesMigrated = stats.pagesMigrated
              /\ stats'.logicalWrites = stats.logicalWrites
          BY <4>3, WorkCounted DEF CountersOK, Stat
        <5> QED
          BY <1>1, <2>4, <3>1, <5>1
      <4> QED
        BY <3>3, <4>1, <4>2, <4>3 DEF RecordedMove
    <3> QED
      BY <2>4, <3>2, <3>3 DEF RecordedCollect
  <2> QED
    BY <1>3, <2>1, <2>2, <2>3, <2>4 DEF RecordedController
<1> QED
  BY <1>2, <1>3, WriteBalance, ReadBalance DEF StatNext

\* A host write is stored, waiting, absorbed by a later write of its LBA, or
\* dropped by a full drive; and what is evicted goes to NAND unless it is dropped.
THEOREM HostWritesAccountedFor ==
  ASSUME NoLBA \notin LBA
  PROVE  StatSpec => WritesAccountedFor
<1> DEFINE Step ==
             /\ Unstored' # Unstored =>
                  /\ Unstored' = Unstored + 1
                  /\ DropWrite \/ cacheStats'.coalesced = cacheStats.coalesced + 1
             /\ (ProgramsForHost + InTransit)' - ProgramsForHost - InTransit
                    < cacheStats'.dirtyEvictions - cacheStats.dirtyEvictions
                  => DropWrite
<1>1. ASSUME CtrlInv, Accounts, CtrlInv', Accounts', [StatNext]_statVars
      PROVE  Step
  <2>1. CountersOK /\ CountersOK' /\ Balanced
    BY <1>1, LedgerNext DEF Accounts
  <2>2. ASSUME ~ DropWrite
        PROVE  ~ ((ProgramsForHost + InTransit)' - ProgramsForHost - InTransit
                    < cacheStats'.dirtyEvictions - cacheStats.dirtyEvictions)
    <3>1. PICK j \in Int, k \in Int :
            /\ j = (ProgramsForHost + InTransit)' - ProgramsForHost - InTransit
            /\ k = cacheStats'.dirtyEvictions - cacheStats.dirtyEvictions
      <4>1. cacheStats'.dirtyEvictions \in Int /\ cacheStats.dirtyEvictions \in Int
        BY <2>1 DEF CountersOK, CacheStat
      <4>2. ProgramsForHost \in Int /\ InTransit \in Int
        BY <1>1, <2>1, LedgerTyped
      <4>3. (ProgramsForHost + InTransit)' \in Int
        <5>1. /\ stats'.physicalWrites \in Int /\ stats'.pagesMigrated \in Int
              /\ Len(toNand') \in Int
          BY <1>1, <2>1, LenProperties DEF CountersOK, Stat, CtrlInv, DramOK
        <5> QED
          BY <5>1 DEF ProgramsForHost, InTransit
      <4> QED
        BY <4>1, <4>2, <4>3
    <3>2. j >= k
      BY <2>1, <2>2, <3>1 DEF Balanced
    <3>3. ~ (j < k)
      BY <3>2
    <3> QED
      BY <3>1, <3>3
  <2> QED
    BY <2>1, <2>2 DEF Balanced
<1>2. CtrlInv /\ Accounts /\ (CtrlInv /\ Accounts)' /\ [StatNext]_statVars => [Step]_statVars
  BY <1>1
<1> QED
  BY AccountsInvariance, <1>2, PTL DEF StatSpec, WritesAccountedFor

-----------------------------------------------------------------------------
(* How much GC and wear leveling amplify the writes of the host.           *)

\* Each host write invalidates at most one page, and the first one none; each
\* collection uses up one invalid page at least, and is followed by one
\* wear-leveling pass at most, which takes two blocks.
InvalidPaidFor ==
  Cardinality(InvalidAddresses) + gcCyclesRun + (IF stats.physicalWrites > 0 THEN 1 ELSE 0)
    <= ProgramsForHost

VictimReclaimable == pc = "migrate" => InvalidPages(src) # {}

PassesPaidFor ==
  /\ stats.wearLevelPasses + (IF pc \in {"wear", "move"} THEN 1 ELSE 0) <= gcCyclesRun
  /\ stats.wearLevelPasses > 0 => NumBlocks >= 2

AmplificationInv ==
  InvalidPaidFor /\ VictimReclaimable /\ PassesPaidFor /\ Unstored >= 0

\* The loops are entered in one way each.
LEMMA LoopPhases ==
  ASSUME NoLBA \notin LBA, CtrlInv, [StatNext]_statVars
  PROVE  /\ pc' \in {"wear", "move"} => pc \in {"wear", "move"} \/ GCErase
         /\ pc' = "migrate" => \/ pc = "migrate" /\ src' = src
                               \/ GCSelect /\ src' \in Reclaimable
<1> DEFINE Goal == /\ pc' \in {"wear", "move"} => pc \in {"wear", "move"} \/ GCErase
                   /\ pc' = "migrate" => \/ pc = "migrate" /\ src' = src
                                         \/ GCSelect /\ src' \in Reclaimable
<1>1. CASE UNCHANGED vars
  BY <1>1 DEF vars, gcVars
<1>2. ASSUME NEW l, NEW d, BeginNandWrite(l, d)
      PROVE  Goal
  BY <1>2 DEF BeginNandWrite, CallGC
<1>3. CASE HostCollect \/ \E n \in Intervals : HostSetInterval(n)
  BY <1>3 DEF HostCollect, HostSetInterval, CallGC
<1>4. CASE Program \/ ForceGC \/ DropWrite
  BY <1>4 DEF Program, ForceGC, DropWrite, Finish, CallGC
<1>5. CASE GCSelect
  BY <1>5 DEF GCSelect, Return, VictimBlock, FirstMost, FirstLeast, CtrlInv, IInv, GCTypeOK,
              CallerPhases
<1>6. CASE GCMigrate
  BY <1>6 DEF GCMigrate, AbortCycle, Return, CtrlInv, IInv, GCTypeOK, CallerPhases
<1>7. CASE GCErase
  BY <1>7 DEF GCErase, Return, CtrlInv, IInv, GCTypeOK, CallerPhases
<1>8. CASE WLSelect \/ WLMove \/ WLErase
  BY <1>8 DEF WLSelect, WLMove, WLErase, Return, CtrlInv, IInv, GCTypeOK, CallerPhases
<1>9. \/ UNCHANGED vars
      \/ \E l, d : BeginNandWrite(l, d)
      \/ NandStep
  <2>1. \/ CtrlNext /\ UNCHANGED vars
        \/ \E l \in LBA, d \in Data : CtrlWrite(l, d) /\ ~ IsEnabled(CacheSize)
        \/ NextNandWrite
        \/ NandStep /\ UNCHANGED <<lruList, toNand, answer>>
    BY StatWatches, StepKinds
  <2> QED
    BY <2>1, BeginFacts
<1> QED
  BY <1>1, <1>2, <1>3, <1>4, <1>5, <1>6, <1>7, <1>8, <1>9
  DEF NandStep, Controller, Collect, GCStep

LEMMA VictimNext ==
  ASSUME NoLBA \notin LBA, CtrlInv, CountersOK, VictimReclaimable, [StatNext]_statVars
  PROVE  VictimReclaimable'
<1> SUFFICES ASSUME pc' = "migrate" PROVE InvalidPages(src)' # {}
  BY DEF VictimReclaimable
<1>1. \/ pc = "migrate" /\ src' = src
      \/ GCSelect /\ src' \in Reclaimable
  BY LoopPhases
<1>2. CASE NoWork
  <2>1. pageState' = pageState
    BY <1>2 DEF NoWork, flashVars
  <2> QED
    BY <1>1, <2>1 DEF VictimReclaimable, Reclaimable, InvalidPages, PagesIn
<1>3. CASE Copied
  <2>1. pc = "migrate" /\ src' = src /\ src \in Block
    BY <1>1, <1>3 DEF Copied, GCSelect, CtrlInv, IInv, LoopsOK
  <2>2. \A c \in Block : InvalidPages(c)' = InvalidPages(c)
    BY <1>3, CopyCounts DEF CtrlInv
  <2> QED
    BY <2>1, <2>2 DEF VictimReclaimable, InvalidPages, PagesIn
<1>4. CASE RecordedProgram \/ RecordedErase \/ RecordedWearErase
  BY <1>4 DEF RecordedProgram, Program, Finish, RecordedErase, GCErase, RecordedWearErase,
              WLErase, Return, CtrlInv, IInv, GCTypeOK, CallerPhases
<1> QED
  BY <1>2, <1>3, <1>4, StatKinds DEF CountersOK

LEMMA PassesNext ==
  ASSUME NoLBA \notin LBA, CtrlInv, CountersOK, PassesPaidFor, [StatNext]_statVars
  PROVE  PassesPaidFor'
<1>1. /\ stats.wearLevelPasses \in Nat /\ gcCyclesRun \in Nat
      /\ pc' \in {"wear", "move"} => pc \in {"wear", "move"} \/ GCErase
  BY LoopPhases DEF CountersOK, Stat, CtrlInv, IInv, GCTypeOK
<1>2. CASE gcCyclesRun' = gcCyclesRun /\ stats'.wearLevelPasses = stats.wearLevelPasses
  <2>1. ~ GCErase
    BY <1>1, <1>2 DEF GCErase
  <2> QED
    BY <1>1, <1>2, <2>1 DEF PassesPaidFor
<1>3. CASE RecordedErase
  <2>1. pc = "migrate" /\ gcCyclesRun' = gcCyclesRun + 1
    BY <1>3 DEF RecordedErase, GCErase
  <2>2. stats'.wearLevelPasses = stats.wearLevelPasses
    BY <1>3, WorkCounted DEF CountersOK, Stat
  <2> QED
    BY <1>1, <2>1, <2>2 DEF PassesPaidFor
<1>4. CASE RecordedWearErase
  <2>1. /\ pc = "move" /\ pc' \in CallerPhases /\ gcCyclesRun' = gcCyclesRun
        /\ src \in Block /\ dst \in Block /\ src # dst
    BY <1>4 DEF RecordedWearErase, WLErase, Return, CtrlInv, IInv, LoopsOK, GCTypeOK
  <2>2. stats'.wearLevelPasses = stats.wearLevelPasses + 1
    BY <1>4, WorkCounted DEF CountersOK
  <2>3. NumBlocks >= 2
    BY <2>1, GeometryAssumption DEF Block
  <2> QED
    BY <1>1, <2>1, <2>2, <2>3 DEF PassesPaidFor, CallerPhases
<1>5. CASE NoWork
  BY <1>2, <1>5 DEF NoWork, NandWork
<1>6. CASE RecordedProgram \/ Copied
  BY <1>2, <1>6, WorkCounted DEF RecordedProgram, Program, Copied, CountersOK, Stat
<1> QED
  BY <1>3, <1>4, <1>5, <1>6, StatKinds DEF CountersOK

LEMMA InvalidNext ==
  ASSUME NoLBA \notin LBA, CtrlInv, CountersOK, ProgramsMatchArray,
         InvalidPaidFor, VictimReclaimable, [StatNext]_statVars
  PROVE  InvalidPaidFor'
<1> DEFINE phys == stats.physicalWrites
           moved == stats.pagesMigrated
           phys2 == stats'.physicalWrites
           moved2 == stats'.pagesMigrated
           started(n) == IF n > 0 THEN 1 ELSE 0
<1>1. PICK k \in Nat, m \in Nat : k = Cardinality(InvalidAddresses) /\ m = Cardinality(InvalidAddresses')
  <2>1. InvalidAddresses' \in SUBSET Address
    BY DEF InvalidAddresses
  <2> QED
    BY <2>1, PageCountsTyped, PageCounting
<1>2. phys \in Nat /\ moved \in Nat /\ gcCyclesRun \in Nat /\ UsedPages \in Nat
  BY PageCountsTyped DEF CountersOK, Stat, CtrlInv, IInv, GCTypeOK
<1>3. k + gcCyclesRun + started(phys) <= phys - moved /\ UsedPages <= phys
  BY <1>1 DEF InvalidPaidFor, ProgramsForHost, ProgramsMatchArray
<1> SUFFICES m + gcCyclesRun' + started(phys2) <= phys2 - moved2
  BY <1>1 DEF InvalidPaidFor, ProgramsForHost
<1>4. CASE NoWork
  <2>1. InvalidAddresses' = InvalidAddresses
    BY <1>4 DEF NoWork, flashVars, InvalidAddresses
  <2> QED
    BY <1>1, <1>3, <1>4, <2>1 DEF NoWork, NandWork
<1>5. CASE RecordedProgram
  <2>1. phys2 = phys + 1 /\ moved2 = moved /\ gcCyclesRun' = gcCyclesRun
    BY <1>5, WorkCounted DEF RecordedProgram, Program, CountersOK, Stat
  <2>2. m <= k + 1 /\ (UsedPages = 0 => m <= k)
    BY <1>1, <1>5, ProgramCounts DEF RecordedProgram, CtrlInv
  <2> HIDE DEF phys, moved, phys2, moved2
  <2> QED
    BY <1>1, <1>2, <1>3, <2>1, <2>2
<1>6. CASE Copied
  <2>1. phys2 = phys + 1 /\ moved2 = moved + 1 /\ gcCyclesRun' = gcCyclesRun
    BY <1>6, WorkCounted DEF Copied, CountersOK, Stat
  <2>2. m = k /\ UsedPages >= 1
    BY <1>1, <1>6, CopyCounts DEF CtrlInv
  <2> HIDE DEF phys, moved, phys2, moved2
  <2> QED
    BY <1>1, <1>2, <1>3, <2>1, <2>2
<1>7. CASE RecordedErase
  <2>1. gcCyclesRun' = gcCyclesRun + 1 /\ pc = "migrate"
    BY <1>7 DEF RecordedErase, GCErase
  <2>2. phys2 = phys /\ moved2 = moved
    BY <1>7, WorkCounted DEF CountersOK, Stat
  <2>3. m + 1 <= k
    BY <1>1, <1>7, <2>1, SourceErased, EraseCounts DEF RecordedErase, VictimReclaimable, CtrlInv
  <2> HIDE DEF phys, moved, phys2, moved2
  <2> QED
    BY <1>1, <1>2, <1>3, <2>1, <2>2, <2>3
<1>8. CASE RecordedWearErase
  <2>1. gcCyclesRun' = gcCyclesRun
    BY <1>8 DEF RecordedWearErase, WLErase
  <2>2. phys2 = phys /\ moved2 = moved
    BY <1>8, WorkCounted DEF CountersOK, Stat
  <2>3. m <= k
    BY <1>1, <1>8, SourceErased, EraseCounts DEF RecordedWearErase, CtrlInv
  <2> HIDE DEF phys, moved, phys2, moved2
  <2> QED
    BY <1>1, <1>2, <1>3, <2>1, <2>2, <2>3
<1> QED
  BY <1>4, <1>5, <1>6, <1>7, <1>8, StatKinds DEF CountersOK

LEMMA AmplificationInit == StatInit => AmplificationInv
<1> SUFFICES ASSUME StatInit PROVE AmplificationInv
  OBVIOUS
<1>1. CtrlInv /\ gcCyclesRun = 0 /\ pc = "idle" /\ writing = NoWrite
  BY CtrlInvInit DEF StatInit, CtrlInit, Init, GCInit
<1>2. \A s \in Stat : stats[s] = 0
  BY DEF StatInit
<1>3. Cardinality(InvalidAddresses) = 0
  <2>1. InvalidAddresses = {}
    BY DEF InvalidAddresses, StatInit, CtrlInit, Init, FlashInit
  <2> QED
    BY <2>1, FS_EmptySet
<1>4. Len(DirtyEntries(lruList)) = 0 /\ Len(toNand) = 0
  <2>1. lruList = <<>> /\ toNand = <<>>
    BY DEF StatInit, CtrlInit
  <2>2. Dirty(Range(lruList)) = {}
    BY <2>1 DEF Dirty, Range
  <2> QED
    BY <1>1, <2>1, <2>2, DirtyCounts, FS_EmptySet DEF CtrlInv, DramOK, OneVersion
<1>5. /\ stats.physicalWrites = 0 /\ stats.pagesMigrated = 0
      /\ stats.logicalWrites = 0 /\ stats.wearLevelPasses = 0
  BY <1>2 DEF Stat
<1>6. InvalidPaidFor
  BY <1>1, <1>3, <1>5 DEF InvalidPaidFor, ProgramsForHost
<1>7. VictimReclaimable /\ PassesPaidFor
  BY <1>1, <1>5 DEF VictimReclaimable, PassesPaidFor
<1>8. Unstored >= 0
  BY <1>1, <1>4, <1>5 DEF Unstored, ProgramsForHost, Pending, InTransit
<1> QED
  BY <1>6, <1>7, <1>8 DEF AmplificationInv

LEMMA AmplificationInvariance ==
  ASSUME NoLBA \notin LBA
  PROVE  StatSpec => [](CtrlInv /\ Accounts /\ AmplificationInv)
<1>1. ASSUME CtrlInv, Accounts, AmplificationInv, [StatNext]_statVars
      PROVE  AmplificationInv'
  <2>1. CountersOK /\ ProgramsMatchArray
    BY <1>1 DEF Accounts
  <2>2. InvalidPaidFor' /\ VictimReclaimable' /\ PassesPaidFor'
    BY <1>1, <2>1, InvalidNext, VictimNext, PassesNext DEF AmplificationInv
  <2>3. Unstored' >= 0
    <3>1. Unstored \in Int /\ Unstored >= 0
      BY <1>1, <2>1, LedgerTyped DEF AmplificationInv
    <3>2. PICK u : u = Unstored'
      OBVIOUS
    <3>3. u = Unstored \/ u = Unstored + 1
      BY <1>1, <2>1, <3>2, LedgerNext DEF Balanced
    <3>4. u >= 0
      BY <3>1, <3>3
    <3> QED
      BY <3>2, <3>4
  <2> QED
    BY <2>2, <2>3 DEF AmplificationInv
<1> QED
  BY AccountsInvariance, AmplificationInit, <1>1, PTL DEF StatSpec

LEMMA Multiples ==
  ASSUME NEW a \in Nat, NEW b \in Nat, NEW c \in Nat, b <= c
  PROVE  a * b <= a * c
<1>1. PICK d \in Nat : c = b + d
  <2>1. c - b \in Nat /\ c = b + (c - b)
    OBVIOUS
  <2> QED
    BY <2>1
<1>2. a * (b + d) = a * b + a * d /\ a * d \in Nat /\ a * b \in Nat
  OBVIOUS
<1> QED
  BY <1>1, <1>2

\* However much GC and wear leveling copy, no drive programs more pages for one
\* host write than it has.
LEMMA AmplificationBound ==
  ASSUME CtrlInv, Accounts, AmplificationInv
  PROVE  /\ stats.physicalWrites <= Cardinality(Address) * stats.logicalWrites
         /\ stats.physicalWrites \in Nat /\ stats.logicalWrites \in Nat
<1> DEFINE phys == stats.physicalWrites
           host == ProgramsForHost
           logical == stats.logicalWrites
           passes == stats.wearLevelPasses
           size == NumBlocks * PagesPerBlock
<1>1. /\ phys \in Nat /\ logical \in Nat /\ passes \in Nat /\ host \in Int
      /\ TotalErases \in Nat /\ gcCyclesRun \in Nat
      /\ NumBlocks \in Nat /\ PagesPerBlock \in Nat
      /\ UsedPages \in Nat /\ UsedPages <= size /\ size \in Nat
  <2>1. CountersOK /\ Cardinality(Address) = size /\ size \in Nat
    BY PageCounting, GeometryAssumption DEF Accounts
  <2> QED
    BY <2>1, EraseCounted, PageCountsTyped, GeometryAssumption, LedgerTyped
    DEF CountersOK, Stat, CtrlInv, IInv, GCTypeOK
<1>2. host <= logical
  <2>1. CountersOK
    BY DEF Accounts
  <2> QED
    BY <2>1, LedgerTyped DEF AmplificationInv, Unstored, Pending
<1>3. TotalErases = gcCyclesRun + passes /\ phys <= UsedPages + PagesPerBlock * TotalErases
  BY DEF Accounts, NandTimeAccounted, ProgramsMatchArray
<1>4. /\ gcCyclesRun + (IF phys > 0 THEN 1 ELSE 0) <= host
      /\ passes <= gcCyclesRun /\ (passes > 0 => NumBlocks >= 2)
  <2>1. Cardinality(InvalidAddresses) \in Nat
    BY PageCountsTyped
  <2>2. Cardinality(InvalidAddresses) + gcCyclesRun + (IF phys > 0 THEN 1 ELSE 0) <= host
    BY DEF AmplificationInv, InvalidPaidFor
  <2>3. passes + (IF pc \in {"wear", "move"} THEN 1 ELSE 0) <= gcCyclesRun
        /\ (passes > 0 => NumBlocks >= 2)
    BY DEF AmplificationInv, PassesPaidFor
  <2> HIDE DEF phys, host, passes
  <2> QED
    BY <1>1, <2>1, <2>2, <2>3
<1> HIDE DEF phys, host, passes, logical, size
<1>5. ASSUME phys = 0
      PROVE  phys <= size * logical
  BY <1>1, <1>5
<1>6. ASSUME phys > 0
      PROVE  NumBlocks >= 1
  <2>1. ASSUME NumBlocks = 0
        PROVE  FALSE
    <3>1. eraseCount \in [Block -> Nat] /\ \A b \in Block : eraseCount[b] = 0
      BY <2>1 DEF Block, CtrlInv, IInv, DataOK, FlashTypeOK
    <3>2. TotalErases = 0
      BY <3>1, SumFacts DEF TotalErases
    <3>3. size = 0 /\ PagesPerBlock * TotalErases = 0
      BY <1>1, <2>1, <3>2 DEF size
    <3> QED
      BY <1>1, <1>3, <1>6, <3>3
  <2> QED
    BY <1>1, <2>1
<1>7. ASSUME phys > 0
      PROVE  phys <= size * logical
  <2>1. host \in Nat /\ host - 1 \in Nat /\ gcCyclesRun <= host - 1 /\ NumBlocks >= 1
    BY <1>1, <1>4, <1>6, <1>7
  <2>2. PagesPerBlock * TotalErases <= size * (host - 1)
    <3>1. CASE NumBlocks = 1
      <4>1. TotalErases <= host - 1 /\ size = PagesPerBlock
        BY <1>1, <1>3, <1>4, <2>1, <3>1 DEF size
      <4> QED
        BY <1>1, <2>1, <4>1, Multiples
    <3>2. CASE NumBlocks >= 2
      <4>1. TotalErases <= 2 * (host - 1)
        BY <1>1, <1>3, <1>4, <2>1
      <4>2. PagesPerBlock * TotalErases <= PagesPerBlock * (2 * (host - 1))
        BY <1>1, <2>1, <4>1, Multiples
      <4>3. PagesPerBlock * 2 <= PagesPerBlock * NumBlocks
        BY <1>1, <3>2, Multiples
      <4>4. PagesPerBlock * NumBlocks = size /\ PagesPerBlock * 2 \in Nat
        BY <1>1 DEF size
      <4>5. (host - 1) * (PagesPerBlock * 2) <= (host - 1) * size
        BY <1>1, <2>1, <4>3, <4>4, Multiples
      <4>6. /\ (host - 1) * (PagesPerBlock * 2) = PagesPerBlock * (2 * (host - 1))
            /\ (host - 1) * size = size * (host - 1)
        BY <1>1, <2>1
      <4> QED
        BY <1>1, <4>2, <4>5, <4>6
    <3> QED
      BY <1>1, <2>1, <3>1, <3>2
  <2>3. size + size * (host - 1) = size * host
    BY <1>1, <2>1
  <2>4. /\ size * host \in Nat /\ size * logical \in Nat /\ size * (host - 1) \in Nat
        /\ PagesPerBlock * TotalErases \in Nat
    BY <1>1, <2>1
  <2>5. size * host <= size * logical
    BY <1>1, <1>2, <2>1, Multiples
  <2> QED
    BY <1>1, <1>3, <2>2, <2>3, <2>4, <2>5
<1>8. Cardinality(Address) = size
  BY PageCounting DEF size
<1> QED
  BY <1>1, <1>5, <1>7, <1>8 DEF phys, logical

\* The report's write amplification factor never exceeds the number of pages of
\* the drive, whatever the host collects by hand and whatever is migrated.
THEOREM WriteAmplificationBounded ==
  ASSUME NoLBA \notin LBA
  PROVE  StatSpec => [](stats.physicalWrites <= Cardinality(Address) * stats.logicalWrites)
BY AmplificationInvariance, AmplificationBound, PTL

-----------------------------------------------------------------------------
(* The report of the wear. *)

LEMMA MaxFacts ==
  ASSUME NEW f \in [Block -> Nat], Block # {}
  PROVE  LET m == Max({f[b] : b \in Block})
         IN  (\E b \in Block : m = f[b]) /\ \A b \in Block : f[b] <= m
<1> DEFINE T == {n \in Nat : n < NumBlocks =>
                   \E b \in 0 .. n : \A c \in 0 .. n : f[c] <= f[b]}
<1>1. 0 \in T
  <2>1. \A c \in 0 .. 0 : c = 0
    OBVIOUS
  <2>2. ASSUME 0 < NumBlocks
        PROVE  f[0] \in Nat
    <3>1. 0 \in Block
      BY <2>2, GeometryAssumption DEF Block
    <3> QED
      BY <3>1
  <2>3. 0 \in 0 .. 0 /\ \A n \in Nat : n <= n
    OBVIOUS
  <2> QED
    BY <2>1, <2>2, <2>3
<1>2. ASSUME NEW n \in T
      PROVE  n + 1 \in T
  <2>1. SUFFICES ASSUME n + 1 < NumBlocks
                 PROVE  \E b \in 0 .. n + 1 : \A c \in 0 .. n + 1 : f[c] <= f[b]
    OBVIOUS
  <2>2. PICK b \in 0 .. n : \A c \in 0 .. n : f[c] <= f[b]
    BY <2>1, GeometryAssumption
  <2>3. /\ \A c \in 0 .. n + 1 : f[c] \in Nat /\ (c = n + 1 \/ c \in 0 .. n)
        /\ b \in 0 .. n + 1 /\ n + 1 \in 0 .. n + 1
    BY <2>1, GeometryAssumption DEF Block
  <2>4. CASE f[n + 1] <= f[b]
    BY <2>2, <2>3, <2>4
  <2>5. CASE f[b] <= f[n + 1]
    <3>1. \A c \in 0 .. n + 1 : f[c] <= f[n + 1]
      BY <2>2, <2>3, <2>5
    <3> QED
      BY <2>3, <3>1
  <2> QED
    BY <2>3, <2>4, <2>5
<1>3. T = Nat
  <2> HIDE DEF T
  <2> QED
    BY <1>1, <1>2, SetInduction DEF T
<1>4. PICK b \in Block : \A c \in Block : f[c] <= f[b]
  <2>1. NumBlocks - 1 \in Nat /\ NumBlocks - 1 < NumBlocks
    BY GeometryAssumption DEF Block
  <2>2. NumBlocks - 1 \in T
    BY <1>3, <2>1
  <2> QED
    BY <2>1, <2>2 DEF Block
<1> DEFINE S == {f[c] : c \in Block}
<1>5. f[b] \in S /\ \A y \in S : f[b] >= y
  BY <1>4
<1>6. PICK m : m = Max(S)
  OBVIOUS
<1>7. m \in S /\ \A y \in S : m >= y
  <2> HIDE DEF S
  <2> QED
    BY <1>5, <1>6 DEF Max
<1>8. (\E c \in Block : m = f[c]) /\ \A c \in Block : f[c] \in Int /\ m >= f[c]
  BY <1>7
<1>9. m \in Int
  BY <1>8
<1>10. \A c \in Block : f[c] <= m
  BY <1>8, <1>9
<1> QED
  BY <1>6, <1>8, <1>10

\* A bar is full when the block has endured its limit.
LEMMA FullBar ==
  ASSUME NEW b \in Block, eraseCount[b] \in Nat, PE_LIMIT > 0
  PROVE  BarLength(b) = BAR_WIDTH <=> WornOut(b)
<1> DEFINE e == eraseCount[b]
           bar == (e * 40) \div PE_LIMIT
<1>1. PE_LIMIT \in Nat \ {0} /\ e * 40 \in Nat
  BY GeometryAssumption
<1>2. bar \in Int /\ PE_LIMIT * bar <= e * 40 /\ e * 40 < PE_LIMIT * bar + PE_LIMIT
  BY <1>1
<1> HIDE DEF bar, e
<1>3. bar >= 40 <=> e >= PE_LIMIT
  <2>1. e \in Nat
    BY DEF e
  <2>2. ASSUME e >= PE_LIMIT, bar < 40
        PROVE  FALSE
    <3>1. PE_LIMIT * (bar + 1) <= PE_LIMIT * 40
      BY <1>1, <1>2, <2>2
    <3>2. PE_LIMIT * (bar + 1) = PE_LIMIT * bar + PE_LIMIT /\ PE_LIMIT * bar \in Int
      BY <1>1, <1>2
    <3> QED
      BY <1>1, <1>2, <2>1, <2>2, <3>1, <3>2
  <2>3. ASSUME bar >= 40, e < PE_LIMIT
        PROVE  FALSE
    <3>1. PE_LIMIT * 40 <= PE_LIMIT * bar /\ PE_LIMIT * bar \in Int
      BY <1>1, <1>2, <2>3
    <3> QED
      BY <1>1, <1>2, <2>1, <2>3, <3>1
  <2> QED
    BY <1>1, <1>2, <2>1, <2>2, <2>3
<1>4. Min({40, bar}) = IF bar <= 40 THEN bar ELSE 40
  <2> DEFINE least == IF bar <= 40 THEN bar ELSE 40
  <2>1. /\ least \in {40, bar} /\ \A y \in {40, bar} : least <= y
        /\ \A x \in {40, bar} : (\A y \in {40, bar} : x <= y) => x = least
    BY <1>2
  <2> HIDE DEF least
  <2>2. Min({40, bar}) \in {40, bar} /\ \A y \in {40, bar} : Min({40, bar}) <= y
    BY <2>1 DEF Min
  <2>3. Min({40, bar}) = least
    BY <2>1, <2>2
  <2> QED
    BY <2>3 DEF least
<1>5. BarLength(b) = Min({40, bar})
  BY <1>1, GeometryAssumption DEF BarLength, BAR_WIDTH, bar, e
<1> QED
  BY <1>2, <1>3, <1>4, <1>5 DEF BAR_WIDTH, WornOut, e

\* As long as the most worn block has an erase left, the estimate is one write
\* or more.
LEMMA SomeWritesLeft ==
  ASSUME NEW left \in Nat, left >= 1, NEW size \in Nat, NEW logical \in Nat,
         NEW phys \in Nat, phys > 0, phys <= size * logical
  PROVE  (left * size * logical) \div phys # 0
<1>1. left * size * logical = left * (size * logical) /\ size * logical \in Nat
  OBVIOUS
<1>2. (size * logical) * 1 <= (size * logical) * left
  BY <1>1, Multiples
<1> DEFINE total == left * size * logical
<1>3. total \in Nat /\ phys <= total
  BY <1>1, <1>2
<1> HIDE DEF total
<1>4. total < phys * (total \div phys) + phys /\ total \div phys \in Int
  BY <1>3
<1>5. ASSUME total \div phys = 0
      PROVE  FALSE
  BY <1>3, <1>4, <1>5
<1> QED
  BY <1>5 DEF total

\* The report says "WORN OUT" just when a block is marked WORN, however much GC
\* and wear leveling amplify the writes, and the full bars are those blocks'.
THEOREM WornOutReported ==
  ASSUME NoLBA \notin LBA
  PROVE  StatSpec => []WornOutReport
<1>1. ASSUME CtrlInv, Accounts, AmplificationInv
      PROVE  WornOutReport
  <2>1. eraseCount \in [Block -> Nat] /\ PE_LIMIT \in Int
    BY <1>1, GeometryAssumption DEF CtrlInv, IInv, DataOK, FlashTypeOK
  <2>2. ASSUME stats.logicalWrites > 0, stats.physicalWrites > 0
        PROVE  RemainingWrites = 0 <=> WornOutBlocks # {}
    <3> DEFINE size == Cardinality(Address)
               phys == stats.physicalWrites
               logical == stats.logicalWrites
               peak == MaxErases
    <3>1. /\ phys <= size * logical /\ phys \in Nat /\ logical \in Nat /\ size \in Nat
      BY <1>1, AmplificationBound, PageCountsTyped
    <3>2. Block # {}
      <4>1. ASSUME Block = {}
            PROVE  FALSE
        <5>1. Address = {}
          BY <4>1 DEF Address
        <5>2. size = 0
          BY <5>1, FS_EmptySet
        <5> QED
          BY <2>2, <3>1, <5>2
      <4> QED
        BY <4>1
    <3>3. (\E b \in Block : peak = eraseCount[b]) /\ \A b \in Block : eraseCount[b] <= peak
      BY <2>1, <3>2, MaxFacts DEF MaxErases
    <3> HIDE DEF peak
    <3>4. peak \in Nat
      BY <2>1, <3>3
    <3>5. WornOutBlocks # {} <=> PE_LIMIT <= peak
      <4>1. PE_LIMIT <= peak => WornOutBlocks # {}
        BY <2>1, <3>3, <3>4 DEF WornOutBlocks, WornOut
      <4>2. ASSUME NEW b \in WornOutBlocks
            PROVE  PE_LIMIT <= peak
        <5>1. b \in Block /\ eraseCount[b] \in Nat /\ eraseCount[b] >= PE_LIMIT
          BY <2>1 DEF WornOutBlocks, WornOut
        <5> QED
          BY <2>1, <3>3, <3>4, <5>1
      <4> QED
        BY <4>1, <4>2
    <3>6. CASE PE_LIMIT <= peak
      BY <3>5, <3>6 DEF RemainingWrites, peak
    <3>7. CASE ~ (PE_LIMIT <= peak)
      <4>1. PICK left \in Nat : left = PE_LIMIT - peak /\ left >= 1
        BY <2>1, <3>4, <3>7
      <4>2. RemainingWrites = (left * size * logical) \div phys
        BY <3>7, <4>1 DEF RemainingWrites, peak
      <4>3. (left * size * logical) \div phys # 0
        <5> HIDE DEF size, logical, phys
        <5>1. phys > 0
          BY <2>2 DEF phys
        <5> QED
          BY <3>1, <4>1, <5>1, SomeWritesLeft
      <4> QED
        BY <3>5, <3>7, <4>2, <4>3
    <3> QED
      BY <3>6, <3>7
  <2>3. ASSUME PE_LIMIT > 0
        PROVE  WornOutBlocks = {b \in Block : BarLength(b) = BAR_WIDTH}
    BY <2>1, <2>3, FullBar DEF WornOutBlocks
  <2> QED
    BY <2>2, <2>3 DEF WornOutReport
<1> QED
  BY AmplificationInvariance, <1>1, PTL

=============================================================================

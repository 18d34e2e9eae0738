-------------------------- MODULE VisualizerProofs --------------------------
(***************************************************************************)
(* Proofs about VisualizerDrive: on a drive with a spare block the browser *)
(* only ever takes steps of the C++ controller.  A page without data is a  *)
(* JavaScript null, which no write stores: Blank \notin Data.              *)
(***************************************************************************)
EXTENDS VisualizerDrive, StatisticsProofs

FtlRevTypeOK == ftlRev \in [Address -> LBA \cup {NoLBA}]

\* CtrlInv and CapacityInv are those of the C++ controller.
VisInv == CtrlInv /\ CapacityInv /\ FtlRevTypeOK /\ TablesInverse

-----------------------------------------------------------------------------
(* The two tables. *)

\* What the second table says of a page is what the search of the C++ finds.
LEMMA SameOwner ==
  ASSUME NoLBA \notin LBA, IInv, FtlRevTypeOK, TablesInverse, NEW from \in Address
  PROVE  /\ ftlRev[from] \in FindLogicalAddress(from)
         /\ VisSkips(from) <=> Skips(from, ftlRev[from])
         /\ ~ VisSkips(from) => ftlRev[from] \in LBA /\ mappingTable[ftlRev[from]] = from
<1>1. ftlRev[from] \in LBA \cup {NoLBA}
  BY DEF FtlRevTypeOK
<1>2. CASE ftlRev[from] \in LBA
  BY <1>2 DEF TablesInverse, FindLogicalAddress, VisSkips, Skips
<1>3. CASE ftlRev[from] = NoLBA
  <2>1. \A l \in LBA : mappingTable[l] # from
    BY <1>3 DEF TablesInverse
  <2> QED
    BY <1>3, <2>1 DEF FindLogicalAddress, VisSkips, Skips
<1> QED
  BY <1>1, <1>2, <1>3

\* ftlSet keeps the tables inverse when it maps an LBA to a free page.
LEMMA FtlSetInverse ==
  ASSUME NoLBA \notin LBA, IInv, FtlRevTypeOK, TablesInverse,
         NEW l \in LBA, NEW a \in FreeAddresses, FtlSet(l, a)
  PROVE  FtlRevTypeOK' /\ TablesInverse'
<1>1. /\ a \in Address /\ pageState[a] = "free"
      /\ mappingTable \in [LBA -> Address \cup {Unmapped}]
      /\ MappingIntegrity
  BY DEF FreeAddresses, IInv, DataOK, MappingTypeOK
<1>2. \A k \in LBA : mappingTable'[k] = IF k = l THEN a ELSE mappingTable[k]
  BY <1>1 DEF FtlSet, Remapped
<1>3. \A b \in Address : ftlRev'[b] = IF b = a THEN l
                                    ELSE IF mappingTable[l] = b THEN NoLBA ELSE ftlRev[b]
  BY DEF FtlSet
<1>4. \A k \in LBA : mappingTable[k] # a
  BY <1>1, UnmappedAssumption DEF MappingIntegrity, HasMapping
<1>5. FtlRevTypeOK'
  BY <1>1 DEF FtlSet, FtlRevTypeOK
<1>6. ASSUME NEW b \in Address, NEW k \in LBA
      PROVE  ftlRev'[b] = k <=> mappingTable'[k] = b
  <2>1. CASE b = a
    BY <1>2, <1>3, <1>4, <2>1
  <2>2. CASE b # a /\ mappingTable[l] = b
    <3>1. mappingTable[k] = b => k = l
      BY <1>1, <2>2, UnmappedAssumption DEF MappingIntegrity, HasMapping
    <3> QED
      BY <1>2, <1>3, <2>2, <3>1
  <2>3. CASE b # a /\ mappingTable[l] # b
    BY <1>2, <1>3, <2>3 DEF TablesInverse
  <2> QED
    BY <2>1, <2>2, <2>3
<1> QED
  BY <1>5, <1>6 DEF TablesInverse

-----------------------------------------------------------------------------
(* Calls of the host. *)

\* Only data is cached, so that null is no hit.
LEMMA CachedIsHit ==
  ASSUME CtrlInv, Blank \notin Data, NEW l, Cached(lruList, l), IsEnabled(CacheSize)
  PROVE  VisHit(l)
<1>1. CachedEntry(lruList, l) \in CacheEntry
  <2>1. CachedEntry(lruList, l) \in Range(lruList)
    BY CachedFacts DEF CtrlInv, DramOK, OneVersion
  <2> QED
    BY <2>1, EntriesTyped DEF CtrlInv
<1> QED
  BY <1>1 DEF VisHit, CacheEntry

LEMMA HostMirrors ==
  ASSUME CtrlInv, Blank \notin Data, VisHost
  PROVE  StatNext /\ UNCHANGED <<mappingTable, ftlRev>> 
<1>1. ASSUME NEW l \in LBA, NEW d \in Data, VisWrite(l, d)
      PROVE  StatNext /\ UNCHANGED <<mappingTable, ftlRev>>
  BY <1>1 DEF VisWrite, RecordedWrite, CtrlWrite, BeginNandWrite, vars, StatNext
<1>2. ASSUME NEW l \in LBA, VisReadHit(l) \/ VisReadUnmapped(l)
      PROVE  StatNext /\ UNCHANGED <<mappingTable, ftlRev>>
  BY <1>2 DEF VisReadHit, VisReadUnmapped, RecordedRead, RecordedHit, ReadHit,
              RecordedUnmapped, ReadUnmapped, vars, StatNext
<1>3. ASSUME NEW l \in LBA, VisReadMiss(l)
      PROVE  StatNext /\ UNCHANGED <<mappingTable, ftlRev>>
  <2>1. ~ (IsEnabled(CacheSize) /\ Cached(lruList, l))
    BY <1>3, CachedIsHit DEF VisReadMiss
  <2>2. RecordedMiss(l)
    BY <1>3, <2>1 DEF VisReadMiss, RecordedMiss, ReadMiss
  <2> QED
    BY <1>3, <2>2 DEF VisReadMiss, RecordedRead, vars, StatNext
<1>4. CASE VisFlushCache
  BY <1>4 DEF VisFlushCache, FlushCache, SilentCall, vars, StatNext
<1> QED
  BY <1>1, <1>2, <1>3, <1>4 DEF VisHost

-----------------------------------------------------------------------------
(* nandWrite, collection and wear leveling. *)

LEMMA ProgramMirrors ==
  ASSUME NoLBA \notin LBA, IInv, FtlRevTypeOK, TablesInverse, VisProgram
  PROVE  RecordedProgram /\ FtlRevTypeOK' /\ TablesInverse'
<1> DEFINE l == writing.lba
           old == mappingTable[l]
<1>1. PICK b \in Block, p \in PageIndex :
        /\ LeastUsedFreeBlock(b) /\ FirstFreePage(b, p)
        /\ pageState' = IF HasMapping(l)
                        THEN [Programmed(pageState, <<b, p>>) EXCEPT ![old] = "invalid"]
                        ELSE Programmed(pageState, <<b, p>>)
        /\ pageData' = [pageData EXCEPT ![<<b, p>>] = writing.data]
        /\ FtlSet(l, <<b, p>>)
  BY DEF VisProgram
<1>2. l \in LBA
  BY DEF VisProgram, IInv, ControlOK, Busy, GCPhases, Write
<1>3. <<b, p>> \in FreeAddresses
  BY FirstFreeFacts, <1>1 DEF IInv, FreeAddresses, Address
<1>4. HasMapping(l) =>
        [Programmed(pageState, <<b, p>>) EXCEPT ![old] = "invalid"]
          = Invalidated(Programmed(pageState, <<b, p>>), old)
  <2> SUFFICES ASSUME HasMapping(l)
               PROVE  [Programmed(pageState, <<b, p>>) EXCEPT ![old] = "invalid"]
                        = Invalidated(Programmed(pageState, <<b, p>>), old)
    OBVIOUS
  <2>1. /\ old \in Address /\ pageState[old] = "valid"
        /\ pageState \in [Address -> {"free", "valid", "invalid"}]
    BY <1>2 DEF IInv, DataOK, FlashTypeOK, MappingTypeOK, MappingIntegrity, HasMapping
  <2>2. Programmed(pageState, <<b, p>>)[old] = "valid"
    BY <2>1 DEF Programmed
  <2> QED
    BY <2>2 DEF Invalidated
<1>5. mappingTable' = Remapped(l, <<b, p>>)
  BY <1>1 DEF FtlSet
<1>6. Program
  BY <1>1, <1>4, <1>5 DEF VisProgram, Program
<1>7. RecordedProgram
  BY <1>6 DEF VisProgram, RecordedProgram
<1> QED
  BY <1>1, <1>2, <1>3, <1>7, FtlSetInverse

\* A page copied by one of the callbacks.
LEMMA CopyMirrors ==
  ASSUME NoLBA \notin LBA, IInv, FtlRevTypeOK, TablesInverse,
         NEW from \in Address, NEW to \in FreeAddresses,
         ~ VisSkips(from), VisCopyPage(from, to)
  PROVE  /\ CopyPage(ftlRev[from], from, to)
         /\ mappingTable' # mappingTable
         /\ FtlRevTypeOK' /\ TablesInverse'
<1>1. ftlRev[from] \in LBA /\ mappingTable[ftlRev[from]] = from
  BY SameOwner
<1>2. CopyPage(ftlRev[from], from, to) /\ FtlSet(ftlRev[from], to)
  BY DEF VisCopyPage, CopyPage, FtlSet
<1>3. pageState[from] = "valid" /\ pageState[to] = "free"
  BY DEF VisSkips, FreeAddresses
<1>4. mappingTable'[ftlRev[from]] = to
  BY <1>1, <1>2 DEF FtlSet, Remapped, IInv, DataOK, MappingTypeOK
<1> QED
  BY <1>1, <1>2, <1>3, <1>4, FtlSetInverse

\* With a spare block there is a slot for every page that has to move.
LEMMA SlotLeft ==
  ASSUME NoLBA \notin LBA, IInv, CapacityInv, FtlRevTypeOK, TablesInverse,
         pc = "migrate", cursor < PagesPerBlock, ~ VisSkips(<<src, cursor>>)
  PROVE  ~ NoFreeSlot(src)
<1>1. /\ src \in Block /\ cursor \in Int /\ cursor >= cursor
      /\ <<src, cursor>> \in Address
  BY GeometryAssumption DEF IInv, LoopsOK, GCTypeOK, Address, PageIndex
<1>2. <<src, cursor>> \in ToMove
  BY <1>1 DEF VisSkips, ToMove, PagesOf
<1>3. /\ IsFiniteSet(ToMove) /\ Cardinality(ToMove) \in Nat
      /\ IsFiniteSet(FreeElsewhere) /\ Cardinality(FreeElsewhere) \in Nat
  <2>1. ToMove \in SUBSET Address /\ FreeElsewhere \in SUBSET Address
    BY DEF ToMove, FreeElsewhere, FreeAddresses, PagesOf
  <2> QED
    BY <2>1, PageCounting
<1>4. Cardinality(ToMove) # 0
  BY <1>2, <1>3, FS_EmptySet
<1>5. FreeElsewhere # {}
  BY <1>3, <1>4, FS_EmptySet DEF CapacityInv, ReserveOK
<1>6. PICK b \in Block, p \in PageIndex : b # src /\ pageState[<<b, p>>] = "free"
  BY <1>5 DEF FreeElsewhere, FreeAddresses, PagesOf, Address
<1> QED
  BY <1>6 DEF NoFreeSlot, HasFreePage, FreePages, PagesIn

LEMMA MigrateMirrors ==
  ASSUME NoLBA \notin LBA, IInv, CapacityInv, FtlRevTypeOK, TablesInverse, VisMigrate
  PROVE  GCMigrate /\ RecordedMove /\ FtlRevTypeOK' /\ TablesInverse'
<1> DEFINE from == <<src, cursor>>
<1>1. /\ from \in Address /\ pc = "migrate" /\ cursor < PagesPerBlock /\ NextPage
      /\ UNCHANGED <<gcCyclesRun, wearLevelInterval, pc, returnTo, src, dst>>
  BY GeometryAssumption
  DEF VisMigrate, IInv, LoopsOK, GCTypeOK, Address, PageIndex
<1>2. /\ ftlRev[from] \in FindLogicalAddress(from)
      /\ VisSkips(from) <=> Skips(from, ftlRev[from])
  BY <1>1, SameOwner
<1>3. CASE VisSkips(from) /\ UNCHANGED <<flashVars, mappingTable, ftlRev, stats>>
  <2>1. GCMigrate
    BY <1>1, <1>2, <1>3 DEF GCMigrate
  <2>2. RecordedMove
    BY <1>3, <2>1 DEF RecordedMove
  <2> QED
    BY <1>3, <2>1, <2>2 DEF FtlRevTypeOK, TablesInverse
<1>4. CASE /\ ~ VisSkips(from) /\ Record(Migration)
           /\ \E to \in Address : FreeSlot(src, to) /\ VisCopyPage(from, to)
  <2>1. PICK to \in Address : FreeSlot(src, to) /\ VisCopyPage(from, to)
    BY <1>4
  <2>2. to \in FreeAddresses
    <3>1. to = <<to[1], to[2]>> /\ pageState[<<to[1], to[2]>>] = "free"
      BY <2>1 DEF FreeSlot, FirstFreePage, FreePages, PagesIn, Address
    <3> QED
      BY <3>1 DEF FreeAddresses
  <2>3. /\ CopyPage(ftlRev[from], from, to) /\ mappingTable' # mappingTable
        /\ FtlRevTypeOK' /\ TablesInverse'
    BY <1>1, <1>4, <2>1, <2>2, CopyMirrors
  <2>4. GCMigrate
    BY <1>1, <1>2, <1>4, <2>1, <2>3 DEF GCMigrate
  <2>5. RecordedMove
    BY <1>4, <2>3, <2>4 DEF RecordedMove
  <2> QED
    BY <2>3, <2>4, <2>5
<1> QED
  BY <1>1, <1>3, <1>4, SlotLeft DEF VisMigrate

LEMMA MoveMirrors ==
  ASSUME NoLBA \notin LBA, IInv, FtlRevTypeOK, TablesInverse, VisMove
  PROVE  WLMove /\ RecordedMove /\ FtlRevTypeOK' /\ TablesInverse'
<1> DEFINE from == <<src, cursor>>
<1>1. /\ from \in Address /\ pc = "move" /\ cursor < PagesPerBlock /\ NextPage
      /\ cursor \in PageIndex /\ cursor >= cursor /\ dst \in Block
      /\ UNCHANGED <<gcCyclesRun, wearLevelInterval, pc, returnTo, src, dst>>
  BY GeometryAssumption
  DEF VisMove, IInv, LoopsOK, GCTypeOK, Address, PageIndex
<1>2. /\ ftlRev[from] \in FindLogicalAddress(from)
      /\ VisSkips(from) <=> Skips(from, ftlRev[from])
  BY <1>1, SameOwner
<1>3. HasFreePage(dst)
  BY <1>1 DEF IInv, LoopsOK, HasFreePage, FreePages, PagesIn
<1>4. CASE VisSkips(from) /\ UNCHANGED <<flashVars, mappingTable, ftlRev, stats>>
  <2>1. WLMove
    BY <1>1, <1>2, <1>4 DEF WLMove
  <2>2. RecordedMove
    BY <1>4, <2>1 DEF RecordedMove
  <2> QED
    BY <1>4, <2>1, <2>2 DEF FtlRevTypeOK, TablesInverse
<1>5. CASE /\ ~ VisSkips(from) /\ Record(Migration)
           /\ \E p \in PageIndex : FirstFreePage(dst, p) /\ VisCopyPage(from, <<dst, p>>)
  <2>1. PICK p \in PageIndex : FirstFreePage(dst, p) /\ VisCopyPage(from, <<dst, p>>)
    BY <1>5
  <2>2. <<dst, p>> \in FreeAddresses
    BY <1>1, <2>1, FirstFreeFacts DEF IInv, FreeAddresses, Address
  <2>3. /\ CopyPage(ftlRev[from], from, <<dst, p>>) /\ mappingTable' # mappingTable
        /\ FtlRevTypeOK' /\ TablesInverse'
    BY <1>1, <1>5, <2>1, <2>2, CopyMirrors
  <2>4. WLMove
    BY <1>1, <1>2, <1>5, <2>1, <2>3 DEF WLMove
  <2>5. RecordedMove
    BY <1>5, <2>3, <2>4 DEF RecordedMove
  <2> QED
    BY <2>3, <2>4, <2>5
<1> QED
  BY <1>3, <1>4, <1>5 DEF VisMove

-----------------------------------------------------------------------------
(* Every step. *)

\* The steps that touch neither table.
LEMMA SameTables ==
  ASSUME FtlRevTypeOK, TablesInverse, UNCHANGED <<mappingTable, ftlRev>>
  PROVE  FtlRevTypeOK' /\ TablesInverse'
BY DEF FtlRevTypeOK, TablesInverse

LEMMA CollectMirrors ==
  ASSUME NoLBA \notin LBA, IInv, CapacityInv, FtlRevTypeOK, TablesInverse, VisCollect
  PROVE  RecordedCollect /\ FtlRevTypeOK' /\ TablesInverse'
<1>1. UNCHANGED writing
  BY DEF VisCollect
<1>2. CASE VisMigrate
  BY <1>1, <1>2, MigrateMirrors DEF RecordedCollect
<1>3. CASE VisMove
  BY <1>1, <1>3, MoveMirrors DEF RecordedCollect
<1>4. CASE VisSelect
  <2>1. UNCHANGED <<mappingTable, ftlRev>>
    BY <1>4 DEF VisSelect, RecordedSelect, GCSelect, WLSelect
  <2> QED
    BY <1>1, <1>4, <2>1, SameTables DEF VisSelect, RecordedCollect
<1>5. CASE VisErase
  <2>1. UNCHANGED <<mappingTable, ftlRev>>
    BY <1>5 DEF VisErase, RecordedErase, RecordedWearErase, GCErase, WLErase
  <2> QED
    BY <1>1, <1>5, <2>1, SameTables DEF VisErase, RecordedCollect
<1> QED
  BY <1>2, <1>3, <1>4, <1>5 DEF VisCollect

LEMMA VisStep ==
  ASSUME NoLBA \notin LBA, Blank \notin Data, VisInv, [VisNext]_visVars
  PROVE  [StatNext]_statVars /\ FtlRevTypeOK' /\ TablesInverse'
<1> USE DEF VisInv
<1>1. IInv
  BY DEF CtrlInv
<1>2. CASE VisHost
  BY <1>2, HostMirrors, SameTables
<1>3. CASE NextNandWrite /\ UNCHANGED <<stats, cacheStats, ftlRev>>
  <2>1. UNCHANGED mappingTable
    BY <1>3 DEF NextNandWrite, BeginNandWrite
  <2> QED
    BY <1>3, <2>1, SameTables DEF StatNext, RecordedController
<1>4. CASE VisProgram /\ UNCHANGED <<lruList, toNand, answer, cacheStats>>
  BY <1>1, <1>4, ProgramMirrors DEF StatNext, RecordedController
<1>5. CASE VisCollect /\ UNCHANGED <<lruList, toNand, answer, cacheStats>>
  BY <1>1, <1>5, CollectMirrors DEF StatNext, RecordedController
<1>6. CASE /\ (ForceGC \/ DropWrite) /\ UNCHANGED <<stats, ftlRev>>
           /\ UNCHANGED <<lruList, toNand, answer, cacheStats>>
  <2>1. UNCHANGED mappingTable
    BY <1>6 DEF ForceGC, DropWrite
  <2> QED
    BY <1>6, <2>1, SameTables DEF StatNext, RecordedController
<1>7. CASE UNCHANGED visVars
  <2>1. UNCHANGED statVars /\ UNCHANGED <<mappingTable, ftlRev>>
    BY <1>7 DEF visVars, statVars, ctrlVars, vars
  <2> QED
    BY <2>1, SameTables
<1> QED
  BY <1>2, <1>3, <1>4, <1>5, <1>6, <1>7 DEF VisNext, VisController

\* The initial states differ from the C++ controller's in the wear-leveling
\* interval.
LEMMA VisInitFresh == VisInit => FreshDrive /\ returnTo # "retry"
BY GeometryAssumption, HostAssumption
DEF VisInit, FreshDrive, GCTypeOK, GCPhases, CallerPhases

LEMMA VisInvInit ==
  ASSUME NoLBA \notin LBA, OverProvisioned
  PROVE  VisInit => VisInv
<1> SUFFICES ASSUME VisInit PROVE VisInv
  OBVIOUS
<1>1. FreshDrive /\ returnTo # "retry"
  BY VisInitFresh
<1>2. FtlRevTypeOK /\ TablesInverse
  BY UnmappedAssumption DEF VisInit, MappingInit, FtlRevTypeOK, TablesInverse
<1> QED
  BY <1>1, <1>2, FreshDriveInv, FreshCapacity DEF VisInv

LEMMA VisInvariance ==
  ASSUME NoLBA \notin LBA, Blank \notin Data, OverProvisioned, IsFiniteSet(LBA)
  PROVE  VisSpec => []VisInv
<1>1. VisInit => VisInv
  BY VisInvInit
<1>2. VisInv /\ [VisNext]_visVars => VisInv'
  <2> SUFFICES ASSUME VisInv, [VisNext]_visVars PROVE VisInv'
    OBVIOUS
  <2>1. [CtrlNext]_ctrlVars /\ FtlRevTypeOK' /\ TablesInverse'
    BY VisStep, StatWatches
  <2>2. CtrlInv'
    BY <2>1, CtrlInvNext DEF VisInv
  <2>3. CapacityInv'
    BY <2>1, CapacityCtrl DEF VisInv
  <2> QED
    BY <2>1, <2>2, <2>3 DEF VisInv
<1> QED
  BY <1>1, <1>2, PTL DEF VisSpec

-----------------------------------------------------------------------------
(* The browser's drive. *)

\* ftl and ftlRev stay inverse to each other through every call, collection and
\* wear-leveling pass: runGC and runStaticWL take along the LBA that reads will
\* look for.
THEOREM TablesStayInverse ==
  ASSUME NoLBA \notin LBA, Blank \notin Data, OverProvisioned, IsFiniteSet(LBA)
  PROVE  VisSpec => []TablesInverse
<1>1. VisInv => TablesInverse
  BY DEF VisInv
<1> QED
  BY VisInvariance, <1>1, PTL

\* "mirrors the C++ logic": with a spare block, every step of createSim's drive is
\* a step of the C++ controller that counts and charges the same.
THEOREM MirrorsCppWhenProvisioned ==
  ASSUME NoLBA \notin LBA, Blank \notin Data, OverProvisioned, IsFiniteSet(LBA)
  PROVE  VisSpec => MirrorsCpp
<1>1. VisInv /\ [VisNext]_visVars => [StatNext]_statVars
  BY VisStep
<1> QED
  BY VisInvariance, <1>1, PTL DEF VisSpec, MirrorsCpp

\* So createSim's drive is a disk too: with a spare block every read of it returns
\* the last data written, whatever its caches, tables, collections and passes did.
THEOREM VisualizerImplementsHostDisk ==
  ASSUME NoLBA \notin LBA, Blank \notin Data, OverProvisioned, IsFiniteSet(LBA)
  PROVE  VisSpec => ActsAsDisk
<1>1. VisInit => Disk!DiskInit
  BY VisInitFresh, FreshDisk
<1>2. VisInv => CtrlInv /\ CapacityInv
  BY DEF VisInv
<1>3. VisInv /\ [VisNext]_visVars => [CtrlNext]_ctrlVars
  BY VisStep, StatWatches
<1>4. CtrlInv /\ CapacityInv /\ ViewOK /\ ViewOK' /\ [CtrlNext]_ctrlVars
        => [Disk!DiskNext]_<<[l \in LBA |-> View(l)], answer>>
  BY DiskStep
<1> QED
  BY VisInvariance, ViewFacts, <1>1, <1>2, <1>3, <1>4, PTL
  DEF VisSpec, ActsAsDisk, Disk!DiskSpec

=============================================================================

-------------------------- MODULE VisualizerDrive --------------------------
(***************************************************************************)
(* The drive of the browser visualizer (createSim in index.html), a second *)
(* implementation of the controller in JavaScript.  Its functions follow   *)
(* those of the C++ one by one, so this module takes the actions of        *)
(* SSDStatistics where the two agree and restates those where they differ: *)
(*                                                                         *)
(*  - the reverse mapping is a second table, ftlRev, instead of a search;  *)
(*  - a page without a slot to move to is skipped, not given up on: the    *)
(*    loops are forEach callbacks, which cannot break;                     *)
(*  - an old page is set invalid whatever its state was;                   *)
(*  - a cached null does not count as a hit.                               *)
(***************************************************************************)
EXTENDS SSDStatistics

VARIABLE ftlRev     \* which LBA was last put at each page; NoLBA if none

visVars == <<statVars, ftlRev>>

\* What is cached or read may be the null of an erased page.
VisTypeOK ==
  /\ TypeOK
  /\ lruList \in Seq([lba : LBA, data : Data \cup {Blank}, dirty : BOOLEAN])
  /\ toNand \in Seq([lba : LBA, data : Data, dirty : {TRUE}])
  /\ answer \in Data \cup {Blank, Unmapped}
  /\ stats \in [Stat -> Nat] /\ cacheStats \in [CacheStat -> Nat]
  /\ ftlRev \in [Address -> LBA \cup {NoLBA}]

\* The wear-leveling interval comes with the configuration.
VisInit ==
  /\ FlashInit /\ MappingInit
  /\ gcCyclesRun = 0 /\ wearLevelInterval \in Intervals
  /\ pc = "idle" /\ returnTo = "idle"
  /\ src = NoBlock /\ dst = NoBlock /\ cursor = 0
  /\ writing = NoWrite
  /\ lruList = <<>> /\ toNand = <<>> /\ answer = Unmapped
  /\ stats = [s \in Stat |-> 0] /\ cacheStats = [s \in CacheStat |-> 0]
  /\ ftlRev = [a \in Address |-> NoLBA]

-----------------------------------------------------------------------------
(* Host calls. *)

VisWrite(l, d) == RecordedWrite(l, d) /\ UNCHANGED ftlRev

\* cacheRead(l) finds something other than null.
VisHit(l) ==
  IsEnabled(CacheSize) /\ Cached(lruList, l) /\ CachedEntry(lruList, l).data # Blank

VisReadHit(l) == VisHit(l) /\ RecordedHit(l) /\ UNCHANGED ftlRev

\* cacheInsert of what NAND holds for l: the entry of l, if there is one, counted
\* as a hit already, takes the data and keeps its dirty flag.
VisReadMiss(l) ==
  /\ WithinRequests
  /\ Ready /\ ~ VisHit(l) /\ HasMapping(l)
  /\ LET data == pageData[mappingTable[l]] IN
     /\ answer' = data
     /\ \/ ~ IsEnabled(CacheSize) /\ UNCHANGED <<lruList, toNand, cacheStats>>
        \/ /\ IsEnabled(CacheSize) /\ Cached(lruList, l)
           /\ lruList' = ToFront(lruList, l, [CachedEntry(lruList, l) EXCEPT !.data = data])
           /\ RecordCache([hits |-> 1])
           /\ UNCHANGED toNand
        \/ /\ IsEnabled(CacheSize) /\ ~ Cached(lruList, l)
           /\ lruList' = Inserted(lruList, Entry(l, data, FALSE))
           /\ toNand' = DirtyVictim(lruList)
           /\ RecordCache([misses |-> 1, dirtyEvictions |-> Evictions])
  /\ Record([logicalReads |-> 1, readLatency |-> latency.pageRead])
  /\ UNCHANGED <<vars, ftlRev>>

\* Nothing but data is ever cached for an LBA without mapping.
VisReadUnmapped(l) == RecordedUnmapped(l) /\ UNCHANGED ftlRev

VisFlushCache == FlushCache /\ UNCHANGED <<stats, cacheStats, ftlRev>>

-----------------------------------------------------------------------------
(* nandWrite. *)

\* Both tables after ftlSet(l, a): the reverse entry of l's old page goes.
FtlSet(l, a) ==
  /\ mappingTable' = Remapped(l, a)
  /\ ftlRev' = [b \in Address |->
                  IF b = a THEN l
                  ELSE IF mappingTable[l] = b THEN NoLBA ELSE ftlRev[b]]

VisProgram ==
  /\ pc \in {"program", "retry"}
  /\ \E b \in Block, p \in PageIndex :
       /\ LeastUsedFreeBlock(b) /\ FirstFreePage(b, p)
       /\ LET l == writing.lba
              programmed == Programmed(pageState, <<b, p>>)
          IN  /\ pageState' = IF HasMapping(l)
                              THEN [programmed EXCEPT ![mappingTable[l]] = "invalid"]
                              ELSE programmed
              /\ pageData' = [pageData EXCEPT ![<<b, p>>] = writing.data]
              /\ FtlSet(l, <<b, p>>)
  /\ Record(HostProgram)
  /\ Finish
  /\ UNCHANGED <<eraseCount, gcCyclesRun, wearLevelInterval>>

-----------------------------------------------------------------------------
(* runGC and runStaticWL. *)

VisSkips(a) == pageState[a] # "valid" \/ ftlRev[a] = NoLBA

FaultyVisCopyPage(from, to) ==
  /\ ProgramPage(to, pageData[from])
  /\ mappingTable' = Remapped(ftlRev[from], to)
  /\ UNCHANGED ftlRev

VisCopyPage(from, to) ==
  ProgramPage(to, pageData[from]) /\ FtlSet(ftlRev[from], to)

\* One callback over the victim.  Without a slot, the page stays.
VisMigrate ==
  /\ pc = "migrate" /\ cursor < PagesPerBlock
  /\ LET from == <<src, cursor>> IN
       \/ /\ VisSkips(from) \/ NoFreeSlot(src)
          /\ UNCHANGED <<flashVars, mappingTable, ftlRev, stats>>
       \/ /\ ~ VisSkips(from)
          /\ \E to \in Address : FreeSlot(src, to) /\ VisCopyPage(from, to)
          /\ Record(Migration)
  /\ NextPage
  /\ UNCHANGED <<gcCyclesRun, wearLevelInterval, pc, returnTo, src, dst>>

\* One callback of runStaticWL over the source.
VisMove ==
  /\ pc = "move" /\ cursor < PagesPerBlock
  /\ LET from == <<src, cursor>> IN
       \/ /\ VisSkips(from) \/ ~ HasFreePage(dst)
          /\ UNCHANGED <<flashVars, mappingTable, ftlRev, stats>>
       \/ /\ ~ VisSkips(from)
          /\ \E p \in PageIndex : FirstFreePage(dst, p) /\ VisCopyPage(from, <<dst, p>>)
          /\ Record(Migration)
  /\ NextPage
  /\ UNCHANGED <<gcCyclesRun, wearLevelInterval, pc, returnTo, src, dst>>

\* Choosing the victim, the source and the destination, and erasing.
VisSelect == (RecordedSelect \/ (WLSelect /\ UNCHANGED stats)) /\ UNCHANGED ftlRev
VisErase == (RecordedErase \/ RecordedWearErase) /\ UNCHANGED ftlRev

VisCollect == (VisSelect \/ VisMigrate \/ VisMove \/ VisErase) /\ UNCHANGED writing

-----------------------------------------------------------------------------

VisController ==
  \/ NextNandWrite /\ UNCHANGED <<stats, cacheStats, ftlRev>>
  \/ /\ \/ VisProgram \/ VisCollect
        \/ (ForceGC \/ DropWrite) /\ UNCHANGED <<stats, ftlRev>>
     /\ UNCHANGED <<lruList, toNand, answer, cacheStats>>

VisHost ==
  \/ \E l \in LBA : \/ \E d \in Data : VisWrite(l, d)
                    \/ VisReadHit(l) \/ VisReadMiss(l) \/ VisReadUnmapped(l)
  \/ VisFlushCache

VisNext == VisHost \/ VisController

VisSpec == VisInit /\ [][VisNext]_visVars

-----------------------------------------------------------------------------
(* Correctness. *)

\* The two tables are inverse to each other: runGC and runStaticWL ask ftlRev
\* which LBA to take along, reads ask ftl where it went.
TablesInverse ==
  \A a \in Address : \A l \in LBA : ftlRev[a] = l <=> mappingTable[l] = a

\* "JavaScript engine (mirrors the C++ logic)": every step is one the C++
\* controller can take in the same state, and counts and charges the same.
MirrorsCpp == [][StatNext]_statVars

=============================================================================

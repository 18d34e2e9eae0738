--------------------------- MODULE SSDController ---------------------------
(***************************************************************************)
(* The controller with its DRAM cache: write, read, flushCache,            *)
(* garbageCollect and setWearLevelInterval over PageCache and nandWrite.   *)
(*                                                                         *)
(* write and read take effect on the cache first; what the cache evicts or *)
(* flushes goes through nandWrite, one entry after the other, before the   *)
(* call returns.  toNand is the rest of that list: empty between calls.    *)
(***************************************************************************)
EXTENDS NandWritePath, PageCache

VARIABLES
  lruList,   \* the cache, most recently used first
  toNand,    \* entries the call in progress has still to give to nandWrite
  answer     \* what the last read returned

ctrlVars == <<vars, lruList, toNand, answer>>

CtrlTypeOK ==
  /\ TypeOK
  /\ lruList \in Seq([lba : LBA, data : Data, dirty : BOOLEAN])
  /\ toNand \in Seq([lba : LBA, data : Data, dirty : {TRUE}])
  /\ answer \in Data \cup {Unmapped}
  /\ Len(lruList) <= CacheSize

CtrlInit ==
  /\ Init
  /\ lruList = <<>> /\ toNand = <<>> /\ answer = Unmapped

\* The constructor, where a program makes another drive between two calls.
NewDrive ==
  /\ pageState' = [a \in Address |-> "free"]
  /\ pageData' = [a \in Address |-> Blank]
  /\ eraseCount' = [b \in Block |-> 0]
  /\ mappingTable' = [l \in LBA |-> Unmapped]
  /\ gcCyclesRun' = 0
  /\ lruList' = <<>> /\ toNand' = <<>> /\ answer' = Unmapped
  /\ UNCHANGED <<pc, returnTo, loopVars, writing>>

-----------------------------------------------------------------------------
(* Host calls.  One starts when the one before has returned. *)

Ready == Idle /\ toNand = <<>>

\* write(l, d).
CtrlWrite(l, d) ==
  /\ Ready
  /\ IF IsEnabled(CacheSize)
     THEN /\ IF Cached(lruList, l)
             THEN /\ lruList' = ToFront(lruList, l, Written(lruList, l, d))
                  /\ UNCHANGED toNand
             ELSE /\ lruList' = Inserted(lruList, Written(lruList, l, d))
                  /\ toNand' = DirtyVictim(lruList)
          /\ UNCHANGED vars
     ELSE /\ BeginNandWrite(l, d)
          /\ UNCHANGED <<lruList, toNand>>
  /\ UNCHANGED answer

ReadHit(l) ==
  /\ Ready /\ IsEnabled(CacheSize) /\ Cached(lruList, l)
  /\ answer' = CachedEntry(lruList, l).data
  /\ lruList' = ToFront(lruList, l, CachedEntry(lruList, l))
  /\ UNCHANGED <<vars, toNand>>

\* The data is copied out of NAND before the insert evicts anything.
ReadMiss(l) ==
  /\ Ready /\ ~ (IsEnabled(CacheSize) /\ Cached(lruList, l))
  /\ HasMapping(l)
  /\ answer' = pageData[mappingTable[l]]
  /\ IF IsEnabled(CacheSize)
     THEN /\ lruList' = Inserted(lruList, Entry(l, pageData[mappingTable[l]], FALSE))
          /\ toNand' = DirtyVictim(lruList)
     ELSE UNCHANGED <<lruList, toNand>>
  /\ UNCHANGED vars

\* "[ERROR: LBA not mapped]".
ReadUnmapped(l) ==
  /\ Ready /\ ~ (IsEnabled(CacheSize) /\ Cached(lruList, l))
  /\ ~ HasMapping(l)
  /\ answer' = Unmapped
  /\ UNCHANGED <<vars, lruList, toNand>>

\* flushCache(); a disabled cache has nothing to flush.
FlushCache ==
  /\ Ready
  /\ toNand' = DirtyEntries(lruList)
  /\ lruList' = <<>>
  /\ UNCHANGED <<vars, answer>>

CtrlCollect == Ready /\ HostCollect /\ UNCHANGED <<lruList, toNand, answer>>

CtrlSetInterval(n) ==
  /\ toNand = <<>>
  /\ HostSetInterval(n)
  /\ UNCHANGED <<lruList, toNand, answer>>

-----------------------------------------------------------------------------

FaultyNextNandWrite ==
  /\ toNand # <<>>
  /\ BeginNandWrite(Head(toNand).lba, Head(toNand).data)
  /\ toNand' = Tail(toNand)
  /\ UNCHANGED <<lruList, answer>>

\* nandWrite of the next evicted or flushed entry.
NextNandWrite ==
  /\ pc = "idle" /\ toNand # <<>>
  /\ BeginNandWrite(Head(toNand).lba, Head(toNand).data)
  /\ toNand' = Tail(toNand)
  /\ UNCHANGED <<lruList, answer>>

CtrlController ==
  \/ NextNandWrite
  \/ Controller /\ UNCHANGED <<lruList, toNand, answer>>

CtrlHost ==
  \/ \E l \in LBA : \/ \E d \in Data : CtrlWrite(l, d)
                    \/ ReadHit(l) \/ ReadMiss(l) \/ ReadUnmapped(l)
  \/ FlushCache
  \/ CtrlCollect
  \/ \E n \in Intervals : CtrlSetInterval(n)

CtrlNext == CtrlHost \/ CtrlController

CtrlSpec == CtrlInit /\ [][CtrlNext]_ctrlVars

-----------------------------------------------------------------------------
(* Correctness. *)

\* No LBA has two entries in the cache, and none is in the cache while an
\* older version of it waits for NAND.
OneVersionInDRAM ==
  /\ \A i, j \in DOMAIN lruList : lruList[i].lba = lruList[j].lba => i = j
  /\ \A i \in DOMAIN toNand :
       /\ ~ Cached(lruList, toNand[i].lba)
       /\ \A j \in DOMAIN toNand : toNand[i].lba = toNand[j].lba => i = j
       /\ writing # NoWrite => toNand[i].lba # writing.lba

\* A clean entry, which may be discarded at any time, holds what NAND holds
\* for its LBA, whatever GC and wear leveling did since it was read.
CleanEntriesInNand ==
  \A i \in DOMAIN lruList :
    ~ lruList[i].dirty => lruList[i].data = Store[lruList[i].lba]

\* What a read of l would return if the call in progress had returned.
View(l) ==
  IF Cached(lruList, l) THEN CachedEntry(lruList, l).data
  ELSE IF Cached(toNand, l) THEN CachedEntry(toNand, l).data
  ELSE IF writing # NoWrite /\ writing.lba = l THEN writing.data
  ELSE Store[l]

Disk == INSTANCE HostDisk WITH disk <- [l \in LBA |-> View(l)]

\* The drive is a disk: every read returns the last data written, through any
\* history of hits, misses, evictions, flushes, collections and wear leveling.
ActsAsDisk == Disk!DiskSpec

\* SSDController.h, PageCache.h: dirty entries are drained, or flushed when they
\* are evicted, to NAND.
DirtyEntriesReachNand ==
  [][writing # NoWrite /\ writing' = NoWrite
       => Store'[writing.lba] = writing.data]_ctrlVars

\* The bound of the NAND side: a call that starts within MaxErase gives at
\* most one entry per cache slot, or its own, to nandWrite, and each nandWrite
\* makes at most two collections of two erases.
Nand == INSTANCE NandWritePath WITH MaxErase <- MaxErase + 4 * (CacheSize + 1)

\* To the NAND side the cached controller is one more host: all that is proved
\* of NandWritePath holds of it too.
UsesNandAsHost == Nand!Spec

=============================================================================

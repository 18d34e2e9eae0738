--------------------------- MODULE NandWritePath ---------------------------
(***************************************************************************)
(* SSDController with the DRAM cache disabled (cacheSize = 0): every host  *)
(* write is one nandWrite.  The cached controller, module SSDController,   *)
(* runs the same nandWrite for what its cache evicts or flushes.           *)
(*                                                                         *)
(* nandWrite: collect once below the watermark; pick the least worn block  *)
(* with a free page; if there is none, force one more collection and pick  *)
(* again; if there is still none, drop the write.                          *)
(***************************************************************************)
EXTENDS GarbageCollector

CONSTANTS
  NoWrite,        \* no nandWrite is in progress
  LowWatermark,   \* free-page percentage below which nandWrite collects
  Intervals,      \* arguments the host gives setWearLevelInterval
  MaxErase        \* bound: no host call once a block was erased this often

Write == [lba : LBA, data : Data]

ASSUME HostAssumption ==
  /\ LowWatermark \in Int
  /\ Intervals \subseteq Int
  /\ MaxErase \in Nat
  /\ NoWrite \notin Write

VARIABLE writing    \* arguments of the nandWrite in progress, or NoWrite

vars == <<flashVars, mappingTable, gcVars, writing>>

TypeOK ==
  /\ FlashTypeOK /\ MappingTypeOK /\ GCTypeOK
  /\ writing \in Write \cup {NoWrite}

Init == FlashInit /\ MappingInit /\ GCInit /\ writing = NoWrite

-----------------------------------------------------------------------------
(* The host. *)

\* The bound on the erase counters, tested where the host makes its next call.
WithinBound == \A b \in Block : eraseCount[b] < MaxErase

Idle == pc = "idle" /\ WithinBound

\* runOneCycle is called and comes back to phase.
CallGC(phase) == pc' = "select" /\ returnTo' = phase /\ UNCHANGED loopVars

\* nandWrite(l, d) up to the choice of a block.
BeginNandWrite(l, d) ==
  /\ writing' = [lba |-> l, data |-> d]
  /\ IF ShouldTrigger(LowWatermark)
     THEN CallGC("program")
     ELSE pc' = "program" /\ UNCHANGED <<returnTo, loopVars>>
  /\ UNCHANGED <<flashVars, mappingTable, gcCyclesRun, wearLevelInterval>>

\* write(l, d).
HostWrite(l, d) == Idle /\ BeginNandWrite(l, d)

\* garbageCollect().
HostCollect ==
  /\ Idle
  /\ CallGC("idle")
  /\ UNCHANGED <<flashVars, mappingTable, gcCyclesRun, wearLevelInterval, writing>>

\* setWearLevelInterval(n).
HostSetInterval(n) ==
  /\ pc = "idle"
  /\ wearLevelInterval' = n
  /\ UNCHANGED <<flashVars, mappingTable, gcCyclesRun, pc, returnTo, loopVars, writing>>

-----------------------------------------------------------------------------
(* The rest of nandWrite. *)

Finish == pc' = "idle" /\ writing' = NoWrite /\ UNCHANGED <<returnTo, loopVars>>

\* The page is programmed before the old one is invalidated and the table
\* updated.
Program ==
  /\ pc \in {"program", "retry"}
  /\ \E b \in Block, p \in PageIndex :
       /\ LeastUsedFreeBlock(b)
       /\ FirstFreePage(b, p)
       /\ LET l == writing.lba
              programmed == Programmed(pageState, <<b, p>>)
          IN  /\ pageState' = IF HasMapping(l)
                              THEN Invalidated(programmed, mappingTable[l])
                              ELSE programmed
              /\ pageData' = [pageData EXCEPT ![<<b, p>>] = writing.data]
              /\ mappingTable' = Remapped(l, <<b, p>>)
  /\ Finish
  /\ UNCHANGED <<eraseCount, gcCyclesRun, wearLevelInterval>>

ForceGC ==
  /\ pc = "program" /\ NoFreeBlock
  /\ CallGC("retry")
  /\ UNCHANGED <<flashVars, mappingTable, gcCyclesRun, wearLevelInterval, writing>>

FaultyDropWrite ==
  /\ pc = "retry" /\ NoFreeBlock
  /\ CallGC("retry")
  /\ UNCHANGED <<flashVars, mappingTable, gcCyclesRun, wearLevelInterval, writing>>

\* "SSD FULL": the write is dropped, nothing else happens to it.
DropWrite ==
  /\ pc = "retry" /\ NoFreeBlock
  /\ Finish
  /\ UNCHANGED <<flashVars, mappingTable, gcCyclesRun, wearLevelInterval>>

Collect == GCStep /\ UNCHANGED writing

Controller == Program \/ ForceGC \/ DropWrite \/ Collect

Host ==
  \/ \E l \in LBA, d \in Data : HostWrite(l, d)
  \/ HostCollect
  \/ \E n \in Intervals : HostSetInterval(n)

Next == Host \/ Controller

Spec == Init /\ [][Next]_vars

-----------------------------------------------------------------------------
(* Implementation of LogicalDevice. *)

\* What a read of each LBA finds in NAND.
Store ==
  [l \in LBA |-> IF HasMapping(l) THEN pageData[mappingTable[l]] ELSE Unmapped]

Lossy == INSTANCE LogicalDevice
           WITH store <- Store, inFlight <- writing, MayDrop <- TRUE

Lossless == INSTANCE LogicalDevice
              WITH store <- Store, inFlight <- writing, MayDrop <- FALSE

\* nandWrite, GC and wear leveling together are one atomic update of one LBA,
\* or, when the drive is full, no update at all.  GC and wear leveling never
\* change what a read of any LBA returns.
AtomicStore == Lossy!DeviceSpec

\* On a drive that is not overcommitted no write is ever dropped either.
LosslessStore == Lossless!DeviceSpec

\* Every nandWrite ends by committing its data or dropping it.
WritesComplete == Lossy!DeviceFairSpec

-----------------------------------------------------------------------------
(* Capacity. *)

\* One block's worth of pages is never promised to the host, and the watermark
\* makes nandWrite collect when less than a block is free.
OverProvisioned ==
  /\ Cardinality(LBA) + PagesPerBlock <= NumBlocks * PagesPerBlock
  /\ LowWatermark * NumBlocks >= 100

Live(a) == \E l \in LBA : mappingTable[l] = a

\* Between host calls every valid page is some LBA's current copy: the old
\* copy is invalidated by nandWrite and erased by GC, so no page leaks.
NoOrphan ==
  pc = "idle" => \A a \in Address : pageState[a] = "valid" => Live(a)

\* Between host calls at most one page is missing from a block's worth of free
\* pages, which is what lets the next collection move its victim's valid pages
\* and never abort.
FreeReserve ==
  pc = "idle" => Cardinality(FreeAddresses) >= PagesPerBlock - 1

\* The forced extra cycle of nandWrite never frees a page unless the watermark
\* is zero: below a positive watermark a cycle has just been tried, and the
\* second one picks the same victim and stops at the same page.
ForcedCycleFutile == pc = "retry" /\ LowWatermark > 0 => NoFreeBlock

\* A wear-leveling pass moves data to a block more worn than the one it erases:
\* at least by the threshold when the pair was chosen, before the pages were
\* copied one by one.  So it never raises the highest erase count.
WearPeakNotRaised ==
  [][WLErase => \E b \in Block : eraseCount'[src] < eraseCount[b]]_vars

=============================================================================

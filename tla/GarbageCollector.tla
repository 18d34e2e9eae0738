-------------------------- MODULE GarbageCollector --------------------------
(***************************************************************************)
(* runOneCycle and staticWearLevel, one action per step of their loops.    *)
(*                                                                         *)
(* The controller is single-threaded: while pc is in one of the phases     *)
(* below, no other action of the system is enabled.  runOneCycle is called *)
(* by setting pc to "select" and returnTo to the caller's next phase; both *)
(* of its outcomes go there, since no caller looks at its result.          *)
(*                                                                         *)
(*   select  -> migrate -> ... -> migrate -> wear -> move -> ... -> move   *)
(***************************************************************************)
EXTENDS FTLMapper

WEAR_LEVEL_THRESHOLD == 3

VARIABLES
  gcCyclesRun,        \* collections completed (an aborted cycle is not one)
  wearLevelInterval,  \* collections between two static wear-leveling passes
  pc,                 \* the phase the controller is in
  returnTo,           \* the phase after the collection
  src,                \* block being emptied: GC victim or wear-leveling source
  dst,                \* wear-leveling destination
  cursor              \* page of src the loop looks at next

gcVars == <<gcCyclesRun, wearLevelInterval, pc, returnTo, src, dst, cursor>>
loopVars == <<src, dst, cursor>>

NoBlock == -1

GCPhases == {"select", "migrate", "wear", "move"}
CallerPhases == {"idle", "program", "retry"}

GCTypeOK ==
  /\ gcCyclesRun \in Nat
  /\ wearLevelInterval \in Int
  /\ pc \in GCPhases \cup CallerPhases
  /\ returnTo \in CallerPhases
  /\ src \in Block \cup {NoBlock}
  /\ dst \in Block \cup {NoBlock}
  /\ cursor \in 0 .. PagesPerBlock

\* The constructor's default interval is 5.
GCInit ==
  /\ gcCyclesRun = 0
  /\ wearLevelInterval = 5
  /\ pc = "idle"
  /\ returnTo = "idle"
  /\ src = NoBlock /\ dst = NoBlock /\ cursor = 0

\* Leave runOneCycle; its locals go out of scope.
Return ==
  /\ pc' = returnTo
  /\ returnTo' = "idle"
  /\ src' = NoBlock /\ dst' = NoBlock /\ cursor' = 0

-----------------------------------------------------------------------------
(* Regular collection. *)

FaultyShouldTrigger(watermark) ==
  /\ Address = {}
  /\ Cardinality(FreeAddresses) * 100 < watermark * Cardinality(Address)

\* shouldTrigger(watermark), the watermark in per cent.
ShouldTrigger(watermark) ==
  /\ Address # {}
  /\ Cardinality(FreeAddresses) * 100 < watermark * Cardinality(Address)

Reclaimable == {b \in Block : InvalidPages(b) # {}}

\* selectVictimBlock() returns b.
VictimBlock(b) ==
  FirstMost(b, Reclaimable, [c \in Block |-> Cardinality(InvalidPages(c))])

GCSelect ==
  /\ pc = "select"
  /\ \/ \E b \in Block :
          /\ VictimBlock(b)
          /\ src' = b /\ cursor' = 0 /\ pc' = "migrate"
          /\ UNCHANGED <<returnTo, dst>>
     \/ Reclaimable = {} /\ Return
  /\ UNCHANGED <<flashVars, mappingTable, gcCyclesRun, wearLevelInterval>>

\* The loops skip free, invalid and orphaned pages; the others must move.
Skips(a, lba) == pageState[a] # "valid" \/ lba = NoLBA

FaultyCopyOnly(lba, from, to) ==
  /\ ProgramPage(to, pageData[from])
  /\ UNCHANGED mappingTable

FaultyCopyPage(lba, from, to) ==
  /\ ProgramPage(to, pageData[to])
  /\ mappingTable' = Remapped(lba, to)

\* writeData(readData(from)) on page to, and lba remapped there.  The source
\* page is left as it is: only the erase that follows frees it.
CopyPage(lba, from, to) ==
  /\ ProgramPage(to, pageData[from])
  /\ mappingTable' = Remapped(lba, to)

FaultyNextPage == UNCHANGED cursor

\* The for loops' p++.
NextPage == cursor' = cursor + 1

FaultyAbortCycle == NextPage /\ UNCHANGED <<pc, returnTo, src, dst>>

\* No slot for a page that must move: runOneCycle returns false at once.  What
\* it moved so far stays moved, and the victim is not erased.
AbortCycle == Return

\* One iteration of the migration loop over the victim.
GCMigrate ==
  /\ pc = "migrate" /\ cursor < PagesPerBlock
  /\ LET from == <<src, cursor>> IN
     \E lba \in FindLogicalAddress(from) :
       \/ /\ Skips(from, lba)
          /\ NextPage
          /\ UNCHANGED <<flashVars, mappingTable, pc, returnTo, src, dst>>
       \/ /\ ~ Skips(from, lba)
          /\ \E to \in Address : FreeSlot(src, to) /\ CopyPage(lba, from, to)
          /\ NextPage
          /\ UNCHANGED <<pc, returnTo, src, dst>>
       \/ /\ ~ Skips(from, lba)
          /\ NoFreeSlot(src)
          /\ AbortCycle
          /\ UNCHANGED <<flashVars, mappingTable>>
  /\ UNCHANGED <<gcCyclesRun, wearLevelInterval>>

WearLevelDue ==
  wearLevelInterval > 0 /\ (gcCyclesRun + 1) % wearLevelInterval = 0

\* The victim has been emptied: erase it, count the cycle, level if it is due.
GCErase ==
  /\ pc = "migrate" /\ cursor = PagesPerBlock
  /\ EraseBlock(src)
  /\ gcCyclesRun' = gcCyclesRun + 1
  /\ IF WearLevelDue
     THEN /\ pc' = "wear"
          /\ src' = NoBlock /\ cursor' = 0
          /\ UNCHANGED <<returnTo, dst>>
     ELSE Return
  /\ UNCHANGED <<mappingTable, wearLevelInterval>>

-----------------------------------------------------------------------------
(* Static wear leveling. *)

FaultyWearLevelPair(s, d) ==
  /\ LeastWornDataBlock(s)
  /\ MostWornFreeBlock(d)

\* staticWearLevel() finds the pair (s, d) worth swapping.
WearLevelPair(s, d) ==
  /\ LeastWornDataBlock(s)
  /\ MostWornFreeBlock(d)
  /\ eraseCount[d] - eraseCount[s] >= WEAR_LEVEL_THRESHOLD

WLSelect ==
  /\ pc = "wear"
  /\ \/ \E s, d \in Block :
          /\ WearLevelPair(s, d)
          /\ src' = s /\ dst' = d /\ cursor' = 0 /\ pc' = "move"
          /\ UNCHANGED returnTo
     \/ /\ \A s, d \in Block : ~ WearLevelPair(s, d)
        /\ Return
  /\ UNCHANGED <<flashVars, mappingTable, gcCyclesRun, wearLevelInterval>>

\* One iteration of the loop over src; a full dst breaks out of it.
WLMove ==
  /\ pc = "move" /\ cursor < PagesPerBlock
  /\ LET from == <<src, cursor>> IN
     \E lba \in FindLogicalAddress(from) :
       \/ /\ Skips(from, lba)
          /\ NextPage
          /\ UNCHANGED <<flashVars, mappingTable>>
       \/ /\ ~ Skips(from, lba)
          /\ \E p \in PageIndex :
               FirstFreePage(dst, p) /\ CopyPage(lba, from, <<dst, p>>)
          /\ NextPage
       \/ /\ ~ Skips(from, lba)
          /\ ~ HasFreePage(dst)
          /\ cursor' = PagesPerBlock
          /\ UNCHANGED <<flashVars, mappingTable>>
  /\ UNCHANGED <<gcCyclesRun, wearLevelInterval, pc, returnTo, src, dst>>

WLErase ==
  /\ pc = "move" /\ cursor = PagesPerBlock
  /\ EraseBlock(src)
  /\ Return
  /\ UNCHANGED <<mappingTable, gcCyclesRun, wearLevelInterval>>

-----------------------------------------------------------------------------

GCStep == GCSelect \/ GCMigrate \/ GCErase \/ WLSelect \/ WLMove \/ WLErase

\* A wear-leveling pass always fits: the destination was completely free when
\* it was chosen, so it never runs out of pages while pages of the source are
\* left.  The break out of the loop, after which the source would be erased
\* with live pages in it, cannot happen.
WearLevelFits ==
  pc = "move" => Cardinality(FreePages(dst)) >= PagesPerBlock - cursor

=============================================================================

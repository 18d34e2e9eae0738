-------------------------- MODULE ControllerProofs --------------------------
(***************************************************************************)
(* Proofs about SSDController: the cache over nandWrite, for any cache     *)
(* size, any geometry and any set of LBAs.  The lists of the cache appear  *)
(* only as the sets of entries they hold (see PageCacheProofs).            *)
(***************************************************************************)
EXTENDS SSDController, NandWritePathProofs, PageCacheProofs

CacheEntry == [lba : LBA, data : Data, dirty : BOOLEAN]

\* What is read from NAND was written by the host.
HostData == \A a \in Address : pageState[a] # "free" => pageData[a] \in Data

DramOK ==
  /\ lruList \in Seq(CacheEntry) /\ Len(lruList) <= CacheSize
  /\ toNand \in Seq({x \in CacheEntry : x.dirty})
  /\ answer \in Data \cup {Unmapped}

\* Every version of an LBA's data that is newer than NAND's, and the clean
\* copies of NAND's.
InNand == IF writing = NoWrite THEN {} ELSE {writing}
Versions == Range(lruList) \cup Range(toNand) \cup InNand

\* There is at most one of an LBA: in the cache, on its way or in nandWrite.
OneVersion ==
  /\ OneEntryPerLBA(lruList) /\ OneEntryPerLBA(toNand)
  /\ \A x \in Range(lruList), y \in Range(toNand) \cup InNand : x.lba # y.lba
  /\ \A x \in Range(toNand), y \in InNand : x.lba # y.lba

CleanOK == \A x \in Range(lruList) : ~ x.dirty => x.data = Store[x.lba]

CtrlInv == IInv /\ HostData /\ DramOK /\ OneVersion /\ CleanOK

-----------------------------------------------------------------------------
(* The NAND side under the cached controller. *)

\* Pages are copied from pages that hold data, and programmed with what the
\* host wrote.
LEMMA HostDataNext ==
  ASSUME IInv, HostData, [Next]_vars
  PROVE  HostData'
<1> USE DEF HostData
<1>1. CASE UNCHANGED flashVars
  BY <1>1 DEF flashVars
<1>2. CASE Program
  <2>1. writing \in Write
    BY <1>2 DEF IInv, Program, ControlOK, Busy, GCPhases
  <2>2. PICK b \in Block, p \in PageIndex :
          LET programmed == Programmed(pageState, <<b, p>>)
          IN  /\ \/ pageState' = programmed
                 \/ pageState' = Invalidated(programmed, mappingTable[writing.lba])
              /\ pageData' = [pageData EXCEPT ![<<b, p>>] = writing.data]
    BY <1>2 DEF Program
  <2>3. <<b, p>> \in Address /\ writing.data \in Data
    BY <2>1 DEF Address, Write
  <2>4. ASSUME NEW a \in Address, a # <<b, p>>, pageState'[a] # "free"
        PROVE  pageState[a] # "free"
    BY <2>2, <2>3, <2>4 DEF Programmed, Invalidated, IInv, DataOK, FlashTypeOK
  <2> QED
    BY <2>2, <2>3, <2>4 DEF IInv, DataOK, FlashTypeOK
<1>3. CASE GCMigrate \/ WLMove
  <2> DEFINE from == <<src, cursor>>
  <2>1. from \in Address
    BY <1>3, GeometryAssumption
    DEF GCMigrate, WLMove, IInv, LoopsOK, GCTypeOK, Address, PageIndex
  <2>2. CASE ~ UNCHANGED flashVars
    <3>1. PICK lba \in FindLogicalAddress(from), to \in Address :
            ~ Skips(from, lba) /\ CopyPage(lba, from, to)
      <4>1. CASE GCMigrate
        BY <2>2, <4>1 DEF GCMigrate
      <4>2. CASE WLMove
        <5>1. dst \in Block
          BY <4>2 DEF WLMove, IInv, LoopsOK
        <5> QED
          BY <2>2, <4>2, <5>1 DEF WLMove, Address
      <4> QED
        BY <1>3, <4>1, <4>2
    <3>2. pageState[from] = "valid" /\ pageData[from] \in Data
      BY <2>1, <3>1 DEF Skips
    <3> QED
      BY <3>1, <3>2 DEF CopyPage, ProgramPage, Programmed, IInv, DataOK, FlashTypeOK
  <2> QED
    BY <1>1, <2>2
<1>4. CASE GCErase \/ WLErase
  <2>1. EraseBlock(src)
    BY <1>4 DEF GCErase, WLErase
  <2> QED
    BY <2>1 DEF EraseBlock
<1>5. CASE Host \/ ForceGC \/ DropWrite \/ GCSelect \/ WLSelect \/ UNCHANGED vars
  <2>1. UNCHANGED flashVars
    BY <1>5 DEF Host, HostWrite, BeginNandWrite, HostCollect, HostSetInterval, ForceGC,
                DropWrite, GCSelect, WLSelect, vars
  <2> QED
    BY <1>1, <2>1
<1> QED
  BY <1>2, <1>3, <1>4, <1>5 DEF Next, Controller, Collect, GCStep

\* A read of a mapped LBA returns data the host wrote.
LEMMA MappedData ==
  ASSUME IInv, HostData, NEW l \in LBA, HasMapping(l)
  PROVE  pageData[mappingTable[l]] \in Data /\ Store[l] = pageData[mappingTable[l]]
<1>1. mappingTable[l] \in Address /\ pageState[mappingTable[l]] = "valid"
  BY DEF IInv, DataOK, MappingTypeOK, MappingIntegrity, HasMapping
<1> QED
  BY <1>1 DEF HostData, Store

\* Between the calls of the host nothing is on its way to NAND.
LEMMA ReadyFacts ==
  ASSUME IInv, Ready
  PROVE  /\ pc = "idle" /\ writing = NoWrite /\ InNand = {}
         /\ toNand = <<>> /\ Range(toNand) = {}
<1>1. writing = NoWrite
  BY DEF Ready, Idle, IInv, ControlOK, Busy, GCPhases
<1> QED
  BY <1>1 DEF Ready, Idle, InNand, Range

-----------------------------------------------------------------------------
(* Calls that only change the cache. *)

\* A hit of write or read.
LEMMA HitFacts ==
  ASSUME CtrlInv, Ready, NEW l \in LBA, Cached(lruList, l),
         NEW e \in CacheEntry, e.lba = l, e.dirty \/ e.data = Store[l],
         lruList' = ToFront(lruList, l, e), UNCHANGED <<vars, toNand>>,
         answer' \in Data \cup {Unmapped}
  PROVE  /\ DramOK' /\ OneVersion' /\ CleanOK'
         /\ Range(lruList)' = {e} \cup {x \in Range(lruList) : x.lba # l}
<1>1. /\ writing = NoWrite /\ InNand' = {} /\ Store' = Store
      /\ toNand = <<>> /\ Range(toNand)' = {}
  BY ReadyFacts DEF CtrlInv, InNand, Store, HasMapping, vars, flashVars
<1>2. /\ lruList' \in Seq(CacheEntry) /\ Len(lruList') = Len(lruList)
      /\ OneEntryPerLBA(lruList')
      /\ Range(lruList') = {e} \cup {x \in Range(lruList) : x.lba # l}
  BY ToFrontFacts DEF CtrlInv, DramOK, OneVersion
<1>3. DramOK'
  BY <1>1, <1>2 DEF CtrlInv, DramOK
<1>4. OneVersion'
  BY <1>1, <1>2 DEF CtrlInv, OneVersion
<1>5. CleanOK'
  BY <1>1, <1>2 DEF CtrlInv, CleanOK
<1> QED
  BY <1>2, <1>3, <1>4, <1>5

\* A miss of write or read.
LEMMA MissFacts ==
  ASSUME CtrlInv, Ready, CacheSize > 0,
         NEW e \in CacheEntry, ~ Cached(lruList, e.lba), e.dirty \/ e.data = Store[e.lba],
         lruList' = Inserted(lruList, e), toNand' = DirtyVictim(lruList),
         UNCHANGED vars, answer' \in Data \cup {Unmapped}
  PROVE  /\ DramOK' /\ OneVersion' /\ CleanOK'
         /\ Len(toNand') <= 1
         /\ Range(Evicted(lruList)) \subseteq Range(lruList)
         /\ Range(lruList)' = {e} \cup Range(Evicted(lruList))
         /\ Range(toNand)'
              = {x \in Range(lruList) : x \notin Range(Evicted(lruList)) /\ x.dirty}
<1> DEFINE rest == Evicted(lruList)
<1>1. writing = NoWrite /\ InNand' = {} /\ Store' = Store
  BY ReadyFacts DEF CtrlInv, InNand, Store, HasMapping, vars, flashVars
<1>2. /\ lruList' \in Seq(CacheEntry) /\ Len(lruList') <= CacheSize
      /\ OneEntryPerLBA(lruList')
      /\ Range(lruList') = {e} \cup Range(rest)
  BY InsertedFacts DEF CtrlInv, DramOK, OneVersion
<1>3. Range(rest) \subseteq Range(lruList)
  BY EvictedFacts DEF CtrlInv, DramOK, OneVersion
<1>4. /\ toNand' \in Seq({x \in CacheEntry : x.dirty}) /\ Len(toNand') <= 1
      /\ OneEntryPerLBA(toNand')
      /\ Range(toNand') = {x \in Range(lruList) : x \notin Range(rest) /\ x.dirty}
      /\ \A x \in Range(toNand') : ~ Cached(rest, x.lba)
  BY DirtyVictimFacts DEF CtrlInv, DramOK, OneVersion
<1>5. DramOK'
  BY <1>2, <1>4 DEF DramOK
<1>6. ASSUME NEW x \in Range(lruList'), NEW y \in Range(toNand')
      PROVE  x.lba # y.lba
  <2>1. CASE x = e
    BY <1>4, <2>1, CachedInRange
  <2>2. CASE x \in Range(rest)
    BY <1>4, <2>2, CachedInRange
  <2> QED
    BY <1>2, <2>1, <2>2
<1>7. OneVersion'
  BY <1>1, <1>2, <1>4, <1>6 DEF OneVersion
<1>8. CleanOK'
  BY <1>1, <1>2, <1>3 DEF CtrlInv, CleanOK
<1> QED
  BY <1>2, <1>3, <1>4, <1>5, <1>7, <1>8

\* flushCache.
LEMMA FlushFacts ==
  ASSUME CtrlInv, FlushCache
  PROVE  /\ DramOK' /\ OneVersion' /\ CleanOK'
         /\ Len(toNand') <= CacheSize
         /\ Range(lruList)' = {}
         /\ Range(toNand)' = {x \in Range(lruList) : x.dirty}
<1>1. /\ Ready /\ lruList' = <<>> /\ toNand' = DirtyEntries(lruList)
      /\ UNCHANGED <<vars, answer>>
  BY DEF FlushCache
<1>2. writing = NoWrite /\ InNand' = {}
  BY <1>1, ReadyFacts DEF CtrlInv, InNand, vars
<1>3. /\ toNand' \in Seq({x \in CacheEntry : x.dirty}) /\ Len(toNand') <= Len(lruList)
      /\ OneEntryPerLBA(toNand')
      /\ Range(toNand') = {x \in Range(lruList) : x.dirty}
  BY <1>1, DirtyEntriesFacts DEF CtrlInv, DramOK, OneVersion
<1>4. Range(lruList') = {}
  BY <1>1 DEF Range
<1>5. Len(lruList) \in Nat /\ Len(lruList) <= CacheSize /\ Len(toNand') <= CacheSize
  <2>1. Len(lruList) \in Nat /\ Len(toNand') \in Nat
    BY <1>3, LenProperties DEF CtrlInv, DramOK
  <2> QED
    BY <1>3, <2>1, CacheSizeAssumption DEF CtrlInv, DramOK
<1>6. DramOK'
  BY <1>1, <1>3, CacheSizeAssumption DEF CtrlInv, DramOK
<1>7. OneVersion'
  BY <1>1, <1>2, <1>3, <1>4 DEF OneVersion, OneEntryPerLBA
<1>8. CleanOK'
  BY <1>4 DEF CleanOK
<1> QED
  BY <1>3, <1>4, <1>5, <1>6, <1>7, <1>8

\* Every call that only changes the cache keeps the DRAM side in order.
LEMMA CacheCallInv ==
  ASSUME CtrlInv, CtrlNext, UNCHANGED vars
  PROVE  DramOK' /\ OneVersion' /\ CleanOK'
<1>1. CASE UNCHANGED <<lruList, toNand>> /\ answer' \in Data \cup {Unmapped}
  BY <1>1 DEF CtrlInv, DramOK, OneVersion, CleanOK, InNand, Store, HasMapping, vars,
              flashVars
<1>2. ASSUME NEW l \in LBA, NEW d \in Data, CtrlWrite(l, d), IsEnabled(CacheSize)
      PROVE  DramOK' /\ OneVersion' /\ CleanOK'
  <2> DEFINE e == Written(lruList, l, d)
  <2>1. e \in CacheEntry /\ e.lba = l /\ e.dirty
    BY DEF Written, Entry, CacheEntry
  <2>2. Ready /\ CacheSize > 0 /\ answer' \in Data \cup {Unmapped}
    BY <1>2 DEF CtrlWrite, IsEnabled, CtrlInv, DramOK
  <2>3. CASE Cached(lruList, l)
    <3>1. lruList' = ToFront(lruList, l, e) /\ UNCHANGED toNand
      BY <1>2, <2>3 DEF CtrlWrite
    <3> HIDE DEF e
    <3> QED
      BY <2>1, <2>2, <2>3, <3>1, HitFacts
  <2>4. CASE ~ Cached(lruList, l)
    <3>1. lruList' = Inserted(lruList, e) /\ toNand' = DirtyVictim(lruList)
      BY <1>2, <2>4 DEF CtrlWrite
    <3> HIDE DEF e
    <3> QED
      BY <2>1, <2>2, <2>4, <3>1, MissFacts
  <2> QED
    BY <2>3, <2>4
<1>3. ASSUME NEW l \in LBA, ReadHit(l)
      PROVE  DramOK' /\ OneVersion' /\ CleanOK'
  <2> DEFINE e == CachedEntry(lruList, l)
  <2>1. Ready /\ Cached(lruList, l) /\ lruList' = ToFront(lruList, l, e)
        /\ UNCHANGED toNand /\ answer' = e.data
    BY <1>3 DEF ReadHit
  <2>2. e \in Range(lruList) /\ e.lba = l
    BY <2>1, CachedFacts DEF CtrlInv, DramOK, OneVersion
  <2>3. e \in CacheEntry
    BY <2>2, ElementOfSeq, LenProperties DEF CtrlInv, DramOK, Range
  <2>4. (e.dirty \/ e.data = Store[l]) /\ answer' \in Data \cup {Unmapped}
    BY <2>1, <2>2, <2>3 DEF CtrlInv, CleanOK, CacheEntry
  <2> HIDE DEF e
  <2> QED
    BY <2>1, <2>2, <2>3, <2>4, HitFacts
<1>4. ASSUME NEW l \in LBA, ReadMiss(l)
      PROVE  DramOK' /\ OneVersion' /\ CleanOK'
  <2> DEFINE e == Entry(l, pageData[mappingTable[l]], FALSE)
  <2>1. Ready /\ pageData[mappingTable[l]] \in Data
        /\ pageData[mappingTable[l]] = Store[l] /\ answer' \in Data \cup {Unmapped}
    BY <1>4, MappedData DEF ReadMiss, CtrlInv
  <2>2. CASE IsEnabled(CacheSize)
    <3>1. ~ Cached(lruList, l) /\ CacheSize > 0
          /\ lruList' = Inserted(lruList, e) /\ toNand' = DirtyVictim(lruList)
      BY <1>4, <2>2 DEF ReadMiss, IsEnabled
    <3>2. e \in CacheEntry /\ e.lba = l /\ e.data = Store[e.lba]
      BY <2>1 DEF Entry, CacheEntry
    <3> HIDE DEF e
    <3> QED
      BY <2>1, <3>1, <3>2, MissFacts
  <2>3. CASE ~ IsEnabled(CacheSize)
    BY <1>1, <1>4, <2>1, <2>3 DEF ReadMiss
  <2> QED
    BY <2>2, <2>3
<1>5. ASSUME NEW l \in LBA, ReadUnmapped(l)
      PROVE  DramOK' /\ OneVersion' /\ CleanOK'
  BY <1>1, <1>5 DEF ReadUnmapped
<1>6. CASE FlushCache
  BY <1>6, FlushFacts
<1>7. ASSUME NEW l \in LBA, NEW d \in Data, CtrlWrite(l, d), ~ IsEnabled(CacheSize)
      PROVE  DramOK' /\ OneVersion' /\ CleanOK'
  BY <1>1, <1>7 DEF CtrlWrite, CtrlInv, DramOK
<1>8. ASSUME NextNandWrite
      PROVE  FALSE
  <2>1. pc = "idle" /\ pc' # "idle"
    BY <1>8 DEF NextNandWrite, BeginNandWrite, CallGC
  <2> QED
    BY <2>1 DEF vars, gcVars
<1>9. CASE CtrlCollect \/ (\E n \in Intervals : CtrlSetInterval(n))
           \/ (Controller /\ UNCHANGED <<lruList, toNand, answer>>)
  BY <1>1, <1>9 DEF CtrlCollect, CtrlSetInterval, CtrlInv, DramOK
<1> QED
  BY <1>2, <1>3, <1>4, <1>5, <1>6, <1>7, <1>8, <1>9 DEF CtrlNext, CtrlHost, CtrlController

-----------------------------------------------------------------------------
(* Calls and steps that reach NAND. *)

\* What the NAND side does of its own, and the host's calls the cache takes no
\* part in.
NandStep ==
  \/ Ready /\ HostCollect
  \/ \E n \in Intervals : HostSetInterval(n)
  \/ Controller
  \/ UNCHANGED vars

\* A step changes the cache, starts a nandWrite or belongs to the NAND side.
LEMMA StepKinds ==
  ASSUME CtrlInv, [CtrlNext]_ctrlVars
  PROVE  \/ CtrlNext /\ UNCHANGED vars
         \/ \E l \in LBA, d \in Data : CtrlWrite(l, d) /\ ~ IsEnabled(CacheSize)
         \/ NextNandWrite
         \/ NandStep /\ UNCHANGED <<lruList, toNand, answer>>
<1>1. ASSUME NEW l \in LBA, NEW d \in Data, CtrlWrite(l, d)
      PROVE  UNCHANGED vars \/ ~ IsEnabled(CacheSize)
  BY <1>1 DEF CtrlWrite
<1>2. CASE \E l \in LBA : ReadHit(l) \/ ReadMiss(l) \/ ReadUnmapped(l)
  BY <1>2 DEF ReadHit, ReadMiss, ReadUnmapped, CtrlNext, CtrlHost
<1>3. CASE FlushCache
  BY <1>3 DEF FlushCache, CtrlNext, CtrlHost
<1>4. CASE CtrlCollect \/ \E n \in Intervals : CtrlSetInterval(n)
  BY <1>4 DEF CtrlCollect, CtrlSetInterval, NandStep
<1>5. CASE CtrlController
  BY <1>5 DEF CtrlController, NandStep
<1>6. CASE UNCHANGED ctrlVars
  BY <1>6 DEF ctrlVars, NandStep
<1> QED
  BY <1>1, <1>2, <1>3, <1>4, <1>5, <1>6 DEF CtrlNext, CtrlHost

\* The NAND side commits the write in progress, drops it, or shows nothing.
LEMMA NandStepStore ==
  ASSUME IInv, NoLBA \notin LBA, NandStep
  PROVE  /\ [Next]_vars
         /\ \/ Lossy!Commit
            \/ DropWrite /\ Lossy!Drop
            \/ Store' = Store /\ writing' = writing
<1>1. [Next]_vars
  BY DEF NandStep, Next, Host
<1>2. writing' = writing \/ writing' = NoWrite
  BY DEF NandStep, HostCollect, HostSetInterval, Controller, Program, ForceGC, DropWrite,
         Finish, Collect, vars
<1>3. ~ \E l \in LBA, d \in Data : Lossy!Accept(l, d)
  BY <1>2, HostAssumption DEF Lossy!Accept, Write
<1> QED
  BY <1>1, <1>3, StepOfStore DEF Lossy!deviceVars

\* An evicted or flushed entry is one of the host's writes.
LEMMA NextEntry ==
  ASSUME DramOK, OneVersion, toNand # <<>>
  PROVE  /\ Head(toNand) \in Range(toNand) /\ Head(toNand) \in CacheEntry
         /\ Head(toNand).lba \in LBA /\ Head(toNand).data \in Data
         /\ Tail(toNand) \in Seq({x \in CacheEntry : x.dirty})
         /\ Len(toNand) \in Nat /\ Len(Tail(toNand)) = Len(toNand) - 1
         /\ OneEntryPerLBA(Tail(toNand))
         /\ Range(Tail(toNand)) = {x \in Range(toNand) : x.lba # Head(toNand).lba}
<1>1. /\ Head(toNand) \in {x \in CacheEntry : x.dirty} /\ Head(toNand) \in Range(toNand)
      /\ Tail(toNand) \in Seq({x \in CacheEntry : x.dirty})
      /\ Len(toNand) \in Nat /\ Len(Tail(toNand)) = Len(toNand) - 1
      /\ OneEntryPerLBA(Tail(toNand))
      /\ Range(Tail(toNand)) = {x \in Range(toNand) : x.lba # Head(toNand).lba}
  BY TailFacts DEF DramOK, OneVersion
<1> QED
  BY <1>1 DEF CacheEntry

\* A disabled cache holds nothing.
LEMMA DisabledCache ==
  ASSUME DramOK, ~ IsEnabled(CacheSize)
  PROVE  lruList = <<>> /\ Range(lruList) = {}
<1>1. Len(lruList) \in Nat
  BY LenProperties DEF DramOK
<1>2. Len(lruList) = 0
  BY <1>1, CacheSizeAssumption DEF DramOK, IsEnabled
<1>3. lruList = <<>>
  BY <1>1, <1>2, EmptySeq DEF DramOK
<1> QED
  BY <1>3 DEF Range

LEMMA EntriesTyped ==
  ASSUME DramOK
  PROVE  \A x \in Range(lruList) \cup Range(toNand) : x \in CacheEntry
<1>1. \A x \in Range(lruList) : x \in CacheEntry
  BY ElementOfSeq, LenProperties DEF DramOK, Range
<1>2. \A x \in Range(toNand) : x \in {y \in CacheEntry : y.dirty}
  BY ElementOfSeq, LenProperties DEF DramOK, Range
<1> QED
  BY <1>1, <1>2

\* A nandWrite that starts takes its version of the LBA from the cache's hands.
LEMMA BeginFacts ==
  ASSUME CtrlInv, NoLBA \notin LBA,
         \/ \E l \in LBA, d \in Data : CtrlWrite(l, d) /\ ~ IsEnabled(CacheSize)
         \/ NextNandWrite
  PROVE  \E l \in LBA, d \in Data :
           /\ pc = "idle" /\ BeginNandWrite(l, d)
           /\ writing = NoWrite /\ writing' = [lba |-> l, data |-> d]
           /\ Store' = Store
           /\ InNand = {} /\ InNand' = {[lba |-> l, data |-> d]}
           /\ DramOK' /\ OneVersion' /\ CleanOK'
<1>1. ASSUME NEW l \in LBA, NEW d \in Data, pc = "idle", BeginNandWrite(l, d)
      PROVE  /\ writing = NoWrite /\ writing' = [lba |-> l, data |-> d]
             /\ Store' = Store
             /\ InNand = {} /\ InNand' = {[lba |-> l, data |-> d]}
  <2>1. writing = NoWrite /\ writing' = [lba |-> l, data |-> d] /\ Store' = Store
    BY <1>1, BeginStore DEF CtrlInv
  <2>2. writing' # NoWrite
    BY <2>1, HostAssumption DEF Write
  <2> QED
    BY <2>1, <2>2 DEF InNand
<1>2. ASSUME NEW l \in LBA, NEW d \in Data, CtrlWrite(l, d), ~ IsEnabled(CacheSize)
      PROVE  /\ pc = "idle" /\ BeginNandWrite(l, d)
             /\ DramOK' /\ OneVersion' /\ CleanOK'
  <2>1. /\ pc = "idle" /\ BeginNandWrite(l, d) /\ toNand = <<>>
        /\ UNCHANGED <<lruList, toNand, answer>>
    BY <1>2 DEF CtrlWrite, Ready, Idle
  <2>2. Range(lruList') = {} /\ Range(toNand') = {}
    BY <2>1, DisabledCache, <1>2 DEF CtrlInv, Range
  <2> QED
    BY <2>1, <2>2 DEF CtrlInv, DramOK, OneVersion, CleanOK
<1>3. ASSUME NextNandWrite
      PROVE  \E l \in LBA, d \in Data :
               /\ pc = "idle" /\ BeginNandWrite(l, d)
               /\ DramOK' /\ OneVersion' /\ CleanOK'
  <2> DEFINE l == Head(toNand).lba
             d == Head(toNand).data
  <2>1. /\ pc = "idle" /\ toNand # <<>> /\ BeginNandWrite(l, d)
        /\ toNand' = Tail(toNand) /\ UNCHANGED <<lruList, answer>>
    BY <1>3 DEF NextNandWrite
  <2>2. /\ l \in LBA /\ d \in Data /\ Head(toNand) \in Range(toNand)
        /\ toNand' \in Seq({x \in CacheEntry : x.dirty})
        /\ OneEntryPerLBA(toNand')
        /\ Range(toNand') = {x \in Range(toNand) : x.lba # l}
    BY <2>1, NextEntry DEF CtrlInv
  <2>3. InNand' = {[lba |-> l, data |-> d]} /\ Store' = Store
    BY <1>1, <2>1, <2>2
  <2>4. DramOK'
    BY <2>1, <2>2 DEF CtrlInv, DramOK
  <2>5. \A x \in Range(lruList) : x.lba # l
    BY <2>2 DEF CtrlInv, OneVersion
  <2>6. OneVersion'
    BY <2>1, <2>2, <2>3, <2>5 DEF CtrlInv, OneVersion
  <2>7. CleanOK'
    BY <2>1, <2>3 DEF CtrlInv, CleanOK
  <2> QED
    BY <2>1, <2>2, <2>4, <2>6, <2>7
<1> QED
  BY <1>1, <1>2, <1>3

\* Commits and drops of the NAND side: what is left in DRAM is about other LBAs.
LEMMA NandStepInv ==
  ASSUME CtrlInv, NoLBA \notin LBA, NandStep, UNCHANGED <<lruList, toNand, answer>>
  PROVE  DramOK' /\ OneVersion' /\ CleanOK'
<1>1. DramOK'
  BY DEF CtrlInv, DramOK
<1>2. writing' = writing \/ writing' = NoWrite
  BY NandStepStore DEF CtrlInv, Lossy!Commit, Lossy!Drop
<1>3. InNand' \subseteq InNand
  BY <1>2 DEF InNand
<1>4. OneVersion'
  BY <1>3 DEF CtrlInv, OneVersion
<1>5. ASSUME NEW x \in Range(lruList)
      PROVE  Store'[x.lba] = Store[x.lba]
  <2>1. CASE Lossy!Commit
    <3>1. writing # NoWrite /\ Store' = [Store EXCEPT ![writing.lba] = writing.data]
      BY <2>1 DEF Lossy!Commit
    <3>2. x.lba # writing.lba
      BY <3>1 DEF CtrlInv, OneVersion, InNand
    <3>3. x.lba \in LBA
      BY EntriesTyped DEF CtrlInv, CacheEntry
    <3> QED
      BY <3>1, <3>2, <3>3 DEF Store
  <2>2. CASE ~ Lossy!Commit
    BY <2>2, NandStepStore DEF CtrlInv, Lossy!Drop
  <2> QED
    BY <2>1, <2>2
<1>6. CleanOK'
  BY <1>5 DEF CtrlInv, CleanOK
<1> QED
  BY <1>1, <1>4, <1>6

\* A drive that no call has reached yet, whatever its wear-leveling interval and
\* the locals of collections before it.
FreshDrive ==
  /\ FlashInit /\ MappingInit /\ GCTypeOK
  /\ pc = "idle" /\ writing = NoWrite
  /\ lruList = <<>> /\ toNand = <<>> /\ answer = Unmapped

LEMMA FreshDriveInv == FreshDrive => CtrlInv
<1> SUFFICES ASSUME FreshDrive PROVE CtrlInv
  OBVIOUS
<1>1. IInv
  <2> USE DEF FreshDrive, FlashInit, MappingInit
  <2>1. DataOK
    BY DEF DataOK, FlashTypeOK, MappingTypeOK, MappingIntegrity, HasMapping,
           ProgrammedInOrder, Address
  <2>2. GCTypeOK
    OBVIOUS
  <2>3. ControlOK /\ LoopsOK
    BY DEF ControlOK, Busy, LoopsOK, GCPhases
  <2> QED
    BY <2>1, <2>2, <2>3 DEF IInv
<1>2. HostData
  BY DEF FreshDrive, FlashInit, HostData
<1>3. Range(lruList) = {} /\ Range(toNand) = {} /\ InNand = {}
  BY DEF FreshDrive, Range, InNand
<1>4. DramOK
  BY CacheSizeAssumption DEF FreshDrive, DramOK
<1>5. OneVersion /\ CleanOK
  BY <1>3 DEF FreshDrive, OneVersion, OneEntryPerLBA, CleanOK
<1> QED
  BY <1>1, <1>2, <1>4, <1>5 DEF CtrlInv

LEMMA CtrlInitFresh == CtrlInit => FreshDrive
BY GeometryAssumption
DEF CtrlInit, Init, GCInit, FreshDrive, GCTypeOK, GCPhases, CallerPhases

LEMMA CtrlInvInit == CtrlInit => CtrlInv
BY CtrlInitFresh, FreshDriveInv

LEMMA CtrlInvNext ==
  ASSUME NoLBA \notin LBA, CtrlInv, [CtrlNext]_ctrlVars
  PROVE  CtrlInv'
<1>1. CASE CtrlNext /\ UNCHANGED vars
  <2>1. IInv' /\ HostData'
    BY <1>1, NextIInv, HostDataNext DEF CtrlInv
  <2> QED
    BY <1>1, <2>1, CacheCallInv DEF CtrlInv
<1>2. CASE \/ \E l \in LBA, d \in Data : CtrlWrite(l, d) /\ ~ IsEnabled(CacheSize)
           \/ NextNandWrite
  <2>1. PICK l \in LBA, d \in Data :
          pc = "idle" /\ BeginNandWrite(l, d) /\ DramOK' /\ OneVersion' /\ CleanOK'
    BY <1>2, BeginFacts
  <2>2. IInv'
    BY <2>1, BeginInv DEF CtrlInv
  <2>3. HostData'
    BY <2>1 DEF BeginNandWrite, flashVars, CtrlInv, HostData
  <2> QED
    BY <2>1, <2>2, <2>3 DEF CtrlInv
<1>3. CASE NandStep /\ UNCHANGED <<lruList, toNand, answer>>
  <2>1. [Next]_vars
    BY <1>3, NandStepStore DEF CtrlInv
  <2>2. IInv' /\ HostData'
    BY <2>1, NextIInv, HostDataNext DEF CtrlInv
  <2> QED
    BY <1>3, <2>2, NandStepInv DEF CtrlInv
<1> QED
  BY <1>1, <1>2, <1>3, StepKinds

LEMMA CtrlInvariance ==
  ASSUME NoLBA \notin LBA
  PROVE  CtrlSpec => []CtrlInv
<1>1. CtrlInv /\ [CtrlNext]_ctrlVars => CtrlInv'
  BY CtrlInvNext
<1> QED
  BY CtrlInvInit, <1>1, PTL DEF CtrlSpec

-----------------------------------------------------------------------------
(* The cache is coherent. *)

LEMMA CtrlInvTypes == CtrlInv => CtrlTypeOK
<1> SUFFICES ASSUME CtrlInv PROVE CtrlTypeOK
  OBVIOUS
<1>1. TypeOK
  BY DEF CtrlInv, IInv, DataOK, ControlOK, TypeOK
<1>2. {x \in CacheEntry : x.dirty} = [lba : LBA, data : Data, dirty : {TRUE}]
  BY DEF CacheEntry
<1> QED
  BY <1>1, <1>2 DEF CtrlInv, DramOK, CtrlTypeOK, CacheEntry

\* Types of the cached controller in every reachable state: also, the list
\* never outgrows the cache, and only dirty entries are handed to NAND.
THEOREM CtrlTypeCorrectness ==
  ASSUME NoLBA \notin LBA
  PROVE  CtrlSpec => []CtrlTypeOK
BY CtrlInvariance, CtrlInvTypes, PTL

\* No LBA has two versions in DRAM: neither twice in the cache, nor in the cache
\* while an older one waits for NAND or is being written there.
THEOREM OneVersionPerLBA ==
  ASSUME NoLBA \notin LBA
  PROVE  CtrlSpec => []OneVersionInDRAM
<1>1. CtrlInv => OneVersionInDRAM
  <2> SUFFICES ASSUME CtrlInv PROVE OneVersionInDRAM
    OBVIOUS
  <2>1. ASSUME NEW i \in DOMAIN toNand
        PROVE  /\ ~ Cached(lruList, toNand[i].lba)
               /\ writing # NoWrite => toNand[i].lba # writing.lba
    BY CachedInRange DEF CtrlInv, OneVersion, Range, InNand
  <2> QED
    BY <2>1 DEF CtrlInv, OneVersion, OneEntryPerLBA, OneVersionInDRAM
<1> QED
  BY CtrlInvariance, <1>1, PTL

\* What the cache discards without writing it back is in NAND, whatever garbage
\* collection and wear leveling did since it was read.
THEOREM CleanEntriesCoherent ==
  ASSUME NoLBA \notin LBA
  PROVE  CtrlSpec => []CleanEntriesInNand
<1>1. CtrlInv => CleanEntriesInNand
  BY DEF CtrlInv, CleanOK, CleanEntriesInNand, Range
<1> QED
  BY CtrlInvariance, <1>1, PTL

-----------------------------------------------------------------------------
(* The drive is a disk. *)

\* What View shows: the one version of the LBA above NAND, or what NAND holds.
ViewOK ==
  /\ \A x \in Versions : View(x.lba) = x.data
  /\ \A l \in LBA : (\A x \in Versions : x.lba # l) => View(l) = Store[l]

LEMMA ViewFacts == CtrlInv => ViewOK
<1> SUFFICES ASSUME CtrlInv PROVE ViewOK
  OBVIOUS
<1>1. ASSUME NEW x \in Range(lruList)
      PROVE  View(x.lba) = x.data
  BY CachedFacts DEF CtrlInv, DramOK, OneVersion, View
<1>2. ASSUME NEW x \in Range(toNand)
      PROVE  View(x.lba) = x.data
  <2>1. ~ Cached(lruList, x.lba)
    BY CachedInRange DEF CtrlInv, OneVersion
  <2>2. Cached(toNand, x.lba) /\ CachedEntry(toNand, x.lba) = x
    BY CachedFacts DEF CtrlInv, DramOK, OneVersion
  <2> QED
    BY <2>1, <2>2 DEF View
<1>3. ASSUME NEW x \in InNand
      PROVE  View(x.lba) = x.data
  <2>1. ~ Cached(lruList, x.lba) /\ ~ Cached(toNand, x.lba)
    BY CachedInRange DEF CtrlInv, OneVersion
  <2>2. writing # NoWrite /\ x = writing
    BY DEF InNand
  <2> QED
    BY <2>1, <2>2 DEF View
<1>4. ASSUME NEW l \in LBA, \A x \in Versions : x.lba # l
      PROVE  View(l) = Store[l]
  <2>1. ~ Cached(lruList, l) /\ ~ Cached(toNand, l)
    BY <1>4, CachedInRange DEF Versions
  <2>2. writing # NoWrite => writing.lba # l
    BY <1>4 DEF Versions, InNand
  <2> QED
    BY <2>1, <2>2 DEF View
<1> QED
  BY <1>1, <1>2, <1>3, <1>4 DEF Versions, ViewOK

\* A step that brings no other data for k shows the same.
LEMMA SameView ==
  ASSUME ViewOK, ViewOK', NEW k \in LBA,
         \A y \in Versions' : y.lba = k => \E x \in Versions : x.lba = k /\ x.data = y.data,
         (\A y \in Versions' : y.lba # k) =>
           \/ \E x \in Versions : x.lba = k /\ x.data = Store'[k]
           \/ (\A x \in Versions : x.lba # k) /\ Store'[k] = Store[k]
  PROVE  View(k)' = View(k)
<1> DEFINE shown == View(k)
<1>1. /\ \A x \in Versions : x.lba = k => View(k) = x.data
      /\ (\A x \in Versions : x.lba # k) => View(k) = Store[k]
  BY DEF ViewOK
<1>2. /\ \A y \in Versions' : y.lba = k => View(k)' = y.data
      /\ (\A y \in Versions' : y.lba # k) => View(k)' = Store'[k]
  BY DEF ViewOK
<1> QED
  BY <1>1, <1>2

\* write takes effect at once, at its own LBA only.
LEMMA WriteShown ==
  ASSUME CtrlInv, NoLBA \notin LBA, ViewOK, ViewOK',
         NEW l \in LBA, NEW d \in Data, CtrlWrite(l, d)
  PROVE  \A k \in LBA : View(k)' = IF k = l THEN d ELSE View(k)
<1>1. Ready /\ toNand = <<>> /\ Versions = Range(lruList)
  BY ReadyFacts DEF CtrlWrite, CtrlInv, Versions
<1>2. CASE ~ IsEnabled(CacheSize)
  <2>1. pc = "idle" /\ BeginNandWrite(l, d) /\ UNCHANGED <<lruList, toNand>>
    BY <1>2 DEF CtrlWrite, Ready, Idle
  <2>2. /\ Store' = Store /\ writing' = [lba |-> l, data |-> d] /\ writing' # NoWrite
    BY <2>1, BeginStore, HostAssumption DEF CtrlInv, Write
  <2>3. Versions = {} /\ Versions' = {[lba |-> l, data |-> d]}
    BY <1>1, <1>2, <2>1, <2>2, DisabledCache DEF CtrlInv, Versions, InNand, Range
  <2>4. View(l)' = d
    BY <2>3 DEF ViewOK
  <2>5. ASSUME NEW k \in LBA, k # l
        PROVE  View(k)' = View(k)
    BY <2>2, <2>3, <2>5, SameView
  <2> QED
    BY <2>4, <2>5
<1>3. CASE IsEnabled(CacheSize)
  <2> DEFINE e == Written(lruList, l, d)
  <2>1. e \in CacheEntry /\ e.lba = l /\ e.data = d /\ e.dirty
    BY DEF Written, Entry, CacheEntry
  <2>2. /\ CacheSize > 0 /\ UNCHANGED vars /\ answer' \in Data \cup {Unmapped}
        /\ InNand' = {} /\ Store' = Store
    BY <1>1, <1>3, ReadyFacts
    DEF CtrlWrite, IsEnabled, CtrlInv, DramOK, vars, flashVars, InNand, Store, HasMapping
  <2>3. /\ e \in Versions'
        /\ \A y \in Versions' : y.lba # l => y \in Versions
        /\ \A x \in Versions : x.lba # l /\ x \notin Versions' => x.data = Store[x.lba]
    <3>1. CASE Cached(lruList, l)
      <4>1. lruList' = ToFront(lruList, l, e) /\ toNand' = toNand
        BY <1>3, <3>1 DEF CtrlWrite
      <4> HIDE DEF e
      <4>2. Range(lruList)' = {e} \cup {x \in Range(lruList) : x.lba # l}
        BY <1>1, <2>1, <2>2, <3>1, <4>1, HitFacts
      <4>3. Versions' = {e} \cup {x \in Versions : x.lba # l}
        BY <1>1, <2>2, <4>1, <4>2 DEF Versions, Range
      <4> QED
        BY <2>1, <4>3
    <3>2. CASE ~ Cached(lruList, l)
      <4>1. lruList' = Inserted(lruList, e) /\ toNand' = DirtyVictim(lruList)
        BY <1>3, <3>2 DEF CtrlWrite
      <4> HIDE DEF e
      <4>2. /\ Range(Evicted(lruList)) \subseteq Range(lruList)
            /\ Range(lruList)' = {e} \cup Range(Evicted(lruList))
            /\ Range(toNand)'
                 = {x \in Range(lruList) : x \notin Range(Evicted(lruList)) /\ x.dirty}
        BY <1>1, <2>1, <2>2, <3>2, <4>1, MissFacts
      <4> QED
        BY <1>1, <2>1, <2>2, <4>2 DEF Versions, CtrlInv, CleanOK
    <3> QED
      BY <3>1, <3>2
  <2> HIDE DEF e
  <2>4. View(l)' = d
    BY <2>1, <2>3 DEF ViewOK
  <2>5. ASSUME NEW k \in LBA, k # l
        PROVE  View(k)' = View(k)
    BY <2>2, <2>3, <2>5, SameView
  <2> QED
    BY <2>4, <2>5
<1> QED
  BY <1>2, <1>3

\* read returns what is shown, and shows nothing else afterwards.
LEMMA ReadShown ==
  ASSUME CtrlInv, ViewOK, ViewOK', NEW l \in LBA,
         ReadHit(l) \/ ReadMiss(l) \/ ReadUnmapped(l)
  PROVE  answer' = View(l) /\ \A k \in LBA : View(k)' = View(k)
<1>1. /\ Ready /\ toNand = <<>> /\ Versions = Range(lruList) /\ UNCHANGED vars
      /\ InNand' = {} /\ Store' = Store
  <2>1. Ready /\ UNCHANGED vars
    BY DEF ReadHit, ReadMiss, ReadUnmapped
  <2> QED
    BY <2>1, ReadyFacts
    DEF CtrlInv, Versions, vars, flashVars, InNand, Store, HasMapping
<1>2. CASE UNCHANGED <<lruList, toNand>>
  <2>1. Versions' = Versions
    BY <1>1, <1>2, ReadyFacts DEF Versions, CtrlInv
  <2> QED
    <3>1. \A k \in LBA : View(k)' = View(k)
      BY <1>1, <2>1, SameView
    <3>2. ~ (IsEnabled(CacheSize) /\ Cached(lruList, l)) => answer' = Store[l]
      BY MappedData DEF ReadHit, ReadMiss, ReadUnmapped, CtrlInv, Store
    <3>3. CASE Cached(lruList, l) /\ IsEnabled(CacheSize)
      <4>1. answer' = CachedEntry(lruList, l).data
        BY <3>3 DEF ReadHit, ReadMiss, ReadUnmapped
      <4> QED
        BY <3>1, <3>3, <4>1 DEF View
    <3>4. CASE ~ (IsEnabled(CacheSize) /\ Cached(lruList, l))
      <4>1. ~ Cached(lruList, l)
        BY <3>4, DisabledCache, CachedInRange DEF CtrlInv
      <4>2. View(l) = Store[l]
        BY <1>1, <4>1, CachedInRange DEF ViewOK
      <4> QED
        BY <3>1, <3>2, <3>4, <4>2
    <3> QED
      BY <3>3, <3>4
<1>3. CASE ReadHit(l)
  <2> DEFINE e == CachedEntry(lruList, l)
  <2>1. /\ Cached(lruList, l) /\ lruList' = ToFront(lruList, l, e)
        /\ UNCHANGED toNand /\ answer' = e.data
    BY <1>3 DEF ReadHit
  <2>2. e \in Range(lruList) /\ e.lba = l
    BY <2>1, CachedFacts DEF CtrlInv, DramOK, OneVersion
  <2>3. e \in CacheEntry
    BY <2>2, EntriesTyped DEF CtrlInv
  <2>4. (e.dirty \/ e.data = Store[l]) /\ answer' \in Data \cup {Unmapped}
    BY <2>1, <2>2, <2>3 DEF CtrlInv, CleanOK, CacheEntry
  <2> HIDE DEF e
  <2>5. Range(lruList)' = {e} \cup {x \in Range(lruList) : x.lba # l}
    BY <1>1, <2>1, <2>2, <2>3, <2>4, HitFacts
  <2>6. Versions' = {e} \cup {x \in Versions : x.lba # l}
    BY <1>1, <2>1, <2>5 DEF Versions, Range
  <2>7. e \in Versions /\ View(l) = e.data
    BY <1>1, <2>2 DEF ViewOK
  <2>8. ASSUME NEW k \in LBA
        PROVE  View(k)' = View(k)
    <3>1. CASE k = l
      BY <2>2, <2>6, <2>7, <3>1 DEF ViewOK
    <3>2. CASE k # l
      BY <1>1, <2>2, <2>6, <3>2, SameView
    <3> QED
      BY <3>1, <3>2
  <2> QED
    BY <2>1, <2>7, <2>8
<1>4. CASE ReadMiss(l) /\ IsEnabled(CacheSize)
  <2> DEFINE e == Entry(l, pageData[mappingTable[l]], FALSE)
  <2>1. /\ pageData[mappingTable[l]] \in Data /\ pageData[mappingTable[l]] = Store[l]
        /\ answer' = Store[l]
    BY <1>4, MappedData DEF ReadMiss, CtrlInv
  <2>2. /\ ~ Cached(lruList, l) /\ CacheSize > 0
        /\ lruList' = Inserted(lruList, e) /\ toNand' = DirtyVictim(lruList)
    BY <1>4 DEF ReadMiss, IsEnabled
  <2>3. e \in CacheEntry /\ e.lba = l /\ e.data = Store[e.lba]
    BY <2>1 DEF Entry, CacheEntry
  <2> HIDE DEF e
  <2>4. /\ Range(Evicted(lruList)) \subseteq Range(lruList)
        /\ Range(lruList)' = {e} \cup Range(Evicted(lruList))
        /\ Range(toNand)'
             = {x \in Range(lruList) : x \notin Range(Evicted(lruList)) /\ x.dirty}
    BY <1>1, <2>1, <2>2, <2>3, MissFacts
  <2>5. \A x \in Versions : x.lba # l
    BY <1>1, <2>2, CachedInRange
  <2>6. View(l) = Store[l]
    BY <2>5 DEF ViewOK
  <2>7. /\ e \in Versions'
        /\ \A y \in Versions' : y # e => y \in Versions
        /\ \A x \in Versions : x \notin Versions' => x.data = Store[x.lba]
    BY <1>1, <2>4 DEF Versions, CtrlInv, CleanOK
  <2>8. ASSUME NEW k \in LBA
        PROVE  View(k)' = View(k)
    <3>1. CASE k = l
      BY <2>3, <2>6, <2>7, <3>1 DEF ViewOK
    <3>2. CASE k # l
      BY <1>1, <2>3, <2>7, <3>2, SameView
    <3> QED
      BY <3>1, <3>2
  <2> QED
    BY <2>1, <2>6, <2>8
<1> QED
  BY <1>2, <1>3, <1>4 DEF ReadMiss, ReadUnmapped

\* Nothing else the drive does shows: not a flush, not a nandWrite that starts or
\* commits, not a collection.
LEMMA OthersShown ==
  ASSUME CtrlInv, NoLBA \notin LBA, ViewOK, ViewOK',
         \/ FlushCache
         \/ NextNandWrite
         \/ NandStep /\ ~ DropWrite /\ UNCHANGED <<lruList, toNand, answer>>
  PROVE  UNCHANGED answer /\ \A k \in LBA : View(k)' = View(k)
<1>1. CASE FlushCache
  <2>1. /\ Ready /\ Versions = Range(lruList) /\ UNCHANGED answer
        /\ InNand' = {} /\ Store' = Store
    BY <1>1, ReadyFacts
    DEF FlushCache, CtrlInv, Versions, vars, flashVars, InNand, Store, HasMapping
  <2>2. Versions' = {x \in Versions : x.dirty}
    BY <1>1, <2>1, FlushFacts DEF Versions
  <2>3. \A x \in Versions : x \notin Versions' => x.data = Store[x.lba]
    BY <2>1, <2>2 DEF CtrlInv, CleanOK
  <2> QED
    BY <2>1, <2>2, <2>3, SameView
<1>2. CASE NextNandWrite
  <2> DEFINE h == Head(toNand)
             w == [lba |-> h.lba, data |-> h.data]
  <2>1. /\ pc = "idle" /\ toNand # <<>> /\ BeginNandWrite(h.lba, h.data)
        /\ toNand' = Tail(toNand) /\ UNCHANGED <<lruList, answer>>
    BY <1>2 DEF NextNandWrite
  <2>2. /\ h \in Range(toNand) /\ h.lba \in LBA /\ h.data \in Data
        /\ Range(toNand)' = {x \in Range(toNand) : x.lba # h.lba}
    BY <2>1, NextEntry DEF CtrlInv, Range
  <2>3. /\ writing = NoWrite /\ writing' = w /\ w # NoWrite /\ Store' = Store
    BY <2>1, <2>2, BeginStore, HostAssumption DEF CtrlInv, Write
  <2>4. \A x \in Range(lruList) : x.lba # h.lba
    BY <2>2 DEF CtrlInv, OneVersion
  <2>5. Versions' = {x \in Versions : x.lba # h.lba} \cup {w}
    BY <2>1, <2>2, <2>3, <2>4 DEF Versions, InNand, Range
  <2>6. h \in Versions /\ w.lba = h.lba /\ w.data = h.data
    BY <2>2 DEF Versions
  <2> HIDE DEF h, w
  <2>7. ASSUME NEW k \in LBA
        PROVE  View(k)' = View(k)
    BY <2>3, <2>5, <2>6, SameView
  <2> QED
    BY <2>1, <2>7
<1>3. CASE NandStep /\ ~ DropWrite /\ UNCHANGED <<lruList, toNand, answer>>
  <2>1. Lossy!Commit \/ (Store' = Store /\ writing' = writing)
    BY <1>3, NandStepStore DEF CtrlInv
  <2>2. CASE Store' = Store /\ writing' = writing
    <3>1. Versions' = Versions
      BY <1>3, <2>2 DEF Versions, InNand
    <3> QED
      BY <1>3, <2>2, <3>1, SameView
  <2>3. CASE Lossy!Commit
    <3>1. /\ writing # NoWrite /\ writing' = NoWrite
          /\ Store' = [Store EXCEPT ![writing.lba] = writing.data]
      BY <2>3 DEF Lossy!Commit
    <3>2. writing \in Versions /\ writing.lba \in LBA
      BY <3>1 DEF Versions, InNand, CtrlInv, IInv, ControlOK, Write
    <3>3. /\ Versions' = Range(lruList) \cup Range(toNand)
          /\ Versions = Versions' \cup {writing}
          /\ \A x \in Versions' : x.lba # writing.lba
      BY <1>3, <3>1 DEF Versions, InNand, CtrlInv, OneVersion
    <3>4. \A k \in LBA : Store'[k] = IF k = writing.lba THEN writing.data ELSE Store[k]
      BY <3>1, <3>2 DEF Store
    <3>5. ASSUME NEW k \in LBA
          PROVE  View(k)' = View(k)
      <4>1. CASE k = writing.lba
        BY <3>2, <3>3, <3>4, <4>1, SameView
      <4>2. CASE k # writing.lba
        BY <3>2, <3>3, <3>4, <4>2, SameView
      <4> QED
        BY <4>1, <4>2
    <3> QED
      BY <1>3, <3>5
  <2> QED
    BY <2>1, <2>2, <2>3
<1> QED
  BY <1>1, <1>2, <1>3

\* The cache takes no page from the reserve of NAND.
LEMMA CapacityCtrl ==
  ASSUME OverProvisioned, IsFiniteSet(LBA), NoLBA \notin LBA,
         CtrlInv, CapacityInv, [CtrlNext]_ctrlVars
  PROVE  CapacityInv' /\ ~ DropWrite
<1>1. ~ DropWrite
  BY DEF CapacityInv, ReserveOK, DropWrite
<1>2. CASE (CtrlNext /\ UNCHANGED vars) \/ NandStep
  <2>1. [Next]_vars
    BY <1>2, NandStepStore DEF CtrlInv
  <2> QED
    BY <1>1, <2>1, CapacityNext DEF CtrlInv
<1>3. CASE \/ \E l \in LBA, d \in Data : CtrlWrite(l, d) /\ ~ IsEnabled(CacheSize)
           \/ NextNandWrite
  <2>1. PICK l \in LBA, d \in Data : pc = "idle" /\ BeginNandWrite(l, d)
    BY <1>3, BeginFacts
  <2> QED
    BY <1>1, <2>1, CapacityBegin DEF CtrlInv
<1> QED
  BY <1>2, <1>3, StepKinds

LEMMA CtrlCapacityAlways ==
  ASSUME OverProvisioned, IsFiniteSet(LBA), NoLBA \notin LBA
  PROVE  CtrlSpec => [](CtrlInv /\ CapacityInv)
<1>1. CtrlInit => CapacityInv
  BY CapacityInit DEF CtrlInit
<1>2. CtrlInv /\ CapacityInv /\ [CtrlNext]_ctrlVars => CapacityInv'
  BY CapacityCtrl
<1> QED
  BY CtrlInvariance, <1>1, <1>2, PTL DEF CtrlSpec

\* A fresh drive has all its pages in reserve.
LEMMA FreshCapacity ==
  ASSUME OverProvisioned
  PROVE  FreshDrive /\ returnTo # "retry" => CapacityInv
<1> SUFFICES ASSUME FreshDrive, returnTo # "retry" PROVE CapacityInv
  OBVIOUS
<1>1. OrphansBehindCursor
  BY DEF OrphansBehindCursor, FreshDrive, FlashInit
<1>2. FreeAddresses = Address
  BY DEF FreeAddresses, FreshDrive, FlashInit
<1>3. Cardinality(FreeAddresses) >= PagesPerBlock
  BY <1>2, AllPages
<1> QED
  BY <1>1, <1>3, FreeCounting, GeometryAssumption DEF CapacityInv, ReserveOK, FreshDrive

LEMMA FreshNext ==
  ASSUME OverProvisioned
  PROVE  FreshDrive' /\ (returnTo # "retry")' => CtrlInv' /\ CapacityInv'
BY FreshDriveInv, FreshCapacity, PTL

\* A program makes another drive between two calls on the one before.
LEMMA NewDriveInv ==
  ASSUME OverProvisioned, CtrlInv, CapacityInv, pc = "idle",
         NewDrive, wearLevelInterval' \in Int
  PROVE  CtrlInv' /\ CapacityInv'
<1>1. GCTypeOK /\ writing = NoWrite /\ returnTo # "retry"
  BY DEF CtrlInv, IInv, ControlOK, Busy, GCPhases, CapacityInv, ReserveOK
<1>2. FreshDrive' /\ returnTo' # "retry"
  BY <1>1 DEF NewDrive, FreshDrive, FlashInit, MappingInit, GCTypeOK, loopVars
<1> QED
  BY <1>2, FreshNext

\* Of a fresh drive nothing can be read.
LEMMA FreshDisk == FreshDrive => Disk!DiskInit
<1> SUFFICES ASSUME FreshDrive PROVE Disk!DiskInit
  OBVIOUS
<1>1. ViewOK
  BY FreshDriveInv, ViewFacts
<1>2. Versions = {}
  BY DEF FreshDrive, Versions, InNand, Range
<1>3. \A l \in LBA : View(l) = Unmapped
  BY <1>1, <1>2 DEF ViewOK, FreshDrive, MappingInit, Store, HasMapping
<1> QED
  BY <1>3 DEF Disk!DiskInit, FreshDrive

\* A write takes effect, a read finds the last one, and nothing else shows.
LEMMA DiskStep ==
  ASSUME OverProvisioned, IsFiniteSet(LBA), NoLBA \notin LBA,
         CtrlInv, CapacityInv, ViewOK, ViewOK', [CtrlNext]_ctrlVars
  PROVE  [Disk!DiskNext]_<<[l \in LBA |-> View(l)], answer>>
<1>1. ~ DropWrite
  BY CapacityCtrl
<1>2. ASSUME NEW l \in LBA, NEW d \in Data, CtrlWrite(l, d)
      PROVE  Disk!DiskWrite(l, d)
  <2>1. \A k \in LBA : View(k)' = IF k = l THEN d ELSE View(k)
    BY <1>2, WriteShown
  <2>2. [k \in LBA |-> View(k)]' = [[k \in LBA |-> View(k)] EXCEPT ![l] = d]
    BY <2>1
  <2> QED
    BY <1>2, <2>2 DEF Disk!DiskWrite, CtrlWrite
<1>3. ASSUME NEW l \in LBA, ReadHit(l) \/ ReadMiss(l) \/ ReadUnmapped(l)
      PROVE  Disk!DiskRead(l)
  <2>1. answer' = View(l) /\ \A k \in LBA : View(k)' = View(k)
    BY <1>3, ReadShown
  <2> QED
    BY <2>1 DEF Disk!DiskRead
<1>4. ASSUME \/ FlushCache
             \/ NextNandWrite
             \/ NandStep /\ UNCHANGED <<lruList, toNand, answer>>
      PROVE  UNCHANGED <<[l \in LBA |-> View(l)], answer>>
  <2>1. UNCHANGED answer /\ \A k \in LBA : View(k)' = View(k)
    BY <1>1, <1>4, OthersShown
  <2> QED
    BY <2>1
<1>5. CASE CtrlNext
  <2>1. CASE \E l \in LBA : \/ \E d \in Data : CtrlWrite(l, d)
                            \/ ReadHit(l) \/ ReadMiss(l) \/ ReadUnmapped(l)
    BY <1>2, <1>3, <2>1 DEF Disk!DiskNext
  <2>2. CASE FlushCache \/ CtrlCollect \/ (\E n \in Intervals : CtrlSetInterval(n))
             \/ CtrlController
    BY <1>4, <2>2 DEF CtrlCollect, CtrlSetInterval, CtrlController, NandStep
  <2> QED
    BY <1>5, <2>1, <2>2 DEF CtrlNext, CtrlHost
<1>6. CASE UNCHANGED ctrlVars
  BY <1>4, <1>6 DEF ctrlVars, NandStep
<1> QED
  BY <1>5, <1>6

\* On a drive that is not overcommitted every read returns the last data written,
\* through any history of hits, misses, evictions, flushes, collections and wear
\* leveling, for any cache size.
THEOREM ImplementsHostDisk ==
  ASSUME OverProvisioned, IsFiniteSet(LBA), NoLBA \notin LBA
  PROVE  CtrlSpec => ActsAsDisk
<1>1. CtrlInit => Disk!DiskInit
  BY FreshDisk, CtrlInitFresh
<1>2. CtrlInv /\ ViewOK /\ ViewOK' /\ CapacityInv /\ [CtrlNext]_ctrlVars
        => [Disk!DiskNext]_<<[l \in LBA |-> View(l)], answer>>
  BY DiskStep
<1> QED
  BY CtrlCapacityAlways, ViewFacts, <1>1, <1>2, PTL
  DEF CtrlSpec, ActsAsDisk, Disk!DiskSpec

\* There, what the documentation says of dirty entries is true: what the cache
\* hands over ends up in NAND.  (The run that refutes it has a full drive.)
THEOREM DirtyEntriesReachNandWhenProvisioned ==
  ASSUME OverProvisioned, IsFiniteSet(LBA), NoLBA \notin LBA
  PROVE  CtrlSpec => DirtyEntriesReachNand
<1>1. CtrlInv /\ CapacityInv /\ [CtrlNext]_ctrlVars
        => [writing # NoWrite /\ writing' = NoWrite
              => Store'[writing.lba] = writing.data]_ctrlVars
  <2> SUFFICES ASSUME CtrlInv, CapacityInv, [CtrlNext]_ctrlVars,
                      writing # NoWrite, writing' = NoWrite
               PROVE  Store'[writing.lba] = writing.data
    OBVIOUS
  <2>1. ~ DropWrite
    BY CapacityCtrl
  <2>2. writing \in Write
    BY DEF CtrlInv, IInv, ControlOK
  <2>3. NandStep
    <3>1. ~ UNCHANGED vars
      BY DEF vars
    <3> QED
      BY <3>1, StepKinds, BeginFacts
  <2>4. Lossy!Commit
    BY <2>1, <2>3, NandStepStore DEF CtrlInv
  <2> QED
    BY <2>2, <2>4 DEF Lossy!Commit, Write, Store
<1> QED
  BY CtrlCapacityAlways, <1>1, PTL DEF CtrlSpec, DirtyEntriesReachNand

-----------------------------------------------------------------------------
(* To NAND the cached controller is one more host. *)

\* FiniteSets is instantiated with the module.
LEMMA SameCount == \A S : Nand!Cardinality(S) = Cardinality(S)
BY DEF Cardinality, Nand!Cardinality

LEMMA SameController == Controller => Nand!Controller
<1> USE DEF Block, Nand!Block, PageIndex, Nand!PageIndex, Address, Nand!Address,
            PagesIn, Nand!PagesIn, FreePages, Nand!FreePages, HasMapping, Nand!HasMapping,
            ValidPages, Nand!ValidPages, InvalidPages, Nand!InvalidPages,
            flashVars, Nand!flashVars, Remapped, Nand!Remapped, loopVars, Nand!loopVars,
            Programmed, Nand!Programmed, Invalidated, Nand!Invalidated,
            HasFreePage, Nand!HasFreePage, FirstFreePage, Nand!FirstFreePage,
            FirstLeast, Nand!FirstLeast, FirstMost, Nand!FirstMost,
            NoFreeBlock, Nand!NoFreeBlock, Finish, Nand!Finish, CallGC, Nand!CallGC,
            Return, Nand!Return, EraseBlock, Nand!EraseBlock, NextPage, Nand!NextPage,
            NoBlock, Nand!NoBlock
<1>1. Program => Nand!Program
  BY DEF Program, Nand!Program, LeastUsedFreeBlock, Nand!LeastUsedFreeBlock
<1>2. ForceGC => Nand!ForceGC
  BY DEF ForceGC, Nand!ForceGC
<1>3. DropWrite => Nand!DropWrite
  BY DEF DropWrite, Nand!DropWrite
<1>4. GCSelect => Nand!GCSelect
  <2>1. [c \in Block |-> Nand!Cardinality(InvalidPages(c))]
          = [c \in Block |-> Cardinality(InvalidPages(c))]
    BY SameCount
  <2>2. \A b : VictimBlock(b) <=> Nand!VictimBlock(b)
    BY <2>1 DEF VictimBlock, Nand!VictimBlock, Reclaimable, Nand!Reclaimable
  <2> QED
    BY <2>2 DEF GCSelect, Nand!GCSelect, Reclaimable, Nand!Reclaimable
<1>5. GCMigrate => Nand!GCMigrate
  BY DEF GCMigrate, Nand!GCMigrate, FindLogicalAddress, Nand!FindLogicalAddress, Skips,
         Nand!Skips, NoLBA, Nand!NoLBA, FreeSlot, Nand!FreeSlot, CopyPage, Nand!CopyPage,
         ProgramPage, Nand!ProgramPage, NoFreeSlot, Nand!NoFreeSlot, AbortCycle,
         Nand!AbortCycle
<1>6. GCErase => Nand!GCErase
  BY DEF GCErase, Nand!GCErase, WearLevelDue, Nand!WearLevelDue
<1>7. WLSelect => Nand!WLSelect
  BY DEF WLSelect, Nand!WLSelect, WearLevelPair, Nand!WearLevelPair, LeastWornDataBlock,
         Nand!LeastWornDataBlock, MostWornFreeBlock, Nand!MostWornFreeBlock,
         DataBlocks, Nand!DataBlocks, FullyFreeBlocks, Nand!FullyFreeBlocks, FullyFree,
         Nand!FullyFree, WEAR_LEVEL_THRESHOLD, Nand!WEAR_LEVEL_THRESHOLD
<1>8. WLMove => Nand!WLMove
  BY DEF WLMove, Nand!WLMove, FindLogicalAddress, Nand!FindLogicalAddress, Skips,
         Nand!Skips, NoLBA, Nand!NoLBA, CopyPage, Nand!CopyPage,
         ProgramPage, Nand!ProgramPage
<1>9. WLErase => Nand!WLErase
  BY DEF WLErase, Nand!WLErase
<1> QED
  BY <1>1, <1>2, <1>3, <1>4, <1>5, <1>6, <1>7, <1>8, <1>9
  DEF Controller, Nand!Controller, Collect, Nand!Collect, GCStep, Nand!GCStep

\* How many erases the nandWrite in progress can still make: at most two of each
\* of two collections, the one under the watermark and the forced one.
ErasesLeft ==
  IF pc \in {"idle", "retry"} THEN 0
  ELSE IF pc = "program" THEN 2
  ELSE (IF returnTo = "program" THEN 4 ELSE 2)
         - (IF pc \in {"wear", "move"} THEN 1 ELSE 0)

\* A call starts with every block within MaxErase and hands over at most
\* CacheSize entries, each worth four erases of one block.
WithinBudget ==
  toNand # <<>> =>
    \A b \in Block :
      eraseCount[b] + ErasesLeft + 4 * Len(toNand) <= MaxErase - 1 + 4 * CacheSize

\* Each step of nandWrite, GC and wear leveling stays within what was left.
LEMMA ErasesLeftFalls ==
  ASSUME IInv, NandStep, ~ Ready, NEW b \in Block
  PROVE  /\ eraseCount[b] \in Nat /\ eraseCount'[b] \in Nat
         /\ ErasesLeft \in 0 .. 4 /\ ErasesLeft' \in 0 .. 4
         /\ eraseCount'[b] + ErasesLeft' <= eraseCount[b] + ErasesLeft
<1>1. /\ eraseCount \in [Block -> Nat]
      /\ pc \in GCPhases \cup CallerPhases /\ returnTo \in CallerPhases
  BY DEF IInv, DataOK, FlashTypeOK, GCTypeOK
<1>2. CASE UNCHANGED vars \/ \E n \in Intervals : HostSetInterval(n)
  BY <1>1, <1>2 DEF vars, flashVars, gcVars, HostSetInterval, ErasesLeft
<1>3. CASE Program \/ DropWrite
  BY <1>1, <1>3 DEF Program, DropWrite, Finish, flashVars, ErasesLeft
<1>4. CASE ForceGC
  BY <1>1, <1>4 DEF ForceGC, CallGC, flashVars, ErasesLeft
<1>5. ASSUME UNCHANGED eraseCount, pc \in GCPhases, Return
      PROVE  /\ eraseCount[b] \in Nat /\ eraseCount'[b] \in Nat
             /\ ErasesLeft \in 0 .. 4 /\ ErasesLeft' \in 0 .. 4
             /\ eraseCount'[b] + ErasesLeft' <= eraseCount[b] + ErasesLeft
  BY <1>1, <1>5 DEF Return, GCPhases, CallerPhases, ErasesLeft
<1>6. CASE GCSelect \/ WLSelect
  BY <1>1, <1>5, <1>6 DEF GCSelect, WLSelect, flashVars, GCPhases, ErasesLeft
<1>7. CASE GCMigrate \/ WLMove
  <2>1. UNCHANGED eraseCount /\ pc \in GCPhases
    BY <1>7 DEF GCMigrate, WLMove, CopyPage, ProgramPage, flashVars, GCPhases
  <2>2. Return \/ UNCHANGED <<pc, returnTo>>
    BY <1>7 DEF GCMigrate, WLMove, AbortCycle
  <2>3. CASE UNCHANGED <<pc, returnTo>>
    BY <1>1, <2>1, <2>3 DEF ErasesLeft
  <2> QED
    BY <1>5, <2>1, <2>2, <2>3
<1>8. CASE GCErase \/ WLErase
  <2>1. /\ eraseCount'[b] \in Nat /\ eraseCount'[b] <= eraseCount[b] + 1
        /\ eraseCount[b] \in Nat
    BY <1>1, <1>8 DEF GCErase, WLErase, EraseBlock
  <2>2. /\ ErasesLeft \in 0 .. 4 /\ ErasesLeft' \in 0 .. 4
        /\ ErasesLeft' + 1 <= ErasesLeft
    BY <1>1, <1>8 DEF GCErase, WLErase, Return, GCPhases, CallerPhases, ErasesLeft
  <2>3. \A c, d, m, n \in Int : d <= c + 1 /\ n + 1 <= m => d + n <= c + m
    OBVIOUS
  <2>4. /\ eraseCount[b] \in Int /\ eraseCount'[b] \in Int
        /\ ErasesLeft \in Int /\ ErasesLeft' \in Int
    BY <2>1, <2>2
  <2> QED
    BY <2>1, <2>2, <2>3, <2>4
<1> QED
  BY <1>2, <1>3, <1>4, <1>6, <1>7, <1>8 DEF NandStep, Controller, Collect, GCStep

LEMMA BudgetNext ==
  ASSUME NoLBA \notin LBA, CtrlInv, WithinBudget, [CtrlNext]_ctrlVars
  PROVE  WithinBudget'
<1> SUFFICES ASSUME toNand' # <<>>, NEW b \in Block
             PROVE  eraseCount'[b] + ErasesLeft' + 4 * Len(toNand')
                      <= MaxErase - 1 + 4 * CacheSize
  BY DEF WithinBudget
<1>1. /\ Len(toNand') \in Nat /\ CacheSize \in Nat /\ MaxErase \in Nat
      /\ eraseCount[b] \in Nat
  <2>1. CtrlInv'
    BY CtrlInvNext
  <2>2. Len(toNand') \in Nat
    BY <2>1, LenProperties DEF CtrlInv, DramOK
  <2> QED
    BY <2>2, CacheSizeAssumption, HostAssumption DEF CtrlInv, IInv, DataOK, FlashTypeOK
<1>2. CASE CtrlNext /\ UNCHANGED vars
  <2>1. CASE UNCHANGED toNand
    BY <1>2, <2>1 DEF WithinBudget, ErasesLeft, vars, flashVars, gcVars
  <2>2. CASE ~ UNCHANGED toNand
    <3>1. Ready /\ Len(toNand') <= CacheSize
      <4>1. ASSUME Ready, CacheSize > 0, toNand' = DirtyVictim(lruList)
            PROVE  Len(toNand') <= CacheSize
        <5>1. Len(toNand') <= 1
          BY <4>1, DirtyVictimFacts DEF CtrlInv, DramOK, OneVersion
        <5> QED
          BY <1>1, <4>1, <5>1
      <4>2. CASE FlushCache
        BY <4>2, FlushFacts DEF FlushCache
      <4>3. ASSUME NEW l \in LBA, NEW d \in Data, CtrlWrite(l, d)
            PROVE  Ready /\ Len(toNand') <= CacheSize
        BY <2>2, <4>1, <4>3 DEF CtrlWrite, IsEnabled
      <4>4. ASSUME NEW l \in LBA, ReadMiss(l)
            PROVE  Ready /\ Len(toNand') <= CacheSize
        BY <2>2, <4>1, <4>4 DEF ReadMiss, IsEnabled
      <4>5. ASSUME NextNandWrite
            PROVE  FALSE
        <5>1. pc = "idle" /\ pc' # "idle"
          BY <4>5 DEF NextNandWrite, BeginNandWrite, CallGC
        <5> QED
          BY <1>2, <5>1 DEF vars, gcVars
      <4> QED
        BY <1>2, <2>2, <4>2, <4>3, <4>4, <4>5
        DEF CtrlNext, CtrlHost, CtrlController, ReadHit, ReadUnmapped, CtrlCollect,
            CtrlSetInterval
    <3>2. eraseCount'[b] = eraseCount[b] /\ eraseCount[b] < MaxErase /\ ErasesLeft' = 0
      BY <1>2, <3>1 DEF Ready, Idle, WithinBound, vars, flashVars, gcVars, ErasesLeft
    <3> QED
      BY <1>1, <3>1, <3>2
  <2> QED
    BY <2>1, <2>2
<1>3. CASE \E l \in LBA, d \in Data : CtrlWrite(l, d) /\ ~ IsEnabled(CacheSize)
  BY <1>3 DEF CtrlWrite, Ready
<1>4. CASE NextNandWrite
  <2>1. /\ toNand # <<>> /\ Len(toNand) \in Nat /\ Len(toNand') = Len(toNand) - 1
    BY <1>4, NextEntry DEF NextNandWrite, CtrlInv
  <2>2. ErasesLeft = 0 /\ ErasesLeft' \in 0 .. 4 /\ eraseCount'[b] = eraseCount[b]
    BY <1>4 DEF NextNandWrite, BeginNandWrite, CallGC, flashVars, ErasesLeft
  <2>3. eraseCount[b] + ErasesLeft + 4 * Len(toNand) <= MaxErase - 1 + 4 * CacheSize
    BY <2>1 DEF WithinBudget
  <2> QED
    BY <1>1, <2>1, <2>2, <2>3
<1>5. CASE NandStep /\ UNCHANGED <<lruList, toNand, answer>>
  <2>1. toNand' = toNand /\ toNand # <<>> /\ ~ Ready
    BY <1>5 DEF Ready
  <2>2. /\ eraseCount[b] \in Nat /\ eraseCount'[b] \in Nat
        /\ ErasesLeft \in 0 .. 4 /\ ErasesLeft' \in 0 .. 4
        /\ eraseCount'[b] + ErasesLeft' <= eraseCount[b] + ErasesLeft
    BY <1>5, <2>1, ErasesLeftFalls DEF CtrlInv
  <2>3. eraseCount[b] + ErasesLeft + 4 * Len(toNand) <= MaxErase - 1 + 4 * CacheSize
    BY <2>1 DEF WithinBudget
  <2>4. \A c, d, m, n, k, r \in Int :
          d + n <= c + m /\ c + m + 4 * k <= r => d + n + 4 * k <= r
    OBVIOUS
  <2>5. /\ eraseCount[b] \in Int /\ eraseCount'[b] \in Int
        /\ ErasesLeft \in Int /\ ErasesLeft' \in Int
        /\ Len(toNand) \in Int /\ MaxErase - 1 + 4 * CacheSize \in Int
    BY <1>1, <2>1, <2>2
  <2>6. eraseCount'[b] + ErasesLeft' + 4 * Len(toNand) <= MaxErase - 1 + 4 * CacheSize
    BY <2>2, <2>3, <2>4, <2>5
  <2> QED
    BY <2>1, <2>6
<1> QED
  BY <1>2, <1>3, <1>4, <1>5, StepKinds

LEMMA SameBegin ==
  ASSUME NEW l, NEW d, BeginNandWrite(l, d)
  PROVE  Nand!BeginNandWrite(l, d)
BY SameCount
DEF BeginNandWrite, Nand!BeginNandWrite, ShouldTrigger, Nand!ShouldTrigger, CallGC,
    Nand!CallGC, loopVars, Nand!loopVars, flashVars, Nand!flashVars, FreeAddresses,
    Nand!FreeAddresses, Address, Nand!Address, Block, Nand!Block, PageIndex, Nand!PageIndex

LEMMA WithinNandBound ==
  ASSUME CtrlInv, WithinBudget, pc = "idle", Ready \/ toNand # <<>>
  PROVE  Nand!Idle
<1> SUFFICES ASSUME NEW b \in Block
             PROVE  eraseCount[b] < MaxErase + 4 * (CacheSize + 1)
  BY DEF Nand!Idle, Nand!WithinBound, Block, Nand!Block
<1>1. eraseCount[b] \in Nat /\ CacheSize \in Nat /\ MaxErase \in Nat
  BY CacheSizeAssumption, HostAssumption DEF CtrlInv, IInv, DataOK, FlashTypeOK
<1>2. CASE Ready
  BY <1>1, <1>2 DEF Ready, Idle, WithinBound
<1>3. CASE toNand # <<>>
  <2>1. Len(toNand) \in Nat
    BY LenProperties DEF CtrlInv, DramOK
  <2>2. eraseCount[b] + 0 + 4 * Len(toNand) <= MaxErase - 1 + 4 * CacheSize
    BY <1>3 DEF WithinBudget, ErasesLeft
  <2> QED
    BY <1>1, <2>1, <2>2
<1> QED
  BY <1>2, <1>3

\* Every step of the cached controller is a step of NandWritePath or none: what
\* the cache evicts or flushes comes to NAND as a host's writes would, one
\* nandWrite at a time.  The bound that ends the model's runs is the only
\* difference, and the erases a call can cause make up for it.
THEOREM CacheIsAHostOfNand ==
  ASSUME NoLBA \notin LBA
  PROVE  CtrlSpec => UsesNandAsHost
<1>1. CtrlInit => Nand!Init
  BY DEF CtrlInit, Init, Nand!Init, FlashInit, Nand!FlashInit, MappingInit,
         Nand!MappingInit, GCInit, Nand!GCInit, Address, Nand!Address, Block, Nand!Block,
         PageIndex, Nand!PageIndex, NoBlock, Nand!NoBlock
<1>2. CtrlInit => WithinBudget
  BY DEF CtrlInit, WithinBudget
<1>3. CtrlInv /\ WithinBudget /\ [CtrlNext]_ctrlVars => WithinBudget'
  BY BudgetNext
<1>4. CtrlInv /\ WithinBudget /\ [CtrlNext]_ctrlVars => [Nand!Next]_(Nand!vars)
  <2> SUFFICES ASSUME CtrlInv, WithinBudget, [CtrlNext]_ctrlVars
               PROVE  [Nand!Next]_(Nand!vars)
    OBVIOUS
  <2>1. CASE UNCHANGED vars
    BY <2>1 DEF vars, Nand!vars, flashVars, Nand!flashVars, gcVars, Nand!gcVars
  <2>2. ASSUME NEW l \in LBA, NEW d \in Data, CtrlWrite(l, d), ~ IsEnabled(CacheSize)
        PROVE  Nand!HostWrite(l, d)
    <3>1. Ready /\ pc = "idle" /\ BeginNandWrite(l, d)
      BY <2>2 DEF CtrlWrite, Ready, Idle
    <3> QED
      BY <3>1, SameBegin, WithinNandBound DEF Nand!HostWrite
  <2>3. CASE NextNandWrite
    <3> DEFINE l == Head(toNand).lba
               d == Head(toNand).data
    <3>1. pc = "idle" /\ toNand # <<>> /\ BeginNandWrite(l, d)
      BY <2>3 DEF NextNandWrite
    <3>2. l \in LBA /\ d \in Data
      BY <3>1, NextEntry DEF CtrlInv
    <3>3. Nand!HostWrite(l, d)
      BY <3>1, SameBegin, WithinNandBound DEF Nand!HostWrite
    <3> QED
      BY <3>2, <3>3 DEF Nand!Next, Nand!Host
  <2>4. CASE Ready /\ HostCollect
    <3>1. Nand!Idle
      BY <2>4, WithinNandBound DEF Ready, Idle
    <3>2. Nand!HostCollect
      BY <2>4, <3>1
      DEF HostCollect, Nand!HostCollect, CallGC, Nand!CallGC, flashVars, Nand!flashVars,
          loopVars, Nand!loopVars
    <3> QED
      BY <3>2 DEF Nand!Next, Nand!Host
  <2>5. ASSUME NEW n \in Intervals, HostSetInterval(n)
        PROVE  Nand!HostSetInterval(n)
    BY <2>5 DEF HostSetInterval, Nand!HostSetInterval, flashVars, Nand!flashVars,
                loopVars, Nand!loopVars
  <2>6. CASE Controller
    BY <2>6, SameController DEF Nand!Next
  <2> QED
    BY <2>1, <2>2, <2>3, <2>4, <2>5, <2>6, StepKinds DEF NandStep, Nand!Next, Nand!Host
<1> QED
  BY CtrlInvariance, <1>1, <1>2, <1>3, <1>4, PTL DEF CtrlSpec, UsesNandAsHost, Nand!Spec

=============================================================================

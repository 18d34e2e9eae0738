---------------------------- MODULE ReplayProofs ----------------------------
(***************************************************************************)
(* Proofs about TraceReplay: what a trace of any length leaves in NAND, on *)
(* any drive behind a cache of any size.                                   *)
(***************************************************************************)
EXTENDS TraceReplay, ControllerProofs

ReplayTypes ==
  /\ phase \in {"setup", "open", "parse", "drain", "flush", "done", "failed"}
  /\ candidate \in 1 .. Candidates + 1
  /\ parsed \in [Parsed -> Nat] /\ LinesRead <= MaxLines
  /\ queue \in Seq(Request)
  /\ expected \in [LBA -> Data \cup {Unmapped}]
  /\ lost \subseteq LBA

\* The last call is the flush: nothing is queued or cached after it, nor on its
\* way to NAND once it has returned.
PhaseOK ==
  /\ phase \in {"flush", "done"} => queue = <<>> /\ lruList = <<>>
  /\ phase = "done" => pc = "idle" /\ toNand = <<>>

WritesTo(q, l) == {i \in DOMAIN q : q[i].op = "W" /\ q[i].lba = l}

\* The last of the writes still queued for an LBA is the last one of the trace.
QueueOK ==
  \A l \in LBA : \A i \in WritesTo(queue, l) :
    (\A j \in WritesTo(queue, l) : j <= i) => queue[i].data = expected[l]

\* What only DRAM holds.
Unsaved == {x \in Range(lruList) : x.dirty} \cup Range(toNand) \cup InNand

\* When none is queued any more, the drive shows that write, unless it dropped it;
\* and what has still to reach NAND is that write, dropped before or not.
AppliedOK ==
  \A l \in LBA : WritesTo(queue, l) = {} =>
    /\ l \notin lost => View(l) = expected[l]
    /\ \A x \in Unsaved : x.lba = l => x.data = expected[l]

ReplayInv == CtrlInv /\ ReplayTypes /\ PhaseOK /\ QueueOK /\ AppliedOK

-----------------------------------------------------------------------------
(* What a step of the drive does to what only DRAM holds. *)

\* What has not been saved yet is what the drive shows.
LEMMA UnsavedShown ==
  ASSUME ViewOK, NEW x \in Unsaved
  PROVE  View(x.lba) = x.data
BY DEF ViewOK, Versions, Unsaved

\* Only a write leaves its LBA with unsaved data that had none.
LEMMA UnsavedFrom ==
  ASSUME CtrlInv, NoLBA \notin LBA, NEW y \in Unsaved',
         \/ \E l \in LBA : \/ \E d \in Data : CtrlWrite(l, d) /\ y.lba # l
                           \/ ReadHit(l) \/ ReadMiss(l) \/ ReadUnmapped(l)
         \/ FlushCache
         \/ CtrlController
  PROVE  \E x \in Unsaved : x.lba = y.lba
<1>1. CASE UNCHANGED <<lruList, toNand>> /\ (writing' = writing \/ writing' = NoWrite)
  BY <1>1 DEF Unsaved, InNand
<1>2. ASSUME NEW l \in LBA, Ready, UNCHANGED <<vars, toNand>>,
             Cached(lruList, l), NEW e \in CacheEntry, e.lba = l,
             e.dirty \/ e.data = Store[l], lruList' = ToFront(lruList, l, e),
             answer' \in Data \cup {Unmapped}, y.lba # l \/ e \in Range(lruList)
      PROVE  \E x \in Unsaved : x.lba = y.lba
  <2>1. Range(lruList)' = {e} \cup {x \in Range(lruList) : x.lba # l}
    BY <1>2, HitFacts
  <2>2. InNand' = InNand /\ Range(toNand)' = Range(toNand)
    BY <1>2 DEF vars, InNand
  <2> QED
    BY <1>2, <2>1, <2>2 DEF Unsaved
<1>3. ASSUME Ready, CacheSize > 0, UNCHANGED vars,
             NEW e \in CacheEntry, ~ Cached(lruList, e.lba),
             e.dirty \/ e.data = Store[e.lba], lruList' = Inserted(lruList, e),
             toNand' = DirtyVictim(lruList), answer' \in Data \cup {Unmapped},
             y.lba # e.lba \/ ~ e.dirty
      PROVE  \E x \in Unsaved : x.lba = y.lba
  <2>1. /\ Range(Evicted(lruList)) \subseteq Range(lruList)
        /\ Range(lruList)' = {e} \cup Range(Evicted(lruList))
        /\ Range(toNand)'
             = {x \in Range(lruList) : x \notin Range(Evicted(lruList)) /\ x.dirty}
    BY <1>3, MissFacts
  <2>2. InNand' = InNand
    BY <1>3 DEF vars, InNand
  <2> QED
    BY <1>3, <2>1, <2>2 DEF Unsaved
<1>4. ASSUME NEW l \in LBA, NEW d \in Data, CtrlWrite(l, d), y.lba # l
      PROVE  \E x \in Unsaved : x.lba = y.lba
  <2> DEFINE e == Written(lruList, l, d)
  <2>1. e \in CacheEntry /\ e.lba = l /\ e.dirty /\ y.lba # l
    BY <1>4 DEF Written, Entry, CacheEntry
  <2>2. CASE ~ IsEnabled(CacheSize)
    <3>1. /\ pc = "idle" /\ BeginNandWrite(l, d) /\ UNCHANGED <<lruList, toNand>>
      BY <1>4, <2>2 DEF CtrlWrite, Ready, Idle
    <3>2. writing' = [lba |-> l, data |-> d]
      BY <3>1 DEF BeginNandWrite
    <3> QED
      BY <2>1, <3>1, <3>2 DEF Unsaved, InNand
  <2>3. CASE IsEnabled(CacheSize)
    <3>1. /\ Ready /\ CacheSize > 0 /\ UNCHANGED vars /\ answer' \in Data \cup {Unmapped}
      BY <1>4, <2>3 DEF CtrlWrite, IsEnabled, CtrlInv, DramOK
    <3>2. CASE Cached(lruList, l)
      <4>1. lruList' = ToFront(lruList, l, e) /\ UNCHANGED toNand
        BY <1>4, <2>3, <3>2 DEF CtrlWrite
      <4> HIDE DEF e
      <4> QED
        BY <1>2, <2>1, <3>1, <3>2, <4>1
    <3>3. CASE ~ Cached(lruList, l)
      <4>1. lruList' = Inserted(lruList, e) /\ toNand' = DirtyVictim(lruList)
        BY <1>4, <2>3, <3>3 DEF CtrlWrite
      <4> HIDE DEF e
      <4> QED
        BY <1>3, <2>1, <3>1, <3>3, <4>1
    <3> QED
      BY <3>2, <3>3
  <2> QED
    BY <2>2, <2>3
<1>5. ASSUME NEW l \in LBA, ReadHit(l)
      PROVE  \E x \in Unsaved : x.lba = y.lba
  <2> DEFINE e == CachedEntry(lruList, l)
  <2>1. Ready /\ Cached(lruList, l) /\ lruList' = ToFront(lruList, l, e)
        /\ UNCHANGED <<vars, toNand>> /\ answer' = e.data
    BY <1>5 DEF ReadHit
  <2>2. e \in Range(lruList) /\ e.lba = l
    BY <2>1, CachedFacts DEF CtrlInv, DramOK, OneVersion
  <2>3. e \in CacheEntry
    BY <2>2, EntriesTyped DEF CtrlInv
  <2>4. (e.dirty \/ e.data = Store[l]) /\ answer' \in Data \cup {Unmapped}
    BY <2>1, <2>2, <2>3 DEF CtrlInv, CleanOK, CacheEntry
  <2> HIDE DEF e
  <2> QED
    BY <1>2, <2>1, <2>2, <2>3, <2>4
<1>6. ASSUME NEW l \in LBA, ReadMiss(l)
      PROVE  \E x \in Unsaved : x.lba = y.lba
  <2> DEFINE e == Entry(l, pageData[mappingTable[l]], FALSE)
  <2>1. Ready /\ pageData[mappingTable[l]] \in Data /\ UNCHANGED vars
        /\ pageData[mappingTable[l]] = Store[l] /\ answer' \in Data \cup {Unmapped}
    BY <1>6, MappedData DEF ReadMiss, CtrlInv
  <2>2. CASE IsEnabled(CacheSize)
    <3>1. ~ Cached(lruList, l) /\ CacheSize > 0
          /\ lruList' = Inserted(lruList, e) /\ toNand' = DirtyVictim(lruList)
      BY <1>6, <2>2 DEF ReadMiss, IsEnabled
    <3>2. e \in CacheEntry /\ e.lba = l /\ e.data = Store[e.lba] /\ ~ e.dirty
      BY <2>1 DEF Entry, CacheEntry
    <3> HIDE DEF e
    <3> QED
      BY <1>3, <2>1, <3>1, <3>2
  <2>3. CASE ~ IsEnabled(CacheSize)
    BY <1>1, <1>6, <2>1, <2>3 DEF ReadMiss, vars
  <2> QED
    BY <2>2, <2>3
<1>7. CASE FlushCache
  <2>1. Range(lruList)' = {} /\ Range(toNand)' = {x \in Range(lruList) : x.dirty}
    BY <1>7, FlushFacts
  <2>2. InNand' = InNand
    BY <1>7 DEF FlushCache, vars, InNand
  <2> QED
    BY <2>1, <2>2 DEF Unsaved
<1>8. CASE NextNandWrite
  <2>1. /\ toNand # <<>> /\ toNand' = Tail(toNand) /\ lruList' = lruList
        /\ writing' = [lba |-> Head(toNand).lba, data |-> Head(toNand).data]
    BY <1>8 DEF NextNandWrite, BeginNandWrite
  <2>2. /\ Head(toNand) \in Range(toNand)
        /\ Range(Tail(toNand)) \subseteq Range(toNand)
    BY <2>1, NextEntry DEF CtrlInv
  <2>3. CASE y \in InNand'
    BY <2>1, <2>2, <2>3 DEF Unsaved, InNand
  <2>4. CASE y \notin InNand'
    BY <2>1, <2>2, <2>4 DEF Unsaved
  <2> QED
    BY <2>3, <2>4
<1>9. CASE \/ \E l \in LBA : ReadUnmapped(l)
           \/ Controller /\ UNCHANGED <<lruList, toNand, answer>>
  <2>1. UNCHANGED <<lruList, toNand>>
    BY <1>9 DEF ReadUnmapped
  <2>2. writing' = writing \/ writing' = NoWrite
    BY <1>9 DEF ReadUnmapped, vars, Controller, Program, ForceGC, DropWrite, Finish,
                Collect
  <2> QED
    BY <1>1, <2>1, <2>2
<1> QED
  BY <1>4, <1>5, <1>6, <1>7, <1>8, <1>9 DEF CtrlController

\* A full drive drops a write without a trace, and nothing else.
LEMMA DropShown ==
  ASSUME CtrlInv, NoLBA \notin LBA, DropWrite, UNCHANGED <<lruList, toNand, answer>>
  PROVE  /\ writing \in Write /\ writing \in Unsaved
         /\ \A x \in Unsaved' : x \in Unsaved /\ x.lba # writing.lba
         /\ \A k \in LBA : k # writing.lba => View(k)' = View(k)
<1>1. writing \in Write
  BY DEF DropWrite, CtrlInv, IInv, ControlOK, Busy, GCPhases
<1>2. writing # NoWrite /\ InNand = {writing} /\ writing' = NoWrite /\ InNand' = {}
  BY <1>1, HostAssumption DEF InNand, DropWrite, Finish
<1>3. Store' = Store
  BY DEF DropWrite, Store, HasMapping, flashVars
<1>4. /\ Versions' = Range(lruList) \cup Range(toNand)
      /\ Versions = Versions' \cup {writing}
      /\ \A x \in Versions' : x.lba # writing.lba
  BY <1>2 DEF Versions, CtrlInv, OneVersion
<1>5. ViewOK /\ ViewOK'
  <2>1. [CtrlNext]_ctrlVars
    BY DEF CtrlNext, CtrlController, Controller
  <2> QED
    BY <2>1, CtrlInvNext, ViewFacts, PTL
<1>6. ASSUME NEW k \in LBA, k # writing.lba
      PROVE  View(k)' = View(k)
  BY <1>3, <1>4, <1>5, <1>6, SameView
<1> QED
  BY <1>1, <1>2, <1>4, <1>6 DEF Unsaved, Versions

-----------------------------------------------------------------------------
(* The queue. *)

\* AddRequest puts a request behind all others.
LEMMA AppendFacts ==
  ASSUME NEW q \in Seq(Request), NEW r \in Request
  PROVE  /\ Append(q, r) \in Seq(Request) /\ Append(q, r)[Len(q) + 1] = r
         /\ \A l \in LBA :
              /\ WritesTo(q, l) \subseteq 1 .. Len(q)
              /\ \A i \in WritesTo(q, l) : Append(q, r)[i] = q[i]
              /\ IF r.op = "W" /\ r.lba = l
                 THEN WritesTo(Append(q, r), l) = WritesTo(q, l) \cup {Len(q) + 1}
                 ELSE WritesTo(Append(q, r), l) = WritesTo(q, l)
<1>1. /\ Len(q) \in Nat /\ DOMAIN q = 1 .. Len(q) /\ Append(q, r) \in Seq(Request)
      /\ DOMAIN Append(q, r) = 1 .. Len(q) + 1
      /\ \A i \in 1 .. Len(q) : Append(q, r)[i] = q[i]
      /\ Append(q, r)[Len(q) + 1] = r
  BY AppendProperties, LenProperties
<1> QED
  BY <1>1 DEF WritesTo

\* getNextRequest takes the first; the others move up.
LEMMA TailOfQueue ==
  ASSUME NEW q \in Seq(Request), q # <<>>
  PROVE  /\ Tail(q) \in Seq(Request) /\ Head(q) \in Request /\ Head(q) = q[1]
         /\ 1 \in DOMAIN q
         /\ \A l \in LBA :
              /\ WritesTo(q, l) \subseteq Nat \ {0}
              /\ \A i \in WritesTo(Tail(q), l) :
                   i \in Nat /\ i + 1 \in WritesTo(q, l) /\ Tail(q)[i] = q[i + 1]
              /\ \A i \in WritesTo(q, l) : i = 1 \/ i - 1 \in WritesTo(Tail(q), l)
<1>1. /\ Tail(q) \in Seq(Request) /\ Head(q) = q[1] /\ Head(q) \in Request
      /\ Len(q) \in Nat \ {0} /\ DOMAIN q = 1 .. Len(q)
      /\ Len(Tail(q)) = Len(q) - 1 /\ DOMAIN Tail(q) = 1 .. Len(q) - 1
      /\ \A i \in 1 .. Len(q) - 1 : Tail(q)[i] = q[i + 1]
  BY HeadTailProperties, EmptySeq, LenProperties, ElementOfSeq
<1> QED
  BY <1>1 DEF WritesTo

\* The queued writes that are left after the first request.
LEMMA TakenFacts ==
  ASSUME ReplayTypes, QueueOK, queue # <<>>, TakeRequest, UNCHANGED expected
  PROVE  /\ QueueOK' /\ queue' \in Seq(Request)
         /\ \A l \in LBA :
              WritesTo(queue', l) = {} =>
                \/ WritesTo(queue, l) = {}
                \/ /\ Head(queue).op = "W" /\ Head(queue).lba = l
                   /\ Head(queue).data = expected[l]
<1>1. /\ queue \in Seq(Request) /\ queue' = Tail(queue)
  BY DEF ReplayTypes, TakeRequest
<1>2. ASSUME NEW l \in LBA, NEW i \in WritesTo(queue', l),
             \A j \in WritesTo(queue', l) : j <= i
      PROVE  queue'[i].data = expected[l]
  <2>1. i \in Nat /\ i + 1 \in WritesTo(queue, l) /\ queue'[i] = queue[i + 1]
    BY <1>1, TailOfQueue
  <2>2. ASSUME NEW j \in WritesTo(queue, l)
        PROVE  j <= i + 1
    <3>1. j \in Nat /\ (j = 1 \/ j - 1 \in WritesTo(queue', l))
      BY <1>1, TailOfQueue
    <3> QED
      BY <1>2, <2>1, <3>1
  <2> QED
    BY <2>1, <2>2 DEF QueueOK
<1>3. ASSUME NEW l \in LBA, WritesTo(queue', l) = {}, WritesTo(queue, l) # {}
      PROVE  /\ Head(queue).op = "W" /\ Head(queue).lba = l
             /\ Head(queue).data = expected[l]
  <2>1. WritesTo(queue, l) = {1}
    BY <1>1, <1>3, TailOfQueue
  <2>2. queue[1].data = expected[l]
    BY <2>1 DEF QueueOK
  <2> QED
    BY <1>1, <2>1, <2>2, TailOfQueue DEF WritesTo
<1>4. QueueOK'
  BY <1>2 DEF QueueOK
<1>5. queue' \in Seq(Request)
  BY <1>1, TailOfQueue
<1> QED
  BY <1>3, <1>4, <1>5

-----------------------------------------------------------------------------
(* The invariant. *)

LEMMA NothingQueued == \A l \in LBA : WritesTo(<<>>, l) = {}
BY DEF WritesTo

\* Nothing of the drive's own runs between its calls.
LEMMA ControllerRuns == Controller => pc # "idle"
BY DEF Controller, Program, ForceGC, DropWrite, Collect, GCStep, GCSelect, GCMigrate,
       GCErase, WLSelect, WLMove, WLErase

LEMMA ReplayInvInit == ReplayInit => ReplayInv
<1> SUFFICES ASSUME ReplayInit PROVE ReplayInv
  OBVIOUS
<1>1. CtrlInv /\ ViewOK
  BY CtrlInvInit, ViewFacts DEF ReplayInit
<1>2. ReplayTypes
  BY TraceAssumption DEF ReplayInit, ReplayTypes, LinesRead, Parsed
<1>3. Versions = {}
  BY DEF ReplayInit, CtrlInit, Init, Versions, InNand, Range
<1>4. \A l \in LBA : Store[l] = Unmapped
  BY DEF ReplayInit, CtrlInit, Init, MappingInit, Store, HasMapping
<1>5. AppliedOK
  BY <1>1, <1>3, <1>4 DEF ReplayInit, AppliedOK, ViewOK, Unsaved, Versions
<1>6. PhaseOK /\ QueueOK
  BY NothingQueued DEF ReplayInit, PhaseOK, QueueOK
<1> QED
  BY <1>1, <1>2, <1>5, <1>6 DEF ReplayInv

\* What the invariant says of the drive does not depend on the interval.
LEMMA SetUpDrive ==
  ASSUME CtrlInv, CtrlSetInterval(STATIC_WL_INTERVAL)
  PROVE  /\ CtrlInv' /\ Unsaved' = Unsaved
         /\ \A l \in LBA : View(l)' = View(l)
<1>1. /\ UNCHANGED <<flashVars, mappingTable, pc, returnTo, loopVars, writing, gcCyclesRun>>
      /\ wearLevelInterval' \in Int /\ UNCHANGED <<lruList, toNand, answer>>
  BY TraceAssumption DEF CtrlSetInterval, HostSetInterval
<1>2. Store' = Store
  BY <1>1 DEF Store, HasMapping, flashVars
<1>3. DataOK'
  BY <1>1 DEF CtrlInv, IInv, DataOK, FlashTypeOK, MappingTypeOK, MappingIntegrity,
              ProgrammedInOrder, HasMapping, flashVars
<1>4. GCTypeOK' /\ ControlOK' /\ LoopsOK'
  BY <1>1 DEF CtrlInv, IInv, GCTypeOK, ControlOK, Busy, LoopsOK, BehindCursorEmpty,
              HasMapping, loopVars, flashVars
<1>5. HostData' /\ DramOK'
  BY <1>1 DEF CtrlInv, HostData, DramOK, flashVars
<1>6. OneVersion' /\ CleanOK' /\ Unsaved' = Unsaved
  BY <1>1, <1>2 DEF CtrlInv, OneVersion, CleanOK, InNand, Unsaved
<1>7. \A l \in LBA : View(l)' = View(l)
  BY <1>1, <1>2 DEF View
<1> QED
  BY <1>3, <1>4, <1>5, <1>6, <1>7 DEF CtrlInv, IInv

\* Steps that neither show nor queue anything new.
LEMMA NothingNew ==
  ASSUME ReplayInv, Unsaved' = Unsaved, \A l \in LBA : View(l)' = View(l),
         UNCHANGED <<queue, expected, lost>>
  PROVE  QueueOK' /\ AppliedOK'
<1>1. QueueOK'
  BY DEF ReplayInv, QueueOK
<1>2. AppliedOK'
  BY DEF ReplayInv, AppliedOK
<1> QED
  BY <1>1, <1>2

LEMMA DriveUntouched ==
  ASSUME CtrlInv, NoLBA \notin LBA, UNCHANGED ctrlVars
  PROVE  /\ CtrlInv' /\ Unsaved' = Unsaved
         /\ \A l \in LBA : View(l)' = View(l)
<1>1. CtrlInv'
  <2>1. UNCHANGED vars /\ UNCHANGED <<lruList, toNand, answer>>
    BY DEF ctrlVars
  <2>2. IInv' /\ HostData'
    BY <2>1, NextIInv, HostDataNext DEF CtrlInv
  <2>3. Store' = Store /\ InNand' = InNand
    BY <2>1 DEF Store, HasMapping, InNand, vars, flashVars
  <2> QED
    BY <2>1, <2>2, <2>3 DEF CtrlInv, DramOK, OneVersion, CleanOK
<1>2. Store' = Store /\ Unsaved' = Unsaved
  BY DEF ctrlVars, vars, flashVars, Store, HasMapping, Unsaved, InNand
<1>3. \A l \in LBA : View(l)' = View(l)
  BY <1>2 DEF ctrlVars, vars, View
<1> QED
  BY <1>1, <1>2, <1>3

\* A line that is counted leaves the drive alone and fits the bound.
LEMMA CountedFacts ==
  ASSUME ReplayInv, NoLBA \notin LBA, Reading, NEW c \in Parsed, Counted(c)
  PROVE  /\ parsed' \in [Parsed -> Nat] /\ LinesRead' <= MaxLines
         /\ UNCHANGED <<phase, candidate, lost>> /\ phase = "parse"
         /\ CtrlInv' /\ Unsaved' = Unsaved /\ PhaseOK'
         /\ \A l \in LBA : View(l)' = View(l)
<1>1. /\ parsed \in [Parsed -> Nat] /\ parsed' = [parsed EXCEPT ![c] = @ + 1]
      /\ c \in {"writes", "reads", "skipped"} /\ LinesRead < MaxLines
      /\ UNCHANGED <<ctrlVars, phase, candidate, lost>> /\ phase = "parse"
  BY DEF ReplayInv, ReplayTypes, Reading, Counted, Parsed
<1>2. parsed' \in [Parsed -> Nat] /\ LinesRead' = LinesRead + 1
  BY <1>1 DEF LinesRead, Parsed
<1>3. LinesRead \in Nat /\ LinesRead' <= MaxLines
  <2>1. LinesRead \in Nat
    BY <1>1 DEF LinesRead, Parsed
  <2>2. PICK n \in Nat : n = LinesRead
    BY <2>1
  <2> QED
    BY <1>1, <1>2, <2>2, TraceAssumption
<1>4. PhaseOK'
  BY <1>1 DEF PhaseOK
<1> QED
  BY <1>1, <1>2, <1>3, <1>4, DriveUntouched DEF ReplayInv

\* One line of the trace.
LEMMA LineInv ==
  ASSUME ReplayInv, NoLBA \notin LBA, NEW line \in Line,
         ParseWrite(line) \/ ParseRead(line) \/ SkipLine(line)
  PROVE  ReplayInv'
<1>1. ASSUME NEW c \in Parsed, Reading, Counted(c), queue' \in Seq(Request),
             expected' \in [LBA -> Data \cup {Unmapped}], QueueOK', AppliedOK'
      PROVE  ReplayInv'
  BY <1>1, CountedFacts DEF ReplayInv, ReplayTypes
<1>2. CASE SkipLine(line)
  <2>1. Reading /\ Counted("skipped") /\ "skipped" \in Parsed
        /\ UNCHANGED <<queue, expected, lost>>
    BY <1>2 DEF SkipLine, Parsed
  <2>2. QueueOK' /\ AppliedOK'
    BY <2>1, CountedFacts, NothingNew
  <2> QED
    BY <1>1, <2>1, <2>2 DEF ReplayInv, ReplayTypes
<1>3. CASE ParseRead(line)
  <2> DEFINE l == line.lba
             r == [op |-> "R", lba |-> l]
  <2>1. Reading /\ Counted("reads") /\ "reads" \in Parsed
        /\ queue' = Append(queue, r) /\ UNCHANGED expected
        /\ r \in Request /\ r.op # "W" /\ queue \in Seq(Request)
    BY <1>3 DEF ParseRead, AddRequest, Parsed, Request, Line, ReplayInv, ReplayTypes
  <2> HIDE DEF r
  <2>2. /\ queue' \in Seq(Request)
        /\ \A k \in LBA :
             /\ WritesTo(queue', k) = WritesTo(queue, k)
             /\ \A i \in WritesTo(queue, k) : queue'[i] = queue[i]
    BY <2>1, AppendFacts
  <2>3. QueueOK'
    BY <2>1, <2>2 DEF ReplayInv, QueueOK
  <2>4. AppliedOK'
    BY <2>1, <2>2, CountedFacts DEF ReplayInv, AppliedOK
  <2> QED
    BY <1>1, <2>1, <2>2, <2>3, <2>4 DEF ReplayInv, ReplayTypes
<1>4. CASE ParseWrite(line)
  <2>1. PICK l \in LBA, data \in Data :
          /\ Reading /\ Counted("writes")
          /\ queue' = Append(queue, [op |-> "W", lba |-> l, data |-> data])
          /\ expected' = [expected EXCEPT ![l] = data]
    <3>1. line.lba \in LBA /\ DataOf(line) \in Data
      BY <1>4, TraceAssumption DEF ParseWrite, DataOf, Line
    <3> QED
      BY <1>4, <3>1 DEF ParseWrite, AddRequest
  <2> DEFINE r == [op |-> "W", lba |-> l, data |-> data]
             n == Len(queue) + 1
  <2>2. /\ r \in Request /\ r.op = "W" /\ r.lba = l /\ r.data = data
        /\ "writes" \in Parsed /\ queue \in Seq(Request)
        /\ expected \in [LBA -> Data \cup {Unmapped}] /\ Len(queue) \in Nat
    BY LenProperties DEF Parsed, Request, ReplayInv, ReplayTypes
  <2>3. queue' = Append(queue, r)
    BY <2>1
  <2> HIDE DEF r
  <2>4. /\ queue' \in Seq(Request) /\ queue'[n] = r
        /\ WritesTo(queue', l) = WritesTo(queue, l) \cup {n}
        /\ WritesTo(queue, l) \subseteq 1 .. Len(queue)
        /\ \A k \in LBA : \A i \in WritesTo(queue, k) : queue'[i] = queue[i]
        /\ \A k \in LBA : k # l => WritesTo(queue', k) = WritesTo(queue, k)
    BY <2>2, <2>3, AppendFacts
  <2>5. QueueOK'
    <3>1. ASSUME NEW i \in WritesTo(queue', l), \A j \in WritesTo(queue', l) : j <= i
          PROVE  queue'[i].data = expected'[l]
      <4>1. i = n
        BY <2>2, <2>4, <3>1
      <4> QED
        BY <2>1, <2>2, <2>4, <4>1
    <3>2. ASSUME NEW k \in LBA, k # l, NEW i \in WritesTo(queue', k),
                 \A j \in WritesTo(queue', k) : j <= i
          PROVE  queue'[i].data = expected'[k]
      BY <2>1, <2>2, <2>4, <3>2 DEF ReplayInv, QueueOK
    <3> QED
      BY <3>1, <3>2 DEF QueueOK
  <2>6. AppliedOK'
    <3>1. ASSUME NEW k \in LBA, WritesTo(queue', k) = {}
          PROVE  k # l /\ WritesTo(queue, k) = {} /\ expected'[k] = expected[k]
      BY <2>1, <2>2, <2>4, <3>1
    <3> QED
      BY <2>1, <2>2, <3>1, CountedFacts DEF ReplayInv, AppliedOK
  <2>7. expected' \in [LBA -> Data \cup {Unmapped}]
    BY <2>1, <2>2
  <2> QED
    BY <1>1, <2>1, <2>2, <2>4, <2>5, <2>6, <2>7
<1> QED
  BY <1>2, <1>3, <1>4

\* What shows the same and needs no more saving is as far applied.
LEMMA SameApplied ==
  ASSUME AppliedOK, ViewOK, ViewOK', UNCHANGED <<expected, lost>>,
         \A k \in LBA : View(k)' = View(k),
         \A k \in LBA : WritesTo(queue', k) = {} => WritesTo(queue, k) = {},
         \A y \in Unsaved' : \E x \in Unsaved : x.lba = y.lba
  PROVE  AppliedOK'
<1>1. ASSUME NEW k \in LBA, WritesTo(queue', k) = {}, NEW y \in Unsaved', y.lba = k
      PROVE  y.data = expected[k]
  <2>1. PICK x \in Unsaved : x.lba = k
    BY <1>1
  <2>2. View(k) = x.data
    BY <2>1, UnsavedShown
  <2>3. View(k)' = y.data
    BY <1>1 DEF ViewOK, Versions, Unsaved
  <2> QED
    BY <1>1, <2>1, <2>2, <2>3 DEF AppliedOK
<1> QED
  BY <1>1 DEF AppliedOK

\* The drain loop: what is applied is the first request of the queue, so that the
\* LBA it writes shows it until another one is applied.
LEMMA ExecuteInv ==
  ASSUME ReplayInv, NoLBA \notin LBA, ExecuteNext
  PROVE  ReplayInv'
<1> DEFINE r == Head(queue)
<1>1. /\ phase = "drain" /\ queue # <<>> /\ Executes(r) /\ TakeRequest
      /\ UNCHANGED <<phase, candidate, parsed, expected, lost>>
  BY DEF ExecuteNext
<1>2. r \in Request
  BY <1>1, TailOfQueue DEF ReplayInv, ReplayTypes
<1>3. /\ QueueOK' /\ queue' \in Seq(Request)
      /\ \A l \in LBA :
           WritesTo(queue', l) = {} =>
             \/ WritesTo(queue, l) = {}
             \/ r.op = "W" /\ r.lba = l /\ r.data = expected[l]
  BY <1>1, TakenFacts DEF ReplayInv
<1>4. CtrlNext /\ r.lba \in LBA
  BY <1>1, <1>2 DEF Executes, CtrlNext, CtrlHost, Request
<1>5. CtrlInv' /\ ViewOK /\ ViewOK'
  <2>1. CtrlInv /\ CtrlInv'
    BY <1>4, CtrlInvNext DEF ReplayInv
  <2> QED
    BY <2>1, ViewFacts, PTL
<1>6. PhaseOK'
  BY <1>1 DEF PhaseOK
<1>7. ReplayTypes'
  BY <1>1, <1>3 DEF ReplayInv, ReplayTypes, LinesRead
<1>8. CASE r.op = "W"
  <2>1. r.data \in Data /\ CtrlWrite(r.lba, r.data)
    BY <1>1, <1>2, <1>8 DEF Executes, Request
  <2>2. WritesTo(queue, r.lba) # {}
    BY <1>1, <1>4, <1>8, TailOfQueue DEF ReplayInv, ReplayTypes, WritesTo
  <2> HIDE DEF r
  <2>3. \A k \in LBA : View(k)' = IF k = r.lba THEN r.data ELSE View(k)
    BY <1>4, <1>5, <2>1, WriteShown DEF ReplayInv
  <2>4. ASSUME NEW k \in LBA, WritesTo(queue', k) = {}, k \notin lost
        PROVE  View(k)' = expected[k]
    <3>1. CASE k = r.lba
      BY <1>3, <2>3, <2>4, <2>2, <3>1
    <3>2. CASE k # r.lba
      <4>1. WritesTo(queue, k) = {}
        BY <1>3, <2>4, <3>2
      <4>2. View(k) = expected[k]
        BY <2>4, <4>1 DEF ReplayInv, AppliedOK
      <4> QED
        BY <2>3, <3>2, <4>2
    <3> QED
      BY <3>1, <3>2
  <2>5. ASSUME NEW k \in LBA, WritesTo(queue', k) = {}, NEW y \in Unsaved', y.lba = k
        PROVE  y.data = expected[k]
    <3>1. View(k)' = y.data
      BY <1>5, <2>5 DEF ViewOK, Versions, Unsaved
    <3>2. CASE k = r.lba
      BY <1>3, <2>3, <2>5, <2>2, <3>1, <3>2
    <3>3. CASE k # r.lba
      <4>1. PICK x \in Unsaved : x.lba = k
        BY <1>4, <2>1, <2>5, <3>3, UnsavedFrom DEF ReplayInv
      <4>2. View(k) = x.data /\ View(k)' = View(k)
        BY <1>5, <2>3, <3>3, <4>1, UnsavedShown
      <4>3. WritesTo(queue, k) = {}
        BY <1>3, <2>5, <3>3
      <4> QED
        BY <3>1, <4>1, <4>2, <4>3 DEF ReplayInv, AppliedOK
    <3> QED
      BY <3>2, <3>3
  <2>6. AppliedOK'
    BY <1>1, <2>4, <2>5 DEF AppliedOK
  <2> QED
    BY <1>3, <1>5, <1>6, <1>7, <2>6 DEF ReplayInv
<1>9. CASE r.op # "W"
  <2>1. ReadHit(r.lba) \/ ReadMiss(r.lba) \/ ReadUnmapped(r.lba)
    BY <1>1, <1>9 DEF Executes
  <2>2. \A k \in LBA : View(k)' = View(k)
    BY <1>4, <1>5, <2>1, ReadShown DEF ReplayInv
  <2>3. AppliedOK'
    <3>1. \A y \in Unsaved' : \E x \in Unsaved : x.lba = y.lba
      BY <1>4, <2>1, UnsavedFrom DEF ReplayInv
    <3>2. \A k \in LBA : WritesTo(queue', k) = {} => WritesTo(queue, k) = {}
      BY <1>3, <1>9
    <3> QED
      BY <1>1, <1>5, <2>2, <3>1, <3>2, SameApplied DEF ReplayInv
  <2> QED
    BY <1>3, <1>5, <1>6, <1>7, <2>3 DEF ReplayInv
<1> QED
  BY <1>8, <1>9

\* The flush takes everything out of the cache.
LEMMA ReplayFlushInv ==
  ASSUME ReplayInv, NoLBA \notin LBA, ReplayFlush
  PROVE  ReplayInv'
<1>1. /\ FlushCache /\ phase' = "flush" /\ queue = <<>>
      /\ UNCHANGED <<candidate, parsed, queue, expected, lost>>
  BY DEF ReplayFlush
<1>2. CtrlInv' /\ ViewOK /\ ViewOK'
  <2>1. CtrlInv /\ CtrlInv'
    BY <1>1, CtrlInvNext DEF ReplayInv, CtrlNext, CtrlHost
  <2> QED
    BY <2>1, ViewFacts, PTL
<1>3. \A k \in LBA : View(k)' = View(k)
  BY <1>1, <1>2, OthersShown DEF ReplayInv
<1>4. \A y \in Unsaved' : \E x \in Unsaved : x.lba = y.lba
  BY <1>1, UnsavedFrom DEF ReplayInv
<1>5. AppliedOK'
  BY <1>1, <1>2, <1>3, <1>4, SameApplied DEF ReplayInv
<1>6. ReplayTypes' /\ PhaseOK' /\ QueueOK'
  BY <1>1 DEF ReplayInv, ReplayTypes, LinesRead, PhaseOK, QueueOK, FlushCache
<1> QED
  BY <1>2, <1>5, <1>6 DEF ReplayInv

\* The call in progress shows nothing new, but for a drop, which puts its LBA
\* among the lost ones; and what is programmed is no longer lost.
LEMMA ReplayControllerInv ==
  ASSUME ReplayInv, NoLBA \notin LBA, ReplayController
  PROVE  ReplayInv'
<1>1. /\ CtrlController
      /\ lost' = CASE DropWrite -> lost \cup {writing.lba}
                   [] Program   -> lost \ {writing.lba}
                   [] OTHER     -> lost
      /\ UNCHANGED <<phase, candidate, parsed, queue, expected>>
  BY DEF ReplayController
<1>2. CtrlInv' /\ ViewOK /\ ViewOK'
  <2>1. CtrlInv /\ CtrlInv'
    BY <1>1, CtrlInvNext DEF ReplayInv, CtrlNext
  <2> QED
    BY <2>1, ViewFacts, PTL
<1>3. PhaseOK'
  <2>1. lruList' = lruList
    BY <1>1 DEF CtrlController, NextNandWrite
  <2>2. ~ (pc = "idle" /\ toNand = <<>>)
    BY <1>1, ControllerRuns DEF CtrlController, NextNandWrite
  <2> QED
    BY <1>1, <2>1, <2>2 DEF ReplayInv, PhaseOK
<1>4. QueueOK'
  BY <1>1 DEF ReplayInv, QueueOK
<1>5. DropWrite \/ Program => writing \in Write /\ writing \in Unsaved
  <2>1. DropWrite \/ Program => writing \in Write
    BY DEF DropWrite, Program, ReplayInv, CtrlInv, IInv, ControlOK, Busy, GCPhases
  <2> QED
    BY <2>1, HostAssumption DEF Unsaved, InNand
<1>6. ~ (DropWrite /\ Program)
  BY DEF DropWrite, Program, NoFreeBlock, LeastUsedFreeBlock, FirstLeast
<1>7. lost' \subseteq LBA
  BY <1>1, <1>5, <1>6 DEF ReplayInv, ReplayTypes, Write
<1>8. AppliedOK'
  <2>1. \A y \in Unsaved' : \E x \in Unsaved : x.lba = y.lba
    BY <1>1, UnsavedFrom DEF ReplayInv
  <2>2. CASE DropWrite
    <3>1. lost' = lost \cup {writing.lba}
      BY <1>1, <1>6, <2>2
    <3>2. UNCHANGED <<lruList, toNand, answer>>
      BY <1>1, <2>2 DEF CtrlController, NextNandWrite, DropWrite
    <3>3. /\ \A x \in Unsaved' : x \in Unsaved
          /\ \A k \in LBA : k # writing.lba => View(k)' = View(k)
      BY <2>2, <3>2, DropShown DEF ReplayInv
    <3> QED
      BY <1>1, <3>1, <3>3 DEF ReplayInv, AppliedOK
  <2>3. CASE ~ DropWrite
    <3>1. \A k \in LBA : View(k)' = View(k)
      BY <1>1, <1>2, <2>3, OthersShown DEF ReplayInv, CtrlController, NandStep
    <3>2. ASSUME NEW k \in LBA, WritesTo(queue', k) = {}, NEW y \in Unsaved', y.lba = k
          PROVE  y.data = expected'[k]
      <4>1. PICK x \in Unsaved : x.lba = k
        BY <2>1, <3>2
      <4>2. View(k) = x.data /\ View(k)' = y.data
        BY <1>2, <3>2, <4>1, UnsavedShown DEF ViewOK, Versions, Unsaved
      <4> QED
        BY <1>1, <3>1, <3>2, <4>1, <4>2 DEF ReplayInv, AppliedOK
    <3>3. ASSUME NEW k \in LBA, WritesTo(queue', k) = {}, k \notin lost'
          PROVE  View(k)' = expected'[k]
      <4>1. CASE k \notin lost
        BY <1>1, <3>1, <3>3, <4>1 DEF ReplayInv, AppliedOK
      <4>2. CASE k \in lost
        <5>1. Program /\ k = writing.lba
          BY <1>1, <2>3, <3>3, <4>2
        <5>2. View(k) = writing.data
          BY <1>2, <1>5, <5>1, UnsavedShown
        <5> QED
          BY <1>1, <1>5, <3>1, <3>3, <5>1, <5>2 DEF ReplayInv, AppliedOK
      <4> QED
        BY <4>1, <4>2
    <3> QED
      BY <3>2, <3>3 DEF AppliedOK
  <2> QED
    BY <2>2, <2>3
<1>9. ReplayTypes'
  BY <1>1, <1>7 DEF ReplayInv, ReplayTypes, LinesRead
<1> QED
  BY <1>2, <1>3, <1>4, <1>8, <1>9 DEF ReplayInv

\* The steps that only move the scenario on.
LEMMA PhaseInv ==
  ASSUME ReplayInv, NoLBA \notin LBA,
         SetUp \/ OpenTrace \/ GiveUp \/ EndOfTrace \/ FinishReplay
           \/ UNCHANGED <<ctrlVars, replayVars>>
  PROVE  ReplayInv'
<1>1. /\ CtrlInv' /\ Unsaved' = Unsaved /\ UNCHANGED <<queue, expected, lost>>
      /\ \A l \in LBA : View(l)' = View(l)
  <2>1. CASE SetUp
    BY <2>1, SetUpDrive DEF SetUp, ReplayInv
  <2>2. CASE ~ SetUp
    BY <2>2, DriveUntouched
    DEF OpenTrace, GiveUp, EndOfTrace, FinishReplay, replayVars, ReplayInv
  <2> QED
    BY <2>1, <2>2
<1>2. QueueOK' /\ AppliedOK'
  BY <1>1, NothingNew
<1>3. PhaseOK'
  BY DEF ReplayInv, PhaseOK, SetUp, OpenTrace, GiveUp, EndOfTrace, FinishReplay, Ready,
         Idle, ctrlVars, vars, gcVars, replayVars
<1>4. candidate' \in 1 .. Candidates + 1
  BY TraceAssumption DEF ReplayInv, ReplayTypes, SetUp, OpenTrace, GiveUp, EndOfTrace,
     FinishReplay, replayVars
<1>5. parsed' \in [Parsed -> Nat] /\ LinesRead' <= MaxLines
  <2>1. CASE OpenTrace
    BY <2>1, TraceAssumption DEF OpenTrace, LinesRead, Parsed
  <2>2. CASE ~ OpenTrace
    BY <2>2 DEF ReplayInv, ReplayTypes, SetUp, GiveUp, EndOfTrace, FinishReplay,
                replayVars, LinesRead
  <2> QED
    BY <2>1, <2>2
<1>6. ReplayTypes'
  BY <1>1, <1>4, <1>5 DEF ReplayInv, ReplayTypes, SetUp, OpenTrace, GiveUp, EndOfTrace,
     FinishReplay, replayVars
<1> QED
  BY <1>1, <1>2, <1>3, <1>6 DEF ReplayInv

LEMMA ReplayInvariance ==
  ASSUME NoLBA \notin LBA
  PROVE  ReplaySpec => []ReplayInv
<1>1. ReplayInv /\ [ReplayNext]_<<ctrlVars, replayVars>> => ReplayInv'
  BY LineInv, ExecuteInv, ReplayFlushInv, ReplayControllerInv, PhaseInv DEF ReplayNext
<1> QED
  BY ReplayInvInit, <1>1, PTL DEF ReplaySpec

-----------------------------------------------------------------------------
(* The theorems. *)

\* Types of the replay, for traces of any length: also, the parser counts each line
\* once, and the loop over the paths tries none that does not exist.
THEOREM ReplayTypeCorrectness ==
  ASSUME NoLBA \notin LBA
  PROVE  ReplaySpec => []ReplayTypeOK
<1>1. ReplayInv => ReplayTypeOK
  <2> SUFFICES ASSUME ReplayInv PROVE ReplayTypeOK
    OBVIOUS
  <2>1. parsed \in [Parsed -> 0 .. MaxLines]
    BY TraceAssumption DEF ReplayInv, ReplayTypes, LinesRead, Parsed
  <2> QED
    BY <2>1, CtrlInvTypes DEF ReplayInv, ReplayTypes, ReplayTypeOK
<1> QED
  BY ReplayInvariance, <1>1, PTL

\* After the replay of any trace NAND holds the data of the last W line of every
\* LBA, but for what a full drive dropped last: parsing, queueing, caching,
\* evicting, collecting and flushing neither lose nor reorder a write.
THEOREM ReplayComplete ==
  ASSUME NoLBA \notin LBA
  PROVE  ReplaySpec => []ReplayedTraceInNand
<1>1. ReplayInv => ReplayedTraceInNand
  <2> SUFFICES ASSUME ReplayInv, phase = "done", NEW l \in LBA \ lost
               PROVE  Store[l] = expected[l]
    BY DEF ReplayedTraceInNand
  <2>1. queue = <<>> /\ lruList = <<>> /\ toNand = <<>> /\ pc = "idle" /\ ViewOK
    BY ViewFacts DEF ReplayInv, PhaseOK
  <2>2. writing = NoWrite
    BY <2>1 DEF ReplayInv, CtrlInv, IInv, ControlOK, Busy, GCPhases
  <2>3. Versions = {}
    BY <2>1, <2>2 DEF Versions, InNand, Range
  <2>4. View(l) = Store[l]
    BY <2>1, <2>3 DEF ViewOK
  <2> QED
    BY <2>1, <2>4, NothingQueued DEF ReplayInv, AppliedOK
<1> QED
  BY ReplayInvariance, <1>1, PTL

LEMMA LosslessReplay ==
  ASSUME OverProvisioned, IsFiniteSet(LBA), NoLBA \notin LBA,
         ReplayInv, CapacityInv, lost = {}, [ReplayNext]_<<ctrlVars, replayVars>>
  PROVE  CapacityInv' /\ lost' = {}
<1>1. CASE SetUp
  <2>1. /\ UNCHANGED <<flashVars, mappingTable, pc, returnTo, loopVars>>
        /\ lost' = lost
    BY <1>1 DEF SetUp, CtrlSetInterval, HostSetInterval
  <2>2. FreeAddresses' = FreeAddresses
    BY <2>1, SamePages
  <2>3. ReserveOK'
    <3>1. CASE pc = "migrate"
      BY <1>1, <3>1 DEF SetUp, CtrlSetInterval, HostSetInterval
    <3>2. CASE pc # "migrate"
      BY <2>1, <2>2, <3>2 DEF CapacityInv, ReserveOK
    <3> QED
      BY <3>1, <3>2
  <2>4. OrphansBehindCursor'
    BY <2>1, SameOrphans, <1>1 DEF CapacityInv, SetUp, CtrlSetInterval, HostSetInterval
  <2> QED
    BY <2>1, <2>3, <2>4 DEF CapacityInv
<1>2. CASE ~ SetUp
  <2>1. [CtrlNext]_ctrlVars
    BY <1>2, TailOfQueue
    DEF ReplayNext, OpenTrace, GiveUp, ParseWrite, ParseRead, SkipLine, Counted, EndOfTrace,
        ExecuteNext, Executes, ReplayFlush, FinishReplay, ReplayController, CtrlNext,
        CtrlHost, Request, ReplayInv, ReplayTypes
  <2>2. CapacityInv' /\ ~ DropWrite
    BY <2>1, CapacityCtrl DEF ReplayInv
  <2>3. lost' = lost
    BY <1>2, <2>2
    DEF ReplayNext, OpenTrace, GiveUp, ParseWrite, ParseRead, SkipLine, Counted, EndOfTrace,
        ExecuteNext, ReplayFlush, FinishReplay, ReplayController, replayVars
  <2> QED
    BY <2>2, <2>3
<1> QED
  BY <1>1, <1>2

\* On a drive with a spare block and a watermark of a block or more, no write of a
\* trace is dropped: what NAND holds after the replay is right for every LBA.
THEOREM ReplayLossless ==
  ASSUME OverProvisioned, IsFiniteSet(LBA), NoLBA \notin LBA
  PROVE  ReplaySpec => [](ReplayedTraceInNand /\ lost = {})
<1>1. ReplayInit => CapacityInv /\ lost = {}
  BY CapacityInit DEF ReplayInit, CtrlInit
<1>2. ReplayInv /\ CapacityInv /\ lost = {} /\ [ReplayNext]_<<ctrlVars, replayVars>>
        => (CapacityInv /\ lost = {})'
  BY LosslessReplay
<1> QED
  BY ReplayInvariance, ReplayComplete, <1>1, <1>2, PTL DEF ReplaySpec

=============================================================================

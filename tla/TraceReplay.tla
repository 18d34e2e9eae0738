---------------------------- MODULE TraceReplay ----------------------------
(***************************************************************************)
(* The replay of a trace file (runTraceScenario): TraceParser turns lines  *)
(* into requests, RequestQueue holds them, the drain loop executes them on *)
(* the controller of SSDController, and the cache is flushed at the end.   *)
(*                                                                         *)
(* A line is what loadInto tells apart: its operation, its LBA if it has   *)
(* one, its data if it has some.                                           *)
(***************************************************************************)
EXTENDS SSDController

CONSTANTS
  Missing,      \* a field the line does not have
  DefaultData,  \* "trace_data_lba<LBA>", for a W without data
  MaxLines,     \* bound: lines in a trace
  Candidates,   \* how many paths of the file are tried
  STATIC_WL_INTERVAL

ASSUME TraceAssumption ==
  /\ MaxLines \in Nat /\ Candidates \in Nat
  /\ STATIC_WL_INTERVAL \in Int
  /\ DefaultData \in Data
  /\ Missing \notin LBA \cup Data

VARIABLES
  phase,      \* where runTraceScenario is
  candidate,  \* the path it tries in the loop over them
  parsed,     \* the counters of the parser
  queue,      \* requests not yet executed
  expected,   \* for each LBA, the data of the last W line read, or Unmapped
  lost        \* history: LBAs whose last data nandWrite dropped

replayVars == <<phase, candidate, parsed, queue, expected, lost>>

\* Blank lines and comments have an operation other than W and R.
Line == [op : {"W", "R", "other"}, lba : LBA \cup {Missing}, data : Data \cup {Missing}]

Request ==      [op : {"W"}, lba : LBA, data : Data]
           \cup [op : {"R"}, lba : LBA]

Parsed == {"writes", "reads", "skipped"}

ReplayTypeOK ==
  /\ CtrlTypeOK
  /\ phase \in {"setup", "open", "parse", "drain", "flush", "done", "failed"}
  /\ candidate \in 1 .. Candidates + 1
  /\ parsed \in [Parsed -> 0 .. MaxLines]
  /\ queue \in Seq(Request)
  /\ expected \in [LBA -> Data \cup {Unmapped}]
  /\ lost \subseteq LBA

ReplayInit ==
  /\ CtrlInit
  /\ phase = "setup" /\ candidate = 1
  /\ parsed = [c \in Parsed |-> 0]
  /\ queue = <<>>
  /\ expected = [l \in LBA |-> Unmapped]
  /\ lost = {}

-----------------------------------------------------------------------------
(* Setting up and parsing. *)

\* setWearLevelInterval, before the trace is looked for.
SetUp ==
  /\ phase = "setup"
  /\ CtrlSetInterval(STATIC_WL_INTERVAL)
  /\ phase' = "open"
  /\ UNCHANGED <<candidate, parsed, queue, expected, lost>>

\* loadInto on the next path: the file opens and the loop over the paths is left,
\* or the path after it is tried.
OpenTrace ==
  /\ phase = "open" /\ candidate <= Candidates
  /\ \/ phase' = "parse" /\ candidate' = 1
     \/ candidate' = candidate + 1 /\ UNCHANGED phase
  /\ parsed' = [c \in Parsed |-> 0]
  /\ UNCHANGED <<ctrlVars, queue, expected, lost>>

FaultyGiveUp ==
  /\ phase = "open" /\ candidate > Candidates
  /\ candidate' = 1
  /\ UNCHANGED <<ctrlVars, phase, parsed, queue, expected, lost>>

\* No path opened: the scenario is skipped.
GiveUp ==
  /\ phase = "open" /\ candidate > Candidates
  /\ phase' = "failed"
  /\ UNCHANGED <<ctrlVars, candidate, parsed, queue, expected, lost>>

LinesRead == parsed["writes"] + parsed["reads"] + parsed["skipped"]

Reading == phase = "parse" /\ LinesRead < MaxLines

\* A line was read and counted.
Counted(counter) ==
  /\ parsed' = [parsed EXCEPT ![counter] = @ + 1]
  /\ UNCHANGED <<ctrlVars, phase, candidate, lost>>

FaultyAddRequest(request) == queue' = <<request>> \o queue

\* RequestQueue::addRequest.
AddRequest(request) == queue' = Append(queue, request)

FaultyDataOf(line) == line.data

\* What a W line writes: its data or, without any, the default for the LBA.
DataOf(line) == IF line.data = Missing THEN DefaultData ELSE line.data

\* W <LBA> <data>.
ParseWrite(line) ==
  /\ Reading /\ line.op = "W" /\ line.lba # Missing
  /\ AddRequest([op |-> "W", lba |-> line.lba, data |-> DataOf(line)])
  /\ expected' = [expected EXCEPT ![line.lba] = DataOf(line)]
  /\ Counted("writes")

\* R <LBA>; the rest of the line is ignored.
ParseRead(line) ==
  /\ Reading /\ line.op = "R" /\ line.lba # Missing
  /\ AddRequest([op |-> "R", lba |-> line.lba])
  /\ UNCHANGED expected
  /\ Counted("reads")

\* Blank lines, comments, other operations, and operations without an LBA.
SkipLine(line) ==
  /\ Reading /\ (line.op = "other" \/ line.lba = Missing)
  /\ Counted("skipped")
  /\ UNCHANGED <<queue, expected, lost>>

EndOfTrace ==
  /\ phase = "parse"
  /\ phase' = "drain"
  /\ UNCHANGED <<ctrlVars, candidate, parsed, queue, expected, lost>>

-----------------------------------------------------------------------------
(* The drain loop. *)

\* execute(): one call of the controller.
Executes(request) ==
  \/ request.op = "W" /\ CtrlWrite(request.lba, request.data)
  \/ /\ request.op = "R"
     /\ ReadHit(request.lba) \/ ReadMiss(request.lba) \/ ReadUnmapped(request.lba)

\* RequestQueue::getNextRequest, which only one thread ever calls.
TakeRequest == queue' = Tail(queue)

ExecuteNext ==
  /\ phase = "drain" /\ queue # <<>>
  /\ Executes(Head(queue))
  /\ TakeRequest
  /\ UNCHANGED <<phase, candidate, parsed, expected, lost>>

\* The queue is empty and the last request has returned.
ReplayFlush ==
  /\ phase = "drain" /\ queue = <<>>
  /\ FlushCache
  /\ phase' = "flush"
  /\ UNCHANGED <<candidate, parsed, queue, expected, lost>>

FinishReplay ==
  /\ phase = "flush" /\ Ready
  /\ phase' = "done"
  /\ UNCHANGED <<ctrlVars, candidate, parsed, queue, expected, lost>>

\* A step of the call in progress; a nandWrite ends by storing or dropping.
ReplayController ==
  /\ CtrlController
  /\ lost' = CASE DropWrite -> lost \cup {writing.lba}
               [] Program   -> lost \ {writing.lba}
               [] OTHER     -> lost
  /\ UNCHANGED <<phase, candidate, parsed, queue, expected>>

ReplayNext ==
  \/ SetUp \/ OpenTrace \/ GiveUp
  \/ \E line \in Line : ParseWrite(line) \/ ParseRead(line) \/ SkipLine(line)
  \/ EndOfTrace
  \/ ExecuteNext \/ ReplayFlush \/ FinishReplay
  \/ ReplayController

ReplaySpec == ReplayInit /\ [][ReplayNext]_<<ctrlVars, replayVars>>

\* main runs to its end.
ReplayFairSpec == ReplaySpec /\ WF_<<ctrlVars, replayVars>>(ReplayNext)

-----------------------------------------------------------------------------
(* Correctness. *)

\* After the replay, NAND holds for every LBA the data of its last W line, and
\* nothing for the LBAs without one: parsing, queueing, caching, evicting,
\* collecting and flushing together neither lose nor reorder a write, but for
\* what a full drive dropped last.
ReplayedTraceInNand ==
  phase = "done" => \A l \in LBA \ lost : Store[l] = expected[l]

\* The scenario ends: with the trace replayed or without a trace.
ReplayEnds == <>(phase \in {"done", "failed"})

\* Every call of the controller returns: whatever was evicted or flushed is
\* given to nandWrite, which returns though collections start passes, fail and
\* are tried again.
CallsReturn ==
  (pc # "idle" \/ toNand # <<>>) ~> (pc = "idle" /\ toNand = <<>>)

=============================================================================

------------------------- MODULE VisualizerPlayback -------------------------
(***************************************************************************)
(* The playback of the browser visualizer (startSim, step, togglePause,    *)
(* resetSim and setSpeed in index.html): clicks and animation frames, each *)
(* of which runs to its end before the next one, drive a workload over the *)
(* drive of VisualizerDrive.                                               *)
(*                                                                         *)
(* Every click on Run starts a run with a step function of its own; runs   *)
(* are numbered, and a pending animation frame is the number of the run    *)
(* whose step it will call.                                                *)
(***************************************************************************)
EXTENDS VisualizerDrive

CONSTANTS
  coldLbas, hotLbas, hotRounds,   \* the workload's configuration
  Speeds,                         \* operations per frame; 0 is "Max"
  HistoryLength,                  \* points that a line chart keeps
  MaxRuns                         \* bound: clicks on Run

VARIABLES
  frames,         \* pending animation frames
  playback,       \* the frame requested last, 0 for null
  isPaused,
  playbackSpeed,
  sim,            \* the run whose drive sim is, 0 for null
  opIdx,          \* opIdx[r], batchSize[r]: locals of startSim that the step
  batchSize,      \*   of run r keeps
  current,        \* what the step in progress is doing: its run, how many
                  \*   operations are left in its loop, whether it flushes
  buttons,        \* the buttons that are displayed
  status,         \* the badge
  figures,        \* the snapshot that the figures above the charts show, if any
  history         \* history[c]: the points of chart c

playVars == <<frames, playback, isPaused, playbackSpeed, sim, opIdx, batchSize,
              current, buttons, status, figures, history>>

-----------------------------------------------------------------------------
(* The workload. *)

\* A write's data names its round; the cold fill is round 0.
WriteOp(l, round) == [type |-> "W", lba |-> l, data |-> round]
ReadOp(l) == [type |-> "R", lba |-> l]

ColdLba(i) == (i - 1) * 10
HotLba(i) == 200 + ((i - 1) % hotLbas) * 10

\* buildWorkload(): cold fill, hot rewrites, reads.
Workload ==
  [i \in 1 .. coldLbas |-> WriteOp(ColdLba(i), 0)]
    \o [i \in 1 .. hotRounds * hotLbas |-> WriteOp(HotLba(i), 1 + (i - 1) \div hotLbas)]
    \o [i \in 1 .. coldLbas |-> ReadOp(ColdLba(i))]
    \o [i \in 1 .. hotLbas |-> ReadOp(HotLba(i))]

totalOps == Len(Workload)

ASSUME PlaybackAssumption ==
  /\ {coldLbas, hotLbas, hotRounds, HistoryLength, MaxRuns} \subseteq Nat \ {0}
  /\ Speeds \subseteq Nat /\ 5 \in Speeds
  /\ LBA = {ColdLba(i) : i \in 1 .. coldLbas} \cup {HotLba(i) : i \in 1 .. hotLbas}
  /\ Data = 0 .. hotRounds

-----------------------------------------------------------------------------

Run == 1 .. MaxRuns
Button == {"runBtn", "pauseBtn", "resetBtn"}

\* The histories that updateCharts keeps.
Chart == {"waf", "iops", "gc", "cacheHit"}

\* snapshot(); a quotient is represented by what is divided.
Snapshot ==
  [waf |-> <<stats.physicalWrites, stats.logicalWrites>>,
   iops |-> <<stats.logicalReads + stats.logicalWrites, TotalSimulatedTime(stats)>>,
   gc |-> stats.gcInvocations, mig |-> stats.pagesMigrated,
   wlp |-> stats.wearLevelPasses,
   hitR |-> <<cacheStats.hits, cacheStats.misses>>, coals |-> cacheStats.coalesced,
   maxEC |-> MaxErases, minEC |-> MinErases,
   reads |-> stats.logicalReads, writes |-> stats.logicalWrites]

\* The point that each chart takes from it.
Point == [waf |-> Snapshot.waf, iops |-> Snapshot.iops, gc |-> Snapshot.gc,
          cacheHit |-> Snapshot.hitR]

NoStep == [run |-> 0, left |-> 0, flushing |-> FALSE]

PlayTypeOK ==
  /\ VisTypeOK
  /\ frames \subseteq Run
  /\ playback \in Run \cup {0} /\ sim \in Run \cup {0}
  /\ isPaused \in BOOLEAN
  /\ playbackSpeed \in Speeds
  /\ opIdx \in [Run -> 0 .. totalOps]
  /\ batchSize \in [Run -> Nat]
  /\ current \in [run : Run \cup {0}, left : 0 .. totalOps, flushing : BOOLEAN]
  /\ buttons \subseteq Button
  /\ status \in {"Ready", "Running", "Paused", "Complete"}

PlayInit ==
  /\ VisInit
  /\ frames = {} /\ playback = 0 /\ isPaused = FALSE /\ playbackSpeed = 5
  /\ sim = 0
  /\ opIdx = [r \in Run |-> 0] /\ batchSize = [r \in Run |-> 0]
  /\ current = NoStep
  /\ buttons = {"runBtn"} /\ status = "Ready"
  /\ figures = <<>> /\ history = [c \in Chart |-> <<>>]

\* No callback is running.
EventLoop == current = NoStep

-----------------------------------------------------------------------------
(* Clicks. *)

FaultyCancelled == frames

\* cancelAnimationFrame(playback), if there is one; a frame that has run
\* already is not pending.
Cancelled == frames \ {playback}

\* Figures and charts are emptied.
ClearFigures == figures' = <<>> /\ history' = [c \in Chart |-> <<>>]

\* createSim().
CreateSim ==
  /\ NewDrive /\ UNCHANGED wearLevelInterval
  /\ ftlRev' = [a \in Address |-> NoLBA]
  /\ stats' = [s \in Stat |-> 0] /\ cacheStats' = [s \in CacheStat |-> 0]

FaultyBatch(speed) == speed

\* Operations per frame, fixed when the run starts.
Batch(speed) == IF speed = 0 THEN totalOps ELSE speed

\* resetSim() and, with a new drive, the rest of startSim().
StartSim ==
  /\ EventLoop /\ "runBtn" \in buttons
  /\ \E r \in Run :
       /\ batchSize[r] = 0 /\ \A k \in Run : k < r => batchSize[k] # 0
       /\ CreateSim
       /\ sim' = r
       /\ batchSize' = [batchSize EXCEPT ![r] = Batch(playbackSpeed)]
       /\ frames' = Cancelled \cup {r}
       /\ playback' = r
  /\ isPaused' = FALSE
  /\ buttons' = {"pauseBtn", "resetBtn"} /\ status' = "Running"
  /\ ClearFigures
  /\ UNCHANGED <<playbackSpeed, opIdx, current>>

TogglePause ==
  /\ EventLoop /\ "pauseBtn" \in buttons
  /\ isPaused' = ~ isPaused
  /\ status' = IF isPaused' THEN "Paused" ELSE "Running"
  /\ UNCHANGED <<visVars, frames, playback, playbackSpeed, sim, opIdx, batchSize,
                 current, buttons, figures, history>>

ResetSim ==
  /\ EventLoop /\ "resetBtn" \in buttons
  /\ frames' = Cancelled /\ playback' = 0
  /\ isPaused' = FALSE /\ sim' = 0
  /\ buttons' = {"runBtn"} /\ status' = "Ready"
  /\ ClearFigures
  /\ UNCHANGED <<visVars, playbackSpeed, opIdx, batchSize, current>>

SetSpeed(n) ==
  /\ EventLoop
  /\ playbackSpeed' = n
  /\ UNCHANGED <<visVars, frames, playback, isPaused, sim, opIdx, batchSize, current,
                 buttons, status, figures, history>>

Click == StartSim \/ TogglePause \/ ResetSim \/ \E n \in Speeds : SetSpeed(n)

-----------------------------------------------------------------------------
(* step(). *)

FaultyKeepPolling(r) == frames' = frames \ {r} /\ UNCHANGED playback

\* A paused step only asks for the next frame.
KeepPolling(r) == playback' = r /\ UNCHANGED frames

FaultySmaller(m, n) == m

\* Math.min.
Smaller(m, n) == IF m <= n THEN m ELSE n

\* The browser calls the step of run r.
Frame(r) ==
  /\ EventLoop /\ r \in frames
  /\ \/ isPaused /\ KeepPolling(r) /\ UNCHANGED current
     \/ /\ ~ isPaused
        /\ frames' = frames \ {r}
        /\ current' = [run |-> r, left |-> Smaller(batchSize[r], totalOps - opIdx[r]),
                       flushing |-> FALSE]
        /\ UNCHANGED playback
  /\ UNCHANGED <<visVars, isPaused, playbackSpeed, sim, opIdx, batchSize, buttons, status,
                 figures, history>>

Executes(op) ==
  \/ op.type = "W" /\ VisWrite(op.lba, op.data)
  \/ op.type = "R" /\ (VisReadHit(op.lba) \/ VisReadMiss(op.lba) \/ VisReadUnmapped(op.lba))

\* One iteration of the loop; the drive it uses is whatever sim is now.
ExecuteOp ==
  /\ current.left > 0 /\ sim # 0
  /\ Executes(Workload[opIdx[current.run] + 1])
  /\ opIdx' = [opIdx EXCEPT ![current.run] = @ + 1]
  /\ current' = [current EXCEPT !.left = @ - 1]
  /\ UNCHANGED <<frames, playback, isPaused, playbackSpeed, sim, batchSize, buttons, status,
                 figures, history>>

LoopDone == ~ EventLoop /\ current.left = 0 /\ Ready

\* One push; if the history is too long then, one shift.
Pushed(points, point) ==
  LET longer == Append(points, point)
  IN  IF Len(longer) > HistoryLength THEN Tail(longer) ELSE longer

FaultyUpdateCharts ==
  history' = [c \in Chart |-> IF c = "cacheHit" THEN Append(history[c], Point[c])
                              ELSE Pushed(history[c], Point[c])]

\* updateCharts(): each history is pushed and shifted by itself.
UpdateCharts == history' = [c \in Chart |-> Pushed(history[c], Point[c])]

Displayed == figures' = <<Snapshot>> /\ UpdateCharts

\* The loop is done: display the figures and ask for another frame or, after the
\* last operation, flush.
RequestFrame ==
  /\ LoopDone /\ opIdx[current.run] < totalOps
  /\ Displayed
  /\ frames' = frames \cup {current.run} /\ playback' = current.run
  /\ current' = NoStep
  /\ UNCHANGED <<visVars, isPaused, playbackSpeed, sim, opIdx, batchSize, buttons, status>>

FaultyFinalFlush ==
  /\ LoopDone /\ opIdx[current.run] = totalOps /\ ~ current.flushing
  /\ Displayed
  /\ current' = [current EXCEPT !.flushing = TRUE]
  /\ UNCHANGED <<visVars, frames, playback, isPaused, playbackSpeed, sim, opIdx,
                 batchSize, buttons, status>>

FinalFlush ==
  /\ LoopDone /\ opIdx[current.run] = totalOps /\ ~ current.flushing
  /\ VisFlushCache
  /\ Displayed
  /\ current' = [current EXCEPT !.flushing = TRUE]
  /\ UNCHANGED <<frames, playback, isPaused, playbackSpeed, sim, opIdx, batchSize,
                 buttons, status>>

Complete ==
  /\ LoopDone /\ current.flushing
  /\ current' = NoStep
  /\ buttons' = buttons \ {"pauseBtn"} /\ status' = "Complete"
  /\ UNCHANGED <<visVars, frames, playback, isPaused, playbackSpeed, sim, opIdx, batchSize, figures,
                 history>>

Step ==
  \/ \E r \in Run : Frame(r)
  \/ ExecuteOp \/ RequestFrame \/ FinalFlush \/ Complete
  \/ VisController /\ UNCHANGED playVars

PlayNext == Click \/ Step

PlaySpec == PlayInit /\ [][PlayNext]_<<visVars, playVars>>

\* The browser calls pending frames, and a callback runs to its end.
PlayFairSpec == PlaySpec /\ WF_<<visVars, playVars>>(Step)

-----------------------------------------------------------------------------
(* Correctness. *)

\* However Run, Pause and Reset are clicked between frames, the only frame that
\* is ever pending or running belongs to the run whose drive sim is: no step of
\* a run that was reset drives the next run's drive, or none.
FramesAreCurrent ==
  /\ frames \subseteq {sim}
  /\ ~ EventLoop => current.run = sim /\ frames = {}

\* The badge and the buttons tell what happens: a run that shows as running or
\* paused has a frame to come, and the other states have none.
StatusTellsPlayback ==
  EventLoop =>
    /\ status \in {"Running", "Paused"} <=> frames # {}
    /\ status = "Paused" <=> isPaused
    /\ "pauseBtn" \in buttons <=> frames # {}
    /\ "runBtn" \in buttons <=> sim = 0

\* The figures and the last point of every chart are what the drive says now.
UpToDate ==
  /\ figures = <<Snapshot>>
  /\ \A c \in Chart : history[c][Len(history[c])] = Point[c]

\* Between callbacks figures and charts are those of the drive that plays: every
\* one of the four histories has one point per frame it played, as far as it goes
\* back, and never one of a run before it; and as long as frames are to come,
\* the figures and the last points are up to date.  A completed run shows them as
\* they were before the final flush.
FiguresAreCurrent ==
  EventLoop =>
    LET framesPlayed ==
          IF sim = 0 THEN 0 ELSE (opIdx[sim] + batchSize[sim] - 1) \div batchSize[sim]
    IN  /\ \A c \in Chart : Len(history[c]) = Smaller(HistoryLength, framesPlayed)
        /\ figures # <<>> <=> framesPlayed > 0
        /\ frames # {} /\ framesPlayed > 0 => UpToDate

\* What the workload's last write of l leaves there.
Final(l) ==
  LET writes == {i \in 1 .. totalOps : Workload[i].type = "W" /\ Workload[i].lba = l}
  IN  Workload[CHOOSE i \in writes : \A j \in writes : j <= i].data

\* Whatever the batches, pauses, resets and restarts, a run that completes has
\* executed its workload once and in order: its drive has served the operations
\* up to opIdx and no other run's, each read finds the last write, and after the
\* final flush NAND holds it.
WorkloadPlayed ==
  /\ EventLoop /\ sim # 0 => stats.logicalWrites + stats.logicalReads = opIdx[sim]
  /\ status = "Complete" => \A l \in LBA : Store[l] = Final(l)
  /\ ~ EventLoop /\ Ready /\ opIdx[current.run] > 0 =>
       LET op == Workload[opIdx[current.run]]
       IN  op.type = "R" => answer = Final(op.lba)

\* A run that shows as running completes unless it is paused or reset.
RunsComplete == status = "Running" ~> status # "Running"

=============================================================================

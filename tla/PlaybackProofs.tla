--------------------------- MODULE PlaybackProofs ---------------------------
(***************************************************************************)
(* Proofs about VisualizerPlayback: clicks and animation frames, in any    *)
(* order and for any workload, speeds and number of runs.                  *)
(***************************************************************************)
EXTENDS VisualizerPlayback, VisualizerProofs, SequenceTheorems

-----------------------------------------------------------------------------
(* Frames, badge and buttons. *)

\* A pending frame is the one that playback names, so that a click can cancel it.
FramesOK ==
  /\ frames \subseteq {sim} /\ sim \in Run \cup {0}
  /\ frames # {} => playback = sim /\ sim # 0

\* The page between callbacks and during the callback of a run.
WaitingOK ==
  EventLoop =>
    /\ StatusTellsPlayback
    /\ buttons \subseteq Button /\ (sim # 0 => "resetBtn" \in buttons)

StepOK ==
  ~ EventLoop =>
    /\ current.run = sim /\ sim # 0 /\ frames = {}
    /\ status = "Running" /\ ~ isPaused /\ buttons = {"pauseBtn", "resetBtn"}

PageInv ==
  /\ FramesOK /\ WaitingOK /\ StepOK
  /\ isPaused \in BOOLEAN
  /\ DOMAIN current = {"run", "left", "flushing"}

LEMMA PageInvInit == PlayInit => PageInv
BY DEF PlayInit, PageInv, FramesOK, WaitingOK, StepOK, EventLoop, StatusTellsPlayback,
       NoStep, Button

\* Run is on display only when there is no drive.
LEMMA RunFindsNoDrive ==
  ASSUME PageInv, StartSim
  PROVE  sim = 0
BY DEF PageInv, WaitingOK, StatusTellsPlayback, StartSim

\* Clicks find no callback in progress.
LEMMA PageInvClick ==
  ASSUME PageInv, Click
  PROVE  PageInv'
<1> USE DEF PageInv, FramesOK, WaitingOK, StepOK, EventLoop, StatusTellsPlayback, Button
<1>1. 0 \notin Run
  BY PlaybackAssumption DEF Run
<1>2. CASE StartSim
  <2>1. PICK r \in Run : /\ sim = 0 /\ sim' = r
                         /\ frames' = Cancelled \cup {r} /\ playback' = r
    BY <1>2, RunFindsNoDrive DEF StartSim
  <2>2. frames = {}
    BY <2>1
  <2>3. frames' = {r}
    BY <2>1, <2>2 DEF Cancelled
  <2> QED
    BY <1>1, <1>2, <2>1, <2>3 DEF StartSim
<1>3. CASE TogglePause
  BY <1>3 DEF TogglePause
<1>4. CASE ResetSim
  <2>1. frames' = {}
    BY <1>4 DEF ResetSim, Cancelled
  <2> QED
    BY <1>4, <2>1 DEF ResetSim
<1>5. CASE \E n \in Speeds : SetSpeed(n)
  BY <1>5 DEF SetSpeed
<1> QED
  BY <1>2, <1>3, <1>4, <1>5 DEF Click

\* A step that leaves the page alone.
LEMMA SamePage ==
  ASSUME PageInv, UNCHANGED <<frames, playback, isPaused, sim, current, buttons, status>>
  PROVE  PageInv'
BY DEF PageInv, FramesOK, WaitingOK, StepOK, EventLoop, StatusTellsPlayback

LEMMA PageInvStep ==
  ASSUME PageInv, Step
  PROVE  PageInv'
<1> USE DEF PageInv, FramesOK, WaitingOK, StepOK, EventLoop, StatusTellsPlayback
<1>1. 0 \notin Run
  BY PlaybackAssumption DEF Run
<1>2. ASSUME NEW r \in Run, Frame(r)
      PROVE  PageInv'
  <2>1. r = sim /\ frames = {r}
    BY <1>2 DEF Frame
  <2>2. CASE isPaused
    BY <1>2, <2>1, <2>2 DEF Frame, KeepPolling
  <2>3. CASE ~ isPaused
    <3>1. frames' = {} /\ current'.run = r
      BY <1>2, <2>1, <2>3 DEF Frame
    <3>2. current' # NoStep
      BY <1>1, <3>1 DEF NoStep
    <3>3. buttons = {"pauseBtn", "resetBtn"}
      BY <1>2, <2>1 DEF Frame, Button
    <3> QED
      BY <1>1, <1>2, <2>1, <2>3, <3>1, <3>2, <3>3 DEF Frame
  <2> QED
    BY <2>2, <2>3
<1>3. CASE ExecuteOp
  <2>1. ~ EventLoop
    BY <1>3 DEF ExecuteOp, NoStep
  <2>2. current'.run = current.run /\ DOMAIN current' = {"run", "left", "flushing"}
    BY <1>3 DEF ExecuteOp
  <2>3. current' # NoStep
    BY <2>1, <2>2 DEF NoStep
  <2> QED
    BY <1>3, <2>1, <2>2, <2>3 DEF ExecuteOp
<1>4. CASE RequestFrame
  BY <1>1, <1>4 DEF RequestFrame, LoopDone, NoStep, Button
<1>5. CASE FinalFlush
  <2>1. ~ EventLoop
    BY <1>5 DEF FinalFlush, LoopDone
  <2>2. current'.run = current.run /\ DOMAIN current' = {"run", "left", "flushing"}
    BY <1>5 DEF FinalFlush
  <2>3. current' # NoStep
    BY <2>1, <2>2 DEF NoStep
  <2> QED
    BY <1>5, <2>1, <2>2, <2>3 DEF FinalFlush
<1>6. CASE Complete
  BY <1>6 DEF Complete, LoopDone, NoStep, Button
<1>7. CASE UNCHANGED playVars
  BY <1>7, SamePage DEF playVars
<1> QED
  BY <1>2, <1>3, <1>4, <1>5, <1>6, <1>7 DEF Step

LEMMA PageInvariance == PlaySpec => []PageInv
<1>1. PageInv /\ [PlayNext]_<<visVars, playVars>> => PageInv'
  <2>1. PageInv /\ UNCHANGED <<visVars, playVars>> => PageInv'
    BY SamePage DEF playVars
  <2> QED
    BY <2>1, PageInvClick, PageInvStep DEF PlayNext
<1> QED
  BY PageInvInit, <1>1, PTL DEF PlaySpec

\* However Run, Pause and Reset are clicked between frames, the only frame pending
\* or running belongs to the run on display: cancelAnimationFrame always finds it.
THEOREM FramesStayCurrent == PlaySpec => []FramesAreCurrent
<1>1. PageInv => FramesAreCurrent
  BY DEF PageInv, FramesOK, StepOK, FramesAreCurrent
<1> QED
  BY PageInvariance, <1>1, PTL

\* Between callbacks badge and buttons tell whether a frame is to come, whether
\* the playback is paused and whether there is a drive.
THEOREM StatusAlwaysTells == PlaySpec => []StatusTellsPlayback
<1>1. PageInv => StatusTellsPlayback
  BY DEF PageInv, WaitingOK, StatusTellsPlayback
<1> QED
  BY PageInvariance, <1>1, PTL

-----------------------------------------------------------------------------
(* Figures and charts. *)

\* A chart takes one point more, up to its length.
LEMMA PushedFacts ==
  ASSUME NEW S, NEW points \in Seq(S), NEW n \in Nat,
         Len(points) = Smaller(HistoryLength, n), NEW point
  PROVE  /\ Pushed(points, point) \in Seq(S \cup {point})
         /\ Len(Pushed(points, point)) = Smaller(HistoryLength, n + 1)
         /\ Pushed(points, point) # <<>>
         /\ Pushed(points, point)[Len(Pushed(points, point))] = point
<1> DEFINE T == S \cup {point}
           longer == Append(points, point)
<1>1. HistoryLength \in Nat \ {0}
  BY PlaybackAssumption
<1>2. points \in Seq(T) /\ point \in T
  BY SeqMonotonic
<1>3. /\ longer \in Seq(T) /\ Len(longer) = Len(points) + 1
      /\ longer[Len(longer)] = point
  BY <1>2
<1>4. Len(points) \in Nat
  BY <1>2
<1> HIDE DEF longer, T
<1>5. /\ Tail(longer) \in Seq(T) /\ Len(Tail(longer)) = Len(points)
      /\ Len(points) > 0 => Tail(longer)[Len(points)] = point
  BY <1>3, <1>4
<1>6. Pushed(points, point) = IF Len(longer) > HistoryLength THEN Tail(longer) ELSE longer
  BY DEF Pushed, longer
<1>7. Len(points) <= HistoryLength
  BY <1>1 DEF Smaller
<1>8. Pushed(points, point) \in Seq(T)
  BY <1>3, <1>5, <1>6
<1>9. CASE Len(longer) > HistoryLength
  <2>1. Len(points) = HistoryLength /\ HistoryLength <= n
    BY <1>1, <1>3, <1>4, <1>7, <1>9 DEF Smaller
  <2>2. Smaller(HistoryLength, n + 1) = HistoryLength
    BY <1>1, <2>1 DEF Smaller
  <2>3. Pushed(points, point) = Tail(longer)
    BY <1>6, <1>9
  <2>4. Len(<<>>) = 0
    OBVIOUS
  <2> QED
    BY <1>1, <1>5, <1>8, <2>1, <2>2, <2>3, <2>4 DEF T
<1>10. CASE ~ (Len(longer) > HistoryLength)
  <2>1. Len(points) < HistoryLength /\ Len(points) = n
    BY <1>1, <1>3, <1>4, <1>10 DEF Smaller
  <2>2. Smaller(HistoryLength, n + 1) = n + 1
    BY <1>1, <2>1 DEF Smaller
  <2>3. Pushed(points, point) = longer
    BY <1>6, <1>10
  <2>4. Len(<<>>) = 0
    OBVIOUS
  <2> QED
    BY <1>3, <1>4, <1>8, <2>1, <2>2, <2>3, <2>4 DEF T
<1> QED
  BY <1>9, <1>10

\* Every chart takes its point, whatever the other ones do.
LEMMA ChartsUpdated ==
  ASSUME NEW k \in Nat, UpdateCharts,
         \A c \in Chart : /\ \E S : history[c] \in Seq(S)
                         /\ Len(history[c]) = Smaller(HistoryLength, k)
  PROVE  \A c \in Chart : /\ \E S : history'[c] \in Seq(S)
                         /\ Len(history'[c]) = Smaller(HistoryLength, k + 1)
                         /\ history'[c][Len(history'[c])] = Point[c]
<1> SUFFICES ASSUME NEW c \in Chart, NEW S, history[c] \in Seq(S)
             PROVE  /\ history'[c] \in Seq(S \cup {Point[c]})
                    /\ Len(history'[c]) = Smaller(HistoryLength, k + 1)
                    /\ history'[c][Len(history'[c])] = Point[c]
  OBVIOUS
<1>1. PICK longer, point : point = Point[c] /\ longer = Pushed(history[c], point)
  OBVIOUS
<1>2. /\ longer \in Seq(S \cup {point}) /\ Len(longer) = Smaller(HistoryLength, k + 1)
      /\ longer[Len(longer)] = point
  <2>1. history[c] \in Seq(S) /\ Len(history[c]) = Smaller(HistoryLength, k)
    OBVIOUS
  <2> QED
    BY <1>1, <2>1, PushedFacts
<1>3. history'[c] = longer
  BY <1>1 DEF UpdateCharts
<1> QED
  BY <1>1, <1>2, <1>3

\* What the figures and charts say, and what they should say, stay as they are.
LEMMA SameFigures ==
  ASSUME UNCHANGED <<eraseCount, stats, cacheStats, figures, history>>
  PROVE  UpToDate' = UpToDate
BY DEF UpToDate, Point, Snapshot, MaxErases, MinErases, TotalSimulatedTime

LEMMA ListFacts ==
  ASSUME NEW S, NEW n \in Nat, NEW f \in [1 .. n -> S]
  PROVE  f \in Seq(S) /\ Len(f) = n
OBVIOUS

Operation == [type : {"W"}, lba : LBA, data : Data] \cup [type : {"R"}, lba : LBA]

\* The hot rewrites before the i-th make whole rounds and part of the next one.
LEMMA RoundFacts ==
  ASSUME NEW i \in 1 .. hotRounds * hotLbas
  PROVE  (i - 1) \div hotLbas \in 0 .. hotRounds - 1
<1>1. hotLbas \in Nat \ {0} /\ hotRounds \in Nat \ {0} /\ hotRounds * hotLbas \in Nat
  BY PlaybackAssumption
<1>2. PICK n \in Nat : i = n + 1 /\ n < hotRounds * hotLbas
  <2>1. i - 1 \in Nat /\ i = (i - 1) + 1 /\ i - 1 < hotRounds * hotLbas
    BY <1>1
  <2> QED
    BY <2>1
<1>3. PICK q \in Nat : q = n \div hotLbas /\ hotLbas * q <= n
  BY <1>1
<1>4. q < hotRounds
  <2> SUFFICES ASSUME hotRounds <= q PROVE FALSE
    BY <1>1
  <2>1. hotLbas * hotRounds <= hotLbas * q
    BY <1>1, Multiples
  <2>2. hotLbas * hotRounds = hotRounds * hotLbas /\ hotLbas * q \in Nat
    BY <1>1
  <2> QED
    BY <1>1, <1>2, <1>3, <2>1, <2>2
<1>5. i - 1 = n
  BY <1>2
<1> QED
  BY <1>1, <1>3, <1>4, <1>5

\* Its writes come first.
WriteOps == coldLbas + hotRounds * hotLbas

\* The workload has operations, as many as the loops of buildWorkload make: the
\* writes, which leave no LBA out, and then the reads.
LEMMA WorkloadFacts ==
  /\ totalOps = WriteOps + coldLbas + hotLbas /\ WriteOps \in Nat
  /\ totalOps \in Nat \ {0}
  /\ Workload \in [1 .. totalOps -> Operation]
  /\ \A i \in 1 .. totalOps : Workload[i].type = "W" <=> i <= WriteOps
  /\ \A l \in LBA : \E i \in 1 .. WriteOps : Workload[i].lba = l
<1> DEFINE cold == [i \in 1 .. coldLbas |-> WriteOp(ColdLba(i), 0)]
           hot == [i \in 1 .. hotRounds * hotLbas |->
                     WriteOp(HotLba(i), 1 + (i - 1) \div hotLbas)]
           readCold == [i \in 1 .. coldLbas |-> ReadOp(ColdLba(i))]
           readHot == [i \in 1 .. hotLbas |-> ReadOp(HotLba(i))]
           written == cold \o hot
           readBack == written \o readCold
<1>1. /\ coldLbas \in Nat \ {0} /\ hotLbas \in Nat \ {0} /\ hotRounds \in Nat
      /\ hotRounds * hotLbas \in Nat
  BY PlaybackAssumption
<1>2. \A i \in Nat \ {0} : (i - 1) \div hotLbas \in Nat /\ HotLba(i) \in LBA
  <2> TAKE i \in Nat \ {0}
  <2>1. /\ (i - 1) \div hotLbas \in Nat
        /\ (i - 1) % hotLbas \in 0 .. hotLbas - 1
    BY <1>1
  <2>2. PICK m \in 0 .. hotLbas - 1 : (i - 1) % hotLbas = m
    BY <2>1
  <2>3. m + 1 \in 1 .. hotLbas /\ (m + 1) - 1 = m /\ m % hotLbas = m
    BY <1>1, <2>2
  <2>4. HotLba(m + 1) = HotLba(i)
    BY <2>2, <2>3 DEF HotLba
  <2> QED
    BY <2>1, <2>3, <2>4, PlaybackAssumption
<1>3. \A i \in 1 .. coldLbas : ColdLba(i) \in LBA
  BY PlaybackAssumption
<1>4. /\ cold \in [1 .. coldLbas -> Operation]
      /\ hot \in [1 .. hotRounds * hotLbas -> Operation]
      /\ readCold \in [1 .. coldLbas -> Operation]
      /\ readHot \in [1 .. hotLbas -> Operation]
  <2>1. \A i \in 1 .. coldLbas :
          WriteOp(ColdLba(i), 0) \in Operation /\ ReadOp(ColdLba(i)) \in Operation
    BY <1>3, PlaybackAssumption DEF WriteOp, ReadOp, Operation
  <2>2. \A i \in 1 .. hotRounds * hotLbas :
          WriteOp(HotLba(i), 1 + (i - 1) \div hotLbas) \in Operation
    <3> TAKE i \in 1 .. hotRounds * hotLbas
    <3>1. PICK n \in 0 .. hotRounds - 1 : n = (i - 1) \div hotLbas
      BY RoundFacts
    <3>2. 1 + n \in 0 .. hotRounds
      BY <1>1, <3>1
    <3>3. 1 + n \in Data /\ HotLba(i) \in LBA
      <4>1. i \in Nat \ {0}
        BY <1>1
      <4> QED
        BY <1>2, <3>2, <4>1, PlaybackAssumption
    <3> QED
      BY <3>1, <3>3 DEF WriteOp, Operation
  <2>3. \A i \in 1 .. hotLbas : ReadOp(HotLba(i)) \in Operation
    BY <1>1, <1>2 DEF ReadOp, Operation
  <2> QED
    BY <2>1, <2>2, <2>3
<1>5. /\ \A i \in 1 .. coldLbas : cold[i].type = "W" /\ cold[i].lba = ColdLba(i)
      /\ \A i \in 1 .. hotRounds * hotLbas : hot[i].type = "W" /\ hot[i].lba = HotLba(i)
      /\ \A i \in 1 .. coldLbas : readCold[i].type = "R"
      /\ \A i \in 1 .. hotLbas : readHot[i].type = "R"
  BY DEF WriteOp, ReadOp
<1> HIDE DEF cold, hot, readCold, readHot
<1>6. /\ cold \in Seq(Operation) /\ Len(cold) = coldLbas
      /\ hot \in Seq(Operation) /\ Len(hot) = hotRounds * hotLbas
      /\ readCold \in Seq(Operation) /\ Len(readCold) = coldLbas
      /\ readHot \in Seq(Operation) /\ Len(readHot) = hotLbas
  BY <1>1, <1>4, ListFacts
<1>7. /\ written \in Seq(Operation) /\ Len(written) = WriteOps
      /\ \A i \in 1 .. WriteOps :
           written[i] = IF i <= coldLbas THEN cold[i] ELSE hot[i - coldLbas]
  <2>1. /\ written \in Seq(Operation) /\ Len(written) = Len(cold) + Len(hot)
        /\ \A i \in 1 .. Len(cold) + Len(hot) :
             written[i] = IF i <= Len(cold) THEN cold[i] ELSE hot[i - Len(cold)]
    BY <1>6, ConcatProperties
  <2>2. WriteOps = Len(cold) + Len(hot)
    BY <1>6 DEF WriteOps
  <2> QED
    BY <1>6, <2>1, <2>2
<1> HIDE DEF written
<1>8. /\ readBack \in Seq(Operation) /\ Len(readBack) = WriteOps + coldLbas
      /\ \A i \in 1 .. WriteOps + coldLbas :
           readBack[i] = IF i <= WriteOps THEN written[i] ELSE readCold[i - WriteOps]
  <2>1. /\ readBack \in Seq(Operation) /\ Len(readBack) = Len(written) + Len(readCold)
        /\ \A i \in 1 .. Len(written) + Len(readCold) :
             readBack[i] = IF i <= Len(written) THEN written[i]
                           ELSE readCold[i - Len(written)]
    BY <1>6, <1>7, ConcatProperties
  <2> QED
    BY <1>6, <1>7, <2>1
<1> HIDE DEF readBack
<1>9. Workload = readBack \o readHot
  BY DEF Workload, readBack, written, cold, hot, readCold, readHot
<1>10. /\ Workload \in Seq(Operation) /\ totalOps = Len(readBack) + hotLbas
       /\ \A i \in 1 .. Len(readBack) + hotLbas :
            Workload[i] = IF i <= Len(readBack) THEN readBack[i]
                          ELSE readHot[i - Len(readBack)]
  BY <1>6, <1>8, <1>9, ConcatProperties DEF totalOps
<1>11. WriteOps \in Nat /\ totalOps = WriteOps + coldLbas + hotLbas
  BY <1>1, <1>8, <1>10 DEF WriteOps
<1>12. totalOps \in Nat \ {0} /\ Workload \in [1 .. totalOps -> Operation]
  BY <1>1, <1>10, <1>11, LenProperties DEF totalOps
<1>13. ASSUME NEW i \in 1 .. WriteOps
       PROVE  Workload[i] = IF i <= coldLbas THEN cold[i] ELSE hot[i - coldLbas]
  BY <1>1, <1>7, <1>8, <1>10, <1>11
<1>14. ASSUME NEW i \in 1 .. totalOps
       PROVE  Workload[i].type = "W" <=> i <= WriteOps
  <2>1. CASE i <= coldLbas
    BY <1>1, <1>5, <1>11, <1>13, <2>1 DEF WriteOps
  <2>2. CASE i > coldLbas /\ i <= WriteOps
    <3>1. i - coldLbas \in 1 .. hotRounds * hotLbas /\ i \in 1 .. WriteOps
      BY <1>1, <1>11, <2>2 DEF WriteOps
    <3> QED
      BY <1>1, <1>5, <1>13, <2>2, <3>1
  <2>3. CASE i > WriteOps /\ i <= WriteOps + coldLbas
    <3>1. i - WriteOps \in 1 .. coldLbas /\ i \in 1 .. WriteOps + coldLbas
      BY <1>1, <1>11, <2>3
    <3>2. Workload[i] = readCold[i - WriteOps]
      BY <1>1, <1>8, <1>10, <1>11, <2>3, <3>1
    <3> QED
      BY <1>5, <1>11, <2>3, <3>1, <3>2
  <2>4. CASE i > WriteOps + coldLbas
    <3>1. i - (WriteOps + coldLbas) \in 1 .. hotLbas
      BY <1>1, <1>11, <2>4
    <3>2. Workload[i] = readHot[i - (WriteOps + coldLbas)]
      BY <1>1, <1>8, <1>10, <1>11, <2>4, <3>1
    <3> QED
      BY <1>1, <1>5, <1>11, <2>4, <3>1, <3>2
  <2> QED
    BY <1>1, <1>11, <2>1, <2>2, <2>3, <2>4
<1>15. ASSUME NEW l \in LBA
       PROVE  \E i \in 1 .. WriteOps : Workload[i].lba = l
  <2>1. ASSUME NEW i \in 1 .. coldLbas, l = ColdLba(i)
        PROVE  i \in 1 .. WriteOps /\ Workload[i].lba = l
    <3>1. i \in 1 .. WriteOps /\ i <= coldLbas
      BY <1>1 DEF WriteOps
    <3> QED
      BY <1>5, <1>13, <2>1, <3>1
  <2>2. ASSUME NEW i \in 1 .. hotLbas, l = HotLba(i)
        PROVE  i + coldLbas \in 1 .. WriteOps /\ Workload[i + coldLbas].lba = l
    <3>1. hotLbas * 1 <= hotLbas * hotRounds /\ hotLbas * hotRounds = hotRounds * hotLbas
      BY <1>1, Multiples, PlaybackAssumption
    <3>2. i \in 1 .. hotRounds * hotLbas
      BY <1>1, <3>1
    <3>3. /\ i + coldLbas \in 1 .. WriteOps /\ ~ (i + coldLbas <= coldLbas)
          /\ (i + coldLbas) - coldLbas = i
      BY <1>1, <3>2 DEF WriteOps
    <3> QED
      BY <1>5, <1>13, <2>2, <3>2, <3>3
  <2> QED
    BY <2>1, <2>2, PlaybackAssumption
<1> QED
  BY <1>11, <1>12, <1>14, <1>15

-----------------------------------------------------------------------------
(* One point per frame. *)

\* n operations, in batches of b, take k frames when k is the first number of
\* batches that reaches n.
LEMMA BatchCount ==
  ASSUME NEW b \in Nat \ {0}, NEW n \in Nat, NEW k \in Nat, n <= k * b, k * b < n + b
  PROVE  (n + b - 1) \div b = k
<1> DEFINE m == n + b - 1
           q == m \div b
<1>1. m \in Nat /\ b * k = k * b /\ b * k \in Nat
  OBVIOUS
<1> HIDE DEF m
<1>2. q \in Nat /\ b * q \in Nat /\ b * q <= m /\ m < b * q + b
  BY <1>1
<1>3. b * k <= m /\ m < b * k + b
  BY <1>1 DEF m
<1> HIDE DEF q
<1>4. b * (q + 1) = b * q + b /\ b * (k + 1) = b * k + b
  BY <1>1, <1>2
<1>5. ~ (q < k)
  <2> SUFFICES ASSUME q < k PROVE FALSE
    OBVIOUS
  <2>1. b * (q + 1) <= b * k
    BY <1>2, Multiples
  <2> QED
    BY <1>1, <1>2, <1>3, <1>4, <2>1
<1>6. ~ (k < q)
  <2> SUFFICES ASSUME k < q PROVE FALSE
    OBVIOUS
  <2>1. b * (k + 1) <= b * q
    BY <1>2, Multiples
  <2> QED
    BY <1>1, <1>2, <1>3, <1>4, <2>1
<1>7. q = k
  BY <1>2, <1>5, <1>6
<1> QED
  BY <1>7 DEF q, m

LEMMA NextBatch ==
  ASSUME NEW k \in Nat, NEW b \in Nat
  PROVE  (k + 1) * b = k * b + b /\ k * b \in Nat /\ k + 1 \in Nat
OBVIOUS

\* What is left of n operations after m of them.
LEMMA NextBatchEnds ==
  ASSUME NEW m \in Nat, NEW b \in Nat, NEW n \in Nat, m < n
  PROVE  /\ Smaller(b, n - m) \in Nat
         /\ m + Smaller(b, n - m) = Smaller(m + b, n)
BY DEF Smaller

\* Where run sim is after k points.
AfterFrames(k) ==
  LET b == batchSize[sim]
      n == opIdx[sim]
  IN  /\ \A c \in Chart : Len(history[c]) = Smaller(HistoryLength, k)
      /\ figures # <<>> <=> k > 0
      /\ EventLoop \/ current.flushing => n <= k * b /\ k * b < n + b
      /\ EventLoop /\ frames # {} =>
           /\ n = k * b /\ k * b < totalOps
           /\ k > 0 => UpToDate
      /\ ~ EventLoop /\ ~ current.flushing =>
           /\ k * b < totalOps /\ n + current.left = Smaller(k * b + b, totalOps)
      /\ ~ EventLoop /\ current.flushing => current.left = 0 /\ n = totalOps

FiguresTyped ==
  /\ opIdx \in [Run -> Nat] /\ batchSize \in [Run -> Nat] /\ playbackSpeed \in Speeds
  /\ current \in [run : Run \cup {0}, left : Nat, flushing : BOOLEAN]
  /\ \A c \in Chart : \E S : history[c] \in Seq(S)

\* Between callbacks no call is in progress, so that nothing changes the drive.
FiguresInv ==
  /\ PageInv /\ FiguresTyped
  /\ \A r \in Run : batchSize[r] = 0 => opIdx[r] = 0
  /\ EventLoop => pc = "idle" /\ toNand = <<>>
  /\ sim = 0 => figures = <<>> /\ \A c \in Chart : Len(history[c]) = 0
  /\ sim # 0 => batchSize[sim] # 0 /\ \E k \in Nat : AfterFrames(k)

LEMMA FiguresInit == PlayInit => FiguresInv
<1> SUFFICES ASSUME PlayInit PROVE FiguresInv
  OBVIOUS
<1>1. \A c \in Chart : history[c] \in Seq({}) /\ Len(history[c]) = 0
  BY DEF PlayInit
<1> QED
  BY <1>1, PageInvInit, PlaybackAssumption
  DEF PlayInit, VisInit, FiguresInv, FiguresTyped, NoStep

LEMMA FiguresClick ==
  ASSUME FiguresInv, Click
  PROVE  FiguresInv'
<1> USE DEF FiguresInv
<1>1. PageInv'
  BY PageInvClick
<1>2. 0 \notin Run /\ Speeds \subseteq Nat
  BY PlaybackAssumption DEF Run
<1>3. CASE StartSim
  <2>1. PICK r \in Run :
          /\ batchSize[r] = 0 /\ CreateSim /\ sim' = r /\ frames' = Cancelled \cup {r}
          /\ batchSize' = [batchSize EXCEPT ![r] = Batch(playbackSpeed)]
    BY <1>3 DEF StartSim
  <2>2. Batch(playbackSpeed) \in Nat \ {0}
    BY <1>2, WorkloadFacts DEF Batch, FiguresTyped
  <2>3. /\ EventLoop /\ current' = current /\ opIdx' = opIdx /\ ClearFigures
        /\ playbackSpeed' = playbackSpeed
    BY <1>3 DEF StartSim
  <2>4. batchSize'[r] = Batch(playbackSpeed) /\ opIdx[r] = 0
    BY <2>1 DEF FiguresTyped
  <2>5. /\ figures' = <<>>
        /\ \A c \in Chart : history'[c] \in Seq({}) /\ Len(history'[c]) = 0
    BY <2>3 DEF ClearFigures
  <2>6. pc' = "idle" /\ toNand' = <<>>
    BY <2>1, <2>3 DEF CreateSim, NewDrive
  <2>7. FiguresTyped'
    BY <2>1, <2>2, <2>3, <2>5 DEF FiguresTyped
  <2>8. AfterFrames(0)'
    <3>1. PICK b \in Nat \ {0} : b = batchSize'[r]
      BY <2>2, <2>4
    <3>2. Smaller(HistoryLength, 0) = 0
      BY PlaybackAssumption DEF Smaller
    <3>3. EventLoop' /\ ~ current'.flushing
      BY <2>3 DEF EventLoop, NoStep
    <3>4. 0 * b = 0 /\ 0 < totalOps
      BY <3>1, WorkloadFacts
    <3> QED
      BY <2>1, <2>3, <2>4, <2>5, <3>1, <3>2, <3>3, <3>4 DEF AfterFrames
  <2>9. \A k \in Run : batchSize'[k] = 0 => opIdx'[k] = 0
    BY <2>1, <2>2, <2>3 DEF FiguresTyped
  <2> QED
    BY <1>1, <1>2, <2>1, <2>2, <2>3, <2>4, <2>6, <2>7, <2>8, <2>9
<1>4. CASE TogglePause \/ \E n \in Speeds : SetSpeed(n)
  <2>1. /\ UNCHANGED <<visVars, frames, playback, sim, opIdx, batchSize, current,
                       figures, history>>
        /\ playbackSpeed' \in Speeds
    BY <1>4 DEF TogglePause, SetSpeed, FiguresTyped
  <2>2. UNCHANGED <<pc, toNand, eraseCount, stats, cacheStats>>
    BY <2>1 DEF visVars, statVars, ctrlVars, vars, flashVars, gcVars
  <2>3. UpToDate' = UpToDate
    BY <2>1, <2>2, SameFigures
  <2>4. \A k \in Nat : AfterFrames(k) => AfterFrames(k)'
    BY <2>1, <2>3 DEF AfterFrames, EventLoop
  <2> QED
    BY <1>1, <2>1, <2>2, <2>4 DEF FiguresTyped, EventLoop
<1>5. CASE ResetSim
  <2>1. /\ UNCHANGED <<visVars, playbackSpeed, opIdx, batchSize, current>>
        /\ sim' = 0 /\ ClearFigures
    BY <1>5 DEF ResetSim
  <2>2. UNCHANGED <<pc, toNand>>
    BY <2>1 DEF visVars, statVars, ctrlVars, vars, gcVars
  <2>3. /\ figures' = <<>>
        /\ \A c \in Chart : history'[c] \in Seq({}) /\ Len(history'[c]) = 0
    BY <2>1 DEF ClearFigures
  <2> QED
    BY <1>1, <2>1, <2>2, <2>3 DEF FiguresTyped, EventLoop
<1> QED
  BY <1>3, <1>4, <1>5 DEF Click

\* A step of the drive: of a callback, since there is no call in progress
\* between callbacks.
LEMMA DriveBusy ==
  ASSUME FiguresInv, VisController
  PROVE  ~ EventLoop
<1>1. ~ (pc = "idle" /\ toNand = <<>>)
  BY DEF VisController, NextNandWrite, VisProgram, VisCollect, VisSelect, VisErase,
         RecordedSelect, RecordedErase, RecordedWearErase, GCSelect, WLSelect, GCErase,
         WLErase, VisMigrate, VisMove, ForceGC, DropWrite
<1> QED
  BY <1>1 DEF FiguresInv

LEMMA FiguresStep ==
  ASSUME FiguresInv, Step
  PROVE  FiguresInv'
<1> USE DEF FiguresInv
<1>1. PageInv'
  BY PageInvStep
<1>2. 0 \notin Run /\ Speeds \subseteq Nat /\ totalOps \in Nat \ {0}
  BY PlaybackAssumption, WorkloadFacts DEF Run
<1>3. ASSUME NEW r \in Run, Frame(r)
      PROVE  FiguresInv'
  <2>1. /\ EventLoop /\ sim = r /\ r \in frames
        /\ UNCHANGED <<visVars, playbackSpeed, sim, opIdx, batchSize, figures, history>>
    BY <1>3 DEF Frame, PageInv, FramesOK
  <2>2. UNCHANGED <<pc, toNand, eraseCount, stats, cacheStats>>
    BY <2>1 DEF visVars, statVars, ctrlVars, vars, flashVars, gcVars
  <2>3. CASE isPaused /\ KeepPolling(r) /\ UNCHANGED current
    <3>1. UpToDate' = UpToDate
      BY <2>1, <2>2, SameFigures
    <3>2. \A k \in Nat : AfterFrames(k) => AfterFrames(k)'
      BY <2>1, <2>3, <3>1 DEF AfterFrames, EventLoop, KeepPolling
    <3> QED
      BY <1>1, <2>1, <2>2, <2>3, <3>2 DEF FiguresTyped, EventLoop
  <2>4. CASE /\ ~ isPaused /\ frames' = frames \ {r}
             /\ current' = [run |-> r, left |-> Smaller(batchSize[r], totalOps - opIdx[r]),
                            flushing |-> FALSE]
    <3>1. PICK k \in Nat : AfterFrames(k)
      BY <1>2, <2>1
    <3>2. PICK b \in Nat \ {0}, n \in Nat : b = batchSize[r] /\ n = opIdx[r]
      BY <2>1, <1>2 DEF FiguresTyped
    <3>3. /\ \A c \in Chart : Len(history[c]) = Smaller(HistoryLength, k)
          /\ figures # <<>> <=> k > 0
          /\ n = k * b /\ k * b < totalOps
      BY <2>1, <3>1, <3>2 DEF AfterFrames
    <3>4. /\ Smaller(b, totalOps - n) \in Nat
          /\ n + Smaller(b, totalOps - n) = Smaller(k * b + b, totalOps)
      <4>1. k * b \in Nat
        BY NextBatch
      <4> QED
        BY <1>2, <3>3, <4>1, NextBatchEnds
    <3>5. /\ current' = [run |-> r, left |-> Smaller(b, totalOps - n), flushing |-> FALSE]
          /\ current'.flushing = FALSE /\ current'.left = Smaller(b, totalOps - n)
          /\ current' # NoStep
      <4>1. current'.run # NoStep.run
        BY <1>2, <2>4 DEF NoStep
      <4> QED
        BY <2>4, <3>2, <4>1
    <3>6. FiguresTyped'
      BY <2>1, <3>4, <3>5 DEF FiguresTyped
    <3>7. AfterFrames(k)'
      BY <2>1, <3>2, <3>3, <3>4, <3>5 DEF AfterFrames, EventLoop
    <3> QED
      BY <1>1, <2>1, <2>2, <3>5, <3>6, <3>7 DEF EventLoop
  <2> QED
    BY <1>3, <2>3, <2>4 DEF Frame
<1>4. CASE ExecuteOp
  <2>1. ~ EventLoop /\ current.run = sim /\ sim \in Run
    BY <1>4 DEF ExecuteOp, EventLoop, NoStep, PageInv, StepOK, FramesOK
  <2>2. /\ current.left > 0 /\ opIdx' = [opIdx EXCEPT ![sim] = @ + 1]
        /\ current' = [current EXCEPT !.left = @ - 1]
        /\ UNCHANGED <<frames, playbackSpeed, sim, batchSize, figures, history>>
    BY <1>4, <2>1 DEF ExecuteOp
  <2>3. PICK k \in Nat : AfterFrames(k)
    BY <1>2, <2>1
  <2>4. PICK b \in Nat \ {0}, n \in Nat, left \in Nat :
          b = batchSize[sim] /\ n = opIdx[sim] /\ left = current.left
    BY <2>1, <1>2 DEF FiguresTyped
  <2>5. /\ opIdx'[sim] = n + 1 /\ current'.left = left - 1 /\ current'.run = current.run
        /\ current'.flushing = current.flushing /\ current' # NoStep
    <3>1. /\ opIdx'[sim] = n + 1 /\ current'.left = left - 1 /\ current'.run = current.run
          /\ current'.flushing = current.flushing
      BY <2>1, <2>2, <2>4 DEF FiguresTyped
    <3>2. current'.run # NoStep.run
      BY <1>2, <2>1, <3>1 DEF NoStep
    <3> QED
      BY <3>1, <3>2
  <2>6. ~ current.flushing
    BY <2>1, <2>2, <2>3 DEF AfterFrames
  <2>7. /\ k * b < totalOps /\ n + left = Smaller(k * b + b, totalOps)
        /\ \A c \in Chart : Len(history[c]) = Smaller(HistoryLength, k)
        /\ figures # <<>> <=> k > 0
    BY <2>1, <2>3, <2>4, <2>6 DEF AfterFrames
  <2>8. (n + 1) + (left - 1) = n + left /\ left - 1 \in Nat
    BY <2>2, <2>4
  <2>9. AfterFrames(k)'
    BY <2>1, <2>2, <2>4, <2>5, <2>6, <2>7, <2>8 DEF AfterFrames, EventLoop
  <2>10. FiguresTyped'
    <3>1. opIdx' \in [Run -> Nat]
      BY <2>1, <2>2, <2>4 DEF FiguresTyped
    <3>2. current' \in [run : Run \cup {0}, left : Nat, flushing : BOOLEAN]
      <4>1. current \in [run : Run \cup {0}, left : Nat, flushing : BOOLEAN]
        BY DEF FiguresTyped
      <4>2. current' = [current EXCEPT !.left = left - 1]
        BY <2>2, <2>4
      <4> QED
        BY <2>8, <4>1, <4>2
    <3> QED
      BY <2>2, <3>1, <3>2 DEF FiguresTyped
  <2>11. \A r \in Run : batchSize'[r] = 0 => opIdx'[r] = 0
    BY <1>2, <2>1, <2>2 DEF FiguresTyped
  <2> QED
    BY <1>1, <1>2, <2>1, <2>2, <2>5, <2>9, <2>10, <2>11 DEF EventLoop
<1>5. CASE RequestFrame
  <2>1. /\ ~ EventLoop /\ current.run = sim /\ sim \in Run /\ current.left = 0
        /\ pc = "idle" /\ toNand = <<>> /\ opIdx[sim] < totalOps
        /\ frames' = frames \cup {sim} /\ current' = NoStep /\ Displayed
        /\ UNCHANGED <<visVars, playbackSpeed, sim, opIdx, batchSize>>
    BY <1>5 DEF RequestFrame, LoopDone, Ready, Idle, PageInv, StepOK, FramesOK
  <2>2. UNCHANGED <<pc, toNand, eraseCount, stats, cacheStats>>
    BY <2>1 DEF visVars, statVars, ctrlVars, vars, flashVars, gcVars
  <2>3. Point' = Point /\ Snapshot' = Snapshot
    BY <2>2 DEF Point, Snapshot, MaxErases, MinErases, TotalSimulatedTime
  <2>4. PICK k \in Nat : AfterFrames(k)
    BY <1>2, <2>1
  <2>5. PICK b \in Nat \ {0}, n \in Nat : b = batchSize[sim] /\ n = opIdx[sim]
    BY <2>1, <1>2 DEF FiguresTyped
  <2>6. \A c \in Chart : Len(history[c]) = Smaller(HistoryLength, k)
    BY <2>4 DEF AfterFrames
  <2>7. /\ figures' = <<Snapshot>>
        /\ \A c \in Chart : /\ \E S : history'[c] \in Seq(S)
                            /\ Len(history'[c]) = Smaller(HistoryLength, k + 1)
                            /\ history'[c][Len(history'[c])] = Point[c]
    BY <2>1, <2>6, ChartsUpdated DEF Displayed, FiguresTyped
  <2>8. n = k * b + b
    <3>1. CASE current.flushing
      BY <1>2, <2>1, <2>4, <3>1 DEF AfterFrames
    <3>2. CASE ~ current.flushing
      <4>1. n + 0 = Smaller(k * b + b, totalOps)
        BY <2>1, <2>4, <2>5, <3>2 DEF AfterFrames
      <4> QED
        BY <1>2, <2>1, <2>5, <4>1 DEF Smaller
    <3> QED
      BY <3>1, <3>2
  <2>9. (k + 1) * b = k * b + b /\ k + 1 \in Nat
    BY NextBatch
  <2>10. EventLoop' /\ current'.flushing = FALSE
    BY <2>1 DEF EventLoop, NoStep
  <2>11. AfterFrames(k + 1)'
    <3>1. UpToDate' /\ figures' # <<>> /\ k + 1 > 0
      BY <2>3, <2>7 DEF UpToDate
    <3> QED
      BY <2>1, <2>5, <2>7, <2>8, <2>9, <2>10, <3>1 DEF AfterFrames
  <2>12. FiguresTyped'
    BY <2>1, <2>7 DEF FiguresTyped, NoStep
  <2> QED
    BY <1>1, <1>2, <2>1, <2>2, <2>9, <2>11, <2>12
<1>6. CASE FinalFlush
  <2>1. /\ ~ EventLoop /\ current.run = sim /\ sim \in Run /\ current.left = 0
        /\ ~ current.flushing /\ opIdx[sim] = totalOps /\ Displayed
        /\ current' = [current EXCEPT !.flushing = TRUE]
        /\ UNCHANGED <<frames, playbackSpeed, sim, opIdx, batchSize>>
    BY <1>6 DEF FinalFlush, LoopDone, PageInv, StepOK, FramesOK
  <2>2. PICK k \in Nat : AfterFrames(k)
    BY <1>2, <2>1
  <2>3. PICK b \in Nat \ {0} : b = batchSize[sim]
    BY <2>1, <1>2 DEF FiguresTyped
  <2>4. \A c \in Chart : Len(history[c]) = Smaller(HistoryLength, k)
    BY <2>2 DEF AfterFrames
  <2>5. /\ figures' # <<>> /\ k + 1 > 0
        /\ \A c \in Chart : /\ \E S : history'[c] \in Seq(S)
                            /\ Len(history'[c]) = Smaller(HistoryLength, k + 1)
    <3>1. figures' = <<Snapshot>> /\ UpdateCharts
      BY <2>1 DEF Displayed
    <3>2. figures' # <<>> /\ k + 1 > 0
      BY <3>1
    <3>3. \A c \in Chart : /\ \E S : history'[c] \in Seq(S)
                          /\ Len(history'[c]) = Smaller(HistoryLength, k + 1)
      BY <2>4, <3>1, ChartsUpdated DEF FiguresTyped
    <3> QED
      BY <3>2, <3>3
  <2>6. k * b < totalOps /\ totalOps <= k * b + b
    <3>1. k * b < totalOps /\ totalOps + 0 = Smaller(k * b + b, totalOps)
      BY <2>1, <2>2, <2>3 DEF AfterFrames
    <3> QED
      BY <1>2, <2>3, <3>1 DEF Smaller
  <2>7. (k + 1) * b = k * b + b /\ k + 1 \in Nat /\ k * b \in Nat
    BY NextBatch
  <2>8. current'.left = 0 /\ current'.flushing = TRUE /\ current'.run = sim /\ current' # NoStep
    <3>1. current'.left = 0 /\ current'.flushing = TRUE /\ current'.run = sim
      BY <2>1 DEF FiguresTyped
    <3> QED
      BY <1>2, <2>1, <3>1 DEF NoStep
  <2>9. AfterFrames(k + 1)'
    <3>1. totalOps <= (k + 1) * b /\ (k + 1) * b < totalOps + b
      BY <1>2, <2>3, <2>6, <2>7
    <3> QED
      BY <2>1, <2>3, <2>5, <2>8, <3>1 DEF AfterFrames, EventLoop
  <2>10. FiguresTyped'
    BY <2>1, <2>5 DEF FiguresTyped
  <2> QED
    BY <1>1, <1>2, <2>1, <2>7, <2>8, <2>9, <2>10 DEF EventLoop
<1>7. CASE Complete
  <2>1. /\ ~ EventLoop /\ sim \in Run /\ current.flushing /\ frames = {}
        /\ pc = "idle" /\ toNand = <<>> /\ current' = NoStep
        /\ UNCHANGED <<visVars, frames, playbackSpeed, sim, opIdx, batchSize, figures,
                       history>>
    BY <1>7 DEF Complete, LoopDone, Ready, Idle, PageInv, StepOK, FramesOK
  <2>2. UNCHANGED <<pc, toNand>>
    BY <2>1 DEF visVars, statVars, ctrlVars, vars, gcVars
  <2>3. PICK k \in Nat : AfterFrames(k)
    BY <1>2, <2>1
  <2>4. EventLoop' /\ frames' = {}
    BY <2>1 DEF EventLoop
  <2>5. AfterFrames(k)'
    BY <2>1, <2>3, <2>4 DEF AfterFrames
  <2>6. FiguresTyped'
    BY <2>1 DEF FiguresTyped, NoStep
  <2> QED
    BY <1>1, <1>2, <2>1, <2>2, <2>5, <2>6
<1>8. CASE VisController /\ UNCHANGED playVars
  <2>1. /\ ~ EventLoop
        /\ UNCHANGED <<frames, playbackSpeed, sim, opIdx, batchSize, current, figures,
                       history>>
    BY <1>8, DriveBusy DEF playVars
  <2>2. \A k \in Nat : AfterFrames(k) => AfterFrames(k)'
    BY <2>1 DEF AfterFrames, EventLoop
  <2> QED
    BY <1>1, <2>1, <2>2 DEF FiguresTyped, EventLoop
<1> QED
  BY <1>3, <1>4, <1>5, <1>6, <1>7, <1>8 DEF Step

LEMMA FiguresStutter ==
  ASSUME FiguresInv, UNCHANGED <<visVars, playVars>>
  PROVE  FiguresInv'
<1>1. /\ UNCHANGED <<pc, toNand, eraseCount, stats, cacheStats>>
      /\ UNCHANGED <<frames, playback, isPaused, playbackSpeed, sim, opIdx, batchSize,
                     current, buttons, status, figures, history>>
  BY DEF visVars, statVars, ctrlVars, vars, flashVars, gcVars, playVars
<1>2. UpToDate' = UpToDate
  BY <1>1, SameFigures
<1>3. PageInv'
  BY <1>1, SamePage DEF FiguresInv
<1>4. \A k \in Nat : AfterFrames(k) => AfterFrames(k)'
  BY <1>1, <1>2 DEF AfterFrames, EventLoop
<1> QED
  BY <1>1, <1>3, <1>4 DEF FiguresInv, FiguresTyped, EventLoop

LEMMA FiguresInvariance == PlaySpec => []FiguresInv
<1>1. FiguresInv /\ [PlayNext]_<<visVars, playVars>> => FiguresInv'
  BY FiguresStutter, FiguresClick, FiguresStep DEF PlayNext
<1> QED
  BY FiguresInit, <1>1, PTL DEF PlaySpec

\* Between callbacks the charts have one point per frame that the drive on display
\* has played, as far as they go back, and the figures are up to date as long as
\* frames are to come, whatever the batches, speeds, pauses and restarts.
THEOREM FiguresStayCurrent == PlaySpec => []FiguresAreCurrent
<1>1. ASSUME FiguresInv PROVE FiguresAreCurrent
  <2> DEFINE framesPlayed ==
               IF sim = 0 THEN 0 ELSE (opIdx[sim] + batchSize[sim] - 1) \div batchSize[sim]
  <2> SUFFICES ASSUME EventLoop
               PROVE  /\ \A c \in Chart : Len(history[c]) = Smaller(HistoryLength, framesPlayed)
                      /\ figures # <<>> <=> framesPlayed > 0
                      /\ frames # {} /\ framesPlayed > 0 => UpToDate
    BY DEF FiguresAreCurrent
  <2>1. CASE sim = 0
    <3>1. figures = <<>> /\ \A c \in Chart : Len(history[c]) = 0
      BY <1>1, <2>1 DEF FiguresInv
    <3>2. Smaller(HistoryLength, 0) = 0
      BY PlaybackAssumption DEF Smaller
    <3>3. frames = {}
      BY <1>1, <2>1 DEF FiguresInv, PageInv, FramesOK
    <3> QED
      BY <2>1, <3>1, <3>2, <3>3
  <2>2. CASE sim # 0
    <3>1. sim \in Run
      BY <1>1, <2>2 DEF FiguresInv, PageInv, FramesOK
    <3>2. PICK k \in Nat : AfterFrames(k)
      BY <1>1, <2>2 DEF FiguresInv
    <3>3. PICK b \in Nat \ {0}, n \in Nat : b = batchSize[sim] /\ n = opIdx[sim]
      BY <1>1, <2>2, <3>1 DEF FiguresInv, FiguresTyped
    <3>4. /\ \A c \in Chart : Len(history[c]) = Smaller(HistoryLength, k)
          /\ figures # <<>> <=> k > 0
          /\ n <= k * b /\ k * b < n + b
          /\ frames # {} /\ k > 0 => UpToDate
      BY <3>2, <3>3 DEF AfterFrames
    <3>5. (n + b - 1) \div b = k
      BY <3>4, BatchCount
    <3> QED
      BY <2>2, <3>3, <3>4, <3>5
  <2> QED
    BY <2>1, <2>2
<1> QED
  BY FiguresInvariance, <1>1, PTL

-----------------------------------------------------------------------------
(* The workload is played. *)

WritesOf(n, l) == {i \in 1 .. n : Workload[i].type = "W" /\ Workload[i].lba = l}

IsLast(i, S) == i \in S /\ \A j \in S : j <= i

\* The drive shows for each LBA the last of its writes among the first n operations.
PlayedUpTo(n) ==
  \A l \in LBA : WritesOf(n, l) # {} =>
    \E i \in WritesOf(n, l) : IsLast(i, WritesOf(n, l)) /\ View(l) = Workload[i].data

LEMMA WritesNext ==
  ASSUME NEW n \in Nat, NEW l
  PROVE  /\ WritesOf(0, l) = {} /\ WritesOf(n, l) \subseteq 1 .. n
         /\ WritesOf(n + 1, l) = IF Workload[n + 1].type = "W" /\ Workload[n + 1].lba = l
                                 THEN WritesOf(n, l) \cup {n + 1} ELSE WritesOf(n, l)
BY DEF WritesOf

\* Once all writes are served every LBA shows what the workload leaves there.
LEMMA LastIsFinal ==
  ASSUME NEW n \in WriteOps .. totalOps, PlayedUpTo(n), NEW l \in LBA
  PROVE  View(l) = Final(l)
<1>1. /\ WriteOps \in Nat /\ totalOps \in Nat /\ n \in Nat
      /\ \A i \in 1 .. totalOps : Workload[i].type = "W" <=> i <= WriteOps
      /\ WriteOps <= totalOps
  BY WorkloadFacts, PlaybackAssumption
<1>2. WritesOf(n, l) = WritesOf(totalOps, l)
  BY <1>1 DEF WritesOf
<1>3. WritesOf(n, l) # {}
  <2>1. PICK i \in 1 .. WriteOps : Workload[i].lba = l
    BY WorkloadFacts
  <2>2. i \in 1 .. n /\ i \in 1 .. totalOps /\ i <= WriteOps
    BY <1>1
  <2> QED
    BY <1>1, <2>1, <2>2 DEF WritesOf
<1>4. PICK i \in WritesOf(n, l) : IsLast(i, WritesOf(n, l)) /\ View(l) = Workload[i].data
  BY <1>3 DEF PlayedUpTo
<1> DEFINE writes == WritesOf(totalOps, l)
<1>5. writes \subseteq Int
  BY <1>1 DEF WritesOf
<1>6. Final(l) = Workload[CHOOSE m \in writes : \A j \in writes : j <= m].data
  BY DEF Final, WritesOf
<1>7. i \in writes /\ \A j \in writes : j <= i
  BY <1>2, <1>4 DEF IsLast
<1> HIDE DEF writes
<1>8. (CHOOSE m \in writes : \A j \in writes : j <= m) = i
  <2> DEFINE c == CHOOSE m \in writes : \A j \in writes : j <= m
  <2>1. c \in writes /\ \A j \in writes : j <= c
    BY <1>7
  <2> HIDE DEF c
  <2>2. c = i
    BY <1>5, <1>7, <2>1
  <2> QED
    BY <2>2 DEF c
<1> QED
  BY <1>4, <1>6, <1>8

\* A pseudo-LBA is none of the workload's, which are finitely many.
LEMMA LbaFacts == NoLBA \notin LBA /\ IsFiniteSet(LBA)
<1>1. coldLbas \in Nat \ {0} /\ hotLbas \in Nat \ {0}
  BY PlaybackAssumption
<1>2. \A i \in 1 .. hotLbas : (i - 1) % hotLbas \in Nat
  BY <1>1
<1>3. NoLBA \notin LBA
  <2>1. \A i \in 1 .. coldLbas : ColdLba(i) # -1
    BY <1>1 DEF ColdLba
  <2>2. ASSUME NEW i \in 1 .. hotLbas
        PROVE  HotLba(i) # -1
    <3>1. PICK m \in Nat : m = (i - 1) % hotLbas
      BY <1>2
    <3> QED
      BY <3>1 DEF HotLba
  <2> QED
    BY <2>1, <2>2, PlaybackAssumption DEF NoLBA
<1> DEFINE colds == {ColdLba(i) : i \in 1 .. coldLbas}
           hots == {HotLba(i) : i \in 1 .. hotLbas}
           f == [i \in 1 .. coldLbas |-> ColdLba(i)]
           g == [i \in 1 .. hotLbas |-> HotLba(i)]
<1>4. f \in Surjection(1 .. coldLbas, colds) /\ g \in Surjection(1 .. hotLbas, hots)
  BY DEF Surjection
<1>5. IsFiniteSet(1 .. coldLbas) /\ IsFiniteSet(1 .. hotLbas)
  BY <1>1, FS_Interval
<1>6. IsFiniteSet(colds) /\ IsFiniteSet(hots)
  BY <1>4, <1>5, FS_Surjection
<1>7. LBA = colds \cup hots
  BY PlaybackAssumption
<1> QED
  BY <1>3, <1>6, <1>7, FS_Union

-----------------------------------------------------------------------------
(* The drive under the playback. *)

Provisioned == OverProvisioned /\ Blank \notin Data

\* What is known of the drive at any time.
DriveOK == VisInv /\ CountersOK

LEMMA DriveNext ==
  ASSUME Provisioned, DriveOK, [VisNext]_visVars
  PROVE  /\ DriveOK' /\ [CtrlNext]_ctrlVars /\ ViewOK /\ ViewOK' /\ ~ DropWrite
         /\ CtrlInv /\ answer' \in Data \cup {Unmapped}
<1>1. NoLBA \notin LBA /\ IsFiniteSet(LBA)
  BY LbaFacts
<1>2. [StatNext]_statVars /\ FtlRevTypeOK' /\ TablesInverse'
  BY <1>1, VisStep DEF Provisioned, DriveOK
<1>3. [CtrlNext]_ctrlVars /\ CtrlInv
  BY <1>2, StatWatches DEF DriveOK, VisInv
<1>4. CtrlInv'
  BY <1>1, <1>3, CtrlInvNext
<1>5. CapacityInv' /\ ~ DropWrite
  BY <1>1, <1>3, CapacityCtrl DEF Provisioned, DriveOK, VisInv
<1>6. CountersOK'
  BY <1>2, <1>3, CountersNext DEF DriveOK
<1>7. ViewOK /\ ViewOK'
  BY <1>3, <1>4, ViewFacts, PTL
<1> QED
  BY <1>2, <1>3, <1>4, <1>5, <1>6, <1>7 DEF DriveOK, VisInv, CtrlInv, DramOK

LEMMA SameDrive ==
  ASSUME UNCHANGED visVars
  PROVE  UNCHANGED <<stats, answer, lruList>> /\ \A k \in LBA : View(k)' = View(k)
<1>1. /\ UNCHANGED <<pageState, pageData, mappingTable, writing>>
      /\ UNCHANGED <<lruList, toNand, answer, stats>>
  BY DEF visVars, statVars, ctrlVars, vars, flashVars
<1>2. Store' = Store
  BY <1>1 DEF Store, HasMapping
<1>3. \A k \in LBA : View(k)' = View(k)
  BY <1>1, <1>2 DEF View
<1> QED
  BY <1>1, <1>3

Served == stats.logicalWrites + stats.logicalReads

LEMMA ServedFacts ==
  ASSUME CountersOK
  PROVE  /\ Record([logicalWrites |-> 1]) => Served' = Served + 1
         /\ \A t : Record([logicalReads |-> 1, readLatency |-> t]) \/ Record([logicalReads |-> 1])
                     => Served' = Served + 1
         /\ Record(HostProgram) \/ Record(Migration) \/ Record([gcInvocations |-> 1])
              \/ Record([gcLatency |-> latency.blockErase])
              \/ Record([gcLatency |-> latency.blockErase, wearLevelPasses |-> 1])
              \/ UNCHANGED stats => Served' = Served
<1>1. /\ stats \in [Stat -> Nat]
      /\ "logicalWrites" \in Stat /\ "logicalReads" \in Stat
      /\ stats.logicalWrites \in Nat /\ stats.logicalReads \in Nat
  BY DEF CountersOK, Stat
<1>2. ASSUME Record([logicalWrites |-> 1])
      PROVE  Served' = Served + 1
  <2>1. stats'.logicalWrites = stats.logicalWrites + 1 /\ stats'.logicalReads = stats.logicalReads
    BY <1>1, <1>2 DEF Record, Plus
  <2> QED
    BY <1>1, <2>1 DEF Served
<1>3. ASSUME NEW t, Record([logicalReads |-> 1, readLatency |-> t])
                      \/ Record([logicalReads |-> 1])
      PROVE  Served' = Served + 1
  <2>1. stats'.logicalWrites = stats.logicalWrites /\ stats'.logicalReads = stats.logicalReads + 1
    BY <1>1, <1>3 DEF Record, Plus
  <2> QED
    BY <1>1, <2>1 DEF Served
<1>4. ASSUME NEW increments, DOMAIN increments \cap {"logicalWrites", "logicalReads"} = {},
             Record(increments)
      PROVE  Served' = Served
  <2>1. stats'.logicalWrites = stats.logicalWrites /\ stats'.logicalReads = stats.logicalReads
    BY <1>1, <1>4 DEF Record, Plus
  <2> QED
    BY <2>1 DEF Served
<1>5. /\ DOMAIN HostProgram \cap {"logicalWrites", "logicalReads"} = {}
      /\ DOMAIN Migration \cap {"logicalWrites", "logicalReads"} = {}
  BY DEF HostProgram, Migration
<1>6. UNCHANGED stats => Served' = Served
  BY DEF Served
<1> QED
  BY <1>2, <1>3, <1>4, <1>5, <1>6

\* A request is served: it is counted, and a read finds what the drive shows.
LEMMA RequestServed ==
  ASSUME Provisioned, DriveOK, NEW op \in Operation, Executes(op)
  PROVE  /\ DriveOK' /\ Served' = Served + 1
         /\ op.type = "W" => \A k \in LBA : View(k)' = IF k = op.lba THEN op.data ELSE View(k)
         /\ op.type = "R" => answer' = View(op.lba) /\ \A k \in LBA : View(k)' = View(k)
<1>1. op.lba \in LBA /\ (op.type = "W" => op.data \in Data)
  BY DEF Operation
<1>2. [VisNext]_visVars
  BY <1>1 DEF Executes, VisNext, VisHost
<1>3. DriveOK' /\ CtrlInv /\ ViewOK /\ ViewOK' /\ NoLBA \notin LBA
  BY <1>2, DriveNext, LbaFacts
<1>4. CASE op.type = "W"
  <2>1. RecordedWrite(op.lba, op.data)
    BY <1>4 DEF Executes, VisWrite
  <2>2. CtrlWrite(op.lba, op.data) /\ Record([logicalWrites |-> 1])
    BY <2>1 DEF RecordedWrite
  <2>3. \A k \in LBA : View(k)' = IF k = op.lba THEN op.data ELSE View(k)
    BY <1>1, <1>3, <1>4, <2>2, WriteShown
  <2> QED
    BY <1>3, <1>4, <2>2, <2>3, ServedFacts DEF DriveOK
<1>5. CASE op.type = "R"
  <2>1. \/ ReadHit(op.lba) \/ ReadMiss(op.lba) \/ ReadUnmapped(op.lba)
    <3>1. CASE VisReadMiss(op.lba)
      <4>1. ~ (IsEnabled(CacheSize) /\ Cached(lruList, op.lba))
        BY <1>3, <3>1, CachedIsHit DEF VisReadMiss, Provisioned
      <4>2. ReadMiss(op.lba)
        BY <3>1, <4>1 DEF VisReadMiss, ReadMiss
      <4> QED
        BY <4>2
    <3> QED
      BY <1>5, <3>1 DEF Executes, VisReadHit, RecordedHit, VisReadUnmapped, RecordedUnmapped
  <2>2. answer' = View(op.lba) /\ \A k \in LBA : View(k)' = View(k)
    BY <1>1, <1>3, <2>1, ReadShown
  <2>3. \/ \E t : Record([logicalReads |-> 1, readLatency |-> t])
        \/ Record([logicalReads |-> 1])
    BY <1>5 DEF Executes, VisReadHit, RecordedHit, VisReadMiss, VisReadUnmapped,
                RecordedUnmapped
  <2> QED
    BY <1>3, <1>5, <2>2, <2>3, ServedFacts DEF DriveOK
<1> QED
  BY <1>3, <1>4, <1>5 DEF Operation

\* What the drive does on its own, and the flush, serve and show nothing new.
LEMMA NothingServed ==
  ASSUME Provisioned, DriveOK, VisFlushCache \/ VisController
  PROVE  /\ DriveOK' /\ Served' = Served /\ UNCHANGED answer
         /\ \A k \in LBA : View(k)' = View(k)
         /\ VisFlushCache => lruList' = <<>>
         /\ VisController => lruList' = lruList
<1>1. [VisNext]_visVars
  BY DEF VisNext, VisHost
<1>2. /\ DriveOK' /\ [CtrlNext]_ctrlVars /\ CtrlInv /\ ViewOK /\ ViewOK' /\ ~ DropWrite
      /\ NoLBA \notin LBA /\ CountersOK
  BY <1>1, DriveNext, LbaFacts DEF DriveOK
<1>3. CASE VisFlushCache
  <2>1. FlushCache /\ UNCHANGED stats /\ lruList' = <<>>
    BY <1>3 DEF VisFlushCache, FlushCache
  <2>2. UNCHANGED answer /\ \A k \in LBA : View(k)' = View(k)
    BY <1>2, <2>1, OthersShown
  <2>3. ~ VisController
    BY <1>3 DEF VisFlushCache, FlushCache, Ready, Idle, VisController, NextNandWrite,
       VisProgram, VisCollect, VisSelect, VisErase, RecordedSelect, RecordedErase,
       RecordedWearErase, GCSelect, WLSelect, GCErase, WLErase, VisMigrate, VisMove, ForceGC,
       DropWrite
  <2> QED
    BY <1>2, <1>3, <2>1, <2>2, <2>3, ServedFacts
<1>4. CASE VisController
  <2>1. ~ VisFlushCache /\ ~ (pc = "idle" /\ toNand = <<>>)
    BY <1>4 DEF VisFlushCache, FlushCache, Ready, Idle, VisController, NextNandWrite,
       VisProgram, VisCollect, VisSelect, VisErase, RecordedSelect, RecordedErase,
       RecordedWearErase, GCSelect, WLSelect, GCErase, WLErase, VisMigrate, VisMove, ForceGC,
       DropWrite
  <2>2. lruList' = lruList /\ UNCHANGED answer
    BY <1>4 DEF VisController, NextNandWrite
  <2>3. \/ NextNandWrite
        \/ NandStep /\ ~ DropWrite /\ UNCHANGED <<lruList, toNand, answer>>
    <3>1. /\ IInv /\ CapacityInv /\ FtlRevTypeOK /\ TablesInverse
      BY DEF DriveOK, VisInv, CtrlInv
    <3>2. VisProgram => Program
      BY <1>2, <3>1, ProgramMirrors DEF RecordedProgram
    <3>3. VisCollect => Collect
      BY <1>2, <3>1, CollectMirrors
      DEF RecordedCollect, RecordedSelect, RecordedMove, RecordedErase, RecordedWearErase,
          Collect, GCStep
    <3> QED
      BY <1>2, <1>4, <3>2, <3>3 DEF VisController, NandStep, Controller
  <2>4. \A k \in LBA : View(k)' = View(k)
    BY <1>2, <2>3, OthersShown
  <2>5. Served' = Served
    BY <1>2, <1>4, ServedFacts
    DEF VisController, VisProgram, VisCollect, VisSelect, VisErase, VisMigrate, VisMove,
        RecordedSelect, RecordedErase, RecordedWearErase
  <2> QED
    BY <1>2, <2>1, <2>2, <2>4, <2>5
<1> QED
  BY <1>3, <1>4

-----------------------------------------------------------------------------
(* The invariant of the playback. *)

\* At all times, in callbacks too, the drive of the run on display has been served
\* its operations up to opIdx; the flush, which comes last, empties its cache.
PlayedInv ==
  /\ FiguresInv /\ DriveOK
  /\ playback \in Run \cup {0} /\ status \in {"Ready", "Running", "Paused", "Complete"}
  /\ \A r \in Run : opIdx[r] <= totalOps
  /\ current.left <= totalOps
  /\ sim # 0 =>
       /\ Served = opIdx[sim]
       /\ PlayedUpTo(opIdx[sim])
       /\ opIdx[sim] > 0 /\ Workload[opIdx[sim]].type = "R"
            => answer = Final(Workload[opIdx[sim]].lba)
  /\ current.flushing \/ status = "Complete" =>
       sim # 0 /\ opIdx[sim] = totalOps /\ lruList = <<>>

LEMMA PlayedInit ==
  ASSUME OverProvisioned
  PROVE  PlayInit => PlayedInv
<1> SUFFICES ASSUME PlayInit PROVE PlayedInv
  OBVIOUS
<1>1. VisInv
  BY LbaFacts, VisInvInit DEF PlayInit
<1>2. DriveOK
  BY <1>1 DEF PlayInit, VisInit, DriveOK, CountersOK
<1> QED
  BY <1>2, FiguresInit, WorkloadFacts DEF PlayInit, PlayedInv, NoStep

\* createSim makes a fresh drive, between two calls on the one before.
LEMMA DriveCreated ==
  ASSUME Provisioned, DriveOK, pc = "idle", CreateSim
  PROVE  DriveOK' /\ Served' = 0
<1>1. CtrlInv' /\ CapacityInv'
  <2>1. wearLevelInterval' \in Int
    BY DEF CreateSim, DriveOK, VisInv, CtrlInv, IInv, GCTypeOK
  <2> QED
    BY <2>1, NewDriveInv DEF CreateSim, Provisioned, DriveOK, VisInv
<1>2. FtlRevTypeOK' /\ TablesInverse'
  BY LbaFacts, UnmappedAssumption DEF CreateSim, NewDrive, FtlRevTypeOK, TablesInverse
<1>3. CountersOK' /\ Served' = 0
  BY DEF CreateSim, CountersOK, Served, Stat
<1> QED
  BY <1>1, <1>2, <1>3 DEF DriveOK, VisInv

\* The drive and what was served of the run on display stay as they are.
LEMMA SamePlayed ==
  ASSUME Provisioned, PlayedInv, FiguresInv', UNCHANGED <<visVars, opIdx>>,
         playback' \in Run \cup {0}, status' \in {"Ready", "Running", "Paused", "Complete"},
         current'.left <= totalOps, sim' = sim \/ sim' = 0,
         current'.flushing \/ status' = "Complete" =>
           sim' = sim /\ (current.flushing \/ status = "Complete")
  PROVE  PlayedInv'
<1>1. DriveOK'
  BY DriveNext DEF PlayedInv
<1>2. UNCHANGED <<stats, answer, lruList>> /\ \A k \in LBA : View(k)' = View(k)
  BY SameDrive
<1>3. \A n : PlayedUpTo(n) => PlayedUpTo(n)'
  BY <1>2 DEF PlayedUpTo
<1>4. Served' = Served
  BY <1>2 DEF Served
<1> QED
  BY <1>1, <1>2, <1>3, <1>4 DEF PlayedInv

LEMMA PlayedClick ==
  ASSUME Provisioned, PlayedInv, Click
  PROVE  PlayedInv'
<1>1. FiguresInv'
  BY FiguresClick DEF PlayedInv
<1>2. totalOps \in Nat \ {0}
  BY WorkloadFacts
<1>3. CASE StartSim
  <2>1. PICK r \in Run : /\ batchSize[r] = 0 /\ CreateSim
                         /\ sim' = r /\ playback' = r
    BY <1>3 DEF StartSim
  <2>2. /\ current = NoStep /\ UNCHANGED <<opIdx, current>> /\ status' = "Running"
        /\ pc = "idle"
    BY <1>3 DEF StartSim, EventLoop, PlayedInv, FiguresInv
  <2>3. DriveOK' /\ Served' = 0
    BY <2>1, <2>2, DriveCreated DEF PlayedInv
  <2>4. opIdx[r] = 0
    BY <2>1 DEF PlayedInv, FiguresInv
  <2>5. PlayedUpTo(0)'
    BY WritesNext DEF PlayedUpTo
  <2> QED
    BY <1>1, <1>2, <2>1, <2>2, <2>3, <2>4, <2>5 DEF PlayedInv, NoStep
<1>4. CASE TogglePause \/ ResetSim \/ \E n \in Speeds : SetSpeed(n)
  <2>1. UNCHANGED <<visVars, opIdx, current>> /\ (sim' = sim \/ sim' = 0)
    BY <1>4 DEF TogglePause, ResetSim, SetSpeed
  <2>2. /\ playback' \in Run \cup {0}
        /\ status' \in {"Ready", "Running", "Paused", "Complete"}
        /\ status' = "Complete" => status = "Complete" /\ sim' = sim
        /\ current = NoStep
    BY <1>4 DEF TogglePause, ResetSim, SetSpeed, EventLoop, PlayedInv
  <2> QED
    BY <1>1, <1>2, <2>1, <2>2, SamePlayed DEF NoStep, PlayedInv
<1> QED
  BY <1>3, <1>4 DEF Click

\* The loop stays within the workload.
LEMMA OpsLeft ==
  ASSUME FiguresInv, ~ EventLoop, current.left > 0
  PROVE  /\ sim \in Run /\ current.run = sim /\ status = "Running" /\ ~ current.flushing
         /\ opIdx[sim] \in Nat /\ current.left \in Nat /\ opIdx[sim] + current.left <= totalOps
<1>1. /\ sim \in Run /\ sim # 0 /\ current.run = sim /\ status = "Running"
      /\ opIdx[sim] \in Nat /\ batchSize[sim] \in Nat /\ current.left \in Nat
  BY PlaybackAssumption DEF FiguresInv, PageInv, StepOK, FramesOK, FiguresTyped, Run
<1>2. PICK k \in Nat : AfterFrames(k)
  BY <1>1 DEF FiguresInv
<1>3. ~ current.flushing
  BY <1>2 DEF AfterFrames
<1>4. PICK m \in Nat : m = k * batchSize[sim] + batchSize[sim]
  BY <1>1, NextBatch
<1>5. opIdx[sim] + current.left = Smaller(m, totalOps)
  BY <1>2, <1>3, <1>4 DEF AfterFrames
<1> QED
  BY <1>1, <1>3, <1>4, <1>5, WorkloadFacts DEF Smaller

\* One more operation is played.
LEMMA PlayedExecute ==
  ASSUME Provisioned, PlayedInv, ExecuteOp
  PROVE  PlayedInv'
<1>1. FiguresInv /\ FiguresInv' /\ DriveOK
  BY FiguresStep DEF PlayedInv, Step
<1>2. ~ EventLoop /\ current.left > 0
  BY DEF ExecuteOp, EventLoop, NoStep
<1>3. PICK n \in Nat : n = opIdx[sim]
  BY <1>1, <1>2, OpsLeft
<1>4. /\ sim \in Run /\ current.run = sim /\ status = "Running" /\ ~ current.flushing
      /\ sim # 0 /\ n < totalOps /\ current.left \in Nat /\ current.left <= totalOps
  BY <1>1, <1>2, <1>3, OpsLeft, WorkloadFacts DEF ExecuteOp, PlayedInv
<1> DEFINE op == Workload[n + 1]
<1>5. op \in Operation /\ n + 1 \in 1 .. totalOps /\ WriteOps \in Nat
  BY <1>3, <1>4, WorkloadFacts
<1>6. /\ Executes(op) /\ opIdx' = [opIdx EXCEPT ![sim] = n + 1]
      /\ UNCHANGED <<playback, sim, status>>
      /\ current' = [current EXCEPT !.left = current.left - 1]
  BY <1>3, <1>4 DEF ExecuteOp
<1>7. /\ opIdx'[sim] = n + 1 /\ \A r \in Run : opIdx'[r] <= totalOps
      /\ current'.left <= totalOps /\ current'.flushing = current.flushing
  BY <1>1, <1>3, <1>4, <1>5, <1>6, WorkloadFacts DEF FiguresInv, FiguresTyped, PlayedInv
<1>8. /\ DriveOK' /\ Served' = Served + 1
      /\ op.type = "W" => \A k \in LBA : View(k)' = IF k = op.lba THEN op.data ELSE View(k)
      /\ op.type = "R" => answer' = View(op.lba) /\ \A k \in LBA : View(k)' = View(k)
      /\ op.type \in {"W", "R"} /\ op.lba \in LBA
  BY <1>1, <1>5, <1>6, RequestServed DEF Operation
<1>9. Served = n /\ PlayedUpTo(n)
  BY <1>3, <1>4 DEF PlayedInv
<1>10. PlayedUpTo(n + 1)'
  <2> SUFFICES ASSUME NEW l \in LBA, WritesOf(n + 1, l) # {}
               PROVE  \E i \in WritesOf(n + 1, l) :
                        IsLast(i, WritesOf(n + 1, l)) /\ View(l)' = Workload[i].data
    BY DEF PlayedUpTo
  <2>1. CASE op.type = "W" /\ op.lba = l
    <3>1. WritesOf(n + 1, l) = WritesOf(n, l) \cup {n + 1} /\ WritesOf(n, l) \subseteq 1 .. n
      BY <2>1, WritesNext
    <3>2. IsLast(n + 1, WritesOf(n + 1, l))
      BY <3>1 DEF IsLast
    <3> QED
      BY <1>8, <2>1, <3>1, <3>2
  <2>2. CASE ~ (op.type = "W" /\ op.lba = l)
    <3>1. WritesOf(n + 1, l) = WritesOf(n, l)
      BY <2>2, WritesNext
    <3>2. View(l)' = View(l)
      BY <1>8, <2>2
    <3> QED
      BY <1>9, <3>1, <3>2 DEF PlayedUpTo
  <2> QED
    BY <2>1, <2>2
<1>11. op.type = "R" => answer' = Final(op.lba)
  <2> SUFFICES ASSUME op.type = "R" PROVE answer' = Final(op.lba)
    OBVIOUS
  <2>1. n \in WriteOps .. totalOps
    <3>1. ~ (n + 1 <= WriteOps)
      BY <1>5, WorkloadFacts
    <3> QED
      BY <1>4, <1>5, <3>1, WorkloadFacts
  <2>2. View(op.lba) = Final(op.lba)
    BY <1>8, <1>9, <2>1, LastIsFinal
  <2> QED
    BY <1>8, <2>2
<1> HIDE DEF op
<1>12. /\ Served' = n + 1 /\ Workload[opIdx'[sim]] = op
       /\ ~ (current'.flushing \/ status' = "Complete")
  BY <1>4, <1>6, <1>7, <1>8, <1>9 DEF op
<1> QED
  BY <1>1, <1>4, <1>6, <1>7, <1>8, <1>10, <1>11, <1>12 DEF PlayedInv

\* Nothing more is served, but DRAM may be emptied.
LEMMA PlayedDrive ==
  ASSUME Provisioned, PlayedInv,
         FinalFlush \/ (VisController /\ UNCHANGED playVars)
  PROVE  PlayedInv'
<1>1. FiguresInv' /\ FiguresInv /\ DriveOK
  BY FiguresStep DEF PlayedInv, Step
<1>2. VisFlushCache \/ VisController
  BY DEF FinalFlush
<1>3. /\ DriveOK' /\ Served' = Served /\ UNCHANGED answer
      /\ \A k \in LBA : View(k)' = View(k)
      /\ VisFlushCache => lruList' = <<>>
      /\ VisController => lruList' = lruList
  BY <1>1, <1>2, NothingServed
<1>4. \A n : PlayedUpTo(n) => PlayedUpTo(n)'
  BY <1>3 DEF PlayedUpTo
<1>5. UNCHANGED <<playback, sim, opIdx, status>>
  BY DEF FinalFlush, playVars
<1>6. CASE FinalFlush
  <2>1. /\ ~ EventLoop /\ current.run = sim /\ sim # 0 /\ opIdx[sim] = totalOps
        /\ current.left = 0 /\ current' = [current EXCEPT !.flushing = TRUE]
        /\ lruList' = <<>>
    BY <1>1, <1>3, <1>6 DEF FinalFlush, LoopDone, FiguresInv, PageInv, StepOK
  <2>2. current'.left = 0
    BY <1>1, <2>1 DEF FiguresInv, FiguresTyped
  <2> QED
    BY <1>1, <1>3, <1>4, <1>5, <2>1, <2>2, WorkloadFacts DEF PlayedInv
<1>7. CASE VisController /\ UNCHANGED playVars
  <2>1. lruList' = lruList /\ current' = current
    BY <1>3, <1>7 DEF playVars
  <2> QED
    BY <1>1, <1>3, <1>4, <1>5, <2>1 DEF PlayedInv
<1> QED
  BY <1>6, <1>7

LEMMA PlayedStep ==
  ASSUME Provisioned, PlayedInv, Step
  PROVE  PlayedInv'
<1>1. FiguresInv' /\ FiguresInv
  BY FiguresStep DEF PlayedInv
<1>2. totalOps \in Nat \ {0}
  BY WorkloadFacts
<1>3. ASSUME NEW r \in Run, Frame(r)
      PROVE  PlayedInv'
  <2>1. /\ UNCHANGED <<visVars, sim, opIdx, status>> /\ EventLoop /\ frames # {}
        /\ playback' \in Run \cup {0}
    BY <1>3 DEF Frame, KeepPolling, PlayedInv
  <2>2. status # "Complete" /\ current = NoStep
    BY <1>1, <2>1 DEF FiguresInv, PageInv, WaitingOK, StatusTellsPlayback, EventLoop
  <2>3. current'.left <= totalOps /\ ~ current'.flushing
    <3>1. CASE UNCHANGED current
      BY <1>2, <2>2, <3>1 DEF NoStep
    <3>2. CASE current' = [run |-> r, left |-> Smaller(batchSize[r], totalOps - opIdx[r]),
                           flushing |-> FALSE]
      <4>1. opIdx[r] \in Nat /\ batchSize[r] \in Nat /\ opIdx[r] <= totalOps
        BY <1>1 DEF FiguresInv, FiguresTyped, PlayedInv
      <4> QED
        BY <1>2, <3>2, <4>1 DEF Smaller
    <3> QED
      BY <1>3, <3>1, <3>2 DEF Frame
  <2> QED
    BY <1>1, <2>1, <2>2, <2>3, SamePlayed DEF PlayedInv
<1>4. CASE RequestFrame
  <2>1. /\ UNCHANGED <<visVars, sim, opIdx, status>> /\ ~ EventLoop /\ current' = NoStep
        /\ playback' = current.run
    BY <1>4 DEF RequestFrame, LoopDone
  <2>2. status = "Running" /\ current.run = sim /\ sim \in Run \cup {0}
    BY <1>1, <2>1 DEF FiguresInv, PageInv, StepOK, FramesOK
  <2> QED
    BY <1>1, <1>2, <2>1, <2>2, SamePlayed DEF NoStep, PlayedInv
<1>5. CASE Complete
  <2>1. /\ UNCHANGED <<visVars, sim, opIdx, playback>> /\ current.flushing
        /\ current' = NoStep /\ status' = "Complete"
    BY <1>5 DEF Complete
  <2> QED
    BY <1>1, <1>2, <2>1, SamePlayed DEF NoStep, PlayedInv
<1> QED
  BY <1>3, <1>4, <1>5, PlayedExecute, PlayedDrive DEF Step

LEMMA PlayedInvariance ==
  ASSUME Provisioned
  PROVE  PlaySpec => []PlayedInv
<1>1. PlayInit => PlayedInv
  BY PlayedInit DEF Provisioned
<1>2. PlayedInv /\ [PlayNext]_<<visVars, playVars>> => PlayedInv'
  <2>1. ASSUME PlayedInv, UNCHANGED <<visVars, playVars>>
        PROVE  PlayedInv'
    <3>1. FiguresInv'
      <4>1. FiguresInv /\ UNCHANGED <<visVars, playVars>> => FiguresInv'
        BY FiguresStutter
      <4> QED
        BY <2>1, <4>1 DEF PlayedInv
    <3> QED
      BY <2>1, <3>1, SamePlayed DEF PlayedInv, playVars
  <2> QED
    BY <2>1, PlayedClick, PlayedStep DEF PlayNext
<1> QED
  BY <1>1, <1>2, PTL DEF PlaySpec

-----------------------------------------------------------------------------
(* The theorems about the workload. *)

\* Types of the drive and of the page: the loop never runs past the workload, and
\* what is displayed is one of the four badges.
THEOREM PlayTypeCorrectness ==
  ASSUME OverProvisioned, Blank \notin Data
  PROVE  PlaySpec => []PlayTypeOK
<1>1. ASSUME PlayedInv PROVE PlayTypeOK
  <2>1. FiguresInv /\ PageInv /\ CtrlInv /\ CountersOK /\ FtlRevTypeOK /\ FiguresTyped
    BY <1>1 DEF PlayedInv, FiguresInv, DriveOK, VisInv
  <2>2. VisTypeOK
    <3>1. CtrlTypeOK
      BY <2>1, CtrlInvTypes
    <3>2. lruList \in Seq([lba : LBA, data : Data \cup {Blank}, dirty : BOOLEAN])
      <4>1. [lba : LBA, data : Data, dirty : BOOLEAN]
              \subseteq [lba : LBA, data : Data \cup {Blank}, dirty : BOOLEAN]
        OBVIOUS
      <4> QED
        BY <3>1, <4>1, SeqMonotonic DEF CtrlTypeOK
    <3> QED
      BY <2>1, <3>1, <3>2 DEF VisTypeOK, CtrlTypeOK, CountersOK, FtlRevTypeOK
  <2>3. frames \subseteq Run /\ sim \in Run \cup {0} /\ isPaused \in BOOLEAN
    BY <2>1 DEF PageInv, FramesOK
  <2>4. buttons \subseteq Button
    BY <2>1 DEF PageInv, WaitingOK, StepOK, Button
  <2>5. totalOps \in Nat
    BY WorkloadFacts
  <2>6. opIdx \in [Run -> 0 .. totalOps] /\ current.left \in 0 .. totalOps
    BY <1>1, <2>1, <2>5 DEF FiguresTyped, PlayedInv
  <2>7. current \in [run : Run \cup {0}, left : 0 .. totalOps, flushing : BOOLEAN]
    BY <2>1, <2>6 DEF FiguresTyped
  <2> QED
    BY <1>1, <2>1, <2>2, <2>3, <2>4, <2>6, <2>7 DEF PlayTypeOK, FiguresTyped, PlayedInv
<1> QED
  BY <1>1, PlayedInvariance, PTL DEF Provisioned

\* For any workload, any speeds and any number of runs, whatever is clicked between
\* frames: the drive on display has been served the operations up to opIdx, once
\* each and no other run's, every read finds the last write, and a run that
\* completes leaves all of them in NAND.
THEOREM WorkloadAlwaysPlayed ==
  ASSUME OverProvisioned, Blank \notin Data
  PROVE  PlaySpec => []WorkloadPlayed
<1>1. ASSUME PlayedInv PROVE WorkloadPlayed
  <2>1. FiguresInv /\ PageInv /\ CtrlInv
    BY <1>1 DEF PlayedInv, FiguresInv, DriveOK, VisInv
  <2>2. EventLoop /\ sim # 0 => stats.logicalWrites + stats.logicalReads = opIdx[sim]
    BY <1>1 DEF PlayedInv, Served
  <2>3. ASSUME status = "Complete", NEW l \in LBA
        PROVE  Store[l] = Final(l)
    <3>1. EventLoop /\ pc = "idle" /\ toNand = <<>> /\ lruList = <<>>
          /\ PlayedUpTo(totalOps) /\ ViewOK
      BY <1>1, <2>1, <2>3, ViewFacts DEF PlayedInv, FiguresInv, PageInv, StepOK
    <3>2. writing = NoWrite
      BY <2>1, <3>1 DEF CtrlInv, IInv, ControlOK, Busy, GCPhases
    <3>3. View(l) = Store[l]
      BY <3>1, <3>2 DEF ViewOK, Versions, InNand, Range
    <3>4. totalOps \in WriteOps .. totalOps
      BY WorkloadFacts, PlaybackAssumption
    <3> QED
      BY <3>1, <3>3, <3>4, LastIsFinal
  <2>4. ASSUME ~ EventLoop, opIdx[current.run] > 0,
               Workload[opIdx[current.run]].type = "R"
        PROVE  answer = Final(Workload[opIdx[current.run]].lba)
    <3>1. current.run = sim /\ sim # 0
      BY <2>1, <2>4 DEF PageInv, StepOK
    <3> QED
      BY <1>1, <2>4, <3>1 DEF PlayedInv
  <2> QED
    BY <2>2, <2>3, <2>4 DEF WorkloadPlayed
<1> QED
  BY <1>1, PlayedInvariance, PTL DEF Provisioned

=============================================================================

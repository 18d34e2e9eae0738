------------------------- MODULE MCVisualizerDrive -------------------------
(***************************************************************************)
(* Instances of VisualizerDrive for TLC.  But for a bound that is out of   *)
(* reach no guard reads the counters, and what a step adds to them depends *)
(* on the rest of the state: states that differ in the counters alone take *)
(* the same steps.  They are one state to these runs, whose properties are *)
(* about steps and about the tables.                                       *)
(***************************************************************************)
EXTENDS VisualizerDrive, TLC

WithoutCounters == <<ctrlVars, ftlRev>>

Symmetry == Permutations(LBA) \cup Permutations(Data)

=============================================================================

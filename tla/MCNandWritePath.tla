-------------------------- MODULE MCNandWritePath --------------------------
(***************************************************************************)
(* Instances of NandWritePath for TLC.  LBAs and data are model values; no *)
(* action treats one of them differently from the others, so the runs that *)
(* check no liveness reduce by their permutations.                         *)
(***************************************************************************)
EXTENDS NandWritePath, TLC

Symmetry == Permutations(LBA) \cup Permutations(Data)

\* GarbageCollector.h: the LBA that findLogicalAddress cannot tell from "none".
LBAsWithSentinel == {NoLBA, 0}


=============================================================================

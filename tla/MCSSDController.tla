-------------------------- MODULE MCSSDController --------------------------
(***************************************************************************)
(* Instances of SSDController for TLC.  LBAs and data are model values, of *)
(* which no action prefers one.                                            *)
(***************************************************************************)
EXTENDS SSDController, TLC

Symmetry == Permutations(LBA) \cup Permutations(Data)

=============================================================================

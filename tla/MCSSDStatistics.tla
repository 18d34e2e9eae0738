-------------------------- MODULE MCSSDStatistics --------------------------
(***************************************************************************)
(* Instances of SSDStatistics for TLC.                                     *)
(***************************************************************************)
EXTENDS SSDStatistics, TLC

Symmetry == Permutations(LBA)

=============================================================================

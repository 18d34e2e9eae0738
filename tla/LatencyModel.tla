---------------------------- MODULE LatencyModel ----------------------------
(***************************************************************************)
(* The timing constants of NAND flash (LatencyModel), in tenths of a       *)
(* microsecond, of which every value in the code is a whole number.        *)
(***************************************************************************)
EXTENDS Naturals

Latency == [dramRead : Nat, pageRead : Nat, pageWrite : Nat, blockErase : Nat]

FaultyTimings(readUs, writeUs, eraseUs) ==
  [dramRead |-> 1, pageRead |-> 10 * readUs, pageWrite |-> 10 * eraseUs,
   blockErase |-> 10 * writeUs]

\* A DRAM access takes 0.1 us whatever the grade.
Timings(readUs, writeUs, eraseUs) ==
  [dramRead |-> 1, pageRead |-> 10 * readUs, pageWrite |-> 10 * writeUs,
   blockErase |-> 10 * eraseUs]

SLC == Timings(50, 500, 2000)
MLC == Timings(70, 1800, 3500)
TLC == Timings(100, 3000, 5000)

=============================================================================

--------------------------- MODULE MCDemoProgram ---------------------------
(***************************************************************************)
(* The demo as it is built, and builds with other constants: fewer cold or *)
(* hot LBAs, other rounds, passes as often as every cycle or as rarely as  *)
(* every eighth.                                                           *)
(***************************************************************************)
EXTENDS DemoProgram

AllBuilds ==
  [COLD_LBAS : {8, 16, 20}, HOT_LBAS : {2, 4}, HOT_ROUNDS : {25, 50, 75},
   STATIC_WL_INTERVAL : {1, 2, 4, 8}]

Lbas == {10 * i : i \in 0 .. 19} \cup {200, 210, 220, 230}

AllData == Lbas \X (0 .. 75)

=============================================================================

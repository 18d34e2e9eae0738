------------------------ MODULE MCVisualizerPlayback ------------------------
(***************************************************************************)
(* Instance of VisualizerPlayback for TLC: the smallest drive and workload *)
(* that the page's sliders can be set to.                                  *)
(***************************************************************************)
EXTENDS VisualizerPlayback, TLC

=============================================================================

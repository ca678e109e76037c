---------------------------- MODULE MCFrameHold ----------------------------
(* The script alone, for the request that overlaps the frame. *)
EXTENDS FrameHold
=============================================================================

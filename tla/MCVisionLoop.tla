---------------------------- MODULE MCVisionLoop ----------------------------
(* A small instance of VisionLoop for TLC. *)
EXTENDS VisionLoop

=============================================================================

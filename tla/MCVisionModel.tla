--------------------------- MODULE MCVisionModel ---------------------------
(* Small instances of VisionModel for TLC. *)
EXTENDS VisionModel

CONSTANTS plain, bare, unfit
=============================================================================

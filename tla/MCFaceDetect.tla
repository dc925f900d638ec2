---------------------------- MODULE MCFaceDetect ----------------------------
(* A small instance of FaceDetect for TLC. *)
EXTENDS FaceDetect

CONSTANTS t0, t1, t2
=============================================================================

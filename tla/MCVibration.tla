---------------------------- MODULE MCVibration ----------------------------
(* Small instances of Vibration for TLC. *)
EXTENDS Vibration

(* Below the noise floor, and between it and thresh_warn. *)
SomeThresholds == {1, 3}
SomeClasses == {"balanced", "both"}
SomeLevels == {0, 3, 4, 5}
=============================================================================

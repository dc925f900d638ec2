----------------------------- MODULE MCGateway -----------------------------
(* Small instances of Gateway for TLC. *)
EXTENDS Gateway, TLC

CONSTANTS r1, r2, r3

AnyRecord == Permutations(Records)

FoundBlank == {Blank}
NoFaults == {}
PowerAndRead == {"power", "read_io"}

(* The uplink fails only while the loop sleeps ... *)
BetweenTicks == {"sleep"}
(* ... or anywhere. *)
Anywhere == Pcs
(* ... or anywhere once main() has reached its loop. *)
InTheLoop == Pcs \ {"off", "bringup", "exited"}
=============================================================================

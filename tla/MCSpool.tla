------------------------------ MODULE MCSpool ------------------------------
(* Small instances of Spool for TLC. *)
EXTENDS SpoolRefinement, TLC

CONSTANTS r1, r2, r3, r4, r5

(* Records differ only in name, and each is pushed at most once. *)
AnyRecord == Permutations(Records)

(* A region that was never a spool ... *)
FoundBlank == {Blank}

(* ... and one where an earlier firmware left a slot in another place. *)
FoundStale == {Blank, Rec(1, Corrupt)}

PowerAndIo == {"power", "push_io", "commit_io", "read_io"}
ReadWipeFlushIo == {"read_io", "wipe_io", "sync_io"}
PushIo == {"push_io"}
WipeIo == {"wipe_io"}
FlushIo == {"sync_io", "power"}
PowerOnly == {"power"}
=============================================================================

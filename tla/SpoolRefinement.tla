-------------------------- MODULE SpoolRefinement --------------------------
(***************************************************************************)
(* The spool implements DurableQueue: the abstract queue is the records    *)
(* spooled and not released, in the order of their sequence numbers.       *)
(***************************************************************************)
EXTENDS Spool, Sequences

(* The elements of S that the numbers of at put no later than r ... *)
UpTo(S, at, r) == {q \in S : at[q] <= at[r]}

(* ... and S in the order of these numbers: the i-th is the one with i up to it. *)
InOrder(S, at) ==
    [i \in 1 .. Cardinality(S) |-> CHOOSE r \in S : Cardinality(UpTo(S, at, r)) = i]

SpooledInOrder == InOrder(Queued, seqno)

Abstract == INSTANCE DurableQueue WITH Capacity <- NSLOTS, queue <- SpooledInOrder

(* The drain is oldest-first ("on reconnect the main loop drains           *)
(* oldest-first", spool.h 15-17), eviction takes the oldest, and restarts  *)
(* neither lose, duplicate nor reorder a record: every step of the spool   *)
(* is a step of DurableQueue or leaves its queue alone.                    *)
ImplementsDurableQueue == Abstract!Spec
=============================================================================

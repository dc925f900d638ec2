---------------------------- MODULE DurableQueue ----------------------------
(***************************************************************************)
(* What the spool promises the gateway: a queue of records that no restart *)
(* reorders, duplicates or loses.  It gives up records only from its front *)
(* - delivered, or pushed out by a newer record - or all of them at once,  *)
(* when it is cleared.  Restarts do not appear: they change nothing.       *)
(***************************************************************************)
EXTENDS Naturals, Sequences

CONSTANTS Capacity, Records

VARIABLE queue

Init == queue = <<>>

Append_(r) ==
    /\ Len(queue) < Capacity
    /\ queue' = Append(queue, r)

(* The newest data wins. *)
AppendEvicting(r) ==
    /\ queue # <<>>
    /\ queue' = Append(Tail(queue), r)

RemoveOldest ==
    /\ queue # <<>>
    /\ queue' = Tail(queue)

Clear == queue' = <<>>

Next ==
    \/ \E r \in Records : Append_(r) \/ AppendEvicting(r)
    \/ RemoveOldest
    \/ Clear

Spec == Init /\ [][Next]_queue
=============================================================================

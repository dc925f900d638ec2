----------------------------- MODULE LossyLine -----------------------------
(***************************************************************************)
(* What a UART link promises the main loop: each line a source prints ends *)
(* up whole in the queue, or nowhere, or - only when the wire lost bytes - *)
(* as one garbled entry.                                                   *)
(***************************************************************************)
EXTENDS Sequences

CONSTANTS Lines, Garbled, None

VARIABLES pending, damaged, queue

Init == pending = None /\ damaged = FALSE /\ queue = <<>>

Send(l) ==
    /\ pending = None
    /\ pending' = l
    /\ UNCHANGED <<damaged, queue>>

Damage ==
    /\ damaged' = TRUE
    /\ pending' \in {pending, None}
    /\ UNCHANGED queue

Receivable == {pending} \cup (IF damaged THEN {Garbled} ELSE {})

EndOfLine ==
    /\ pending' = None
    /\ damaged' = FALSE
    /\ \/ UNCHANGED queue
       \/ /\ pending # None
          /\ \E x \in Receivable : queue' = Append(queue, x)

Receive ==
    /\ queue # <<>>
    /\ queue' = Tail(queue)
    /\ UNCHANGED <<pending, damaged>>

Next == (\E l \in Lines : Send(l)) \/ Damage \/ EndOfLine \/ Receive

Spec == Init /\ [][Next]_<<pending, damaged, queue>>
=============================================================================

--------------------------- MODULE MCModelUpdate ---------------------------
(* A small instance of ModelUpdate for TLC: the whole of one model and     *)
(* the header of the other, chunk by chunk; either as a one-shot push.     *)
EXTENDS ModelUpdate

CONSTANTS ambient, comfort

Sent == {<<ambient, 1>>, <<comfort, 1>>, <<comfort, 2>>, <<comfort, 3>>}
=============================================================================

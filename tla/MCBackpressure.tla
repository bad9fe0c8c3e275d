--------------------------- MODULE MCBackpressure ---------------------------
(* One client that goes on reading and one that may stall for ever. *)
EXTENDS Backpressure

CONSTANTS p1, p2

=============================================================================

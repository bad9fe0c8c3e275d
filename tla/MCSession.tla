------------------------------ MODULE MCSession ------------------------------
(* A session of three participants with a small counter as its activity. *)
EXTENDS CounterSession, TLC

MCSymmetry == Permutations(Participants)

=============================================================================

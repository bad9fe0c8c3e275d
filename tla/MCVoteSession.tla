---------------------------- MODULE MCVoteSession ----------------------------
(* A small vote session for TLC. *)
EXTENDS VoteSession, TLC

\* " a " trims to "a", "  " to "".
MCTexts == {"a", " a ", "b", "  ", ""}
MCTrim(t) == CASE t = " a " -> "a" [] t = "  " -> "" [] OTHER -> t

\* Nobody sends the empty text itself: "  " stands for every blank text.
MCPayloads ==
  {c \in VoteCommands :
     /\ c.type = "open" => \A i \in DOMAIN c.options : c.options[i] # EmptyText
     /\ c.type = "submit_choice" => c.choice # EmptyText}

MCSymmetry == Permutations(Participants)

=============================================================================

---------------------------- MODULE CanonicalLog ----------------------------
(***************************************************************************)
(* What the host promises, without a word about files, locks or crashes:   *)
(* one log of numbered, uniquely identified events that only grows, and    *)
(* one final answer per accepted message id, which is part of that log.    *)
(***************************************************************************)
EXTENDS Naturals, Sequences

VARIABLES
  log,      \* the canonical events
  answers   \* message id -> the events it was answered with

IsValidLog(l) ==
  /\ \A i \in DOMAIN l : l[i].sequence = i
  /\ \A i, j \in DOMAIN l : l[i].event_id = l[j].event_id => i = j

\* Batch b is a run of consecutive events of l.
IsSegment(b, l) ==
  \E n \in 0..Len(l) : /\ n + Len(b) <= Len(l)
                       /\ \A i \in DOMAIN b : l[n + i] = b[i]

Init == IsValidLog(log) /\ answers = <<>>

\* Answers are added, never changed, and only from the log.
AnswersGrow ==
  /\ \A m \in DOMAIN answers : m \in DOMAIN answers' /\ answers'[m] = answers[m]
  /\ \A m \in DOMAIN answers' : IsSegment(answers'[m], log')

\* Events become canonical, at once with their answer or before it.
Publish ==
  /\ Len(log) < Len(log')
  /\ SubSeq(log', 1, Len(log)) = log
  /\ IsValidLog(log')
  /\ AnswersGrow

\* Answers of events that are canonical already are given.
Reveal == log' = log /\ AnswersGrow

Next == Publish \/ Reveal

Spec == Init /\ [][Next]_<<log, answers>>

=============================================================================

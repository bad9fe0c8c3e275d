---------------------------- MODULE VoteActivity ----------------------------
(***************************************************************************)
(* The vote activity (crate sytog-demo-vote): an ActivityEngine given as   *)
(* the operators the runtime's Engine* constants stand for.                *)
(*                                                                         *)
(* A text is a member of Texts; Trim says which text str::trim makes of    *)
(* it, so that an untrimmed option and its trimmed form are different      *)
(* texts, and a blank one trims to EmptyText.                              *)
(***************************************************************************)
EXTENDS Naturals, Sequences, FiniteSets

CONSTANTS
  Voters,       \* the ParticipantId values
  NoModerator,  \* None of VoteState::moderator
  NoResult,     \* None of VoteState::result
  Texts,        \* option and choice strings
  EmptyText,    \* ""
  Trim(_),      \* str::trim
  MaxOptions    \* longest list of options a command carries (a bound)

ASSUME TrimAssumption ==
  /\ EmptyText \in Texts
  /\ \A t \in Texts : Trim(t) \in Texts /\ Trim(Trim(t)) = Trim(t)

ASSUME MaxOptionsAssumption == MaxOptions \in Nat

Options == {t \in Texts : Trim(t) = t /\ t # EmptyText}

\* The lists open_vote stores: at least two distinct normalized options.
Ballots ==
  {b \in UNION {[1..n -> Options] : n \in 2..MaxOptions} :
     \A i, j \in DOMAIN b : b[i] = b[j] => i = j}

Votes == UNION {[v -> Options] : v \in SUBSET Voters}

ASSUME NoResultAssumption ==
  \A o \in SUBSET Options : NoResult \notin [o -> Nat]

VoteStates ==
  [phase : {"draft", "open", "closed"},
   moderator : Voters \cup {NoModerator},
   options : Ballots \cup {<<>>},
   votes : Votes,
   result : UNION {[o -> 0..Cardinality(Voters)] : o \in SUBSET Options}
              \cup {NoResult}]

\* "invalid" stands for a payload that does not parse as a VoteCommand.
VoteCommands ==
  [type : {"open"}, options : UNION {[1..n -> Texts] : n \in 0..MaxOptions}]
  \cup [type : {"submit_choice"}, choice : Texts]
  \cup [type : {"close", "invalid"}]

VoteInitialState ==
  [phase |-> "draft", moderator |-> NoModerator, options |-> <<>>,
   votes |-> <<>>, result |-> NoResult]

-----------------------------------------------------------------------------

Normalized(options) == [i \in DOMAIN options |-> Trim(options[i])]

CanOpen(v, options) ==
  LET normalized == Normalized(options) IN
  /\ v.phase = "draft"
  /\ \A i \in DOMAIN options : normalized[i] # EmptyText
  /\ \A i, j \in DOMAIN options : normalized[i] = normalized[j] => i = j
  /\ Len(options) >= 2

OpenVote(actor, v, options) ==
  [v EXCEPT !.phase = "open", !.moderator = actor,
            !.options = Normalized(options)]

\* Mutant: a ballot is taken before the vote is open and has options.
MutSubmitInAdvance(actor, v, choice) ==
  v.phase # "closed" /\ choice \in Options /\ actor \notin DOMAIN v.votes

\* Mutant: a participant may vote again.
MutSubmitAgain(actor, v, choice) ==
  v.phase = "open" /\ \E i \in DOMAIN v.options : v.options[i] = choice

CanSubmitChoice(actor, v, choice) ==
  /\ v.phase = "open"
  /\ \E i \in DOMAIN v.options : v.options[i] = choice
  /\ actor \notin DOMAIN v.votes

SubmitChoice(actor, v, choice) ==
  [v EXCEPT !.votes = [p \in DOMAIN v.votes \cup {actor} |->
                         IF p = actor THEN choice ELSE v.votes[p]]]

CanClose(actor, v) == v.phase = "open" /\ v.moderator = actor

\* Mutant: the moderator's own vote is not counted.
MutTallyWithoutModerator(v) ==
  [o \in {v.options[i] : i \in DOMAIN v.options} |->
     Cardinality({p \in DOMAIN v.votes \ {v.moderator} : v.votes[p] = o})]

\* One count per option, zero included.
Tally(v) ==
  [o \in {v.options[i] : i \in DOMAIN v.options} |->
     Cardinality({p \in DOMAIN v.votes : v.votes[p] = o})]

CloseVote(v) == [v EXCEPT !.phase = "closed", !.result = Tally(v)]

-----------------------------------------------------------------------------

VoteAccepts(actor, v, c) ==
  \/ c.type = "open" /\ CanOpen(v, c.options)
  \/ c.type = "submit_choice" /\ CanSubmitChoice(actor, v, c.choice)
  \/ c.type = "close" /\ CanClose(actor, v)

VoteResult(actor, v, c) ==
  CASE c.type = "open"          -> OpenVote(actor, v, c.options)
    [] c.type = "submit_choice" -> SubmitChoice(actor, v, c.choice)
    [] c.type = "close"         -> CloseVote(v)

=============================================================================

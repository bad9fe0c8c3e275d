----------------------------- MODULE VoteSession -----------------------------
(***************************************************************************)
(* A session whose activity engine is the vote: what the vote promises     *)
(* through every command a session accepts, changes of authority included. *)
(***************************************************************************)
EXTENDS Session, VoteActivity

\* The runtime's engine is the vote.
ASSUME VoteEngineAssumption ==
  /\ Voters = Participants
  /\ ActivityStates = VoteStates
  /\ ActivityPayloads \subseteq VoteCommands
  /\ EngineInitialState = VoteInitialState
  /\ \A p \in Voters, v \in VoteStates, c \in ActivityPayloads :
       EngineAccepts(p, v, c) =>
         VoteAccepts(p, v, c) /\ EngineResult(p, v, c) = VoteResult(p, v, c)

\* The vote on the table, when there is one.
Vote == state.activity.state

OptionSet(v) == {v.options[i] : i \in DOMAIN v.options}

\* Only participants of the session have voted, each for one of the options on
\* the table, and a vote that was opened has at least two different options.
BallotsAreValid ==
  state.activity # NoActivity =>
    /\ DOMAIN Vote.votes \subseteq state.participants
    /\ \A p \in DOMAIN Vote.votes : Vote.votes[p] \in OptionSet(Vote)
    /\ Vote.phase # "draft" =>
         /\ Cardinality(OptionSet(Vote)) = Len(Vote.options)
         /\ Cardinality(OptionSet(Vote)) >= 2
         /\ \A o \in OptionSet(Vote) : Trim(o) = o /\ o # EmptyText

\* The counts of the first n options of a closed vote, added up.
CountedUpTo(v) ==
  LET sum[n \in 0..Len(v.options)] ==
        IF n = 0 THEN 0 ELSE sum[n - 1] + v.result[v.options[n]]
  IN  sum

\* The published result accounts for every vote: exactly when the vote is closed
\* there is a result, it has one entry per option on the table, an option has a
\* count above zero exactly when somebody chose it, and the counts add up to the
\* number of participants who voted.
ResultCountsEveryVote ==
  state.activity # NoActivity =>
    /\ Vote.phase = "closed" <=> Vote.result # NoResult
    /\ Vote.phase = "closed" =>
         /\ DOMAIN Vote.result = OptionSet(Vote)
         /\ \A o \in OptionSet(Vote) :
              Vote.result[o] > 0 <=> \E p \in DOMAIN Vote.votes : Vote.votes[p] = o
         /\ CountedUpTo(Vote)[Len(Vote.options)] = Cardinality(DOMAIN Vote.votes)

\* While one activity runs, a vote cast is never changed or withdrawn, the
\* options and the moderator never change once the vote is open (an authority
\* transfer included), and a closed vote stays exactly as it is.
VotesAreFinal ==
  [][(/\ state.activity # NoActivity
      /\ state'.activity # NoActivity
      /\ Len(log') > Len(log))
       => LET v == state.activity.state
              w == state'.activity.state
          IN  /\ DOMAIN v.votes \subseteq DOMAIN w.votes
              /\ \A p \in DOMAIN v.votes : w.votes[p] = v.votes[p]
              /\ v.phase # "draft" =>
                   w.options = v.options /\ w.moderator = v.moderator
              /\ v.phase = "closed" => w = v]_vars

=============================================================================

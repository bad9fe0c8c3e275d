----------------------------- MODULE VoteProofs -----------------------------
(***************************************************************************)
(* The vote of a session, for every number of participants and options.    *)
(*                                                                         *)
(* The engine's transitions are looked at once, on the vote alone (lemma   *)
(* VoteStep); the session contributes that nothing else touches the state  *)
(* of a running activity (DecidedActivity).                                *)
(***************************************************************************)
EXTENDS VoteSession, SessionProofs

\* What holds of the vote itself, whoever runs it.
ValidVote(v) ==
  /\ IsFiniteSet(DOMAIN v.votes)
  /\ v.phase = "draft" => v.options = <<>> /\ DOMAIN v.votes = {}
  /\ v.phase # "draft" => v.options \in Ballots
  /\ \A p \in DOMAIN v.votes : v.votes[p] \in OptionSet(v)
  /\ v.phase = "closed" => v.result = Tally(v)
  /\ v.phase # "closed" => v.result = NoResult

\* What a later vote w owes an earlier vote v.
KeepsVotes(v, w) ==
  /\ DOMAIN v.votes \subseteq DOMAIN w.votes
  /\ \A p \in DOMAIN v.votes : w.votes[p] = v.votes[p]
  /\ v.phase # "draft" => w.options = v.options /\ w.moderator = v.moderator
  /\ v.phase = "closed" => w = v

\* The vote an activity starts with.
LEMMA InitialVote == ValidVote(VoteInitialState) /\ DOMAIN VoteInitialState.votes = {}
<1>1. DOMAIN VoteInitialState.votes = {}
  BY DEF VoteInitialState
<1> QED
  BY <1>1, FS_EmptySet DEF ValidVote, VoteInitialState

\* Every command the engine accepts keeps the vote valid, adds at most the vote of
\* the one who asked, and takes nothing back.
LEMMA VoteStep ==
  ASSUME NEW v \in VoteStates, NEW p \in Voters, NEW c \in VoteCommands,
         NEW w \in VoteStates, ValidVote(v), VoteAccepts(p, v, c),
         w = VoteResult(p, v, c)
  PROVE  /\ ValidVote(w)
         /\ DOMAIN w.votes \subseteq DOMAIN v.votes \cup {p}
         /\ KeepsVotes(v, w)
<1>1. CASE c.type = "open"
  <2>1. CanOpen(v, c.options) /\ w = OpenVote(p, v, c.options)
    BY <1>1 DEF VoteAccepts, VoteResult
  <2>2. /\ w.phase = "open" /\ w.options = Normalized(c.options)
        /\ w.votes = v.votes /\ w.result = v.result
    BY <2>1 DEF OpenVote, VoteStates
  <2>3. v.phase = "draft" /\ DOMAIN v.votes = {} /\ v.result = NoResult
    BY <2>1 DEF CanOpen, ValidVote
  <2>4. w.options \in Ballots
    <3>1. w.options \in Ballots \cup {<<>>}
      BY DEF VoteStates
    <3>2. PICK n \in 0..MaxOptions : c.options \in [1..n -> Texts]
      BY <1>1 DEF VoteCommands
    <3>3. DOMAIN w.options = 1..n /\ n >= 2
      BY <2>1, <2>2, <3>2, MaxOptionsAssumption DEF Normalized, CanOpen
    <3>4. w.options # <<>>
      BY <3>3
    <3> QED
      BY <3>1, <3>4
  <2> QED
    BY <2>2, <2>3, <2>4 DEF ValidVote, KeepsVotes
<1>2. CASE c.type = "submit_choice"
  <2>1. CanSubmitChoice(p, v, c.choice) /\ w = SubmitChoice(p, v, c.choice)
    BY <1>2 DEF VoteAccepts, VoteResult
  <2>2. /\ w.phase = v.phase /\ w.options = v.options /\ w.result = v.result
        /\ w.moderator = v.moderator
        /\ w.votes = [q \in DOMAIN v.votes \cup {p} |->
                        IF q = p THEN c.choice ELSE v.votes[q]]
    BY <2>1 DEF SubmitChoice, VoteStates
  <2>3. /\ v.phase = "open" /\ p \notin DOMAIN v.votes
        /\ c.choice \in OptionSet(v)
    BY <2>1 DEF CanSubmitChoice, OptionSet
  <2>4. DOMAIN w.votes = DOMAIN v.votes \cup {p}
    BY <2>2
  <2>5. IsFiniteSet(DOMAIN w.votes)
    BY <2>4, FS_AddElement DEF ValidVote
  <2>6. OptionSet(w) = OptionSet(v)
    BY <2>2 DEF OptionSet
  <2>7. \A q \in DOMAIN w.votes : w.votes[q] \in OptionSet(w)
    BY <2>2, <2>3, <2>4, <2>6 DEF ValidVote
  <2>8. \A q \in DOMAIN v.votes : w.votes[q] = v.votes[q]
    BY <2>2, <2>3
  <2> QED
    BY <2>2, <2>3, <2>4, <2>5, <2>7, <2>8 DEF ValidVote, KeepsVotes
<1>3. CASE c.type = "close"
  <2>1. CanClose(p, v) /\ w = CloseVote(v)
    BY <1>3 DEF VoteAccepts, VoteResult
  <2>2. /\ w.phase = "closed" /\ w.options = v.options /\ w.result = Tally(v)
        /\ w.moderator = v.moderator /\ w.votes = v.votes
    BY <2>1 DEF CloseVote, VoteStates
  <2>3. v.phase = "open"
    BY <2>1 DEF CanClose
  <2>4. Tally(w) = Tally(v) /\ OptionSet(w) = OptionSet(v)
    BY <2>2 DEF Tally, OptionSet
  <2> QED
    BY <2>2, <2>3, <2>4 DEF ValidVote, KeepsVotes
<1> QED
  BY <1>1, <1>2, <1>3 DEF VoteAccepts

-----------------------------------------------------------------------------

\* The inductive invariant.
VoteInv ==
  state.activity # NoActivity =>
    ValidVote(Vote) /\ DOMAIN Vote.votes \subseteq state.participants

\* A step of the session, seen from the vote: none before, or the same activity
\* with a vote that keeps what the earlier one held.
LEMMA VoteInvStep ==
  ASSUME SessionInv, VoteInv, [Next]_vars
  PROVE  /\ VoteInv'
         /\ (state.activity # NoActivity /\ state'.activity # NoActivity)
              => KeepsVotes(Vote, Vote')
<1>1. CASE UNCHANGED <<state, log>>
  BY <1>1 DEF VoteInv, KeepsVotes, Vote
<1>2. ASSUME NEW r \in CommandRequests, NEW engine \in BOOLEAN,
             Accepted(state, r, engine), state' = Apply(state, DecidedEvent(state, r)),
             state'.activity # NoActivity
      PROVE  /\ ValidVote(Vote') /\ DOMAIN Vote'.votes \subseteq state'.participants
             /\ state.activity # NoActivity => KeepsVotes(Vote, Vote')
  <2>1. state \in SessionStates /\ Consistent(state) /\ state' \in SessionStates
    BY NextInv DEF SessionInv, TypeOK, SessionConsistent
  <2>2. Vote' \in VoteStates
    BY <1>2, <2>1, VoteEngineAssumption DEF SessionStates, ActiveActivities, Vote
  <2>3. Vote' = state'.activity.state
    BY DEF Vote
  <2>4. CASE /\ state.activity = NoActivity
             /\ state'.activity.state = EngineInitialState
             /\ state'.participants = state.participants
    BY <2>3, <2>4, InitialVote, VoteEngineAssumption
  <2>5. CASE /\ state.activity # NoActivity /\ state.activity.state \in ActivityStates
             /\ r.actor \in state.participants /\ r.command.payload \in ActivityPayloads
             /\ EngineAccepts(r.actor, state.activity.state, r.command.payload)
             /\ state'.activity.state
                  = EngineResult(r.actor, state.activity.state, r.command.payload)
             /\ state'.participants = state.participants
    <3> DEFINE c == r.command.payload
    <3>1. r.actor \in Voters /\ c \in VoteCommands /\ Vote \in VoteStates
      BY <2>5, VoteEngineAssumption DEF CommandRequests, Vote
    <3>2. VoteAccepts(r.actor, Vote, c) /\ Vote' = VoteResult(r.actor, Vote, c)
      BY <2>3, <2>5, <3>1, VoteEngineAssumption DEF Vote
    <3>3. ValidVote(Vote) /\ DOMAIN Vote.votes \subseteq state.participants
      BY <2>5 DEF VoteInv
    <3>4. /\ ValidVote(Vote')
          /\ DOMAIN Vote'.votes \subseteq DOMAIN Vote.votes \cup {r.actor}
          /\ KeepsVotes(Vote, Vote')
      BY <2>2, <3>1, <3>2, <3>3, VoteStep
    <3> QED
      BY <2>5, <3>3, <3>4
  <2>6. CASE /\ state.activity # NoActivity /\ state'.activity = state.activity
             /\ state.participants \subseteq state'.participants
    <3>1. Vote' = Vote
      BY <2>6 DEF Vote
    <3> QED
      BY <2>6, <3>1 DEF VoteInv, KeepsVotes
  <2> QED
    BY <1>2, <2>1, <2>4, <2>5, <2>6, DecidedActivity
<1> QED
  BY <1>1, <1>2, StepAppends DEF VoteInv

\* The vote is valid and only participants have voted, in every session.
LEMMA VoteInvariant == Spec => [](SessionInv /\ VoteInv)
<1>1. Init => VoteInv
  BY DEF Init, Uninitialized, VoteInv
<1>2. SessionInv /\ VoteInv /\ [Next]_vars => VoteInv'
  BY VoteInvStep
<1> QED
  BY <1>1, <1>2, InitInv, NextInv, PTL DEF Spec

\* The options of a ballot are as many as its places.
LEMMA BallotOptions ==
  ASSUME NEW v, v.options \in Ballots
  PROVE  /\ Len(v.options) \in Nat /\ Len(v.options) >= 2
         /\ DOMAIN v.options = 1..Len(v.options)
         /\ IsFiniteSet(OptionSet(v))
         /\ Cardinality(OptionSet(v)) = Len(v.options)
         /\ \A o \in OptionSet(v) : Trim(o) = o /\ o # EmptyText
         /\ \A i, j \in DOMAIN v.options : v.options[i] = v.options[j] => i = j
<1> DEFINE b == v.options
<1>1. PICK n \in 2..MaxOptions : b \in [1..n -> Options]
  BY DEF Ballots
<1>2. n \in Nat /\ n >= 2 /\ Len(b) = n /\ DOMAIN b = 1..n
  BY <1>1, MaxOptionsAssumption
<1>3. \A i, j \in DOMAIN b : b[i] = b[j] => i = j
  BY DEF Ballots
<1>4. b \in Bijection(1..n, OptionSet(v))
  BY <1>1, <1>2, <1>3 DEF Bijection, Injection, Surjection, IsInjective, OptionSet
<1>5. Cardinality(OptionSet(v)) = n /\ IsFiniteSet(OptionSet(v))
  <2>1. ExistsBijection(1..n, OptionSet(v))
    BY <1>4 DEF ExistsBijection
  <2>2. IsFiniteSet(1..n) /\ Cardinality(1..n) = n
    BY <1>2, FS_Interval
  <2> QED
    BY <1>2, <2>1, <2>2, FS_Bijection
<1>6. \A o \in OptionSet(v) : o \in Options
  BY <1>1, <1>2 DEF OptionSet
<1> QED
  BY <1>2, <1>3, <1>5, <1>6 DEF Options

\* Only participants vote, each for an option on the table, and an opened vote
\* has at least two different, non-blank options.
THEOREM BallotsStayValid == Spec => []BallotsAreValid
<1>1. VoteInv => BallotsAreValid
  <2> SUFFICES ASSUME VoteInv, state.activity # NoActivity
               PROVE  BallotsAreValid
    BY DEF BallotsAreValid
  <2>1. ValidVote(Vote) /\ DOMAIN Vote.votes \subseteq state.participants
    BY DEF VoteInv
  <2>2. CASE Vote.phase = "draft"
    BY <2>1, <2>2 DEF BallotsAreValid, ValidVote
  <2>3. CASE Vote.phase # "draft"
    <3>1. Vote.options \in Ballots
      BY <2>1, <2>3 DEF ValidVote
    <3>2. /\ Cardinality(OptionSet(Vote)) = Len(Vote.options)
          /\ Cardinality(OptionSet(Vote)) >= 2
          /\ \A o \in OptionSet(Vote) : Trim(o) = o /\ o # EmptyText
      BY <3>1, BallotOptions
    <3> QED
      BY <2>1, <3>2 DEF BallotsAreValid, ValidVote
  <2> QED
    BY <2>2, <2>3
<1> QED
  BY <1>1, VoteInvariant, PTL

\* While an activity runs, nothing that was voted is changed or withdrawn.
THEOREM VotesStayFinal == Spec => VotesAreFinal
<1> DEFINE Final == (/\ state.activity # NoActivity
                     /\ state'.activity # NoActivity
                     /\ Len(log') > Len(log))
                    => LET v == state.activity.state
                           w == state'.activity.state
                       IN  /\ DOMAIN v.votes \subseteq DOMAIN w.votes
                           /\ \A p \in DOMAIN v.votes : w.votes[p] = v.votes[p]
                           /\ v.phase # "draft" =>
                                w.options = v.options /\ w.moderator = v.moderator
                           /\ v.phase = "closed" => w = v
<1>1. SessionInv /\ VoteInv /\ [Next]_vars => [Final]_vars
  BY VoteInvStep DEF KeepsVotes, Vote
<1> QED
  BY <1>1, VoteInvariant, PTL DEF Spec, VotesAreFinal

-----------------------------------------------------------------------------
\* The sum of the counts.

\* g holds the sums of the first 0, 1 .. n counts.
IsCount(g, v, n) ==
  g = [i \in 0..n |-> IF i = 0 THEN 0 ELSE g[i - 1] + v.result[v.options[i]]]

\* The same, value by value.
LEMMA CountValues ==
  ASSUME NEW g, NEW v, NEW n \in Nat, IsCount(g, v, n)
  PROVE  /\ g[0] = 0
         /\ \A i \in 1..n : g[i] = g[i - 1] + v.result[v.options[i]]
<1> DEFINE h(i) == IF i = 0 THEN 0 ELSE g[i - 1] + v.result[v.options[i]]
<1>1. g = [i \in 0..n |-> h(i)]
  BY DEF IsCount
<1> HIDE DEF h
<1>2. \A i \in 0..n : g[i] = h(i)
  BY <1>1
<1>3. 0 \in 0..n /\ \A i \in 1..n : i \in 0..n /\ i # 0
  OBVIOUS
<1> QED
  BY <1>2, <1>3 DEF h

\* The sums can be computed one after the other.
LEMMA CountExists ==
  ASSUME NEW v, NEW n \in Nat
  PROVE  \E g : IsCount(g, v, n)
<1> DEFINE S == {k \in Nat : \E g : IsCount(g, v, k)}
<1>1. 0 \in S
  <2> DEFINE g0 == [i \in 0..0 |-> 0]
  <2>1. IsCount(g0, v, 0)
    BY DEF IsCount
  <2> QED
    BY <2>1
<1>2. ASSUME NEW k \in Nat, k \in S PROVE k + 1 \in S
  <2>1. PICK g : IsCount(g, v, k)
    BY <1>2
  <2>2. /\ g[0] = 0
        /\ \A i \in 1..k : g[i] = g[i - 1] + v.result[v.options[i]]
    BY <2>1, CountValues
  <2> DEFINE f == [i \in 0..(k + 1) |->
                     IF i <= k THEN g[i] ELSE g[k] + v.result[v.options[k + 1]]]
             h(i) == IF i = 0 THEN 0 ELSE f[i - 1] + v.result[v.options[i]]
  <2>3. ASSUME NEW i \in 0..(k + 1) PROVE f[i] = h(i)
    <3>1. CASE i = 0
      BY <2>2, <3>1
    <3>2. CASE i > 0 /\ i <= k
      <4>1. f[i] = g[i] /\ f[i - 1] = g[i - 1] /\ i \in 1..k
        BY <3>2
      <4> QED
        BY <2>2, <3>2, <4>1
    <3>3. CASE i = k + 1
      BY <3>3
    <3> QED
      BY <3>1, <3>2, <3>3
  <2>4. f = [i \in 0..(k + 1) |-> h(i)]
    <3> HIDE DEF h
    <3> QED
      BY <2>3
  <2>5. IsCount(f, v, k + 1)
    BY <2>4 DEF IsCount
  <2> HIDE DEF f
  <2> QED
    BY <2>5
<1> HIDE DEF S
<1>3. Nat \subseteq S
  BY <1>1, <1>2, SetInduction
<1> QED
  BY <1>3 DEF S

\* Those who voted for one of the first n options.
VotersFor(v, n) == {p \in DOMAIN v.votes : \E i \in 1..n : v.votes[p] = v.options[i]}

\* The counts of the first n options add up to the number of those who voted for
\* one of them: nobody is counted for two options.
LEMMA CountedVoters ==
  ASSUME NEW v, v.options \in Ballots, IsFiniteSet(DOMAIN v.votes), v.result = Tally(v)
  PROVE  \A n \in 0..Len(v.options) : CountedUpTo(v)[n] = Cardinality(VotersFor(v, n))
<1> DEFINE m == Len(v.options)
           sum == CountedUpTo(v)
           S == {k \in Nat : k <= m => sum[k] = Cardinality(VotersFor(v, k))}
<1>1. /\ m \in Nat /\ DOMAIN v.options = 1..m
      /\ \A i, j \in DOMAIN v.options : v.options[i] = v.options[j] => i = j
  BY BallotOptions
<1>2. IsCount(sum, v, m)
  <2>1. \E g : IsCount(g, v, m)
    BY <1>1, CountExists
  <2>2. sum = CHOOSE g : IsCount(g, v, m)
    BY DEF CountedUpTo, IsCount
  <2> QED
    BY <2>1, <2>2
<1> HIDE DEF sum
<1>3. sum[0] = 0 /\ \A i \in 1..m : sum[i] = sum[i - 1] + v.result[v.options[i]]
  BY <1>1, <1>2, CountValues
<1>4. 0 \in S
  <2>1. VotersFor(v, 0) = {}
    BY DEF VotersFor
  <2> QED
    BY <1>3, <2>1, FS_EmptySet
<1>5. ASSUME NEW k \in Nat, k \in S PROVE k + 1 \in S
  <2> SUFFICES ASSUME k + 1 <= m PROVE sum[k + 1] = Cardinality(VotersFor(v, k + 1))
    OBVIOUS
  <2> DEFINE o == v.options[k + 1]
             A == VotersFor(v, k)
             B == {p \in DOMAIN v.votes : v.votes[p] = o}
  <2>1. k + 1 \in 1..m /\ k + 1 \in DOMAIN v.options /\ sum[k] = Cardinality(A)
    BY <1>1, <1>5
  <2>2. v.result[o] = Cardinality(B)
    <3>1. o \in {v.options[i] : i \in DOMAIN v.options}
      BY <2>1
    <3> QED
      BY <3>1 DEF Tally
  <2>3. VotersFor(v, k + 1) = A \cup B
    BY <1>5 DEF VotersFor
  <2>4. A \cap B = {}
    BY <1>1, <2>1 DEF VotersFor
  <2>5. /\ IsFiniteSet(A) /\ IsFiniteSet(B)
        /\ Cardinality(A) \in Nat /\ Cardinality(B) \in Nat
    <3>1. A \in SUBSET DOMAIN v.votes /\ B \in SUBSET DOMAIN v.votes
      BY DEF VotersFor
    <3>2. IsFiniteSet(A) /\ IsFiniteSet(B)
      BY <3>1, FS_Subset
    <3> QED
      BY <3>2, FS_CardinalityType
  <2>6. Cardinality(A \cup B) = Cardinality(A) + Cardinality(B)
    <3> HIDE DEF A, B
    <3>1. Cardinality(A \cup B)
            = Cardinality(A) + Cardinality(B) - Cardinality(A \cap B)
      BY <2>5, FS_Union
    <3>2. Cardinality(A \cap B) = 0
      BY <2>4, FS_EmptySet
    <3> QED
      BY <2>5, <3>1, <3>2
  <2>7. sum[k + 1] = sum[k] + v.result[o]
    BY <1>3, <2>1
  <2> QED
    BY <2>1, <2>2, <2>3, <2>6, <2>7
<1> HIDE DEF S
<1>6. Nat \subseteq S
  BY <1>4, <1>5, SetInduction
<1>7. \A n \in 0..m : sum[n] = Cardinality(VotersFor(v, n))
  BY <1>1, <1>6 DEF S
<1> QED
  BY <1>7 DEF sum

\* The published result accounts for every vote, whatever the number of voters
\* and options.
THEOREM ResultCountsAll == Spec => []ResultCountsEveryVote
<1>1. VoteInv => ResultCountsEveryVote
  <2> SUFFICES ASSUME VoteInv, state.activity # NoActivity
               PROVE  ResultCountsEveryVote
    BY DEF ResultCountsEveryVote
  <2> DEFINE v == Vote
  <2>1. ValidVote(v)
    BY DEF VoteInv
  <2>2. CASE v.phase # "closed"
    BY <2>1, <2>2 DEF ResultCountsEveryVote, ValidVote
  <2>3. CASE v.phase = "closed"
    <3>1. /\ v.options \in Ballots /\ v.result = Tally(v) /\ IsFiniteSet(DOMAIN v.votes)
          /\ \A p \in DOMAIN v.votes : v.votes[p] \in OptionSet(v)
      BY <2>1, <2>3 DEF ValidVote
    <3>2. DOMAIN v.result = OptionSet(v)
      BY <3>1 DEF Tally, OptionSet
    <3>3. ASSUME NEW o \in OptionSet(v)
          PROVE  /\ v.result[o] \in Nat
                 /\ v.result[o] > 0 <=> \E p \in DOMAIN v.votes : v.votes[p] = o
      <4> DEFINE B == {p \in DOMAIN v.votes : v.votes[p] = o}
      <4>1. v.result[o] = Cardinality(B)
        BY <3>1 DEF Tally, OptionSet
      <4>2. IsFiniteSet(B)
        <5>1. B \in SUBSET DOMAIN v.votes
          OBVIOUS
        <5> QED
          BY <3>1, <5>1, FS_Subset
      <4>3. Cardinality(B) \in Nat /\ (Cardinality(B) = 0 <=> B = {})
        BY <4>2, FS_EmptySet, FS_CardinalityType
      <4> QED
        BY <4>1, <4>3
    <3>4. v.result # NoResult
      <4>1. OptionSet(v) \in SUBSET Options
        BY <3>1 DEF Ballots, OptionSet
      <4>2. v.result = [o \in OptionSet(v) |-> v.result[o]]
        BY <3>1, <3>2 DEF Tally, OptionSet
      <4>3. v.result \in [OptionSet(v) -> Nat]
        BY <3>3, <4>2
      <4> QED
        BY <4>1, <4>3, NoResultAssumption
    <3>5. CountedUpTo(v)[Len(v.options)] = Cardinality(DOMAIN v.votes)
      <4>1. /\ Len(v.options) \in 0..Len(v.options)
            /\ DOMAIN v.options = 1..Len(v.options)
        BY <3>1, BallotOptions
      <4>2. VotersFor(v, Len(v.options)) = DOMAIN v.votes
        BY <3>1, <4>1 DEF VotersFor, OptionSet
      <4> QED
        BY <3>1, <4>1, <4>2, CountedVoters
    <3> QED
      BY <2>3, <3>2, <3>3, <3>4, <3>5 DEF ResultCountsEveryVote
  <2> QED
    BY <2>2, <2>3
<1> QED
  BY <1>1, VoteInvariant, PTL

=============================================================================

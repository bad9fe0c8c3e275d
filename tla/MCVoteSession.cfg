SPECIFICATION Spec
CONSTANTS
  p1 = p1
  p2 = p2
  vote = vote
  other = other
  NoParticipant = NoParticipant
  NoActivity = NoActivity
  NoResult = NoResult
  Participants = {p1, p2}
  Voters = {p1, p2}
  NoModerator = NoParticipant
  MessageIds = {"m1"}
  Descriptors = {vote, other}
  EngineDescriptor = vote
  MaxU64 = 8
  MaxOptions = 2
  EmptyText = ""
  Texts <- MCTexts
  Trim <- MCTrim
  ActivityStates <- VoteStates
  ActivityPayloads <- MCPayloads
  EngineInitialState <- VoteInitialState
  EngineAccepts <- VoteAccepts
  EngineResult <- VoteResult
INVARIANTS
  BallotsAreValid
  ResultCountsEveryVote
PROPERTY VotesAreFinal
SYMMETRY MCSymmetry

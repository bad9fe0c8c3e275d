SPECIFICATION Spec
CONSTANTS
  p1 = p1
  p2 = p2
  p3 = p3
  counter = counter
  other = other
  NoParticipant = NoParticipant
  NoActivity = NoActivity
  Participants = {p1, p2, p3}
  MessageIds = {"m1"}
  Descriptors = {counter, other}
  EngineDescriptor = counter
  MaxU64 = 8
  MaxI64 = 2
  ActivityStates <- I64
  EngineInitialState <- CounterInitialState
  ActivityPayloads <- CounterCommands
  EngineAccepts <- CounterAccepts
  EngineResult <- CounterResult
INVARIANTS
  TypeOK
  DecisionsApply
  SessionConsistent
  ActivityRevisionCountsItsEvents
  PrivilegedEventsByHolder
  StateIsWhatTheLogSays
  CounterOnlyClimbs
SYMMETRY MCSymmetry

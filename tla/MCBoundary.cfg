SPECIFICATION Spec
CONSTANTS
  NoRevision = NoRevision
  NoText = NoText
  MaxU64 = 3
  OutgoingMessages <- MCOutgoing
  ForeignFrames <- MCForeign
  MatchRequests <- MCRequests
  Probes <- MCProbes
INVARIANTS
  SentIsWhatArrives
  CatchUpPagesCompose
  ResyncIsActionable
  RankingIgnoresOrder
  PolicyIsAGate
  ObservationsMoveScoresTheRightWay
CHECK_DEADLOCK FALSE

SPECIFICATION LiveNodeSpec
CONSTANTS
  host = host
  p1 = p1
  p2 = p2
  toggle = toggle
  NoParticipant = NoParticipant
  NoActivity = NoActivity
  BlankIds = {}
  Corrupt = Corrupt
  NoRequest = NoRequest
  Participants = {host, p1, p2}
  Clients = {p1, p2}
  SnapshotClients = {}
  HostId = host
  BootstrapId <- MCBootstrapId
  MessageIds <- MCMessageIds
  ClientMessageIds <- MCClientMessageIds
  AutoStartId <- MCAutoStartId
  JoinId <- MCJoinId
  CommandId <- MCCommandId
  LegacyLogs <- MCNoJournal
  Descriptors = {toggle}
  EngineDescriptor = toggle
  MaxU64 = 4
  ActivityStates = {0, 1}
  EngineInitialState = 0
  ActivityPayloads = {"flip"}
  EngineAccepts <- MCAccepts
  EngineResult <- MCResult
  AppendFaults = {}
  MaxFaults = 0
  Capacity = 1
  MaxConns = 2
  MaxTyped = 1
  MaxCrashes = 0
PROPERTY ClientsConverge
CHECK_DEADLOCK FALSE

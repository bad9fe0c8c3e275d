SPECIFICATION Spec
CONSTANTS
  host = host
  p1 = p1
  toggle = toggle
  NoParticipant = NoParticipant
  NoActivity = NoActivity
  BlankIds = {" "}
  Corrupt = Corrupt
  NoRequest = NoRequest
  Participants = {host, p1}
  HostId = host
  BootstrapId = "bootstrap"
  MessageIds <- MCMessageIds
  ClientMessageIds <- MCClientMessageIds
  AutoStartId <- MCAutoStartId
  LegacyLogs <- MCLegacyLogs
  Descriptors = {toggle}
  EngineDescriptor = toggle
  MaxU64 = 4
  ActivityStates = {0, 1}
  EngineInitialState = 0
  ActivityPayloads <- MCPayloads
  EngineAccepts <- MCAccepts
  EngineResult <- MCResult
  AppendFaults = {"nothing_written", "torn", "unsynced"}
  MaxFaults = 2
VIEW MCFaultView
INVARIANTS
  NoSilentLoss

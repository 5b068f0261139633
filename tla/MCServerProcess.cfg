\* Remote sessions, webhooks and API calls of one server process, from its start to its exit.
CONSTANTS
  Requests = {1, 2, 3}
  MaxSessions = 1
  MaxInflight = 2
  MaxStreams = 1
  Deliveries = {1, 2, 3}
  BufferSize = 2
  MaxLogLines = 1
  Calls = {1, 2}
  OurCalls = {1}
  Limit = 2
  Headers <- MCHeaders
  MaxAttempts = 2
  Policies <- MCPolicies
  Callable <- MCCallable
  MaxPolls = 2
  Lists <- MCLists
  PageBytes = 3
  Envs <- MCEnvs
  Loads <- MCLoads
SPECIFICATION FairSpec
INVARIANTS
  Accounted
  CleanExit
  LogTellsTheTruth
  LedgerAdds
  ExposedOnlyGuarded
  LatchTellsTheTruth
  NoBlindResend
  OnlyAsLicensed
  WalkIsWhole
PROPERTIES
  BusySessionKept
  ShutdownEnds

SPECIFICATION ScriptsSpec
CONSTANTS
  admin = admin
  recipient = recipient
  leafA = leafA
  leafB = leafB
  assetAccount = assetAccount
  nodeA = nodeA
  nodeB = nodeB
  Channels = {c1, c2}
  Payments = {p1, p2, p3}
  NoChannel = NoChannel
  None = None
  Terminals = {a, b}
  MaxClock = 4
  Skew = 1
  MaxTime = 11
  MaxStarts = 2
  MaxSeconds = 4
  FollowDelay = 1
  Payloads <- MCPayloads
  MaxEntries = 2
CHECK_DEADLOCK FALSE
INVARIANTS
  CallsFitTheLedger
  EndsAsAnnounced
  PreparedPaymentsWork
  ChannelsServeTheirRuns
  LedgerCommandsWork
  SimulationIsRight
PROPERTIES
  ScriptsEnd

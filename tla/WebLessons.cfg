SPECIFICATION WebSpec
CONSTANTS
  k1 = k1
  k2 = k2
  k3 = k3
  S = S
  R = R
  Count = Count
  Nothing = Nothing
  Keys <- MCKeys
  HeaderWallets <- MCHeaderWallets
  Capability = "authentication"
  MaxReplays = 1
  Nobody = Nobody
  MaxClients = 3
  Retained = 3
  Source = S
  Recipients <- MCRecipients
  Cap = 2
  MaxFundings = 2
  Wait = 20
  a = a
  b = b
  testnet = testnet
  mainnet = mainnet
  freighter = freighter
  other = other
  x = x
  y = y
  Addresses <- MCAddresses
  Networks <- MCNetworks
  Modules <- MCModules
  Texts <- MCTexts
  Answers <- MCAnswers
  Captured <- MCCaptured
  Empty = Empty
  Garbled = Garbled
INVARIANTS
  LocalKeyIsLive
  UnusedKeysAreGone
  RequestKeepsItsKey
  ReceiptMatchesSigner
  VisitIsConsistent
  WritesAreShown
  DisplayedSignatureIsRight
  VerdictDescribesForm
PROPERTIES
  KeysDoNotOutliveLesson
  ChoiceEnds
  RefreshesGoOn
CHECK_DEADLOCK FALSE

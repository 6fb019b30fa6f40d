SPECIFICATION FairSpec
CONSTANTS
  alice = alice
  cosigner = cosigner
  Keys <- MCKeys
  Accounts <- MCAccounts
  Unfunded = Unfunded
  NoChallenge = NoChallenge
  NotIssued = NotIssued
  Configs <- NoConfigs
  SignatureSets <- OwnSignature
  Challenges = {c1, c2, c3}
  Requests = {r1, r2}
  MaxPending = 2
  Lifetime = 2
  Grace = 1
  MaxRestarts = 1
INVARIANTS
  TableOK
PROPERTIES
  LiveChallengesAreKept
  LateRedemptionBounded
  ImplementsService
  CapacityRecovers

SPECIFICATION Spec
CONSTANTS
  alice = alice
  cosigner = cosigner
  Keys <- MCKeys
  Accounts <- MCAccounts
  Unfunded = Unfunded
  NoChallenge = NoChallenge
  NotIssued = NotIssued
  Configs <- NoConfigs
  SignatureSets <- OwnSignature
  Challenges = {c1}
  Requests = {r1}
  MaxPending = 1
  Lifetime = 1
  Grace = 1
  MaxRestarts = 0
PROPERTIES
  ExpiredChallengesAreRejected

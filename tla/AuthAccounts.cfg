SPECIFICATION Spec
CONSTANTS
  alice = alice
  cosigner = cosigner
  Keys <- MCKeys
  Accounts <- MCAccounts
  Unfunded = Unfunded
  NoChallenge = NoChallenge
  NotIssued = NotIssued
  Configs <- MCConfigs
  SignatureSets <- EverySignatureSet
  Challenges = {c1}
  Requests = {r1, r2}
  MaxPending = 1
  Lifetime = 1
  Grace = 1
  MaxRestarts = 1
SYMMETRY MCSymmetry
INVARIANTS
  SingleRedemption
  AuthorizedWhileOutstanding

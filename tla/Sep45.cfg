SPECIFICATION Spec
CONSTANTS
  NoNonce = NoNonce
  Nonces = {n1, n2}
  Requests = {r1, r2}
  Lifetime = 1
  MaxLedger = 2
  MaxRestarts = 1
SYMMETRY MCSymmetry
INVARIANTS
  TokensAreEarned
  NonceBuysToken
CHECK_DEADLOCK FALSE
PROPERTIES
  ImplementsService

SPECIFICATION FairSpec
CONSTANTS
  Servers = {s1, s2, s3, s4}
  Standalones = {auth}
  Strangers = {other}
  NoOne = NoOne
INVARIANTS
  OwnersServe
PROPERTIES
  StoppedByOwner
  ProbesEnd
CHECK_DEADLOCK FALSE

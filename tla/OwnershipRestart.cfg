SPECIFICATION Spec
CONSTANTS
  Servers = {s1, s2}
  Standalones = {}
  Strangers = {}
  NoOne = NoOne
PROPERTIES
  RestartKeepsFixture
CHECK_DEADLOCK FALSE

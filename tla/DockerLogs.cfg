SPECIFICATION Spec
CONSTANTS
  Base = 6
  Width <- MCWidth
  Continuation = {5}
  Replacement = 65533
  InitialCapacity = 5
  MaxCapacity = 40
  Scripts <- MCScripts
INVARIANTS
  BufferOK
  PrintsWholeFrames
  LosesOnlyCutCharacters
PROPERTIES
  ImplementsFrameStream

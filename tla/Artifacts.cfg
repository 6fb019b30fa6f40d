SPECIFICATION Spec
CONSTANTS
  Codes = {1, 2, 3}
  Interface <- MCInterface
  Clis = {"old", "new"}
  MaxChanges = 2
INVARIANTS
  VerdictIsTrue
  LeavesInOrder

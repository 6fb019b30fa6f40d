\* No action is left when everything is funded, deployed and withdrawn.
SPECIFICATION Spec
CONSTANTS
  l1 = l1
  l2 = l2
  asset = asset
  outer = outer
  inner = inner
  Leaves <- MCLeaves
  Nodes <- MCNodes
  Root = asset
  Lists <- MCLists
  Amounts = {0, 1}
  MaxBalance = 1
CHECK_DEADLOCK FALSE
INVARIANTS
  MirrorsAreAccepted
PROPERTIES
  AllLeavesSign
  MalformedTreesKeepFunds

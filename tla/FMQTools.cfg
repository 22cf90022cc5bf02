SPECIFICATION QueueSpec
CONSTANTS
  e1 = e1
  e2 = e2
  w1 = w1
  w2 = w2
  NoOp = NoOp
  Ops <- AllOps
  Edits <- TwoEdits
  Paths <- AllPaths
  Real <- Canonical
  PathOf <- Aliased
  Present <- OnlyA
  Removable <- OnlyB
  MaxRemovals = 1
  Part = Part
INVARIANTS FileExclusion
PROPERTIES WritesInTurn

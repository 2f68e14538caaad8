SPECIFICATION Spec
CONSTANTS
  MaxObjects = 1
  Options = {"skirts", "ironing"}
  HasWipeTower = FALSE
  DontSupportBridges = FALSE
  SeveralRegions = FALSE
  SeveralExtruders = FALSE
  Halfway = {"posIroning"}
INVARIANTS
  DoneIsFresh

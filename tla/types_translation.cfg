SPECIFICATION TypesSpec
CONSTANTS
  RefNames = {"Window", "Mode"}
  Beside = {"number", "Mode"}
  MaxDepth = 4
  MaxTuple = 2
INVARIANTS
  FlatTypesSurvive
  ImportsMatchUses
CHECK_DEADLOCK FALSE

SPECIFICATION Spec
CONSTANTS
  Items = {"a", "b", "c"}
  Defs <- Each
INVARIANTS
  QuorumBacked
  NothingUnbatched
CHECK_DEADLOCK FALSE
PROPERTY FanSettles

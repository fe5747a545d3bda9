SPECIFICATION Spec
CONSTANTS
  Doors = {"a", "b", "c"}
  Runs = {1, 2, 3}
  Scenes <- Cleaned
CHECK_DEADLOCK FALSE
PROPERTIES
  LaneFreed

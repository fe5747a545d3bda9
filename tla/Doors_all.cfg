SPECIFICATION DoorwaySpec
CONSTANTS
  Nodes = {"a", "b"}
  Before <- Ancestry
  Calls = {"x", "y", "z"}
  Plans <- Seven
  Doors = {"a", "b", "c"}
  Runs = {1, 2, 3}
  LaneScenes <- Each
  Items = {1, 2}
  Watchdogs = {"w1", "w2"}
  Finalizers = {"z1", "z2"}
  CrashScenes <- Crashed
INVARIANTS
  EditsKept
  LanesHold
  RespawnsOnce
PROPERTIES
  KillsStand
  RoutesChosen
  CallsLand
  ClosuresHold
CHECK_DEADLOCK FALSE

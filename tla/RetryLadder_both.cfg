SPECIFICATION MCSpec
CONSTANTS
  Cells = {"a"}
  Ends <- Chosen
  Deaths = {"answer", "blip", "cut", "banner", "late", "slow", "wrong", "lease", "stopped"}
  RaceDeaths = {"answer", "blip", "late", "beaten"}
  TCap = 1
  BCap = 1
  Rungs = 2
  Budget = 2
  Parks = 1
  Stoppable = TRUE
  Quorum = 0
  Restarts = 1
INVARIANTS
  AttemptsHold
PROPERTIES
  PromisesKept
  ItemsSettle
CHECK_DEADLOCK FALSE

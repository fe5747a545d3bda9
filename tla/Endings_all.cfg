SPECIFICATION EndingsSpec
CONSTANTS
  Lives = {"r", "s"}
  Budgeted = {"a", "b"}
  EndScenes <- MCEndScenes
  Items = {"p", "q"}
  Files = {"f"}
  Deeds <- MCDeeds
  Drifts = 1
  StrikesMax = 2
  WakeScenes <- MCWakeScenes
  Launched = {1, 2}
  Turns = {1, 2, 3}
  Cap = 1
  Asks = 1
  Mishaps = 1
INVARIANTS
  EndingsKept
  ProofsReal
  OwnersTold
  CardsShip
PROPERTIES
  HandlersClose
  StrikesJust
  KeptGatesEnd
CHECK_DEADLOCK FALSE

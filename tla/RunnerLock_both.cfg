SPECIFICATION MCSpec
CONSTANTS
  r1 = r1
  r2 = r2
  h1 = h1
  h2 = h2
  Runners = {r1, r2}
  Siblings = {r2}
  Collide = {}
  Healers = {h1, h2}
  Phantom = Phantom
  Ghost = Ghost
  NoOne = NoOne
  FlockTries = 2
  Rounds = 2
  BarrierAtStart = TRUE
  MayStall = FALSE
INVARIANTS
  AtMostOneRunner
  NeverDisplaced
PROPERTIES
  HealSparesTheLiving
  Decide
CHECK_DEADLOCK FALSE

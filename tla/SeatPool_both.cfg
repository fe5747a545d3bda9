SPECIFICATION MCSpec
CONSTANTS
  Seekers = {a, b, n}
  Runners = {m, p}
  Own <- OwnerOf
  Above <- AncestryOf
  Seed <- Seeds
  Ceiling <- Ceilings
  Quorum <- Quorums
  Drain = TRUE
  Blind = {}
  Stoppable = {}
  Expires = TRUE
  Lapses = TRUE
  Crashes = 1
  Misreads = 1
  NoOne = NoOne
  a = a
  b = b
  c = c
  n = n
  p = p
  q = q
  m = m
INVARIANTS
  PoolSound
PROPERTIES
  SeatsStand
  CrowdServed
CHECK_DEADLOCK FALSE

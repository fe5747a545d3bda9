SPECIFICATION FairSpec
CONSTANTS
  Runners = {r1, r2, r3}
  First = r1
  Doors = {release, stopper, amend, waiter}
  Kind <- DoorKinds
  MaxCalls = 2
  Observers = {o1}
  NoOne = NoOne
  Scenes <- Killed
  Stalls = FALSE
  Respawns = 1
  r1 = r1
  r2 = r2
  r3 = r3
  o1 = o1
  release = release
  stopper = stopper
  amend = amend
  waiter = waiter
  release2 = release2
PROPERTIES
  ActionsTakeEffect
  DoorsReturn
CHECK_DEADLOCK FALSE

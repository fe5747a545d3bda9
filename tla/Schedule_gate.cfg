CONSTANTS
  Graphs <- ShutGate
  Crashes = 1
SPECIFICATION Spec
INVARIANT FalseGateStaysShut

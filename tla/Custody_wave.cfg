SPECIFICATION Spec
CONSTANTS
  Pids = {"p", "q", "s"}
  Defs <- Each
INVARIANTS
  AgentsAlone
  PidsAreTheirs
CHECK_DEADLOCK FALSE
PROPERTIES
  RunnersLeave
  CustodySettles

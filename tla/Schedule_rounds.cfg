CONSTANTS
  Graphs <- Sorted
  Crashes = 1
SPECIFICATION FairSpec
INVARIANTS
  InputsCommitted
PROPERTIES
  OrderHolds
  RecordsStick
  RunSettles

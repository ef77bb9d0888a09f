CONSTANTS
  Controllers = {c1, c2, c3}
  Kinds <- AllKinds
  MaxFaults = 2
SPECIFICATION FairSpec
INVARIANTS
  UsedQcow2Whole
  StagingRemoved
PROPERTIES
  ImageAvailable

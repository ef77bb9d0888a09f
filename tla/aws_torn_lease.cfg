CONSTANTS
  c1 = c1
  c2 = c2
  c3 = c3
  n1 = n1
  n2 = n2
  Controllers = {c1, c2}
  Spaces = {n1}
  SpaceOf <- OneSpace
  Pids = {1, 2, 3}
  InitPid = 1
  Starts = {s1, s2}
  ForeignPids = {2}
  CrashPoints <- Signed
  WorkerPoints <- AnyPoint
  MaxFaults = 1
  NoStart = NoStart
  NoOne = NoOne
  Absent = Absent
  Empty = Empty
SPECIFICATION FairSpec
PROPERTIES
  LeaseRecoverable

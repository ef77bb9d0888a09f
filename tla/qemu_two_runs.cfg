CONSTANTS
  c1 = c1
  c2 = c2
  r1 = r1
  r2 = r2
  Runs = {r1, r2}
  Hosts = {h1}
  Endpoints = {"app"}
  Controllers = {c1, c2}
  RunOf <- OwnRun
  Protocols = {"tcp"}
  Addresses = {"lo", "any"}
  Wildcard = "any"
  Ports = {1, 2}
  AutoPort = AutoPort
  Request <- Mixed
  Pids = {p1, p2}
  ForeignKeys <- OneForeign
  CrashPoints <- NotInSave
  CrashBeforePidfile = TRUE
  MaxGen = 1
  MaxStarts = 3
  MaxFaults = 2
  NoManifest = NoManifest
  NoOne = NoOne
  NoProc = NoProc
  Foreign = Foreign
SPECIFICATION Spec
SYMMETRY PidSymmetry
INVARIANTS
  EndpointsExclusive
  ReservationsCompatible

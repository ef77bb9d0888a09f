CONSTANTS
  c1 = c1
  c2 = c2
  r1 = r1
  r2 = r2
  Runs = {r1}
  Hosts = {h1}
  Endpoints = {"ssh", "app"}
  Controllers = {c1}
  RunOf <- OneRun
  Protocols = {"tcp"}
  Addresses = {"lo", "any"}
  Wildcard = "any"
  Ports = {1, 2, 3}
  AutoPort = AutoPort
  Request <- AutoAndFixed
  Pids = {p1, p2}
  ForeignKeys <- AllForeign
  CrashPoints <- Anywhere
  CrashBeforePidfile = FALSE
  MaxGen = 1
  MaxStarts = 3
  MaxFaults = 3
  NoManifest = NoManifest
  NoOne = NoOne
  NoProc = NoProc
  Foreign = Foreign
SPECIFICATION FairSpec
INVARIANTS
  TypeOK
  ReservationsHaveManifest
  ExplicitPortsKept
PROPERTIES
  DestroyCompletes
  LockReleased

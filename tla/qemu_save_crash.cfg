CONSTANTS
  c1 = c1
  c2 = c2
  r1 = r1
  r2 = r2
  Runs = {r1, r2}
  Hosts = {h1}
  Endpoints = {"ssh", "app"}
  Controllers = {c1, c2}
  RunOf <- OwnRun
  Protocols = {"tcp"}
  Addresses = {"lo", "any"}
  Wildcard = "any"
  Ports = {1, 2, 3}
  AutoPort = AutoPort
  Request <- Mixed
  Pids = {p1, p2}
  ForeignKeys <- OneForeign
  CrashPoints <- Anywhere
  CrashBeforePidfile = FALSE
  MaxGen = 1
  MaxStarts = 1
  MaxFaults = 1
  NoManifest = NoManifest
  NoOne = NoOne
  NoProc = NoProc
  Foreign = Foreign
SPECIFICATION Spec
INVARIANTS
  EndpointsExclusive

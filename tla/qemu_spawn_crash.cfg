CONSTANTS
  c1 = c1
  c2 = c2
  r1 = r1
  r2 = r2
  Runs = {r1}
  Hosts = {h1}
  Endpoints = {"ssh"}
  Controllers = {c1}
  RunOf <- OneRun
  Protocols = {"tcp"}
  Addresses = {"lo", "any"}
  Wildcard = "any"
  Ports = {1, 2, 3}
  AutoPort = AutoPort
  Request <- AutoSsh
  Pids = {p1, p2}
  ForeignKeys <- OneForeign
  CrashPoints <- NotInSave
  CrashBeforePidfile = TRUE
  MaxGen = 2
  MaxStarts = 3
  MaxFaults = 2
  NoManifest = NoManifest
  NoOne = NoOne
  NoProc = NoProc
  Foreign = Foreign
SPECIFICATION Spec
INVARIANTS
  LiveGuestsKeepResources

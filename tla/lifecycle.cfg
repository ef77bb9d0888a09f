SPECIFICATION LifecycleSpec
CONSTANTS
  h1 = h1
  h2 = h2
  Hosts = {h1, h2}
  Inventories <- MCInventories
  Contested <- MCContested
  Backends = {"kubevirt", "podman", "docker"}
  Overridden = {h2}
  MaxCreates = 2
  MaxFaults = 2
  NoRun = NoRun
INVARIANTS LifecycleTypeOK InventoryHasRun CreateComplete CleanupComplete
PROPERTIES ForeignKept RunAccounted DestroyCompletes DestroyConverges

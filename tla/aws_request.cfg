CONSTANTS
  h1 = h1
  h2 = h2
  sn1 = sn1
  sn2 = sn2
  sg1 = sg1
  sg2 = sg2
  sg3 = sg3
  eni1 = eni1
  eni2 = eni2
  vol1 = vol1
  vol2 = vol2
  Scenarios <- MCScenarios
  Images = {1, 2}
  Compatible = {1, 2}
  RootSize <- MCRootSize
  ZonesOf <- MCZonesOf
  SubnetZone <- MCSubnetZone
  EniSubnet <- MCEniSubnet
  DiskZone <- MCDiskZone
  OnlySubnet = sn1
  MaxInterfaces = 2
  DefaultRegion = "r1"
  MaxCreates = 2
  NoRequest = NoRequest
  NoSubnet = NoSubnet
SPECIFICATION Spec
CHECK_DEADLOCK FALSE
INVARIANTS
  Disposable
  EveryInterfaceOnce
  BootstrapDelivered
  Precedence
  OnePlace
  SavedRunRendered

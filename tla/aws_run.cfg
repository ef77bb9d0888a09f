CONSTANTS
  Hosts = {h1, h2}
  Region = net
  Delayed <- AllButKeys
  MaxIds = 2
  MaxFaults = 3
  NoRun = NoRun
  NoKind = NoKind
SPECIFICATION FairSpec
INVARIANTS
  JournalUntilGone
  OneOfEach
  LaunchReplayable
PROPERTIES
  NetworkAccounted
  IdsKept
  RunEnds

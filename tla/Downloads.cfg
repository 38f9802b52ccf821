\* One sidecar at a time, killed, interrupted and served wrong bytes.
SPECIFICATION FairSpec
CONSTANTS
  NAssets = 3
  Archives <- MCArchives
  Swapped <- MCSwapped
  Restored <- MCRestored
  Procs = {p1}
  p1 = p1
  Inodes <- MCInodes
  None = None
  Size = 2
  Slack = 1
  MaxTries = 1
  MaxFaults = 2
INVARIANTS
  TypeOK
  DestinationVerified
PROPERTIES
  StoreSpec
  
  SetupRepairs

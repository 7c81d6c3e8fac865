CONSTANTS
  EntriesPerSec = 5
  LastCluster = 10
  MaxCalls = 5
  Volumes <- MCVolumes
  Paths <- MCPaths
SPECIFICATION FairSpec
INVARIANTS TypeOK ListExact GetInTree GetFinds
PROPERTY Ends

CONSTANTS
  EntriesPerSec = 5
  LastCluster = 10
  MaxCalls = 5
  Volumes <- MCVolumes
  Paths <- MCPaths
SPECIFICATION Spec
INVARIANT ResultsDocumented

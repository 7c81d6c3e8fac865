CONSTANTS
  RaceGraph <- MCRaceGraph
  RaceTeams <- MCRaceTeams
  CalmGraph <- MCCalmGraph
  CalmTeams <- MCCalmTeams
  AloneGraph <- MCAloneGraph
  MissingGraph <- MCMissingGraph
  Order = 3
  ProductTeams <- MCProductTeams
  StrikeLoop <- MCStrikeLoop
  ChunkLoop <- MCChunkLoop
  PlainSizes = {2, 3, 4, 49, 100}
  OverflowLoop <- MCOverflowLoop
  Half = 128
SPECIFICATION GraphSpec
INVARIANT ShortestPaths

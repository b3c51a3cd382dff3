SPECIFICATION FairSpec
CONSTANTS
  Addrs = {1, 2, 3, 4}
  EdgeSets <- AllGraphs
  MaxEdges = 4
INVARIANTS SearchTypeOK PartsAreComponents PartsClosed StackIsPath
PROPERTY SearchEnds

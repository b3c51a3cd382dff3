CONSTANTS
  Addrs = {1, 2, 3}
  MaxShort = 2
  MaxLong = 1
  Graphs <- SomeGraphs
  Losses <- TwoLosses
  SelectNum = 1
  SelectDen = 2
  offset_l = 5
  offset_s = 0
  MaxPermuted = 3
  MaxClusters = 3
  Packets = {1, 2, 3, 4, 5, 6, 7}
SPECIFICATION Spec
INVARIANTS GraphTypeOK EveryEdgeHasComponent OnlySelectedScored ClustersScoredAlike PacketScoreMeaning

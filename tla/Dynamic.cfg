SPECIFICATION DynSpec
CONSTANTS
  Addrs = {1, 2, 3}
  Graphs <- SmallGraphs
  Losses <- OneLoss
  SelectNum = 1
  SelectDen = 1
  offset_l = 5
  offset_s = 0
  MaxPermuted = 3
  MaxClusters = 2
  Packets = {1, 2, 3}
  min_packets_for_update = 3
  FlowThreads = 3
  BatchEdges <- SmallBatches
  PacketKinds = {{}, {"tcp", "large"}}
  MaxPackets = 6
INVARIANTS DynTypeOK QueueHoldsRest EdgesIndexed TrackedAreLatest

SPECIFICATION DynSpec
CONSTANTS
  Addrs = {1, 2}
  Graphs <- NoGraphs
  Losses <- OneLoss
  SelectNum = 1
  SelectDen = 1
  offset_l = 5
  offset_s = 0
  MaxPermuted = 3
  MaxClusters = 1
  Packets = {}
  min_packets_for_update = 50
  FlowThreads = 32
  BatchEdges <- DefaultBatches
  PacketKinds = {{}}
  MaxPackets = 50
INVARIANT BatchSurvives

SPECIFICATION Spec
CONSTANTS
  Addrs = {x, y}
  Ports = {p, q}
  Codes = {tcp, udp}
  Sizes = {1, 2}
  FlowVectors <- Vectors
  Length = 4
  Multiplex = 3
  EDGE_LONG_LINE = 1
  EDGE_AGG_LINE = 1
INVARIANTS EdgeTypeOK EveryFlowOnce PacketSumsAgree AggCodeExact NothingLeftToAggregate

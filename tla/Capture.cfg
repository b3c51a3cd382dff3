SPECIFICATION CaptureSpec
CONSTANTS
  AddressPairs = {"ab"}
  PortPairs = {"12"}
  NoPorts = "00"
  NullPtr = null
  BadId = bad
  Id4 <- SmallId4
  Id6 <- SmallId6
  Times = {1, 2, 5}
  Captures <- SmallCaptures
  Traces <- ParsedCaptures
  Lengths = {0, 1, 3, 4}
  ParseMultiplex = 2
  Multiplex = 3
  CheckMultiplex = 2
  FLOW_TIME_OUT = 2
  EVICT_FLOW_TIME_OUT = 1
INVARIANTS CaptureTypeOK ConnectionsKept BadCounted
PROPERTIES CaptureCompletion ImplementsConstruct

SPECIFICATION Spec
CONSTANTS
  Id4 = {a4}
  Id6 = {b6}
  BadId = bad
  Times = {1, 2, 3, 4, 5, 6, 7}
  Traces <- CaptureTraces
  Lengths = {0, 1, 5}
  BadTimes = {0}
  Multiplex = 3
  CheckMultiplex = 2
  FLOW_TIME_OUT = 2
  EVICT_FLOW_TIME_OUT = 1
INVARIANTS TypeOK Conservation LingerBound SameIdSeparated SortDefined
PROPERTY ImplementsFlowSpec

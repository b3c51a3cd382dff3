SPECIFICATION Spec
CONSTANTS
  Inputs <- SplitCapture
  window_size = 3
  incremental_learning_enabled = TRUE
  FlowThreads = 3
  MaxRuns = 1
  Kinds = {"short", "long"}
  NoModel = null
INVARIANT LabelsCorrespond

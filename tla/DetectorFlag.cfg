SPECIFICATION Spec
CONSTANTS
  Inputs <- SomeInputs
  window_size = 2
  incremental_learning_enabled = TRUE
  FlowThreads = 3
  MaxRuns = 1
  Kinds = {"short", "long"}
  NoModel = null
PROPERTY SavedFlag

SPECIFICATION Spec
CONSTANTS
    Channels = {c1}
    ModelCount = 2
    concurrencyLimit = 1
    MaxBatches = 1
    MaxRows = 1
PROPERTY StoppedBatchWritesNothing
CHECK_DEADLOCK FALSE

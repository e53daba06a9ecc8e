SPECIFICATION Spec
CONSTANTS
    Channels = {c1, c2}
    ModelCount = 3
    concurrencyLimit = 2
    MaxBatches = 2
    MaxRows = 1
INVARIANTS WaitsForItsCalls SignMeansRequest ReportIsComplete
PROPERTIES StoppedSendsNothing BatchEnds
CHECK_DEADLOCK FALSE

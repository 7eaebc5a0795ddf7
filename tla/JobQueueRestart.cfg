CONSTANTS
    Jobs <- MCJobs
    NumOps <- MCNumOps
    Deps <- MCDeps
    MaxRunning = 1
    Watched = {1}
    RestartAnywhere = TRUE
    MaxEvents = 1
SPECIFICATION Spec
PROPERTIES HandsOff

CONSTANTS
    Jobs <- MCJobs
    NumOps <- MCNumOps
    Deps <- MCDeps
    MaxRunning = 1
    Watched = {1}
    RestartAnywhere = FALSE
    MaxEvents = 1
SPECIFICATION FairSpec
INVARIANTS OneExecutor ExecutionLimit DependenciesMet
PROPERTIES OutcomeStable HandsOff EventuallyDone

SPECIFICATION Spec
CONSTANTS
    Environments <- MCEnvironments
    FailureCodes <- MCFailureCodes
    Signals <- MCSignals
INVARIANTS
    SuccessIsComplete
    NoOrphan
    FirstFailureReported
    NoHalfCopy
PROPERTIES
    DebugInfoNeverLost
    Terminates

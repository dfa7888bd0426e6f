SPECIFICATION Spec
CONSTANTS
    FailureLimit = 2
    MaxAttempts = 2
    FirstRetry = 0
    SecondRetry = 1
    RebootQuiet = 1
    AutoIdle = 1
    GuardClear = 1
    IdleCheck = 1
    SuspectCheck = 1
INVARIANTS
    IdleCanWake
    StreamIsReal
    NothingSleptOn
    OneRebootPerCalm

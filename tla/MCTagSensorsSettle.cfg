SPECIFICATION Spec
CONSTANTS
    FailureLimit = 2
    MaxAttempts = 1
    FirstRetry = 0
    SecondRetry = 0
    RebootQuiet = 1
    AutoIdle = 1
    GuardClear = 0
    IdleCheck = 0
    SuspectCheck = 0
PROPERTY EventuallySettles

SPECIFICATION Spec
CONSTANTS
    Count = 2
    Slots = {1, 2, 3}
    MaxAttempts = 2
    MaxSessions = 2
    MaxRetries = 1
CHECK_DEADLOCK FALSE
INVARIANTS
    PhaseHasOneOwner
    LowPowerIsTrue
    CountedWasPerformed
PROPERTY OperatorGetsTurn

SPECIFICATION Spec
CONSTANTS
    States <- MCStates
    Start <- MCStart
    Transition <- MCTransition
    Minimum <- MCMinimum
    Maximum <- MCMaximum
    Deviation <- MCDeviation
    Labels = {"STATIONARY", "ROLLING", "CARRIED"}
    Windows = {1, 2}
    UnknownFloor = 9
    OtherCost = 4
    Frames = 5
INVARIANTS
    DecodeIsExact
    EventsFollowDwells
    FramesAreCausal
CHECK_DEADLOCK FALSE

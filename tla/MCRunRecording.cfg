SPECIFICATION RecordingSpec
CONSTANTS
    MaxLines = 3
    MaxDeviceBoots = 2
    MaxLost = 1
    RecordLimits = {0, 2}
    FieldSets <- MCFieldSets
    Events <- MCEvents
    MaxEvents = 3
    MaxFailedAppends = 1
    p1 = p1
    p2 = p2
    ramp = ramp
    Players = {p1, p2}
    NumHoles = 1
    EventIds <- MCEventIds
    Times = {1}
    Features = {ramp}
    HoleFeatures <- MCHoleFeatures
    PointsDelta <- MCPointsDelta
    MaxTriggers <- MCMaxTriggers
    ScoreCurve <- MCScoreCurve
    Adjustments = {5}
    NoPlayer = NoPlayer
    NoTime = NoTime
CHECK_DEADLOCK FALSE
INVARIANTS
    EvidenceHasProvenance
    CaptureIsReadable
    CompleteIsTrustworthy
    ReplayIsFaithful

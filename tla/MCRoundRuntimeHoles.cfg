SPECIFICATION RuntimeSpec
CONSTANTS
    p1 = p1
    p2 = p2
    hub = hub
    cup = cup
    Players = {p1}
    Strangers = {}
    Devices = {hub, cup}
    NumHoles = 2
    EventIds <- MCEventIds
    Times = {0, 2}
    CupWindow = 1
    Features = {}
    HoleFeatures <- MCHoleFeatures
    PointsDelta <- MCNoFunction
    MaxTriggers <- MCNoFunction
    ScoreCurve <- MCScoreCurve
    Adjustments = {}
    NoPlayer = NoPlayer
    NoTime = NoTime
    NoBall = NoBall
    Absent = Absent
    Edges <- HoleEdges
    MaxObservations = 3
    MaxBoots = 2
    MaxSimulated = 5
    MaxFailures = 0
CONSTRAINTS
    SimulatedInOrder
    StrokesAtZero
    SimulatedEventsCount
    HubReboots
INVARIANT CupBacking

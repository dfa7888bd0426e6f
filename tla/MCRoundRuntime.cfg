SPECIFICATION RuntimeSpec
CONSTANTS
    p1 = p1
    p2 = p2
    hub = hub
    cup = cup
    Players = {p1, p2}
    Strangers = {}
    Devices = {hub, cup}
    NumHoles = 1
    EventIds <- MCEventIds
    Times = {0, 2}
    CupWindow = 1
    Features = {}
    HoleFeatures <- MCHoleFeatures
    PointsDelta <- MCNoFunction
    MaxTriggers <- MCNoFunction
    ScoreCurve <- MCScoreCurve
    Adjustments = {}
    NoPlayer = NoPlayer
    NoTime = NoTime
    NoBall = NoBall
    Absent = Absent
    Edges <- TurnEdges
    MaxObservations = 3
    MaxBoots = 1
    MaxSimulated = 3
    MaxFailures = 1
CONSTRAINTS
    SimulatedInOrder
    StrokesAtZero
INVARIANTS
    CandidateTurn
    RecordsAgree
PROPERTY RedeliveryNeverScores

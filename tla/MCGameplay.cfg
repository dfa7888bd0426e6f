SPECIFICATION MCSpec
CONSTANTS
    Players = {p1, p2}
    NumHoles = 2
    MaxEvents = 13
    EventIds <- MCEventIds
    Times = {1, 3}
    Features = {ramp, water}
    HoleFeatures <- MCHoleFeatures
    PointsDelta <- MCPointsDelta
    MaxTriggers <- MCMaxTriggers
    ScoreCurve <- MCScoreCurve
    Adjustments <- MCAdjustments
    ramp = ramp
    water = water
    NoPlayer = NoPlayer
    NoTime = NoTime
CONSTRAINT LastHoleStartsAtOne
INVARIANTS
    TypeOK
    TurnDiscipline
    PhaseAgrees
    HolesInOrder
    ScoresAddUp
PROPERTY FinishedStaysFinished
SYMMETRY PlayersAlike

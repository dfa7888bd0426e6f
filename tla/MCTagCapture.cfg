SPECIFICATION Spec
CONSTANTS
    Modes = {"armed", "frozen", "window"}
    Ring = 4
    Chunk = 2
    Modulus = 16
    PreRoll = 1
    Episode = 2
    Requests = 2
    Retries = 2
    MaxFailures = 2
    Labels = {"pickup"}
    Manifests = {"", "rolling_pickup"}
    Unsupported = {"rolling_pickup"}
    Baseline = 1
    SearchStart = 1
    Lookahead = 2
    MinActive = 2
    ImpulseBefore = 1
    ImpulseAfter = 1
    GyroAfter = 2
    MaxTime = 6
    MaxTroubles = 2
INVARIANTS
    PassIsOneBoot
    HistoryHasNoHole
    HealthyPasses
    SuspicionIsSound
CHECK_DEADLOCK FALSE

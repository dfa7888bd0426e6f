SPECIFICATION Spec
CONSTANTS
    Balls = {b1, b2}
    Holes = {h1, h2}
    EnabledHoles = {h1, h2}
    Sessions = {s1, s2}
    None = None
    PendingTimeout = 1
    ActiveIdleAfter = 1
    AuthorityOffline = 1
    InactiveOff = 2
    MaximumActivation = 3
    MaxTokens = 2
    MaxTime = 1
SYMMETRY Alike
INVARIANTS
    LiveTurnKeepsPower

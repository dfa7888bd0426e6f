SPECIFICATION Spec
CONSTANTS
    Balls = {b1, b2}
    Holes = {h1, h2}
    EnabledHoles = {h1, h2}
    Sessions = {s1, s2}
    None = None
    PendingTimeout = 1
    ActiveIdleAfter = 1
    AuthorityOffline = 1
    InactiveOff = 1
    MaximumActivation = 2
    MaxTokens = 2
    MaxTime = 2
SYMMETRY Alike
INVARIANTS
    TypeOK
    LeaseTablesAgree
    LeaseIsEligible
    EpochsFence
    NothingIsLeftBehind
PROPERTIES
    TurnNeverSwapped
    ImplementsHoleLease

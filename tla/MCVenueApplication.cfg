SPECIFICATION Spec
CONSTANTS
    Threads = {t1, t2}
    NumBalls = 2
    NumHoles = 2
    Bookings = {k1}
    Observations = {teeEdge}
    EvidenceOf <- MCEvidenceOf
    teeEdge = teeEdge
    cupEdge = cupEdge
    None = None
    MaxSessions = 2
    MaxFailures = 1
SYMMETRY ThreadsAlike
INVARIANT VenueInOrder
PROPERTIES
    
    StalePressRefused

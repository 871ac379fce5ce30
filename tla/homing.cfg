\* X and Z, two samples, two retries, two points, one retry of the points.
SPECIFICATION FairSpec
CONSTANTS
    Axes = {0, 2}
    z = z
    Drivers = {z}
    DriversOf <- MCDriversOf
    Twice <- MCTwice
    StowEach = FALSE
    Samples = 2
    Retries = 2
    MaxCycles = 2
    Points = 2
    MaxRounds = 1
INVARIANTS
    TypeOK
    PositionKnown
    SwappedIsUnhomed
    ProbeFollowed
    DriversRestored
    RetriesBounded
PROPERTIES
    CommandEnds

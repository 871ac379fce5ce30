\* Four greenlets: one inside, one handed the mutex, one behind it in the
\* queue and one that arrives in between.
SPECIFICATION FairSpec
CONSTANTS
    Greenlets = {g1, g2, g3, g4}
    NoOne = NoOne
INVARIANT MutualExclusion
PROPERTIES
    NoOvertaking
    Served
    ImplementsLock

SPECIFICATION Spec
CONSTANTS
    Mcus = {a, b}
    Primary = a
    Expire = 1
    Report = 1
    MinExtend = 1
    Lead = 1
    Move = 0
    MaxTime = 3
    MaxSessions = 2
    MaxIncidents = 1
INVARIANTS
    StopBound
    HitIsReal
    TimeoutReported
    NoStaleTrigger
    EachIsHeard
PROPERTY ImplementsMove
\* The bounds stop the clock and the homing moves.
CHECK_DEADLOCK FALSE

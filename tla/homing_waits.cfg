SPECIFICATION Spec
CONSTANTS
    Mcus = {a}
    Primary = a
    Expire = 1
    Report = 1
    MinExtend = 1
    Lead = 1
    Move = 1
    MaxTime = 4
    MaxSessions = 1
    MaxIncidents = 1
INVARIANTS
    WaitEnds
\* The bounds stop the clock and the homing moves.
CHECK_DEADLOCK FALSE

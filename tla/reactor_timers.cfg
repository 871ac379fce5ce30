\* A timer and a chain of up to two paused greenlets.
SPECIFICATION FairSpec
CONSTANTS
    Timers = {t1}
    Greenlets = {g1, g2, g3}
    Fd = Fd
    Never = 2
INVARIANTS
    IInv
    NoTimerForgotten
    GreenletTimers
PROPERTIES
    DueRuns

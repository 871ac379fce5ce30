\* The break flag drops the SAVE_GCODE_STATE of a PAUSE.
SPECIFICATION Spec
CONSTANTS
    SD = SD
    RO = RO
    Clients = {c1, c2}
    NoOne = NoOne
    File <- FourMoves
    LineAt <- PlainAt
    Chars <- PlainChars
    Fragments = {}
    OnError <- Heat
    RunoutGcode <- Nothing
    Scripts <- PrintPause
    Events <- BreakResume
    ChunkLines = 1
    MaxEvents = 3
INVARIANTS
    PauseCaptures

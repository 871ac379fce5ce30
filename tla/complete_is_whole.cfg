\* The break flag drops lines of a print that is then complete.
SPECIFICATION Spec
CONSTANTS
    SD = SD
    RO = RO
    Clients = {c1, c2}
    NoOne = NoOne
    File <- FourMoves
    LineAt <- PlainAt
    Chars <- PlainChars
    Fragments = {}
    OnError <- Heat
    RunoutGcode <- Nothing
    Scripts <- PrintOnly
    Events <- BreakResume
    ChunkLines = 1
    MaxEvents = 3
INVARIANTS
    CompleteIsWhole

\* A break request that found nobody waiting cuts a later wait short.
SPECIFICATION Spec
CONSTANTS
    SD = SD
    RO = RO
    Clients = {c1, c2}
    NoOne = NoOne
    File <- FourMoves
    LineAt <- PlainAt
    Chars <- PlainChars
    Fragments = {}
    OnError <- Heat
    RunoutGcode <- Nothing
    Scripts <- WaitOnly
    Events <- BreakHeaterOnly
    ChunkLines = 1
    MaxEvents = 2
INVARIANTS
    WaitsForTemperature

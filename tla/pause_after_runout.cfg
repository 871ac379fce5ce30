\* A runout event that came before the print makes PAUSE ineffective.
SPECIFICATION Spec
CONSTANTS
    SD = SD
    RO = RO
    Clients = {c1, c2}
    NoOne = NoOne
    File <- ClearThenMove
    LineAt <- PlainAt
    Chars <- PlainChars
    Fragments = {}
    OnError <- Heat
    RunoutGcode <- Nothing
    Scripts <- MoveThenPrint
    Events <- RunoutOnly
    ChunkLines = 1
    MaxEvents = 3
PROPERTIES
    PauseTakesEffect

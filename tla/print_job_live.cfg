\* Every request is answered; lines are short and an error cancels the print.
SPECIFICATION FairSpec
CONSTANTS
    SD = SD
    RO = RO
    Clients = {c1, c2}
    NoOne = NoOne
    File <- FourMoves
    LineAt <- PlainAt
    Chars <- PlainChars
    Fragments = {}
    OnError <- Cancel
    RunoutGcode <- Nothing
    Scripts <- UserScripts
    Events <- PanelEvents
    ChunkLines = 3
    MaxEvents = 3
PROPERTIES
    RequestServed

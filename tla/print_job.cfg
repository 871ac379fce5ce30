\* One print with everything that may interfere with it.
SPECIFICATION Spec
CONSTANTS
    SD = SD
    RO = RO
    Clients = {c1, c2}
    NoOne = NoOne
    File <- MixedLines
    LineAt <- MixedAt
    Chars <- MixedChars
    Fragments <- Rests
    OnError <- Heat
    RunoutGcode <- Nothing
    Scripts <- AllScripts
    Events <- AllEvents
    ChunkLines = 1
    MaxEvents = 4
INVARIANTS
    IInv
    OneScriptAtATime
    FileOpenWhenUsed
    PositionExact
    StatsTruthful
    NoWaitCycle
PROPERTIES
    PauseStopsPrint
    OnlyStaleBreaks
    ImplementsLifecycle

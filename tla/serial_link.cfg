SPECIFICATION FairSpec
CONSTANTS
    SeqMod = 3
    MaxPending = 2
    Window = 2
    MaxMsgs = 3
    MaxIncidents = 1
INVARIANTS
    
    
    WindowRespected
    UnackedIsTimed
    NoLostWakeup
PROPERTIES
    ImplementsChannel
    NakNotRepeated
    AllAcknowledged
    CompletionArrives
\* The commands to be queued are used up.
CHECK_DEADLOCK FALSE

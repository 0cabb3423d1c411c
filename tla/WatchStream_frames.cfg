SPECIFICATION FairSpec
CONSTANTS
    Documents <- MCDocuments
    SidecarFrames <- MCFrames
    MaxFrames = 2
INVARIANTS
    TypeOK
    FramesDispatched
    CutInventsNothing
PROPERTIES
    EndedStreamReturns
CHECK_DEADLOCK FALSE

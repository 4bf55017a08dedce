SPECIFICATION FairShellSpec
CONSTANTS
    MaxPages = 3
    NoKill = NoKill
INVARIANTS OneQuestionAtATime NoEngineLeft
PROPERTIES KillsOnlyTheAsked BrokenPageIsOffered EngineFailureIsSaid DialogStays
CHECK_DEADLOCK FALSE

SPECIFICATION FairHistorySpec
CONSTANTS
    ada = ada
    ben = ben
    t1 = t1
    t2 = t2
    pos = pos
    neg = neg
    SignedIn = ada
    Coder <- MCCoder
    Target <- MCTarget
    Selection <- MCSelection
    Code <- MCCode
    Begins <- MCBegins
    NoJob = NoJob
    NoEntry = NoEntry
    MaxHistory = 2
    MaxPresses = 2
    MaxKeys = 2
    MaxFaults = 1
    MaxSwitches = 1
INVARIANTS EachStepOnce StacksAreTheCoders UndoneIsRestored
PROPERTIES UndoKeepsAValue AllSettles
CHECK_DEADLOCK FALSE

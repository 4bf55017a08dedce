SPECIFICATION FairSpec
CONSTANTS
    turn = turn  now = now  create = create  again = again
    Writer = {turn, create}
    TypeOf <- TurnAndDownload
    Turning = {turn}
    Keep <- KeepOne
    Library <- EarlierRun
    MaxClock = 1
    MaxSnapshots = 3
    MaxRestarts = 1
PROPERTIES NeverOverwritten RotatesTheOldest SendsWhatItMade StagingIsSwept

SPECIFICATION Spec
CONSTANTS
    turn = turn  now = now  create = create  again = again
    Writer = {turn, now}
    TypeOf <- TurnAndNow
    Turning = {turn}
    Keep <- KeepAuto
    Library <- NoBackup
    MaxClock = 0
    MaxSnapshots = 2
    MaxRestarts = 0
PROPERTIES NeverOverwritten

SPECIFICATION Spec
CONSTANTS
    Engine = {e1}
    Nothing = Nothing
    v = v  a = a  c1 = c1  c2 = c2  c3 = c3
    Path = {v, a}
    Video = {v}
    Content = {c1, c2, c3}
    LockKinds = {"unsupported"}
    ForceStop = TRUE
    MovesFail = FALSE
    MaxCloses = 1
    MaxRestores = 2
    MaxCrashes = 1
    Installed <- VideoAndAudio
    Library <- TwoArchives
INVARIANTS NotStartedChangedNothing NothingLeftAside
PROPERTIES LeavesTheBackup KeptOnlyGoesBack
CHECK_DEADLOCK FALSE

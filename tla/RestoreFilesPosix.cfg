SPECIFICATION Spec
CONSTANTS
    Engine = {e1, e2}
    Nothing = Nothing
    v = v  a = a  c1 = c1  c2 = c2  c3 = c3
    Path = {v}
    Video = {v}
    Content = {c1, c2, c3}
    LockKinds = {"flock"}
    ForceStop = FALSE
    MovesFail = TRUE
    MaxCloses = 1
    MaxRestores = 2
    MaxCrashes = 2
    Installed <- OneVideo
    Library <- TwoArchives
INVARIANTS RecordingsKept CanGoBack
PROPERTIES KeepsLocalVideo
CHECK_DEADLOCK FALSE

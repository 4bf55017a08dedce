SPECIFICATION FairSpec
CONSTANTS
    Target = {t1, t2}
    Vote = {yes, bad}
    Raises = {bad}
    Sweep = Sweep
    Button = Button
    Drainer = {Sweep, Button}
    Limit = 1
    MaxEdits = 3
    MaxLocked = 1
INVARIANTS BoundedCall StaleIsMarkedOvertakenOrReused
PROPERTIES EveryMarkerIsAttempted HealthyIsDrained

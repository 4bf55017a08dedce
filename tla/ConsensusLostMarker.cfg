SPECIFICATION Spec
CONSTANTS
    Target = {t1}
    Vote = {yes, no, bad}
    Raises = {bad}
    Sweep = Sweep
    Button = Button
    Drainer = {Sweep}
    Limit = 1
    MaxEdits = 2
    MaxLocked = 0
INVARIANTS StaleIsMarked

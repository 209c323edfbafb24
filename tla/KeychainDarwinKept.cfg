SPECIFICATION Spec
CONSTANTS
    Procs = {p1}
    Accounts = {a1}
    TTLs = {0, 1}
    Commands = {"remember"}
    MaxRuns = 2
    MaxTime = 2
    MaxFaults = 0
    Nothing = Nothing
INVARIANTS KeptUntilForgotten
CHECK_DEADLOCK FALSE

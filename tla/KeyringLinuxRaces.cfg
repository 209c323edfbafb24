SPECIFICATION Spec
CONSTANTS
    Procs = {p1, p2}
    TTLs = {0, 2}
    Commands = {"remember", "open", "forget"}
    MaxRuns = 2
    MaxTime = 2
    MaxFaults = 1
    Nothing = Nothing
SYMMETRY MCSymmetry
INVARIANTS NeverLate WithdrawnIsGone UsableEverywhere KeptUntilForgotten
PROPERTIES KeyringKeepsPromise
CHECK_DEADLOCK FALSE

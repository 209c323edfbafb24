SPECIFICATION Spec
CONSTANTS
    Procs = {p1, p2, p3}
    Ops = {"set", "change", "purge", "passwd", "remember"}
    Forces = {TRUE, FALSE}
    RunAfter = {"none", "refused"}
    MaxRuns = 2
    MaxFaults = 1
    Origin = Origin
    NoFile = NoFile
    Torn = Torn
    NoKey = NoKey
SYMMETRY MCSymmetry
INVARIANTS NoLostUpdate Openable RefusalIsReal FailedNotWritten
PROPERTIES RevAdvances
CHECK_DEADLOCK FALSE

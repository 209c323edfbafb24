SPECIFICATION FairSpec
CONSTANTS
    Procs = {p1, p2, p3}
    Ops = {"set"}
    Forces = {FALSE}
    RunAfter = {"none", "refused", "error"}
    MaxRuns = 4
    MaxFaults = 1
    Origin = Origin
    NoFile = NoFile
    Torn = Torn
    NoKey = NoKey
PROPERTIES Converges
CHECK_DEADLOCK FALSE

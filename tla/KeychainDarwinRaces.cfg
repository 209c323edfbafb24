SPECIFICATION FairSpec
CONSTANTS
    Procs = {p1, p2}
    Accounts = {a1}
    TTLs = {0, 1}
    Commands = {"remember", "open", "forget"}
    MaxRuns = 2
    MaxTime = 2
    MaxFaults = 1
    Nothing = Nothing
INVARIANTS NeverLate ForgottenIsGone
PROPERTIES KeychainKeepsPromise SleeperDeletes
CHECK_DEADLOCK FALSE

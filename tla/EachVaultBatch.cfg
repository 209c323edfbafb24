SPECIFICATION FairSpec
CONSTANTS
    N = 3
    Workers = 2
    Passphrases = {pw1, pw2}
    Remembered = Remembered
    Damaged = Damaged
    GaveUp = GaveUp
    Unrunnable = Unrunnable
    NoSource = NoSource
    Unfinished = Unfinished
INVARIANTS
    NewestSuffices
    Accounted
    OnePromptPerPassphrase
PROPERTIES
    BatchKeepsPromise
    Ends
CHECK_DEADLOCK FALSE

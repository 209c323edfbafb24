SPECIFICATION Spec
CONSTANTS
    N = 4
    Passphrases = {a1, a2, a3}
    Damaged = Damaged
SYMMETRY MCSymmetry
INVARIANTS OnePrompt NothingLeft
PROPERTIES ChainKeepsPromise
CHECK_DEADLOCK FALSE

SPECIFICATION Spec
CONSTANTS
    Dir = "SCHAIN_DIR"
    Home = "HOME"
    User = "USER"
    Other = {"h"}
    Typed = {"$", "{", "}", "HOME", "USER"}
    Length = 8
INVARIANTS ExpandsAsWritten CallersAgree
CHECK_DEADLOCK FALSE

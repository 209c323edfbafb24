SPECIFICATION Spec
CONSTANTS
    Dirs <- MCDirs
    Mains <- MCMains
    Admin = {"e"}
    Free = Free
    None = None
    Events = {"vault"}
    Worktrees <- MCWorktrees
    Keys = {"A", "HOME", "SCHAIN_KEYS"}
    Home = "HOME"
    Marker = "SCHAIN_KEYS"
    Literals <- MCLiterals
    HomeDir <- MCHomeDir
    Unset = Unset
    Colons = {}
    Contents <- MCTree
    MaxDepth = 3
    MaxLoads = 3
    MaxChanges = 1
INVARIANTS TypeOK EnvIsTheMerge OwnKept ChainKept
CHECK_DEADLOCK FALSE

SPECIFICATION Spec
CONSTANTS
    Dirs <- MCDirs
    Mains <- MCMains
    Admin = {"e"}
    Free = Free
    None = None
    Events = {"vault"}
    Worktrees <- MCWorktrees
    Keys = {"A", "HOME", "SCHAIN_KEYS"}
    Home = "HOME"
    Marker = "SCHAIN_KEYS"
    Literals <- MCLiterals
    HomeDir <- MCHomeDir
    Unset = Unset
    Colons = {}
    Contents <- MCOne
    MaxDepth = 3
    MaxLoads = 2
    MaxChanges = 1
INVARIANT DirFollowsVault
CHECK_DEADLOCK FALSE

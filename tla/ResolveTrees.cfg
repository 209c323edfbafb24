SPECIFICATION Spec
CONSTANTS
    Dirs <- MCDirs
    Mains <- MCMains
    Admin = {e1, e2}
    Free = Free
    None = None
    Events = {"vault", "worktree", "clone", "submodule", "copy", "move", "repair", "prune"}
SYMMETRY MCSymmetry
INVARIANTS TypeOK NearestFirst NothingMissed OnlyRegistered SamePrecedence ReportTrue
CHECK_DEADLOCK FALSE

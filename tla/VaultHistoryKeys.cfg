SPECIFICATION Spec
CONSTANTS
    Keys = {k1, k2}
    Vals = {v1}
    Expandable = {v1}
    DefaultHistory = 3
    Counts = {0, 1, 3}
    Unset = Unset
    Garbage = Garbage
    Absent = Absent
    NoRevert = NoRevert
    MaxArgs = 2
SYMMETRY MCSymmetry
INVARIANTS WellFormed HistoryFaithful PurgeForgets RevertIsKept
PROPERTIES CapHolds

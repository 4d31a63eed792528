CONSTANTS
    Objects <- MCObjects
    Parents <- MCParents
    ParentOf <- MCParentOf
    Lane <- MCLane
    Size <- MCSize
    OldObjects = {"old"}
    Expired = {"r0", "r1"}
    Passes = {p1, p2}
    MaxFailures = 1
    MaxReconciles = 1
SPECIFICATION StorageSpec
PROPERTY WalkRemovesOrphans
CHECK_DEADLOCK FALSE

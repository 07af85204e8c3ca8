SPECIFICATION Spec
CONSTANTS
    Machines = {m1, m2}
    NumSlots = 1
    MaxDisks = 2
    VmIds = {v1, v2}
    ThePool = ThePool  NoDisk = NoDisk  NoFile = NoFile  NoVm = NoVm
    Named = {m1, m2}
    UserDisks = {1}
    Faults = {"update", "command"}
INVARIANTS RunsOnItsOwnDisks OneOwner OneDiskPerFile
PROPERTIES OwnersSpec DataKept
SYMMETRY DiskSymmetry
CHECK_DEADLOCK FALSE

SPECIFICATION FairSpec
CONSTANTS
    Machines = {m1}
    NumSlots = 1
    MaxDisks = 2
    VmIds = {v1, v2, v3}
    ThePool = ThePool  NoDisk = NoDisk  NoFile = NoFile  NoVm = NoVm
    Named = {}
    UserDisks = {1}
    Faults = {"admin", "crash"}
PROPERTIES DeletedDiskGoes RecordedGetsAttached DeletionCompletes
CHECK_DEADLOCK FALSE

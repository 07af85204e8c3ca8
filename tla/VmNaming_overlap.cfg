SPECIFICATION Spec
CONSTANTS
    m1 = m1  m2 = m2  p1 = p1  n1 = n1  n2 = n2  ns1 = ns1  v1 = v1  v2 = v2
    Nobody = Nobody  NoPool = NoPool  NoName = NoName  NoVm = NoVm
    Machines = {m1, m2}
    Pools = {p1}
    Names = {n1}
    VmIds = {v1, v2}
    PoolOf <- PoolBeside
    NameOf <- SharedName
    Presets <- OnePreset
    Namespace <- OneNamespace
    RangeOf <- SameName
    AdoptRange <- SameAdopt
    MaxLate = 1
    Faults = {"command", "crash", "admin"}
SYMMETRY VmSymmetry
INVARIANTS OneRunningPerName RecordedVmHasName
CHECK_DEADLOCK FALSE

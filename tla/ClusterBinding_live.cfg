SPECIFICATION FairSpec
CONSTANTS
    m1 = m1
    Machines = {m1}
    NameOf <- Alike
    Nobody = Nobody
    MaxClusters = 2
    MaxPauses = 1
    MaxFaults = 1
INVARIANTS FinalizerFirst KnowsProvider
PROPERTIES DeletedClusterGoes MachineProceeds DeletedMachineGoes
CHECK_DEADLOCK FALSE

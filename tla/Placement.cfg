SPECIFICATION Spec
CONSTANTS
    m1 = m1
    Node = {n1, n2}
    Model = {m1}
    AnyModel = AnyModel
    Client = Client
    Payload <- MCPayload
    Beat <- MCBeat
    Cpu = {60}
    Needs = {1}
    Layers = {1, 3}
    PerLayer = {0, 1}
    StageCounts = {0, 2}
    Failures = 2
    MaxEvents = 3
    MaxLoad = 2
    Absent = Absent
    NoPlan = NoPlan
SYMMETRY NodeSymmetry
INVARIANTS LoadMatchesAssignments BurstSpreads TasksSpread PlanCoversLayers 
 
CHECK_DEADLOCK FALSE

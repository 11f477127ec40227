SPECIFICATION Spec
CONSTANTS
    p1 = p1
    p2 = p2
    p3 = p3
    v0 = v0
    v1 = v1
    comm1 = comm1
    comm2 = comm2
    mem1 = mem1
    None = None
    NoTask = NoTask
    MaxPairs = 2
    Choice = "greedy"
    Pids = {p1, p2}
    VirtIds = {v0, v1}
    PhysIds = {comm1, comm2, mem1}
    CommPhys = {comm1, comm2}
    UnitModule <- MCUnitModule
    CommVirt <- MCCommVirt
    Work <- MCWork
INVARIANT CheckIsEnough
CHECK_DEADLOCK FALSE

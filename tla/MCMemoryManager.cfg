SPECIFICATION Spec
CONSTANTS
    p1 = p1
    p2 = p2
    None = None
    Pids <- MCPids
    VirtIds <- MCVirtIds
    PhysIds <- MCPhysIds
    CommPhys <- MCCommPhys
    UnitModule <- MCUnitModule
    CommVirt <- MCCommVirt
INVARIANTS
    LookupsInverse
    MappedAsDeclared
    ExhaustedOnlyWhenAllHeld
PROPERTIES
    ImplementsOwnership

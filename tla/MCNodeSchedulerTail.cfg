SPECIFICATION Spec
CONSTANTS
    p1 = p1
    p2 = p2
    NoPid = NoPid
    NoJump = NoJump
    NoTask = NoTask
    Choice = "tails"
    MaxLoops = 1
    PidOrder <- MCPidOrder
    Program <- MCProgram
    Dependency <- NoDependency
INVARIANT JumpLeavesBlock

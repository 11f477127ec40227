SPECIFICATION Spec
CONSTANTS
    p1 = p1
    p2 = p2
    NoPid = NoPid
    NoJump = NoJump
    NoTask = NoTask
    Choice = "mixed"
    MaxLoops = 1
    PidOrder <- MCPidOrder
    Program <- MCProgram
    Dependency <- NoDependency
INVARIANTS
    OneBlockInFlight
    QpuWorkIsAwaited
    BlockOrder
    NoLostWakeup
    NoProgramForgotten
PROPERTY
    ImplementsControl

SPECIFICATION FairSpec
CONSTANTS
    p1 = p1
    p2 = p2
    NoPid = NoPid
    NoJump = NoJump
    NoTask = NoTask
    Choice = "loops"
    MaxLoops = 1
    PidOrder <- MCPidOrder
    Program <- MCProgram
    Dependency <- Linear
PROPERTY EveryProgramEnds

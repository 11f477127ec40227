SPECIFICATION Spec
CONSTANTS
    p1 = p1
    p2 = p2
    NoRoutine = NoRoutine
    NoPid = NoPid
    Unset = Unset
    Pids = {p1, p2}
    VirtIds = {0, 1}
    Regs = {"C0", "C1", "Q0", "Q1", "M0", "M1", "R0"}
    Vars <- MCVars
    Inputs <- MCInputs
    Program <- MCProgram
    LocalRoutine <- MCLocalRoutine
    RequestRoutine <- MCRequestRoutine
INVARIANTS
    EveryAccessIsLegal
    CallbackFindsItsCall
    ResultsAreOfTheirPairs
    ReturnsWhatItComputes
PROPERTY
    WrittenOnce
CHECK_DEADLOCK FALSE

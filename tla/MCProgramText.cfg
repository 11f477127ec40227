SPECIFICATION Spec
CONSTANTS
    Identifiers <- MCIdentifiers
    Numerals = {"0", "1", "2"}
    Decimals = {"0.9"}
    ToInt <- MCToInt
    Texts <- MCTexts
    Inputs <- MCInputs
INVARIANTS
    OnlyTheTailIsLost
    KindOfLastWrite
    CopyIsFaithful
    RequestsWithInputsStart
PROPERTY
    ParserEnds
CHECK_DEADLOCK FALSE

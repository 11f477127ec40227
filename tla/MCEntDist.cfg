SPECIFICATION Spec
CONSTANTS
    A = A
    B = B
    C = C
    None = None
    NoSchedule = NoSchedule
    NodeOrder <- MCNodeOrder
    Wants <- MCWants
    Schedules <- MCSchedules
    DeliveryTimes = {1, 3}
INVARIANTS
    ServedPairIsAwaited
    AnswersAreCurrent
    WakeUpsAreBacked
PROPERTIES
    GenerationStartsInItsBin
    ForgetsOnlyWhatIsNotForTheBin
    ScheduledRequestsAnswered
    MeetingRequestsServed

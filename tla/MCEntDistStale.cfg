SPECIFICATION Spec
CONSTANTS
    A = A
    B = B
    C = C
    None = None
    NoSchedule = NoSchedule
    NodeOrder <- MCNodeOrder
    Wants <- MCWants
    Schedules = {}
    DeliveryTimes = {1}
INVARIANT WakeUpFindsMessage

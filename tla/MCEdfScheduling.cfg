SPECIFICATION Spec
CONSTANTS
    a = a
    b = b
    alice = alice
    bob = bob
    none = none
    NoTask = NoTask
    NoTime = NoTime
    NoSchedule = NoSchedule
    MaxTime = 6
    MaxFailures = 1
    Peers = {alice, bob}
    Schedules <- MCSchedules
    Uploads <- MCUploads
INVARIANTS
    BinsAreNext
    MessagesReachTheirProgram
PROPERTIES
    EarliestDueFirst
    BinNotMissed
    EveryTaskRuns
CHECK_DEADLOCK FALSE

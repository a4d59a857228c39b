\* The structure of the queue, with a wall clock that may jump.
CONSTANTS
    Request = {r1, r2, r3, r4, r5}
    MaxConcurrentJobs = 2
    MaxPendingJobs = 2
    MaxQueueWait = 2
    MaxJobDuration = 4
    HandlerTimeout = 6
    TimerLag = 1
    ClockSteps <- StepBackOrForward
    MaxClockSteps = 1
SYMMETRY RequestSymmetry
SPECIFICATION Spec
INVARIANTS
    SlotsInUse
    QueueHoldsTheWaiting
    HealthMirrorsScheduler
PROPERTIES
    NoStartWithoutBudget
    StartsInOrder
    ImplementsService

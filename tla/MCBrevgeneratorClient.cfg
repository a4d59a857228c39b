\* Two calls with one retry each against one slot and one place in the queue,
\* with a steady wall clock.
CONSTANTS
    Call = {c1, c2}
    StartupCheck = w
    Warmup = w
    MaxAttempts = 2
    RetryAfter = 1
    MaxRetryAfterDelay = 1
    Request <- Attempts
    MaxConcurrentJobs = 1
    MaxPendingJobs = 1
    MaxQueueWait = 2
    MaxJobDuration = 3
    HandlerTimeout = 5
    TimerLag = 1
    ClockSteps <- NoSteps
    MaxClockSteps = 0
SPECIFICATION FairCallSpec
INVARIANTS
    CancelledIsUnseen
    ReplyTellsOutcome
    RendersAtMostOnce
    TotalBelowBackstop
PROPERTIES
    EveryCallEnds
    QueuedIsAnswered

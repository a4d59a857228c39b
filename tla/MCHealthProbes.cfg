\* The thresholds of the defaults (in units of 5 s), and a kubelet that acts on
\* the first failed liveness probe.
CONSTANTS
    Job = {j1, j2}
    MaxConcurrentJobs = 2
    StallThreshold = 4
    RecoveryGrace = 4
    MonitorInterval = 1
    JobDuration = 10
    MaxQueueWait = 6
    ReadinessPeriod = 1
    ReadinessFailures = 3
    LivenessPeriod = 2
    LivenessFailures = 1
SYMMETRY JobSymmetry
SPECIFICATION Spec
INVARIANTS
    UnreadyMeansAllStuck
    StallIsNoticed
    RestartIsLastResort
PROPERTIES
    DegradesInOrder

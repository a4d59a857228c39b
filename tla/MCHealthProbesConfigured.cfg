\* The defaults and the probes of .nais/api.yaml, in units of 5 s.
CONSTANTS
    Job = {j1, j2}
    MaxConcurrentJobs = 2
    StallThreshold = 4
    RecoveryGrace = 4
    MonitorInterval = 1
    JobDuration = 10
    MaxQueueWait = 6
    ReadinessPeriod = 1
    ReadinessFailures = 3
    LivenessPeriod = 2
    LivenessFailures = 3
SPECIFICATION FairSpec
PROPERTIES
    WedgeLeadsToRestart

----------------------------- MODULE HealthProbes -----------------------------
(***************************************************************************)
(* RendererHealth between the two parties that make it matter: jobs that   *)
(* run in the scheduler's slots and end when their generation budget does, *)
(* and the kubelet, which probes /health/readiness and /health/liveness    *)
(* (http/routes/health.ts) as .nais/api.yaml configures it.                *)
(*                                                                         *)
(* Once the renderer is wedged its jobs report no progress any more, end   *)
(* by their budget alone, and the queue refills every slot that is freed.  *)
(* One unit of time is the 5 s that all the configured times are multiples *)
(* of.  The kubelet is external.                                           *)
(***************************************************************************)
EXTENDS RendererHealth

CONSTANTS
    JobDuration,          \* GENERATION_MAX_DURATION_MS
    MaxQueueWait,         \* GENERATION_MAX_QUEUE_WAIT_MS
    ReadinessPeriod, ReadinessFailures,
    LivenessPeriod, LivenessFailures

\* The scheduler's constructor, "otherwise the probes would be decorative".
ASSUME ThresholdsWithinJob == StallThreshold + RecoveryGrace < JobDuration
ASSUME ProbeLimits ==
    /\ JobDuration \in Nat /\ MaxQueueWait \in Nat \ {0} /\ MaxQueueWait < JobDuration
    /\ ReadinessPeriod \in Nat \ {0} /\ ReadinessFailures \in Nat \ {0}
    /\ LivenessPeriod \in Nat \ {0} /\ LivenessFailures \in Nat \ {0}

VARIABLES
    budget,      \* what is left of each job's generation budget
    wedged,      \* the renderer has stopped making progress for good
    readiness,   \* [next |-> time to the next probe, failures |-> in a row]
    liveness,
    podReady,    \* the pod receives traffic
    restarted    \* the kubelet has restarted the container

probeVars == <<readiness, liveness, podReady, restarted>>
vars == <<healthVars, budget, wedged, probeVars>>

Slots == DOMAIN activeJobs

Init ==
    /\ HealthInit
    /\ budget = [j \in Job |-> 0]
    /\ wedged = FALSE
    /\ readiness = [next |-> ReadinessPeriod, failures |-> 0]
    /\ liveness = [next |-> LivenessPeriod, failures |-> 0]
    /\ podReady = TRUE
    /\ restarted = FALSE

-----------------------------------------------------------------------------
BudgetAfter(wait) == JobDuration - wait

\* A job starts, after any wait the queue allows.
JobStarts(j, wait) ==
    /\ Cardinality(Slots) < MaxConcurrentJobs
    /\ StartJob(j)
    /\ budget' = [budget EXCEPT ![j] = BudgetAfter(wait)]
    /\ UNCHANGED <<wedged, probeVars>>

JobProgresses(j) ==
    /\ ~wedged
    /\ Progress(j)
    /\ UNCHANGED <<budget, wedged, probeVars>>

\* A job ends when it is done, or when its budget is.
JobEnds(j) ==
    /\ ~wedged \/ budget[j] = 0
    /\ Complete(j)
    /\ budget' = [budget EXCEPT ![j] = 0]
    /\ UNCHANGED <<wedged, probeVars>>

\* The queue behind the slots never runs dry from here on.
Wedge ==
    /\ ~wedged
    /\ wedged' = TRUE
    /\ UNCHANGED <<healthVars, budget, probeVars>>

\* A request joins or leaves the queue.
QueueChanges ==
    /\ SetPendingJobs
    /\ UNCHANGED <<budget, wedged, probeVars>>

MonitorFires ==
    /\ Monitor
    /\ UNCHANGED <<budget, wedged, probeVars>>

-----------------------------------------------------------------------------
Probed(probe, period, ok) ==
    [next |-> period, failures |-> IF ok THEN 0 ELSE probe.failures + 1]

ProbeReadiness ==
    /\ readiness.next = 0
    /\ readiness' = Probed(readiness, ReadinessPeriod, Ready(Snapshot(activeJobs)))
    /\ podReady' = IF readiness'.failures = 0 THEN TRUE
                   ELSE podReady /\ readiness'.failures < ReadinessFailures
    /\ UNCHANGED <<healthVars, budget, wedged, liveness, restarted>>

LivenessAnswer_bug == Ready(Snapshot(activeJobs))

LivenessAnswer == Live(Snapshot(activeJobs))

ProbeLiveness ==
    /\ liveness.next = 0
    /\ liveness' = Probed(liveness, LivenessPeriod, LivenessAnswer)
    /\ restarted' = (liveness'.failures = LivenessFailures)
    /\ UNCHANGED <<healthVars, budget, wedged, readiness, podReady>>

\* Time passes once everything that is due has happened.
Tick ==
    /\ readiness.next > 0 /\ liveness.next > 0
    /\ \A j \in Slots : budget[j] > 0
    /\ wedged => Cardinality(Slots) = MaxConcurrentJobs
    /\ HealthTick
    /\ budget' = [j \in Job |-> IF j \in Slots THEN budget[j] - 1 ELSE 0]
    /\ readiness' = [readiness EXCEPT !.next = @ - 1]
    /\ liveness' = [liveness EXCEPT !.next = @ - 1]
    /\ UNCHANGED <<wedged, podReady, restarted>>

Running ==
    \/ \E j \in Job, wait \in {0, MaxQueueWait - 1} : JobStarts(j, wait)
    \/ \E j \in Job : JobProgresses(j)
    \/ \E j \in Job : JobEnds(j)
    \/ Wedge
    \/ QueueChanges
    \/ MonitorFires
    \/ ProbeReadiness
    \/ ProbeLiveness
    \/ Tick

Next ==
    \/ ~restarted /\ Running
    \/ restarted /\ UNCHANGED vars

Spec == Init /\ [][Next]_vars

\* The event loop and the kubelet go on.  Once the renderer is wedged nothing
\* can happen for ever between two ticks, so this moves time too.
FairSpec == Spec /\ WF_vars(~restarted /\ Running)

-----------------------------------------------------------------------------
TypeOK ==
    /\ HealthTypeOK
    /\ budget \in [Job -> 0..JobDuration]
    /\ wedged \in BOOLEAN
    /\ readiness \in [next : 0..ReadinessPeriod, failures : Nat]
    /\ liveness \in [next : 0..LivenessPeriod, failures : 0..LivenessFailures]
    /\ podReady \in BOOLEAN
    /\ restarted \in BOOLEAN

\* A pod is restarted only after a stall longer than threshold and grace, and
\* has been taken out of the traffic before.
RestartIsLastResort ==
    restarted => /\ ~podReady
                 /\ \A j \in Slots : activeJobs[j] > StallThreshold + RecoveryGrace

\* A wedged renderer does not stay in service: its pod is restarted.
WedgeLeadsToRestart == wedged ~> restarted
=============================================================================

---------------------------- MODULE RendererHealth ----------------------------
(***************************************************************************)
(* RendererHealth of apps/api/src/renderer/health.ts: whether the renderer *)
(* as a whole still makes progress, judged from the progress reports of    *)
(* the running jobs.                                                       *)
(*                                                                         *)
(* There are two views of it.  getSnapshot(), which the probes read, is    *)
(* computed from the clock on every call.  The `state` field, from which   *)
(* transitions are logged and counted, moves only in evaluate(): on job    *)
(* events and on the monitor interval.                                     *)
(*                                                                         *)
(* activeJobs maps a running job to the time since it last reported        *)
(* progress (now - lastProgressAt); beyond QuietCap nothing tells larger   *)
(* values apart.                                                           *)
(***************************************************************************)
EXTENDS Integers, FiniteSets, Functions

CONSTANTS
    Job,                 \* handles of running jobs; reused once completed
    MaxConcurrentJobs,
    StallThreshold,
    RecoveryGrace,
    MonitorInterval

\* The constructor's checks.
ASSUME HealthLimits ==
    /\ MaxConcurrentJobs \in Nat \ {0}
    /\ StallThreshold \in Nat \ {0}
    /\ RecoveryGrace \in Nat \ {0}
    /\ MonitorInterval \in Nat \ {0}

VARIABLES
    activeJobs,
    state,
    sinceMonitor         \* time since the monitor interval last fired

healthVars == <<activeJobs, state, sinceMonitor>>

States == {"healthy", "stalled", "unhealthy"}
QuietCap == StallThreshold + RecoveryGrace + MonitorInterval + 1

HealthInit ==
    /\ activeJobs = [j \in {} |-> 0]
    /\ state = "healthy"
    /\ sinceMonitor = 0

-----------------------------------------------------------------------------
TimeSinceProgress_bug(jobs) ==
    IF DOMAIN jobs = {} THEN 0
    ELSE CHOOSE t \in Range(jobs) : \A u \in Range(jobs) : u <= t

\* Time since the most recently progressing job last reported progress.
TimeSinceProgress(jobs) ==
    IF DOMAIN jobs = {} THEN 0
    ELSE CHOOSE t \in Range(jobs) : \A u \in Range(jobs) : t <= u

AtCapacity(jobs) == Cardinality(DOMAIN jobs) >= MaxConcurrentJobs

\* computeSnapshot().state
Snapshot(jobs) ==
    IF ~AtCapacity(jobs) \/ TimeSinceProgress(jobs) <= StallThreshold THEN "healthy"
    ELSE IF TimeSinceProgress(jobs) - StallThreshold > RecoveryGrace THEN "unhealthy"
    ELSE "stalled"

Ready(s) == s = "healthy"
Live(s) == s # "unhealthy"

Evaluate_bug(jobs) == UNCHANGED state

\* evaluate()
Evaluate(jobs) == state' = Snapshot(jobs)

SetJobs(jobs) ==
    /\ activeJobs' = jobs
    /\ Evaluate(jobs)

StartJob(j) ==
    /\ j \notin DOMAIN activeJobs
    /\ SetJobs([k \in DOMAIN activeJobs \cup {j} |-> IF k = j THEN 0 ELSE activeJobs[k]])
    /\ UNCHANGED sinceMonitor

Progress(j) ==
    /\ j \in DOMAIN activeJobs
    /\ SetJobs([activeJobs EXCEPT ![j] = 0])
    /\ UNCHANGED sinceMonitor

Complete(j) ==
    /\ j \in DOMAIN activeJobs
    /\ SetJobs([k \in DOMAIN activeJobs \ {j} |-> activeJobs[k]])
    /\ UNCHANGED sinceMonitor

\* The number itself is only reported (GenerationScheduler.health.pending).
SetPendingJobs ==
    /\ Evaluate(activeJobs)
    /\ UNCHANGED <<activeJobs, sinceMonitor>>

Monitor_bug ==
    /\ sinceMonitor = MonitorInterval
    /\ sinceMonitor' = 0
    /\ UNCHANGED <<activeJobs, state>>

\* The interval timer: evaluate() on its own account.
Monitor ==
    /\ sinceMonitor = MonitorInterval
    /\ sinceMonitor' = 0
    /\ Evaluate(activeJobs)
    /\ UNCHANGED activeJobs

Longer(t) == IF t < QuietCap THEN t + 1 ELSE t

\* Time passes; nothing is evaluated.
HealthTick ==
    /\ sinceMonitor < MonitorInterval
    /\ sinceMonitor' = sinceMonitor + 1
    /\ activeJobs' = [j \in DOMAIN activeJobs |-> Longer(activeJobs[j])]
    /\ UNCHANGED state

-----------------------------------------------------------------------------
HealthTypeOK ==
    /\ DOMAIN activeJobs \subseteq Job
    /\ \A j \in DOMAIN activeJobs : activeJobs[j] \in 0..QuietCap
    /\ state \in States
    /\ sinceMonitor \in 0..MonitorInterval

\* "Readiness fails only when every generation slot has stopped making progress
\* beyond the stall threshold": one job that reports, or one free slot, keeps
\* the pod ready.
UnreadyMeansAllStuck ==
    ~Ready(Snapshot(activeJobs)) =>
        /\ Cardinality(DOMAIN activeJobs) >= MaxConcurrentJobs
        /\ \A j \in DOMAIN activeJobs : activeJobs[j] > StallThreshold

\* The logged state is late, but by less than a monitor interval: a stall is
\* noticed although no job event comes to evaluate it.
StallIsNoticed ==
    /\ state = "healthy" /\ AtCapacity(activeJobs) =>
           TimeSinceProgress(activeJobs) <= StallThreshold + MonitorInterval
    /\ state # "unhealthy" /\ AtCapacity(activeJobs) =>
           TimeSinceProgress(activeJobs) <= StallThreshold + RecoveryGrace + MonitorInterval

\* Readiness is lost before liveness: the state does not skip "stalled" on its
\* way down as long as the monitor runs within the recovery grace and no job
\* runs beyond the capacity assumed here (as in HealthProbes).
DegradesInOrder ==
    [][state = "healthy" => state' # "unhealthy"]_healthVars
=============================================================================

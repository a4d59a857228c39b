------------------------- MODULE HealthProbes_proofs -------------------------
(***************************************************************************)
(* Proofs about RendererHealth under HealthProbes, for every number of     *)
(* slots, all thresholds and all periods of the probes.                    *)
(***************************************************************************)
EXTENDS HealthProbes, FiniteSetTheorems, WellFoundedInduction, TLAPS

-----------------------------------------------------------------------------
(* What a snapshot says.                                                    *)

JobsOK(jobs) ==
    /\ IsFiniteSet(DOMAIN jobs)
    /\ \A j \in DOMAIN jobs : jobs[j] \in Nat

\* Every slot is taken by a job that has been silent for longer than t.
Stuck(jobs, t) ==
    /\ AtCapacity(jobs)
    /\ \A j \in DOMAIN jobs : jobs[j] > t

\* The most recent progress is the least silence.
LEMMA LeastSilence ==
    ASSUME NEW jobs, JobsOK(jobs), DOMAIN jobs # {}
    PROVE  /\ TimeSinceProgress(jobs) \in Range(jobs)
           /\ \A j \in DOMAIN jobs : TimeSinceProgress(jobs) <= jobs[j]
<1> DEFINE S == Range(jobs)
           R == OpToRel(<, Nat)
<1>1. S \in SUBSET Nat /\ S # {}
  BY DEF JobsOK, Range
<1>2. IsWellFoundedOn(R, Nat)
  BY NatLessThanWellFounded
<1>3. PICK t \in S : \A u \in S : t <= u
  <2>1. PICK t \in S : \A u \in S : <<u, t>> \notin R
    <3> HIDE DEF S, R
    <3> QED
      BY <1>1, <1>2, WFMin
  <2>2. \A u \in S : u < t => <<u, t>> \in R
    BY <1>1 DEF OpToRel
  <2> HIDE DEF S, R
  <2>3. \A u \in S : ~(u < t)
    BY <2>1, <2>2
  <2> QED
    BY <1>1, <2>3
<1>4. TimeSinceProgress(jobs) = CHOOSE v \in S : \A u \in S : v <= u
  BY DEF TimeSinceProgress
<1>5. TimeSinceProgress(jobs) \in S /\ \A u \in S : TimeSinceProgress(jobs) <= u
  <2> HIDE DEF S
  <2> QED
    BY <1>3, <1>4
<1> QED
  BY <1>5 DEF Range

LEMMA AtCapacityIsNotEmpty ==
    ASSUME NEW jobs, JobsOK(jobs), AtCapacity(jobs)
    PROVE  DOMAIN jobs # {}
BY FS_EmptySet, HealthLimits DEF JobsOK, AtCapacity

LEMMA SilenceBeyond ==
    ASSUME NEW jobs, JobsOK(jobs), AtCapacity(jobs), NEW t \in Nat
    PROVE  TimeSinceProgress(jobs) > t <=> \A j \in DOMAIN jobs : jobs[j] > t
<1>1. TimeSinceProgress(jobs) \in Range(jobs)
      /\ \A j \in DOMAIN jobs : TimeSinceProgress(jobs) <= jobs[j]
  BY LeastSilence, AtCapacityIsNotEmpty
<1>2. PICK k \in DOMAIN jobs : TimeSinceProgress(jobs) = jobs[k]
  BY <1>1 DEF Range
<1> QED
  BY <1>1, <1>2 DEF JobsOK

\* The snapshot, without a clock or a least element.
LEMMA SnapshotMeans ==
    ASSUME NEW jobs, JobsOK(jobs)
    PROVE  /\ Snapshot(jobs) \in States
           /\ Snapshot(jobs) = "healthy" <=> ~Stuck(jobs, StallThreshold)
           /\ Snapshot(jobs) = "unhealthy" <=> Stuck(jobs, StallThreshold + RecoveryGrace)
<1>1. CASE ~AtCapacity(jobs)
  BY <1>1 DEF Snapshot, Stuck, States
<1>2. CASE AtCapacity(jobs)
  <2> DEFINE time == TimeSinceProgress(jobs)
  <2>1. time \in Nat
    BY <1>2, LeastSilence, AtCapacityIsNotEmpty DEF Range, JobsOK
  <2>2. /\ StallThreshold \in Nat /\ RecoveryGrace \in Nat
        /\ StallThreshold + RecoveryGrace \in Nat
    BY HealthLimits
  <2>3. /\ time > StallThreshold <=> Stuck(jobs, StallThreshold)
        /\ time > StallThreshold + RecoveryGrace <=> Stuck(jobs, StallThreshold + RecoveryGrace)
    BY <1>2, <2>2, SilenceBeyond DEF Stuck
  <2>4. Snapshot(jobs) = IF time <= StallThreshold THEN "healthy"
                         ELSE IF time - StallThreshold > RecoveryGrace THEN "unhealthy"
                         ELSE "stalled"
    BY <1>2 DEF Snapshot
  <2> HIDE DEF time
  <2> QED
    BY <2>1, <2>2, <2>3, <2>4 DEF States
<1> QED
  BY <1>1, <1>2

LEMMA StuckLonger ==
    ASSUME NEW jobs, JobsOK(jobs), NEW t \in Nat, NEW u \in Nat, t <= u, Stuck(jobs, u)
    PROVE  Stuck(jobs, t)
BY DEF Stuck, JobsOK

-----------------------------------------------------------------------------
(* Types, and no more jobs than slots.                                      *)

SlotsOK ==
    /\ IsFiniteSet(Slots)
    /\ Cardinality(Slots) <= MaxConcurrentJobs

\* The container is restarted at the last of the failures that are asked for.
TypeInv == TypeOK /\ SlotsOK /\ (~restarted => liveness.failures < LivenessFailures)

LEMMA Limits ==
    /\ StallThreshold \in Nat \ {0} /\ RecoveryGrace \in Nat \ {0} /\ MonitorInterval \in Nat \ {0}
    /\ JobDuration \in Nat /\ MaxQueueWait \in Nat \ {0} /\ MaxQueueWait < JobDuration
    /\ ReadinessPeriod \in Nat \ {0} /\ ReadinessFailures \in Nat \ {0}
    /\ LivenessPeriod \in Nat \ {0} /\ LivenessFailures \in Nat \ {0}
    /\ QuietCap \in Nat
BY HealthLimits, ProbeLimits DEF QuietCap

LEMMA JobsAreOK == ASSUME TypeInv PROVE JobsOK(activeJobs)
BY Limits DEF TypeInv, TypeOK, HealthTypeOK, SlotsOK, Slots, JobsOK

LEMMA TypedAtFirst == Init => TypeInv
<1> SUFFICES ASSUME Init PROVE TypeInv
  OBVIOUS
<1>1. Slots = {}
  BY DEF Init, HealthInit, Slots
<1>2. IsFiniteSet(Slots) /\ Cardinality(Slots) = 0
  BY <1>1, FS_EmptySet
<1>3. SlotsOK
  BY <1>2, HealthLimits DEF SlotsOK
<1>4. HealthTypeOK
  BY <1>1, Limits DEF Init, HealthInit, HealthTypeOK, States, Slots
<1>5. /\ budget \in [Job -> 0..JobDuration]
      /\ readiness \in [next : 0..ReadinessPeriod, failures : Nat]
      /\ liveness \in [next : 0..LivenessPeriod, failures : 0..LivenessFailures]
      /\ liveness.failures < LivenessFailures
  BY Limits DEF Init
<1>6. wedged \in BOOLEAN /\ podReady \in BOOLEAN /\ restarted \in BOOLEAN
  BY Zenon DEF Init
<1> QED
  BY <1>3, <1>4, <1>5, <1>6 DEF TypeInv, TypeOK

\* What the health of the jobs has to do with a step: the handlers evaluate it anew.
Evaluated == state' = Snapshot(activeJobs')

LEMMA StepEvaluates ==
    ASSUME Next
    PROVE  \/ Evaluated
           \/ UNCHANGED state /\ UNCHANGED <<activeJobs, sinceMonitor>>
           \/ UNCHANGED state /\ HealthTick
BY DEF Next, Running, JobStarts, JobProgresses, JobEnds, Wedge, QueueChanges, MonitorFires,
       ProbeReadiness, ProbeLiveness, Tick, StartJob, Progress, Complete, SetPendingJobs,
       Monitor, SetJobs, Evaluate, Evaluated, HealthTick, vars, healthVars

LEMMA StaysTyped == TypeInv /\ Next => TypeInv'
<1> SUFFICES ASSUME TypeInv, Next PROVE TypeInv'
  OBVIOUS
<1> USE Limits
<1>1. JobsOK(activeJobs)
  BY JobsAreOK
<1>2. ASSUME NEW jobs, JobsOK(jobs) PROVE Snapshot(jobs) \in States
  BY <1>2, SnapshotMeans
<1>3. ASSUME NEW j \in Job, NEW wait \in {0, MaxQueueWait - 1}, ~restarted, JobStarts(j, wait)
      PROVE  TypeInv'
  <2>1. /\ Slots' = Slots \cup {j} /\ j \notin Slots
        /\ Cardinality(Slots) < MaxConcurrentJobs
        /\ \A k \in Slots' : activeJobs'[k] \in 0..QuietCap
        /\ state' = Snapshot(activeJobs')
        /\ UNCHANGED <<sinceMonitor, wedged, probeVars>>
        /\ budget' = [budget EXCEPT ![j] = BudgetAfter(wait)]
    BY <1>3 DEF JobStarts, StartJob, SetJobs, Evaluate, Slots, TypeInv, TypeOK, HealthTypeOK
  <2>2. /\ IsFiniteSet(Slots')
        /\ Cardinality(Slots') = Cardinality(Slots) + 1
        /\ Cardinality(Slots) \in Nat
    BY <2>1, FS_AddElement, FS_CardinalityType DEF TypeInv, SlotsOK
  <2>3. JobsOK(activeJobs') /\ SlotsOK'
    BY <2>1, <2>2, HealthLimits DEF JobsOK, SlotsOK, Slots
  <2>4. state' \in States
    BY <1>2, <2>1, <2>3
  <2>5. budget' \in [Job -> 0..JobDuration]
    BY <2>1 DEF TypeInv, TypeOK, BudgetAfter
  <2> QED
    BY <1>3, <2>1, <2>3, <2>4, <2>5 DEF TypeInv, TypeOK, HealthTypeOK, Slots, probeVars
<1>4. ASSUME NEW j \in Job, ~restarted, JobProgresses(j)
      PROVE  TypeInv'
  <2>1. /\ Slots' = Slots
        /\ \A k \in Slots' : activeJobs'[k] \in 0..QuietCap
        /\ state' = Snapshot(activeJobs')
        /\ UNCHANGED <<sinceMonitor, budget, wedged, probeVars>>
    BY <1>4 DEF JobProgresses, Progress, SetJobs, Evaluate, Slots, TypeInv, TypeOK, HealthTypeOK
  <2>2. JobsOK(activeJobs') /\ SlotsOK'
    BY <2>1 DEF JobsOK, SlotsOK, Slots, TypeInv
  <2>3. state' \in States
    BY <1>2, <2>1, <2>2
  <2> QED
    BY <1>4, <2>1, <2>2, <2>3 DEF TypeInv, TypeOK, HealthTypeOK, Slots, probeVars
<1>5. ASSUME NEW j \in Job, ~restarted, JobEnds(j)
      PROVE  TypeInv'
  <2>1. /\ Slots' = Slots \ {j} /\ j \in Slots
        /\ \A k \in Slots' : activeJobs'[k] \in 0..QuietCap
        /\ state' = Snapshot(activeJobs')
        /\ UNCHANGED <<sinceMonitor, wedged, probeVars>>
        /\ budget' = [budget EXCEPT ![j] = 0]
    BY <1>5 DEF JobEnds, Complete, SetJobs, Evaluate, Slots, TypeInv, TypeOK, HealthTypeOK
  <2>2. /\ IsFiniteSet(Slots')
        /\ Cardinality(Slots') = Cardinality(Slots) - 1
        /\ Cardinality(Slots) \in Nat
    BY <2>1, FS_RemoveElement, FS_CardinalityType DEF TypeInv, SlotsOK
  <2>3. JobsOK(activeJobs') /\ SlotsOK'
    BY <2>1, <2>2, HealthLimits DEF JobsOK, SlotsOK, Slots, TypeInv
  <2>4. state' \in States
    BY <1>2, <2>1, <2>3
  <2>5. budget' \in [Job -> 0..JobDuration]
    BY <2>1 DEF TypeInv, TypeOK
  <2> QED
    BY <1>5, <2>1, <2>3, <2>4, <2>5 DEF TypeInv, TypeOK, HealthTypeOK, Slots, probeVars
<1>6. CASE ~restarted /\ (Wedge \/ QueueChanges \/ MonitorFires)
  <2>1. UNCHANGED <<activeJobs, budget, readiness, liveness, podReady, restarted>>
    BY <1>6 DEF Wedge, QueueChanges, MonitorFires, SetPendingJobs, Monitor, healthVars, probeVars
  <2>2. wedged' \in BOOLEAN
    BY <1>6, Zenon DEF Wedge, QueueChanges, MonitorFires, TypeInv, TypeOK
  <2>3. sinceMonitor' \in 0..MonitorInterval
    BY <1>6 DEF Wedge, QueueChanges, MonitorFires, SetPendingJobs, Monitor, healthVars,
                TypeInv, TypeOK, HealthTypeOK
  <2>4. state' \in {state, Snapshot(activeJobs)}
    BY <1>6 DEF Wedge, QueueChanges, MonitorFires, SetPendingJobs, Monitor, Evaluate, healthVars
  <2>5. state' \in States
    BY <1>1, <1>2, <2>4 DEF TypeInv, TypeOK, HealthTypeOK
  <2> QED
    BY <2>1, <2>2, <2>3, <2>5 DEF TypeInv, TypeOK, HealthTypeOK, SlotsOK, Slots
<1>7. CASE ~restarted /\ ProbeReadiness
  <2>1. UNCHANGED <<activeJobs, state, sinceMonitor, budget, wedged, liveness, restarted>>
    BY <1>7 DEF ProbeReadiness, healthVars
  <2>2. readiness' \in [next : 0..ReadinessPeriod, failures : Nat]
    BY <1>7 DEF ProbeReadiness, Probed, TypeInv, TypeOK
  <2>3. podReady' \in BOOLEAN
    <3>1. podReady' = IF readiness'.failures = 0 THEN TRUE
                      ELSE podReady /\ readiness'.failures < ReadinessFailures
      BY <1>7 DEF ProbeReadiness
    <3> QED
      BY <3>1, Zenon
  <2> QED
    BY <2>1, <2>2, <2>3 DEF TypeInv, TypeOK, HealthTypeOK, SlotsOK, Slots
<1>8. CASE ~restarted /\ ProbeLiveness
  <2>1. liveness'.failures \in {0, liveness.failures + 1} /\ liveness'.next = LivenessPeriod
        /\ restarted' = (liveness'.failures = LivenessFailures)
    BY <1>8 DEF ProbeLiveness, Probed
  <2>2. liveness' \in [next : 0..LivenessPeriod, failures : 0..LivenessFailures]
    BY <1>8, <2>1 DEF ProbeLiveness, Probed, TypeInv, TypeOK
  <2>3. ~restarted' => liveness'.failures < LivenessFailures
    <3>1. liveness'.failures \in 0..LivenessFailures
      BY <2>2
    <3>2. liveness'.failures = LivenessFailures => restarted'
      BY <2>1, Zenon
    <3> QED
      BY <3>1, <3>2
  <2> QED
    BY <1>8, <2>1, <2>2, <2>3
       DEF ProbeLiveness, healthVars, TypeInv, TypeOK, HealthTypeOK, SlotsOK, Slots
<1>9. CASE ~restarted /\ Tick
  <2>1. /\ Slots' = Slots
        /\ \A k \in Slots' : activeJobs'[k] \in 0..QuietCap
        /\ sinceMonitor' \in 0..MonitorInterval
        /\ UNCHANGED <<state, wedged, podReady, restarted>>
    BY <1>9 DEF Tick, HealthTick, Longer, Slots, TypeInv, TypeOK, HealthTypeOK
  <2>2. budget' \in [Job -> 0..JobDuration]
    BY <1>9 DEF Tick, TypeInv, TypeOK
  <2>3. /\ readiness' \in [next : 0..ReadinessPeriod, failures : Nat]
        /\ liveness' \in [next : 0..LivenessPeriod, failures : 0..LivenessFailures]
        /\ liveness'.failures = liveness.failures
    BY <1>9 DEF Tick, TypeInv, TypeOK
  <2> QED
    BY <2>1, <2>2, <2>3 DEF TypeInv, TypeOK, HealthTypeOK, SlotsOK, Slots
<1>10. CASE restarted /\ UNCHANGED vars
  BY <1>10 DEF vars, healthVars, probeVars, TypeInv, TypeOK, HealthTypeOK, SlotsOK, Slots
<1> QED
  BY <1>3, <1>4, <1>5, <1>6, <1>7, <1>8, <1>9, <1>10 DEF Next, Running

\* Type correctness of RendererHealth, the probes and the budgets.
THEOREM HealthTypeCorrect == Spec => []TypeOK
<1>1. TypeInv /\ [Next]_vars => TypeInv'
  <2>1. TypeInv /\ UNCHANGED vars => TypeInv'
    BY DEF vars, healthVars, probeVars, TypeInv, TypeOK, HealthTypeOK, SlotsOK, Slots
  <2> QED
    BY <2>1, StaysTyped
<1>2. TypeInv => TypeOK
  BY DEF TypeInv
<1> QED
  BY <1>1, <1>2, TypedAtFirst, PTL DEF Spec

\* Readiness fails only when every slot is stuck (computeSnapshot).
THEOREM UnreadyCorrect == Spec => []UnreadyMeansAllStuck
<1>1. TypeInv => UnreadyMeansAllStuck
  BY JobsAreOK, SnapshotMeans DEF UnreadyMeansAllStuck, Ready, Stuck, AtCapacity
<1>2. TypeInv /\ [Next]_vars => TypeInv'
  <2>1. TypeInv /\ UNCHANGED vars => TypeInv'
    BY DEF vars, healthVars, probeVars, TypeInv, TypeOK, HealthTypeOK, SlotsOK, Slots
  <2> QED
    BY <2>1, StaysTyped
<1> QED
  BY <1>1, <1>2, TypedAtFirst, PTL DEF Spec

-----------------------------------------------------------------------------
(* Silence grows by time alone.                                             *)

\* A handler that starts, ends or hears of a job leaves no slot more silent than it was,
\* and a tick adds one to each.
LEMMA SilenceGrows ==
    ASSUME TypeInv, Next, NEW t \in Nat
    PROVE  /\ Stuck(activeJobs', t + 1) => Stuck(activeJobs, t)
           /\ ~HealthTick /\ Stuck(activeJobs', t) => Stuck(activeJobs, t)
           /\ Stuck(activeJobs', t + 1) => Stuck(activeJobs', t)
<1>1. JobsOK(activeJobs) /\ JobsOK(activeJobs')
  <2>1. TypeInv'
    BY StaysTyped
  <2>2. JobsOK(activeJobs')
    BY <2>1, Limits DEF TypeInv, TypeOK, HealthTypeOK, SlotsOK, Slots, JobsOK
  <2> QED
    BY <2>2, JobsAreOK
<1>2. Stuck(activeJobs', t + 1) => Stuck(activeJobs', t)
  BY <1>1, StuckLonger
<1>3. CASE UNCHANGED activeJobs
  BY <1>2, <1>3 DEF Stuck, AtCapacity
<1>4. CASE HealthTick
  <2>1. DOMAIN activeJobs' = DOMAIN activeJobs
        /\ \A j \in DOMAIN activeJobs : activeJobs'[j] <= activeJobs[j] + 1
    BY <1>1, <1>4, Limits DEF HealthTick, Longer, JobsOK
  <2> QED
    BY <1>1, <1>2, <1>4, <2>1 DEF Stuck, AtCapacity, JobsOK
<1>5. ASSUME NEW j \in DOMAIN activeJobs', activeJobs'[j] = 0
      PROVE  ~Stuck(activeJobs', t) /\ ~Stuck(activeJobs', t + 1)
  BY <1>5 DEF Stuck
<1>6. ASSUME NEW j, StartJob(j) PROVE ~Stuck(activeJobs', t) /\ ~Stuck(activeJobs', t + 1)
  <2>1. j \in DOMAIN activeJobs' /\ activeJobs'[j] = 0
    BY <1>6 DEF StartJob, SetJobs
  <2> QED
    BY <1>5, <2>1
<1>7. ASSUME NEW j, Progress(j) PROVE ~Stuck(activeJobs', t) /\ ~Stuck(activeJobs', t + 1)
  <2>1. j \in DOMAIN activeJobs' /\ activeJobs'[j] = 0
    BY <1>7 DEF Progress, SetJobs
  <2> QED
    BY <1>5, <2>1
<1>8. ASSUME NEW j, Complete(j) PROVE ~Stuck(activeJobs', t) /\ ~Stuck(activeJobs', t + 1)
  <2>1. DOMAIN activeJobs' = Slots \ {j} /\ j \in Slots
    BY <1>8 DEF Complete, SetJobs, Slots
  <2>2. Cardinality(DOMAIN activeJobs') = Cardinality(Slots) - 1 /\ Cardinality(Slots) \in Nat
    BY <2>1, FS_RemoveElement, FS_CardinalityType DEF TypeInv, SlotsOK
  <2>3. ~AtCapacity(activeJobs')
    BY <2>2, HealthLimits DEF AtCapacity, TypeInv, SlotsOK
  <2> QED
    BY <2>3 DEF Stuck
<1>9. \/ UNCHANGED activeJobs
      \/ HealthTick
      \/ \E j : StartJob(j) \/ Progress(j) \/ Complete(j)
  BY DEF Next, Running, JobStarts, JobProgresses, JobEnds, Wedge, QueueChanges, MonitorFires,
         ProbeReadiness, ProbeLiveness, Tick, SetPendingJobs, Monitor, vars, healthVars
<1> QED
  BY <1>2, <1>3, <1>4, <1>6, <1>7, <1>8, <1>9

-----------------------------------------------------------------------------
(* The state that is logged.                                                *)

\* It is late by less than the time since the monitor ran.
LateByLess ==
    /\ state = "healthy" => ~Stuck(activeJobs, StallThreshold + sinceMonitor)
    /\ state # "unhealthy" => ~Stuck(activeJobs, StallThreshold + RecoveryGrace + sinceMonitor)

LEMMA StaysOnTime ==
    ASSUME TypeInv, LateByLess, Next
    PROVE  LateByLess'
<1>1. TypeInv'
  BY StaysTyped
<1>2. JobsOK(activeJobs')
  BY <1>1, Limits DEF TypeInv, TypeOK, HealthTypeOK, SlotsOK, Slots, JobsOK
<1>3. /\ sinceMonitor \in Nat /\ sinceMonitor' \in Nat
      /\ StallThreshold \in Nat /\ RecoveryGrace \in Nat
  BY <1>1, Limits DEF TypeInv, TypeOK, HealthTypeOK
<1>4. CASE Evaluated
  <2>1. /\ state' = "healthy" <=> ~Stuck(activeJobs', StallThreshold)
        /\ state' = "unhealthy" <=> Stuck(activeJobs', StallThreshold + RecoveryGrace)
    BY <1>2, <1>4, SnapshotMeans DEF Evaluated
  <2>2. /\ Stuck(activeJobs', StallThreshold + sinceMonitor') => Stuck(activeJobs', StallThreshold)
        /\ Stuck(activeJobs', StallThreshold + RecoveryGrace + sinceMonitor') =>
              Stuck(activeJobs', StallThreshold + RecoveryGrace)
    BY <1>2, <1>3, StuckLonger
  <2> QED
    BY <2>1, <2>2 DEF LateByLess
<1>5. CASE UNCHANGED state /\ UNCHANGED <<activeJobs, sinceMonitor>>
  BY <1>5 DEF LateByLess
<1>6. CASE UNCHANGED state /\ HealthTick
  <2>1. sinceMonitor' = sinceMonitor + 1
    BY <1>6 DEF HealthTick
  <2>2. /\ StallThreshold + sinceMonitor \in Nat
        /\ StallThreshold + RecoveryGrace + sinceMonitor \in Nat
        /\ StallThreshold + sinceMonitor' = (StallThreshold + sinceMonitor) + 1
        /\ StallThreshold + RecoveryGrace + sinceMonitor' =
              (StallThreshold + RecoveryGrace + sinceMonitor) + 1
    BY <1>3, <2>1
  <2>3. /\ Stuck(activeJobs', StallThreshold + sinceMonitor') =>
              Stuck(activeJobs, StallThreshold + sinceMonitor)
        /\ Stuck(activeJobs', StallThreshold + RecoveryGrace + sinceMonitor') =>
              Stuck(activeJobs, StallThreshold + RecoveryGrace + sinceMonitor)
    BY <2>2, SilenceGrows
  <2> QED
    BY <1>6, <2>3 DEF LateByLess
<1> QED
  BY <1>4, <1>5, <1>6, StepEvaluates

LEMMA OnTimeAtFirst == ASSUME Init PROVE LateByLess
<1>1. TypeInv /\ Slots = {}
  BY TypedAtFirst DEF Init, HealthInit, Slots
<1>2. \A t : ~Stuck(activeJobs, t)
  BY <1>1, JobsAreOK, AtCapacityIsNotEmpty DEF Stuck, Slots
<1> QED
  BY <1>2 DEF LateByLess

LEMMA OnTimeInvariant == Spec => [](TypeInv /\ LateByLess)
<1>1. Init => TypeInv /\ LateByLess
  BY TypedAtFirst, OnTimeAtFirst
<1>2. TypeInv /\ LateByLess /\ [Next]_vars => (TypeInv /\ LateByLess)'
  <2>1. TypeInv /\ LateByLess /\ UNCHANGED vars => (TypeInv /\ LateByLess)'
    BY DEF vars, healthVars, probeVars, TypeInv, TypeOK, HealthTypeOK, SlotsOK, Slots, LateByLess
  <2> QED
    BY <2>1, StaysTyped, StaysOnTime
<1> QED
  BY <1>1, <1>2, PTL DEF Spec

\* A stall is noticed within a monitor interval (evaluate, the interval timer).
THEOREM StallNoticed == Spec => []StallIsNoticed
<1>1. ASSUME TypeInv, LateByLess PROVE StallIsNoticed
  <2>1. JobsOK(activeJobs)
    BY <1>1, JobsAreOK
  <2>2. sinceMonitor \in Nat /\ sinceMonitor <= MonitorInterval
    BY <1>1, Limits DEF TypeInv, TypeOK, HealthTypeOK
  <2> DEFINE time == TimeSinceProgress(activeJobs)
  <2>3. ASSUME AtCapacity(activeJobs), NEW t \in Nat, ~Stuck(activeJobs, t + sinceMonitor)
        PROVE  time <= t + MonitorInterval
    <3>1. t + sinceMonitor \in Nat
      BY <2>2
    <3>2. time \in Nat
      BY <2>1, <2>3, LeastSilence, AtCapacityIsNotEmpty DEF Range, JobsOK
    <3>3. ~(time > t + sinceMonitor)
      BY <2>1, <2>3, <3>1, SilenceBeyond DEF Stuck
    <3> HIDE DEF time
    <3> QED
      BY <2>2, <3>2, <3>3, Limits
  <2>4. StallThreshold \in Nat /\ StallThreshold + RecoveryGrace \in Nat
    BY Limits
  <2> HIDE DEF time
  <2>5. /\ state = "healthy" /\ AtCapacity(activeJobs) => time <= StallThreshold + MonitorInterval
        /\ state # "unhealthy" /\ AtCapacity(activeJobs) =>
              time <= StallThreshold + RecoveryGrace + MonitorInterval
    BY <1>1, <2>3, <2>4 DEF LateByLess
  <2> QED
    BY <2>5 DEF StallIsNoticed, time
<1> QED
  BY <1>1, OnTimeInvariant, PTL

\* Readiness is lost before liveness, if the monitor runs within the recovery grace
\* (evaluate).
THEOREM DegradesStepwise ==
    ASSUME MonitorInterval <= RecoveryGrace
    PROVE  Spec => DegradesInOrder
<1>1. ASSUME TypeInv, LateByLess, Next, state = "healthy", state' = "unhealthy" PROVE FALSE
  <2>1. Evaluated
    BY <1>1, StepEvaluates
  <2>2. JobsOK(activeJobs) /\ JobsOK(activeJobs')
    <3>1. TypeInv'
      BY <1>1, StaysTyped
    <3> QED
      BY <1>1, <3>1, Limits DEF TypeInv, TypeOK, HealthTypeOK, SlotsOK, Slots, JobsOK
  <2>3. Stuck(activeJobs', StallThreshold + RecoveryGrace)
    BY <1>1, <2>1, <2>2, SnapshotMeans DEF Evaluated
  <2>4. /\ sinceMonitor \in Nat /\ StallThreshold + RecoveryGrace \in Nat
        /\ StallThreshold + sinceMonitor \in Nat
        /\ StallThreshold + sinceMonitor <= StallThreshold + RecoveryGrace
    BY <1>1, Limits DEF TypeInv, TypeOK, HealthTypeOK
  <2>5. ~HealthTick
    BY <1>1 DEF HealthTick
  <2>6. Stuck(activeJobs, StallThreshold + RecoveryGrace)
    BY <1>1, <2>3, <2>4, <2>5, SilenceGrows
  <2>7. Stuck(activeJobs, StallThreshold + sinceMonitor)
    BY <2>2, <2>4, <2>6, StuckLonger
  <2> QED
    BY <1>1, <2>7 DEF LateByLess
<1>2. TypeInv /\ LateByLess /\ [Next]_vars => [state = "healthy" => state' # "unhealthy"]_healthVars
  BY <1>1 DEF vars, healthVars
<1> QED
  BY <1>2, OnTimeInvariant, PTL DEF Spec, DegradesInOrder

-----------------------------------------------------------------------------
(* The probes.                                                              *)

\* As long as the slots are stuck, each readiness probe fails: failed probes and the time
\* since the last one add up to more than the time for which they have been stuck.
ProbesFail ==
    /\ \A t \in Nat : Stuck(activeJobs, StallThreshold + t) =>
          readiness.failures * ReadinessPeriod + (ReadinessPeriod - readiness.next) > t
    /\ readiness.failures >= ReadinessFailures => ~podReady
    /\ restarted => Stuck(activeJobs, StallThreshold + RecoveryGrace)

LEMMA ProbesGoOnFailing ==
    ASSUME TypeInv, ProbesFail, Next
    PROVE  ProbesFail'
<1> DEFINE past == readiness.failures * ReadinessPeriod + (ReadinessPeriod - readiness.next)
<1>1. /\ StallThreshold \in Nat /\ RecoveryGrace \in Nat
      /\ ReadinessPeriod \in Nat \ {0} /\ ReadinessFailures \in Nat \ {0}
      /\ readiness \in [next : 0..ReadinessPeriod, failures : Nat]
  BY Limits DEF TypeInv, TypeOK
<1>2. readiness.failures * ReadinessPeriod \in Nat
  BY <1>1
<1>3. CASE ~restarted /\ ProbeReadiness
  <2>1. UNCHANGED <<activeJobs, restarted>>
    BY <1>3 DEF ProbeReadiness, healthVars
  <2>2. ASSUME NEW t \in Nat, Stuck(activeJobs, StallThreshold + t)
        PROVE  readiness'.failures * ReadinessPeriod + (ReadinessPeriod - readiness'.next) > t
    <3>1. Stuck(activeJobs, StallThreshold)
      BY <1>1, <2>2, JobsAreOK, StuckLonger
    <3>2. ~Ready(Snapshot(activeJobs))
      BY <3>1, JobsAreOK, SnapshotMeans DEF Ready
    <3>3. readiness'.failures = readiness.failures + 1 /\ readiness'.next = ReadinessPeriod
          /\ readiness.next = 0
      BY <1>3, <3>2 DEF ProbeReadiness, Probed
    <3>4. past > t
      BY <2>2 DEF ProbesFail
    <3>5. (readiness.failures + 1) * ReadinessPeriod =
             readiness.failures * ReadinessPeriod + ReadinessPeriod
      BY <1>1
    <3> QED
      BY <1>1, <1>2, <3>3, <3>4, <3>5
  <2>3. readiness'.failures >= ReadinessFailures => ~podReady'
    <3>1. podReady' = IF readiness'.failures = 0 THEN TRUE
                      ELSE podReady /\ readiness'.failures < ReadinessFailures
      BY <1>3 DEF ProbeReadiness
    <3>2. readiness'.failures \in Nat
      BY <1>1, <1>3 DEF ProbeReadiness, Probed
    <3>3. readiness'.failures >= ReadinessFailures =>
             readiness'.failures # 0 /\ ~(readiness'.failures < ReadinessFailures)
      BY <1>1, <3>2
    <3> QED
      BY <3>1, <3>3, Zenon
  <2> QED
    BY <1>3, <2>1, <2>2, <2>3 DEF ProbesFail, Stuck, AtCapacity
<1>4. CASE ~restarted /\ ProbeLiveness
  <2>1. UNCHANGED <<activeJobs, readiness, podReady>>
    BY <1>4 DEF ProbeLiveness, healthVars
  <2>2. restarted' => Stuck(activeJobs, StallThreshold + RecoveryGrace)
    <3>1. LivenessAnswer <=> ~Stuck(activeJobs, StallThreshold + RecoveryGrace)
      BY JobsAreOK, SnapshotMeans DEF LivenessAnswer, Live
    <3>2. LivenessAnswer => liveness'.failures = 0
      BY <1>4 DEF ProbeLiveness, Probed
    <3>3. restarted' => liveness'.failures = LivenessFailures
      BY <1>4 DEF ProbeLiveness
    <3>4. LivenessFailures # 0
      BY Limits
    <3> QED
      BY <3>1, <3>2, <3>3, <3>4, Zenon
  <2> QED
    BY <2>1, <2>2 DEF ProbesFail, Stuck, AtCapacity
<1>5. CASE ~restarted /\ Tick
  <2>1. /\ readiness'.failures = readiness.failures
        /\ readiness'.next = readiness.next - 1
        /\ readiness.next > 0
        /\ UNCHANGED <<podReady, restarted>>
    BY <1>1, <1>5 DEF Tick
  <2>2. ASSUME NEW t \in Nat, Stuck(activeJobs', StallThreshold + t)
        PROVE  readiness'.failures * ReadinessPeriod + (ReadinessPeriod - readiness'.next) > t
    <3>1. CASE t = 0
      BY <1>1, <1>2, <2>1, <3>1
    <3>2. CASE t # 0
      <4>1. t - 1 \in Nat /\ StallThreshold + t = (StallThreshold + (t - 1)) + 1
            /\ StallThreshold + (t - 1) \in Nat
        BY <1>1, <3>2
      <4>2. Stuck(activeJobs, StallThreshold + (t - 1))
        BY <2>2, <4>1, SilenceGrows
      <4>3. past > t - 1
        BY <4>1, <4>2 DEF ProbesFail
      <4> QED
        BY <1>1, <1>2, <2>1, <4>3
    <3> QED
      BY <3>1, <3>2
  <2> QED
    BY <1>5, <2>1, <2>2 DEF ProbesFail
<1>6. CASE ~restarted /\ UNCHANGED <<readiness, podReady, restarted>> /\ ~HealthTick
  <2>1. \A t \in Nat : Stuck(activeJobs', StallThreshold + t) => Stuck(activeJobs, StallThreshold + t)
    <3> SUFFICES ASSUME NEW t \in Nat, Stuck(activeJobs', StallThreshold + t)
                 PROVE  Stuck(activeJobs, StallThreshold + t)
      OBVIOUS
    <3>1. StallThreshold + t \in Nat
      BY <1>1
    <3> QED
      BY <1>6, <3>1, SilenceGrows
  <2> QED
    BY <1>6, <2>1 DEF ProbesFail
<1>7. CASE restarted /\ UNCHANGED vars
  BY <1>7 DEF vars, healthVars, probeVars, ProbesFail, Stuck, AtCapacity
<1>8. ~restarted /\ ~Tick /\ ~ProbeReadiness /\ ~ProbeLiveness =>
         UNCHANGED <<readiness, podReady, restarted>> /\ ~HealthTick
  <2> SUFFICES ASSUME ~restarted, ~Tick, ~ProbeReadiness, ~ProbeLiveness
               PROVE  UNCHANGED <<readiness, podReady, restarted>> /\ ~HealthTick
    OBVIOUS
  <2>1. UNCHANGED <<readiness, podReady, restarted>>
    BY DEF Next, Running, JobStarts, JobProgresses, JobEnds, Wedge, QueueChanges, MonitorFires, probeVars
  <2>2. UNCHANGED sinceMonitor \/ Monitor
    BY DEF Next, Running, JobStarts, JobProgresses, JobEnds, Wedge, QueueChanges, MonitorFires,
           StartJob, Progress, Complete, SetPendingJobs, healthVars
  <2>3. ~HealthTick
    BY <2>2, Limits DEF HealthTick, Monitor, TypeInv, TypeOK, HealthTypeOK
  <2> QED
    BY <2>1, <2>3
<1> QED
  BY <1>3, <1>4, <1>5, <1>6, <1>7, <1>8 DEF Next

\* A stall as long as all the failures take has made that many.
LEMMA EnoughFailures ==
    ASSUME TypeInv, ProbesFail, NEW t \in Nat, ReadinessFailures * ReadinessPeriod <= t,
           Stuck(activeJobs, StallThreshold + t)
    PROVE  readiness.failures >= ReadinessFailures /\ ~podReady
<1> DEFINE f == readiness.failures
           p == ReadinessPeriod
<1>1. f \in Nat /\ p \in Nat /\ readiness.next \in Nat /\ ReadinessFailures \in Nat
  BY Limits DEF TypeInv, TypeOK
<1>2. f * p + (p - readiness.next) > t
  BY DEF ProbesFail
<1>3. f >= ReadinessFailures
  <2> SUFFICES ASSUME f < ReadinessFailures PROVE FALSE
    BY <1>1
  <2> HIDE DEF f, p
  <2>1. PICK d \in Nat : ReadinessFailures = (f + 1) + d
    <3>1. /\ ReadinessFailures - (f + 1) \in Nat
          /\ ReadinessFailures = (f + 1) + (ReadinessFailures - (f + 1))
      BY <1>1
    <3> QED
      BY <3>1
  <2>2. ReadinessFailures * p = (f * p + p) + d * p /\ d * p \in Nat /\ f * p \in Nat
    BY <1>1, <2>1
  <2> QED
    BY <1>1, <1>2, <2>2 DEF p
<1> QED
  BY <1>3 DEF ProbesFail

ProbesInv == TypeInv /\ ProbesFail

LEMMA ProbesInvHolds == Spec => []ProbesInv
<1>1. Init => ProbesFail
  <2> SUFFICES ASSUME Init PROVE ProbesFail
    OBVIOUS
  <2>1. TypeInv /\ Slots = {}
    BY TypedAtFirst DEF Init, HealthInit, Slots
  <2>2. \A t : ~Stuck(activeJobs, t)
    BY <2>1, JobsAreOK, AtCapacityIsNotEmpty DEF Stuck, Slots
  <2>3. ~restarted /\ readiness.failures = 0
    BY DEF Init
  <2> QED
    BY <2>2, <2>3, Limits DEF ProbesFail
<1>2. ProbesInv /\ [Next]_vars => ProbesInv'
  <2>1. ProbesInv /\ UNCHANGED vars => ProbesInv'
    BY DEF vars, healthVars, probeVars, TypeInv, TypeOK, HealthTypeOK, SlotsOK, Slots,
           ProbesInv, ProbesFail, Stuck, AtCapacity
  <2> QED
    BY <2>1, StaysTyped, ProbesGoOnFailing DEF ProbesInv
<1> QED
  BY <1>1, <1>2, TypedAtFirst, PTL DEF Spec, ProbesInv

\* A pod that is restarted was taken out of the traffic before, if the failures that
\* readiness needs come within the recovery grace (routes/health.ts, .nais/api.yaml).
THEOREM RestartComesLast ==
    ASSUME ReadinessFailures * ReadinessPeriod <= RecoveryGrace
    PROVE  Spec => []RestartIsLastResort
<1>1. ASSUME ProbesInv PROVE RestartIsLastResort
  <2> SUFFICES ASSUME restarted
               PROVE  /\ ~podReady
                      /\ \A j \in Slots : activeJobs[j] > StallThreshold + RecoveryGrace
    BY DEF RestartIsLastResort
  <2>1. Stuck(activeJobs, StallThreshold + RecoveryGrace)
    BY <1>1 DEF ProbesInv, ProbesFail
  <2> QED
    BY <1>1, <2>1, EnoughFailures, Limits DEF ProbesInv, Stuck, Slots
<1> QED
  BY <1>1, ProbesInvHolds, PTL

\* "The probes would be decorative" otherwise: once every slot has been silent for the
\* threshold and the time of the failures that readiness needs, the pod gets no traffic,
\* however the silent jobs came to take the slots.
THEOREM StallTakesPodOut ==
    ASSUME ReadinessFailures * ReadinessPeriod <= RecoveryGrace
    PROVE  Spec => [](/\ AtCapacity(activeJobs)
                      /\ TimeSinceProgress(activeJobs) >
                             StallThreshold + ReadinessFailures * ReadinessPeriod
                      => ~podReady)
<1> DEFINE TakenOut == /\ AtCapacity(activeJobs)
                       /\ TimeSinceProgress(activeJobs) >
                              StallThreshold + ReadinessFailures * ReadinessPeriod
                       => ~podReady
           t == ReadinessFailures * ReadinessPeriod
<1>1. ASSUME ProbesInv PROVE TakenOut
  <2> SUFFICES ASSUME AtCapacity(activeJobs),
                      TimeSinceProgress(activeJobs) > StallThreshold + t
               PROVE  ~podReady
    OBVIOUS
  <2>1. t \in Nat /\ StallThreshold + t \in Nat
    BY Limits
  <2> HIDE DEF t
  <2>2. Stuck(activeJobs, StallThreshold + t)
    BY <1>1, <2>1, JobsAreOK, SilenceBeyond DEF ProbesInv, Stuck
  <2> QED
    BY <1>1, <2>1, <2>2, EnoughFailures DEF ProbesInv, t
<1> HIDE DEF TakenOut
<1>2. Spec => []TakenOut
  BY <1>1, ProbesInvHolds, PTL
<1> QED
  BY <1>2 DEF TakenOut

-----------------------------------------------------------------------------
(* Whether a restart ever comes.                                            *)

SinceProbe == LivenessPeriod - liveness.next

\* The silence of a job is time of its budget.
SilenceIsSpent == \A j \in Slots : activeJobs[j] + budget[j] <= JobDuration

\* While liveness probes fail, each job either reported, or was started, since the last
\* of them, or has spent the threshold, the grace and the time of the failures.
FailuresAreSpent ==
    liveness.failures > 0 =>
        \A j \in Slots :
            \/ activeJobs[j] <= SinceProbe
            \/ budget[j] + StallThreshold + RecoveryGrace + liveness.failures * LivenessPeriod
                  + SinceProbe < JobDuration + LivenessPeriod

SpentInv == SilenceIsSpent /\ FailuresAreSpent /\ ~restarted

\* A handler of the jobs: who stays in a slot keeps budget and silence, or has reported.
LEMMA JobStepSpends ==
    ASSUME TypeInv, SpentInv, UNCHANGED <<liveness, restarted>>,
           \A j \in Slots' :
               /\ activeJobs'[j] + budget'[j] <= JobDuration
               /\ \/ activeJobs'[j] = 0
                  \/ j \in Slots /\ activeJobs'[j] = activeJobs[j] /\ budget'[j] = budget[j]
    PROVE  SpentInv'
<1>1. SinceProbe' = SinceProbe /\ 0 <= SinceProbe
  BY Limits DEF SinceProbe, TypeInv, TypeOK
<1>2. FailuresAreSpent'
  BY <1>1 DEF SpentInv, FailuresAreSpent
<1> QED
  BY <1>2 DEF SpentInv, SilenceIsSpent

\* A probe that finds the renderer unhealthy finds every slot taken by a job that has
\* been silent since before the last probe.
LEMMA LivenessProbeSpends ==
    ASSUME LivenessPeriod <= StallThreshold + RecoveryGrace,
           StallThreshold + RecoveryGrace + (LivenessFailures - 1) * LivenessPeriod >= JobDuration,
           TypeInv, SpentInv, ProbeLiveness
    PROVE  SpentInv'
<1> DEFINE T == StallThreshold + RecoveryGrace
           p == LivenessPeriod
           f == liveness.failures
           n == LivenessFailures
<1>1. /\ T \in Nat /\ p \in Nat \ {0} /\ f \in Nat /\ n \in Nat \ {0} /\ JobDuration \in Nat
      /\ f * p \in Nat /\ (f + 1) * p = f * p + p /\ (n - 1) * p = n * p - p /\ n * p \in Nat
  <2>1. T \in Nat /\ p \in Nat \ {0} /\ f \in Nat /\ n \in Nat \ {0} /\ JobDuration \in Nat
    BY Limits DEF TypeInv, TypeOK
  <2> HIDE DEF T, p, f, n
  <2> QED
    BY <2>1
<1>2. /\ UNCHANGED <<activeJobs, budget>>
      /\ liveness.next = 0 /\ liveness'.next = p
      /\ liveness'.failures = IF LivenessAnswer THEN 0 ELSE f + 1
      /\ restarted' = (liveness'.failures = n)
  BY DEF ProbeLiveness, Probed, healthVars
<1>3. SinceProbe = p /\ SinceProbe' = 0
  BY <1>1, <1>2 DEF SinceProbe
<1>4. SilenceIsSpent'
  BY <1>2 DEF SpentInv, SilenceIsSpent, Slots
<1>5. \A j \in Slots : activeJobs[j] \in Nat /\ budget[j] \in Nat
  BY Limits DEF TypeInv, TypeOK, HealthTypeOK, Slots
<1>6. CASE LivenessAnswer
  <2>1. liveness'.failures = 0
    BY <1>2, <1>6
  <2>2. FailuresAreSpent'
    BY <2>1 DEF FailuresAreSpent
  <2>3. ~restarted'
    BY <1>1, <1>2, <2>1
  <2> QED
    BY <1>4, <2>2, <2>3 DEF SpentInv
<1>7. CASE ~LivenessAnswer
  <2>1. Stuck(activeJobs, T)
    BY <1>7, JobsAreOK, SnapshotMeans DEF LivenessAnswer, Live
  <2>2. liveness'.failures = f + 1
    BY <1>2, <1>7
  <2>3. ASSUME NEW j \in Slots
        PROVE  budget[j] + T + (f + 1) * p < JobDuration + p
    <3>1. activeJobs[j] > T
      BY <2>1 DEF Stuck, Slots
    <3>2. CASE f = 0
      <4>1. activeJobs[j] + budget[j] <= JobDuration
        BY DEF SpentInv, SilenceIsSpent
      <4>2. (f + 1) * p = p
        BY <1>1, <3>2
      <4> HIDE DEF T, p, f
      <4> QED
        BY <1>1, <1>5, <3>1, <4>1, <4>2
    <3>3. CASE f # 0
      <4>1. ~(activeJobs[j] <= SinceProbe)
        BY <1>1, <1>3, <1>5, <3>1
      <4>2. budget[j] + StallThreshold + RecoveryGrace + f * p + SinceProbe < JobDuration + p
        BY <1>1, <3>3, <4>1 DEF SpentInv, FailuresAreSpent
      <4>3. budget[j] + T + f * p + p < JobDuration + p
        BY <1>1, <1>3, <1>5, <4>2, Limits
      <4> HIDE DEF T, p, f
      <4> QED
        BY <1>1, <1>5, <4>3
    <3> QED
      BY <3>2, <3>3
  <2>4. FailuresAreSpent'
    <3> SUFFICES ASSUME NEW j \in Slots
                 PROVE  budget'[j] + StallThreshold + RecoveryGrace
                          + liveness'.failures * LivenessPeriod + SinceProbe'
                            < JobDuration + LivenessPeriod
      BY <1>2 DEF FailuresAreSpent, Slots
    <3>1. budget[j] + T + (f + 1) * p < JobDuration + p
      BY <2>3
    <3>2. liveness'.failures * LivenessPeriod = (f + 1) * p /\ (f + 1) * p \in Nat
      BY <1>1, <2>2
    <3> QED
      BY <1>1, <1>2, <1>3, <1>5, <3>1, <3>2, Limits
  <2>5. ~restarted'
    <3>1. PICK j \in Slots : TRUE
      BY <2>1, JobsAreOK, AtCapacityIsNotEmpty DEF Stuck, Slots
    <3>2. budget[j] + T + (f + 1) * p < JobDuration + p
      BY <2>3
    <3>3. T + (n - 1) * p >= JobDuration
      OBVIOUS
    <3>4. (f + 1) * p < n * p
      <4> HIDE DEF T, p, f, n
      <4> QED
        BY <1>1, <1>5, <3>2, <3>3
    <3>5. f + 1 # n
      <4> HIDE DEF T, p, f, n
      <4> QED
        BY <1>1, <3>4
    <3> QED
      BY <1>2, <2>2, <3>5
  <2> QED
    BY <1>4, <2>4, <2>5 DEF SpentInv
<1> QED
  BY <1>6, <1>7

LEMMA TickSpends ==
    ASSUME TypeInv, SpentInv, Tick
    PROVE  SpentInv'
<1>1. /\ Slots' = Slots
      /\ \A j \in Slots : activeJobs'[j] = Longer(activeJobs[j]) /\ budget'[j] = budget[j] - 1
      /\ liveness'.next = liveness.next - 1 /\ liveness'.failures = liveness.failures
      /\ restarted' = restarted
  BY DEF Tick, HealthTick, Slots, TypeInv, TypeOK, HealthTypeOK
<1>2. SinceProbe' = SinceProbe + 1 /\ SinceProbe \in Int
  BY <1>1, Limits DEF SinceProbe, TypeInv, TypeOK
<1>3. \A j \in Slots : /\ activeJobs[j] \in Nat /\ budget[j] \in Nat
                       /\ activeJobs'[j] \in {activeJobs[j], activeJobs[j] + 1}
  BY <1>1, Limits DEF TypeInv, TypeOK, HealthTypeOK, Slots, Longer
<1>4. SilenceIsSpent'
  BY <1>1, <1>3, Limits DEF SpentInv, SilenceIsSpent
<1>5. FailuresAreSpent'
  <2> DEFINE spent == StallThreshold + RecoveryGrace + liveness.failures * LivenessPeriod
  <2>1. liveness.failures * LivenessPeriod \in Int
    BY Limits DEF TypeInv, TypeOK
  <2> SUFFICES ASSUME liveness.failures > 0, NEW j \in Slots
               PROVE  \/ activeJobs'[j] <= SinceProbe'
                      \/ budget'[j] + StallThreshold + RecoveryGrace
                            + liveness.failures * LivenessPeriod + SinceProbe'
                              < JobDuration + LivenessPeriod
    BY <1>1 DEF FailuresAreSpent
  <2>2. \/ activeJobs[j] <= SinceProbe
        \/ budget[j] + StallThreshold + RecoveryGrace
              + liveness.failures * LivenessPeriod + SinceProbe < JobDuration + LivenessPeriod
    BY DEF SpentInv, FailuresAreSpent
  <2> QED
    BY <1>1, <1>2, <1>3, <2>1, <2>2, Limits
<1> QED
  BY <1>1, <1>4, <1>5 DEF SpentInv

LEMMA SpentStep ==
    ASSUME LivenessPeriod <= StallThreshold + RecoveryGrace,
           StallThreshold + RecoveryGrace + (LivenessFailures - 1) * LivenessPeriod >= JobDuration,
           TypeInv, SpentInv, [Next]_vars
    PROVE  SpentInv'
<1>1. ASSUME NEW j \in Job, NEW wait \in {0, MaxQueueWait - 1}, JobStarts(j, wait)
      PROVE  SpentInv'
  <2>1. /\ Slots' = Slots \cup {j} /\ j \notin Slots
        /\ activeJobs'[j] = 0 /\ \A k \in Slots : activeJobs'[k] = activeJobs[k]
        /\ UNCHANGED <<liveness, restarted>>
    BY <1>1 DEF JobStarts, StartJob, SetJobs, Slots, probeVars
  <2>2. budget'[j] = JobDuration - wait /\ \A k \in Slots : budget'[k] = budget[k]
    BY <1>1, <2>1 DEF JobStarts, BudgetAfter, TypeInv, TypeOK, HealthTypeOK, Slots
  <2>3. wait \in Nat
    BY Limits
  <2>4. \A k \in Slots' : activeJobs'[k] + budget'[k] <= JobDuration
    BY <2>1, <2>2, <2>3, Limits DEF SpentInv, SilenceIsSpent
  <2> QED
    BY <2>1, <2>2, <2>4, JobStepSpends
<1>2. ASSUME NEW j \in Job, JobProgresses(j)
      PROVE  SpentInv'
  <2>1. /\ Slots' = Slots /\ j \in Slots
        /\ activeJobs'[j] = 0 /\ \A k \in Slots \ {j} : activeJobs'[k] = activeJobs[k]
        /\ UNCHANGED <<budget, liveness, restarted>>
    BY <1>2 DEF JobProgresses, Progress, SetJobs, Slots, probeVars
  <2>2. budget[j] <= JobDuration /\ budget[j] \in Nat
    BY Limits DEF TypeInv, TypeOK
  <2>3. \A k \in Slots' : activeJobs'[k] + budget'[k] <= JobDuration
    BY <2>1, <2>2 DEF SpentInv, SilenceIsSpent
  <2> QED
    BY <2>1, <2>3, JobStepSpends
<1>3. ASSUME NEW j \in Job, JobEnds(j)
      PROVE  SpentInv'
  <2>1. /\ Slots' = Slots \ {j}
        /\ \A k \in Slots' : activeJobs'[k] = activeJobs[k]
        /\ \A k \in Slots' : budget'[k] = budget[k]
        /\ UNCHANGED <<liveness, restarted>>
    BY <1>3 DEF JobEnds, Complete, SetJobs, Slots, probeVars, TypeInv, TypeOK, HealthTypeOK
  <2>2. \A k \in Slots' : activeJobs'[k] + budget'[k] <= JobDuration
    BY <2>1 DEF SpentInv, SilenceIsSpent
  <2> QED
    BY <2>1, <2>2, JobStepSpends
<1>4. CASE Wedge \/ QueueChanges \/ MonitorFires \/ ProbeReadiness \/ UNCHANGED vars
  <2>1. UNCHANGED <<activeJobs, budget, liveness, restarted>>
    BY <1>4 DEF Wedge, QueueChanges, MonitorFires, ProbeReadiness, SetPendingJobs, Monitor,
                vars, healthVars, probeVars
  <2>2. Slots' = Slots
    BY <2>1 DEF Slots
  <2> QED
    BY <2>1, <2>2, JobStepSpends DEF SpentInv, SilenceIsSpent
<1> QED
  BY <1>1, <1>2, <1>3, <1>4, LivenessProbeSpends, TickSpends DEF Next, Running

\* With the liveness probes of .nais/api.yaml and the defaults of the thresholds nothing
\* ever restarts the pod, whatever the renderer does and for any number of slots: when
\* threshold, grace and the time of the failures that are asked for add up to the
\* generation budget, jobs that fail one probe are torn down before they can fail all.
THEOREM RestartNeverComes ==
    ASSUME LivenessPeriod <= StallThreshold + RecoveryGrace,
           StallThreshold + RecoveryGrace + (LivenessFailures - 1) * LivenessPeriod >= JobDuration
    PROVE  Spec => []~restarted
<1>1. Init => TypeInv /\ SpentInv
  <2> SUFFICES ASSUME Init PROVE SpentInv
    BY TypedAtFirst
  <2>1. Slots = {} /\ liveness.failures = 0 /\ ~restarted
    BY DEF Init, HealthInit, Slots
  <2> QED
    BY <2>1 DEF SpentInv, SilenceIsSpent, FailuresAreSpent
<1>2. TypeInv /\ SpentInv /\ [Next]_vars => (TypeInv /\ SpentInv)'
  <2>1. TypeInv /\ UNCHANGED vars => TypeInv'
    BY DEF vars, healthVars, probeVars, TypeInv, TypeOK, HealthTypeOK, SlotsOK, Slots
  <2> QED
    BY <2>1, StaysTyped, SpentStep
<1>3. SpentInv => ~restarted
  BY DEF SpentInv
<1> QED
  BY <1>1, <1>2, <1>3, PTL DEF Spec

=============================================================================

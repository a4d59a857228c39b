------------------------- MODULE GenerationScheduler -------------------------
(***************************************************************************)
(* GenerationScheduler of apps/api/src/generation/scheduler.ts: admission  *)
(* control in front of the renderer.  At most MaxConcurrentJobs tasks run; *)
(* the others wait in a bounded FIFO queue that each leaves exactly once:  *)
(* by starting, by its queue deadline, or because its caller disconnected. *)
(*                                                                         *)
(* Every handler of the class runs to completion on the event loop, so one *)
(* action is one handler: a call of schedule(), an abort event, a deadline *)
(* timer, or the completion of a task with the pump its finally block runs.*)
(*                                                                         *)
(* Time.  Tick advances the monotonic clock that drives setTimeout and the *)
(* renderer's budget.  The scheduler itself measures queue wait with       *)
(* `now`, which defaults to Date.now: ClockStep moves that wall clock      *)
(* alone.  Times are kept relative to the request (what `now() -           *)
(* enqueuedAt` would be), so no clock value grows without bound.           *)
(***************************************************************************)
EXTENDS Integers, FiniteSets, SequencesExt

CONSTANTS
    Request,            \* calls of schedule(); each is made at most once
    MaxConcurrentJobs,
    MaxPendingJobs,
    MaxQueueWait,
    MaxJobDuration,
    HandlerTimeout,     \* HTTP_HANDLER_TIMEOUT_MS
    TimerLag,           \* how late the event loop may run a due timer
    ClockSteps,         \* sizes of the jumps of the wall clock ({}: it is steady)
    MaxClockSteps       \* bound on the number of such jumps

\* The constructor refuses every other configuration; TimerLag is the slack
\* the timeout budget leaves between the job duration and the backstop.
ASSUME SchedulerLimits ==
    /\ MaxConcurrentJobs \in Nat \ {0}
    /\ MaxPendingJobs \in Nat \ {0}
    /\ MaxQueueWait \in Nat \ {0}
    /\ MaxJobDuration \in Nat
    /\ HandlerTimeout \in Nat
    /\ MaxQueueWait < MaxJobDuration
    /\ TimerLag \in Nat
    /\ MaxJobDuration + TimerLag < HandlerTimeout
    /\ ClockSteps \subseteq Int
    /\ MaxClockSteps \in Nat

VARIABLES
    status,       \* where each request is, or how its promise settled
    activeJobs,
    pendingJobs,
    timers,       \* requests whose deadlineTimer is armed
    listeners,    \* requests whose abortListener is registered
    aborted,      \* requests whose signal has fired
    health,       \* what RendererHealth was told: running jobs and queue length
    age,          \* monotonic time since schedule() took the request in
    waited,       \* now() - enqueuedAt of a queued request
    budget,       \* what is left of a running task's timeoutMs
    clockSteps    \* wall clock jumps so far

queueVars == <<pendingJobs, timers, listeners, waited>>
vars == <<status, activeJobs, queueVars, aborted, health, age, budget, clockSteps>>

Settled == {"fulfilled", "failed", "queue-full", "queue-deadline", "cancelled"}
Status == {"new", "queued", "running"} \cup Settled

Queued  == {r \in Request : status[r] = "queued"}
Running == {r \in Request : status[r] = "running"}

Init ==
    /\ status = [r \in Request |-> "new"]
    /\ activeJobs = 0
    /\ pendingJobs = <<>>
    /\ timers = {}
    /\ listeners = {}
    /\ aborted = {}
    /\ health = [jobs |-> {}, pending |-> 0]
    /\ age = [r \in Request |-> 0]
    /\ waited = [r \in Request |-> 0]
    /\ budget = [r \in Request |-> 0]
    /\ clockSteps = 0

-----------------------------------------------------------------------------
(* Steps of the handlers.  An operator whose name ends in _bug is the        *)
(* mistake that the mutant of PROJECT.json puts in the place of the operator *)
(* below it; no specification uses it.                                       *)

SlotFree_bug == activeJobs <= MaxConcurrentJobs

SlotFree == activeJobs < MaxConcurrentJobs

TimeoutMs_bug(wait) == MaxJobDuration

\* The budget a task is started with, after `wait` in the queue.
TimeoutMs(wait) ==
    IF MaxJobDuration - wait < 1 THEN 1 ELSE MaxJobDuration - wait

Enqueued_bug(r) == <<r>> \o pendingJobs

Enqueued(r) == Append(pendingJobs, r)

Spliced(i) == RemoveAt(pendingJobs, i)

Listen_bug(r) == listeners' = listeners

Listen(r) == listeners' = listeners \cup {r}

\* clearQueuedTaskResources of every entry of S.
ClearResources(S) == timers' = timers \ S /\ listeners' = listeners \ S

-----------------------------------------------------------------------------
ScheduleAborted(r) ==
    /\ status[r] = "new"
    /\ r \in aborted
    /\ status' = [status EXCEPT ![r] = "cancelled"]
    /\ UNCHANGED <<activeJobs, queueVars, aborted, health, age, budget, clockSteps>>

\* A free slot: the task starts in the call of schedule().
ScheduleNow(r) ==
    /\ status[r] = "new"
    /\ r \notin aborted
    /\ SlotFree
    /\ status' = [status EXCEPT ![r] = "running"]
    /\ activeJobs' = activeJobs + 1
    /\ health' = [health EXCEPT !.jobs = @ \cup {r}]
    /\ budget' = [budget EXCEPT ![r] = TimeoutMs(0)]
    /\ UNCHANGED <<queueVars, aborted, age, clockSteps>>

RejectQueueFull(r) ==
    /\ status[r] = "new"
    /\ r \notin aborted
    /\ ~SlotFree
    /\ Len(pendingJobs) >= MaxPendingJobs
    /\ status' = [status EXCEPT ![r] = "queue-full"]
    /\ UNCHANGED <<activeJobs, queueVars, aborted, health, age, budget, clockSteps>>

Enqueue(r) ==
    /\ status[r] = "new"
    /\ r \notin aborted
    /\ ~SlotFree
    /\ Len(pendingJobs) < MaxPendingJobs
    /\ status' = [status EXCEPT ![r] = "queued"]
    /\ pendingJobs' = Enqueued(r)
    /\ timers' = timers \cup {r}
    /\ Listen(r)
    /\ health' = [health EXCEPT !.pending = Len(pendingJobs')]
    /\ UNCHANGED <<activeJobs, waited, aborted, age, budget, clockSteps>>

-----------------------------------------------------------------------------
\* removeQueuedTask with the rejection its two callers make.
LeaveQueue(i, outcome) ==
    LET r == pendingJobs[i]
    IN  /\ pendingJobs' = Spliced(i)
        /\ status' = [status EXCEPT ![r] = outcome]
        /\ ClearResources({r})
        /\ health' = [health EXCEPT !.pending = Len(pendingJobs')]
        /\ age' = [age EXCEPT ![r] = 0]
        /\ waited' = [waited EXCEPT ![r] = 0]
        /\ UNCHANGED <<activeJobs, budget, clockSteps>>

\* The caller disconnects while its request waits in the queue.
AbortQueued(i) ==
    /\ pendingJobs[i] \in listeners \ aborted
    /\ aborted' = aborted \cup {pendingJobs[i]}
    /\ LeaveQueue(i, "cancelled")

\* The caller disconnects before schedule() is called, or once nothing listens:
\* an admitted task is allowed to finish.
AbortUnheard(r) ==
    /\ r \notin aborted \cup listeners
    /\ status[r] \notin Settled
    /\ aborted' = aborted \cup {r}
    /\ UNCHANGED <<status, activeJobs, queueVars, health, age, budget, clockSteps>>

DeadlineTimer(i) ==
    /\ pendingJobs[i] \in timers
    /\ age[pendingJobs[i]] >= MaxQueueWait
    /\ LeaveQueue(i, "queue-deadline")
    /\ UNCHANGED aborted

-----------------------------------------------------------------------------
Live_bug(r) == r \notin aborted

\* A shifted entry is started when this holds, otherwise it is rejected.
Live(r) ==
    /\ r \notin aborted
    /\ waited[r] < MaxQueueWait

LiveAmongFirst(n) == {pendingJobs[i] : i \in {j \in 1..n : Live(pendingJobs[j])}}

LoopEnds_bug(active, n) == n = 1 \/ n = Len(pendingJobs)

\* The condition of the while loop of startPendingTasks is false after n shifts.
LoopEnds(active, n) ==
    \/ active + Cardinality(LiveAmongFirst(n)) >= MaxConcurrentJobs
    \/ n = Len(pendingJobs)

\* The number of entries the loop shifts.
Shifts(active) ==
    CHOOSE n \in 0..Len(pendingJobs) :
        /\ LoopEnds(active, n)
        /\ \A m \in 0..(n - 1) : ~LoopEnds(active, m)

\* The pump forgets an entry whose promise it should have rejected.
RejectedAs_lost_bug(r) == "new"

RejectedAs(r) == IF r \in aborted THEN "cancelled" ELSE "queue-deadline"

StillTracked_bug(settled) == health.jobs

\* The jobs RendererHealth tracks once complete() was called for a settled one.
StillTracked(settled) == {r \in health.jobs : settled[r] = "running"}

SlotsLeft == activeJobs - 1

\* startPendingTasks, run with `active` jobs left and promises as in `settled`.
StartPendingTasks(active, settled) ==
    LET n       == Shifts(active)
        shifted == {pendingJobs[i] : i \in 1..n}
        started == LiveAmongFirst(n)
    IN  /\ pendingJobs' = SubSeq(pendingJobs, n + 1, Len(pendingJobs))
        /\ activeJobs' = active + Cardinality(started)
        /\ status' = [r \in Request |->
               CASE r \in started -> "running"
                 [] r \in shifted \ started -> RejectedAs(r)
                 [] OTHER -> settled[r]]
        /\ ClearResources(shifted)
        /\ health' = [jobs |-> StillTracked(settled) \cup started,
                      pending |-> Len(pendingJobs')]
        /\ budget' = [r \in Request |->
               CASE r \in started -> TimeoutMs(waited[r])
                 [] settled[r] \in Settled -> 0
                 [] OTHER -> budget[r]]
        /\ waited' = [r \in Request |-> IF r \in shifted THEN 0 ELSE waited[r]]
        /\ age' = [r \in Request |-> IF status'[r] \in Settled THEN 0 ELSE age[r]]

\* A task settles, at the latest when the renderer enforces its timeoutMs; the
\* finally block frees the slot and pumps the queue.
TaskSettles(r, outcome) ==
    /\ status[r] = "running"
    /\ StartPendingTasks(SlotsLeft, [status EXCEPT ![r] = outcome])
    /\ UNCHANGED <<aborted, clockSteps>>

-----------------------------------------------------------------------------
\* One unit of monotonic time.  A due timer, of the queue or of the renderer's
\* budget, runs at most TimerLag late.
Tick ==
    /\ \A r \in timers : age[r] < MaxQueueWait + TimerLag
    /\ \A r \in Running : budget[r] > -TimerLag
    /\ age' = [r \in Request |-> IF r \in Queued \cup Running THEN age[r] + 1 ELSE age[r]]
    /\ waited' = [r \in Request |-> IF r \in Queued THEN waited[r] + 1 ELSE waited[r]]
    /\ budget' = [r \in Request |-> IF r \in Running THEN budget[r] - 1 ELSE budget[r]]
    /\ UNCHANGED <<status, activeJobs, pendingJobs, timers, listeners, aborted, health,
                   clockSteps>>

\* The wall clock behind Date.now is set forward or back.
ClockStep(d) ==
    /\ clockSteps < MaxClockSteps
    /\ clockSteps' = clockSteps + 1
    /\ waited' = [r \in Request |-> IF r \in Queued THEN waited[r] + d ELSE waited[r]]
    /\ UNCHANGED <<status, activeJobs, pendingJobs, timers, listeners, aborted, health,
                   age, budget>>

Schedule(r) ==
    \/ ScheduleAborted(r)
    \/ ScheduleNow(r)
    \/ RejectQueueFull(r)
    \/ Enqueue(r)

Next ==
    \/ \E r \in Request : Schedule(r)
    \/ \E r \in Request : AbortUnheard(r)
    \/ \E r \in Request, outcome \in {"fulfilled", "failed"} : TaskSettles(r, outcome)
    \/ \E i \in DOMAIN pendingJobs : AbortQueued(i)
    \/ \E i \in DOMAIN pendingJobs : DeadlineTimer(i)
    \/ Tick
    \/ \E d \in ClockSteps : ClockStep(d)

Spec == Init /\ [][Next]_vars

\* Time passes, a due timer is run, and a task settles: generation is raced
\* against its budget (renderer/browser/get-browser.ts).
Fairness ==
    /\ WF_vars(Tick)
    /\ WF_vars(\E i \in DOMAIN pendingJobs : DeadlineTimer(i))
    /\ \A r \in Request : WF_vars(\E o \in {"fulfilled", "failed"} : TaskSettles(r, o))

FairSpec == Spec /\ Fairness

-----------------------------------------------------------------------------
TypeOK ==
    /\ status \in [Request -> Status]
    /\ activeJobs \in Nat
    /\ pendingJobs \in Seq(Request)
    /\ timers \subseteq Request
    /\ listeners \subseteq Request
    /\ aborted \subseteq Request
    /\ health \in [jobs : SUBSET Request, pending : Nat]
    /\ age \in [Request -> Nat]
    /\ waited \in [Request -> Int]
    /\ budget \in [Request -> Int]
    /\ clockSteps \in Nat

\* The slot counter counts exactly the running tasks and never passes the
\* limit, whatever order completions, rejections and pumps come in.
SlotsAccounted ==
    /\ activeJobs = Cardinality(Running)
    /\ activeJobs <= MaxConcurrentJobs

\* Work conservation: nothing waits while a slot is free, in particular not
\* behind an expired or cancelled head of the queue.
NoIdleSlot == pendingJobs # <<>> => activeJobs = MaxConcurrentJobs

\* The queue holds exactly the requests with a pending promise that have not
\* started, each once, and stays within its limit.
QueueIsExact ==
    /\ ToSet(pendingJobs) = Queued
    /\ \A i, j \in DOMAIN pendingJobs : i # j => pendingJobs[i] # pendingJobs[j]
    /\ Len(pendingJobs) <= MaxPendingJobs

\* "Removed queue entries must not retain timers or abort listeners", and a
\* queued one has both.
ResourcesFollowQueue == timers = Queued /\ listeners = Queued

\* A caller that has gone away holds no place in the queue.
NoGhostInQueue == Queued \cap aborted = {}

\* The slots in use are exactly the running tasks, and all of them are in use
\* while anything waits.
SlotsInUse == SlotsAccounted /\ NoIdleSlot

\* The queue is exactly the waiting requests, with their timers and listeners and
\* without those whose caller is gone, whichever of expiry, abort, start and
\* rejection takes them out of it.
QueueHoldsTheWaiting == QueueIsExact /\ ResourcesFollowQueue /\ NoGhostInQueue

\* What RendererHealth reports is what the scheduler holds.
HealthMirrorsScheduler ==
    /\ health.jobs = Running
    /\ health.pending = Len(pendingJobs)

\* However late timers run and however the wall clock jumps, a task taken from
\* the queue starts with more than the reserve the constructor checks for.
NoStartWithoutBudget ==
    [][\A r \in Queued : status'[r] = "running" =>
           budget'[r] > MaxJobDuration - MaxQueueWait]_vars

\* No overtaking: when a request is started out of the queue, every request
\* that came in before it has left the queue too.
StartsInOrder ==
    [][\A r, older \in Queued :
           status'[r] = "running" /\ age[older] > age[r] => status'[older] # "queued"]_vars

\* No work for a caller that was already answered.
AnsweredOnce ==
    [][\A r \in Request : status[r] \in Settled => status'[r] = status[r]]_vars

\* Queue wait eats into the render budget, so that "the total" of a request
\* stays below the Fastify backstop (timeout-budget.ts).
TotalBelowBackstop ==
    \A r \in Queued \cup Running : age[r] < HandlerTimeout

\* Every request that enters the queue is answered.
QueuedIsAnswered ==
    \A r \in Request : status[r] = "queued" ~> status[r] \in Settled

-----------------------------------------------------------------------------
(* The scheduler implements BoundedService.                                  *)

PhaseOf(s) ==
    CASE s = "new" -> "outside"
      [] s = "queued" -> "waiting"
      [] s = "running" -> "served"
      [] s \in {"fulfilled", "failed"} -> "done"
      [] s \in {"queue-full", "queue-deadline", "cancelled"} -> "turned-away"

phase == [r \in Request |-> PhaseOf(status[r])]

Service == INSTANCE BoundedService WITH
    Caller   <- Request,
    Capacity <- MaxConcurrentJobs,
    Seats    <- MaxPendingJobs,
    phase    <- phase

\* Callers see a bounded work-conserving service: nothing that happens inside
\* shows except arrivals, departures and the end of a task.
ImplementsService == Service!Spec
=============================================================================

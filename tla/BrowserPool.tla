----------------------------- MODULE BrowserPool -----------------------------
(***************************************************************************)
(* The shared Chromium of apps/api/src/renderer/browser/get-browser.ts:    *)
(* BrowserPool and useBrowserWithRetry, which runs a render on it up to    *)
(* MaxAttempts times within one GenerationBudget.                          *)
(*                                                                         *)
(* The event loop.  Code runs uninterrupted from one await to the next.    *)
(* When what a user awaits has settled, its continuation joins the         *)
(* microtask queue; timers and Chromium's answers (macrotasks) get a turn  *)
(* only once that queue is empty.  So an action is either one continuation *)
(* at the head of `microtasks`, or one macrotask on an empty queue.        *)
(*                                                                         *)
(* Time is not counted: DeadlinePasses marks the moment a user's budget    *)
(* runs out (remainingMs() throws from then on), DeadlineTimer the moment  *)
(* the timer that races an await gets to run.                              *)
(***************************************************************************)
EXTENDS Integers, FiniteSets, SequencesExt

CONSTANTS
    User,            \* calls of useBrowserWithRetry; each is made at most once
    MaxAttempts,     \* MAX_RETRIES_PER_REQUEST + 1
    MaxPages,        \* MAX_PAGES_PER_BROWSER
    LaunchOutcomes   \* what launching Chromium may do: {"ok"} or {"ok", "error"}

ASSUME PoolLimits ==
    /\ MaxAttempts \in Nat \ {0}
    /\ MaxPages \in Nat \ {0}
    /\ LaunchOutcomes \subseteq {"ok", "error"}

VARIABLES
    \* the fields of BrowserPool
    browser,            \* serial number of the pooled browser, 0 for null
    closePromise,       \* "null", "pending" or "settled"
    initPromise,        \* "null", "pending" or "fulfilled"
    activeUsers,
    pageCount,
    recycleRequested,
    \* Chromium processes
    launched,           \* serial number of the last browser launched
    launches,           \* launches in flight
    closing,            \* the browser being closed, 0 if none
    \* the event loop
    microtasks,         \* users whose continuation is ready, in order
    closeWaiters,       \* users whose race closePromise may still decide, in order
    launchWaiters,      \* users whose race initPromise may still decide, in order
    \* each user
    pc,                 \* the continuation it runs next or what it awaits
    attempt,
    expired,            \* its budget has run out
    error,              \* why its attempt failed
    holds,              \* the browser it acquired, 0 if none
    failedOn            \* the browser its last attempt failed on, 0 if none

poolVars == <<browser, closePromise, initPromise, pageCount, recycleRequested, closing>>
launchVars == <<launched, launches>>
loopVars == <<microtasks, closeWaiters, launchWaiters>>
userVars == <<pc, attempt, expired, error, holds, failedOn>>
vars == <<poolVars, activeUsers, launchVars, loopVars, userVars>>

Awaiting == {"closing", "launching", "rendering"}   \* raced with the deadline timer
Ready == {"loop", "closed", "launched", "acquired", "succeeded", "failed"}
Over == {"done", "threw"}

Init ==
    /\ browser = 0
    /\ closePromise = "null"
    /\ initPromise = "null"
    /\ activeUsers = 0
    /\ pageCount = 0
    /\ recycleRequested = FALSE
    /\ launched = 0
    /\ launches = 0
    /\ closing = 0
    /\ microtasks = <<>>
    /\ closeWaiters = <<>>
    /\ launchWaiters = <<>>
    /\ pc = [u \in User |-> "idle"]
    /\ attempt = [u \in User |-> 1]
    /\ expired = [u \in User |-> FALSE]
    /\ error = [u \in User |-> "none"]
    /\ holds = [u \in User |-> 0]
    /\ failedOn = [u \in User |-> 0]

-----------------------------------------------------------------------------
(* Pieces of the handlers.  An operator whose name ends in _bug is the       *)
(* mistake that a mutant of PROJECT.json puts in the place of the operator   *)
(* below it; no specification uses it.                                       *)

IsHead(u) == microtasks # <<>> /\ Head(microtasks) = u

\* u goes on in a later microtask.
Continue(u, label) ==
    /\ pc' = [pc EXCEPT ![u] = label]
    /\ microtasks' = Append(Tail(microtasks), u)

\* u waits for a macrotask.
Suspend(u, label) ==
    /\ pc' = [pc EXCEPT ![u] = label]
    /\ microtasks' = Tail(microtasks)

\* An await in acquire() throws: acquire's caller handles it in a later microtask.
Throw(u, why) ==
    /\ Continue(u, "failed")
    /\ error' = [error EXCEPT ![u] = why]
    /\ UNCHANGED <<closeWaiters, launchWaiters>>

PageCapReached == pageCount >= MaxPages

Idle_bug(users) == users <= 1

Idle(users) == users = 0

Released_bug == activeUsers

\* The reference count after release().
Released == IF activeUsers > 0 THEN activeUsers - 1 ELSE activeUsers

FlagAfterClose_bug == recycleRequested

\* recycleRequested after the finally block of recycle().
FlagAfterClose == FALSE

\* A recycle that waits for a browser to go although there is none.
ClosePromiseOfRecycle_bug == "pending"

\* Without a browser recycle() never awaits: its finally block has reset the
\* field before recycleIfIdle assigns the (settled) promise to it.
ClosePromiseOfRecycle == IF browser = 0 THEN "settled" ELSE "pending"

\* recycle(), called by recycleIfIdle with the flag as in `requested`.
Recycle(requested) ==
    /\ closePromise' = ClosePromiseOfRecycle
    /\ closing' = IF browser = 0 THEN closing ELSE browser
    /\ browser' = 0
    /\ initPromise' = "null"
    /\ pageCount' = 0
    /\ recycleRequested' = (requested /\ browser # 0)

CanRecycle(users, requested) ==
    /\ Idle(users)
    /\ PageCapReached \/ requested
    /\ closePromise = "null"

RecycleIfIdle(users, requested) ==
    \/ /\ CanRecycle(users, requested)
       /\ Recycle(requested)
    \/ /\ ~CanRecycle(users, requested)
       /\ recycleRequested' = requested
       /\ UNCHANGED <<browser, closePromise, initPromise, pageCount, closing>>

-----------------------------------------------------------------------------
(* acquire(): the loop, from each await to the next.                         *)

\* `await budget.race(this.browserClosePromise)`, with that field in state p.
AwaitClose(u, p) ==
    \/ /\ p = "pending"
       /\ Suspend(u, "closing")
       /\ closeWaiters' = Append(closeWaiters, u)
       /\ UNCHANGED <<launchWaiters, error>>
    \/ /\ p = "settled"
       /\ Continue(u, "closed")
       /\ UNCHANGED <<closeWaiters, launchWaiters, error>>

\* The top of the loop when there is a close promise to wait for.
LoopAgain(u, p) ==
    \/ expired[u] /\ Throw(u, "deadline")
    \/ ~expired[u] /\ AwaitClose(u, p)

\* `this.browserInitPromise ??= this.initialize()`; budget.race then throws
\* before it has attached itself to the promise if the budget has run out.
AwaitLaunch(u) ==
    /\ initPromise' = IF initPromise = "null" THEN "pending" ELSE initPromise
    /\ launches' = IF initPromise = "null" THEN launches + 1 ELSE launches
    /\ \/ expired[u] /\ Throw(u, "deadline")
       \/ /\ ~expired[u]
          /\ Suspend(u, "launching")
          /\ launchWaiters' = Append(launchWaiters, u)
          /\ UNCHANGED <<closeWaiters, error>>
    /\ UNCHANGED <<browser, closePromise, closing, pageCount, recycleRequested, activeUsers,
                   launched, holds>>

MustRecycle_bug == PageCapReached

MustRecycle == PageCapReached \/ recycleRequested

AfterRecycleCheck_bug(u) == Continue(u, "loop") /\ UNCHANGED <<closeWaiters, launchWaiters, error>>

\* No recycle could start: sleep 10 ms and try again.
AfterRecycleCheck(u) == Suspend(u, "sleeping") /\ UNCHANGED <<closeWaiters, launchWaiters, error>>

\* The rest of the loop body, once neither promise is left to wait for.
TryAcquire(u) ==
    \/ /\ MustRecycle
       /\ RecycleIfIdle(activeUsers, TRUE)
       /\ \/ closePromise' # "null" /\ LoopAgain(u, closePromise')
          \/ closePromise' = "null" /\ AfterRecycleCheck(u)
       /\ UNCHANGED <<activeUsers, launchVars, holds>>
    \/ /\ ~MustRecycle
       /\ expired[u]
       /\ Throw(u, "deadline")
       /\ UNCHANGED <<poolVars, activeUsers, launchVars, holds>>
    \/ /\ ~MustRecycle
       /\ ~expired[u]
       /\ activeUsers' = activeUsers + 1
       /\ pageCount' = pageCount + 1
       /\ holds' = [holds EXCEPT ![u] = browser]
       /\ Continue(u, "acquired")
       /\ UNCHANGED <<browser, closePromise, initPromise, recycleRequested, closing,
                      launchVars, closeWaiters, launchWaiters, error>>

AfterClose(u) ==
    \/ browser = 0 /\ AwaitLaunch(u)
    \/ browser # 0 /\ TryAcquire(u)

\* The top of the loop.
Loop(u) ==
    /\ IsHead(u)
    /\ pc[u] = "loop"
    /\ \/ /\ expired[u] \/ closePromise # "null"
          /\ LoopAgain(u, closePromise)
          /\ UNCHANGED <<poolVars, activeUsers, launchVars, holds>>
       \/ /\ ~expired[u] /\ closePromise = "null"
          /\ AfterClose(u)
    /\ UNCHANGED <<attempt, expired, failedOn>>

\* closePromise has settled.
Closed(u) ==
    /\ IsHead(u)
    /\ pc[u] = "closed"
    /\ AfterClose(u)
    /\ UNCHANGED <<attempt, expired, failedOn>>

\* initPromise is fulfilled.
Launched(u) ==
    /\ IsHead(u)
    /\ pc[u] = "launched"
    /\ TryAcquire(u)
    /\ UNCHANGED <<attempt, expired, failedOn>>

-----------------------------------------------------------------------------
(* runAttempt() and useBrowserWithRetry(): the end of an attempt.            *)

UnhealthyAfter_bug(why) == TRUE

\* markUnhealthy: any failure but a missed deadline condemns the browser.
UnhealthyAfter(why) == recycleRequested \/ why = "error"

LastAttempt(u) == attempt[u] = MaxAttempts

\* The catch and finally blocks; then the next attempt, or the error is thrown.
FailAttempt(u, why) ==
    /\ \/ /\ holds[u] # 0
          /\ activeUsers' = Released
          /\ RecycleIfIdle(activeUsers', UnhealthyAfter(why))
       \/ /\ holds[u] = 0
          /\ why = "error"
          /\ RecycleIfIdle(activeUsers, UnhealthyAfter(why))
          /\ UNCHANGED activeUsers
       \/ /\ holds[u] = 0
          /\ why = "deadline"
          /\ UNCHANGED <<poolVars, activeUsers>>
    /\ holds' = [holds EXCEPT ![u] = 0]
    /\ failedOn' = [failedOn EXCEPT ![u] = holds[u]]
    /\ error' = [error EXCEPT ![u] = "none"]
    /\ \/ /\ why = "error" /\ ~LastAttempt(u)
          /\ attempt' = [attempt EXCEPT ![u] = @ + 1]
          /\ Continue(u, "loop")
       \/ /\ why = "deadline" \/ LastAttempt(u)
          /\ Suspend(u, "threw")
          /\ UNCHANGED attempt
    /\ UNCHANGED <<expired, launchVars, closeWaiters, launchWaiters>>

\* The acquired browser is handed to the render, unless time is up by now.
StartRender(u) ==
    /\ IsHead(u)
    /\ pc[u] = "acquired"
    /\ \/ expired[u] /\ FailAttempt(u, "deadline")
       \/ /\ ~expired[u]
          /\ Suspend(u, "rendering")
          /\ UNCHANGED <<poolVars, activeUsers, launchVars, closeWaiters, launchWaiters,
                         attempt, expired, error, holds, failedOn>>

AttemptFails(u) ==
    /\ IsHead(u)
    /\ pc[u] = "failed"
    /\ FailAttempt(u, error[u])

AttemptSucceeds(u) ==
    /\ IsHead(u)
    /\ pc[u] = "succeeded"
    /\ activeUsers' = Released
    /\ RecycleIfIdle(activeUsers', recycleRequested)
    /\ holds' = [holds EXCEPT ![u] = 0]
    /\ Suspend(u, "done")
    /\ UNCHANGED <<launchVars, closeWaiters, launchWaiters, attempt, expired, error, failedOn>>

Microtask ==
    \E u \in User :
        \/ Loop(u)
        \/ Closed(u)
        \/ Launched(u)
        \/ StartRender(u)
        \/ AttemptFails(u)
        \/ AttemptSucceeds(u)

-----------------------------------------------------------------------------
(* Macrotasks.                                                               *)

MacrotaskTurn == microtasks = <<>>

WokenAs(waiters, label) ==
    [u \in User |-> IF u \in ToSet(waiters) THEN label ELSE pc[u]]

\* Chromium answers or PUPPETEER_OPERATION_TIMEOUT_MS passes.
LaunchSettles(outcome) ==
    /\ MacrotaskTurn
    /\ launches > 0
    /\ launches' = launches - 1
    /\ \/ /\ outcome = "ok"
          /\ launched' = launched + 1
          /\ browser' = launched'
          /\ initPromise' = "fulfilled"
          /\ pc' = WokenAs(launchWaiters, "launched")
          /\ UNCHANGED error
       \/ /\ outcome = "error"
          /\ initPromise' = "null"
          /\ pc' = WokenAs(launchWaiters, "failed")
          /\ error' = [u \in User |->
                 IF u \in ToSet(launchWaiters) THEN "error" ELSE error[u]]
          /\ UNCHANGED <<launched, browser>>
    /\ microtasks' = launchWaiters
    /\ launchWaiters' = <<>>
    /\ UNCHANGED <<closePromise, closing, pageCount, recycleRequested, activeUsers,
                   closeWaiters, attempt, expired, holds, failedOn>>

\* close() answers, fails, or is cut off by BROWSER_CLOSE_TIMEOUT_MS and a
\* SIGKILL; the finally block of recycle() runs in any case.
CloseSettles ==
    /\ MacrotaskTurn
    /\ closing # 0
    /\ closing' = 0
    /\ closePromise' = "null"
    /\ recycleRequested' = FlagAfterClose
    /\ pc' = WokenAs(closeWaiters, "closed")
    /\ microtasks' = closeWaiters
    /\ closeWaiters' = <<>>
    /\ UNCHANGED <<browser, initPromise, pageCount, activeUsers, launchVars, launchWaiters,
                   attempt, expired, error, holds, failedOn>>

RenderSettles(u, outcome) ==
    /\ MacrotaskTurn
    /\ pc[u] = "rendering"
    /\ \/ outcome = "ok" /\ pc' = [pc EXCEPT ![u] = "succeeded"] /\ UNCHANGED error
       \/ outcome = "error" /\ pc' = [pc EXCEPT ![u] = "failed"]
                            /\ error' = [error EXCEPT ![u] = "error"]
    /\ microtasks' = <<u>>
    /\ UNCHANGED <<poolVars, activeUsers, launchVars, closeWaiters, launchWaiters, attempt,
                   expired, holds, failedOn>>

\* The 10 ms sleep is over.
Wake(u) ==
    /\ MacrotaskTurn
    /\ pc[u] = "sleeping"
    /\ pc' = [pc EXCEPT ![u] = "loop"]
    /\ microtasks' = <<u>>
    /\ UNCHANGED <<poolVars, activeUsers, launchVars, closeWaiters, launchWaiters, attempt,
                   expired, error, holds, failedOn>>

\* Promise.race settles once: of u's race, which its timer has won, the promise
\* of `waiters` no longer decides anything.
Undecided(waiters, u) ==
    IF u \in ToSet(waiters) THEN RemoveAt(waiters, CHOOSE i \in DOMAIN waiters : waiters[i] = u)
                            ELSE waiters

\* The timer withTimeout races against what u awaits.
DeadlineTimer(u) ==
    /\ MacrotaskTurn
    /\ expired[u]
    /\ pc[u] \in Awaiting
    /\ pc' = [pc EXCEPT ![u] = "failed"]
    /\ error' = [error EXCEPT ![u] = "deadline"]
    /\ microtasks' = <<u>>
    /\ closeWaiters' = Undecided(closeWaiters, u)
    /\ launchWaiters' = Undecided(launchWaiters, u)
    /\ UNCHANGED <<poolVars, activeUsers, launchVars, attempt, expired, holds, failedOn>>

\* The scheduler starts a job: from a request, or from the pump that runs in
\* the microtasks of the job before it.
Begin(u) ==
    /\ pc[u] = "idle"
    /\ pc' = [pc EXCEPT ![u] = "loop"]
    /\ microtasks' = Append(microtasks, u)
    /\ UNCHANGED <<poolVars, activeUsers, launchVars, closeWaiters, launchWaiters, attempt,
                   expired, error, holds, failedOn>>

DeadlinePasses(u) ==
    /\ pc[u] \notin {"idle"} \cup Over
    /\ ~expired[u]
    /\ expired' = [expired EXCEPT ![u] = TRUE]
    /\ UNCHANGED <<poolVars, activeUsers, launchVars, loopVars, pc, attempt, error, holds,
                   failedOn>>

AllOver ==
    /\ \A u \in User : pc[u] \in Over
    /\ closing = 0 /\ launches = 0
    /\ UNCHANGED vars

Next ==
    \/ Microtask
    \/ \E outcome \in LaunchOutcomes : LaunchSettles(outcome)
    \/ CloseSettles
    \/ \E u \in User, outcome \in {"ok", "error"} : RenderSettles(u, outcome)
    \/ \E u \in User : Wake(u)
    \/ \E u \in User : DeadlineTimer(u)
    \/ \E u \in User : Begin(u)
    \/ \E u \in User : DeadlinePasses(u)
    \/ AllOver

Spec == Init /\ [][Next]_vars

\* The event loop runs what is ready, and every timer or answer that is due on
\* one of its turns (SF: it has no turn while microtasks run).  Launching,
\* closing and every Puppeteer operation of a render have timeouts of their own.
\* Nothing is assumed of DeadlinePasses: progress must not rest on budgets
\* running out.
Fairness ==
    /\ WF_vars(Microtask)
    /\ SF_vars(\E outcome \in LaunchOutcomes : LaunchSettles(outcome))
    /\ SF_vars(CloseSettles)
    /\ \A u \in User :
        /\ SF_vars(\E outcome \in {"ok", "error"} : RenderSettles(u, outcome))
        /\ SF_vars(Wake(u))

FairSpec == Spec /\ Fairness

-----------------------------------------------------------------------------
TypeOK ==
    /\ browser \in Nat
    /\ closePromise \in {"null", "pending", "settled"}
    /\ initPromise \in {"null", "pending", "fulfilled"}
    /\ activeUsers \in Nat
    /\ pageCount \in Nat
    /\ recycleRequested \in BOOLEAN
    /\ launched \in Nat
    /\ launches \in Nat
    /\ closing \in Nat
    /\ microtasks \in Seq(User)
    /\ closeWaiters \in Seq(User)
    /\ launchWaiters \in Seq(User)
    /\ pc \in [User -> {"idle", "sleeping"} \cup Awaiting \cup Ready \cup Over]
    /\ attempt \in [User -> 1..MaxAttempts]
    /\ expired \in [User -> BOOLEAN]
    /\ error \in [User -> {"none", "error", "deadline"}]
    /\ holds \in [User -> Nat]
    /\ failedOn \in [User -> Nat]

Holders == {u \in User : holds[u] # 0}

\* The reference count that decides about recycling is exact: every path out
\* of an attempt (result, error, deadline before or during the render) gives
\* back what acquire() took, once.  "After max pages is reached, we recycle the
\* browser": none serves more than MaxPages pages, and the page count covers every
\* user that still has one open.
UsersAndPagesCounted ==
    /\ activeUsers = Cardinality(Holders)
    /\ activeUsers <= pageCount
    /\ pageCount <= MaxPages

\* A browser is never closed or replaced under a user that holds it, even when
\* failures of several users, deadlines and the page cap request a recycle, and
\* Chromium processes do not pile up: one is launched only after the one before
\* it is gone, and two users never launch one each.
OneOpenChromium ==
    /\ \A u \in Holders : holds[u] = browser
    /\ launches + (IF browser = 0 THEN 0 ELSE 1) + (IF closing = 0 THEN 0 ELSE 1) <= 1

\* Nobody awaits a promise that is left over: while a user is suspended in acquire(),
\* the browser whose end it awaits is being closed, and the launch it awaits is under
\* way.  So its wait ends without the timer of its budget, whatever failed launches,
\* recycles without a browser and users that gave up have left in the two fields.
NoLostWaiter ==
    \A u \in User :
        /\ pc[u] = "closing" => closing # 0
        /\ pc[u] = "launching" => launches > 0

\* "retrying with a fresh browser on failure": the attempt after a failed
\* render never gets the browser that failed, although others may still be
\* using it and the recycle has to wait for them.
RetryGetsFreshBrowser == \A u \in Holders : holds[u] # failedOn[u]

\* "Running out of budget says nothing about Chromium's health": only a page
\* cap or a failure that is not a missed deadline requests a recycle.
DeadlineDoesNotRecycle ==
    [][recycleRequested' /\ ~recycleRequested =>
           \/ PageCapReached
           \/ \E u \in User : IsHead(u) /\ pc[u] = "failed" /\ error[u] = "error"]_vars

\* Every request ends, without having to run out of budget.
EveryUserFinishes == \A u \in User : pc[u] = "loop" ~> pc[u] \in Over

\* A requested recycle is carried out.
RecycleIsCarriedOut == recycleRequested ~> ~recycleRequested

\* Waiting users leave the event loop its turns for timers and I/O.
EventLoopTurns == []<>(microtasks = <<>>)
=============================================================================

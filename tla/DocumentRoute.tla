---------------------------- MODULE DocumentRoute ----------------------------
(***************************************************************************)
(* POST /genererbrev of apps/api/src/http/routes/genererbrev.ts in front   *)
(* of the scheduler, with the document generator                           *)
(* (generation/document-generator.ts), the startup check of server.ts and  *)
(* Fastify's handler timeout (app.ts).                                     *)
(*                                                                         *)
(* A request of the scheduler is here one HTTP exchange; Warmup is the one *)
(* request that comes from the startup check and has no exchange.  What    *)
(* happens before the handler (authentication, reading and validating the  *)
(* body) takes time that the handler timeout counts and the scheduler does *)
(* not know of.                                                            *)
(*                                                                         *)
(* The continuations of a settled promise run before any other event, so   *)
(* the step that settles a task of the scheduler also sends its reply.     *)
(***************************************************************************)
EXTENDS GenerationScheduler

CONSTANT Warmup

ASSUME WarmupIsRequest == Warmup \in Request

VARIABLES
    stage,      \* "absent", "routed" or "handled": how far the exchange has come
    reply,      \* what was answered, or "none"
    elapsed,    \* time since Fastify routed the request
    closed      \* exchanges whose caller has closed the connection

routeVars == <<stage, reply, elapsed, closed>>

Exchange == Request \ {Warmup}
Replies == {"none", "ok", "refused", "overload", "cancelled", "error", "timeout"}

RouteInit ==
    /\ stage = [r \in Exchange |-> "absent"]
    /\ reply = [r \in Exchange |-> "none"]
    /\ elapsed = [r \in Exchange |-> 0]
    /\ closed = {}

\* The exchanges that Fastify still has to answer.
Open == {r \in Exchange : stage[r] # "absent" /\ reply[r] = "none"}

-----------------------------------------------------------------------------
(* The startup check.                                                        *)

StartupStatus ==
    CASE status[Warmup] \in {"new", "running", "queued"} -> "pending"
      [] status[Warmup] = "fulfilled" -> "succeeded"
      [] OTHER -> "failed"

\* The cached lightweight render server.ts schedules before it listens.
WarmUp ==
    /\ Schedule(Warmup)
    /\ UNCHANGED routeVars

-----------------------------------------------------------------------------
ReplyOf_bug(s) ==
    CASE s = "fulfilled" -> "ok"
      [] s = "cancelled" -> "cancelled"
      [] OTHER -> "overload"

\* The reply of the handler, by how the promise of schedule() settled: only an
\* overload carries Retry-After.
ReplyOf(s) ==
    CASE s = "fulfilled" -> "ok"
      [] s = "failed" -> "error"
      [] s \in {"queue-full", "queue-deadline"} -> "overload"
      [] s = "cancelled" -> "cancelled"

\* Replies that go with a step of the scheduler.  Whoever was answered by the
\* handler timeout before gets no second answer.
Answer ==
    LET settling == {r \in Open : status[r] \notin Settled /\ status'[r] \in Settled}
    IN  /\ reply' = [r \in Exchange |->
                IF r \in settling THEN ReplyOf(status'[r]) ELSE reply[r]]
        /\ elapsed' = [r \in Exchange |-> IF r \in settling THEN 0 ELSE elapsed[r]]
        /\ UNCHANGED closed

ReplyAtOnce(r, what) ==
    /\ reply' = [reply EXCEPT ![r] = what]
    /\ elapsed' = [elapsed EXCEPT ![r] = 0]
    /\ UNCHANGED <<vars, closed>>

\* The pod gets traffic once its startup probe has succeeded.
Route(r) ==
    /\ StartupStatus = "succeeded"
    /\ stage[r] = "absent"
    /\ stage' = [stage EXCEPT ![r] = "routed"]
    /\ UNCHANGED <<vars, reply, elapsed>>

\* 401 or 500 of authenticate, 400 for a body that does not validate, or 400
\* for Markdown that does not parse: schedule() is never called.
Refuse(r) ==
    /\ r \in Open
    /\ stage[r] = "routed"
    /\ stage' = [stage EXCEPT ![r] = "handled"]
    /\ ReplyAtOnce(r, "refused")

Handle(r) ==
    /\ r \in Open
    /\ stage[r] = "routed"
    /\ stage' = [stage EXCEPT ![r] = "handled"]
    /\ Schedule(r)
    /\ Answer

Disconnected_bug(r) == r \in Open

\* "An unfinished response closes only when the caller disconnects before
\* receiving a reply."
Disconnected(r) == r \in Open \cap closed

\* The close event, or the check for it when the handler starts.
NoticeDisconnect(r) ==
    /\ Disconnected(r)
    /\ \/ AbortUnheard(r)
       \/ \E i \in DOMAIN pendingJobs : pendingJobs[i] = r /\ AbortQueued(i)
    /\ Answer
    /\ UNCHANGED stage

\* Fastify answers 503, without Retry-After; the handler goes on.
HandlerTimesOut(r) ==
    /\ r \in Open
    /\ elapsed[r] >= HandlerTimeout
    /\ ReplyAtOnce(r, "timeout")
    /\ UNCHANGED stage

SchedulerWorks ==
    /\ \/ \E r \in Request, outcome \in {"fulfilled", "failed"} : TaskSettles(r, outcome)
       \/ \E i \in DOMAIN pendingJobs : DeadlineTimer(i)
    /\ Answer
    /\ UNCHANGED stage

RouteTick ==
    /\ \A r \in Open : elapsed[r] < HandlerTimeout + TimerLag
    /\ Tick
    /\ elapsed' = [r \in Exchange |-> IF r \in Open THEN elapsed[r] + 1 ELSE elapsed[r]]
    /\ UNCHANGED <<stage, reply, closed>>

ServerStep ==
    \/ WarmUp
    \/ \E r \in Exchange : Refuse(r) \/ Handle(r)
    \/ \E r \in Exchange : NoticeDisconnect(r)
    \/ \E r \in Exchange : HandlerTimesOut(r)
    \/ SchedulerWorks
    \/ RouteTick

-----------------------------------------------------------------------------
RouteTypeOK ==
    /\ stage \in [Exchange -> {"absent", "routed", "handled"}]
    /\ reply \in [Exchange -> Replies]
    /\ elapsed \in [Exchange -> Nat]
    /\ closed \subseteq Exchange

\* "An expected disconnect does not register as" a failure, and 499 is for
\* nobody else: whoever gets it has closed the connection.
CancelledIsUnseen == \A r \in Exchange : reply[r] = "cancelled" => r \in closed

\* What the reply says is what became of the task: no document was rendered
\* for an overload, and a result is never announced before it exists.
ReplyTellsOutcome ==
    \A r \in Exchange :
        /\ reply[r] = "overload" => status[r] \in {"queue-full", "queue-deadline"}
        /\ reply[r] = "ok" => status[r] = "fulfilled"
        /\ reply[r] = "refused" => status[r] = "new"
=============================================================================

-------------------------- MODULE BrevgeneratorClient --------------------------
(***************************************************************************)
(* Calls of the NuGet client: GenererBrev of                               *)
(* nuget-client/.../Implementation/BrevgeneratorClient.cs with the policy  *)
(* of ServiceOverloadRetryPolicy.cs, against one pod.  An attempt of a     *)
(* call is one exchange of DocumentRoute.                                  *)
(*                                                                         *)
(* The caller may cancel, and the connection may break, at any time; how   *)
(* long a retry is delayed is left open (Retry-After plus jitter).         *)
(***************************************************************************)
EXTENDS DocumentRoute

CONSTANTS
    Call,
    MaxAttempts,           \* config.MaxRetryAttempts + 1
    RetryAfter,            \* retryAfterSeconds of the scheduler
    MaxRetryAfterDelay     \* config.MaxRetryAfterDelay

ASSUME ClientLimits ==
    /\ MaxAttempts \in Nat \ {0}
    /\ RetryAfter \in Nat \ {0}
    /\ MaxRetryAfterDelay \in Nat
    /\ Exchange = Call \X (1..MaxAttempts)

VARIABLES
    call,       \* "idle", "waiting", "delaying", "returned" or "threw"
    attempt

clientVars == <<call, attempt>>
allVars == <<vars, routeVars, clientVars>>

Current(c) == <<c, attempt[c]>>
Finished == {"returned", "threw"}

CallInit ==
    /\ Init
    /\ RouteInit
    /\ call = [c \in Call |-> "idle"]
    /\ attempt = [c \in Call |-> 1]

-----------------------------------------------------------------------------
IsOverload_bug(answer) == answer \in {"overload", "timeout"}

\* TryGetRetryDelay: 503 with a Retry-After that is not too long.
IsOverload(answer) == answer = "overload" /\ RetryAfter <= MaxRetryAfterDelay

\* The request of an attempt is sent.
Send(c) ==
    /\ call[c] \in {"idle", "delaying"}
    /\ Route(Current(c))
    /\ call' = [call EXCEPT ![c] = "waiting"]
    /\ UNCHANGED <<attempt, closed>>

\* The response is an overload and attempts are left: delay and go on.
Retry(c) ==
    /\ call[c] = "waiting"
    /\ IsOverload(reply[Current(c)])
    /\ attempt[c] < MaxAttempts
    /\ attempt' = [attempt EXCEPT ![c] = @ + 1]
    /\ call' = [call EXCEPT ![c] = "delaying"]
    /\ UNCHANGED <<vars, routeVars>>

Return_bug(c) ==
    /\ call[c] = "waiting"
    /\ reply[Current(c)] # "none"
    /\ ~IsOverload(reply[Current(c)])
    /\ call' = [call EXCEPT ![c] = IF reply[Current(c)] = "ok" THEN "returned" ELSE "threw"]
    /\ UNCHANGED <<attempt, vars, routeVars>>

\* EnsureSuccessStatusCode, and the body.
Return(c) ==
    /\ call[c] = "waiting"
    /\ reply[Current(c)] # "none"
    /\ ~IsOverload(reply[Current(c)]) \/ attempt[c] = MaxAttempts
    /\ call' = [call EXCEPT ![c] = IF reply[Current(c)] = "ok" THEN "returned" ELSE "threw"]
    /\ UNCHANGED <<attempt, vars, routeVars>>

\* The cancellation token fires, or the connection breaks.
GiveUp(c) ==
    /\ call[c] \in {"idle", "waiting", "delaying"}
    /\ call' = [call EXCEPT ![c] = "threw"]
    /\ closed' = IF call[c] = "waiting" THEN closed \cup {Current(c)} ELSE closed
    /\ UNCHANGED <<attempt, vars, stage, reply, elapsed>>

ClientStep == \E c \in Call : Send(c) \/ Retry(c) \/ Return(c) \/ GiveUp(c)

CallNext ==
    \/ ServerStep /\ UNCHANGED clientVars
    \/ ClientStep

CallSpec == CallInit /\ [][CallNext]_allVars

\* Timers fire, rendering ends within its budget, and the client takes the next
\* step of a call.  Nothing is assumed of Refuse, Handle or GiveUp: what the
\* handler does not get to, the handler timeout ends.
CallFairness ==
    /\ WF_allVars(RouteTick /\ UNCHANGED clientVars)
    /\ WF_allVars(WarmUp /\ UNCHANGED clientVars)
    /\ \A r \in Exchange : WF_allVars(HandlerTimesOut(r) /\ UNCHANGED clientVars)
    /\ \A r \in Request :
          WF_allVars((\E o \in {"fulfilled", "failed"} : TaskSettles(r, o))
                        /\ Answer /\ UNCHANGED <<stage, clientVars>>)
    /\ WF_allVars((\E i \in DOMAIN pendingJobs : DeadlineTimer(i))
                        /\ Answer /\ UNCHANGED <<stage, clientVars>>)
    /\ \A c \in Call : WF_allVars(Send(c)) /\ WF_allVars(Retry(c) \/ Return(c))

FairCallSpec == CallSpec /\ CallFairness

-----------------------------------------------------------------------------
CallTypeOK ==
    /\ TypeOK
    /\ RouteTypeOK
    /\ call \in [Call -> {"idle", "waiting", "delaying"} \cup Finished]
    /\ attempt \in [Call -> 1..MaxAttempts]

Rendered == {"running", "fulfilled", "failed"}

\* "Nothing else is retried": one call never has the pod render its document
\* more than once, whatever is answered late, cancelled or refused.
RendersAtMostOnce ==
    \A c \in Call :
        Cardinality({a \in 1..MaxAttempts : status[<<c, a>>] \in Rendered}) <= 1

\* A call ends, with a result or an exception.
EveryCallEnds == \A c \in Call : call[c] = "waiting" ~> call[c] \in Finished
=============================================================================

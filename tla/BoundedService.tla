---------------------------- MODULE BoundedService ----------------------------
(***************************************************************************)
(* What GenerationScheduler promises to its callers, without a word about  *)
(* counters, timers, listeners or the order of the queue: a service of     *)
(* Capacity places with Seats for those who wait, in which nobody waits    *)
(* while a place is free and every change of place is a caller's own       *)
(* arrival, its leaving, or the end of one that is being served.           *)
(***************************************************************************)
EXTENDS Naturals, FiniteSets

CONSTANTS
    Caller,
    Capacity,
    Seats

VARIABLE phase    \* "outside", "waiting", "served", "done" or "turned-away"

Served  == {c \in Caller : phase[c] = "served"}
Waiting == {c \in Caller : phase[c] = "waiting"}

Init == phase = [c \in Caller |-> "outside"]

Full == Cardinality(Served) = Capacity

Become(c, p) == phase' = [phase EXCEPT ![c] = p]

Enter(c) ==
    /\ phase[c] = "outside"
    /\ ~Full
    /\ Become(c, "served")

Wait(c) ==
    /\ phase[c] = "outside"
    /\ Full
    /\ Cardinality(Waiting) < Seats
    /\ Become(c, "waiting")

\* A caller may be turned away before it is served, for a full room or of its own.
TurnAway(c) ==
    /\ phase[c] \in {"outside", "waiting"}
    /\ Become(c, "turned-away")

\* One that is served is done; some that wait may be given a place and some
\* turned away, but whoever goes on waiting does so because the places are taken.
Finish(c) ==
    /\ phase[c] = "served"
    /\ \E next \in SUBSET Waiting : \E lost \in SUBSET (Waiting \ next) :
          /\ phase' = [d \in Caller |->
                 IF d = c THEN "done"
                 ELSE IF d \in next THEN "served"
                 ELSE IF d \in lost THEN "turned-away"
                 ELSE phase[d]]
          /\ Waiting # next \cup lost => Cardinality(Served') = Capacity
          /\ Cardinality(Served') <= Capacity

Next == \E c \in Caller : Enter(c) \/ Wait(c) \/ TurnAway(c) \/ Finish(c)

Spec == Init /\ [][Next]_phase
=============================================================================

---------------------- MODULE BrevgeneratorClient_proofs ----------------------
(***************************************************************************)
(* Proofs about GenerationScheduler, and about the client, the route and   *)
(* the scheduler together, for every number of requests, every limit and   *)
(* every behaviour of the wall clock.                                      *)
(*                                                                         *)
(* First the scheduler: its bookkeeping, what it does with time, and that  *)
(* it implements BoundedService.  Then the composition: it is a behaviour  *)
(* of the scheduler, so that everything proved of the scheduler holds of   *)
(* it; replies tell what became of the task; no call has its document      *)
(* rendered twice; and only those who left are told that they did.         *)
(***************************************************************************)
EXTENDS BrevgeneratorClient, FiniteSetTheorems, SequenceTheorems, TLAPS

-----------------------------------------------------------------------------
(* The loop of startPendingTasks.                                            *)

\* A nonempty set of naturals has a least element.
LEMMA LeastElement ==
    ASSUME NEW S \in SUBSET Nat, S # {}
    PROVE  \E n \in S : \A m \in S : ~(m < n)
<1> DEFINE R == OpToRel(<, Nat)
<1>1. IsWellFoundedOn(R, Nat)
  BY NatLessThanWellFounded
<1>2. PICK n \in S : \A m \in S : <<m, n>> \notin R
  BY <1>1, WFMin
<1>3. \A m \in S : m < n => <<m, n>> \in R
  BY DEF OpToRel
<1> QED
  BY <1>2, <1>3

\* The while loop ends: Shifts is well defined.
LEMMA ShiftsIsLeast ==
    ASSUME pendingJobs \in Seq(Request), NEW active
    PROVE  /\ Shifts(active) \in 0..Len(pendingJobs)
           /\ LoopEnds(active, Shifts(active))
           /\ \A m \in 0..(Shifts(active) - 1) : ~LoopEnds(active, m)
<1> DEFINE S == {n \in 0..Len(pendingJobs) : LoopEnds(active, n)}
<1>1. Len(pendingJobs) \in Nat
  BY LenProperties
<1>2. Len(pendingJobs) \in S
  BY <1>1 DEF LoopEnds
<1>3. PICK n \in S : \A m \in S : ~(m < n)
  <2>1. S \in SUBSET Nat /\ S # {}
    BY <1>1, <1>2
  <2> HIDE DEF S
  <2> QED
    BY <2>1, LeastElement
<1>4. \A m \in 0..(n - 1) : ~LoopEnds(active, m)
  <2> SUFFICES ASSUME NEW m \in 0..(n - 1), LoopEnds(active, m)
               PROVE  FALSE
    OBVIOUS
  <2>1. m \in S /\ m < n
    BY <1>1
  <2> QED
    BY <2>1, <1>3
<1> QED
  BY <1>3, <1>4 DEF Shifts

\* The requests the loop starts are finitely many, however many are shifted.
LEMMA LiveAmongFirstFinite ==
    ASSUME pendingJobs \in Seq(Request), NEW n \in 0..Len(pendingJobs)
    PROVE  /\ IsFiniteSet(LiveAmongFirst(n))
           /\ Cardinality(LiveAmongFirst(n)) \in Nat
<1> DEFINE T == {pendingJobs[i] : i \in 1..n}
           f == [i \in 1..n |-> pendingJobs[i]]
<1>1. n \in Int
  BY LenProperties
<1>2. IsFiniteSet(1..n)
  BY <1>1, FS_Interval
<1>3. f \in Surjection(1..n, T)
  BY DEF Surjection
<1>4. IsFiniteSet(T)
  BY <1>2, <1>3, FS_Surjection
<1>5. LiveAmongFirst(n) \in SUBSET T
  BY DEF LiveAmongFirst
<1> QED
  BY <1>4, <1>5, FS_Subset, FS_CardinalityType

\* One more entry shifted is at most one more started.
LEMMA LiveAmongFirstStep ==
    ASSUME pendingJobs \in Seq(Request), NEW n \in 1..Len(pendingJobs)
    PROVE  Cardinality(LiveAmongFirst(n)) <= Cardinality(LiveAmongFirst(n - 1)) + 1
<1> DEFINE B == LiveAmongFirst(n - 1)
           C == B \cup {pendingJobs[n]}
<1>1. Len(pendingJobs) \in Nat
  BY LenProperties
<1>2. n - 1 \in 0..Len(pendingJobs)
  BY <1>1
<1>3. IsFiniteSet(B) /\ Cardinality(B) \in Nat
  BY <1>2, LiveAmongFirstFinite
<1>4. IsFiniteSet(C) /\ Cardinality(C) <= Cardinality(B) + 1
  <2> HIDE DEF B
  <2>1. /\ IsFiniteSet(B \cup {pendingJobs[n]})
        /\ Cardinality(B \cup {pendingJobs[n]}) =
               IF pendingJobs[n] \in B THEN Cardinality(B) ELSE Cardinality(B) + 1
    BY <1>3, FS_AddElement
  <2> QED
    BY <1>3, <2>1
<1>5. LiveAmongFirst(n) \in SUBSET C
  BY <1>1 DEF LiveAmongFirst
<1>6. IsFiniteSet(LiveAmongFirst(n)) /\ Cardinality(LiveAmongFirst(n)) <= Cardinality(C)
  BY <1>4, <1>5, FS_Subset
<1>7. Cardinality(LiveAmongFirst(n)) \in Nat /\ Cardinality(C) \in Nat
  BY <1>4, <1>6, FS_CardinalityType
<1> QED
  BY <1>3, <1>4, <1>6, <1>7

\* The pump never starts more than there are slots, and leaves entries behind
\* only when every slot is taken.
LEMMA PumpFillsSlots ==
    ASSUME pendingJobs \in Seq(Request), NEW active \in Int, active <= MaxConcurrentJobs,
           NEW n, n = Shifts(active)
    PROVE  /\ active + Cardinality(LiveAmongFirst(n)) <= MaxConcurrentJobs
           /\ n < Len(pendingJobs) =>
                  active + Cardinality(LiveAmongFirst(n)) = MaxConcurrentJobs
<1> USE SchedulerLimits
<1>1. /\ n \in 0..Len(pendingJobs)
      /\ LoopEnds(active, n)
      /\ \A m \in 0..(n - 1) : ~LoopEnds(active, m)
  BY ShiftsIsLeast
<1>2. Len(pendingJobs) \in Nat
  BY LenProperties
<1>3. Cardinality(LiveAmongFirst(n)) \in Nat
  BY <1>1, LiveAmongFirstFinite
<1>4. CASE n = 0
  <2>1. LiveAmongFirst(n) = {}
    BY <1>4 DEF LiveAmongFirst
  <2>2. Cardinality(LiveAmongFirst(n)) = 0
    BY <2>1, FS_EmptySet
  <2> QED
    BY <1>1, <1>2, <2>2 DEF LoopEnds
<1>5. CASE n # 0
  <2>1. n \in 1..Len(pendingJobs) /\ n - 1 \in 0..(n - 1) /\ n - 1 \in 0..Len(pendingJobs)
    BY <1>1, <1>2, <1>5
  <2>2. Cardinality(LiveAmongFirst(n - 1)) \in Nat
    BY <2>1, LiveAmongFirstFinite
  <2>3. active + Cardinality(LiveAmongFirst(n - 1)) < MaxConcurrentJobs
    BY <1>1, <2>1, <2>2 DEF LoopEnds
  <2>4. Cardinality(LiveAmongFirst(n)) <= Cardinality(LiveAmongFirst(n - 1)) + 1
    BY <2>1, LiveAmongFirstStep
  <2> QED
    BY <1>1, <1>2, <1>3, <2>2, <2>3, <2>4 DEF LoopEnds
<1> QED
  BY <1>4, <1>5

\* Updating a function at one point keeps its type.
LEMMA UpdateTyping ==
    ASSUME NEW S, NEW T, NEW f \in [S -> T], NEW x, NEW v \in T
    PROVE  [f EXCEPT ![x] = v] \in [S -> T]
<1> QED
  OBVIOUS

\* What splice(i, 1) leaves.
LEMMA RemoveAtEntries ==
    ASSUME NEW S, NEW q \in Seq(S), NEW i \in 1..Len(q)
    PROVE  /\ RemoveAt(q, i) \in Seq(S)
           /\ Len(RemoveAt(q, i)) = Len(q) - 1
           /\ \A j \in 1..(Len(q) - 1) :
                  RemoveAt(q, i)[j] = IF j < i THEN q[j] ELSE q[j + 1]
<1> DEFINE a == SubSeq(q, 1, i - 1)
           b == SubSeq(q, i + 1, Len(q))
<1>1. Len(q) \in Nat /\ \A j \in 1..Len(q) : q[j] \in S
  BY LenProperties, ElementOfSeq
<1>2. /\ a \in Seq(S)
      /\ Len(a) = i - 1
      /\ \A j \in 1..(i - 1) : a[j] = q[j]
  <2>1. \A j \in 1..(i - 1) : q[j] \in S
    BY <1>1
  <2> QED
    BY <1>1, <2>1, SubSeqProperties
<1>3. /\ b \in Seq(S)
      /\ Len(b) = Len(q) - i
      /\ \A j \in 1..(Len(q) - i) : b[j] = q[j + i]
  <2>1. \A j \in (i + 1)..Len(q) : q[j] \in S
    BY <1>1
  <2>2. /\ b \in Seq(S)
        /\ Len(b) = IF i + 1 <= Len(q) THEN Len(q) - (i + 1) + 1 ELSE 0
        /\ \A j \in 1..(Len(q) - (i + 1) + 1) : b[j] = q[(i + 1) + j - 1]
    BY <1>1, <2>1, SubSeqProperties
  <2> QED
    BY <1>1, <2>2
<1>4. RemoveAt(q, i) = a \o b
  BY DEF RemoveAt
<1>5. /\ a \o b \in Seq(S)
      /\ Len(a \o b) = Len(a) + Len(b)
      /\ \A j \in 1..(Len(a) + Len(b)) :
             (a \o b)[j] = IF j <= Len(a) THEN a[j] ELSE b[j - Len(a)]
  BY <1>2, <1>3, ConcatProperties
<1> HIDE DEF a, b
<1> QED
  BY <1>1, <1>2, <1>3, <1>4, <1>5

-----------------------------------------------------------------------------
(* The inductive invariant: the queue, the slots and the bookkeeping about   *)
(* them are only consistent together.                                        *)

SlotsConsistent ==
    /\ IsFiniteSet(Running)
    /\ SlotsAccounted
    /\ NoIdleSlot

QueueConsistent ==
    /\ QueueIsExact
    /\ ResourcesFollowQueue
    /\ NoGhostInQueue
    /\ HealthMirrorsScheduler

Inv == TypeOK /\ SlotsConsistent /\ QueueConsistent

\* The constructor establishes the invariant.
LEMMA InitInv == Init => Inv
<1> SUFFICES ASSUME Init PROVE Inv
  OBVIOUS
<1> USE SchedulerLimits DEF Init
<1>1. Running = {} /\ Queued = {}
  BY DEF Running, Queued
<1>2. TypeOK
  BY EmptySeq DEF TypeOK, Status
<1>3. SlotsConsistent
  BY <1>1, FS_EmptySet DEF SlotsConsistent, SlotsAccounted, NoIdleSlot
<1>4. ToSet(pendingJobs) = {} /\ Len(pendingJobs) = 0 /\ DOMAIN pendingJobs = {}
  BY EmptySeq DEF ToSet
<1>5. QueueConsistent
  BY <1>1, <1>4 DEF QueueConsistent, QueueIsExact, ResourcesFollowQueue, NoGhostInQueue,
     HealthMirrorsScheduler
<1> QED
  BY <1>2, <1>3, <1>5 DEF Inv

\* Consequences of QueueIsExact in the form the steps use.
LEMMA QueueEntries ==
    ASSUME TypeOK, QueueIsExact
    PROVE  /\ Len(pendingJobs) \in Nat
           /\ DOMAIN pendingJobs = 1..Len(pendingJobs)
           /\ \A i \in 1..Len(pendingJobs) :
                  pendingJobs[i] \in Request /\ status[pendingJobs[i]] = "queued"
           /\ \A r \in Queued : \E i \in 1..Len(pendingJobs) : pendingJobs[i] = r
           /\ \A i, j \in 1..Len(pendingJobs) :
                  i # j => pendingJobs[i] # pendingJobs[j]
<1>1. /\ Len(pendingJobs) \in Nat
      /\ DOMAIN pendingJobs = 1..Len(pendingJobs)
  BY LenProperties DEF TypeOK
<1> QED
  BY <1>1 DEF QueueIsExact, ToSet, Queued

\* A request leaves the queue by its deadline or because its caller is gone.
LEMMA LeaveQueueInv ==
    ASSUME Inv,
           NEW i \in DOMAIN pendingJobs,
           NEW outcome \in {"queue-deadline", "cancelled"},
           LeaveQueue(i, outcome),
           aborted' = aborted \/ aborted' = aborted \cup {pendingJobs[i]}
    PROVE  Inv'
<1> DEFINE r == pendingJobs[i]
           q == pendingJobs
<1>1. /\ TypeOK /\ QueueIsExact
      /\ SlotsAccounted /\ NoIdleSlot /\ IsFiniteSet(Running)
      /\ ResourcesFollowQueue /\ NoGhostInQueue /\ HealthMirrorsScheduler
  BY DEF Inv, SlotsConsistent, QueueConsistent
<1>2. /\ Len(q) \in Nat
      /\ DOMAIN q = 1..Len(q)
      /\ \A j \in 1..Len(q) : q[j] \in Request /\ status[q[j]] = "queued"
      /\ \A s \in Queued : \E j \in 1..Len(q) : q[j] = s
      /\ \A j, k \in 1..Len(q) : j # k => q[j] # q[k]
  BY <1>1, QueueEntries
<1>3. r \in Request /\ status[r] = "queued" /\ i \in 1..Len(q)
  BY <1>2
<1>4. /\ pendingJobs' \in Seq(Request)
      /\ Len(pendingJobs') = Len(q) - 1
      /\ \A j \in 1..(Len(q) - 1) : pendingJobs'[j] = IF j < i THEN q[j] ELSE q[j + 1]
  BY <1>1, <1>3, RemoveAtEntries DEF LeaveQueue, Spliced, TypeOK
<1>5. DOMAIN pendingJobs' = 1..(Len(q) - 1)
  BY <1>4, LenProperties
<1>6. /\ status' = [status EXCEPT ![r] = outcome]
      /\ timers' = timers \ {r}
      /\ listeners' = listeners \ {r}
      /\ health' = [health EXCEPT !.pending = Len(pendingJobs')]
      /\ age' = [age EXCEPT ![r] = 0]
      /\ waited' = [waited EXCEPT ![r] = 0]
      /\ UNCHANGED <<activeJobs, budget, clockSteps>>
  BY DEF LeaveQueue, ClearResources
<1> HIDE DEF r
<1>7. TypeOK'
  <2>1. status' \in [Request -> Status]
    BY <1>1, <1>3, <1>6 DEF TypeOK, Status, Settled
  <2>2. age' \in [Request -> Nat]
    <3>1. age \in [Request -> Nat] /\ age' = [age EXCEPT ![r] = 0]
      BY <1>1, <1>6 DEF TypeOK
    <3> QED
      BY <3>1
  <2>8. waited' \in [Request -> Int]
    <3>1. waited \in [Request -> Int] /\ waited' = [waited EXCEPT ![r] = 0] /\ 0 \in Int
      BY <1>1, <1>6 DEF TypeOK
    <3> QED
      BY <3>1, UpdateTyping
  <2>3. health' = [jobs |-> health.jobs, pending |-> Len(q) - 1]
    BY <1>1, <1>4, <1>6 DEF TypeOK
  <2>4. health' \in [jobs : SUBSET Request, pending : Nat]
    BY <1>1, <1>2, <1>3, <2>3 DEF TypeOK
  <2>5. aborted' \subseteq Request
    BY <1>1, <1>3 DEF TypeOK, r
  <2>6. timers' \subseteq Request /\ listeners' \subseteq Request
    BY <1>1, <1>6 DEF TypeOK
  <2>7. activeJobs' \in Nat /\ budget' \in [Request -> Int] /\ clockSteps' \in Nat
    BY <1>1, <1>6 DEF TypeOK
  <2> QED
    BY <1>4, <2>1, <2>2, <2>4, <2>5, <2>6, <2>7, <2>8 DEF TypeOK
<1>8. Queued' = Queued \ {r} /\ Running' = Running
  BY <1>1, <1>3, <1>6 DEF Queued, Running, TypeOK
<1>9. SlotsConsistent'
  <2>1. pendingJobs' # <<>> => pendingJobs # <<>>
    BY <1>2, <1>3
  <2> QED
    BY <1>1, <1>6, <1>8, <2>1 DEF SlotsConsistent, SlotsAccounted, NoIdleSlot
<1>10. QueueConsistent'
  <2>1. ToSet(pendingJobs') = Queued \ {r}
    <3>1. ASSUME NEW j \in 1..(Len(q) - 1)
          PROVE  pendingJobs'[j] \in Queued \ {r}
      <4> DEFINE k == IF j < i THEN j ELSE j + 1
      <4>1. k \in 1..Len(q) /\ k # i
        BY <1>2, <1>3
      <4>2. pendingJobs'[j] = q[k]
        BY <1>4
      <4> HIDE DEF k
      <4> QED
        BY <4>1, <4>2, <1>2, <1>3 DEF Queued, r
    <3>2. ASSUME NEW s \in Queued \ {r}
          PROVE  \E j \in 1..(Len(q) - 1) : pendingJobs'[j] = s
      <4>1. PICK k \in 1..Len(q) : q[k] = s /\ k # i
        BY <1>2 DEF r
      <4>2. CASE k < i
        BY <4>1, <4>2, <1>2, <1>3, <1>4
      <4>3. CASE k > i
        <5>1. k - 1 \in 1..(Len(q) - 1) /\ ~(k - 1 < i) /\ (k - 1) + 1 = k
          BY <4>1, <4>3, <1>2, <1>3
        <5> QED
          BY <4>1, <5>1, <1>4
      <4> QED
        BY <4>1, <4>2, <4>3, <1>2, <1>3
    <3> QED
      BY <1>5, <3>1, <3>2 DEF ToSet
  <2>2. \A j, k \in DOMAIN pendingJobs' : j # k => pendingJobs'[j] # pendingJobs'[k]
    <3> SUFFICES ASSUME NEW j \in 1..(Len(q) - 1), NEW k \in 1..(Len(q) - 1), j # k
                 PROVE  pendingJobs'[j] # pendingJobs'[k]
      BY <1>5
    <3> DEFINE old(m) == IF m < i THEN m ELSE m + 1
    <3>1. /\ old(j) \in 1..Len(q) /\ old(k) \in 1..Len(q) /\ old(j) # old(k)
      BY <1>2, <1>3
    <3>2. pendingJobs'[j] = q[old(j)] /\ pendingJobs'[k] = q[old(k)]
      BY <1>4
    <3> QED
      BY <1>2, <3>1, <3>2
  <2>3. QueueIsExact'
    BY <1>1, <1>2, <1>4, <1>8, <2>1, <2>2, SchedulerLimits DEF QueueIsExact
  <2>4. (ResourcesFollowQueue /\ NoGhostInQueue)'
    BY <1>1, <1>6, <1>8 DEF ResourcesFollowQueue, NoGhostInQueue, r
  <2>5. HealthMirrorsScheduler'
    BY <1>1, <1>6, <1>8 DEF HealthMirrorsScheduler, TypeOK
  <2> QED
    BY <2>3, <2>4, <2>5 DEF QueueConsistent
<1> QED
  BY <1>7, <1>9, <1>10 DEF Inv

\* A call of schedule() that neither runs nor queues anything.
LEMMA RefusedInv ==
    ASSUME Inv,
           NEW r \in Request, status[r] = "new",
           NEW outcome \in Settled,
           status' = [status EXCEPT ![r] = outcome],
           UNCHANGED <<activeJobs, queueVars, aborted, health, age, budget, clockSteps>>
    PROVE  Inv'
<1>1. /\ TypeOK /\ QueueIsExact
      /\ SlotsAccounted /\ NoIdleSlot /\ IsFiniteSet(Running)
      /\ ResourcesFollowQueue /\ NoGhostInQueue /\ HealthMirrorsScheduler
  BY DEF Inv, SlotsConsistent, QueueConsistent
<1>2. TypeOK'
  <2>1. status' \in [Request -> Status]
    BY <1>1 DEF TypeOK, Status
  <2> QED
    BY <1>1, <2>1 DEF TypeOK, queueVars
<1>3. Queued' = Queued /\ Running' = Running
  BY <1>1 DEF Queued, Running, TypeOK, Settled
<1>4. SlotsConsistent'
  BY <1>1, <1>3 DEF SlotsConsistent, SlotsAccounted, NoIdleSlot, queueVars
<1>5. QueueConsistent'
  BY <1>1, <1>3 DEF QueueConsistent, QueueIsExact, ResourcesFollowQueue, NoGhostInQueue,
     HealthMirrorsScheduler, queueVars
<1> QED
  BY <1>2, <1>4, <1>5 DEF Inv

\* A request that finds a free slot starts at once; nobody can be waiting then.
LEMMA ScheduleNowInv ==
    ASSUME Inv, NEW r \in Request, ScheduleNow(r)
    PROVE  Inv'
<1> USE SchedulerLimits
<1>1. /\ TypeOK /\ QueueIsExact
      /\ SlotsAccounted /\ NoIdleSlot /\ IsFiniteSet(Running)
      /\ ResourcesFollowQueue /\ NoGhostInQueue /\ HealthMirrorsScheduler
  BY DEF Inv, SlotsConsistent, QueueConsistent
<1>2. /\ status[r] = "new"
      /\ activeJobs < MaxConcurrentJobs
      /\ status' = [status EXCEPT ![r] = "running"]
      /\ activeJobs' = activeJobs + 1
      /\ health' = [health EXCEPT !.jobs = health.jobs \cup {r}]
      /\ budget' = [budget EXCEPT ![r] = TimeoutMs(0)]
      /\ UNCHANGED <<pendingJobs, timers, listeners, waited, aborted, age, clockSteps>>
  BY DEF ScheduleNow, SlotFree, queueVars
<1>3. health' = [jobs |-> health.jobs \cup {r}, pending |-> health.pending]
  BY <1>1, <1>2 DEF TypeOK
<1>4. TypeOK'
  <2>1. status' \in [Request -> Status]
    BY <1>1, <1>2 DEF TypeOK, Status
  <2>2. budget' \in [Request -> Int]
    <3>1. TimeoutMs(0) \in Int /\ budget \in [Request -> Int]
      BY <1>1 DEF TypeOK, TimeoutMs
    <3> QED
      BY <1>2, <3>1, UpdateTyping
  <2>3. health' \in [jobs : SUBSET Request, pending : Nat]
    BY <1>1, <1>3 DEF TypeOK
  <2>4. activeJobs' \in Nat
    BY <1>1, <1>2 DEF TypeOK
  <2>5. UNCHANGED <<pendingJobs, timers, listeners, waited, aborted, age, clockSteps>>
    BY <1>2
  <2> QED
    BY <1>1, <2>1, <2>2, <2>3, <2>4, <2>5 DEF TypeOK
<1>5. Queued' = Queued /\ Running' = Running \cup {r} /\ r \notin Running
  BY <1>1, <1>2 DEF Queued, Running, TypeOK
<1>6. IsFiniteSet(Running') /\ Cardinality(Running') = Cardinality(Running) + 1
  BY <1>1, <1>5, FS_AddElement
<1>7. pendingJobs = <<>>
  BY <1>1, <1>2 DEF NoIdleSlot, TypeOK
<1>8. SlotsConsistent'
  BY <1>1, <1>2, <1>6, <1>7 DEF SlotsConsistent, SlotsAccounted, NoIdleSlot, TypeOK
<1>9. QueueConsistent'
  BY <1>1, <1>2, <1>3, <1>5 DEF QueueConsistent, QueueIsExact, ResourcesFollowQueue,
     NoGhostInQueue, HealthMirrorsScheduler
<1> QED
  BY <1>4, <1>8, <1>9 DEF Inv

\* A request that finds every slot taken joins the end of the queue.
LEMMA EnqueueInv ==
    ASSUME Inv, NEW r \in Request, Enqueue(r)
    PROVE  Inv'
<1> DEFINE q == pendingJobs
<1> USE SchedulerLimits
<1>1. /\ TypeOK /\ QueueIsExact
      /\ SlotsAccounted /\ NoIdleSlot /\ IsFiniteSet(Running)
      /\ ResourcesFollowQueue /\ NoGhostInQueue /\ HealthMirrorsScheduler
  BY DEF Inv, SlotsConsistent, QueueConsistent
<1>2. /\ Len(q) \in Nat
      /\ DOMAIN q = 1..Len(q)
      /\ \A j \in 1..Len(q) : q[j] \in Request /\ status[q[j]] = "queued"
      /\ \A s \in Queued : \E j \in 1..Len(q) : q[j] = s
      /\ \A j, k \in 1..Len(q) : j # k => q[j] # q[k]
  BY <1>1, QueueEntries
<1>3. /\ status[r] = "new" /\ r \notin aborted
      /\ ~(activeJobs < MaxConcurrentJobs)
      /\ Len(pendingJobs) < MaxPendingJobs
      /\ status' = [status EXCEPT ![r] = "queued"]
      /\ pendingJobs' = Append(pendingJobs, r)
      /\ timers' = timers \cup {r}
      /\ listeners' = listeners \cup {r}
      /\ health' = [health EXCEPT !.pending = Len(pendingJobs')]
      /\ UNCHANGED <<activeJobs, waited, aborted, age, budget, clockSteps>>
  BY DEF Enqueue, SlotFree, Enqueued, Listen
<1>4. /\ pendingJobs' \in Seq(Request)
      /\ Len(pendingJobs') = Len(q) + 1
      /\ \A j \in 1..(Len(q) + 1) : pendingJobs'[j] = IF j <= Len(q) THEN q[j] ELSE r
  <2>1. pendingJobs \in Seq(Request)
    BY <1>1 DEF TypeOK
  <2>2. /\ Append(pendingJobs, r) \in Seq(Request)
        /\ Len(Append(pendingJobs, r)) = Len(pendingJobs) + 1
        /\ \A j \in 1..Len(pendingJobs) : Append(pendingJobs, r)[j] = pendingJobs[j]
        /\ Append(pendingJobs, r)[Len(pendingJobs) + 1] = r
    BY <2>1, AppendProperties
  <2>3. pendingJobs' = Append(pendingJobs, r)
    BY <1>3
  <2> QED
    BY <1>2, <2>2, <2>3
<1>5. DOMAIN pendingJobs' = 1..(Len(q) + 1)
  BY <1>4, LenProperties
<1>6. health' = [jobs |-> health.jobs, pending |-> Len(q) + 1]
  BY <1>1, <1>3, <1>4 DEF TypeOK
<1>7. TypeOK'
  <2>1. status' \in [Request -> Status]
    BY <1>1, <1>3 DEF TypeOK, Status
  <2>2. health' \in [jobs : SUBSET Request, pending : Nat]
    BY <1>1, <1>2, <1>6 DEF TypeOK
  <2>3. timers' \subseteq Request /\ listeners' \subseteq Request
    BY <1>1, <1>3 DEF TypeOK
  <2> QED
    BY <1>1, <1>3, <1>4, <2>1, <2>2, <2>3 DEF TypeOK
<1>8. Queued' = Queued \cup {r} /\ Running' = Running /\ r \notin Queued
  BY <1>1, <1>3 DEF Queued, Running, TypeOK
<1>9. SlotsConsistent'
  BY <1>1, <1>3, <1>8 DEF SlotsConsistent, SlotsAccounted, NoIdleSlot, TypeOK
<1>10. QueueConsistent'
  <2>1. ToSet(pendingJobs') = Queued \cup {r}
    <3>1. ASSUME NEW j \in 1..(Len(q) + 1)
          PROVE  pendingJobs'[j] \in Queued \cup {r}
      BY <1>2, <1>4 DEF Queued
    <3>2. ASSUME NEW s \in Queued
          PROVE  \E j \in 1..(Len(q) + 1) : pendingJobs'[j] = s
      <4>1. PICK j \in 1..Len(q) : q[j] = s
        BY <1>2
      <4> QED
        BY <1>2, <1>4, <4>1
    <3>3. \E j \in 1..(Len(q) + 1) : pendingJobs'[j] = r
      <4>1. Len(q) + 1 \in 1..(Len(q) + 1) /\ ~(Len(q) + 1 <= Len(q))
        BY <1>2
      <4> QED
        BY <1>4, <4>1
    <3> QED
      BY <1>5, <3>1, <3>2, <3>3 DEF ToSet
  <2>2. \A j, k \in DOMAIN pendingJobs' : j # k => pendingJobs'[j] # pendingJobs'[k]
    <3>1. \A j \in 1..Len(q) : q[j] # r
      BY <1>2, <1>3
    <3> QED
      BY <1>2, <1>4, <1>5, <3>1
  <2>3. QueueIsExact'
    BY <1>2, <1>3, <1>4, <1>8, <2>1, <2>2 DEF QueueIsExact
  <2>4. (ResourcesFollowQueue /\ NoGhostInQueue)'
    BY <1>1, <1>3, <1>8 DEF ResourcesFollowQueue, NoGhostInQueue
  <2>5. HealthMirrorsScheduler'
    BY <1>1, <1>4, <1>6, <1>8 DEF HealthMirrorsScheduler
  <2> QED
    BY <2>3, <2>4, <2>5 DEF QueueConsistent
<1> QED
  BY <1>7, <1>9, <1>10 DEF Inv

\* A task settles: its slot and the slots of expired or cancelled entries go to
\* the first live requests of the queue, and to nobody else.
LEMMA TaskSettlesInv ==
    ASSUME Inv,
           NEW r \in Request,
           NEW outcome \in {"fulfilled", "failed"},
           TaskSettles(r, outcome)
    PROVE  Inv'
<1> DEFINE q == pendingJobs
           settled == [status EXCEPT ![r] = outcome]
           n == Shifts(activeJobs - 1)
           shifted == {q[i] : i \in 1..n}
           started == LiveAmongFirst(n)
<1>1. /\ TypeOK /\ QueueIsExact
      /\ SlotsAccounted /\ NoIdleSlot /\ IsFiniteSet(Running)
      /\ ResourcesFollowQueue /\ NoGhostInQueue /\ HealthMirrorsScheduler
  BY DEF Inv, SlotsConsistent, QueueConsistent
<1>2. /\ Len(q) \in Nat
      /\ DOMAIN q = 1..Len(q)
      /\ \A j \in 1..Len(q) : q[j] \in Request /\ status[q[j]] = "queued"
      /\ \A s \in Queued : \E j \in 1..Len(q) : q[j] = s
      /\ \A j, k \in 1..Len(q) : j # k => q[j] # q[k]
  BY <1>1, QueueEntries
<1>3. /\ status[r] = "running"
      /\ pendingJobs' = SubSeq(q, n + 1, Len(q))
      /\ activeJobs' = activeJobs - 1 + Cardinality(started)
      /\ status' = [s \in Request |->
             CASE s \in started -> "running"
               [] s \in shifted \ started -> RejectedAs(s)
               [] OTHER -> settled[s]]
      /\ timers' = timers \ shifted
      /\ listeners' = listeners \ shifted
      /\ health' = [jobs |-> StillTracked(settled) \cup started,
                    pending |-> Len(pendingJobs')]
      /\ budget' = [s \in Request |->
             CASE s \in started -> TimeoutMs(waited[s])
               [] settled[s] \in Settled -> 0
               [] OTHER -> budget[s]]
      /\ waited' = [s \in Request |-> IF s \in shifted THEN 0 ELSE waited[s]]
      /\ age' = [s \in Request |-> IF status'[s] \in Settled THEN 0 ELSE age[s]]
      /\ aborted' = aborted /\ clockSteps' = clockSteps
  BY DEF TaskSettles, StartPendingTasks, SlotsLeft, ClearResources
<1>4. /\ activeJobs \in Nat /\ activeJobs <= MaxConcurrentJobs
      /\ MaxConcurrentJobs \in Nat
      /\ pendingJobs \in Seq(Request)
  BY <1>1, SchedulerLimits DEF TypeOK, SlotsAccounted
<1>5. /\ n \in 0..Len(q)
      /\ activeJobs - 1 + Cardinality(started) <= MaxConcurrentJobs
      /\ n < Len(q) => activeJobs - 1 + Cardinality(started) = MaxConcurrentJobs
  <2>1. activeJobs - 1 \in Int /\ activeJobs - 1 <= MaxConcurrentJobs
    BY <1>4
  <2>2. n \in 0..Len(q)
    BY <1>4, ShiftsIsLeast
  <2> QED
    BY <1>4, <2>1, <2>2, PumpFillsSlots
<1>6. IsFiniteSet(started) /\ Cardinality(started) \in Nat
  BY <1>4, <1>5, LiveAmongFirstFinite
<1>7. started \subseteq shifted
  BY DEF LiveAmongFirst
<1>8. shifted \subseteq Queued /\ r \notin shifted
  BY <1>2, <1>3, <1>5 DEF Queued
<1>9. /\ pendingJobs' \in Seq(Request)
      /\ Len(pendingJobs') = Len(q) - n
      /\ \A j \in 1..(Len(q) - n) : pendingJobs'[j] = q[n + j]
  <2>1. \A j \in (n + 1)..Len(q) : q[j] \in Request
    BY <1>2, <1>5
  <2>2. /\ SubSeq(q, n + 1, Len(q)) \in Seq(Request)
        /\ Len(SubSeq(q, n + 1, Len(q))) =
               IF n + 1 <= Len(q) THEN Len(q) - (n + 1) + 1 ELSE 0
        /\ \A j \in 1..(Len(q) - (n + 1) + 1) :
               SubSeq(q, n + 1, Len(q))[j] = q[(n + 1) + j - 1]
    BY <1>2, <1>4, <1>5, <2>1, SubSeqProperties
  <2> HIDE DEF n
  <2> QED
    BY <1>2, <1>3, <1>5, <2>2
<1>10. DOMAIN pendingJobs' = 1..(Len(q) - n)
  BY <1>9, LenProperties
<1> HIDE DEF n, shifted, started
<1>11. /\ \A s \in started : status'[s] = "running"
       /\ \A s \in shifted \ started : status'[s] \in {"cancelled", "queue-deadline"}
       /\ \A s \in Request \ shifted : status'[s] = settled[s]
  <2>1. shifted \subseteq Request
    BY <1>8 DEF Queued
  <2>2. \A s \in started : status'[s] = "running"
    BY <1>3, <1>7, <2>1
  <2>3. \A s \in shifted \ started : status'[s] = RejectedAs(s)
    BY <1>3, <1>7, <2>1
  <2>4. \A s \in Request \ shifted : status'[s] = settled[s]
    BY <1>3, <1>7
  <2> QED
    BY <2>2, <2>3, <2>4 DEF RejectedAs
<1>12. /\ settled \in [Request -> Status]
       /\ settled[r] = outcome
       /\ \A s \in Request \ {r} : settled[s] = status[s]
  BY <1>1 DEF TypeOK, Status, Settled
<1> HIDE DEF settled
<1>13. Queued' = Queued \ shifted
  BY <1>3, <1>7, <1>8, <1>11, <1>12 DEF Queued
<1>14. Running' = (Running \ {r}) \cup started
  <2>1. \A s \in shifted : s \in Request /\ status[s] = "queued"
    BY <1>8 DEF Queued
  <2>2. \A s \in Request \ shifted :
            status'[s] = "running" <=> s # r /\ status[s] = "running"
    BY <1>11, <1>12
  <2>3. \A s \in shifted : status'[s] = "running" <=> s \in started
    BY <1>11
  <2> QED
    BY <1>7, <2>1, <2>2, <2>3 DEF Running
<1>15. IsFiniteSet(Running') /\ Cardinality(Running') = activeJobs'
  <2>1. /\ IsFiniteSet(Running \ {r})
        /\ Cardinality(Running \ {r}) = activeJobs - 1
    BY <1>1, <1>3, FS_RemoveElement DEF SlotsAccounted, Running
  <2>2. (Running \ {r}) \cap started = {}
    BY <1>7, <1>8 DEF Queued, Running
  <2>3. /\ IsFiniteSet((Running \ {r}) \cup started)
        /\ Cardinality((Running \ {r}) \cup started) =
               Cardinality(Running \ {r}) + Cardinality(started)
                 - Cardinality((Running \ {r}) \cap started)
    BY <1>6, <2>1, FS_Union
  <2>4. Cardinality((Running \ {r}) \cap started) = 0
    BY <2>2, FS_EmptySet
  <2> QED
    BY <1>3, <1>4, <1>6, <1>14, <2>1, <2>3, <2>4
<1>16. SlotsConsistent'
  <2>1. SlotsAccounted'
    BY <1>3, <1>5, <1>15 DEF SlotsAccounted
  <2>2. NoIdleSlot'
    <3>1. pendingJobs' # <<>> => n < Len(q)
      BY <1>2, <1>5, <1>9, EmptySeq
    <3> QED
      BY <1>3, <1>5, <3>1 DEF NoIdleSlot
  <2> QED
    BY <1>15, <2>1, <2>2 DEF SlotsConsistent
<1>17. StillTracked(settled) = Running \ {r}
  BY <1>1, <1>3, <1>12 DEF StillTracked, HealthMirrorsScheduler, Running, Status, Settled
<1>18. QueueConsistent'
  <2>1. ToSet(pendingJobs') = Queued \ shifted
    <3>1. ASSUME NEW j \in 1..(Len(q) - n)
          PROVE  pendingJobs'[j] \in Queued \ shifted
      <4>1. n + j \in 1..Len(q) /\ n + j \notin 1..n
        BY <1>2, <1>5
      <4>2. q[n + j] \in Queued
        BY <1>2, <4>1 DEF Queued
      <4>3. q[n + j] \notin shifted
        BY <1>2, <1>5, <4>1 DEF shifted
      <4> QED
        BY <1>9, <4>2, <4>3
    <3>2. ASSUME NEW s \in Queued \ shifted
          PROVE  \E j \in 1..(Len(q) - n) : pendingJobs'[j] = s
      <4>1. PICK k \in 1..Len(q) : q[k] = s
        BY <1>2
      <4>2. k \notin 1..n
        BY <4>1 DEF shifted
      <4>3. k - n \in 1..(Len(q) - n) /\ n + (k - n) = k
        BY <1>2, <1>5, <4>2
      <4> QED
        BY <1>9, <4>1, <4>3
    <3> QED
      BY <1>10, <3>1, <3>2 DEF ToSet
  <2>2. \A j, k \in DOMAIN pendingJobs' : j # k => pendingJobs'[j] # pendingJobs'[k]
    <3> SUFFICES ASSUME NEW j \in 1..(Len(q) - n), NEW k \in 1..(Len(q) - n), j # k
                 PROVE  pendingJobs'[j] # pendingJobs'[k]
      BY <1>10
    <3>1. n + j \in 1..Len(q) /\ n + k \in 1..Len(q) /\ n + j # n + k
      BY <1>2, <1>5
    <3> QED
      BY <1>2, <1>9, <3>1
  <2>3. Len(pendingJobs') <= MaxPendingJobs
    BY <1>1, <1>2, <1>5, <1>9, SchedulerLimits DEF QueueIsExact
  <2>4. QueueIsExact'
    BY <1>13, <2>1, <2>2, <2>3 DEF QueueIsExact
  <2>5. (ResourcesFollowQueue /\ NoGhostInQueue)'
    BY <1>1, <1>3, <1>13 DEF ResourcesFollowQueue, NoGhostInQueue
  <2>6. HealthMirrorsScheduler'
    BY <1>3, <1>14, <1>17 DEF HealthMirrorsScheduler
  <2> QED
    BY <2>4, <2>5, <2>6 DEF QueueConsistent
<1>19. TypeOK'
  <2>1. status' \in [Request -> Status]
    <3>1. \A s \in Request : status'[s] \in Status
      BY <1>7, <1>11, <1>12 DEF Status, Settled
    <3>2. status' = [s \in Request |-> status'[s]]
      BY <1>3
    <3> QED
      BY <3>1, <3>2
  <2>2. age' \in [Request -> Nat]
    BY <1>1, <1>3 DEF TypeOK
  <2>3. waited' \in [Request -> Int]
    BY <1>1, <1>3 DEF TypeOK
  <2>4. budget' \in [Request -> Int]
    <3>1. /\ \A s \in Request : TimeoutMs(waited[s]) \in Int
          /\ \A s \in Request : budget[s] \in Int
      BY <1>1, SchedulerLimits DEF TypeOK, TimeoutMs
    <3> HIDE DEF settled
    <3> QED
      BY <1>3, <3>1
  <2>5. health' \in [jobs : SUBSET Request, pending : Nat]
    <3>1. Running \ {r} \subseteq Request /\ started \subseteq Request
      BY <1>7, <1>8 DEF Running, Queued
    <3>2. Len(pendingJobs') \in Nat
      BY <1>2, <1>5, <1>9
    <3> QED
      BY <1>3, <1>17, <3>1, <3>2
  <2>6. timers' \subseteq Request /\ listeners' \subseteq Request
    BY <1>1, <1>3 DEF TypeOK
  <2>7. activeJobs' \in Nat
    BY <1>15, FS_CardinalityType
  <2>8. aborted' \subseteq Request /\ clockSteps' \in Nat
    BY <1>1, <1>3 DEF TypeOK
  <2> QED
    BY <1>9, <2>1, <2>2, <2>3, <2>4, <2>5, <2>6, <2>7, <2>8 DEF TypeOK
<1> QED
  BY <1>16, <1>18, <1>19 DEF Inv

\* A caller disconnects while nothing listens to its signal.
LEMMA AbortUnheardInv ==
    ASSUME Inv, NEW r \in Request, AbortUnheard(r)
    PROVE  Inv'
<1>1. /\ TypeOK /\ QueueIsExact
      /\ SlotsAccounted /\ NoIdleSlot /\ IsFiniteSet(Running)
      /\ ResourcesFollowQueue /\ NoGhostInQueue /\ HealthMirrorsScheduler
  BY DEF Inv, SlotsConsistent, QueueConsistent
<1>2. /\ r \notin listeners
      /\ aborted' = aborted \cup {r}
      /\ UNCHANGED <<status, activeJobs, pendingJobs, timers, listeners, waited,
                     health, age, budget, clockSteps>>
  BY DEF AbortUnheard, queueVars
<1>3. TypeOK'
  BY <1>1, <1>2 DEF TypeOK
<1>4. Queued' = Queued /\ Running' = Running
  BY <1>2 DEF Queued, Running
<1>5. SlotsConsistent'
  BY <1>1, <1>2, <1>4 DEF SlotsConsistent, SlotsAccounted, NoIdleSlot
<1>6. r \notin Queued
  BY <1>1, <1>2 DEF ResourcesFollowQueue
<1>7. QueueConsistent'
  BY <1>1, <1>2, <1>4, <1>6 DEF QueueConsistent, QueueIsExact, ResourcesFollowQueue,
     NoGhostInQueue, HealthMirrorsScheduler
<1> QED
  BY <1>3, <1>5, <1>7 DEF Inv

\* Time, on either clock, moves no request.
LEMMA TimeInv ==
    ASSUME Inv, Tick \/ \E d \in ClockSteps : ClockStep(d)
    PROVE  Inv'
<1>1. /\ TypeOK /\ QueueIsExact
      /\ SlotsAccounted /\ NoIdleSlot /\ IsFiniteSet(Running)
      /\ ResourcesFollowQueue /\ NoGhostInQueue /\ HealthMirrorsScheduler
  BY DEF Inv, SlotsConsistent, QueueConsistent
<1>2. UNCHANGED <<status, activeJobs, pendingJobs, timers, listeners, aborted, health>>
  BY DEF Tick, ClockStep
<1>3. /\ age' \in [Request -> Nat]
      /\ waited' \in [Request -> Int]
      /\ budget' \in [Request -> Int]
      /\ clockSteps' \in Nat
  <2>1. CASE Tick
    BY <1>1, <2>1 DEF Tick, TypeOK
  <2>2. ASSUME NEW d \in ClockSteps, ClockStep(d)
        PROVE  /\ age' \in [Request -> Nat]
               /\ waited' \in [Request -> Int]
               /\ budget' \in [Request -> Int]
               /\ clockSteps' \in Nat
    BY <1>1, <2>2, SchedulerLimits DEF ClockStep, TypeOK
  <2> QED
    BY <2>1, <2>2
<1>4. TypeOK'
  BY <1>1, <1>2, <1>3 DEF TypeOK
<1>5. Queued' = Queued /\ Running' = Running
  BY <1>2 DEF Queued, Running
<1>6. SlotsConsistent'
  BY <1>1, <1>2, <1>5 DEF SlotsConsistent, SlotsAccounted, NoIdleSlot
<1>7. QueueConsistent'
  BY <1>1, <1>2, <1>5 DEF QueueConsistent, QueueIsExact, ResourcesFollowQueue,
     NoGhostInQueue, HealthMirrorsScheduler
<1> QED
  BY <1>4, <1>6, <1>7 DEF Inv

\* Every handler preserves it.
LEMMA NextInv ==
    ASSUME Inv, [Next]_vars
    PROVE  Inv'
<1>1. CASE UNCHANGED vars
  BY <1>1 DEF vars, queueVars, Inv, TypeOK, SlotsConsistent, SlotsAccounted, NoIdleSlot,
     QueueConsistent, QueueIsExact, ResourcesFollowQueue, NoGhostInQueue,
     HealthMirrorsScheduler, Queued, Running
<1>2. ASSUME NEW r \in Request, ScheduleAborted(r)
      PROVE  Inv'
  BY <1>2, RefusedInv DEF ScheduleAborted, Settled
<1>3. ASSUME NEW r \in Request, ScheduleNow(r)
      PROVE  Inv'
  BY <1>3, ScheduleNowInv
<1>4. ASSUME NEW r \in Request, RejectQueueFull(r)
      PROVE  Inv'
  BY <1>4, RefusedInv DEF RejectQueueFull, Settled
<1>5. ASSUME NEW r \in Request, Enqueue(r)
      PROVE  Inv'
  BY <1>5, EnqueueInv
<1>6. ASSUME NEW r \in Request, AbortUnheard(r)
      PROVE  Inv'
  BY <1>6, AbortUnheardInv
<1>7. ASSUME NEW r \in Request, NEW outcome \in {"fulfilled", "failed"},
             TaskSettles(r, outcome)
      PROVE  Inv'
  BY <1>7, TaskSettlesInv
<1>8. ASSUME NEW i \in DOMAIN pendingJobs, AbortQueued(i)
      PROVE  Inv'
  BY <1>8, LeaveQueueInv DEF AbortQueued
<1>9. ASSUME NEW i \in DOMAIN pendingJobs, DeadlineTimer(i)
      PROVE  Inv'
  BY <1>9, LeaveQueueInv DEF DeadlineTimer
<1>10. CASE Tick \/ \E d \in ClockSteps : ClockStep(d)
  BY <1>10, TimeInv
<1> QED
  BY <1>1, <1>2, <1>3, <1>4, <1>5, <1>6, <1>7, <1>8, <1>9, <1>10 DEF Next, Schedule

\* So it holds throughout every behaviour.
LEMMA InvHolds == Spec => []Inv
<1> QED
  BY InitInv, NextInv, PTL DEF Spec

-----------------------------------------------------------------------------
(* The results.                                                              *)

\* Every variable of the scheduler keeps its type.
THEOREM TypeCorrect == Spec => []TypeOK
<1>1. Inv => TypeOK
  BY DEF Inv
<1> QED
  BY <1>1, InvHolds, PTL

\* The slot counter is exact, never passes the limit, and no request waits while
\* a slot is free, for every limit and every number of requests.
THEOREM SlotsCorrect == Spec => []SlotsInUse
<1>1. Inv => SlotsInUse
  BY DEF Inv, SlotsConsistent, SlotsInUse
<1> QED
  BY <1>1, InvHolds, PTL

\* The queue holds exactly the requests that wait, none of a caller that is gone,
\* and deadline timers and abort listeners exist for these and for nothing else.
THEOREM QueueCorrect == Spec => []QueueHoldsTheWaiting
<1>1. Inv => QueueHoldsTheWaiting
  BY DEF Inv, QueueConsistent, QueueHoldsTheWaiting
<1> QED
  BY <1>1, InvHolds, PTL

\* RendererHealth is always told the truth about the running and waiting jobs.
THEOREM HealthCorrect == Spec => []HealthMirrorsScheduler
<1>1. Inv => HealthMirrorsScheduler
  BY DEF Inv, QueueConsistent
<1> QED
  BY <1>1, InvHolds, PTL

-----------------------------------------------------------------------------
(* What a step does to a queued or a settled request.                        *)

\* Only the pump starts a queued request, and only a live one among the entries
\* it shifts; these are the facts about the pump that the properties need.
LEMMA PumpEffect ==
    ASSUME Inv,
           NEW r \in Request,
           NEW outcome \in {"fulfilled", "failed"},
           TaskSettles(r, outcome),
           NEW n, n = Shifts(activeJobs - 1)
    PROVE  /\ n \in 0..Len(pendingJobs)
           /\ status[r] = "running"
           /\ \A s \in Queued :
                 /\ status'[s] = "running" =>
                        s \in LiveAmongFirst(n) /\ budget'[s] = TimeoutMs(waited[s])
                 /\ status'[s] \in {"cancelled", "queue-deadline", "queued", "running"}
           /\ \A i \in 1..n : status'[pendingJobs[i]] # "queued"
           /\ \A s \in Request : status[s] \notin {"queued", "running"} => status'[s] = status[s]
           /\ status'[r] = outcome
           /\ \A s \in Running \ {r} : status'[s] = "running" /\ budget'[s] = budget[s]
           /\ \A s \in Request :
                 /\ status'[s] \notin Settled => age'[s] = age[s]
                 /\ status'[s] \in {"new", "queued"} => waited'[s] = waited[s]
<1> DEFINE q == pendingJobs
           settled == [status EXCEPT ![r] = outcome]
           shifted == {q[i] : i \in 1..n}
           started == LiveAmongFirst(n)
<1>1. TypeOK /\ QueueIsExact
  BY DEF Inv, QueueConsistent
<1>2. /\ Len(q) \in Nat
      /\ \A j \in 1..Len(q) : q[j] \in Request /\ status[q[j]] = "queued"
  BY <1>1, QueueEntries
<1>3. /\ status[r] = "running"
      /\ status' = [s \in Request |->
             CASE s \in started -> "running"
               [] s \in shifted \ started -> RejectedAs(s)
               [] OTHER -> settled[s]]
      /\ budget' = [s \in Request |->
             CASE s \in started -> TimeoutMs(waited[s])
               [] settled[s] \in Settled -> 0
               [] OTHER -> budget[s]]
      /\ waited' = [s \in Request |-> IF s \in shifted THEN 0 ELSE waited[s]]
      /\ age' = [s \in Request |-> IF status'[s] \in Settled THEN 0 ELSE age[s]]
  BY DEF TaskSettles, StartPendingTasks, SlotsLeft
<1>4. n \in 0..Len(q)
  <2>1. pendingJobs \in Seq(Request)
    BY <1>1 DEF TypeOK
  <2> QED
    BY <2>1, ShiftsIsLeast
<1>5. started \subseteq shifted
  BY DEF LiveAmongFirst
<1>6. \A s \in shifted : s \in Request /\ status[s] = "queued"
  BY <1>2, <1>4
<1>7. /\ \A s \in Request \ {r} : settled[s] = status[s]
      /\ settled[r] = outcome
  BY <1>1 DEF TypeOK
<1> HIDE DEF started, shifted, settled
<1>8. /\ \A s \in started : status'[s] = "running" /\ budget'[s] = TimeoutMs(waited[s])
      /\ \A s \in shifted \ started : status'[s] \in {"cancelled", "queue-deadline"}
      /\ \A s \in Request \ shifted : status'[s] = settled[s]
  <2>1. ASSUME NEW s \in started
        PROVE  status'[s] = "running" /\ budget'[s] = TimeoutMs(waited[s])
    <3>1. s \in Request
      BY <1>5, <1>6
    <3>2. status'[s] = "running"
      BY <1>3, <3>1
    <3>3. settled[s] \notin Settled
      BY <1>3, <1>5, <1>6, <1>7 DEF Settled
    <3>4. budget'[s] = TimeoutMs(waited[s])
      BY <1>3, <3>1, <3>3
    <3> QED
      BY <3>2, <3>4
  <2>2. \A s \in shifted \ started : status'[s] = RejectedAs(s)
    BY <1>3, <1>5, <1>6
  <2>3. \A s \in Request \ shifted : status'[s] = settled[s]
    BY <1>3, <1>5
  <2> QED
    BY <2>1, <2>2, <2>3 DEF RejectedAs
<1>9. \A i \in 1..n : status'[q[i]] # "queued"
  <2>1. \A i \in 1..n : q[i] \in shifted
    BY DEF shifted
  <2> QED
    BY <1>8, <2>1
<1>10. \A s \in Request \ shifted : status[s] \in {"queued"} => status'[s] = "queued"
  BY <1>3, <1>7, <1>8
<1>11. ASSUME NEW s \in Queued
       PROVE  /\ status'[s] = "running" =>
                     s \in started /\ budget'[s] = TimeoutMs(waited[s])
              /\ status'[s] \in {"cancelled", "queue-deadline", "queued", "running"}
  <2>1. s \in Request /\ status[s] = "queued"
    BY DEF Queued
  <2> QED
    BY <1>8, <1>10, <2>1 DEF Settled
<1>12. \A s \in Request : status[s] \notin {"queued", "running"} => status'[s] = status[s]
  BY <1>3, <1>6, <1>7, <1>8
<1>13. status'[r] = outcome
  BY <1>3, <1>6, <1>7, <1>8
<1>14. ASSUME NEW s \in Running \ {r}
       PROVE  status'[s] = "running" /\ budget'[s] = budget[s]
  <2>1. s \in Request /\ s \notin shifted /\ settled[s] = "running"
    BY <1>6, <1>7 DEF Running
  <2>2. status'[s] = "running"
    BY <1>8, <2>1
  <2>3. s \notin started /\ settled[s] \notin Settled
    BY <1>5, <2>1 DEF Settled
  <2>4. budget'[s] = budget[s]
    BY <1>3, <2>1, <2>3
  <2> QED
    BY <2>2, <2>4
<1>15. ASSUME NEW s \in Request
       PROVE  /\ status'[s] \notin Settled => age'[s] = age[s]
              /\ status'[s] \in {"new", "queued"} => waited'[s] = waited[s]
  <2>1. status'[s] \in {"new", "queued"} => s \notin shifted
    BY <1>8
  <2> QED
    BY <1>3, <2>1
<1> QED
  BY <1>3, <1>4, <1>9, <1>11, <1>12, <1>13, <1>14, <1>15 DEF started

\* A queued request is started by the pump and by nothing else.
LEMMA OnlyPumpStarts ==
    ASSUME Inv, [Next]_vars, NEW s \in Queued, status'[s] = "running"
    PROVE  \E r \in Request, outcome \in {"fulfilled", "failed"} : TaskSettles(r, outcome)
<1>1. status \in [Request -> Status] /\ s \in Request /\ status[s] = "queued"
  BY DEF Inv, TypeOK, Queued
<1>2. ASSUME UNCHANGED status PROVE FALSE
  BY <1>1, <1>2
<1>3. ASSUME NEW r \in Request, Schedule(r)
      PROVE  FALSE
  BY <1>1, <1>3 DEF Schedule, ScheduleAborted, ScheduleNow, RejectQueueFull, Enqueue
<1>4. ASSUME NEW i \in DOMAIN pendingJobs, AbortQueued(i) \/ DeadlineTimer(i)
      PROVE  FALSE
  BY <1>1, <1>4 DEF AbortQueued, DeadlineTimer, LeaveQueue
<1> QED
  BY <1>2, <1>3, <1>4 DEF Next, vars, AbortUnheard, Tick, ClockStep

\* However late timers run and whatever the wall clock does, no task is started
\* out of the queue with less budget than the reserve of the constructor's check.
THEOREM BudgetCorrect == Spec => NoStartWithoutBudget
<1>1. ASSUME Inv, [Next]_vars
      PROVE  [\A r \in Queued : status'[r] = "running" =>
                  budget'[r] > MaxJobDuration - MaxQueueWait]_vars
  <2> SUFFICES ASSUME NEW s \in Queued, status'[s] = "running"
               PROVE  budget'[s] > MaxJobDuration - MaxQueueWait
    OBVIOUS
  <2>1. PICK r \in Request, outcome \in {"fulfilled", "failed"} : TaskSettles(r, outcome)
    BY <1>1, OnlyPumpStarts
  <2> DEFINE n == Shifts(activeJobs - 1)
  <2>2. s \in LiveAmongFirst(n) /\ budget'[s] = TimeoutMs(waited[s])
    BY <1>1, <2>1, PumpEffect
  <2>3. waited[s] < MaxQueueWait
    BY <2>2 DEF LiveAmongFirst, Live
  <2>4. waited[s] \in Int
    BY <1>1 DEF Inv, TypeOK, Queued
  <2> HIDE DEF n
  <2> QED
    BY <2>2, <2>3, <2>4, SchedulerLimits DEF TimeoutMs
<1> QED
  BY <1>1, InvHolds, PTL DEF Spec, NoStartWithoutBudget

\* A promise settles once: a request that was answered is never touched again.
THEOREM AnsweredOnceCorrect == Spec => AnsweredOnce
<1>1. Inv /\ [Next]_vars =>
          [\A r \in Request : status[r] \in Settled => status'[r] = status[r]]_vars
  <2> SUFFICES ASSUME Inv, [Next]_vars, NEW s \in Request, status[s] \in Settled
               PROVE  status'[s] = status[s]
    OBVIOUS
  <2>1. TypeOK /\ QueueIsExact /\ status \in [Request -> Status]
    BY DEF Inv, QueueConsistent, TypeOK
  <2>2. ASSUME NEW r \in Request, Schedule(r)
        PROVE  status'[s] = status[s]
    BY <2>1, <2>2 DEF Schedule, ScheduleAborted, ScheduleNow, RejectQueueFull, Enqueue, Settled
  <2>3. ASSUME NEW i \in DOMAIN pendingJobs, AbortQueued(i) \/ DeadlineTimer(i)
        PROVE  status'[s] = status[s]
    <3>1. status[pendingJobs[i]] = "queued"
      BY <2>1, <2>3, QueueEntries
    <3> QED
      BY <2>1, <2>3, <3>1 DEF AbortQueued, DeadlineTimer, LeaveQueue, Settled
  <2>4. ASSUME NEW r \in Request, NEW outcome \in {"fulfilled", "failed"},
               TaskSettles(r, outcome)
        PROVE  status'[s] = status[s]
    BY <2>4, PumpEffect DEF Settled
  <2> QED
    BY <2>2, <2>3, <2>4 DEF Next, vars, AbortUnheard, Tick, ClockStep
<1> QED
  BY <1>1, InvHolds, PTL DEF Spec, AnsweredOnce

-----------------------------------------------------------------------------
(* Order.  Age decreases along the queue, whatever leaves it from within.    *)

SortedByAge ==
    /\ \A r \in Request : status[r] = "new" => age[r] = 0
    /\ \A i, j \in DOMAIN pendingJobs : i < j => age[pendingJobs[i]] >= age[pendingJobs[j]]

\* The entries of the queue that stay keep their age and their order.
LEMMA LeaveQueueSorted ==
    ASSUME Inv, SortedByAge,
           NEW i \in DOMAIN pendingJobs,
           NEW outcome \in {"queue-deadline", "cancelled"},
           LeaveQueue(i, outcome)
    PROVE  SortedByAge'
<1> DEFINE q == pendingJobs
<1>1. TypeOK /\ QueueIsExact
  BY DEF Inv, QueueConsistent
<1>2. /\ Len(q) \in Nat
      /\ DOMAIN q = 1..Len(q)
      /\ \A j \in 1..Len(q) : q[j] \in Request /\ status[q[j]] = "queued"
      /\ \A j, k \in 1..Len(q) : j # k => q[j] # q[k]
  BY <1>1, QueueEntries
<1>3. /\ pendingJobs' \in Seq(Request)
      /\ Len(pendingJobs') = Len(q) - 1
      /\ \A j \in 1..(Len(q) - 1) : pendingJobs'[j] = IF j < i THEN q[j] ELSE q[j + 1]
  <2>1. pendingJobs \in Seq(Request) /\ i \in 1..Len(pendingJobs)
    BY <1>1, <1>2 DEF TypeOK
  <2>2. pendingJobs' = RemoveAt(q, i)
    BY DEF LeaveQueue, Spliced
  <2> QED
    BY <2>1, <2>2, RemoveAtEntries
<1>4. DOMAIN pendingJobs' = 1..(Len(q) - 1)
  BY <1>3, LenProperties
<1>5. /\ status' = [status EXCEPT ![q[i]] = outcome]
      /\ age' = [age EXCEPT ![q[i]] = 0]
      /\ age \in [Request -> Nat] /\ status \in [Request -> Status]
  BY <1>1 DEF LeaveQueue, TypeOK
<1>6. \A r \in Request : status'[r] = "new" => age'[r] = 0
  BY <1>5 DEF SortedByAge
<1>7. ASSUME NEW j \in 1..(Len(q) - 1), NEW k \in 1..(Len(q) - 1), j < k
      PROVE  age'[pendingJobs'[j]] >= age'[pendingJobs'[k]]
  <2> DEFINE old(m) == IF m < i THEN m ELSE m + 1
  <2>1. /\ old(j) \in 1..Len(q) /\ old(k) \in 1..Len(q)
        /\ old(j) < old(k) /\ old(j) # i /\ old(k) # i
    BY <1>2, <1>7
  <2>2. pendingJobs'[j] = q[old(j)] /\ pendingJobs'[k] = q[old(k)]
    BY <1>3
  <2> HIDE DEF old
  <2>3. age'[q[old(j)]] = age[q[old(j)]] /\ age'[q[old(k)]] = age[q[old(k)]]
    BY <1>2, <1>5, <2>1
  <2>4. age[q[old(j)]] >= age[q[old(k)]]
    BY <1>2, <2>1 DEF SortedByAge
  <2> QED
    BY <2>2, <2>3, <2>4
<1> QED
  BY <1>4, <1>6, <1>7 DEF SortedByAge

\* The pump takes a prefix and leaves the rest as it is.
LEMMA TaskSettlesSorted ==
    ASSUME Inv, SortedByAge,
           NEW r \in Request,
           NEW outcome \in {"fulfilled", "failed"},
           TaskSettles(r, outcome)
    PROVE  SortedByAge'
<1> DEFINE q == pendingJobs
           n == Shifts(activeJobs - 1)
<1>1. TypeOK /\ QueueIsExact /\ Inv'
  BY NextInv DEF Inv, QueueConsistent, Next
<1>2. TypeOK' /\ QueueIsExact'
  BY <1>1 DEF Inv, QueueConsistent
<1>3. /\ Len(q) \in Nat
      /\ DOMAIN q = 1..Len(q)
      /\ \A j \in 1..Len(q) : q[j] \in Request /\ status[q[j]] = "queued"
  BY <1>1, QueueEntries
<1>4. n \in 0..Len(q) /\ \A s \in Request : status[s] \notin {"queued", "running"} => status'[s] = status[s]
  BY PumpEffect
<1>5. pendingJobs' = SubSeq(q, n + 1, Len(q))
  BY DEF TaskSettles, StartPendingTasks, SlotsLeft
<1>6. age' = [s \in Request |-> IF status'[s] \in Settled THEN 0 ELSE age[s]]
  BY DEF TaskSettles, StartPendingTasks, SlotsLeft
<1> HIDE DEF n
<1>7. /\ Len(pendingJobs') = Len(q) - n
      /\ \A j \in 1..(Len(q) - n) : pendingJobs'[j] = q[n + j]
  <2>1. \A j \in (n + 1)..Len(q) : q[j] \in Request
    BY <1>3, <1>4
  <2>2. /\ Len(SubSeq(q, n + 1, Len(q))) =
               IF n + 1 <= Len(q) THEN Len(q) - (n + 1) + 1 ELSE 0
        /\ \A j \in 1..(Len(q) - (n + 1) + 1) :
               SubSeq(q, n + 1, Len(q))[j] = q[(n + 1) + j - 1]
    BY <1>3, <1>4, <2>1, SubSeqProperties
  <2> QED
    BY <1>3, <1>4, <1>5, <2>2
<1>8. DOMAIN pendingJobs' = 1..(Len(q) - n)
  BY <1>2, <1>7, LenProperties DEF TypeOK
<1>9. ASSUME NEW j \in 1..(Len(q) - n)
      PROVE  age'[q[n + j]] = age[q[n + j]]
  <2>1. n + j \in 1..Len(q) /\ q[n + j] \in Request
    BY <1>3, <1>4
  <2>2. q[n + j] \in Queued'
    BY <1>2, <1>7, <1>8 DEF QueueIsExact, ToSet
  <2>3. status'[q[n + j]] = "queued"
    BY <2>2 DEF Queued
  <2> QED
    BY <1>6, <2>1, <2>3 DEF Settled
<1>10. ASSUME NEW j \in 1..(Len(q) - n), NEW k \in 1..(Len(q) - n), j < k
       PROVE  age'[pendingJobs'[j]] >= age'[pendingJobs'[k]]
  <2>1. n + j \in DOMAIN q /\ n + k \in DOMAIN q /\ n + j < n + k
    BY <1>3, <1>4, <1>10
  <2>2. age[q[n + j]] >= age[q[n + k]]
    BY <2>1 DEF SortedByAge
  <2> QED
    BY <1>7, <1>9, <2>2
<1>11. ASSUME NEW s \in Request, status'[s] = "new"
       PROVE  age'[s] = 0
  <2>1. status[s] = "new"
    <3>1. CASE status[s] = "queued"
      <4>1. status'[s] \in {"cancelled", "queue-deadline", "queued", "running"}
        BY <3>1, PumpEffect DEF Queued
      <4> QED
        BY <1>11, <4>1 DEF Settled
    <3>2. CASE status[s] = "running"
      <4>1. status'[s] \in {outcome, "running"}
        BY <3>2, PumpEffect DEF Running
      <4> QED
        BY <1>11, <4>1
    <3>3. CASE status[s] \notin {"queued", "running"}
      BY <1>4, <1>11, <3>3
    <3> QED
      BY <3>1, <3>2, <3>3
  <2> QED
    BY <1>6, <1>11, <2>1 DEF SortedByAge, Settled
<1> QED
  BY <1>8, <1>10, <1>11 DEF SortedByAge

\* Every handler keeps the order.
LEMMA SortedStep ==
    ASSUME Inv, SortedByAge, [Next]_vars
    PROVE  SortedByAge'
<1>1. TypeOK /\ QueueIsExact
  BY DEF Inv, QueueConsistent
<1>2. /\ Len(pendingJobs) \in Nat
      /\ DOMAIN pendingJobs = 1..Len(pendingJobs)
      /\ \A j \in 1..Len(pendingJobs) : pendingJobs[j] \in Queued
  BY <1>1, QueueEntries DEF Queued
<1>3. age \in [Request -> Nat] /\ status \in [Request -> Status]
  BY <1>1 DEF TypeOK
<1>4. ASSUME UNCHANGED <<age, pendingJobs>>,
             \A r \in Request : status'[r] = "new" => status[r] = "new"
      PROVE  SortedByAge'
  BY <1>4 DEF SortedByAge
<1>5. ASSUME NEW r \in Request, ScheduleAborted(r) \/ ScheduleNow(r) \/ RejectQueueFull(r)
      PROVE  SortedByAge'
  BY <1>3, <1>4, <1>5 DEF ScheduleAborted, ScheduleNow, RejectQueueFull, queueVars
<1>6. ASSUME NEW r \in Request, Enqueue(r)
      PROVE  SortedByAge'
  <2>1. /\ status[r] = "new" /\ age' = age
        /\ pendingJobs' = Append(pendingJobs, r)
        /\ status' = [status EXCEPT ![r] = "queued"]
    BY <1>6 DEF Enqueue, Enqueued
  <2>2. pendingJobs \in Seq(Request)
    BY <1>1 DEF TypeOK
  <2>3. /\ DOMAIN Append(pendingJobs, r) = 1..(Len(pendingJobs) + 1)
        /\ \A j \in 1..Len(pendingJobs) : Append(pendingJobs, r)[j] = pendingJobs[j]
        /\ Append(pendingJobs, r)[Len(pendingJobs) + 1] = r
    BY <2>2, AppendProperties, LenProperties
  <2>4. age[r] = 0
    BY <2>1 DEF SortedByAge
  <2>5. \A s \in Request : status'[s] = "new" => age'[s] = 0
    BY <1>3, <2>1 DEF SortedByAge
  <2>6. ASSUME NEW i \in 1..(Len(pendingJobs) + 1), NEW j \in 1..(Len(pendingJobs) + 1),
               i < j
        PROVE  age[Append(pendingJobs, r)[i]] >= age[Append(pendingJobs, r)[j]]
    <3>1. i \in 1..Len(pendingJobs) /\ pendingJobs[i] \in Request
      BY <1>2, <2>6 DEF Queued
    <3>2. CASE j \in 1..Len(pendingJobs)
      BY <1>2, <2>3, <2>6, <3>1, <3>2 DEF SortedByAge
    <3>3. CASE j = Len(pendingJobs) + 1
      <4>1. age[pendingJobs[i]] \in Nat
        BY <1>3, <3>1
      <4> QED
        BY <2>3, <2>4, <3>1, <3>3, <4>1
    <3> QED
      BY <1>2, <3>2, <3>3
  <2> QED
    BY <2>1, <2>3, <2>5, <2>6 DEF SortedByAge
<1>7. ASSUME NEW i \in DOMAIN pendingJobs, AbortQueued(i) \/ DeadlineTimer(i)
      PROVE  SortedByAge'
  BY <1>7, LeaveQueueSorted DEF AbortQueued, DeadlineTimer
<1>8. ASSUME NEW r \in Request, NEW outcome \in {"fulfilled", "failed"},
             TaskSettles(r, outcome)
      PROVE  SortedByAge'
  BY <1>8, TaskSettlesSorted
<1>9. CASE Tick
  <2>1. /\ UNCHANGED <<status, pendingJobs>>
        /\ age' = [r \in Request |->
                      IF r \in Queued \cup Running THEN age[r] + 1 ELSE age[r]]
    BY <1>9 DEF Tick
  <2>2. \A r \in Request : status'[r] = "new" => age'[r] = 0
    BY <2>1 DEF SortedByAge, Queued, Running
  <2>3. ASSUME NEW i \in 1..Len(pendingJobs)
        PROVE  age'[pendingJobs[i]] = age[pendingJobs[i]] + 1
               /\ age[pendingJobs[i]] \in Nat
    BY <1>2, <1>3, <2>1 DEF Queued
  <2>4. ASSUME NEW i \in 1..Len(pendingJobs), NEW j \in 1..Len(pendingJobs), i < j
        PROVE  age'[pendingJobs[i]] >= age'[pendingJobs[j]]
    <3>1. age[pendingJobs[i]] >= age[pendingJobs[j]]
      BY <1>2, <2>4 DEF SortedByAge
    <3>2. /\ age'[pendingJobs[i]] = age[pendingJobs[i]] + 1 /\ age[pendingJobs[i]] \in Nat
          /\ age'[pendingJobs[j]] = age[pendingJobs[j]] + 1 /\ age[pendingJobs[j]] \in Nat
      BY <2>3
    <3> QED
      BY <3>1, <3>2
  <2> QED
    BY <1>2, <2>1, <2>2, <2>4 DEF SortedByAge
<1>10. ASSUME \/ \E r \in Request : AbortUnheard(r)
              \/ \E d \in ClockSteps : ClockStep(d)
              \/ UNCHANGED vars
       PROVE  SortedByAge'
  BY <1>4, <1>10 DEF AbortUnheard, ClockStep, vars, queueVars
<1> QED
  BY <1>5, <1>6, <1>7, <1>8, <1>9, <1>10 DEF Next, Schedule

\* The queue is sorted by age in every reachable state.
LEMMA SortedHolds == Spec => [](Inv /\ SortedByAge)
<1>1. Init => SortedByAge
  BY EmptySeq DEF Init, SortedByAge
<1> QED
  BY <1>1, InitInv, NextInv, SortedStep, PTL DEF Spec

\* No request is started from the queue while one that came in before it goes on
\* waiting there, whatever order timers, disconnects and completions come in.
THEOREM OrderCorrect == Spec => StartsInOrder
<1>1. Inv /\ SortedByAge /\ [Next]_vars =>
          [\A r, older \in Queued :
              status'[r] = "running" /\ age[older] > age[r] => status'[older] # "queued"]_vars
  <2> SUFFICES ASSUME Inv, SortedByAge, [Next]_vars,
                      NEW r \in Queued, NEW older \in Queued,
                      status'[r] = "running", age[older] > age[r]
               PROVE  status'[older] # "queued"
    OBVIOUS
  <2>1. PICK s \in Request, outcome \in {"fulfilled", "failed"} : TaskSettles(s, outcome)
    BY OnlyPumpStarts
  <2> DEFINE n == Shifts(activeJobs - 1)
  <2>2. /\ n \in 0..Len(pendingJobs)
        /\ r \in LiveAmongFirst(n)
        /\ \A i \in 1..n : status'[pendingJobs[i]] # "queued"
    BY <2>1, PumpEffect
  <2>3. /\ Len(pendingJobs) \in Nat
        /\ DOMAIN pendingJobs = 1..Len(pendingJobs)
        /\ \A q \in Queued : \E i \in 1..Len(pendingJobs) : pendingJobs[i] = q
    BY QueueEntries DEF Inv, QueueConsistent
  <2> HIDE DEF n
  <2>4. PICK i \in 1..n : pendingJobs[i] = r
    BY <2>2 DEF LiveAmongFirst
  <2>5. PICK j \in 1..Len(pendingJobs) : pendingJobs[j] = older
    BY <2>3
  <2>6. age[r] \in Nat /\ age[older] \in Nat
    BY DEF Inv, TypeOK, Queued
  <2>7. ~(i < j) /\ i # j
    <3>1. i \in DOMAIN pendingJobs /\ j \in DOMAIN pendingJobs
      BY <2>2, <2>3
    <3>2. i < j => age[r] >= age[older]
      BY <2>4, <2>5, <3>1 DEF SortedByAge
    <3> QED
      BY <2>4, <2>5, <2>6, <3>2
  <2>8. j \in 1..n
    BY <2>2, <2>3, <2>7
  <2> QED
    BY <2>2, <2>5, <2>8
<1> QED
  BY <1>1, SortedHolds, PTL DEF Spec, StartsInOrder

-----------------------------------------------------------------------------
(* The time a request spends in the scheduler.                               *)

QueueTime ==
    /\ \A r \in Request : status[r] = "new" => age[r] = 0 /\ waited[r] = 0
    /\ \A r \in Queued : age[r] <= MaxQueueWait + TimerLag

\* The clock that timers run by is steady, whatever Date.now does.
LEMMA QueueTimeStep ==
    ASSUME Inv, QueueTime, [Next]_vars
    PROVE  QueueTime'
<1> USE SchedulerLimits
<1>1. /\ status \in [Request -> Status]
      /\ age \in [Request -> Nat]
      /\ waited \in [Request -> Int]
      /\ timers = Queued
  BY DEF Inv, TypeOK, QueueConsistent, ResourcesFollowQueue
<1>2. ASSUME NEW r \in Request,
             ScheduleAborted(r) \/ RejectQueueFull(r) \/ ScheduleNow(r)
      PROVE  QueueTime'
  <2>1. /\ UNCHANGED <<age, waited>>
        /\ \A s \in Request : status'[s] \in Settled \cup {"running"} \/ status'[s] = status[s]
    BY <1>1, <1>2 DEF ScheduleAborted, RejectQueueFull, ScheduleNow, queueVars, Settled
  <2> QED
    BY <1>1, <2>1 DEF QueueTime, Queued, Settled
<1>3. ASSUME NEW r \in Request, Enqueue(r)
      PROVE  QueueTime'
  <2>1. /\ status[r] = "new"
        /\ status' = [status EXCEPT ![r] = "queued"]
        /\ UNCHANGED <<age, waited>>
    BY <1>3 DEF Enqueue
  <2>2. Queued' = Queued \cup {r} /\ age[r] = 0
    BY <1>1, <2>1 DEF Queued, QueueTime
  <2>3. \A s \in Request : status'[s] = "new" => age[s] = 0 /\ waited[s] = 0
    BY <1>1, <2>1 DEF QueueTime
  <2> QED
    BY <2>1, <2>2, <2>3 DEF QueueTime
<1>4. ASSUME NEW i \in DOMAIN pendingJobs, AbortQueued(i) \/ DeadlineTimer(i)
      PROVE  QueueTime'
  <2> DEFINE r == pendingJobs[i]
  <2>1. PICK outcome \in {"queue-deadline", "cancelled"} : LeaveQueue(i, outcome)
    BY <1>4 DEF AbortQueued, DeadlineTimer
  <2>2. /\ status' = [status EXCEPT ![r] = outcome]
        /\ age' = [age EXCEPT ![r] = 0]
        /\ waited' = [waited EXCEPT ![r] = 0]
    BY <2>1 DEF LeaveQueue
  <2>3. r \in Queued
    BY QueueEntries DEF Inv, QueueConsistent, Queued
  <2> HIDE DEF r
  <2>4. Queued' = Queued \ {r}
    BY <1>1, <2>2, <2>3 DEF Queued
  <2>5. \A s \in Request \ {r} : age'[s] = age[s] /\ waited'[s] = waited[s]
    BY <1>1, <2>2
  <2>6. \A s \in Request : status'[s] = "new" => s # r /\ status[s] = "new"
    BY <1>1, <2>2
  <2> QED
    BY <2>4, <2>5, <2>6 DEF QueueTime, Queued
<1>5. ASSUME NEW r \in Request, NEW outcome \in {"fulfilled", "failed"},
             TaskSettles(r, outcome)
      PROVE  QueueTime'
  <2>1. /\ status[r] = "running" /\ status'[r] = outcome
        /\ \A s \in Queued :
              status'[s] \in {"cancelled", "queue-deadline", "queued", "running"}
        /\ \A s \in Request : status[s] \notin {"queued", "running"} => status'[s] = status[s]
        /\ \A s \in Running \ {r} : status'[s] = "running"
        /\ \A s \in Request :
              /\ status'[s] \notin Settled => age'[s] = age[s]
              /\ status'[s] \in {"new", "queued"} => waited'[s] = waited[s]
    BY <1>5, PumpEffect
  <2>2. \A s \in Request : /\ status'[s] = "new" => status[s] = "new"
                           /\ status'[s] = "queued" => status[s] = "queued"
    BY <2>1 DEF Queued, Running
  <2> QED
    BY <2>1, <2>2 DEF QueueTime, Queued, Settled
<1>6. CASE Tick
  <2>1. /\ \A r \in timers : age[r] < MaxQueueWait + TimerLag
        /\ status' = status
        /\ age' = [r \in Request |->
                      IF r \in Queued \cup Running THEN age[r] + 1 ELSE age[r]]
        /\ waited' = [r \in Request |-> IF r \in Queued THEN waited[r] + 1 ELSE waited[r]]
    BY <1>6 DEF Tick
  <2>2. \A r \in Request : status'[r] = "new" => age'[r] = 0 /\ waited'[r] = 0
    BY <2>1 DEF QueueTime, Queued, Running
  <2>3. ASSUME NEW r \in Queued
        PROVE  age'[r] <= MaxQueueWait + TimerLag
    <3>1. r \in Request /\ age[r] \in Nat /\ age'[r] = age[r] + 1
      BY <1>1, <2>1 DEF Queued
    <3> QED
      BY <1>1, <2>1, <3>1
  <2> QED
    BY <2>1, <2>2, <2>3 DEF QueueTime, Queued
<1>7. ASSUME NEW d \in ClockSteps, ClockStep(d)
      PROVE  QueueTime'
  <2>1. /\ UNCHANGED <<status, age>>
        /\ waited' = [r \in Request |-> IF r \in Queued THEN waited[r] + d ELSE waited[r]]
    BY <1>7 DEF ClockStep
  <2> QED
    BY <1>1, <2>1 DEF QueueTime, Queued
<1>8. ASSUME (\E r \in Request : AbortUnheard(r)) \/ UNCHANGED vars
      PROVE  QueueTime'
  BY <1>8 DEF AbortUnheard, vars, queueVars, QueueTime, Queued
<1> QED
  BY <1>2, <1>3, <1>4, <1>5, <1>6, <1>7, <1>8 DEF Next, Schedule

LEMMA QueueTimeHolds == Spec => []QueueTime
<1>1. Init => QueueTime
  BY DEF Init, QueueTime, Queued
<1> QED
  BY <1>1, QueueTimeStep, InitInv, NextInv, PTL DEF Spec

\* The safety half of QueuedIsAnswered: nobody waits in the queue for longer than the
\* deadline, and what its timer is late, whatever the wall clock does.
THEOREM QueueWaitBounded == Spec => [](\A r \in Queued : age[r] <= MaxQueueWait + TimerLag)
<1>1. QueueTime => \A r \in Queued : age[r] <= MaxQueueWait + TimerLag
  BY DEF QueueTime
<1> QED
  BY <1>1, QueueTimeHolds, PTL

\* Queue wait is taken out of the budget, but for what the wall clock was set back
\* meanwhile: by S at most in each of its steps.
TimeAddsUp(S) ==
    /\ \A r \in Queued : age[r] <= waited[r] + S * clockSteps
    /\ \A r \in Running : /\ age[r] + budget[r] <= MaxJobDuration + S * clockSteps
                          /\ -TimerLag <= budget[r]

\* What only takes requests out, or lets them start at once.
LEMMA AdmissionAddsUp ==
    ASSUME Inv, QueueTime, NEW S \in Nat, TimeAddsUp(S), NEW r \in Request, Schedule(r)
    PROVE  TimeAddsUp(S)'
<1> USE SchedulerLimits
<1>1. /\ status \in [Request -> Status]
      /\ budget \in [Request -> Int]
      /\ clockSteps \in Nat /\ S * clockSteps \in Nat
  <2>1. clockSteps \in Nat
    BY DEF Inv, TypeOK
  <2> QED
    BY <2>1 DEF Inv, TypeOK
<1> DEFINE setback == S * clockSteps
<1>2. CASE ScheduleAborted(r) \/ RejectQueueFull(r)
  <2>1. /\ UNCHANGED <<age, waited, budget, clockSteps>>
        /\ \A s \in Request : status'[s] \in Settled \/ status'[s] = status[s]
    BY <1>1, <1>2 DEF ScheduleAborted, RejectQueueFull, queueVars, Settled
  <2>2. Queued' \subseteq Queued /\ Running' \subseteq Running
    BY <1>1, <2>1 DEF Queued, Running, Settled
  <2> QED
    BY <2>1, <2>2 DEF TimeAddsUp
<1>3. CASE ScheduleNow(r)
  <2>1. /\ status[r] = "new"
        /\ status' = [status EXCEPT ![r] = "running"]
        /\ budget' = [budget EXCEPT ![r] = TimeoutMs(0)]
        /\ UNCHANGED <<age, waited, clockSteps>>
    BY <1>3 DEF ScheduleNow, queueVars
  <2>2. TimeoutMs(0) = MaxJobDuration
    BY DEF TimeoutMs
  <2>3. age[r] = 0
    BY <2>1 DEF QueueTime
  <2>4. Queued' = Queued /\ Running' = Running \cup {r} /\ r \notin Running
    BY <1>1, <2>1 DEF Queued, Running
  <2>5. \A s \in Running : budget'[s] = budget[s]
    BY <1>1, <2>1, <2>4 DEF Running
  <2>6. budget'[r] = MaxJobDuration
    BY <1>1, <2>1, <2>2
  <2>7. setback \in Nat
    BY <1>1
  <2> HIDE DEF setback
  <2>8. age[r] + budget'[r] <= MaxJobDuration + setback /\ -TimerLag <= budget'[r]
    BY <2>3, <2>6, <2>7
  <2> QED
    BY <2>1, <2>4, <2>5, <2>8 DEF TimeAddsUp, setback
<1>4. CASE Enqueue(r)
  <2>1. /\ status[r] = "new"
        /\ status' = [status EXCEPT ![r] = "queued"]
        /\ UNCHANGED <<age, waited, budget, clockSteps>>
    BY <1>4 DEF Enqueue
  <2>2. Queued' = Queued \cup {r} /\ Running' = Running
    BY <1>1, <2>1 DEF Queued, Running
  <2>3. age[r] = 0 /\ waited[r] = 0
    BY <2>1 DEF QueueTime
  <2>4. setback \in Nat
    BY <1>1
  <2> HIDE DEF setback
  <2>5. age[r] <= waited[r] + setback
    BY <2>3, <2>4
  <2> QED
    BY <2>1, <2>2, <2>5 DEF TimeAddsUp, setback
<1> QED
  BY <1>2, <1>3, <1>4 DEF Schedule

\* The pump takes what an entry has waited out of its budget.
LEMMA PumpAddsUp ==
    ASSUME Inv, NEW S \in Nat, TimeAddsUp(S),
           NEW r \in Request, NEW outcome \in {"fulfilled", "failed"}, TaskSettles(r, outcome)
    PROVE  TimeAddsUp(S)'
<1> USE SchedulerLimits
<1> DEFINE n == Shifts(activeJobs - 1)
           setback == S * clockSteps
<1>1. /\ status[r] = "running" /\ status'[r] = outcome
      /\ \A s \in Queued :
            /\ status'[s] = "running" =>
                   s \in LiveAmongFirst(n) /\ budget'[s] = TimeoutMs(waited[s])
            /\ status'[s] \in {"cancelled", "queue-deadline", "queued", "running"}
      /\ \A s \in Request : status[s] \notin {"queued", "running"} => status'[s] = status[s]
      /\ \A s \in Running \ {r} : status'[s] = "running" /\ budget'[s] = budget[s]
      /\ \A s \in Request :
            /\ status'[s] \notin Settled => age'[s] = age[s]
            /\ status'[s] \in {"new", "queued"} => waited'[s] = waited[s]
  BY PumpEffect
<1>2. /\ age \in [Request -> Nat]
      /\ waited \in [Request -> Int]
      /\ setback \in Nat /\ clockSteps' = clockSteps
  <2>1. clockSteps \in Nat /\ clockSteps' = clockSteps
    BY DEF Inv, TypeOK, TaskSettles
  <2> QED
    BY <2>1 DEF Inv, TypeOK
<1> HIDE DEF n, setback
<1>3. ASSUME NEW s \in Queued'
      PROVE  age'[s] <= waited'[s] + setback
  <2>1. s \in Request /\ status'[s] = "queued"
    BY DEF Queued
  <2>2. s \in Queued
    BY <1>1, <2>1 DEF Queued, Running
  <2> QED
    BY <1>1, <2>1, <2>2 DEF TimeAddsUp, Settled, setback
<1>4. ASSUME NEW s \in Running'
      PROVE  age'[s] + budget'[s] <= MaxJobDuration + setback /\ -TimerLag <= budget'[s]
  <2>1. s \in Request /\ status'[s] = "running"
    BY DEF Running
  <2>2. age'[s] = age[s] /\ age[s] \in Nat /\ waited[s] \in Int
    BY <1>1, <1>2, <2>1 DEF Settled
  <2>3. CASE s \in Queued
    <3>1. budget'[s] = TimeoutMs(waited[s]) /\ waited[s] < MaxQueueWait
      BY <1>1, <2>1, <2>3 DEF LiveAmongFirst, Live
    <3>2. age[s] <= waited[s] + setback
      BY <2>3 DEF TimeAddsUp, setback
    <3>3. budget'[s] = MaxJobDuration - waited[s] /\ budget'[s] > 0
      BY <2>2, <3>1 DEF TimeoutMs
    <3> QED
      BY <1>2, <2>2, <3>2, <3>3
  <2>4. CASE s \in Running
    <3>1. s # r /\ budget'[s] = budget[s]
      BY <1>1, <2>1, <2>4
    <3> QED
      BY <2>2, <2>4, <3>1 DEF TimeAddsUp, setback
  <2> QED
    BY <1>1, <2>1, <2>3, <2>4 DEF Queued, Running
<1> QED
  BY <1>2, <1>3, <1>4 DEF TimeAddsUp, setback

LEMMA TickAddsUp ==
    ASSUME Inv, NEW S \in Nat, TimeAddsUp(S), Tick
    PROVE  TimeAddsUp(S)'
<1> DEFINE setback == S * clockSteps
<1>1. /\ age \in [Request -> Nat]
      /\ waited \in [Request -> Int]
      /\ budget \in [Request -> Int]
      /\ setback \in Nat /\ clockSteps' = clockSteps
  <2>1. clockSteps \in Nat /\ clockSteps' = clockSteps
    BY DEF Inv, TypeOK, Tick
  <2> QED
    BY <2>1 DEF Inv, TypeOK
<1>2. /\ \A r \in Running : budget[r] > -TimerLag
      /\ status' = status
      /\ age' = [r \in Request |->
                    IF r \in Queued \cup Running THEN age[r] + 1 ELSE age[r]]
      /\ waited' = [r \in Request |-> IF r \in Queued THEN waited[r] + 1 ELSE waited[r]]
      /\ budget' = [r \in Request |-> IF r \in Running THEN budget[r] - 1 ELSE budget[r]]
  BY DEF Tick
<1>3. Queued' = Queued /\ Running' = Running
  BY <1>2 DEF Queued, Running
<1> HIDE DEF setback
<1>4. ASSUME NEW r \in Queued
      PROVE  age'[r] <= waited'[r] + setback
  <2>1. r \in Request /\ age'[r] = age[r] + 1 /\ waited'[r] = waited[r] + 1
    BY <1>2 DEF Queued
  <2>2. age[r] <= waited[r] + setback
    BY DEF TimeAddsUp, setback
  <2> QED
    BY <1>1, <2>1, <2>2
<1>5. ASSUME NEW r \in Running
      PROVE  age'[r] + budget'[r] <= MaxJobDuration + setback /\ -TimerLag <= budget'[r]
  <2>1. r \in Request /\ age'[r] = age[r] + 1 /\ budget'[r] = budget[r] - 1
    BY <1>2 DEF Running
  <2>2. age[r] + budget[r] <= MaxJobDuration + setback
    BY DEF TimeAddsUp, setback
  <2>3. age[r] \in Nat /\ budget[r] \in Int /\ budget[r] > -TimerLag
    BY <1>1, <1>2, <2>1
  <2> QED
    BY <2>1, <2>2, <2>3, SchedulerLimits
<1> QED
  BY <1>1, <1>3, <1>4, <1>5 DEF TimeAddsUp, setback

LEMMA ClockAddsUp ==
    ASSUME Inv, NEW S \in Nat, TimeAddsUp(S), NEW d \in ClockSteps, -S <= d, ClockStep(d)
    PROVE  TimeAddsUp(S)'
<1> DEFINE setback == S * clockSteps
<1>1. /\ age \in [Request -> Nat]
      /\ waited \in [Request -> Int]
      /\ budget \in [Request -> Int]
      /\ d \in Int
  BY SchedulerLimits DEF Inv, TypeOK
<1>2. /\ clockSteps \in Nat /\ clockSteps' = clockSteps + 1
      /\ UNCHANGED <<status, age, budget>>
      /\ waited' = [r \in Request |-> IF r \in Queued THEN waited[r] + d ELSE waited[r]]
  BY DEF Inv, TypeOK, ClockStep
<1>3. setback \in Nat /\ S * clockSteps' = setback + S
  BY <1>2
<1>4. Queued' = Queued /\ Running' = Running
  BY <1>2 DEF Queued, Running
<1> HIDE DEF setback
<1>5. ASSUME NEW r \in Queued
      PROVE  age'[r] <= waited'[r] + (setback + S)
  <2>1. r \in Request /\ waited'[r] = waited[r] + d
    BY <1>2 DEF Queued
  <2>2. age[r] <= waited[r] + setback
    BY DEF TimeAddsUp, setback
  <2> QED
    BY <1>1, <1>2, <1>3, <2>1, <2>2
<1>6. ASSUME NEW r \in Running
      PROVE  age'[r] + budget'[r] <= MaxJobDuration + (setback + S) /\ -TimerLag <= budget'[r]
  <2>1. r \in Request /\ age[r] + budget[r] <= MaxJobDuration + setback /\ -TimerLag <= budget[r]
    BY DEF TimeAddsUp, setback, Running
  <2>2. age[r] \in Nat /\ budget[r] \in Int
    BY <1>1, <2>1
  <2> QED
    BY <1>2, <1>3, <2>1, <2>2, SchedulerLimits
<1> QED
  BY <1>3, <1>4, <1>5, <1>6 DEF TimeAddsUp

LEMMA AddsUpStep ==
    ASSUME Inv, QueueTime, NEW S \in Nat, TimeAddsUp(S), \A d \in ClockSteps : -S <= d,
           [Next]_vars
    PROVE  TimeAddsUp(S)'
<1>1. ASSUME NEW i \in DOMAIN pendingJobs, AbortQueued(i) \/ DeadlineTimer(i)
      PROVE  TimeAddsUp(S)'
  <2> DEFINE r == pendingJobs[i]
  <2>1. PICK outcome \in {"queue-deadline", "cancelled"} : LeaveQueue(i, outcome)
    BY <1>1 DEF AbortQueued, DeadlineTimer
  <2>2. /\ status' = [status EXCEPT ![r] = outcome]
        /\ age' = [age EXCEPT ![r] = 0]
        /\ waited' = [waited EXCEPT ![r] = 0]
        /\ UNCHANGED <<budget, clockSteps>>
    BY <2>1 DEF LeaveQueue
  <2>3. r \in Queued
    BY QueueEntries DEF Inv, QueueConsistent, Queued
  <2>4. /\ status \in [Request -> Status]
        /\ age \in [Request -> Nat] /\ waited \in [Request -> Int]
    BY DEF Inv, TypeOK
  <2> HIDE DEF r
  <2>5. Queued' = Queued \ {r} /\ Running' = Running /\ r \notin Running
    BY <2>2, <2>3, <2>4 DEF Queued, Running
  <2>6. \A s \in Request \ {r} : age'[s] = age[s] /\ waited'[s] = waited[s]
    BY <2>2, <2>4
  <2>7. Queued \subseteq Request /\ Running \subseteq Request
    BY DEF Queued, Running
  <2> QED
    BY <2>2, <2>5, <2>6, <2>7 DEF TimeAddsUp
<1>2. ASSUME (\E r \in Request : AbortUnheard(r)) \/ UNCHANGED vars
      PROVE  TimeAddsUp(S)'
  BY <1>2 DEF AbortUnheard, vars, queueVars, TimeAddsUp, Queued, Running
<1> QED
  BY <1>1, <1>2, AdmissionAddsUp, PumpAddsUp, TickAddsUp, ClockAddsUp DEF Next

LEMMA AddsUpBound ==
    ASSUME Inv, QueueTime, NEW S \in Nat, TimeAddsUp(S), NEW r \in Queued \cup Running
    PROVE  age[r] <= MaxJobDuration + TimerLag + S * clockSteps
<1> DEFINE setback == S * clockSteps
<1>1. age[r] \in Nat /\ budget[r] \in Int /\ clockSteps \in Nat
  BY DEF Inv, TypeOK, Queued, Running
<1>2. setback \in Nat
  BY <1>1
<1>3. \/ age[r] <= MaxQueueWait + TimerLag
      \/ age[r] + budget[r] <= MaxJobDuration + setback /\ -TimerLag <= budget[r]
  BY DEF QueueTime, TimeAddsUp
<1> HIDE DEF setback
<1>4. age[r] <= MaxJobDuration + TimerLag + setback
  BY <1>1, <1>2, <1>3, SchedulerLimits
<1> QED
  BY <1>4 DEF setback

\* The total of queue wait and render passes the job duration, and what a timer is late,
\* by no more than the wall clock was set back: the reserve that HTTP_HANDLER_TIMEOUT_MS
\* keeps for the rest is what NTP may take.
THEOREM DelayedBySetback ==
    ASSUME NEW S \in Nat, \A d \in ClockSteps : -S <= d
    PROVE  Spec => [](\A r \in Queued \cup Running :
                          age[r] <= MaxJobDuration + TimerLag + S * clockSteps)
<1> DEFINE Bounded == \A r \in Queued \cup Running :
                          age[r] <= MaxJobDuration + TimerLag + S * clockSteps
<1>1. Init => TimeAddsUp(S)
  BY DEF Init, TimeAddsUp, Queued, Running
<1>2. Inv /\ QueueTime /\ TimeAddsUp(S) /\ [Next]_vars => TimeAddsUp(S)'
  BY AddsUpStep
<1>3. Inv /\ QueueTime /\ TimeAddsUp(S) => Bounded
  BY AddsUpBound
<1> HIDE DEF Bounded
<1>4. Spec => []Bounded
  BY <1>1, <1>2, <1>3, QueueTimeHolds, InitInv, NextInv, PTL DEF Spec
<1> QED
  BY <1>4 DEF Bounded

JobTotalBounded == \A r \in Queued \cup Running : age[r] <= MaxJobDuration + TimerLag

\* A clock that is never set back adds nothing.
LEMMA TotalBounded ==
    ASSUME \A d \in ClockSteps : 0 <= d
    PROVE  Spec => []JobTotalBounded
<1>1. Init => TimeAddsUp(0)
  BY DEF Init, TimeAddsUp, Queued, Running
<1>2. Inv /\ QueueTime /\ TimeAddsUp(0) /\ [Next]_vars => TimeAddsUp(0)'
  <2>1. 0 \in Nat /\ \A d \in ClockSteps : -0 <= d
    BY SchedulerLimits
  <2> QED
    BY <2>1, AddsUpStep
<1>3. Inv /\ QueueTime /\ TimeAddsUp(0) => JobTotalBounded
  <2> SUFFICES ASSUME Inv, QueueTime, TimeAddsUp(0), NEW r \in Queued \cup Running
               PROVE  age[r] <= MaxJobDuration + TimerLag
    BY DEF JobTotalBounded
  <2>1. age[r] \in Nat /\ clockSteps \in Nat
    BY DEF Inv, TypeOK, Queued, Running
  <2>2. age[r] <= MaxJobDuration + TimerLag + 0 * clockSteps
    BY AddsUpBound
  <2> QED
    BY <2>1, <2>2, SchedulerLimits
<1> QED
  BY <1>1, <1>2, <1>3, QueueTimeHolds, InitInv, NextInv, PTL DEF Spec

\* While the wall clock is never set back, no request stays in the scheduler until the
\* Fastify backstop, however long it waited in the queue first.
THEOREM TotalCorrect ==
    ASSUME \A d \in ClockSteps : 0 <= d
    PROVE  Spec => []TotalBelowBackstop
<1>1. Inv /\ JobTotalBounded => TotalBelowBackstop
  <2> SUFFICES ASSUME Inv, JobTotalBounded, NEW r \in Queued \cup Running
               PROVE  age[r] < HandlerTimeout
    BY DEF TotalBelowBackstop
  <2>1. age[r] \in Nat /\ age[r] <= MaxJobDuration + TimerLag
    BY DEF Inv, TypeOK, Queued, Running, JobTotalBounded
  <2> QED
    BY <2>1, SchedulerLimits
<1> QED
  BY <1>1, TotalBounded, InitInv, NextInv, PTL DEF Spec

-----------------------------------------------------------------------------
(* The state as callers see it.                                              *)

\* The phase of every status.
LEMMA Phases ==
    /\ PhaseOf("new") = "outside"
    /\ PhaseOf("queued") = "waiting"
    /\ PhaseOf("running") = "served"
    /\ PhaseOf("fulfilled") = "done" /\ PhaseOf("failed") = "done"
    /\ \A o \in {"queue-full", "queue-deadline", "cancelled"} : PhaseOf(o) = "turned-away"
<1> QED
  BY DEF PhaseOf

\* What the service calls served and waiting is what the scheduler calls running
\* and queued.
LEMMA PhasesMatch ==
    ASSUME TypeOK
    PROVE  Service!Served = Running /\ Service!Waiting = Queued
<1>1. ASSUME NEW r \in Request
      PROVE  /\ PhaseOf(status[r]) = "served" <=> status[r] = "running"
             /\ PhaseOf(status[r]) = "waiting" <=> status[r] = "queued"
  <2>1. status[r] \in Status
    BY DEF TypeOK
  <2> QED
    BY <2>1 DEF PhaseOf, Status, Settled
<1> QED
  BY <1>1 DEF Service!Served, Service!Waiting, phase, Running, Queued

\* The same after a step.
LEMMA PhasesMatchNext ==
    ASSUME TypeOK'
    PROVE  Service!Served' = Running'
<1>1. ASSUME NEW r \in Request
      PROVE  PhaseOf(status'[r]) = "served" <=> status'[r] = "running"
  <2>1. status'[r] \in Status
    BY DEF TypeOK
  <2> QED
    BY <2>1 DEF PhaseOf, Status, Settled
<1> QED
  BY <1>1 DEF Service!Served, phase, Running

\* The service counts as the scheduler does.
LEMMA SameCardinality ==
    ASSUME NEW S
    PROVE  Service!Cardinality(S) = Cardinality(S)
<1> QED
  BY DEF Service!Cardinality, Cardinality

\* There are no more queued requests than entries in the queue.
LEMMA QueuedCardinality ==
    ASSUME TypeOK, QueueIsExact
    PROVE  Cardinality(Queued) \in Nat /\ Cardinality(Queued) <= Len(pendingJobs)
<1>1. /\ Len(pendingJobs) \in Nat
      /\ \A i \in 1..Len(pendingJobs) : pendingJobs[i] \in Queued
      /\ \A r \in Queued : \E i \in 1..Len(pendingJobs) : pendingJobs[i] = r
  BY QueueEntries DEF Queued
<1>2. IsFiniteSet(1..Len(pendingJobs)) /\ Cardinality(1..Len(pendingJobs)) = Len(pendingJobs)
  BY <1>1, FS_Interval
<1> DEFINE f == [i \in 1..Len(pendingJobs) |-> pendingJobs[i]]
<1>3. f \in Surjection(1..Len(pendingJobs), Queued)
  BY <1>1 DEF Surjection
<1>4. IsFiniteSet(Queued) /\ Cardinality(Queued) <= Cardinality(1..Len(pendingJobs))
  BY <1>2, <1>3, FS_Surjection
<1> QED
  BY <1>2, <1>4, FS_CardinalityType

\* One request changes its status and nobody else's.
LEMMA OneChanges ==
    ASSUME TypeOK, NEW r \in Request, NEW s,
           status' = [status EXCEPT ![r] = s]
    PROVE  Service!Become(r, PhaseOf(s))
<1>1. [x \in Request |-> PhaseOf(status'[x])]
        = [[x \in Request |-> PhaseOf(status[x])] EXCEPT ![r] = PhaseOf(s)]
  BY DEF TypeOK
<1> QED
  BY <1>1 DEF Service!Become, phase

-----------------------------------------------------------------------------
(* Every step of the scheduler.                                              *)

\* The end of a task and the pump that follows it are one step of the service.
LEMMA TaskSettlesFinishes ==
    ASSUME Inv, Inv',
           NEW r \in Request,
           NEW outcome \in {"fulfilled", "failed"},
           TaskSettles(r, outcome)
    PROVE  Service!Finish(r)
<1> DEFINE next == {s \in Queued : status'[s] = "running"}
           lost == {s \in Queued : status'[s] \in {"cancelled", "queue-deadline"}}
<1>1. /\ TypeOK /\ TypeOK'
      /\ QueueIsExact' /\ NoIdleSlot' /\ SlotsAccounted'
  BY DEF Inv, SlotsConsistent, QueueConsistent
<1>2. Service!Served = Running /\ Service!Waiting = Queued /\ Service!Served' = Running'
  BY <1>1, PhasesMatch, PhasesMatchNext
<1>3. /\ status[r] = "running"
      /\ status'[r] = outcome
      /\ \A s \in Queued : status'[s] \in {"cancelled", "queue-deadline", "queued", "running"}
      /\ \A s \in Running \ {r} : status'[s] = "running"
      /\ \A s \in Request : status[s] \notin {"queued", "running"} => status'[s] = status[s]
  BY PumpEffect
<1>4. next \in SUBSET Queued /\ lost \in SUBSET (Queued \ next)
  OBVIOUS
<1>5. [x \in Request |-> PhaseOf(status'[x])]
        = [d \in Request |-> IF d = r THEN "done"
                             ELSE IF d \in next THEN "served"
                             ELSE IF d \in lost THEN "turned-away"
                             ELSE phase[d]]
  <2> SUFFICES ASSUME NEW d \in Request
               PROVE  PhaseOf(status'[d]) = IF d = r THEN "done"
                                            ELSE IF d \in next THEN "served"
                                            ELSE IF d \in lost THEN "turned-away"
                                            ELSE PhaseOf(status[d])
    BY DEF phase
  <2>1. CASE d = r
    BY <1>3, <2>1, Phases
  <2>2. CASE d \in Queued
    <3>1. d # r /\ status[d] = "queued"
      BY <1>3, <2>2 DEF Queued
    <3>2. CASE status'[d] = "running"
      BY <2>2, <3>1, <3>2, Phases
    <3>3. CASE status'[d] \in {"cancelled", "queue-deadline"}
      BY <2>2, <3>1, <3>3, Phases
    <3>4. CASE status'[d] = "queued"
      BY <2>2, <3>1, <3>4
    <3> QED
      BY <1>3, <2>2, <3>2, <3>3, <3>4
  <2>3. CASE d \notin Queued /\ d # r
    <3>1. status'[d] = status[d]
      BY <1>3, <2>3 DEF Queued, Running
    <3> QED
      BY <2>3, <3>1
  <2> QED
    BY <2>1, <2>2, <2>3
<1>6. Queued # next \cup lost => Cardinality(Running') = MaxConcurrentJobs
  <2> SUFFICES ASSUME Queued # next \cup lost
               PROVE  Cardinality(Running') = MaxConcurrentJobs
    OBVIOUS
  <2>1. PICK s \in Queued : s \notin next \cup lost
    OBVIOUS
  <2>2. s \in Request /\ status'[s] = "queued"
    BY <1>3, <2>1 DEF Queued
  <2>3. s \in Queued'
    BY <2>2 DEF Queued
  <2>4. pendingJobs' # <<>>
    <3>1. PICK i \in DOMAIN pendingJobs' : pendingJobs'[i] = s
      BY <1>1, <2>3 DEF QueueIsExact, ToSet
    <3> QED
      BY <3>1, EmptySeq
  <2> QED
    BY <1>1, <2>4 DEF NoIdleSlot, SlotsAccounted
<1>7. Cardinality(Running') <= MaxConcurrentJobs
  BY <1>1 DEF SlotsAccounted
<1>9. Service!Cardinality(Running') = Cardinality(Running')
  BY SameCardinality
<1>8. phase[r] = "served"
  BY <1>3, Phases DEF phase
<1> HIDE DEF next, lost
<1> QED
  BY <1>2, <1>4, <1>5, <1>6, <1>7, <1>8, <1>9 DEF Service!Finish, phase

\* Refinement, one step at a time.
LEMMA StepImplements ==
    ASSUME Inv, [Next]_vars
    PROVE  [Service!Next]_phase
<1> USE SchedulerLimits
<1>1. /\ TypeOK /\ QueueIsExact
      /\ SlotsAccounted /\ NoIdleSlot
      /\ activeJobs \in Nat /\ Inv'
  BY NextInv DEF Inv, SlotsConsistent, QueueConsistent, TypeOK
<1>2. Service!Served = Running /\ Service!Waiting = Queued
  BY <1>1, PhasesMatch
<1>3. ASSUME NEW r \in Request, ScheduleAborted(r) \/ RejectQueueFull(r)
      PROVE  Service!Next
  <2>1. PICK o \in {"cancelled", "queue-full"} : status' = [status EXCEPT ![r] = o]
    BY <1>3 DEF ScheduleAborted, RejectQueueFull
  <2>2. Service!Become(r, "turned-away")
    BY <1>1, <2>1, OneChanges, Phases
  <2>3. phase[r] = "outside"
    BY <1>3, Phases DEF ScheduleAborted, RejectQueueFull, phase
  <2>4. Service!TurnAway(r)
    BY <2>2, <2>3 DEF Service!TurnAway
  <2> QED
    BY <2>4 DEF Service!Next
<1>4. ASSUME NEW r \in Request, ScheduleNow(r)
      PROVE  Service!Next
  <2>1. Service!Become(r, "served")
    BY <1>1, <1>4, OneChanges, Phases DEF ScheduleNow
  <2>2. phase[r] = "outside"
    BY <1>4, Phases DEF ScheduleNow, phase
  <2>3. ~Service!Full
    BY <1>1, <1>2, <1>4, SameCardinality DEF ScheduleNow, SlotFree, SlotsAccounted, Service!Full
  <2>4. Service!Enter(r)
    BY <2>1, <2>2, <2>3 DEF Service!Enter
  <2> QED
    BY <2>4 DEF Service!Next
<1>5. ASSUME NEW r \in Request, Enqueue(r)
      PROVE  Service!Next
  <2>1. Service!Become(r, "waiting")
    BY <1>1, <1>5, OneChanges, Phases DEF Enqueue
  <2>2. phase[r] = "outside"
    BY <1>5, Phases DEF Enqueue, phase
  <2>3. Service!Full
    BY <1>1, <1>2, <1>5, SameCardinality DEF Enqueue, SlotFree, SlotsAccounted, Service!Full
  <2>4. Cardinality(Queued) < MaxPendingJobs
    <3>1. Cardinality(Queued) \in Nat /\ Cardinality(Queued) <= Len(pendingJobs)
      BY <1>1, QueuedCardinality
    <3>2. Len(pendingJobs) < MaxPendingJobs /\ Len(pendingJobs) \in Nat
      BY <1>1, <1>5, LenProperties DEF Enqueue, TypeOK
    <3> QED
      BY <3>1, <3>2
  <2>5. Service!Wait(r)
    BY <1>2, <2>1, <2>2, <2>3, <2>4, SameCardinality DEF Service!Wait
  <2> QED
    BY <2>5 DEF Service!Next
<1>6. ASSUME NEW i \in DOMAIN pendingJobs, AbortQueued(i) \/ DeadlineTimer(i)
      PROVE  Service!Next
  <2> DEFINE r == pendingJobs[i]
  <2>1. PICK o \in {"cancelled", "queue-deadline"} : status' = [status EXCEPT ![r] = o]
    BY <1>6 DEF AbortQueued, DeadlineTimer, LeaveQueue
  <2>2. r \in Request /\ status[r] = "queued"
    BY <1>1, QueueEntries
  <2> HIDE DEF r
  <2>3. Service!Become(r, "turned-away")
    BY <1>1, <2>1, <2>2, OneChanges, Phases
  <2>4. phase[r] = "waiting"
    BY <2>2, Phases DEF phase
  <2>5. Service!TurnAway(r)
    BY <2>3, <2>4 DEF Service!TurnAway
  <2> QED
    BY <2>2, <2>5 DEF Service!Next
<1>7. ASSUME NEW r \in Request, NEW outcome \in {"fulfilled", "failed"},
             TaskSettles(r, outcome)
      PROVE  Service!Next
  BY <1>1, <1>7, TaskSettlesFinishes DEF Service!Next
<1>8. ASSUME \/ \E r \in Request : AbortUnheard(r)
             \/ Tick
             \/ \E d \in ClockSteps : ClockStep(d)
             \/ UNCHANGED vars
      PROVE  UNCHANGED phase
  BY <1>8 DEF AbortUnheard, Tick, ClockStep, vars, phase
<1> QED
  BY <1>3, <1>4, <1>5, <1>6, <1>7, <1>8 DEF Next, Schedule

\* The scheduler implements the bounded work-conserving service.
THEOREM ServiceImplemented == Spec => ImplementsService
<1>1. Init => Service!Init
  BY Phases DEF Init, Service!Init, phase
<1>2. Inv /\ [Next]_vars => [Service!Next]_phase
  BY StepImplements
<1> QED
  BY <1>1, <1>2, InvHolds, PTL DEF Spec, ImplementsService, Service!Spec

-----------------------------------------------------------------------------
(* Every step of the composition is one step of the scheduler, or none.      *)

LEMMA ComposedStep ==
    ASSUME [CallNext]_allVars
    PROVE  [Next]_vars
<1>1. CASE UNCHANGED allVars
  BY <1>1 DEF allVars
<1>2. CASE ServerStep
  <2>1. ASSUME NEW r \in Request, Schedule(r)
        PROVE  Next
    BY <2>1 DEF Next
  <2>2. CASE WarmUp
    BY <2>1, <2>2, WarmupIsRequest DEF WarmUp
  <2>3. ASSUME NEW r \in Exchange, Refuse(r) \/ Handle(r)
        PROVE  [Next]_vars
    BY <2>1, <2>3 DEF Refuse, ReplyAtOnce, Handle, Exchange
  <2>4. ASSUME NEW r \in Exchange, NoticeDisconnect(r)
        PROVE  [Next]_vars
    BY <2>4 DEF NoticeDisconnect, Exchange, Next
  <2>5. ASSUME NEW r \in Exchange, HandlerTimesOut(r)
        PROVE  [Next]_vars
    BY <2>5 DEF HandlerTimesOut, ReplyAtOnce
  <2>6. CASE SchedulerWorks
    BY <2>6 DEF SchedulerWorks, Next
  <2>7. CASE RouteTick
    BY <2>7 DEF RouteTick, Next
  <2> QED
    BY <1>2, <2>2, <2>3, <2>4, <2>5, <2>6, <2>7 DEF ServerStep
<1>3. ASSUME NEW c \in Call, Send(c) \/ Retry(c) \/ Return(c) \/ GiveUp(c)
      PROVE  [Next]_vars
  BY <1>3 DEF Send, Route, Retry, Return, GiveUp
<1> QED
  BY <1>1, <1>2, <1>3 DEF CallNext, ClientStep

\* Whatever clients and the route do, the scheduler behaves as specified: every
\* theorem about Spec holds of the composition.
THEOREM ComposedImplementsScheduler == CallSpec => Spec
<1>1. CallInit => Init
  BY DEF CallInit
<1> QED
  BY <1>1, ComposedStep, PTL DEF CallSpec, Spec

-----------------------------------------------------------------------------
(* Replies.                                                                  *)

RepliesConsistent ==
    \A r \in Exchange :
        /\ stage[r] # "handled" => status[r] = "new"
        /\ reply[r] = "overload" => status[r] \in {"queue-full", "queue-deadline"}
        /\ reply[r] = "ok" => status[r] = "fulfilled"
        /\ reply[r] = "refused" => stage[r] = "handled" /\ status[r] = "new"

RouteInv == Inv /\ CallTypeOK /\ RepliesConsistent

\* A settled promise stays as it is, and a request that was not made is only
\* made by its own call of schedule().
LEMMA StatusEffect ==
    ASSUME Inv, NEW s \in Request
    PROVE  /\ [Next]_vars /\ status[s] \in Settled => status'[s] = status[s]
           /\ \A r \in Request : Schedule(r) /\ r # s => status'[s] = status[s]
           /\ \A i \in DOMAIN pendingJobs :
                 (AbortQueued(i) \/ DeadlineTimer(i)) /\ status[s] = "new" => status'[s] = "new"
           /\ \A r \in Request, outcome \in {"fulfilled", "failed"} :
                 TaskSettles(r, outcome) /\ status[s] = "new" => status'[s] = "new"
<1>1. TypeOK /\ QueueIsExact /\ status \in [Request -> Status]
  BY DEF Inv, QueueConsistent, TypeOK
<1>2. ASSUME NEW r \in Request, Schedule(r), r # s
      PROVE  status'[s] = status[s]
  BY <1>1, <1>2 DEF Schedule, ScheduleAborted, ScheduleNow, RejectQueueFull, Enqueue
<1>3. ASSUME NEW r \in Request, Schedule(r), status[s] \in Settled
      PROVE  status'[s] = status[s]
  BY <1>1, <1>3 DEF Schedule, ScheduleAborted, ScheduleNow, RejectQueueFull, Enqueue, Settled
<1>4. ASSUME NEW i \in DOMAIN pendingJobs, AbortQueued(i) \/ DeadlineTimer(i),
             status[s] # "queued"
      PROVE  status'[s] = status[s]
  <2>1. status[pendingJobs[i]] = "queued"
    BY <1>1, QueueEntries
  <2> QED
    BY <1>1, <1>4, <2>1 DEF AbortQueued, DeadlineTimer, LeaveQueue
<1>5. ASSUME NEW r \in Request, NEW outcome \in {"fulfilled", "failed"},
             TaskSettles(r, outcome), status[s] \notin {"queued", "running"}
      PROVE  status'[s] = status[s]
  BY <1>5, PumpEffect
<1>6. ASSUME [Next]_vars, status[s] \in Settled
      PROVE  status'[s] = status[s]
  BY <1>3, <1>4, <1>5, <1>6 DEF Next, vars, AbortUnheard, Tick, ClockStep, Settled
<1> QED
  BY <1>2, <1>4, <1>5, <1>6

\* The replies that go with a step which makes no exchange but `handled` leave
\* the state "new", and none that has been answered.
LEMMA AnswerStep ==
    ASSUME RouteInv, [Next]_vars, Answer,
           NEW r \in Exchange,
           status[r] = "new" =>
               status'[r] = "new" \/ (reply[r] = "none" /\ stage'[r] = "handled"),
           stage[r] = "handled" => stage'[r] = "handled",
           stage[r] # "handled" /\ stage'[r] = "handled" => reply[r] = "none",
           stage'[r] # "handled" => stage[r] # "handled" /\ status'[r] = status[r]
    PROVE  /\ stage'[r] # "handled" => status'[r] = "new"
           /\ reply'[r] = "overload" => status'[r] \in {"queue-full", "queue-deadline"}
           /\ reply'[r] = "ok" => status'[r] = "fulfilled"
           /\ reply'[r] = "refused" => stage'[r] = "handled" /\ status'[r] = "new"
           /\ reply[r] # "none" => reply'[r] = reply[r]
           /\ reply'[r] \in Replies
<1>1. r \in Request /\ Inv /\ reply[r] \in Replies
  BY DEF Exchange, RouteInv, CallTypeOK, RouteTypeOK
<1>2. status[r] \in Settled => status'[r] = status[r]
  BY <1>1, StatusEffect
<1>3. /\ stage[r] # "handled" => status[r] = "new"
      /\ reply[r] = "overload" => status[r] \in {"queue-full", "queue-deadline"}
      /\ reply[r] = "ok" => status[r] = "fulfilled"
      /\ reply[r] = "refused" => stage[r] = "handled" /\ status[r] = "new"
  BY DEF RouteInv, RepliesConsistent
<1>4. \/ reply'[r] = reply[r]
      \/ reply[r] = "none" /\ status'[r] \in Settled /\ reply'[r] = ReplyOf(status'[r])
  BY DEF Answer, Open
<1>5. CASE reply'[r] = reply[r]
  BY <1>1, <1>2, <1>3, <1>5 DEF Settled
<1>6. CASE reply[r] = "none" /\ status'[r] \in Settled /\ reply'[r] = ReplyOf(status'[r])
  BY <1>3, <1>6 DEF ReplyOf, Settled, Replies
<1> QED
  BY <1>4, <1>5, <1>6

LEMMA RouteInvInit == CallInit => RouteInv
<1> SUFFICES ASSUME CallInit PROVE RouteInv
  OBVIOUS
<1>1. Inv
  BY InitInv DEF CallInit
<1>2. CallTypeOK
  BY <1>1, ClientLimits
     DEF Inv, CallInit, RouteInit, CallTypeOK, RouteTypeOK, Replies
<1>3. RepliesConsistent
  BY DEF CallInit, RouteInit, Init, RepliesConsistent, Exchange
<1> QED
  BY <1>1, <1>2, <1>3 DEF RouteInv

LEMMA RouteInvStep ==
    ASSUME RouteInv, [CallNext]_allVars
    PROVE  /\ RouteInv'
           /\ \A r \in Exchange : reply[r] # "none" => reply'[r] = reply[r]
<1>1. /\ Inv /\ CallTypeOK /\ RouteTypeOK /\ RepliesConsistent
      /\ status \in [Request -> Status]
      /\ stage \in [Exchange -> {"absent", "routed", "handled"}]
      /\ reply \in [Exchange -> Replies]
      /\ elapsed \in [Exchange -> Nat]
      /\ closed \subseteq Exchange
      /\ Exchange \subseteq Request
  BY DEF RouteInv, CallTypeOK, RouteTypeOK, Inv, TypeOK, Exchange
<1>2. [Next]_vars /\ Inv'
  BY <1>1, ComposedStep, NextInv
<1> DEFINE Goal == /\ RouteTypeOK' /\ RepliesConsistent'
                   /\ \A r \in Exchange : reply[r] # "none" => reply'[r] = reply[r]
           CallTypes == /\ call \in [Call -> {"idle", "waiting", "delaying"} \cup Finished]
                        /\ attempt \in [Call -> 1..MaxAttempts]
<1>c. SUFFICES Goal /\ CallTypes'
  BY <1>2 DEF RouteInv, CallTypeOK, Inv
<1>d. CallTypes
  BY <1>1 DEF CallTypeOK
<1>3. ASSUME UNCHANGED <<stage, closed>>, Answer,
             \A r \in Exchange : status[r] = "new" => status'[r] = "new"
      PROVE  Goal
  <2>1. ASSUME NEW r \in Exchange
        PROVE  /\ stage'[r] # "handled" => status'[r] = "new"
               /\ reply'[r] = "overload" => status'[r] \in {"queue-full", "queue-deadline"}
               /\ reply'[r] = "ok" => status'[r] = "fulfilled"
               /\ reply'[r] = "refused" => stage'[r] = "handled" /\ status'[r] = "new"
               /\ reply[r] # "none" => reply'[r] = reply[r]
               /\ reply'[r] \in Replies
    BY <1>1, <1>2, <1>3, <2>1, AnswerStep DEF RepliesConsistent
  <2>2. RouteTypeOK'
    BY <1>1, <1>3, <2>1 DEF Answer, RouteTypeOK
  <2> QED
    BY <2>1, <2>2 DEF RepliesConsistent
<1>4. ASSUME NEW r \in Exchange, Handle(r)
      PROVE  Goal
  <2>1. /\ r \in Request /\ Schedule(r) /\ Answer
        /\ reply[r] = "none" /\ stage[r] = "routed"
        /\ stage' = [stage EXCEPT ![r] = "handled"]
        /\ UNCHANGED closed
    BY <1>1, <1>4 DEF Handle, Open, Answer
  <2>2. ASSUME NEW s \in Exchange
        PROVE  /\ stage'[s] # "handled" => status'[s] = "new"
               /\ reply'[s] = "overload" => status'[s] \in {"queue-full", "queue-deadline"}
               /\ reply'[s] = "ok" => status'[s] = "fulfilled"
               /\ reply'[s] = "refused" => stage'[s] = "handled" /\ status'[s] = "new"
               /\ reply[s] # "none" => reply'[s] = reply[s]
               /\ reply'[s] \in Replies
    <3>1. s # r => status'[s] = status[s] /\ stage'[s] = stage[s]
      BY <1>1, <2>1, StatusEffect
    <3>2. s = r => stage'[s] = "handled"
      BY <1>1, <2>1
    <3> QED
      BY <1>1, <1>2, <2>1, <3>1, <3>2, AnswerStep DEF RepliesConsistent
  <2>3. RouteTypeOK'
    BY <1>1, <2>1, <2>2 DEF Answer, RouteTypeOK
  <2> QED
    BY <2>2, <2>3 DEF RepliesConsistent
<1>5. ASSUME NEW r \in Exchange, Refuse(r) \/ HandlerTimesOut(r)
      PROVE  Goal
  <2>1. /\ r \in Open
        /\ UNCHANGED <<vars, closed>>
        /\ elapsed' = [elapsed EXCEPT ![r] = 0]
        /\ \/ /\ stage[r] = "routed"
              /\ stage' = [stage EXCEPT ![r] = "handled"]
              /\ reply' = [reply EXCEPT ![r] = "refused"]
           \/ stage' = stage /\ reply' = [reply EXCEPT ![r] = "timeout"]
    BY <1>5 DEF Refuse, HandlerTimesOut, ReplyAtOnce
  <2>2. reply[r] = "none" /\ status' = status
    BY <2>1 DEF Open, vars
  <2>3. RouteTypeOK'
    BY <1>1, <2>1 DEF RouteTypeOK, Replies
  <2>4. RepliesConsistent'
    BY <1>1, <2>1, <2>2 DEF RepliesConsistent
  <2> QED
    BY <1>1, <2>1, <2>2, <2>3, <2>4
<1>6. ASSUME ServerStep
      PROVE  Goal
  <2>1. ASSUME WarmUp
        PROVE  Goal
    <3>1. Schedule(Warmup) /\ UNCHANGED routeVars
      BY <2>1 DEF WarmUp
    <3>2. \A s \in Exchange : status'[s] = status[s]
      BY <1>1, <3>1, StatusEffect, WarmupIsRequest DEF Exchange
    <3> QED
      BY <1>1, <3>1, <3>2 DEF routeVars, RouteTypeOK, RepliesConsistent
  <2>2. ASSUME NEW r \in Exchange, NoticeDisconnect(r)
        PROVE  Goal
    <3>1. /\ Answer /\ UNCHANGED <<stage, closed>>
          /\ AbortUnheard(r) \/ \E i \in DOMAIN pendingJobs : AbortQueued(i)
      BY <2>2 DEF NoticeDisconnect, Answer
    <3>2. \A s \in Exchange : status[s] = "new" => status'[s] = "new"
      BY <1>1, <3>1, StatusEffect DEF AbortUnheard
    <3> QED
      BY <1>3, <3>1, <3>2
  <2>3. ASSUME SchedulerWorks
        PROVE  Goal
    <3>1. /\ Answer /\ UNCHANGED <<stage, closed>>
          /\ \/ \E r \in Request, outcome \in {"fulfilled", "failed"} : TaskSettles(r, outcome)
             \/ \E i \in DOMAIN pendingJobs : DeadlineTimer(i)
      BY <2>3 DEF SchedulerWorks, Answer
    <3>2. \A s \in Exchange : status[s] = "new" => status'[s] = "new"
      BY <1>1, <3>1, StatusEffect
    <3> QED
      BY <1>3, <3>1, <3>2
  <2>4. ASSUME RouteTick
        PROVE  Goal
    <3>1. /\ UNCHANGED <<stage, reply, closed, status>>
          /\ elapsed' = [r \in Exchange |-> IF r \in Open THEN elapsed[r] + 1 ELSE elapsed[r]]
      BY <2>4 DEF RouteTick, Tick
    <3> QED
      BY <1>1, <3>1 DEF RouteTypeOK, RepliesConsistent
  <2> QED
    BY <1>4, <1>5, <1>6, <2>1, <2>2, <2>3, <2>4 DEF ServerStep
<1>7. ASSUME NEW c \in Call, Send(c) \/ Retry(c) \/ Return(c) \/ GiveUp(c)
      PROVE  Goal /\ CallTypes'
  <2>1. CASE Send(c)
    <3>1. /\ stage[Current(c)] = "absent"
          /\ stage' = [stage EXCEPT ![Current(c)] = "routed"]
          /\ UNCHANGED <<vars, reply, elapsed, closed>>
          /\ call' = [call EXCEPT ![c] = "waiting"] /\ attempt' = attempt
      BY <2>1 DEF Send, Route
    <3>2. status' = status
      BY <3>1 DEF vars
    <3>3. Goal
      BY <1>1, <3>1, <3>2 DEF RouteTypeOK, RepliesConsistent
    <3> QED
      BY <1>d, <3>1, <3>3
  <2>2. CASE Retry(c) \/ Return(c)
    <3>1. UNCHANGED <<status, stage, reply, elapsed, closed>>
      BY <2>2 DEF Retry, Return, routeVars, vars
    <3>2. Goal
      BY <1>1, <3>1 DEF RouteTypeOK, RepliesConsistent
    <3>3. CallTypes'
      BY <1>d, <2>2, ClientLimits DEF Retry, Return, Finished
    <3> QED
      BY <3>2, <3>3
  <2>3. CASE GiveUp(c)
    <3>1. /\ UNCHANGED <<status, stage, reply, elapsed>>
          /\ closed' = closed \cup {Current(c)} \/ closed' = closed
          /\ call' = [call EXCEPT ![c] = "threw"] /\ attempt' = attempt
      BY <2>3 DEF GiveUp, vars
    <3>2. Current(c) \in Exchange
      BY <1>d, ClientLimits DEF Current
    <3>3. Goal
      BY <1>1, <3>1, <3>2 DEF RouteTypeOK, RepliesConsistent
    <3>4. CallTypes'
      BY <1>d, <3>1 DEF Finished
    <3> QED
      BY <3>3, <3>4
  <2> QED
    BY <1>7, <2>1, <2>2, <2>3
<1>8. ASSUME UNCHANGED allVars
      PROVE  Goal /\ CallTypes'
  BY <1>1, <1>d, <1>8 DEF allVars, vars, routeVars, clientVars, RouteTypeOK, RepliesConsistent
<1>9. ASSUME UNCHANGED clientVars
      PROVE  CallTypes'
  BY <1>d, <1>9 DEF clientVars
<1> QED
  <2> HIDE DEF Goal, CallTypes
  <2> QED
    BY <1>6, <1>7, <1>8, <1>9 DEF CallNext, ClientStep

LEMMA RouteInvHolds == CallSpec => []RouteInv
<1> QED
  BY RouteInvInit, RouteInvStep, PTL DEF CallSpec

\* Every variable of client, route and scheduler keeps its type.
THEOREM CallTypeCorrect == CallSpec => []CallTypeOK
<1>1. RouteInv => CallTypeOK
  BY DEF RouteInv
<1> QED
  BY <1>1, RouteInvHolds, PTL

\* The reply of the route is what became of the task: an overload is only
\* answered when the task was never started, a result only when there is one.
THEOREM ReplyCorrect == CallSpec => []ReplyTellsOutcome
<1>1. RouteInv => ReplyTellsOutcome
  BY DEF RouteInv, RepliesConsistent, ReplyTellsOutcome
<1> QED
  BY <1>1, RouteInvHolds, PTL

-----------------------------------------------------------------------------
(* Retries.  A call goes on to its next attempt only after an overload, and  *)
(* nothing exists yet of the attempts to come.                               *)

AttemptsInOrder ==
    \A c \in Call, a \in 1..MaxAttempts :
        /\ a < attempt[c] => reply[<<c, a>>] = "overload"
        /\ a > attempt[c] => stage[<<c, a>>] = "absent"

LEMMA AttemptsStep ==
    ASSUME RouteInv, AttemptsInOrder, [CallNext]_allVars
    PROVE  AttemptsInOrder'
<1>1. /\ attempt \in [Call -> 1..MaxAttempts]
      /\ stage \in [Exchange -> {"absent", "routed", "handled"}]
      /\ reply \in [Exchange -> Replies]
      /\ MaxAttempts \in Nat
      /\ \A c \in Call, a \in 1..MaxAttempts : <<c, a>> \in Exchange
  BY ClientLimits DEF RouteInv, CallTypeOK, RouteTypeOK
<1>2. \A r \in Exchange : reply[r] # "none" => reply'[r] = reply[r]
  BY RouteInvStep
<1>3. ASSUME ServerStep, UNCHANGED clientVars
      PROVE  AttemptsInOrder'
  <2>1. ASSUME NEW r \in Exchange, stage[r] = "absent"
        PROVE  stage'[r] = "absent"
    BY <1>1, <1>3, <2>1 DEF ServerStep, WarmUp, routeVars, Refuse, Handle, NoticeDisconnect,
       HandlerTimesOut, SchedulerWorks, RouteTick
  <2>2. attempt' = attempt
    BY <1>3 DEF clientVars
  <2> QED
    BY <1>1, <1>2, <2>1, <2>2 DEF AttemptsInOrder
<1>4. ASSUME NEW c \in Call, Send(c)
      PROVE  AttemptsInOrder'
  <2>1. /\ attempt' = attempt /\ reply' = reply
        /\ stage' = [stage EXCEPT ![<<c, attempt[c]>>] = "routed"]
    BY <1>4 DEF Send, Route, Current
  <2>2. ASSUME NEW d \in Call, NEW a \in 1..MaxAttempts, a > attempt[d]
        PROVE  stage'[<<d, a>>] = "absent"
    <3>1. <<d, a>> # <<c, attempt[c]>>
      BY <1>1, <2>2
    <3> QED
      BY <1>1, <2>1, <2>2, <3>1 DEF AttemptsInOrder
  <2> QED
    BY <2>1, <2>2 DEF AttemptsInOrder
<1>5. ASSUME NEW c \in Call, Retry(c)
      PROVE  AttemptsInOrder'
  <2>1. /\ attempt' = [attempt EXCEPT ![c] = attempt[c] + 1]
        /\ UNCHANGED <<reply, stage>>
        /\ reply[<<c, attempt[c]>>] = "overload"
    BY <1>5 DEF Retry, routeVars, IsOverload, Current
  <2>2. \A d \in Call : attempt'[d] = IF d = c THEN attempt[d] + 1 ELSE attempt[d]
    BY <1>1, <2>1
  <2>3. ASSUME NEW d \in Call, NEW a \in 1..MaxAttempts
        PROVE  /\ a < attempt'[d] => reply[<<d, a>>] = "overload"
               /\ a > attempt'[d] => stage[<<d, a>>] = "absent"
    <3>1. attempt[d] \in Nat /\ a \in Nat
      BY <1>1
    <3>2. a < attempt'[d] => a < attempt[d] \/ (d = c /\ a = attempt[c])
      BY <2>2, <3>1
    <3>3. a > attempt'[d] => a > attempt[d]
      BY <2>2, <3>1
    <3> QED
      BY <2>1, <3>2, <3>3 DEF AttemptsInOrder
  <2> QED
    BY <2>1, <2>3 DEF AttemptsInOrder
<1>6. ASSUME NEW c \in Call, Return(c) \/ GiveUp(c)
      PROVE  AttemptsInOrder'
  BY <1>6 DEF Return, GiveUp, routeVars, AttemptsInOrder
<1>7. CASE UNCHANGED allVars
  BY <1>7 DEF allVars, routeVars, clientVars, AttemptsInOrder
<1> QED
  BY <1>3, <1>4, <1>5, <1>6, <1>7 DEF CallNext, ClientStep

\* However many calls and attempts there are, and whatever is answered late,
\* refused or cut off: one call of GenererBrev starts at most one render.
THEOREM RendersOnceCorrect == CallSpec => []RendersAtMostOnce
<1>1. CallInit => AttemptsInOrder
  <2> SUFFICES ASSUME CallInit PROVE AttemptsInOrder
    OBVIOUS
  <2>1. \A c \in Call, a \in 1..MaxAttempts : <<c, a>> \in Exchange
    BY ClientLimits
  <2>2. \A c \in Call, a \in 1..MaxAttempts : stage[<<c, a>>] = "absent"
    BY <2>1 DEF CallInit, RouteInit
  <2>3. \A c \in Call, a \in 1..MaxAttempts : ~(a < attempt[c])
    BY ClientLimits DEF CallInit
  <2> QED
    BY <2>2, <2>3 DEF AttemptsInOrder
<1>2. RouteInv /\ AttemptsInOrder => RendersAtMostOnce
  <2> SUFFICES ASSUME RouteInv, AttemptsInOrder, NEW c \in Call
               PROVE  Cardinality({a \in 1..MaxAttempts : status[<<c, a>>] \in Rendered}) <= 1
    BY DEF RendersAtMostOnce
  <2> DEFINE S == {a \in 1..MaxAttempts : status[<<c, a>>] \in Rendered}
  <2>1. attempt[c] \in 1..MaxAttempts
    BY DEF RouteInv, CallTypeOK
  <2>2. ASSUME NEW a \in S
        PROVE  a = attempt[c]
    <3>1. <<c, a>> \in Exchange
      BY ClientLimits
    <3>2. ~(a < attempt[c])
      BY <3>1 DEF RouteInv, RepliesConsistent, AttemptsInOrder, Rendered
    <3>3. ~(a > attempt[c])
      BY <3>1 DEF RouteInv, RepliesConsistent, AttemptsInOrder, Rendered
    <3> QED
      BY <2>1, <3>2, <3>3, ClientLimits
  <2> HIDE DEF S
  <2>3. S \subseteq {attempt[c]}
    BY <2>2
  <2>4. IsFiniteSet({attempt[c]}) /\ Cardinality({attempt[c]}) = 1
    BY FS_Singleton
  <2>5. Cardinality(S) <= 1
    BY <2>3, <2>4, FS_Subset
  <2> QED
    BY <2>5 DEF S
<1> QED
  BY <1>1, <1>2, AttemptsStep, RouteInvInit, RouteInvStep, PTL DEF CallSpec

-----------------------------------------------------------------------------
(* Cancellations.  The scheduler cancels only what was aborted, and the route *)
(* aborts only for a caller that has closed its connection.                  *)

CancelledAreAborted == \A r \in Request : status[r] = "cancelled" => r \in aborted

LEMMA CancelledStep ==
    ASSUME Inv, [Next]_vars, CancelledAreAborted
    PROVE  CancelledAreAborted'
<1>1. TypeOK /\ QueueIsExact /\ status \in [Request -> Status]
  BY DEF Inv, QueueConsistent, TypeOK
<1>2. ASSUME NEW r \in Request, Schedule(r)
      PROVE  CancelledAreAborted'
  BY <1>1, <1>2 DEF Schedule, ScheduleAborted, ScheduleNow, RejectQueueFull, Enqueue,
     CancelledAreAborted
<1>3. ASSUME NEW i \in DOMAIN pendingJobs, AbortQueued(i) \/ DeadlineTimer(i)
      PROVE  CancelledAreAborted'
  BY <1>1, <1>3 DEF AbortQueued, DeadlineTimer, LeaveQueue, CancelledAreAborted
<1>4. ASSUME NEW r \in Request, NEW outcome \in {"fulfilled", "failed"}, TaskSettles(r, outcome)
      PROVE  CancelledAreAborted'
  <2> DEFINE n       == Shifts(SlotsLeft)
             started == LiveAmongFirst(n)
             shifted == {pendingJobs[i] : i \in 1..n}
             settled == [status EXCEPT ![r] = outcome]
  <2>1. /\ aborted' = aborted
        /\ status' = [s \in Request |->
               CASE s \in started -> "running"
                 [] s \in shifted \ started -> RejectedAs(s)
                 [] OTHER -> settled[s]]
    BY <1>4 DEF TaskSettles, StartPendingTasks
  <2> SUFFICES ASSUME NEW s \in Request, status'[s] = "cancelled"
               PROVE  s \in aborted
    BY <2>1 DEF CancelledAreAborted
  <2> HIDE DEF n, started, shifted
  <2>2. CASE s \in started
    BY <2>1, <2>2
  <2>3. CASE s \in shifted \ started
    BY <2>1, <2>3 DEF RejectedAs
  <2>4. CASE s \notin started /\ s \notin shifted
    <3>1. settled[s] = "cancelled"
      BY <2>1, <2>4
    <3>2. status[s] = "cancelled"
      BY <1>1, <3>1
    <3> QED
      BY <3>2 DEF CancelledAreAborted
  <2> QED
    BY <2>2, <2>3, <2>4
<1>5. ASSUME NEW r \in Request, AbortUnheard(r)
      PROVE  CancelledAreAborted'
  BY <1>5 DEF AbortUnheard, CancelledAreAborted
<1>6. CASE Tick \/ (\E d \in ClockSteps : ClockStep(d)) \/ UNCHANGED vars
  BY <1>6 DEF Tick, ClockStep, vars, CancelledAreAborted
<1> QED
  BY <1>2, <1>3, <1>4, <1>5, <1>6 DEF Next

\* A step of the scheduler other than an abort aborts nothing.
LEMMA OnlyAbortsAbort ==
    ASSUME Inv
    PROVE  /\ \A r \in Request : Schedule(r) => aborted' = aborted
           /\ \A r \in Request, outcome \in {"fulfilled", "failed"} :
                  TaskSettles(r, outcome) => aborted' = aborted
           /\ \A i \in DOMAIN pendingJobs : DeadlineTimer(i) => aborted' = aborted
           /\ Tick => aborted' = aborted
<1> QED
  BY DEF Schedule, ScheduleAborted, ScheduleNow, RejectQueueFull, Enqueue, TaskSettles,
     DeadlineTimer, Tick

CancelInv ==
    /\ CancelledAreAborted
    /\ aborted \cap Exchange \subseteq closed
    /\ \A r \in Exchange : reply[r] = "cancelled" => status[r] = "cancelled"

LEMMA CancelStep ==
    ASSUME RouteInv, CancelInv, [CallNext]_allVars
    PROVE  CancelInv'
<1>1. /\ Inv
      /\ Exchange \subseteq Request
      /\ reply \in [Exchange -> Replies]
      /\ [Next]_vars
  BY ComposedStep DEF RouteInv, CallTypeOK, RouteTypeOK, Exchange
<1>2. CancelledAreAborted'
  BY <1>1, CancelledStep DEF CancelInv
<1>3. \A r \in Exchange : status[r] = "cancelled" => status'[r] = "cancelled"
  BY <1>1, StatusEffect DEF Settled
<1> DEFINE Told == \A r \in Exchange : reply'[r] = "cancelled" => status'[r] = "cancelled"
           Heard == aborted' \cap Exchange \subseteq closed'
<1>4. ASSUME Answer
      PROVE  Told /\ closed' = closed
  <2>1. ASSUME NEW r \in Exchange, reply'[r] = "cancelled"
        PROVE  status'[r] = "cancelled"
    <3>1. \/ reply'[r] = reply[r]
          \/ status'[r] \in Settled /\ reply'[r] = ReplyOf(status'[r])
      BY <1>4 DEF Answer
    <3>2. CASE reply'[r] = reply[r]
      BY <1>3, <2>1, <3>2 DEF CancelInv
    <3>3. CASE status'[r] \in Settled /\ reply'[r] = ReplyOf(status'[r])
      BY <2>1, <3>3 DEF ReplyOf, Settled
    <3> QED
      BY <3>1, <3>2, <3>3
  <2> QED
    BY <1>4, <2>1 DEF Answer
<1>5. ASSUME aborted' = aborted, closed' = closed \/ closed \subseteq closed'
      PROVE  Heard
  BY <1>5 DEF CancelInv
<1>6. ASSUME UNCHANGED <<reply>> PROVE Told
  BY <1>3, <1>6 DEF CancelInv
<1>7. CASE ServerStep
  <2>1. CASE WarmUp
    <3>1. Schedule(Warmup) /\ UNCHANGED <<reply, closed>>
      BY <2>1 DEF WarmUp, routeVars
    <3> QED
      BY <1>1, <1>2, <1>5, <1>6, <3>1, OnlyAbortsAbort, WarmupIsRequest DEF CancelInv
  <2>2. CASE \E r \in Exchange : Handle(r)
    <3>1. Answer /\ \E r \in Request : Schedule(r)
      BY <1>1, <2>2 DEF Handle
    <3> QED
      BY <1>1, <1>2, <1>4, <1>5, <3>1, OnlyAbortsAbort DEF CancelInv
  <2>3. CASE \E r \in Exchange : Refuse(r) \/ HandlerTimesOut(r)
    <3>1. PICK r \in Exchange :
              /\ UNCHANGED <<vars, closed>>
              /\ \E what \in {"refused", "timeout"} : reply' = [reply EXCEPT ![r] = what]
      BY <2>3 DEF Refuse, HandlerTimesOut, ReplyAtOnce
    <3>2. aborted' = aborted /\ closed' = closed
      BY <3>1 DEF vars
    <3>3. Told
      BY <1>1, <1>3, <3>1 DEF CancelInv
    <3> QED
      BY <1>2, <1>5, <3>2, <3>3 DEF CancelInv
  <2>4. CASE \E r \in Exchange : NoticeDisconnect(r)
    <3>1. PICK r \in Exchange : NoticeDisconnect(r)
      BY <2>4
    <3>2. r \in closed /\ aborted' = aborted \cup {r} /\ Answer
      BY <3>1 DEF NoticeDisconnect, Disconnected, AbortUnheard, AbortQueued
    <3>3. Told /\ closed' = closed
      BY <1>4, <3>2
    <3>4. Heard
      BY <3>2, <3>3 DEF CancelInv
    <3> QED
      BY <1>2, <3>3, <3>4 DEF CancelInv
  <2>5. CASE SchedulerWorks
    <3>1. Answer /\ aborted' = aborted
      BY <1>1, <2>5, OnlyAbortsAbort DEF SchedulerWorks
    <3> QED
      BY <1>2, <1>4, <1>5, <3>1 DEF CancelInv
  <2>6. CASE RouteTick
    <3>1. UNCHANGED <<reply, closed>> /\ aborted' = aborted
      BY <1>1, <2>6, OnlyAbortsAbort DEF RouteTick
    <3> QED
      BY <1>2, <1>5, <1>6, <3>1 DEF CancelInv
  <2> QED
    BY <1>7, <2>1, <2>2, <2>3, <2>4, <2>5, <2>6 DEF ServerStep
<1>8. ASSUME NEW c \in Call, Send(c) \/ Retry(c) \/ Return(c) \/ GiveUp(c)
      PROVE  CancelInv'
  <2>1. aborted' = aborted /\ reply' = reply /\ closed \subseteq closed'
    BY <1>8 DEF Send, Route, Retry, Return, GiveUp, vars, routeVars
  <2> QED
    BY <1>2, <1>5, <1>6, <2>1 DEF CancelInv
<1>9. CASE UNCHANGED allVars
  <2>1. UNCHANGED <<aborted, reply, closed>>
    BY <1>9 DEF allVars, vars, routeVars
  <2> QED
    BY <1>2, <1>5, <1>6, <2>1 DEF CancelInv
<1> QED
  BY <1>7, <1>8, <1>9 DEF CallNext, ClientStep

\* Whoever is answered 499 has closed the connection, whether the disconnect came
\* before the handler ran, while the request was queued, or as the pump reached it.
THEOREM CancelledCorrect == CallSpec => []CancelledIsUnseen
<1>1. CallInit => CancelInv
  BY DEF CallInit, RouteInit, Init, CancelInv, CancelledAreAborted, Exchange
<1>2. RouteInv /\ CancelInv => CancelledIsUnseen
  BY DEF CancelInv, CancelledAreAborted, CancelledIsUnseen, Exchange
<1> QED
  BY <1>1, <1>2, CancelStep, RouteInvInit, RouteInvStep, PTL DEF CallSpec
-----------------------------------------------------------------------------
(* The handler timeout.                                                      *)

\* The handler has run and has not answered.
InHandler == {r \in Open : stage[r] = "handled"}

PromisePending == Queued \cup Running

NoReplyOwed == InHandler \subseteq PromisePending

\* The time before the handler, which the scheduler does not know of.
Lead(r) == elapsed[r] - age[r]

\* The age of a request that waits or runs on changes in the ticks alone.
LEMMA AgeEffect ==
    ASSUME Inv, NEW r \in PromisePending, r \in PromisePending'
    PROVE  /\ \A s \in Request : Schedule(s) \/ AbortUnheard(s) => age'[r] = age[r]
           /\ \A i \in DOMAIN pendingJobs :
                 AbortQueued(i) \/ DeadlineTimer(i) => age'[r] = age[r]
           /\ \A s \in Request, outcome \in {"fulfilled", "failed"} :
                 TaskSettles(s, outcome) => age'[r] = age[r]
           /\ Tick => age'[r] = age[r] + 1
<1>1. /\ r \in Request /\ status[r] \in {"queued", "running"}
      /\ status'[r] \in {"queued", "running"}
      /\ age \in [Request -> Nat] /\ status \in [Request -> Status]
  BY DEF PromisePending, Queued, Running, Inv, TypeOK
<1>2. ASSUME NEW s \in Request, Schedule(s) \/ AbortUnheard(s)
      PROVE  age'[r] = age[r]
  BY <1>2 DEF Schedule, ScheduleAborted, ScheduleNow, RejectQueueFull, Enqueue, AbortUnheard
<1>3. ASSUME NEW i \in DOMAIN pendingJobs, NEW outcome \in {"queue-deadline", "cancelled"},
             LeaveQueue(i, outcome)
      PROVE  age'[r] = age[r]
  <2>1. r # pendingJobs[i]
    BY <1>1, <1>3 DEF LeaveQueue
  <2> QED
    BY <1>1, <1>3, <2>1 DEF LeaveQueue
<1>4. ASSUME NEW s \in Request, NEW outcome \in {"fulfilled", "failed"},
             TaskSettles(s, outcome)
      PROVE  age'[r] = age[r]
  <2>1. age' = [q \in Request |-> IF status'[q] \in Settled THEN 0 ELSE age[q]]
    BY <1>4 DEF TaskSettles, StartPendingTasks
  <2> QED
    BY <1>1, <2>1 DEF Settled
<1>5. Tick => age'[r] = age[r] + 1
  BY <1>1 DEF Tick, Queued, Running
<1>6. ASSUME NEW i \in DOMAIN pendingJobs, AbortQueued(i) \/ DeadlineTimer(i)
      PROVE  age'[r] = age[r]
  BY <1>3, <1>6 DEF AbortQueued, DeadlineTimer
<1> QED
  BY <1>2, <1>4, <1>5, <1>6

\* What goes with a step of the scheduler answers whoever it settles.
LEMMA AnswerPays ==
    ASSUME Inv', NEW r \in Open, Answer, reply'[r] = "none",
           status[r] \notin Settled, status'[r] # "new"
    PROVE  r \in PromisePending' /\ elapsed'[r] = elapsed[r]
<1>1. r \in Exchange
  BY DEF Open
<1>2. status'[r] \in Settled => reply'[r] = ReplyOf(status'[r])
  BY <1>1 DEF Answer
<1>3. status'[r] \notin Settled
  BY <1>2 DEF ReplyOf, Settled
<1>4. r \in Request /\ status'[r] \in Status
  BY <1>1 DEF Inv, TypeOK, Exchange
<1> QED
  BY <1>1, <1>3, <1>4 DEF PromisePending, Queued, Running, Status, Answer

\* Schedule does not leave a request unmade.
LEMMA ScheduleMakes ==
    ASSUME Inv, NEW r \in Request, Schedule(r)
    PROVE  status[r] = "new" /\ status'[r] # "new"
<1> QED
  BY DEF Inv, TypeOK, Schedule, ScheduleAborted, ScheduleNow, RejectQueueFull, Enqueue

LEMMA HandlerStep ==
    ASSUME RouteInv, NoReplyOwed, [CallNext]_allVars, NEW r \in InHandler'
    PROVE  /\ r \in PromisePending'
           /\ r \in InHandler => Lead(r)' = Lead(r)
<1>1. /\ RouteInv' /\ Inv /\ Inv'
      /\ r \in Exchange /\ r \in Request
      /\ stage'[r] = "handled" /\ reply'[r] = "none"
      /\ stage \in [Exchange -> {"absent", "routed", "handled"}]
      /\ reply \in [Exchange -> Replies]
      /\ elapsed \in [Exchange -> Nat] /\ age \in [Request -> Nat]
  BY RouteInvStep DEF InHandler, Open, RouteInv, CallTypeOK, RouteTypeOK, Inv, TypeOK, Exchange
<1>2. reply[r] = "none"
  BY <1>1, RouteInvStep DEF Replies
<1>3. r \in InHandler => r \in PromisePending
  BY DEF NoReplyOwed
<1>4. r \in PromisePending => status[r] \in {"queued", "running"}
  BY DEF PromisePending, Queued, Running
<1>5. CASE ServerStep
  <2>1. CASE WarmUp
    <3>1. Schedule(Warmup) /\ UNCHANGED routeVars
      BY <2>1 DEF WarmUp
    <3>2. r \in InHandler /\ r # Warmup /\ status'[r] = status[r] /\ elapsed'[r] = elapsed[r]
      BY <1>1, <1>2, <3>1, StatusEffect, WarmupIsRequest
         DEF routeVars, InHandler, Open, Exchange
    <3>3. r \in PromisePending /\ r \in PromisePending'
      BY <1>1, <1>3, <3>2 DEF PromisePending, Queued, Running
    <3> QED
      BY <1>1, <3>1, <3>2, <3>3, AgeEffect, WarmupIsRequest DEF Lead
  <2>2. ASSUME NEW s \in Exchange, Handle(s)
        PROVE  /\ r \in PromisePending'
               /\ r \in InHandler => Lead(r)' = Lead(r)
    <3>1. s \in Request /\ Schedule(s) /\ Answer /\ stage' = [stage EXCEPT ![s] = "handled"]
          /\ s \in Open /\ stage[s] = "routed"
      BY <2>2 DEF Handle, Exchange
    <3>2. CASE r = s
      <4>1. status[r] = "new" /\ status'[r] # "new"
        BY <1>1, <3>1, <3>2, ScheduleMakes
      <4>2. r \in PromisePending'
        BY <1>1, <3>1, <3>2, <4>1, AnswerPays DEF Settled
      <4>3. r \notin InHandler
        BY <3>1, <3>2 DEF InHandler
      <4> QED
        BY <4>2, <4>3
    <3>3. CASE r # s
      <4>1. r \in InHandler /\ r \in Open /\ r \in PromisePending
        BY <1>1, <1>2, <1>3, <3>1, <3>3 DEF InHandler, Open
      <4>2. status'[r] = status[r]
        BY <1>1, <3>1, <3>3, StatusEffect
      <4>3. r \in PromisePending' /\ elapsed'[r] = elapsed[r]
        BY <1>1, <1>4, <3>1, <4>1, <4>2, AnswerPays DEF Settled
      <4> QED
        BY <1>1, <3>1, <4>1, <4>3, AgeEffect DEF Lead
    <3> QED
      BY <3>2, <3>3
  <2>3. ASSUME NEW s \in Exchange, Refuse(s) \/ HandlerTimesOut(s)
        PROVE  /\ r \in PromisePending'
               /\ r \in InHandler => Lead(r)' = Lead(r)
    <3>1. UNCHANGED vars /\ elapsed' = [elapsed EXCEPT ![s] = 0]
          /\ \/ stage' = stage /\ reply' = [reply EXCEPT ![s] = "timeout"]
             \/ /\ stage' = [stage EXCEPT ![s] = "handled"]
                /\ reply' = [reply EXCEPT ![s] = "refused"]
      BY <2>3 DEF Refuse, HandlerTimesOut, ReplyAtOnce
    <3>2. r # s
      BY <1>1, <3>1
    <3>3. r \in InHandler /\ r \in PromisePending
      BY <1>1, <1>2, <1>3, <3>1, <3>2 DEF InHandler, Open
    <3> QED
      BY <1>1, <3>1, <3>2, <3>3 DEF vars, PromisePending, Queued, Running, Lead
  <2>4. ASSUME UNCHANGED stage, Answer,
               status[r] \in {"queued", "running"} => status'[r] # "new"
        PROVE  /\ r \in PromisePending /\ r \in PromisePending'
               /\ elapsed'[r] = elapsed[r]
    <3>1. r \in InHandler /\ r \in Open
      BY <1>1, <1>2, <2>4 DEF InHandler, Open
    <3> QED
      BY <1>1, <1>3, <1>4, <2>4, <3>1, AnswerPays DEF Settled
  <2>5. ASSUME NEW s \in Exchange, NoticeDisconnect(s)
        PROVE  r \in PromisePending' /\ Lead(r)' = Lead(r)
    <3>1. /\ UNCHANGED stage /\ Answer /\ s \in Request
          /\ \/ AbortUnheard(s)
             \/ \E i \in DOMAIN pendingJobs : AbortQueued(i)
      BY <2>5 DEF NoticeDisconnect, Exchange
    <3>2. status[r] \in {"queued", "running"} => status'[r] # "new"
      BY <1>1, <3>1 DEF AbortUnheard, AbortQueued, LeaveQueue, Inv, TypeOK
    <3>3. r \in PromisePending /\ r \in PromisePending' /\ elapsed'[r] = elapsed[r]
      BY <2>4, <3>1, <3>2
    <3> QED
      BY <1>1, <3>1, <3>3, AgeEffect DEF Lead
  <2>6. CASE SchedulerWorks
    <3>1. /\ UNCHANGED stage /\ Answer
          /\ \/ \E s \in Request, outcome \in {"fulfilled", "failed"} : TaskSettles(s, outcome)
             \/ \E i \in DOMAIN pendingJobs : DeadlineTimer(i)
      BY <2>6 DEF SchedulerWorks
    <3>2. status[r] \in {"queued", "running"} => status'[r] # "new"
      <4>1. ASSUME NEW s \in Request, NEW outcome \in {"fulfilled", "failed"},
                   TaskSettles(s, outcome), status[r] \in {"queued", "running"}
            PROVE  status'[r] # "new"
        <5>1. CASE r = s
          BY <1>1, <4>1, <5>1, PumpEffect
        <5>2. CASE r # s
          BY <1>1, <4>1, <5>2, PumpEffect DEF Queued, Running
        <5> QED
          BY <5>1, <5>2
      <4>2. ASSUME NEW i \in DOMAIN pendingJobs, DeadlineTimer(i),
                   status[r] \in {"queued", "running"}
            PROVE  status'[r] # "new"
        BY <1>1, <4>2 DEF DeadlineTimer, LeaveQueue, Inv, TypeOK
      <4> QED
        BY <3>1, <4>1, <4>2
    <3>3. r \in PromisePending /\ r \in PromisePending' /\ elapsed'[r] = elapsed[r]
      BY <2>4, <3>1, <3>2
    <3> QED
      BY <1>1, <3>1, <3>3, AgeEffect DEF Lead
  <2>7. CASE RouteTick
    <3>1. /\ Tick /\ UNCHANGED <<status, stage, reply>>
          /\ elapsed' = [s \in Exchange |-> IF s \in Open THEN elapsed[s] + 1 ELSE elapsed[s]]
      BY <2>7 DEF RouteTick, Tick
    <3>2. r \in InHandler /\ r \in Open
      BY <1>1, <1>2, <3>1 DEF InHandler, Open
    <3>3. r \in PromisePending /\ r \in PromisePending'
      BY <1>3, <3>1, <3>2 DEF PromisePending, Queued, Running
    <3>4. age'[r] = age[r] + 1 /\ elapsed'[r] = elapsed[r] + 1
      BY <1>1, <3>1, <3>2, <3>3, AgeEffect
    <3> QED
      BY <1>1, <3>3, <3>4 DEF Lead
  <2> QED
    BY <1>5, <2>1, <2>2, <2>3, <2>5, <2>6, <2>7 DEF ServerStep
<1>6. ASSUME UNCHANGED <<vars, reply, elapsed>>,
             r \in InHandler
      PROVE  r \in PromisePending' /\ Lead(r)' = Lead(r)
  BY <1>3, <1>6 DEF vars, PromisePending, Queued, Running, Lead
<1>7. ASSUME NEW c \in Call, Send(c) \/ Retry(c) \/ Return(c) \/ GiveUp(c)
      PROVE  UNCHANGED <<vars, reply, elapsed>> /\ r \in InHandler
  <2>1. UNCHANGED <<vars, reply, elapsed>>
    BY <1>7 DEF Send, Route, Retry, Return, GiveUp, routeVars
  <2>2. stage[r] = "handled"
    BY <1>1, <1>7 DEF Send, Route, Retry, Return, GiveUp, routeVars
  <2> QED
    BY <1>1, <1>2, <2>1, <2>2 DEF InHandler, Open
<1>8. ASSUME UNCHANGED allVars
      PROVE  UNCHANGED <<vars, reply, elapsed>> /\ r \in InHandler
  BY <1>1, <1>8 DEF allVars, routeVars, InHandler, Open
<1> QED
  BY <1>5, <1>6, <1>7, <1>8 DEF CallNext, ClientStep

LEMMA NoReplyOwedHolds == CallSpec => []NoReplyOwed
<1>1. CallInit => NoReplyOwed
  BY DEF CallInit, RouteInit, NoReplyOwed, InHandler, Open
<1>2. RouteInv /\ NoReplyOwed /\ [CallNext]_allVars => NoReplyOwed'
  BY HandlerStep DEF NoReplyOwed
<1> QED
  BY <1>1, <1>2, RouteInvHolds, PTL DEF CallSpec

\* No reply is lost: an exchange whose handler has run is answered, or the promise of
\* its schedule() is still to settle, in whatever order the two timeouts, disconnects
\* and completions come.
THEOREM EveryHandledIsOwedOrAnswered ==
    CallSpec => [](\A r \in Exchange :
                      stage[r] = "handled" /\ reply[r] = "none"
                          => status[r] \in {"queued", "running"})
<1> DEFINE Owed == \A r \in Exchange :
                      stage[r] = "handled" /\ reply[r] = "none"
                          => status[r] \in {"queued", "running"}
<1>1. NoReplyOwed => Owed
  BY DEF NoReplyOwed, InHandler, Open, PromisePending, Queued, Running
<1> HIDE DEF Owed
<1>2. CallSpec => []Owed
  BY <1>1, NoReplyOwedHolds, PTL
<1> QED
  BY <1>2 DEF Owed

\* The 503 without Retry-After, which clients do not retry, is for exchanges that came
\* late to the scheduler: the handler had not started, or all the time the timeout
\* budget keeps for what is not the job had gone before it did, and what goes before
\* it stays the same from then on.
THEOREM BackstopIsForLateStarts ==
    ASSUME \A d \in ClockSteps : 0 <= d
    PROVE  CallSpec =>
             [][\A r \in Exchange :
                   /\ HandlerTimesOut(r) =>
                         \/ stage[r] = "routed"
                         \/ Lead(r) >= HandlerTimeout - (MaxJobDuration + TimerLag)
                   /\ r \in InHandler /\ r \in InHandler' => Lead(r)' = Lead(r)]_allVars
<1> DEFINE Step == \A r \in Exchange :
                   /\ HandlerTimesOut(r) =>
                         \/ stage[r] = "routed"
                         \/ Lead(r) >= HandlerTimeout - (MaxJobDuration + TimerLag)
                   /\ r \in InHandler /\ r \in InHandler' => Lead(r)' = Lead(r)
<1>1. CallSpec => []JobTotalBounded
  BY TotalBounded, ComposedImplementsScheduler, PTL
<1>2. RouteInv /\ NoReplyOwed /\ JobTotalBounded /\ [CallNext]_allVars => Step
  <2> SUFFICES ASSUME RouteInv, NoReplyOwed, JobTotalBounded, [CallNext]_allVars,
                      NEW r \in Exchange
               PROVE  /\ HandlerTimesOut(r) =>
                            \/ stage[r] = "routed"
                            \/ Lead(r) >= HandlerTimeout - (MaxJobDuration + TimerLag)
                      /\ r \in InHandler /\ r \in InHandler' => Lead(r)' = Lead(r)
    OBVIOUS
  <2>1. ASSUME HandlerTimesOut(r), stage[r] # "routed"
        PROVE  Lead(r) >= HandlerTimeout - (MaxJobDuration + TimerLag)
    <3>1. r \in Open /\ elapsed[r] >= HandlerTimeout /\ stage[r] = "handled"
      BY <2>1 DEF HandlerTimesOut, Open, RouteInv, CallTypeOK, RouteTypeOK
    <3>2. r \in PromisePending
      BY <3>1 DEF NoReplyOwed, InHandler
    <3>3. age[r] <= MaxJobDuration + TimerLag
      BY <3>2 DEF JobTotalBounded, PromisePending
    <3>4. age[r] \in Nat /\ elapsed[r] \in Nat
      BY DEF RouteInv, CallTypeOK, RouteTypeOK, TypeOK, Exchange
    <3> QED
      BY <3>1, <3>3, <3>4, SchedulerLimits DEF Lead
  <2> QED
    BY <2>1, HandlerStep
<1> HIDE DEF Step
<1>3. CallSpec => [][Step]_allVars
  BY <1>1, <1>2, RouteInvHolds, NoReplyOwedHolds, PTL DEF CallSpec
<1> QED
  BY <1>3 DEF Step
=============================================================================

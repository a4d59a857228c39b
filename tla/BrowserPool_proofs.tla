-------------------------- MODULE BrowserPool_proofs --------------------------
(***************************************************************************)
(* Proofs about BrowserPool for every number of users, attempts and pages: *)
(* the reference count is exact, one Chromium at most is open, no waiting  *)
(* user is lost, and a retry never gets the browser that failed.           *)
(***************************************************************************)
EXTENDS BrowserPool, FiniteSetTheorems, SequenceTheorems, TLAPS

-----------------------------------------------------------------------------
(* Queues of users: no user is in one twice.                                 *)

NoDuplicates(s) == \A i, j \in 1..Len(s) : s[i] = s[j] => i = j

\* A queue in which the members of F come before all others.
FirstIn(s, F) == \A i, j \in 1..Len(s) : i < j /\ s[j] \in F => s[i] \in F

\* What a queue holds, by its positions.
LEMMA Entries ==
    ASSUME NEW S, NEW s \in Seq(S)
    PROVE  /\ Len(s) \in Nat
           /\ \A i \in 1..Len(s) : s[i] \in S
           /\ \A x : x \in ToSet(s) <=> \E i \in 1..Len(s) : s[i] = x
           /\ s = <<>> <=> Len(s) = 0
           /\ ToSet(s) = {} <=> s = <<>>
<1>1. /\ Len(s) \in Nat
      /\ DOMAIN s = 1..Len(s)
      /\ \A i \in 1..Len(s) : s[i] \in S
  BY LenProperties, ElementOfSeq
<1>2. \A x : x \in ToSet(s) <=> \E i \in 1..Len(s) : s[i] = x
  BY <1>1 DEF ToSet
<1>3. s = <<>> <=> Len(s) = 0
  BY EmptySeq
<1>4. ToSet(s) = {} <=> s = <<>>
  <2>1. ASSUME s # <<>> PROVE ToSet(s) # {}
    <3>1. 1 \in 1..Len(s)
      BY <1>1, <1>3, <2>1
    <3> QED
      BY <1>2, <3>1
  <2>2. ASSUME s = <<>> PROVE ToSet(s) = {}
    BY <1>1, <1>2, <1>3, <2>2
  <2> QED
    BY <2>1, <2>2
<1> QED
  BY <1>1, <1>2, <1>3, <1>4

\* Taking the head of a queue.
LEMMA TailLeaves ==
    ASSUME NEW S, NEW s \in Seq(S), s # <<>>, NoDuplicates(s)
    PROVE  /\ Tail(s) \in Seq(S)
           /\ NoDuplicates(Tail(s))
           /\ Head(s) \in ToSet(s)
           /\ ToSet(Tail(s)) = ToSet(s) \ {Head(s)}
           /\ \A F : FirstIn(s, F) =>
                  /\ FirstIn(Tail(s), F \ {Head(s)})
                  /\ Head(s) \in F \/ ToSet(s) \cap F = {}
<1> DEFINE t == Tail(s)
<1>1. /\ t \in Seq(S)
      /\ Len(t) = Len(s) - 1
      /\ \A i \in 1..Len(t) : t[i] = s[i + 1]
  BY HeadTailProperties
<1>3. Head(s) = s[1]
  OBVIOUS
<1> HIDE DEF t
<1>2. /\ Len(s) \in Nat \ {0}
      /\ \A x : x \in ToSet(s) <=> \E i \in 1..Len(s) : s[i] = x
      /\ \A x : x \in ToSet(t) <=> \E i \in 1..Len(t) : t[i] = x
  <2>1. Len(s) \in Nat \ {0}
    BY Entries
  <2>2. \A x : x \in ToSet(s) <=> \E i \in 1..Len(s) : s[i] = x
    BY Entries
  <2>3. \A x : x \in ToSet(t) <=> \E i \in 1..Len(t) : t[i] = x
    BY <1>1, Entries
  <2> QED
    BY <2>1, <2>2, <2>3
<1>4. NoDuplicates(t)
  BY <1>1, <1>2 DEF NoDuplicates
<1>5. Head(s) \in ToSet(s)
  BY <1>2, <1>3
<1>6. ToSet(t) = ToSet(s) \ {Head(s)}
  <2>1. ASSUME NEW x \in ToSet(t) PROVE x \in ToSet(s) /\ x # s[1]
    <3>1. PICK i \in 1..Len(t) : t[i] = x
      BY <1>2
    <3>2. i + 1 \in 1..Len(s) /\ i + 1 # 1 /\ 1 \in 1..Len(s) /\ s[i + 1] = x
      BY <1>1, <1>2, <3>1
    <3> QED
      BY <1>2, <3>2 DEF NoDuplicates
  <2>2. ASSUME NEW x \in ToSet(s), x # s[1] PROVE x \in ToSet(t)
    <3>1. PICK i \in 1..Len(s) : s[i] = x
      BY <1>2
    <3>2. i - 1 \in 1..Len(t) /\ t[i - 1] = x
      BY <1>1, <1>2, <2>2, <3>1
    <3> QED
      BY <1>2, <3>2
  <2> QED
    BY <1>3, <2>1, <2>2
<1>7. ASSUME NEW F, FirstIn(s, F)
      PROVE  FirstIn(t, F \ {s[1]})
  <2> SUFFICES ASSUME NEW i \in 1..Len(t), NEW j \in 1..Len(t), i < j,
                      t[j] \in F, t[j] # s[1]
               PROVE  t[i] \in F /\ t[i] # s[1]
    BY DEF FirstIn
  <2>1. /\ i + 1 \in 1..Len(s) /\ j + 1 \in 1..Len(s) /\ 1 \in 1..Len(s)
        /\ i + 1 < j + 1 /\ i + 1 # 1
        /\ t[i] = s[i + 1] /\ t[j] = s[j + 1]
    BY <1>1, <1>2
  <2> QED
    BY <1>7, <2>1 DEF FirstIn, NoDuplicates
<1>8. ASSUME NEW F, FirstIn(s, F), s[1] \notin F
      PROVE  ToSet(s) \cap F = {}
  <2> SUFFICES ASSUME NEW j \in 1..Len(s), s[j] \in F
               PROVE  FALSE
    BY <1>2
  <2>1. 1 \in 1..Len(s) /\ 1 < j
    BY <1>2, <1>8
  <2> QED
    BY <1>8, <2>1 DEF FirstIn
<1> QED
  BY <1>1, <1>3, <1>4, <1>5, <1>6, <1>7, <1>8 DEF t

\* Joining a queue.
LEMMA AppendJoins ==
    ASSUME NEW S, NEW s \in Seq(S), NEW x \in S, x \notin ToSet(s), NoDuplicates(s)
    PROVE  /\ Append(s, x) \in Seq(S)
           /\ Append(s, x) # <<>>
           /\ NoDuplicates(Append(s, x))
           /\ ToSet(Append(s, x)) = ToSet(s) \cup {x}
           /\ \A F : FirstIn(s, F) /\ x \notin F => FirstIn(Append(s, x), F)
<1> DEFINE t == Append(s, x)
<1>1. /\ t \in Seq(S)
      /\ Len(t) = Len(s) + 1
      /\ \A i \in 1..Len(s) : t[i] = s[i]
      /\ t[Len(s) + 1] = x
  BY AppendProperties
<1>2. /\ Len(s) \in Nat
      /\ \A y : y \in ToSet(s) <=> \E i \in 1..Len(s) : s[i] = y
      /\ \A y : y \in ToSet(t) <=> \E i \in 1..Len(t) : t[i] = y
      /\ t = <<>> <=> Len(t) = 0
  BY <1>1, Entries
<1> HIDE DEF t
<1>3. \A i \in 1..Len(t) : i \in 1..Len(s) \/ i = Len(s) + 1
  BY <1>1, <1>2
<1>4. NoDuplicates(t)
  BY <1>1, <1>2, <1>3 DEF NoDuplicates
<1>5. ToSet(t) = ToSet(s) \cup {x}
  <2>1. ASSUME NEW y PROVE y \in ToSet(t) <=> y \in ToSet(s) \/ y = x
    <3>1. \A i \in 1..Len(s) : i \in 1..Len(t)
      BY <1>1, <1>2
    <3>2. Len(s) + 1 \in 1..Len(t)
      BY <1>1, <1>2
    <3> QED
      BY <1>1, <1>2, <1>3, <3>1, <3>2
  <2> QED
    BY <2>1
<1>6. ASSUME NEW F, FirstIn(s, F), x \notin F
      PROVE  FirstIn(t, F)
  <2> SUFFICES ASSUME NEW i \in 1..Len(t), NEW j \in 1..Len(t), i < j, t[j] \in F
               PROVE  t[i] \in F
    BY DEF FirstIn
  <2>1. j \in 1..Len(s)
    BY <1>1, <1>3, <1>6
  <2>2. i \in 1..Len(s)
    BY <1>1, <1>2, <2>1
  <2> QED
    BY <1>1, <1>6, <2>1, <2>2 DEF FirstIn
<1>7. t # <<>>
  BY <1>1, <1>2
<1> QED
  BY <1>1, <1>4, <1>5, <1>6, <1>7 DEF t

\* What is left without position i.
LEMMA RemoveAtEntries ==
    ASSUME NEW S, NEW q \in Seq(S), NEW i \in 1..Len(q)
    PROVE  /\ RemoveAt(q, i) \in Seq(S)
           /\ Len(RemoveAt(q, i)) = Len(q) - 1
           /\ \A j \in 1..(Len(q) - 1) :
                  RemoveAt(q, i)[j] = IF j < i THEN q[j] ELSE q[j + 1]
<1> DEFINE a == SubSeq(q, 1, i - 1)
           b == SubSeq(q, i + 1, Len(q))
<1>1. Len(q) \in Nat /\ \A j \in 1..Len(q) : q[j] \in S
  BY LenProperties, ElementOfSeq
<1>2. /\ a \in Seq(S)
      /\ Len(a) = i - 1
      /\ \A j \in 1..(i - 1) : a[j] = q[j]
  <2>1. \A j \in 1..(i - 1) : q[j] \in S
    BY <1>1
  <2> QED
    BY <1>1, <2>1, SubSeqProperties
<1>3. /\ b \in Seq(S)
      /\ Len(b) = Len(q) - i
      /\ \A j \in 1..(Len(q) - i) : b[j] = q[j + i]
  <2>1. \A j \in (i + 1)..Len(q) : q[j] \in S
    BY <1>1
  <2>2. /\ b \in Seq(S)
        /\ Len(b) = IF i + 1 <= Len(q) THEN Len(q) - (i + 1) + 1 ELSE 0
        /\ \A j \in 1..(Len(q) - (i + 1) + 1) : b[j] = q[(i + 1) + j - 1]
    BY <1>1, <2>1, SubSeqProperties
  <2> QED
    BY <1>1, <2>2
<1>4. RemoveAt(q, i) = a \o b
  BY DEF RemoveAt
<1>5. /\ a \o b \in Seq(S)
      /\ Len(a \o b) = Len(a) + Len(b)
      /\ \A j \in 1..(Len(a) + Len(b)) :
             (a \o b)[j] = IF j <= Len(a) THEN a[j] ELSE b[j - Len(a)]
  BY <1>2, <1>3, ConcatProperties
<1> HIDE DEF a, b
<1> QED
  BY <1>1, <1>2, <1>3, <1>4, <1>5

\* Leaving a queue out of turn.
LEMMA UndecidedLeave ==
    ASSUME NEW s \in Seq(User), NEW u \in User, NoDuplicates(s)
    PROVE  /\ Undecided(s, u) \in Seq(User)
           /\ NoDuplicates(Undecided(s, u))
           /\ ToSet(Undecided(s, u)) = ToSet(s) \ {u}
<1>1. /\ Len(s) \in Nat
      /\ DOMAIN s = 1..Len(s)
      /\ \A i \in 1..Len(s) : s[i] \in User
      /\ \A x : x \in ToSet(s) <=> \E i \in 1..Len(s) : s[i] = x
  BY Entries, LenProperties
<1>2. CASE u \notin ToSet(s)
  BY <1>2 DEF Undecided
<1>3. CASE u \in ToSet(s)
  <2> DEFINE n == CHOOSE i \in DOMAIN s : s[i] = u
             t == RemoveAt(s, n)
  <2>1. n \in 1..Len(s) /\ s[n] = u
    BY <1>1, <1>3
  <2>2. Undecided(s, u) = t
    BY <1>3 DEF Undecided
  <2> HIDE DEF n
  <2>5. /\ t \in Seq(User)
        /\ Len(t) = Len(s) - 1
        /\ \A j \in 1..(Len(s) - 1) : t[j] = IF j < n THEN s[j] ELSE s[j + 1]
    BY <2>1, RemoveAtEntries
  <2>6. /\ Len(t) = Len(s) - 1
        /\ \A j \in 1..(Len(s) - 1) : t[j] = IF j < n THEN s[j] ELSE s[j + 1]
    BY <2>5
  <2>7. \A x : x \in ToSet(t) <=> \E i \in 1..Len(t) : t[i] = x
    BY <2>5, Entries
  <2> HIDE DEF t
  <2>8. NoDuplicates(t)
    BY <1>1, <2>1, <2>6 DEF NoDuplicates
  <2>9. ASSUME NEW x \in ToSet(t) PROVE x \in ToSet(s) /\ x # u
    <3>1. PICK i \in 1..Len(t) : t[i] = x
      BY <2>7
    <3>2. PICK j \in 1..Len(s) : j # n /\ s[j] = x
      BY <1>1, <2>1, <2>6, <3>1
    <3> QED
      BY <1>1, <2>1, <3>2 DEF NoDuplicates
  <2>10. ASSUME NEW x \in ToSet(s), x # u PROVE x \in ToSet(t)
    <3>1. PICK j \in 1..Len(s) : s[j] = x
      BY <1>1
    <3>2. CASE j < n
      <4>1. j \in 1..Len(t) /\ t[j] = x
        BY <1>1, <2>1, <2>6, <3>1, <3>2
      <4> QED
        BY <2>7, <4>1
    <3>3. CASE j > n
      <4>1. j - 1 \in 1..Len(t) /\ t[j - 1] = x
        BY <1>1, <2>1, <2>6, <3>1, <3>3
      <4> QED
        BY <2>7, <4>1
    <3> QED
      BY <1>1, <2>1, <2>10, <3>1, <3>2, <3>3
  <2> QED
    BY <2>2, <2>5, <2>8, <2>9, <2>10 DEF t
<1> QED
  BY <1>2, <1>3

\* A queue of one, and the empty queue.
LEMMA ShortQueues ==
    /\ NoDuplicates(<<>>) /\ ToSet(<<>>) = {} /\ \A F : FirstIn(<<>>, F)
    /\ \A u \in User :
        /\ <<u>> \in Seq(User)
        /\ NoDuplicates(<<u>>)
        /\ ToSet(<<u>>) = {u}
        /\ \A F : FirstIn(<<u>>, F)
<1>1. NoDuplicates(<<>>) /\ ToSet(<<>>) = {} /\ \A F : FirstIn(<<>>, F)
  BY DEF NoDuplicates, ToSet, FirstIn
<1>2. ASSUME NEW u \in User
      PROVE  /\ <<u>> \in Seq(User)
             /\ NoDuplicates(<<u>>)
             /\ ToSet(<<u>>) = {u}
             /\ \A F : FirstIn(<<u>>, F)
  <2>1. <<u>> \in Seq(User) /\ Len(<<u>>) = 1 /\ <<u>>[1] = u
    OBVIOUS
  <2>2. ToSet(<<u>>) = {u}
    <3>1. \A x : x \in ToSet(<<u>>) <=> \E i \in 1..Len(<<u>>) : <<u>>[i] = x
      BY <2>1, Entries
    <3> QED
      BY <2>1, <3>1
  <2>3. NoDuplicates(<<u>>) /\ \A F : FirstIn(<<u>>, F)
    BY <2>1 DEF NoDuplicates, FirstIn
  <2> QED
    BY <2>1, <2>2, <2>3
<1> QED
  BY <1>1, <1>2

-----------------------------------------------------------------------------
(* The inductive invariant.  What the pool does next depends on the order of *)
(* the microtasks: after a launch everyone who waited for it runs before     *)
(* anyone else, so that nobody recycles the browser under them or launches a *)
(* second one.                                                               *)

JustLaunched == {u \in User : pc[u] = "launched"}

\* The users whose launch failed; none of them has an open page.
LaunchFailed == {u \in User : pc[u] = "failed" /\ error[u] = "error" /\ holds[u] = 0}

Using == {"acquired", "rendering", "succeeded"}

QueuesExact ==
    /\ NoDuplicates(microtasks)
    /\ NoDuplicates(closeWaiters)
    /\ NoDuplicates(launchWaiters)
    /\ ToSet(microtasks) = {u \in User : pc[u] \in Ready}
    /\ ToSet(closeWaiters) = {u \in User : pc[u] = "closing"}
    /\ ToSet(launchWaiters) = {u \in User : pc[u] = "launching"}

WokenFirst ==
    /\ FirstIn(microtasks, JustLaunched)
    /\ FirstIn(microtasks, LaunchFailed)

\* The promises and the page count say which Chromium processes there are.
PoolConsistent ==
    /\ closePromise = "pending" <=> closing # 0
    /\ initPromise = "pending" <=> launches # 0
    /\ initPromise = "fulfilled" <=> browser # 0
    /\ launches <= 1
    /\ closing # 0 => browser = 0 /\ launches = 0
    /\ pageCount <= MaxPages
    /\ browser = 0 => pageCount = 0

\* What a user awaits is under way, and what woke it still holds when it runs.
WaitersConsistent ==
    \A u \in User :
        /\ pc[u] = "closing" => closing # 0
        /\ pc[u] = "launching" => launches # 0
        /\ pc[u] = "launched" => browser # 0
        /\ pc[u] = "closed" =>
               \/ closePromise = "settled"
               \/ closePromise = "null" /\ browser = 0
        /\ u \in LaunchFailed =>
               /\ launches = 0
               /\ closePromise = "settled" \/ (closePromise = "null" /\ browser = 0)

HoldersConsistent ==
    \A u \in User :
        /\ pc[u] \in Using => holds[u] # 0
        /\ holds[u] # 0 => pc[u] \in Using \cup {"failed"} /\ holds[u] = browser
        /\ pc[u] = "failed" => error[u] # "none"

\* A browser due for recycling waits for the users it still has.
Counted ==
    /\ IsFiniteSet(Holders)
    /\ activeUsers = Cardinality(Holders)
    /\ activeUsers <= pageCount
    /\ closePromise = "null" /\ MustRecycle => activeUsers > 0

\* A browser that a user will not try again is condemned.
FailuresRemembered ==
    /\ browser <= launched
    /\ \A u \in User :
        /\ failedOn[u] <= launched
        /\ pc[u] \notin Over /\ browser # 0 /\ failedOn[u] = browser =>
               recycleRequested /\ holds[u] = 0

Inv ==
    /\ TypeOK
    /\ QueuesExact
    /\ WokenFirst
    /\ PoolConsistent
    /\ WaitersConsistent
    /\ HoldersConsistent
    /\ Counted
    /\ FailuresRemembered

\* The pool starts empty.
LEMMA InitInv == Init => Inv
<1> SUFFICES ASSUME Init PROVE Inv
  OBVIOUS
<1>1. TypeOK
  <2>1. expired \in [User -> BOOLEAN] /\ recycleRequested \in BOOLEAN
    BY DEF Init
  <2>2. <<>> \in Seq(User)
    OBVIOUS
  <2>3. attempt \in [User -> 1..MaxAttempts]
    BY PoolLimits DEF Init
  <2> QED
    BY <2>1, <2>2, <2>3 DEF Init, TypeOK
<1>2. QueuesExact /\ WokenFirst
  BY ShortQueues DEF Init, QueuesExact, WokenFirst, Ready
<1>3. PoolConsistent
  BY PoolLimits DEF Init, PoolConsistent
<1>4. WaitersConsistent /\ HoldersConsistent /\ FailuresRemembered
  BY DEF Init, WaitersConsistent, HoldersConsistent, FailuresRemembered, LaunchFailed, Using
<1>5. Counted
  <2>1. Holders = {}
    BY DEF Init, Holders
  <2> QED
    BY <2>1, FS_EmptySet, PoolLimits DEF Init, Counted, MustRecycle, PageCapReached
<1> QED
  BY <1>1, <1>2, <1>3, <1>4, <1>5 DEF Inv

-----------------------------------------------------------------------------
(* Microtasks: the head of the queue runs and queues itself elsewhere.       *)

\* Where u goes on: later in the same queue, with one of the promises, or with
\* a timer or a render of its own.
Moves(u, label) ==
    /\ pc' = [pc EXCEPT ![u] = label]
    /\ microtasks' = IF label \in Ready THEN Append(Tail(microtasks), u) ELSE Tail(microtasks)
    /\ closeWaiters' = IF label = "closing" THEN Append(closeWaiters, u) ELSE closeWaiters
    /\ launchWaiters' = IF label = "launching" THEN Append(launchWaiters, u) ELSE launchWaiters

Labels == {"idle", "sleeping"} \cup Awaiting \cup Ready \cup Over

\* u fails for want of time, or keeps its error.
ErrorOf(u, label) ==
    \/ label = "failed" /\ error' = [error EXCEPT ![u] = "deadline"]
    \/ label # "failed" /\ error' = error
    \/ label # "failed" /\ error' = [error EXCEPT ![u] = "none"]

\* u's own microtask disturbs no other user's place.
LEMMA MoveKeepsQueues ==
    ASSUME Inv, NEW u \in User, IsHead(u),
           NEW label \in Labels \ {"launched"}, Moves(u, label), ErrorOf(u, label),
           \A v \in User : v # u => holds'[v] = holds[v]
    PROVE  /\ microtasks' \in Seq(User)
           /\ closeWaiters' \in Seq(User)
           /\ launchWaiters' \in Seq(User)
           /\ pc' \in [User -> Labels]
           /\ error' \in [User -> {"none", "error", "deadline"}]
           /\ QueuesExact'
           /\ WokenFirst'
           /\ LaunchFailed' = LaunchFailed \ {u}
           /\ pc'[u] = label
           /\ label = "failed" => error'[u] = "deadline"
           /\ \A v \in User : v # u => pc'[v] = pc[v] /\ error'[v] = error[v]
<1> DEFINE t == Tail(microtasks)
<1>1. /\ microtasks \in Seq(User) /\ closeWaiters \in Seq(User) /\ launchWaiters \in Seq(User)
      /\ pc \in [User -> Labels]
      /\ error \in [User -> {"none", "error", "deadline"}]
  BY DEF Inv, TypeOK, Labels
<1>2. /\ microtasks # <<>> /\ Head(microtasks) = u
      /\ NoDuplicates(microtasks) /\ NoDuplicates(closeWaiters) /\ NoDuplicates(launchWaiters)
      /\ ToSet(microtasks) = {v \in User : pc[v] \in Ready}
      /\ ToSet(closeWaiters) = {v \in User : pc[v] = "closing"}
      /\ ToSet(launchWaiters) = {v \in User : pc[v] = "launching"}
  BY DEF Inv, QueuesExact, IsHead
<1>3. /\ t \in Seq(User) /\ NoDuplicates(t)
      /\ ToSet(t) = ToSet(microtasks) \ {u}
      /\ pc[u] \in Ready
      /\ FirstIn(t, JustLaunched \ {u})
      /\ FirstIn(t, LaunchFailed \ {u})
  BY <1>1, <1>2, TailLeaves DEF Inv, WokenFirst
<1> HIDE DEF t
<1>4. pc' \in [User -> Labels] /\ pc'[u] = label /\ \A v \in User : v # u => pc'[v] = pc[v]
  BY <1>1 DEF Moves
<1>5. /\ error' \in [User -> {"none", "error", "deadline"}]
      /\ \A v \in User : v # u => error'[v] = error[v]
      /\ label = "failed" => error'[u] = "deadline"
  BY <1>1 DEF ErrorOf
<1>6. JustLaunched' = JustLaunched \ {u}
  BY <1>4 DEF JustLaunched
<1>7. LaunchFailed' = LaunchFailed \ {u}
  BY <1>4, <1>5 DEF LaunchFailed
<1>8. /\ microtasks' \in Seq(User)
      /\ NoDuplicates(microtasks')
      /\ ToSet(microtasks') = {v \in User : pc'[v] \in Ready}
      /\ FirstIn(microtasks', JustLaunched')
      /\ FirstIn(microtasks', LaunchFailed')
  <2>1. CASE label \in Ready
    <3>1. microtasks' = Append(t, u)
      BY <2>1 DEF Moves, t
    <3>2. u \notin ToSet(t)
      BY <1>3
    <3>3. /\ Append(t, u) \in Seq(User)
          /\ NoDuplicates(Append(t, u))
          /\ ToSet(Append(t, u)) = ToSet(t) \cup {u}
          /\ FirstIn(Append(t, u), JustLaunched \ {u})
          /\ FirstIn(Append(t, u), LaunchFailed \ {u})
      BY <1>3, <3>2, AppendJoins
    <3>4. ToSet(t) \cup {u} = {v \in User : pc'[v] \in Ready}
      BY <1>2, <1>3, <1>4, <2>1
    <3> QED
      BY <1>6, <1>7, <3>1, <3>3, <3>4
  <2>2. CASE label \notin Ready
    <3>1. microtasks' = t
      BY <2>2 DEF Moves, t
    <3>2. ToSet(t) = {v \in User : pc'[v] \in Ready}
      BY <1>2, <1>3, <1>4, <2>2
    <3> QED
      BY <1>3, <1>6, <1>7, <3>1, <3>2
  <2> QED
    BY <2>1, <2>2
<1>9. /\ closeWaiters' \in Seq(User)
      /\ NoDuplicates(closeWaiters')
      /\ ToSet(closeWaiters') = {v \in User : pc'[v] = "closing"}
  <2>1. u \notin ToSet(closeWaiters)
    BY <1>2, <1>3 DEF Ready
  <2>2. CASE label = "closing"
    <3>1. closeWaiters' = Append(closeWaiters, u)
      BY <2>2 DEF Moves
    <3> QED
      BY <1>1, <1>2, <1>4, <2>1, <2>2, <3>1, AppendJoins
  <2>3. CASE label # "closing"
    BY <1>1, <1>2, <1>4, <2>1, <2>3 DEF Moves
  <2> QED
    BY <2>2, <2>3
<1>10. /\ launchWaiters' \in Seq(User)
       /\ NoDuplicates(launchWaiters')
       /\ ToSet(launchWaiters') = {v \in User : pc'[v] = "launching"}
  <2>1. u \notin ToSet(launchWaiters)
    BY <1>2, <1>3 DEF Ready
  <2>2. CASE label = "launching"
    <3>1. launchWaiters' = Append(launchWaiters, u)
      BY <2>2 DEF Moves
    <3> QED
      BY <1>1, <1>2, <1>4, <2>1, <2>2, <3>1, AppendJoins
  <2>3. CASE label # "launching"
    BY <1>1, <1>2, <1>4, <2>1, <2>3 DEF Moves
  <2> QED
    BY <2>2, <2>3
<1> QED
  BY <1>4, <1>5, <1>7, <1>8, <1>9, <1>10 DEF QueuesExact, WokenFirst

\* A user that was not woken by a launch runs when nobody so woken is left.
LEMMA HeadRuns ==
    ASSUME Inv, NEW u \in User, IsHead(u)
    PROVE  /\ pc[u] \in Ready
           /\ u \notin JustLaunched => JustLaunched = {}
           /\ u \notin LaunchFailed => LaunchFailed = {}
<1>1. /\ microtasks \in Seq(User) /\ microtasks # <<>> /\ Head(microtasks) = u
      /\ NoDuplicates(microtasks)
      /\ ToSet(microtasks) = {v \in User : pc[v] \in Ready}
      /\ FirstIn(microtasks, JustLaunched)
      /\ FirstIn(microtasks, LaunchFailed)
  BY DEF Inv, TypeOK, QueuesExact, WokenFirst, IsHead
<1>2. /\ u \in ToSet(microtasks)
      /\ u \in JustLaunched \/ ToSet(microtasks) \cap JustLaunched = {}
      /\ u \in LaunchFailed \/ ToSet(microtasks) \cap LaunchFailed = {}
  BY <1>1, TailLeaves
<1>3. JustLaunched \subseteq ToSet(microtasks) /\ LaunchFailed \subseteq ToSet(microtasks)
  BY <1>1 DEF JustLaunched, LaunchFailed, Ready
<1> QED
  BY <1>1, <1>2, <1>3

-----------------------------------------------------------------------------
(* What acquire() does between two awaits: wait, start a launch, or get the  *)
(* browser.  It never recycles one itself: a browser that is due has users,  *)
(* and the last of them to leave recycles it.                                *)

\* u waits, tries again or gives up; the most that happens is that a recycle is
\* requested of a browser that is due for one.
Waits(u) ==
    /\ UNCHANGED <<browser, closePromise, initPromise, pageCount, closing, activeUsers,
                   launched, launches, holds>>
    /\ recycleRequested' \in BOOLEAN
    /\ recycleRequested => recycleRequested'
    /\ recycleRequested' => MustRecycle
    /\ \E label \in {"failed", "closing", "closed", "sleeping"} :
        /\ Moves(u, label)
        /\ ErrorOf(u, label)
        /\ label = "closing" => closePromise = "pending"
        /\ label = "closed" => closePromise = "settled"

StartsLaunch(u) ==
    /\ browser = 0
    /\ closePromise # "pending"
    /\ initPromise' = "pending"
    /\ launches' = 1
    /\ UNCHANGED <<browser, closePromise, closing, pageCount, recycleRequested, activeUsers,
                   launched, holds>>
    /\ \E label \in {"failed", "launching"} : Moves(u, label) /\ ErrorOf(u, label)

Gets(u) ==
    /\ browser # 0
    /\ ~MustRecycle
    /\ activeUsers' = activeUsers + 1
    /\ pageCount' = pageCount + 1
    /\ holds' = [holds EXCEPT ![u] = browser]
    /\ UNCHANGED <<browser, closePromise, initPromise, recycleRequested, closing, launched,
                   launches>>
    /\ Moves(u, "acquired")
    /\ ErrorOf(u, "acquired")

\* The moves of the handlers' pieces.
LEMMA PiecesMove ==
    ASSUME NEW u \in User
    PROVE  /\ Throw(u, "deadline") => Moves(u, "failed") /\ ErrorOf(u, "failed")
           /\ \A p : LoopAgain(u, p) =>
                  \E label \in {"failed", "closing", "closed"} :
                      /\ Moves(u, label) /\ ErrorOf(u, label)
                      /\ label = "closing" => p = "pending"
                      /\ label = "closed" => p = "settled"
           /\ AfterRecycleCheck(u) => Moves(u, "sleeping") /\ ErrorOf(u, "sleeping")
<1>1. Throw(u, "deadline") => Moves(u, "failed") /\ ErrorOf(u, "failed")
  BY DEF Throw, Continue, Moves, ErrorOf, Ready
<1>2. AfterRecycleCheck(u) => Moves(u, "sleeping") /\ ErrorOf(u, "sleeping")
  BY DEF AfterRecycleCheck, Suspend, Moves, ErrorOf, Ready
<1>3. ASSUME NEW p, AwaitClose(u, p)
      PROVE  \/ p = "pending" /\ Moves(u, "closing") /\ ErrorOf(u, "closing")
             \/ p = "settled" /\ Moves(u, "closed") /\ ErrorOf(u, "closed")
  BY <1>3 DEF AwaitClose, Suspend, Continue, Moves, ErrorOf, Ready
<1> QED
  BY <1>1, <1>2, <1>3 DEF LoopAgain

LEMMA TryAcquireEffect ==
    ASSUME Inv, NEW u \in User, browser # 0, TryAcquire(u)
    PROVE  Waits(u) \/ Gets(u)
<1>1. CASE ~MustRecycle /\ expired[u]
  <2>1. Throw(u, "deadline")
    BY <1>1 DEF TryAcquire
  <2>2. UNCHANGED <<poolVars, activeUsers, launchVars, holds>>
    BY <1>1 DEF TryAcquire
  <2>3. recycleRequested' \in BOOLEAN /\ (recycleRequested' <=> recycleRequested)
    BY <2>2 DEF poolVars, Inv, TypeOK
  <2> QED
    BY <2>1, <2>2, <2>3, PiecesMove DEF Waits, poolVars, launchVars, MustRecycle
<1>2. CASE ~MustRecycle /\ ~expired[u]
  BY <1>2 DEF TryAcquire, Gets, launchVars, Continue, Moves, ErrorOf, Ready
<1>3. CASE MustRecycle
  <2>1. /\ RecycleIfIdle(activeUsers, TRUE)
        /\ UNCHANGED <<activeUsers, launchVars, holds>>
        /\ \/ closePromise' # "null" /\ LoopAgain(u, closePromise')
           \/ closePromise' = "null" /\ AfterRecycleCheck(u)
    BY <1>3 DEF TryAcquire
  <2>2. ~CanRecycle(activeUsers, TRUE)
    BY <1>3 DEF Inv, Counted, CanRecycle, Idle
  <2>3. /\ recycleRequested' = TRUE
        /\ UNCHANGED <<browser, closePromise, initPromise, pageCount, closing>>
    BY <2>1, <2>2 DEF RecycleIfIdle
  <2> QED
    BY <1>3, <2>1, <2>3, PiecesMove DEF Waits, launchVars
<1> QED
  BY <1>1, <1>2, <1>3

LEMMA AwaitLaunchEffect ==
    ASSUME Inv, NEW u \in User, browser = 0, closePromise # "pending", AwaitLaunch(u)
    PROVE  StartsLaunch(u)
<1>1. initPromise' = "pending" /\ launches' = 1
  BY DEF AwaitLaunch, Inv, PoolConsistent, TypeOK
<1>2. \E label \in {"failed", "launching"} : Moves(u, label) /\ ErrorOf(u, label)
  BY PiecesMove DEF AwaitLaunch, Suspend, Moves, ErrorOf, Ready
<1> QED
  BY <1>1, <1>2 DEF AwaitLaunch, StartsLaunch

LEMMA AcquireEffect ==
    ASSUME Inv, NEW u \in User, Loop(u) \/ Closed(u) \/ Launched(u)
    PROVE  /\ IsHead(u)
           /\ pc[u] \in {"loop", "closed", "launched"}
           /\ UNCHANGED <<attempt, expired, failedOn>>
           /\ Waits(u) \/ StartsLaunch(u) \/ Gets(u)
<1>1. /\ IsHead(u)
      /\ pc[u] \in {"loop", "closed", "launched"}
      /\ UNCHANGED <<attempt, expired, failedOn>>
  BY DEF Loop, Closed, Launched
<1>2. ASSUME AfterClose(u), closePromise # "pending" \/ browser # 0
      PROVE  Waits(u) \/ StartsLaunch(u) \/ Gets(u)
  BY <1>2, AwaitLaunchEffect, TryAcquireEffect DEF AfterClose
<1>3. CASE Loop(u)
  <2>1. CASE expired[u] \/ closePromise # "null"
    <3>1. LoopAgain(u, closePromise) /\ UNCHANGED <<poolVars, activeUsers, launchVars, holds>>
      BY <1>3, <2>1 DEF Loop
    <3>2. recycleRequested' \in BOOLEAN /\ (recycleRequested' <=> recycleRequested)
      BY <3>1 DEF poolVars, Inv, TypeOK
    <3>3. /\ UNCHANGED <<browser, closePromise, initPromise, pageCount, closing, activeUsers,
                         launched, launches, holds>>
          /\ recycleRequested => recycleRequested'
      BY <3>1, <3>2 DEF poolVars, launchVars
    <3>4. recycleRequested' => MustRecycle
      BY <3>2 DEF MustRecycle
    <3>5. \E label \in {"failed", "closing", "closed", "sleeping"} :
              /\ Moves(u, label) /\ ErrorOf(u, label)
              /\ label = "closing" => closePromise = "pending"
              /\ label = "closed" => closePromise = "settled"
      BY <3>1, PiecesMove
    <3> QED
      BY <1>1, <3>2, <3>3, <3>4, <3>5 DEF Waits
  <2>2. CASE ~(expired[u] \/ closePromise # "null")
    BY <1>2, <1>3, <2>2 DEF Loop
  <2> QED
    BY <2>1, <2>2
<1>4. CASE Closed(u)
  <2>1. closePromise # "pending"
    BY <1>4 DEF Closed, Inv, WaitersConsistent
  <2> QED
    BY <1>2, <1>4, <2>1 DEF Closed
<1>5. CASE Launched(u)
  <2>1. browser # 0
    BY <1>5 DEF Launched, Inv, WaitersConsistent
  <2> QED
    BY <1>5, <2>1, TryAcquireEffect DEF Launched
<1> QED
  BY <1>1, <1>3, <1>4, <1>5

-----------------------------------------------------------------------------
(* Each effect of acquire() preserves the invariant.                         *)

LEMMA WaitsInv ==
    ASSUME Inv, NEW u \in User, IsHead(u), pc[u] \in {"loop", "closed", "launched"},
           UNCHANGED <<attempt, expired, failedOn>>, Waits(u)
    PROVE  Inv'
<1>1. PICK label \in {"failed", "closing", "closed", "sleeping"} :
          /\ Moves(u, label)
          /\ ErrorOf(u, label)
          /\ label = "closing" => closePromise = "pending"
          /\ label = "closed" => closePromise = "settled"
  BY DEF Waits
<1>2. /\ UNCHANGED <<browser, closePromise, initPromise, pageCount, closing, activeUsers,
                     launched, launches, holds>>
      /\ recycleRequested' \in BOOLEAN
      /\ recycleRequested => recycleRequested'
      /\ recycleRequested' => MustRecycle
  BY DEF Waits
<1>3. label \in Labels \ {"launched"}
  BY DEF Labels, Awaiting, Ready
<1>4. /\ microtasks' \in Seq(User) /\ closeWaiters' \in Seq(User) /\ launchWaiters' \in Seq(User)
      /\ pc' \in [User -> Labels]
      /\ error' \in [User -> {"none", "error", "deadline"}]
      /\ QueuesExact' /\ WokenFirst'
      /\ LaunchFailed' = LaunchFailed \ {u}
      /\ pc'[u] = label
      /\ label = "failed" => error'[u] = "deadline"
      /\ \A v \in User : v # u => pc'[v] = pc[v] /\ error'[v] = error[v]
  BY <1>1, <1>2, <1>3, MoveKeepsQueues
<1>5. TypeOK'
  BY <1>2, <1>4 DEF Inv, TypeOK, Labels
<1>6. PoolConsistent'
  BY <1>2 DEF Inv, PoolConsistent
<1>7. WaitersConsistent'
  BY <1>1, <1>2, <1>4 DEF Inv, WaitersConsistent, PoolConsistent
<1>8. HoldersConsistent'
  BY <1>2, <1>4 DEF Inv, HoldersConsistent, Using
<1>9. Counted'
  <2>1. Holders' = Holders
    BY <1>2 DEF Holders
  <2>2. MustRecycle' => MustRecycle
    BY <1>2 DEF MustRecycle, PageCapReached
  <2> QED
    BY <1>2, <2>1, <2>2 DEF Inv, Counted
<1>10. FailuresRemembered'
  BY <1>2, <1>4 DEF Inv, FailuresRemembered, Over
<1> QED
  BY <1>4, <1>5, <1>6, <1>7, <1>8, <1>9, <1>10 DEF Inv

LEMMA StartsLaunchInv ==
    ASSUME Inv, NEW u \in User, IsHead(u), pc[u] \in {"loop", "closed", "launched"},
           UNCHANGED <<attempt, expired, failedOn>>, StartsLaunch(u)
    PROVE  Inv'
<1>1. PICK label \in {"failed", "launching"} : Moves(u, label) /\ ErrorOf(u, label)
  BY DEF StartsLaunch
<1>2. /\ browser = 0 /\ closePromise # "pending"
      /\ initPromise' = "pending" /\ launches' = 1
      /\ UNCHANGED <<browser, closePromise, closing, pageCount, recycleRequested, activeUsers,
                     launched, holds>>
  BY DEF StartsLaunch
<1>3. label \in Labels \ {"launched"}
  BY DEF Labels, Awaiting, Ready
<1>4. /\ microtasks' \in Seq(User) /\ closeWaiters' \in Seq(User) /\ launchWaiters' \in Seq(User)
      /\ pc' \in [User -> Labels]
      /\ error' \in [User -> {"none", "error", "deadline"}]
      /\ QueuesExact' /\ WokenFirst'
      /\ LaunchFailed' = LaunchFailed \ {u}
      /\ pc'[u] = label
      /\ label = "failed" => error'[u] = "deadline"
      /\ \A v \in User : v # u => pc'[v] = pc[v] /\ error'[v] = error[v]
  BY <1>1, <1>2, <1>3, MoveKeepsQueues
<1>5. TypeOK'
  BY <1>2, <1>4 DEF Inv, TypeOK, Labels
<1>6. PoolConsistent'
  BY <1>2 DEF Inv, PoolConsistent, TypeOK
<1>7. WaitersConsistent'
  <2>1. LaunchFailed = {}
    BY HeadRuns DEF LaunchFailed
  <2> QED
    BY <1>2, <1>4, <2>1 DEF Inv, WaitersConsistent
<1>8. HoldersConsistent'
  BY <1>2, <1>4 DEF Inv, HoldersConsistent, Using
<1>9. Counted'
  BY <1>2 DEF Inv, Counted, Holders, MustRecycle, PageCapReached
<1>10. FailuresRemembered'
  BY <1>2, <1>4 DEF Inv, FailuresRemembered, Over
<1> QED
  BY <1>4, <1>5, <1>6, <1>7, <1>8, <1>9, <1>10 DEF Inv

LEMMA GetsInv ==
    ASSUME Inv, NEW u \in User, IsHead(u), pc[u] \in {"loop", "closed", "launched"},
           UNCHANGED <<attempt, expired, failedOn>>, Gets(u)
    PROVE  Inv'
<1>1. Moves(u, "acquired") /\ ErrorOf(u, "acquired")
  BY DEF Gets
<1>2. /\ browser # 0 /\ ~MustRecycle
      /\ activeUsers' = activeUsers + 1
      /\ pageCount' = pageCount + 1
      /\ holds' = [holds EXCEPT ![u] = browser]
      /\ UNCHANGED <<browser, closePromise, initPromise, recycleRequested, closing, launched,
                     launches>>
  BY DEF Gets
<1>3. "acquired" \in Labels \ {"launched"}
  BY DEF Labels, Ready
<1>4. /\ holds \in [User -> Nat] /\ holds' \in [User -> Nat]
      /\ holds'[u] = browser
      /\ \A v \in User : v # u => holds'[v] = holds[v]
  BY <1>2 DEF Inv, TypeOK
<1>5. /\ microtasks' \in Seq(User) /\ closeWaiters' \in Seq(User) /\ launchWaiters' \in Seq(User)
      /\ pc' \in [User -> Labels]
      /\ error' \in [User -> {"none", "error", "deadline"}]
      /\ QueuesExact' /\ WokenFirst'
      /\ LaunchFailed' = LaunchFailed \ {u}
      /\ pc'[u] = "acquired"
      /\ \A v \in User : v # u => pc'[v] = pc[v] /\ error'[v] = error[v]
  BY <1>1, <1>3, <1>4, MoveKeepsQueues
<1>6. TypeOK'
  BY <1>2, <1>4, <1>5 DEF Inv, TypeOK, Labels
<1>7. PoolConsistent'
  <2>1. pageCount < MaxPages
    BY <1>2, PoolLimits DEF Inv, TypeOK, MustRecycle, PageCapReached
  <2> QED
    BY <1>2, <2>1, PoolLimits DEF Inv, PoolConsistent, TypeOK
<1>8. WaitersConsistent'
  BY <1>2, <1>5 DEF Inv, WaitersConsistent
<1>9. HoldersConsistent'
  BY <1>2, <1>4, <1>5 DEF Inv, HoldersConsistent, Using
<1>10. Counted'
  <2>1. u \notin Holders
    BY DEF Inv, HoldersConsistent, Holders, Using
  <2>2. Holders' = Holders \cup {u}
    BY <1>2, <1>4 DEF Holders
  <2>3. IsFiniteSet(Holders') /\ activeUsers' = Cardinality(Holders') /\ activeUsers' > 0
    BY <1>2, <2>1, <2>2, FS_AddElement, FS_CardinalityType DEF Inv, Counted, TypeOK
  <2> QED
    BY <1>2, <2>3 DEF Inv, Counted, TypeOK
<1>11. FailuresRemembered'
  <2>1. ~recycleRequested
    BY <1>2 DEF MustRecycle
  <2> QED
    BY <1>2, <1>4, <1>5, <2>1 DEF Inv, FailuresRemembered, Over
<1> QED
  BY <1>5, <1>6, <1>7, <1>8, <1>9, <1>10, <1>11 DEF Inv

LEMMA AcquireInv ==
    ASSUME Inv, NEW u \in User, Loop(u) \/ Closed(u) \/ Launched(u)
    PROVE  Inv'
<1> QED
  BY AcquireEffect, WaitsInv, StartsLaunchInv, GetsInv

-----------------------------------------------------------------------------
(* The end of an attempt: give back, and recycle when nobody is left.        *)

\* What recycleIfIdle leaves of the pool.
LEMMA RecycleEffect ==
    ASSUME Inv, NEW users \in Nat, NEW requested \in BOOLEAN, RecycleIfIdle(users, requested),
           UNCHANGED <<launched, launches>>,
           CanRecycle(users, requested) => launches = 0
    PROVE  /\ browser' \in Nat /\ closing' \in Nat /\ pageCount' \in Nat
           /\ closePromise' \in {"null", "pending", "settled"}
           /\ initPromise' \in {"null", "pending", "fulfilled"}
           /\ recycleRequested' \in BOOLEAN
           /\ PoolConsistent'
           /\ closePromise' = "null" => users > 0 \/ ~MustRecycle'
           /\ users <= pageCount => users <= pageCount'
           /\ browser' = browser \/ (browser' = 0 /\ users = 0)
           /\ browser' # 0 /\ requested => recycleRequested'
           /\ closePromise = "settled" => closePromise' = "settled"
           /\ closePromise = "null" /\ browser = 0 =>
                  closePromise' \in {"null", "settled"} /\ browser' = 0
           /\ closing # 0 => closing' # 0
<1>1. CASE CanRecycle(users, requested)
  <2>1. /\ users = 0 /\ closePromise = "null" /\ launches = 0 /\ closing = 0
        /\ closePromise' = ClosePromiseOfRecycle
        /\ closing' = IF browser = 0 THEN closing ELSE browser
        /\ browser' = 0 /\ initPromise' = "null" /\ pageCount' = 0
        /\ recycleRequested' = (requested /\ browser # 0)
    BY <1>1 DEF RecycleIfIdle, Recycle, CanRecycle, Idle, Inv, PoolConsistent
  <2>2. recycleRequested' \in BOOLEAN
    BY <2>1
  <2>3. PoolConsistent'
    BY <2>1, PoolLimits DEF Inv, PoolConsistent, TypeOK, ClosePromiseOfRecycle
  <2>4. closePromise' # "null"
    BY <2>1 DEF ClosePromiseOfRecycle
  <2> QED
    BY <2>1, <2>2, <2>3, <2>4 DEF ClosePromiseOfRecycle, Inv, TypeOK
<1>2. CASE ~CanRecycle(users, requested)
  <2>1. /\ recycleRequested' = requested
        /\ UNCHANGED <<browser, closePromise, initPromise, pageCount, closing>>
    BY <1>2 DEF RecycleIfIdle
  <2>2. recycleRequested' \in BOOLEAN /\ (requested => recycleRequested')
    BY <2>1
  <2>3. PoolConsistent'
    BY <2>1 DEF Inv, PoolConsistent
  <2>4. closePromise' = "null" => users > 0 \/ ~MustRecycle'
    BY <1>2, <2>1 DEF CanRecycle, Idle, MustRecycle, PageCapReached
  <2> QED
    BY <2>1, <2>2, <2>3, <2>4 DEF Inv, TypeOK
<1> QED
  BY <1>1, <1>2

\* The shared part of the three ends of an attempt, with what they ask of the
\* pool in `requested`.
GivesBack(u, label, requested) ==
    /\ Moves(u, label) /\ ErrorOf(u, label)
    /\ recycleRequested => requested
    /\ label = "loop" => requested
    /\ holds[u] # 0 => activeUsers' = Released
    /\ holds[u] = 0 => activeUsers' = activeUsers
    /\ CanRecycle(activeUsers', requested) => launches = 0
    /\ RecycleIfIdle(activeUsers', requested)
    /\ holds' = [holds EXCEPT ![u] = 0]
    /\ \/ failedOn' = [failedOn EXCEPT ![u] = holds[u]]
       \/ failedOn' = failedOn /\ label = "done"
    /\ attempt' \in [User -> 1..MaxAttempts]
    /\ UNCHANGED <<launched, launches, expired>>

LEMMA GivesBackInv ==
    ASSUME Inv, NEW u \in User, IsHead(u), pc[u] \in {"acquired", "succeeded", "failed"},
           NEW label \in {"loop", "threw", "done"}, NEW requested \in BOOLEAN,
           GivesBack(u, label, requested)
    PROVE  Inv'
<1>1. /\ Moves(u, label) /\ ErrorOf(u, label)
      /\ holds' = [holds EXCEPT ![u] = 0]
      /\ attempt' \in [User -> 1..MaxAttempts]
      /\ RecycleIfIdle(activeUsers', requested)
      /\ CanRecycle(activeUsers', requested) => launches = 0
      /\ UNCHANGED <<launched, launches, expired>>
      /\ recycleRequested => requested
      /\ label = "loop" => requested
  BY DEF GivesBack
<1>2. label \in Labels \ {"launched"} /\ label # "failed"
  BY DEF Labels, Ready, Over
<1>3. /\ holds \in [User -> Nat] /\ holds' \in [User -> Nat]
      /\ holds'[u] = 0
      /\ \A v \in User : v # u => holds'[v] = holds[v]
  BY <1>1 DEF Inv, TypeOK
<1>4. /\ microtasks' \in Seq(User) /\ closeWaiters' \in Seq(User) /\ launchWaiters' \in Seq(User)
      /\ pc' \in [User -> Labels]
      /\ error' \in [User -> {"none", "error", "deadline"}]
      /\ QueuesExact' /\ WokenFirst'
      /\ LaunchFailed' = LaunchFailed \ {u}
      /\ pc'[u] = label
      /\ \A v \in User : v # u => pc'[v] = pc[v] /\ error'[v] = error[v]
  BY <1>1, <1>2, <1>3, MoveKeepsQueues
<1>5. /\ activeUsers' \in Nat
      /\ activeUsers' <= pageCount
      /\ IsFiniteSet(Holders') /\ activeUsers' = Cardinality(Holders')
      /\ holds[u] # 0 => browser # 0
  <2>1. Holders' = Holders \ {u}
    BY <1>3 DEF Holders
  <2>2. IsFiniteSet(Holders) /\ activeUsers = Cardinality(Holders) /\ activeUsers <= pageCount
    BY DEF Inv, Counted
  <2>3. activeUsers \in Nat /\ pageCount \in Nat
    BY DEF Inv, TypeOK
  <2>4. CASE holds[u] # 0
    <3>1. u \in Holders
      BY <2>4 DEF Holders
    <3>2. activeUsers > 0 /\ Cardinality(Holders') = activeUsers - 1 /\ IsFiniteSet(Holders')
      BY <2>1, <2>2, <2>3, <3>1, FS_RemoveElement, FS_EmptySet
    <3>3. activeUsers' = activeUsers - 1
      BY <2>4, <3>2 DEF GivesBack, Released
    <3>4. holds[u] = browser
      BY <2>4 DEF Inv, HoldersConsistent
    <3> QED
      BY <2>2, <2>3, <2>4, <3>2, <3>3, <3>4
  <2>5. CASE holds[u] = 0
    <3>1. Holders' = Holders
      BY <2>1, <2>5 DEF Holders
    <3> QED
      BY <2>2, <2>3, <2>5, <3>1 DEF GivesBack
  <2> QED
    BY <2>4, <2>5
<1>6. /\ browser' \in Nat /\ closing' \in Nat /\ pageCount' \in Nat
      /\ closePromise' \in {"null", "pending", "settled"}
      /\ initPromise' \in {"null", "pending", "fulfilled"}
      /\ recycleRequested' \in BOOLEAN
      /\ PoolConsistent'
      /\ closePromise' = "null" => activeUsers' > 0 \/ ~MustRecycle'
      /\ activeUsers' <= pageCount'
      /\ browser' = browser \/ (browser' = 0 /\ activeUsers' = 0)
      /\ browser' # 0 /\ requested => recycleRequested'
      /\ closePromise = "settled" => closePromise' = "settled"
      /\ closePromise = "null" /\ browser = 0 =>
             closePromise' \in {"null", "settled"} /\ browser' = 0
      /\ closing # 0 => closing' # 0
  BY <1>1, <1>5, RecycleEffect
<1>7. \A v \in User : failedOn'[v] = failedOn[v] \/ (v = u /\ failedOn'[v] = holds[u])
  BY DEF GivesBack, Inv, TypeOK
<1>8. TypeOK'
  <2>1. failedOn' \in [User -> Nat]
    BY <1>3 DEF GivesBack, Inv, TypeOK
  <2> QED
    BY <1>1, <1>3, <1>4, <1>5, <1>6, <2>1 DEF Inv, TypeOK, Labels
<1>9. WaitersConsistent'
  <2>1. JustLaunched = {}
    BY HeadRuns DEF JustLaunched
  <2> SUFFICES ASSUME NEW v \in User
               PROVE  /\ pc'[v] = "closing" => closing' # 0
                      /\ pc'[v] = "launching" => launches' # 0
                      /\ pc'[v] = "launched" => browser' # 0
                      /\ pc'[v] = "closed" =>
                             \/ closePromise' = "settled"
                             \/ closePromise' = "null" /\ browser' = 0
                      /\ v \in LaunchFailed' =>
                             /\ launches' = 0
                             /\ \/ closePromise' = "settled"
                                \/ closePromise' = "null" /\ browser' = 0
    BY DEF WaitersConsistent
  <2>2. CASE v = u
    BY <1>4, <2>2
  <2>3. CASE v # u
    BY <1>1, <1>4, <1>6, <2>1, <2>3 DEF Inv, WaitersConsistent, JustLaunched
  <2> QED
    BY <2>2, <2>3
<1>10. HoldersConsistent'
  <2>1. ASSUME NEW v \in User, v # u, holds[v] # 0 PROVE browser' = browser
    <3>1. v \in Holders' /\ activeUsers' # 0
      BY <1>3, <1>5, <2>1, FS_EmptySet DEF Holders
    <3> QED
      BY <1>6, <3>1
  <2> QED
    BY <1>2, <1>3, <1>4, <2>1 DEF Inv, HoldersConsistent, Using
<1>11. Counted'
  BY <1>5, <1>6 DEF Counted
<1>12. FailuresRemembered'
  <2>1. browser <= launched /\ browser \in Nat /\ launched \in Nat /\ launched' = launched
    BY <1>1 DEF Inv, FailuresRemembered, TypeOK
  <2>2. browser' <= launched'
    BY <1>6, <2>1
  <2>3. ASSUME NEW v \in User PROVE failedOn'[v] <= launched'
    <3>1. failedOn[v] <= launched
      BY DEF Inv, FailuresRemembered
    <3>2. holds[u] <= launched
      BY <2>1 DEF Inv, HoldersConsistent
    <3> QED
      BY <1>7, <2>1, <3>1, <3>2
  <2>4. ASSUME NEW v \in User, pc'[v] \notin Over, browser' # 0, failedOn'[v] = browser'
        PROVE  recycleRequested' /\ holds'[v] = 0
    <3>1. CASE v = u
      <4>1. label = "loop"
        BY <1>4, <2>4, <3>1 DEF Over
      <4> QED
        BY <1>1, <1>3, <1>6, <2>4, <3>1, <4>1
    <3>2. CASE v # u
      <4>1. pc[v] \notin Over /\ browser # 0 /\ failedOn[v] = browser
        BY <1>4, <1>6, <1>7, <2>4, <3>2
      <4>2. recycleRequested /\ holds[v] = 0
        BY <4>1 DEF Inv, FailuresRemembered
      <4> QED
        BY <1>1, <1>3, <1>6, <2>4, <3>2, <4>2
    <3> QED
      BY <3>1, <3>2
  <2> QED
    BY <2>2, <2>3, <2>4 DEF FailuresRemembered
<1> QED
  BY <1>4, <1>6, <1>8, <1>9, <1>10, <1>11, <1>12 DEF Inv

\* A failed attempt gives back.
LEMMA FailAttemptInv ==
    ASSUME Inv, NEW u \in User, IsHead(u), NEW why \in {"error", "deadline"}, FailAttempt(u, why),
           \/ pc[u] = "acquired" /\ why = "deadline"
           \/ pc[u] = "failed" /\ why = error[u]
    PROVE  Inv'
<1>1. PICK label \in {"loop", "threw"} :
          /\ Moves(u, label)
          /\ label = "loop" => why = "error"
  <2>1. CASE why = "error" /\ ~LastAttempt(u)
    <3>1. Continue(u, "loop") /\ UNCHANGED <<closeWaiters, launchWaiters>>
      BY <2>1 DEF FailAttempt
    <3> QED
      BY <2>1, <3>1 DEF Continue, Moves, Ready
  <2>2. CASE why = "deadline" \/ LastAttempt(u)
    <3>1. Suspend(u, "threw") /\ UNCHANGED <<closeWaiters, launchWaiters>>
      BY <2>2 DEF FailAttempt
    <3> QED
      BY <3>1 DEF Suspend, Moves, Ready
  <2> QED
    BY <2>1, <2>2
<1>2. attempt' \in [User -> 1..MaxAttempts]
  <2>1. attempt \in [User -> 1..MaxAttempts] /\ MaxAttempts \in Nat
    BY PoolLimits DEF Inv, TypeOK
  <2>2. CASE why = "error" /\ ~LastAttempt(u)
    <3>1. attempt[u] \in 1..MaxAttempts /\ attempt[u] # MaxAttempts
      BY <2>1, <2>2 DEF LastAttempt
    <3>2. attempt[u] + 1 \in 1..MaxAttempts
      BY <2>1, <3>1
    <3>3. attempt' = [attempt EXCEPT ![u] = attempt[u] + 1]
      BY <2>2 DEF FailAttempt
    <3> QED
      BY <2>1, <3>2, <3>3
  <2>3. CASE why = "deadline" \/ LastAttempt(u)
    BY <2>1, <2>3 DEF FailAttempt
  <2> QED
    BY <2>2, <2>3
<1>3. /\ ErrorOf(u, label)
      /\ holds' = [holds EXCEPT ![u] = 0]
      /\ failedOn' = [failedOn EXCEPT ![u] = holds[u]]
      /\ UNCHANGED <<launched, launches, expired>>
  BY DEF FailAttempt, ErrorOf, launchVars
<1>4. CASE why = "deadline" /\ holds[u] = 0
  <2>1. UNCHANGED <<poolVars, activeUsers>>
    BY <1>4 DEF FailAttempt
  <2>2. ~CanRecycle(activeUsers, recycleRequested)
    BY DEF Inv, Counted, CanRecycle, Idle, MustRecycle
  <2>3. RecycleIfIdle(activeUsers', recycleRequested)
    BY <2>1, <2>2 DEF RecycleIfIdle, poolVars
  <2>4. GivesBack(u, label, recycleRequested)
    BY <1>1, <1>2, <1>3, <1>4, <2>1, <2>2, <2>3 DEF GivesBack
  <2> QED
    BY <1>1, <1>4, <2>4, GivesBackInv DEF Inv, TypeOK
<1>5. CASE why = "error" \/ holds[u] # 0
  <2> DEFINE requested == UnhealthyAfter(why)
  <2>1. /\ requested \in BOOLEAN
        /\ recycleRequested => requested
        /\ label = "loop" => requested
    BY <1>1 DEF UnhealthyAfter, Inv, TypeOK
  <2>2. /\ holds[u] # 0 => activeUsers' = Released
        /\ holds[u] = 0 => activeUsers' = activeUsers
        /\ RecycleIfIdle(activeUsers', requested)
    BY <1>5 DEF FailAttempt
  <2>3. CanRecycle(activeUsers', requested) => launches = 0
    <3>1. CASE holds[u] # 0
      BY <3>1 DEF Inv, HoldersConsistent, PoolConsistent
    <3>2. CASE holds[u] = 0
      <4>1. u \in LaunchFailed
        BY <1>5, <3>2 DEF LaunchFailed, Inv, HoldersConsistent, Using
      <4> QED
        BY <4>1 DEF Inv, WaitersConsistent
    <3> QED
      BY <3>1, <3>2
  <2> HIDE DEF requested
  <2>4. GivesBack(u, label, requested)
    BY <1>1, <1>2, <1>3, <2>1, <2>2, <2>3 DEF GivesBack
  <2> QED
    BY <1>1, <2>1, <2>4, GivesBackInv
<1> QED
  BY <1>4, <1>5

LEMMA AttemptSucceedsInv ==
    ASSUME Inv, NEW u \in User, AttemptSucceeds(u)
    PROVE  Inv'
<1>1. /\ IsHead(u) /\ pc[u] = "succeeded"
      /\ activeUsers' = Released
      /\ RecycleIfIdle(activeUsers', recycleRequested)
      /\ holds' = [holds EXCEPT ![u] = 0]
      /\ Suspend(u, "done")
      /\ UNCHANGED <<launchVars, closeWaiters, launchWaiters, attempt, expired, error, failedOn>>
  BY DEF AttemptSucceeds
<1>2. Moves(u, "done") /\ ErrorOf(u, "done")
  BY <1>1 DEF Suspend, Moves, ErrorOf, Ready
<1>3. holds[u] # 0 /\ launches = 0
  BY <1>1 DEF Inv, HoldersConsistent, PoolConsistent, Using
<1>4. attempt' \in [User -> 1..MaxAttempts] /\ recycleRequested \in BOOLEAN
  BY <1>1 DEF Inv, TypeOK
<1>5. GivesBack(u, "done", recycleRequested)
  BY <1>1, <1>2, <1>3, <1>4 DEF GivesBack, launchVars
<1> QED
  BY <1>1, <1>4, <1>5, GivesBackInv

-----------------------------------------------------------------------------
(* Steps that leave the pool as it is.                                       *)

\* A user that goes on without touching the pool.
LEMMA QuietInv ==
    ASSUME Inv,
           UNCHANGED <<poolVars, activeUsers, launchVars, attempt, holds, failedOn>>,
           expired' \in [User -> BOOLEAN],
           /\ microtasks' \in Seq(User)
           /\ closeWaiters' \in Seq(User)
           /\ launchWaiters' \in Seq(User),
           pc' \in [User -> Labels],
           error' \in [User -> {"none", "error", "deadline"}],
           QueuesExact', WokenFirst',
           \A v \in User :
               \/ pc'[v] = pc[v] /\ error'[v] = error[v]
               \/ /\ pc'[v] \notin {"closing", "launching", "launched", "closed"}
                  /\ pc[v] \notin Over
                  /\ v \notin LaunchFailed'
                  /\ pc'[v] \in Using => holds[v] # 0
                  /\ holds[v] # 0 => pc'[v] \in Using \cup {"failed"}
                  /\ pc'[v] = "failed" => error'[v] # "none"
    PROVE  Inv'
<1>1. UNCHANGED <<browser, closePromise, initPromise, pageCount, recycleRequested, closing,
                  activeUsers, launched, launches, attempt, holds, failedOn>>
  BY DEF poolVars, launchVars
<1>2. TypeOK'
  BY <1>1 DEF Inv, TypeOK, Labels
<1>3. PoolConsistent'
  BY <1>1 DEF Inv, PoolConsistent
<1>4. WaitersConsistent'
  <2>1. ASSUME NEW v \in User, pc'[v] = pc[v], error'[v] = error[v]
        PROVE  v \in LaunchFailed' <=> v \in LaunchFailed
    BY <1>1, <2>1 DEF LaunchFailed
  <2> QED
    BY <1>1, <2>1 DEF Inv, WaitersConsistent
<1>5. HoldersConsistent'
  BY <1>1 DEF Inv, HoldersConsistent
<1>6. Counted'
  BY <1>1 DEF Inv, Counted, Holders, MustRecycle, PageCapReached
<1>7. FailuresRemembered'
  BY <1>1 DEF Inv, FailuresRemembered
<1> QED
  BY <1>2, <1>3, <1>4, <1>5, <1>6, <1>7 DEF Inv

LEMMA StartRenderInv ==
    ASSUME Inv, NEW u \in User, StartRender(u)
    PROVE  Inv'
<1>1. IsHead(u) /\ pc[u] = "acquired"
  BY DEF StartRender
<1>2. CASE expired[u] /\ FailAttempt(u, "deadline")
  BY <1>1, <1>2, FailAttemptInv
<1>3. CASE ~(expired[u] /\ FailAttempt(u, "deadline"))
  <2>1. /\ Suspend(u, "rendering")
        /\ UNCHANGED <<poolVars, activeUsers, launchVars, closeWaiters, launchWaiters,
                       attempt, expired, error, holds, failedOn>>
    BY <1>3 DEF StartRender
  <2>2. Moves(u, "rendering") /\ ErrorOf(u, "rendering")
    BY <2>1 DEF Suspend, Moves, ErrorOf, Ready
  <2>3. "rendering" \in Labels \ {"launched"}
    BY DEF Labels, Awaiting
  <2>4. /\ microtasks' \in Seq(User) /\ closeWaiters' \in Seq(User) /\ launchWaiters' \in Seq(User)
        /\ pc' \in [User -> Labels]
        /\ error' \in [User -> {"none", "error", "deadline"}]
        /\ QueuesExact' /\ WokenFirst'
        /\ LaunchFailed' = LaunchFailed \ {u}
        /\ pc'[u] = "rendering"
        /\ \A v \in User : v # u => pc'[v] = pc[v] /\ error'[v] = error[v]
    BY <1>1, <2>1, <2>2, <2>3, MoveKeepsQueues
  <2>5. holds[u] # 0
    BY <1>1 DEF Inv, HoldersConsistent, Using
  <2>6. expired' \in [User -> BOOLEAN]
    BY <2>1 DEF Inv, TypeOK
  <2>7. "rendering" \in Using /\ "acquired" \notin Over
    BY DEF Using, Over
  <2>8. \A v \in User :
            \/ pc'[v] = pc[v] /\ error'[v] = error[v]
            \/ /\ pc'[v] \notin {"closing", "launching", "launched", "closed"}
               /\ pc[v] \notin Over
               /\ v \notin LaunchFailed'
               /\ pc'[v] \in Using => holds[v] # 0
               /\ holds[v] # 0 => pc'[v] \in Using \cup {"failed"}
               /\ pc'[v] = "failed" => error'[v] # "none"
    BY <1>1, <2>4, <2>5, <2>7
  <2> QED
    BY <2>1, <2>4, <2>6, <2>8, QuietInv
<1> QED
  BY <1>2, <1>3

LEMMA AttemptFailsInv ==
    ASSUME Inv, NEW u \in User, AttemptFails(u)
    PROVE  Inv'
<1>1. IsHead(u) /\ pc[u] = "failed" /\ FailAttempt(u, error[u])
  BY DEF AttemptFails
<1>2. error[u] \in {"error", "deadline"}
  BY <1>1 DEF Inv, TypeOK, HoldersConsistent
<1> QED
  BY <1>1, <1>2, FailAttemptInv

-----------------------------------------------------------------------------
(* Macrotasks: the queue is empty, so nobody is about to act.                *)

LEMMA NobodyIsReady ==
    ASSUME Inv, MacrotaskTurn
    PROVE  /\ \A v \in User : pc[v] \notin Ready
           /\ JustLaunched = {}
           /\ LaunchFailed = {}
<1>1. ToSet(microtasks) = {}
  BY ShortQueues DEF MacrotaskTurn
<1>2. \A v \in User : pc[v] \notin Ready
  BY <1>1 DEF Inv, QueuesExact
<1> QED
  BY <1>2 DEF JustLaunched, LaunchFailed, Ready

\* One user goes on alone.
LEMMA AloneKeepsQueues ==
    ASSUME Inv, MacrotaskTurn, NEW u \in User, NEW label \in Ready,
           pc' = [pc EXCEPT ![u] = label],
           microtasks' = <<u>>,
           closeWaiters' = Undecided(closeWaiters, u),
           launchWaiters' = Undecided(launchWaiters, u)
    PROVE  /\ microtasks' \in Seq(User)
           /\ closeWaiters' \in Seq(User)
           /\ launchWaiters' \in Seq(User)
           /\ pc' \in [User -> Labels]
           /\ QueuesExact'
           /\ WokenFirst'
           /\ pc'[u] = label
           /\ \A v \in User : v # u => pc'[v] = pc[v]
<1>1. /\ microtasks' \in Seq(User) /\ NoDuplicates(microtasks')
      /\ ToSet(microtasks') = {u}
      /\ \A F : FirstIn(microtasks', F)
  BY ShortQueues
<1>2. /\ closeWaiters \in Seq(User) /\ launchWaiters \in Seq(User)
      /\ pc \in [User -> Labels]
      /\ NoDuplicates(closeWaiters) /\ NoDuplicates(launchWaiters)
      /\ ToSet(closeWaiters) = {v \in User : pc[v] = "closing"}
      /\ ToSet(launchWaiters) = {v \in User : pc[v] = "launching"}
  BY DEF Inv, TypeOK, QueuesExact, Labels
<1>3. /\ closeWaiters' \in Seq(User) /\ NoDuplicates(closeWaiters')
      /\ ToSet(closeWaiters') = ToSet(closeWaiters) \ {u}
      /\ launchWaiters' \in Seq(User) /\ NoDuplicates(launchWaiters')
      /\ ToSet(launchWaiters') = ToSet(launchWaiters) \ {u}
  BY <1>2, UndecidedLeave
<1>4. /\ pc' \in [User -> Labels]
      /\ pc'[u] = label
      /\ \A v \in User : v # u => pc'[v] = pc[v]
  BY <1>2 DEF Labels
<1>5. /\ {v \in User : pc'[v] \in Ready} = {u}
      /\ {v \in User : pc'[v] = "closing"} = ToSet(closeWaiters) \ {u}
      /\ {v \in User : pc'[v] = "launching"} = ToSet(launchWaiters) \ {u}
  <2>1. "closing" \notin Ready /\ "launching" \notin Ready
    BY DEF Ready
  <2> QED
    BY <1>2, <1>4, <2>1, NobodyIsReady
<1> QED
  BY <1>1, <1>3, <1>4, <1>5 DEF QueuesExact, WokenFirst

\* A user that awaits neither promise is in neither queue.
LEMMA NotWaiting ==
    ASSUME Inv, NEW u \in User, pc[u] \notin {"closing", "launching"}
    PROVE  Undecided(closeWaiters, u) = closeWaiters /\ Undecided(launchWaiters, u) = launchWaiters
<1>1. u \notin ToSet(closeWaiters) /\ u \notin ToSet(launchWaiters)
  BY DEF Inv, QueuesExact
<1> QED
  BY <1>1 DEF Undecided

LEMMA RenderSettlesInv ==
    ASSUME Inv, NEW u \in User, NEW outcome \in {"ok", "error"}, RenderSettles(u, outcome)
    PROVE  Inv'
<1>1. /\ MacrotaskTurn
      /\ pc[u] = "rendering"
      /\ microtasks' = <<u>>
      /\ UNCHANGED <<poolVars, activeUsers, launchVars, closeWaiters, launchWaiters, attempt,
                     expired, holds, failedOn>>
  BY DEF RenderSettles
<1>2. PICK label \in {"succeeded", "failed"} :
          /\ pc' = [pc EXCEPT ![u] = label]
          /\ \/ label = "succeeded" /\ error' = error
             \/ label = "failed" /\ error' = [error EXCEPT ![u] = "error"]
  BY DEF RenderSettles
<1>3. label \in Ready
  BY DEF Ready
<1>4. /\ microtasks' \in Seq(User) /\ closeWaiters' \in Seq(User) /\ launchWaiters' \in Seq(User)
      /\ pc' \in [User -> Labels]
      /\ QueuesExact' /\ WokenFirst'
      /\ pc'[u] = label
      /\ \A v \in User : v # u => pc'[v] = pc[v]
  BY <1>1, <1>2, <1>3, AloneKeepsQueues, NotWaiting
<1>5. /\ error' \in [User -> {"none", "error", "deadline"}]
      /\ label = "failed" => error'[u] = "error"
      /\ \A v \in User : v # u => error'[v] = error[v]
  BY <1>2 DEF Inv, TypeOK
<1>6. holds'[u] # 0 /\ holds[u] # 0
  BY <1>1 DEF Inv, HoldersConsistent, Using
<1>7. expired' \in [User -> BOOLEAN]
  BY <1>1 DEF Inv, TypeOK
<1>8. u \notin LaunchFailed'
  BY <1>6 DEF LaunchFailed
<1>9. label \in Using \cup {"failed"} /\ "rendering" \notin Over
  BY DEF Using, Over
<1>10. \A v \in User :
           \/ pc'[v] = pc[v] /\ error'[v] = error[v]
           \/ /\ pc'[v] \notin {"closing", "launching", "launched", "closed"}
              /\ pc[v] \notin Over
              /\ v \notin LaunchFailed'
              /\ pc'[v] \in Using => holds[v] # 0
              /\ holds[v] # 0 => pc'[v] \in Using \cup {"failed"}
              /\ pc'[v] = "failed" => error'[v] # "none"
  BY <1>1, <1>4, <1>5, <1>6, <1>8, <1>9
<1> QED
  BY <1>1, <1>4, <1>5, <1>7, <1>10, QuietInv

LEMMA WakeInv ==
    ASSUME Inv, NEW u \in User, Wake(u)
    PROVE  Inv'
<1>1. /\ MacrotaskTurn
      /\ pc[u] = "sleeping"
      /\ pc' = [pc EXCEPT ![u] = "loop"]
      /\ microtasks' = <<u>>
      /\ UNCHANGED <<poolVars, activeUsers, launchVars, closeWaiters, launchWaiters, attempt,
                     expired, error, holds, failedOn>>
  BY DEF Wake
<1>2. "loop" \in Ready /\ "sleeping" \notin Over /\ "loop" \notin Using
  BY DEF Ready, Over, Using
<1>3. /\ microtasks' \in Seq(User) /\ closeWaiters' \in Seq(User) /\ launchWaiters' \in Seq(User)
      /\ pc' \in [User -> Labels]
      /\ QueuesExact' /\ WokenFirst'
      /\ pc'[u] = "loop"
      /\ \A v \in User : v # u => pc'[v] = pc[v]
  BY <1>1, <1>2, AloneKeepsQueues, NotWaiting
<1>4. error' \in [User -> {"none", "error", "deadline"}] /\ expired' \in [User -> BOOLEAN]
  BY <1>1 DEF Inv, TypeOK
<1>5. holds[u] = 0 /\ u \notin LaunchFailed'
  BY <1>1, <1>3 DEF Inv, HoldersConsistent, Using, LaunchFailed
<1>6. \A v \in User :
          \/ pc'[v] = pc[v] /\ error'[v] = error[v]
          \/ /\ pc'[v] \notin {"closing", "launching", "launched", "closed"}
             /\ pc[v] \notin Over
             /\ v \notin LaunchFailed'
             /\ pc'[v] \in Using => holds[v] # 0
             /\ holds[v] # 0 => pc'[v] \in Using \cup {"failed"}
             /\ pc'[v] = "failed" => error'[v] # "none"
  BY <1>1, <1>2, <1>3, <1>5
<1> QED
  BY <1>1, <1>3, <1>4, <1>6, QuietInv

LEMMA DeadlineTimerInv ==
    ASSUME Inv, NEW u \in User, DeadlineTimer(u)
    PROVE  Inv'
<1>1. /\ MacrotaskTurn
      /\ pc[u] \in Awaiting
      /\ pc' = [pc EXCEPT ![u] = "failed"]
      /\ error' = [error EXCEPT ![u] = "deadline"]
      /\ microtasks' = <<u>>
      /\ closeWaiters' = Undecided(closeWaiters, u)
      /\ launchWaiters' = Undecided(launchWaiters, u)
      /\ UNCHANGED <<poolVars, activeUsers, launchVars, attempt, expired, holds, failedOn>>
  BY DEF DeadlineTimer
<1>2. "failed" \in Ready /\ pc[u] \notin Over /\ "failed" \notin Using
  BY <1>1 DEF Ready, Over, Using, Awaiting
<1>3. /\ microtasks' \in Seq(User) /\ closeWaiters' \in Seq(User) /\ launchWaiters' \in Seq(User)
      /\ pc' \in [User -> Labels]
      /\ QueuesExact' /\ WokenFirst'
      /\ pc'[u] = "failed"
      /\ \A v \in User : v # u => pc'[v] = pc[v]
  BY <1>1, <1>2, AloneKeepsQueues
<1>4. /\ error' \in [User -> {"none", "error", "deadline"}]
      /\ error'[u] = "deadline"
      /\ \A v \in User : v # u => error'[v] = error[v]
  BY <1>1 DEF Inv, TypeOK
<1>5. expired' \in [User -> BOOLEAN]
  BY <1>1 DEF Inv, TypeOK
<1>6. u \notin LaunchFailed'
  BY <1>4 DEF LaunchFailed
<1>7. \A v \in User :
          \/ pc'[v] = pc[v] /\ error'[v] = error[v]
          \/ /\ pc'[v] \notin {"closing", "launching", "launched", "closed"}
             /\ pc[v] \notin Over
             /\ v \notin LaunchFailed'
             /\ pc'[v] \in Using => holds[v] # 0
             /\ holds[v] # 0 => pc'[v] \in Using \cup {"failed"}
             /\ pc'[v] = "failed" => error'[v] # "none"
  BY <1>2, <1>3, <1>4, <1>6
<1> QED
  BY <1>1, <1>3, <1>4, <1>5, <1>7, QuietInv

\* A job may begin while others are about to act; it runs after them.
LEMMA BeginInv ==
    ASSUME Inv, NEW u \in User, Begin(u)
    PROVE  Inv'
<1>1. /\ pc[u] = "idle"
      /\ pc' = [pc EXCEPT ![u] = "loop"]
      /\ microtasks' = Append(microtasks, u)
      /\ UNCHANGED <<poolVars, activeUsers, launchVars, closeWaiters, launchWaiters, attempt,
                     expired, error, holds, failedOn>>
  BY DEF Begin
<1>2. /\ "loop" \in Ready /\ "idle" \notin Ready /\ "loop" \in Labels
      /\ "idle" \notin Over /\ "loop" \notin Using /\ "idle" \notin Using
  BY DEF Ready, Over, Using, Labels
<1>3. /\ microtasks \in Seq(User) /\ NoDuplicates(microtasks)
      /\ closeWaiters \in Seq(User) /\ NoDuplicates(closeWaiters)
      /\ launchWaiters \in Seq(User) /\ NoDuplicates(launchWaiters)
      /\ pc \in [User -> Labels]
      /\ ToSet(microtasks) = {v \in User : pc[v] \in Ready}
      /\ ToSet(closeWaiters) = {v \in User : pc[v] = "closing"}
      /\ ToSet(launchWaiters) = {v \in User : pc[v] = "launching"}
      /\ FirstIn(microtasks, JustLaunched)
      /\ FirstIn(microtasks, LaunchFailed)
  BY DEF Inv, TypeOK, QueuesExact, WokenFirst, Labels
<1>4. /\ pc' \in [User -> Labels] /\ pc'[u] = "loop"
      /\ \A v \in User : v # u => pc'[v] = pc[v]
  BY <1>1, <1>2, <1>3
<1>5. JustLaunched' = JustLaunched /\ LaunchFailed' = LaunchFailed
  BY <1>1, <1>4 DEF JustLaunched, LaunchFailed
<1>6. u \notin ToSet(microtasks) /\ u \notin JustLaunched /\ u \notin LaunchFailed
  BY <1>1, <1>2, <1>3 DEF JustLaunched, LaunchFailed
<1>7. /\ microtasks' \in Seq(User) /\ NoDuplicates(microtasks')
      /\ ToSet(microtasks') = ToSet(microtasks) \cup {u}
      /\ FirstIn(microtasks', JustLaunched)
      /\ FirstIn(microtasks', LaunchFailed)
  BY <1>1, <1>3, <1>6, AppendJoins
<1>8. ToSet(microtasks') = {v \in User : pc'[v] \in Ready}
  BY <1>2, <1>3, <1>4, <1>7
<1>9. QueuesExact' /\ WokenFirst'
  BY <1>1, <1>3, <1>4, <1>5, <1>7, <1>8 DEF QueuesExact, WokenFirst
<1>10. error' \in [User -> {"none", "error", "deadline"}] /\ expired' \in [User -> BOOLEAN]
  BY <1>1 DEF Inv, TypeOK
<1>11. holds[u] = 0
  BY <1>1 DEF Inv, HoldersConsistent, Using
<1>12. \A v \in User :
           \/ pc'[v] = pc[v] /\ error'[v] = error[v]
           \/ /\ pc'[v] \notin {"closing", "launching", "launched", "closed"}
              /\ pc[v] \notin Over
              /\ v \notin LaunchFailed'
              /\ pc'[v] \in Using => holds[v] # 0
              /\ holds[v] # 0 => pc'[v] \in Using \cup {"failed"}
              /\ pc'[v] = "failed" => error'[v] # "none"
  BY <1>1, <1>2, <1>4, <1>5, <1>6, <1>11
<1> QED
  BY <1>1, <1>3, <1>4, <1>7, <1>9, <1>10, <1>12, QuietInv

LEMMA ClockInv ==
    ASSUME Inv, (\E u \in User : DeadlinePasses(u)) \/ UNCHANGED vars
    PROVE  Inv'
<1>1. /\ UNCHANGED <<poolVars, activeUsers, launchVars, loopVars, pc, attempt, error, holds,
                     failedOn>>
      /\ expired' \in [User -> BOOLEAN]
  BY DEF DeadlinePasses, vars, userVars, Inv, TypeOK
<1>2. UNCHANGED <<microtasks, closeWaiters, launchWaiters, pc, error, holds>>
  BY <1>1 DEF loopVars
<1>3. QueuesExact' /\ WokenFirst'
  BY <1>2 DEF Inv, QueuesExact, WokenFirst, JustLaunched, LaunchFailed
<1>4. /\ microtasks' \in Seq(User) /\ closeWaiters' \in Seq(User) /\ launchWaiters' \in Seq(User)
      /\ pc' \in [User -> Labels]
      /\ error' \in [User -> {"none", "error", "deadline"}]
  BY <1>2 DEF Inv, TypeOK, Labels
<1> QED
  BY <1>1, <1>2, <1>3, <1>4, QuietInv

\* A promise settles and wakes everyone who waits for it, in their order.
LEMMA WakesAll ==
    ASSUME Inv, MacrotaskTurn,
           NEW waiting \in {"closing", "launching"}, NEW label \in Ready, NEW queue \in Seq(User),
           NoDuplicates(queue),
           ToSet(queue) = {v \in User : pc[v] = waiting},
           pc' = WokenAs(queue, label), microtasks' = queue
    PROVE  /\ NoDuplicates(microtasks')
           /\ ToSet(microtasks') = {v \in User : pc'[v] \in Ready}
           /\ pc' \in [User -> Labels]
           /\ \A v \in User : pc'[v] = IF pc[v] = waiting THEN label ELSE pc[v]
           /\ FirstIn(microtasks', {v \in User : pc'[v] = label})
<1>1. pc \in [User -> Labels] /\ \A v \in User : pc[v] \notin Ready
  BY NobodyIsReady DEF Inv, TypeOK, Labels
<1>2. \A v \in User : pc'[v] = IF pc[v] = waiting THEN label ELSE pc[v]
  BY DEF WokenAs
<1>3. pc' \in [User -> Labels]
  BY <1>1 DEF WokenAs, Labels
<1>4. {v \in User : pc'[v] \in Ready} = ToSet(queue)
  BY <1>1, <1>2
<1>5. {v \in User : pc'[v] = label} = ToSet(queue)
  BY <1>1, <1>2
<1>6. FirstIn(queue, ToSet(queue))
  BY Entries DEF FirstIn
<1> QED
  BY <1>2, <1>3, <1>4, <1>5, <1>6

LEMMA LaunchSettlesInv ==
    ASSUME Inv, NEW outcome \in LaunchOutcomes, LaunchSettles(outcome)
    PROVE  Inv'
<1>1. /\ MacrotaskTurn
      /\ launches > 0
      /\ launches' = launches - 1
      /\ microtasks' = launchWaiters
      /\ launchWaiters' = <<>>
      /\ UNCHANGED <<closePromise, closing, pageCount, recycleRequested, activeUsers,
                     closeWaiters, attempt, expired, holds, failedOn>>
  BY DEF LaunchSettles
<1>2. /\ launches = 1 /\ launches' = 0
      /\ browser = 0 /\ closing = 0
      /\ initPromise = "pending"
      /\ pageCount = 0
      /\ closePromise # "pending"
  BY <1>1 DEF Inv, PoolConsistent, TypeOK
<1>3. /\ closeWaiters \in Seq(User) /\ NoDuplicates(closeWaiters)
      /\ ToSet(closeWaiters) = {v \in User : pc[v] = "closing"}
      /\ launchWaiters \in Seq(User) /\ NoDuplicates(launchWaiters)
      /\ ToSet(launchWaiters) = {v \in User : pc[v] = "launching"}
  BY DEF Inv, TypeOK, QueuesExact
<1>4. PICK label \in {"launched", "failed"} :
          /\ pc' = WokenAs(launchWaiters, label)
          /\ label = "launched" =>
                 /\ launched' = launched + 1 /\ browser' = launched'
                 /\ initPromise' = "fulfilled"
                 /\ error' = error
          /\ label = "failed" =>
                 /\ initPromise' = "null"
                 /\ error' = [v \in User |->
                        IF v \in ToSet(launchWaiters) THEN "error" ELSE error[v]]
                 /\ UNCHANGED <<launched, browser>>
  BY DEF LaunchSettles
<1>5. label \in Ready
  BY DEF Ready
<1>6. /\ NoDuplicates(microtasks')
      /\ ToSet(microtasks') = {v \in User : pc'[v] \in Ready}
      /\ pc' \in [User -> Labels]
      /\ \A v \in User : pc'[v] = IF pc[v] = "launching" THEN label ELSE pc[v]
      /\ FirstIn(microtasks', {v \in User : pc'[v] = label})
  BY <1>1, <1>3, <1>4, <1>5, WakesAll
<1>7. \A v \in User : holds[v] = 0
  BY <1>2 DEF Inv, HoldersConsistent
<1>8. \A v \in User : pc[v] \notin Ready
  BY <1>1, NobodyIsReady
<1>9. LaunchFailed' = IF label = "failed" THEN {v \in User : pc'[v] = label} ELSE {}
  <2>1. CASE label = "failed"
    <3>1. \A v \in User : pc'[v] = "failed" => error'[v] = "error"
      BY <1>3, <1>4, <1>6, <1>8, <2>1 DEF Ready
    <3> QED
      BY <1>1, <1>7, <2>1, <3>1 DEF LaunchFailed
  <2>2. CASE label = "launched"
    BY <1>6, <1>8, <2>2 DEF LaunchFailed, Ready
  <2> QED
    BY <2>1, <2>2
<1>10. JustLaunched' = IF label = "launched" THEN {v \in User : pc'[v] = label} ELSE {}
  BY <1>6, <1>8 DEF JustLaunched, Ready
<1>11. WokenFirst'
  <2>1. FirstIn(microtasks', {})
    BY DEF FirstIn
  <2> QED
    BY <1>6, <1>9, <1>10, <2>1 DEF WokenFirst
<1>12. QueuesExact'
  <2>1. {v \in User : pc'[v] = "closing"} = {v \in User : pc[v] = "closing"}
    BY <1>6
  <2>2. {v \in User : pc'[v] = "launching"} = {}
    BY <1>6
  <2> QED
    BY <1>1, <1>3, <1>6, <2>1, <2>2, ShortQueues DEF QueuesExact
<1>13. error' \in [User -> {"none", "error", "deadline"}]
  BY <1>4 DEF Inv, TypeOK
<1>14. TypeOK'
  <2>1. expired' \in [User -> BOOLEAN] /\ recycleRequested' \in BOOLEAN
    BY <1>1 DEF Inv, TypeOK
  <2>2. microtasks' \in Seq(User) /\ closeWaiters' \in Seq(User) /\ launchWaiters' \in Seq(User)
    BY <1>1, <1>3
  <2> QED
    BY <1>1, <1>2, <1>4, <1>6, <1>13, <2>1, <2>2 DEF Inv, TypeOK, Labels
<1>15. PoolConsistent'
  BY <1>1, <1>2, <1>4 DEF Inv, PoolConsistent, TypeOK
<1>16. WaitersConsistent'
  <2> SUFFICES ASSUME NEW v \in User
               PROVE  /\ pc'[v] = "closing" => closing' # 0
                      /\ pc'[v] = "launching" => launches' # 0
                      /\ pc'[v] = "launched" => browser' # 0
                      /\ pc'[v] # "closed"
                      /\ v \in LaunchFailed' =>
                             /\ launches' = 0
                             /\ \/ closePromise' = "settled"
                                \/ closePromise' = "null" /\ browser' = 0
    BY DEF WaitersConsistent
  <2>1. pc'[v] = "launched" => label = "launched"
    BY <1>6, <1>8 DEF Ready
  <2>2. pc'[v] = "launched" => browser' # 0
    BY <1>4, <2>1 DEF Inv, TypeOK
  <2>3. pc'[v] # "launching" /\ pc'[v] # "closed"
    BY <1>6, <1>8 DEF Ready
  <2>4. pc'[v] # "closing"
    BY <1>2, <1>6 DEF Inv, WaitersConsistent
  <2>5. v \in LaunchFailed' => browser' = 0
    BY <1>2, <1>4, <1>9
  <2>6. closePromise' \in {"null", "settled"}
    BY <1>1, <1>2 DEF Inv, TypeOK
  <2> QED
    BY <1>2, <2>2, <2>3, <2>4, <2>5, <2>6
<1>17. HoldersConsistent'
  <2>1. \A v \in User : holds'[v] = 0
    BY <1>1, <1>7
  <2>2. \A v \in User : pc'[v] \notin Using
    BY <1>6, <1>7 DEF Inv, HoldersConsistent, Using
  <2>3. \A v \in User : pc'[v] = "failed" => error'[v] # "none"
    BY <1>3, <1>4, <1>6, <1>8 DEF Ready
  <2> QED
    BY <2>1, <2>2, <2>3 DEF HoldersConsistent
<1>18. Counted'
  <2>1. Holders' = Holders
    BY <1>1 DEF Holders
  <2>2. MustRecycle' <=> MustRecycle
    BY <1>1 DEF MustRecycle, PageCapReached
  <2> QED
    BY <1>1, <2>1, <2>2 DEF Inv, Counted
<1>19. FailuresRemembered'
  <2>1. /\ browser \in Nat /\ launched \in Nat
        /\ \A v \in User : failedOn[v] \in Nat /\ failedOn[v] <= launched
    BY DEF Inv, FailuresRemembered, TypeOK
  <2>2. browser' = 0 \/ browser' > launched
    BY <1>2, <1>4, <2>1
  <2>3. browser' <= launched' /\ launched <= launched' /\ launched' \in Nat
    BY <1>2, <1>4, <2>1
  <2>4. \A v \in User : failedOn'[v] = failedOn[v]
    BY <1>1
  <2>5. \A v \in User : failedOn'[v] <= launched'
    BY <2>1, <2>3, <2>4
  <2>6. \A v \in User : browser' # 0 => failedOn'[v] # browser'
    BY <2>1, <2>2, <2>4
  <2> QED
    BY <2>3, <2>5, <2>6 DEF FailuresRemembered
<1> QED
  BY <1>11, <1>12, <1>14, <1>15, <1>16, <1>17, <1>18, <1>19 DEF Inv

LEMMA CloseSettlesInv ==
    ASSUME Inv, CloseSettles
    PROVE  Inv'
<1>1. /\ MacrotaskTurn
      /\ closing # 0
      /\ closing' = 0
      /\ closePromise' = "null"
      /\ recycleRequested' = FALSE
      /\ pc' = WokenAs(closeWaiters, "closed")
      /\ microtasks' = closeWaiters
      /\ closeWaiters' = <<>>
      /\ UNCHANGED <<browser, initPromise, pageCount, activeUsers, launchVars, launchWaiters,
                     attempt, expired, error, holds, failedOn>>
  BY DEF CloseSettles, FlagAfterClose
<1>2. browser = 0 /\ launches = 0 /\ pageCount = 0 /\ initPromise = "null"
  BY <1>1 DEF Inv, PoolConsistent, TypeOK
<1>3. /\ closeWaiters \in Seq(User) /\ NoDuplicates(closeWaiters)
      /\ ToSet(closeWaiters) = {v \in User : pc[v] = "closing"}
      /\ launchWaiters \in Seq(User) /\ NoDuplicates(launchWaiters)
      /\ ToSet(launchWaiters) = {v \in User : pc[v] = "launching"}
  BY DEF Inv, TypeOK, QueuesExact
<1>4. "closed" \in Ready
  BY DEF Ready
<1>5. /\ NoDuplicates(microtasks')
      /\ ToSet(microtasks') = {v \in User : pc'[v] \in Ready}
      /\ pc' \in [User -> Labels]
      /\ \A v \in User : pc'[v] = IF pc[v] = "closing" THEN "closed" ELSE pc[v]
  BY <1>1, <1>3, <1>4, WakesAll
<1>6. JustLaunched' = {} /\ LaunchFailed' = {}
  <2>1. \A v \in User : pc[v] \notin Ready
    BY <1>1, NobodyIsReady
  <2> QED
    BY <1>5, <2>1 DEF JustLaunched, LaunchFailed, Ready
<1>7. QueuesExact' /\ WokenFirst'
  <2>1. {v \in User : pc'[v] = "launching"} = {v \in User : pc[v] = "launching"}
    BY <1>5
  <2>2. {v \in User : pc'[v] = "closing"} = {}
    BY <1>5
  <2>3. FirstIn(microtasks', {})
    BY DEF FirstIn
  <2> QED
    BY <1>1, <1>3, <1>5, <1>6, <2>1, <2>2, <2>3, ShortQueues DEF QueuesExact, WokenFirst
<1>8. TypeOK'
  <2>1. expired' \in [User -> BOOLEAN] /\ recycleRequested' \in BOOLEAN
    BY <1>1 DEF Inv, TypeOK
  <2>2. microtasks' \in Seq(User) /\ closeWaiters' \in Seq(User) /\ launchWaiters' \in Seq(User)
    BY <1>1, <1>3
  <2> QED
    BY <1>1, <1>5, <2>1, <2>2 DEF Inv, TypeOK, Labels, launchVars
<1>9. PoolConsistent'
  BY <1>1, <1>2 DEF Inv, PoolConsistent, launchVars
<1>10. WaitersConsistent'
  <2>1. \A v \in User : pc'[v] # "closing" /\ (pc'[v] \in {"launching", "launched"} => pc[v] = pc'[v])
    BY <1>5
  <2> QED
    BY <1>1, <1>2, <1>6, <2>1 DEF Inv, WaitersConsistent, launchVars
<1>11. HoldersConsistent'
  BY <1>1, <1>5 DEF Inv, HoldersConsistent, Using
<1>12. Counted'
  <2>1. Holders' = Holders
    BY <1>1 DEF Holders
  <2>2. ~MustRecycle'
    BY <1>1, <1>2, PoolLimits DEF MustRecycle, PageCapReached
  <2> QED
    BY <1>1, <2>1, <2>2 DEF Inv, Counted
<1>13. FailuresRemembered'
  BY <1>1, <1>2 DEF Inv, FailuresRemembered, launchVars
<1> QED
  BY <1>7, <1>8, <1>9, <1>10, <1>11, <1>12, <1>13 DEF Inv

-----------------------------------------------------------------------------
(* The specification.                                                        *)

LEMMA NextInv == Inv /\ [Next]_vars => Inv'
<1> SUFFICES ASSUME Inv, [Next]_vars PROVE Inv'
  OBVIOUS
<1>1. CASE Microtask
  <2>1. PICK u \in User :
            \/ Loop(u) \/ Closed(u) \/ Launched(u)
            \/ StartRender(u)
            \/ AttemptFails(u)
            \/ AttemptSucceeds(u)
    BY <1>1 DEF Microtask
  <2> QED
    BY <2>1, AcquireInv, StartRenderInv, AttemptFailsInv, AttemptSucceedsInv
<1>2. CASE \E outcome \in LaunchOutcomes : LaunchSettles(outcome)
  BY <1>2, LaunchSettlesInv
<1>3. CASE CloseSettles
  BY <1>3, CloseSettlesInv
<1>4. CASE \E u \in User, outcome \in {"ok", "error"} : RenderSettles(u, outcome)
  BY <1>4, RenderSettlesInv
<1>5. CASE \E u \in User : Wake(u)
  BY <1>5, WakeInv
<1>6. CASE \E u \in User : DeadlineTimer(u)
  BY <1>6, DeadlineTimerInv
<1>7. CASE \E u \in User : Begin(u)
  BY <1>7, BeginInv
<1>8. CASE (\E u \in User : DeadlinePasses(u)) \/ UNCHANGED vars
  BY <1>8, ClockInv
<1>9. CASE AllOver
  BY <1>9, ClockInv DEF AllOver
<1> QED
  BY <1>1, <1>2, <1>3, <1>4, <1>5, <1>6, <1>7, <1>8, <1>9 DEF Next

LEMMA InvHolds == Spec => []Inv
<1> QED
  BY InitInv, NextInv, PTL DEF Spec

\* The fields of the pool, the queues of the event loop and the users' own
\* variables always have their types.
THEOREM PoolTypeCorrect == Spec => []TypeOK
<1>1. Inv => TypeOK
  BY DEF Inv
<1> QED
  BY InvHolds, <1>1, PTL

\* The reference count is the number of users with a browser, whatever order
\* results, errors and deadlines come in, and no browser serves more than
\* MaxPages pages.
THEOREM CountsCorrect == Spec => []UsersAndPagesCounted
<1>1. Inv => UsersAndPagesCounted
  BY DEF Inv, Counted, PoolConsistent, UsersAndPagesCounted
<1> QED
  BY InvHolds, <1>1, PTL

\* Nobody's browser is closed or replaced under them, and at most one Chromium
\* is starting, open or closing.
THEOREM OneChromium == Spec => []OneOpenChromium
<1>1. Inv => OneOpenChromium
  <2> SUFFICES ASSUME Inv PROVE OneOpenChromium
    OBVIOUS
  <2>1. \A u \in Holders : holds[u] = browser
    BY DEF Inv, HoldersConsistent, Holders
  <2>2. launches + (IF browser = 0 THEN 0 ELSE 1) + (IF closing = 0 THEN 0 ELSE 1) <= 1
    BY DEF Inv, PoolConsistent, TypeOK
  <2> QED
    BY <2>1, <2>2 DEF OneOpenChromium
<1> QED
  BY InvHolds, <1>1, PTL

\* Whoever awaits the end of a recycle or of a launch awaits one that is still to come,
\* whatever failed launches, recycles without a browser and missed deadlines came before.
THEOREM WaitersCorrect == Spec => []NoLostWaiter
<1>1. Inv => NoLostWaiter
  BY DEF Inv, WaitersConsistent, TypeOK, NoLostWaiter
<1> QED
  BY InvHolds, <1>1, PTL

\* The attempt after a failed render gets another browser, however many others
\* still use the one that failed.
THEOREM FreshBrowser == Spec => []RetryGetsFreshBrowser
<1>1. Inv => RetryGetsFreshBrowser
  <2> SUFFICES ASSUME Inv, NEW u \in User, holds[u] # 0, holds[u] = failedOn[u]
               PROVE  FALSE
    BY DEF RetryGetsFreshBrowser, Holders
  <2>1. pc[u] \in Using \cup {"failed"} /\ holds[u] = browser
    BY DEF Inv, HoldersConsistent
  <2>2. pc[u] \notin Over
    BY <2>1 DEF Using, Over
  <2> QED
    BY <2>1, <2>2 DEF Inv, FailuresRemembered
<1> QED
  BY InvHolds, <1>1, PTL

-----------------------------------------------------------------------------
(* What single steps may do.                                                 *)

\* Apart from the microtasks only CloseSettles touches the request for a recycle.
LEMMA MacrotasksKeepRequest ==
    ASSUME Inv, [Next]_vars, ~Microtask, ~CloseSettles
    PROVE  recycleRequested' = recycleRequested
<1>1. CASE \E outcome \in LaunchOutcomes : LaunchSettles(outcome)
  BY <1>1 DEF LaunchSettles
<1>2. CASE \E u \in User, outcome \in {"ok", "error"} : RenderSettles(u, outcome)
  BY <1>2 DEF RenderSettles, poolVars
<1>3. CASE \E u \in User : Wake(u) \/ DeadlineTimer(u)
  BY <1>3 DEF Wake, DeadlineTimer, poolVars
<1>4. CASE \E u \in User : Begin(u) \/ DeadlinePasses(u)
  BY <1>4 DEF Begin, DeadlinePasses, poolVars
<1>5. CASE AllOver \/ UNCHANGED vars
  BY <1>5 DEF AllOver, vars, poolVars
<1> QED
  BY <1>1, <1>2, <1>3, <1>4, <1>5 DEF Next

\* Only the page cap, or an attempt that failed with another error than a missed
\* deadline, makes a pool request a recycle.
LEMMA RequestStep ==
    ASSUME Inv, [Next]_vars, recycleRequested', ~recycleRequested
    PROVE  \/ PageCapReached
           \/ \E u \in User : IsHead(u) /\ pc[u] = "failed" /\ error[u] = "error"
<1>1. CASE Microtask
  <2>1. PICK u \in User :
            \/ Loop(u) \/ Closed(u) \/ Launched(u)
            \/ StartRender(u) \/ AttemptFails(u)
            \/ AttemptSucceeds(u)
    BY <1>1 DEF Microtask
  <2>2. CASE Loop(u) \/ Closed(u) \/ Launched(u)
    <3>1. Waits(u) \/ StartsLaunch(u) \/ Gets(u)
      BY <2>2, AcquireEffect
    <3>2. MustRecycle
      BY <3>1 DEF Waits, StartsLaunch, Gets
    <3> QED
      BY <3>2 DEF MustRecycle
  <2>3. ASSUME NEW users, NEW requested, RecycleIfIdle(users, requested)
        PROVE  requested
    BY <2>3 DEF RecycleIfIdle, Recycle
  <2>4. ASSUME FailAttempt(u, "deadline") PROVE FALSE
    <3>1. ~UnhealthyAfter("deadline")
      BY DEF UnhealthyAfter
    <3>2. UNCHANGED <<poolVars, activeUsers>>
      BY <2>3, <2>4, <3>1 DEF FailAttempt
    <3> QED
      BY <3>2 DEF poolVars
  <2>5. CASE StartRender(u)
    <3>1. UNCHANGED poolVars
      BY <2>4, <2>5 DEF StartRender
    <3> QED
      BY <3>1 DEF poolVars
  <2>6. CASE AttemptFails(u)
    <3>1. IsHead(u) /\ pc[u] = "failed" /\ FailAttempt(u, error[u])
      BY <2>6 DEF AttemptFails
    <3>2. error[u] \in {"error", "deadline"}
      BY <3>1 DEF Inv, TypeOK, HoldersConsistent
    <3> QED
      BY <2>4, <3>1, <3>2
  <2>7. CASE AttemptSucceeds(u)
    BY <2>3, <2>7 DEF AttemptSucceeds
  <2> QED
    BY <2>1, <2>2, <2>5, <2>6, <2>7
<1>2. CASE CloseSettles
  BY <1>2 DEF CloseSettles, FlagAfterClose
<1>3. CASE ~Microtask /\ ~CloseSettles
  BY <1>3, MacrotasksKeepRequest
<1> QED
  BY <1>1, <1>2, <1>3

\* Running out of budget says nothing about Chromium's health.
THEOREM DeadlinesAreNoFailures == Spec => DeadlineDoesNotRecycle
<1>1. Inv /\ [Next]_vars =>
          [recycleRequested' /\ ~recycleRequested =>
               \/ PageCapReached
               \/ \E u \in User : IsHead(u) /\ pc[u] = "failed" /\ error[u] = "error"]_vars
  BY RequestStep
<1> QED
  BY InvHolds, <1>1, PTL DEF Spec, DeadlineDoesNotRecycle

\* acquire() calls recycleIfIdle, but a browser that is due for recycling still
\* has users whenever acquire() finds it, so that the call only leaves the
\* request behind: it is always the last user to leave, or a failed launch, that
\* starts a recycle.
THEOREM AcquireNeverRecycles ==
    Spec => [][\A u \in User : Loop(u) \/ Closed(u) \/ Launched(u) =>
                   UNCHANGED <<browser, closing, closePromise>>]_vars
<1>1. ASSUME Inv, NEW u \in User, Loop(u) \/ Closed(u) \/ Launched(u)
      PROVE  UNCHANGED <<browser, closing, closePromise>>
  BY <1>1, AcquireEffect DEF Waits, StartsLaunch, Gets
<1>2. Inv /\ [Next]_vars =>
          [\A u \in User : Loop(u) \/ Closed(u) \/ Launched(u) =>
               UNCHANGED <<browser, closing, closePromise>>]_vars
  BY <1>1
<1> QED
  BY InvHolds, <1>2, PTL DEF Spec

\* A browser that is due for recycling while the promise of an earlier recycle
\* is still in its field.
Wedged == closePromise = "settled" /\ browser # 0 /\ MustRecycle

LEMMA WedgedStep ==
    ASSUME Inv, [Next]_vars, Wedged
    PROVE  Wedged' /\ Holders' \subseteq Holders
<1>1. closePromise = "settled" /\ browser # 0 /\ launches = 0 /\ closing = 0
  BY DEF Wedged, Inv, PoolConsistent, TypeOK
<1>2. ASSUME NEW users, NEW requested, recycleRequested => requested,
             RecycleIfIdle(users, requested)
      PROVE  Wedged'
  <2>1. ~CanRecycle(users, requested)
    BY <1>1 DEF CanRecycle
  <2>2. /\ recycleRequested' = requested
        /\ UNCHANGED <<browser, closePromise, initPromise, pageCount, closing>>
    BY <1>2, <2>1 DEF RecycleIfIdle
  <2>3. PageCapReached' <=> PageCapReached
    BY <2>2 DEF PageCapReached
  <2> QED
    BY <1>1, <1>2, <2>2, <2>3 DEF Wedged, MustRecycle
<1>3. ASSUME UNCHANGED poolVars PROVE Wedged'
  BY <1>3 DEF poolVars, Wedged, MustRecycle, PageCapReached
<1>4. ASSUME NEW u \in User, holds' = holds \/ holds' = [holds EXCEPT ![u] = 0]
      PROVE  Holders' \subseteq Holders
  BY <1>4 DEF Holders, Inv, TypeOK
<1>5. CASE Microtask
  <2>1. PICK u \in User :
            \/ Loop(u) \/ Closed(u) \/ Launched(u)
            \/ StartRender(u) \/ AttemptFails(u)
            \/ AttemptSucceeds(u)
    BY <1>5 DEF Microtask
  <2>2. CASE Loop(u) \/ Closed(u) \/ Launched(u)
    <3>1. Waits(u)
      BY <1>1, <2>2, AcquireEffect DEF StartsLaunch, Gets, Wedged
    <3>2. UNCHANGED <<browser, closePromise, pageCount, holds>>
      BY <3>1 DEF Waits
    <3>3. PageCapReached' <=> PageCapReached
      BY <3>2 DEF PageCapReached
    <3>4. MustRecycle'
      BY <3>1, <3>3 DEF Waits, Wedged, MustRecycle
    <3> QED
      BY <1>1, <1>4, <3>2, <3>4 DEF Wedged
  <2>3. ASSUME NEW why, FailAttempt(u, why) PROVE Wedged' /\ Holders' \subseteq Holders
    <3>1. recycleRequested => UnhealthyAfter(why)
      BY DEF UnhealthyAfter
    <3>2. /\ holds' = [holds EXCEPT ![u] = 0]
          /\ \/ \E users : RecycleIfIdle(users, UnhealthyAfter(why))
             \/ UNCHANGED poolVars
      BY <2>3 DEF FailAttempt
    <3> QED
      BY <1>2, <1>3, <1>4, <3>1, <3>2
  <2>4. CASE StartRender(u)
    <3>1. CASE FailAttempt(u, "deadline")
      BY <2>3, <3>1
    <3>2. CASE ~FailAttempt(u, "deadline")
      BY <1>3, <1>4, <2>4, <3>2 DEF StartRender
    <3> QED
      BY <3>1, <3>2
  <2>5. CASE AttemptFails(u)
    BY <2>3, <2>5 DEF AttemptFails
  <2>6. CASE AttemptSucceeds(u)
    BY <1>2, <1>4, <2>6 DEF AttemptSucceeds
  <2> QED
    BY <2>1, <2>2, <2>4, <2>5, <2>6
<1>6. CASE \E outcome \in LaunchOutcomes : LaunchSettles(outcome)
  BY <1>1, <1>6 DEF LaunchSettles, Inv, TypeOK
<1>7. CASE CloseSettles
  BY <1>1, <1>7 DEF CloseSettles
<1>8. CASE ~Microtask /\ ~CloseSettles /\ ~(\E outcome \in LaunchOutcomes : LaunchSettles(outcome))
  <2>1. UNCHANGED poolVars /\ holds' = holds
    <3>1. CASE \E u \in User, outcome \in {"ok", "error"} : RenderSettles(u, outcome)
      BY <3>1 DEF RenderSettles
    <3>2. CASE \E u \in User : Wake(u) \/ DeadlineTimer(u)
      BY <3>2 DEF Wake, DeadlineTimer
    <3>3. CASE \E u \in User : Begin(u) \/ DeadlinePasses(u)
      BY <3>3 DEF Begin, DeadlinePasses
    <3>4. CASE AllOver \/ UNCHANGED vars
      BY <3>4 DEF AllOver, vars, userVars
    <3> QED
      BY <1>8, <3>1, <3>2, <3>3, <3>4 DEF Next
  <2>2. Holders' = Holders
    BY <2>1 DEF Holders
  <2> QED
    BY <1>3, <2>1, <2>2
<1> QED
  BY <1>5, <1>6, <1>7, <1>8

\* The disagreement that the run with failing launches shows on two users, for
\* any number of them: once a recycle is due and the promise of the recycle after
\* a failed launch is in the way, that browser is kept and nobody gets it again.
THEOREM WedgedForGood == Spec => [][Wedged => Wedged' /\ Holders' \subseteq Holders]_vars
<1>1. Inv /\ [Next]_vars => [Wedged => Wedged' /\ Holders' \subseteq Holders]_vars
  BY WedgedStep
<1> QED
  BY InvHolds, <1>1, PTL DEF Spec

-----------------------------------------------------------------------------
(* What keeps the event loop going.                                          *)

\* Only a failed launch leaves a settled promise of a recycle behind.
NoLaunchFailed == closePromise # "settled" /\ LaunchFailed = {}

LEMMA NoLaunchFailedStep ==
    ASSUME "error" \notin LaunchOutcomes, Inv, NoLaunchFailed, [Next]_vars
    PROVE  NoLaunchFailed'
<1>1. /\ pc \in [User -> Labels] /\ holds \in [User -> Nat]
      /\ error \in [User -> {"none", "error", "deadline"}]
      /\ closePromise \in {"null", "pending", "settled"} /\ closePromise # "settled"
  BY DEF Inv, TypeOK, Labels, NoLaunchFailed
<1>2. \A v \in User : ~(pc[v] = "failed" /\ error[v] = "error" /\ holds[v] = 0)
  BY DEF NoLaunchFailed, LaunchFailed
<1>3. ASSUME NEW users, NEW requested, RecycleIfIdle(users, requested), browser # 0
      PROVE  closePromise' # "settled"
  BY <1>1, <1>3 DEF RecycleIfIdle, Recycle, ClosePromiseOfRecycle
<1>4. ASSUME NEW u \in User, IsHead(u), NEW why \in {"error", "deadline"}, FailAttempt(u, why),
             why = "deadline" \/ (pc[u] = "failed" /\ error[u] = "error")
      PROVE  NoLaunchFailed'
  <2>1. /\ holds' = [holds EXCEPT ![u] = 0]
        /\ error' = [error EXCEPT ![u] = "none"]
        /\ \E label : pc' = [pc EXCEPT ![u] = label]
    BY <1>4 DEF FailAttempt, Continue, Suspend
  <2>2. LaunchFailed' = {}
    BY <1>1, <1>2, <2>1 DEF LaunchFailed
  <2>3. CASE holds[u] # 0
    BY <1>3, <1>4, <2>2, <2>3 DEF FailAttempt, Inv, HoldersConsistent, NoLaunchFailed
  <2>4. CASE holds[u] = 0
    <3>1. why = "deadline"
      BY <1>2, <1>4, <2>4
    <3>2. UNCHANGED poolVars
      BY <1>4, <2>4, <3>1 DEF FailAttempt
    <3> QED
      BY <1>1, <2>2, <3>2 DEF poolVars, NoLaunchFailed
  <2> QED
    BY <2>3, <2>4
<1>5. ASSUME Microtask
      PROVE  NoLaunchFailed'
  <2>1. PICK u \in User :
            \/ Loop(u) \/ Closed(u) \/ Launched(u)
            \/ StartRender(u) \/ AttemptFails(u)
            \/ AttemptSucceeds(u)
    BY <1>5 DEF Microtask
  <2>2. CASE Loop(u) \/ Closed(u) \/ Launched(u)
    <3>1. PICK label :
              /\ closePromise' = closePromise
              /\ \A v \in User : v # u => holds'[v] = holds[v]
              /\ Moves(u, label) /\ ErrorOf(u, label)
      BY <1>1, <2>2, AcquireEffect DEF Waits, StartsLaunch, Gets
    <3>2. LaunchFailed' = {}
      BY <1>1, <1>2, <3>1 DEF LaunchFailed, Moves, ErrorOf
    <3> QED
      BY <1>1, <3>1, <3>2 DEF NoLaunchFailed
  <2>3. CASE StartRender(u)
    <3>1. CASE FailAttempt(u, "deadline")
      BY <1>4, <2>3, <3>1 DEF StartRender
    <3>2. CASE ~FailAttempt(u, "deadline")
      <4>1. /\ pc' = [pc EXCEPT ![u] = "rendering"]
            /\ UNCHANGED <<closePromise, error, holds>>
        BY <2>3, <3>2 DEF StartRender, Suspend, poolVars
      <4> QED
        BY <1>1, <1>2, <4>1 DEF NoLaunchFailed, LaunchFailed
    <3> QED
      BY <3>1, <3>2
  <2>4. CASE AttemptFails(u)
    <3>1. IsHead(u) /\ pc[u] = "failed" /\ FailAttempt(u, error[u])
      BY <2>4 DEF AttemptFails
    <3>2. error[u] \in {"error", "deadline"}
      BY <1>1, <3>1 DEF Inv, HoldersConsistent
    <3> QED
      BY <1>4, <3>1, <3>2
  <2>5. CASE AttemptSucceeds(u)
    <3>1. /\ pc' = [pc EXCEPT ![u] = "done"] /\ holds' = [holds EXCEPT ![u] = 0]
          /\ error' = error
          /\ \E users : RecycleIfIdle(users, recycleRequested)
          /\ browser # 0
      BY <2>5 DEF AttemptSucceeds, Suspend, Inv, HoldersConsistent, Using
    <3>2. LaunchFailed' = {}
      BY <1>1, <1>2, <3>1 DEF LaunchFailed
    <3> QED
      BY <1>3, <3>1, <3>2 DEF NoLaunchFailed
  <2> QED
    BY <2>1, <2>2, <2>3, <2>4, <2>5
<1>6. ASSUME NEW outcome \in LaunchOutcomes, LaunchSettles(outcome)
      PROVE  NoLaunchFailed'
  <2>1. outcome = "ok"
    BY <1>6, PoolLimits
  <2>2. /\ pc' = WokenAs(launchWaiters, "launched")
        /\ UNCHANGED <<closePromise, error, holds>>
    BY <1>6, <2>1 DEF LaunchSettles
  <2> QED
    BY <1>1, <1>2, <2>2 DEF WokenAs, NoLaunchFailed, LaunchFailed
<1>7. ASSUME CloseSettles
      PROVE  NoLaunchFailed'
  BY <1>1, <1>2, <1>7 DEF CloseSettles, WokenAs, NoLaunchFailed, LaunchFailed
<1>8. ASSUME NEW u \in User, NEW outcome \in {"ok", "error"}, RenderSettles(u, outcome)
      PROVE  NoLaunchFailed'
  <2>1. holds[u] # 0
    BY <1>8 DEF RenderSettles, Inv, HoldersConsistent, Using
  <2>2. /\ \E label : pc' = [pc EXCEPT ![u] = label]
        /\ error' = error \/ error' = [error EXCEPT ![u] = "error"]
        /\ UNCHANGED <<closePromise, holds>>
    BY <1>8 DEF RenderSettles, poolVars
  <2> QED
    BY <1>1, <1>2, <2>1, <2>2 DEF NoLaunchFailed, LaunchFailed
<1>9. ASSUME NEW u \in User, Wake(u) \/ DeadlineTimer(u) \/ Begin(u) \/ DeadlinePasses(u)
      PROVE  NoLaunchFailed'
  <2>1. /\ UNCHANGED <<closePromise, holds>>
        /\ \/ pc' = [pc EXCEPT ![u] = "loop"] /\ error' = error
           \/ pc' = [pc EXCEPT ![u] = "failed"] /\ error' = [error EXCEPT ![u] = "deadline"]
           \/ UNCHANGED <<pc, error>>
    BY <1>9 DEF Wake, DeadlineTimer, Begin, DeadlinePasses, poolVars
  <2> QED
    BY <1>1, <1>2, <2>1 DEF NoLaunchFailed, LaunchFailed
<1>10. CASE AllOver \/ UNCHANGED vars
  BY <1>1, <1>2, <1>10 DEF AllOver, vars, poolVars, userVars, NoLaunchFailed, LaunchFailed
<1> QED
  BY <1>5, <1>6, <1>7, <1>8, <1>9, <1>10 DEF Next

\* The pool gets wedged by failing launches and nothing else: while Chromium launches,
\* no order of failing renders, deadlines and page caps leaves a browser that is due
\* for recycling and cannot be recycled.
THEOREM NeverWedgedWhileLaunching ==
    ASSUME "error" \notin LaunchOutcomes
    PROVE  Spec => []~Wedged
<1>1. Init => NoLaunchFailed
  BY DEF Init, NoLaunchFailed, LaunchFailed
<1>2. NoLaunchFailed => ~Wedged
  BY DEF NoLaunchFailed, Wedged
<1> QED
  BY <1>1, <1>2, NoLaunchFailedStep, InvHolds, PTL DEF Spec

\* How many microtasks u may still run in a row, whatever it awaits being settled.
Rank(label) ==
    CASE label = "loop" -> 3
      [] label \in {"closed", "launched"} -> 2
      [] OTHER -> 1

Work(u) == 3 * (MaxAttempts - attempt[u]) + Rank(pc[u])

Advances(u) ==
    /\ IsHead(u)
    /\ pc'[u] \notin Ready \/ Work(u)' < Work(u)
    /\ \A v \in User \ {u} : pc'[v] = pc[v] /\ attempt'[v] = attempt[v]

LEMMA MicrotaskAdvances ==
    ASSUME Inv, Microtask, ~Wedged
    PROVE  \E u \in User : Advances(u)
<1>1. PICK u \in User :
          \/ Loop(u) \/ Closed(u) \/ Launched(u)
          \/ StartRender(u) \/ AttemptFails(u)
          \/ AttemptSucceeds(u)
  BY DEF Microtask
<1>2. /\ pc \in [User -> Labels] /\ attempt \in [User -> 1..MaxAttempts]
      /\ attempt[u] \in 1..MaxAttempts /\ MaxAttempts \in Nat
  BY PoolLimits DEF Inv, TypeOK, Labels
<1>3. ASSUME NEW label, pc' = [pc EXCEPT ![u] = label], attempt' = attempt, IsHead(u),
             label \notin Ready \/ Rank(label) < Rank(pc[u])
      PROVE  Advances(u)
  <2>1. pc'[u] = label /\ attempt'[u] = attempt[u]
    BY <1>2, <1>3
  <2>2. label \notin Ready \/ Work(u)' < Work(u)
    <3>1. \A l : Rank(l) \in 1..3
      BY DEF Rank
    <3>2. Rank(label) \in 1..3 /\ Rank(pc[u]) \in 1..3 /\ Rank(pc'[u]) = Rank(label)
      BY <2>1, <3>1
    <3>3. Work(u)' = 3 * (MaxAttempts - attempt[u]) + Rank(label)
      BY <2>1 DEF Work, Rank
    <3> QED
      BY <1>2, <1>3, <3>2, <3>3 DEF Work
  <2> QED
    BY <1>2, <1>3, <2>1, <2>2 DEF Advances
<1>4. ASSUME NEW why \in {"error", "deadline"}, FailAttempt(u, why), IsHead(u),
             pc[u] \in {"acquired", "failed"}
      PROVE  Advances(u)
  <2>1. CASE why = "error" /\ ~LastAttempt(u)
    <3>1. /\ attempt' = [attempt EXCEPT ![u] = attempt[u] + 1]
          /\ pc' = [pc EXCEPT ![u] = "loop"]
      BY <2>1, <1>4 DEF FailAttempt, Continue
    <3>2. Work(u)' = 3 * (MaxAttempts - (attempt[u] + 1)) + 3
      BY <1>2, <3>1 DEF Work, Rank
    <3>3. Work(u) = 3 * (MaxAttempts - attempt[u]) + 1
      BY <1>4 DEF Work, Rank
    <3>4. Work(u)' < Work(u)
      BY <1>2, <3>2, <3>3
    <3>5. \A v \in User \ {u} : pc'[v] = pc[v] /\ attempt'[v] = attempt[v]
      BY <1>2, <3>1
    <3> QED
      BY <1>4, <3>4, <3>5 DEF Advances
  <2>2. CASE why = "deadline" \/ LastAttempt(u)
    <3>1. attempt' = attempt /\ pc' = [pc EXCEPT ![u] = "threw"]
      BY <2>2, <1>4 DEF FailAttempt, Suspend
    <3> QED
      BY <1>3, <1>4, <3>1 DEF Ready
  <2> QED
    BY <2>1, <2>2
<1>5. CASE Loop(u) \/ Closed(u) \/ Launched(u)
  <2>1. /\ IsHead(u) /\ pc[u] \in {"loop", "closed", "launched"} /\ attempt' = attempt
        /\ Waits(u) \/ StartsLaunch(u) \/ Gets(u)
    BY <1>5, AcquireEffect
  <2>2. PICK label \in {"failed", "closing", "closed", "sleeping", "launching", "acquired"} :
            /\ pc' = [pc EXCEPT ![u] = label]
            /\ label = "closed" => closePromise = "settled"
    BY <2>1 DEF Waits, StartsLaunch, Gets, Moves
  <2>3. label # "closed" => label \notin Ready \/ Rank(label) < Rank(pc[u])
    BY <2>1, <2>2 DEF Ready, Rank
  <2>4. CASE label = "closed"
    <3>1. closePromise = "settled" /\ pc'[u] = "closed"
      BY <1>2, <2>2, <2>4
    <3>2. ~(browser # 0 /\ TryAcquire(u))
      <4>1. SUFFICES ASSUME browser # 0, TryAcquire(u) PROVE FALSE
        OBVIOUS
      <4>2. ~MustRecycle
        BY <3>1, <4>1 DEF Wedged
      <4>3. pc' = [pc EXCEPT ![u] = "failed"] \/ pc' = [pc EXCEPT ![u] = "acquired"]
        BY <4>1, <4>2 DEF TryAcquire, Throw, Continue
      <4> QED
        BY <1>2, <3>1, <4>3
    <3>3. ~AwaitLaunch(u)
      <4>1. SUFFICES ASSUME AwaitLaunch(u) PROVE FALSE
        OBVIOUS
      <4>2. pc' = [pc EXCEPT ![u] = "failed"] \/ pc' = [pc EXCEPT ![u] = "launching"]
        BY <4>1 DEF AwaitLaunch, Throw, Continue, Suspend
      <4> QED
        BY <1>2, <3>1, <4>2
    <3>4. pc[u] = "loop"
      <4>1. ~Launched(u)
        BY <3>2 DEF Launched, Inv, WaitersConsistent
      <4>2. ~Closed(u)
        BY <3>2, <3>3 DEF Closed, AfterClose
      <4> QED
        BY <1>5, <4>1, <4>2 DEF Loop
    <3>5. Rank(label) < Rank(pc[u])
      BY <2>4, <3>4 DEF Rank
    <3> QED
      BY <1>3, <2>1, <2>2, <3>5
  <2> QED
    BY <1>3, <2>1, <2>2, <2>3, <2>4
<1>6. CASE StartRender(u)
  <2>1. IsHead(u) /\ pc[u] = "acquired"
    BY <1>6 DEF StartRender
  <2>2. CASE FailAttempt(u, "deadline")
    BY <1>4, <2>1, <2>2
  <2>3. CASE ~FailAttempt(u, "deadline")
    <3>1. pc' = [pc EXCEPT ![u] = "rendering"] /\ attempt' = attempt
      BY <1>6, <2>3 DEF StartRender, Suspend
    <3> QED
      BY <1>3, <2>1, <3>1 DEF Ready
  <2> QED
    BY <2>2, <2>3
<1>7. CASE AttemptFails(u)
  <2>1. IsHead(u) /\ pc[u] = "failed" /\ FailAttempt(u, error[u])
    BY <1>7 DEF AttemptFails
  <2>2. error[u] \in {"error", "deadline"}
    BY <2>1 DEF Inv, TypeOK, HoldersConsistent
  <2> QED
    BY <1>4, <2>1, <2>2
<1>8. CASE AttemptSucceeds(u)
  <2>1. pc' = [pc EXCEPT ![u] = "done"] /\ attempt' = attempt /\ IsHead(u)
    BY <1>8 DEF AttemptSucceeds, Suspend
  <2> QED
    BY <1>3, <2>1 DEF Ready
<1> QED
  BY <1>1, <1>5, <1>6, <1>7, <1>8

\* Waiting users leave the event loop its turns: each microtask of a pool that is not
\* wedged either takes its user out of the queue or brings it nearer to its last
\* attempt, of which it has at most 3 * MaxAttempts microtasks to go, and no other user
\* gets any farther from it.  Only in a wedged pool can acquire() go round and round.
THEOREM EventLoopAdvances ==
    Spec => [][Microtask /\ ~Wedged =>
                  \E u \in User :
                      /\ IsHead(u)
                      /\ u \notin ToSet(microtasks') \/ Work(u)' < Work(u)
                      /\ Work(u) \in 1..(3 * MaxAttempts)
                      /\ \A v \in User \ {u} :
                            /\ Work(v)' = Work(v)
                            /\ v \in ToSet(microtasks') <=> v \in ToSet(microtasks)]_vars
<1> DEFINE Step == Microtask /\ ~Wedged =>
                  \E u \in User :
                      /\ IsHead(u)
                      /\ u \notin ToSet(microtasks') \/ Work(u)' < Work(u)
                      /\ Work(u) \in 1..(3 * MaxAttempts)
                      /\ \A v \in User \ {u} :
                            /\ Work(v)' = Work(v)
                            /\ v \in ToSet(microtasks') <=> v \in ToSet(microtasks)
<1>1. ASSUME Inv, Inv', Microtask, ~Wedged
      PROVE  Step
  <2>1. PICK u \in User : Advances(u)
    BY <1>1, MicrotaskAdvances
  <2>2. /\ ToSet(microtasks) = {v \in User : pc[v] \in Ready}
        /\ ToSet(microtasks') = {v \in User : pc'[v] \in Ready}
    BY <1>1 DEF Inv, QueuesExact
  <2>3. ASSUME NEW v \in User, pc'[v] = pc[v], attempt'[v] = attempt[v]
        PROVE  Work(v)' = Work(v)
    BY <2>3 DEF Work, Rank
  <2>4. Work(u) \in 1..(3 * MaxAttempts)
    <3>1. attempt[u] \in 1..MaxAttempts /\ MaxAttempts \in Nat /\ Rank(pc[u]) \in 1..3
      BY <1>1, PoolLimits DEF Inv, TypeOK, Rank
    <3> QED
      BY <3>1 DEF Work
  <2> QED
    BY <2>1, <2>2, <2>3, <2>4 DEF Advances
<1> HIDE DEF Step
<1>2. Inv /\ Inv' /\ [Next]_vars => [Step]_vars
  BY <1>1 DEF Step
<1>3. Spec => [][Step]_vars
  BY <1>2, InvHolds, PTL DEF Spec
<1> QED
  BY <1>3 DEF Step

=============================================================================

---------------------------- MODULE DemoAskProofs ----------------------------
(***************************************************************************)
(* Theorems about DemoAsk, for every number of requests and addresses and  *)
(* every setting of the limits.                                            *)
(***************************************************************************)
EXTENDS DemoAsk, FiniteSetTheorems, SequenceTheorems, WellFoundedInduction, TLAPS

-----------------------------------------------------------------------------
(* The limiter's deques.                                                   *)

\* A nonempty set of natural numbers has a smallest element.
LEMMA Least ==
  ASSUME NEW T \in SUBSET Nat, NEW n \in T
  PROVE  \E k \in T : \A i \in T : k <= i
<1> DEFINE R == {p \in Nat \X Nat : p[1] < p[2]}
<1>1. IsWellFoundedOn(R, Nat)
  BY NatLessThanWellFounded DEF OpToRel
<1> HIDE DEF R
<1>2. PICK k \in T : \A i \in T : ~(<<i, k>> \in R)
  BY <1>1, WFMin
<1>3. \A i \in T : i \in Nat /\ k \in Nat /\ ~(i < k)
  BY <1>2 DEF R
<1> QED
  BY <1>3

\* popleft stops: there is a longest run of old hits at the left end.
LEMMA SomeExpired ==
  ASSUME TypeOK, NEW q \in Seq(0..MaxTime), NEW width \in Int
  PROVE  \E k \in 0..Len(q) : Expired(q, width, k)
<1> DEFINE T == {k \in 0..Len(q) : k < Len(q) => now - q[k + 1] < width}
<1>1. Len(q) \in Nat /\ Len(q) \in T /\ T \in SUBSET Nat
  OBVIOUS
<1>2. PICK k \in T : \A i \in T : k <= i
  BY <1>1, Least
<1>3. k \in 0..Len(q) /\ (k < Len(q) => now - q[k + 1] < width)
  OBVIOUS
<1>4. ASSUME NEW i \in 1..k
      PROVE  now - q[i] >= width
  <2>1. /\ i \in Int /\ k \in Int /\ i \in 1..Len(q)
        /\ i - 1 \in 0..Len(q) /\ i - 1 < Len(q) /\ (i - 1) + 1 = i
        /\ ~(k <= i - 1)
    BY <1>1, <1>3
  <2>2. i - 1 \notin T
    BY <1>2, <2>1
  <2>4. ~(now - q[(i - 1) + 1] < width)
    BY <2>1, <2>2
  <2>3. now \in Int /\ q[i] \in Int
    BY <2>1, DemoAssumption DEF TypeOK
  <2> QED
    BY <2>1, <2>3, <2>4
<1> QED
  BY <1>3, <1>4 DEF Expired

\* What popleft leaves: the deque without its k oldest hits, all of them old.
LEMMA RecentFacts ==
  ASSUME TypeOK, NEW q \in Seq(0..MaxTime)
  PROVE  \E k \in 0..Len(q) :
           /\ \A i \in 1..k : now - q[i] >= Window
           /\ Recent(q) \in Seq(0..MaxTime)
           /\ Len(Recent(q)) = Len(q) - k
           /\ \A i \in 1..(Len(q) - k) : Recent(q)[i] = q[i + k]
<1> DEFINE k == CHOOSE k \in 0..Len(q) : Expired(q, Window, k)
<1>0. Window \in Int
  BY DemoAssumption
<1>1. k \in 0..Len(q) /\ Expired(q, Window, k)
  BY <1>0, SomeExpired
<1>2. Recent(q) = SubSeq(q, k + 1, Len(q))
  BY DEF Recent, DropExpired
<1> HIDE DEF k
<1>3. /\ k + 1 \in Int /\ Len(q) \in Int /\ k \in Nat /\ Len(q) \in Nat /\ k <= Len(q)
      /\ \A i \in (k + 1)..Len(q) : q[i] \in 0..MaxTime
  <2>1. k \in 0..Len(q) /\ Len(q) \in Nat /\ k \in Nat /\ k <= Len(q)
    BY <1>1
  <2>2. \A i \in (k + 1)..Len(q) : i \in 1..Len(q)
    BY <2>1
  <2>3. \A i \in 1..Len(q) : q[i] \in 0..MaxTime
    BY ElementOfSeq
  <2> QED
    BY <2>1, <2>2, <2>3
<1>4. /\ SubSeq(q, k + 1, Len(q)) \in Seq(0..MaxTime)
      /\ Len(SubSeq(q, k + 1, Len(q))) =
           IF k + 1 <= Len(q) THEN Len(q) - (k + 1) + 1 ELSE 0
      /\ \A i \in 1..(Len(q) - (k + 1) + 1) :
           SubSeq(q, k + 1, Len(q))[i] = q[(k + 1) + i - 1]
  BY <1>3, SubSeqProperties
<1>5. /\ Len(Recent(q)) = Len(q) - k
      /\ \A i \in 1..(Len(q) - k) : Recent(q)[i] = q[i + k]
  <2>1. Len(q) - (k + 1) + 1 = Len(q) - k
    BY <1>3
  <2>2. \A i \in 1..(Len(q) - k) : (k + 1) + i - 1 = i + k
    BY <1>3
  <2>3. Len(Recent(q)) = Len(q) - k
    <3>1. Len(Recent(q)) = IF k + 1 <= Len(q) THEN Len(q) - (k + 1) + 1 ELSE 0
      BY <1>2, <1>4
    <3>2. CASE k + 1 <= Len(q)
      BY <3>1, <3>2, <2>1
    <3>3. CASE ~(k + 1 <= Len(q))
      BY <3>1, <3>3, <1>3
    <3> QED
      BY <3>2, <3>3
  <2>4. ASSUME NEW i \in 1..(Len(q) - k)
        PROVE  Recent(q)[i] = q[i + k]
    <3>1. SubSeq(q, k + 1, Len(q))[i] = q[(k + 1) + i - 1]
      BY <1>4, <2>1
    <3> QED
      BY <1>2, <2>2, <3>1
  <2> QED
    BY <2>3, <2>4
<1> QED
  BY <1>1, <1>2, <1>4, <1>5 DEF Expired

LEMMA TrackedType ==
  ASSUME TypeOK
  PROVE  Tracked \in [Addresses -> Seq(0..MaxTime)]
<1>1. \A a \in Addresses : hits[a] \in Seq(0..MaxTime) /\ Purged(hits[a]) \in Seq(0..MaxTime)
  <2>1. \A a \in Addresses : hits[a] \in Seq(0..MaxTime)
    BY DEF TypeOK
  <2>2. <<>> \in Seq(0..MaxTime)
    OBVIOUS
  <2> QED
    BY <2>1, <2>2, Zenon DEF Purged
<1> QED
  BY <1>1 DEF TypeOK, Tracked

LEMMA AfterAllowType ==
  ASSUME TypeOK, NEW a \in Addresses, AfterAllow(a)
  PROVE  hits' \in [Addresses -> Seq(0..MaxTime)]
<1>1. Tracked \in [Addresses -> Seq(0..MaxTime)] /\ now \in 0..MaxTime
  BY TrackedType DEF TypeOK
<1>2. Recent(Tracked[a]) \in Seq(0..MaxTime)
  BY <1>1, RecentFacts
<1>3. Append(Recent(Tracked[a]), now) \in Seq(0..MaxTime)
  BY <1>1, <1>2
<1> HIDE DEF Tracked
<1> QED
  BY <1>1, <1>2, <1>3 DEF AfterAllow

-----------------------------------------------------------------------------
(* The semaphore and the threads.  TypeOK is inductive only together with  *)
(* the count of the places: each is free or taken by a running request,    *)
(* and those are the ones whose thread the checkpointer has.               *)

SemaphoreOK ==
  /\ \A i \in 1..Len(waiters) : pc[waiters[i]] = "waiting"
  /\ \A i, j \in 1..Len(waiters) : waiters[i] = waiters[j] => i = j
  /\ threads = {r \in Requests : pc[r] = "running"}
  /\ IsFiniteSet(threads)
  /\ places + Cardinality(threads) = MaxConcurrent

LEMMA InitSemaphore == Init => TypeOK /\ SemaphoreOK
<1> SUFFICES ASSUME Init PROVE TypeOK /\ SemaphoreOK
  OBVIOUS
<1>1. TypeOK
  BY DemoAssumption DEF Init, TypeOK
<1>2. SemaphoreOK
  BY DemoAssumption, FS_EmptySet DEF Init, SemaphoreOK
<1> QED
  BY <1>1, <1>2

LEMMA ChargeType ==
  ASSUME TypeOK, NEW tokens \in Nat, Charge(tokens)
  PROVE  used' \in Nat /\ day' \in Nat
<1>1. Today \in Nat
  <2>1. now \in Nat /\ DayLength \in Nat \ {0}
    BY DemoAssumption DEF TypeOK
  <2> QED
    BY <2>1 DEF Today
<1>2. Spent \in Nat
  BY DEF Spent, TypeOK
<1> QED
  BY <1>1, <1>2 DEF Charge

LEMMA AnswerType ==
  ASSUME TypeOK, NEW r \in Requests,
         NEW what \in {"answer", "limited", "spent", "error"}, Answer(r, what)
  PROVE  /\ pc' \in [Requests -> {"new", "waiting", "running", "done"}]
         /\ reply' \in [Requests -> {"none", "answer", "limited", "spent", "error"}]
         /\ pc'[r] = "done"
         /\ \A q \in Requests : q # r => pc'[q] = pc[q]
BY DEF TypeOK, Answer

\* A request that is refused on arrival leaves the semaphore alone.
LEMMA RefusedSemaphore ==
  ASSUME TypeOK, SemaphoreOK, NEW r \in Requests, NEW a \in Addresses,
         Limited(r, a) \/ Broke(r, a)
  PROVE  TypeOK' /\ SemaphoreOK'
<1>1. /\ pc[r] = "new" /\ AfterAllow(a)
      /\ \E what \in {"limited", "spent"} : Answer(r, what)
      /\ UNCHANGED <<now, places, waiters, threads>>
  BY DEF Limited, Broke
<1>2. used' \in Nat /\ day' \in Nat
  BY ChargeType DEF Limited, Broke, TypeOK
<1>3. allowed' \subseteq Addresses \X (0..MaxTime) \X Requests
  BY DEF Limited, Broke, TypeOK
<1>4. hits' \in [Addresses -> Seq(0..MaxTime)]
  BY <1>1, AfterAllowType
<1>5. /\ pc' \in [Requests -> {"new", "waiting", "running", "done"}]
      /\ reply' \in [Requests -> {"none", "answer", "limited", "spent", "error"}]
      /\ pc'[r] = "done" /\ \A q \in Requests : q # r => pc'[q] = pc[q]
  BY <1>1, AnswerType
<1>6. TypeOK'
  BY <1>1, <1>2, <1>3, <1>4, <1>5 DEF TypeOK
<1>7. \A i \in 1..Len(waiters) : waiters[i] \in Requests
  BY DEF TypeOK
<1>8. SemaphoreOK'
  BY <1>1, <1>5, <1>7 DEF SemaphoreOK
<1> QED
  BY <1>6, <1>8

LEMMA AdmitSemaphore ==
  ASSUME TypeOK, SemaphoreOK, NEW r \in Requests, NEW a \in Addresses, Admit(r, a)
  PROVE  TypeOK' /\ SemaphoreOK'
<1>1. /\ pc[r] = "new" /\ AfterAllow(a) /\ Charge(0)
      /\ pc' = [pc EXCEPT ![r] = "waiting"] /\ waiters' = Append(waiters, r)
      /\ UNCHANGED <<now, places, threads, reply>>
  BY DEF Admit
<1>2. used' \in Nat /\ day' \in Nat
  BY <1>1, ChargeType
<1>3. allowed' \subseteq Addresses \X (0..MaxTime) \X Requests
  BY DEF Admit, TypeOK
<1>4. hits' \in [Addresses -> Seq(0..MaxTime)]
  BY <1>1, AfterAllowType
<1>5. /\ pc' \in [Requests -> {"new", "waiting", "running", "done"}]
      /\ pc'[r] = "waiting" /\ \A q \in Requests : q # r => pc'[q] = pc[q]
  BY <1>1 DEF TypeOK
<1>6. TypeOK'
  BY <1>1, <1>2, <1>3, <1>4, <1>5 DEF TypeOK
<1>7. /\ Len(waiters) \in Nat /\ Len(waiters') = Len(waiters) + 1
      /\ waiters'[Len(waiters) + 1] = r
      /\ \A i \in 1..Len(waiters) : waiters'[i] = waiters[i] /\ waiters[i] \in Requests
  BY <1>1 DEF TypeOK
<1>8. \A i \in 1..Len(waiters') : i \in 1..Len(waiters) \/ i = Len(waiters) + 1
  BY <1>7
<1>9. \A i \in 1..Len(waiters) : waiters[i] # r
  BY <1>1 DEF SemaphoreOK
<1>10. \A i \in 1..Len(waiters') : pc'[waiters'[i]] = "waiting"
  BY <1>5, <1>7, <1>8, <1>9 DEF SemaphoreOK
<1>11. \A i, j \in 1..Len(waiters') : waiters'[i] = waiters'[j] => i = j
  BY <1>7, <1>8, <1>9 DEF SemaphoreOK
<1>12. {q \in Requests : pc'[q] = "running"} = {q \in Requests : pc[q] = "running"}
  BY <1>1, <1>5
<1> QED
  BY <1>1, <1>6, <1>10, <1>11, <1>12 DEF SemaphoreOK

LEMMA EnterSemaphore ==
  ASSUME TypeOK, SemaphoreOK, NEW r \in Requests, Enter(r)
  PROVE  TypeOK' /\ SemaphoreOK'
<1>1. /\ waiters # <<>> /\ r = Head(waiters) /\ waiters' = Tail(waiters)
      /\ places > 0 /\ places' = places - 1
      /\ pc' = [pc EXCEPT ![r] = "running"] /\ threads' = threads \cup {r}
      /\ UNCHANGED <<now, hits, used, day, reply, allowed>>
  BY DEF Enter
<1>2. /\ 1 \in 1..Len(waiters) /\ r = waiters[1]
      /\ waiters' \in Seq(Requests)
      /\ \A i \in 1..Len(waiters') :
           i + 1 \in 1..Len(waiters) /\ waiters'[i] = waiters[i + 1] /\ i + 1 # 1
  BY <1>1 DEF TypeOK
<1>3. pc[r] = "waiting" /\ \A i \in 1..Len(waiters') : waiters'[i] # r
  BY <1>2 DEF SemaphoreOK
<1>4. /\ pc' \in [Requests -> {"new", "waiting", "running", "done"}]
      /\ pc'[r] = "running" /\ \A q \in Requests : q # r => pc'[q] = pc[q]
  BY <1>1 DEF TypeOK
<1>5. places' \in 0..MaxConcurrent
  BY <1>1, DemoAssumption DEF TypeOK
<1>6. TypeOK'
  BY <1>1, <1>2, <1>4, <1>5 DEF TypeOK
<1>7. \A i \in 1..Len(waiters') : pc'[waiters'[i]] = "waiting"
  BY <1>2, <1>3, <1>4 DEF SemaphoreOK, TypeOK
<1>8. \A i, j \in 1..Len(waiters') : waiters'[i] = waiters'[j] => i = j
  <2> SUFFICES ASSUME NEW i \in 1..Len(waiters'), NEW j \in 1..Len(waiters'),
                      waiters'[i] = waiters'[j]
               PROVE  i = j
    OBVIOUS
  <2>1. i + 1 = j + 1
    BY <1>2 DEF SemaphoreOK
  <2> QED
    BY <2>1
<1>9. r \notin threads /\ threads' = {q \in Requests : pc'[q] = "running"}
  BY <1>1, <1>3, <1>4 DEF SemaphoreOK
<1>10. IsFiniteSet(threads') /\ Cardinality(threads') = Cardinality(threads) + 1
  <2>1. IsFiniteSet(threads) /\ threads' = threads \cup {r} /\ r \notin threads
    BY <1>1, <1>9 DEF SemaphoreOK
  <2>2. /\ IsFiniteSet(threads \cup {r})
        /\ r \notin threads => Cardinality(threads \cup {r}) = Cardinality(threads) + 1
    BY <2>1, FS_AddElement
  <2> QED
    BY <2>1, <2>2
<1>11. places' + Cardinality(threads') = MaxConcurrent
  BY <1>1, <1>10, FS_CardinalityType, DemoAssumption DEF SemaphoreOK, TypeOK
<1> QED
  BY <1>6, <1>7, <1>8, <1>9, <1>10, <1>11 DEF SemaphoreOK

LEMMA LeaveSemaphore ==
  ASSUME TypeOK, SemaphoreOK, NEW r \in Requests,
         Fail(r) \/ \E tokens \in 0..WorstCase : Reply(r, tokens)
  PROVE  TypeOK' /\ SemaphoreOK'
<1>1. /\ pc[r] = "running" /\ threads' = threads \ {r} /\ places' = places + 1
      /\ \E what \in {"answer", "error"} : Answer(r, what)
      /\ UNCHANGED <<now, hits, waiters, allowed>>
  BY DEF Fail, Reply
<1>2. used' \in Nat /\ day' \in Nat
  BY ChargeType, DemoAssumption DEF Fail, Reply, TypeOK
<1>3. /\ pc' \in [Requests -> {"new", "waiting", "running", "done"}]
      /\ reply' \in [Requests -> {"none", "answer", "limited", "spent", "error"}]
      /\ pc'[r] = "done" /\ \A q \in Requests : q # r => pc'[q] = pc[q]
  BY <1>1, AnswerType
<1>4. r \in threads /\ threads' = {q \in Requests : pc'[q] = "running"}
  BY <1>1, <1>3 DEF SemaphoreOK
<1>5. /\ IsFiniteSet(threads') /\ Cardinality(threads') = Cardinality(threads) - 1
      /\ Cardinality(threads') \in Nat /\ Cardinality(threads) \in Nat
  <2>1. IsFiniteSet(threads) /\ threads' = threads \ {r} /\ r \in threads
    BY <1>1, <1>4 DEF SemaphoreOK
  <2>2. /\ IsFiniteSet(threads \ {r})
        /\ r \in threads => Cardinality(threads \ {r}) = Cardinality(threads) - 1
    BY <2>1, FS_RemoveElement
  <2> QED
    BY <2>1, <2>2, FS_CardinalityType
<1>6. places' + Cardinality(threads') = MaxConcurrent /\ places' \in 0..MaxConcurrent
  BY <1>1, <1>5, DemoAssumption DEF SemaphoreOK, TypeOK
<1>7. TypeOK'
  BY <1>1, <1>2, <1>3, <1>6 DEF TypeOK
<1>8. \A i \in 1..Len(waiters) : waiters[i] \in Requests /\ waiters[i] # r
  BY <1>1 DEF SemaphoreOK, TypeOK
<1> QED
  BY <1>1, <1>3, <1>4, <1>5, <1>6, <1>7, <1>8 DEF SemaphoreOK

LEMMA NextSemaphore == TypeOK /\ SemaphoreOK /\ [Next]_vars => TypeOK' /\ SemaphoreOK'
<1> SUFFICES ASSUME TypeOK, SemaphoreOK, [Next]_vars
             PROVE  TypeOK' /\ SemaphoreOK'
  OBVIOUS
<1>1. ASSUME NEW r \in Requests, Arrive(r)
      PROVE  TypeOK' /\ SemaphoreOK'
  BY <1>1, RefusedSemaphore, AdmitSemaphore DEF Arrive
<1>2. ASSUME NEW r \in Requests, Handle(r)
      PROVE  TypeOK' /\ SemaphoreOK'
  BY <1>2, EnterSemaphore, LeaveSemaphore DEF Handle
<1>3. CASE Tick
  <2>1. now' \in 0..MaxTime
    BY <1>3, DemoAssumption DEF Tick, TypeOK
  <2> QED
    BY <1>3, <2>1 DEF Tick, TypeOK, SemaphoreOK
<1>4. CASE UNCHANGED vars
  BY <1>4 DEF vars, TypeOK, SemaphoreOK
<1> QED
  BY <1>1, <1>2, <1>3, <1>4 DEF Next

\* Every variable keeps its type in every execution of the public demo; of the
\* semaphore that says only that its places stay within 0..MaxConcurrent.
THEOREM TypeCorrect == Spec => []TypeOK
BY InitSemaphore, NextSemaphore, PTL DEF Spec

Running == {r \in Requests : pc[r] = "running"}

\* No place is lost or handed out twice: in every execution the free places
\* and the requests that run together are exactly those the semaphore was
\* made with, whichever requests fail (async with rt.sem, api/demo.py).
THEOREM PlacesAreConserved == Spec => [](places + Cardinality(Running) = MaxConcurrent)
<1>1. SemaphoreOK => places + Cardinality(Running) = MaxConcurrent
  BY DEF SemaphoreOK, Running
<1> QED
  BY InitSemaphore, NextSemaphore, <1>1, PTL DEF Spec

\* In every execution the checkpointer has threads of running requests only.
THEOREM ThreadsAreDeleted == Spec => []NothingRetained
<1>1. SemaphoreOK => NothingRetained
  BY DEF SemaphoreOK, NothingRetained
<1> QED
  BY InitSemaphore, NextSemaphore, <1>1, PTL DEF Spec

-----------------------------------------------------------------------------
(* The window.  A hit the limiter let pass is in the deque of its address  *)
(* as long as it is in the window: the purge forgets a deque only when its *)
(* newest hit is old, and popleft stops at the first young one.  So the    *)
(* hits of the window are at most as many as a deque is long.              *)

\* What the limiter let a pass and is still in the window.
Young(a) == {g \in allowed : g[1] = a /\ now - g[2] < Window}

\* The deque ends with its newest hit.
EndsNewest(q) ==
  \A i \in 1..Len(q) : q[i] <= q[Len(q)] /\ q[Len(q)] <= now

\* f finds every member of Y in the deque, each at a place of its own.
Places(q, Y, f) ==
  /\ f \in [Y -> 1..Len(q)]
  /\ \A g \in Y : q[f[g]] = g[2]
  /\ \A g, h \in Y : f[g] = f[h] => g = h

Holds(q, Y) == \E f \in [Y -> 1..Len(q)] : Places(q, Y, f)

DequeOK(q, Y) == Len(q) <= Limit /\ EndsNewest(q) /\ Holds(q, Y)

WindowOK ==
  /\ \A a \in Addresses : DequeOK(hits[a], Young(a))
  /\ \A g \in allowed : g[2] <= now
  /\ WindowRespected
\* A deque that loses only hits older than the window keeps the young ones.
LEMMA RecentKeeps ==
  ASSUME TypeOK, NEW q \in Seq(0..MaxTime), NEW Y, DequeOK(q, Y),
         \A g \in Y : g[2] \in Int /\ now - g[2] < Window
  PROVE  Recent(q) \in Seq(0..MaxTime) /\ DequeOK(Recent(q), Y)
<1> DEFINE R == Recent(q)
<1>1. PICK k \in 0..Len(q) :
        /\ \A i \in 1..k : now - q[i] >= Window
        /\ R \in Seq(0..MaxTime)
        /\ Len(R) = Len(q) - k
        /\ \A i \in 1..(Len(q) - k) : R[i] = q[i + k]
  BY RecentFacts
<1> HIDE DEF R
<1>2. /\ Len(q) \in Nat /\ k \in Nat /\ k <= Len(q) /\ Len(R) \in Nat
      /\ Limit \in Nat /\ Window \in Nat /\ now \in Nat
      /\ \A i \in 1..Len(R) : i \in Nat /\ i + k \in 1..Len(q)
  BY <1>1, DemoAssumption DEF TypeOK
<1>3. Len(R) <= Limit
  BY <1>1, <1>2 DEF DequeOK
<1>4. EndsNewest(R)
  <2> SUFFICES ASSUME NEW i \in 1..Len(R)
               PROVE  R[i] <= R[Len(R)] /\ R[Len(R)] <= now
    BY DEF EndsNewest
  <2>1. Len(R) \in 1..Len(R) /\ Len(R) + k = Len(q)
    BY <1>1, <1>2
  <2>2. R[Len(R)] = q[Len(q)] /\ R[i] = q[i + k]
    BY <1>1, <2>1
  <2> QED
    BY <1>2, <2>2 DEF DequeOK, EndsNewest
<1>5. Holds(R, Y)
  <2>1. PICK f \in [Y -> 1..Len(q)] : Places(q, Y, f)
    BY DEF DequeOK, Holds
  <2>2. ASSUME NEW g \in Y
        PROVE  f[g] \in Nat /\ f[g] - k \in 1..Len(R) /\ R[f[g] - k] = g[2]
    <3>1. f[g] \in 1..Len(q) /\ q[f[g]] = g[2]
      BY <2>1 DEF Places
    <3>2. f[g] \notin 1..k
      BY <1>1, <1>2, <3>1
    <3>3. f[g] \in Nat /\ f[g] - k \in 1..(Len(q) - k) /\ (f[g] - k) + k = f[g]
      BY <1>2, <3>1, <3>2
    <3> QED
      BY <1>1, <3>1, <3>3
  <2> DEFINE e == [g \in Y |-> f[g] - k]
  <2>3. e \in [Y -> 1..Len(R)]
    BY <2>2
  <2>4. ASSUME NEW g \in Y, NEW h \in Y, e[g] = e[h]
        PROVE  g = h
    <3>1. f[g] = f[h]
      BY <1>2, <2>2, <2>4
    <3> QED
      BY <2>1, <3>1 DEF Places
  <2>5. \A g \in Y : R[e[g]] = g[2]
    BY <2>2
  <2> QED
    BY <2>3, <2>4, <2>5 DEF Holds, Places
<1> QED
  BY <1>1, <1>3, <1>4, <1>5 DEF DequeOK, R

LEMMA PurgedKeeps ==
  ASSUME TypeOK, NEW q \in Seq(0..MaxTime), NEW Y, DequeOK(q, Y),
         \A g \in Y : g[2] \in Int /\ now - g[2] < Window
  PROVE  Purged(q) \in Seq(0..MaxTime) /\ DequeOK(Purged(q), Y)
<1>1. CASE Purged(q) = q
  BY <1>1
<1>2. CASE Purged(q) # q
  <2>1. /\ Purged(q) = <<>>
        /\ q # <<>> => ~(now - q[Len(q)] < Window)
    BY <1>2 DEF Purged
  <2>2. PICK f \in [Y -> 1..Len(q)] : Places(q, Y, f)
    BY DEF DequeOK, Holds
  <2>3. ASSUME NEW g \in Y
        PROVE  FALSE
    <3>1. f[g] \in 1..Len(q) /\ q[f[g]] = g[2] /\ Len(q) \in Nat
      BY <2>2 DEF Places
    <3>2. q # <<>> /\ Len(q) \in 1..Len(q)
      BY <3>1
    <3>3. q[f[g]] <= q[Len(q)]
      BY <3>1 DEF DequeOK, EndsNewest
    <3>4. q[Len(q)] \in 0..MaxTime /\ q[f[g]] \in 0..MaxTime
      BY <3>1, <3>2, ElementOfSeq
    <3> QED
      BY <2>1, <3>1, <3>2, <3>3, <3>4, DemoAssumption DEF TypeOK
  <2>4. Y = {}
    BY <2>3
  <2> DEFINE e == [g \in Y |-> 0]
  <2>5. e \in [Y -> 1..Len(<<>>)] /\ Places(<<>>, Y, e)
    BY <2>4 DEF Places
  <2>6. Holds(<<>>, Y)
    BY <2>5 DEF Holds
  <2>7. Len(<<>>) = 0 /\ EndsNewest(<<>>) /\ 0 <= Limit
    BY DemoAssumption DEF EndsNewest
  <2> QED
    BY <2>1, <2>6, <2>7 DEF DequeOK
<1> QED
  BY <1>1, <1>2

LEMMA AppendKeeps ==
  ASSUME TypeOK, NEW q \in Seq(0..MaxTime), NEW Y, DequeOK(q, Y),
         Len(q) < Limit, NEW x, x[2] = now
  PROVE  DequeOK(Append(q, now), Y \cup {x})
<1> DEFINE A == Append(q, now)
           n == Len(q)
<1>1. /\ n \in Nat /\ Len(A) = n + 1 /\ A[n + 1] = now /\ now \in 0..MaxTime
      /\ \A i \in 1..n : A[i] = q[i] /\ q[i] \in 0..MaxTime
      /\ \A i \in 1..(n + 1) : i \in 1..n \/ i = n + 1
  <2>1. now \in 0..MaxTime /\ n \in Nat
    BY DEF TypeOK
  <2>2. \A i \in 1..n : q[i] \in 0..MaxTime
    BY ElementOfSeq
  <2>3. Len(A) = n + 1 /\ A[n + 1] = now /\ \A i \in 1..n : A[i] = q[i]
    BY <2>1
  <2> QED
    BY <2>1, <2>2, <2>3
<1>2. now \in Nat /\ MaxTime \in Nat /\ Limit \in Nat
  BY DemoAssumption DEF TypeOK
<1>3. PICK f \in [Y -> 1..n] : Places(q, Y, f)
  BY DEF DequeOK, Holds
<1> HIDE DEF A, n
<1>4. EndsNewest(A)
  <2>1. \A i \in 1..n : q[i] <= q[n] /\ q[n] <= now /\ n \in 1..n
    BY <1>1 DEF DequeOK, EndsNewest, n
  <2>2. \A i \in 1..n : A[i] <= now
    BY <1>1, <1>2, <2>1, SMTT(30)
  <2>3. now <= now
    BY <1>2
  <2> QED
    BY <1>1, <2>2, <2>3 DEF EndsNewest
<1>5. Holds(A, Y \cup {x})
  <2> DEFINE e == [g \in Y \cup {x} |-> IF g = x THEN n + 1 ELSE f[g]]
  <2>1. \A g \in Y : f[g] \in 1..n /\ f[g] \in 1..(n + 1) /\ f[g] # n + 1 /\ q[f[g]] = g[2]
    BY <1>1, <1>3 DEF Places
  <2>2. e \in [Y \cup {x} -> 1..Len(A)]
    BY <1>1, <2>1
  <2>3. \A g \in Y \cup {x} : A[e[g]] = g[2]
    BY <1>1, <2>1
  <2>4. \A g, h \in Y \cup {x} : e[g] = e[h] => g = h
    BY <1>3, <2>1 DEF Places
  <2> HIDE DEF e
  <2> QED
    BY <2>2, <2>3, <2>4 DEF Holds, Places
<1>6. Len(A) <= Limit
  BY <1>1, <1>2 DEF n
<1> QED
  BY <1>4, <1>5, <1>6 DEF DequeOK, A

\* A deque need not hold more than it did.
LEMMA FewerYoung ==
  ASSUME NEW q, NEW Y, NEW Z \in SUBSET Y, Holds(q, Y)
  PROVE  Holds(q, Z)
<1>1. PICK f \in [Y -> 1..Len(q)] : Places(q, Y, f)
  BY DEF Holds
<1> DEFINE e == [g \in Z |-> f[g]]
<1>2. e \in [Z -> 1..Len(q)] /\ Places(q, Z, e)
  BY <1>1 DEF Places
<1> QED
  BY <1>2 DEF Holds

\* Each young hit has a place of its own in a deque of at most Limit.
LEMMA YoungBounded ==
  ASSUME NEW q, Len(q) \in Nat, NEW Y, DequeOK(q, Y)
  PROVE  IsFiniteSet(Y) /\ Cardinality(Y) <= Limit
<1>1. PICK f \in [Y -> 1..Len(q)] : Places(q, Y, f)
  BY DEF DequeOK, Holds
<1>2. f \in Injection(Y, 1..Len(q))
  BY <1>1 DEF Places, Injection, IsInjective
<1>3. IsFiniteSet(1..Len(q)) /\ Cardinality(1..Len(q)) = Len(q)
  <2>1. 1 \in Int /\ Len(q) \in Int
    OBVIOUS
  <2>2. IsFiniteSet(1..Len(q)) /\ Cardinality(1..Len(q)) = IF 1 > Len(q) THEN 0 ELSE Len(q) - 1 + 1
    BY <2>1, FS_Interval
  <2> QED
    BY <2>2
<1>4. IsFiniteSet(Y) /\ Cardinality(Y) <= Len(q)
  BY <1>2, <1>3, FS_Injection
<1> QED
  BY <1>4, FS_CardinalityType, DemoAssumption DEF DequeOK

LEMMA TrackedKeeps ==
  ASSUME TypeOK, WindowOK, NEW a \in Addresses
  PROVE  Tracked[a] \in Seq(0..MaxTime) /\ DequeOK(Tracked[a], Young(a))
<1>1. hits[a] \in Seq(0..MaxTime) /\ DequeOK(hits[a], Young(a))
  BY DEF TypeOK, WindowOK
<1>2. \A g \in Young(a) : g[2] \in Int /\ now - g[2] < Window
  BY DemoAssumption DEF Young, TypeOK
<1>3. Purged(hits[a]) \in Seq(0..MaxTime) /\ DequeOK(Purged(hits[a]), Young(a))
  BY <1>1, <1>2, PurgedKeeps
<1>4. Tracked[a] = hits[a] \/ Tracked[a] = Purged(hits[a])
  BY DEF Tracked
<1> QED
  BY <1>1, <1>3, <1>4

\* A request the limiter answers, with the hit it adds when it lets it pass.
LEMMA AllowKeeps ==
  ASSUME TypeOK, TypeOK', WindowOK, NEW r \in Requests, NEW a \in Addresses,
         AfterAllow(a), now' = now,
         \/ Full(a) /\ allowed' = allowed
         \/ ~Full(a) /\ allowed' = allowed \cup {<<a, now, r>>}
  PROVE  WindowOK'
<1> DEFINE x == <<a, now, r>>
<1>0. /\ now \in Nat /\ Window \in Nat \ {0} /\ Limit \in Nat
      /\ \A g \in allowed' : g[2] \in Nat
      /\ Tracked \in [Addresses -> Seq(0..MaxTime)]
  BY DemoAssumption, TrackedType DEF TypeOK
<1>1. Recent(Tracked[a]) \in Seq(0..MaxTime) /\ DequeOK(Recent(Tracked[a]), Young(a))
  <2>1. \A g \in Young(a) : g[2] \in Int /\ now - g[2] < Window
    BY DemoAssumption DEF Young, TypeOK
  <2> QED
    BY <2>1, TrackedKeeps, RecentKeeps
<1>2. /\ hits'[a] = IF Full(a) THEN Recent(Tracked[a])
                    ELSE Append(Recent(Tracked[a]), now)
      /\ \A b \in Addresses : b # a => hits'[b] = Tracked[b]
  BY <1>0 DEF AfterAllow
<1>3. ASSUME NEW b \in Addresses
      PROVE  Young(b)' = IF b = a /\ ~Full(a) THEN Young(b) \cup {x} ELSE Young(b)
  <2>1. x[1] = a /\ x[2] = now /\ now - now < Window
    BY <1>0
  <2> QED
    BY <2>1 DEF Young
<1>4. ASSUME NEW b \in Addresses
      PROVE  DequeOK(hits[b], Young(b))'
  <2>1. CASE b # a
    BY <1>2, <1>3, <2>1, TrackedKeeps, SMTT(30) DEF DequeOK, EndsNewest, Holds, Places
  <2>2. CASE b = a /\ Full(a)
    BY <1>1, <1>2, <1>3, <2>2 DEF DequeOK, EndsNewest, Holds, Places
  <2>3. CASE b = a /\ ~Full(a)
    <3>1. Len(Recent(Tracked[a])) < Limit
      BY <1>0, <1>1, <2>3 DEF Full
    <3>2. x[2] = now
      OBVIOUS
    <3>3. DequeOK(Append(Recent(Tracked[a]), now), Young(a) \cup {x})
      BY <1>1, <3>1, <3>2, AppendKeeps
    <3>4. /\ hits'[b] = Append(Recent(Tracked[a]), now)
          /\ Young(b)' = Young(a) \cup {x}
      BY <1>2, <1>3, <2>3
    <3>5. DequeOK(hits'[b], Young(b)')
      BY <3>3, <3>4
    <3> QED
      BY <3>5 DEF DequeOK, EndsNewest, Holds, Places
  <2> QED
    BY <2>1, <2>2, <2>3
<1>5. \A g \in allowed' : g[2] <= now'
  BY <1>0 DEF WindowOK
<1>6. WindowRespected'
  <2> SUFFICES ASSUME NEW h \in allowed'
               PROVE  Cardinality({g \in allowed' : g[1] = h[1] /\ g[2] <= h[2]
                                     /\ h[2] - g[2] < Window}) <= Limit
    BY DEF WindowRespected
  <2>1. CASE h[1] = a /\ h[2] = now
    <3>1. {g \in allowed' : g[1] = h[1] /\ g[2] <= h[2] /\ h[2] - g[2] < Window}
            = Young(a)'
      BY <1>5, <2>1 DEF Young
    <3>2. hits'[a] \in Seq(0..MaxTime) /\ Len(hits'[a]) \in Nat
      BY DEF TypeOK
    <3>3. DequeOK(hits'[a], Young(a)')
      BY <1>4 DEF DequeOK, EndsNewest, Holds, Places
    <3> QED
      BY <3>1, <3>2, <3>3, YoungBounded
  <2>2. CASE ~(h[1] = a /\ h[2] = now)
    <3>1. x[1] = a /\ x[2] = now /\ h # x /\ h \in allowed /\ h[2] <= now
      BY <2>2 DEF WindowOK
    <3>2. \A g \in {x} : ~(g[1] = h[1] /\ g[2] <= h[2] /\ h[2] - g[2] < Window)
      BY <1>0, <2>2, <3>1
    <3>3. {g \in allowed' : g[1] = h[1] /\ g[2] <= h[2] /\ h[2] - g[2] < Window}
            = {g \in allowed : g[1] = h[1] /\ g[2] <= h[2] /\ h[2] - g[2] < Window}
      BY <3>2
    <3> QED
      BY <3>1, <3>3 DEF WindowOK, WindowRespected
  <2> QED
    BY <2>1, <2>2
<1> QED
  BY <1>4, <1>5, <1>6 DEF WindowOK

LEMMA TickKeeps ==
  ASSUME TypeOK, TypeOK', WindowOK, Tick
  PROVE  WindowOK'
<1>1. now' = now + 1 /\ UNCHANGED <<hits, allowed>>
  BY DEF Tick
<1>2. now \in Nat /\ Window \in Nat /\ \A g \in allowed : g[2] \in Nat
  BY DemoAssumption DEF TypeOK
<1>3. ASSUME NEW a \in Addresses
      PROVE  DequeOK(hits[a], Young(a))'
  <2>1. DequeOK(hits[a], Young(a))
    BY DEF WindowOK
  <2>2. Young(a)' \in SUBSET Young(a)
    BY <1>1, <1>2 DEF Young
  <2>3. Holds(hits[a], Young(a)')
    BY <2>1, <2>2, FewerYoung DEF DequeOK
  <2>4. EndsNewest(hits[a])'
    <3>1. hits[a] \in Seq(0..MaxTime)
      BY DEF TypeOK
    <3>2. ASSUME NEW i \in 1..Len(hits[a])
          PROVE  /\ hits[a][i] <= hits[a][Len(hits[a])]
                 /\ hits[a][Len(hits[a])] <= now + 1
      <4>1. Len(hits[a]) \in 1..Len(hits[a])
        BY <3>1
      <4>2. hits[a][Len(hits[a])] \in 0..MaxTime
        BY <3>1, <4>1, ElementOfSeq
      <4>3. hits[a][i] <= hits[a][Len(hits[a])] /\ hits[a][Len(hits[a])] <= now
        BY <2>1 DEF DequeOK, EndsNewest
      <4> QED
        BY <1>2, <4>2, <4>3
    <3> QED
      BY <1>1, <3>2 DEF EndsNewest
  <2> QED
    BY <1>1, <2>1, <2>3, <2>4 DEF DequeOK, Holds, Places
<1>4. \A g \in allowed' : g[2] <= now'
  BY <1>1, <1>2 DEF WindowOK
<1>5. WindowRespected'
  BY <1>1 DEF WindowOK, WindowRespected
<1> QED
  BY <1>3, <1>4, <1>5 DEF WindowOK

LEMMA NextWindow ==
  ASSUME TypeOK, TypeOK', WindowOK, [Next]_vars
  PROVE  WindowOK'
<1>1. ASSUME NEW r \in Requests, Arrive(r)
      PROVE  WindowOK'
  <2>1. PICK a \in Addresses : Limited(r, a) \/ Broke(r, a) \/ Admit(r, a)
    BY <1>1 DEF Arrive
  <2>2. /\ AfterAllow(a) /\ now' = now
        /\ \/ Full(a) /\ allowed' = allowed
           \/ ~Full(a) /\ allowed' = allowed \cup {<<a, now, r>>}
    BY <2>1 DEF Limited, Broke, Admit
  <2> QED
    BY <2>2, AllowKeeps
<1>2. CASE UNCHANGED <<now, hits, allowed>>
  <2>1. \A a \in Addresses : Young(a)' = Young(a)
    BY <1>2 DEF Young
  <2>2. \A a \in Addresses : DequeOK(hits[a], Young(a))'
    BY <1>2, <2>1 DEF WindowOK, DequeOK, EndsNewest, Holds, Places
  <2>3. WindowRespected'
    BY <1>2 DEF WindowOK, WindowRespected
  <2> QED
    BY <1>2, <2>2, <2>3 DEF WindowOK
<1>3. ASSUME NEW r \in Requests, Handle(r)
      PROVE  UNCHANGED <<now, hits, allowed>>
  BY <1>3 DEF Handle, Enter, Fail, Reply
<1>4. CASE UNCHANGED vars
  BY <1>2, <1>4 DEF vars
<1> QED
  BY <1>1, <1>2, <1>3, <1>4, TickKeeps DEF Next

LEMMA InitWindow == Init => WindowOK
<1> SUFFICES ASSUME Init PROVE WindowOK
  OBVIOUS
<1>1. ASSUME NEW a \in Addresses
      PROVE  DequeOK(hits[a], Young(a))
  <2>1. hits[a] = <<>> /\ Young(a) = {}
    BY DEF Init, Young
  <2> DEFINE e == [g \in {} |-> 0]
  <2>2. e \in [{} -> 1..Len(<<>>)] /\ Places(<<>>, {}, e)
    BY DEF Places
  <2>3. Holds(<<>>, {})
    BY <2>2 DEF Holds
  <2> QED
    BY <2>1, <2>3, DemoAssumption DEF DequeOK, EndsNewest
<1> QED
  BY <1>1 DEF Init, WindowOK, WindowRespected

\* In every execution no address passes the limiter more than Limit times
\* within a window, however often the limiter purges and whenever it does.
THEOREM LimiterRespectsWindow == Spec => []WindowRespected
<1>1. Init => TypeOK /\ SemaphoreOK /\ WindowOK
  BY InitSemaphore, InitWindow
<1>2. TypeOK /\ SemaphoreOK /\ WindowOK /\ [Next]_vars
        => TypeOK' /\ SemaphoreOK' /\ WindowOK'
  BY NextSemaphore, NextWindow
<1>3. WindowOK => WindowRespected
  BY DEF WindowOK
<1> QED
  BY <1>1, <1>2, <1>3, PTL DEF Spec
=============================================================================

--------------------------- MODULE TaskQueueProofs ---------------------------
(***************************************************************************)
(* Theorems about TaskQueue, for every number of requests, workers, tasks, *)
(* failures and ticks.                                                     *)
(***************************************************************************)
EXTENDS TaskQueue, TLAPS

\* A request that was submitted carries one of the plans, and its cursor
\* points at one of its tasks.
Submitted ==
  \A r \in Requests :
    /\ rpc[r] = "new" => cursor[r] = 1
    /\ rpc[r] # "new" => plan[r] \in Plans /\ cursor[r] \in 1..Len(plan[r])

LEMMA PlanFacts ==
  ASSUME NEW p \in Plans
  PROVE  /\ p \in Seq(Work)
         /\ Len(p) \in 1..MaxTasks
         /\ \A i \in 1..Len(p) : i \in 1..MaxTasks
BY PlanAssumption, BoundAssumption

LEMMA InitType == Init => TypeOK /\ Submitted
BY TimingAssumption, BoundAssumption, PlanAssumption
DEF Init, TypeOK, Submitted, Ids, Kinds, Answers, Status

\* The helpers keep the types of what they assign.
LEMMA SetStatusType ==
  ASSUME TypeOK, NEW id \in Ids, NEW status \in Status, SetStatus(id, status)
  PROVE  /\ key' \in [Ids -> Status \cup {"absent"}]
         /\ ttl' \in [Ids -> 0..ResultTTL]
BY TimingAssumption DEF TypeOK, SetStatus

LEMMA CurrentType ==
  ASSUME TypeOK, NEW r \in Requests
  PROVE  Current(r) \in Ids
BY DEF TypeOK, Current, Ids

LEMMA RPushType ==
  ASSUME TypeOK, NEW id \in Ids, RPush(id)
  PROVE  queue' \in Seq(Entry) /\ pushes' \in [Ids -> Nat]
<1>1. [id |-> id, copy |-> pushes[id] + 1] \in Entry
  BY DEF TypeOK, Entry
<1> QED
  BY <1>1 DEF TypeOK, RPush

LEMMA RPushTwiceType ==
  ASSUME TypeOK, NEW id \in Ids, RPushTwice(id)
  PROVE  queue' \in Seq(Entry) /\ pushes' \in [Ids -> Nat]
<1> DEFINE first == [id |-> id, copy |-> pushes[id] + 1]
           second == [id |-> id, copy |-> pushes[id] + 2]
<1>1. first \in Entry /\ second \in Entry
  BY DEF TypeOK, Entry
<1>2. Append(queue, first) \in Seq(Entry)
  BY <1>1 DEF TypeOK
<1>3. queue' = Append(Append(queue, first), second)
  BY DEF RPushTwice
<1>4. queue' \in Seq(Entry)
  BY <1>1, <1>2, <1>3
<1> QED
  BY <1>4 DEF TypeOK, RPushTwice

LEMMA AnswerType ==
  ASSUME TypeOK, Submitted, NEW r \in Requests, NEW answer \in Answers,
         rpc[r] # "new", Answer(r, answer), plan' = plan, cursor' = cursor
  PROVE  /\ rpc' \in [Requests -> {"new", "enqueue", "push", "poll", "done"}]
         /\ told' \in [Requests -> Answers]
         /\ loop' \in Requests \cup {NoRequest}
         /\ Submitted'
BY DEF TypeOK, Submitted, Answer

LEMMA AfterPushType ==
  ASSUME TypeOK, Submitted, NEW r \in Requests, rpc[r] = "push", AfterPush(r),
         plan' = plan
  PROVE  /\ rpc' \in [Requests -> {"new", "enqueue", "push", "poll", "done"}]
         /\ told' \in [Requests -> Answers]
         /\ loop' \in Requests \cup {NoRequest}
         /\ cursor' \in [Requests -> 1..MaxTasks]
         /\ Submitted'
<1>1. Len(plan[r]) \in 1..MaxTasks
  BY PlanFacts DEF Submitted
<1>2. ASSUME /\ cursor[r] < Len(plan[r])
             /\ cursor' = [cursor EXCEPT ![r] = @ + 1]
             /\ rpc' = [rpc EXCEPT ![r] = "enqueue"]
             /\ UNCHANGED <<told, loop>>
      PROVE  /\ rpc' \in [Requests -> {"new", "enqueue", "push", "poll", "done"}]
             /\ told' \in [Requests -> Answers]
             /\ loop' \in Requests \cup {NoRequest}
             /\ cursor' \in [Requests -> 1..MaxTasks]
             /\ Submitted'
  <2>1. cursor[r] + 1 \in 1..MaxTasks /\ cursor[r] + 1 \in 1..Len(plan[r])
    BY <1>1, <1>2, BoundAssumption DEF TypeOK
  <2>2. cursor' \in [Requests -> 1..MaxTasks]
    BY <1>2, <2>1 DEF TypeOK
  <2>3. Submitted'
    BY <1>2, <2>1 DEF TypeOK, Submitted
  <2> QED
    BY <1>2, <2>2, <2>3 DEF TypeOK
<1>3. ASSUME /\ cursor[r] = Len(plan[r])
             /\ cursor' = [cursor EXCEPT ![r] = 1]
             /\ rpc' = [rpc EXCEPT ![r] = "poll"]
             /\ UNCHANGED <<told, loop>>
      PROVE  /\ rpc' \in [Requests -> {"new", "enqueue", "push", "poll", "done"}]
             /\ told' \in [Requests -> Answers]
             /\ loop' \in Requests \cup {NoRequest}
             /\ cursor' \in [Requests -> 1..MaxTasks]
             /\ Submitted'
  <2>1. 1 \in 1..MaxTasks /\ 1 \in 1..Len(plan[r])
    BY <1>1, BoundAssumption
  <2>2. cursor' \in [Requests -> 1..MaxTasks]
    BY <1>3, <2>1 DEF TypeOK
  <2>3. Submitted'
    BY <1>3, <2>1 DEF TypeOK, Submitted
  <2> QED
    BY <1>3, <2>2, <2>3 DEF TypeOK
<1>4. ASSUME Answer(r, "queued"), UNCHANGED cursor
      PROVE  /\ rpc' \in [Requests -> {"new", "enqueue", "push", "poll", "done"}]
             /\ told' \in [Requests -> Answers]
             /\ loop' \in Requests \cup {NoRequest}
             /\ cursor' \in [Requests -> 1..MaxTasks]
             /\ Submitted'
  BY <1>4, AnswerType DEF TypeOK, Answers
<1> QED
  BY <1>2, <1>3, <1>4 DEF AfterPush

LEMMA StoreType ==
  ASSUME TypeOK, NEW w \in Workers, NEW status \in Status,
         NEW next \in {"ready", "idle", "fail"}, Store(w, status, next)
  PROVE  /\ key' \in [Ids -> Status \cup {"absent"}]
         /\ ttl' \in [Ids -> 0..ResultTTL]
         /\ wpc' \in [Workers -> {"down", "idle", "claimed", "ready", "run",
                                  "report", "fail"}]
<1>1. PICK e \in held[w] : SetStatus(e.id, status)
  BY DEF Store
<1>2. e.id \in Ids
  BY DEF TypeOK, Entry
<1> QED
  BY <1>1, <1>2, SetStatusType DEF Store, TypeOK

LEMMA ForgetType ==
  ASSUME TypeOK, NEW w \in Workers, Forget(w)
  PROVE  /\ held' \in [Workers -> SUBSET Entry]
         /\ elapsed' \in [Workers -> 0..CommandTimeout]
BY TimingAssumption DEF TypeOK, Forget

LEMMA SettleType ==
  ASSUME TypeOK, NEW w \in Workers, Settle(w)
  PROVE  settled' \in SUBSET Ids
BY DEF TypeOK, Settle, Entry

LEMMA FaultType ==
  ASSUME TypeOK, Fault
  PROVE  faults' \in 0..MaxFaults
BY BoundAssumption DEF TypeOK, Fault

LEMMA NextType == TypeOK /\ Submitted /\ [Next]_vars => TypeOK' /\ Submitted'
<1> SUFFICES ASSUME TypeOK, Submitted, [Next]_vars
             PROVE  TypeOK' /\ Submitted'
  OBVIOUS
<1> USE TimingAssumption, BoundAssumption, PlanAssumption
<1> USE DEF TypeOK, Submitted, redis, api, wrk, hist
<1>1. ASSUME NEW r \in Requests, NEW k \in Kinds, NEW p \in Plans,
             Submit(r, k, p)
      PROVE  TypeOK' /\ Submitted'
  BY <1>1 DEF Submit
<1>2. ASSUME NEW r \in Requests, Refuse(r)
      PROVE  TypeOK' /\ Submitted'
  BY <1>2 DEF Refuse, Answer, Answers
<1>3. ASSUME NEW r \in Requests, SetQueued(r)
      PROVE  TypeOK' /\ Submitted'
  BY <1>3, SMTT(30) DEF SetQueued, SetStatus, Current, Ids, Status
<1>4. ASSUME NEW r \in Requests, Push(r)
      PROVE  TypeOK' /\ Submitted'
  <2>1. RPush(Current(r)) /\ AfterPush(r) /\ rpc[r] = "push" /\ plan' = plan
    BY <1>4 DEF Push
  <2>2. queue' \in Seq(Entry) /\ pushes' \in [Ids -> Nat]
    BY <2>1, CurrentType, RPushType
  <2> HIDE DEF Submitted
  <2> QED
    BY <1>4, <2>1, <2>2, AfterPushType DEF Push
<1>5. ASSUME NEW r \in Requests, PushTwice(r)
      PROVE  TypeOK' /\ Submitted'
  <2>1. /\ RPushTwice(Current(r)) /\ AfterPush(r) /\ Fault
        /\ rpc[r] = "push" /\ plan' = plan
    BY <1>5 DEF PushTwice
  <2>2. queue' \in Seq(Entry) /\ pushes' \in [Ids -> Nat]
    BY <2>1, CurrentType, RPushTwiceType
  <2> HIDE DEF Submitted
  <2> QED
    BY <1>5, <2>1, <2>2, AfterPushType, FaultType DEF PushTwice
<1>6. ASSUME NEW r \in Requests, Poll(r)
      PROVE  TypeOK' /\ Submitted'
  <2> DEFINE done == alldone[r] /\ key[Current(r)] \in Terminal
  <2> HIDE DEF done, Submitted
  <2>1. PollPass(r, done, waited[r] > WaitTimeout)
    BY <1>6 DEF Poll, done
  <2>2. /\ Len(plan[r]) \in 1..MaxTasks /\ cursor[r] \in 1..Len(plan[r])
        /\ rpc[r] = "poll" /\ plan' = plan
    BY <2>1, PlanFacts DEF PollPass, Submitted
  <2>3. done \in BOOLEAN
    BY DEF done
  <2>4. CASE UNCHANGED <<rpc, told, loop>>
    <3>1. \/ /\ cursor[r] # Len(plan[r])
             /\ cursor' = [cursor EXCEPT ![r] = @ + 1]
             /\ alldone' = [alldone EXCEPT ![r] = done]
          \/ /\ cursor' = [cursor EXCEPT ![r] = 1]
             /\ alldone' = [alldone EXCEPT ![r] = TRUE]
          \/ UNCHANGED <<cursor, alldone>>
      BY <2>1 DEF PollPass
    <3>2. \E c \in 1..Len(plan[r]) : cursor' = [cursor EXCEPT ![r] = c]
      BY <2>2, <3>1 DEF TypeOK
    <3>3. /\ cursor' \in [Requests -> 1..MaxTasks]
          /\ cursor'[r] \in 1..Len(plan[r])
          /\ \A q \in Requests : q # r => cursor'[q] = cursor[q]
      BY <2>2, <3>2 DEF TypeOK
    <3>4. alldone' \in [Requests -> BOOLEAN]
      BY <2>3, <3>1 DEF TypeOK
    <3> QED
      BY <2>1, <2>2, <2>4, <3>3, <3>4 DEF PollPass, Submitted
  <2>5. CASE /\ UNCHANGED <<cursor, alldone>>
             /\ \E a \in {"completed", "partial"} : Answer(r, a)
    <3>1. PICK a \in {"completed", "partial"} : Answer(r, a)
      BY <2>5
    <3>2. a \in Answers
      BY <3>1 DEF Answers
    <3> QED
      BY <2>1, <2>2, <2>5, <3>1, <3>2, AnswerType DEF PollPass
  <2> QED
    BY <2>1, <2>4, <2>5 DEF PollPass
<1>7. ASSUME NEW r \in Requests, RequestFault(r)
      PROVE  TypeOK' /\ Submitted'
  <2> HIDE DEF Submitted
  <2>1. /\ Answer(r, "error") /\ Fault /\ rpc[r] # "new"
        /\ plan' = plan /\ cursor' = cursor /\ "error" \in Answers
    BY <1>7 DEF RequestFault, Answers
  <2>2. key' \in [Ids -> Status \cup {"absent"}] /\ ttl' \in [Ids -> 0..ResultTTL]
    BY <1>7, CurrentType, SetStatusType DEF RequestFault, Status
  <2>3. queue' \in Seq(Entry) /\ pushes' \in [Ids -> Nat]
    BY <1>7, CurrentType, RPushType DEF RequestFault
  <2> QED
    BY <1>7, <2>1, <2>2, <2>3, AnswerType, FaultType DEF RequestFault
<1>8. CASE ApiCrash
  BY <1>8 DEF ApiCrash, Fault, Answers
<1>9. ASSUME NEW w \in Workers, StartWorker(w)
      PROVE  TypeOK' /\ Submitted'
  BY <1>9 DEF StartWorker
<1>10. ASSUME NEW w \in Workers, Pop(w)
      PROVE  TypeOK' /\ Submitted'
  BY <1>10 DEF Pop
<1>11. ASSUME NEW w \in Workers, StoreRunning(w)
      PROVE  TypeOK' /\ Submitted'
  <2>1. Store(w, "running", "ready") /\ "running" \in Status
    BY <1>11 DEF StoreRunning, Status, Terminal
  <2>2. /\ key' \in [Ids -> Status \cup {"absent"}] /\ ttl' \in [Ids -> 0..ResultTTL]
        /\ wpc' \in [Workers -> {"down", "idle", "claimed", "ready", "run",
                                 "report", "fail"}]
    BY <2>1, StoreType
  <2> QED
    BY <1>11, <2>2 DEF StoreRunning
<1>12. ASSUME NEW w \in Workers, Launch(w)
      PROVE  TypeOK' /\ Submitted'
  BY <1>12 DEF Launch
<1>13. ASSUME NEW w \in Workers, Reject(w) \/ SkipEmpty(w)
      PROVE  TypeOK' /\ Submitted'
  BY <1>13 DEF Reject, SkipEmpty
<1>14. ASSUME NEW w \in Workers, Finish(w)
      PROVE  TypeOK' /\ Submitted'
  BY <1>14 DEF Finish
<1>15. ASSUME NEW w \in Workers, StoreCompleted(w)
      PROVE  TypeOK' /\ Submitted'
  <2>1. Store(w, "completed", "idle") /\ Forget(w) /\ Settle(w) /\ "completed" \in Status
    BY <1>15 DEF StoreCompleted, Status, Terminal
  <2> QED
    BY <1>15, <2>1, StoreType, ForgetType, SettleType DEF StoreCompleted
<1>16. ASSUME NEW w \in Workers, StoreFailed(w)
      PROVE  TypeOK' /\ Submitted'
  <2>1. Store(w, "failed", "idle") /\ Forget(w) /\ Settle(w) /\ "failed" \in Status
    BY <1>16 DEF StoreFailed, Status, Terminal
  <2> QED
    BY <1>16, <2>1, StoreType, ForgetType, SettleType DEF StoreFailed
<1>17. ASSUME NEW w \in Workers, PopLost(w)
      PROVE  TypeOK' /\ Submitted'
  BY <1>17 DEF PopLost, Fault
<1>18. ASSUME NEW w \in Workers, StoreFault(w)
      PROVE  TypeOK' /\ Submitted'
  <2>1. Fault /\ Forget(w) /\ "running" \in Status /\ "failed" \in Status
    BY <1>18 DEF StoreFault, Status, Terminal
  <2>2. /\ key' \in [Ids -> Status \cup {"absent"}] /\ ttl' \in [Ids -> 0..ResultTTL]
        /\ wpc' \in [Workers -> {"down", "idle", "claimed", "ready", "run",
                                 "report", "fail"}]
        /\ settled' \in SUBSET Ids
    BY <1>18, <2>1, StoreType, SettleType DEF StoreFault
  <2> QED
    BY <1>18, <2>1, <2>2, ForgetType, FaultType DEF StoreFault
<1>19. ASSUME NEW w \in Workers, CompletedFault(w)
      PROVE  TypeOK' /\ Submitted'
  <2>1. Fault /\ "completed" \in Status
    BY <1>19 DEF CompletedFault, Status, Terminal
  <2>2. /\ key' \in [Ids -> Status \cup {"absent"}] /\ ttl' \in [Ids -> 0..ResultTTL]
        /\ wpc' \in [Workers -> {"down", "idle", "claimed", "ready", "run",
                                 "report", "fail"}]
        /\ settled' \in SUBSET Ids
    BY <1>19, <2>1, StoreType, SettleType DEF CompletedFault
  <2> QED
    BY <1>19, <2>1, <2>2, FaultType DEF CompletedFault
<1>20. ASSUME NEW w \in Workers, WorkerCrash(w)
      PROVE  TypeOK' /\ Submitted'
  BY <1>20 DEF WorkerCrash, Fault, Forget
<1>21. CASE Tick
  BY <1>21 DEF Tick
<1>22. CASE UNCHANGED vars
  BY <1>22 DEF vars
<1> QED
  BY <1>1, <1>2, <1>3, <1>4, <1>5, <1>6, <1>7, <1>8, <1>9, <1>10, <1>11, <1>12,
     <1>13, <1>14, <1>15, <1>16, <1>17, <1>18, <1>19, <1>20, <1>21, <1>22
  DEF Next, HandlerStep, RequestFaults, WorkerStep, WorkerFaults

\* Every variable keeps its type in every execution of the task queue.
THEOREM TypeCorrect == Spec => []TypeOK
<1>1. TypeOK /\ Submitted /\ [Next]_vars => TypeOK' /\ Submitted'
  BY NextType
<1> QED
  BY InitType, <1>1, PTL DEF Spec

-----------------------------------------------------------------------------
(* At most one start per push.  EntryInOnePlace is inductive once two      *)
(* facts are added: a worker holds an entry exactly while it handles one,  *)
(* and the copies of a task are numbered, so that a new push can never     *)
(* equal an entry that exists or ever ran.                                 *)

HandsOK ==
  \A w \in Workers :
    /\ wpc[w] \in {"down", "idle"} => held[w] = {}
    /\ wpc[w] \notin {"down", "idle"} => \E e \in Entry : held[w] = {e}

CopiesNumbered ==
  /\ \A i \in 1..Len(queue) : queue[i].copy <= pushes[queue[i].id]
  /\ \A w \in Workers : \A e \in held[w] : e.copy <= pushes[e.id]
  /\ \A e \in ran : e.copy <= pushes[e.id]

Custody == EntryInOnePlace /\ HandsOK /\ CopiesNumbered

LEMMA InitCustody == Init => Custody
BY DEF Init, Custody, EntryInOnePlace, HandsOK, CopiesNumbered, InQueue

\* A push adds an entry nobody has seen.
LEMMA RPushCustody ==
  ASSUME TypeOK, Custody, NEW id \in Ids, NEW k \in Nat,
         k > pushes[id],
         queue' = Append(queue, [id |-> id, copy |-> k]),
         pushes' = [pushes EXCEPT ![id] = k],
         UNCHANGED <<wpc, held, ran>>
  PROVE  Custody'
<1> DEFINE new == [id |-> id, copy |-> k]
<1>1. new \in Entry /\ new.id = id /\ new.copy = k
  BY DEF Entry
<1>2. \A e \in Entry : e.copy <= pushes[e.id] => e # new
  BY <1>1 DEF TypeOK, Entry
<1>3. \A e \in Entry : e.copy <= pushes[e.id] => e.copy <= pushes'[e.id]
  BY DEF TypeOK, Entry
<1>4. /\ Len(queue') = Len(queue) + 1 /\ Len(queue) \in Nat
      /\ \A i \in 1..Len(queue) : queue'[i] = queue[i] /\ queue[i] \in Entry
      /\ queue'[Len(queue) + 1] = new
  BY <1>1 DEF TypeOK
<1>5. new.copy <= pushes'[new.id]
  BY <1>1 DEF TypeOK
<1> HIDE DEF new
<1>6. \A i \in 1..Len(queue') : i \in 1..Len(queue) \/ i = Len(queue) + 1
  BY <1>4
<1>7. \A i \in 1..Len(queue) : queue[i] # new
  BY <1>2, <1>4 DEF Custody, CopiesNumbered
<1>8. /\ \A w \in Workers : held[w] \subseteq Entry /\ new \notin held[w]
      /\ ran \subseteq Entry /\ new \notin ran
  BY <1>2 DEF Custody, CopiesNumbered, TypeOK
<1>9. \A i, j \in 1..Len(queue') : queue'[i] = queue'[j] => i = j
  BY <1>4, <1>6, <1>7 DEF Custody, EntryInOnePlace
<1>10. \A w \in Workers : \A e \in held[w] : \A i \in 1..Len(queue') : queue'[i] # e
  BY <1>4, <1>6, <1>8 DEF Custody, EntryInOnePlace, InQueue
<1>11. \A i \in 1..Len(queue') : queue'[i] \notin ran
  BY <1>4, <1>6, <1>8 DEF Custody, EntryInOnePlace
<1>12. EntryInOnePlace'
  BY <1>9, <1>10, <1>11 DEF Custody, EntryInOnePlace, InQueue
<1>13. CopiesNumbered'
  BY <1>3, <1>4, <1>5, <1>6, <1>8 DEF Custody, CopiesNumbered
<1> QED
  BY <1>12, <1>13 DEF Custody, HandsOK

LEMMA OnePushCustody ==
  ASSUME TypeOK, Custody, NEW r \in Requests, RPush(Current(r)),
         UNCHANGED <<wpc, held, ran>>
  PROVE  Custody'
<1> DEFINE id == Current(r)
           k == pushes[id] + 1
<1>1. id \in Ids /\ pushes[id] \in Nat
  BY CurrentType DEF TypeOK
<1>2. k \in Nat /\ k > pushes[id]
  BY <1>1
<1>3. /\ queue' = Append(queue, [id |-> id, copy |-> k])
      /\ pushes' = [pushes EXCEPT ![id] = k]
  BY DEF RPush
<1> HIDE DEF id, k
<1> QED
  BY <1>1, <1>2, <1>3, RPushCustody

\* Removing the head leaves a queue with fewer entries.
LEMMA TailFacts ==
  ASSUME TypeOK, Custody, queue # <<>>, queue' = Tail(queue)
  PROVE  /\ Len(queue') = Len(queue) - 1 /\ Len(queue) \in Nat \ {0}
         /\ \A i \in 1..Len(queue') :
              i + 1 \in 1..Len(queue) /\ queue'[i] = queue[i + 1]
         /\ 1 \in 1..Len(queue) /\ Head(queue) = queue[1]
         /\ \A i \in 1..Len(queue') : queue'[i] # Head(queue)
         /\ \A i, j \in 1..Len(queue') : queue'[i] = queue'[j] => i = j
<1>1. /\ Len(queue') = Len(queue) - 1 /\ Len(queue) \in Nat \ {0}
      /\ \A i \in 1..Len(queue') :
           i + 1 \in 1..Len(queue) /\ queue'[i] = queue[i + 1]
      /\ 1 \in 1..Len(queue) /\ Head(queue) = queue[1]
  BY DEF TypeOK
<1> QED
  BY <1>1 DEF Custody, EntryInOnePlace

\* Nothing moves, or a worker forgets what it held.
LEMMA SameCustody ==
  ASSUME TypeOK, Custody, UNCHANGED <<queue, pushes, ran>>,
         \A w \in Workers :
           \/ held'[w] = held[w] /\ wpc'[w] = wpc[w]
           \/ /\ held'[w] = held[w]
              /\ <<wpc[w], wpc'[w]>> \in
                   {<<"down", "idle">>, <<"claimed", "ready">>, <<"ready", "fail">>,
                    <<"ready", "report">>, <<"run", "report">>,
                    <<"report", "fail">>}
           \/ held'[w] = {} /\ wpc'[w] \in {"down", "idle"}
  PROVE  Custody'
<1>1. \A w \in Workers : held'[w] \subseteq held[w]
  OBVIOUS
<1>2. EntryInOnePlace'
  BY <1>1 DEF Custody, EntryInOnePlace, InQueue
<1>3. HandsOK'
  BY DEF Custody, HandsOK
<1>4. CopiesNumbered'
  BY <1>1 DEF Custody, CopiesNumbered
<1> QED
  BY <1>2, <1>3, <1>4 DEF Custody

LEMMA PopCustody ==
  ASSUME TypeOK, Custody, NEW w \in Workers, Pop(w)
  PROVE  Custody'
<1> DEFINE e == Head(queue)
<1>1. /\ queue # <<>> /\ queue' = Tail(queue) /\ wpc[w] = "idle"
      /\ held' = [held EXCEPT ![w] = {e}]
      /\ wpc' = [wpc EXCEPT ![w] = "claimed"]
      /\ UNCHANGED <<pushes, ran>>
  BY DEF Pop, hist
<1>2. e \in Entry /\ e = queue[1] /\ 1 \in 1..Len(queue)
  BY <1>1, TailFacts DEF TypeOK
<1>3. /\ e \notin ran
      /\ \A v \in Workers : e \notin held[v]
      /\ e.copy <= pushes[e.id]
  BY <1>2 DEF Custody, EntryInOnePlace, InQueue, CopiesNumbered
<1> HIDE DEF e
<1>4. held'[w] = {e} /\ \A v \in Workers : v # w => held'[v] = held[v] /\ wpc'[v] = wpc[v]
  BY <1>1 DEF TypeOK
<1>5. \A v \in Workers : \A x \in held'[v] : ~InQueue(x)'
  <2> SUFFICES ASSUME NEW v \in Workers, NEW x \in held'[v], NEW i \in 1..Len(queue')
               PROVE  queue'[i] # x
    BY DEF InQueue
  <2> QED
    BY <1>1, <1>4, TailFacts DEF Custody, EntryInOnePlace, InQueue, e
<1>6. \A v, x \in Workers : held'[v] \cap held'[x] # {} => v = x
  BY <1>3, <1>4 DEF Custody, EntryInOnePlace
<1>7. \A i \in 1..Len(queue') : queue'[i] \notin ran' /\ queue'[i].copy <= pushes'[queue'[i].id]
  BY <1>1, TailFacts DEF Custody, EntryInOnePlace, CopiesNumbered
<1>8. \A v \in Workers : wpc'[v] \in {"claimed", "ready"} => held'[v] \cap ran' = {}
  BY <1>1, <1>3, <1>4 DEF Custody, EntryInOnePlace
<1>9. EntryInOnePlace'
  BY <1>1, <1>5, <1>6, <1>7, <1>8, TailFacts DEF EntryInOnePlace
<1>10. HandsOK'
  BY <1>1, <1>2, <1>4 DEF Custody, HandsOK, TypeOK
<1>11. CopiesNumbered'
  BY <1>1, <1>3, <1>4, <1>7 DEF Custody, CopiesNumbered
<1> QED
  BY <1>9, <1>10, <1>11 DEF Custody

LEMMA PopLostCustody ==
  ASSUME TypeOK, Custody, NEW w \in Workers, PopLost(w)
  PROVE  Custody'
<1>1. queue # <<>> /\ queue' = Tail(queue) /\ UNCHANGED <<wpc, held, pushes, ran>>
  BY DEF PopLost, wrk, hist
<1>2. \A x : InQueue(x)' => InQueue(x)
  BY <1>1, TailFacts DEF InQueue
<1>3. \A i \in 1..Len(queue') : queue'[i] \notin ran' /\ queue'[i].copy <= pushes'[queue'[i].id]
  BY <1>1, TailFacts DEF Custody, EntryInOnePlace, CopiesNumbered
<1>4. EntryInOnePlace'
  BY <1>1, <1>2, <1>3, TailFacts DEF Custody, EntryInOnePlace
<1> QED
  BY <1>1, <1>3, <1>4 DEF Custody, HandsOK, CopiesNumbered

LEMMA LaunchCustody ==
  ASSUME TypeOK, Custody, NEW w \in Workers, Launch(w)
  PROVE  Custody'
<1>1. /\ wpc[w] = "ready" /\ ran' = ran \cup held[w]
      /\ wpc' = [wpc EXCEPT ![w] = "run"]
      /\ UNCHANGED <<queue, held, pushes>>
  BY DEF Launch, redis
<1>2. \A v \in Workers : v # w => wpc'[v] = wpc[v] /\ held[v] \cap held[w] = {}
  BY <1>1 DEF TypeOK, Custody, EntryInOnePlace
<1>3. \A i \in 1..Len(queue) : queue[i] \notin held[w]
  BY DEF Custody, EntryInOnePlace, InQueue
<1>4. EntryInOnePlace'
  BY <1>1, <1>2, <1>3 DEF TypeOK, Custody, EntryInOnePlace, InQueue
<1>5. HandsOK' /\ CopiesNumbered'
  BY <1>1, <1>2 DEF TypeOK, Custody, HandsOK, CopiesNumbered
<1> QED
  BY <1>4, <1>5 DEF Custody

LEMMA PushTwiceCustody ==
  ASSUME TypeOK, Custody, NEW r \in Requests, PushTwice(r)
  PROVE  Custody'
<1> DEFINE id == Current(r)
           first == [id |-> id, copy |-> pushes[id] + 1]
           second == [id |-> id, copy |-> pushes[id] + 2]
<1>1. /\ queue' = Append(Append(queue, first), second)
      /\ pushes' = [pushes EXCEPT ![id] = pushes[id] + 2]
      /\ UNCHANGED <<wpc, held, ran>>
  BY DEF PushTwice, RPushTwice, wrk
<1>2. id \in Ids /\ pushes[id] \in Nat
  BY CurrentType DEF TypeOK
<1>3. first \in Entry /\ second \in Entry /\ first # second
      /\ first.id = id /\ second.id = id
      /\ first.copy = pushes[id] + 1 /\ second.copy = pushes[id] + 2
  BY <1>2 DEF Entry
<1>4. \A e \in Entry : e.copy <= pushes[e.id] =>
        e # first /\ e # second /\ e.copy <= pushes'[e.id]
  BY <1>1, <1>2, <1>3, SMTT(30) DEF TypeOK, Entry
<1>5. first.copy <= pushes'[first.id] /\ second.copy <= pushes'[second.id]
  BY <1>1, <1>2, <1>3 DEF TypeOK
<1> HIDE DEF first, second
<1>6. /\ Len(queue) \in Nat /\ Len(queue') = Len(queue) + 2
      /\ \A i \in 1..Len(queue) : queue'[i] = queue[i] /\ queue[i] \in Entry
      /\ queue'[Len(queue) + 1] = first /\ queue'[Len(queue) + 2] = second
  <2> DEFINE q == Append(queue, first)
  <2>1. /\ q \in Seq(Entry) /\ Len(q) = Len(queue) + 1 /\ Len(queue) \in Nat
        /\ \A i \in 1..Len(queue) : q[i] = queue[i] /\ queue[i] \in Entry
        /\ q[Len(queue) + 1] = first
    BY <1>3 DEF TypeOK
  <2> HIDE DEF q
  <2>2. queue' = Append(q, second)
    BY <1>1 DEF q
  <2>3. /\ Len(queue') = Len(q) + 1
        /\ \A i \in 1..Len(q) : queue'[i] = q[i]
        /\ queue'[Len(q) + 1] = second
    BY <1>3, <2>1, <2>2
  <2> QED
    BY <2>1, <2>3
<1>7. \A i \in 1..Len(queue') :
        i \in 1..Len(queue) \/ i = Len(queue) + 1 \/ i = Len(queue) + 2
  BY <1>6
<1>8. \A i \in 1..Len(queue) : queue[i] # first /\ queue[i] # second
  BY <1>4, <1>6 DEF Custody, CopiesNumbered
<1>9. /\ \A w \in Workers : /\ held[w] \subseteq Entry
                            /\ first \notin held[w] /\ second \notin held[w]
      /\ ran \subseteq Entry /\ first \notin ran /\ second \notin ran
  BY <1>4 DEF Custody, CopiesNumbered, TypeOK
<1>10. \A i, j \in 1..Len(queue') : queue'[i] = queue'[j] => i = j
  BY <1>3, <1>6, <1>7, <1>8 DEF Custody, EntryInOnePlace
<1>11. \A w \in Workers : \A e \in held[w] : \A i \in 1..Len(queue') : queue'[i] # e
  BY <1>6, <1>7, <1>9 DEF Custody, EntryInOnePlace, InQueue
<1>12. \A i \in 1..Len(queue') : queue'[i] \notin ran
  BY <1>6, <1>7, <1>9 DEF Custody, EntryInOnePlace
<1>13. EntryInOnePlace'
  BY <1>1, <1>10, <1>11, <1>12 DEF Custody, EntryInOnePlace, InQueue
<1>14. CopiesNumbered'
  BY <1>1, <1>4, <1>5, <1>6, <1>7, <1>9 DEF Custody, CopiesNumbered
<1> QED
  BY <1>1, <1>13, <1>14 DEF Custody, HandsOK

LEMMA RequestFaultCustody ==
  ASSUME TypeOK, Custody, NEW r \in Requests, RequestFault(r)
  PROVE  Custody'
<1>1. UNCHANGED <<wpc, held, ran>>
  BY DEF RequestFault, wrk
<1>2. CASE UNCHANGED <<queue, pushes>>
  BY <1>1, <1>2, SameCustody DEF TypeOK
<1>3. CASE RPush(Current(r))
  BY <1>1, <1>3, OnePushCustody
<1> QED
  BY <1>2, <1>3 DEF RequestFault

LEMMA NextCustody == TypeOK /\ Custody /\ [Next]_vars => Custody'
<1> SUFFICES ASSUME TypeOK, Custody, [Next]_vars
             PROVE  Custody'
  OBVIOUS
<1> USE DEF redis, api, wrk, hist
<1>1. ASSUME NEW r \in Requests, NEW k \in Kinds, NEW p \in Plans,
             Submit(r, k, p)
      PROVE  Custody'
  BY <1>1, SameCustody DEF Submit, TypeOK
<1>2. ASSUME NEW r \in Requests, Refuse(r)
      PROVE  Custody'
  BY <1>2, SameCustody DEF Refuse, TypeOK
<1>3. ASSUME NEW r \in Requests, SetQueued(r)
      PROVE  Custody'
  BY <1>3, SameCustody DEF SetQueued, TypeOK
<1>4. ASSUME NEW r \in Requests, Push(r)
      PROVE  Custody'
  BY <1>4, OnePushCustody DEF Push
<1>5. ASSUME NEW r \in Requests, PushTwice(r)
      PROVE  Custody'
  BY <1>5, PushTwiceCustody
<1>6. ASSUME NEW r \in Requests, Poll(r)
      PROVE  Custody'
  BY <1>6, SameCustody DEF Poll, PollPass, TypeOK
<1>7. ASSUME NEW r \in Requests, RequestFault(r)
      PROVE  Custody'
  BY <1>7, RequestFaultCustody
<1>8. CASE ApiCrash
  BY <1>8, SameCustody DEF ApiCrash, TypeOK
<1>9. ASSUME NEW w \in Workers, StartWorker(w)
      PROVE  Custody'
  BY <1>9, SameCustody DEF StartWorker, TypeOK
<1>10. ASSUME NEW w \in Workers, Pop(w)
      PROVE  Custody'
  BY <1>10, PopCustody
<1>11. ASSUME NEW w \in Workers, StoreRunning(w)
      PROVE  Custody'
  BY <1>11, SameCustody DEF StoreRunning, Store, TypeOK
<1>12. ASSUME NEW w \in Workers, Launch(w)
      PROVE  Custody'
  BY <1>12, LaunchCustody
<1>13. ASSUME NEW w \in Workers, Reject(w) \/ SkipEmpty(w)
      PROVE  Custody'
  BY <1>13, SameCustody DEF Reject, SkipEmpty, TypeOK
<1>14. ASSUME NEW w \in Workers, Finish(w)
      PROVE  Custody'
  BY <1>14, SameCustody DEF Finish, TypeOK
<1>15. ASSUME NEW w \in Workers, StoreCompleted(w)
      PROVE  Custody'
  BY <1>15, SameCustody DEF StoreCompleted, Store, Forget, TypeOK
<1>16. ASSUME NEW w \in Workers, StoreFailed(w)
      PROVE  Custody'
  BY <1>16, SameCustody DEF StoreFailed, Store, Forget, TypeOK
<1>17. ASSUME NEW w \in Workers, PopLost(w)
      PROVE  Custody'
  BY <1>17, PopLostCustody
<1>18. ASSUME NEW w \in Workers, StoreFault(w)
      PROVE  Custody'
  BY <1>18, SameCustody DEF StoreFault, Store, Forget, TypeOK
<1>19. ASSUME NEW w \in Workers, CompletedFault(w)
      PROVE  Custody'
  BY <1>19, SameCustody DEF CompletedFault, Store, TypeOK
<1>20. ASSUME NEW w \in Workers, WorkerCrash(w)
      PROVE  Custody'
  BY <1>20, SameCustody DEF WorkerCrash, Forget, TypeOK
<1>21. CASE Tick
  BY <1>21, SameCustody DEF Tick, TypeOK
<1>22. CASE UNCHANGED vars
  BY <1>22, SameCustody DEF vars, TypeOK
<1> QED
  BY <1>1, <1>2, <1>3, <1>4, <1>5, <1>6, <1>7, <1>8, <1>9, <1>10, <1>11, <1>12,
     <1>13, <1>14, <1>15, <1>16, <1>17, <1>18, <1>19, <1>20, <1>21, <1>22
  DEF Next, HandlerStep, RequestFaults, WorkerStep, WorkerFaults

\* In every execution a queue entry is in one place only, and not started
\* before it left the queue.
THEOREM OnePlace == Spec => []EntryInOnePlace
<1>1. Custody => EntryInOnePlace
  BY DEF Custody
<1> QED
  BY InitCustody, NextCustody, TypeCorrect, <1>1, PTL DEF Spec

\* Only Launch brings a worker to "run", and it starts what is in its hands.
LEMMA StartsFresh ==
  ASSUME TypeOK, Custody, [Next]_vars, NEW w \in Workers,
         wpc[w] # "run", wpc'[w] = "run"
  PROVE  held[w] \cap ran = {}
<1>1. wpc[w] = "ready"
  <2> USE DEF TypeOK, redis, api, wrk, hist
  <2>1. ASSUME NEW v \in Workers, WorkerStep(v)
        PROVE  wpc[w] = "ready"
    BY <2>1 DEF WorkerStep, Pop, StoreRunning, Store, Launch, SkipEmpty, Reject,
                Finish, StoreCompleted, StoreFailed
  <2>2. ASSUME NEW v \in Workers, WorkerFaults(v) \/ StartWorker(v)
        PROVE  FALSE
    BY <2>2 DEF WorkerFaults, StartWorker, PopLost, StoreFault, Store,
                CompletedFault, WorkerCrash
  <2>3. ASSUME NEW r \in Requests, HandlerStep(r) \/ RequestFaults(r)
        PROVE  FALSE
    BY <2>3 DEF HandlerStep, RequestFaults, Refuse, SetQueued, Push, Poll, PollPass,
                PushTwice, RequestFault
  <2>4. ASSUME \/ \E r \in Requests, k \in Kinds, p \in Plans : Submit(r, k, p)
               \/ ApiCrash \/ Tick \/ UNCHANGED vars
        PROVE  FALSE
    BY <2>4 DEF Submit, ApiCrash, Tick, vars
  <2> QED
    BY <2>1, <2>2, <2>3, <2>4 DEF Next
<1> QED
  BY <1>1 DEF Custody, EntryInOnePlace

\* The queue delivers each push at most once: no entry is started twice, for
\* any number of workers, crashes and failed Redis calls.
THEOREM AtMostOncePerPush == Spec => NeverRunTwice
<1>1. TypeOK /\ Custody /\ [Next]_vars =>
        [\A w \in Workers :
           wpc[w] # "run" /\ wpc'[w] = "run" => held[w] \cap ran = {}]_vars
  BY StartsFresh
<1> QED
  BY InitCustody, NextCustody, TypeCorrect, <1>1, PTL DEF Spec, NeverRunTwice

-----------------------------------------------------------------------------
(* The refinement of TaskService.  A ticket is a push; it is owed while its *)
(* entry is in the queue or in the hands of a worker that has not started  *)
(* it.                                                                     *)

LEMMA InitRefines == Init => Service!Init
BY DEF Init, Service!Init, Tickets, Owed

\* What is owed, seen entry by entry.
Waiting(e) ==
  InQueue(e) \/ \E w \in Workers : wpc[w] \in {"claimed", "ready"} /\ e \in held[w]

LEMMA OwedFacts ==
  /\ \A e : e \in Owed <=> Waiting(e)
  /\ \A e : e \in Owed' <=> Waiting(e)'
BY DEF Owed, Waiting, InQueue

LEMMA SameTickets ==
  ASSUME pushes' = pushes
  PROVE  Tickets' = Tickets
BY DEF Tickets

\* Pushing a task n times brings exactly n new tickets.
LEMMA NewTickets ==
  ASSUME TypeOK, NEW id \in Ids, NEW n \in Nat,
         pushes' = [pushes EXCEPT ![id] = pushes[id] + n]
  PROVE  /\ Tickets \subseteq Tickets'
         /\ Tickets' \ Tickets =
              {[id |-> id, copy |-> k] : k \in (pushes[id] + 1)..(pushes[id] + n)}
<1> DEFINE Old(i) == {[id |-> i, copy |-> k] : k \in 1..pushes[i]}
           New == {[id |-> id, copy |-> k] : k \in (pushes[id] + 1)..(pushes[id] + n)}
<1>1. \A i \in Ids : pushes[i] \in Nat
  BY DEF TypeOK
<1>2. /\ pushes'[id] = pushes[id] + n
      /\ \A i \in Ids : i # id => pushes'[i] = pushes[i]
  BY DEF TypeOK
<1>3. \A e : e \in Tickets <=> \E i \in Ids : e \in Old(i)
  BY DEF Tickets
<1>4. \A e : e \in Tickets' <=>
        \E i \in Ids : e \in {[id |-> i, copy |-> k] : k \in 1..pushes'[i]}
  BY DEF Tickets
<1>5. \A k : k \in 1..pushes'[id] <=>
             k \in 1..pushes[id] \/ k \in (pushes[id] + 1)..(pushes[id] + n)
  BY <1>1, <1>2
<1>6. \A e : e \in Tickets' <=> e \in Tickets \/ e \in New
  BY <1>2, <1>3, <1>4, <1>5
<1>7. \A e \in New : e \notin Tickets
  BY <1>1, <1>3
<1> QED
  BY <1>6, <1>7

\* A worker goes on with nothing to start in its hands: exactly what it had
\* still to start is no longer owed.
LEMMA LetGo ==
  ASSUME TypeOK, Custody, NEW w \in Workers, UNCHANGED queue,
         wpc'[w] \notin {"claimed", "ready"},
         \A v \in Workers : v # w => held'[v] = held[v] /\ wpc'[v] = wpc[v]
  PROVE  /\ wpc[w] \in {"claimed", "ready"} => Owed' = Owed \ held[w]
         /\ wpc[w] \notin {"claimed", "ready"} => Owed' = Owed
<1>1. \A e \in held[w] : ~InQueue(e) /\ \A v \in Workers : e \in held[v] => v = w
  BY DEF Custody, EntryInOnePlace
<1>2. ASSUME NEW e
      PROVE  Waiting(e)' <=> /\ Waiting(e)
                             /\ ~(wpc[w] \in {"claimed", "ready"} /\ e \in held[w])
  BY <1>1 DEF Waiting, InQueue
<1> QED
  BY <1>2, OwedFacts

\* Then one owed ticket was dropped, or nothing can be seen.
LEMMA LetGoRefines ==
  ASSUME TypeOK, Custody, NEW w \in Workers, UNCHANGED <<queue, pushes, ran>>,
         wpc'[w] \notin {"claimed", "ready"},
         \A v \in Workers : v # w => held'[v] = held[v] /\ wpc'[v] = wpc[v]
  PROVE  [Service!Next]_<<Tickets, Owed, ran>>
<1>1. Tickets' = Tickets
  BY SameTickets
<1>2. CASE wpc[w] \in {"claimed", "ready"}
  <2>1. PICK e : held[w] = {e}
    BY <1>2 DEF Custody, HandsOK
  <2>2. e \in Owed
    BY <1>2, <2>1, OwedFacts DEF Waiting
  <2>3. Owed' = Owed \ {e}
    BY <1>2, <2>1, LetGo
  <2> QED
    BY <1>1, <2>2, <2>3 DEF Service!Next, Service!Drop
<1>3. CASE wpc[w] \notin {"claimed", "ready"}
  BY <1>1, <1>3, LetGo
<1> QED
  BY <1>2, <1>3

\* What nobody starts, drops or pushes cannot be seen.
LEMMA UnseenRefines ==
  ASSUME UNCHANGED <<queue, pushes, ran, held>>,
         \A w \in Workers : wpc'[w] \in {"claimed", "ready"}
                              <=> wpc[w] \in {"claimed", "ready"}
  PROVE  [Service!Next]_<<Tickets, Owed, ran>>
<1>1. \A e : Waiting(e)' <=> Waiting(e)
  BY DEF Waiting, InQueue
<1> QED
  BY <1>1, OwedFacts, SameTickets

LEMMA LaunchRefines ==
  ASSUME TypeOK, Custody, NEW w \in Workers, Launch(w)
  PROVE  Service!Start
<1>1. /\ wpc[w] = "ready" /\ wpc' = [wpc EXCEPT ![w] = "run"]
      /\ ran' = ran \cup held[w] /\ UNCHANGED <<queue, held, pushes>>
  BY DEF Launch, redis
<1>2. PICK e : held[w] = {e}
  BY <1>1 DEF Custody, HandsOK
<1>3. e \in Owed
  BY <1>1, <1>2, OwedFacts DEF Waiting
<1>4. Owed' = Owed \ {e}
  BY <1>1, <1>2, LetGo DEF TypeOK
<1> QED
  BY <1>1, <1>2, <1>3, <1>4, SameTickets DEF Service!Start

\* An entry that moves from the queue into a worker's hands is still owed.
LEMMA PopRefines ==
  ASSUME TypeOK, Custody, NEW w \in Workers, Pop(w)
  PROVE  UNCHANGED <<Tickets, Owed, ran>>
<1>1. /\ wpc[w] = "idle" /\ wpc' = [wpc EXCEPT ![w] = "claimed"]
      /\ queue # <<>> /\ queue' = Tail(queue)
      /\ held' = [held EXCEPT ![w] = {Head(queue)}]
      /\ UNCHANGED <<pushes, ran>>
  BY DEF Pop, hist
<1>2. \A e : InQueue(e) <=> InQueue(e)' \/ e = Head(queue)
  <2>1. \A i \in 1..Len(queue) : i = 1 \/ i - 1 \in 1..Len(queue')
    BY <1>1, TailFacts
  <2>2. \A i \in 1..Len(queue) : i # 1 => queue[i] = queue'[i - 1]
    BY <1>1, <2>1, TailFacts
  <2> QED
    BY <1>1, <2>1, <2>2, TailFacts DEF InQueue
<1>3. /\ held'[w] = {Head(queue)} /\ wpc'[w] = "claimed"
      /\ \A v \in Workers : v # w => held'[v] = held[v] /\ wpc'[v] = wpc[v]
  BY <1>1 DEF TypeOK
<1>4. \A e : Waiting(e)' <=> Waiting(e)
  BY <1>1, <1>2, <1>3 DEF Waiting
<1> QED
  BY <1>1, <1>4, OwedFacts, SameTickets

LEMMA PopLostRefines ==
  ASSUME TypeOK, Custody, NEW w \in Workers, PopLost(w)
  PROVE  Service!Drop
<1>1. queue # <<>> /\ queue' = Tail(queue) /\ UNCHANGED <<wpc, held, pushes, ran>>
  BY DEF PopLost, wrk, hist
<1>2. PICK h : h = Head(queue)
  OBVIOUS
<1>3. \A e : InQueue(e) <=> InQueue(e)' \/ e = h
  <2>1. \A i \in 1..Len(queue) : i = 1 \/ i - 1 \in 1..Len(queue')
    BY <1>1, TailFacts
  <2>2. \A i \in 1..Len(queue) : i # 1 => queue[i] = queue'[i - 1]
    BY <1>1, <2>1, TailFacts
  <2> QED
    BY <1>1, <1>2, <2>1, <2>2, TailFacts, SMTT(30) DEF InQueue
<1>4. /\ ~InQueue(h)' /\ InQueue(h)
      /\ \A v \in Workers : h \notin held[v]
  BY <1>1, <1>2, TailFacts DEF Custody, EntryInOnePlace, InQueue
<1>5. \A e : Waiting(e)' <=> Waiting(e) /\ e # h
  BY <1>1, <1>3, <1>4 DEF Waiting
<1>6. h \in Owed /\ Owed' = Owed \ {h}
  BY <1>4, <1>5, OwedFacts DEF Waiting
<1> QED
  BY <1>1, <1>6, SameTickets DEF Service!Drop

\* A push, or a push whose reply was lost and that is sent again.
LEMMA PushRefines ==
  ASSUME TypeOK, NEW id \in Ids, RPush(id) \/ RPushTwice(id),
         UNCHANGED <<wpc, held, ran>>
  PROVE  Service!Accept
<1> DEFINE first == [id |-> id, copy |-> pushes[id] + 1]
           second == [id |-> id, copy |-> pushes[id] + 2]
<1>1. first \in Entry /\ second \in Entry /\ pushes[id] \in Nat
  BY DEF TypeOK, Entry
<1>2. CASE RPush(id)
  <2>1. /\ Tickets \subseteq Tickets'
        /\ Tickets' \ Tickets = {[id |-> id, copy |-> k] :
                                   k \in (pushes[id] + 1)..(pushes[id] + 1)}
    BY <1>2, NewTickets DEF RPush
  <2>2. \A k : k \in (pushes[id] + 1)..(pushes[id] + 1) <=> k = pushes[id] + 1
    BY <1>1
  <2>3. Tickets' \ Tickets = {first}
    BY <2>1, <2>2
  <2>4. \A e : InQueue(e)' <=> InQueue(e) \/ e = first
    <3> HIDE DEF first
    <3>1. queue' = Append(queue, first)
      BY <1>2 DEF RPush, first
    <3>2. /\ Len(queue) \in Nat /\ Len(queue') = Len(queue) + 1
          /\ queue'[Len(queue) + 1] = first
          /\ \A i \in 1..Len(queue) : queue'[i] = queue[i]
      BY <1>1, <3>1 DEF TypeOK
    <3> QED
      BY <3>2 DEF InQueue
  <2>5. Owed' = Owed \cup {first}
    BY <2>4, OwedFacts DEF Waiting
  <2> QED
    BY <2>1, <2>3, <2>5 DEF Service!Accept
<1>3. CASE RPushTwice(id)
  <2>1. /\ Tickets \subseteq Tickets'
        /\ Tickets' \ Tickets = {[id |-> id, copy |-> k] :
                                   k \in (pushes[id] + 1)..(pushes[id] + 2)}
    BY <1>3, NewTickets DEF RPushTwice
  <2>2. \A k : k \in (pushes[id] + 1)..(pushes[id] + 2)
                 <=> k = pushes[id] + 1 \/ k = pushes[id] + 2
    BY <1>1
  <2>3. Tickets' \ Tickets = {first, second}
    BY <2>1, <2>2
  <2>4. \A e : InQueue(e)' <=> InQueue(e) \/ e = first \/ e = second
    <3> HIDE DEF first, second
    <3> DEFINE q == Append(queue, first)
    <3>1. /\ q \in Seq(Entry) /\ Len(queue) \in Nat /\ Len(q) = Len(queue) + 1
          /\ q[Len(queue) + 1] = first
          /\ \A i \in 1..Len(queue) : q[i] = queue[i]
      BY <1>1 DEF TypeOK
    <3> HIDE DEF q
    <3>2. queue' = Append(q, second)
      BY <1>3 DEF RPushTwice, q, first, second
    <3>3. /\ Len(queue') = Len(q) + 1 /\ queue'[Len(q) + 1] = second
          /\ \A i \in 1..Len(q) : queue'[i] = q[i]
      BY <1>1, <3>1, <3>2
    <3>4. \A i \in 1..Len(queue') :
            i \in 1..Len(queue) \/ i = Len(queue) + 1 \/ i = Len(queue) + 2
      BY <3>1, <3>3
    <3>5. /\ queue'[Len(queue) + 1] = first /\ queue'[Len(queue) + 2] = second
          /\ Len(queue) + 1 \in 1..Len(queue') /\ Len(queue) + 2 \in 1..Len(queue')
          /\ \A i \in 1..Len(queue) : queue'[i] = queue[i] /\ i \in 1..Len(queue')
      BY <3>1, <3>3
    <3> QED
      BY <3>4, <3>5 DEF InQueue
  <2>5. Owed' = Owed \cup {first, second}
    BY <2>4, OwedFacts DEF Waiting
  <2> QED
    BY <2>1, <2>3, <2>5 DEF Service!Accept
<1> QED
  BY <1>2, <1>3

LEMMA RequestFaultRefines ==
  ASSUME TypeOK, NEW r \in Requests, RequestFault(r)
  PROVE  [Service!Next]_<<Tickets, Owed, ran>>
<1>1. UNCHANGED <<wpc, held, ran>>
  BY DEF RequestFault, wrk
<1>2. CASE UNCHANGED <<queue, pushes>>
  BY <1>1, <1>2, UnseenRefines
<1>3. CASE RPush(Current(r))
  BY <1>1, <1>3, CurrentType, PushRefines DEF Service!Next
<1> QED
  BY <1>2, <1>3 DEF RequestFault

LEMMA StepRefines ==
  ASSUME TypeOK, Custody, [Next]_vars
  PROVE  [Service!Next]_<<Tickets, Owed, ran>>
<1> USE DEF redis, api, wrk, hist
<1>1. ASSUME NEW r \in Requests, NEW k \in Kinds, NEW p \in Plans,
             Submit(r, k, p)
      PROVE  [Service!Next]_<<Tickets, Owed, ran>>
  BY <1>1, UnseenRefines DEF Submit
<1>2. ASSUME NEW r \in Requests, Refuse(r) \/ SetQueued(r)
      PROVE  [Service!Next]_<<Tickets, Owed, ran>>
  BY <1>2, UnseenRefines DEF Refuse, SetQueued
<1>3. ASSUME NEW r \in Requests, Push(r) \/ PushTwice(r)
      PROVE  [Service!Next]_<<Tickets, Owed, ran>>
  BY <1>3, CurrentType, PushRefines DEF Push, PushTwice, Service!Next
<1>4. ASSUME NEW r \in Requests, Poll(r)
      PROVE  [Service!Next]_<<Tickets, Owed, ran>>
  BY <1>4, UnseenRefines DEF Poll, PollPass
<1>5. ASSUME NEW r \in Requests, RequestFault(r)
      PROVE  [Service!Next]_<<Tickets, Owed, ran>>
  BY <1>5, RequestFaultRefines
<1>6. CASE ApiCrash
  BY <1>6, UnseenRefines DEF ApiCrash
<1>7. ASSUME NEW w \in Workers, StartWorker(w) \/ Finish(w) \/ CompletedFault(w)
      PROVE  [Service!Next]_<<Tickets, Owed, ran>>
  BY <1>7, UnseenRefines DEF StartWorker, Finish, CompletedFault, Store, TypeOK
<1>8. ASSUME NEW w \in Workers, Pop(w)
      PROVE  [Service!Next]_<<Tickets, Owed, ran>>
  BY <1>8, PopRefines
<1>9. ASSUME NEW w \in Workers, StoreRunning(w)
      PROVE  [Service!Next]_<<Tickets, Owed, ran>>
  BY <1>9, UnseenRefines DEF StoreRunning, Store, TypeOK
<1>10. ASSUME NEW w \in Workers, Launch(w)
       PROVE  [Service!Next]_<<Tickets, Owed, ran>>
  BY <1>10, LaunchRefines DEF Service!Next
<1>11. ASSUME NEW w \in Workers, Reject(w) \/ SkipEmpty(w)
       PROVE  [Service!Next]_<<Tickets, Owed, ran>>
  BY <1>11, LetGoRefines DEF Reject, SkipEmpty, TypeOK
<1>12. ASSUME NEW w \in Workers, StoreCompleted(w) \/ StoreFailed(w)
       PROVE  [Service!Next]_<<Tickets, Owed, ran>>
  BY <1>12, LetGoRefines DEF StoreCompleted, StoreFailed, Store, Forget, TypeOK
<1>13. ASSUME NEW w \in Workers, PopLost(w)
       PROVE  [Service!Next]_<<Tickets, Owed, ran>>
  BY <1>13, PopLostRefines DEF Service!Next
<1>14. ASSUME NEW w \in Workers, StoreFault(w) \/ WorkerCrash(w)
       PROVE  [Service!Next]_<<Tickets, Owed, ran>>
  BY <1>14, LetGoRefines DEF StoreFault, WorkerCrash, Store, Forget, TypeOK
<1>15. CASE Tick
  BY <1>15, UnseenRefines DEF Tick
<1>16. CASE UNCHANGED vars
  BY <1>16, UnseenRefines DEF vars
<1> QED
  BY <1>1, <1>2, <1>3, <1>4, <1>5, <1>6, <1>7, <1>8, <1>9, <1>10, <1>11, <1>12,
     <1>13, <1>14, <1>15, <1>16
  DEF Next, HandlerStep, RequestFaults, WorkerStep, WorkerFaults

\* The queue with its workers, crashes and failed Redis calls implements
\* TaskService: every step accepts tickets, starts one, drops one, or cannot
\* be seen; nothing is delivered again (worker.py:95-111, agent.py:72-77).
THEOREM QueueImplementsTaskService == Spec => ImplementsTaskService
<1>1. TypeOK /\ Custody /\ [Next]_vars => [Service!Next]_<<Tickets, Owed, ran>>
  BY StepRefines
<1> QED
  BY InitRefines, InitCustody, NextCustody, TypeCorrect, <1>1, PTL
  DEF Spec, ImplementsTaskService, Service!Spec
=============================================================================

--------------------------- MODULE TaskStatusProofs ---------------------------
(***************************************************************************)
(* Theorems about what callers of TaskQueue are told: status keys, the     *)
(* order in which the tasks of a request are taken, and the answer of a    *)
(* wait.  They rest on the type and custody invariants of TaskQueueProofs. *)
(***************************************************************************)
EXTENDS TaskQueueProofs

LEMMA SetStatusAt ==
  ASSUME TypeOK, NEW id \in Ids, NEW status, SetStatus(id, status)
  PROVE  /\ key'[id] = status /\ ttl'[id] = ResultTTL
         /\ \A i \in Ids : i # id => key'[i] = key[i] /\ ttl'[i] = ttl[i]
BY DEF TypeOK, SetStatus

\* Store writes the key of the one entry the worker holds.
LEMMA StoreAt ==
  ASSUME TypeOK, Custody, NEW w \in Workers, NEW status, NEW next,
         Store(w, status, next)
  PROVE  \E e \in Entry :
           /\ held[w] = {e} /\ e.id \in Ids
           /\ key'[e.id] = status /\ ttl'[e.id] = ResultTTL
           /\ \A i \in Ids : i # e.id => key'[i] = key[i] /\ ttl'[i] = ttl[i]
           /\ wpc'[w] = next
           /\ \A v \in Workers : v # w => wpc'[v] = wpc[v]
<1>1. PICK e \in held[w] : SetStatus(e.id, status)
  BY DEF Store
<1>2. e \in Entry /\ e.id \in Ids /\ held[w] = {e}
  BY <1>1 DEF Custody, HandsOK, TypeOK, Entry
<1>3. wpc'[w] = next /\ \A v \in Workers : v # w => wpc'[v] = wpc[v]
  BY DEF Store, TypeOK
<1>4. /\ key'[e.id] = status /\ ttl'[e.id] = ResultTTL
      /\ \A i \in Ids : i # e.id => key'[i] = key[i] /\ ttl'[i] = ttl[i]
  BY <1>1, <1>2, SetStatusAt
<1> QED
  BY <1>2, <1>3, <1>4

LEMMA ForgetAt ==
  ASSUME TypeOK, NEW w \in Workers, Forget(w)
  PROVE  /\ held'[w] = {} /\ elapsed'[w] = 0
         /\ \A v \in Workers : v # w => held'[v] = held[v] /\ elapsed'[v] = elapsed[v]
BY DEF TypeOK, Forget

-----------------------------------------------------------------------------
(* RunningIsVisible.  The key of a running command is never missing because *)
(* SET RUNNING gave it a TTL longer than the command may still last, and   *)
(* nobody shortens a TTL.                                                  *)

\* While a worker is about to start a command or runs it, the command's key
\* exists and will outlive it; the clock of a worker runs only for commands.
RunningKept ==
  /\ \A w \in Workers : wpc[w] \in {"down", "idle", "claimed", "ready"} => elapsed[w] = 0
  /\ \A w \in Workers : wpc[w] \in {"ready", "run"} =>
       \A e \in held[w] : /\ key[e.id] # "absent"
                          /\ ttl[e.id] + elapsed[w] >= ResultTTL

LEMMA InitVisible == Init => RunningKept
BY DEF Init, RunningKept

\* Setting the status of any task keeps running commands visible.
LEMMA VisibleAfterSet ==
  ASSUME TypeOK, RunningKept, NEW id \in Ids, NEW status \in Status,
         SetStatus(id, status), UNCHANGED <<held, elapsed>>,
         \A w \in Workers : wpc'[w] = wpc[w]
  PROVE  RunningKept'
<1>1. "absent" \notin Status
  BY DEF Status, Terminal
<1>2. \A w \in Workers : elapsed[w] \in Nat /\ \A e \in held[w] : e.id \in Ids
  BY TimingAssumption DEF TypeOK, Entry
<1> QED
  BY <1>1, <1>2, SetStatusAt, TimingAssumption DEF RunningKept

\* The worker w leaves "ready" and "run", or enters "ready", and may have
\* set the status of what it holds.
LEMMA VisibleAfterWork ==
  ASSUME TypeOK, Custody, RunningKept, NEW w \in Workers,
         \A v \in Workers : v # w =>
           wpc'[v] = wpc[v] /\ held'[v] = held[v] /\ elapsed'[v] = elapsed[v],
         wpc'[w] \in {"down", "idle", "claimed", "ready"} => elapsed'[w] = 0,
         \/ UNCHANGED <<key, ttl>> /\ wpc'[w] \notin {"ready", "run"}
         \/ UNCHANGED <<key, ttl>> /\ wpc[w] = "ready" /\ UNCHANGED <<held, elapsed>>
         \/ \E e \in Entry :
              /\ held[w] = {e}
              /\ key'[e.id] # "absent" /\ ttl'[e.id] = ResultTTL
              /\ \A i \in Ids : i # e.id => key'[i] = key[i] /\ ttl'[i] = ttl[i]
              /\ wpc'[w] \in {"ready", "run"} => held'[w] = held[w] /\ elapsed'[w] \in Nat
  PROVE  RunningKept'
<1>1. \A v \in Workers : elapsed[v] \in Nat /\ \A e \in held[v] : e.id \in Ids
  BY TimingAssumption DEF TypeOK, Entry
<1> QED
  BY <1>1, TimingAssumption DEF RunningKept

LEMMA NextVisible ==
  ASSUME TypeOK, Custody, RunningKept, [Next]_vars
  PROVE  RunningKept'
<1> USE DEF redis, api, wrk, hist
<1>1. ASSUME NEW r \in Requests, NEW k \in Kinds, NEW p \in Plans,
             Submit(r, k, p)
      PROVE  RunningKept'
  BY <1>1 DEF Submit, RunningKept
<1>2. ASSUME NEW r \in Requests, Refuse(r)
      PROVE  RunningKept'
  BY <1>2 DEF Refuse, RunningKept
<1>3. ASSUME NEW r \in Requests, SetQueued(r)
      PROVE  RunningKept'
  BY <1>3, CurrentType, VisibleAfterSet DEF SetQueued, Status
<1>4. ASSUME NEW r \in Requests, Push(r) \/ PushTwice(r)
      PROVE  RunningKept'
  BY <1>4 DEF Push, PushTwice, RunningKept
<1>5. ASSUME NEW r \in Requests, Poll(r)
      PROVE  RunningKept'
  BY <1>5 DEF Poll, PollPass, RunningKept
<1>6. ASSUME NEW r \in Requests, RequestFault(r)
      PROVE  RunningKept'
  <2>1. UNCHANGED <<held, elapsed, wpc>>
    BY <1>6 DEF RequestFault
  <2>2. CASE UNCHANGED <<key, ttl>>
    BY <2>1, <2>2 DEF RunningKept
  <2>3. CASE SetStatus(Current(r), "queued")
    BY <2>1, <2>3, CurrentType, VisibleAfterSet DEF Status
  <2> QED
    BY <1>6, <2>2, <2>3 DEF RequestFault
<1>7. CASE ApiCrash
  BY <1>7 DEF ApiCrash, RunningKept
<1>8. ASSUME NEW w \in Workers,
             StartWorker(w) \/ Pop(w) \/ SkipEmpty(w) \/ Reject(w) \/ Finish(w)
      PROVE  RunningKept'
  <2>1. /\ \A v \in Workers : v # w =>
             wpc'[v] = wpc[v] /\ held'[v] = held[v] /\ elapsed'[v] = elapsed[v]
        /\ wpc'[w] \in {"down", "idle", "claimed", "ready"} => elapsed'[w] = 0
        /\ UNCHANGED <<key, ttl>> /\ wpc'[w] \notin {"ready", "run"}
    BY <1>8 DEF StartWorker, Pop, SkipEmpty, Reject, Finish, TypeOK, RunningKept
  <2> QED
    BY <2>1, VisibleAfterWork
<1>9. ASSUME NEW w \in Workers, StoreRunning(w)
      PROVE  RunningKept'
  <2>1. /\ wpc[w] = "claimed" /\ Store(w, "running", "ready")
        /\ UNCHANGED <<held, elapsed>>
    BY <1>9 DEF StoreRunning
  <2>2. elapsed[w] = 0 /\ 0 \in Nat
    BY <2>1 DEF RunningKept
  <2> QED
    BY <2>1, <2>2, StoreAt, VisibleAfterWork
<1>10. ASSUME NEW w \in Workers, Launch(w)
       PROVE  RunningKept'
  <2>1. /\ wpc[w] = "ready" /\ wpc'[w] = "run" /\ UNCHANGED <<held, elapsed, key, ttl>>
        /\ \A v \in Workers : v # w => wpc'[v] = wpc[v]
    BY <1>10 DEF Launch, TypeOK
  <2> QED
    BY <2>1, VisibleAfterWork
<1>11. ASSUME NEW w \in Workers, NEW status \in {"completed", "failed", "running"},
              Store(w, status, "idle"), Forget(w)
       PROVE  RunningKept'
  BY <1>11, StoreAt, ForgetAt, VisibleAfterWork
<1>12. ASSUME NEW w \in Workers, UNCHANGED <<key, ttl>>, Forget(w),
              wpc' = [wpc EXCEPT ![w] = "idle"] \/ wpc' = [wpc EXCEPT ![w] = "down"]
       PROVE  RunningKept'
  <2>1. wpc'[w] \in {"idle", "down"} /\ \A v \in Workers : v # w => wpc'[v] = wpc[v]
    BY <1>12 DEF TypeOK
  <2> QED
    BY <1>12, <2>1, ForgetAt, VisibleAfterWork
<1>13. ASSUME NEW w \in Workers, CompletedFault(w)
       PROVE  RunningKept'
  <2>1. UNCHANGED <<held, elapsed>>
    BY <1>13 DEF CompletedFault
  <2>2. CASE Store(w, "completed", "fail")
    BY <2>1, <2>2, StoreAt, VisibleAfterWork
  <2>3. CASE wpc' = [wpc EXCEPT ![w] = "fail"] /\ UNCHANGED <<key, ttl>>
    <3>1. wpc'[w] = "fail" /\ \A v \in Workers : v # w => wpc'[v] = wpc[v]
      BY <2>3 DEF TypeOK
    <3> QED
      BY <2>1, <2>3, <3>1, VisibleAfterWork
  <2> QED
    BY <1>13, <2>2, <2>3 DEF CompletedFault
<1>14. ASSUME NEW w \in Workers, StoreFault(w)
       PROVE  RunningKept'
  BY <1>14, <1>11, <1>12 DEF StoreFault
<1>15. ASSUME NEW w \in Workers, PopLost(w)
       PROVE  RunningKept'
  BY <1>15 DEF PopLost, RunningKept
<1>16. CASE Tick
  <2>1. \A w \in Workers :
          /\ wpc[w] # "ready"
          /\ wpc[w] = "run" => elapsed[w] < CommandTimeout
          /\ elapsed[w] \in Nat /\ wpc'[w] = wpc[w] /\ held'[w] = held[w]
          /\ elapsed'[w] = IF wpc[w] = "run" THEN elapsed[w] + 1 ELSE elapsed[w]
    <3>1. /\ \A w \in Workers :
               wpc[w] # "ready" /\ (wpc[w] = "run" => elapsed[w] < CommandTimeout)
          /\ UNCHANGED <<wpc, held>>
      BY <1>16 DEF Tick
    <3>2. \A w \in Workers : elapsed[w] \in Nat
      BY TimingAssumption DEF TypeOK
    <3>3. elapsed' = [w \in Workers |-> IF wpc[w] = "run" THEN elapsed[w] + 1
                                                        ELSE elapsed[w]]
      BY <1>16 DEF Tick
    <3> QED
      BY <3>1, <3>2, <3>3
  <2>2. \A id \in Ids : ttl[id] \in Nat /\ (ttl[id] > 1 =>
          key'[id] = key[id] /\ ttl'[id] = ttl[id] - 1)
    BY <1>16, TimingAssumption DEF Tick, TypeOK
  <2>3. \A w \in Workers : \A e \in held[w] : e.id \in Ids
    BY DEF TypeOK, Entry
  <2>4. ASSUME NEW w \in Workers, wpc'[w] \in {"ready", "run"}, NEW e \in held'[w]
        PROVE  key'[e.id] # "absent" /\ ttl'[e.id] + elapsed'[w] >= ResultTTL
    <3>1. /\ wpc[w] = "run" /\ e \in held[w] /\ e.id \in Ids
          /\ elapsed[w] < CommandTimeout /\ elapsed'[w] = elapsed[w] + 1
      BY <2>1, <2>3, <2>4
    <3>2. key[e.id] # "absent" /\ ttl[e.id] + elapsed[w] >= ResultTTL
      BY <3>1 DEF RunningKept
    <3>3. ttl[e.id] > 1
      BY <2>1, <2>2, <3>1, <3>2, TimingAssumption
    <3> QED
      BY <2>1, <2>2, <3>1, <3>2, <3>3, TimingAssumption
  <2> QED
    BY <2>1, <2>4 DEF RunningKept
<1>17. CASE UNCHANGED vars
  BY <1>17 DEF vars, RunningKept
<1> QED
  BY <1>1, <1>2, <1>3, <1>4, <1>5, <1>6, <1>7, <1>8, <1>9, <1>10, <1>11, <1>12,
     <1>13, <1>14, <1>15, <1>16, <1>17
  DEF Next, HandlerStep, RequestFaults, WorkerStep, WorkerFaults, StoreCompleted,
      StoreFailed, WorkerCrash


\* Custody of the entries, as an invariant to build on.
LEMMA CustodyInvariant == Spec => [](TypeOK /\ Submitted /\ Custody)
BY InitType, NextType, InitCustody, NextCustody, PTL DEF Spec

-----------------------------------------------------------------------------
(* CompletedAnswerSound.  The pass that answers "completed" read a terminal *)
(* key for each task, one GET after the other; keys may expire behind it,  *)
(* but "settled" never shrinks.                                            *)

\* Terminal keys stand for settled tasks; what a pass that still counts has
\* behind it is settled; a request has no answer before its end.
PassSound ==
  /\ \A id \in Ids : key[id] \in Terminal => id \in settled
  /\ \A r \in Requests : rpc[r] = "poll" /\ alldone[r] =>
       \A i \in 1..(cursor[r] - 1) : <<r, i>> \in settled
  /\ \A r \in Requests : rpc[r] # "done" => told[r] = "none"
  /\ CompletedAnswerSound

LEMMA InitPass == Init => PassSound
BY DEF Init, PassSound, CompletedAnswerSound, Terminal

\* Workers and time store terminal statuses for settled tasks only.
LEMMA PassAfterWork ==
  ASSUME PassSound, settled \subseteq settled',
         \A id \in Ids : key'[id] \in Terminal =>
           key[id] \in Terminal \/ id \in settled',
         UNCHANGED <<rpc, alldone, cursor, told, plan>>
  PROVE  PassSound'
BY DEF PassSound, CompletedAnswerSound

\* A handler that neither waits nor answers "completed".
LEMMA PassAfterHandler ==
  ASSUME PassSound, UNCHANGED settled, NEW r \in Requests,
         \A id \in Ids : key'[id] \in Terminal => key[id] \in Terminal,
         \A q \in Requests : q # r =>
           /\ rpc'[q] = rpc[q] /\ alldone'[q] = alldone[q]
           /\ cursor'[q] = cursor[q] /\ told'[q] = told[q] /\ plan'[q] = plan[q],
         rpc[r] # "done",
         \/ rpc'[r] = "done" /\ told'[r] # "completed"
         \/ told'[r] = told[r] /\ rpc'[r] # "done" /\ (rpc'[r] = "poll" => cursor'[r] = 1)
  PROVE  PassSound'
BY DEF PassSound, CompletedAnswerSound

LEMMA AnswerAt ==
  ASSUME TypeOK, NEW r \in Requests, NEW answer, Answer(r, answer)
  PROVE  /\ rpc'[r] = "done" /\ told'[r] = answer
         /\ \A q \in Requests : q # r => rpc'[q] = rpc[q] /\ told'[q] = told[q]
BY DEF TypeOK, Answer

\* A wait moves on by one GET, starts the next pass, or answers.
LEMMA PassAfterPoll ==
  ASSUME TypeOK, Submitted, PassSound, NEW r \in Requests, Poll(r)
  PROVE  PassSound'
<1> DEFINE done == alldone[r] /\ key[Current(r)] \in Terminal
<1>1. /\ rpc[r] = "poll" /\ UNCHANGED <<plan, key, settled>>
      /\ cursor[r] \in 1..Len(plan[r]) /\ Len(plan[r]) \in Nat /\ cursor[r] \in Nat
  BY PlanFacts DEF Poll, PollPass, redis, hist, Submitted
<1>2. done => \A i \in 1..cursor[r] : <<r, i>> \in settled
  <2>1. ASSUME done
        PROVE  <<r, cursor[r]>> \in settled
    BY <2>1, CurrentType DEF PassSound, Current
  <2>2. ASSUME done
        PROVE  \A i \in 1..(cursor[r] - 1) : <<r, i>> \in settled
    BY <1>1, <2>2 DEF PassSound
  <2>3. \A i \in 1..cursor[r] : i \in 1..(cursor[r] - 1) \/ i = cursor[r]
    BY <1>1
  <2> QED
    BY <2>1, <2>2, <2>3
<1>3. \/ /\ cursor' = [cursor EXCEPT ![r] = @ + 1]
         /\ alldone' = [alldone EXCEPT ![r] = done]
         /\ UNCHANGED <<rpc, told>>
      \/ /\ cursor[r] = Len(plan[r]) /\ done
         /\ Answer(r, "completed") /\ UNCHANGED <<cursor, alldone>>
      \/ Answer(r, "partial") /\ UNCHANGED <<cursor, alldone>>
      \/ /\ cursor' = [cursor EXCEPT ![r] = 1]
         /\ alldone' = [alldone EXCEPT ![r] = TRUE]
         /\ UNCHANGED <<rpc, told>>
  BY DEF Poll, PollPass
<1> HIDE DEF done
<1>4. CASE /\ cursor' = [cursor EXCEPT ![r] = @ + 1]
           /\ alldone' = [alldone EXCEPT ![r] = done]
           /\ UNCHANGED <<rpc, told>>
  <2>1. /\ cursor'[r] - 1 = cursor[r] /\ alldone'[r] = done
        /\ \A q \in Requests : q # r => cursor'[q] = cursor[q] /\ alldone'[q] = alldone[q]
    BY <1>1, <1>4 DEF TypeOK
  <2> QED
    BY <1>1, <1>2, <1>4, <2>1 DEF PassSound, CompletedAnswerSound
<1>5. CASE /\ cursor[r] = Len(plan[r]) /\ done
           /\ Answer(r, "completed") /\ UNCHANGED <<cursor, alldone>>
  BY <1>1, <1>2, <1>5, AnswerAt DEF PassSound, CompletedAnswerSound
<1>6. CASE Answer(r, "partial") /\ UNCHANGED <<cursor, alldone>>
  BY <1>1, <1>6, AnswerAt, PassAfterHandler
<1>7. CASE /\ cursor' = [cursor EXCEPT ![r] = 1]
           /\ alldone' = [alldone EXCEPT ![r] = TRUE]
           /\ UNCHANGED <<rpc, told>>
  <2>1. /\ cursor'[r] = 1
        /\ \A q \in Requests : q # r => cursor'[q] = cursor[q] /\ alldone'[q] = alldone[q]
    BY <1>7 DEF TypeOK
  <2> QED
    BY <1>1, <1>7, <2>1, PassAfterHandler
<1> QED
  BY <1>3, <1>4, <1>5, <1>6, <1>7

LEMMA PassAfterPush ==
  ASSUME TypeOK, PassSound, NEW r \in Requests, Push(r) \/ PushTwice(r)
  PROVE  PassSound'
<1>1. /\ rpc[r] = "push" /\ AfterPush(r)
      /\ UNCHANGED <<key, plan, alldone, settled>>
  BY DEF Push, PushTwice
<1>2. CASE Answer(r, "queued") /\ UNCHANGED cursor
  BY <1>1, <1>2, AnswerAt, PassAfterHandler
<1>3. CASE /\ \/ /\ cursor' = [cursor EXCEPT ![r] = @ + 1]
                 /\ rpc' = [rpc EXCEPT ![r] = "enqueue"]
              \/ /\ cursor' = [cursor EXCEPT ![r] = 1]
                 /\ rpc' = [rpc EXCEPT ![r] = "poll"]
           /\ UNCHANGED told
  <2>1. /\ rpc'[r] # "done" /\ (rpc'[r] = "poll" => cursor'[r] = 1)
        /\ \A q \in Requests : q # r => cursor'[q] = cursor[q] /\ rpc'[q] = rpc[q]
    BY <1>3 DEF TypeOK
  <2> QED
    BY <1>1, <1>3, <2>1, PassAfterHandler
<1> QED
  BY <1>1, <1>2, <1>3 DEF AfterPush

LEMMA NextPass ==
  ASSUME TypeOK, Submitted, Custody, PassSound, [Next]_vars
  PROVE  PassSound'
<1> USE DEF redis, api, wrk, hist
<1>1. ASSUME NEW r \in Requests, NEW k \in Kinds, NEW p \in Plans,
             Submit(r, k, p)
      PROVE  PassSound'
  <2>1. /\ rpc[r] = "new" /\ rpc'[r] = "enqueue"
        /\ UNCHANGED <<key, settled, cursor, alldone, told>>
        /\ \A q \in Requests : q # r => rpc'[q] = rpc[q] /\ plan'[q] = plan[q]
    BY <1>1 DEF Submit, TypeOK
  <2> QED
    BY <2>1, PassAfterHandler
<1>2. ASSUME NEW r \in Requests, Refuse(r)
      PROVE  PassSound'
  <2>1. /\ rpc[r] = "enqueue" /\ Answer(r, "error")
        /\ UNCHANGED <<key, settled, cursor, alldone, plan>>
    BY <1>2 DEF Refuse
  <2> QED
    BY <2>1, AnswerAt, PassAfterHandler
<1>3. ASSUME NEW r \in Requests, SetQueued(r)
      PROVE  PassSound'
  <2>1. /\ rpc[r] = "enqueue" /\ rpc'[r] = "push"
        /\ UNCHANGED <<settled, cursor, alldone, told, plan>>
        /\ \A q \in Requests : q # r => rpc'[q] = rpc[q]
    BY <1>3 DEF SetQueued, TypeOK
  <2>2. \A id \in Ids : key'[id] \in Terminal => key[id] \in Terminal
    BY <1>3, CurrentType, SetStatusAt DEF SetQueued, Terminal
  <2> QED
    BY <2>1, <2>2, PassAfterHandler
<1>4. ASSUME NEW r \in Requests, Push(r) \/ PushTwice(r)
      PROVE  PassSound'
  BY <1>4, PassAfterPush
<1>5. ASSUME NEW r \in Requests, Poll(r)
      PROVE  PassSound'
  BY <1>5, PassAfterPoll
<1>6. ASSUME NEW r \in Requests, RequestFault(r)
      PROVE  PassSound'
  <2>1. /\ rpc[r] # "done" /\ Answer(r, "error")
        /\ UNCHANGED <<settled, cursor, alldone, plan>>
    BY <1>6 DEF RequestFault
  <2>2. UNCHANGED key \/ SetStatus(Current(r), "queued")
    BY <1>6 DEF RequestFault
  <2>3. \A id \in Ids : key'[id] \in Terminal => key[id] \in Terminal
    BY <2>2, CurrentType, SetStatusAt DEF Terminal
  <2> QED
    BY <2>1, <2>3, AnswerAt, PassAfterHandler
<1>7. CASE ApiCrash
  <2>1. \A r \in Requests :
          \/ rpc'[r] = rpc[r] /\ told'[r] = told[r]
          \/ rpc'[r] = "done" /\ told'[r] = "error"
    BY <1>7 DEF ApiCrash
  <2> QED
    BY <1>7, <2>1 DEF ApiCrash, PassSound, CompletedAnswerSound
<1>8. ASSUME NEW w \in Workers,
             \/ StartWorker(w) \/ Pop(w) \/ Launch(w) \/ SkipEmpty(w)
             \/ Reject(w) \/ Finish(w) \/ PopLost(w) \/ WorkerCrash(w)
      PROVE  PassSound'
  <2>1. UNCHANGED <<key, settled, rpc, alldone, cursor, told, plan>>
    BY <1>8 DEF StartWorker, Pop, Launch, SkipEmpty, Reject, Finish, PopLost, WorkerCrash
  <2> QED
    BY <2>1, PassAfterWork
<1>9. ASSUME NEW w \in Workers, NEW status, NEW next, Store(w, status, next),
             \/ status = "running" /\ UNCHANGED settled
             \/ Settle(w),
             UNCHANGED <<rpc, alldone, cursor, told, plan>>
      PROVE  PassSound'
  <2>1. PICK e \in Entry : /\ held[w] = {e} /\ key'[e.id] = status
                           /\ \A i \in Ids : i # e.id => key'[i] = key[i]
    BY <1>9, StoreAt
  <2>2. \/ settled' = settled /\ status \notin Terminal
        \/ settled' = settled \cup {e.id}
    BY <1>9, <2>1 DEF Settle, Terminal
  <2> QED
    BY <1>9, <2>1, <2>2, PassAfterWork
<1>10. ASSUME NEW w \in Workers,
              \/ StoreRunning(w) \/ StoreCompleted(w) \/ StoreFailed(w)
              \/ StoreFault(w) \/ CompletedFault(w)
       PROVE  PassSound'
  <2>1. UNCHANGED <<rpc, alldone, cursor, told, plan>>
    BY <1>10 DEF StoreRunning, StoreCompleted, StoreFailed, StoreFault, CompletedFault
  <2>2. CASE UNCHANGED <<key, settled>>
    BY <2>1, <2>2, PassAfterWork
  <2>3. CASE ~UNCHANGED <<key, settled>>
    <3>1. \E status \in Status, next \in {"ready", "idle", "fail"} :
            /\ Store(w, status, next)
            /\ (status = "running" /\ UNCHANGED settled) \/ Settle(w)
      BY <1>10, <2>3
      DEF StoreRunning, StoreCompleted, StoreFailed, StoreFault, CompletedFault,
          Status, Terminal
    <3> QED
      BY <1>9, <2>1, <3>1
  <2> QED
    BY <2>2, <2>3
<1>11. CASE Tick
  <2>1. \A id \in Ids : key'[id] = key[id] \/ key'[id] = "absent"
    BY <1>11 DEF Tick
  <2> QED
    BY <1>11, <2>1, PassAfterWork DEF Tick, Terminal
<1>12. CASE UNCHANGED vars
  BY <1>12, PassAfterWork DEF vars
<1> QED
  BY <1>1, <1>2, <1>3, <1>4, <1>5, <1>6, <1>7, <1>8, <1>9, <1>10, <1>11, <1>12
  DEF Next, HandlerStep, RequestFaults, WorkerStep, WorkerFaults

\* Whoever is told "completed" by a wait: a worker has stored a terminal
\* status for every task of the request.
THEOREM CompletedMeansSettled == Spec => []CompletedAnswerSound
<1>1. TypeOK /\ Submitted /\ Custody /\ PassSound /\ [Next]_vars => PassSound'
  BY NextPass
<1>2. PassSound => CompletedAnswerSound
  BY DEF PassSound
<1> QED
  BY InitPass, CustodyInvariant, <1>1, <1>2, PTL DEF Spec

-----------------------------------------------------------------------------
(* WorkflowOrder.  A handler pushes its tasks one after the other, the list *)
(* keeps that order, and LPOP takes the oldest: so the entries of a request *)
(* leave the queue in order, whoever pops them.                            *)

\* Entries carry positive copies.
EntriesPushed ==
  /\ \A i \in 1..Len(queue) : queue[i].copy > 0
  /\ \A w \in Workers : \A e \in held[w] : e.copy > 0

\* A handler has not yet pushed the task it is at, nor any later one.
PushedInTurn ==
  \A r \in Requests : \A j \in 1..MaxTasks :
    \/ rpc[r] = "new"
    \/ rpc[r] \in {"enqueue", "push"} /\ cursor[r] <= j
    => pushes[<<r, j>>] = 0

\* The entries of a request stand in the queue in the order of its tasks.
QueueInOrder ==
  \A m, n \in 1..Len(queue) :
    m < n /\ queue[m].id[1] = queue[n].id[1] => queue[m].id[2] <= queue[n].id[2]

InTurn == EntriesPushed /\ PushedInTurn /\ QueueInOrder /\ WorkflowOrder

LEMMA InitInTurn == Init => InTurn
BY DEF Init, InTurn, EntriesPushed, PushedInTurn, QueueInOrder, WorkflowOrder, Ids

\* Nothing enters or leaves the queue, and no handler goes back.
LEMMA InTurnQuiet ==
  ASSUME InTurn, UNCHANGED <<queue, pushes>>,
         \A w \in Workers : held'[w] \subseteq held[w],
         \A r \in Requests :
           \/ rpc'[r] = rpc[r] /\ cursor'[r] = cursor[r]
           \/ rpc'[r] \in {"poll", "done"}
           \/ rpc[r] = "new"
           \/ /\ rpc[r] \in {"enqueue", "push"} /\ rpc'[r] \in {"enqueue", "push"}
              /\ cursor'[r] = cursor[r]
  PROVE  InTurn'
<1>1. EntriesPushed'
  BY DEF InTurn, EntriesPushed
<1>2. PushedInTurn'
  BY DEF InTurn, PushedInTurn
<1>3. QueueInOrder' /\ WorkflowOrder'
  BY DEF InTurn, QueueInOrder, WorkflowOrder
<1> QED
  BY <1>1, <1>2, <1>3 DEF InTurn

\* A push, sent once or twice, appends entries of one task that were not
\* there, and nothing else.
LEMMA PushAppends ==
  ASSUME TypeOK, NEW id \in Ids, RPush(id) \/ RPushTwice(id)
  PROVE  /\ Len(queue) \in Nat /\ Len(queue') \in Nat /\ Len(queue') > Len(queue)
         /\ \A i \in 1..Len(queue) : queue'[i] = queue[i] /\ queue[i] \in Entry
         /\ \A i \in (Len(queue) + 1)..Len(queue') :
              queue'[i].id = id /\ queue'[i].copy > pushes[id]
         /\ pushes'[id] > pushes[id]
         /\ \A i \in Ids : i # id => pushes'[i] = pushes[i]
<1> DEFINE first == [id |-> id, copy |-> pushes[id] + 1]
           second == [id |-> id, copy |-> pushes[id] + 2]
           q == Append(queue, first)
<1>1. /\ first \in Entry /\ second \in Entry /\ pushes[id] \in Nat
      /\ first.id = id /\ first.copy > pushes[id]
      /\ second.id = id /\ second.copy > pushes[id]
  BY DEF TypeOK, Entry
<1>2. /\ pushes'[id] > pushes[id]
      /\ \A i \in Ids : i # id => pushes'[i] = pushes[i]
  BY <1>1 DEF TypeOK, RPush, RPushTwice
<1>3. queue' = q \/ queue' = Append(q, second)
  BY DEF RPush, RPushTwice
<1> HIDE DEF first, second
<1>4. /\ q \in Seq(Entry) /\ Len(queue) \in Nat /\ Len(q) = Len(queue) + 1
      /\ q[Len(queue) + 1] = first
      /\ \A i \in 1..Len(queue) : q[i] = queue[i] /\ queue[i] \in Entry
  BY <1>1 DEF TypeOK
<1> HIDE DEF q
<1>5. CASE queue' = q
  BY <1>1, <1>2, <1>4, <1>5
<1>6. CASE queue' = Append(q, second)
  <2>1. /\ Len(queue') = Len(queue) + 2
        /\ queue'[Len(queue) + 1] = first /\ queue'[Len(queue) + 2] = second
        /\ \A i \in 1..Len(queue) : queue'[i] = queue[i] /\ queue[i] \in Entry
    BY <1>1, <1>4, <1>6
  <2>2. \A i \in (Len(queue) + 1)..Len(queue') :
          i = Len(queue) + 1 \/ i = Len(queue) + 2
    BY <1>4, <2>1
  <2> QED
    BY <1>1, <1>2, <1>4, <2>1, <2>2
<1> QED
  BY <1>3, <1>5, <1>6

\* What stands in the queue was pushed before the task at the cursor.
LEMMA EarlierInQueue ==
  ASSUME TypeOK, Custody, InTurn, NEW r \in Requests, rpc[r] = "push",
         NEW m \in 1..Len(queue), queue[m].id[1] = r
  PROVE  queue[m].id[2] < cursor[r]
<1> DEFINE j == queue[m].id[2]
<1>1. queue[m] \in Entry
  BY DEF TypeOK
<1>2. queue[m].id \in Ids /\ j \in 1..MaxTasks /\ queue[m].id = <<r, j>>
  BY <1>1 DEF Entry, Ids
<1>3. pushes[<<r, j>>] > 0
  <2>1. queue[m].copy > 0 /\ queue[m].copy <= pushes[queue[m].id]
    BY DEF InTurn, EntriesPushed, Custody, CopiesNumbered
  <2>2. pushes[queue[m].id] \in Nat /\ queue[m].copy \in Nat
    BY <1>1, <1>2 DEF TypeOK, Entry
  <2> QED
    BY <1>2, <2>1, <2>2
<1>4. ~(cursor[r] <= j)
  BY <1>2, <1>3 DEF InTurn, PushedInTurn
<1> QED
  BY <1>2, <1>4, BoundAssumption DEF TypeOK

LEMMA PushInTurn ==
  ASSUME TypeOK, Submitted, Custody, InTurn, NEW r \in Requests,
         rpc[r] = "push",
         RPush(Current(r)) \/ RPushTwice(Current(r)), UNCHANGED held,
         \A q \in Requests : q # r => rpc'[q] = rpc[q] /\ cursor'[q] = cursor[q],
         \/ rpc'[r] = "enqueue" /\ cursor'[r] = cursor[r] + 1
         \/ rpc'[r] \in {"poll", "done"}
  PROVE  InTurn'
<1> DEFINE id == Current(r)
<1>1. /\ id \in Ids /\ id = <<r, cursor[r]>> /\ id[1] = r /\ id[2] = cursor[r]
      /\ cursor[r] \in 1..MaxTasks
  BY CurrentType DEF Current, TypeOK
<1> HIDE DEF id
<1>2. RPush(id) \/ RPushTwice(id)
  BY DEF id
<1>3. /\ Len(queue) \in Nat /\ Len(queue') \in Nat /\ Len(queue') > Len(queue)
      /\ \A i \in 1..Len(queue) : queue'[i] = queue[i] /\ queue[i] \in Entry
      /\ \A i \in (Len(queue) + 1)..Len(queue') :
           queue'[i].id = id /\ queue'[i].copy > pushes[id]
      /\ pushes'[id] > pushes[id]
      /\ \A i \in Ids : i # id => pushes'[i] = pushes[i]
  BY <1>1, <1>2, PushAppends
<1>4. pushes[id] \in Nat /\ pushes[id] = 0
  BY <1>1, BoundAssumption DEF TypeOK, InTurn, PushedInTurn
<1>5. \A i \in 1..Len(queue') :
        \/ i \in 1..Len(queue) /\ queue'[i] = queue[i] /\ queue[i] \in Entry
        \/ /\ i \in (Len(queue) + 1)..Len(queue')
           /\ queue'[i].id = id /\ queue'[i].copy > 0
  BY <1>3, <1>4
<1>6. EntriesPushed'
  BY <1>5 DEF InTurn, EntriesPushed
<1>7. PushedInTurn'
  <2> SUFFICES ASSUME NEW q \in Requests, NEW j \in 1..MaxTasks,
                      \/ rpc'[q] = "new"
                      \/ rpc'[q] \in {"enqueue", "push"} /\ cursor'[q] <= j
               PROVE  pushes'[<<q, j>>] = 0
    BY DEF PushedInTurn
  <2>1. <<q, j>> \in Ids
    BY DEF Ids
  <2>2. CASE q = r
    <3>1. cursor[r] < j
      BY <1>1, <2>2
    <3>2. pushes[<<q, j>>] = 0
      BY <1>1, <2>2, <3>1 DEF InTurn, PushedInTurn
    <3> QED
      BY <1>1, <1>3, <2>1, <2>2, <3>1, <3>2
  <2>3. CASE q # r
    BY <1>1, <1>3, <2>1, <2>3 DEF InTurn, PushedInTurn
  <2> QED
    BY <2>2, <2>3
<1>8. QueueInOrder'
  <2> SUFFICES ASSUME NEW m \in 1..Len(queue'), NEW n \in 1..Len(queue'), m < n,
                      queue'[m].id[1] = queue'[n].id[1]
               PROVE  queue'[m].id[2] <= queue'[n].id[2]
    BY DEF QueueInOrder
  <2>1. CASE n \in 1..Len(queue)
    <3>1. m \in 1..Len(queue)
      BY <1>3, <2>1
    <3> QED
      BY <1>3, <2>1, <3>1 DEF InTurn, QueueInOrder
  <2>2. CASE n \notin 1..Len(queue) /\ m \in 1..Len(queue)
    <3>1. queue'[n].id = id /\ queue'[m] = queue[m] /\ queue[m].id[1] = r
      BY <1>1, <1>3, <1>5, <2>2
    <3>2. queue[m].id[2] < cursor[r] /\ queue[m].id[2] \in 1..MaxTasks
      BY <1>3, <2>2, <3>1, EarlierInQueue DEF Entry, Ids
    <3> QED
      BY <1>1, <3>1, <3>2
  <2>3. CASE n \notin 1..Len(queue) /\ m \notin 1..Len(queue)
    BY <1>1, <1>5, <2>3
  <2> QED
    BY <2>1, <2>2, <2>3
<1>9. WorkflowOrder'
  <2> SUFFICES ASSUME NEW q \in Requests, NEW i \in 1..MaxTasks, NEW j \in 1..MaxTasks,
                      i < j, pushes'[<<q, j>>] > 0,
                      \A n \in 1..Len(queue') : queue'[n].id # <<q, j>>,
                      NEW m \in 1..Len(queue'), queue'[m].id = <<q, i>>
               PROVE  FALSE
    BY DEF WorkflowOrder
  <2>1. <<q, j>> # id /\ <<q, j>> \in Ids
    <3>1. Len(queue') \in 1..Len(queue') /\ Len(queue') \in (Len(queue) + 1)..Len(queue')
      BY <1>3
    <3> QED
      BY <1>3, <3>1 DEF Ids
  <2>2. pushes[<<q, j>>] > 0 /\ \A n \in 1..Len(queue) : queue[n].id # <<q, j>>
    <3>1. pushes'[<<q, j>>] = pushes[<<q, j>>]
      BY <1>3, <2>1
    <3>2. \A n \in 1..Len(queue) : n \in 1..Len(queue') /\ queue'[n] = queue[n]
      BY <1>3
    <3> QED
      BY <3>1, <3>2
  <2>3. m \notin 1..Len(queue)
    BY <1>3, <2>2 DEF InTurn, WorkflowOrder
  <2>4. <<q, i>> = id
    BY <1>5, <2>3
  <2>5. q = r /\ i = cursor[r]
    BY <1>1, <2>4
  <2>6. pushes[<<q, j>>] = 0
    BY <1>1, <2>5 DEF InTurn, PushedInTurn
  <2> QED
    BY <2>2, <2>6
<1> QED
  BY <1>6, <1>7, <1>8, <1>9 DEF InTurn

\* LPOP, whether its reply arrives or not.
LEMMA PopInTurn ==
  ASSUME TypeOK, Custody, InTurn, queue # <<>>, queue' = Tail(queue),
         UNCHANGED <<pushes, rpc, cursor>>,
         \A w \in Workers : held'[w] = held[w] \/ held'[w] = {Head(queue)}
  PROVE  InTurn'
<1>1. EntriesPushed'
  BY TailFacts DEF InTurn, EntriesPushed
<1>2. QueueInOrder'
  BY TailFacts DEF InTurn, QueueInOrder
<1>3. WorkflowOrder'
  <2> SUFFICES ASSUME NEW q \in Requests, NEW i \in 1..MaxTasks, NEW j \in 1..MaxTasks,
                      i < j, pushes[<<q, j>>] > 0,
                      \A n \in 1..Len(queue') : queue'[n].id # <<q, j>>,
                      NEW m \in 1..Len(queue'), queue'[m].id = <<q, i>>
               PROVE  FALSE
    BY DEF WorkflowOrder
  <2>1. m + 1 \in 1..Len(queue) /\ queue[m + 1].id = <<q, i>>
    BY TailFacts
  <2>2. PICK n \in 1..Len(queue) : queue[n].id = <<q, j>>
    BY <2>1 DEF InTurn, WorkflowOrder
  <2>3. n = 1
    <3>1. n # 1 => n - 1 \in 1..Len(queue') /\ queue'[n - 1] = queue[(n - 1) + 1]
      BY TailFacts
    <3> QED
      BY <2>2, <3>1
  <2>4. queue[n].id[2] <= queue[m + 1].id[2]
    BY <2>1, <2>2, <2>3 DEF InTurn, QueueInOrder
  <2> QED
    BY <2>1, <2>2, <2>4
<1>4. PushedInTurn'
  BY DEF InTurn, PushedInTurn
<1> QED
  BY <1>1, <1>2, <1>3, <1>4 DEF InTurn

LEMMA AfterPushAt ==
  ASSUME TypeOK, NEW r \in Requests, AfterPush(r)
  PROVE  /\ \/ rpc'[r] = "enqueue" /\ cursor'[r] = cursor[r] + 1
            \/ rpc'[r] \in {"poll", "done"}
         /\ \A q \in Requests : q # r => rpc'[q] = rpc[q] /\ cursor'[q] = cursor[q]
BY DEF TypeOK, AfterPush, Answer

LEMMA NextInTurn ==
  ASSUME TypeOK, Submitted, Custody, InTurn, [Next]_vars
  PROVE  InTurn'
<1> USE DEF redis, api, wrk, hist
<1>1. ASSUME NEW r \in Requests, NEW k \in Kinds, NEW p \in Plans,
             Submit(r, k, p)
      PROVE  InTurn'
  BY <1>1, InTurnQuiet DEF Submit, TypeOK
<1>2. ASSUME NEW r \in Requests, Refuse(r)
      PROVE  InTurn'
  BY <1>2, AnswerAt, InTurnQuiet DEF Refuse
<1>3. ASSUME NEW r \in Requests, SetQueued(r)
      PROVE  InTurn'
  BY <1>3, InTurnQuiet DEF SetQueued, TypeOK
<1>4. ASSUME NEW r \in Requests, Push(r) \/ PushTwice(r)
      PROVE  InTurn'
  BY <1>4, AfterPushAt, PushInTurn DEF Push, PushTwice
<1>5. ASSUME NEW r \in Requests, Poll(r)
      PROVE  InTurn'
  <2>1. /\ UNCHANGED <<queue, pushes, held>> /\ rpc[r] = "poll"
        /\ \/ UNCHANGED rpc
           \/ \E a \in {"completed", "partial"} : Answer(r, a)
        /\ \A q \in Requests : q # r => cursor'[q] = cursor[q]
    BY <1>5 DEF Poll, PollPass, TypeOK
  <2>2. /\ rpc'[r] \in {"poll", "done"}
        /\ \A q \in Requests : q # r => rpc'[q] = rpc[q]
    BY <2>1, AnswerAt
  <2> QED
    BY <2>1, <2>2, InTurnQuiet
<1>6. ASSUME NEW r \in Requests, RequestFault(r)
      PROVE  InTurn'
  <2>1. /\ UNCHANGED <<held, cursor>> /\ Answer(r, "error")
        /\ \/ UNCHANGED <<queue, pushes>>
           \/ rpc[r] = "push" /\ RPush(Current(r))
    BY <1>6 DEF RequestFault
  <2> QED
    BY <2>1, AnswerAt, InTurnQuiet, PushInTurn
<1>7. CASE ApiCrash
  BY <1>7, InTurnQuiet DEF ApiCrash, TypeOK
<1>8. ASSUME NEW w \in Workers, Pop(w) \/ PopLost(w)
      PROVE  InTurn'
  <2>1. /\ queue # <<>> /\ queue' = Tail(queue) /\ UNCHANGED <<pushes, rpc, cursor>>
        /\ \A v \in Workers : held'[v] = held[v] \/ held'[v] = {Head(queue)}
    BY <1>8 DEF Pop, PopLost, TypeOK
  <2> QED
    BY <2>1, PopInTurn
<1>9. ASSUME NEW w \in Workers,
             \/ StartWorker(w) \/ StoreRunning(w) \/ Launch(w) \/ SkipEmpty(w)
             \/ Reject(w) \/ Finish(w) \/ StoreCompleted(w) \/ StoreFailed(w) \/ StoreFault(w)
             \/ CompletedFault(w) \/ WorkerCrash(w)
      PROVE  InTurn'
  <2>1. /\ UNCHANGED <<queue, pushes, rpc, cursor>>
        /\ UNCHANGED held \/ Forget(w)
    BY <1>9 DEF StartWorker, StoreRunning, Launch, SkipEmpty, Reject, Finish, StoreCompleted,
                StoreFailed, StoreFault, CompletedFault, WorkerCrash
  <2> QED
    BY <2>1, ForgetAt, InTurnQuiet
<1>10. CASE Tick
  BY <1>10, InTurnQuiet DEF Tick
<1>11. CASE UNCHANGED vars
  BY <1>11, InTurnQuiet DEF vars
<1> QED
  BY <1>1, <1>2, <1>3, <1>4, <1>5, <1>6, <1>7, <1>8, <1>9, <1>10, <1>11
  DEF Next, HandlerStep, RequestFaults, WorkerStep, WorkerFaults

LEMMA InTurnInvariant == Spec => []InTurn
<1>1. TypeOK /\ Submitted /\ Custody /\ InTurn /\ [Next]_vars => InTurn'
  BY NextInTurn
<1> QED
  BY InitInTurn, CustodyInvariant, <1>1, PTL DEF Spec

\* In every execution the tasks of a request leave the queue in the order the
\* request listed them.
THEOREM TasksTakenInOrder == Spec => []WorkflowOrder
<1>1. InTurn => WorkflowOrder
  BY DEF InTurn
<1> QED
  BY InTurnInvariant, <1>1, PTL

-----------------------------------------------------------------------------
(* StatusTruthful.  "completed" is stored only by the worker that started  *)
(* the command, or that was given none to start.                           *)

Attended(e) == e \in ran \/ TaskOf(e.id) \in EmptyCommands

\* What a worker runs was started; what it reports was started or is empty;
\* so is what is completed, which was pushed at some time.
ReportedRan ==
  /\ \A w \in Workers : wpc[w] = "run" => held[w] \subseteq ran
  /\ \A w \in Workers : wpc[w] = "report" => \A e \in held[w] : Attended(e)
  /\ \A id \in Ids : key[id] = "completed" => pushes[id] > 0
  /\ CompletedMeansRan

LEMMA InitReported == Init => ReportedRan
BY DEF Init, ReportedRan, CompletedMeansRan

\* An entry in hand is one of the pushes of its task.
LEMMA HeldPushed ==
  ASSUME TypeOK, Custody, InTurn, NEW w \in Workers, NEW e \in held[w]
  PROVE  e \in Entry /\ e.id \in Ids /\ pushes[e.id] > 0
<1>1. e \in Entry
  BY DEF TypeOK
<1>2. e.id \in Ids /\ e.copy \in Nat
  BY <1>1 DEF Entry
<1>3. pushes[e.id] \in Nat /\ e.copy <= pushes[e.id] /\ e.copy > 0
  BY <1>2 DEF TypeOK, Custody, CopiesNumbered, InTurn, EntriesPushed
<1> QED
  BY <1>1, <1>2, <1>3

\* A task that was pushed stays pushed and stays what it is: requests choose
\* their tasks before they push any.
PlansStand ==
  \A id \in Ids : pushes[id] > 0 => pushes'[id] > 0 /\ TaskOf(id)' = TaskOf(id)

LEMMA NextPlans ==
  ASSUME TypeOK, InTurn, [Next]_vars
  PROVE  PlansStand
<1> USE DEF redis, api, wrk, hist
<1>1. ASSUME NEW r \in Requests, NEW k \in Kinds, NEW p \in Plans,
             Submit(r, k, p)
      PROVE  PlansStand
  <2>1. /\ rpc[r] = "new" /\ UNCHANGED pushes
        /\ \A q \in Requests : q # r => plan'[q] = plan[q]
    BY <1>1 DEF Submit, TypeOK
  <2>2. \A id \in Ids : id[1] \in Requests /\ id[2] \in 1..MaxTasks /\ id = <<id[1], id[2]>>
    BY DEF Ids
  <2>3. \A id \in Ids : pushes[id] > 0 => id[1] # r
    BY <2>1, <2>2 DEF InTurn, PushedInTurn
  <2> QED
    BY <2>1, <2>2, <2>3 DEF PlansStand, TaskOf
<1>2. ASSUME UNCHANGED <<plan, pushes>>
      PROVE  PlansStand
  BY <1>2 DEF PlansStand, TaskOf
<1>3. ASSUME NEW r \in Requests, RPush(Current(r)) \/ RPushTwice(Current(r)),
             UNCHANGED plan
      PROVE  PlansStand
  <2>1. /\ pushes \in [Ids -> Nat]
        /\ \E n \in {1, 2} : pushes' = [pushes EXCEPT ![Current(r)] = @ + n]
    BY <1>3 DEF RPush, RPushTwice, TypeOK
  <2>2. \A id \in Ids : pushes[id] > 0 => pushes'[id] > 0
    BY <2>1
  <2> QED
    BY <1>3, <2>2 DEF PlansStand, TaskOf
<1>4. ASSUME NEW r \in Requests, HandlerStep(r) \/ RequestFaults(r)
      PROVE  PlansStand
  BY <1>2, <1>3, <1>4 DEF HandlerStep, RequestFaults, Refuse, SetQueued, Push,
     PushTwice, Poll, PollPass, RequestFault
<1>5. ASSUME NEW w \in Workers, StartWorker(w) \/ WorkerStep(w) \/ WorkerFaults(w)
      PROVE  PlansStand
  BY <1>2, <1>5 DEF StartWorker, WorkerStep, WorkerFaults, Pop, StoreRunning, Launch,
     SkipEmpty, Reject, Finish, StoreCompleted, StoreFailed, PopLost, StoreFault,
     CompletedFault, WorkerCrash
<1>6. CASE ApiCrash \/ Tick \/ UNCHANGED vars
  BY <1>2, <1>6 DEF ApiCrash, Tick, vars
<1> QED
  BY <1>1, <1>4, <1>5, <1>6 DEF Next

\* A step that stores no "completed" and brings no worker to "run" or
\* "report" with anything new changes nothing here.
LEMMA ReportKept ==
  ASSUME TypeOK, Custody, InTurn, ReportedRan, PlansStand, ran \subseteq ran',
         \A id \in Ids : key'[id] = "completed" => key[id] = "completed",
         \A w \in Workers : wpc'[w] = "run" =>
           held'[w] = held[w] /\ (wpc[w] = "run" \/ held[w] \subseteq ran'),
         \A w \in Workers : wpc'[w] = "report" =>
           held'[w] = held[w] /\ wpc[w] \in {"run", "report"}
  PROVE  ReportedRan'
<1>1. \A w \in Workers : \A e \in held[w] : e.id \in Ids /\ TaskOf(e.id)' = TaskOf(e.id)
  BY HeldPushed DEF PlansStand
<1>2. \A w \in Workers : wpc'[w] = "report" => \A e \in held'[w] : Attended(e)'
  BY <1>1 DEF ReportedRan, Attended
<1>3. \A id \in Ids : key'[id] = "completed" => pushes'[id] > 0
  BY DEF ReportedRan, PlansStand
<1>4. CompletedMeansRan'
  BY DEF ReportedRan, CompletedMeansRan, PlansStand
<1> QED
  BY <1>2, <1>3, <1>4 DEF ReportedRan

LEMMA NextReported ==
  ASSUME TypeOK, Custody, InTurn, ReportedRan, [Next]_vars
  PROVE  ReportedRan'
<1>0. PlansStand
  BY NextPlans
<1> USE DEF redis, api, wrk, hist
<1>1. ASSUME NEW r \in Requests, NEW k \in Kinds, NEW p \in Plans,
             Submit(r, k, p)
      PROVE  ReportedRan'
  BY <1>1, <1>0, ReportKept DEF Submit
<1>2. ASSUME NEW r \in Requests, Refuse(r)
      PROVE  ReportedRan'
  BY <1>2, <1>0, ReportKept DEF Refuse
<1>3. ASSUME NEW r \in Requests, SetQueued(r)
      PROVE  ReportedRan'
  BY <1>3, CurrentType, SetStatusAt, <1>0, ReportKept DEF SetQueued
<1>4. ASSUME NEW r \in Requests, Push(r) \/ PushTwice(r)
      PROVE  ReportedRan'
  BY <1>4, <1>0, ReportKept DEF Push, PushTwice
<1>5. ASSUME NEW r \in Requests, Poll(r)
      PROVE  ReportedRan'
  BY <1>5, <1>0, ReportKept DEF Poll, PollPass
<1>6. ASSUME NEW r \in Requests, RequestFault(r)
      PROVE  ReportedRan'
  <2>1. UNCHANGED <<wpc, held, ran>>
    BY <1>6 DEF RequestFault
  <2>2. CASE UNCHANGED key
    BY <2>1, <2>2, <1>0, ReportKept
  <2>3. CASE SetStatus(Current(r), "queued")
    BY <2>1, <2>3, CurrentType, SetStatusAt, <1>0, ReportKept
  <2> QED
    BY <1>6, <2>2, <2>3 DEF RequestFault
<1>7. CASE ApiCrash
  BY <1>7, <1>0, ReportKept DEF ApiCrash
<1>8. ASSUME NEW w \in Workers,
             StartWorker(w) \/ Pop(w) \/ Reject(w) \/ Finish(w)
      PROVE  ReportedRan'
  <2>1. UNCHANGED <<key, ran>>
    BY <1>8 DEF StartWorker, Pop, Reject, Finish
  <2>2. /\ \A v \in Workers : wpc'[v] = "run" => held'[v] = held[v] /\ wpc[v] = "run"
        /\ \A v \in Workers : wpc'[v] = "report" =>
             held'[v] = held[v] /\ wpc[v] \in {"run", "report"}
    BY <1>8 DEF StartWorker, Pop, Reject, Finish, TypeOK
  <2> QED
    BY <2>1, <2>2, <1>0, ReportKept
<1>9. ASSUME NEW w \in Workers, StoreRunning(w)
      PROVE  ReportedRan'
  <2>1. Store(w, "running", "ready") /\ UNCHANGED <<held, ran>>
    BY <1>9 DEF StoreRunning
  <2> QED
    BY <2>1, StoreAt, <1>0, ReportKept
<1>10. ASSUME NEW w \in Workers, Launch(w)
       PROVE  ReportedRan'
  <2>1. UNCHANGED <<key, held>> /\ ran' = ran \cup held[w]
    BY <1>10 DEF Launch
  <2>2. wpc'[w] = "run" /\ \A v \in Workers : v # w => wpc'[v] = wpc[v]
    BY <1>10 DEF Launch, TypeOK
  <2> QED
    BY <2>1, <2>2, <1>0, ReportKept
<1>18. ASSUME NEW w \in Workers, SkipEmpty(w)
       PROVE  ReportedRan'
  <2>1. /\ UNCHANGED <<key, held, ran, pushes, plan>> /\ wpc'[w] = "report"
        /\ \A v \in Workers : v # w => wpc'[v] = wpc[v]
        /\ \E e \in held[w] : TaskOf(e.id) \in EmptyCommands
        /\ wpc[w] = "ready"
    BY <1>18 DEF SkipEmpty, TypeOK
  <2>2. \A e \in held[w] : TaskOf(e.id) \in EmptyCommands
    BY <2>1 DEF Custody, HandsOK
  <2> QED
    BY <2>1, <2>2 DEF ReportedRan, Attended, CompletedMeansRan, TaskOf
<1>11. ASSUME NEW w \in Workers, NEW status, Store(w, status, "idle"),
              status # "completed" \/ wpc[w] = "report", Forget(w), UNCHANGED ran
       PROVE  ReportedRan'
  <2>1. PICK e \in Entry :
          /\ held[w] = {e} /\ e.id \in Ids /\ key'[e.id] = status
          /\ \A i \in Ids : i # e.id => key'[i] = key[i]
    BY <1>11, StoreAt
  <2>2. /\ wpc'[w] = "idle" /\ \A v \in Workers : v # w => wpc'[v] = wpc[v]
        /\ \A v \in Workers : v # w => held'[v] = held[v]
    BY <1>11, StoreAt, ForgetAt
  <2>3. \A v \in Workers : \A x \in held[v] : x.id \in Ids /\ TaskOf(x.id)' = TaskOf(x.id)
    BY <1>0, HeldPushed DEF PlansStand
  <2>4. /\ \A v \in Workers : wpc'[v] = "run" => held'[v] \subseteq ran'
        /\ \A v \in Workers : wpc'[v] = "report" => \A x \in held'[v] : Attended(x)'
    BY <1>11, <2>2, <2>3 DEF ReportedRan, Attended
  <2>5. pushes'[e.id] > 0 /\ (status = "completed" => Attended(e)')
    BY <1>0, <1>11, <2>1, <2>3, HeldPushed DEF ReportedRan, Attended, PlansStand
  <2>6. \A id \in Ids : key'[id] = "completed" => pushes'[id] > 0
    BY <1>0, <2>1, <2>5 DEF ReportedRan, PlansStand
  <2>7. CompletedMeansRan'
    BY <1>0, <1>11, <2>1, <2>5 DEF ReportedRan, CompletedMeansRan, Attended, PlansStand
  <2> QED
    BY <2>4, <2>6, <2>7 DEF ReportedRan
<1>12. ASSUME NEW w \in Workers, UNCHANGED <<key, ran>>, Forget(w),
              wpc' = [wpc EXCEPT ![w] = "idle"] \/ wpc' = [wpc EXCEPT ![w] = "down"]
       PROVE  ReportedRan'
  <2>1. wpc'[w] \in {"idle", "down"} /\ \A v \in Workers : v # w => wpc'[v] = wpc[v]
    BY <1>12 DEF TypeOK
  <2> QED
    BY <1>12, <2>1, ForgetAt, <1>0, ReportKept
<1>13. ASSUME NEW w \in Workers, CompletedFault(w)
       PROVE  ReportedRan'
  <2>1. UNCHANGED <<held, ran>> /\ wpc[w] = "report"
    BY <1>13 DEF CompletedFault
  <2>2. CASE Store(w, "completed", "fail")
    <3>1. PICK e \in Entry :
            /\ held[w] = {e} /\ wpc'[w] = "fail"
            /\ \A i \in Ids : i # e.id => key'[i] = key[i]
            /\ \A v \in Workers : v # w => wpc'[v] = wpc[v]
      BY <2>2, StoreAt
    <3>2. e.id \in Ids /\ Attended(e) /\ pushes[e.id] > 0
      BY <2>1, <3>1, HeldPushed DEF ReportedRan
    <3>3. CompletedMeansRan'
      BY <1>0, <2>1, <3>1, <3>2 DEF ReportedRan, CompletedMeansRan, Attended, PlansStand
    <3>4. \A id \in Ids : key'[id] = "completed" => pushes'[id] > 0
      BY <1>0, <3>1, <3>2 DEF ReportedRan, PlansStand
    <3>5. \A v \in Workers : wpc'[v] = "report" => \A x \in held'[v] : Attended(x)'
      BY <1>0, <2>1, <3>1, HeldPushed DEF ReportedRan, Attended, PlansStand
    <3> QED
      BY <2>1, <3>1, <3>3, <3>4, <3>5 DEF ReportedRan
  <2>3. CASE wpc' = [wpc EXCEPT ![w] = "fail"] /\ UNCHANGED <<key, ttl>>
    BY <2>1, <2>3, <1>0, ReportKept DEF TypeOK
  <2> QED
    BY <1>13, <2>2, <2>3 DEF CompletedFault
<1>14. ASSUME NEW w \in Workers, StoreFault(w)
       PROVE  ReportedRan'
  BY <1>14, <1>11, <1>12 DEF StoreFault
<1>15. ASSUME NEW w \in Workers, PopLost(w)
       PROVE  ReportedRan'
  BY <1>15, <1>0, ReportKept DEF PopLost
<1>16. CASE Tick
  <2>1. \A id \in Ids : key'[id] = key[id] \/ key'[id] = "absent"
    BY <1>16 DEF Tick
  <2> QED
    BY <1>16, <2>1, <1>0, ReportKept DEF Tick
<1>17. CASE UNCHANGED vars
  BY <1>17, <1>0, ReportKept DEF vars
<1> QED
  BY <1>1, <1>2, <1>3, <1>4, <1>5, <1>6, <1>7, <1>8, <1>9, <1>10, <1>11, <1>12,
     <1>13, <1>14, <1>15, <1>16, <1>17, <1>18
  DEF Next, HandlerStep, RequestFaults, WorkerStep, WorkerFaults, StoreCompleted,
      StoreFailed, WorkerCrash

\* In every execution a running command's key is there, and "completed" is
\* the status of tasks whose command was handed to subprocess or is empty,
\* of no other (worker.py:34-35 and 71-86).
THEOREM StatusesAreTrue == Spec => []StatusTruthful
<1>1. TypeOK /\ Custody /\ RunningKept /\ [Next]_vars => RunningKept'
  BY NextVisible
<1>2. TypeOK /\ Custody /\ InTurn /\ ReportedRan /\ [Next]_vars => ReportedRan'
  BY NextReported
<1>3. RunningKept /\ ReportedRan => StatusTruthful
  BY DEF RunningKept, ReportedRan, StatusTruthful, RunningIsVisible
<1> QED
  BY InitVisible, InitReported, CustodyInvariant, InTurnInvariant, <1>1, <1>2, <1>3, PTL
  DEF Spec

-----------------------------------------------------------------------------
(* StatusForward.  SET QUEUED comes before RPUSH, so it meets no status of  *)
(* a worker; and the only entry of a task that was pushed once is in one   *)
(* place, so nobody stores a status for it behind the worker's back.       *)

Untouched(id) ==
  \/ pushes[id] = 0
  \/ /\ pushes[id] = 1
     /\ \/ \E i \in 1..Len(queue) : queue[i].id = id
        \/ \E w \in Workers : wpc[w] = "claimed" /\ \E e \in held[w] : e.id = id

\* No worker has stored a status for a task whose one entry waits to be
\* taken up.
StatusYoung ==
  \A id \in Ids : Untouched(id) => key[id] \in {"absent", "queued"}

LEMMA InitYoung == Init => StatusYoung
BY DEF Init, StatusYoung

\* Once a worker is past "claimed", the task in its hands is not untouched.
LEMMA TouchedInHand ==
  ASSUME TypeOK, Custody, InTurn, NEW w \in Workers, NEW e \in Entry,
         held[w] = {e}, UNCHANGED <<queue, pushes>>, wpc'[w] # "claimed",
         \A v \in Workers : v # w => held'[v] = held[v]
  PROVE  e.id \in Ids /\ pushes[e.id] > 0 /\ ~Untouched(e.id)'
<1>1. e.id \in Ids /\ e.copy \in Nat /\ pushes[e.id] \in Nat
  BY DEF Entry, TypeOK
<1>2. e.copy > 0 /\ e.copy <= pushes[e.id]
  BY DEF InTurn, EntriesPushed, Custody, CopiesNumbered
<1>3. \A f \in Entry : f.copy > 0 /\ f.copy <= pushes[f.id] /\ f.id = e.id
                       /\ pushes[e.id] = 1 => f = e
  BY <1>1, <1>2 DEF Entry
<1>4. \A i \in 1..Len(queue) : /\ queue[i] \in Entry /\ queue[i] # e
                               /\ queue[i].copy > 0
                               /\ queue[i].copy <= pushes[queue[i].id]
  <2>1. \A i \in 1..Len(queue) : queue[i] \in Entry
    BY DEF TypeOK
  <2>2. \A i \in 1..Len(queue) : queue[i] # e
    BY DEF Custody, EntryInOnePlace, InQueue
  <2>3. \A i \in 1..Len(queue) :
          queue[i].copy > 0 /\ queue[i].copy <= pushes[queue[i].id]
    BY DEF Custody, CopiesNumbered, InTurn, EntriesPushed
  <2> QED
    BY <2>1, <2>2, <2>3
<1>5. \A v \in Workers : v # w => \A f \in held[v] :
        f \in Entry /\ f # e /\ f.copy > 0 /\ f.copy <= pushes[f.id]
  BY DEF TypeOK, Custody, EntryInOnePlace, CopiesNumbered, InTurn, EntriesPushed
<1>6. pushes[e.id] = 1 => \A i \in 1..Len(queue) : queue[i].id # e.id
  BY <1>3, <1>4
<1>7. pushes[e.id] = 1 => \A v \in Workers : v # w => \A f \in held[v] : f.id # e.id
  BY <1>3, <1>5
<1>8. ~Untouched(e.id)'
  BY <1>1, <1>2, <1>6, <1>7 DEF Untouched
<1> QED
  BY <1>1, <1>2, <1>8

\* What a worker does to the keys: it stores the status that is due for the
\* entry in its hands, and is past "claimed" then.
LEMMA YoungAfterStore ==
  ASSUME TypeOK, Custody, InTurn, StatusYoung, NEW w \in Workers, NEW e \in Entry,
         held[w] = {e}, UNCHANGED <<queue, pushes>>, wpc'[w] # "claimed",
         \A v \in Workers : v # w => held'[v] = held[v] /\ wpc'[v] = wpc[v],
         \A i \in Ids : i # e.id => key'[i] = key[i]
  PROVE  StatusYoung'
<1>1. e.id \in Ids /\ ~Untouched(e.id)'
  BY TouchedInHand
<1>2. \A id \in Ids : Untouched(id)' /\ id # e.id => Untouched(id)
  BY DEF Untouched
<1>3. \A id \in Ids : Untouched(id)' => key'[id] \in {"absent", "queued"}
  BY <1>1, <1>2 DEF StatusYoung
<1> QED
  BY <1>3 DEF StatusYoung

\* Nothing becomes untouched, and keys only expire or are queued.
LEMMA YoungQuiet ==
  ASSUME StatusYoung,
         \A id \in Ids : key'[id] = key[id] \/ key'[id] \in {"absent", "queued"},
         \A id \in Ids : Untouched(id)' => Untouched(id)
  PROVE  StatusYoung'
BY DEF StatusYoung

LEMMA UntouchedQuiet ==
  ASSUME UNCHANGED <<queue, pushes>>,
         \A w \in Workers : wpc'[w] = "claimed" => wpc[w] = "claimed" /\ held'[w] = held[w]
  PROVE  \A id \in Ids : Untouched(id)' => Untouched(id)
BY DEF Untouched

LEMMA UntouchedPush ==
  ASSUME TypeOK, NEW id \in Ids, RPush(id) \/ RPushTwice(id), pushes[id] = 0,
         UNCHANGED <<wpc, held>>
  PROVE  \A i \in Ids : Untouched(i)' => Untouched(i)
<1>1. /\ Len(queue) \in Nat /\ Len(queue') \in Nat
      /\ \A i \in 1..Len(queue) : queue'[i] = queue[i]
      /\ \A i \in (Len(queue) + 1)..Len(queue') : queue'[i].id = id
      /\ \A i \in Ids : i # id => pushes'[i] = pushes[i]
  BY PushAppends
<1>2. \A n \in 1..Len(queue') :
        queue'[n].id = id \/ (n \in 1..Len(queue) /\ queue'[n] = queue[n])
  <2>1. \A n \in 1..Len(queue') :
          n \in 1..Len(queue) \/ n \in (Len(queue) + 1)..Len(queue')
    BY <1>1
  <2> QED
    BY <1>1, <2>1
<1>3. Untouched(id)
  BY DEF Untouched
<1>4. ASSUME NEW i \in Ids, i # id, Untouched(i)'
      PROVE  Untouched(i)
  <2>1. pushes'[i] = pushes[i]
    BY <1>1, <1>4
  <2>2. (\E n \in 1..Len(queue') : queue'[n].id = i)
          => \E n \in 1..Len(queue) : queue[n].id = i
    BY <1>2, <1>4
  <2> QED
    BY <1>4, <2>1, <2>2 DEF Untouched
<1> QED
  BY <1>3, <1>4

LEMMA UntouchedPop ==
  ASSUME TypeOK, Custody, queue # <<>>, queue' = Tail(queue), UNCHANGED pushes,
         \A w \in Workers :
           \/ held'[w] = held[w] /\ wpc'[w] = wpc[w]
           \/ held'[w] = {Head(queue)}
  PROVE  \A id \in Ids : Untouched(id)' => Untouched(id)
<1>1. /\ 1 \in 1..Len(queue) /\ Head(queue) = queue[1]
      /\ \A i \in 1..Len(queue') : i + 1 \in 1..Len(queue) /\ queue'[i] = queue[i + 1]
  BY TailFacts
<1> QED
  BY <1>1 DEF Untouched

LEMMA UnpushedAtCursor ==
  ASSUME TypeOK, InTurn, NEW r \in Requests, rpc[r] \in {"enqueue", "push"}
  PROVE  Current(r) \in Ids /\ pushes[Current(r)] = 0 /\ Untouched(Current(r))
<1>1. cursor[r] \in 1..MaxTasks /\ cursor[r] <= cursor[r]
  BY BoundAssumption DEF TypeOK
<1> QED
  BY <1>1, CurrentType DEF InTurn, PushedInTurn, Current, Untouched

\* How the keys may change in a step that is not a worker's store: a key is
\* set to QUEUED only while its task is untouched.
QueuedInTime ==
  \A id \in Ids : \/ key'[id] \in {key[id], "absent"}
                  \/ key'[id] = "queued" /\ Untouched(id)

\* The store of worker w, which is at or after its claim.
StoredInTime(w) ==
  \E e \in Entry :
    /\ held[w] = {e} /\ wpc'[w] # "claimed"
    /\ \A i \in Ids : i # e.id => key'[i] = key[i]
    /\ \/ key'[e.id] = key[e.id]
       \/ key'[e.id] \in Terminal
       \/ key'[e.id] = "running" /\ wpc[w] = "claimed"
    /\ UNCHANGED <<queue, pushes>>
    /\ \A v \in Workers : v # w => held'[v] = held[v] /\ wpc'[v] = wpc[v]

LEMMA StoreInTime ==
  ASSUME TypeOK, Custody, NEW w \in Workers,
         \/ StoreRunning(w) \/ StoreCompleted(w) \/ StoreFailed(w)
         \/ StoreFault(w) \/ CompletedFault(w)
  PROVE  StoredInTime(w)
<1> USE DEF redis, api, wrk, hist
<1>1. /\ UNCHANGED <<queue, pushes>>
      /\ held' = held \/ Forget(w)
      /\ wpc[w] \in {"claimed", "report", "fail"}
  BY DEF StoreRunning, StoreCompleted, StoreFailed, StoreFault, CompletedFault
<1>2. \A v \in Workers : v # w => held'[v] = held[v]
  BY <1>1, ForgetAt
<1>3. PICK e \in Entry : held[w] = {e}
  BY <1>1 DEF Custody, HandsOK
<1>4. \/ \E status \in Terminal, next \in {"idle", "fail"} : Store(w, status, next)
      \/ wpc[w] = "claimed" /\ \E next \in {"ready", "idle"} : Store(w, "running", next)
      \/ key' = key /\ \E next \in {"idle", "fail"} : wpc' = [wpc EXCEPT ![w] = next]
  BY DEF StoreRunning, StoreCompleted, StoreFailed, StoreFault, CompletedFault, Terminal
<1>5. CASE key' = key /\ \E next \in {"idle", "fail"} : wpc' = [wpc EXCEPT ![w] = next]
  <2>1. wpc'[w] # "claimed" /\ \A v \in Workers : v # w => wpc'[v] = wpc[v]
    BY <1>5 DEF TypeOK
  <2> QED
    BY <1>1, <1>2, <1>3, <1>5, <2>1 DEF StoredInTime
<1>6. ASSUME NEW status, NEW next, Store(w, status, next), next # "claimed",
             status \in Terminal \/ (status = "running" /\ wpc[w] = "claimed")
      PROVE  StoredInTime(w)
  <2>1. /\ key'[e.id] = status /\ wpc'[w] = next
        /\ \A i \in Ids : i # e.id => key'[i] = key[i]
        /\ \A v \in Workers : v # w => wpc'[v] = wpc[v]
    BY <1>3, <1>6, StoreAt
  <2> QED
    BY <1>1, <1>2, <1>3, <1>6, <2>1 DEF StoredInTime
<1>7. CASE \E status \in Terminal, next \in {"idle", "fail"} : Store(w, status, next)
  BY <1>6, <1>7
<1>8. CASE wpc[w] = "claimed" /\ \E next \in {"ready", "idle"} : Store(w, "running", next)
  BY <1>6, <1>8
<1> QED
  BY <1>4, <1>5, <1>7, <1>8

LEMMA NextKeys ==
  ASSUME TypeOK, Submitted, Custody, InTurn, [Next]_vars
  PROVE  \/ QueuedInTime /\ \A id \in Ids : Untouched(id)' => Untouched(id)
         \/ \E w \in Workers : StoredInTime(w)
<1> DEFINE Quiet == QueuedInTime /\ \A id \in Ids : Untouched(id)' => Untouched(id)
<1> USE DEF redis, api, wrk, hist
<1>1. ASSUME NEW r \in Requests, NEW k \in Kinds, NEW p \in Plans,
             Submit(r, k, p)
      PROVE  Quiet
  BY <1>1, UntouchedQuiet DEF Submit, QueuedInTime
<1>2. ASSUME NEW r \in Requests, Refuse(r)
      PROVE  Quiet
  BY <1>2, UntouchedQuiet DEF Refuse, QueuedInTime
<1>3. ASSUME NEW r \in Requests, rpc[r] = "enqueue", SetStatus(Current(r), "queued"),
             UNCHANGED <<queue, pushes, wpc, held>>
      PROVE  Quiet
  BY <1>3, UnpushedAtCursor, SetStatusAt, UntouchedQuiet DEF QueuedInTime
<1>4. ASSUME NEW r \in Requests, rpc[r] = "push", UNCHANGED <<key, wpc, held>>,
             RPush(Current(r)) \/ RPushTwice(Current(r))
      PROVE  Quiet
  BY <1>4, UnpushedAtCursor, UntouchedPush DEF QueuedInTime
<1>5. ASSUME NEW r \in Requests, Poll(r)
      PROVE  Quiet
  BY <1>5, UntouchedQuiet DEF Poll, PollPass, QueuedInTime
<1>6. ASSUME NEW r \in Requests, RequestFault(r)
      PROVE  Quiet
  <2>1. UNCHANGED <<wpc, held>>
    BY <1>6 DEF RequestFault
  <2>2. CASE UNCHANGED <<key, queue, pushes>>
    BY <2>1, <2>2, UntouchedQuiet DEF QueuedInTime
  <2> QED
    BY <1>3, <1>4, <1>6, <2>1, <2>2 DEF RequestFault
<1>7. CASE ApiCrash
  BY <1>7, UntouchedQuiet DEF ApiCrash, QueuedInTime
<1>8. ASSUME NEW w \in Workers,
             \/ StartWorker(w) \/ Launch(w) \/ SkipEmpty(w) \/ Reject(w) \/ Finish(w)
      PROVE  Quiet
  BY <1>8, UntouchedQuiet DEF StartWorker, Launch, SkipEmpty, Reject, Finish, QueuedInTime, TypeOK
<1>9. ASSUME NEW w \in Workers, WorkerCrash(w)
      PROVE  Quiet
  <2>1. /\ UNCHANGED <<queue, pushes, key>> /\ wpc'[w] = "down" /\ Forget(w)
        /\ \A v \in Workers : v # w => wpc'[v] = wpc[v]
    BY <1>9 DEF WorkerCrash, TypeOK
  <2> QED
    BY <2>1, ForgetAt, UntouchedQuiet DEF QueuedInTime
<1>10. ASSUME NEW w \in Workers, Pop(w) \/ PopLost(w)
       PROVE  Quiet
  <2>1. /\ queue # <<>> /\ queue' = Tail(queue) /\ UNCHANGED <<pushes, key>>
        /\ \A v \in Workers : \/ held'[v] = held[v] /\ wpc'[v] = wpc[v]
                              \/ held'[v] = {Head(queue)}
    BY <1>10 DEF Pop, PopLost, TypeOK
  <2> QED
    BY <2>1, UntouchedPop DEF QueuedInTime
<1>11. CASE Tick
  BY <1>11, UntouchedQuiet DEF Tick, QueuedInTime
<1>12. CASE UNCHANGED vars
  BY <1>12, UntouchedQuiet DEF vars, QueuedInTime
<1>13. ASSUME NEW r \in Requests, SetQueued(r) \/ Push(r) \/ PushTwice(r)
       PROVE  Quiet
  BY <1>3, <1>4, <1>13 DEF SetQueued, Push, PushTwice
<1> QED
  BY <1>1, <1>2, <1>5, <1>6, <1>7, <1>8, <1>9, <1>10, <1>11, <1>12, <1>13, StoreInTime
  DEF Next, HandlerStep, RequestFaults, WorkerStep, WorkerFaults

LEMMA NextYoung ==
  ASSUME TypeOK, Submitted, Custody, InTurn, StatusYoung, [Next]_vars
  PROVE  StatusYoung'
<1>1. CASE QueuedInTime /\ \A id \in Ids : Untouched(id)' => Untouched(id)
  BY <1>1, YoungQuiet DEF QueuedInTime
<1>2. ASSUME NEW w \in Workers, StoredInTime(w)
      PROVE  StatusYoung'
  BY <1>2, YoungAfterStore DEF StoredInTime
<1> QED
  BY <1>1, <1>2, NextKeys

\* The status of a task that was pushed at most once never goes back.
LEMMA StepForward ==
  ASSUME TypeOK, Submitted, Custody, InTurn, StatusYoung, [Next]_vars,
         NEW id \in Ids, pushes'[id] <= 1, key[id] # "absent", key'[id] # "absent"
  PROVE  Progress(key[id]) <= Progress(key'[id])
<1>1. key[id] \in {"queued", "running", "completed", "failed"}
  BY DEF TypeOK, Status, Terminal
<1>2. CASE QueuedInTime
  <2>1. key'[id] = key[id] \/ (key'[id] = "queued" /\ key[id] = "queued")
    <3>1. \/ key'[id] \in {key[id], "absent"}
          \/ key'[id] = "queued" /\ Untouched(id)
      BY <1>2 DEF QueuedInTime
    <3>2. Untouched(id) => key[id] \in {"absent", "queued"}
      BY DEF StatusYoung
    <3> QED
      BY <3>1, <3>2
  <2> QED
    BY <1>1, <2>1 DEF Progress
<1>3. ASSUME NEW w \in Workers, StoredInTime(w)
      PROVE  Progress(key[id]) <= Progress(key'[id])
  <2>1. PICK e \in Entry :
          /\ held[w] = {e} /\ wpc'[w] # "claimed"
          /\ \A i \in Ids : i # e.id => key'[i] = key[i]
          /\ \/ key'[e.id] = key[e.id]
             \/ key'[e.id] \in Terminal
             \/ key'[e.id] = "running" /\ wpc[w] = "claimed"
          /\ UNCHANGED <<queue, pushes>>
          /\ \A v \in Workers : v # w => held'[v] = held[v] /\ wpc'[v] = wpc[v]
    BY <1>3 DEF StoredInTime
  <2>2. e.id \in Ids /\ pushes[e.id] \in Nat /\ pushes[e.id] > 0
    BY <2>1, TouchedInHand DEF TypeOK
  <2>3. CASE key'[id] = key[id]
    BY <1>1, <2>3 DEF Progress
  <2>4. CASE key'[id] \in Terminal
    BY <1>1, <2>4 DEF Progress, Terminal
  <2>5. CASE id = e.id /\ key'[id] = "running" /\ wpc[w] = "claimed"
    <3>1. Untouched(id)
      BY <2>1, <2>2, <2>5 DEF Untouched
    <3>2. key[id] = "queued"
      BY <3>1 DEF StatusYoung
    <3> QED
      BY <2>5, <3>2 DEF Progress
  <2> QED
    BY <2>1, <2>3, <2>4, <2>5
<1> QED
  BY <1>2, <1>3, NextKeys

\* In every execution the status of a task that was pushed once only moves
\* forward until its key expires, with any number of workers and failures.
THEOREM StatusesMoveForward == Spec => StatusForward
<1>1. TypeOK /\ Submitted /\ Custody /\ InTurn /\ StatusYoung /\ [Next]_vars
        => StatusYoung'
  BY NextYoung
<1>2. TypeOK /\ Submitted /\ Custody /\ InTurn /\ StatusYoung /\ [Next]_vars
        => [\A id \in Ids :
              /\ pushes'[id] <= 1
              /\ key[id] # "absent" /\ key'[id] # "absent"
              => Progress(key[id]) <= Progress(key'[id])]_vars
  BY StepForward
<1> QED
  BY InitYoung, CustodyInvariant, InTurnInvariant, <1>1, <1>2, PTL
  DEF Spec, StatusForward
=============================================================================

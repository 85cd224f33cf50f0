------------------------------ MODULE TaskQueue ------------------------------
(***************************************************************************)
(* Earendil's task queue: API handlers that enqueue shell tasks, the Redis *)
(* list "task_queue" with one status key per task, worker processes that   *)
(* pop and run the tasks, and callers that poll the status keys.           *)
(*                                                                         *)
(* One action is one Redis command together with the local computation up  *)
(* to the next one, so that handlers, workers, time and failures           *)
(* interleave exactly where the processes really can.                      *)
(***************************************************************************)
EXTENDS Naturals, Sequences

CONSTANTS
  Requests,        \* HTTP requests that reach the API
  Workers,         \* worker processes (agents.earendil.worker)
  ShellCommands,   \* run_command tasks
  EmptyCommands,   \* those of them whose command is the empty string
  OtherTasks,      \* queue tasks of any other type (POST /task, type "async")
  Plans,           \* task lists a request may carry
  Policies,        \* sets of shell commands a process's settings may allow
  NoRequest,       \* nobody holds the API's event loop
  MaxTasks,        \* bound: tasks in one request
  ResultTTL,       \* RESULT_TTL_SECONDS, in ticks
  CommandTimeout,  \* COMMAND_TIMEOUT_SECONDS, in ticks
  WaitTimeout,     \* WAIT_TIMEOUT_SECONDS, in ticks
  MaxFaults        \* bound: crashes and failed Redis commands in a behaviour

Work == ShellCommands \cup OtherTasks

\* 300 s against 30 s in the source, so that a status outlives a command.
ASSUME TimingAssumption ==
  /\ ResultTTL \in Nat /\ CommandTimeout \in Nat /\ WaitTimeout \in Nat
  /\ CommandTimeout < ResultTTL

ASSUME BoundAssumption ==
  /\ MaxTasks \in Nat \ {0}
  /\ MaxFaults \in Nat

ASSUME PlanAssumption ==
  /\ Plans \subseteq {p \in Seq(Work) : Len(p) \in 1..MaxTasks}
  /\ Policies \subseteq SUBSET ShellCommands
  /\ ShellCommands \cap OtherTasks = {}
  /\ EmptyCommands \subseteq ShellCommands
  /\ NoRequest \notin Requests

VARIABLES
  \* Redis
  queue,     \* the list task_queue
  key,       \* task id -> status stored under task:<id>, or "absent"
  ttl,       \* task id -> ticks until that key expires
  \* API process
  loop,      \* the request whose async handler occupies the event loop
  rpc,       \* request -> where its handler is
  kind,      \* request -> "task", "execute" or "wait"
  plan,      \* request -> its tasks, in the order they are enqueued
  cursor,    \* request -> the task being enqueued, or being polled
  alldone,   \* request -> all_done of the current polling pass
  waited,    \* request -> ticks since wait_for_tasks started
  told,      \* request -> the answer its caller got
  apiAllows, \* commands the API process's settings allow
  \* workers
  wpc,       \* worker -> where its loop is
  held,      \* worker -> the queue entries it holds: none or one
  elapsed,   \* worker -> ticks its command has been running
  allows,    \* worker -> commands its settings allow
  \* bookkeeping
  faults,    \* crashes and failed Redis commands so far
  pushes,    \* task id -> times its entry was put on the queue
  ran,       \* entries whose command was handed to subprocess
  settled    \* task ids a worker has stored COMPLETED or FAILED for

redis == <<queue, key, ttl>>
api   == <<loop, rpc, kind, plan, cursor, alldone, waited, told, apiAllows>>
wrk   == <<wpc, held, elapsed, allows>>
hist  == <<pushes, ran, settled>>
vars  == <<redis, api, wrk, faults, hist>>

-----------------------------------------------------------------------------
(* A uuid4 never repeats: a task is named by its request and its position. *)
Ids == Requests \X (1..MaxTasks)

TaskOf(id) == plan[id[1]][id[2]]

\* A queue entry; "copy" tells apart two pushes of the same task.
Entry == [id : Ids, copy : Nat]

Terminal == {"completed", "failed"}
Status   == {"queued", "running"} \cup Terminal

Kinds   == {"task", "execute", "wait"}
Answers == {"none", "queued", "completed", "partial", "error"}

\* check_task: only run_command tasks are checked against the allowlist; the
\* empty command passes it under EARENDIL_ALLOW_ANY_COMMAND only.
Permitted(policy, work) == work \in OtherTasks \/ work \in policy

InHand(w) == held[w] # {}

TypeOK ==
  /\ queue \in Seq(Entry)
  /\ key \in [Ids -> Status \cup {"absent"}]
  /\ ttl \in [Ids -> 0..ResultTTL]
  /\ loop \in Requests \cup {NoRequest}
  /\ rpc \in [Requests -> {"new", "enqueue", "push", "poll", "done"}]
  /\ kind \in [Requests -> Kinds]
  /\ plan \in [Requests -> Plans \cup {<<>>}]
  /\ cursor \in [Requests -> 1..MaxTasks]
  /\ alldone \in [Requests -> BOOLEAN]
  /\ waited \in [Requests -> 0..(WaitTimeout + 1)]
  /\ told \in [Requests -> Answers]
  /\ apiAllows \in SUBSET ShellCommands
  /\ wpc \in [Workers -> {"down", "idle", "claimed", "ready", "run",
                          "report", "fail"}]
  /\ held \in [Workers -> SUBSET Entry]
  /\ elapsed \in [Workers -> 0..CommandTimeout]
  /\ allows \in [Workers -> SUBSET ShellCommands]
  /\ faults \in 0..MaxFaults
  /\ pushes \in [Ids -> Nat]
  /\ ran \in SUBSET Entry
  /\ settled \in SUBSET Ids

Init ==
  /\ queue = <<>>
  /\ key = [id \in Ids |-> "absent"]
  /\ ttl = [id \in Ids |-> 0]
  /\ loop = NoRequest
  /\ rpc = [r \in Requests |-> "new"]
  /\ kind = [r \in Requests |-> "task"]
  /\ plan = [r \in Requests |-> <<>>]
  /\ cursor = [r \in Requests |-> 1]
  /\ alldone = [r \in Requests |-> TRUE]
  /\ waited = [r \in Requests |-> 0]
  /\ told = [r \in Requests |-> "none"]
  /\ apiAllows \in Policies
  /\ wpc = [w \in Workers |-> "down"]
  /\ held = [w \in Workers |-> {}]
  /\ elapsed = [w \in Workers |-> 0]
  /\ allows = [w \in Workers |-> {}]
  /\ faults = 0
  /\ pushes = [id \in Ids |-> 0]
  /\ ran = {}
  /\ settled = {}

-----------------------------------------------------------------------------
(* Redis commands (external; modelled from how the source uses them).      *)

\* SET task:<id> <status> EX RESULT_TTL_SECONDS
SetStatus(id, status) ==
  /\ key' = [key EXCEPT ![id] = status]
  /\ ttl' = [ttl EXCEPT ![id] = ResultTTL]

\* Variant: LPUSH instead of RPUSH.
LPush(id) ==
  /\ queue' = <<[id |-> id, copy |-> pushes[id] + 1]>> \o queue
  /\ pushes' = [pushes EXCEPT ![id] = @ + 1]

\* RPUSH task_queue <entry>
RPush(id) ==
  /\ queue' = Append(queue, [id |-> id, copy |-> pushes[id] + 1])
  /\ pushes' = [pushes EXCEPT ![id] = @ + 1]

\* RPUSH sent again by the client's retry because the first reply was lost.
RPushTwice(id) ==
  /\ queue' = Append(Append(queue, [id |-> id, copy |-> pushes[id] + 1]),
                     [id |-> id, copy |-> pushes[id] + 2])
  /\ pushes' = [pushes EXCEPT ![id] = @ + 2]

\* A crash or a failing Redis command, within the bound.
Fault ==
  /\ faults < MaxFaults
  /\ faults' = faults + 1

-----------------------------------------------------------------------------
(* API handlers.                                                           *)

Current(r) == <<r, cursor[r]>>

\* The handler of r returns its answer and leaves the event loop.
Answer(r, answer) ==
  /\ rpc' = [rpc EXCEPT ![r] = "done"]
  /\ told' = [told EXCEPT ![r] = answer]
  /\ loop' = IF loop = r THEN NoRequest ELSE loop

\* The event loop takes a request.  /execute and /execute/wait are async
\* handlers without an await on this path, so they keep the loop until they
\* return; /task is a sync handler and goes on in a thread.
Submit(r, k, p) ==
  /\ rpc[r] = "new"
  /\ loop = NoRequest
  /\ k = "task" => Len(p) = 1
  /\ rpc' = [rpc EXCEPT ![r] = "enqueue"]
  /\ kind' = [kind EXCEPT ![r] = k]
  /\ plan' = [plan EXCEPT ![r] = p]
  /\ loop' = IF k = "task" THEN NoRequest ELSE r
  /\ UNCHANGED <<cursor, alldone, waited, told, apiAllows, redis, wrk,
                 faults, hist>>

\* assert_shell_allowed or check_task raises: tasks pushed before stay queued.
Refuse(r) ==
  /\ rpc[r] = "enqueue"
  /\ ~Permitted(apiAllows, plan[r][cursor[r]])
  /\ Answer(r, "error")
  /\ UNCHANGED <<kind, plan, cursor, alldone, waited, apiAllows, redis, wrk,
                 faults, hist>>

\* enqueue_task, first half: the task passes the checks and is SET QUEUED.
SetQueued(r) ==
  /\ rpc[r] = "enqueue"
  /\ Permitted(apiAllows, plan[r][cursor[r]])
  /\ SetStatus(Current(r), "queued")
  /\ rpc' = [rpc EXCEPT ![r] = "push"]
  /\ UNCHANGED <<queue, loop, kind, plan, cursor, alldone, waited, told,
                 apiAllows, wrk, faults, hist>>

\* Variant: the loop over the tasks goes one too far.
AfterPushOneTooFar(r) ==
  /\ cursor[r] <= Len(plan[r])
  /\ cursor' = [cursor EXCEPT ![r] = @ + 1]
  /\ rpc' = [rpc EXCEPT ![r] = "enqueue"]
  /\ UNCHANGED <<told, loop>>

\* What follows a successful RPUSH: the next task, the wait, or the answer.
AfterPush(r) ==
  \/ /\ cursor[r] < Len(plan[r])
     /\ cursor' = [cursor EXCEPT ![r] = @ + 1]
     /\ rpc' = [rpc EXCEPT ![r] = "enqueue"]
     /\ UNCHANGED <<told, loop>>
  \/ /\ cursor[r] = Len(plan[r]) /\ kind[r] = "wait"
     /\ cursor' = [cursor EXCEPT ![r] = 1]
     /\ rpc' = [rpc EXCEPT ![r] = "poll"]
     /\ UNCHANGED <<told, loop>>
  \/ /\ cursor[r] = Len(plan[r]) /\ kind[r] # "wait"
     /\ Answer(r, "queued")
     /\ UNCHANGED cursor

\* enqueue_task, second half: RPUSH.
Push(r) ==
  /\ rpc[r] = "push"
  /\ RPush(Current(r))
  /\ AfterPush(r)
  /\ UNCHANGED <<key, ttl, kind, plan, alldone, waited, apiAllows, wrk,
                 faults, ran, settled>>

PushTwice(r) ==
  /\ rpc[r] = "push"
  /\ Fault
  /\ RPushTwice(Current(r))
  /\ AfterPush(r)
  /\ UNCHANGED <<key, ttl, kind, plan, alldone, waited, apiAllows, wrk, ran,
                 settled>>

\* wait_for_tasks, one GET of the current pass over the tasks.  "done" is
\* all_done after this GET; the last GET of a pass answers, or sleeps and
\* starts the next pass.
PollPass(r, done, timedOut) ==
  LET last == cursor[r] = Len(plan[r])
  IN /\ rpc[r] = "poll"
     /\ \/ /\ ~last
           /\ cursor' = [cursor EXCEPT ![r] = @ + 1]
           /\ alldone' = [alldone EXCEPT ![r] = done]
           /\ UNCHANGED <<rpc, told, loop>>
        \/ /\ last /\ done
           /\ Answer(r, "completed")
           /\ UNCHANGED <<cursor, alldone>>
        \/ /\ last /\ ~done /\ timedOut
           /\ Answer(r, "partial")
           /\ UNCHANGED <<cursor, alldone>>
        \/ /\ last /\ ~done /\ ~timedOut
           /\ cursor' = [cursor EXCEPT ![r] = 1]
           /\ alldone' = [alldone EXCEPT ![r] = TRUE]
           /\ UNCHANGED <<rpc, told, loop>>
     /\ UNCHANGED <<kind, plan, waited, apiAllows, redis, wrk, faults, hist>>

\* Variants: only the last task of a pass counts; the wait has no timeout.
PollLastOnly(r) ==
  PollPass(r, key[Current(r)] \in Terminal, waited[r] > WaitTimeout)
PollForever(r) ==
  PollPass(r, alldone[r] /\ key[Current(r)] \in Terminal, FALSE)

Poll(r) ==
  PollPass(r, alldone[r] /\ key[Current(r)] \in Terminal,
           waited[r] > WaitTimeout)

\* A Redis command of the handler fails: it may have been applied all the
\* same.  The exception ends the request.
RequestFault(r) ==
  /\ Fault
  /\ Answer(r, "error")
  /\ \/ /\ rpc[r] = "enqueue" /\ Permitted(apiAllows, plan[r][cursor[r]])
        /\ SetStatus(Current(r), "queued") \/ UNCHANGED <<key, ttl>>
        /\ UNCHANGED <<queue, pushes>>
     \/ /\ rpc[r] = "push"
        /\ RPush(Current(r)) \/ UNCHANGED <<queue, pushes>>
        /\ UNCHANGED <<key, ttl>>
     \/ /\ rpc[r] = "poll"
        /\ UNCHANGED <<queue, pushes, key, ttl>>
  /\ UNCHANGED <<kind, plan, cursor, alldone, waited, apiAllows, wrk, ran,
                 settled>>

\* The API process dies; every open request is dropped, and the process
\* comes back, possibly with other settings.
ApiCrash ==
  LET open == {r \in Requests : rpc[r] \in {"enqueue", "push", "poll"}}
  IN /\ Fault
     /\ rpc' = [r \in Requests |-> IF r \in open THEN "done" ELSE rpc[r]]
     /\ told' = [r \in Requests |-> IF r \in open THEN "error" ELSE told[r]]
     /\ loop' = NoRequest
     /\ apiAllows' \in Policies
     /\ UNCHANGED <<kind, plan, cursor, alldone, waited, redis, wrk, hist>>

-----------------------------------------------------------------------------
(* Workers.                                                                *)

\* The process starts (or is restarted) with settings that allow a shell;
\* in demo mode run_forever raises and the worker stays down.
StartWorker(w) ==
  /\ wpc[w] = "down"
  /\ wpc' = [wpc EXCEPT ![w] = "idle"]
  /\ \E p \in Policies : allows' = [allows EXCEPT ![w] = p]
  /\ UNCHANGED <<held, elapsed, redis, api, faults, hist>>

\* Variant: the entry is peeked at, and stays in the queue.
PopPeek(w) ==
  /\ wpc[w] = "idle"
  /\ queue # <<>>
  /\ held' = [held EXCEPT ![w] = {Head(queue)}]
  /\ wpc' = [wpc EXCEPT ![w] = "claimed"]
  /\ UNCHANGED <<queue, key, ttl, elapsed, allows, api, faults, hist>>

\* dequeue_task: LPOP
Pop(w) ==
  /\ wpc[w] = "idle"
  /\ queue # <<>>
  /\ queue' = Tail(queue)
  /\ held' = [held EXCEPT ![w] = {Head(queue)}]
  /\ wpc' = [wpc EXCEPT ![w] = "claimed"]
  /\ UNCHANGED <<key, ttl, elapsed, allows, api, faults, hist>>

\* The status key of the held task is stored; the loop goes on at "next".
Store(w, status, next) ==
  /\ \E e \in held[w] : SetStatus(e.id, status)
  /\ wpc' = [wpc EXCEPT ![w] = next]

\* process_task returns or raises: the loop forgets the entry.
Forget(w) ==
  /\ held' = [held EXCEPT ![w] = {}]
  /\ elapsed' = [elapsed EXCEPT ![w] = 0]

Settle(w) == settled' = settled \cup {e.id : e \in held[w]}

\* process_task: SET RUNNING
StoreRunning(w) ==
  /\ wpc[w] = "claimed"
  /\ Store(w, "running", "ready")
  /\ UNCHANGED <<queue, held, elapsed, allows, api, faults, hist>>

\* execute_system_task: the command passes the worker's own check and starts.
Launch(w) ==
  /\ wpc[w] = "ready"
  /\ \E e \in held[w] : TaskOf(e.id) \in allows[w] \ EmptyCommands
  /\ ran' = ran \cup held[w]
  /\ wpc' = [wpc EXCEPT ![w] = "run"]
  /\ UNCHANGED <<held, elapsed, allows, redis, api, faults, pushes, settled>>

\* execute_system_task: there is no command to start.  This comes before the
\* worker's own check and is a result dict, so the task will be COMPLETED.
SkipEmpty(w) ==
  /\ wpc[w] = "ready"
  /\ \E e \in held[w] : TaskOf(e.id) \in EmptyCommands
  /\ wpc' = [wpc EXCEPT ![w] = "report"]
  /\ UNCHANGED <<held, elapsed, allows, redis, api, faults, hist>>

\* Variants: a refusal is returned as a result dict like any other error; a
\* refusal is raised outside the try.
RejectAsResult(w) ==
  /\ wpc[w] = "ready"
  /\ \E e \in held[w] : TaskOf(e.id) \notin allows[w] \cup EmptyCommands
  /\ wpc' = [wpc EXCEPT ![w] = "report"]
  /\ UNCHANGED <<held, elapsed, allows, redis, api, faults, hist>>
RejectUncaught(w) ==
  /\ wpc[w] = "ready"
  /\ \E e \in held[w] : TaskOf(e.id) \notin allows[w] \cup EmptyCommands
  /\ wpc' = [wpc EXCEPT ![w] = "idle"]
  /\ Forget(w)
  /\ UNCHANGED <<allows, redis, api, faults, hist>>

\* The worker refuses the command, the payload is not one, or the task is not
\* a run_command task.
Reject(w) ==
  /\ wpc[w] = "ready"
  /\ \E e \in held[w] : TaskOf(e.id) \notin allows[w] \cup EmptyCommands
  /\ wpc' = [wpc EXCEPT ![w] = "fail"]
  /\ UNCHANGED <<held, elapsed, allows, redis, api, faults, hist>>

\* The command ends, or is killed at its timeout; either way its outcome is a
\* result dict and the task counts as completed.
Finish(w) ==
  /\ wpc[w] = "run"
  /\ wpc' = [wpc EXCEPT ![w] = "report"]
  /\ UNCHANGED <<held, elapsed, allows, redis, api, faults, hist>>

StoreCompleted(w) ==
  /\ wpc[w] = "report"
  /\ Store(w, "completed", "idle")
  /\ Forget(w)
  /\ Settle(w)
  /\ UNCHANGED <<queue, allows, api, faults, pushes, ran>>

StoreFailed(w) ==
  /\ wpc[w] = "fail"
  /\ Store(w, "failed", "idle")
  /\ Forget(w)
  /\ Settle(w)
  /\ UNCHANGED <<queue, allows, api, faults, pushes, ran>>

\* LPOP was applied but its reply was lost: the entry is gone.
PopLost(w) ==
  /\ wpc[w] = "idle"
  /\ queue # <<>>
  /\ Fault
  /\ queue' = Tail(queue)
  /\ UNCHANGED <<key, ttl, wrk, api, hist>>

\* SET RUNNING, or SET FAILED in the except block, raises: run_forever logs
\* it and backs off, and the entry is forgotten.
StoreFault(w) ==
  /\ Fault
  /\ \/ /\ wpc[w] = "claimed"
        /\ \/ Store(w, "running", "idle")
           \/ wpc' = [wpc EXCEPT ![w] = "idle"] /\ UNCHANGED <<key, ttl>>
        /\ UNCHANGED settled
     \/ /\ wpc[w] = "fail"
        /\ \/ Store(w, "failed", "idle") /\ Settle(w)
           \/ /\ wpc' = [wpc EXCEPT ![w] = "idle"]
              /\ UNCHANGED <<key, ttl, settled>>
  /\ Forget(w)
  /\ UNCHANGED <<queue, allows, api, pushes, ran>>

\* Variant: the task is put back when its result cannot be stored.
CompletedFaultRequeue(w) ==
  /\ Fault
  /\ wpc[w] = "report"
  /\ \E e \in held[w] : queue' = Append(queue, e)
  /\ wpc' = [wpc EXCEPT ![w] = "idle"]
  /\ Forget(w)
  /\ UNCHANGED <<key, ttl, allows, api, hist>>

\* SET COMPLETED raises inside the try: the except block will store FAILED
\* for a command that ran.
CompletedFault(w) ==
  /\ Fault
  /\ wpc[w] = "report"
  /\ \/ Store(w, "completed", "fail") /\ Settle(w)
     \/ /\ wpc' = [wpc EXCEPT ![w] = "fail"]
        /\ UNCHANGED <<key, ttl, settled>>
  /\ UNCHANGED <<queue, held, elapsed, allows, api, pushes, ran>>

\* Variant: what a dead worker held is delivered again.
WorkerCrashRequeue(w) ==
  /\ Fault
  /\ wpc[w] # "down"
  /\ wpc' = [wpc EXCEPT ![w] = "down"]
  /\ queue' = IF InHand(w) THEN Append(queue, CHOOSE e \in held[w] : TRUE)
              ELSE queue
  /\ Forget(w)
  /\ UNCHANGED <<key, ttl, allows, api, hist>>

WorkerCrash(w) ==
  /\ Fault
  /\ wpc[w] # "down"
  /\ wpc' = [wpc EXCEPT ![w] = "down"]
  /\ Forget(w)
  /\ UNCHANGED <<allows, redis, api, hist>>

-----------------------------------------------------------------------------
(* Time passes: keys expire, waiters and commands age.  A command cannot   *)
(* outlive its timeout, subprocess kills it, and the local step from the   *)
(* reply of SET RUNNING to the start of the command takes no tick.         *)
Tick ==
  /\ \A w \in Workers :
       /\ wpc[w] # "ready"
       /\ wpc[w] = "run" => elapsed[w] < CommandTimeout
  /\ ttl' = [id \in Ids |-> IF ttl[id] > 0 THEN ttl[id] - 1 ELSE 0]
  /\ key' = [id \in Ids |-> IF ttl[id] > 1 THEN key[id] ELSE "absent"]
  /\ elapsed' = [w \in Workers |->
                   IF wpc[w] = "run" THEN elapsed[w] + 1 ELSE elapsed[w]]
  /\ waited' = [r \in Requests |->
                  IF rpc[r] = "poll" /\ waited[r] <= WaitTimeout
                  THEN waited[r] + 1 ELSE waited[r]]
  /\ UNCHANGED <<queue, loop, rpc, kind, plan, cursor, alldone, told,
                 apiAllows, wpc, held, allows, faults, hist>>

-----------------------------------------------------------------------------
\* Variant: RPUSH before SET QUEUED.
HandlerStepPushFirst(r) ==
  \/ Refuse(r) \/ Poll(r)
  \/ /\ rpc[r] = "enqueue" /\ Permitted(apiAllows, plan[r][cursor[r]])
     /\ RPush(Current(r))
     /\ rpc' = [rpc EXCEPT ![r] = "push"]
     /\ UNCHANGED <<key, ttl, loop, kind, plan, cursor, alldone, waited, told,
                    apiAllows, wrk, faults, ran, settled>>
  \/ /\ rpc[r] = "push"
     /\ SetStatus(Current(r), "queued")
     /\ AfterPush(r)
     /\ UNCHANGED <<queue, kind, plan, alldone, waited, apiAllows, wrk,
                    faults, hist>>

HandlerStep(r) ==
  Refuse(r) \/ SetQueued(r) \/ Push(r) \/ Poll(r)

WorkerStep(w) ==
  \/ Pop(w) \/ StoreRunning(w) \/ Launch(w) \/ SkipEmpty(w) \/ Reject(w)
  \/ Finish(w) \/ StoreCompleted(w) \/ StoreFailed(w)

RequestFaults(r) == PushTwice(r) \/ RequestFault(r)

WorkerFaults(w) ==
  PopLost(w) \/ StoreFault(w) \/ CompletedFault(w) \/ WorkerCrash(w)

Next ==
  \/ \E r \in Requests, k \in Kinds, p \in Plans : Submit(r, k, p)
  \/ \E r \in Requests : HandlerStep(r) \/ RequestFaults(r)
  \/ \E w \in Workers : StartWorker(w) \/ WorkerStep(w) \/ WorkerFaults(w)
  \/ ApiCrash
  \/ Tick

Spec == Init /\ [][Next]_vars

\* Handlers and workers are threads that run whenever they can, compose
\* restarts a worker that is down, and time passes.  Callers owe nothing.
Fairness ==
  /\ \A r \in Requests : WF_vars(HandlerStep(r))
  /\ \A w \in Workers : WF_vars(StartWorker(w)) /\ WF_vars(WorkerStep(w))
  /\ WF_vars(Tick)

FairSpec == Spec /\ Fairness

-----------------------------------------------------------------------------
(* Properties.                                                             *)

InQueue(e) == \E i \in 1..Len(queue) : queue[i] = e

\* Type correctness is TypeOK, above.

\* A queue entry is in one place only: once in the queue, or in the hands of
\* one worker; and while it is in the queue or merely claimed its command has
\* not been started.  (LPOP before processing, worker.py:107-109.)
EntryInOnePlace ==
  /\ \A i, j \in 1..Len(queue) : queue[i] = queue[j] => i = j
  /\ \A w \in Workers : \A e \in held[w] : ~InQueue(e)
  /\ \A v, w \in Workers : held[v] \cap held[w] # {} => v = w
  /\ \A i \in 1..Len(queue) : queue[i] \notin ran
  /\ \A w \in Workers :
       wpc[w] \in {"claimed", "ready"} => held[w] \cap ran = {}

\* No RPUSH leads to two starts of the command, whatever workers crash,
\* whatever Redis calls fail: the queue delivers at most once per push.
NeverRunTwice ==
  [][\A w \in Workers :
       wpc[w] # "run" /\ wpc'[w] = "run" => held[w] \cap ran = {}]_vars

RunningIsVisible ==
  \A w \in Workers : wpc[w] = "run" =>
    \A e \in held[w] : key[e.id] # "absent"

CompletedMeansRan ==
  \A id \in Ids : key[id] = "completed" =>
    (\E e \in ran : e.id = id) \/ TaskOf(id) \in EmptyCommands

\* What a poller reads is true: a running command is never "not_found",
\* because the TTL of RUNNING exceeds the command's timeout and is renewed
\* when it starts (RESULT_TTL_SECONDS, worker.py:68); and "completed" stands
\* for a command that was handed to subprocess, however that ended, or for an
\* empty one, of which there is nothing to start (worker.py:34-35), never for
\* a refused one or one lost in a crash (worker.py:71-86).
StatusTruthful == RunningIsVisible /\ CompletedMeansRan

\* "completed" from wait_for_tasks means that a worker has stored a terminal
\* status for every task of the request, although the pass that saw them is
\* many GETs and keys may expire in between (agent.py:89-110).
CompletedAnswerSound ==
  \A r \in Requests : told[r] = "completed" =>
    \A i \in 1..Len(plan[r]) : <<r, i>> \in settled

Progress(status) == CASE status = "queued" -> 1
                      [] status = "running" -> 2
                      [] OTHER -> 3

\* The status a poller sees of a task that was pushed once only moves
\* forward (queued, running, terminal) until the key expires, with any number
\* of workers: SET QUEUED comes before RPUSH, so it can never overwrite what a
\* worker stored (agent.py:72-77).
StatusForward ==
  [][\A id \in Ids :
       /\ pushes'[id] <= 1
       /\ key[id] # "absent" /\ key'[id] # "absent"
       => Progress(key[id]) <= Progress(key'[id])]_vars

Tickets == UNION {{[id |-> id, copy |-> k] : k \in 1..pushes[id]} : id \in Ids}

Owed ==
  {queue[i] : i \in 1..Len(queue)} \cup
  UNION {held[w] : w \in {v \in Workers : wpc[v] \in {"claimed", "ready"}}}

Service == INSTANCE TaskService
             WITH accepted <- Tickets, owed <- Owed, started <- ran

\* The queue, its workers and their failures implement TaskService: every
\* step is an acceptance, a start, a loss, or invisible to it; nothing is
\* ever delivered again.
ImplementsTaskService == Service!Spec

\* Workers take the tasks of one request in the order it listed them: when a
\* task has left the queue, no earlier task of its request is still in it
\* (RPUSH/LPOP, agent.py:77 and 161, worker.py:27).
WorkflowOrder ==
  \A r \in Requests : \A i, j \in 1..MaxTasks :
    /\ i < j
    /\ pushes[<<r, j>>] > 0
    /\ \A n \in 1..Len(queue) : queue[n].id # <<r, j>>
    => \A n \in 1..Len(queue) : queue[n].id # <<r, i>>

\* Every request the API accepted is answered: a wait is bounded even if no
\* worker ever runs, and the event loop it occupies is given back
\* (agent.py:112, tasks.py:167-182).
EveryRequestAnswered ==
  \A r \in Requests : rpc[r] = "enqueue" ~> rpc[r] = "done" /\ loop # r

\* Without faults every pushed task reaches a terminal status.
EveryTaskSettles ==
  \A id \in Ids : pushes[id] > 0 ~> id \in settled \/ faults > 0

=============================================================================

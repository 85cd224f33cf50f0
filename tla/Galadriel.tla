------------------------------ MODULE Galadriel ------------------------------
(***************************************************************************)
(* Galadriel, the cron scheduler: jobs kept in Redis as one blob per job   *)
(* (cron:job:<id>) and a sorted set of due times (cron:queue), the worker  *)
(* processes that claim, run and reschedule them, and the API and bot      *)
(* handlers that create, seed and delete them.                             *)
(*                                                                         *)
(* save_job and delete_job are two Redis commands each, and pop_due is one *)
(* ZRANGEBYSCORE and then a ZREM and a GET per candidate: every command is *)
(* a step of its own, so all actors interleave between them.               *)
(***************************************************************************)
EXTENDS Integers, Sequences, FiniteSets

CONSTANTS
  Workers,        \* galadriel worker processes
  Clients,        \* API threads and bot handlers that write jobs
  ApiClients,     \* those of them in the API; the others are the bot's
  Seeders,        \* the clients that run ensure_letterboxd_sync_cron
  Jobs,
  Seeded,         \* cron jobs with a fixed id, installed when missing
  OneShot,        \* "at" jobs; the others are "cron" jobs
  DeleteAfterRun, \* at jobs created with delete_after_run
  Parties,        \* at jobs made by /club schedule instead of POST /cron
  Removable,      \* jobs somebody may DELETE
  AtTime,         \* at job -> the time it is scheduled for
  Period,         \* cron jobs are due at the multiples of Period
  Limit,          \* pop_due's limit
  NoTime, NoJob,
  MaxTime,        \* bound: the clock
  MaxFaults,      \* bound: crashes and Redis errors in a behaviour
  MaxRetries      \* bound: commands redis-py sends twice

ASSUME JobsAssumption ==
  /\ Seeded \subseteq Jobs /\ OneShot \subseteq Jobs
  /\ Seeded \cap OneShot = {}
  /\ DeleteAfterRun \subseteq OneShot /\ Parties \subseteq DeleteAfterRun
  /\ Removable \subseteq Jobs

ASSUME ActorsAssumption ==
  /\ Seeders \subseteq Clients /\ ApiClients \subseteq Clients
  /\ Workers \cap Clients = {}

ASSUME NumbersAssumption ==
  /\ Period \in Nat \ {0} /\ Limit \in Nat \ {0}
  /\ AtTime \in [OneShot -> Nat]
  /\ MaxTime \in Nat /\ MaxFaults \in Nat /\ MaxRetries \in Nat
  /\ NoTime \notin Nat
  /\ NoJob \notin Jobs
  /\ NoJob \notin [enabled : BOOLEAN, next : Nat \cup {NoTime}]

VARIABLES
  blob,     \* job -> the fields of cron:job:<id> that matter, or NoJob
  zset,     \* job -> its score in cron:queue, or NoTime
  now,      \* the clock every process reads
  todo,     \* actor -> Redis commands its current save or delete still sends
  wpc,      \* worker -> where its loop is
  cand,     \* worker -> candidates of pop_due it has not tried yet
  cur,      \* worker -> the job it has just claimed, or is running
  batch,    \* worker -> claimed (job, occurrence) pairs it has not started
  faults, retries,
  created,  \* jobs POST /cron or /club schedule has accepted
  cancelled,\* jobs a DELETE has removed (it answers 204)
  fired,    \* (job, occurrence) pairs that were started
  raced,    \* seeded jobs a seed found absent while somebody was busy with them
  resent    \* jobs on which some command was sent twice

vars == <<blob, zset, now, todo, wpc, cand, cur, batch, faults, retries,
          created, cancelled, fired, raced, resent>>
store == <<blob, zset>>
work  == <<wpc, cand, cur, batch>>
marks == <<raced, resent>>
hist  == <<created, cancelled, fired, marks>>

-----------------------------------------------------------------------------
Actors == Workers \cup Clients
Time   == Nat \cup {NoTime}
Record == [enabled : BOOLEAN, next : Time]

Set(j, rec)  == [op |-> "set", job |-> j, rec |-> rec]
ZAdd(j, rec) == [op |-> "zadd", job |-> j, rec |-> rec]
ZRem(j)      == [op |-> "zrem", job |-> j, rec |-> NoJob]
Del(j)       == [op |-> "del", job |-> j, rec |-> NoJob]
Command == [op : {"set", "zadd"}, job : Jobs, rec : Record]
             \cup [op : {"zrem", "del"}, job : Jobs, rec : {NoJob}]

TypeOK ==
  /\ blob \in [Jobs -> Record \cup {NoJob}]
  /\ zset \in [Jobs -> Time]
  /\ now \in 0..MaxTime
  /\ todo \in [Actors -> Seq(Command)]
  /\ wpc \in [Workers -> {"poll", "claim", "read", "run", "running", "save"}]
  /\ cand \in [Workers -> SUBSET Jobs]
  /\ cur \in [Workers -> Jobs \cup {NoJob}]
  /\ batch \in [Workers -> SUBSET (Jobs \X Time)]
  /\ faults \in 0..MaxFaults /\ retries \in 0..MaxRetries
  /\ created \subseteq Jobs /\ cancelled \subseteq Jobs
  /\ fired \subseteq Jobs \X Time
  /\ raced \subseteq Seeded /\ resent \subseteq Jobs

Init ==
  /\ blob = [j \in Jobs |-> NoJob]
  /\ zset = [j \in Jobs |-> NoTime]
  /\ now = 0
  /\ todo = [a \in Actors |-> <<>>]
  /\ wpc = [w \in Workers |-> "poll"]
  /\ cand = [w \in Workers |-> {}]
  /\ cur = [w \in Workers |-> NoJob]
  /\ batch = [w \in Workers |-> {}]
  /\ faults = 0 /\ retries = 0
  /\ created = {} /\ cancelled = {} /\ fired = {}
  /\ raced = {} /\ resent = {}

-----------------------------------------------------------------------------
(* Schedules.                                                              *)

\* Variant: get_next that may answer the very time it is asked about.
NextRunInclusive(j, t) ==
  IF j \in OneShot THEN IF AtTime[j] < t THEN NoTime ELSE AtTime[j]
  ELSE ((t + Period - 1) \div Period) * Period

\* next_run_ms: croniter's get_next is strictly later than its base, an at
\* time in the past has no next run.
NextRun(j, t) ==
  IF j \in OneShot THEN IF AtTime[j] < t THEN NoTime ELSE AtTime[j]
  ELSE (t \div Period + 1) * Period

\* save_job
Save(j, rec) ==
  <<Set(j, rec),
    IF rec.next # NoTime /\ rec.enabled THEN ZAdd(j, rec) ELSE ZRem(j)>>

\* delete_job
Delete(j) == <<Del(j), ZRem(j)>>

\* Variant: an at job is saved again, with its time, instead of retired.
RescheduleKeepsOneShot(j) ==
  IF j \in OneShot THEN Save(j, [enabled |-> TRUE, next |-> AtTime[j]])
  ELSE Save(j, [enabled |-> TRUE, next |-> NextRun(j, now)])

\* reschedule: what the worker writes after a run.
Reschedule(j) ==
  IF j \in DeleteAfterRun THEN Delete(j)
  ELSE IF j \in OneShot THEN Save(j, [enabled |-> FALSE, next |-> NoTime])
  ELSE Save(j, [enabled |-> TRUE, next |-> NextRun(j, now)])

-----------------------------------------------------------------------------
(* Redis commands of a save or a delete.                                   *)

Apply(cmd) ==
  CASE cmd.op = "set"  -> /\ blob' = [blob EXCEPT ![cmd.job] = cmd.rec]
                          /\ UNCHANGED zset
    [] cmd.op = "zadd" -> /\ zset' = [zset EXCEPT ![cmd.job] = cmd.rec.next]
                          /\ UNCHANGED blob
    [] cmd.op = "zrem" -> /\ zset' = [zset EXCEPT ![cmd.job] = NoTime]
                          /\ UNCHANGED blob
    [] cmd.op = "del"  -> /\ blob' = [blob EXCEPT ![cmd.job] = NoJob]
                          /\ UNCHANGED zset

\* A worker that has sent its last command takes the next job of its batch.
AfterSave(a) ==
  wpc' = [w \in Workers |->
           IF w = a /\ Len(todo[a]) = 1
           THEN IF batch[w] = {} THEN "poll" ELSE "run"
           ELSE wpc[w]]

\* A client's DELETE answers 204 iff its DEL removed something.
Cancelled(a, cmd) ==
  IF a \in Clients /\ cmd.op = "del" /\ blob[cmd.job] # NoJob
  THEN cancelled \cup {cmd.job} ELSE cancelled

Execute(a) ==
  /\ todo[a] # <<>>
  /\ Apply(Head(todo[a]))
  /\ cancelled' = Cancelled(a, Head(todo[a]))
  /\ todo' = [todo EXCEPT ![a] = Tail(@)]
  /\ AfterSave(a)
  /\ UNCHANGED <<now, cand, cur, batch, faults, retries, created, fired, marks>>

\* Redis ran the command, the reply was lost, and redis-py sends it again.
ExecuteRetried(a) ==
  /\ todo[a] # <<>> /\ retries < MaxRetries
  /\ Apply(Head(todo[a]))
  /\ cancelled' = Cancelled(a, Head(todo[a]))
  /\ retries' = retries + 1
  /\ resent' = resent \cup {Head(todo[a]).job}
  /\ UNCHANGED <<now, todo, work, faults, created, fired, raced>>

-----------------------------------------------------------------------------
(* Who holds a job: since its claim a worker does, until its ZADD is sent. *)

Claims(w, j) ==
  \/ wpc[w] \in {"read", "running"} /\ cur[w] = j
  \/ \E e \in batch[w] : e[1] = j

WillQueue(a, j) ==
  \E i \in 1..Len(todo[a]) : todo[a][i].op = "zadd" /\ todo[a][i].job = j

Holds(a, j) == (a \in Workers /\ Claims(a, j)) \/ WillQueue(a, j)

InUse(j) ==
  \/ zset[j] # NoTime
  \/ \E w \in Workers : j \in cand[w]
  \/ \E a \in Actors : Holds(a, j) \/ \E i \in 1..Len(todo[a]) : todo[a][i].job = j

-----------------------------------------------------------------------------
(* Clients.                                                                *)

Idle(c) == todo[c] = <<>>

Write(c, cmds) ==
  /\ todo' = [todo EXCEPT ![c] = cmds]
  /\ UNCHANGED <<store, now, work, faults, retries, cancelled, fired, resent>>

\* POST /cron. A job whose at time has passed is refused with 400.
Create(c, j, enabled) ==
  /\ Idle(c) /\ c \in ApiClients
  /\ j \in Jobs \ (created \cup Seeded \cup Parties)
  /\ NextRun(j, now) # NoTime
  /\ created' = created \cup {j}
  /\ Write(c, Save(j, [enabled |-> enabled, next |-> NextRun(j, now)]))
  /\ UNCHANGED raced

\* /club schedule: the time is only parsed, never compared with the clock.
ScheduleParty(c, j) ==
  /\ Idle(c) /\ c \notin ApiClients
  /\ j \in Parties \ created
  /\ created' = created \cup {j}
  /\ Write(c, Save(j, [enabled |-> TRUE, next |-> NextRun(j, now)]))
  /\ UNCHANGED raced

\* DELETE /cron/{id}. The id is known once the blob can be listed.
Remove(c, j) ==
  /\ Idle(c) /\ c \in ApiClients
  /\ j \in Removable /\ blob[j] # NoJob
  /\ Write(c, Delete(j))
  /\ UNCHANGED <<created, raced>>

\* Bookkeeping: the seed's test has answered "absent", and yet the job is in
\* the queue or some process is about to claim, run or write it.
NoteRace(j) ==
  raced' = IF blob[j] = NoJob /\ InUse(j) THEN raced \cup {j} ELSE raced

\* Variant: a seed that does not look for the job first.
SeedOverwrites(c, j) ==
  /\ Idle(c)
  /\ c \in Seeders /\ j \in Seeded
  /\ Write(c, Save(j, [enabled |-> TRUE, next |-> NextRun(j, now)]))
  /\ NoteRace(j)
  /\ UNCHANGED created

\* ensure_letterboxd_sync_cron, ensure_github_audit_cron: the start of the API
\* and the bot's /sync.  The test is this step, the writes come later: several
\* seeders may find the job absent.
Seed(c, j) ==
  /\ Idle(c)
  /\ c \in Seeders /\ j \in Seeded /\ blob[j] = NoJob
  /\ Write(c, Save(j, [enabled |-> TRUE, next |-> NextRun(j, now)]))
  /\ NoteRace(j)
  /\ UNCHANGED created

\* The process dies, or Redis fails under the command: the rest is not sent.
ClientAbort(c) ==
  /\ ~Idle(c) /\ faults < MaxFaults
  /\ faults' = faults + 1
  /\ todo' = [todo EXCEPT ![c] = <<>>]
  /\ UNCHANGED <<store, now, work, retries, hist>>

-----------------------------------------------------------------------------
(* Workers.                                                                *)

Due(t) == {j \in Jobs : zset[j] # NoTime /\ zset[j] <= t}

\* ZRANGEBYSCORE cron:queue 0 now LIMIT 0 limit: the lowest scores.
FirstDue(S) ==
  /\ S \subseteq Due(now)
  /\ Cardinality(S) = IF Cardinality(Due(now)) < Limit
                      THEN Cardinality(Due(now)) ELSE Limit
  /\ \A j \in S, k \in Due(now) \ S : zset[j] <= zset[k]

Scan(w) ==
  /\ wpc[w] = "poll"
  /\ \E S \in SUBSET Due(now) :
       /\ FirstDue(S)
       /\ cand' = [cand EXCEPT ![w] = S]
       /\ wpc' = [wpc EXCEPT ![w] = IF S = {} THEN "poll" ELSE "claim"]
  /\ UNCHANGED <<store, now, todo, cur, batch, faults, retries, hist>>

\* The loop over the candidates goes on, or its end hands over the batch.
AfterClaim(w, remaining, claimed) ==
  wpc' = [wpc EXCEPT ![w] = IF remaining # {} THEN "claim"
                            ELSE IF claimed = {} THEN "poll" ELSE "run"]

\* ZREM answered 0: another worker has the job.
Lose(w, j) ==
  /\ wpc[w] = "claim" /\ j \in cand[w] /\ zset[j] = NoTime
  /\ cand' = [cand EXCEPT ![w] = @ \ {j}]
  /\ AfterClaim(w, cand[w] \ {j}, batch[w])
  /\ UNCHANGED <<store, now, todo, cur, batch, faults, retries, hist>>

\* Variant: the result of the ZREM is not looked at.
ClaimUnchecked(w, j) ==
  /\ wpc[w] = "claim" /\ j \in cand[w]
  /\ zset' = [zset EXCEPT ![j] = NoTime]
  /\ cand' = [cand EXCEPT ![w] = @ \ {j}]
  /\ cur' = [cur EXCEPT ![w] = j]
  /\ wpc' = [wpc EXCEPT ![w] = "read"]
  /\ UNCHANGED <<blob, now, todo, batch, faults, retries, hist>>

\* ZREM answered 1. The score may no longer be the one that was due.
Claim(w, j) ==
  /\ wpc[w] = "claim" /\ j \in cand[w] /\ zset[j] # NoTime
  /\ zset' = [zset EXCEPT ![j] = NoTime]
  /\ cand' = [cand EXCEPT ![w] = @ \ {j}]
  /\ cur' = [cur EXCEPT ![w] = j]
  /\ wpc' = [wpc EXCEPT ![w] = "read"]
  /\ UNCHANGED <<blob, now, todo, batch, faults, retries, hist>>

\* The ZREM removed the job but its retry answered 0: nobody has it.
ClaimRetried(w, j) ==
  /\ wpc[w] = "claim" /\ j \in cand[w] /\ zset[j] # NoTime
  /\ retries < MaxRetries
  /\ retries' = retries + 1
  /\ resent' = resent \cup {j}
  /\ zset' = [zset EXCEPT ![j] = NoTime]
  /\ cand' = [cand EXCEPT ![w] = @ \ {j}]
  /\ AfterClaim(w, cand[w] \ {j}, batch[w])
  /\ UNCHANGED <<blob, now, todo, cur, batch, faults, created, cancelled,
                 fired, raced>>

\* Variant: pop_due does not check that read_job found the job.
ClaimedUnread(j) ==
  IF blob[j] = NoJob THEN {<<j, NoJob>>}
  ELSE IF blob[j].enabled THEN {<<j, blob[j].next>>} ELSE {}

\* What read_job adds to the batch: nothing for a missing or disabled job.
Claimed(j) ==
  IF blob[j] # NoJob /\ blob[j].enabled THEN {<<j, blob[j].next>>} ELSE {}

\* Variant: pop_due keeps only the job it read last.
ReadLastOnly(w) ==
  /\ wpc[w] = "read"
  /\ batch' = [batch EXCEPT ![w] = Claimed(cur[w])]
  /\ cur' = [cur EXCEPT ![w] = NoJob]
  /\ AfterClaim(w, cand[w], Claimed(cur[w]))
  /\ UNCHANGED <<store, now, todo, cand, faults, retries, hist>>

Read(w) ==
  /\ wpc[w] = "read"
  /\ batch' = [batch EXCEPT ![w] = @ \cup Claimed(cur[w])]
  /\ cur' = [cur EXCEPT ![w] = NoJob]
  /\ AfterClaim(w, cand[w], batch[w] \cup Claimed(cur[w]))
  /\ UNCHANGED <<store, now, todo, cand, faults, retries, hist>>

\* run_one starts the payload of a claimed job.
Run(w, j, due) ==
  /\ wpc[w] = "run" /\ <<j, due>> \in batch[w]
  /\ batch' = [batch EXCEPT ![w] = @ \ {<<j, due>>}]
  /\ cur' = [cur EXCEPT ![w] = j]
  /\ wpc' = [wpc EXCEPT ![w] = "running"]
  /\ fired' = fired \cup {<<j, due>>}
  /\ UNCHANGED <<store, now, todo, cand, faults, retries, created, cancelled,
                 marks>>

\* The payload is done, or raised: run_one reschedules either way.
Finish(w) ==
  /\ wpc[w] = "running"
  /\ todo' = [todo EXCEPT ![w] = Reschedule(cur[w])]
  /\ cur' = [cur EXCEPT ![w] = NoJob]
  /\ wpc' = [wpc EXCEPT ![w] = "save"]
  /\ UNCHANGED <<store, now, cand, batch, faults, retries, hist>>

\* The worker dies and is restarted, or a Redis error leaves its loop: what it
\* had claimed and what it was about to write is gone.
WorkerAbort(w) ==
  /\ wpc[w] # "poll" /\ faults < MaxFaults
  /\ faults' = faults + 1
  /\ wpc' = [wpc EXCEPT ![w] = "poll"]
  /\ cand' = [cand EXCEPT ![w] = {}]
  /\ cur' = [cur EXCEPT ![w] = NoJob]
  /\ batch' = [batch EXCEPT ![w] = {}]
  /\ todo' = [todo EXCEPT ![w] = <<>>]
  /\ UNCHANGED <<store, now, retries, hist>>

-----------------------------------------------------------------------------
Tick ==
  /\ now < MaxTime
  /\ now' = now + 1
  /\ UNCHANGED <<store, todo, work, faults, retries, hist>>

ClientStep(c) ==
  \/ \E j \in Jobs, enabled \in BOOLEAN : Create(c, j, enabled)
  \/ \E j \in Jobs : ScheduleParty(c, j)
  \/ \E j \in Jobs : Remove(c, j)
  \/ \E j \in Jobs : Seed(c, j)

WorkerStep(w) ==
  \/ Scan(w)
  \/ \E j \in Jobs : Claim(w, j)
  \/ \E j \in Jobs : Lose(w, j)
  \/ Read(w)
  \/ \E e \in batch[w] : Run(w, e[1], e[2])
  \/ Finish(w)

Failure ==
  \/ \E a \in Actors : ExecuteRetried(a)
  \/ \E w \in Workers, j \in Jobs : ClaimRetried(w, j)
  \/ \E w \in Workers : WorkerAbort(w)
  \/ \E c \in Clients : ClientAbort(c)

Next ==
  \/ \E c \in Clients : ClientStep(c)
  \/ \E w \in Workers : WorkerStep(w)
  \/ \E a \in Actors : Execute(a)
  \/ Failure
  \/ Tick

Spec == Init /\ [][Next]_vars

\* The worker's loop never stops and each process sends the commands of the
\* operation it is in; nothing makes a client start one, or time pass.
Fairness ==
  /\ \A w \in Workers : WF_vars(WorkerStep(w))
  /\ \A a \in Actors : WF_vars(Execute(a))

FairSpec == Spec /\ Fairness

-----------------------------------------------------------------------------
\* Two processes may have mixed up their writes of such a job: a seed that
\* found it absent beside somebody else's, or a command sent twice.
Disturbed(j) == j \in raced \cup resent

\* No two workers hold the same job at a time, and nobody else can claim a
\* job while one does, whatever was claimed, deleted, seeded again or
\* rescheduled in between: what the ZREM of pop_due is for.
OneHolder ==
  \A j \in Jobs : ~Disturbed(j) =>
    \A a, b \in Actors :
      Holds(a, j) => /\ zset[j] = NoTime
                     /\ Holds(b, j) => a = b

\* An occurrence of a job is started at most once, unless a seed raced or a
\* command on that very job was resent.
NoDoubleFire ==
  [][\A w \in Workers : \A e \in batch[w] :
       ~Disturbed(e[1]) /\ Run(w, e[1], e[2]) => e \notin fired]_vars

\* An at job is started at most once, with any number of workers, and when
\* they crash at any point of the run; no seed can race with it, so only a
\* command on that job that is resent can start it again.
OneShotOnce ==
  [][\A w \in Workers : \A e \in batch[w] :
       e[1] \in OneShot \ resent /\ Run(w, e[1], e[2])
         => \A due \in 0..MaxTime : <<e[1], due>> \notin fired]_vars

\* Without crashes and lost replies, a job that was accepted (or seeded) and
\* that nobody deletes is never forgotten, not even when two seeds race: as
\* long as it is enabled it is in the queue, or the process that will put it
\* there is on its way.
BeingDeleted(j) ==
  \/ j \in cancelled
  \/ \E a \in Actors : \E i \in 1..Len(todo[a]) :
        todo[a][i].op = "del" /\ todo[a][i].job = j

NeverStranded ==
  faults = 0 =>
    \A j \in Jobs \ resent :
      (blob[j] # NoJob /\ blob[j].enabled /\ ~BeingDeleted(j)) =>
        \/ zset[j] # NoTime
        \/ \E a \in Actors : Holds(a, j) \/ \E i \in 1..Len(todo[a]) :
             todo[a][i].op = "set" /\ todo[a][i].job = j

\* A due occurrence is never overwritten by a later one: it leaves the queue
\* only by being claimed or deleted.  The one way around it is the race of
\* ensure_*_cron, whose test and writes are apart (sync_job.py:203-222): a
\* job that one seed found absent while another process was at it, or a
\* command on the job was resent.  Seeds that follow one another, also after
\* a DELETE or a crash half way, skip nothing.
DueNotSkipped ==
  [][\A j \in Due(now) : Disturbed(j)' \/ zset'[j] \in {zset[j], NoTime}]_vars

\* What is due is run, unless somebody deletes the job, a process crashes, a
\* seed races, or the claim is lost because its ZREM was sent twice: a batch of
\* claimed jobs is run to its end, and what the limit left is taken by a
\* later poll.
EveryDueFires ==
  \A j \in Jobs, due \in 0..MaxTime :
    (zset[j] = due /\ due <= now)
      ~> (<<j, due>> \in fired \/ BeingDeleted(j) \/ Disturbed(j) \/ faults > 0)
=============================================================================

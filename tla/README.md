# A TLA+ model of ARDA

ARDA is a Python system of small processes that share one Redis: a FastAPI
service with a Claude orchestrator (Sauron) and its specialists, a shell worker,
a cron worker, a Discord bot and a Telegram bot. This directory holds TLA+
modules that model its core, configurations with which TLC checks them on small
instances, and theorems about them with proofs checked by TLAPS. All source
paths are relative to `src/`.

Contents: 1 the system and its parts; 2 the modules; 3 the runs; 4 disagreements
between code and documentation; 5 the theorems; 6 what is not modelled; 7 the
plan; 8 how to run everything.

## 1. The system

| component | code | state | operations | hard behaviour |
|---|---|---|---|---|
| Earendil task queue | `agents/earendil/agent.py`, `worker.py`, `core/redis_client.py`, `api/routes/tasks.py` | list `task_queue`, key `task:<id>` with a 300 s TTL | enqueue (SET then RPUSH), LPOP, process, poll | two keys per operation, Redis errors and resends, crashes between LPOP and the result, TTL against timeouts, the event loop held by a wait |
| Shell policy | `core/shell_policy.py` | the settings of each process | allowlist check when queued and when run | the two processes may disagree |
| Galadriel scheduler | `agents/galadriel/*`, `api/routes/cron.py` | blob per job, one sorted set of due times | POST and DELETE /cron, pop_due, run, reschedule | two keys per job, claims by several workers, deletes during a run, crashes, one-shot jobs |
| Cron seeding | `agents/tombombadil/sync_job.py`, `agents/rumil/cron.py`, `api/main.py` | jobs of Galadriel | read, then save if absent: at the start of the API and in every `/sync` of the bot | test and write are separate, and both processes do it |
| Watch parties | `agents/tombombadil/club.py` | `at` jobs of Galadriel | /club schedule | times in the past |
| Public demo | `api/demo.py` | limiter deques, budget counter, semaphore, checkpointer threads | POST /demo/ask | check, await, charge; failures while holding a place |
| Sauron graph | `agents/sauron/graph.py`, `agent.py` | messages, iteration count, last result | agent_step, tool_dispatch | bounded loop, tools that fail, what the final status means |
| Film notes | `agents/tombombadil/persistent_memory.py` | note hashes, three kinds of index, counters, weekly dedup keys | save_note, delete_note | dedup key and note are separate commands, and so is giving the key back; a transaction that raises may have run; the deletion cleans up outside its transaction |
| Drafts | `agents/tombombadil/draft_store.py`, `bot.py` | pending list per channel, draft per message | push, pop, bind, reaction | concurrent mentions share a list, reactions before the binding, a restart in between, a note saved whose draft could not be deleted |
| Chat turns | `agents/tombombadil/agent.py`, `memory.py`, `fact_extractor.py`, `identity.py`, `commands.py` | history, preferences, facts, roles | get_response, slash commands | state read before the model call and used after it, Redis calls that fail one by one |
| Guards | `agents/tombombadil/guards.py` | token bucket, ban set | check_and_consume | what a limit does when Redis cannot be read |
| Letterboxd sync, delivery | `agents/tombombadil/sync_job.py`, `letterboxd_rss.py`, `delivery.py` | watermark, announce list | run_sync, BLPOP, post | two syncs at once, a watermark that is a string, a popped announcement is the only copy |
| Gwaihir | `agents/gwaihir/bot.py` | offset in memory | getUpdates, /execute/wait, /audit, sendMessage | redelivery after a restart, an audit that outlives the bot's timeout |
| Finrod, Rumil | `agents/finrod/agent.py`, `store.py`, `agents/rumil/agent.py`, `github.py` | document index and its persisted copy | ingest, forget, query; the audit replaces a day's document | forget before ingest, a save that fails, overlapping audits |
| Judge | `core/judge.py` | `memory/lessons.md` | run, grade, retry | a bounded loop that no service calls yet |

Clients, Gwaihir among them, call the API over HTTP. The API's Sauron may call Earendil, which only
queues tasks; the worker process takes them from Redis and writes the results
back where the API polls them. The API, the Discord bot and the seeders write
cron jobs to Redis; Galadriel's worker takes them and calls the API or pushes an
announcement, which the Discord bot takes from Redis. Nothing but Redis keys
synchronises the processes: there is no lock and no WATCH, so every pair of
commands is an interleaving point, and that is what the models are about. Finrod's index
is an exception: it lives in the API process and on its disk. So do Gwaihir's offset and the
demo's limits, which are in memory only.

What makes each modelled component correct, and where it can go wrong, is listed
under "hazards" in `PROJECT.json`, each at its line.

## 2. The modules

| module | what it is |
|---|---|
| `TaskService` | what a client may rely on: an accepted command is started at most once, and possibly never; there is no redelivery |
| `TaskQueue` | the task queue as the code has it: handlers, Redis, workers, faults; implements `TaskService` |
| `MCTaskQueue` | its constants for TLC |
| `TaskQueueProofs` | theorems about `TaskQueue`: where an entry is, and that it implements `TaskService` |
| `TaskStatusProofs` | theorems about what callers of `TaskQueue` are told |
| `Galadriel` | the scheduler, everyone who writes its jobs, and its workers |
| `MCGaladriel` | its constants for TLC |
| `GaladrielProofs` | theorems about `Galadriel` |
| `SauronGraph` | the orchestrator's agent_step / tool_dispatch loop, and the threads its runs share |
| `SauronGraphProofs` | theorems about `SauronGraph` |
| `DemoAsk` | POST /demo/ask |
| `DemoAskProofs` | theorems about `DemoAsk` |
| `TomChat` | Tom Bombadil's turns: guards, memory, the model's attempts, drafts, slash commands |
| `MCTomChat` | its constants for TLC |
| `TomChatProofs` | theorems about `TomChat` |
| `FilmLog` | film notes in Redis, the Letterboxd syncs that write them, the announcements |
| `MCFilmLog` | its constants for TLC |
| `FilmLogProofs` | theorems about `FilmLog` |
| `AuditPath` | Gwaihir's polling, Rumil's audits and Finrod's index, composed |
| `MCAuditPath` | its constants for TLC |
| `AuditPathProofs` | theorems about `AuditPath` |

`map` in `PROJECT.json` names for every definition the lines it models. A
definition whose comment begins with "Variant" is not the system: it is what a
plausible bug would make of the definition below it, and each property is shown
to fail when it is put in its place.

### TaskQueue

An action is one Redis command, or the code between two of them. `queue` is the
Redis list, `key` and `ttl` the status keys. The workers and the API handlers are
pc-driven. The API has a single event loop and no handler awaits between its
Redis commands except in the sleep of `wait_for_tasks`, which holds the loop:
`loop` names the handler that has it. Where the code sleeps or a command runs,
`Tick` passes time; a worker's command runs for at most `CommandTimeout`.

* `Submit` is `/task`, `/execute` and `/execute/wait`. What `plan_task` makes of a
  text is an input: `Plans`, the task lists it may return.
* `Refuse`, `SetQueued`, `Push`, `AfterPush` are `enqueue_task` and the loop of
  `Earendil.run` around it. A refusal in the middle of a workflow ends the request
  and leaves what is already queued.
* `Poll` is one GET of `wait_for_tasks`; the last GET of a pass answers, or sleeps and
  starts the next pass. A key that is absent or not terminal makes the pass incomplete.
* `Pop`, `StoreRunning`, `Launch`, `SkipEmpty`, `Finish`, `Reject`, `StoreCompleted`,
  `StoreFailed` are the worker, with the exception handlers of `process_task` and
  `run_forever`. `allows` is the worker's own allowlist. An empty command is answered before
  that check, with a result that is an error (`SkipEmpty`); it is COMPLETED like any other
  result, a failed or timed out command's included, and only an exception is FAILED.
  The API queues an empty command only under `EARENDIL_ALLOW_ANY_COMMAND`.
* Faults: a Redis command that fails before (`RequestFault`, `StoreFault`,
  `CompletedFault`) or is applied and fails (`PopLost`), an RPUSH sent twice by
  the client library (`PushTwice`), a crash of the API or of a worker, which docker
  compose starts again. `MaxFaults` bounds how many happen.

`pushes`, `ran` and `settled` are bookkeeping: how often a task was pushed, which
copies were started, for which tasks a worker stored a terminal status. No guard reads
them. A queue entry carries the number of its push, so that two copies of one task
can be told apart.

`TaskService` accepts tickets, starts a ticket it owes, or drops one; a ticket that
was started or dropped is not owed any more. `ImplementsTaskService` maps each entry
ever pushed to a ticket, which is owed while it is queued, or in the hands of a worker
that has not started it.

### Galadriel

`blob` and `zset` are the jobs and the sorted set of due times. `save_job` and
`delete_job` are two Redis commands; `todo` holds the ones an actor still has to
send, and `Execute` sends the first. Clients create, delete, seed and schedule
parties; a worker scans (`Scan`), claims candidate after candidate (`Claim`, `Lose`) and
reads the blob of each one it got (`Read`), and then, job by job, runs it (`Run`) and
computes and saves its next occurrence (`Finish`, with `Reschedule`). What a job does, its payload
and its announcement, is one step: the scheduler's state does not depend on it.
`NextRun` is "`AtTime` if that is not past" for an `at` job and "the next multiple of
`Period`, strictly later" for a cron job; croniter's calendar is not modelled.

Faults: an actor stops between any two commands (`ClientAbort`, `WorkerAbort`; an
exception and a crash do the same here, since `todo` and the batch are in memory), or
the client library sends a command twice (`ExecuteRetried`, `ClaimRetried`).

`Seed` is the test of `ensure_letterboxd_sync_cron` and its kin: it answers "absent", and the two commands that write the
job come later. It is called at the start of the API and in `/sync`, which is the bot, so there are several
seeders and they overlap. A seed is harmless when the job it found absent was nobody's
concern; `NoteRace` records in `raced` the jobs that were in use (`InUse`) while their blob
was missing: another seed had them in hand, or a delete had not yet finished. `resent`
records the jobs on which a command was sent twice.

`created`, `cancelled`, `fired`, `raced` and `resent` are bookkeeping; of these only `created` is in a guard, because POST and `/club` make a
new id each time.

### SauronGraph

`state[r]` is the `ArdaState` of a run and `saved[t]` the latest checkpoint of a thread.
langgraph saves the state at the end of each node, so a node is one action: `Start` (the
input is merged with the checkpoint: messages are appended, every other field is
replaced), `ModelFails` and `ModelAnswers` (agent_step and the edge after it),
`Dispatch` (tool_dispatch: every pending tool ends with a result or raises; an exception
whose text is empty, such as a timeout of the HTTP client, stores an error that the edge
and `run` take for none, so it is an outcome of its own, "mute"). A message is
who wrote it and the tool_use ids it asks for or answers. `WellFormed` is what the
Messages API demands of a conversation, and what the code's `tool_result` blocks are for;
on a conversation that is not, only `ModelFails` is possible. Faults: the checkpointer
raises (`GraphFails`) or the API restarts (`Crash`); the checkpoints are on disk, as in the
deployment, and survive. Nothing serialises two runs of a thread, and the last to
write a checkpoint is the one later runs continue; the properties about threads are
stated for threads whose runs do not overlap and are not lost (`tainted`).

### DemoAsk

The handler runs on one asyncio loop, so all that happens between two awaits is one
step: the limiter, the budget check and the wait for the semaphore (`Limited`,
`Broke`, `Admit`), entering it (`Enter`), and the end of `sauron.run`, with an answer or
an exception (`Reply`, `Fail`). `places` and `waiters` are the semaphore. What Sauron
does in between is not visible to this module. The client's address is the one the
handler derived; how it reads the headers is not modelled.

### TomChat

The bot's handlers share one asyncio loop and a synchronous Redis client, so a turn is cut
only where it waits: for Finrod, for the model, for Discord. `Admit` is what `on_message`
does before the first wait (identity, bans, length, bucket, preferences); `Refuse`,
`BeginFails`, `Begin` and `Onboard` are its outcomes. `Recalled` is the end of `recall_facts`;
`LlmReplies` writes history, preferences, drafts and facts in the order of the code;
`LlmFails` is one failed or empty attempt. `Replied`, `Prompted`, `Bind` are the reply and the
offer of the oldest pending draft. `React` is the reaction that settles it: the note is saved (or refused, or not asked for), and then
the draft is deleted, with no await in between; `ReactCutShort` is the reaction of which only the first half happened,
because the deletion raised or the container restarted there, and which leaves the draft bound to its prompt. `turn[t]` is what the
turn read at its beginning and uses to the end, `Found` what the extractor's rules find in its text.
Sauron's dispatch is a turn of the fixed viewer and scope of `TomBombadil.run`, without guards and
without an offer. Slash commands are one step each. `bad` names the Redis or Finrod call of a
step that raises, where the code goes on differently; so the exception handlers are modelled one by
one: a bucket that cannot be read admits, a preference that cannot be read ends the turn.
Faults also include failures of Discord, restarts of the bot and Redis commands that the client library sends twice, because it
lost a reply: a push of a draft or of an entry of the history, a pop of a draft. Any write of a turn may be the last
that happens, as the call that fails; a restart inside a step leaves the same prefix of its writes.
`saved`, `outlived` and `doubled` are bookkeeping: the notes written for drafts, the drafts left bound after
their note, the turns of which a draft was pushed twice.

### FilmLog

An action is one Redis command; a MULTI is one command. `Claim` is the SET NX of the weekly key,
`Store` the transaction and `StoreFails` its exception handler, which gives the key back; `Unrate`, `Erase`, `Tidy`, `FreeKey` are `delete_note`,
whose cleaning after its transaction is four commands for each of two indexes, and `DeleteStops` the exception that ends it anywhere. A saver is the bot's loop
(`/rate` and confirmed drafts), the thread of `/sync` or the daily job in Galadriel's worker;
the last two run `Fetch`, `Compare`, `SaveEntry`, `Publish`, `Advance`; `todo` holds the
entries a sync has left, which it takes in the order of their keys. Dates are strings that the code compares
as strings; here they are the ranks of those strings, and `Key` is what the parser makes of an item:
its watched date, or else the words of its publication date. `Take` and `Post` are the
subscriber of the bot. Every command may fail, before or after Redis ran it, and a write may be sent twice because its reply was lost. So a claim may fail with
its key set; a transaction that raised may have run not at all, once or twice, and the DEL of its key may raise
in turn; an announcement may be pushed twice, or not, or be lost with the reply of BLPOP; the watermark may not be read or written
(`SyncFails`); a post may fail after it went out. Either process may crash.
Four pieces of bookkeeping say what such an event did: `loose`, the keys that it left without their note or whose
note it left without the key; `skewed`, the films and watchers that a repeated MULTI counted twice; `overlap`, that a save ran beside a
deletion; the `copy` of an announcement, 2 for the one that Redis was sent again.

### AuditPath

`Send` and `Poll` are Telegram: a poll forgets what is below the offset and returns
the rest. `Drop`, `Execute`, `Audit`, `GiveUp` and `Reply` are `_handle_update` of the update with the lowest
id; each path ends in `Handled`, which moves the offset. `run` holds the audits under way:
`Fetched`, `Narrated` and `Remember` are the awaits of `Rumil.run`; a run whose caller gave up goes on.
`Remember` forgets the day's document and ingests the new one without waiting in between, so it is one
step, but each of the two saves may raise. `mem` and `disk` are Finrod's index and its
directory, and every ingested document has a version of its own, so that an old and a new
snapshot of a day differ. The daily job of Galadriel starts audits too (`Daily`), `IngestFact` is
the memory route that others use.
Faults: lost answers, failed saves, restarts of the bot (`RestartBot`) and of the API (`RestartApi`).

## 3. The runs

| run | question | bounds | distinct states |
|---|---|---|---|
| `queue_faults` | Is the queue safe, and does it implement `TaskService`? | 2 requests of one task each, of a shell command, an empty one or another type, 2 workers, TTL 2, one fault of any kind | 2 307 244 |
| `queue_live` | In what order are the tasks of a workflow taken, may a wait over several keys say "completed", is everybody answered? | 1 request of up to 2 tasks, or of an empty command, 2 workers, one fault | 238 527 |
| `cron_one` | Are jobs run once per occurrence and not forgotten, by one worker? | 3 jobs (seeded cron, POSTed cron, `at`), the API and the bot both seeding, the API creating and deleting, batches of 2, time 0..2, period 2, one crash, one resent command | 3 255 304 |
| `cron_two` | Do two workers share jobs safely, and is what is due run? | 2 jobs (seeded cron, watch party), 2 workers, 2 seeders, time 0..2, one crash | 135 707 |
| `demo_one` | Are the limits kept and everybody answered? | 3 requests, 2 addresses, 2 hits per window of 2, 2 places, day of 2, time 0..3 | 126 676 |
| `sauron_threads` | What stays in a thread, whose result is reported, does every run end? | 2 runs on 1 thread, in sequence or overlapping, 2 iterations, up to 2 tools per answer, one crash | 480 720 |
| `chat` | What becomes of drafts, history and an opt-out, and does every turn end? | 2 turns of an owner, a stranger (who may be given a name) or Sauron, 2 attempts, history of 1 exchange, bucket of 1, one failed or resent call or restart, one slash command | 292 378 |
| `films` | Do notes, indexes, counts and keys agree, and are entries filed and announced? | 2 syncs and the bot on one film and watcher, a rated and an unrated entry, 2 commands of users, 2 weeks, one fault of any kind | 4 729 465 |
| `audit` | What does Telegram forget, what does the index keep? | 3 updates (of each kind), 2 audits at once, 2 days, one ingested fact, one daily job, two faults | 1 309 675 |
| `cron_workers`, `sauron_errors`, `films_lists` | see section 4 | | |

### What they show

Task queue:

* `EntryInOnePlace`, `NeverRunTwice`: an entry is in the queue once or in one
  worker's hands, and no push leads to two starts of a command, with crashes and
  failed commands anywhere. A resent RPUSH is two pushes, and may run a command
  twice; that is why the property counts pushes.
* `StatusForward`: a status key goes from queued to running to completed or failed and
  never back. The SET before the RPUSH is what makes this true.
* `StatusTruthful`: what a poller reads is true. A running command is never "not_found", and
  "completed" stands for a command that was started, or for an empty one, of which there is nothing to start; never for one that was
  refused, or that was lost with its worker.
* `ImplementsTaskService`: every step of the queue is an acceptance, a start or a loss of a ticket,
  or invisible to the client.
* `WorkflowOrder`: tasks of one workflow leave the queue in order (with two workers they
  may overlap; the code promises nothing more).
* `CompletedAnswerSound`: an answer "completed" to `/execute/wait` is only given when a
  worker has stored a terminal status for each task, although keys may expire between two
  GETs.
* `EveryRequestAnswered`, `EveryTaskSettles`: every request is answered whether or not a
  worker runs, and without faults every pushed task settles.

The bounds are small because the hazards are: one fault can hit any command of any
process, two workers are enough for every race on an entry, and two requests (or two
tasks) for every race on the queue. A TTL of 2 with a command timeout and a wait
timeout of 1 keeps the order of the three times that the code has (300 s against
30 s and 15 s).

Galadriel:

* `OneHolder`: a job is in one worker's hands, or waits to be queued by one actor, and
  is not in the queue meanwhile.
* `OneShotOnce`: an `at` job is started at most once, by two workers and whatever crashes, unless
  a command on that job is resent (then a second worker can start it while the first one's
  removal is sent again).
* `NoDoubleFire`: with one worker, no occurrence of a job is started twice.
* `DueNotSkipped`: a due occurrence leaves the queue by being claimed or deleted, and nothing, a seed in particular, overwrites
  it with a later one.
* `NeverStranded`: without crashes, an enabled job with a time to run is in
  the queue, in some actor's hands, or being deleted, also when seeds race for it.
* `EveryDueFires`: what is due is run or deleted, though a batch is limited, unless a worker crashed
  with the batch in its hands.

All but `NeverStranded` and `OneShotOnce` except a job that is `Disturbed`: a seed found it absent while it was in use, or a command
on it was resent. The exception is per job and begins with that event, so each run holds the races and the
resent commands, and shows that the other jobs are not affected by them. What the race does to its own job is in section 4.

One job of each kind, a batch that is smaller than the number of jobs, and time for an occurrence to be due, run and rescheduled
at that very time are enough for a job to be claimed, overtaken, requeued and seeded twice.

Sauron: `CompletedIsOwn` (a run's "completed" comes from a specialist it called itself, or
from its own text), `ThreadUsable` (between two runs every tool_use of a thread is answered,
unless a run was cut off by the bound or after a tool that raised), `TurnsKept` (later
runs keep all an earlier one said), `EveryRunEnds` (also on a thread the model refuses).
Two iterations are enough for a tool to fail, the model to go on and the bound to
be reached; two runs for one to inherit from the other.

Public demo: `WindowRespected` (no address passes more than the limit within any window,
whatever is purged), `NothingRetained` (a request that ended has no thread in the checkpointer), and
`EveryAskAnswered`.

Tom Bombadil's conversation:

* `DraftsSettleOnce`: a rating found in a message is queued, offered, bound or saved, never two of
  these, and whoever's reply offered it, it carries its author and only the author's reaction saves it. There are two exceptions, and the
  property says how far they go. A draft whose note was saved and whose deletion failed stays with its one prompt and is offered to nobody
  again; what its author may then save a second time is left to the dedup key of the note. A draft of which Redis was sent the push twice is offered twice.
* `HistoryPaired`: an assistant's entry follows the message it answers, although turns overlap, /forget
  comes in between, and a write fails; only the trim separates them, or a copy of the answer whose push was resent.
* `ConsentKept`: of a turn that began after its author was told that `do_not_log` is on there is no
  fact and no draft anywhere.
* `EveryTurnEnds`: attempts run out, and no failure leaves a turn hanging.

Two turns are enough for one to offer the other's draft and for each to write between the
other's reads and writes; a history of one exchange makes the trim happen at once, and a bucket of one
token makes the second turn of a user wait for the refill.

Film notes:

* `NotesAgree`: notes, the two kinds of index, counts and weekly keys agree, through failed calls, lost replies and crashes. Such an event
  may split the one key it concerns from its note, or count one MULTI twice; the property excepts that key, or those counts, and
  nothing else. It is claimed only while no save overlapped an `/unrate`, beside which the code loses counts (see hazards).
* `NewEntriesFiled`: an entry that was logged in order of date has been filed once the watermark has passed
  its date, with `/sync`, the daily job and `/rate` at once. It is claimed for runs without failures: an entry
  whose save failed is passed over for good.
* `AnnouncedOnce`: nothing that was pushed once is posted twice, and nothing whose note was not saved, through crashes, lost replies and failed posts.
  An announcement is posted twice only if Redis ran its RPUSH twice.

Gwaihir, Rumil, Finrod:

* `ConfirmedHandled`: Telegram forgets only what was handled to its end, and an update is handled again only
  after a restart of the bot.
* `StoredSurvives`: what was reported stored, and not forgotten since, is in the index and on the disk.
* `OneSnapshotPerDay`: although audits overlap, outlive their callers and fail between the two saves.
* `EveryUpdateHandled`: again and again, everything sent has been handled.

Two audits, one of them across midnight, two faults and a message of each kind let a forget fail, an audit be
abandoned and the bot restart in the same behaviour.

### Fairness

Handlers and workers take the steps they can take, because nothing but a sleep or a
Redis command suspends them; docker compose restarts a worker that died
(`restart: unless-stopped` in `docker-compose.yml`). Time passes in `TaskQueue`, whose
waits need it; `Galadriel` needs it only to make jobs due, and assumes nothing of it.
Faults, and requests of users, get no fairness. In `SauronGraph` the model's client and the
specialists answer or time out; `DemoAsk` assumes that `sauron.run` ends, which `EveryRunEnds`
supports. In `TomChat` each wait of a turn ends, with a result or an exception: the clients have timeouts and
the model's call has an attempt limit. In `AuditPath` the bot's loop goes on, of which only a
poll that is answered is needed, and the API's loop serves the audits it has, whose calls have timeouts.
Weak fairness is enough everywhere: no step of these loops is disabled by others for ever.

`CHECK_DEADLOCK FALSE` is used for `DemoAsk`, `SauronGraph`, `TomChat`, `FilmLog` and `AuditPath`: their requests,
turns, entries and updates are finitely many and each happens once, so that the instance ends
when they are done.

## 4. Disagreements between code and documentation

Three of them are runs whose property is what the document says, and which TLC refutes:

| run | what it shows |
|---|---|
| `cron_workers` | `docs/galadriel.md` says that two workers cannot double-fire. The ZREM of `pop_due` does not look at the score: a worker that listed a job, and was overtaken by one that claimed, ran and requeued it, removes the new entry, starts the next occurrence early, and requeues that same occurrence. |
| `sauron_errors` | `graph.py` says that the loop goes on until Claude stops asking for tools or the bound is hit. The error of a tool that raised is still set after the model has answered, so the graph ends although it asks for another tool; that tool_use stays unanswered in the thread. |
| `films_lists` | `run_sync` says that it saves any entries newer than the watermark. An item of the feed without a watched date, such as a list, takes the words of its publication date as its key; they are greater than every date, become the watermark, and no later diary entry is saved. |

Others were met while the models were written. The models do what the code does:

* `ensure_letterboxd_sync_cron` calls itself "genuinely idempotent" (`agents/tombombadil/sync_job.py:199`). Its test (`:206`) and its write (`:234`)
  are apart, and it runs in the API and in the bot. If both find the job absent, which takes a first start or a deleted job, the slower overwrites what the
  faster queued: an occurrence that has become due between the two is pushed to the next day, or, if a worker has
  claimed it already, the job is in the queue and in a worker's hands together. `DueNotSkipped` and `OneHolder` except such a job
  (`raced`); without that exception TLC refutes them.
* The handler of a failed transaction gives the weekly key back (`agents/tombombadil/persistent_memory.py:99`) whether Redis ran it or not, so that
  a note may be stored without its key and saved again in the same week.
* A note is saved before its draft is deleted (`agents/tombombadil/bot.py:214`, `:222`). If the deletion fails, the prompt stays live.
* `reschedule` (`agents/galadriel/worker.py:148`) writes a job back that was deleted while it ran, although
  `delete_job` was confirmed.
* `/club schedule` (`agents/tombombadil/club.py:128`) accepts a time that has passed: the job is saved as
  enabled and confirmed, but never queued.
* `api/demo.py:42` calls the worst case "reserved before a request runs". Nothing is reserved: every request
  that waits for the semaphore has passed the check (`:389`), and the overshoot grows with that queue.
* `get_response` says that the fact extractor runs after the reply is sent. It runs before the function returns,
  and not at all when the model failed, so that an opt-out in such a message is dropped.
* `docs/superpowers/specs/2026-05-10-tom-bombadil-behavior-spec.md:318` lets a failed read of the preferences
  fail open. Nothing catches it, and the turn ends without a reply.
* `docs/tombombadil-memory.md:100` says that a restart of the container wipes the long-term facts. They are in
  Finrod's directory, which a restart loads.

## 5. The theorems

Checked by TLAPS, for any number of requests, tasks, workers, clients, jobs, turns, users, films, syncs, updates,
audits and faults, with no bound on time other than the (arbitrary) constants. Every safety property of section 3
is a theorem; the ones with a hypothesis say so.

| module | theorem | says |
|---|---|---|
| `TaskQueueProofs` | `TypeCorrect` | `Spec => []TypeOK` |
| | `OnePlace` | `Spec => []EntryInOnePlace` |
| | `AtMostOncePerPush` | `Spec => NeverRunTwice` |
| | `QueueImplementsTaskService` | `Spec => ImplementsTaskService`: the queue implements `TaskService` |
| `TaskStatusProofs` | `StatusesAreTrue` | `Spec => []StatusTruthful` |
| | `CompletedMeansSettled` | `Spec => []CompletedAnswerSound` |
| | `TasksTakenInOrder` | `Spec => []WorkflowOrder` |
| | `StatusesMoveForward` | `Spec => StatusForward` |
| `GaladrielProofs` | `TypeCorrect` | `Spec => []TypeOK` |
| | `ClaimIsExclusive` | `Spec => []OneHolder` |
| | `OneShotStartsOnce` | `Spec => OneShotOnce` |
| | `DueIsNotSkipped` | `Spec => DueNotSkipped` |
| | `NoJobIsStranded` | `Spec => []NeverStranded`, in the executions whose steps are all `PartiesAhead` |
| | `OneWorkerFiresOnce` | `Spec => NoDoubleFire`, if `SoleWorker` |
| `SauronGraphProofs` | `TypeCorrect` | `Spec => []TypeOK`, for any bound on the iterations |
| | `CompletedOnItsOwn` | `Spec => []CompletedIsOwn`, overlapping runs included |
| | `TurnsAreKept` | `Spec => []TurnsKept` |
| | `ThreadsStayUsable` | `Spec => []ThreadUsable` |
| `DemoAskProofs` | `TypeCorrect` | `Spec => []TypeOK` |
| | `PlacesAreConserved` | free places and running requests always add up to `MaxConcurrent`: no place is lost or handed out twice |
| | `ThreadsAreDeleted` | `Spec => []NothingRetained` |
| | `LimiterRespectsWindow` | `Spec => []WindowRespected`, for any limit and window |
| `TomChatProofs` | `TypeCorrect` | `Spec => []TypeOK` |
| | `HistoryStaysPaired` | `Spec => []HistoryPaired` |
| | `ConsentIsKept` | `Spec => []ConsentKept` |
| | `DraftsAreSettledOnce` | `Spec => []DraftsSettleOnce` |
| `FilmLogProofs` | `TypeCorrect` | `Spec => []TypeOK` |
| | `NotesStayInStep` | `Spec => []NotesAgree` |
| | `DiaryIsFiled` | `NewEntriesFiled`, if the feed has `Viewings` only |
| | `AnnouncementsAreSingle` | `Spec => []AnnouncedOnce` |
| `AuditPathProofs` | `TypeCorrect` | `Spec => []TypeOK`, for any number of updates, audits, days and failures |
| | `ForgottenWasHandled` | `Spec => []ConfirmedHandled` |
| | `ReportedIsStored` | `Spec => []StoredSurvives` |
| | `OneADay` | `Spec => []OneSnapshotPerDay` |

The argument for the queue. `EntryInOnePlace` is not inductive alone: `Push` must add
an entry that differs from every entry there is or that was ever started. The invariant
`Custody` adds `CopiesNumbered` (no entry queued, in hand or started has a number
beyond `pushes` of its task) and `HandsOK` (a worker holds exactly one entry unless it is
down or idle). Under `Custody`, `Launch` finds its entry not yet started, which is
`NeverRunTwice`.

The argument for the refinement. A ticket is owed while its entry is queued or with a worker that has not
started it (`Waiting`); `EntryInOnePlace` is why this is one place. The initial states map to initial states
(`InitRefines`). A push accepts its entry's ticket, and a resent one accepts two at once, which `Accept` allows
(`PushRefines`); `Launch` starts the ticket it owes; a lost
LPOP, a refusal, a failed command or a crash before the start drops it (`LetGoRefines`); every other step leaves
`Waiting` as it is and is a stutter.

The argument for the statuses. `StatusTruthful` needs a fact about time: the key of a command that a worker is
about to start, or runs, exists and outlives it, because its TTL and the time the command has run sum to at least
`ResultTTL` (`RunningKept`); the assumption on the constants is that `CommandTimeout` is the shorter. That "completed" stands for a
start rests on `ReportedRan`: what a worker runs or reports was started, or is an empty command (`Attended`). `CompletedAnswerSound` follows from
`PassSound`: a pass that has found every task terminal so far has only settled tasks behind it, and `settled`
does not shrink when keys expire. `WorkflowOrder` follows from `InTurn`: a handler has pushed nothing at or
after its cursor (`PushedInTurn`), and the entries of a request stand in the queue in the order of its tasks
(`QueueInOrder`). `StatusForward` needs `StatusYoung`: while a task is `Untouched` (not pushed, or pushed once and
its one entry still waits), no worker has stored a status for it; so the SET of "queued" meets none.

The argument for the scheduler. The right to run a job is a token that is in the
queue, with one worker, or in the last command of one save. `OneHolder` says this of the
shared state; to be inductive it needs that a worker has a job in one place
(`HoldsOnce`), that a job nobody created has no token (`Fresh`) and what unsent commands look
like (`TodoOK`). All of it is said job by job, of jobs that are not `Disturbed`: a seed makes a token out of nothing, and unless it is
noted in `raced` there was none (`InUse`); a resent ZADD may queue a job that has been claimed in between, and is noted in `resent`.
Since both only grow (`GhostsGrow`), a job that is not disturbed by now never was. `OneShotStartsOnce` adds `Spent`: a started `at` job has
no token left but its holder's; no seed is about such a job.

For `NeverStranded`, `ScriptsOK` says what each command
still to be sent may take away: a ZREM or DEL is about a job that is cancelled or that has no token and cannot get one from a seed (`Gone`); then every step
keeps `Awaited`: an enabled job that nobody deletes is queued, or in the hands of an actor that will queue it. A race of
seeds does not break this: both queue the job. Whoever
schedules a party must choose a time that has not passed (`PartiesAhead`, a condition on the steps): a
party in the past is saved and never queued, which section 4 lists. For `NoDoubleFire`, `InTime` says
that the occurrence an undisturbed cron job waits for, in the queue (`ScoresLater`), in a command to be sent (`QueuedLater`) or with the
worker (`CandidatesDue`, `BatchDue`, `ReadDue`), is later than every one that was started, and is the one its blob
names. It is inductive for one worker only (`SoleWorker`): with two it is false, as the run `cron_workers` shows.

The argument for the orchestrator. That `iterations` stays within its bound, which the type
says, needs that a run whose next node is agent_step or tool_dispatch has an iteration
left (`IterationsOK`; with `TypeOK`, `Typed`). `CompletedIsOwn` follows from `Own`: the
state of a run has a result exactly when a specialist answered this run, and then it is
an answer of that run; for `Start` this is the reset of `initial_state`. `TurnsKept` follows
from `Kept`: on a thread that is not tainted there is at most one active run, the
checkpoint is that run's state, and what the ended runs said is a prefix of the checkpoint's
conversation. `Extends` shows that every node only appends to it. `ThreadUsable` follows from `Usable`: in a
thread without a run that was cut off, what a run has before agent_step is well formed, and before tool_dispatch it lacks
exactly the answers to the tools its last message asks for (`WaitsForTools`), which `Dispatch` adds together.

The argument for the demo. The places are inductive with the threads (`SemaphoreOK`): free places and running requests sum to
`MaxConcurrent`, the checkpointer has the threads of the running requests and no others, and nobody waits twice. `PlacesAreConserved` and `ThreadsAreDeleted` read
off it. For
the window, `WindowOK` says of each deque that it is no longer than the limit, ends with its newest hit, and has a
place of its own for every hit that was let pass and is still young (an injection). The purge forgets a deque whose newest
hit is old, and the limiter drops hits from the front up to the first young one; both keep the young ones, and at
most `Limit` fit into a deque of that length.

The argument for the chat. `Sound` is `TypeOK` with what a turn may still do at each place (`TurnsOK`) and, for each
history, that an answer stands behind its question (`Paired`). It is inductive because a turn writes an answer only in the step
that has written its question, right behind it, and the trim and /forget remove entries from the front. For drafts and consent, `Moves` abstracts every action: a step queues a turn's own drafts,
pops, binds, drops or settles one, saves one and leaves it bound, or lets a list expire (`DraftsMove`); facts come only from a turn that had not opted out
(`FactsMove`); what a turn has read it keeps (`TurnGoes`). Under `Moves`, `Provenance` (whose turn a
draft or a fact is of, that this author had not opted out, and that who was told so had) and `Apart` (no draft in two
places, unless it was pushed twice, and bound beside its note only if it is in `outlived`) are inductive. `ConsentKept` follows from the first and `DraftsSettleOnce` from both. Of the constants
the proofs assume that a message is one of `Messages` and that `None` is neither a draft nor a turn's record.

The argument for the film notes. `Sound` adds to the types that ids are new (`IdsOK`) and that the entries of any sync, of which there may be
infinitely many, have a newest one (`NewestThere`). The rest is three invariants. `Delivered`: posted, queued
and taken announcements are apart, copies of a repeated push among them, the notes in the savers' hands have other ids, and what was sent was
saved. `Filing`, until the first failure: a weekly key is only taken for a film that is noted or about to be
(`KeysCovered`), what the watermark has passed is covered (`PastCovered`), what was logged after a fetch is newer than what was
fetched (`FetchedFirst`), and what a sync will pass is covered or left to it (`LeftCovered`). `DiaryIsFiled` assumes
that every item of the feed is a viewing with its date (`Viewings`): without it the property is false, which is the run
`films_lists`. `Agree`, while no save overlapped a deletion: the
indexes are exact and so are the counts that no MULTI has skewed, each key of this week that no failure has
left loose stands for one note or claim of its pair, unless a
deletion has erased the note and has still to free the key (`KeysTrue`), and what a deletion has read still
holds (`DeletionTrue`). It needs `InOrder`: notes with later ids are of later weeks, so that the newest note of
a pair, which a deletion takes, is the one of this week if there is one.

The argument for the offset. `ConfirmedHandled` is about what Telegram has forgotten, and what it will forget at the
next poll is what lies below the offset; `Confirmed` therefore says of both that they were handled
(`Forgotten`). The offset moves past one update at a time, which is safe because the updates in hand are
the first ones not handled, without a gap (`InOrder`). That an update is handled once per start of the bot needs
that what the offset has passed counts one more than what it has not (`Rarely`), and that an update not sent
yet was never handled (`Unsent`).

The argument for the index. `Stored` adds to `StoredSurvives` and `OneSnapshotPerDay` that the disk, too, has at most one
snapshot a day (`OneOnDisk`), since a restart makes the disk the index. That the disk may lag behind the index is the
interesting case: a save that failed leaves on the disk a document that was forgotten in memory. It is
harmless because the next save writes the whole index.

Only model-checked: the liveness properties (`EveryRequestAnswered`, `EveryTaskSettles`, `EveryDueFires`,
`EveryRunEnds`, `EveryAskAnswered`, `EveryTurnEnds`, `EveryUpdateHandled`), because fairness and the ENABLED in it
are out of the provers' reach; and the three runs of section 4, which refute.

## 6. Not modelled

* Redis that restarts from an old snapshot or empty: what survives depends on
  configuration outside the repository.
* In `TaskQueue`, demo mode: every route that enqueues is refused before it gets there.
* `/execute` when Sauron answers, `/result` and `/execute/result`, which only read.
* `ensure_weekly_club_night` and `judge.run_with_judge`, which nothing calls.
* In `FilmLog`, ratings and their sums: no step depends on them once the range check is passed; and the
  one-time import of the Letterboxd export (`letterboxd_loader.py`), which merges files into a static
  database.
* In `AuditPath`, Finrod's `query` and `stats`, which only read; the sealed index of the demo; a crash in
  the middle of the several files of one persist; a second process that persists into the same directory.
* Static data, ranking, prompts, formatting, Sauron's planner (regular expressions that classify a text, an input here), the
  MCP server (a stateless client), configuration, logging, tracing, metrics and the evaluation scripts: no
  state that the properties could be about.
* The factory's `claim.sh`, a developer's tool outside the running system.

## 7. The plan

Done: task queue, scheduler, Sauron's graph, public demo, Tom Bombadil's turns, film notes with their
sync, the path from Telegram to the index, and the theorems about all safety properties of the runs (sections 2 to
5). What is left:

1. A specification of what Galadriel promises, like `TaskService`: an occurrence is owed from its save to its start or loss;
   `OneHolder` is the invariant its refinement would rest on.
2. The same for announcements: at most one delivery, on the invariant `Delivered`.
3. What still holds of a job for which seeds raced, beyond `NeverStranded`: how often an occurrence can then be started.
4. `NotesAgree` beside an `/unrate`: which of the counts the deletion loses.

## 8. Running

    tlc -workers 2 -config TaskQueue_faults.cfg MCTaskQueue
    tlc -workers 2 -config Galadriel_one.cfg MCGaladriel
    tlc -workers 2 -config SauronGraph_threads.cfg SauronGraph
    tlc -workers 2 -config DemoAsk_one.cfg DemoAsk
    tlc -workers 2 -config TomChat_bot.cfg MCTomChat
    tlc -workers 2 -config FilmLog_diary.cfg MCFilmLog
    tlc -workers 2 -config AuditPath_bot.cfg MCAuditPath
    tlapm TaskQueueProofs.tla
    tlapm TaskStatusProofs.tla
    tlapm GaladrielProofs.tla
    tlapm SauronGraphProofs.tla
    tlapm DemoAskProofs.tla
    tlapm TomChatProofs.tla
    tlapm FilmLogProofs.tla
    tlapm AuditPathProofs.tla

`PROJECT.json` lists for every run its module, configuration and properties.

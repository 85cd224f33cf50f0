------------------------------ MODULE AuditPath ------------------------------
(***************************************************************************)
(* From a Telegram message to the index: Gwaihir's long-poll loop, Rumil's *)
(* GitHub audit, and Finrod's index that keeps one snapshot a day.         *)
(*                                                                         *)
(* Gwaihir is one thread.  Rumil and Finrod live in the API's event loop:  *)
(* a run of Rumil waits for GitHub and for the model; forgetting the old   *)
(* snapshot and ingesting the new one do not wait and are one step.        *)
(***************************************************************************)
EXTENDS Integers, FiniteSets

CONSTANTS
  LastUpdate,  \* updates are 1..LastUpdate, in the order they are sent
  Kind,        \* update -> "audit", "text", or "dropped": a chat that is not
               \* allowed, or no text
  Slots,       \* runs of Rumil the model can hold at once
  None,
  MaxDay,      \* bound: days
  MaxIngests,  \* bound: POST /memory/ingest
  MaxDaily,    \* bound: runs of the daily job
  MaxFaults    \* bound: failed saves, lost answers, restarts

Updates == 1..LastUpdate

\* A run of Rumil, and the day whose snapshot it makes.
Run == [at : {"fetch", "narrate", "remember"}, day : 0..MaxDay]

ASSUME AuditAssumption ==
  /\ LastUpdate \in Nat /\ Kind \in [Updates -> {"audit", "text", "dropped"}]
  /\ None \notin Slots \cup Run /\ Slots # {}
  /\ MaxDay \in Nat /\ MaxIngests \in Nat /\ MaxDaily \in Nat /\ MaxFaults \in Nat

VARIABLES
  arrived,     \* how many updates users have sent
  held,        \* updates Telegram still keeps for the bot
  offset,      \* last_update_id; 0 is None
  batch,       \* updates of the last answer not yet handled
  bot, waits,  \* the bot's step, and the run whose answer it waits for
  times,       \* bookkeeping: how often an update was handled to its end
  run,         \* slot -> a run of Rumil, or None
  mem, disk,   \* Finrod's index in memory and in persist_dir: [doc, version]
  acked,       \* bookkeeping: what was reported stored, and not forgotten since
  version, day, ingests, daily, faults, restarts

telegram == <<arrived, held, offset, batch, times>>
finrod == <<mem, disk, acked, version>>
bounds == <<day, ingests, daily>>
vars == <<telegram, bot, waits, run, finrod, bounds, faults, restarts>>

\* A document of Rumil is named by its day; Fact is one of /memory/ingest.
Fact == MaxDay + 1
Node == [doc : 0..Fact, version : Nat]

TypeOK ==
  /\ arrived \in 0..LastUpdate /\ held \subseteq 1..arrived
  /\ offset \in 0..(arrived + 1) /\ batch \subseteq 1..arrived
  /\ bot \in {"poll", "wait", "send"} /\ (bot # "poll" => batch # {})
  /\ waits \in Slots \cup {None} /\ (bot = "wait" <=> waits # None)
  /\ times \in [Updates -> Nat]
  /\ run \in [Slots -> {None} \cup Run]
  /\ (waits # None => run[waits] # None)
  /\ mem \subseteq Node /\ disk \subseteq Node /\ acked \subseteq Node
  /\ version \in Nat /\ day \in 0..MaxDay
  /\ ingests \in 0..MaxIngests /\ daily \in 0..MaxDaily
  /\ faults \in 0..MaxFaults /\ restarts \in 0..faults

Init ==
  /\ arrived = 0 /\ held = {} /\ offset = 0 /\ batch = {}
  /\ bot = "poll" /\ waits = None /\ times = [u \in Updates |-> 0]
  /\ run = [r \in Slots |-> None]
  /\ mem = {} /\ disk = {} /\ acked = {} /\ version = 0
  /\ day = 0 /\ ingests = 0 /\ daily = 0 /\ faults = 0 /\ restarts = 0

Fault(happens) == /\ happens => faults < MaxFaults
                  /\ faults' = IF happens THEN faults + 1 ELSE faults

-----------------------------------------------------------------------------
(* Gwaihir                                                                 *)

Send ==
  /\ arrived < LastUpdate
  /\ arrived' = arrived + 1 /\ held' = held \cup {arrived + 1}
  /\ UNCHANGED <<offset, batch, times, bot, waits, run, finrod, bounds, faults,
                 restarts>>

\* getUpdates: Telegram forgets what lies below the offset and answers with
\* the rest; an answer that is lost makes the loop sleep and ask again.
Poll(lost) ==
  /\ bot = "poll" /\ batch = {} /\ Fault(lost)
  /\ held' = {u \in held : u >= offset}
  /\ batch' = IF lost THEN {} ELSE held'
  /\ UNCHANGED <<arrived, offset, times, bot, waits, run, finrod, bounds,
                 restarts>>

\* Variant: the offset skips what the answer contained.
NextOffsetAll(u) == arrived + 1

\* Variant: the offset is the update's own id.
NextOffsetSame(u) == IF u > offset THEN u ELSE offset

NextOffset(u) == IF u + 1 > offset THEN u + 1 ELSE offset

\* The loop takes the updates of an answer in the order of their ids.
At(u, kind) ==
  /\ u \in batch /\ \A v \in batch : u <= v
  /\ Kind[u] \in kind

\* _handle_update returned.
Handled(u) ==
  /\ offset' = NextOffset(u)
  /\ batch' = batch \ {u}
  /\ times' = [times EXCEPT ![u] = @ + 1]
  /\ bot' = "poll" /\ waits' = None
  /\ UNCHANGED <<arrived, held>>

Drop(u) ==
  /\ bot = "poll" /\ At(u, {"dropped"})
  /\ Handled(u)
  /\ UNCHANGED <<run, finrod, bounds, faults, restarts>>

\* POST /execute/wait: an answer, an error or the timeout, all of it text.
Execute(u) ==
  /\ bot = "poll" /\ At(u, {"text"})
  /\ bot' = "send"
  /\ UNCHANGED <<telegram, waits, run, finrod, bounds, faults, restarts>>

\* The snapshot is of the day on which the fetch begins.
Started(r) == /\ run[r] = None
              /\ run' = [run EXCEPT ![r] = [at |-> "fetch", day |-> day]]

\* /audit: POST /agents/rumil/run.
Audit(u, r) ==
  /\ bot = "poll" /\ At(u, {"audit"})
  /\ Started(r)
  /\ bot' = "wait" /\ waits' = r
  /\ UNCHANGED <<telegram, finrod, bounds, faults, restarts>>

\* EXECUTE_TIMEOUT_SECONDS pass: the run goes on without its caller.
GiveUp ==
  /\ bot = "wait" /\ bot' = "send" /\ waits' = None
  /\ UNCHANGED <<telegram, run, finrod, bounds, faults, restarts>>

\* The reply is sent, or sending it raised and was logged.
Reply(u) ==
  /\ bot = "send" /\ At(u, {"audit", "text"}) /\ Handled(u)
  /\ UNCHANGED <<run, finrod, bounds, faults, restarts>>

\* The container restarts: the offset was only in memory.
RestartBot ==
  /\ Fault(TRUE) /\ restarts' = restarts + 1
  /\ offset' = 0 /\ batch' = {} /\ bot' = "poll" /\ waits' = None
  /\ UNCHANGED <<arrived, held, times, run, finrod, bounds>>

-----------------------------------------------------------------------------
(* Rumil, in the API's event loop                                          *)

\* The daily job of Galadriel asks for an audit too.
Daily(r) ==
  /\ daily < MaxDaily /\ daily' = daily + 1
  /\ Started(r)
  /\ UNCHANGED <<telegram, bot, waits, finrod, day, ingests, faults, restarts>>

\* Variant: an answer is taken for the one the bot waits for.
EndedAnyone(r) == run' = [run EXCEPT ![r] = None] /\ bot' = "send" /\ waits' = None

\* The run of r ends; its caller, if it still waits, has an answer to send.
Ended(r) == /\ run' = [run EXCEPT ![r] = None]
            /\ bot' = IF waits = r THEN "send" ELSE bot
            /\ waits' = IF waits = r THEN None ELSE waits

\* GitHub answers or fails; without activity the model is not asked.
Fetched(r) ==
  /\ run[r] # None /\ run[r].at = "fetch"
  /\ \/ Ended(r)
     \/ /\ \E place \in {"narrate", "remember"} :
             run' = [run EXCEPT ![r].at = place]
        /\ UNCHANGED <<bot, waits>>
  /\ UNCHANGED <<telegram, finrod, bounds, faults, restarts>>

\* The model's text, or nothing when it fails.
Narrated(r) ==
  /\ run[r] # None /\ run[r].at = "narrate"
  /\ run' = [run EXCEPT ![r].at = "remember"]
  /\ UNCHANGED <<telegram, bot, waits, finrod, bounds, faults, restarts>>

-----------------------------------------------------------------------------
(* Finrod                                                                  *)

\* Variant: forget looks for what is on the disk.
KeptOfDisk(doc) == mem \ {n \in disk : n.doc = doc}

Kept(doc) == {n \in mem : n.doc # doc}

Fresh(doc) == [doc |-> doc, version |-> version]

\* Variant: the answer does not wait for the save.
ReportedEarly(fault) == fault \in {"none", "save"}

Reported(fault) == fault = "none"

\* _ingest into an index that holds base in memory and saved on the disk.
Ingest(doc, base, saved, fault) ==
  /\ version' = version + 1
  /\ mem' = IF fault = "insert" THEN base ELSE base \cup {Fresh(doc)}
  /\ disk' = IF fault \in {"insert", "save"} THEN saved ELSE base \cup {Fresh(doc)}
  /\ acked' = (acked \cap base)
              \cup (IF Reported(fault) THEN {Fresh(doc)} ELSE {})

\* _remember: forget the day's document, which saves only when there was one;
\* a save that raises there ends the run.  Then ingest.
Remember(r, fault) ==
  /\ run[r] # None /\ run[r].at = "remember" /\ Fault(fault # "none")
  /\ LET doc == run[r].day
         saved == IF Kept(doc) = mem THEN disk ELSE Kept(doc)
     IN \/ /\ fault = "forget" /\ Kept(doc) # mem
           /\ mem' = Kept(doc) /\ acked' = acked \cap Kept(doc)
           /\ UNCHANGED <<disk, version>>
        \/ fault # "forget" /\ Ingest(doc, Kept(doc), saved, fault)
  /\ Ended(r)
  /\ UNCHANGED <<telegram, bounds, restarts>>

\* POST /memory/ingest.
IngestFact(fault) ==
  /\ ingests < MaxIngests /\ ingests' = ingests + 1
  /\ Fault(fault # "none")
  /\ Ingest(Fact, mem, disk, fault)
  /\ UNCHANGED <<telegram, bot, waits, run, day, daily, restarts>>

\* What a new process finds: Finrod loads its directory if there is one.
Loaded == disk

\* The API restarts: runs are gone, callers get an error, the index is loaded.
RestartApi ==
  /\ Fault(TRUE)
  /\ run' = [r \in Slots |-> None]
  /\ bot' = IF bot = "wait" THEN "send" ELSE bot
  /\ waits' = None
  /\ mem' = Loaded
  /\ UNCHANGED <<telegram, disk, acked, version, bounds, restarts>>

Midnight ==
  /\ day < MaxDay /\ day' = day + 1
  /\ UNCHANGED <<telegram, bot, waits, run, finrod, ingests, daily, faults,
                 restarts>>

Handle(u) == \/ Drop(u) \/ Execute(u) \/ Reply(u)
             \/ \E r \in Slots : Audit(u, r)

Next ==
  \/ Send \/ (\E lost \in BOOLEAN : Poll(lost)) \/ (\E u \in Updates : Handle(u))
  \/ GiveUp \/ RestartBot \/ RestartApi \/ Midnight
  \/ \E r \in Slots : \/ Daily(r) \/ Fetched(r) \/ Narrated(r)
                      \/ \E fault \in {"none", "forget", "insert", "save"} :
                           Remember(r, fault)
  \/ \E fault \in {"none", "insert", "save"} : IngestFact(fault)

\* The bot's loop runs on, and the API's loop serves its runs, whose calls to
\* GitHub and to the model have timeouts.
Fairness ==
  /\ WF_vars(Poll(FALSE) \/ GiveUp \/ \E u \in Updates : Handle(u))
  /\ WF_vars(\E r \in Slots : Fetched(r) \/ Narrated(r) \/ Remember(r, "none"))

Spec == Init /\ [][Next]_vars /\ Fairness

-----------------------------------------------------------------------------
\* Telegram forgets no update that the bot has not handled to its end, whatever
\* restarts, lost answers and timeouts happen; and it is handled again only
\* after a restart of the bot.
ConfirmedHandled ==
  \A u \in 1..arrived : /\ u \notin held => times[u] > 0
                        /\ times[u] <= 1 + restarts

\* What Finrod reported as stored, and was not told to forget, is on the disk
\* and in the index, so that a restart brings it back.
StoredSurvives == acked \subseteq disk /\ acked \subseteq mem

\* The index has one snapshot a day at most, also when the daily job and /audit
\* overlap, one of them outlives its caller, or saves fail.
OneSnapshotPerDay ==
  \A n, m \in mem : n.doc = m.doc /\ n.doc # Fact => n = m

\* The bot catches up again and again: every update is handled in the end,
\* whatever restarts, failed runs and timeouts come between.
EveryUpdateHandled == []<>(\A u \in 1..arrived : times[u] > 0)
=============================================================================

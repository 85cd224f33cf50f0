------------------------------- MODULE FilmLog -------------------------------
(***************************************************************************)
(* Film notes in Redis: save_note and delete_note, the Letterboxd sync that *)
(* files diary entries, and the queue of announcements the bot posts.      *)
(*                                                                         *)
(* Three processes' savers write notes: the bot's event loop (/rate and    *)
(* confirmed drafts), a thread of the bot (/sync) and Galadriel's worker   *)
(* (the daily job).  Every Redis command is a step; MULTI is one.          *)
(***************************************************************************)
EXTENDS Integers, Sequences, FiniteSets

CONSTANTS
  Films, Watchers,
  SyncWatcher,  \* LETTERBOXD_VIEWER_NAME
  Syncers,      \* "/sync" and the cron job
  Entries,      \* the feed's items: [film, watched, published, rated]; the two
                \* dates are strings, here their ranks, and 0 is the empty one
  MaxRates,     \* bound: /rate, confirmed drafts and /unrate
  MaxWeek,      \* bound: weeks
  MaxFaults     \* bound: Redis calls and posts that fail, calls that redis-py
                \* sends twice because a reply was lost, and crashes

Bot == "bot"
Savers == Syncers \cup {Bot}
Pair == Films \X Watchers

ASSUME LogAssumption ==
  /\ SyncWatcher \in Watchers /\ Bot \notin Syncers /\ Films \cap Watchers = {}
  /\ \A e \in Entries : /\ e.film \in Films /\ e.rated \in BOOLEAN
                        /\ {e.watched, e.published} \subseteq Nat
  /\ MaxRates \in Nat /\ MaxWeek \in Nat /\ MaxFaults \in Nat

VARIABLES
  notes,      \* note:* and notes:all: notes as [film, watcher, id]
  index,      \* film:*:notes and watcher:*:notes
  count,      \* stats:film:* and stats:watcher:*
  unique,     \* the dedup keys: <<film, watcher, week>>
  watermark,  \* tom:letterboxd:last_watched_iso; 0 is none
  queue,      \* tom:announce:queue
  taken,      \* what the subscriber has popped and not yet posted: <<>> or one
  posted,     \* announcements that reached the channel
  feed,       \* entries of the diary so far
  pc, todo, job,      \* saver: its step, entries left, the pair it saves
  latest,             \* syncer: the newest key of its new entries
  del,                \* /unrate: its step, the note, the axis it cleans
  week, nextId, rates, faults,
  backdated,  \* bookkeeping: items whose date is not newer than the diary had
  filed,      \* bookkeeping: pairs noted at any time
  overlap,    \* bookkeeping: a save and an /unrate overlapped
  loose,      \* bookkeeping: keys of which a failure left the note without the
              \* key, or the key without the note
  skewed      \* bookkeeping: the films and watchers counted by a MULTI that
              \* Redis ran twice

store == <<notes, index, count, unique>>
delivery == <<queue, taken, posted>>
sync == <<pc, todo, job, latest>>
ghosts == <<backdated, filed, overlap, loose, skewed>>
vars == <<store, watermark, delivery, feed, sync, del, week, nextId, rates,
          faults, ghosts>>

Note == [film : Films, watcher : Watchers, id : Nat, week : 0..MaxWeek]
Axes(n) == {n.film, n.watcher}
KeyOf(n) == <<n.film, n.watcher, n.week>>

\* What publish pushes; a second copy is one that Redis was sent again.
Announcement == [note : Note, copy : 1..2]

\* watched_iso of _parse_entry: an item that is no viewing has no date of its
\* own, and takes the words in which the feed says when it was published.
Key(e) == IF e.watched # 0 THEN e.watched ELSE e.published

NoDelete == [at |-> "none"]
Deletion == [at : {"found", "count", "stats", "card", "index", "key"}, note : Note,
             axis : Films \cup Watchers]

TypeOK ==
  /\ notes \subseteq Note /\ index \in [Films \cup Watchers -> SUBSET Note]
  /\ count \in [Films \cup Watchers -> Int]
  /\ unique \subseteq Films \X Watchers \X (0..MaxWeek)
  /\ feed \subseteq Entries /\ watermark \in {0} \cup {Key(e) : e \in feed}
  /\ \A q \in {queue, taken, posted} : q \in Seq(Announcement)
  /\ Len(taken) <= 1
  /\ pc \in [Savers -> {"idle", "fetched", "next", "claimed", "saved"}]
  /\ todo \in [Savers -> SUBSET feed] /\ job \in [Savers -> Seq(Note)]
  /\ \A s \in Savers : Len(job[s]) = IF pc[s] \in {"claimed", "saved"} THEN 1 ELSE 0
  /\ latest \in [Savers -> {0} \cup {Key(e) : e \in feed}]
  /\ del \in {NoDelete} \cup Deletion /\ pc[Bot] \in {"idle", "claimed"}
  /\ del # NoDelete => pc[Bot] = "idle"
  /\ faults \in 0..MaxFaults /\ rates \in 0..MaxRates /\ week \in 0..MaxWeek
  /\ nextId \in Nat /\ filed \subseteq Pair /\ backdated \subseteq feed
  /\ overlap \in BOOLEAN /\ loose \subseteq Films \X Watchers \X (0..MaxWeek)
  /\ skewed \subseteq Films \cup Watchers
  /\ \A n, m \in notes : n.id = m.id => n = m

Init ==
  /\ notes = {} /\ index = [k \in Films \cup Watchers |-> {}]
  /\ count = [k \in Films \cup Watchers |-> 0] /\ unique = {}
  /\ watermark = 0 /\ queue = <<>> /\ taken = <<>> /\ posted = <<>> /\ feed = {}
  /\ pc = [s \in Savers |-> "idle"] /\ todo = [s \in Savers |-> {}]
  /\ job = [s \in Savers |-> <<>>] /\ latest = [s \in Savers |-> 0]
  /\ del = NoDelete /\ week = 0 /\ nextId = 0 /\ rates = 0 /\ faults = 0
  /\ backdated = {} /\ filed = {} /\ overlap = FALSE
  /\ loose = {} /\ skewed = {}

-----------------------------------------------------------------------------
(* save_note                                                               *)

Fail == faults < MaxFaults /\ faults' = faults + 1

Go(s, place) == pc' = [pc EXCEPT ![s] = place]

\* Variant: a save that was refused or failed is tried again without its key.
AfterRetry(s) == "claimed"

After(s) == IF s = Bot THEN "idle" ELSE "next"

\* SET NX of the key; a note of this pair and week makes the save a duplicate.
\* If its reply is lost, redis-py sends it again, which is then refused by the
\* key it has set itself, or gives up: the key stays, and nothing is saved.  If
\* it never reached Redis, nothing is saved either.
Claim(s, f, w) ==
  LET key == <<f, w, week>>
  IN \/ /\ key \in unique
        /\ Go(s, After(s)) /\ UNCHANGED <<unique, job, nextId, faults, loose>>
     \/ /\ key \notin unique
        /\ unique' = unique \cup {key}
        /\ job' = [job EXCEPT ![s] =
             <<[film |-> f, watcher |-> w, id |-> nextId, week |-> week]>>]
        /\ nextId' = nextId + 1
        /\ Go(s, "claimed") /\ UNCHANGED <<faults, loose>>
     \/ /\ key \notin unique /\ Fail
        /\ \/ unique' = unique \cup {key} /\ loose' = loose \cup {key}
           \/ UNCHANGED <<unique, loose>>
        /\ Go(s, After(s)) /\ UNCHANGED <<job, nextId>>

Counted(n, by) == [k \in DOMAIN count |-> IF k \in Axes(n) THEN count[k] + by
                                          ELSE count[k]]

\* Which statistics a MULTI has skewed that Redis ran so many times.
Skew(n, times) == skewed' = IF times = 2 THEN skewed \cup Axes(n) ELSE skewed

\* MULTI, run so many times: the note, its three indexes and the statistics.
Stored(n, times) ==
  /\ notes' = notes \cup {n}
  /\ index' = [k \in DOMAIN index |-> IF k \in Axes(n) THEN index[k] \cup {n}
                                      ELSE index[k]]
  /\ count' = Counted(n, times) /\ Skew(n, times)
  /\ filed' = filed \cup {<<n.film, n.watcher>>}

\* EXEC is answered; a second time only if its first answer was lost.
Store(s) ==
  /\ pc[s] = "claimed"
  /\ \/ Stored(Head(job[s]), 1) /\ UNCHANGED faults
     \/ Stored(Head(job[s]), 2) /\ Fail
  /\ overlap' = (overlap \/ del # NoDelete)
  /\ Go(s, IF s = Bot THEN "idle" ELSE "saved")
  /\ job' = IF s = Bot THEN [job EXCEPT ![s] = <<>>] ELSE job
  /\ UNCHANGED <<unique, watermark, delivery, feed, todo, latest, del, week,
                 nextId, rates, backdated, loose>>

\* Variant: the key stays when the transaction failed.
ReleasedNever(n) == unique

Released(n) == unique \ {KeyOf(n)}

\* EXEC raises, though Redis may have run it: the key is given back, which may
\* raise in its turn, and the caller goes on with nothing saved.
StoreFails(s) ==
  /\ pc[s] = "claimed" /\ Fail
  /\ \E times \in 0..2, freed \in BOOLEAN :
       LET n == Head(job[s])
       IN /\ IF times = 0 THEN UNCHANGED <<notes, index, count, filed, skewed>>
             ELSE Stored(n, times)
          /\ unique' = IF freed THEN Released(n) ELSE unique
          /\ loose' = IF freed = (times = 0) THEN loose ELSE loose \cup {KeyOf(n)}
          /\ overlap' = (overlap \/ (times # 0 /\ del # NoDelete))
  /\ job' = [job EXCEPT ![s] = <<>>]
  /\ Go(s, After(s))
  /\ UNCHANGED <<watermark, delivery, feed, todo, latest, del, week, nextId,
                 rates, backdated>>

\* /rate, or a confirmed draft: the loop saves with no await.
Rate(f, w) ==
  /\ pc[Bot] = "idle" /\ del = NoDelete /\ rates < MaxRates
  /\ rates' = rates + 1
  /\ Claim(Bot, f, w)
  /\ UNCHANGED <<notes, index, count, watermark, delivery, feed, todo, latest,
                 del, week, backdated, filed, overlap, skewed>>

-----------------------------------------------------------------------------
(* delete_note, for /unrate                                                *)

\* The newest note of the pair.
Unrate(f, w) ==
  /\ pc[Bot] = "idle" /\ del = NoDelete /\ rates < MaxRates
  /\ \E n \in index[f] : /\ n \in notes /\ n.watcher = w
                         /\ \A m \in index[f] : m.watcher = w => m.id <= n.id
                         /\ del' = [at |-> "found", note |-> n, axis |-> f]
  /\ rates' = rates + 1
  /\ overlap' = (overlap \/ \E s \in Savers : pc[s] = "claimed")
  /\ UNCHANGED <<store, watermark, delivery, feed, sync, week, nextId, faults,
                 backdated, filed, loose, skewed>>

Step(place) == del' = [del EXCEPT !.at = place]
NextAxis == IF del.axis = del.note.film
            THEN del' = [del EXCEPT !.at = "count", !.axis = del.note.watcher]
            ELSE Step("key")

\* MULTI, run once, or twice when its answer was lost.
Erase ==
  /\ del.at = "found"
  /\ notes' = notes \ {del.note}
  /\ index' = [k \in DOMAIN index |-> index[k] \ {del.note}]
  /\ \/ count' = Counted(del.note, -1) /\ UNCHANGED <<faults, skewed>>
     \/ count' = Counted(del.note, -2) /\ Skew(del.note, 2) /\ Fail
  /\ Step("count")
  /\ UNCHANGED <<unique, watermark, delivery, feed, sync, week, nextId, rates,
                 backdated, filed, overlap, loose>>

\* For the film, then for the watcher: read the count, delete the statistics,
\* read the size of the index, delete the index: four commands.
Tidy ==
  /\ \/ del.at = "count" /\ count[del.axis] > 0 /\ NextAxis /\ UNCHANGED <<index, count>>
     \/ del.at = "count" /\ count[del.axis] <= 0 /\ Step("stats") /\ UNCHANGED <<index, count>>
     \/ del.at = "stats" /\ Step("card") /\ count' = [count EXCEPT ![del.axis] = 0]
        /\ UNCHANGED index
     \/ del.at = "card" /\ index[del.axis] # {} /\ NextAxis /\ UNCHANGED <<index, count>>
     \/ del.at = "card" /\ index[del.axis] = {} /\ Step("index") /\ UNCHANGED <<index, count>>
     \/ del.at = "index" /\ NextAxis /\ index' = [index EXCEPT ![del.axis] = {}]
        /\ UNCHANGED count
  /\ UNCHANGED <<notes, unique, watermark, delivery, feed, sync, week, nextId,
                 rates, faults, ghosts>>

\* The key of this week, whatever the week of the note.
FreeKey ==
  /\ del.at = "key"
  /\ unique' = unique \ {<<del.note.film, del.note.watcher, week>>}
  /\ del' = NoDelete
  /\ UNCHANGED <<notes, index, count, watermark, delivery, feed, sync, week,
                 nextId, rates, faults, ghosts>>

\* What a deletion leaves behind that goes no further: once the note is gone,
\* its key.
CutShort == IF del.at \in {"none", "found"} THEN loose
            ELSE loose \cup {KeyOf(del.note)}

\* A command of it raises: the rest is not tried.
DeleteStops ==
  /\ del # NoDelete /\ Fail
  /\ del' = NoDelete /\ loose' = CutShort
  /\ UNCHANGED <<store, watermark, delivery, feed, sync, week, nextId, rates,
                 backdated, filed, overlap, skewed>>

-----------------------------------------------------------------------------
(* run_sync                                                                *)

\* Variant: the watermark is taken from the feed as it is by now.
NewestNow(es) == CHOOSE k \in {0} \cup {Key(e) : e \in feed} : \A e \in feed : Key(e) <= k

Newest(es) == CHOOSE k \in {0} \cup {Key(e) : e \in es} : \A e \in es : Key(e) <= k

\* Fetch the feed; a failed fetch changes nothing.
Fetch(s) ==
  /\ pc[s] = "idle" /\ s # Bot /\ feed # {}
  /\ todo' = [todo EXCEPT ![s] = feed]
  /\ Go(s, "fetched")
  /\ UNCHANGED <<store, watermark, delivery, feed, job, latest, del, week,
                 nextId, rates, faults, ghosts>>

New(e) == Key(e) # 0 /\ Key(e) > watermark

\* Read the watermark and keep what is newer.
Compare(s) ==
  /\ pc[s] = "fetched"
  /\ LET fresh == {e \in todo[s] : New(e)}
     IN /\ todo' = [todo EXCEPT ![s] = fresh]
        /\ latest' = [latest EXCEPT ![s] = Newest(fresh)]
        /\ Go(s, IF fresh = {} THEN "idle" ELSE "next")
  /\ UNCHANGED <<store, watermark, delivery, feed, job, del, week, nextId,
                 rates, faults, ghosts>>

\* The next entry in order of date: without a rating it is passed over.
SaveEntry(s) ==
  /\ pc[s] = "next"
  /\ \E e \in todo[s] :
       /\ \A d \in todo[s] : Key(e) <= Key(d)
       /\ todo' = [todo EXCEPT ![s] = @ \ {e}]
       /\ IF e.rated THEN Claim(s, e.film, SyncWatcher)
          ELSE UNCHANGED <<pc, unique, job, nextId, faults, loose>>
  /\ overlap' = (overlap \/ del # NoDelete)
  /\ UNCHANGED <<notes, index, count, watermark, delivery, feed, latest, del,
                 week, rates, backdated, filed, skewed>>

Announced(n, copies) == queue \o [c \in 1..copies |-> [note |-> n, copy |-> c]]

\* publish after the save: the RPUSH; twice, when its reply was lost.  One that
\* raises is counted and forgotten, whether Redis ran it or not.
Publish(s) ==
  /\ pc[s] = "saved"
  /\ \/ queue' = Announced(Head(job[s]), 1) /\ UNCHANGED faults
     \/ \E copies \in {0, 2} : queue' = Announced(Head(job[s]), copies) /\ Fail
  /\ job' = [job EXCEPT ![s] = <<>>]
  /\ Go(s, "next")
  /\ UNCHANGED <<store, watermark, taken, posted, feed, todo, latest, del, week,
                 nextId, rates, ghosts>>

Advance(s) ==
  /\ pc[s] = "next" /\ todo[s] = {}
  /\ watermark' = latest[s]
  /\ latest' = [latest EXCEPT ![s] = 0]
  /\ Go(s, "idle")
  /\ UNCHANGED <<store, delivery, feed, todo, job, del, week, nextId, rates,
                 faults, ghosts>>

\* The watermark cannot be read, or not be written: the exception ends the sync.
SyncFails(s) ==
  /\ pc[s] = "fetched" \/ (pc[s] = "next" /\ todo[s] = {})
  /\ Fail
  /\ todo' = [todo EXCEPT ![s] = {}]
  /\ latest' = [latest EXCEPT ![s] = 0]
  /\ Go(s, "idle")
  /\ UNCHANGED <<store, watermark, delivery, feed, job, del, week, nextId, rates,
                 ghosts>>

-----------------------------------------------------------------------------
(* The subscriber, the diary, time and crashes                             *)

\* BLPOP; what it popped is lost with its reply.
Take ==
  /\ taken = <<>> /\ queue # <<>>
  /\ queue' = Tail(queue)
  /\ \/ taken' = <<Head(queue)>> /\ UNCHANGED faults
     \/ Fail /\ UNCHANGED taken
  /\ UNCHANGED <<store, watermark, posted, feed, sync, del, week, nextId, rates,
                 ghosts>>

\* Variant: a post that raised is put back.
UnpostedKept == queue \o taken

Unposted == queue

\* The post goes through; or it raises, perhaps after the message went out.
Post ==
  /\ taken # <<>> /\ taken' = <<>>
  /\ \/ posted' = posted \o taken /\ UNCHANGED <<queue, faults>>
     \/ Fail /\ posted' \in {posted, posted \o taken} /\ queue' = Unposted
  /\ UNCHANGED <<store, watermark, feed, sync, del, week, nextId, rates, ghosts>>

\* The viewer logs a film on Letterboxd.
Log(e) ==
  /\ e \notin feed
  /\ feed' = feed \cup {e}
  /\ backdated' = IF \E d \in feed : d.watched # 0 /\ Key(e) <= d.watched
                   THEN backdated \cup {e} ELSE backdated
  /\ UNCHANGED <<store, watermark, delivery, sync, del, week, nextId, rates,
                 faults, filed, overlap, loose, skewed>>

NewWeek ==
  /\ week < MaxWeek /\ week' = week + 1
  /\ UNCHANGED <<store, watermark, delivery, feed, sync, del, nextId, rates,
                 faults, ghosts>>

\* A process dies: the bot with its thread and its subscriber, or the worker.
Crash(dead) ==
  /\ Fail
  /\ loose' = (IF Bot \in dead THEN CutShort ELSE loose)
       \cup {KeyOf(Head(job[s])) : s \in {x \in Savers \cap dead : pc[x] = "claimed"}}
  /\ pc' = [s \in Savers |-> IF s \in dead THEN "idle" ELSE pc[s]]
  /\ todo' = [s \in Savers |-> IF s \in dead THEN {} ELSE todo[s]]
  /\ job' = [s \in Savers |-> IF s \in dead THEN <<>> ELSE job[s]]
  /\ latest' = [s \in Savers |-> IF s \in dead THEN 0 ELSE latest[s]]
  /\ del' = IF Bot \in dead THEN NoDelete ELSE del
  /\ taken' = IF Bot \in dead THEN <<>> ELSE taken
  /\ UNCHANGED <<store, watermark, queue, posted, feed, week, nextId, rates,
                 backdated, filed, overlap, skewed>>

Next ==
  \/ \E s \in Savers : \/ Store(s) \/ StoreFails(s) \/ Fetch(s) \/ Compare(s)
                       \/ SaveEntry(s) \/ Publish(s) \/ Advance(s) \/ SyncFails(s)
  \/ \E f \in Films, w \in Watchers : Rate(f, w) \/ Unrate(f, w)
  \/ Erase \/ Tidy \/ FreeKey \/ DeleteStops \/ Take \/ Post \/ NewWeek
  \/ \E e \in Entries : Log(e)
  \/ \E dead \in {{Bot, "/sync"}, {"cron"}} : Crash(dead)

Spec == Init /\ [][Next]_vars

-----------------------------------------------------------------------------
\* Every note is in its film's and its watcher's index and nothing else is; the
\* counts match, but where Redis ran a MULTI twice; a pair has one note a week,
\* and its key of this week is taken exactly when it has one: through failed
\* transactions and crashes, but for a key that one of these left without its
\* note, or the other way round.  Not when a save and an /unrate overlapped: its
\* cleaning is not one transaction.
NotesAgree ==
  ~overlap /\ del.at \in {"none", "found"} =>
    /\ \A k \in Films \cup Watchers :
         /\ index[k] = {n \in notes : k \in Axes(n)}
         /\ k \notin skewed => count[k] = Cardinality(index[k])
    /\ \A f \in Films, w \in Watchers :
         LET now == {n \in notes : KeyOf(n) = <<f, w, week>>}
             saving == {s \in Savers : /\ pc[s] = "claimed"
                                       /\ KeyOf(Head(job[s])) = <<f, w, week>>}
         IN <<f, w, week>> \notin loose =>
              Cardinality(now) + Cardinality(saving)
                = IF <<f, w, week>> \in unique THEN 1 ELSE 0

\* "Saves any new entries": when nothing failed, a rated entry that was logged
\* in order of date has been filed, or is being filed, once the watermark has
\* passed its date, also when /sync, the daily job and /rate run at once.
NewEntriesFiled ==
  faults = 0 => \A e \in feed :
    e.rated /\ e.watched \in 1..watermark /\ e \notin backdated =>
      \/ <<e.film, SyncWatcher>> \in filed
      \/ \E s \in Savers : /\ pc[s] = "claimed" /\ Head(job[s]).film = e.film
                           /\ Head(job[s]).watcher = SyncWatcher

\* Nothing that was pushed is posted twice, and nothing without its note having
\* been saved, through failed posts, lost replies and crashes of either side: an
\* announcement reaches the channel twice only if Redis ran its RPUSH twice.
AnnouncedOnce ==
  /\ \A i, j \in DOMAIN posted : posted[i] = posted[j] => i = j
  /\ \A i \in DOMAIN posted :
       <<posted[i].note.film, posted[i].note.watcher>> \in filed
=============================================================================

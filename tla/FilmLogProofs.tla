---------------------------- MODULE FilmLogProofs ----------------------------
(***************************************************************************)
(* Theorems about FilmLog, for any number of films, watchers, syncs and     *)
(* weeks: the notes with their indexes, counts and keys, the entries of the *)
(* diary, and the announcements.                                           *)
(***************************************************************************)
EXTENDS FilmLog, FiniteSetTheorems, SequenceTheorems, TLAPS

Holds(s) == pc[s] \in {"claimed", "saved"}
Mine(s) == Head(job[s])

\* A note has an id of its own, and no week that has not come.
IdsOK ==
  /\ \A n \in notes : n.id < nextId /\ n.week <= week
  /\ \A s \in Savers : Holds(s) => Mine(s).id < nextId /\ Mine(s).week <= week
  /\ \A s \in Savers, n \in notes : pc[s] = "claimed" => Mine(s).id # n.id
  /\ \A s, r \in Savers : Holds(s) /\ Holds(r) /\ Mine(s).id = Mine(r).id => s = r
  /\ \A f \in Films, w \in Watchers, k \in 0..MaxWeek :
       <<f, w, k>> \in unique => k <= week

\* However many entries there are, those of a sync have a newest one.
NewestThere ==
  \A S \in SUBSET feed : S # {} => \E e \in S : \A d \in S : Key(d) <= Key(e)

Sound == TypeOK /\ IdsOK /\ NewestThere

LEMMA DeletionFacts ==
  ASSUME NEW d \in {NoDelete} \cup Deletion
  PROVE  /\ d = NoDelete <=> d.at = "none"
         /\ d # NoDelete <=> d \in Deletion
BY DEF NoDelete, Deletion

LEMMA HeldFacts ==
  ASSUME TypeOK, NEW s \in Savers, Holds(s)
  PROVE  Mine(s) \in Note /\ job[s] = <<Mine(s)>> /\ Len(job[s]) = 1
<1> PICK q : q = job[s]
  OBVIOUS
<1>1. q \in Seq(Note) /\ Len(q) = 1
  BY DEF TypeOK, Holds
<1>2. Head(q) \in Note /\ q = <<Head(q)>>
  BY <1>1
<1> QED
  BY <1>1, <1>2 DEF Mine

LEMMA SingleFacts ==
  ASSUME NEW n \in Note
  PROVE  <<n>> \in Seq(Note) /\ Len(<<n>>) = 1 /\ Head(<<n>>) = n
OBVIOUS

LEMMA FailFacts ==
  ASSUME TypeOK, Fail
  PROVE  faults' \in 0..MaxFaults
BY LogAssumption DEF Fail, TypeOK

LEMMA KeyOfNote ==
  ASSUME NEW n \in Note
  PROVE  KeyOf(n) \in Films \X Watchers \X (0..MaxWeek)
BY DEF Note, KeyOf

\* A claim is refused, or takes a key and a new id, or fails.
LEMMA ClaimFacts ==
  ASSUME Sound, NEW s \in Savers, NEW f \in Films, NEW w \in Watchers,
         pc[s] \notin {"claimed", "saved"}, Claim(s, f, w)
  PROVE  \/ /\ pc' = [pc EXCEPT ![s] = After(s)] /\ <<f, w, week>> \in unique
            /\ UNCHANGED <<unique, job, nextId, faults, loose>>
         \/ /\ pc' = [pc EXCEPT ![s] = "claimed"] /\ <<f, w, week>> \notin unique
            /\ unique' = unique \cup {<<f, w, week>>} /\ nextId' = nextId + 1
            /\ \E n \in Note :
                 /\ n = [film |-> f, watcher |-> w, id |-> nextId, week |-> week]
                 /\ job' = [job EXCEPT ![s] = <<n>>]
            /\ UNCHANGED <<faults, loose>>
         \/ /\ pc' = [pc EXCEPT ![s] = After(s)] /\ <<f, w, week>> \notin unique
            /\ UNCHANGED <<job, nextId>> /\ Fail
            /\ \/ unique' = unique \cup {<<f, w, week>>} /\ loose' = loose \cup {<<f, w, week>>}
               \/ UNCHANGED <<unique, loose>>
<1>1. CASE /\ <<f, w, week>> \in unique
           /\ Go(s, After(s)) /\ UNCHANGED <<unique, job, nextId, faults, loose>>
  BY <1>1 DEF Go
<1>2. ASSUME <<f, w, week>> \notin unique, unique' = unique \cup {<<f, w, week>>},
             job' = [job EXCEPT ![s] =
               <<[film |-> f, watcher |-> w, id |-> nextId, week |-> week]>>],
             nextId' = nextId + 1, Go(s, "claimed"), UNCHANGED <<faults, loose>>
      PROVE  /\ pc' = [pc EXCEPT ![s] = "claimed"]
             /\ \E n \in Note :
                  /\ n = [film |-> f, watcher |-> w, id |-> nextId, week |-> week]
                  /\ job' = [job EXCEPT ![s] = <<n>>]
  <2> PICK n : n = [film |-> f, watcher |-> w, id |-> nextId, week |-> week]
    OBVIOUS
  <2>1. n \in Note
    BY DEF Note, Sound, TypeOK
  <2>2. pc' = [pc EXCEPT ![s] = "claimed"] /\ job' = [job EXCEPT ![s] = <<n>>]
    BY <1>2 DEF Go
  <2> QED
    BY <2>1, <2>2
<1>3. CASE /\ <<f, w, week>> \notin unique /\ Fail
           /\ \/ unique' = unique \cup {<<f, w, week>>} /\ loose' = loose \cup {<<f, w, week>>}
              \/ UNCHANGED <<unique, loose>>
           /\ Go(s, After(s)) /\ UNCHANGED <<job, nextId>>
  BY <1>3 DEF Go
<1> QED
  BY <1>1, <1>2, <1>3 DEF Claim

-----------------------------------------------------------------------------
(* The savers: what becomes of the notes they hold.                        *)

\* The types of what a saver has at hand.
SaversOK ==
  /\ pc \in [Savers -> {"idle", "fetched", "next", "claimed", "saved"}]
  /\ pc[Bot] \in {"idle", "claimed"}
  /\ job \in [Savers -> Seq(Note)]
  /\ \A s \in Savers : Len(job[s]) = IF pc[s] \in {"claimed", "saved"} THEN 1 ELSE 0

LEMMA SaverMoves ==
  ASSUME SaversOK, NEW s \in Savers, NEW q \in Seq(Note),
         NEW place \in {"idle", "fetched", "next", "claimed", "saved"},
         Len(q) = IF place \in {"claimed", "saved"} THEN 1 ELSE 0,
         s = Bot => place \in {"idle", "claimed"},
         pc' = [pc EXCEPT ![s] = place], job' = [job EXCEPT ![s] = q]
  PROVE  SaversOK'
<1>1. /\ pc' \in [Savers -> {"idle", "fetched", "next", "claimed", "saved"}]
      /\ pc'[Bot] \in {"idle", "claimed"}
  BY DEF SaversOK, Savers
<1>2. job' \in [Savers -> Seq(Note)]
  BY DEF SaversOK
<1>3. ASSUME NEW r \in Savers
      PROVE  Len(job'[r]) = IF pc'[r] \in {"claimed", "saved"} THEN 1 ELSE 0
  <2>1. CASE r = s
    <3>1. pc'[r] = place /\ job'[r] = q
      BY <2>1 DEF SaversOK
    <3> QED
      BY <3>1
  <2>2. CASE r # s
    <3>1. pc'[r] = pc[r] /\ job'[r] = job[r]
      BY <2>2 DEF SaversOK
    <3> QED
      BY <3>1 DEF SaversOK
  <2> QED
    BY <2>1, <2>2
<1> QED
  BY <1>1, <1>2, <1>3 DEF SaversOK

LEMMA ClaimSound ==
  ASSUME Sound, NEW s \in Savers, NEW f \in Films, NEW w \in Watchers,
         pc[s] \notin {"claimed", "saved"}, Claim(s, f, w), UNCHANGED <<notes, week>>
  PROVE  /\ SaversOK' /\ IdsOK' /\ nextId' \in Nat
         /\ unique' \subseteq Films \X Watchers \X (0..MaxWeek)
         /\ loose' \subseteq Films \X Watchers \X (0..MaxWeek)
         /\ faults' \in 0..MaxFaults
<1>0. /\ week \in 0..MaxWeek /\ nextId \in Nat /\ MaxWeek \in Nat
      /\ After(s) \in {"idle", "next"} /\ (s = Bot => After(s) = "idle")
      /\ SaversOK /\ unique \subseteq Films \X Watchers \X (0..MaxWeek)
      /\ loose \subseteq Films \X Watchers \X (0..MaxWeek) /\ faults \in 0..MaxFaults
  BY LogAssumption DEF Sound, TypeOK, After, SaversOK
<1>1. ASSUME pc' = [pc EXCEPT ![s] = After(s)], UNCHANGED <<job, nextId>>,
             unique' \subseteq unique \cup {<<f, w, week>>}
      PROVE  SaversOK' /\ IdsOK'
  <2>1. SaversOK'
    BY <1>0, <1>1 DEF SaversOK
  <2>2. \A r \in Savers : Holds(r)' => Holds(r) /\ Mine(r)' = Mine(r)
    BY <1>0, <1>1 DEF SaversOK, Holds, Mine
  <2>3. \A r \in Savers : pc'[r] = "claimed" => pc[r] = "claimed" /\ Mine(r)' = Mine(r)
    BY <1>0, <1>1 DEF SaversOK, Mine
  <2>4. \A g \in Films, v \in Watchers, k \in 0..MaxWeek :
          <<g, v, k>> \in unique' => k <= week'
    BY <1>0, <1>1 DEF Sound, IdsOK
  <2>5. IdsOK'
    BY <1>1, <2>2, <2>3, <2>4 DEF Sound, IdsOK
  <2> QED
    BY <2>1, <2>5
<1>2. ASSUME pc' = [pc EXCEPT ![s] = "claimed"], nextId' = nextId + 1,
             unique' = unique \cup {<<f, w, week>>},
             NEW n \in Note,
             n = [film |-> f, watcher |-> w, id |-> nextId, week |-> week],
             job' = [job EXCEPT ![s] = <<n>>]
      PROVE  /\ SaversOK' /\ IdsOK' /\ nextId' \in Nat
             /\ unique' \subseteq Films \X Watchers \X (0..MaxWeek)
  <2>0. <<n>> \in Seq(Note) /\ Len(<<n>>) = 1 /\ Head(<<n>>) = n
    BY SingleFacts
  <2>1. SaversOK'
    <3> PICK q : q = <<n>>
      OBVIOUS
    <3>1. q \in Seq(Note) /\ Len(q) = 1 /\ job' = [job EXCEPT ![s] = q]
      BY <1>2, <2>0
    <3> QED
      BY <1>0, <1>2, <3>1, SaverMoves
  <2>2. /\ \A r \in Savers \ {s} : Mine(r)' = Mine(r) /\ (Holds(r)' <=> Holds(r))
                                   /\ pc'[r] = pc[r]
        /\ Mine(s)' = n
    BY <1>0, <1>2, <2>0 DEF SaversOK, Holds, Mine
  <2>3. \A r \in Savers : Holds(r) => Mine(r) \in Note /\ Mine(r).id < nextId
                                      /\ Mine(r).week <= week
    BY HeldFacts DEF Sound, IdsOK
  <2>4. /\ \A m \in notes : m \in Note /\ m.id < nextId /\ m.week <= week
        /\ n.id = nextId /\ n.week = week
    BY <1>2 DEF Sound, TypeOK, IdsOK
  <2>5. \A x \in Note : x.id \in Nat
    BY DEF Note
  <2>6. \A m \in notes' : m.id < nextId' /\ m.week <= week'
    BY <1>0, <1>2, <2>4, <2>5
  <2>7. \A r \in Savers : Holds(r)' => Mine(r)'.id < nextId' /\ Mine(r)'.week <= week'
    BY <1>0, <1>2, <2>2, <2>3, <2>4, <2>5
  <2>8. \A r \in Savers, m \in notes' : pc'[r] = "claimed" => Mine(r)'.id # m.id
    BY <1>0, <1>2, <2>2, <2>4, <2>5 DEF Sound, IdsOK
  <2>9. ASSUME NEW r \in Savers, NEW q \in Savers, Holds(r)', Holds(q)',
               Mine(r)'.id = Mine(q)'.id
        PROVE  r = q
    BY <1>0, <2>2, <2>3, <2>4, <2>5, <2>9 DEF Sound, IdsOK
  <2>10. \A g \in Films, v \in Watchers, k \in 0..MaxWeek :
           <<g, v, k>> \in unique' => k <= week'
    BY <1>0, <1>2 DEF Sound, IdsOK
  <2>11. IdsOK'
    BY <2>6, <2>7, <2>8, <2>9, <2>10 DEF IdsOK
  <2> QED
    BY <1>0, <1>2, <2>1, <2>11
<1>3. faults' \in 0..MaxFaults
  BY <1>0, ClaimFacts, FailFacts DEF Sound
<1>4. CASE /\ pc' = [pc EXCEPT ![s] = "claimed"] /\ nextId' = nextId + 1
           /\ unique' = unique \cup {<<f, w, week>>}
           /\ \E n \in Note :
                /\ n = [film |-> f, watcher |-> w, id |-> nextId, week |-> week]
                /\ job' = [job EXCEPT ![s] = <<n>>]
           /\ UNCHANGED loose
  <2>1. PICK n \in Note :
          /\ n = [film |-> f, watcher |-> w, id |-> nextId, week |-> week]
          /\ job' = [job EXCEPT ![s] = <<n>>]
    BY <1>4
  <2>2. /\ SaversOK' /\ IdsOK' /\ nextId' \in Nat
        /\ unique' \subseteq Films \X Watchers \X (0..MaxWeek)
    BY <1>2, <1>4, <2>1
  <2> QED
    BY <1>0, <1>3, <1>4, <2>2
<1>5. CASE /\ pc' = [pc EXCEPT ![s] = After(s)] /\ UNCHANGED <<job, nextId>>
           /\ \/ UNCHANGED <<unique, loose>>
              \/ unique' = unique \cup {<<f, w, week>>} /\ loose' = loose \cup {<<f, w, week>>}
  <2>1. unique' \subseteq unique \cup {<<f, w, week>>}
        /\ loose' \subseteq loose \cup {<<f, w, week>>}
    BY <1>5
  <2>2. SaversOK' /\ IdsOK'
    BY <1>1, <1>5, <2>1
  <2>3. <<f, w, week>> \in Films \X Watchers \X (0..MaxWeek)
    BY <1>0
  <2> QED
    BY <1>0, <1>3, <1>5, <2>1, <2>2, <2>3
<1> QED
  BY <1>4, <1>5, ClaimFacts

\* A saver lets go of its note, or of nothing.
LEMMA LetGoSound ==
  ASSUME Sound, NEW s \in Savers, NEW place \in {"idle", "fetched", "next"},
         pc' = [pc EXCEPT ![s] = place], s = Bot => place = "idle",
         job' = [job EXCEPT ![s] = <<>>], notes' \subseteq notes,
         unique' \subseteq unique, UNCHANGED <<week, nextId>>
  PROVE  SaversOK' /\ IdsOK'
<1>1. <<>> \in Seq(Note) /\ Len(<<>>) = 0
  OBVIOUS
<1>2. SaversOK
  BY DEF Sound, TypeOK, SaversOK
<1>3. SaversOK'
  <2> PICK q : q = <<>>
    OBVIOUS
  <2>1. q \in Seq(Note) /\ Len(q) = 0 /\ job' = [job EXCEPT ![s] = q]
    BY <1>1
  <2>2. /\ place \in {"idle", "fetched", "next", "claimed", "saved"}
        /\ Len(q) = IF place \in {"claimed", "saved"} THEN 1 ELSE 0
        /\ s = Bot => place \in {"idle", "claimed"}
    BY <2>1
  <2> QED
    BY <1>2, <2>1, <2>2, SaverMoves
<1>4. \A r \in Savers : Holds(r)' => Holds(r) /\ Mine(r)' = Mine(r) /\ pc'[r] = pc[r]
  BY <1>2 DEF SaversOK, Holds, Mine
<1>5. \A r \in Savers : pc'[r] = "claimed" => Holds(r)'
  BY DEF Holds
<1>6. IdsOK'
  BY <1>4, <1>5 DEF Sound, IdsOK
<1> QED
  BY <1>3, <1>6

\* What is left of the types.
StoreOK ==
  /\ notes \subseteq Note /\ index \in [Films \cup Watchers -> SUBSET Note]
  /\ count \in [Films \cup Watchers -> Int]
  /\ unique \subseteq Films \X Watchers \X (0..MaxWeek)
  /\ filed \subseteq Pair
  /\ \A n, m \in notes : n.id = m.id => n = m

FeedOK ==
  /\ feed \subseteq Entries /\ backdated \subseteq feed
  /\ watermark \in {0} \cup {Key(e) : e \in feed}
  /\ todo \in [Savers -> SUBSET feed]
  /\ latest \in [Savers -> {0} \cup {Key(e) : e \in feed}]

DeliveryOK ==
  /\ queue \in Seq(Announcement) /\ taken \in Seq(Announcement)
  /\ posted \in Seq(Announcement) /\ Len(taken) <= 1

DeletionOK ==
  /\ del \in {NoDelete} \cup Deletion
  /\ del # NoDelete => pc[Bot] = "idle"

BoundsOK ==
  /\ faults \in 0..MaxFaults /\ rates \in 0..MaxRates /\ week \in 0..MaxWeek
  /\ nextId \in Nat /\ overlap \in BOOLEAN
  /\ loose \subseteq Films \X Watchers \X (0..MaxWeek)
  /\ skewed \subseteq Films \cup Watchers

RestOK == StoreOK /\ FeedOK /\ DeliveryOK /\ DeletionOK /\ BoundsOK

LEMMA TypeParts == TypeOK <=> SaversOK /\ RestOK
<1>1. TypeOK => SaversOK /\ StoreOK /\ FeedOK /\ DeliveryOK /\ DeletionOK /\ BoundsOK
  BY DEF TypeOK, SaversOK, StoreOK, FeedOK, DeliveryOK, DeletionOK, BoundsOK
<1>2. SaversOK /\ StoreOK /\ FeedOK /\ DeliveryOK /\ DeletionOK /\ BoundsOK => TypeOK
  BY DEF TypeOK, SaversOK, StoreOK, FeedOK, DeliveryOK, DeletionOK, BoundsOK
<1> QED
  BY <1>1, <1>2 DEF RestOK

LEMMA SoundParts ==
  ASSUME Sound
  PROVE  /\ SaversOK /\ IdsOK /\ NewestThere
         /\ StoreOK /\ FeedOK /\ DeliveryOK /\ DeletionOK /\ BoundsOK
BY TypeParts DEF Sound, RestOK

LEMMA SoundWhole ==
  ASSUME SaversOK', IdsOK', NewestThere', StoreOK', FeedOK', DeliveryOK', DeletionOK', BoundsOK'
  PROVE  Sound'
BY TypeParts, PTL DEF Sound, RestOK

\* Ids stay apart when at most one note that is not held is added.
LEMMA IdsKept ==
  ASSUME IdsOK, NEW n, notes' \subseteq notes \cup {n},
         n.id < nextId /\ n.week <= week,
         UNCHANGED <<nextId, week>>, unique' \subseteq unique,
         \A r \in Savers : Holds(r)' => Holds(r) /\ Mine(r)' = Mine(r),
         \A r \in Savers : pc'[r] = "claimed" =>
           pc[r] = "claimed" /\ Mine(r)' = Mine(r) /\ Mine(r).id # n.id
  PROVE  IdsOK'
<1>1. \A m \in notes' : m.id < nextId' /\ m.week <= week'
  BY DEF IdsOK
<1>2. \A s \in Savers : Holds(s)' => Mine(s)'.id < nextId' /\ Mine(s)'.week <= week'
  BY DEF IdsOK
<1>3. ASSUME NEW s \in Savers, NEW m \in notes', pc'[s] = "claimed"
      PROVE  Mine(s)'.id # m.id
  BY <1>3 DEF IdsOK
<1>4. \A s, r \in Savers : Holds(s)' /\ Holds(r)' /\ Mine(s)'.id = Mine(r)'.id => s = r
  BY DEF IdsOK
<1>5. \A f \in Films, w \in Watchers, k \in 0..MaxWeek :
        <<f, w, k>> \in unique' => k <= week'
  BY DEF IdsOK
<1> QED
  BY <1>1, <1>2, <1>3, <1>4, <1>5 DEF IdsOK

\* A MULTI of save_note, run as often as Redis may, leaves the store well-typed.
LEMMA StoredSound ==
  ASSUME Sound, NEW n \in Note, NEW times \in 0..2, Stored(n, times),
         \A m \in notes : m.id # n.id, unique' \subseteq unique
  PROVE  StoreOK' /\ skewed' \subseteq Films \cup Watchers
<1>1. n.film \in Films /\ n.watcher \in Watchers /\ Axes(n) \subseteq Films \cup Watchers
  BY DEF Note, Axes
<1>2. /\ notes' = notes \cup {n} /\ filed' = filed \cup {<<n.film, n.watcher>>}
      /\ index' = [k \in DOMAIN index |-> IF k \in Axes(n) THEN index[k] \cup {n}
                                          ELSE index[k]]
      /\ count' = Counted(n, times)
      /\ skewed' \in {skewed, skewed \cup Axes(n)}
  BY DEF Stored, Skew
<1>3. /\ index' \in [Films \cup Watchers -> SUBSET Note]
      /\ count' \in [Films \cup Watchers -> Int]
  BY <1>2, SoundParts DEF StoreOK, Counted
<1>4. StoreOK'
  BY <1>1, <1>2, <1>3, SoundParts DEF StoreOK, Pair
<1>5. skewed' \subseteq Films \cup Watchers
  BY <1>1, <1>2, SoundParts DEF BoundsOK
<1> QED
  BY <1>4, <1>5

LEMMA StoreSound ==
  ASSUME Sound, NEW s \in Savers, Store(s)
  PROVE  Sound'
<1> PICK n : n = Mine(s)
  OBVIOUS
<1>1. /\ pc[s] = "claimed" /\ n \in Note /\ notes' = notes \cup {n}
      /\ overlap' = (overlap \/ del # NoDelete)
      /\ (\E times \in 1..2 : Stored(n, times)) /\ (Fail \/ UNCHANGED faults)
  <2>1. pc[s] = "claimed"
    BY DEF Store
  <2>2. n \in Note
    BY <2>1, HeldFacts DEF Sound, Holds
  <2>3. /\ overlap' = (overlap \/ del # NoDelete)
        /\ (Stored(n, 1) \/ Stored(n, 2)) /\ (Fail \/ UNCHANGED faults)
    BY DEF Store, Mine
  <2>4. notes' = notes \cup {n}
    BY <2>3 DEF Stored
  <2> QED
    BY <2>1, <2>2, <2>3, <2>4
<1>2. UNCHANGED <<unique, watermark, delivery, feed, todo, latest, del, week,
                  nextId, rates, backdated, loose>>
  BY DEF Store
<1>3. \A m \in notes : m.id # n.id
  BY <1>1 DEF Sound, IdsOK
<1>4. StoreOK' /\ skewed' \subseteq Films \cup Watchers /\ faults' \in 0..MaxFaults
  <2> PICK times \in 1..2 : Stored(n, times)
    BY <1>1
  <2>1. times \in 0..2
    OBVIOUS
  <2>2. StoreOK' /\ skewed' \subseteq Films \cup Watchers
    BY <1>1, <1>2, <1>3, <2>1, StoredSound
  <2>3. faults' \in 0..MaxFaults
    BY <1>1, FailFacts, SoundParts DEF BoundsOK, Sound
  <2> QED
    BY <2>2, <2>3
<1>5. overlap' \in BOOLEAN
  BY <1>1 DEF Sound, TypeOK
<1>6. pc'[Bot] = "idle" \/ pc'[Bot] = pc[Bot]
  BY DEF Store, Go, Sound, TypeOK, Savers
<1>7. StoreOK' /\ FeedOK' /\ DeliveryOK' /\ DeletionOK' /\ BoundsOK'
  <2>1. StoreOK'
    BY <1>4
  <2>2. FeedOK'
    BY <1>2, SoundParts DEF FeedOK
  <2>3. DeliveryOK'
    BY <1>2, SoundParts DEF DeliveryOK, delivery
  <2>4. DeletionOK'
    BY <1>2, <1>6, SoundParts DEF DeletionOK
  <2>5. BoundsOK'
    BY <1>2, <1>4, <1>5, SoundParts DEF BoundsOK
  <2> QED
    BY <2>1, <2>2, <2>3, <2>4, <2>5
<1>8. n.id < nextId /\ n.week <= week
  BY <1>1 DEF Sound, IdsOK, Holds
<1>9. NewestThere'
  BY <1>2, SoundParts DEF NewestThere
<1>10. CASE s = Bot
  <2>1. pc' = [pc EXCEPT ![s] = "idle"] /\ job' = [job EXCEPT ![s] = <<>>]
    BY <1>10 DEF Store, Go
  <2>2. SaversOK'
    <3> PICK q : q = <<>>
      OBVIOUS
    <3>1. q \in Seq(Note) /\ Len(q) = 0 /\ job' = [job EXCEPT ![s] = q]
      BY <2>1
    <3> PICK place : place = "idle"
      OBVIOUS
    <3>2. /\ place \in {"idle", "fetched", "next", "claimed", "saved"}
          /\ Len(q) = IF place \in {"claimed", "saved"} THEN 1 ELSE 0
          /\ s = Bot => place \in {"idle", "claimed"}
          /\ pc' = [pc EXCEPT ![s] = place]
      BY <2>1, <3>1
    <3> QED
      BY <3>1, <3>2, SaverMoves, SoundParts
  <2>3. \A r \in Savers : Holds(r)' => r # s /\ Holds(r) /\ Mine(r)' = Mine(r)
                                       /\ pc'[r] = pc[r]
    BY <2>1 DEF Holds, Mine, Sound, TypeOK
  <2>4. \A r \in Savers : pc'[r] = "claimed" => Holds(r)'
    BY DEF Holds
  <2>5. \A r \in Savers : pc'[r] = "claimed" =>
          pc[r] = "claimed" /\ Mine(r)' = Mine(r) /\ Mine(r).id # n.id
    BY <1>1, <2>3, <2>4 DEF Sound, IdsOK, Holds
  <2>6. \A r \in Savers : Holds(r)' => Holds(r) /\ Mine(r)' = Mine(r)
    BY <2>3
  <2>7. IdsOK'
    BY <1>1, <1>2, <1>8, <2>5, <2>6, IdsKept, SoundParts
  <2> QED
    BY <1>7, <1>9, <2>2, <2>7, SoundWhole
<1>11. CASE s # Bot
  <2>1. pc' = [pc EXCEPT ![s] = "saved"] /\ job' = job
    BY <1>11 DEF Store, Go
  <2>2. SaversOK'
    BY <1>1, <1>11, <2>1 DEF SaversOK, Sound, TypeOK
  <2>3. \A r \in Savers : /\ Holds(r)' <=> Holds(r)
                          /\ Mine(r)' = Mine(r)
                          /\ pc'[r] = "claimed" => r # s /\ pc[r] = "claimed"
    BY <1>1, <2>1 DEF Holds, Mine, Sound, TypeOK
  <2>4. \A r \in Savers : pc'[r] = "claimed" =>
          pc[r] = "claimed" /\ Mine(r)' = Mine(r) /\ Mine(r).id # n.id
    BY <1>1, <2>3 DEF Sound, IdsOK, Holds
  <2>5. \A r \in Savers : Holds(r)' => Holds(r) /\ Mine(r)' = Mine(r)
    BY <2>3
  <2>6. IdsOK'
    BY <1>1, <1>2, <1>8, <2>4, <2>5, IdsKept, SoundParts
  <2> QED
    BY <1>7, <1>9, <2>2, <2>6, SoundWhole
<1> QED
  BY <1>10, <1>11

LEMMA StoreFailsFacts ==
  ASSUME Sound, NEW s \in Savers, StoreFails(s)
  PROVE  /\ pc[s] = "claimed" /\ Mine(s) \in Note /\ Fail
         /\ pc' = [pc EXCEPT ![s] = After(s)] /\ job' = [job EXCEPT ![s] = <<>>]
         /\ \/ UNCHANGED <<notes, index, count, filed, skewed>>
            \/ \E times \in 1..2 : Stored(Mine(s), times)
         /\ unique' \in {unique, unique \ {KeyOf(Mine(s))}}
         /\ loose' \in {loose, loose \cup {KeyOf(Mine(s))}}
         /\ overlap' \in BOOLEAN
         /\ UNCHANGED <<watermark, delivery, feed, todo, latest, del, week, nextId,
                        rates, backdated>>
<1>1. /\ pc[s] = "claimed" /\ Mine(s) \in Note /\ Fail
      /\ pc' = [pc EXCEPT ![s] = After(s)] /\ job' = [job EXCEPT ![s] = <<>>]
      /\ UNCHANGED <<watermark, delivery, feed, todo, latest, del, week, nextId,
                     rates, backdated>>
  BY HeldFacts DEF StoreFails, Go, Holds, Sound
<1>2. PICK times \in 0..2, freed \in BOOLEAN :
        /\ IF times = 0 THEN UNCHANGED <<notes, index, count, filed, skewed>>
           ELSE Stored(Mine(s), times)
        /\ unique' = IF freed THEN Released(Mine(s)) ELSE unique
        /\ loose' = IF freed = (times = 0) THEN loose ELSE loose \cup {KeyOf(Mine(s))}
        /\ overlap' = (overlap \/ (times # 0 /\ del # NoDelete))
  BY DEF StoreFails, Mine
<1>3. \/ UNCHANGED <<notes, index, count, filed, skewed>>
      \/ \E k \in 1..2 : Stored(Mine(s), k)
  <2>1. CASE times = 0
    BY <1>2, <2>1
  <2>2. CASE times # 0
    <3>1. times \in 1..2 /\ Stored(Mine(s), times)
      BY <1>2, <2>2
    <3> QED
      BY <3>1
  <2> QED
    BY <2>1, <2>2
<1>4. /\ unique' \in {unique, unique \ {KeyOf(Mine(s))}}
      /\ loose' \in {loose, loose \cup {KeyOf(Mine(s))}}
  BY <1>2 DEF Released
<1>5. overlap' \in BOOLEAN
  BY <1>2, SoundParts DEF BoundsOK
<1> QED
  BY <1>1, <1>3, <1>4, <1>5

LEMMA StoreFailsSound ==
  ASSUME Sound, NEW s \in Savers, StoreFails(s)
  PROVE  Sound'
<1> DEFINE n == Mine(s)
<1>1. /\ pc[s] = "claimed" /\ n \in Note /\ Fail
      /\ pc' = [pc EXCEPT ![s] = After(s)] /\ job' = [job EXCEPT ![s] = <<>>]
      /\ \/ UNCHANGED <<notes, index, count, filed, skewed>>
         \/ \E times \in 1..2 : Stored(n, times)
      /\ unique' \in {unique, unique \ {KeyOf(n)}} /\ loose' \in {loose, loose \cup {KeyOf(n)}}
      /\ overlap' \in BOOLEAN
      /\ UNCHANGED <<watermark, delivery, feed, todo, latest, del, week, nextId,
                     rates, backdated>>
  BY StoreFailsFacts
<1> HIDE DEF n
<1>2. faults' \in 0..MaxFaults /\ unique' \subseteq unique
  BY <1>1, FailFacts DEF Sound
<1>3. /\ \A m \in notes : m.id # n.id
      /\ n.id < nextId /\ n.week <= week
  BY <1>1, SoundParts DEF IdsOK, Holds, n
<1>4. After(s) \in {"idle", "fetched", "next"} /\ (s = Bot => After(s) = "idle")
  BY DEF After
<1>5. SaversOK'
  <2> DEFINE q == <<>>
  <2>1. q \in Seq(Note) /\ Len(q) = 0 /\ job' = [job EXCEPT ![s] = q]
    BY <1>1
  <2> HIDE DEF q
  <2>2. /\ After(s) \in {"idle", "fetched", "next", "claimed", "saved"}
        /\ Len(q) = IF After(s) \in {"claimed", "saved"} THEN 1 ELSE 0
        /\ s = Bot => After(s) \in {"idle", "claimed"}
    BY <1>4, <2>1
  <2> QED
    BY <1>1, <2>1, <2>2, SaverMoves, SoundParts
<1>6. \A r \in Savers : Holds(r)' => r # s /\ Holds(r) /\ Mine(r)' = Mine(r)
                                     /\ pc'[r] = pc[r]
  BY <1>1, <1>4, SoundParts DEF Holds, Mine, SaversOK
<1>7. \A r \in Savers : pc'[r] = "claimed" =>
        pc[r] = "claimed" /\ Mine(r)' = Mine(r) /\ Mine(r).id # n.id
  <2>1. \A r \in Savers : pc'[r] = "claimed" => Holds(r)'
    BY DEF Holds
  <2> QED
    BY <1>1, <1>6, <2>1, SoundParts DEF IdsOK, Holds, n
<1>8. /\ notes' \subseteq notes \cup {n}
      /\ StoreOK' /\ skewed' \subseteq Films \cup Watchers
  <2>1. CASE UNCHANGED <<notes, index, count, filed, skewed>>
    BY <1>2, <2>1, SoundParts DEF StoreOK, BoundsOK
  <2>2. CASE \E times \in 1..2 : Stored(n, times)
    <3> PICK times \in 1..2 : Stored(n, times)
      BY <2>2
    <3>1. times \in 0..2
      OBVIOUS
    <3>2. StoreOK' /\ skewed' \subseteq Films \cup Watchers
      BY <1>1, <1>2, <1>3, <3>1, StoredSound
    <3> QED
      BY <3>2 DEF Stored
  <2> QED
    BY <1>1, <2>1, <2>2
<1>9. IdsOK'
  BY <1>1, <1>2, <1>3, <1>6, <1>7, <1>8, IdsKept, SoundParts
<1>10. FeedOK' /\ NewestThere'
  BY <1>1, SoundParts DEF FeedOK, NewestThere
<1>11. DeliveryOK'
  BY <1>1, SoundParts DEF DeliveryOK, delivery
<1>12. DeletionOK'
  <2>1. pc[Bot] = "idle" => pc'[Bot] = "idle"
    BY <1>1, SoundParts DEF SaversOK
  <2> QED
    BY <1>1, <2>1, SoundParts DEF DeletionOK
<1>13. BoundsOK'
  <2>1. loose' \subseteq Films \X Watchers \X (0..MaxWeek)
    BY <1>1, KeyOfNote, SoundParts DEF BoundsOK
  <2> QED
    BY <1>1, <1>2, <1>8, <2>1, SoundParts DEF BoundsOK
<1> QED
  BY <1>5, <1>8, <1>9, <1>10, <1>11, <1>12, <1>13, SoundWhole

LEMMA RateSound ==
  ASSUME Sound, NEW f \in Films, NEW w \in Watchers, Rate(f, w)
  PROVE  Sound'
<1>1. /\ pc[Bot] = "idle" /\ del = NoDelete /\ Claim(Bot, f, w)
      /\ UNCHANGED <<notes, index, count, watermark, delivery, feed, todo, latest,
                     del, week, backdated, filed, overlap, skewed>>
      /\ Bot \in Savers
  BY DEF Rate, Savers
<1>2. rates' \in 0..MaxRates
  BY LogAssumption DEF Rate, Sound, TypeOK
<1>3. /\ SaversOK' /\ IdsOK' /\ nextId' \in Nat
      /\ unique' \subseteq Films \X Watchers \X (0..MaxWeek)
      /\ loose' \subseteq Films \X Watchers \X (0..MaxWeek) /\ faults' \in 0..MaxFaults
  BY <1>1, ClaimSound
<1>4. StoreOK'
  BY <1>1, <1>3, SoundParts DEF StoreOK
<1>5. FeedOK'
  BY <1>1, SoundParts DEF FeedOK
<1>6. DeliveryOK'
  BY <1>1, SoundParts DEF DeliveryOK, delivery
<1>7. DeletionOK'
  BY <1>1, SoundParts DEF DeletionOK
<1>8. BoundsOK'
  BY <1>1, <1>2, <1>3, SoundParts DEF BoundsOK
<1>9. NewestThere'
  BY <1>1, SoundParts DEF NewestThere
<1> QED
  BY <1>3, <1>4, <1>5, <1>6, <1>7, <1>8, <1>9, SoundWhole

-----------------------------------------------------------------------------
(* /unrate, the syncs, and the rest.                                       *)

\* Steps that leave the savers alone.
LEMMA SaversSame ==
  ASSUME Sound, UNCHANGED <<pc, job, nextId>>, notes' \subseteq notes,
         unique' \subseteq unique, week' = week \/ week' = week + 1
  PROVE  SaversOK' /\ IdsOK'
<1>1. SaversOK'
  BY SoundParts DEF SaversOK
<1>2. \A r \in Savers : (Holds(r)' <=> Holds(r)) /\ Mine(r)' = Mine(r)
  BY DEF Holds, Mine
<1>3. \A s \in Savers : Holds(s) => Mine(s).week \in Nat
  BY HeldFacts, LogAssumption DEF Sound, Note
<1>4. \A n \in notes : n.week \in Nat
  BY LogAssumption DEF Sound, TypeOK, Note
<1>5. week \in Nat /\ \A k \in Nat : k <= week => k <= week'
  BY LogAssumption DEF Sound, TypeOK
<1>6. MaxWeek \in Nat
  BY LogAssumption
<1>7. \A n \in notes' : n.id < nextId' /\ n.week <= week'
  BY <1>4, <1>5 DEF Sound, IdsOK
<1>8. \A s \in Savers : Holds(s)' => Mine(s)'.id < nextId' /\ Mine(s)'.week <= week'
  BY <1>2, <1>3, <1>5 DEF Sound, IdsOK
<1>9. \A s \in Savers, n \in notes' : pc'[s] = "claimed" => Mine(s)'.id # n.id
  BY <1>2 DEF Sound, IdsOK
<1>10. \A s, r \in Savers : Holds(s)' /\ Holds(r)' /\ Mine(s)'.id = Mine(r)'.id => s = r
  BY <1>2 DEF Sound, IdsOK
<1>11. \A f \in Films, w \in Watchers, k \in 0..MaxWeek :
         <<f, w, k>> \in unique' => k <= week'
  BY <1>5, <1>6 DEF Sound, IdsOK
<1> QED
  BY <1>1, <1>7, <1>8, <1>9, <1>10, <1>11 DEF IdsOK

LEMMA UnrateFacts ==
  ASSUME Sound, NEW f \in Films, NEW w \in Watchers, Unrate(f, w)
  PROVE  /\ pc[Bot] = "idle" /\ del = NoDelete
         /\ \E n \in notes \cap index[f] :
              /\ n.watcher = w /\ \A m \in index[f] : m.watcher = w => m.id <= n.id
              /\ del' = [at |-> "found", note |-> n, axis |-> f] /\ del' \in Deletion
<1>1. PICK n \in index[f] :
        /\ n \in notes /\ n.watcher = w
        /\ \A m \in index[f] : m.watcher = w => m.id <= n.id
        /\ del' = [at |-> "found", note |-> n, axis |-> f]
  BY DEF Unrate
<1>2. n \in Note
  BY <1>1 DEF Sound, TypeOK
<1>3. pc[Bot] = "idle" /\ del = NoDelete
  BY DEF Unrate
<1>4. del' \in Deletion
  BY <1>1, <1>2 DEF Deletion
<1> QED
  BY <1>1, <1>3, <1>4

\* A deletion goes on at one of its places, and keeps its note.
LEMMA StepFacts ==
  ASSUME Sound, del # NoDelete,
         \/ \E place \in {"count", "stats", "card", "index", "key"} : Step(place)
         \/ NextAxis
  PROVE  /\ del' \in Deletion /\ del'.note = del.note /\ del' # NoDelete
         /\ del'.at \in {"count", "stats", "card", "index", "key"}
<1>1. /\ del \in Deletion /\ del.note \in Note /\ del.axis \in Films \cup Watchers
      /\ del.note.watcher \in Watchers
  BY DeletionFacts DEF Sound, TypeOK, Deletion, Note
<1>2. /\ del' \in Deletion /\ del'.note = del.note
      /\ del'.at \in {"count", "stats", "card", "index", "key"}
  <2>1. ASSUME NEW place \in {"count", "stats", "card", "index", "key"}, Step(place)
        PROVE  /\ del' \in Deletion /\ del'.note = del.note
               /\ del'.at \in {"count", "stats", "card", "index", "key"}
    BY <1>1, <2>1 DEF Step, Deletion
  <2>2. CASE NextAxis
    BY <1>1, <2>2 DEF NextAxis, Step, Deletion
  <2> QED
    BY <2>1, <2>2
<1> QED
  BY <1>2, DeletionFacts

\* What a deletion that stops leaves loose is a key.
LEMMA CutShortFacts ==
  ASSUME Sound
  PROVE  CutShort \subseteq Films \X Watchers \X (0..MaxWeek)
<1>1. loose \subseteq Films \X Watchers \X (0..MaxWeek)
  BY SoundParts DEF BoundsOK
<1>2. CASE del.at \in {"none", "found"}
  BY <1>1, <1>2 DEF CutShort
<1>3. CASE del.at \notin {"none", "found"}
  <2>1. del.note \in Note
    BY <1>3, DeletionFacts, SoundParts DEF DeletionOK, Deletion
  <2> QED
    BY <1>1, <1>3, <2>1, KeyOfNote DEF CutShort
<1> QED
  BY <1>2, <1>3

LEMMA EraseFacts ==
  ASSUME Sound, Erase
  PROVE  /\ count' \in [Films \cup Watchers -> Int]
         /\ index' \in [Films \cup Watchers -> SUBSET Note]
         /\ faults' \in 0..MaxFaults /\ skewed' \subseteq Films \cup Watchers
         /\ notes' \subseteq notes
<1>1. del.at = "found" /\ del.note \in Note
  BY DeletionFacts, SoundParts DEF Erase, DeletionOK, Deletion
<1>2. Axes(del.note) \subseteq Films \cup Watchers
  BY <1>1 DEF Note, Axes
<1>3. /\ count' = Counted(del.note, -1) \/ count' = Counted(del.note, -2)
      /\ Fail \/ UNCHANGED faults
      /\ skewed' \in {skewed, skewed \cup Axes(del.note)}
  BY DEF Erase, Skew
<1>4. count' \in [Films \cup Watchers -> Int]
  BY <1>3, SoundParts DEF Counted, StoreOK
<1>5. faults' \in 0..MaxFaults
  BY <1>3, FailFacts, SoundParts DEF BoundsOK, Sound
<1>6. skewed' \subseteq Films \cup Watchers
  BY <1>2, <1>3, SoundParts DEF BoundsOK
<1>7. index' \in [Films \cup Watchers -> SUBSET Note] /\ notes' \subseteq notes
  BY SoundParts DEF Erase, StoreOK
<1> QED
  BY <1>4, <1>5, <1>6, <1>7

LEMMA UnrateSound ==
  ASSUME Sound,
         \/ \E f \in Films, w \in Watchers : Unrate(f, w)
         \/ Erase \/ Tidy \/ FreeKey \/ DeleteStops
  PROVE  Sound'
<1>1. /\ UNCHANGED <<watermark, delivery, feed, sync, week, nextId, backdated, filed>>
      /\ notes' \subseteq notes /\ unique' \subseteq unique
      /\ index' \in [Films \cup Watchers -> SUBSET Note]
      /\ count' \in [Films \cup Watchers -> Int]
      /\ rates' \in 0..MaxRates /\ overlap' \in BOOLEAN /\ faults' \in 0..MaxFaults
      /\ loose' \subseteq Films \X Watchers \X (0..MaxWeek)
      /\ skewed' \subseteq Films \cup Watchers
  <2>0. StoreOK /\ BoundsOK
    BY SoundParts
  <2>1. ASSUME NEW f \in Films, NEW w \in Watchers, Unrate(f, w)
        PROVE  /\ UNCHANGED <<watermark, delivery, feed, sync, week, nextId, backdated, filed>>
               /\ UNCHANGED <<notes, index, count, unique, faults, loose, skewed>>
               /\ rates' \in 0..MaxRates /\ overlap' \in BOOLEAN
    <3>1. rates' \in 0..MaxRates
      BY <2>1, LogAssumption DEF Unrate, Sound, TypeOK
    <3>2. overlap' \in BOOLEAN
      BY <2>1 DEF Unrate, Sound, TypeOK
    <3> QED
      BY <2>1, <3>1, <3>2 DEF Unrate, store
  <2>2. CASE Erase
    <3>1. /\ UNCHANGED <<watermark, delivery, feed, sync, week, nextId, backdated, filed>>
          /\ UNCHANGED <<unique, rates, overlap, loose>>
      BY <2>2 DEF Erase
    <3> QED
      BY <2>0, <2>2, <3>1, EraseFacts DEF BoundsOK
  <2>3. CASE Tidy
    BY <2>3, <2>0 DEF Tidy, StoreOK, BoundsOK, ghosts
  <2>4. CASE FreeKey
    BY <2>4, <2>0 DEF FreeKey, StoreOK, BoundsOK, ghosts
  <2>5. CASE DeleteStops
    <3>1. /\ UNCHANGED <<watermark, delivery, feed, sync, week, nextId, backdated, filed>>
          /\ UNCHANGED <<notes, index, count, unique, rates, overlap, skewed>>
          /\ loose' = CutShort
      BY <2>5 DEF DeleteStops, store
    <3>2. faults' \in 0..MaxFaults
      BY <2>5, FailFacts DEF DeleteStops, Sound
    <3> QED
      BY <2>0, <3>1, <3>2, CutShortFacts DEF StoreOK, BoundsOK
  <2> QED
    BY <2>0, <2>1, <2>2, <2>3, <2>4, <2>5 DEF StoreOK, BoundsOK
<1>2. DeletionOK'
  <2>1. pc' = pc
    BY <1>1 DEF sync
  <2>2. ASSUME NEW f \in Films, NEW w \in Watchers, Unrate(f, w)
        PROVE  DeletionOK'
    BY <2>1, <2>2, UnrateFacts DEF DeletionOK
  <2>3. CASE Erase \/ Tidy
    <3>1. del # NoDelete
      BY <2>3 DEF Erase, Tidy, NoDelete
    <3>2. \/ \E place \in {"count", "stats", "card", "index", "key"} : Step(place)
          \/ NextAxis
      BY <2>3 DEF Erase, Tidy
    <3> QED
      BY <2>1, <3>1, <3>2, StepFacts, SoundParts DEF DeletionOK
  <2>4. CASE FreeKey \/ DeleteStops
    BY <2>4 DEF FreeKey, DeleteStops, DeletionOK
  <2> QED
    BY <2>2, <2>3, <2>4
<1>3. SaversOK' /\ IdsOK'
  BY <1>1, SaversSame DEF sync
<1>4. StoreOK'
  BY <1>1, SoundParts DEF StoreOK
<1>5. FeedOK' /\ NewestThere'
  BY <1>1, SoundParts DEF FeedOK, NewestThere, sync
<1>6. DeliveryOK'
  BY <1>1, SoundParts DEF DeliveryOK, delivery
<1>7. BoundsOK'
  BY <1>1, SoundParts DEF BoundsOK
<1> QED
  BY <1>2, <1>3, <1>4, <1>5, <1>6, <1>7, SoundWhole

\* The newest key of some entries is the key of one of them.
LEMMA NewestFacts ==
  ASSUME Sound, NEW S \in SUBSET feed
  PROVE  /\ Newest(S) \in {0} \cup {Key(e) : e \in S}
         /\ \A e \in S : Key(e) <= Newest(S)
<1>1. \E k \in {0} \cup {Key(e) : e \in S} : \A e \in S : Key(e) <= k
  <2>1. CASE S = {}
    BY <2>1
  <2>2. CASE S # {}
    <3> PICK e \in S : \A d \in S : Key(d) <= Key(e)
      BY <2>2 DEF Sound, NewestThere
    <3> QED
      OBVIOUS
  <2> QED
    BY <2>1, <2>2
<1> QED
  BY <1>1 DEF Newest

LEMMA KeyFacts ==
  ASSUME NEW e \in Entries
  PROVE  Key(e) \in Nat /\ e.watched \in Nat /\ (e.watched # 0 => Key(e) = e.watched)
BY LogAssumption DEF Key

LEMMA FetchSound ==
  ASSUME Sound, NEW s \in Savers, Fetch(s)
  PROVE  Sound'
<1>1. /\ pc[s] = "idle" /\ s # Bot /\ todo' = [todo EXCEPT ![s] = feed]
      /\ pc' = [pc EXCEPT ![s] = "fetched"]
      /\ UNCHANGED <<store, watermark, delivery, feed, job, latest, del, week,
                     nextId, rates, faults, ghosts>>
  BY DEF Fetch, Go
<1>2. SaversOK /\ Bot \in Savers
  BY SoundParts DEF Savers
<1>3. SaversOK'
  BY <1>1, <1>2 DEF SaversOK
<1>4. \A r \in Savers : /\ Holds(r)' <=> Holds(r)
                        /\ Mine(r)' = Mine(r)
                        /\ pc'[r] = "claimed" => pc[r] = "claimed"
  BY <1>1, <1>2 DEF Holds, Mine, SaversOK
<1>5. IdsOK'
  BY <1>1, <1>4, SoundParts DEF IdsOK, store
<1>6. todo' \in [Savers -> SUBSET feed']
  BY <1>1, SoundParts DEF FeedOK
<1>7. pc'[Bot] = pc[Bot]
  BY <1>1, <1>2 DEF SaversOK
<1>8. StoreOK' /\ FeedOK' /\ DeliveryOK' /\ DeletionOK' /\ BoundsOK' /\ NewestThere'
  BY <1>1, <1>6, <1>7, SoundParts
     DEF StoreOK, FeedOK, DeliveryOK, DeletionOK, BoundsOK, NewestThere, store, delivery,
         ghosts
<1> QED
  BY <1>3, <1>5, <1>8, SoundWhole

LEMMA CompareSound ==
  ASSUME Sound, NEW s \in Savers, Compare(s)
  PROVE  Sound'
<1> DEFINE fresh == {e \in todo[s] : New(e)}
<1>1. /\ pc[s] = "fetched" /\ todo' = [todo EXCEPT ![s] = fresh]
      /\ latest' = [latest EXCEPT ![s] = Newest(fresh)]
      /\ pc' = [pc EXCEPT ![s] = IF fresh = {} THEN "idle" ELSE "next"]
      /\ UNCHANGED <<store, watermark, delivery, feed, job, del, week, nextId,
                     rates, faults, ghosts>>
  BY DEF Compare, Go
<1>2. SaversOK /\ Bot \in Savers /\ s # Bot
  BY <1>1, SoundParts DEF Savers, SaversOK
<1>3. fresh \in SUBSET feed
  BY SoundParts DEF FeedOK
<1>4. Newest(fresh) \in {0} \cup {Key(e) : e \in feed}
  BY <1>3, NewestFacts
<1> HIDE DEF fresh
<1>5. SaversOK'
  BY <1>1, <1>2 DEF SaversOK
<1>6. \A r \in Savers : /\ Holds(r)' <=> Holds(r)
                        /\ Mine(r)' = Mine(r)
                        /\ pc'[r] = "claimed" => pc[r] = "claimed"
  BY <1>1, <1>2 DEF Holds, Mine, SaversOK
<1>7. IdsOK'
  BY <1>1, <1>6, SoundParts DEF IdsOK, store
<1>8. /\ todo' \in [Savers -> SUBSET feed']
      /\ latest' \in [Savers -> {0} \cup {Key(e) : e \in feed'}]
  <2>1. feed' = feed
    BY <1>1
  <2>2. todo \in [Savers -> SUBSET feed] /\ latest \in [Savers -> {0} \cup {Key(e) : e \in feed}]
    BY SoundParts DEF FeedOK
  <2> QED
    BY <1>1, <1>3, <1>4, <2>1, <2>2
<1>9. pc'[Bot] = pc[Bot]
  BY <1>1, <1>2 DEF SaversOK
<1>10. StoreOK' /\ FeedOK' /\ DeliveryOK' /\ DeletionOK' /\ BoundsOK' /\ NewestThere'
  <2>1. FeedOK' /\ NewestThere'
    BY <1>1, <1>8, SoundParts DEF FeedOK, NewestThere, ghosts
  <2>2. StoreOK' /\ DeliveryOK' /\ DeletionOK' /\ BoundsOK'
    BY <1>1, <1>9, SoundParts
       DEF StoreOK, DeliveryOK, DeletionOK, BoundsOK, store, delivery, ghosts
  <2> QED
    BY <2>1, <2>2
<1> QED
  BY <1>5, <1>7, <1>10, SoundWhole

LEMMA SaveEntrySound ==
  ASSUME Sound, NEW s \in Savers, SaveEntry(s)
  PROVE  Sound'
<1> PICK e \in todo[s] :
      /\ todo' = [todo EXCEPT ![s] = @ \ {e}]
      /\ IF e.rated THEN Claim(s, e.film, SyncWatcher)
         ELSE UNCHANGED <<pc, unique, job, nextId, faults, loose>>
  BY DEF SaveEntry
<1>1. /\ pc[s] = "next" /\ overlap' = (overlap \/ del # NoDelete)
      /\ UNCHANGED <<notes, index, count, watermark, delivery, feed, latest, del,
                     week, rates, backdated, filed, skewed>>
  BY DEF SaveEntry
<1>2. SaversOK /\ Bot \in Savers /\ s # Bot
  BY <1>1, SoundParts DEF Savers, SaversOK
<1>3. e \in Entries /\ e.film \in Films /\ SyncWatcher \in Watchers
  BY SoundParts, LogAssumption DEF FeedOK
<1>4. /\ SaversOK' /\ IdsOK' /\ nextId' \in Nat
      /\ unique' \subseteq Films \X Watchers \X (0..MaxWeek)
      /\ loose' \subseteq Films \X Watchers \X (0..MaxWeek) /\ faults' \in 0..MaxFaults
  <2>1. CASE e.rated
    BY <1>1, <1>3, <2>1, ClaimSound
  <2>2. CASE ~e.rated
    <3>1. UNCHANGED <<pc, unique, job, nextId, notes, week, faults, loose>>
      BY <1>1, <2>2
    <3>2. SaversOK' /\ IdsOK'
      BY <3>1, SaversSame
    <3> QED
      BY <3>1, <3>2, SoundParts DEF BoundsOK, StoreOK
  <2> QED
    BY <2>1, <2>2
<1>5. pc'[Bot] = pc[Bot]
  <2>1. pc' = pc \/ \E place : pc' = [pc EXCEPT ![s] = place]
    BY DEF Claim, Go
  <2> QED
    BY <1>2, <2>1 DEF SaversOK
<1>6. todo' \in [Savers -> SUBSET feed']
  BY <1>1, SoundParts DEF FeedOK
<1>7. overlap' \in BOOLEAN
  BY <1>1, SoundParts DEF BoundsOK
<1>8. StoreOK'
  BY <1>1, <1>4, SoundParts DEF StoreOK
<1>9. FeedOK' /\ NewestThere'
  BY <1>1, <1>6, SoundParts DEF FeedOK, NewestThere
<1>10. DeliveryOK'
  BY <1>1, SoundParts DEF DeliveryOK, delivery
<1>11. DeletionOK'
  BY <1>1, <1>5, SoundParts DEF DeletionOK
<1>12. BoundsOK'
  BY <1>1, <1>4, <1>7, SoundParts DEF BoundsOK
<1> QED
  BY <1>4, <1>8, <1>9, <1>10, <1>11, <1>12, SoundWhole

LEMMA AnnouncedFacts ==
  ASSUME Sound, NEW n \in Note, NEW copies \in 0..2
  PROVE  Announced(n, copies) \in Seq(Announcement)
<1> DEFINE more == [c \in 1..copies |-> [note |-> n, copy |-> c]]
<1>1. \A c \in 1..copies : [note |-> n, copy |-> c] \in Announcement
  BY DEF Announcement
<1>2. more \in Seq(Announcement)
  BY <1>1
<1> HIDE DEF more
<1>3. queue \in Seq(Announcement)
  BY SoundParts DEF DeliveryOK
<1>4. queue \o more \in Seq(Announcement)
  BY <1>2, <1>3
<1> QED
  BY <1>4 DEF Announced, more

LEMMA PublishSound ==
  ASSUME Sound, NEW s \in Savers, Publish(s)
  PROVE  Sound'
<1>1. /\ pc[s] = "saved" /\ job' = [job EXCEPT ![s] = <<>>]
      /\ pc' = [pc EXCEPT ![s] = "next"]
      /\ UNCHANGED <<store, watermark, taken, posted, feed, todo, latest, del, week,
                     nextId, rates, ghosts>>
  BY DEF Publish, Go
<1>2. s # Bot /\ Bot \in Savers /\ Mine(s) \in Note
  BY <1>1, HeldFacts, SoundParts DEF Savers, SaversOK, Sound, Holds
<1>3. SaversOK' /\ IdsOK'
  <2> PICK place : place = "next"
    OBVIOUS
  <2>1. /\ place \in {"idle", "fetched", "next"} /\ pc' = [pc EXCEPT ![s] = place]
        /\ s = Bot => place = "idle"
    BY <1>1, <1>2
  <2>2. notes' \subseteq notes /\ unique' \subseteq unique /\ UNCHANGED <<week, nextId>>
    BY <1>1 DEF store
  <2> QED
    BY <1>1, <2>1, <2>2, LetGoSound
<1>4. queue' \in Seq(Announcement) /\ faults' \in 0..MaxFaults
  <2>1. /\ \E copies \in 0..2 : queue' = Announced(Mine(s), copies)
        /\ Fail \/ UNCHANGED faults
    BY DEF Publish, Mine
  <2>2. queue' \in Seq(Announcement)
    BY <1>2, <2>1, AnnouncedFacts
  <2>3. faults' \in 0..MaxFaults
    BY <2>1, FailFacts, SoundParts DEF BoundsOK, Sound
  <2> QED
    BY <2>2, <2>3
<1>5. pc'[Bot] = pc[Bot]
  BY <1>1, <1>2, SoundParts DEF SaversOK
<1>6. StoreOK' /\ FeedOK' /\ NewestThere'
  BY <1>1, SoundParts DEF StoreOK, FeedOK, NewestThere, store, ghosts
<1>7. DeliveryOK' /\ DeletionOK' /\ BoundsOK'
  BY <1>1, <1>4, <1>5, SoundParts DEF DeliveryOK, DeletionOK, BoundsOK, ghosts
<1> QED
  BY <1>3, <1>6, <1>7, SoundWhole

LEMMA AdvanceSound ==
  ASSUME Sound, NEW s \in Savers, Advance(s)
  PROVE  Sound'
<1>1. /\ pc[s] = "next" /\ watermark' = latest[s] /\ latest' = [latest EXCEPT ![s] = 0]
      /\ pc' = [pc EXCEPT ![s] = "idle"]
      /\ UNCHANGED <<store, delivery, feed, todo, job, del, week, nextId, rates,
                     faults, ghosts>>
  BY DEF Advance, Go
<1>2. SaversOK /\ Bot \in Savers /\ s # Bot
  BY <1>1, SoundParts DEF Savers, SaversOK
<1>3. SaversOK'
  BY <1>1, <1>2 DEF SaversOK
<1>4. \A r \in Savers : /\ Holds(r)' <=> Holds(r)
                        /\ Mine(r)' = Mine(r)
                        /\ pc'[r] = "claimed" => pc[r] = "claimed"
  BY <1>1, <1>2 DEF Holds, Mine, SaversOK
<1>5. IdsOK'
  BY <1>1, <1>4, SoundParts DEF IdsOK, store
<1>6. pc'[Bot] = pc[Bot]
  BY <1>1, <1>2 DEF SaversOK
<1>7. FeedOK' /\ NewestThere'
  <2>1. feed' = feed
    BY <1>1
  <2>2. /\ latest \in [Savers -> {0} \cup {Key(e) : e \in feed}]
        /\ latest' = [latest EXCEPT ![s] = 0] /\ watermark' = latest[s]
    BY <1>1, SoundParts DEF FeedOK
  <2>3. /\ latest' \in [Savers -> {0} \cup {Key(e) : e \in feed'}]
        /\ watermark' \in {0} \cup {Key(e) : e \in feed'}
    BY <2>1, <2>2
  <2> QED
    BY <1>1, <2>1, <2>3, SoundParts DEF FeedOK, NewestThere, ghosts
<1>8. StoreOK' /\ DeliveryOK' /\ DeletionOK' /\ BoundsOK'
  BY <1>1, <1>6, SoundParts
     DEF StoreOK, DeliveryOK, DeletionOK, BoundsOK, store, delivery, ghosts
<1> QED
  BY <1>3, <1>5, <1>7, <1>8, SoundWhole

LEMMA SyncFailsSound ==
  ASSUME Sound, NEW s \in Savers, SyncFails(s)
  PROVE  Sound'
<1>1. /\ pc[s] \in {"fetched", "next"} /\ latest' = [latest EXCEPT ![s] = 0]
      /\ todo' = [todo EXCEPT ![s] = {}] /\ pc' = [pc EXCEPT ![s] = "idle"] /\ Fail
      /\ UNCHANGED <<store, watermark, delivery, feed, job, del, week, nextId, rates,
                     ghosts>>
  BY DEF SyncFails, Go
<1>2. SaversOK /\ Bot \in Savers /\ s # Bot
  BY <1>1, SoundParts DEF Savers, SaversOK
<1>3. SaversOK'
  BY <1>1, <1>2 DEF SaversOK
<1>4. \A r \in Savers : /\ Holds(r)' <=> Holds(r)
                        /\ Mine(r)' = Mine(r)
                        /\ pc'[r] = "claimed" => pc[r] = "claimed"
  BY <1>1, <1>2 DEF Holds, Mine, SaversOK
<1>5. IdsOK'
  BY <1>1, <1>4, SoundParts DEF IdsOK, store
<1>6. pc'[Bot] = pc[Bot] /\ faults' \in 0..MaxFaults
  BY <1>1, <1>2, FailFacts DEF SaversOK, Sound
<1>7. FeedOK' /\ NewestThere'
  <2>1. feed' = feed
    BY <1>1
  <2>2. /\ latest \in [Savers -> {0} \cup {Key(e) : e \in feed}]
        /\ todo \in [Savers -> SUBSET feed]
    BY SoundParts DEF FeedOK
  <2>3. /\ latest' \in [Savers -> {0} \cup {Key(e) : e \in feed'}]
        /\ todo' \in [Savers -> SUBSET feed']
    BY <1>1, <2>1, <2>2
  <2> QED
    BY <1>1, <2>1, <2>3, SoundParts DEF FeedOK, NewestThere, ghosts
<1>8. StoreOK' /\ DeliveryOK' /\ DeletionOK' /\ BoundsOK'
  BY <1>1, <1>6, SoundParts
     DEF StoreOK, DeliveryOK, DeletionOK, BoundsOK, store, delivery, ghosts
<1> QED
  BY <1>3, <1>5, <1>7, <1>8, SoundWhole

LEMMA DeliverySound ==
  ASSUME Sound, Take \/ Post
  PROVE  Sound'
<1>1. /\ UNCHANGED <<store, watermark, feed, sync, del, week, nextId, rates, ghosts>>
      /\ queue' \in Seq(Announcement) /\ taken' \in Seq(Announcement) /\ posted' \in Seq(Announcement)
      /\ Len(taken') <= 1 /\ faults' \in 0..MaxFaults
  <2>1. CASE Take
    <3> DEFINE q == queue
    <3>1. q \in Seq(Announcement) /\ q # <<>> /\ queue' = Tail(q)
      BY <2>1, SoundParts DEF Take, DeliveryOK
    <3>2. (taken' = <<Head(q)>> /\ UNCHANGED faults) \/ (Fail /\ UNCHANGED taken)
      BY <2>1 DEF Take
    <3>3. /\ UNCHANGED <<store, watermark, posted, feed, sync, del, week, nextId, rates, ghosts>>
          /\ taken \in Seq(Announcement) /\ posted \in Seq(Announcement) /\ Len(taken) <= 1
      BY <2>1, SoundParts DEF Take, DeliveryOK
    <3> HIDE DEF q
    <3>4. Head(q) \in Announcement /\ Tail(q) \in Seq(Announcement)
      BY <3>1
    <3>5. <<Head(q)>> \in Seq(Announcement) /\ Len(<<Head(q)>>) = 1
      BY <3>4
    <3>6. faults' \in 0..MaxFaults
      BY <3>2, FailFacts, SoundParts DEF BoundsOK, Sound
    <3>7. taken' \in Seq(Announcement) /\ Len(taken') <= 1
      <4>1. CASE taken' = <<Head(q)>>
        BY <3>5, <4>1
      <4>2. CASE taken' = taken
        BY <3>3, <4>2
      <4> QED
        BY <3>2, <4>1, <4>2
    <3> QED
      BY <3>1, <3>3, <3>4, <3>6, <3>7
  <2>2. CASE Post
    <3>1. /\ taken' = <<>> /\ queue' = queue
          /\ posted' \in {posted, posted \o taken}
          /\ faults' = faults \/ Fail
      BY <2>2 DEF Post, Unposted
    <3>2. posted \o taken \in Seq(Announcement) /\ <<>> \in Seq(Announcement) /\ Len(<<>>) = 0
      BY SoundParts DEF DeliveryOK
    <3>3. faults' \in 0..MaxFaults
      BY <3>1, SoundParts, LogAssumption DEF Fail, BoundsOK
    <3> QED
      BY <2>2, <3>1, <3>2, <3>3, SoundParts, SMTT(30) DEF Post, DeliveryOK
  <2> QED
    BY <2>1, <2>2
<1>2. SaversOK' /\ IdsOK'
  BY <1>1, SaversSame DEF sync, store
<1>3. StoreOK' /\ FeedOK' /\ NewestThere'
  BY <1>1, SoundParts DEF StoreOK, FeedOK, NewestThere, store, ghosts, sync
<1>4. DeliveryOK' /\ DeletionOK' /\ BoundsOK'
  BY <1>1, SoundParts DEF DeliveryOK, DeletionOK, BoundsOK, ghosts, sync
<1> QED
  BY <1>2, <1>3, <1>4, SoundWhole

LEMMA LogSound ==
  ASSUME Sound, NEW e \in Entries, Log(e)
  PROVE  Sound'
<1>1. /\ feed' = feed \cup {e} /\ backdated' \subseteq backdated \cup {e}
      /\ UNCHANGED <<store, watermark, delivery, sync, del, week, nextId, rates,
                     faults, filed, overlap, loose, skewed>>
  BY DEF Log
<1>2. SaversOK' /\ IdsOK'
  BY <1>1, SaversSame DEF sync, store
<1>3. FeedOK'
  <2>1. {0} \cup {Key(d) : d \in feed} \subseteq {0} \cup {Key(d) : d \in feed'}
    BY <1>1
  <2>2. todo' \in [Savers -> SUBSET feed'] /\ backdated' \subseteq feed'
        /\ feed' \subseteq Entries
    BY <1>1, SoundParts DEF FeedOK, sync
  <2>3. latest' = latest /\ watermark' = watermark
    BY <1>1 DEF sync
  <2>4. /\ latest \in [Savers -> {0} \cup {Key(d) : d \in feed}]
        /\ watermark \in {0} \cup {Key(d) : d \in feed}
    BY SoundParts DEF FeedOK
  <2>5. latest \in [Savers -> {0} \cup {Key(d) : d \in feed'}]
    BY <2>1, <2>4
  <2> QED
    BY <2>1, <2>2, <2>3, <2>4, <2>5 DEF FeedOK
<1>4. NewestThere'
  <2> SUFFICES ASSUME NEW S \in SUBSET (feed \cup {e}), S # {}
               PROVE  \E x \in S : \A d \in S : Key(d) <= Key(x)
    BY <1>1 DEF NewestThere
  <2>1. \A d \in S : Key(d) \in Nat
    BY KeyFacts, SoundParts DEF FeedOK
  <2>2. CASE e \notin S
    BY <2>2, SoundParts DEF NewestThere
  <2>3. CASE S = {e}
    BY <2>1, <2>3
  <2>4. CASE e \in S /\ S \ {e} # {}
    <3> PICK x \in S \ {e} : \A d \in S \ {e} : Key(d) <= Key(x)
      BY <2>4, SoundParts DEF NewestThere
    <3> QED
      BY <2>1, <2>4
  <2> QED
    BY <2>2, <2>3, <2>4
<1>5. StoreOK' /\ DeliveryOK' /\ DeletionOK' /\ BoundsOK'
  BY <1>1, SoundParts
     DEF StoreOK, DeliveryOK, DeletionOK, BoundsOK, store, delivery, sync
<1> QED
  BY <1>2, <1>3, <1>4, <1>5, SoundWhole

LEMMA NewWeekSound ==
  ASSUME Sound, NewWeek
  PROVE  Sound'
<1>1. /\ week' = week + 1 /\ week < MaxWeek
      /\ UNCHANGED <<store, watermark, delivery, feed, sync, del, nextId, rates,
                     faults, ghosts>>
  BY DEF NewWeek
<1>2. SaversOK' /\ IdsOK'
  BY <1>1, SaversSame DEF sync, store
<1>3. week' \in 0..MaxWeek
  BY <1>1, SoundParts, LogAssumption DEF BoundsOK
<1> QED
  BY <1>1, <1>2, <1>3, SoundParts, SoundWhole
     DEF StoreOK, FeedOK, DeliveryOK, DeletionOK, BoundsOK, NewestThere, store, delivery,
         sync, ghosts

LEMMA CrashSound ==
  ASSUME Sound, NEW dead \in {{Bot, "/sync"}, {"cron"}}, Crash(dead)
  PROVE  Sound'
<1>1. /\ faults' = faults + 1 /\ faults < MaxFaults
      /\ pc' = [s \in Savers |-> IF s \in dead THEN "idle" ELSE pc[s]]
      /\ todo' = [s \in Savers |-> IF s \in dead THEN {} ELSE todo[s]]
      /\ job' = [s \in Savers |-> IF s \in dead THEN <<>> ELSE job[s]]
      /\ latest' = [s \in Savers |-> IF s \in dead THEN 0 ELSE latest[s]]
      /\ del' = IF Bot \in dead THEN NoDelete ELSE del
      /\ taken' = IF Bot \in dead THEN <<>> ELSE taken
      /\ loose' = (IF Bot \in dead THEN CutShort ELSE loose)
           \cup {KeyOf(Head(job[s])) : s \in {x \in Savers \cap dead : pc[x] = "claimed"}}
      /\ UNCHANGED <<store, watermark, queue, posted, feed, week, nextId, rates,
                     backdated, filed, overlap, skewed>>
  BY DEF Crash, Fail
<1>2. SaversOK /\ Bot \in Savers
  BY SoundParts DEF Savers
<1>3. SaversOK'
  <2>1. pc' \in [Savers -> {"idle", "fetched", "next", "claimed", "saved"}]
        /\ pc'[Bot] \in {"idle", "claimed"}
    BY <1>1, <1>2 DEF SaversOK
  <2>2. job' \in [Savers -> Seq(Note)]
    <3>1. <<>> \in Seq(Note)
      OBVIOUS
    <3> QED
      BY <1>1, <1>2, <3>1 DEF SaversOK
  <2>3. ASSUME NEW s \in Savers
        PROVE  Len(job'[s]) = IF pc'[s] \in {"claimed", "saved"} THEN 1 ELSE 0
    <3>1. CASE s \in dead
      <4>1. pc'[s] = "idle" /\ job'[s] = <<>> /\ Len(<<>>) = 0
        BY <1>1, <3>1
      <4> QED
        BY <4>1
    <3>2. CASE s \notin dead
      <4>1. pc'[s] = pc[s] /\ job'[s] = job[s]
        BY <1>1, <3>2
      <4> QED
        BY <1>2, <4>1 DEF SaversOK
    <3> QED
      BY <3>1, <3>2
  <2> QED
    BY <2>1, <2>2, <2>3 DEF SaversOK
<1>4. \A r \in Savers : Holds(r)' => Holds(r) /\ Mine(r)' = Mine(r)
  BY <1>1 DEF Holds, Mine
<1>5. \A r \in Savers : pc'[r] = "claimed" => pc[r] = "claimed" /\ Mine(r)' = Mine(r)
  BY <1>1 DEF Mine
<1>6. IdsOK'
  BY <1>1, <1>4, <1>5, SoundParts DEF IdsOK, store
<1>7. FeedOK' /\ NewestThere'
  <2>1. feed' = feed
    BY <1>1
  <2>2. todo' \in [Savers -> SUBSET feed']
    BY <1>1, <2>1, SoundParts DEF FeedOK
  <2>3. latest' \in [Savers -> {0} \cup {Key(d) : d \in feed'}]
    BY <1>1, <2>1, SoundParts DEF FeedOK
  <2> QED
    BY <1>1, <2>2, <2>3, SoundParts DEF FeedOK, NewestThere
<1>8. StoreOK'
  BY <1>1, SoundParts DEF StoreOK, store
<1>9. DeliveryOK'
  <2>1. <<>> \in Seq(Announcement) /\ Len(<<>>) = 0
    OBVIOUS
  <2> QED
    BY <1>1, <2>1, SoundParts DEF DeliveryOK
<1>10. DeletionOK'
  <2>1. CASE Bot \in dead
    BY <1>1, <2>1 DEF DeletionOK
  <2>2. CASE Bot \notin dead
    BY <1>1, <1>2, <2>2, SoundParts DEF DeletionOK
  <2> QED
    BY <2>1, <2>2
<1>11. BoundsOK'
  <2>1. \A s \in Savers : pc[s] = "claimed" =>
          KeyOf(Head(job[s])) \in Films \X Watchers \X (0..MaxWeek)
    BY HeldFacts, KeyOfNote, SoundParts DEF Sound, Holds, Mine
  <2>2. loose' \subseteq Films \X Watchers \X (0..MaxWeek)
    BY <1>1, <2>1, CutShortFacts, SoundParts DEF BoundsOK
  <2> QED
    BY <1>1, <2>2, SoundParts, LogAssumption DEF BoundsOK
<1> QED
  BY <1>3, <1>6, <1>7, <1>8, <1>9, <1>10, <1>11, SoundWhole

LEMMA InitSound == Init => Sound
<1> SUFFICES ASSUME Init PROVE Sound
  OBVIOUS
<1>1. <<>> \in Seq(Note) /\ <<>> \in Seq(Announcement) /\ Len(<<>>) = 0
  OBVIOUS
<1>2. Bot \in Savers /\ 0 \in Nat
  BY DEF Savers
<1>3. SaversOK
  BY <1>1, <1>2 DEF Init, SaversOK
<1>4. StoreOK
  BY DEF Init, StoreOK
<1>5. FeedOK
  BY DEF Init, FeedOK
<1>6. DeliveryOK
  BY <1>1 DEF Init, DeliveryOK
<1>7. DeletionOK
  BY <1>2 DEF Init, DeletionOK
<1>8. BoundsOK
  <2>1. MaxFaults \in Nat /\ MaxRates \in Nat /\ MaxWeek \in Nat
    BY LogAssumption
  <2>2. 0 \in 0..MaxFaults /\ 0 \in 0..MaxRates /\ 0 \in 0..MaxWeek
    BY <2>1
  <2>3. /\ faults = 0 /\ rates = 0 /\ week = 0 /\ nextId = 0
        /\ overlap = FALSE /\ loose = {} /\ skewed = {}
    BY DEF Init
  <2> QED
    BY <2>2, <2>3 DEF BoundsOK
<1>9. IdsOK
  <2>1. notes = {} /\ unique = {} /\ pc = [s \in Savers |-> "idle"]
    BY DEF Init
  <2>2. \A s \in Savers : ~Holds(s) /\ pc[s] # "claimed"
    BY <2>1 DEF Holds
  <2>3. \A n \in notes : n.id < nextId /\ n.week <= week
    BY <2>1
  <2>4. \A f \in Films, w \in Watchers, k \in 0..MaxWeek : <<f, w, k>> \notin unique
    BY <2>1
  <2> QED
    BY <2>2, <2>3, <2>4 DEF IdsOK
<1>10. NewestThere
  BY DEF Init, NewestThere
<1> QED
  BY <1>3, <1>4, <1>5, <1>6, <1>7, <1>8, <1>9, <1>10, TypeParts DEF Sound, RestOK

LEMMA StepSound == Sound /\ [Next]_vars => Sound'
<1> SUFFICES ASSUME Sound, [Next]_vars PROVE Sound'
  OBVIOUS
<1>1. ASSUME NEW s \in Savers,
             \/ Store(s) \/ StoreFails(s) \/ Fetch(s) \/ Compare(s)
             \/ SaveEntry(s) \/ Publish(s) \/ Advance(s) \/ SyncFails(s)
      PROVE  Sound'
  BY <1>1, StoreSound, StoreFailsSound, FetchSound, CompareSound, SaveEntrySound,
     PublishSound, AdvanceSound, SyncFailsSound
<1>2. CASE \E f \in Films, w \in Watchers : Rate(f, w)
  BY <1>2, RateSound
<1>3. CASE (\E f \in Films, w \in Watchers : Unrate(f, w)) \/ Erase \/ Tidy \/ FreeKey \/ DeleteStops
  BY <1>3, UnrateSound
<1>4. CASE Take \/ Post
  BY <1>4, DeliverySound
<1>5. CASE NewWeek
  BY <1>5, NewWeekSound
<1>6. CASE \E e \in Entries : Log(e)
  BY <1>6, LogSound
<1>7. CASE \E dead \in {{Bot, "/sync"}, {"cron"}} : Crash(dead)
  BY <1>7, CrashSound
<1>8. CASE UNCHANGED vars
  <2>1. SaversOK' /\ IdsOK'
    BY <1>8, SaversSame DEF vars, store, sync
  <2>2. StoreOK' /\ FeedOK' /\ DeliveryOK' /\ DeletionOK' /\ BoundsOK' /\ NewestThere'
    BY <1>8, SoundParts
       DEF StoreOK, FeedOK, DeliveryOK, DeletionOK, BoundsOK, NewestThere, vars, store,
           delivery, sync, ghosts
  <2> QED
    BY <2>1, <2>2, SoundWhole
<1> QED
  BY <1>1, <1>2, <1>3, <1>4, <1>5, <1>6, <1>7, <1>8 DEF Next

\* The state has its types, and no two notes share an id (save_note's uuid4, a
\* counter here) whichever savers write them; what a sync has left to do is of
\* the feed, and its watermark is a key the feed really has.
THEOREM TypeCorrect == Spec => []TypeOK
<1>1. Sound => TypeOK
  BY DEF Sound
<1> QED
  BY <1>1, InitSound, StepSound, PTL DEF Spec

-----------------------------------------------------------------------------
(* Announcements: an announcement is on its way once.                      *)

\* No announcement twice in q; none in both q and r.
Once(q) == \A i, j \in DOMAIN q : q[i] = q[j] => i = j
Parted(q, r) == \A i \in DOMAIN q, j \in DOMAIN r : q[i] # r[j]

\* The notes of q have been saved, and no saver has them still to announce.
Sent(q) ==
  \A i \in DOMAIN q : /\ q[i].note.id < nextId
                      /\ <<q[i].note.film, q[i].note.watcher>> \in filed
                      /\ \A s \in Savers : Holds(s) => Mine(s).id # q[i].note.id

Delivered ==
  /\ Once(posted) /\ Once(queue)
  /\ Parted(posted, queue) /\ Parted(posted, taken) /\ Parted(queue, taken)
  /\ Sent(posted) /\ Sent(queue) /\ Sent(taken)
  /\ \A s \in Savers : pc[s] = "saved" => <<Mine(s).film, Mine(s).watcher>> \in filed

\* Steps that announce nothing: notes claimed now have a new id.
LEMMA DeliveredKept ==
  ASSUME Sound, Delivered, UNCHANGED delivery, filed \subseteq filed',
         nextId' \in Nat, nextId <= nextId',
         \A s \in Savers : Holds(s)' =>
           Mine(s)'.id = nextId \/ (Holds(s) /\ Mine(s)' = Mine(s)),
         \A s \in Savers : pc'[s] = "saved" =>
           \/ <<Mine(s)'.film, Mine(s)'.watcher>> \in filed'
           \/ pc[s] = "saved" /\ Mine(s)' = Mine(s)
  PROVE  Delivered'
<1>1. nextId \in Nat /\ \A n \in Note : n.id \in Nat
  BY SoundParts DEF BoundsOK, Note
<1>2. ASSUME NEW q \in Seq(Announcement), Sent(q)
      PROVE  \A i \in DOMAIN q :
               /\ q[i].note.id < nextId'
               /\ <<q[i].note.film, q[i].note.watcher>> \in filed'
               /\ \A s \in Savers : Holds(s)' => Mine(s)'.id # q[i].note.id
  <2> TAKE i \in DOMAIN q
  <2>1. q[i].note \in Note /\ q[i].note.id \in Nat
    <3>1. q[i] \in Announcement
      OBVIOUS
    <3> QED
      BY <1>1, <3>1 DEF Announcement
  <2>2. /\ q[i].note.id < nextId /\ <<q[i].note.film, q[i].note.watcher>> \in filed
        /\ \A s \in Savers : Holds(s) => Mine(s).id # q[i].note.id
    BY <1>2 DEF Sent
  <2> QED
    BY <1>1, <2>1, <2>2
<1>3. /\ queue \in Seq(Announcement) /\ taken \in Seq(Announcement)
      /\ posted \in Seq(Announcement)
  BY SoundParts DEF DeliveryOK
<1>4. Sent(posted) /\ Sent(queue) /\ Sent(taken)
  BY DEF Delivered
<1>5. UNCHANGED <<queue, taken, posted>>
  BY DEF delivery
<1>6. Sent(posted)' /\ Sent(queue)' /\ Sent(taken)'
  BY <1>2, <1>3, <1>4, <1>5 DEF Sent
<1>7. \A s \in Savers : pc'[s] = "saved" => <<Mine(s)'.film, Mine(s)'.watcher>> \in filed'
  BY DEF Delivered
<1>8. /\ Once(posted)' /\ Once(queue)' /\ Parted(posted, queue)'
      /\ Parted(posted, taken)' /\ Parted(queue, taken)'
  BY <1>5 DEF Delivered, Once, Parted
<1> QED
  BY <1>6, <1>7, <1>8 DEF Delivered

\* Lists that have lost some of their announcements.
LEMMA DeliveredLess ==
  ASSUME Sound, Delivered, UNCHANGED <<nextId, filed>>,
         \A s \in Savers : Holds(s)' => Holds(s) /\ Mine(s)' = Mine(s) /\ pc'[s] = pc[s],
         UNCHANGED <<queue, posted>>, taken' \in {taken, <<>>}
  PROVE  Delivered'
<1>1. DOMAIN <<>> = {}
  OBVIOUS
<1>2. \A s \in Savers : Holds(s)' => Holds(s) /\ Mine(s)' = Mine(s)
  OBVIOUS
<1>3. Sent(posted)' /\ Sent(queue)'
  BY <1>2 DEF Delivered, Sent
<1>4. Sent(taken)' /\ Parted(posted, taken)' /\ Parted(queue, taken)'
  <2>1. CASE taken' = taken
    BY <1>2, <2>1 DEF Delivered, Sent, Parted
  <2>2. CASE taken' = <<>>
    BY <1>1, <2>2 DEF Sent, Parted
  <2> QED
    BY <2>1, <2>2
<1>5. \A s \in Savers : pc'[s] = "saved" => <<Mine(s)'.film, Mine(s)'.watcher>> \in filed'
  BY DEF Delivered, Holds
<1>6. Once(posted)' /\ Once(queue)' /\ Parted(posted, queue)'
  BY DEF Delivered, Once, Parted
<1> QED
  BY <1>3, <1>4, <1>5, <1>6 DEF Delivered

\* What publish leaves in the list: what was there, and the copies it pushed.
LEMMA AnnouncedParts ==
  ASSUME Sound, NEW n \in Note, NEW copies \in 0..2
  PROVE  \A i \in DOMAIN Announced(n, copies) :
           \/ i \in DOMAIN queue /\ Announced(n, copies)[i] = queue[i]
           \/ /\ i \notin DOMAIN queue /\ i \in Nat
              /\ Announced(n, copies)[i] = [note |-> n, copy |-> i - Len(queue)]
<1> DEFINE more == [c \in 1..copies |-> [note |-> n, copy |-> c]]
           q == queue
<1>1. /\ q \in Seq(Announcement) /\ Len(q) \in Nat /\ DOMAIN q = 1..Len(q)
      /\ more \in Seq(Announcement) /\ Len(more) = copies
  <2>1. \A c \in 1..copies : [note |-> n, copy |-> c] \in Announcement
    BY DEF Announcement
  <2>2. more \in Seq(Announcement) /\ Len(more) = copies
    BY <2>1
  <2>3. q \in Seq(Announcement)
    BY SoundParts DEF DeliveryOK
  <2> QED
    BY <2>2, <2>3
<1>2. \A c \in 1..copies : more[c] = [note |-> n, copy |-> c]
  OBVIOUS
<1> HIDE DEF more, q
<1>3. /\ DOMAIN (q \o more) = 1..(Len(q) + copies)
      /\ \A i \in 1..(Len(q) + copies) :
           (q \o more)[i] = IF i <= Len(q) THEN q[i] ELSE more[i - Len(q)]
  <2>1. /\ q \o more \in Seq(Announcement) /\ Len(q \o more) = Len(q) + copies
        /\ \A i \in 1..(Len(q) + copies) :
             (q \o more)[i] = IF i <= Len(q) THEN q[i] ELSE more[i - Len(q)]
    BY <1>1, ConcatProperties, SMTT(30)
  <2> DEFINE r == q \o more
  <2>2. r \in Seq(Announcement) /\ Len(r) = Len(q) + copies
    BY <2>1
  <2> HIDE DEF r
  <2>3. DOMAIN r = 1..(Len(q) + copies)
    BY <2>2
  <2> QED
    BY <2>1, <2>3 DEF r
<1>4. ASSUME NEW i \in DOMAIN (q \o more)
      PROVE  \/ i \in DOMAIN q /\ (q \o more)[i] = q[i]
             \/ /\ i \notin DOMAIN q /\ i \in Nat
                /\ (q \o more)[i] = [note |-> n, copy |-> i - Len(q)]
  <2>1. i \in 1..(Len(q) + copies)
    BY <1>3
  <2>2. CASE i <= Len(q)
    BY <1>1, <1>3, <2>1, <2>2
  <2>3. CASE ~(i <= Len(q))
    <3>1. i \notin DOMAIN q /\ i \in Nat /\ i - Len(q) \in 1..copies
      BY <1>1, <2>1, <2>3
    <3>2. (q \o more)[i] = more[i - Len(q)]
      BY <1>3, <2>1, <2>3
    <3> QED
      BY <1>2, <3>1, <3>2
  <2> QED
    BY <2>2, <2>3
<1> QED
  BY <1>4 DEF Announced, more, q

LEMMA DeliveredPublish ==
  ASSUME Sound, Delivered, NEW s \in Savers, Publish(s)
  PROVE  Delivered'
<1> DEFINE n == Mine(s)
<1>1. /\ pc[s] = "saved" /\ job' = [job EXCEPT ![s] = <<>>]
      /\ pc' = [pc EXCEPT ![s] = "next"] /\ UNCHANGED <<taken, posted, nextId, filed>>
  BY DEF Publish, Go, ghosts
<1>2. \E copies \in 0..2 : queue' = Announced(n, copies)
  BY DEF Publish, Mine
<1>3. /\ n \in Note /\ n.id < nextId /\ <<n.film, n.watcher>> \in filed
      /\ Len(queue) \in Nat /\ Holds(s)
  BY <1>1, HeldFacts, SoundParts DEF Sound, Holds, IdsOK, Delivered, DeliveryOK
<1>4. \A r \in Savers : Holds(r)' => /\ Holds(r) /\ Mine(r)' = Mine(r) /\ r # s
                                     /\ pc'[r] = pc[r]
  BY <1>1, SoundParts DEF Holds, Mine, SaversOK
<1>5. \A r \in Savers : Holds(r)' => Mine(r)'.id # n.id
  BY <1>1, <1>4, SoundParts DEF IdsOK, Holds
<1>6. /\ \A i \in DOMAIN queue : queue[i].note.id # n.id
      /\ \A i \in DOMAIN posted : posted[i].note.id # n.id
      /\ \A i \in DOMAIN taken : taken[i].note.id # n.id
  BY <1>3 DEF Delivered, Sent
<1> HIDE DEF n
<1>7. \A i \in DOMAIN queue' :
        \/ i \in DOMAIN queue /\ queue'[i] = queue[i]
        \/ /\ i \notin DOMAIN queue /\ i \in Nat
           /\ queue'[i] = [note |-> n, copy |-> i - Len(queue)]
  BY <1>2, <1>3, AnnouncedParts
<1>8. \A i \in DOMAIN queue' :
        \/ i \in DOMAIN queue /\ queue'[i] = queue[i] /\ queue'[i].note.id # n.id
        \/ /\ i \in Nat /\ queue'[i].note = n /\ queue'[i].copy = i - Len(queue)
  BY <1>6, <1>7
<1>9. Once(queue)'
  <2> SUFFICES ASSUME NEW i \in DOMAIN queue', NEW j \in DOMAIN queue',
                      queue'[i] = queue'[j]
               PROVE  i = j
    BY DEF Once
  <2>1. CASE i \in DOMAIN queue /\ queue'[i] = queue[i] /\ queue'[i].note.id # n.id
    BY <1>8, <2>1 DEF Once, Delivered
  <2>2. CASE i \in Nat /\ queue'[i].note = n /\ queue'[i].copy = i - Len(queue)
    <3>1. j \in Nat /\ queue'[j].copy = j - Len(queue)
      BY <1>8, <2>2
    <3> QED
      BY <1>3, <2>2, <3>1
  <2> QED
    BY <1>8, <2>1, <2>2
<1>10. Parted(posted, queue)' /\ Parted(queue, taken)'
  BY <1>1, <1>6, <1>8 DEF Parted, Delivered
<1>11. Sent(queue)'
  BY <1>1, <1>3, <1>4, <1>5, <1>8 DEF Sent, Delivered
<1>12. Sent(posted)' /\ Sent(taken)'
  BY <1>1, <1>4 DEF Sent, Delivered
<1>13. Once(posted)' /\ Parted(posted, taken)'
  BY <1>1 DEF Once, Parted, Delivered
<1>14. \A r \in Savers : pc'[r] = "saved" => <<Mine(r)'.film, Mine(r)'.watcher>> \in filed'
  BY <1>1, <1>4 DEF Delivered, Holds
<1> QED
  BY <1>9, <1>10, <1>11, <1>12, <1>13, <1>14 DEF Delivered

LEMMA DeliveredTake ==
  ASSUME Sound, Delivered, Take
  PROVE  Delivered'
<1> DEFINE q == queue
<1>1. /\ q \in Seq(Announcement) /\ q # <<>> /\ queue' = Tail(q)
      /\ taken' \in {<<>>, <<Head(q)>>}
      /\ UNCHANGED <<posted, pc, job, nextId, filed>>
  BY SoundParts DEF Take, DeliveryOK, sync, ghosts
<1>2. Sent(q) /\ Once(q) /\ Parted(posted, q) /\ Sent(posted) /\ Once(posted)
  BY DEF Delivered
<1> HIDE DEF q
<1>3. /\ \A i \in DOMAIN Tail(q) : i + 1 \in DOMAIN q /\ Tail(q)[i] = q[i + 1] /\ i \in Nat
      /\ 1 \in DOMAIN q /\ Head(q) = q[1] /\ \A i \in DOMAIN Tail(q) : i + 1 # 1
  BY <1>1
<1>4. DOMAIN taken' \subseteq {1} /\ \A i \in DOMAIN taken' : taken'[i] = q[1]
  BY <1>1, <1>3
<1>5. \A s \in Savers : (Holds(s)' <=> Holds(s)) /\ Mine(s)' = Mine(s)
  BY <1>1 DEF Holds, Mine
<1>6. Sent(posted)' /\ Once(posted)'
  BY <1>1, <1>2, <1>5 DEF Sent, Once
<1>7. Sent(taken)' /\ Parted(posted, taken)'
  BY <1>1, <1>2, <1>3, <1>4, <1>5 DEF Sent, Parted
<1>8. Sent(queue)'
  BY <1>1, <1>2, <1>3, <1>5 DEF Sent
<1>9. Once(queue)'
  BY <1>1, <1>2, <1>3 DEF Once
<1>10. Parted(posted, queue)' /\ Parted(queue, taken)'
  BY <1>1, <1>2, <1>3, <1>4 DEF Parted, Once
<1>11. \A s \in Savers : pc'[s] = "saved" => <<Mine(s)'.film, Mine(s)'.watcher>> \in filed'
  BY <1>1, <1>5 DEF Delivered
<1> QED
  BY <1>6, <1>7, <1>8, <1>9, <1>10, <1>11 DEF Delivered

LEMMA DeliveredPost ==
  ASSUME Sound, Delivered, Post
  PROVE  Delivered'
<1> PICK q : q = posted
  OBVIOUS
<1> PICK t : t = taken
  OBVIOUS
<1>1. /\ q \in Seq(Announcement) /\ t \in Seq(Announcement) /\ Len(t) = 1 /\ taken' = <<>>
      /\ queue' = queue /\ posted' \in {q, q \o t}
      /\ UNCHANGED <<pc, job, nextId, filed>>
  <2>1. q \in Seq(Announcement) /\ t \in Seq(Announcement) /\ Len(t) <= 1 /\ t # <<>>
    BY SoundParts DEF Post, DeliveryOK
  <2>2. Len(t) = 1
    <3>1. Len(t) \in Nat \ {0}
      BY <2>1, EmptySeq
    <3> PICK k : k = Len(t)
      OBVIOUS
    <3>2. k \in Nat /\ k # 0 /\ k <= 1
      BY <2>1, <3>1
    <3> QED
      BY <3>2
  <2>3. /\ taken' = <<>> /\ queue' = queue /\ posted' \in {q, q \o t}
        /\ UNCHANGED <<pc, job, nextId, filed>>
    BY DEF Post, Unposted, sync, ghosts
  <2> QED
    BY <2>1, <2>2, <2>3
<1>2. \A s \in Savers : (Holds(s)' <=> Holds(s)) /\ Mine(s)' = Mine(s)
  BY <1>1 DEF Holds, Mine
<1>3. CASE posted' = q
  BY <1>1, <1>2, <1>3, DeliveredLess
<1>4. CASE posted' = q \o t
  <2>1. /\ DOMAIN (q \o t) = DOMAIN q \cup {Len(q) + 1}
        /\ Len(q) + 1 \notin DOMAIN q /\ 1 \in DOMAIN t
        /\ \A i \in DOMAIN q : (q \o t)[i] = q[i]
        /\ (q \o t)[Len(q) + 1] = t[1]
    <3>1. Len(q) \in Nat /\ DOMAIN q = 1..Len(q) /\ DOMAIN t = 1..1 /\ Len(t) = 1
      BY <1>1
    <3>2. /\ q \o t \in Seq(Announcement) /\ Len(q \o t) = Len(q) + 1
          /\ \A i \in 1..(Len(q) + 1) : (q \o t)[i] = IF i <= Len(q) THEN q[i]
                                                      ELSE t[i - Len(q)]
      BY <1>1, ConcatProperties, SMTT(30)
    <3> PICK r : r = q \o t
      OBVIOUS
    <3>3. DOMAIN r = 1..(Len(q) + 1)
      BY <3>2
    <3> QED
      BY <3>1, <3>2, <3>3
  <2>2. Sent(q) /\ Sent(t) /\ Once(q) /\ Parted(q, t) /\ Parted(queue, t) /\ Parted(q, queue)
    BY DEF Delivered
  <2>3. Sent(posted)'
    BY <1>1, <1>2, <1>4, <2>1, <2>2 DEF Sent
  <2>4. Once(posted)'
    BY <1>4, <2>1, <2>2 DEF Once, Parted
  <2>5. Parted(posted, queue)'
    BY <1>1, <1>4, <2>1, <2>2 DEF Parted
  <2>6. DOMAIN taken' = {}
    BY <1>1
  <2>7. Sent(taken)' /\ Parted(posted, taken)' /\ Parted(queue, taken)'
    BY <2>6 DEF Sent, Parted
  <2>8. Sent(queue)' /\ Once(queue)'
    BY <1>1, <1>2 DEF Delivered, Sent, Once
  <2>9. \A s \in Savers : pc'[s] = "saved" => <<Mine(s)'.film, Mine(s)'.watcher>> \in filed'
    BY <1>1, <1>2 DEF Delivered
  <2> QED
    BY <2>3, <2>4, <2>5, <2>7, <2>8, <2>9 DEF Delivered
<1> QED
  BY <1>1, <1>3, <1>4

LEMMA DeliveredClaim ==
  ASSUME Sound, Delivered, UNCHANGED <<delivery, filed>>,
         NEW s \in Savers, NEW f \in Films, NEW w \in Watchers,
         pc[s] \notin {"claimed", "saved"}, Claim(s, f, w)
  PROVE  Delivered'
<1>1. nextId \in Nat /\ pc \in [Savers -> {"idle", "fetched", "next", "claimed", "saved"}]
      /\ job \in [Savers -> Seq(Note)]
  BY SoundParts DEF BoundsOK, SaversOK
<1>2. CASE pc' = [pc EXCEPT ![s] = After(s)] /\ UNCHANGED <<job, nextId>>
  <2>1. After(s) \notin {"claimed", "saved"}
    BY DEF After
  <2>2. \A r \in Savers : /\ Holds(r)' => Holds(r) /\ Mine(r)' = Mine(r)
                          /\ pc'[r] = "saved" => pc[r] = "saved" /\ Mine(r)' = Mine(r)
    BY <1>1, <1>2, <2>1 DEF Holds, Mine
  <2> QED
    BY <1>1, <1>2, <2>2, DeliveredKept
<1>3. CASE /\ pc' = [pc EXCEPT ![s] = "claimed"] /\ nextId' = nextId + 1
           /\ \E n \in Note :
                /\ n = [film |-> f, watcher |-> w, id |-> nextId, week |-> week]
                /\ job' = [job EXCEPT ![s] = <<n>>]
  <2> PICK n \in Note :
         /\ n = [film |-> f, watcher |-> w, id |-> nextId, week |-> week]
         /\ job' = [job EXCEPT ![s] = <<n>>]
    BY <1>3
  <2>1. Head(<<n>>) = n /\ n.id = nextId
    BY SingleFacts
  <2>2. Mine(s)' = n /\ pc'[s] = "claimed"
    BY <1>1, <1>3, <2>1 DEF Mine
  <2>3. \A r \in Savers \ {s} : pc'[r] = pc[r] /\ Mine(r)' = Mine(r)
    BY <1>1, <1>3 DEF Mine
  <2>4. \A r \in Savers : /\ Holds(r)' => Mine(r)'.id = nextId \/ (Holds(r) /\ Mine(r)' = Mine(r))
                          /\ pc'[r] = "saved" => pc[r] = "saved" /\ Mine(r)' = Mine(r)
    BY <2>1, <2>2, <2>3 DEF Holds
  <2>5. nextId' \in Nat /\ nextId <= nextId'
    BY <1>1, <1>3
  <2> QED
    BY <2>4, <2>5, DeliveredKept
<1> QED
  BY <1>2, <1>3, ClaimFacts, ZenonT(30)

LEMMA DeliveredStep == Sound /\ Delivered /\ [Next]_vars => Delivered'
<1> SUFFICES ASSUME Sound, Delivered, [Next]_vars PROVE Delivered'
  OBVIOUS
<1>0. /\ pc \in [Savers -> {"idle", "fetched", "next", "claimed", "saved"}]
      /\ job \in [Savers -> Seq(Note)] /\ nextId \in Nat
  BY SoundParts DEF SaversOK, BoundsOK
<1>1. ASSUME NEW s \in Savers, Store(s)
      PROVE  Delivered'
  <2> PICK n : n = Mine(s)
    OBVIOUS
  <2>1. /\ pc[s] = "claimed" /\ filed' = filed \cup {<<n.film, n.watcher>>}
        /\ UNCHANGED <<delivery, nextId>>
        /\ pc' = [pc EXCEPT ![s] = IF s = Bot THEN "idle" ELSE "saved"]
        /\ job' = IF s = Bot THEN [job EXCEPT ![s] = <<>>] ELSE job
    BY <1>1 DEF Store, Stored, Go, Mine
  <2>2. \A r \in Savers : /\ Holds(r)' => Holds(r) /\ Mine(r)' = Mine(r)
                          /\ pc'[r] = "saved" => r = s \/ pc[r] = "saved"
    BY <1>0, <2>1 DEF Holds, Mine
  <2>3. \A r \in Savers : pc'[r] = "saved" => Holds(r)'
    BY DEF Holds
  <2>4. \A r \in Savers : pc'[r] = "saved" =>
          \/ <<Mine(r)'.film, Mine(r)'.watcher>> \in filed'
          \/ pc[r] = "saved" /\ Mine(r)' = Mine(r)
    BY <2>1, <2>2, <2>3
  <2>5. filed \subseteq filed' /\ nextId' \in Nat /\ nextId <= nextId'
    BY <1>0, <2>1
  <2> QED
    BY <2>1, <2>2, <2>4, <2>5, DeliveredKept
<1>2. ASSUME NEW s \in Savers, StoreFails(s)
      PROVE  Delivered'
  <2>1. /\ pc' = [pc EXCEPT ![s] = After(s)] /\ job' = [job EXCEPT ![s] = <<>>]
        /\ UNCHANGED <<delivery, nextId>> /\ After(s) \in {"idle", "next"}
    BY <1>2, StoreFailsFacts DEF After
  <2>2. filed \subseteq filed'
    BY <1>2, StoreFailsFacts DEF Stored
  <2>3. \A r \in Savers : Holds(r)' => Holds(r) /\ Mine(r)' = Mine(r) /\ pc'[r] = pc[r]
    BY <1>0, <2>1 DEF Holds, Mine
  <2>4. \A r \in Savers : pc'[r] = "saved" => Holds(r)'
    BY DEF Holds
  <2>5. nextId' \in Nat /\ nextId <= nextId'
    BY <1>0, <2>1
  <2> QED
    BY <2>1, <2>2, <2>3, <2>4, <2>5, DeliveredKept
<1>3. ASSUME NEW s \in Savers, Fetch(s) \/ Compare(s) \/ Advance(s) \/ SyncFails(s)
      PROVE  Delivered'
  <2>1. /\ UNCHANGED <<queue, posted, taken, nextId, filed, job>>
        /\ \E place \in {"idle", "fetched", "next"} : pc' = [pc EXCEPT ![s] = place]
    <3>1. CASE Fetch(s)
      BY <3>1 DEF Fetch, Go, delivery, ghosts
    <3>2. CASE Compare(s)
      BY <3>2 DEF Compare, Go, delivery, ghosts
    <3>3. CASE Advance(s)
      BY <3>3 DEF Advance, Go, delivery, ghosts
    <3>4. CASE SyncFails(s)
      BY <3>4 DEF SyncFails, Go, delivery, ghosts
    <3> QED
      BY <1>3, <3>1, <3>2, <3>3, <3>4
  <2>2. \A r \in Savers : Holds(r)' => Holds(r) /\ Mine(r)' = Mine(r) /\ pc'[r] = pc[r]
    BY <1>0, <2>1 DEF Holds, Mine
  <2> QED
    BY <2>1, <2>2, DeliveredLess
<1>4. ASSUME NEW s \in Savers, SaveEntry(s)
      PROVE  Delivered'
  <2> PICK e \in todo[s] : IF e.rated THEN Claim(s, e.film, SyncWatcher)
                           ELSE UNCHANGED <<pc, unique, job, nextId, faults, loose>>
    BY <1>4 DEF SaveEntry
  <2>1. pc[s] = "next" /\ UNCHANGED <<delivery, filed>>
    BY <1>4 DEF SaveEntry
  <2>2. e.film \in Films /\ SyncWatcher \in Watchers
    BY SoundParts, LogAssumption DEF FeedOK
  <2>3. CASE e.rated
    BY <2>1, <2>2, <2>3, DeliveredClaim
  <2>4. CASE ~e.rated
    <3>1. UNCHANGED <<queue, posted, taken, nextId, filed, pc, job>>
      BY <2>1, <2>4 DEF delivery
    <3>2. \A r \in Savers : Holds(r)' => Holds(r) /\ Mine(r)' = Mine(r) /\ pc'[r] = pc[r]
      BY <3>1 DEF Holds, Mine
    <3> QED
      BY <3>1, <3>2, DeliveredLess
  <2> QED
    BY <2>3, <2>4
<1>5. ASSUME NEW s \in Savers, Publish(s)
      PROVE  Delivered'
  BY <1>5, DeliveredPublish
<1>6. ASSUME NEW f \in Films, NEW w \in Watchers, Rate(f, w)
      PROVE  Delivered'
  <2>1. /\ pc[Bot] = "idle" /\ UNCHANGED <<delivery, filed>> /\ Claim(Bot, f, w)
        /\ Bot \in Savers
    BY <1>6 DEF Rate, ghosts, Savers
  <2> QED
    BY <2>1, DeliveredClaim
<1>7. CASE Take
  BY <1>7, DeliveredTake
<1>8. CASE Post
  BY <1>8, DeliveredPost
<1>9. CASE \/ \E f \in Films, w \in Watchers : Unrate(f, w)
           \/ Erase \/ Tidy \/ FreeKey \/ DeleteStops \/ NewWeek \/ (\E e \in Entries : Log(e))
           \/ UNCHANGED vars
  <2>1. UNCHANGED <<queue, posted, taken, nextId, filed, pc, job>>
    <3>1. CASE \E f \in Films, w \in Watchers : Unrate(f, w)
      BY <3>1 DEF Unrate, delivery, sync
    <3>2. CASE Erase \/ Tidy
      BY <3>2 DEF Erase, Tidy, delivery, sync, ghosts
    <3>3. CASE FreeKey \/ DeleteStops \/ NewWeek
      BY <3>3 DEF FreeKey, DeleteStops, NewWeek, delivery, sync, ghosts
    <3>4. CASE \E e \in Entries : Log(e)
      BY <3>4 DEF Log, delivery, sync
    <3>5. CASE UNCHANGED vars
      BY <3>5 DEF vars, delivery, sync, ghosts
    <3> QED
      BY <1>9, <3>1, <3>2, <3>3, <3>4, <3>5
  <2>2. \A r \in Savers : Holds(r)' => Holds(r) /\ Mine(r)' = Mine(r) /\ pc'[r] = pc[r]
    BY <2>1 DEF Holds, Mine
  <2> QED
    BY <2>1, <2>2, DeliveredLess
<1>10. ASSUME NEW dead \in {{Bot, "/sync"}, {"cron"}}, Crash(dead)
       PROVE  Delivered'
  <2>1. /\ pc' = [s \in Savers |-> IF s \in dead THEN "idle" ELSE pc[s]]
        /\ job' = [s \in Savers |-> IF s \in dead THEN <<>> ELSE job[s]]
        /\ taken' \in {taken, <<>>}
        /\ UNCHANGED <<queue, posted, nextId, filed>>
    BY <1>10 DEF Crash
  <2>2. \A r \in Savers : Holds(r)' => Holds(r) /\ Mine(r)' = Mine(r) /\ pc'[r] = pc[r]
    BY <2>1 DEF Holds, Mine
  <2> QED
    BY <2>1, <2>2, DeliveredLess
<1> QED
  BY <1>1, <1>2, <1>3, <1>4, <1>5, <1>6, <1>7, <1>8, <1>9, <1>10 DEF Next

\* Whatever fails, is sent again or dies, what one RPUSH of publish appended to
\* the list reaches the channel at most once, so an announcement is posted twice
\* only if Redis ran its RPUSH twice; and none is of a note that save_note did
\* not store.
THEOREM AnnouncementsAreSingle == Spec => []AnnouncedOnce
<1>1. Init => Delivered
  <2> SUFFICES ASSUME Init PROVE Delivered
    OBVIOUS
  <2>1. posted = <<>> /\ queue = <<>> /\ taken = <<>> /\ pc = [s \in Savers |-> "idle"]
    BY DEF Init
  <2>2. DOMAIN posted = {} /\ DOMAIN queue = {} /\ DOMAIN taken = {}
    BY <2>1
  <2>3. \A s \in Savers : pc[s] # "saved"
    BY <2>1
  <2> QED
    BY <2>2, <2>3 DEF Delivered, Once, Parted, Sent
<1>2. Delivered => AnnouncedOnce
  BY DEF Delivered, Once, Sent, AnnouncedOnce
<1> QED
  BY <1>1, <1>2, InitSound, StepSound, DeliveredStep, PTL DEF Spec

-----------------------------------------------------------------------------
(* The diary: a sync that did not fail has filed what it passed.           *)

\* Every item of the feed is a viewing with its date: the lists and the posts a
\* feed also carries are the finding of the run lists.
Viewings == \A e \in Entries : e.watched # 0

\* The film has been noted for this watcher, or a saver is about to.
Covered(f, w) ==
  \/ <<f, w>> \in filed
  \/ \E s \in Savers : pc[s] = "claimed" /\ Mine(s).film = f /\ Mine(s).watcher = w

Due(e) == e.rated /\ e \notin backdated

\* A duplicate is refused for a note that there is, or will be.
KeysCovered ==
  \A f \in Films, w \in Watchers, k \in 0..MaxWeek : <<f, w, k>> \in unique => Covered(f, w)

PastCovered ==
  \A e \in feed : Due(e) /\ Key(e) <= watermark => Covered(e.film, SyncWatcher)

\* What was logged since a sync fetched the feed is newer than what it fetched.
FetchedFirst(s) ==
  pc[s] = "fetched" =>
    \A e \in feed : e \notin todo[s] /\ e \notin backdated =>
      \A d \in todo[s] : Key(d) < Key(e)

\* What a sync will have passed with its next watermark is filed or is left to it.
LeftCovered(s) ==
  s # Bot /\ pc[s] \in {"next", "claimed", "saved"} =>
    \A e \in feed : Due(e) /\ Key(e) <= latest[s] =>
      Covered(e.film, SyncWatcher) \/ e \in todo[s]

Filing ==
  faults = 0 => /\ KeysCovered /\ PastCovered
                /\ \A s \in Savers : FetchedFirst(s) /\ LeftCovered(s)

LEMMA Unfailing ==
  ASSUME Sound, faults' = 0
  PROVE  ~Fail
BY SoundParts, LogAssumption DEF BoundsOK, Fail

LEMMA CoveredKept ==
  ASSUME filed \subseteq filed',
         \A s \in Savers : pc[s] = "claimed" =>
           \/ pc'[s] = "claimed" /\ Mine(s)' = Mine(s)
           \/ <<Mine(s).film, Mine(s).watcher>> \in filed'
  PROVE  \A f, w : Covered(f, w) => Covered(f, w)'
BY DEF Covered

\* Steps that end no sync and log nothing: an entry leaves a sync's list when
\* it is covered or has no rating.
LEMMA FilingQuiet ==
  ASSUME KeysCovered, PastCovered, NEW T \in SUBSET Savers,
         \A s \in T : FetchedFirst(s) /\ LeftCovered(s),
         UNCHANGED <<feed, backdated>>,
         \A f, w : Covered(f, w) => Covered(f, w)',
         \A f \in Films, w \in Watchers, k \in 0..MaxWeek :
           <<f, w, k>> \in unique' => <<f, w, k>> \in unique \/ Covered(f, w)',
         \A s \in T : pc'[s] = "fetched" => pc[s] = "fetched" /\ todo'[s] = todo[s],
         \A s \in T : s # Bot /\ pc'[s] \in {"next", "claimed", "saved"} =>
           /\ pc[s] \in {"next", "claimed", "saved"} /\ latest'[s] = latest[s]
           /\ \A e \in todo[s] : e \in todo'[s] \/ ~e.rated \/ Covered(e.film, SyncWatcher)'
  PROVE  /\ KeysCovered' /\ (watermark' = watermark => PastCovered')
         /\ \A s \in T : FetchedFirst(s)' /\ LeftCovered(s)'
<1>1. KeysCovered'
  BY DEF KeysCovered
<1>2. ASSUME watermark' = watermark PROVE PastCovered'
  BY <1>2 DEF PastCovered, Due
<1>3. ASSUME NEW s \in T PROVE FetchedFirst(s)'
  BY DEF FetchedFirst
<1>4. ASSUME NEW s \in T PROVE LeftCovered(s)'
  BY DEF LeftCovered, Due
<1> QED
  BY <1>1, <1>2, <1>3, <1>4

LEMMA FilingFetch ==
  ASSUME Sound, Filing, NEW s \in Savers, Fetch(s), faults' = 0
  PROVE  Filing'
<1>1. /\ todo' = [todo EXCEPT ![s] = feed] /\ pc' = [pc EXCEPT ![s] = "fetched"]
      /\ UNCHANGED <<unique, watermark, feed, job, latest, faults, backdated, filed>>
      /\ pc[s] = "idle" /\ s # Bot
  BY DEF Fetch, Go, store, ghosts
<1>2. /\ pc \in [Savers -> {"idle", "fetched", "next", "claimed", "saved"}]
      /\ todo \in [Savers -> SUBSET feed]
  BY SoundParts DEF SaversOK, FeedOK
<1>3. KeysCovered /\ PastCovered /\ \A r \in Savers : FetchedFirst(r) /\ LeftCovered(r)
  BY <1>1 DEF Filing
<1>4. \A r \in Savers \ {s} : pc'[r] = pc[r] /\ todo'[r] = todo[r] /\ latest'[r] = latest[r]
  BY <1>1, <1>2
<1>5. pc'[s] = "fetched" /\ todo'[s] = feed
  BY <1>1, <1>2
<1>6. \A f, w : Covered(f, w) => Covered(f, w)'
  <2>1. \A r \in Savers : pc[r] = "claimed" => pc'[r] = "claimed" /\ Mine(r)' = Mine(r)
    BY <1>1, <1>2 DEF Mine
  <2> QED
    BY <1>1, <2>1, CoveredKept
<1>7. FetchedFirst(s)' /\ LeftCovered(s)'
  BY <1>1, <1>5 DEF FetchedFirst, LeftCovered
<1> PICK T \in SUBSET Savers : T = Savers \ {s}
  OBVIOUS
<1>8. KeysCovered' /\ PastCovered' /\ \A r \in T : FetchedFirst(r)' /\ LeftCovered(r)'
  BY <1>1, <1>3, <1>4, <1>6, FilingQuiet
<1> QED
  BY <1>7, <1>8 DEF Filing

LEMMA FilingCompare ==
  ASSUME Sound, Filing, NEW s \in Savers, Compare(s), faults' = 0
  PROVE  Filing'
<1> DEFINE fresh == {e \in todo[s] : New(e)}
<1>1. /\ pc[s] = "fetched" /\ todo' = [todo EXCEPT ![s] = fresh]
      /\ latest' = [latest EXCEPT ![s] = Newest(fresh)]
      /\ pc' = [pc EXCEPT ![s] = IF fresh = {} THEN "idle" ELSE "next"]
      /\ UNCHANGED <<unique, watermark, feed, job, faults, backdated, filed>>
  BY DEF Compare, Go, store, ghosts
<1>2. /\ pc \in [Savers -> {"idle", "fetched", "next", "claimed", "saved"}]
      /\ todo \in [Savers -> SUBSET feed] /\ feed \subseteq Entries
      /\ latest \in [Savers -> {0} \cup {Key(e) : e \in feed}]
      /\ watermark \in {0} \cup {Key(e) : e \in feed}
  BY SoundParts DEF SaversOK, FeedOK
<1>3. fresh \in SUBSET feed /\ fresh \subseteq todo[s]
  BY <1>2
<1>4. /\ Newest(fresh) \in {0} \cup {Key(e) : e \in fresh}
      /\ \A e \in fresh : Key(e) <= Newest(fresh)
  BY <1>3, NewestFacts
<1>5. \A e \in todo[s] : e \in fresh \/ Key(e) = 0 \/ Key(e) <= watermark
  <2>1. \A e \in todo[s] : Key(e) \in Nat
    BY <1>2, KeyFacts
  <2>2. watermark \in Nat
    BY <1>2, KeyFacts
  <2> QED
    BY <2>1, <2>2 DEF New
<1> HIDE DEF fresh
<1>6. KeysCovered /\ PastCovered /\ \A r \in Savers : FetchedFirst(r) /\ LeftCovered(r)
  BY <1>1 DEF Filing
<1>7. \A r \in Savers \ {s} : pc'[r] = pc[r] /\ todo'[r] = todo[r] /\ latest'[r] = latest[r]
  BY <1>1, <1>2
<1>8. pc'[s] # "fetched" /\ todo'[s] = fresh /\ latest'[s] = Newest(fresh)
      /\ (pc'[s] = "next" => fresh # {})
  BY <1>1, <1>2
<1>9. \A f, w : Covered(f, w) => Covered(f, w)'
  <2>1. \A r \in Savers : pc[r] = "claimed" => pc'[r] = "claimed" /\ Mine(r)' = Mine(r)
    BY <1>1, <1>2 DEF Mine
  <2> QED
    BY <1>1, <2>1, CoveredKept
<1>10. LeftCovered(s)'
  <2> SUFFICES ASSUME NEW e \in feed, Due(e), Key(e) <= Newest(fresh)
               PROVE  Covered(e.film, SyncWatcher)' \/ e \in fresh
    BY <1>1, <1>8 DEF LeftCovered, Due
  <2>1. Key(e) \in Nat
    BY <1>2, KeyFacts
  <2>2. CASE e \in todo[s]
    <3>1. CASE Key(e) = 0 \/ Key(e) <= watermark
      <4>1. Key(e) <= watermark
        BY <1>2, <2>1, <3>1, KeyFacts
      <4> QED
        BY <1>6, <1>9, <4>1 DEF PastCovered
    <3> QED
      BY <1>5, <2>2, <3>1
  <2>3. CASE e \notin todo[s] /\ Newest(fresh) = 0
    <3>1. Key(e) <= watermark
      BY <1>2, <2>1, <2>3, KeyFacts
    <3> QED
      BY <1>6, <1>9, <3>1 DEF PastCovered
  <2>4. CASE e \notin todo[s] /\ Newest(fresh) # 0
    <3> PICK d \in fresh : Key(d) = Newest(fresh)
      BY <1>4, <2>4
    <3>1. d \in todo[s] /\ Key(d) \in Nat
      BY <1>2, <1>3, KeyFacts
    <3>2. Key(d) < Key(e)
      BY <1>1, <1>6, <2>4, <3>1 DEF FetchedFirst, Due
    <3> QED
      BY <2>1, <3>1, <3>2
  <2> QED
    BY <2>2, <2>3, <2>4
<1>11. FetchedFirst(s)'
  BY <1>8 DEF FetchedFirst
<1> PICK T \in SUBSET Savers : T = Savers \ {s}
  OBVIOUS
<1>12. KeysCovered' /\ PastCovered' /\ \A r \in T : FetchedFirst(r)' /\ LeftCovered(r)'
  BY <1>1, <1>6, <1>7, <1>9, FilingQuiet
<1> QED
  BY <1>10, <1>11, <1>12 DEF Filing

LEMMA FilingAdvance ==
  ASSUME Sound, Filing, NEW s \in Savers, Advance(s), faults' = 0
  PROVE  Filing'
<1>1. /\ pc[s] = "next" /\ todo[s] = {} /\ watermark' = latest[s]
      /\ latest' = [latest EXCEPT ![s] = 0] /\ pc' = [pc EXCEPT ![s] = "idle"]
      /\ UNCHANGED <<unique, feed, todo, job, faults, backdated, filed>>
  BY DEF Advance, Go, store, ghosts
<1>2. /\ pc \in [Savers -> {"idle", "fetched", "next", "claimed", "saved"}]
      /\ latest \in [Savers -> {0} \cup {Key(e) : e \in feed}] /\ s # Bot
  BY <1>1, SoundParts DEF SaversOK, FeedOK
<1>3. KeysCovered /\ PastCovered /\ \A r \in Savers : FetchedFirst(r) /\ LeftCovered(r)
  BY <1>1 DEF Filing
<1>4. \A r \in Savers \ {s} : pc'[r] = pc[r] /\ todo'[r] = todo[r] /\ latest'[r] = latest[r]
  BY <1>1, <1>2
<1>5. pc'[s] = "idle"
  BY <1>1, <1>2
<1>6. \A f, w : Covered(f, w) => Covered(f, w)'
  <2>1. \A r \in Savers : pc[r] = "claimed" => pc'[r] = "claimed" /\ Mine(r)' = Mine(r)
    BY <1>1, <1>2 DEF Mine
  <2> QED
    BY <1>1, <2>1, CoveredKept
<1>7. FetchedFirst(s)' /\ LeftCovered(s)'
  BY <1>5 DEF FetchedFirst, LeftCovered
<1> PICK T \in SUBSET Savers : T = Savers \ {s}
  OBVIOUS
<1>8. KeysCovered' /\ \A r \in T : FetchedFirst(r)' /\ LeftCovered(r)'
  BY <1>1, <1>3, <1>4, <1>6, FilingQuiet
<1>9. PastCovered'
  BY <1>1, <1>2, <1>3, <1>6 DEF PastCovered, LeftCovered, Due
<1> QED
  BY <1>7, <1>8, <1>9 DEF Filing

LEMMA FilingLog ==
  ASSUME Viewings, Sound, Filing, NEW e \in Entries, Log(e), faults' = 0
  PROVE  Filing'
<1>1. /\ e \notin feed /\ feed' = feed \cup {e}
      /\ backdated' = IF \E d \in feed : d.watched # 0 /\ Key(e) <= d.watched
                      THEN backdated \cup {e} ELSE backdated
      /\ UNCHANGED <<unique, watermark, pc, todo, job, latest, faults, filed>>
  BY DEF Log, store, sync
<1>2. /\ todo \in [Savers -> SUBSET feed] /\ feed \subseteq Entries
      /\ latest \in [Savers -> {0} \cup {Key(d) : d \in feed}]
      /\ watermark \in {0} \cup {Key(d) : d \in feed}
  BY SoundParts DEF FeedOK
<1>3. Filing /\ KeysCovered /\ PastCovered /\ \A r \in Savers : FetchedFirst(r) /\ LeftCovered(r)
  BY <1>1 DEF Filing
<1>4. \A d \in Entries : Key(d) \in Nat /\ Key(d) # 0 /\ Key(d) = d.watched
  BY KeyFacts DEF Viewings
<1>5. backdated \subseteq backdated'
  BY <1>1
<1>6. ASSUME e \notin backdated' PROVE \A d \in feed : Key(d) < Key(e)
  <2> TAKE d \in feed
  <2>1. d \in Entries /\ ~(d.watched # 0 /\ Key(e) <= d.watched)
    BY <1>1, <1>2, <1>6
  <2> QED
    BY <1>4, <2>1
<1>7. ASSUME e \notin backdated'
      PROVE  watermark < Key(e) /\ \A s \in Savers : latest[s] < Key(e)
  <2>1. \A k \in {0} \cup {Key(d) : d \in feed} : k < Key(e)
    BY <1>2, <1>4, <1>6, <1>7
  <2> QED
    BY <1>2, <2>1
<1>8. \A f, w : Covered(f, w) <=> Covered(f, w)'
  BY <1>1 DEF Covered, Mine
<1>9. KeysCovered'
  BY <1>1, <1>3, <1>8 DEF KeysCovered
<1>10. ASSUME NEW d \in feed', d \notin backdated', d \notin feed
       PROVE  d = e /\ e \notin backdated'
  BY <1>1, <1>10
<1>11. \A d : Due(d)' => Due(d) /\ d \notin backdated'
  BY <1>5 DEF Due
<1>12. watermark \in Nat /\ \A s \in Savers : latest[s] \in Nat
  BY <1>2, <1>4
<1>13. PastCovered'
  <2> SUFFICES ASSUME NEW d \in feed', Due(d)', Key(d) <= watermark
               PROVE  Covered(d.film, SyncWatcher)
    BY <1>1, <1>8 DEF PastCovered
  <2>1. d \in feed
    BY <1>4, <1>7, <1>10, <1>11, <1>12
  <2> QED
    BY <1>3, <1>11, <2>1 DEF PastCovered
<1>14. ASSUME NEW s \in Savers PROVE FetchedFirst(s)'
  <2> SUFFICES ASSUME pc[s] = "fetched", NEW x \in feed', x \notin todo[s],
                      x \notin backdated', NEW d \in todo[s]
               PROVE  Key(d) < Key(x)
    BY <1>1 DEF FetchedFirst
  <2>1. CASE x \in feed
    BY <1>3, <1>5, <2>1 DEF FetchedFirst
  <2>2. CASE x \notin feed
    BY <1>2, <1>6, <1>10, <2>2
  <2> QED
    BY <2>1, <2>2
<1>15. ASSUME NEW s \in Savers PROVE LeftCovered(s)'
  <2> SUFFICES ASSUME s # Bot, pc[s] \in {"next", "claimed", "saved"},
                      NEW d \in feed', Due(d)', Key(d) <= latest[s]
               PROVE  Covered(d.film, SyncWatcher) \/ d \in todo[s]
    BY <1>1, <1>8 DEF LeftCovered
  <2>1. d \in feed
    BY <1>4, <1>7, <1>10, <1>11, <1>12
  <2> QED
    BY <1>3, <1>11, <2>1 DEF LeftCovered
<1> QED
  BY <1>9, <1>13, <1>14, <1>15 DEF Filing

\* A claim covers its pair, also when it is refused.
LEMMA ClaimCovers ==
  ASSUME Sound, KeysCovered, NEW s \in Savers, NEW f \in Films, NEW w \in Watchers,
         pc[s] \notin {"claimed", "saved"}, Claim(s, f, w), filed' = filed, ~Fail
  PROVE  /\ \A g, v : Covered(g, v) => Covered(g, v)'
         /\ Covered(f, w)'
         /\ \A g \in Films, v \in Watchers, k \in 0..MaxWeek :
              <<g, v, k>> \in unique' => <<g, v, k>> \in unique \/ Covered(g, v)'
         /\ \A r \in Savers \ {s} : pc'[r] = pc[r]
         /\ pc'[s] # "fetched"
<1>1. /\ pc \in [Savers -> {"idle", "fetched", "next", "claimed", "saved"}]
      /\ job \in [Savers -> Seq(Note)] /\ week \in 0..MaxWeek
  BY SoundParts DEF SaversOK, BoundsOK
<1>2. /\ \A r \in Savers \ {s} : pc'[r] = pc[r] /\ Mine(r)' = Mine(r)
      /\ \/ <<f, w, week>> \in unique /\ unique' = unique /\ pc'[s] = After(s)
         \/ /\ pc'[s] = "claimed" /\ Mine(s)'.film = f /\ Mine(s)'.watcher = w
            /\ unique' = unique \cup {<<f, w, week>>}
  <2>1. CASE pc' = [pc EXCEPT ![s] = After(s)] /\ UNCHANGED <<unique, job>>
             /\ <<f, w, week>> \in unique
    BY <1>1, <2>1 DEF Mine
  <2>2. CASE /\ pc' = [pc EXCEPT ![s] = "claimed"] /\ unique' = unique \cup {<<f, w, week>>}
             /\ \E n \in Note :
                  /\ n = [film |-> f, watcher |-> w, id |-> nextId, week |-> week]
                  /\ job' = [job EXCEPT ![s] = <<n>>]
    <3> PICK n \in Note :
           /\ n = [film |-> f, watcher |-> w, id |-> nextId, week |-> week]
           /\ job' = [job EXCEPT ![s] = <<n>>]
      BY <2>2
    <3>1. Head(<<n>>) = n /\ n.film = f /\ n.watcher = w
      BY SingleFacts
    <3>2. Mine(s)' = n /\ \A r \in Savers \ {s} : Mine(r)' = Mine(r)
      BY <1>1, <3>1 DEF Mine
    <3> QED
      BY <1>1, <2>2, <3>1, <3>2
  <2> QED
    BY <2>1, <2>2, ClaimFacts
<1>3. \A g, v : Covered(g, v) => Covered(g, v)'
  <2>1. \A r \in Savers : pc[r] = "claimed" => pc'[r] = "claimed" /\ Mine(r)' = Mine(r)
    BY <1>2
  <2> QED
    BY <2>1, CoveredKept
<1>4. Covered(f, w)'
  <2>1. CASE <<f, w, week>> \in unique
    BY <1>1, <1>3, <2>1 DEF KeysCovered
  <2>2. CASE pc'[s] = "claimed" /\ Mine(s)'.film = f /\ Mine(s)'.watcher = w
    BY <2>2 DEF Covered
  <2> QED
    BY <1>2, <2>1, <2>2
<1>5. ASSUME NEW g \in Films, NEW v \in Watchers, NEW k \in 0..MaxWeek,
             <<g, v, k>> \in unique'
      PROVE  <<g, v, k>> \in unique \/ Covered(g, v)'
  <2>1. <<g, v, k>> \in unique \/ <<g, v, k>> = <<f, w, week>>
    BY <1>2, <1>5
  <2>2. CASE <<g, v, k>> = <<f, w, week>>
    BY <1>4, <2>2
  <2> QED
    BY <2>1, <2>2
<1>6. pc'[s] # "fetched"
  BY <1>2 DEF After
<1> QED
  BY <1>2, <1>3, <1>4, <1>5, <1>6

LEMMA FilingSaveEntry ==
  ASSUME Sound, Filing, NEW s \in Savers, SaveEntry(s), faults' = 0
  PROVE  Filing'
<1> PICK e \in todo[s] :
      /\ todo' = [todo EXCEPT ![s] = @ \ {e}]
      /\ IF e.rated THEN Claim(s, e.film, SyncWatcher)
         ELSE UNCHANGED <<pc, unique, job, nextId, faults, loose>>
  BY DEF SaveEntry
<1>0. ~Fail
  BY Unfailing
<1>1. /\ pc[s] = "next"
      /\ UNCHANGED <<watermark, feed, latest, faults, backdated, filed>>
  BY <1>0 DEF SaveEntry, Claim
<1>2. /\ todo \in [Savers -> SUBSET feed] /\ s # Bot
      /\ e.film \in Films /\ SyncWatcher \in Watchers
  BY <1>1, SoundParts, LogAssumption DEF SaversOK, FeedOK
<1>3. KeysCovered /\ PastCovered /\ \A r \in Savers : FetchedFirst(r) /\ LeftCovered(r)
  BY <1>1 DEF Filing
<1>4. /\ \A r \in Savers \ {s} : todo'[r] = todo[r]
      /\ todo'[s] = todo[s] \ {e}
  BY <1>2
<1>5. /\ \A f, w : Covered(f, w) => Covered(f, w)'
      /\ ~e.rated \/ Covered(e.film, SyncWatcher)'
      /\ \A g \in Films, v \in Watchers, k \in 0..MaxWeek :
           <<g, v, k>> \in unique' => <<g, v, k>> \in unique \/ Covered(g, v)'
      /\ \A r \in Savers \ {s} : pc'[r] = pc[r]
      /\ pc'[s] # "fetched"
  <2>1. CASE e.rated
    BY <1>0, <1>1, <1>2, <1>3, <2>1, ClaimCovers
  <2>2. CASE ~e.rated
    <3>1. UNCHANGED <<pc, unique, job>>
      BY <2>2
    <3>2. \A f, w : Covered(f, w) => Covered(f, w)'
      BY <1>1, <3>1 DEF Covered, Mine
    <3> QED
      BY <1>1, <2>2, <3>1, <3>2
  <2> QED
    BY <2>1, <2>2
<1> PICK T \in SUBSET Savers : T = Savers
  OBVIOUS
<1>6. \A r \in T : pc'[r] = "fetched" => pc[r] = "fetched" /\ todo'[r] = todo[r]
  BY <1>4, <1>5
<1>7. \A r \in T : r # Bot /\ pc'[r] \in {"next", "claimed", "saved"} =>
        /\ pc[r] \in {"next", "claimed", "saved"} /\ latest'[r] = latest[r]
        /\ \A d \in todo[r] : d \in todo'[r] \/ ~d.rated \/ Covered(d.film, SyncWatcher)'
  BY <1>1, <1>4, <1>5
<1>8. KeysCovered' /\ PastCovered' /\ \A r \in T : FetchedFirst(r)' /\ LeftCovered(r)'
  BY <1>1, <1>3, <1>5, <1>6, <1>7, FilingQuiet
<1> QED
  BY <1>8 DEF Filing

LEMMA FilingRate ==
  ASSUME Sound, Filing, NEW f \in Films, NEW w \in Watchers, Rate(f, w), faults' = 0
  PROVE  Filing'
<1>0. ~Fail
  BY Unfailing
<1>1. /\ pc[Bot] = "idle" /\ Claim(Bot, f, w) /\ Bot \in Savers
      /\ UNCHANGED <<watermark, feed, todo, latest, faults, backdated, filed>>
  BY <1>0 DEF Rate, Claim, Savers
<1>2. KeysCovered /\ PastCovered /\ \A r \in Savers : FetchedFirst(r) /\ LeftCovered(r)
  BY <1>1 DEF Filing
<1>3. /\ \A g, v : Covered(g, v) => Covered(g, v)'
      /\ \A g \in Films, v \in Watchers, k \in 0..MaxWeek :
           <<g, v, k>> \in unique' => <<g, v, k>> \in unique \/ Covered(g, v)'
      /\ \A r \in Savers \ {Bot} : pc'[r] = pc[r]
      /\ pc'[Bot] # "fetched"
  BY <1>0, <1>1, <1>2, ClaimCovers
<1> PICK T \in SUBSET Savers : T = Savers
  OBVIOUS
<1>4. KeysCovered' /\ PastCovered' /\ \A r \in T : FetchedFirst(r)' /\ LeftCovered(r)'
  BY <1>1, <1>2, <1>3, FilingQuiet
<1> QED
  BY <1>4 DEF Filing

LEMMA FilingStore ==
  ASSUME Sound, Filing, NEW s \in Savers, Store(s) \/ Publish(s), faults' = 0
  PROVE  Filing'
<1>0. ~Fail
  BY Unfailing
<1>1. /\ UNCHANGED <<unique, watermark, feed, todo, latest, backdated>>
      /\ pc[s] \in {"claimed", "saved"} /\ faults = 0
      /\ pc' = [pc EXCEPT ![s] = IF s = Bot THEN "idle"
                                 ELSE IF pc[s] = "claimed" THEN "saved" ELSE "next"]
      /\ job' \in {job, [job EXCEPT ![s] = <<>>]} /\ filed \subseteq filed'
      /\ pc[s] = "claimed" => <<Mine(s).film, Mine(s).watcher>> \in filed'
  <2>1. CASE Store(s)
    <3>1. /\ pc[s] = "claimed" /\ UNCHANGED faults
          /\ UNCHANGED <<unique, watermark, feed, todo, latest, backdated>>
          /\ pc' = [pc EXCEPT ![s] = IF s = Bot THEN "idle" ELSE "saved"]
          /\ job' \in {job, [job EXCEPT ![s] = <<>>]}
          /\ Stored(Mine(s), 1)
      BY <1>0, <2>1 DEF Store, Go, Mine
    <3> QED
      BY <3>1 DEF Stored
  <2>2. CASE Publish(s)
    <3>1. /\ faults \in Nat
          /\ pc[s] = "saved" /\ s # Bot
      BY <2>2, SoundParts, LogAssumption DEF Publish, BoundsOK, SaversOK
    <3> QED
      BY <1>0, <2>2, <3>1 DEF Publish, Go, store, ghosts
  <2> QED
    BY <2>1, <2>2
<1>2. /\ pc \in [Savers -> {"idle", "fetched", "next", "claimed", "saved"}]
      /\ job \in [Savers -> Seq(Note)]
  BY SoundParts DEF SaversOK
<1>3. KeysCovered /\ PastCovered /\ \A r \in Savers : FetchedFirst(r) /\ LeftCovered(r)
  BY <1>1 DEF Filing
<1>4. \A r \in Savers \ {s} : pc'[r] = pc[r] /\ Mine(r)' = Mine(r)
  BY <1>1, <1>2 DEF Mine
<1>5. pc'[s] \in {"idle", "saved", "next"} /\ (s = Bot => pc'[s] = "idle")
  BY <1>1, <1>2
<1>6. \A f, w : Covered(f, w) => Covered(f, w)'
  <2>1. \A r \in Savers : pc[r] = "claimed" =>
          \/ pc'[r] = "claimed" /\ Mine(r)' = Mine(r)
          \/ <<Mine(r).film, Mine(r).watcher>> \in filed'
    BY <1>1, <1>4
  <2> QED
    BY <1>1, <2>1, CoveredKept
<1> PICK T \in SUBSET Savers : T = Savers
  OBVIOUS
<1>7. \A r \in T : pc'[r] = "fetched" => pc[r] = "fetched" /\ todo'[r] = todo[r]
  BY <1>1, <1>4, <1>5
<1>8. \A r \in T : r # Bot /\ pc'[r] \in {"next", "claimed", "saved"} =>
        /\ pc[r] \in {"next", "claimed", "saved"} /\ latest'[r] = latest[r]
        /\ \A d \in todo[r] : d \in todo'[r] \/ ~d.rated \/ Covered(d.film, SyncWatcher)'
  BY <1>1, <1>4, <1>5
<1>9. KeysCovered' /\ PastCovered' /\ \A r \in T : FetchedFirst(r)' /\ LeftCovered(r)'
  BY <1>1, <1>3, <1>6, <1>7, <1>8, FilingQuiet
<1> QED
  BY <1>9 DEF Filing

LEMMA FilingStep == Viewings /\ Sound /\ Filing /\ [Next]_vars => Filing'
<1> SUFFICES ASSUME Viewings, Sound, Filing, [Next]_vars, faults' = 0 PROVE Filing'
  BY DEF Filing
<1>0. faults \in Nat /\ ~Fail
  BY SoundParts, LogAssumption DEF BoundsOK, Fail
<1>1. ASSUME NEW s \in Savers,
             \/ Store(s) \/ StoreFails(s) \/ Fetch(s) \/ Compare(s)
             \/ SaveEntry(s) \/ Publish(s) \/ Advance(s) \/ SyncFails(s)
      PROVE  Filing'
  <2>1. ~StoreFails(s) /\ ~SyncFails(s)
    BY <1>0 DEF StoreFails, SyncFails
  <2> QED
    BY <1>1, <2>1, FilingStore, FilingFetch, FilingCompare, FilingSaveEntry, FilingAdvance
<1>2. CASE \E f \in Films, w \in Watchers : Rate(f, w)
  BY <1>2, FilingRate
<1>3. CASE \E e \in Entries : Log(e)
  BY <1>3, FilingLog
<1>4. CASE \E dead \in {{Bot, "/sync"}, {"cron"}} : Crash(dead)
  BY <1>0, <1>4 DEF Crash
<1>5. CASE \/ \E f \in Films, w \in Watchers : Unrate(f, w)
           \/ Erase \/ Tidy \/ FreeKey \/ DeleteStops \/ Take \/ Post \/ NewWeek
           \/ UNCHANGED vars
  <2>1. /\ UNCHANGED <<watermark, feed, pc, todo, job, latest, faults, backdated, filed>>
        /\ unique' \subseteq unique
    <3>1. CASE \E f \in Films, w \in Watchers : Unrate(f, w)
      BY <3>1 DEF Unrate, store, sync
    <3>2. CASE Erase \/ Tidy
      BY <1>0, <3>2 DEF Erase, Tidy, sync, ghosts
    <3>3. CASE FreeKey \/ DeleteStops \/ NewWeek
      BY <1>0, <3>3 DEF FreeKey, DeleteStops, NewWeek, store, sync, ghosts
    <3>4. CASE Take \/ Post
      BY <1>0, <3>4 DEF Take, Post, store, sync, ghosts
    <3>5. CASE UNCHANGED vars
      BY <3>5 DEF vars, store, sync, ghosts
    <3> QED
      BY <1>5, <3>1, <3>2, <3>3, <3>4, <3>5
  <2>2. KeysCovered /\ PastCovered /\ \A r \in Savers : FetchedFirst(r) /\ LeftCovered(r)
    BY <2>1 DEF Filing
  <2>3. \A f, w : Covered(f, w) => Covered(f, w)'
    BY <2>1 DEF Covered, Mine
  <2> PICK T \in SUBSET Savers : T = Savers
    OBVIOUS
  <2>4. \A f \in Films, w \in Watchers, k \in 0..MaxWeek :
          <<f, w, k>> \in unique' => <<f, w, k>> \in unique \/ Covered(f, w)'
    BY <2>1
  <2>5. KeysCovered' /\ PastCovered' /\ \A r \in T : FetchedFirst(r)' /\ LeftCovered(r)'
    BY <2>1, <2>2, <2>3, <2>4, FilingQuiet
  <2> QED
    BY <2>5 DEF Filing
<1> QED
  BY <1>1, <1>2, <1>3, <1>4, <1>5 DEF Next

\* "Saves any new entries" (run_sync): /sync, the daily job, /rate and /unrate
\* together lose no entry behind the watermark, as long as nothing fails and
\* the feed has viewings only.
THEOREM DiaryIsFiled ==
  ASSUME Viewings
  PROVE  Spec => []NewEntriesFiled
<1>1. Init => Filing
  <2> SUFFICES ASSUME Init PROVE KeysCovered /\ PastCovered /\
                                 \A s \in Savers : FetchedFirst(s) /\ LeftCovered(s)
    BY DEF Filing
  <2>1. unique = {} /\ feed = {} /\ pc = [s \in Savers |-> "idle"]
    BY DEF Init
  <2>2. \A s \in Savers : pc[s] = "idle"
    BY <2>1
  <2> QED
    BY <2>1, <2>2 DEF KeysCovered, PastCovered, FetchedFirst, LeftCovered
<1>2. Sound /\ Filing => NewEntriesFiled
  <2> SUFFICES ASSUME Sound, Filing, faults = 0, NEW e \in feed,
                      e.rated, e.watched \in 1..watermark, e \notin backdated
               PROVE  Covered(e.film, SyncWatcher)
    BY DEF NewEntriesFiled, Covered, Mine
  <2>1. e \in Entries /\ watermark \in Nat
    BY SoundParts, KeyFacts DEF FeedOK
  <2>2. e.watched # 0 /\ e.watched <= watermark
    BY <2>1
  <2>3. Key(e) = e.watched
    BY <2>1, <2>2, KeyFacts
  <2> QED
    BY <2>2, <2>3 DEF Filing, PastCovered, Due
<1>3. Sound /\ Filing /\ [Next]_vars => Filing'
  BY FilingStep
<1> QED
  BY <1>1, <1>2, <1>3, InitSound, StepSound, PTL DEF Spec

-----------------------------------------------------------------------------
(* Notes, indexes, counts and keys agree.                                  *)

\* What has been claimed or written: later notes are of later weeks.
Born == notes \cup {Mine(s) : s \in {r \in Savers : pc[r] = "claimed"}}
InOrder == \A a, b \in Born : a.id <= b.id => a.week <= b.week

IndexExact == \A k \in Films \cup Watchers : index[k] = {n \in notes : k \in Axes(n)}
CountExact ==
  /\ IsFiniteSet(notes)
  /\ \A k \in Films \cup Watchers : k \notin skewed => count[k] = Cardinality(index[k])

\* A note, or a claim, of the pair in this week; its key is taken for one of them.
Now(n, f, w) == n.film = f /\ n.watcher = w /\ n.week = week
Claims(s, f, w) == pc[s] = "claimed" /\ Now(Mine(s), f, w)
Noted(f, w) == \E n \in notes : Now(n, f, w)
Claimed(f, w) == \E s \in Savers : Claims(s, f, w)

KeyTrue(f, w) ==
  /\ \A n, m \in notes : Now(n, f, w) /\ Now(m, f, w) => n = m
  /\ \A s, r \in Savers : Claims(s, f, w) /\ Claims(r, f, w) => s = r
  /\ ~(Noted(f, w) /\ Claimed(f, w))
  /\ <<f, w, week>> \in unique <=> Noted(f, w) \/ Claimed(f, w)

\* A deletion has erased its note, and has still to free its key.
Erased == del.at \in {"count", "stats", "card", "index", "key"}

\* Until then the key is there without its note; others are so after a failure.
KeysTrue ==
  \A f \in Films, w \in Watchers :
    \/ KeyTrue(f, w) \/ <<f, w, week>> \in loose
    \/ Erased /\ Now(del.note, f, w)

\* No save runs beside a deletion; it found the newest note of its pair, and
\* what it read of the counts and the indexes still holds.
DeletionTrue ==
  del # NoDelete =>
    /\ \A s \in Savers : pc[s] # "claimed"
    /\ del.at = "found" =>
         /\ del.note \in notes
         /\ \A m \in notes : m.film = del.note.film /\ m.watcher = del.note.watcher =>
              m.id <= del.note.id
    /\ Erased => \/ ~Noted(del.note.film, del.note.watcher)
                 \/ <<del.note.film, del.note.watcher, week>> \in loose
    /\ del.at = "index" => index[del.axis] = {}
    /\ del.at = "stats" => count[del.axis] <= 0

Agree == ~overlap => IndexExact /\ CountExact /\ KeysTrue /\ DeletionTrue

LEMMA NowKey ==
  ASSUME NEW n, NEW f, NEW w
  PROVE  Now(n, f, w) <=> KeyOf(n) = <<f, w, week>>
BY DEF Now, KeyOf

LEMMA DisjointAxes ==
  ASSUME NEW n \in Note
  PROVE  /\ n.film \in Films /\ n.watcher \in Watchers /\ n.film # n.watcher
         /\ Axes(n) = {n.film, n.watcher} /\ Axes(n) \subseteq Films \cup Watchers
         /\ \A f \in Films : f \in Axes(n) <=> f = n.film
         /\ n.id \in Nat /\ n.week \in 0..MaxWeek /\ n.week \in Nat
BY LogAssumption DEF Note, Axes

LEMMA BornFacts ==
  ASSUME Sound
  PROVE  Born \subseteq Note /\ \A b \in Born : b.id < nextId /\ b.week <= week
BY HeldFacts, SoundParts DEF Sound, Born, Holds, StoreOK, IdsOK

LEMMA InOrderClaim ==
  ASSUME Sound, InOrder, NEW s \in Savers, NEW f \in Films, NEW w \in Watchers,
         pc[s] \notin {"claimed", "saved"}, Claim(s, f, w), notes' = notes
  PROVE  InOrder'
<1>1. /\ pc \in [Savers -> {"idle", "fetched", "next", "claimed", "saved"}]
      /\ job \in [Savers -> Seq(Note)] /\ nextId \in Nat /\ week \in Nat
  BY SoundParts, LogAssumption DEF SaversOK, BoundsOK
<1>2. CASE pc' = [pc EXCEPT ![s] = After(s)] /\ UNCHANGED <<job, nextId>>
  <2>1. \A r \in Savers : pc'[r] = "claimed" => pc[r] = "claimed" /\ Mine(r)' = Mine(r)
    BY <1>1, <1>2 DEF After, Mine
  <2>2. Born' \subseteq Born
    BY <2>1 DEF Born
  <2> QED
    BY <2>2 DEF InOrder
<1>3. CASE /\ pc' = [pc EXCEPT ![s] = "claimed"]
           /\ \E n \in Note :
                /\ n = [film |-> f, watcher |-> w, id |-> nextId, week |-> week]
                /\ job' = [job EXCEPT ![s] = <<n>>]
  <2> PICK n \in Note :
         /\ n = [film |-> f, watcher |-> w, id |-> nextId, week |-> week]
         /\ job' = [job EXCEPT ![s] = <<n>>]
    BY <1>3
  <2>1. Head(<<n>>) = n /\ n.id = nextId /\ n.week = week
    BY SingleFacts
  <2>2. Mine(s)' = n /\ \A r \in Savers \ {s} : pc'[r] = pc[r] /\ Mine(r)' = Mine(r)
    BY <1>1, <1>3, <2>1 DEF Mine
  <2>3. Born' \subseteq Born \cup {n}
    BY <2>2 DEF Born
  <2>4. \A b \in Born : b.id \in Nat /\ b.week \in Nat /\ b.id < nextId /\ b.week <= week
    BY BornFacts, DisjointAxes
  <2> QED
    BY <1>1, <2>1, <2>3, <2>4 DEF InOrder
<1> QED
  BY <1>2, <1>3, ClaimFacts, ZenonT(30)

LEMMA InOrderStep == Sound /\ InOrder /\ [Next]_vars => InOrder'
<1> SUFFICES ASSUME Sound, InOrder, [Next]_vars PROVE InOrder'
  OBVIOUS
<1>0. /\ pc \in [Savers -> {"idle", "fetched", "next", "claimed", "saved"}]
      /\ job \in [Savers -> Seq(Note)]
  BY SoundParts DEF SaversOK
<1>1. ASSUME Born' \subseteq Born PROVE InOrder'
  BY <1>1 DEF InOrder
<1>2. ASSUME notes' \subseteq notes,
             \A r \in Savers : pc'[r] = "claimed" => pc[r] = "claimed" /\ Mine(r)' = Mine(r)
      PROVE  InOrder'
  BY <1>1, <1>2 DEF Born
<1>3. ASSUME NEW s \in Savers, Store(s)
      PROVE  InOrder'
  <2>1. /\ pc[s] = "claimed" /\ notes' = notes \cup {Mine(s)}
        /\ pc' = [pc EXCEPT ![s] = IF s = Bot THEN "idle" ELSE "saved"]
        /\ job' = IF s = Bot THEN [job EXCEPT ![s] = <<>>] ELSE job
    BY <1>3 DEF Store, Stored, Go, Mine
  <2>2. \A r \in Savers : pc'[r] = "claimed" => pc[r] = "claimed" /\ Mine(r)' = Mine(r)
    BY <1>0, <2>1 DEF Mine
  <2> QED
    BY <1>1, <2>1, <2>2 DEF Born
<1>4. ASSUME NEW s \in Savers, Publish(s)
      PROVE  InOrder'
  <2>1. /\ notes' = notes /\ job' = [job EXCEPT ![s] = <<>>]
        /\ pc' = [pc EXCEPT ![s] = "next"]
    BY <1>4 DEF Publish, Go, store
  <2>2. \A r \in Savers : pc'[r] = "claimed" => pc[r] = "claimed" /\ Mine(r)' = Mine(r)
    BY <1>0, <2>1 DEF Mine
  <2> QED
    BY <1>2, <2>1, <2>2
<1>5. ASSUME NEW s \in Savers, Fetch(s) \/ Compare(s) \/ Advance(s) \/ SyncFails(s)
      PROVE  InOrder'
  <2>1. /\ notes' = notes /\ job' = job
        /\ \E place \in {"idle", "fetched", "next"} : pc' = [pc EXCEPT ![s] = place]
    <3>1. CASE Fetch(s)
      BY <3>1 DEF Fetch, Go, store
    <3>2. CASE Compare(s)
      BY <3>2 DEF Compare, Go, store
    <3>3. CASE Advance(s)
      BY <3>3 DEF Advance, Go, store
    <3>4. CASE SyncFails(s)
      BY <3>4 DEF SyncFails, Go, store
    <3> QED
      BY <1>5, <3>1, <3>2, <3>3, <3>4
  <2>2. \A r \in Savers : pc'[r] = "claimed" => pc[r] = "claimed" /\ Mine(r)' = Mine(r)
    BY <1>0, <2>1 DEF Mine
  <2> QED
    BY <1>2, <2>1, <2>2
<1>6. ASSUME NEW s \in Savers, SaveEntry(s)
      PROVE  InOrder'
  <2> PICK e \in todo[s] : IF e.rated THEN Claim(s, e.film, SyncWatcher)
                           ELSE UNCHANGED <<pc, unique, job, nextId, faults, loose>>
    BY <1>6 DEF SaveEntry
  <2>1. pc[s] = "next" /\ notes' = notes /\ e.film \in Films /\ SyncWatcher \in Watchers
    BY <1>6, SoundParts, LogAssumption DEF SaveEntry, FeedOK
  <2>2. CASE e.rated
    BY <2>1, <2>2, InOrderClaim
  <2>3. CASE ~e.rated
    BY <1>2, <2>1, <2>3 DEF Mine
  <2> QED
    BY <2>2, <2>3
<1>7. ASSUME NEW f \in Films, NEW w \in Watchers, Rate(f, w)
      PROVE  InOrder'
  <2>1. pc[Bot] = "idle" /\ notes' = notes /\ Claim(Bot, f, w) /\ Bot \in Savers
    BY <1>7 DEF Rate, Savers
  <2> QED
    BY <2>1, InOrderClaim
<1>8. CASE \/ \E f \in Films, w \in Watchers : Unrate(f, w)
           \/ Erase \/ Tidy \/ FreeKey \/ DeleteStops \/ Take \/ Post \/ NewWeek
           \/ (\E e \in Entries : Log(e)) \/ UNCHANGED vars
  <2>1. notes' \subseteq notes /\ UNCHANGED <<pc, job>>
    <3>1. CASE \E f \in Films, w \in Watchers : Unrate(f, w)
      BY <3>1 DEF Unrate, store, sync
    <3>2. CASE Erase \/ Tidy \/ FreeKey \/ DeleteStops
      BY <3>2 DEF Erase, Tidy, FreeKey, DeleteStops, store, sync
    <3>3. CASE Take \/ Post \/ NewWeek
      BY <3>3 DEF Take, Post, NewWeek, store, sync
    <3>4. CASE \E e \in Entries : Log(e)
      BY <3>4 DEF Log, store, sync
    <3>5. CASE UNCHANGED vars
      BY <3>5 DEF vars, store, sync
    <3> QED
      BY <1>8, <3>1, <3>2, <3>3, <3>4, <3>5
  <2> QED
    BY <1>2, <2>1 DEF Mine
<1>9. ASSUME NEW dead \in {{Bot, "/sync"}, {"cron"}}, Crash(dead)
      PROVE  InOrder'
  <2>1. /\ notes' = notes
        /\ pc' = [s \in Savers |-> IF s \in dead THEN "idle" ELSE pc[s]]
        /\ job' = [s \in Savers |-> IF s \in dead THEN <<>> ELSE job[s]]
    BY <1>9 DEF Crash, store
  <2>2. \A r \in Savers : pc'[r] = "claimed" => pc[r] = "claimed" /\ Mine(r)' = Mine(r)
    BY <2>1 DEF Mine
  <2> QED
    BY <1>2, <2>1, <2>2
<1>10. ASSUME NEW s \in Savers, StoreFails(s)
       PROVE  InOrder'
  <2>1. /\ pc[s] = "claimed" /\ notes' \subseteq notes \cup {Mine(s)}
        /\ pc' = [pc EXCEPT ![s] = After(s)] /\ job' = [job EXCEPT ![s] = <<>>]
        /\ After(s) # "claimed"
    BY <1>10, StoreFailsFacts DEF Stored, After
  <2>2. \A r \in Savers : pc'[r] = "claimed" => pc[r] = "claimed" /\ Mine(r)' = Mine(r)
    BY <1>0, <2>1 DEF Mine
  <2> QED
    BY <1>1, <2>1, <2>2 DEF Born
<1> QED
  BY <1>3, <1>4, <1>5, <1>6, <1>7, <1>8, <1>9, <1>10 DEF Next

\* Steps that leave the store, the deletion and the claims alone.
LEMMA AgreeSame ==
  ASSUME Agree, overlap => overlap', loose \subseteq loose', skewed \subseteq skewed',
         UNCHANGED <<notes, index, count, unique, del, week>>,
         \A s \in Savers : /\ pc'[s] = "claimed" <=> pc[s] = "claimed"
                           /\ pc[s] = "claimed" => Mine(s)' = Mine(s)
  PROVE  Agree'
<1> SUFFICES ASSUME ~overlap' PROVE IndexExact' /\ CountExact' /\ KeysTrue' /\ DeletionTrue'
  BY DEF Agree
<1>1. IndexExact /\ CountExact /\ KeysTrue /\ DeletionTrue
  BY DEF Agree
<1>2. IndexExact' /\ CountExact'
  BY <1>1 DEF IndexExact, CountExact
<1>3. \A f, w : (Noted(f, w)' <=> Noted(f, w)) /\ (Claimed(f, w)' <=> Claimed(f, w))
  BY DEF Noted, Claimed, Claims, Now
<1>4. \A f, w : KeyTrue(f, w) => KeyTrue(f, w)'
  BY <1>3 DEF KeyTrue, Claims, Now
<1>5. KeysTrue'
  BY <1>1, <1>4 DEF KeysTrue, Erased, Now
<1>6. DeletionTrue'
  BY <1>1, <1>3 DEF DeletionTrue, Erased
<1> QED
  BY <1>2, <1>5, <1>6

\* A pair's key is true when its notes and claims of this week stay.
LEMMA KeyKept ==
  ASSUME NEW f \in Films, NEW w \in Watchers, KeyTrue(f, w), week' = week,
         week \in 0..MaxWeek,
         <<f, w, week>> \in unique' <=> <<f, w, week>> \in unique,
         \A n : Now(n, f, w) => (n \in notes' <=> n \in notes),
         \A s \in Savers : Claims(s, f, w)' <=> Claims(s, f, w)
  PROVE  KeyTrue(f, w)'
<1>1. \A n : Now(n, f, w)' <=> Now(n, f, w)
  BY DEF Now
<1>2. (Noted(f, w)' <=> Noted(f, w)) /\ (Claimed(f, w)' <=> Claimed(f, w))
  BY <1>1 DEF Noted, Claimed
<1> QED
  BY <1>1, <1>2 DEF KeyTrue

\* Every other key is true still when the claims and keys of one pair change.
LEMMA OtherKeys ==
  ASSUME Sound, KeysTrue, UNCHANGED <<notes, week, del>>, loose \subseteq loose',
         NEW f \in Films, NEW w \in Watchers,
         \A g, v : g # f \/ v # w =>
           /\ <<g, v, week>> \in unique' <=> <<g, v, week>> \in unique
           /\ \A s \in Savers : Claims(s, g, v)' <=> Claims(s, g, v),
         KeyTrue(f, w)' \/ <<f, w, week>> \in loose' \/ (Erased /\ Now(del.note, f, w))
  PROVE  KeysTrue'
<1> SUFFICES ASSUME NEW g \in Films, NEW v \in Watchers
             PROVE  \/ KeyTrue(g, v)' \/ <<g, v, week>> \in loose'
                    \/ Erased /\ Now(del.note, g, v)
  BY DEF KeysTrue, Erased, Now
<1>1. CASE g = f /\ v = w
  BY <1>1
<1>2. CASE g # f \/ v # w
  <2>1. KeyTrue(g, v) \/ <<g, v, week>> \in loose \/ (Erased /\ Now(del.note, g, v))
    BY DEF KeysTrue
  <2>2. ASSUME KeyTrue(g, v) PROVE KeyTrue(g, v)'
    BY <1>2, <2>2, KeyKept, SoundParts DEF BoundsOK
  <2> QED
    BY <2>1, <2>2
<1> QED
  BY <1>1, <1>2

LEMMA AgreeClaim ==
  ASSUME Sound, Agree, NEW s \in Savers, NEW f \in Films, NEW w \in Watchers,
         pc[s] \notin {"claimed", "saved"}, Claim(s, f, w),
         ~overlap' => ~overlap /\ del = NoDelete,
         UNCHANGED <<notes, index, count, del, week, skewed>>
  PROVE  Agree'
<1>1. /\ pc \in [Savers -> {"idle", "fetched", "next", "claimed", "saved"}]
      /\ job \in [Savers -> Seq(Note)] /\ week \in 0..MaxWeek
  BY SoundParts DEF SaversOK, BoundsOK
<1>2. CASE pc' = [pc EXCEPT ![s] = After(s)] /\ UNCHANGED <<unique, job, loose>>
  <2>1. \A r \in Savers : /\ pc'[r] = "claimed" <=> pc[r] = "claimed"
                          /\ pc[r] = "claimed" => Mine(r)' = Mine(r)
    BY <1>1, <1>2 DEF After, Mine
  <2> QED
    BY <1>2, <2>1, AgreeSame
<1>3. ASSUME pc' = [pc EXCEPT ![s] = "claimed"], <<f, w, week>> \notin unique,
             unique' = unique \cup {<<f, w, week>>}, NEW n \in Note,
             n = [film |-> f, watcher |-> w, id |-> nextId, week |-> week],
             job' = [job EXCEPT ![s] = <<n>>], loose' = loose
      PROVE  Agree'
  <2> SUFFICES ASSUME ~overlap'
               PROVE  IndexExact' /\ CountExact' /\ KeysTrue' /\ DeletionTrue'
    BY DEF Agree
  <2>1. IndexExact /\ CountExact /\ KeysTrue /\ del = NoDelete
    BY DEF Agree
  <2>2. IndexExact' /\ CountExact' /\ DeletionTrue'
    BY <2>1 DEF IndexExact, CountExact, DeletionTrue
  <2>3. ~Erased
    BY <2>1 DEF Erased, NoDelete
  <2>4. Head(<<n>>) = n /\ n.film = f /\ n.watcher = w /\ n.week = week
    BY <1>3, SingleFacts
  <2>5. Mine(s)' = n /\ \A r \in Savers \ {s} : pc'[r] = pc[r] /\ Mine(r)' = Mine(r)
    BY <1>1, <1>3, <2>4 DEF Mine
  <2>6. \A r \in Savers \ {s} : \A g, v : Claims(r, g, v)' <=> Claims(r, g, v)
    BY <2>5 DEF Claims, Now
  <2>7. \A g, v : Claims(s, g, v)' <=> g = f /\ v = w
    BY <1>1, <1>3, <2>4, <2>5 DEF Claims, Now
  <2>8. ~\E g, v : Claims(s, g, v)
    BY DEF Claims
  <2>9. KeyTrue(f, w)' \/ <<f, w, week>> \in loose'
    <3> SUFFICES ASSUME <<f, w, week>> \notin loose PROVE KeyTrue(f, w)'
      BY <1>3
    <3>1. ~Noted(f, w) /\ ~Claimed(f, w)
      BY <1>3, <2>1, <2>3 DEF KeysTrue, KeyTrue
    <3>2. ~Noted(f, w)' /\ \A m \in notes' : ~Now(m, f, w)'
      BY <3>1 DEF Noted, Now
    <3>3. \A r \in Savers : Claims(r, f, w)' => r = s
      BY <2>6, <3>1 DEF Claimed
    <3>4. Claimed(f, w)'
      BY <2>7 DEF Claimed
    <3> QED
      BY <1>3, <3>2, <3>3, <3>4 DEF KeyTrue
  <2>10. \A g, v : g # f \/ v # w =>
           /\ <<g, v, week>> \in unique' <=> <<g, v, week>> \in unique
           /\ \A r \in Savers : Claims(r, g, v)' <=> Claims(r, g, v)
    BY <1>3, <2>6, <2>7, <2>8
  <2>11. KeysTrue'
    BY <1>3, <2>1, <2>9, <2>10, OtherKeys
  <2> QED
    BY <2>2, <2>11
<1>4. CASE /\ pc' = [pc EXCEPT ![s] = "claimed"] /\ <<f, w, week>> \notin unique
           /\ unique' = unique \cup {<<f, w, week>>} /\ UNCHANGED loose
           /\ \E n \in Note :
                /\ n = [film |-> f, watcher |-> w, id |-> nextId, week |-> week]
                /\ job' = [job EXCEPT ![s] = <<n>>]
  <2> PICK n \in Note :
         /\ n = [film |-> f, watcher |-> w, id |-> nextId, week |-> week]
         /\ job' = [job EXCEPT ![s] = <<n>>]
    BY <1>4
  <2> QED
    BY <1>3, <1>4
<1>5. CASE /\ pc' = [pc EXCEPT ![s] = After(s)] /\ UNCHANGED job
           /\ unique' = unique \cup {<<f, w, week>>} /\ loose' = loose \cup {<<f, w, week>>}
  <2> SUFFICES ASSUME ~overlap'
               PROVE  IndexExact' /\ CountExact' /\ KeysTrue' /\ DeletionTrue'
    BY DEF Agree
  <2>1. IndexExact /\ CountExact /\ KeysTrue /\ del = NoDelete
    BY DEF Agree
  <2>2. IndexExact' /\ CountExact' /\ DeletionTrue'
    BY <2>1 DEF IndexExact, CountExact, DeletionTrue
  <2>3. \A r \in Savers : /\ pc'[r] = "claimed" <=> pc[r] = "claimed"
                          /\ Mine(r)' = Mine(r)
    BY <1>1, <1>5 DEF After, Mine
  <2>4. \A g, v : g # f \/ v # w =>
          /\ <<g, v, week>> \in unique' <=> <<g, v, week>> \in unique
          /\ \A r \in Savers : Claims(r, g, v)' <=> Claims(r, g, v)
    BY <1>5, <2>3 DEF Claims, Now
  <2>5. KeysTrue'
    BY <1>5, <2>1, <2>4, OtherKeys
  <2> QED
    BY <2>2, <2>5
<1> QED
  BY <1>2, <1>4, <1>5, ClaimFacts

\* An index and its count, when the notes gain or lose one.
LEMMA CountMoves ==
  ASSUME Sound, IndexExact, CountExact, NEW n \in Note, NEW by \in Int,
         count' = Counted(n, by),
         \/ /\ n \notin notes /\ notes' = notes \cup {n} /\ (skewed' = skewed => by = 1)
            /\ index' = [k \in DOMAIN index |-> IF k \in Axes(n) THEN index[k] \cup {n}
                                                ELSE index[k]]
         \/ /\ n \in notes /\ notes' = notes \ {n} /\ (skewed' = skewed => by = -1)
            /\ index' = [k \in DOMAIN index |-> index[k] \ {n}],
         skewed' \in {skewed, skewed \cup Axes(n)}
  PROVE  IndexExact' /\ CountExact'
<1>1. /\ DOMAIN index = Films \cup Watchers /\ DOMAIN count = Films \cup Watchers
      /\ count \in [Films \cup Watchers -> Int]
  BY SoundParts DEF StoreOK
<1>2. ASSUME NEW k \in Films \cup Watchers
      PROVE  /\ IsFiniteSet(index[k]) /\ Cardinality(index[k]) \in Nat
             /\ index[k] = {m \in notes : k \in Axes(m)}
             /\ k \notin skewed' => count[k] = Cardinality(index[k])
             /\ k \notin Axes(n) => count'[k] = count[k]
             /\ k \in Axes(n) => count'[k] = count[k] + by
  <2>0. skewed \subseteq skewed'
    OBVIOUS
  <2>1. /\ index[k] = {m \in notes : k \in Axes(m)}
        /\ k \notin skewed' => count[k] = Cardinality(index[k])
    BY <2>0 DEF IndexExact, CountExact
  <2>2. index[k] \subseteq notes /\ IsFiniteSet(notes)
    BY <2>1 DEF CountExact
  <2>3. IsFiniteSet(index[k])
    BY <2>2, FS_Subset
  <2>4. /\ k \notin Axes(n) => count'[k] = count[k]
        /\ k \in Axes(n) => count'[k] = count[k] + by
    BY <1>1 DEF Counted
  <2> QED
    BY <2>1, <2>3, <2>4, FS_CardinalityType
<1>3. ASSUME NEW k \in Axes(n), k \notin skewed' PROVE skewed' = skewed
  BY <1>3
<1>4. CASE /\ n \notin notes /\ notes' = notes \cup {n} /\ (skewed' = skewed => by = 1)
           /\ index' = [k \in DOMAIN index |-> IF k \in Axes(n) THEN index[k] \cup {n}
                                               ELSE index[k]]
  <2>1. IsFiniteSet(notes')
    BY <1>4, FS_AddElement DEF CountExact
  <2>2. ASSUME NEW k \in Films \cup Watchers
        PROVE  /\ index'[k] = {m \in notes' : k \in Axes(m)}
               /\ k \notin skewed' => count'[k] = Cardinality(index'[k])
    <3>1. CASE k \in Axes(n)
      <4>1. index'[k] = index[k] \cup {n} /\ n \notin index[k]
        BY <1>1, <1>2, <1>4, <3>1
      <4>2. Cardinality(index[k] \cup {n}) = Cardinality(index[k]) + 1
        BY <1>2, <4>1, FS_AddElement
      <4>3. index'[k] = {m \in notes' : k \in Axes(m)}
        BY <1>2, <1>4, <3>1, <4>1
      <4>4. k \notin skewed' => count'[k] = Cardinality(index[k]) + 1
        BY <1>2, <1>3, <1>4, <3>1
      <4> QED
        BY <4>1, <4>2, <4>3, <4>4
    <3>2. CASE k \notin Axes(n)
      <4>1. index'[k] = index[k] /\ count'[k] = count[k]
        BY <1>1, <1>2, <1>4, <3>2
      <4>2. index'[k] = {m \in notes' : k \in Axes(m)}
        BY <1>2, <1>4, <3>2, <4>1
      <4> QED
        BY <1>2, <4>1, <4>2
    <3> QED
      BY <3>1, <3>2
  <2> QED
    BY <2>1, <2>2 DEF IndexExact, CountExact
<1>5. CASE /\ n \in notes /\ notes' = notes \ {n} /\ (skewed' = skewed => by = -1)
           /\ index' = [k \in DOMAIN index |-> index[k] \ {n}]
  <2>1. IsFiniteSet(notes')
    BY <1>5, FS_Subset DEF CountExact
  <2>2. ASSUME NEW k \in Films \cup Watchers
        PROVE  /\ index'[k] = {m \in notes' : k \in Axes(m)}
               /\ k \notin skewed' => count'[k] = Cardinality(index'[k])
    <3>0. index'[k] = index[k] \ {n}
      BY <1>1, <1>5
    <3>1. CASE k \in Axes(n)
      <4>1. n \in index[k]
        BY <1>1, <1>2, <1>5, <3>1
      <4>2. Cardinality(index[k] \ {n}) = Cardinality(index[k]) - 1
        BY <1>2, <4>1, FS_RemoveElement
      <4>3. index'[k] = {m \in notes' : k \in Axes(m)}
        BY <1>2, <1>5, <3>0
      <4>4. k \notin skewed' => count'[k] = Cardinality(index[k]) - 1
        BY <1>2, <1>3, <1>5, <3>1
      <4> QED
        BY <3>0, <4>2, <4>3, <4>4
    <3>2. CASE k \notin Axes(n)
      <4>1. index'[k] = index[k] /\ count'[k] = count[k]
        BY <1>1, <1>2, <1>5, <3>0, <3>2
      <4>2. index'[k] = {m \in notes' : k \in Axes(m)}
        BY <1>2, <1>5, <3>0
      <4> QED
        BY <1>2, <4>1, <4>2
    <3> QED
      BY <3>1, <3>2
  <2> QED
    BY <2>1, <2>2 DEF IndexExact, CountExact
<1> QED
  BY <1>4, <1>5

\* A saver's claim is over: no other changes.
LEMMA ClaimOver ==
  ASSUME Sound, NEW s \in Savers, NEW place \in {"idle", "saved", "next"},
         pc' = [pc EXCEPT ![s] = place], job' \in {job, [job EXCEPT ![s] = <<>>]}, week' = week
  PROVE  /\ \A f, w : ~Claims(s, f, w)'
         /\ \A f, w : \A r \in Savers \ {s} : Claims(r, f, w)' <=> Claims(r, f, w)
<1>1. /\ pc'[s] = place
      /\ \A r \in Savers \ {s} : pc'[r] = pc[r] /\ Mine(r)' = Mine(r)
  BY SoundParts DEF SaversOK, Mine
<1> QED
  BY <1>1 DEF Claims, Now

\* The claim becomes the note; its key stays, or is left loose.
LEMMA AgreeStored ==
  ASSUME Sound, Agree, NEW s \in Savers, pc[s] = "claimed", NEW times \in 1..2,
         Stored(Mine(s), times), NEW place \in {"idle", "saved", "next"},
         pc' = [pc EXCEPT ![s] = place], job' \in {job, [job EXCEPT ![s] = <<>>]},
         overlap' = (overlap \/ del # NoDelete),
         UNCHANGED <<del, week>>, loose' \in {loose, loose \cup {KeyOf(Mine(s))}},
         unique' = unique \/ (unique' = unique \ {KeyOf(Mine(s))} /\ KeyOf(Mine(s)) \in loose')
  PROVE  Agree'
<1> DEFINE n == Mine(s)
<1>1. /\ notes' = notes \cup {n} /\ count' = Counted(n, times)
      /\ index' = [k \in DOMAIN index |-> IF k \in Axes(n) THEN index[k] \cup {n}
                                          ELSE index[k]]
      /\ skewed' = IF times = 2 THEN skewed \cup Axes(n) ELSE skewed
  BY DEF Stored, Skew
<1>2. n \in Note /\ \A m \in notes : m.id # n.id
  BY HeldFacts, SoundParts DEF Sound, Holds, IdsOK
<1>3. Claims(s, n.film, n.watcher) <=> n.week = week
  BY DEF Claims, Now
<1>4. \A f, w : Claims(s, f, w) <=> Now(n, f, w)
  BY DEF Claims
<1>5. /\ unique' = unique \/ (unique' = unique \ {KeyOf(n)} /\ KeyOf(n) \in loose')
      /\ loose' \in {loose, loose \cup {KeyOf(n)}}
  OBVIOUS
<1>6. /\ \A f, w : ~Claims(s, f, w)'
      /\ \A f, w : \A r \in Savers \ {s} : Claims(r, f, w)' <=> Claims(r, f, w)
  BY ClaimOver
<1> HIDE DEF n
<1> SUFFICES ASSUME ~overlap' PROVE IndexExact' /\ CountExact' /\ KeysTrue' /\ DeletionTrue'
  BY DEF Agree
<1>7. IndexExact /\ CountExact /\ KeysTrue /\ del = NoDelete /\ week \in 0..MaxWeek
  BY SoundParts DEF Agree, BoundsOK
<1>8. IndexExact' /\ CountExact'
  <2>1. n \notin notes
    BY <1>2
  <2>2. skewed' \in {skewed, skewed \cup Axes(n)} /\ times \in Int
    BY <1>1
  <2>3. CASE skewed' = skewed /\ times = 2
    <3>1. Axes(n) \subseteq skewed
      BY <1>1, <2>3
    <3>2. count' = Counted(n, 2) /\ DOMAIN count = Films \cup Watchers
      BY <1>1, <2>3, SoundParts DEF StoreOK
    <3>3. \A k \in Films \cup Watchers : k \notin skewed => count'[k] = count[k]
      BY <3>1, <3>2 DEF Counted
    <3>4. \A k \in Films \cup Watchers : k \notin skewed => index'[k] = index[k]
      BY <1>1, <3>1, SoundParts DEF StoreOK
    <3>5. IsFiniteSet(notes')
      BY <1>1, <1>7, FS_AddElement DEF CountExact
    <3>6. CountExact'
      BY <1>7, <2>3, <3>3, <3>4, <3>5 DEF CountExact
    <3>7. IndexExact'
      BY <1>1, <1>7, SoundParts DEF IndexExact, StoreOK
    <3> QED
      BY <3>6, <3>7
  <2>4. CASE skewed' = skewed => times = 1
    BY <1>1, <1>2, <1>7, <2>1, <2>2, <2>4, CountMoves
  <2> QED
    BY <2>3, <2>4
<1>9. DeletionTrue' /\ ~Erased
  BY <1>7 DEF DeletionTrue, Erased, NoDelete
<1>10. \A m, f, w : Now(m, f, w)' <=> Now(m, f, w)
  BY DEF Now
<1>11. ASSUME NEW f \in Films, NEW w \in Watchers, <<f, w, week>> \notin loose'
       PROVE  KeyTrue(f, w)'
  <2>0. KeyTrue(f, w) /\ <<f, w, week>> \notin loose
    BY <1>5, <1>7, <1>9, <1>11 DEF KeysTrue
  <2>1. CASE Now(n, f, w)
    <3>0. unique' = unique
      BY <1>5, <1>11, <2>1, NowKey
    <3>1. Claims(s, f, w)
      BY <1>4, <2>1
    <3>2. /\ \A m \in notes : ~Now(m, f, w)
          /\ \A r \in Savers : Claims(r, f, w) => r = s
          /\ <<f, w, week>> \in unique
      BY <2>0, <3>1 DEF KeyTrue, Noted, Claimed
    <3>3. \A r \in Savers : ~Claims(r, f, w)'
      BY <1>6, <3>2
    <3>4. \A m \in notes' : Now(m, f, w)' => m = n
      BY <1>1, <1>10, <3>2
    <3>5. Noted(f, w)'
      BY <1>1, <1>10, <2>1 DEF Noted
    <3> QED
      BY <3>0, <3>2, <3>3, <3>4, <3>5 DEF KeyTrue, Claimed
  <2>2. CASE ~Now(n, f, w)
    <3>1. ~Claims(s, f, w)
      BY <1>4, <2>2
    <3>2. \A r \in Savers : Claims(r, f, w)' <=> Claims(r, f, w)
      BY <1>6, <3>1
    <3>3. \A m : Now(m, f, w) => (m \in notes' <=> m \in notes)
      BY <1>1, <2>2
    <3>4. <<f, w, week>> \in unique' <=> <<f, w, week>> \in unique
      BY <1>5, <2>2, NowKey
    <3> QED
      BY <1>7, <2>0, <3>2, <3>3, <3>4, KeyKept
  <2> QED
    BY <2>1, <2>2
<1> QED
  BY <1>8, <1>9, <1>11 DEF KeysTrue

\* The claim is given up, and its key with it, or left loose.
LEMMA AgreeDropped ==
  ASSUME Sound, Agree, NEW s \in Savers, pc[s] = "claimed",
         NEW place \in {"idle", "saved", "next"},
         pc' = [pc EXCEPT ![s] = place], job' \in {job, [job EXCEPT ![s] = <<>>]},
         overlap => overlap', skewed \subseteq skewed',
         UNCHANGED <<notes, index, count, del, week>>,
         loose' \in {loose, loose \cup {KeyOf(Mine(s))}},
         \/ unique' = unique \ {KeyOf(Mine(s))}
         \/ unique' = unique /\ KeyOf(Mine(s)) \in loose'
  PROVE  Agree'
<1> DEFINE n == Mine(s)
<1>1. /\ unique' = unique \ {KeyOf(n)} \/ (unique' = unique /\ KeyOf(n) \in loose')
      /\ loose' \in {loose, loose \cup {KeyOf(n)}}
      /\ \A f, w : Claims(s, f, w) <=> Now(n, f, w)
  BY DEF Claims
<1>2. week \in 0..MaxWeek
  BY SoundParts DEF BoundsOK
<1>3. /\ \A f, w : ~Claims(s, f, w)'
      /\ \A f, w : \A r \in Savers \ {s} : Claims(r, f, w)' <=> Claims(r, f, w)
  BY ClaimOver
<1> HIDE DEF n
<1> SUFFICES ASSUME ~overlap' PROVE IndexExact' /\ CountExact' /\ KeysTrue' /\ DeletionTrue'
  BY DEF Agree
<1>4. IndexExact /\ CountExact /\ KeysTrue /\ DeletionTrue
  BY DEF Agree
<1>5. del = NoDelete /\ ~Erased
  BY <1>4 DEF DeletionTrue, Erased, NoDelete
<1>6. IndexExact' /\ CountExact' /\ DeletionTrue'
  BY <1>4, <1>5 DEF IndexExact, CountExact, DeletionTrue
<1>7. ASSUME NEW f \in Films, NEW w \in Watchers, <<f, w, week>> \notin loose'
      PROVE  KeyTrue(f, w)'
  <2>0. KeyTrue(f, w)
    BY <1>1, <1>4, <1>5, <1>7 DEF KeysTrue
  <2>1. CASE Now(n, f, w)
    <3>1. Claims(s, f, w) /\ <<f, w, week>> \notin unique'
      BY <1>1, <1>7, <2>1, NowKey
    <3>2. /\ \A m \in notes : ~Now(m, f, w)
          /\ \A r \in Savers : Claims(r, f, w) => r = s
      BY <2>0, <3>1 DEF KeyTrue, Noted, Claimed
    <3>3. \A r \in Savers : ~Claims(r, f, w)'
      BY <1>3, <3>2
    <3>4. \A m \in notes' : ~Now(m, f, w)'
      BY <3>2 DEF Now
    <3> QED
      BY <3>1, <3>3, <3>4 DEF KeyTrue, Claimed, Noted
  <2>2. CASE ~Now(n, f, w)
    <3>1. \A r \in Savers : Claims(r, f, w)' <=> Claims(r, f, w)
      BY <1>1, <1>3, <2>2
    <3>2. <<f, w, week>> \in unique' <=> <<f, w, week>> \in unique
      BY <1>1, <2>2, NowKey
    <3> QED
      BY <1>2, <2>0, <3>1, <3>2, KeyKept
  <2> QED
    BY <2>1, <2>2
<1> QED
  BY <1>6, <1>7 DEF KeysTrue

LEMMA AgreeStore ==
  ASSUME Sound, Agree, NEW s \in Savers, Store(s)
  PROVE  Agree'
<1>1. /\ pc[s] = "claimed" /\ (Stored(Mine(s), 1) \/ Stored(Mine(s), 2))
      /\ overlap' = (overlap \/ del # NoDelete)
      /\ pc' = [pc EXCEPT ![s] = IF s = Bot THEN "idle" ELSE "saved"]
      /\ job' \in {job, [job EXCEPT ![s] = <<>>]}
      /\ UNCHANGED <<unique, del, week, loose>>
  BY DEF Store, Go, Mine
<1>2. PICK times \in 1..2 : Stored(Mine(s), times)
  BY <1>1
<1>3. PICK place \in {"idle", "saved", "next"} : pc' = [pc EXCEPT ![s] = place]
  BY <1>1
<1>4. pc[s] = "claimed"
  BY DEF Store
<1> QED
  BY <1>1, <1>2, <1>3, <1>4, AgreeStored

LEMMA AgreeStoreFails ==
  ASSUME Sound, Agree, NEW s \in Savers, StoreFails(s)
  PROVE  Agree'
<1>1. /\ pc[s] = "claimed"
      /\ pc' = [pc EXCEPT ![s] = After(s)] /\ job' = [job EXCEPT ![s] = <<>>]
      /\ After(s) \in {"idle", "saved", "next"} /\ UNCHANGED <<del, week>>
  BY StoreFailsFacts DEF After
<1>2. PICK times \in 0..2, freed \in BOOLEAN :
        /\ IF times = 0 THEN UNCHANGED <<notes, index, count, filed, skewed>>
           ELSE Stored(Mine(s), times)
        /\ unique' = IF freed THEN Released(Mine(s)) ELSE unique
        /\ loose' = IF freed = (times = 0) THEN loose ELSE loose \cup {KeyOf(Mine(s))}
        /\ overlap' = (overlap \/ (times # 0 /\ del # NoDelete))
  BY DEF StoreFails, Mine
<1>3. loose' \in {loose, loose \cup {KeyOf(Mine(s))}}
  BY <1>2
<1>4. CASE times = 0
  <2>1. /\ UNCHANGED <<notes, index, count, skewed>> /\ (overlap => overlap')
        /\ \/ unique' = unique \ {KeyOf(Mine(s))}
           \/ unique' = unique /\ KeyOf(Mine(s)) \in loose'
    BY <1>2, <1>4 DEF Released
  <2> QED
    BY <1>1, <1>3, <2>1, AgreeDropped
<1>5. CASE times # 0
  <2>1. /\ times \in 1..2 /\ Stored(Mine(s), times)
        /\ overlap' = (overlap \/ del # NoDelete)
        /\ \/ unique' = unique
           \/ unique' = unique \ {KeyOf(Mine(s))} /\ KeyOf(Mine(s)) \in loose'
    BY <1>2, <1>5 DEF Released
  <2> QED
    BY <1>1, <1>3, <2>1, AgreeStored
<1> QED
  BY <1>4, <1>5

\* /unrate reads the newest note of its pair.
LEMMA AgreeUnrate ==
  ASSUME Sound, Agree, NEW f \in Films, NEW w \in Watchers, Unrate(f, w)
  PROVE  Agree'
<1>1. /\ overlap' = (overlap \/ \E s \in Savers : pc[s] = "claimed")
      /\ UNCHANGED <<notes, index, count, unique, pc, job, week, loose, skewed>>
      /\ del = NoDelete
  BY DEF Unrate, store, sync
<1>2. PICK n \in notes \cap index[f] :
        /\ n.watcher = w /\ \A m \in index[f] : m.watcher = w => m.id <= n.id
        /\ del' = [at |-> "found", note |-> n, axis |-> f] /\ del' \in Deletion
  BY UnrateFacts
<1> SUFFICES ASSUME ~overlap' PROVE IndexExact' /\ CountExact' /\ KeysTrue' /\ DeletionTrue'
  BY DEF Agree
<1>3. IndexExact /\ CountExact /\ KeysTrue /\ \A s \in Savers : pc[s] # "claimed"
  BY <1>1, SoundParts DEF Agree, BoundsOK
<1>4. IndexExact' /\ CountExact'
  BY <1>1, <1>3 DEF IndexExact, CountExact
<1>5. ~Erased /\ ~Erased' /\ del'.at = "found" /\ del'.note = n
  BY <1>1, <1>2 DEF Erased, NoDelete
<1>6. KeysTrue'
  BY <1>1, <1>3, <1>5 DEF KeysTrue, KeyTrue, Noted, Claimed, Claims, Now, Mine
<1>7. \A m \in notes : m \in Note
  BY SoundParts DEF StoreOK
<1>8. n.film = f
  BY <1>2, <1>3, <1>7, DisjointAxes DEF IndexExact
<1>9. \A m \in notes : m.film = f => m \in index[f]
  BY <1>3, <1>7, DisjointAxes DEF IndexExact
<1>10. \A m \in notes : m.film = n.film /\ m.watcher = n.watcher => m.id <= n.id
  BY <1>2, <1>8, <1>9
<1>11. DeletionTrue'
  BY <1>1, <1>2, <1>3, <1>5, <1>10 DEF DeletionTrue
<1> QED
  BY <1>4, <1>6, <1>11

\* The newest note of the pair goes: if any was of this week, it was this one.
LEMMA AgreeErase ==
  ASSUME Sound, InOrder, Agree, Erase
  PROVE  Agree'
<1> PICK n : n = del.note
  OBVIOUS
<1>1. /\ del.at = "found" /\ del # NoDelete /\ del' = [del EXCEPT !.at = "count"]
      /\ notes' = notes \ {n} /\ index' = [k \in DOMAIN index |-> index[k] \ {n}]
      /\ UNCHANGED <<unique, pc, job, week, overlap, loose>>
  BY DEF Erase, Step, sync, NoDelete
<1>2. del \in Deletion /\ n \in Note /\ week \in 0..MaxWeek
  BY <1>1, SoundParts DEF DeletionOK, Deletion, BoundsOK
<1>3. del'.at = "count" /\ del'.note = n
  BY <1>1, <1>2 DEF Deletion
<1> SUFFICES ASSUME ~overlap' PROVE IndexExact' /\ CountExact' /\ KeysTrue' /\ DeletionTrue'
  BY DEF Agree
<1>4. IndexExact /\ CountExact /\ KeysTrue /\ DeletionTrue
  BY <1>1 DEF Agree
<1>5. /\ n \in notes /\ \A s \in Savers : pc[s] # "claimed"
      /\ \A m \in notes : m.film = n.film /\ m.watcher = n.watcher => m.id <= n.id
  BY <1>1, <1>4 DEF DeletionTrue
<1>6. IndexExact' /\ CountExact'
  <2>1. \/ count' = Counted(n, -1) /\ UNCHANGED skewed
        \/ count' = Counted(n, -2) /\ skewed' = skewed \cup Axes(n)
    BY DEF Erase, Skew
  <2>2. CASE count' = Counted(n, -1) /\ UNCHANGED skewed
    BY <1>1, <1>2, <1>4, <1>5, <2>2, CountMoves
  <2>3. CASE count' = Counted(n, -2) /\ skewed' = skewed \cup Axes(n) /\ skewed' # skewed
    BY <1>1, <1>2, <1>4, <1>5, <2>3, CountMoves
  <2>4. CASE count' = Counted(n, -2) /\ Axes(n) \subseteq skewed /\ UNCHANGED skewed
    <3>1. \A k \in Films \cup Watchers : k \notin skewed => count'[k] = count[k]
      BY <2>4, SoundParts DEF Counted, StoreOK
    <3>2. \A k \in Films \cup Watchers : index'[k] = index[k] \ {n}
      BY <1>1, SoundParts DEF StoreOK
    <3>3. \A k \in Films \cup Watchers : k \notin skewed => index'[k] = index[k]
      BY <1>4, <2>4, <3>2 DEF IndexExact
    <3>4. IsFiniteSet(notes')
      BY <1>1, <1>4, FS_Subset DEF CountExact
    <3>5. CountExact'
      BY <1>4, <2>4, <3>1, <3>3, <3>4 DEF CountExact
    <3>6. IndexExact'
      BY <1>1, <1>4, <3>2 DEF IndexExact
    <3> QED
      BY <3>5, <3>6
  <2> QED
    BY <2>1, <2>2, <2>3, <2>4
<1>7. \A m, f, w : Now(m, f, w)' <=> Now(m, f, w)
  BY <1>1 DEF Now
<1>8. ~Noted(n.film, n.watcher)' \/ <<n.film, n.watcher, week>> \in loose
  <2> SUFFICES ASSUME NEW m \in notes, m # n, Now(m, n.film, n.watcher),
                      <<n.film, n.watcher, week>> \notin loose
               PROVE  FALSE
    BY <1>1, <1>7 DEF Noted
  <2>1. m.id <= n.id /\ m \in Born /\ n \in Born
    BY <1>5 DEF Now, Born
  <2>2. m.week = week /\ m.week <= n.week /\ n.week <= week /\ m.week \in Nat /\ n.week \in Nat
    BY <1>2, <2>1, BornFacts, DisjointAxes DEF Now, InOrder
  <2>3. Now(n, n.film, n.watcher)
    BY <2>2 DEF Now
  <2>4. KeyTrue(n.film, n.watcher)
    BY <1>1, <1>2, <1>4, DisjointAxes DEF KeysTrue, Erased
  <2> QED
    BY <1>5, <2>3, <2>4 DEF KeyTrue
<1>9. KeysTrue'
  <2> SUFFICES ASSUME NEW f \in Films, NEW w \in Watchers, ~Now(n, f, w),
                      <<f, w, week>> \notin loose
               PROVE  KeyTrue(f, w)'
    BY <1>1, <1>3, <1>7 DEF KeysTrue, Erased
  <2>1. KeyTrue(f, w)
    BY <1>1, <1>4 DEF KeysTrue, Erased
  <2>2. \A m : Now(m, f, w) => (m \in notes' <=> m \in notes)
    BY <1>1
  <2>3. \A s \in Savers : Claims(s, f, w)' <=> Claims(s, f, w)
    BY <1>1 DEF Claims, Now, Mine
  <2> QED
    BY <1>1, <1>2, <2>1, <2>2, <2>3, KeyKept
<1>10. DeletionTrue'
  BY <1>1, <1>3, <1>5, <1>8 DEF DeletionTrue
<1> QED
  BY <1>6, <1>9, <1>10

\* What is cleaned was empty: the index and the count of an axis without notes.
LEMMA AgreeTidy ==
  ASSUME Sound, Agree, Tidy
  PROVE  Agree'
<1>1. /\ UNCHANGED <<notes, unique, pc, job, week, overlap, loose, skewed>>
      /\ del # NoDelete /\ Erased
  BY DEF Tidy, sync, ghosts, NoDelete, Erased
<1>2. /\ del \in Deletion /\ del.axis \in Films \cup Watchers
      /\ index \in [Films \cup Watchers -> SUBSET Note]
      /\ count \in [Films \cup Watchers -> Int]
  BY <1>1, SoundParts DEF DeletionOK, Deletion, StoreOK
<1> SUFFICES ASSUME ~overlap' PROVE IndexExact' /\ CountExact' /\ KeysTrue' /\ DeletionTrue'
  BY DEF Agree
<1>3. IndexExact /\ CountExact /\ KeysTrue /\ DeletionTrue
  BY <1>1 DEF Agree
<1>4. del.at = "index" => index[del.axis] = {}
  BY <1>1, <1>3 DEF DeletionTrue
<1>5. ASSUME del.at = "stats", del.axis \notin skewed PROVE count[del.axis] = 0
  <2>1. index[del.axis] \subseteq notes /\ IsFiniteSet(notes)
    BY <1>2, <1>3 DEF IndexExact, CountExact
  <2>2. Cardinality(index[del.axis]) \in Nat
    BY <2>1, FS_Subset, FS_CardinalityType
  <2>3. count[del.axis] = Cardinality(index[del.axis]) /\ count[del.axis] <= 0
    BY <1>1, <1>2, <1>3, <1>5 DEF CountExact, DeletionTrue
  <2> QED
    BY <2>2, <2>3
<1>6. index' = index
  <2>1. index' = index \/ (del.at = "index" /\ index' = [index EXCEPT ![del.axis] = {}])
    BY DEF Tidy
  <2> QED
    BY <1>2, <1>4, <2>1
<1>7. \A k \in Films \cup Watchers : k \notin skewed => count'[k] = count[k]
  <2>1. count' = count \/ (del.at = "stats" /\ count' = [count EXCEPT ![del.axis] = 0])
    BY DEF Tidy
  <2> QED
    BY <1>2, <1>5, <2>1
<1>8. /\ del' # NoDelete /\ del'.note = del.note
      /\ del'.at \in {"count", "stats", "card", "index", "key"}
  <2>1. \/ \E place \in {"count", "stats", "card", "index", "key"} : Step(place)
        \/ NextAxis
    BY DEF Tidy
  <2> QED
    BY <1>1, <2>1, StepFacts
<1>9. /\ del'.at = "index" => index'[del'.axis] = {}
      /\ del'.at = "stats" => count'[del'.axis] <= 0
  <2>1. CASE NextAxis
    <3>1. del'.at \in {"count", "key"}
      BY <1>2, <2>1 DEF NextAxis, Step, Deletion
    <3> QED
      BY <3>1
  <2>2. CASE Step("stats") /\ count[del.axis] <= 0 /\ count' = count
    <3>1. del'.at = "stats" /\ del'.axis = del.axis
      BY <1>2, <2>2 DEF Step, Deletion
    <3> QED
      BY <2>2, <3>1
  <2>3. CASE Step("index") /\ index[del.axis] = {}
    <3>1. del'.at = "index" /\ del'.axis = del.axis
      BY <1>2, <2>3 DEF Step, Deletion
    <3> QED
      BY <1>6, <2>3, <3>1
  <2>4. CASE Step("card")
    <3>1. del'.at = "card"
      BY <1>2, <2>4 DEF Step, Deletion
    <3> QED
      BY <3>1
  <2> QED
    BY <2>1, <2>2, <2>3, <2>4 DEF Tidy
<1>10. Erased'
  BY <1>8 DEF Erased
<1>11. \A f, w : /\ (Noted(f, w)' <=> Noted(f, w))
                 /\ KeyTrue(f, w) => KeyTrue(f, w)'
  BY <1>1 DEF Noted, Claimed, Claims, Now, Mine, KeyTrue
<1>12. IndexExact' /\ CountExact'
  BY <1>1, <1>3, <1>6, <1>7 DEF IndexExact, CountExact
<1>13. KeysTrue'
  BY <1>1, <1>3, <1>8, <1>10, <1>11 DEF KeysTrue, Now
<1>14. DeletionTrue'
  <2>1. \A s \in Savers : pc'[s] # "claimed"
    BY <1>1, <1>3 DEF DeletionTrue
  <2>2. (\/ ~Noted(del.note.film, del.note.watcher)
         \/ <<del.note.film, del.note.watcher, week>> \in loose)'
    <3>1. \/ ~Noted(del.note.film, del.note.watcher)
          \/ <<del.note.film, del.note.watcher, week>> \in loose
      BY <1>1, <1>3 DEF DeletionTrue
    <3>2. Noted(del.note.film, del.note.watcher)' => Noted(del.note.film, del.note.watcher)
      BY <1>1, <1>8 DEF Noted, Now
    <3> QED
      BY <1>1, <1>8, <3>1, <3>2
  <2>3. del'.at # "found"
    BY <1>8
  <2> QED
    BY <1>1, <1>9, <2>1, <2>2, <2>3 DEF DeletionTrue
<1> QED
  BY <1>12, <1>13, <1>14

\* The key of this week goes, and no note of this week is left that had it.
LEMMA AgreeFreeKey ==
  ASSUME Sound, Agree, FreeKey
  PROVE  Agree'
<1> DEFINE n == del.note
<1>1. /\ unique' = unique \ {<<n.film, n.watcher, week>>} /\ del' = NoDelete
      /\ UNCHANGED <<notes, index, count, pc, job, week, overlap, loose, skewed>>
      /\ del # NoDelete /\ Erased
  BY DEF FreeKey, sync, ghosts, NoDelete, Erased
<1> SUFFICES ASSUME ~overlap' PROVE IndexExact' /\ CountExact' /\ KeysTrue' /\ DeletionTrue'
  BY DEF Agree
<1>2. IndexExact /\ CountExact /\ KeysTrue /\ DeletionTrue /\ week \in 0..MaxWeek
  BY <1>1, SoundParts DEF Agree, BoundsOK
<1>3. \A s \in Savers : pc[s] # "claimed"
  BY <1>1, <1>2 DEF DeletionTrue
<1>4. ~Noted(n.film, n.watcher) \/ <<n.film, n.watcher, week>> \in loose
  BY <1>1, <1>2 DEF DeletionTrue
<1>5. IndexExact' /\ CountExact' /\ DeletionTrue'
  BY <1>1, <1>2 DEF IndexExact, CountExact, DeletionTrue
<1>6. \A f \in Films, w \in Watchers :
        KeyTrue(f, w) \/ <<f, w, week>> \in loose \/ (n.film = f /\ n.watcher = w)
  BY <1>2 DEF KeysTrue, Now
<1> HIDE DEF n
<1>7. ASSUME NEW f \in Films, NEW w \in Watchers, <<f, w, week>> \notin loose
      PROVE  KeyTrue(f, w)'
  <2>1. CASE n.film = f /\ n.watcher = w
    <3>1. \A m \in notes' : ~Now(m, f, w)'
      BY <1>1, <1>4, <1>7, <2>1 DEF Noted, Now
    <3>2. \A s \in Savers : ~Claims(s, f, w)'
      BY <1>1, <1>3 DEF Claims
    <3>3. <<f, w, week>> \notin unique'
      BY <1>1, <2>1
    <3> QED
      BY <1>1, <3>1, <3>2, <3>3 DEF KeyTrue, Noted, Claimed
  <2>2. CASE n.film # f \/ n.watcher # w
    <3>1. KeyTrue(f, w)
      BY <1>6, <1>7, <2>2
    <3>2. <<f, w, week>> \in unique' <=> <<f, w, week>> \in unique
      BY <1>1, <2>2
    <3>3. \A s \in Savers : Claims(s, f, w)' <=> Claims(s, f, w)
      BY <1>1 DEF Claims, Now, Mine
    <3> QED
      BY <1>1, <1>2, <3>1, <3>2, <3>3, KeyKept
  <2> QED
    BY <2>1, <2>2
<1> QED
  BY <1>1, <1>5, <1>7 DEF KeysTrue

\* A deletion that stops after the erasure leaves its key loose.
LEMMA AgreeCutShort ==
  ASSUME Sound, Agree, del' = NoDelete, CutShort \subseteq loose',
         overlap => overlap', UNCHANGED <<notes, index, count, unique, week, skewed>>,
         \A f \in Films, w \in Watchers : <<f, w, week>> \notin loose' =>
           \A s \in Savers : Claims(s, f, w)' <=> Claims(s, f, w)
  PROVE  Agree'
<1> SUFFICES ASSUME ~overlap' PROVE IndexExact' /\ CountExact' /\ KeysTrue' /\ DeletionTrue'
  BY DEF Agree
<1>1. IndexExact /\ CountExact /\ KeysTrue /\ week \in 0..MaxWeek
  BY SoundParts DEF Agree, BoundsOK
<1>2. IndexExact' /\ CountExact' /\ DeletionTrue'
  BY <1>1 DEF IndexExact, CountExact, DeletionTrue
<1>3. loose \subseteq loose' /\ (Erased => KeyOf(del.note) \in loose')
  BY DEF CutShort, Erased
<1>4. ASSUME NEW f \in Films, NEW w \in Watchers, <<f, w, week>> \notin loose'
      PROVE  KeyTrue(f, w)'
  <2>1. KeyTrue(f, w)
    BY <1>1, <1>3, <1>4, NowKey DEF KeysTrue
  <2>2. \A s \in Savers : Claims(s, f, w)' <=> Claims(s, f, w)
    BY <1>4
  <2> QED
    BY <1>1, <2>1, <2>2, KeyKept
<1> QED
  BY <1>2, <1>4 DEF KeysTrue

LEMMA AgreeDeleteStops ==
  ASSUME Sound, Agree, DeleteStops
  PROVE  Agree'
<1>1. /\ del' = NoDelete /\ loose' = CutShort /\ overlap' = overlap
      /\ UNCHANGED <<notes, index, count, unique, week, skewed, pc, job>>
  BY DEF DeleteStops, store, sync
<1>2. \A f, w : \A s \in Savers : Claims(s, f, w)' <=> Claims(s, f, w)
  BY <1>1 DEF Claims, Now, Mine
<1> QED
  BY <1>1, <1>2, AgreeCutShort

\* A crash leaves the keys of its claims loose, and a deletion's.
LEMMA AgreeCrash ==
  ASSUME Sound, Agree, NEW dead \in {{Bot, "/sync"}, {"cron"}}, Crash(dead)
  PROVE  Agree'
<1>1. /\ loose' = (IF Bot \in dead THEN CutShort ELSE loose)
           \cup {KeyOf(Head(job[s])) : s \in {x \in Savers \cap dead : pc[x] = "claimed"}}
      /\ pc' = [s \in Savers |-> IF s \in dead THEN "idle" ELSE pc[s]]
      /\ job' = [s \in Savers |-> IF s \in dead THEN <<>> ELSE job[s]]
      /\ del' = IF Bot \in dead THEN NoDelete ELSE del
      /\ UNCHANGED <<notes, index, count, unique, week, skewed, overlap>>
  BY DEF Crash, store
<1>2. \A r \in Savers : /\ r \notin dead => pc'[r] = pc[r] /\ Mine(r)' = Mine(r)
                        /\ r \in dead => pc'[r] # "claimed"
  BY <1>1 DEF Mine
<1>3. ASSUME NEW f \in Films, NEW w \in Watchers, <<f, w, week>> \notin loose',
             NEW s \in Savers
      PROVE  Claims(s, f, w)' <=> Claims(s, f, w)
  <2>1. CASE s \notin dead
    BY <1>1, <1>2, <2>1 DEF Claims, Now
  <2>2. CASE s \in dead
    <3>1. ~Claims(s, f, w)'
      BY <1>2, <2>2 DEF Claims
    <3>2. pc[s] = "claimed" => KeyOf(Mine(s)) \in loose'
      BY <1>1, <2>2 DEF Mine
    <3>3. ~Claims(s, f, w)
      BY <1>3, <3>2, NowKey DEF Claims
    <3> QED
      BY <3>1, <3>3
  <2> QED
    BY <2>1, <2>2
<1>4. CASE Bot \in dead
  BY <1>1, <1>3, <1>4, AgreeCutShort
<1>5. CASE Bot \notin dead /\ del = NoDelete
  <2>1. del' = NoDelete /\ CutShort \subseteq loose'
    BY <1>1, <1>5 DEF CutShort, NoDelete
  <2> QED
    BY <1>1, <1>3, <2>1, AgreeCutShort
<1>6. CASE Bot \notin dead /\ del # NoDelete
  <2> SUFFICES ASSUME ~overlap PROVE Agree'
    BY <1>1 DEF Agree
  <2>1. \A s \in Savers : pc[s] # "claimed"
    BY <1>6 DEF Agree, DeletionTrue
  <2>2. \A s \in Savers : /\ pc'[s] = "claimed" <=> pc[s] = "claimed"
                          /\ pc[s] = "claimed" => Mine(s)' = Mine(s)
    BY <1>2, <2>1
  <2>3. loose \subseteq loose' /\ del' = del
    BY <1>1, <1>6
  <2> QED
    BY <1>1, <2>2, <2>3, AgreeSame
<1> QED
  BY <1>4, <1>5, <1>6

\* A new week has no notes, no claims and no keys.
LEMMA AgreeNewWeek ==
  ASSUME Sound, Agree, NewWeek
  PROVE  Agree'
<1>1. /\ week' = week + 1 /\ week < MaxWeek
      /\ UNCHANGED <<notes, index, count, unique, pc, job, del, overlap, loose, skewed>>
  BY DEF NewWeek, store, sync, ghosts
<1>2. week \in Nat /\ MaxWeek \in Nat /\ week' \in 0..MaxWeek
  BY <1>1, SoundParts, LogAssumption DEF BoundsOK
<1> SUFFICES ASSUME ~overlap' PROVE IndexExact' /\ CountExact' /\ KeysTrue' /\ DeletionTrue'
  BY DEF Agree
<1>3. IndexExact /\ CountExact /\ KeysTrue /\ DeletionTrue
  BY <1>1 DEF Agree
<1>4. \A m \in Born : m.week # week'
  <2> TAKE m \in Born
  <2>1. m \in Note /\ m.week <= week
    BY BornFacts
  <2>2. m.week \in Nat
    BY <2>1, DisjointAxes
  <2> QED
    BY <1>1, <1>2, <2>1, <2>2
<1>5. \A f, w : \A m \in notes' : ~Now(m, f, w)'
  BY <1>1, <1>4 DEF Born, Now
<1>6. \A f, w : \A s \in Savers : ~Claims(s, f, w)'
  BY <1>1, <1>4 DEF Born, Now, Claims, Mine
<1>7. \A f \in Films, w \in Watchers : <<f, w, week'>> \notin unique'
  BY <1>1, <1>2, SoundParts DEF IdsOK
<1>8. KeysTrue'
  BY <1>5, <1>6, <1>7 DEF KeysTrue, KeyTrue, Noted, Claimed
<1>9. DeletionTrue'
  BY <1>1, <1>3, <1>5 DEF DeletionTrue, Noted, Erased
<1> QED
  BY <1>1, <1>3, <1>8, <1>9 DEF IndexExact, CountExact

LEMMA AgreeStep == Sound /\ InOrder /\ Agree /\ [Next]_vars => Agree'
<1> SUFFICES ASSUME Sound, InOrder, Agree, [Next]_vars PROVE Agree'
  OBVIOUS
<1>0. /\ pc \in [Savers -> {"idle", "fetched", "next", "claimed", "saved"}]
      /\ job \in [Savers -> Seq(Note)] /\ overlap \in BOOLEAN
  BY SoundParts DEF SaversOK, BoundsOK
<1>1. ASSUME NEW s \in Savers, Store(s) PROVE Agree'
  BY <1>1, AgreeStore
<1>2. ASSUME NEW s \in Savers, StoreFails(s) PROVE Agree'
  BY <1>2, AgreeStoreFails
<1>3. ASSUME NEW s \in Savers, Fetch(s) \/ Compare(s) \/ Advance(s) \/ SyncFails(s)
      PROVE  Agree'
  <2>1. /\ UNCHANGED <<notes, index, count, unique, del, week, job, overlap, loose, skewed>>
        /\ pc[s] # "claimed"
        /\ \E place \in {"idle", "fetched", "next"} : pc' = [pc EXCEPT ![s] = place]
    <3>1. CASE Fetch(s)
      BY <3>1 DEF Fetch, Go, store, ghosts
    <3>2. CASE Compare(s)
      BY <3>2 DEF Compare, Go, store, ghosts
    <3>3. CASE Advance(s)
      BY <3>3 DEF Advance, Go, store, ghosts
    <3>4. CASE SyncFails(s)
      BY <3>4 DEF SyncFails, Go, store, ghosts
    <3> QED
      BY <1>3, <3>1, <3>2, <3>3, <3>4
  <2>2. \A r \in Savers : pc'[r] = "claimed" <=> pc[r] = "claimed"
    BY <1>0, <2>1
  <2> QED
    BY <2>1, <2>2, AgreeSame DEF Mine
<1>4. ASSUME NEW s \in Savers, SaveEntry(s)
      PROVE  Agree'
  <2> PICK e \in todo[s] : IF e.rated THEN Claim(s, e.film, SyncWatcher)
                           ELSE UNCHANGED <<pc, unique, job, nextId, faults, loose>>
    BY <1>4 DEF SaveEntry
  <2>1. /\ pc[s] = "next" /\ UNCHANGED <<notes, index, count, del, week, skewed>>
        /\ overlap' = (overlap \/ del # NoDelete)
        /\ e.film \in Films /\ SyncWatcher \in Watchers
    BY <1>4, SoundParts, LogAssumption DEF SaveEntry, FeedOK
  <2>2. ~overlap' => ~overlap /\ del = NoDelete
    BY <1>0, <2>1
  <2>3. CASE e.rated
    BY <2>1, <2>2, <2>3, AgreeClaim
  <2>4. CASE ~e.rated
    BY <2>1, <2>2, <2>4, AgreeSame DEF Mine
  <2> QED
    BY <2>3, <2>4
<1>5. ASSUME NEW s \in Savers, Publish(s)
      PROVE  Agree'
  <2>1. /\ UNCHANGED <<notes, index, count, unique, del, week, overlap, loose, skewed>>
        /\ pc[s] = "saved" /\ pc' = [pc EXCEPT ![s] = "next"]
        /\ job' = [job EXCEPT ![s] = <<>>]
    BY <1>5 DEF Publish, Go, store, ghosts
  <2>2. \A r \in Savers : /\ pc'[r] = "claimed" <=> pc[r] = "claimed"
                          /\ pc[r] = "claimed" => Mine(r)' = Mine(r)
    BY <1>0, <2>1 DEF Mine
  <2> QED
    BY <2>1, <2>2, AgreeSame
<1>6. ASSUME NEW f \in Films, NEW w \in Watchers, Rate(f, w)
      PROVE  Agree'
  <2>1. /\ pc[Bot] = "idle" /\ del = NoDelete /\ Claim(Bot, f, w) /\ Bot \in Savers
        /\ UNCHANGED <<notes, index, count, del, week, overlap, skewed>>
    BY <1>6 DEF Rate, Savers
  <2> QED
    BY <2>1, AgreeClaim
<1>7. CASE \E f \in Films, w \in Watchers : Unrate(f, w)
  BY <1>7, AgreeUnrate
<1>8. CASE Erase
  BY <1>8, AgreeErase
<1>9. CASE Tidy
  BY <1>9, AgreeTidy
<1>10. CASE FreeKey
  BY <1>10, AgreeFreeKey
<1>11. CASE NewWeek
  BY <1>11, AgreeNewWeek
<1>12. CASE Take \/ Post \/ (\E e \in Entries : Log(e)) \/ UNCHANGED vars
  <2>1. UNCHANGED <<notes, index, count, unique, del, week, pc, job, overlap, loose, skewed>>
    <3>1. CASE Take \/ Post
      BY <3>1 DEF Take, Post, store, sync, ghosts
    <3>2. CASE \E e \in Entries : Log(e)
      BY <3>2 DEF Log, store, sync
    <3>3. CASE UNCHANGED vars
      BY <3>3 DEF vars, store, sync, ghosts
    <3> QED
      BY <1>12, <3>1, <3>2, <3>3
  <2> QED
    BY <2>1, AgreeSame DEF Mine
<1>13. ASSUME NEW dead \in {{Bot, "/sync"}, {"cron"}}, Crash(dead)
       PROVE  Agree'
  BY <1>13, AgreeCrash
<1>14. CASE DeleteStops
  BY <1>14, AgreeDeleteStops
<1> QED
  BY <1>1, <1>2, <1>3, <1>4, <1>5, <1>6, <1>7, <1>8, <1>9, <1>10, <1>11, <1>12, <1>13,
     <1>14 DEF Next

\* The notes of a pair and week, and their claims: as many as its key says.
LEMMA KeyCounts ==
  ASSUME NEW f \in Films, NEW w \in Watchers, KeyTrue(f, w),
         NEW now, now = {n \in notes : Now(n, f, w)},
         NEW saving, saving = {s \in Savers : Claims(s, f, w)}
  PROVE  Cardinality(now) + Cardinality(saving)
           = IF <<f, w, week>> \in unique THEN 1 ELSE 0
<1>1. CASE Noted(f, w)
  <2> PICK n \in notes : Now(n, f, w)
    BY <1>1 DEF Noted
  <2>1. now = {n} /\ saving = {} /\ <<f, w, week>> \in unique
    BY <1>1 DEF KeyTrue, Claimed
  <2>2. Cardinality(now) = 1
    BY <2>1, FS_Singleton
  <2>3. Cardinality(saving) = 0
    BY <2>1, FS_EmptySet
  <2> QED
    BY <2>1, <2>2, <2>3
<1>2. CASE Claimed(f, w)
  <2> PICK s \in Savers : Claims(s, f, w)
    BY <1>2 DEF Claimed
  <2>1. saving = {s} /\ now = {} /\ <<f, w, week>> \in unique
    BY <1>2 DEF KeyTrue, Noted
  <2>2. Cardinality(saving) = 1
    BY <2>1, FS_Singleton
  <2>3. Cardinality(now) = 0
    BY <2>1, FS_EmptySet
  <2> QED
    BY <2>1, <2>2, <2>3
<1>3. CASE ~Noted(f, w) /\ ~Claimed(f, w)
  <2>1. now = {} /\ saving = {} /\ <<f, w, week>> \notin unique
    BY <1>3 DEF KeyTrue, Noted, Claimed
  <2> QED
    BY <2>1, FS_EmptySet
<1> QED
  BY <1>1, <1>2, <1>3

\* save_note and delete_note keep the notes, the three indexes, the counts and
\* the keys in step for any number of films, watchers, weeks and savers, while no
\* save runs beside an /unrate.  A failed call or a crash breaks this for the one
\* key that it left without its note, or the note without its key; a MULTI that
\* Redis ran twice, for the counts of its film and its watcher: for no other.
THEOREM NotesStayInStep == Spec => []NotesAgree
<1>1. Init => InOrder /\ Agree
  <2> SUFFICES ASSUME Init PROVE InOrder /\ Agree
    OBVIOUS
  <2>1. /\ notes = {} /\ unique = {} /\ del = NoDelete
        /\ \A s \in Savers : pc[s] # "claimed"
        /\ \A k \in Films \cup Watchers : index[k] = {} /\ count[k] = 0
    BY DEF Init
  <2>2. Born = {}
    BY <2>1 DEF Born
  <2>3. IndexExact
    BY <2>1 DEF IndexExact
  <2>4. CountExact
    BY <2>1, FS_EmptySet DEF CountExact
  <2>5. KeysTrue
    BY <2>1 DEF KeysTrue, KeyTrue, Noted, Claimed, Claims
  <2>6. DeletionTrue
    BY <2>1 DEF DeletionTrue
  <2> QED
    BY <2>2, <2>3, <2>4, <2>5, <2>6 DEF InOrder, Agree
<1>2. Agree => NotesAgree
  <2> SUFFICES ASSUME Agree, ~overlap, del.at \in {"none", "found"}
               PROVE  /\ \A k \in Films \cup Watchers :
                           /\ index[k] = {n \in notes : k \in Axes(n)}
                           /\ k \notin skewed => count[k] = Cardinality(index[k])
                      /\ \A f \in Films, w \in Watchers : <<f, w, week>> \notin loose =>
                           Cardinality({n \in notes : KeyOf(n) = <<f, w, week>>})
                             + Cardinality({s \in Savers :
                                 pc[s] = "claimed" /\ KeyOf(Head(job[s])) = <<f, w, week>>})
                             = IF <<f, w, week>> \in unique THEN 1 ELSE 0
    BY DEF NotesAgree
  <2>1. IndexExact /\ CountExact /\ KeysTrue /\ ~Erased
    BY DEF Agree, Erased
  <2>2. ASSUME NEW f \in Films, NEW w \in Watchers, <<f, w, week>> \notin loose
        PROVE  Cardinality({n \in notes : KeyOf(n) = <<f, w, week>>})
                 + Cardinality({s \in Savers :
                     pc[s] = "claimed" /\ KeyOf(Head(job[s])) = <<f, w, week>>})
                 = IF <<f, w, week>> \in unique THEN 1 ELSE 0
    <3>1. KeyTrue(f, w)
      BY <2>1, <2>2 DEF KeysTrue
    <3>2. {n \in notes : KeyOf(n) = <<f, w, week>>} = {n \in notes : Now(n, f, w)}
      BY NowKey
    <3>3. {s \in Savers : pc[s] = "claimed" /\ KeyOf(Head(job[s])) = <<f, w, week>>}
            = {s \in Savers : Claims(s, f, w)}
      BY NowKey DEF Claims, Mine
    <3> QED
      BY <3>1, <3>2, <3>3, KeyCounts
  <2> QED
    BY <2>1, <2>2 DEF IndexExact, CountExact
<1> QED
  BY <1>1, <1>2, InitSound, StepSound, InOrderStep, AgreeStep, PTL DEF Spec
=============================================================================

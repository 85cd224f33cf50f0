--------------------------- MODULE AuditPathProofs ---------------------------
(***************************************************************************)
(* Theorems about AuditPath, for any number of updates, runs of Rumil,     *)
(* days, documents, restarts and failures.                                 *)
(***************************************************************************)
EXTENDS AuditPath, TLAPS

\* What Finrod and Rumil do to what the bot holds.
LEMMA EndedType ==
  ASSUME TypeOK, NEW r \in Slots, Ended(r), UNCHANGED batch
  PROVE  /\ bot' \in {"poll", "wait", "send"} /\ (bot' # "poll" => batch' # {})
         /\ waits' \in Slots \cup {None} /\ (bot' = "wait" <=> waits' # None)
         /\ run' \in [Slots -> {None} \cup Run]
         /\ (waits' # None => run'[waits'] # None)
BY AuditAssumption DEF TypeOK, Ended

LEMMA HandledType ==
  ASSUME TypeOK, NEW u \in batch, Handled(u),
         UNCHANGED <<run, finrod, bounds, faults, restarts>>
  PROVE  TypeOK'
<1>1. u \in 1..arrived /\ u \in Updates
  BY AuditAssumption DEF TypeOK, Updates
<1>2. offset' \in 0..(arrived' + 1)
  BY <1>1, AuditAssumption DEF TypeOK, Handled, NextOffset
<1>3. times' \in [Updates -> Nat]
  BY <1>1 DEF TypeOK, Handled
<1> QED
  BY <1>2, <1>3, AuditAssumption DEF TypeOK, Handled, finrod, bounds

LEMMA IngestType ==
  ASSUME TypeOK, NEW doc \in 0..Fact, NEW base \in SUBSET mem,
         NEW onDisk \in SUBSET Node, NEW fault, Ingest(doc, base, onDisk, fault)
  PROVE  /\ mem' \subseteq Node /\ disk' \subseteq Node /\ acked' \subseteq Node
         /\ version' \in Nat
<1>1. Fresh(doc) \in Node
  BY DEF Fresh, Node, TypeOK
<1> QED
  BY <1>1 DEF TypeOK, Ingest

LEMMA RememberType ==
  ASSUME TypeOK, NEW r \in Slots, NEW fault, Remember(r, fault)
  PROVE  TypeOK'
<1>1. run[r] \in Run /\ run[r].day \in 0..Fact
  BY AuditAssumption DEF Remember, TypeOK, Run, Fact
<1> DEFINE doc == run[r].day
           kept == IF Kept(doc) = mem THEN disk ELSE Kept(doc)
<1>2. Kept(doc) \subseteq mem /\ kept \subseteq Node
  BY DEF Kept, TypeOK
<1>3. /\ mem' \subseteq Node /\ disk' \subseteq Node /\ acked' \subseteq Node
      /\ version' \in Nat
  <2>1. CASE fault = "forget" /\ Kept(doc) # mem /\ mem' = Kept(doc)
             /\ acked' = acked \cap Kept(doc) /\ UNCHANGED <<disk, version>>
    BY <1>2, <2>1 DEF TypeOK
  <2>2. CASE Ingest(doc, Kept(doc), kept, fault)
    BY <1>1, <1>2, <2>2, IngestType
  <2> QED
    BY <2>1, <2>2 DEF Remember
<1>4. Ended(r) /\ UNCHANGED <<telegram, bounds, restarts>> /\ Fault(fault # "none")
  BY DEF Remember
<1>5. faults' \in 0..MaxFaults /\ restarts' \in 0..faults'
  BY <1>4, AuditAssumption DEF TypeOK, Fault
<1>6. UNCHANGED <<arrived, held, offset, batch, times, day, ingests, daily>>
  BY <1>4 DEF telegram, bounds
<1> QED
  BY <1>3, <1>4, <1>5, <1>6, EndedType DEF TypeOK

LEMMA TypeStep == TypeOK /\ [Next]_vars => TypeOK'
<1> SUFFICES ASSUME TypeOK, [Next]_vars PROVE TypeOK'
  OBVIOUS
<1> USE AuditAssumption
<1>1. CASE Send
  BY <1>1 DEF TypeOK, Send, finrod, bounds, Updates
<1>2. CASE \E lost \in BOOLEAN : Poll(lost)
  <2>1. /\ held' \subseteq 1..arrived' /\ batch' \subseteq 1..arrived'
        /\ bot = "poll" /\ UNCHANGED <<arrived, offset, bot, times, waits, run, restarts,
             mem, disk, acked, version, day, ingests, daily>>
    BY <1>2 DEF TypeOK, Poll, finrod, bounds
  <2>2. faults' \in 0..MaxFaults /\ restarts' \in 0..faults'
    BY <1>2 DEF TypeOK, Poll, Fault
  <2> QED
    BY <2>1, <2>2 DEF TypeOK
<1>3. ASSUME NEW u \in Updates, Handle(u) PROVE TypeOK'
  <2>1. CASE Drop(u)
    BY <2>1, HandledType DEF Drop, At
  <2>2. CASE Execute(u)
    BY <2>2 DEF TypeOK, Execute, At, telegram, finrod, bounds
  <2>3. CASE Reply(u)
    BY <2>3, HandledType DEF Reply, At
  <2>4. ASSUME NEW r \in Slots, Audit(u, r) PROVE TypeOK'
    <3>1. [at |-> "fetch", day |-> day] \in Run
      BY DEF TypeOK, Run
    <3>2. run' \in [Slots -> {None} \cup Run] /\ run'[r] # None
      BY <2>4, <3>1 DEF TypeOK, Audit, Started
    <3> QED
      BY <2>4, <3>2 DEF TypeOK, Audit, At, telegram, finrod, bounds
  <2> QED
    BY <1>3, <2>1, <2>2, <2>3, <2>4 DEF Handle
<1>4. CASE GiveUp
  BY <1>4 DEF TypeOK, GiveUp, telegram, finrod, bounds
<1>5. CASE RestartBot
  BY <1>5 DEF TypeOK, RestartBot, Fault, finrod, bounds
<1>6. CASE RestartApi
  BY <1>6 DEF TypeOK, RestartApi, Fault, Loaded, telegram, bounds
<1>7. CASE Midnight
  BY <1>7 DEF TypeOK, Midnight, telegram, finrod
<1>8. ASSUME NEW r \in Slots, Daily(r) PROVE TypeOK'
  <2>1. [at |-> "fetch", day |-> day] \in Run
    BY DEF TypeOK, Run
  <2>2. run' \in [Slots -> {None} \cup Run] /\ \A s \in Slots : run[s] # None => run'[s] # None
    BY <1>8, <2>1 DEF TypeOK, Daily, Started
  <2> QED
    BY <1>8, <2>2 DEF TypeOK, Daily, telegram, finrod
<1>9. ASSUME NEW r \in Slots, Fetched(r) PROVE TypeOK'
  <2>1. UNCHANGED <<arrived, held, offset, batch, times, mem, disk, acked, version,
                    day, ingests, daily, faults, restarts>>
    BY <1>9 DEF Fetched, telegram, finrod, bounds
  <2>2. CASE Ended(r)
    BY <2>1, <2>2, EndedType DEF TypeOK
  <2>3. ASSUME NEW place \in {"narrate", "remember"},
               run' = [run EXCEPT ![r].at = place], UNCHANGED <<bot, waits>>
        PROVE  TypeOK'
    <3>1. run[r] \in Run
      BY <1>9 DEF Fetched, TypeOK
    <3>2. [run[r] EXCEPT !.at = place] \in Run
      BY <2>3, <3>1 DEF Run
    <3>3. run' \in [Slots -> {None} \cup Run] /\ \A s \in Slots : run[s] # None => run'[s] # None
      BY <2>3, <3>2 DEF TypeOK
    <3> QED
      BY <2>1, <2>3, <3>3 DEF TypeOK
  <2> QED
    BY <1>9, <2>2, <2>3 DEF Fetched
<1>10. ASSUME NEW r \in Slots, Narrated(r) PROVE TypeOK'
  <2>1. run[r] \in Run
    BY <1>10 DEF Narrated, TypeOK
  <2>2. [run[r] EXCEPT !.at = "remember"] \in Run
    BY <2>1 DEF Run
  <2>3. run' \in [Slots -> {None} \cup Run] /\ \A s \in Slots : run[s] # None => run'[s] # None
    BY <1>10, <2>2 DEF TypeOK, Narrated
  <2> QED
    BY <1>10, <2>3 DEF TypeOK, Narrated, telegram, finrod, bounds
<1>11. ASSUME NEW r \in Slots, NEW fault, Remember(r, fault) PROVE TypeOK'
  BY <1>11, RememberType
<1>12. ASSUME NEW fault \in {"none", "insert", "save"}, IngestFact(fault) PROVE TypeOK'
  <2>1. /\ mem' \subseteq Node /\ disk' \subseteq Node /\ acked' \subseteq Node
        /\ version' \in Nat
    BY <1>12, IngestType DEF IngestFact, TypeOK, Fact
  <2>2. faults' \in 0..MaxFaults /\ restarts' \in 0..faults'
    BY <1>12 DEF IngestFact, TypeOK, Fault
  <2> QED
    BY <1>12, <2>1, <2>2 DEF TypeOK, IngestFact, telegram
<1>13. CASE UNCHANGED vars
  BY <1>13 DEF TypeOK, vars, telegram, finrod, bounds
<1> QED
  BY <1>1, <1>2, <1>3, <1>4, <1>5, <1>6, <1>7, <1>8, <1>9, <1>10, <1>11, <1>12,
     <1>13 DEF Next

LEMMA TypeInit == Init => TypeOK
BY AuditAssumption DEF Init, TypeOK, Updates

\* Every reachable state of the three processes is well typed: the bot waits
\* for a run exactly while that run is under way, and only for an update it
\* has in hand.
THEOREM TypeCorrect == Spec => []TypeOK
BY TypeInit, TypeStep, PTL DEF Spec

-----------------------------------------------------------------------------
(* The index.                                                              *)

\* The disk has one snapshot a day too, or a restart would bring back two.
OneOnDisk == \A n, m \in disk : n.doc = m.doc /\ n.doc # Fact => n = m

Stored == StoredSurvives /\ OneSnapshotPerDay /\ OneOnDisk

\* An ingest into an index without the document keeps all three, when what it
\* leaves on the disk of a failed save is the old state or the same base.
LEMMA IngestKeeps ==
  ASSUME Stored, NEW doc, NEW base \in SUBSET mem, NEW onDisk, NEW fault,
         onDisk = disk \/ onDisk = base, acked \cap base \subseteq onDisk,
         doc # Fact => \A n \in base : n.doc # doc,
         Ingest(doc, base, onDisk, fault)
  PROVE  Stored'
<1>1. Fresh(doc).doc = doc
  BY DEF Fresh
<1>2. StoredSurvives'
  BY DEF Stored, StoredSurvives, Ingest, Reported
<1>3. \A n, m \in base \cup {Fresh(doc)} : n.doc = m.doc /\ n.doc # Fact => n = m
  BY <1>1 DEF Stored, OneSnapshotPerDay
<1>4. OneSnapshotPerDay'
  BY <1>3 DEF Ingest, OneSnapshotPerDay
<1>5. \A n, m \in onDisk : n.doc = m.doc /\ n.doc # Fact => n = m
  BY <1>3 DEF Stored, OneOnDisk
<1>6. OneOnDisk'
  BY <1>3, <1>5 DEF Ingest, OneOnDisk
<1> QED
  BY <1>2, <1>4, <1>6 DEF Stored

LEMMA StoredStep == Stored /\ [Next]_vars => Stored'
<1> SUFFICES ASSUME Stored, [Next]_vars PROVE Stored'
  OBVIOUS
<1>1. ASSUME NEW r \in Slots, NEW fault, Remember(r, fault) PROVE Stored'
  <2> DEFINE doc == run[r].day
             onDisk == IF Kept(doc) = mem THEN disk ELSE Kept(doc)
  <2>1. Kept(doc) \subseteq mem /\ \A n \in Kept(doc) : n.doc # doc
    BY DEF Kept
  <2>2. CASE mem' = Kept(doc) /\ acked' = acked \cap Kept(doc) /\ UNCHANGED disk
    BY <2>1, <2>2 DEF Stored, StoredSurvives, OneSnapshotPerDay, OneOnDisk
  <2>3. CASE Ingest(doc, Kept(doc), onDisk, fault)
    <3>1. onDisk = disk \/ onDisk = Kept(doc)
      OBVIOUS
    <3>2. acked \cap Kept(doc) \subseteq onDisk
      BY DEF Stored, StoredSurvives
    <3> HIDE DEF doc, onDisk
    <3> QED
      BY <2>1, <2>3, <3>1, <3>2, IngestKeeps
  <2> QED
    BY <1>1, <2>2, <2>3 DEF Remember
<1>2. ASSUME NEW fault, IngestFact(fault) PROVE Stored'
  <2>1. acked \cap mem \subseteq disk
    BY DEF Stored, StoredSurvives
  <2> QED
    BY <1>2, <2>1, IngestKeeps DEF IngestFact
<1>3. CASE RestartApi
  BY <1>3 DEF RestartApi, Loaded, Stored, StoredSurvives, OneSnapshotPerDay, OneOnDisk
<1>4. CASE UNCHANGED finrod
  BY <1>4 DEF finrod, Stored, StoredSurvives, OneSnapshotPerDay, OneOnDisk
<1>5. \/ UNCHANGED finrod \/ RestartApi
      \/ \E r \in Slots, fault \in {"none", "forget", "insert", "save"} : Remember(r, fault)
      \/ \E fault \in {"none", "insert", "save"} : IngestFact(fault)
  BY DEF Next, Send, Poll, Handle, Drop, Execute, Reply, Audit, GiveUp, RestartBot,
         Midnight, Daily, Fetched, Narrated, vars
<1> QED
  BY <1>1, <1>2, <1>3, <1>4, <1>5

LEMMA StoredAlways == Spec => []Stored
<1>1. Init => Stored
  BY DEF Init, Stored, StoredSurvives, OneSnapshotPerDay, OneOnDisk
<1> QED
  BY <1>1, StoredStep, PTL DEF Spec

\* What Finrod reported as stored is on its disk and in its index until it is
\* told to forget it, whatever saves fail and whenever the API restarts.
THEOREM ReportedIsStored == Spec => []StoredSurvives
<1>1. Stored => StoredSurvives
  BY DEF Stored
<1> QED
  BY <1>1, StoredAlways, PTL

\* The index never holds two snapshots of a day, however many audits overlap
\* and whatever fails between forgetting the old one and keeping the new one.
THEOREM OneADay == Spec => []OneSnapshotPerDay
<1>1. Stored => OneSnapshotPerDay
  BY DEF Stored
<1> QED
  BY <1>1, StoredAlways, PTL

-----------------------------------------------------------------------------
(* The offset.                                                             *)

\* What Telegram forgot, or may forget at the next poll, was handled.
Forgotten == \A u \in 1..arrived : u \notin held \/ u < offset => times[u] > 0

\* The updates in hand are the first ones not handled, without a gap, and the
\* offset has not passed them.
InOrder ==
  \A u \in batch : /\ u >= offset
                   /\ \A v \in 1..u : v \in batch \/ times[v] > 0

\* What lies beyond the offset was handled only before the last restarts.
Rarely == \A u \in 1..arrived :
  times[u] <= (IF u < offset THEN 1 ELSE 0) + restarts

\* An update not sent yet was never handled.
Unsent == \A u \in Updates : u > arrived => times[u] = 0

Confirmed == Forgotten /\ InOrder /\ Rarely /\ Unsent

LEMMA HandledKeeps ==
  ASSUME TypeOK, Confirmed, NEW u \in batch, \A v \in batch : u <= v,
         Handled(u), UNCHANGED restarts
  PROVE  Confirmed'
<1>1. /\ arrived \in Nat /\ offset \in Nat /\ restarts \in Nat /\ u \in 1..arrived
      /\ batch \subseteq 1..arrived /\ 1..arrived \subseteq Updates
      /\ times \in [Updates -> Nat] /\ offset <= u
  BY AuditAssumption DEF TypeOK, Updates, Confirmed, InOrder
<1>2. offset' = u + 1 /\ batch' = batch \ {u} /\ arrived' = arrived /\ held' = held
  BY <1>1 DEF Handled, NextOffset
<1>3. \A v \in 1..arrived : times'[v] = IF v = u THEN times[v] + 1 ELSE times[v]
  BY <1>1 DEF Handled
<1>4. \A v \in 1..u : v = u \/ times[v] > 0
  BY <1>1 DEF Confirmed, InOrder
<1>5. Forgotten'
  BY <1>1, <1>2, <1>3, <1>4 DEF Confirmed, Forgotten
<1>6. InOrder'
  BY <1>1, <1>2, <1>3 DEF Confirmed, InOrder
<1>7. Rarely'
  BY <1>1, <1>2, <1>3 DEF Confirmed, Rarely
<1>8. Unsent'
  BY <1>1, <1>2 DEF Confirmed, Unsent, Handled, Updates
<1> QED
  BY <1>5, <1>6, <1>7, <1>8 DEF Confirmed

LEMMA ConfirmedStep == TypeOK /\ Confirmed /\ [Next]_vars => Confirmed'
<1> SUFFICES ASSUME TypeOK, Confirmed, [Next]_vars PROVE Confirmed'
  OBVIOUS
<1>1. /\ arrived \in Nat /\ offset \in 0..(arrived + 1) /\ restarts \in Nat
      /\ held \subseteq 1..arrived /\ batch \subseteq 1..arrived
      /\ times \in [Updates -> Nat] /\ arrived <= LastUpdate /\ LastUpdate \in Nat
  BY AuditAssumption DEF TypeOK
<1>2. CASE Send
  <2>1. \A u \in 1..arrived' : u \in 1..arrived \/ u = arrived + 1
    BY <1>1, <1>2 DEF Send
  <2>2. arrived + 1 \in Updates
    BY <1>1, <1>2 DEF Send, Updates
  <2>3. times[arrived + 1] = 0 /\ offset <= arrived + 1
    BY <1>1, <2>2 DEF Confirmed, Unsent, Updates
  <2>4. /\ arrived' = arrived + 1 /\ held' = held \cup {arrived + 1}
        /\ UNCHANGED <<offset, batch, times, restarts>>
    BY <1>2 DEF Send
  <2>5. Forgotten'
    BY <1>1, <2>1, <2>3, <2>4 DEF Confirmed, Forgotten
  <2>6. InOrder'
    BY <1>1, <2>4 DEF Confirmed, InOrder
  <2>7. Rarely'
    BY <1>1, <2>1, <2>3, <2>4 DEF Confirmed, Rarely
  <2>8. Unsent'
    BY <1>1, <2>4 DEF Confirmed, Unsent, Updates
  <2> QED
    BY <2>5, <2>6, <2>7, <2>8 DEF Confirmed
<1>3. CASE \E lost \in BOOLEAN : Poll(lost)
  <2>1. /\ UNCHANGED <<arrived, offset, times, restarts>>
        /\ held' = {u \in held : u >= offset} /\ batch' \subseteq held'
        /\ batch' = {} \/ batch' = held'
    BY <1>3 DEF Poll
  <2>2. Forgotten'
    BY <1>1, <2>1 DEF Confirmed, Forgotten
  <2>3. InOrder'
    BY <1>1, <2>1 DEF Confirmed, Forgotten, InOrder
  <2> QED
    BY <2>1, <2>2, <2>3 DEF Confirmed, Rarely, Unsent
<1>4. ASSUME NEW u \in Updates, Drop(u) \/ Reply(u) PROVE Confirmed'
  BY <1>4, HandledKeeps DEF Drop, Reply, At
<1>5. CASE RestartBot
  <2>1. /\ UNCHANGED <<arrived, held, times>> /\ offset' = 0
        /\ batch' = {} /\ restarts' = restarts + 1
    BY <1>5 DEF RestartBot
  <2>2. Forgotten'
    BY <1>1, <2>1 DEF Confirmed, Forgotten
  <2>3. InOrder'
    BY <2>1 DEF InOrder
  <2>4. Rarely'
    <3> SUFFICES ASSUME NEW u \in 1..arrived'
                 PROVE  times'[u] <= (IF u < offset' THEN 1 ELSE 0) + restarts'
      BY DEF Rarely
    <3>1. u \in 1..arrived /\ u \in Updates
      BY <1>1, <2>1 DEF Updates
    <3>2. times[u] \in Nat /\ times[u] <= 1 + restarts
      BY <1>1, <3>1 DEF Confirmed, Rarely
    <3> QED
      BY <1>1, <2>1, <3>2
  <2>5. Unsent'
    BY <1>1, <2>1 DEF Confirmed, Unsent
  <2> QED
    BY <2>2, <2>3, <2>4, <2>5 DEF Confirmed
<1>6. CASE UNCHANGED <<telegram, restarts>>
  BY <1>6 DEF telegram, Confirmed, Forgotten, InOrder, Rarely, Unsent
<1>7. \/ UNCHANGED <<telegram, restarts>> \/ Send \/ RestartBot
      \/ \E lost \in BOOLEAN : Poll(lost)
      \/ \E u \in Updates : Drop(u) \/ Reply(u)
  BY DEF Next, Handle, Execute, Audit, GiveUp, RestartApi, Midnight, Daily, Fetched,
         Narrated, Remember, IngestFact, vars
<1> QED
  BY <1>2, <1>3, <1>4, <1>5, <1>6, <1>7

\* Telegram is only ever told to forget updates that were handled to their
\* end, and no update is handled more often than the bot was started.
THEOREM ForgottenWasHandled == Spec => []ConfirmedHandled
<1>1. Init => Confirmed
  BY DEF Init, Confirmed, Forgotten, InOrder, Rarely, Unsent
<1>2. TypeOK /\ Confirmed => ConfirmedHandled
  <2> SUFFICES ASSUME TypeOK, Confirmed, NEW u \in 1..arrived
               PROVE  /\ u \notin held => times[u] > 0
                      /\ times[u] <= 1 + restarts
    BY DEF ConfirmedHandled
  <2>1. times[u] \in Nat /\ restarts \in Nat /\ offset \in Int /\ u \in Int
    BY AuditAssumption DEF TypeOK, Updates
  <2> QED
    BY <2>1 DEF Confirmed, Forgotten, Rarely
<1> QED
  BY <1>1, <1>2, TypeCorrect, ConfirmedStep, PTL DEF Spec
=============================================================================

---------------------------- MODULE TomChatProofs ----------------------------
(***************************************************************************)
(* Theorems about TomChat, for any number of turns, users and scopes: what  *)
(* is kept of a conversation, and where a draft can be.                     *)
(***************************************************************************)
EXTENDS TomChat, FiniteSetTheorems, TLAPS

\* A turn keeps what it read when it began; from its reply on it is a turn of
\* Discord, and a call of the model is only made with an attempt left.
TurnsOK ==
  \A t \in Turns :
    /\ pc[t] = "idle" => turn[t] = None
    /\ pc[t] \in {"idle", "recall"} => tries[t] = 0
    /\ pc[t] = "llm" => tries[t] < Attempts
    /\ pc[t] \in {"reply", "offer", "marks"} =>
         turn[t] # None /\ turn[t].user # DispatchUser

\* An answer follows the message it answers, or its own copy.
Paired(q) ==
  \A i \in 2..Len(q) : q[i].role = "assistant" =>
    q[i - 1] \in {[turn |-> q[i].turn, role |-> "user"], q[i]}

Sound == TypeOK /\ TurnsOK /\ \A s \in Scopes : Paired(history[s])

-----------------------------------------------------------------------------
(* Sequences of entries.                                                   *)

LEMMA KeepFacts ==
  ASSUME NEW q \in Seq(Entry), Len(q) <= 2 * HistoryMax + 1, Paired(q)
  PROVE  /\ Keep(q) \in Seq(Entry) /\ Len(Keep(q)) <= 2 * HistoryMax
         /\ Paired(Keep(q))
         /\ q # <<>> => Keep(q) # <<>> /\ Keep(q)[Len(Keep(q))] = q[Len(q)]
<1>1. HistoryMax \in Nat \ {0} /\ Len(q) \in Nat
  BY ChatAssumption
<1>2. CASE Len(q) <= 2 * HistoryMax
  BY <1>1, <1>2 DEF Keep
<1>3. CASE ~(Len(q) <= 2 * HistoryMax)
  <2>1. q # <<>> /\ Keep(q) = Tail(q) /\ Len(q) > 1
    BY <1>1, <1>3 DEF Keep
  <2> PICK r : r = Tail(q)
    OBVIOUS
  <2>2. /\ r \in Seq(Entry) /\ Len(r) = Len(q) - 1
        /\ \A i \in 1..Len(r) : r[i] = q[i + 1]
    BY <2>1
  <2>3. ASSUME NEW i \in 2..Len(r), r[i].role = "assistant"
        PROVE  r[i - 1] \in {[turn |-> r[i].turn, role |-> "user"], r[i]}
    <3>1. i + 1 \in 2..Len(q) /\ (i + 1) - 1 = i /\ i \in 1..Len(r)
      BY <1>1, <2>2
    <3> DEFINE j == i + 1
    <3>2. i - 1 \in 1..Len(r) /\ (i - 1) + 1 = i
      BY <1>1, <2>2
    <3>3. r[i] = q[i + 1] /\ r[i - 1] = q[i]
      BY <2>2, <3>1, <3>2
    <3>4. j \in 2..Len(q) /\ j - 1 = i /\ r[i] = q[j]
      BY <3>1, <3>3
    <3> HIDE DEF j
    <3>5. q[j - 1] \in {[turn |-> q[j].turn, role |-> "user"], q[j]}
      BY <2>3, <3>4 DEF Paired
    <3>6. q[i] \in {[turn |-> r[i].turn, role |-> "user"], r[i]}
      BY <3>4, <3>5
    <3> QED
      BY <3>3, <3>6
  <2>4. Len(r) \in 1..Len(r) /\ Len(r) + 1 = Len(q) /\ Len(r) # 0
    <3>1. \A n \in Nat : n > 1 => n - 1 \in 1..(n - 1) /\ (n - 1) + 1 = n /\ n - 1 # 0
      OBVIOUS
    <3>2. Len(q) \in Nat /\ Len(q) > 1 /\ Len(r) = Len(q) - 1
      BY <1>1, <2>1, <2>2
    <3> QED
      BY <3>1, <3>2
  <2>5. r[Len(r)] = q[Len(q)]
    BY <2>2, <2>4
  <2>6. Len(r) <= 2 * HistoryMax
    BY <1>1, <2>2
  <2>7. r # <<>>
    <3>1. Len(<<>>) = 0
      OBVIOUS
    <3> QED
      BY <2>4, <3>1
  <2> QED
    BY <2>1, <2>2, <2>3, <2>5, <2>6, <2>7 DEF Paired
<1> QED
  BY <1>2, <1>3

\* One append_turn, of a message or of its answer.
LEMMA PushFacts ==
  ASSUME NEW q \in Seq(Entry), Len(q) <= 2 * HistoryMax, Paired(q),
         NEW t \in Turns, NEW role \in {"user", "assistant"},
         role = "assistant" => /\ q # <<>>
                               /\ q[Len(q)].turn = t /\ q[Len(q)] \in Entry
  PROVE  /\ Push(q, t, role) \in Seq(Entry)
         /\ Len(Push(q, t, role)) <= 2 * HistoryMax
         /\ Paired(Push(q, t, role))
         /\ Push(q, t, role) # <<>>
         /\ Push(q, t, role)[Len(Push(q, t, role))] = [turn |-> t, role |-> role]
<1> DEFINE x == [turn |-> t, role |-> role]
<1>0. x \in Entry /\ x.role = role /\ x.turn = t
  BY DEF Entry
<1> PICK a : a = Append(q, x)
  OBVIOUS
<1>1. /\ HistoryMax \in Nat \ {0} /\ Len(q) \in Nat
      /\ a \in Seq(Entry) /\ Len(a) = Len(q) + 1
      /\ \A i \in 1..Len(q) : a[i] = q[i]
      /\ a[Len(a)] = x
  BY <1>0, ChatAssumption
<1>2. a # <<>>
  BY <1>1
<1>3. Paired(a)
  <2> SUFFICES ASSUME NEW i \in 2..Len(a), a[i].role = "assistant"
               PROVE  a[i - 1] \in {[turn |-> a[i].turn, role |-> "user"], a[i]}
    BY DEF Paired
  <2>1. CASE i \in 2..Len(q)
    <3>1. i \in 1..Len(q) /\ i - 1 \in 1..Len(q)
      BY <1>1, <2>1
    <3> QED
      BY <1>1, <2>1, <3>1 DEF Paired
  <2>2. CASE i = Len(a)
    <3>1. role = "assistant" /\ a[i] = x
      BY <1>0, <1>1, <2>2
    <3>4. q[Len(q)] \in {[turn |-> t, role |-> "user"], [turn |-> t, role |-> "assistant"]}
      BY <3>1 DEF Entry
    <3>2. i - 1 = Len(q) /\ Len(q) \in 1..Len(q)
      BY <1>1, <2>2
    <3>3. a[i - 1] = q[Len(q)]
      BY <1>1, <3>2
    <3> QED
      BY <1>0, <3>1, <3>3, <3>4
  <2> QED
    BY <1>1, <2>1, <2>2
<1>4. Push(q, t, role) = Keep(a)
  BY DEF Push
<1>5. Len(a) <= 2 * HistoryMax + 1
  BY <1>1
<1> HIDE DEF x
<1>6. /\ Keep(a) \in Seq(Entry) /\ Len(Keep(a)) <= 2 * HistoryMax
      /\ Paired(Keep(a)) /\ Keep(a) # <<>> /\ Keep(a)[Len(Keep(a))] = x
  BY <1>1, <1>2, <1>3, <1>5, KeepFacts
<1> QED
  BY <1>4, <1>6 DEF x

LEMMA RememberFacts ==
  ASSUME NEW q \in Seq(Entry), Len(q) <= 2 * HistoryMax, Paired(q),
         NEW t \in Turns, NEW bad
  PROVE  /\ Remember(q, t, bad) \in Seq(Entry)
         /\ Len(Remember(q, t, bad)) <= 2 * HistoryMax
         /\ Paired(Remember(q, t, bad))
<1> DEFINE Fine(h) == h \in Seq(Entry) /\ Len(h) <= 2 * HistoryMax /\ Paired(h)
           Ends(h) == h # <<>> /\ h[Len(h)].turn = t /\ h[Len(h)] \in Entry
<1>1. ASSUME NEW h, Fine(h)
      PROVE  Fine(Push(h, t, "user")) /\ Ends(Push(h, t, "user"))
  <2>1. h \in Seq(Entry) /\ Len(h) <= 2 * HistoryMax /\ Paired(h)
    BY <1>1
  <2>2. "user" \in {"user", "assistant"} /\ "user" # "assistant"
    OBVIOUS
  <2>3. [turn |-> t, role |-> "user"] \in Entry /\ [turn |-> t, role |-> "user"].turn = t
    BY DEF Entry
  <2>4. /\ Push(h, t, "user") \in Seq(Entry) /\ Len(Push(h, t, "user")) <= 2 * HistoryMax
        /\ Paired(Push(h, t, "user")) /\ Push(h, t, "user") # <<>>
        /\ Push(h, t, "user")[Len(Push(h, t, "user"))] = [turn |-> t, role |-> "user"]
    BY <2>1, <2>2, PushFacts
  <2> QED
    BY <2>3, <2>4
<1>2. ASSUME NEW h, Fine(h), Ends(h)
      PROVE  Fine(Push(h, t, "assistant")) /\ Ends(Push(h, t, "assistant"))
  <2>1. h \in Seq(Entry) /\ Len(h) <= 2 * HistoryMax /\ Paired(h)
    BY <1>2
  <2>2. h # <<>> /\ h[Len(h)].turn = t /\ h[Len(h)] \in Entry
    BY <1>2
  <2>3. [turn |-> t, role |-> "assistant"] \in Entry /\ [turn |-> t, role |-> "assistant"].turn = t
    BY DEF Entry
  <2>4. /\ Push(h, t, "assistant") \in Seq(Entry) /\ Len(Push(h, t, "assistant")) <= 2 * HistoryMax
        /\ Paired(Push(h, t, "assistant")) /\ Push(h, t, "assistant") # <<>>
        /\ Push(h, t, "assistant")[Len(Push(h, t, "assistant"))] = [turn |-> t, role |-> "assistant"]
    BY <2>1, <2>2, PushFacts
  <2> QED
    BY <2>3, <2>4
<1>3. Fine(q)
  OBVIOUS
<1> HIDE DEF Fine, Ends
<1> DEFINE p == Push(q, t, "user")
           pp == Push(p, t, "user")
           pa == Push(p, t, "assistant")
<1>4. Fine(p) /\ Ends(p)
  BY <1>1, <1>3
<1>5. Fine(pp) /\ Ends(pp) /\ Fine(pa) /\ Ends(pa)
  BY <1>1, <1>2, <1>4
<1>6. Fine(Push(pp, t, "assistant")) /\ Fine(Push(pa, t, "assistant"))
  BY <1>2, <1>5
<1>7. Remember(q, t, bad) \in {q, p, pa, Push(pp, t, "assistant"),
                               Push(pa, t, "assistant")}
  BY DEF Remember
<1> HIDE DEF p, pp, pa
<1>8. Fine(Remember(q, t, bad))
  BY <1>3, <1>4, <1>5, <1>6, <1>7
<1> QED
  BY <1>8 DEF Fine

-----------------------------------------------------------------------------
(* What the parts of a turn do.                                            *)

LEMMA ResolveType ==
  ASSUME TypeOK, NEW u \in Users, NEW bad
  PROVE  Resolve(u, bad) \in Viewer
BY ChatAssumption DEF Resolve, TypeOK, Viewer

\* The guards let a turn in: it reads who speaks and what they chose.
LEMMA AdmitFacts ==
  ASSUME Sound, NEW t \in Turns, NEW u \in Users, NEW s \in Scopes,
         NEW m \in Messages, NEW bad, NEW gain \in 0..1, Admit(t, u, s, m, bad, gain)
  PROVE  /\ pc[t] = "idle" /\ turn[t] = None /\ tries[t] = 0
         /\ faults' \in 0..MaxFaults
         /\ tokens' \in [Users -> 0..MaxTokens]
         /\ \E tr \in TurnRecord :
              /\ turn' = [turn EXCEPT ![t] = tr] /\ turn'[t] = tr /\ tr # None
              /\ tr.user = u /\ tr.scope = s /\ tr.told = promised[u]
              /\ tr.optedOut <=> prefs[u]["do_not_log"] = "1"
<1>1. pc[t] = "idle" /\ turn[t] = None /\ tries[t] = 0
  BY DEF Admit, Sound, TurnsOK
<1>2. faults' \in 0..MaxFaults
  BY ChatAssumption, SMTT(30) DEF Admit, Fault, Sound, TypeOK
<1>3. tokens' \in [Users -> 0..MaxTokens]
  <2> DEFINE v == Resolve(u, bad)
  <2>1. CASE /\ v.tier # "solomon" /\ u # DispatchUser
             /\ bad \notin {"bucket", "spend"}
    <3>1. Level(u, gain) \in 0..MaxTokens
      BY ChatAssumption DEF Level, Sound, TypeOK
    <3>2. Level(u, gain) >= 1
      BY <2>1, <3>1 DEF Admit, Refused
    <3>3. Level(u, gain) - 1 \in 0..MaxTokens
      BY <3>1, <3>2, ChatAssumption
    <3>4. tokens' = [tokens EXCEPT ![u] = Level(u, gain) - 1]
      BY <2>1 DEF Admit
    <3> QED
      BY <3>3, <3>4 DEF Sound, TypeOK
  <2>2. CASE ~(/\ v.tier # "solomon" /\ u # DispatchUser
               /\ bad \notin {"bucket", "spend"})
    <3>1. tokens' = tokens
      BY <2>2 DEF Admit
    <3> QED
      BY <3>1 DEF Sound, TypeOK
  <2> QED
    BY <2>1, <2>2
<1> DEFINE tr == [user |-> u, scope |-> s, viewer |-> Resolve(u, bad), msg |-> m,
                  optedOut |-> prefs[u]["do_not_log"] = "1", told |-> promised[u]]
<1>4. tr \in TurnRecord
  <2>1. Resolve(u, bad) \in Viewer /\ promised[u] \in BOOLEAN
    BY ResolveType DEF Sound, TypeOK
  <2>2. (prefs[u]["do_not_log"] = "1") \in BOOLEAN
    OBVIOUS
  <2> QED
    BY <2>1, <2>2 DEF TurnRecord
<1>5. turn' = [turn EXCEPT ![t] = tr]
  BY DEF Admit
<1>6. /\ tr.user = u /\ tr.scope = s /\ tr.told = promised[u]
      /\ tr.optedOut <=> prefs[u]["do_not_log"] = "1"
  OBVIOUS
<1> HIDE DEF tr
<1>7. turn'[t] = tr /\ tr # None
  BY <1>4, <1>5, NoneAssumption DEF Sound, TypeOK
<1> QED
  BY <1>1, <1>2, <1>3, <1>4, <1>5, <1>6, <1>7

\* The drafts that a turn queues are its own, numbered in order when none of
\* them was pushed twice, and there is none if the author opted out.
NewDrafts(t, tr, new) ==
  /\ new \in Seq(Draft)
  /\ new # <<>> => ~tr.optedOut
  /\ \A i \in 1..Len(new) :
       /\ new[i].turn = t /\ new[i].by = tr.user /\ new[i].name = tr.viewer.name
       /\ t \notin doubled' => new[i].k = i
  /\ pending' = [pending EXCEPT ![tr.scope] = @ \o new]
  /\ doubled \subseteq doubled' /\ doubled' \subseteq doubled \cup {t}

\* What is pushed: numbers of drafts, in order unless there are too many.
LEMMA PushedFacts ==
  ASSUME NEW tr \in TurnRecord, NEW bad, tr.viewer \in Viewer, tr.msg.drafts \in 0..2
  PROVE  /\ Pushed(tr, bad) \in Seq(1..2)
         /\ Pushed(tr, bad) # <<>> => Named(tr.viewer)
         /\ ~(Len(Pushed(tr, bad)) > Found(tr).drafts) =>
              \A i \in 1..Len(Pushed(tr, bad)) : Pushed(tr, bad)[i] = i
<1> DEFINE n == Found(tr).drafts
           all == [k \in 1..n |-> k]
<1>1. n \in 0..2 /\ (n > 0 => Named(tr.viewer))
  BY DEF Found
<1> PICK m \in 0..2 : m = n
  BY <1>1
<1>2. all = [k \in 1..m |-> k] /\ m \in Nat
  OBVIOUS
<1>3. /\ all \in Seq(1..2) /\ Len(all) = m /\ \A i \in 1..Len(all) : all[i] = i
      /\ m = 0 => all = <<>>
  BY <1>2
<1>4. /\ <<1>> \in Seq(1..2) /\ <<2>> \in Seq(1..2) /\ Len(<<1>>) = 1 /\ Len(<<2>>) = 1
      /\ \A i \in 1..Len(<<1>>) : <<1>>[i] = i
  OBVIOUS
<1>5. Pushed(tr, bad) = CASE bad \in {"pref", "draft"} -> <<>>
                          [] bad = "draft2" /\ n > 1 -> <<1>>
                          [] bad = "draftTwice" /\ n > 0 -> <<1>> \o all
                          [] bad = "draft2Twice" /\ n > 1 -> all \o <<2>>
                          [] OTHER -> all
  BY DEF Pushed
<1> PICK a : a = all
  OBVIOUS
<1>6. /\ a \in Seq(1..2) /\ Len(a) = m /\ \A i \in 1..Len(a) : a[i] = i
      /\ m = 0 => a = <<>>
  BY <1>3
<1> HIDE DEF n, all
<1>7. /\ <<1>> \o a \in Seq(1..2) /\ Len(<<1>> \o a) = m + 1
      /\ a \o <<2>> \in Seq(1..2) /\ Len(a \o <<2>>) = m + 1
  BY <1>4, <1>6
<1>8. CASE bad \in {"pref", "draft"}
  BY <1>5, <1>8
<1>9. CASE bad = "draft2" /\ n > 1
  BY <1>1, <1>4, <1>5, <1>9
<1>10. CASE bad = "draftTwice" /\ n > 0
  <2>1. Pushed(tr, bad) = <<1>> \o a
    BY <1>5, <1>10
  <2>2. n > 0 /\ Len(Pushed(tr, bad)) = m + 1 /\ Pushed(tr, bad) \in Seq(1..2)
    BY <1>7, <1>10, <2>1
  <2>3. Named(tr.viewer) /\ Len(Pushed(tr, bad)) > n
    BY <1>1, <2>2
  <2> QED
    BY <2>2, <2>3 DEF n
<1>11. CASE bad = "draft2Twice" /\ n > 1
  <2>1. Pushed(tr, bad) = a \o <<2>>
    BY <1>5, <1>11
  <2>2. n > 1 /\ Len(Pushed(tr, bad)) = m + 1 /\ Pushed(tr, bad) \in Seq(1..2)
    BY <1>7, <1>11, <2>1
  <2>3. Named(tr.viewer) /\ Len(Pushed(tr, bad)) > n
    BY <1>1, <2>2
  <2> QED
    BY <2>2, <2>3 DEF n
<1>12. CASE Pushed(tr, bad) = a
  <2>1. a # <<>> => Named(tr.viewer)
    BY <1>1, <1>6
  <2> QED
    BY <1>6, <1>12, <2>1
<1> QED
  BY <1>5, <1>8, <1>9, <1>10, <1>11, <1>12

LEMMA ExtractFacts ==
  ASSUME TypeOK, NEW t \in Turns, NEW tr \in TurnRecord, NEW bad, Extract(t, tr, bad)
  PROVE  /\ prefs' \in [Users -> [PrefKeys -> {"unset", "0", "1", "yes"}]]
         /\ \A u \in Users : prefs'[u]["do_not_log"] = prefs[u]["do_not_log"]
         /\ facts' \subseteq [turn : Turns, name : Names]
         /\ \A f \in facts' : f \in facts \/ (f.turn = t /\ ~tr.optedOut)
         /\ \E new : NewDrafts(t, tr, new)
<1>0. /\ tr.user \in Users /\ tr.scope \in Scopes /\ tr.viewer \in Viewer
      /\ tr.msg \in Messages /\ tr.optedOut \in BOOLEAN
      /\ tr.msg.pref \in {"none", "0", "1"} /\ tr.msg.drafts \in 0..2
  BY MessagesAssumption DEF TurnRecord
<1>1. CASE tr.optedOut
  <2>1. UNCHANGED <<prefs, pending, facts, doubled>>
    BY <1>1 DEF Extract
  <2>2. <<>> \in Seq(Draft) /\ Len(<<>>) = 0
    OBVIOUS
  <2>3. pending[tr.scope] \o <<>> = pending[tr.scope]
    BY <1>0 DEF TypeOK
  <2>4. pending = [pending EXCEPT ![tr.scope] = @ \o <<>>]
    BY <2>3 DEF TypeOK
  <2>5. /\ prefs' \in [Users -> [PrefKeys -> {"unset", "0", "1", "yes"}]]
        /\ \A u \in Users : prefs'[u]["do_not_log"] = prefs[u]["do_not_log"]
        /\ facts' \subseteq [turn : Turns, name : Names]
        /\ \A f \in facts' : f \in facts \/ (f.turn = t /\ ~tr.optedOut)
    BY <2>1 DEF TypeOK
  <2>6. NewDrafts(t, tr, <<>>)
    BY <2>1, <2>2, <2>4 DEF NewDrafts
  <2> QED
    BY <2>5, <2>6
<1>2. CASE ~tr.optedOut
  <2>0. Found(tr).pref = tr.msg.pref
    BY DEF Found
  <2> PICK ks : ks = Pushed(tr, bad)
    OBVIOUS
  <2>2. /\ ks \in Seq(1..2) /\ (ks # <<>> => Named(tr.viewer))
        /\ ~(Len(ks) > Found(tr).drafts) => \A i \in 1..Len(ks) : ks[i] = i
    BY <1>0, PushedFacts
  <2>3. prefs' = IF Found(tr).pref = "none" \/ bad = "pref" THEN prefs
                 ELSE [prefs EXCEPT ![tr.user]["suppress_films"] = Found(tr).pref]
    BY <1>2 DEF Extract
  <2>4. /\ prefs' \in [Users -> [PrefKeys -> {"unset", "0", "1", "yes"}]]
        /\ \A u \in Users : prefs'[u]["do_not_log"] = prefs[u]["do_not_log"]
    BY <1>0, <2>0, <2>3 DEF TypeOK, PrefKeys
  <2> DEFINE new == [i \in 1..Len(ks) |->
                       [turn |-> t, k |-> ks[i], by |-> tr.user,
                        name |-> tr.viewer.name]]
  <2>5. /\ pending' = [pending EXCEPT ![tr.scope] = @ \o new]
        /\ doubled' = IF Len(ks) > Found(tr).drafts THEN doubled \cup {t} ELSE doubled
    BY <1>2 DEF Extract
  <2>6. new \in Seq(Draft) /\ Len(new) = Len(ks)
    <3>1. Named(tr.viewer) => tr.viewer.name \in Names
      BY <1>0 DEF Named, Viewer
    <3>2. ASSUME NEW i \in 1..Len(ks)
          PROVE  [turn |-> t, k |-> ks[i], by |-> tr.user,
                  name |-> tr.viewer.name] \in Draft
      <4>1. ks[i] \in 1..2 /\ ks # <<>>
        BY <2>2
      <4> QED
        BY <1>0, <2>2, <3>1, <4>1 DEF Draft
    <3>3. Len(ks) \in Nat
      BY <2>2
    <3> QED
      BY <3>2, <3>3
  <2>8. \A i \in 1..Len(new) :
          /\ new[i].turn = t /\ new[i].by = tr.user /\ new[i].name = tr.viewer.name
          /\ new[i].k = ks[i]
    BY <2>6
  <2>7. /\ facts' \subseteq [turn : Turns, name : Names]
        /\ \A f \in facts' : f \in facts \/ (f.turn = t /\ ~tr.optedOut)
    <3>1. facts' \in {facts, RememberFact(t, tr)}
      BY <1>2 DEF Extract
    <3>2. Named(tr.viewer) => [turn |-> t, name |-> tr.viewer.name]
                                 \in [turn : Turns, name : Names]
      BY <1>0 DEF Named, Viewer
    <3>3. CASE Named(tr.viewer)
      BY <1>2, <3>1, <3>2, <3>3 DEF RememberFact, TypeOK
    <3>4. CASE ~Named(tr.viewer)
      BY <3>1, <3>4 DEF RememberFact, TypeOK
    <3> QED
      BY <3>3, <3>4
  <2> HIDE DEF new
  <2>9. t \notin doubled' => \A i \in 1..Len(new) : new[i].k = i
    BY <2>2, <2>5, <2>6, <2>8
  <2>10. NewDrafts(t, tr, new)
    BY <1>2, <2>5, <2>6, <2>8, <2>9 DEF NewDrafts
  <2> QED
    BY <2>4, <2>7, <2>10
<1> QED
  BY <1>0, <1>1, <1>2

-----------------------------------------------------------------------------
(* Types.                                                                  *)

\* What an answer writes: the history of its scope, preferences, drafts, facts.
LEMMA AnsweredFacts ==
  ASSUME Sound, NEW t \in Turns, NEW tr \in TurnRecord, NEW bad,
         Answered(t, tr, bad)
  PROVE  /\ history' \in [Scopes -> Seq(Entry)]
         /\ \A s \in Scopes : Len(history'[s]) <= 2 * HistoryMax /\ Paired(history'[s])
         /\ prefs' \in [Users -> [PrefKeys -> {"unset", "0", "1", "yes"}]]
         /\ facts' \subseteq [turn : Turns, name : Names]
         /\ pending' \in [Scopes -> Seq(Draft)] /\ doubled' \subseteq Turns
         /\ pc' = [pc EXCEPT ![t] = IF tr.user = DispatchUser THEN "done" ELSE "reply"]
<1>1. tr.scope \in Scopes
  BY DEF TurnRecord
<1>2. /\ Remember(history[tr.scope], t, bad) \in Seq(Entry)
      /\ Len(Remember(history[tr.scope], t, bad)) <= 2 * HistoryMax
      /\ Paired(Remember(history[tr.scope], t, bad))
  BY <1>1, RememberFacts DEF Sound, TypeOK
<1>3. history' = [history EXCEPT ![tr.scope] = Remember(history[tr.scope], t, bad)]
  BY <1>1 DEF Answered, Sound, TypeOK
<1>4. /\ history' \in [Scopes -> Seq(Entry)]
      /\ \A s \in Scopes : Len(history'[s]) <= 2 * HistoryMax /\ Paired(history'[s])
  BY <1>1, <1>2, <1>3 DEF Sound, TypeOK
<1>5. PICK new : NewDrafts(t, tr, new)
  <2>1. TypeOK /\ Extract(t, tr, bad)
    BY DEF Answered, Sound
  <2> QED
    BY <2>1, ExtractFacts, SMTT(30)
<1>6. pending' \in [Scopes -> Seq(Draft)]
  <2>1. new \in Seq(Draft) /\ pending[tr.scope] \o new \in Seq(Draft)
    BY <1>1, <1>5 DEF NewDrafts, Sound, TypeOK
  <2>2. pending' = [pending EXCEPT ![tr.scope] = @ \o new]
    BY <1>5 DEF NewDrafts
  <2> QED
    BY <2>1, <2>2 DEF Sound, TypeOK
<1>7. doubled' \subseteq Turns
  BY <1>5 DEF NewDrafts, Sound, TypeOK
<1> QED
  BY <1>4, <1>6, <1>7, ExtractFacts DEF Answered, Sound, Move

LEMMA BeginningSound ==
  ASSUME Sound, NEW t \in Turns, NEW u \in Users, NEW s \in Scopes,
         NEW m \in Messages, NEW bad, NEW gain \in 0..1,
         \/ Refuse(t, u, s, m, bad, gain) \/ BeginFails(t, u, s, m, bad, gain)
         \/ Begin(t, u, s, m, bad, gain) \/ Onboard(t, u, s, m, bad, gain)
  PROVE  Sound'
<1>1. CASE Refuse(t, u, s, m, bad, gain)
  <2>1. faults' \in 0..MaxFaults
    BY <1>1, ChatAssumption DEF Refuse, Fault, Sound, TypeOK, notes
  <2>2. pc[t] = "idle" /\ pc' = [pc EXCEPT ![t] = "done"]
    BY <1>1 DEF Refuse, Move
  <2>3. TypeOK'
    BY <1>1, <2>1, <2>2 DEF Refuse, redis, Sound, TypeOK, notes
  <2>4. TurnsOK'
    BY <1>1, <2>2 DEF Refuse, Sound, TypeOK, TurnsOK, notes
  <2> QED
    BY <1>1, <2>3, <2>4 DEF Refuse, redis, Sound, notes
<1>2. CASE \/ BeginFails(t, u, s, m, bad, gain) \/ Begin(t, u, s, m, bad, gain)
           \/ Onboard(t, u, s, m, bad, gain)
  <2>1. Admit(t, u, s, m, bad, gain)
    BY <1>2 DEF BeginFails, Begin, Onboard
  <2>2. PICK tr \in TurnRecord :
          turn' = [turn EXCEPT ![t] = tr] /\ turn'[t] = tr /\ tr # None /\ tr.user = u
    BY <2>1, AdmitFacts
  <2>3. /\ pc[t] = "idle" /\ turn[t] = None /\ tries[t] = 0
        /\ faults' \in 0..MaxFaults /\ tokens' \in [Users -> 0..MaxTokens]
    BY <2>1, AdmitFacts
  <2>4. CASE BeginFails(t, u, s, m, bad, gain) \/ Begin(t, u, s, m, bad, gain)
    <3>1. \E place \in {"done", "recall", "llm"} : pc' = [pc EXCEPT ![t] = place]
      BY <2>4 DEF BeginFails, Begin, Move
    <3>2. UNCHANGED <<tries, held, history, prefs, override, banned, pending, bound,
                      facts, cached, saved, outlived, doubled, promised, commands>>
      BY <2>4 DEF BeginFails, Begin, notes
    <3>3. TypeOK'
      BY <2>2, <2>3, <3>1, <3>2, SMTT(30) DEF Sound, TypeOK
    <3>4. TurnsOK'
      <4>1. 0 < Attempts
        BY ChatAssumption
      <4>2. ASSUME NEW x \in Turns, x # t
            PROVE  pc'[x] = pc[x] /\ turn'[x] = turn[x] /\ tries'[x] = tries[x]
        BY <2>2, <3>1, <3>2, <4>2 DEF Sound, TypeOK
      <4>3. pc'[t] \in {"done", "recall", "llm"} /\ tries'[t] = 0
        BY <2>3, <3>1, <3>2 DEF Sound, TypeOK
      <4> QED
        BY <4>1, <4>2, <4>3 DEF Sound, TurnsOK
    <3> QED
      BY <3>2, <3>3, <3>4 DEF Sound
  <2>5. CASE Onboard(t, u, s, m, bad, gain)
    <3>1. Answered(t, tr, bad) /\ u # DispatchUser
      BY <2>2, <2>5 DEF Onboard
    <3>2. UNCHANGED <<tries, held, override, banned, bound, cached, saved, outlived,
                      promised, commands>>
      BY <2>5 DEF Onboard
    <3>3. pc' = [pc EXCEPT ![t] = "reply"]
      BY <2>2, <3>1 DEF Answered, Move
    <3>4. TypeOK'
      <4>1. /\ history' \in [Scopes -> Seq(Entry)] /\ pending' \in [Scopes -> Seq(Draft)]
            /\ \A x \in Scopes : Len(history'[x]) <= 2 * HistoryMax
            /\ prefs' \in [Users -> [PrefKeys -> {"unset", "0", "1", "yes"}]]
            /\ facts' \subseteq [turn : Turns, name : Names] /\ doubled' \subseteq Turns
        BY <3>1, AnsweredFacts
      <4> QED
        BY <2>2, <2>3, <3>2, <3>3, <4>1 DEF Sound, TypeOK
    <3>5. TurnsOK'
      BY <2>2, <2>3, <3>1, <3>2, <3>3 DEF Sound, TypeOK, TurnsOK
    <3>6. \A x \in Scopes : Paired(history'[x])
      BY <3>1, AnsweredFacts
    <3> QED
      BY <3>4, <3>5, <3>6 DEF Sound
  <2> QED
    BY <1>2, <2>4, <2>5
<1> QED
  BY <1>1, <1>2

LEMMA AnsweringSound ==
  ASSUME Sound, NEW t \in Turns, NEW bad,
         Recalled(t, bad) \/ LlmReplies(t, bad) \/ LlmFails(t)
  PROVE  Sound'
<1>1. CASE Recalled(t, bad)
  <2>1. faults' \in 0..MaxFaults
    BY <1>1, ChatAssumption DEF Recalled, Fault, Sound, TypeOK, notes
  <2>2. /\ pc[t] = "recall" /\ turn[t] # None /\ tries[t] = 0
        /\ \E place \in {"done", "llm"} : pc' = [pc EXCEPT ![t] = place]
    BY <1>1 DEF Recalled, Move, Sound, TypeOK, TurnsOK, notes
  <2>3. UNCHANGED <<turn, tries, held, history, prefs, override, banned, tokens,
                    pending, bound, facts, cached, saved, outlived, doubled, promised, commands>>
    BY <1>1 DEF Recalled, redis, notes
  <2>4. TypeOK'
    BY <2>1, <2>2, <2>3 DEF Sound, TypeOK
  <2>5. TurnsOK'
    BY <2>2, <2>3, ChatAssumption DEF Sound, TypeOK, TurnsOK
  <2> QED
    BY <2>3, <2>4, <2>5 DEF Sound
<1>2. CASE LlmReplies(t, bad)
  <2>1. faults' \in 0..MaxFaults
    BY <1>2, ChatAssumption DEF LlmReplies, Fault, Sound, TypeOK
  <2>2. /\ pc[t] = "llm" /\ turn[t] \in TurnRecord
        /\ Answered(t, turn[t], bad)
    BY <1>2 DEF LlmReplies, Sound, TypeOK
  <2>3. /\ UNCHANGED <<turn, held, override, banned, tokens, bound, cached,
                       saved, outlived, promised, commands>>
        /\ tries' = [tries EXCEPT ![t] = 0] /\ 0 \in 0..Attempts
    BY <1>2, ChatAssumption DEF LlmReplies
  <2>4. /\ history' \in [Scopes -> Seq(Entry)] /\ pending' \in [Scopes -> Seq(Draft)]
        /\ \A x \in Scopes : Len(history'[x]) <= 2 * HistoryMax /\ Paired(history'[x])
        /\ prefs' \in [Users -> [PrefKeys -> {"unset", "0", "1", "yes"}]]
        /\ facts' \subseteq [turn : Turns, name : Names] /\ doubled' \subseteq Turns
        /\ pc' = [pc EXCEPT ![t] = IF turn[t].user = DispatchUser THEN "done"
                                   ELSE "reply"]
    BY <2>2, AnsweredFacts
  <2>5. TypeOK'
    BY <2>1, <2>2, <2>3, <2>4 DEF Sound, TypeOK
  <2>6. TurnsOK'
    BY <2>2, <2>3, <2>4 DEF Sound, TypeOK, TurnsOK
  <2> QED
    BY <2>4, <2>5, <2>6 DEF Sound
<1>3. CASE LlmFails(t)
  <2>1. PICK empty \in BOOLEAN :
          /\ tries' = [tries EXCEPT ![t] = IF empty \/ AfterFailure(t).over THEN 0
                                           ELSE AfterFailure(t).tries]
          /\ pc' = [pc EXCEPT ![t] =
                IF ~(empty \/ AfterFailure(t).over) THEN "llm"
                ELSE IF turn[t].user = DispatchUser THEN "done" ELSE "reply"]
    BY <1>3 DEF LlmFails, Move
  <2>2. /\ pc[t] = "llm" /\ turn[t] \in TurnRecord /\ turn[t] # None
        /\ tries[t] \in 0..Attempts /\ tries[t] < Attempts /\ Attempts \in Nat
    BY <1>3, ChatAssumption DEF LlmFails, Sound, TypeOK, TurnsOK, notes
  <2>3. UNCHANGED <<turn, held, history, prefs, override, banned, tokens,
                    pending, bound, facts, cached, saved, outlived, doubled, promised, faults, commands>>
    BY <1>3 DEF LlmFails, redis, notes
  <2>4. /\ AfterFailure(t).tries = tries[t] + 1 /\ tries[t] + 1 \in 0..Attempts
        /\ AfterFailure(t).over = (tries[t] + 1 = Attempts)
    <3>1. tries[t] + 1 \in 0..Attempts
      BY <2>2
    <3>2. AfterFailure(t).tries = tries[t] + 1
      BY DEF AfterFailure
    <3>3. AfterFailure(t).over = (tries[t] + 1 = Attempts)
      BY Zenon DEF AfterFailure
    <3> QED
      BY <3>1, <3>2, <3>3
  <2>5. /\ tries' \in [Turns -> 0..Attempts]
        /\ \A x \in Turns : x # t => tries'[x] = tries[x]
        /\ ~empty /\ tries[t] + 1 # Attempts => tries'[t] = tries[t] + 1
    <3> PICK x : x = IF empty \/ AfterFailure(t).over THEN 0 ELSE AfterFailure(t).tries
      OBVIOUS
    <3>1. tries' = [tries EXCEPT ![t] = x] /\ x \in 0..Attempts
      BY <2>1, <2>2, <2>4
    <3>2. ~empty /\ tries[t] + 1 # Attempts => x = tries[t] + 1
      BY <2>4
    <3> QED
      BY <3>1, <3>2 DEF Sound, TypeOK
  <2>6. PICK place \in {"llm", "done", "reply"} :
          /\ pc' = [pc EXCEPT ![t] = place]
          /\ place = "llm" => ~empty /\ tries[t] + 1 # Attempts
          /\ place = "reply" => turn[t].user # DispatchUser
    <3>1. CASE ~(empty \/ AfterFailure(t).over)
      <4>1. pc' = [pc EXCEPT ![t] = "llm"]
        BY <2>1, <3>1
      <4>2. tries[t] + 1 # Attempts /\ ~empty
        BY <2>4, <3>1
      <4> QED
        BY <4>1, <4>2
    <3>2. CASE (empty \/ AfterFailure(t).over) /\ turn[t].user = DispatchUser
      BY <2>1, <3>2
    <3>3. CASE (empty \/ AfterFailure(t).over) /\ turn[t].user # DispatchUser
      BY <2>1, <3>3
    <3> QED
      BY <3>1, <3>2, <3>3
  <2>7. TypeOK'
    BY <2>2, <2>3, <2>5, <2>6 DEF Sound, TypeOK
  <2>8. TurnsOK'
    BY <2>2, <2>3, <2>5, <2>6 DEF Sound, TypeOK, TurnsOK
  <2> QED
    BY <2>3, <2>7, <2>8 DEF Sound
<1> QED
  BY <1>1, <1>2, <1>3

LEMMA OfferingSound ==
  ASSUME Sound, NEW t \in Turns, NEW bad,
         Replied(t, bad) \/ Prompted(t) \/ Bind(t) \/ OfferFails(t)
  PROVE  Sound'
<1>1. CASE Replied(t, bad)
  <2> DEFINE s == turn[t].scope
             q == IF bad \in {"popTwice", "popLost"} /\ pending[s] # <<>>
                  THEN Tail(pending[s]) ELSE pending[s]
             offers == bad \in {"none", "popTwice"} /\ q # <<>>
  <2>1. /\ pc[t] = "reply" /\ turn[t] # None /\ turn[t].user # DispatchUser
        /\ s \in Scopes /\ held[t] = None /\ faults' \in 0..MaxFaults
    <3>1. pc[t] = "reply" /\ faults' \in 0..MaxFaults
      BY <1>1, ChatAssumption DEF Replied, Fault, Sound, TypeOK
    <3>2. turn[t] \in TurnRecord /\ turn[t] # None /\ turn[t].user # DispatchUser
      BY <3>1 DEF Sound, TypeOK, TurnsOK
    <3>3. s \in Scopes
      BY <3>2 DEF TurnRecord
    <3>4. held[t] = None
      BY <3>1 DEF Sound, TypeOK
    <3> QED
      BY <3>1, <3>2, <3>3, <3>4
  <2>2. UNCHANGED <<turn, tries, history, prefs, override, banned, tokens, bound,
                    facts, cached, saved, outlived, doubled, promised, commands>>
    BY <1>1 DEF Replied, notes
  <2>5. q \in Seq(Draft)
    BY <2>1 DEF Sound, TypeOK
  <2>6. /\ pc' = [pc EXCEPT ![t] = IF offers THEN "offer" ELSE "done"]
        /\ pending' = [pending EXCEPT ![s] = IF offers THEN Tail(q) ELSE q]
        /\ held' = IF offers THEN [held EXCEPT ![t] = Head(q)] ELSE held
    BY <1>1 DEF Replied, Move
  <2> HIDE DEF q, s
  <2>3. CASE offers
    <3>2. Head(q) \in Draft /\ Tail(q) \in Seq(Draft)
      BY <2>3, <2>5
    <3>3. TypeOK'
      BY <2>1, <2>2, <2>3, <2>6, <3>2, NoneAssumption DEF Sound, TypeOK
    <3>4. TurnsOK'
      BY <2>1, <2>2, <2>3, <2>6 DEF Sound, TypeOK, TurnsOK
    <3> QED
      BY <2>2, <3>3, <3>4 DEF Sound
  <2>4. CASE ~offers
    <3>2. TypeOK'
      BY <2>1, <2>2, <2>4, <2>5, <2>6 DEF Sound, TypeOK
    <3>3. TurnsOK'
      BY <2>1, <2>2, <2>4, <2>6 DEF Sound, TypeOK, TurnsOK
    <3> QED
      BY <2>2, <3>2, <3>3 DEF Sound
  <2> QED
    BY <2>3, <2>4
<1>2. CASE Prompted(t)
  <2>1. pc[t] = "offer" /\ pc' = [pc EXCEPT ![t] = "marks"]
    BY <1>2 DEF Prompted, Move
  <2>2. TypeOK'
    BY <1>2, <2>1 DEF Prompted, redis, Sound, TypeOK, notes
  <2>3. TurnsOK'
    BY <1>2, <2>1 DEF Prompted, Sound, TypeOK, TurnsOK, notes
  <2> QED
    BY <1>2, <2>2, <2>3 DEF Prompted, redis, Sound, notes
<1>3. CASE Bind(t)
  <2>1. pc[t] = "marks" /\ pc' = [pc EXCEPT ![t] = "done"] /\ held[t] \in Draft
    BY <1>3 DEF Bind, Move, Sound, TypeOK, notes
  <2>2. TypeOK'
    BY <1>3, <2>1 DEF Bind, Stamped, Sound, TypeOK, notes
  <2>3. TurnsOK'
    BY <1>3, <2>1 DEF Bind, Sound, TypeOK, TurnsOK, notes
  <2> QED
    BY <1>3, <2>2, <2>3 DEF Bind, Sound, notes
<1>4. CASE OfferFails(t)
  <2>1. /\ pc[t] \in {"offer", "marks"} /\ pc' = [pc EXCEPT ![t] = "done"]
        /\ faults' \in 0..MaxFaults
    BY <1>4, ChatAssumption DEF OfferFails, Fault, Move, Sound, TypeOK, notes
  <2>2. TypeOK'
    BY <1>4, <2>1 DEF OfferFails, redis, Sound, TypeOK, notes
  <2>3. TurnsOK'
    BY <1>4, <2>1 DEF OfferFails, Sound, TypeOK, TurnsOK, notes
  <2> QED
    BY <1>4, <2>2, <2>3 DEF OfferFails, redis, Sound, notes
<1> QED
  BY <1>1, <1>2, <1>3, <1>4

\* What a reaction's note is.
LEMMA NoteFacts ==
  ASSUME Sound, NEW t \in Turns, NEW u \in Users, MayReact(t, u)
  PROVE  /\ bound[t] \in Draft /\ bound[t] # None /\ bound[t].by = u
         /\ SaveNote(t, u) =>
              \E e \in Note : /\ saved' = saved \cup {e}
                              /\ e.draft = bound[t] /\ e.by = u
                              /\ e.again <=> \E x \in saved : x.draft = bound[t]
<1>1. bound[t] \in Draft /\ bound[t] # None /\ bound[t].by = u
  BY DEF MayReact, Sound, TypeOK
<1>2. ASSUME SaveNote(t, u)
      PROVE  \E e \in Note : /\ saved' = saved \cup {e}
                             /\ e.draft = bound[t] /\ e.by = u
                             /\ e.again <=> \E x \in saved : x.draft = bound[t]
  <2> DEFINE e == [draft |-> bound[t], by |-> u,
                   again |-> \E x \in saved : x.draft = bound[t]]
  <2>1. (\E x \in saved : x.draft = bound[t]) \in BOOLEAN
    OBVIOUS
  <2>2. e \in Note /\ e.draft = bound[t] /\ e.by = u
    BY <1>1, <2>1 DEF Note
  <2>3. e.again <=> \E x \in saved : x.draft = bound[t]
    OBVIOUS
  <2>4. saved' = saved \cup {e}
    BY <1>2 DEF SaveNote
  <2> QED
    BY <2>2, <2>3, <2>4
<1> QED
  BY <1>1, <1>2

\* The end of the bot's process, wherever its turns are.
LEMMA StopFacts ==
  ASSUME Sound, Stop, UNCHANGED <<turn, tries>>
  PROVE  /\ \A t \in Turns : pc'[t] \in {pc[t], "done"} /\ pc'[t] \notin {"offer", "marks"}
         /\ pc' \in [Turns -> {"idle", "recall", "llm", "reply", "offer", "marks", "done"}]
         /\ held' = [t \in Turns |-> None] /\ cached' = {}
         /\ TurnsOK'
<1> DEFINE mine == {t \in Turns : /\ pc[t] \notin {"idle", "done"}
                                  /\ turn[t].user # DispatchUser}
<1>1. /\ pc' = [t \in Turns |-> IF t \in mine THEN "done" ELSE pc[t]]
      /\ held' = [t \in Turns |-> None] /\ cached' = {}
  BY DEF Stop
<1>2. \A t \in Turns : pc[t] \in {"offer", "marks"} => t \in mine
  BY DEF Sound, TurnsOK
<1> HIDE DEF mine
<1>3. \A t \in Turns : pc'[t] \in {pc[t], "done"} /\ pc'[t] \notin {"offer", "marks"}
  BY <1>1, <1>2
<1>4. pc' \in [Turns -> {"idle", "recall", "llm", "reply", "offer", "marks", "done"}]
  BY <1>1 DEF Sound, TypeOK
<1>5. TurnsOK'
  BY <1>3 DEF Sound, TurnsOK
<1> QED
  BY <1>1, <1>3, <1>4, <1>5

\* The steps that leave the turns alone.
LEMMA SettlingSound ==
  ASSUME Sound,
         \/ \E t \in Turns : ExpireDraft(t) \/ \E u \in Users : React(t, u)
         \/ \E s \in Scopes : ExpirePending(s)
         \/ UNCHANGED vars
  PROVE  Sound'
<1>1. ASSUME NEW t \in Turns, ExpireDraft(t)
      PROVE  Sound'
  <2>1. TypeOK'
    BY <1>1 DEF ExpireDraft, Unbind, notes, Sound, TypeOK
  <2> QED
    BY <1>1, <2>1 DEF ExpireDraft, Sound, TurnsOK
<1>2. ASSUME NEW t \in Turns, NEW u \in Users, React(t, u)
      PROVE  Sound'
  <2>1. saved' \subseteq Note
    BY <1>2, NoteFacts DEF React, Sound, TypeOK
  <2>2. bound' \in [Turns -> Draft \cup {None}]
    BY <1>2 DEF React, Unbind, Sound, TypeOK
  <2>3. TypeOK'
    BY <1>2, <2>1, <2>2 DEF React, Sound, TypeOK
  <2> QED
    BY <1>2, <2>3 DEF React, Sound, TurnsOK
<1>3. ASSUME NEW s \in Scopes, ExpirePending(s)
      PROVE  Sound'
  <2>1. <<>> \in Seq(Draft)
    OBVIOUS
  <2>2. TypeOK'
    BY <1>3, <2>1 DEF ExpirePending, Sound, TypeOK, notes
  <2> QED
    BY <1>3, <2>2 DEF ExpirePending, Sound, TurnsOK, notes
<1>4. CASE UNCHANGED vars
  BY <1>4 DEF vars, redis, notes, Sound, TypeOK, TurnsOK
<1> QED
  BY <1>1, <1>2, <1>3, <1>4

LEMMA CommandSound ==
  ASSUME Sound, NEW u \in Users, SlashCommand(u)
  PROVE  Sound'
<1>1. ASSUME NEW s \in Scopes, NEW what, Forget(u, s, what)
      PROVE  Sound'
  <2>1. commands' \in 0..MaxCommands
    BY <1>1, ChatAssumption DEF Forget, Command, Sound, TypeOK, notes
  <2>2. \/ history' = history
        \/ history' = [history EXCEPT ![s] = <<>>]
    BY <1>1 DEF Forget
  <2>3. /\ <<>> \in Seq(Entry) /\ Len(<<>>) = 0 /\ 0 <= 2 * HistoryMax
        /\ Paired(<<>>)
    BY ChatAssumption DEF Paired
  <2>4. /\ history' \in [Scopes -> Seq(Entry)]
        /\ \A x \in Scopes : Len(history'[x]) <= 2 * HistoryMax /\ Paired(history'[x])
    BY <2>2, <2>3 DEF Sound, TypeOK
  <2>5. /\ prefs' \in [Users -> [PrefKeys -> {"unset", "0", "1", "yes"}]]
        /\ promised' \in [Users -> BOOLEAN]
    <3>1. \/ UNCHANGED <<prefs, promised>>
          \/ /\ prefs' = [prefs EXCEPT ![u] = [k \in PrefKeys |-> "unset"]]
             /\ promised' = [promised EXCEPT ![u] = FALSE]
      BY <1>1 DEF Forget
    <3> PICK none : none = [k \in PrefKeys |-> "unset"]
      OBVIOUS
    <3>2. none \in [PrefKeys -> {"unset", "0", "1", "yes"}]
      OBVIOUS
    <3>3. CASE UNCHANGED <<prefs, promised>>
      BY <3>3 DEF Sound, TypeOK
    <3>4. CASE /\ prefs' = [prefs EXCEPT ![u] = none]
               /\ promised' = [promised EXCEPT ![u] = FALSE]
      BY <3>2, <3>4 DEF Sound, TypeOK
    <3> QED
      BY <3>1, <3>3, <3>4
  <2>6. facts' \subseteq facts
    BY <1>1 DEF Forget, ForgetFacts
  <2>7. TypeOK'
    BY <1>1, <2>1, <2>4, <2>5, <2>6 DEF Forget, Sound, TypeOK, notes
  <2>8. TurnsOK'
    BY <1>1 DEF Forget, Sound, TurnsOK, notes
  <2> QED
    BY <2>4, <2>7, <2>8 DEF Sound
<1>2. ASSUME NEW key \in PrefKeys, NEW value, Setpref(u, key, value)
      PROVE  Sound'
  <2>1. commands' \in 0..MaxCommands
    BY <1>2, ChatAssumption DEF Setpref, Command, Sound, TypeOK, notes
  <2>2. Normal(value) \in {"1", "unset", "refused"}
    BY DEF Normal
  <2>3. /\ prefs' \in [Users -> [PrefKeys -> {"unset", "0", "1", "yes"}]]
        /\ promised' \in [Users -> BOOLEAN]
    <3>1. CASE Normal(value) = "refused"
      BY <1>2, <3>1 DEF Setpref, Sound, TypeOK, notes
    <3>2. CASE Normal(value) # "refused"
      <4>1. prefs' = [prefs EXCEPT ![u][key] = Normal(value)]
        BY <1>2, <3>2 DEF Setpref
      <4>2. \/ promised' = promised
            \/ promised' = [promised EXCEPT ![u] = Normal(value) # "unset"]
        BY <1>2, <3>2 DEF Setpref
      <4>3. prefs' \in [Users -> [PrefKeys -> {"unset", "0", "1", "yes"}]]
        <5> PICK new : new = [prefs[u] EXCEPT ![key] = Normal(value)]
          OBVIOUS
        <5>1. new \in [PrefKeys -> {"unset", "0", "1", "yes"}]
          BY <2>2, <3>2 DEF Sound, TypeOK
        <5>2. prefs' = [prefs EXCEPT ![u] = new]
          BY <4>1 DEF Sound, TypeOK
        <5> QED
          BY <5>1, <5>2 DEF Sound, TypeOK
      <4>4. promised' \in [Users -> BOOLEAN]
        BY <4>2 DEF Sound, TypeOK
      <4> QED
        BY <4>3, <4>4
    <3> QED
      BY <3>1, <3>2
  <2>4. TypeOK'
    BY <1>2, <2>1, <2>3 DEF Setpref, Sound, TypeOK, notes
  <2> QED
    BY <1>2, <2>4 DEF Setpref, Sound, TurnsOK, notes
<1>3. ASSUME NEW target \in Users, Govern(u, target)
      PROVE  Sound'
  <2>1. commands' \in 0..MaxCommands
    BY <1>3, ChatAssumption DEF Govern, Command, Sound, TypeOK, notes
  <2>2. banned' \subseteq Users /\ override' \in [Users -> Viewer \cup {None}]
    <3>1. \A v \in Overrides : v \in Viewer
      BY ChatAssumption DEF Viewer
    <3>2. CASE UNCHANGED override /\ banned' \in {banned \cup {target}, banned \ {target}}
      BY <3>2 DEF Sound, TypeOK
    <3>3. CASE /\ override' \in {[override EXCEPT ![target] = v] : v \in Overrides}
               /\ UNCHANGED banned
      BY <3>1, <3>3, ZenonT(30) DEF Sound, TypeOK
    <3> QED
      BY <1>3, <3>2, <3>3 DEF Govern
  <2>3. TypeOK'
    BY <1>3, <2>1, <2>2 DEF Govern, Sound, TypeOK, notes
  <2> QED
    BY <1>3, <2>3 DEF Govern, Sound, TurnsOK, notes
<1> QED
  BY <1>1, <1>2, <1>3 DEF SlashCommand

LEMMA RestartSound ==
  ASSUME Sound, Restart
  PROVE  Sound'
<1>1. faults' \in 0..MaxFaults
  BY ChatAssumption DEF Restart, Fault, Sound, TypeOK
<1>2. UNCHANGED <<turn, tries, history, prefs, override, banned, tokens, pending,
                  bound, facts, saved, outlived, doubled, promised, commands>>
  BY DEF Restart, redis, notes
<1>3. /\ pc' \in [Turns -> {"idle", "recall", "llm", "reply", "offer", "marks", "done"}]
      /\ \A t \in Turns : pc'[t] \in {pc[t], "done"} /\ pc'[t] \notin {"offer", "marks"}
      /\ held' = [t \in Turns |-> None] /\ cached' = {} /\ TurnsOK'
  BY <1>2, StopFacts DEF Restart
<1>4. TypeOK'
  BY <1>1, <1>2, <1>3 DEF Sound, TypeOK
<1> QED
  BY <1>2, <1>3, <1>4 DEF Sound

LEMMA CutShortSound ==
  ASSUME Sound, NEW t \in Turns, NEW u \in Users, ReactCutShort(t, u)
  PROVE  Sound'
<1>1. faults' \in 0..MaxFaults
  BY ChatAssumption DEF ReactCutShort, Fault, Sound, TypeOK
<1>2. UNCHANGED <<turn, tries, history, prefs, override, banned, tokens, pending,
                  bound, facts, doubled, promised, commands>>
  BY DEF ReactCutShort, redis
<1>3. saved' \subseteq Note /\ outlived' \subseteq Draft
  BY NoteFacts DEF ReactCutShort, Sound, TypeOK
<1>4. CASE Stop
  <2>1. /\ pc' \in [Turns -> {"idle", "recall", "llm", "reply", "offer", "marks", "done"}]
        /\ \A x \in Turns : pc'[x] \in {pc[x], "done"} /\ pc'[x] \notin {"offer", "marks"}
        /\ held' = [x \in Turns |-> None] /\ cached' = {} /\ TurnsOK'
    BY <1>2, <1>4, StopFacts
  <2>2. TypeOK'
    BY <1>1, <1>2, <1>3, <2>1 DEF Sound, TypeOK
  <2> QED
    BY <1>2, <2>1, <2>2 DEF Sound
<1>5. CASE UNCHANGED <<pc, held, cached>>
  <2>1. TypeOK'
    BY <1>1, <1>2, <1>3, <1>5 DEF Sound, TypeOK
  <2> QED
    BY <1>2, <1>5, <2>1 DEF Sound, TurnsOK
<1> QED
  BY <1>4, <1>5 DEF ReactCutShort

LEMMA InitSound == Init => Sound
<1> SUFFICES ASSUME Init PROVE Sound
  OBVIOUS
<1>1. <<>> \in Seq(Entry) /\ <<>> \in Seq(Draft) /\ Len(<<>>) = 0
  OBVIOUS
<1>2. Paired(<<>>)
  BY <1>1 DEF Paired
<1>3. /\ 0 \in 0..Attempts /\ 0 < Attempts /\ 0 <= 2 * HistoryMax
      /\ MaxTokens \in 0..MaxTokens /\ 0 \in 0..MaxFaults /\ 0 \in 0..MaxCommands
  BY ChatAssumption
<1>4. TypeOK
  BY <1>1, <1>3 DEF Init, TypeOK
<1>5. TurnsOK
  BY DEF Init, TurnsOK
<1> QED
  BY <1>2, <1>4, <1>5 DEF Init, Sound

LEMMA StepSound ==
  ASSUME Sound, [Next]_vars
  PROVE  Sound'
<1>1. ASSUME NEW t \in Turns, NEW m \in Messages, NEW u \in Users, NEW s \in Scopes,
             NEW gain \in 0..1, NEW bad,
             \/ Refuse(t, u, s, m, bad, gain) \/ BeginFails(t, u, s, m, bad, gain)
             \/ Begin(t, u, s, m, bad, gain) \/ Onboard(t, u, s, m, bad, gain)
      PROVE  Sound'
  BY <1>1, BeginningSound
<1>2. ASSUME NEW t \in Turns, NEW bad,
             Recalled(t, bad) \/ LlmReplies(t, bad) \/ LlmFails(t)
      PROVE  Sound'
  BY <1>2, AnsweringSound
<1>3. ASSUME NEW t \in Turns, NEW bad,
             Replied(t, bad) \/ Prompted(t) \/ Bind(t) \/ OfferFails(t)
      PROVE  Sound'
  BY <1>3, OfferingSound
<1>4. CASE \/ \E t \in Turns : ExpireDraft(t) \/ \E u \in Users : React(t, u)
           \/ \E s \in Scopes : ExpirePending(s)
           \/ UNCHANGED vars
  BY <1>4, SettlingSound
<1>5. CASE \E u \in Users : SlashCommand(u)
  BY <1>5, CommandSound
<1>6. CASE Restart
  BY <1>6, RestartSound
<1>7. CASE \E t \in Turns, u \in Users : ReactCutShort(t, u)
  BY <1>7, CutShortSound
<1> QED
  BY <1>1, <1>2, <1>3, <1>4, <1>5, <1>6, <1>7 DEF Next

LEMMA AlwaysSound == Spec => []Sound
<1>1. Sound /\ [Next]_vars => Sound'
  BY StepSound
<1> QED
  BY <1>1, InitSound, PTL DEF Spec

\* The state has its types: no turn is offered a draft it does not hold, and
\* nothing of a scope or a user outgrows its bound.
THEOREM TypeCorrect == Spec => []TypeOK
<1>1. Sound => TypeOK
  BY DEF Sound
<1> QED
  BY <1>1, AlwaysSound, PTL

\* In the history of every scope, an answer stands behind its question, for any
\* number of turns in any order, with commands and failed writes between them.
THEOREM HistoryStaysPaired == Spec => []HistoryPaired
<1>1. Sound => HistoryPaired
  BY DEF Sound, Paired, HistoryPaired
<1> QED
  BY <1>1, AlwaysSound, PTL

-----------------------------------------------------------------------------
(* Where a draft comes from.                                               *)

Early == {"idle", "recall", "llm"}

\* A draft belongs to a turn that has been answered, whose author had not opted
\* out when it began, and carries the author's id and name.
Own(d) ==
  /\ turn[d.turn] # None /\ ~turn[d.turn].optedOut /\ pc[d.turn] \notin Early
  /\ d.by = turn[d.turn].user /\ d.name = turn[d.turn].viewer.name

OwnDrafts ==
  /\ \A s \in Scopes : \A i \in 1..Len(pending[s]) : Own(pending[s][i])
  /\ \A t \in Turns : held[t] # None => Own(held[t])
  /\ \A t \in Turns : bound[t] # None => Own(bound[t])
  /\ \A e \in saved : Own(e.draft) /\ e.by = e.draft.by

\* The drafts of a turn that Redis queued once each.
Single(d) == d.turn \notin doubled

\* No such draft is in two places, but for one that outlived its own note.
Apart ==
  /\ \A s1, s2 \in Scopes : \A i \in 1..Len(pending[s1]), j \in 1..Len(pending[s2]) :
       pending[s1][i] = pending[s2][j] /\ Single(pending[s1][i]) => s1 = s2 /\ i = j
  /\ \A s \in Scopes : \A i \in 1..Len(pending[s]), t \in Turns :
       Single(pending[s][i]) => held[t] # pending[s][i] /\ bound[t] # pending[s][i]
  /\ \A s \in Scopes : \A i \in 1..Len(pending[s]), e \in saved :
       Single(pending[s][i]) => e.draft # pending[s][i]
  /\ \A t1, t2 \in Turns : held[t1] # None /\ Single(held[t1]) =>
       held[t1] # bound[t2] /\ (held[t1] = held[t2] => t1 = t2)
  /\ \A t1, t2 \in Turns :
       bound[t1] # None /\ bound[t1] = bound[t2] /\ Single(bound[t1]) => t1 = t2
  /\ \A e \in saved, t \in Turns : Single(e.draft) =>
       /\ e.draft # held[t]
       /\ e.draft = bound[t] => e.draft \in outlived
  /\ \A e1, e2 \in saved :
       e1.draft = e2.draft /\ Single(e1.draft) => e1 = e2 \/ e1.draft \in outlived
  /\ \A d \in outlived : \E e \in saved : e.draft = d

\* The ways in which a step moves drafts: a turn's answer queues its own; a
\* scope's queue loses its first ones, of which a turn may hold the last; a held
\* one is bound or dropped; a bound one is settled, with or without a note; or
\* its note is written and it stays.
Queues(t, tr, new) ==
  /\ pc[t] \in Early /\ pc'[t] \notin Early /\ turn'[t] = tr /\ tr # None
  /\ NewDrafts(t, tr, new)
  /\ UNCHANGED <<held, bound, saved, outlived>>

Takes(s, n) ==
  /\ n \in 0..Len(pending[s])
  /\ \E q \in Seq(Draft) :
       /\ pending' = [pending EXCEPT ![s] = q]
       /\ \A i \in 1..Len(q) : i + n \in 1..Len(pending[s]) /\ q[i] = pending[s][i + n]
  /\ \/ UNCHANGED held
     \/ \E t \in Turns : /\ n # 0 /\ held[t] = None
                         /\ held' = [held EXCEPT ![t] = pending[s][n]]
  /\ UNCHANGED <<bound, saved, outlived, doubled>>

Binds(t) ==
  /\ held[t] # None
  /\ bound' = [bound EXCEPT ![t] = held[t]]
  /\ held' = [held EXCEPT ![t] = None]
  /\ UNCHANGED <<pending, saved, outlived, doubled>>

LetsGo == \A t \in Turns : held'[t] \in {held[t], None}

Drops == LetsGo /\ UNCHANGED <<pending, bound, saved, outlived, doubled>>

Annotates(t) ==
  \E e \in Note : saved' = saved \cup {e} /\ e.draft = bound[t] /\ e.by = e.draft.by

Settles(t) ==
  /\ bound[t] # None
  /\ Annotates(t) \/ UNCHANGED saved
  /\ bound' = [bound EXCEPT ![t] = None]
  /\ UNCHANGED <<pending, held, outlived, doubled>>

Outlives(t) ==
  /\ bound[t] # None /\ Annotates(t) /\ outlived' = outlived \cup {bound[t]}
  /\ LetsGo /\ UNCHANGED <<pending, bound, doubled>>

DraftsMove ==
  \/ UNCHANGED <<pending, held, bound, saved, outlived, doubled>>
  \/ \E t \in Turns, tr \in TurnRecord : \E new : Queues(t, tr, new)
  \/ \E s \in Scopes : \E n : Takes(s, n)
  \/ \E t \in Turns : Binds(t)
  \/ Drops
  \/ \E t \in Turns : Settles(t)
  \/ \E t \in Turns : Outlives(t)

\* The other two things a turn leaves behind: facts, and what was promised.
FactsMove ==
  \A f \in facts' :
    \/ f \in facts
    \/ turn'[f.turn] # None /\ ~turn'[f.turn].optedOut

PromiseKept(u) == promised[u] => prefs[u]["do_not_log"] = "1"

\* What a turn has read it keeps, and it never goes back before its answer.
TurnGoes(t) ==
  /\ turn[t] # None => turn'[t] = turn[t]
  /\ pc[t] \notin Early => pc'[t] \notin Early
  /\ turn[t] = None /\ turn'[t] # None =>
       \E u \in Users : /\ turn'[t].told = promised[u]
                        /\ turn'[t].optedOut <=> prefs[u]["do_not_log"] = "1"

Moves ==
  /\ DraftsMove /\ FactsMove
  /\ \A t \in Turns : TurnGoes(t)
  /\ (\A u \in Users : PromiseKept(u)) => \A u \in Users : PromiseKept(u)'

LEMMA BeginningMoves ==
  ASSUME Sound, NEW t \in Turns, NEW u \in Users, NEW s \in Scopes,
         NEW m \in Messages, NEW bad, NEW gain \in 0..1,
         \/ Refuse(t, u, s, m, bad, gain) \/ BeginFails(t, u, s, m, bad, gain)
         \/ Begin(t, u, s, m, bad, gain) \/ Onboard(t, u, s, m, bad, gain)
  PROVE  Moves
<1>1. CASE Refuse(t, u, s, m, bad, gain)
  <2>1. UNCHANGED <<turn, prefs, promised, facts, pending, held, bound, saved,
                    outlived, doubled>>
    BY <1>1 DEF Refuse, redis, notes
  <2>2. pc' = [pc EXCEPT ![t] = "done"]
    BY <1>1 DEF Refuse, Move
  <2>3. \A x \in Turns : TurnGoes(x)
    BY <2>1, <2>2 DEF TurnGoes, Early, Sound, TypeOK
  <2> QED
    BY <2>1, <2>3 DEF Moves, DraftsMove, FactsMove, PromiseKept
<1>2. CASE \/ BeginFails(t, u, s, m, bad, gain) \/ Begin(t, u, s, m, bad, gain)
           \/ Onboard(t, u, s, m, bad, gain)
  <2>1. Admit(t, u, s, m, bad, gain)
    BY <1>2 DEF BeginFails, Begin, Onboard
  <2>2. PICK tr \in TurnRecord :
          /\ turn' = [turn EXCEPT ![t] = tr] /\ turn'[t] = tr /\ tr # None
          /\ tr.user = u /\ tr.told = promised[u]
          /\ tr.optedOut <=> prefs[u]["do_not_log"] = "1"
    BY <2>1, AdmitFacts
  <2>3. pc[t] = "idle" /\ turn[t] = None
    BY <2>1, AdmitFacts
  <2>4. pc' = [pc EXCEPT ![t] = pc'[t]]
    BY <1>2 DEF BeginFails, Begin, Onboard, Answered, Move, Sound, TypeOK
  <2>5. \A x \in Turns : TurnGoes(x)
    <3> SUFFICES ASSUME NEW x \in Turns PROVE TurnGoes(x)
      OBVIOUS
    <3>1. CASE x = t
      BY <2>2, <2>3, <3>1 DEF TurnGoes, Early
    <3>2. CASE x # t
      <4>1. turn'[x] = turn[x] /\ pc'[x] = pc[x]
        BY <2>2, <2>4, <3>2 DEF Sound, TypeOK
      <4> QED
        BY <4>1 DEF TurnGoes
    <3> QED
      BY <3>1, <3>2
  <2>6. CASE BeginFails(t, u, s, m, bad, gain) \/ Begin(t, u, s, m, bad, gain)
    <3>1. UNCHANGED <<prefs, promised, facts, pending, held, bound, saved,
                      outlived, doubled>>
      BY <2>6 DEF BeginFails, Begin, notes
    <3> QED
      BY <2>5, <3>1 DEF Moves, DraftsMove, FactsMove, PromiseKept
  <2>7. CASE Onboard(t, u, s, m, bad, gain)
    <3>1. /\ Answered(t, tr, bad) /\ u # DispatchUser
          /\ UNCHANGED <<held, bound, saved, outlived, promised>>
      BY <2>2, <2>7 DEF Onboard
    <3>2. pc'[t] \notin Early
      BY <2>2, <3>1 DEF Answered, Move, Early, Sound, TypeOK
    <3>3. /\ \A x \in Users : prefs'[x]["do_not_log"] = prefs[x]["do_not_log"]
          /\ \A f \in facts' : f \in facts \/ (f.turn = t /\ ~tr.optedOut)
          /\ \E new : NewDrafts(t, tr, new)
      BY <3>1, ExtractFacts, SMTT(30) DEF Answered, Sound
    <3>4. \E new : Queues(t, tr, new)
      <4>1. PICK new : NewDrafts(t, tr, new)
        BY <3>3
      <4>2. pc[t] \in Early
        BY <2>3 DEF Early
      <4>3. Queues(t, tr, new)
        BY <2>2, <3>1, <3>2, <4>1, <4>2 DEF Queues
      <4> QED
        BY <4>3
    <3>5. FactsMove
      BY <2>2, <3>3 DEF FactsMove
    <3> QED
      BY <2>5, <3>1, <3>3, <3>4, <3>5 DEF Moves, DraftsMove, PromiseKept
  <2> QED
    BY <1>2, <2>6, <2>7
<1> QED
  BY <1>1, <1>2

LEMMA AnsweringMoves ==
  ASSUME Sound, NEW t \in Turns, NEW bad,
         Recalled(t, bad) \/ LlmReplies(t, bad) \/ LlmFails(t)
  PROVE  Moves
<1>1. /\ UNCHANGED turn /\ pc[t] \in Early
      /\ \A x \in Turns : x # t => pc'[x] = pc[x]
  BY DEF Recalled, LlmReplies, LlmFails, Answered, Move, Early, Sound, TypeOK
<1>2. \A x \in Turns : TurnGoes(x)
  BY <1>1 DEF TurnGoes
<1>3. CASE Recalled(t, bad) \/ LlmFails(t)
  <2>1. UNCHANGED <<prefs, promised, facts, pending, held, bound, saved, outlived,
                    doubled>>
    BY <1>3 DEF Recalled, LlmFails, redis, notes
  <2> QED
    BY <1>1, <1>2, <2>1 DEF Moves, DraftsMove, FactsMove, PromiseKept
<1>4. CASE LlmReplies(t, bad)
  <2> PICK tr : tr = turn[t]
    OBVIOUS
  <2>1. /\ tr \in TurnRecord /\ tr # None /\ turn'[t] = tr
        /\ Answered(t, tr, bad)
        /\ UNCHANGED <<held, bound, saved, outlived, promised>>
    BY <1>1, <1>4 DEF LlmReplies, Sound, TypeOK
  <2>2. pc'[t] \notin Early
    BY <2>1 DEF Answered, Move, Early, Sound, TypeOK
  <2>3. /\ \A x \in Users : prefs'[x]["do_not_log"] = prefs[x]["do_not_log"]
        /\ \A f \in facts' : f \in facts \/ (f.turn = t /\ ~tr.optedOut)
        /\ \E new : NewDrafts(t, tr, new)
    BY <2>1, ExtractFacts, SMTT(30) DEF Answered, Sound
  <2>4. \E new : Queues(t, tr, new)
    <3>1. PICK new : NewDrafts(t, tr, new)
      BY <2>3
    <3>2. Queues(t, tr, new)
      BY <1>1, <2>1, <2>2, <3>1 DEF Queues
    <3> QED
      BY <3>2
  <2>5. FactsMove
    BY <2>1, <2>3 DEF FactsMove
  <2> QED
    BY <1>2, <2>1, <2>3, <2>4, <2>5 DEF Moves, DraftsMove, PromiseKept
<1> QED
  BY <1>3, <1>4

LEMMA TailFacts ==
  ASSUME NEW q \in Seq(Draft), q # <<>>
  PROVE  /\ Head(q) = q[1] /\ 1 \in 1..Len(q)
         /\ Tail(q) \in Seq(Draft) /\ Len(Tail(q)) = Len(q) - 1
         /\ \A i \in 1..Len(Tail(q)) : i + 1 \in 1..Len(q) /\ Tail(q)[i] = q[i + 1]
<1>1. Len(q) \in Nat /\ Len(q) # 0
  OBVIOUS
<1>2. Len(Tail(q)) = Len(q) - 1
  OBVIOUS
<1> QED
  BY <1>1, <1>2

\* A queue that lost its first ones, and how Takes is met.
Rest(q, p, n) ==
  /\ q \in Seq(Draft) /\ Len(q) \in Nat /\ n \in 0..Len(p) /\ Len(q) = Len(p) - n
  /\ \A i \in 1..Len(q) : i + n \in 1..Len(p) /\ q[i] = p[i + n]

LEMMA RestOfRest ==
  ASSUME NEW p \in Seq(Draft), NEW q, NEW m, Rest(q, p, m), q # <<>>
  PROVE  /\ Rest(Tail(q), p, m + 1) /\ m + 1 # 0
         /\ Head(q) = p[m + 1]
<1>1. /\ q \in Seq(Draft) /\ Len(q) \in Nat /\ m \in 0..Len(p) /\ Len(q) = Len(p) - m
      /\ Len(p) \in Nat /\ \A i \in 1..Len(q) : i + m \in 1..Len(p) /\ q[i] = p[i + m]
  BY DEF Rest
<1> PICK r : r = Tail(q)
  OBVIOUS
<1>2. /\ r \in Seq(Draft) /\ Len(r) = Len(q) - 1 /\ Head(q) = q[1] /\ 1 \in 1..Len(q)
      /\ \A i \in 1..Len(r) : i + 1 \in 1..Len(q) /\ r[i] = q[i + 1]
  BY <1>1, TailFacts
<1>3. /\ m + 1 \in 0..Len(p) /\ m + 1 # 0 /\ Len(r) = Len(p) - (m + 1)
      /\ Len(r) \in Nat
  BY <1>1, <1>2
<1>4. Head(q) = p[m + 1]
  <2>1. q[1] = p[1 + m] /\ 1 + m = m + 1
    BY <1>1, <1>2
  <2> QED
    BY <1>2, <2>1
<1>5. ASSUME NEW i \in 1..Len(r)
      PROVE  i + (m + 1) \in 1..Len(p) /\ r[i] = p[i + (m + 1)]
  <2> PICK j : j = i + 1
    OBVIOUS
  <2>1. j \in 1..Len(q) /\ r[i] = q[j]
    BY <1>2
  <2>2. j + m \in 1..Len(p) /\ q[j] = p[j + m]
    BY <1>1, <2>1
  <2>3. j + m = i + (m + 1)
    BY <1>1, <1>2
  <2> QED
    BY <2>1, <2>2, <2>3
<1> QED
  BY <1>2, <1>3, <1>4, <1>5 DEF Rest

\* A reply takes none, one or two drafts from its scope's queue.
LEMMA RepliedTakes ==
  ASSUME Sound, NEW t \in Turns, NEW bad, Replied(t, bad)
  PROVE  \E s \in Scopes : \E n : Takes(s, n)
<1> DEFINE s == turn[t].scope
           p == pending[s]
           q == IF bad \in {"popTwice", "popLost"} /\ p # <<>> THEN Tail(p) ELSE p
           offers == bad \in {"none", "popTwice"} /\ q # <<>>
<1>1. s \in Scopes /\ held[t] = None /\ p \in Seq(Draft)
  <2>1. pc[t] = "reply"
    BY DEF Replied
  <2>2. turn[t] \in TurnRecord
    BY <2>1 DEF Sound, TypeOK
  <2>3. s \in Scopes
    BY <2>2 DEF TurnRecord
  <2>4. held[t] = None
    BY <2>1 DEF Sound, TypeOK
  <2> QED
    BY <2>3, <2>4 DEF Sound, TypeOK
<1>2. /\ pending' = [pending EXCEPT ![s] = IF offers THEN Tail(q) ELSE q]
      /\ held' = IF offers THEN [held EXCEPT ![t] = Head(q)] ELSE held
      /\ UNCHANGED <<bound, saved, outlived, doubled>>
  BY DEF Replied, notes
<1>3. q = p \/ (q = Tail(p) /\ p # <<>>)
  OBVIOUS
<1>p. pending[s] = p
  OBVIOUS
<1> HIDE DEF s, p, q
<1>4. Rest(p, p, 0)
  <2>1. Len(p) \in Nat /\ \A i \in 1..Len(p) : i + 0 = i
    BY <1>1
  <2> QED
    BY <1>1, <2>1 DEF Rest
<1>5. \E m : Rest(q, p, m)
  <2>1. CASE q = p
    BY <1>4, <2>1
  <2>2. CASE q = Tail(p) /\ p # <<>>
    BY <1>1, <1>4, <2>2, RestOfRest
  <2> QED
    BY <1>3, <2>1, <2>2
<1>6. PICK m : Rest(q, p, m)
  BY <1>5
<1>7. CASE ~offers
  <2>1. pending' = [pending EXCEPT ![s] = q] /\ held' = held
    BY <1>2, <1>7
  <2>2. Takes(s, m)
    BY <1>2, <1>6, <1>p, <2>1 DEF Takes, Rest
  <2> QED
    BY <1>1, <2>2
<1>8. CASE offers
  <2>1. Rest(Tail(q), p, m + 1) /\ m + 1 # 0 /\ Head(q) = p[m + 1]
    BY <1>1, <1>6, <1>8, RestOfRest
  <2>2. pending' = [pending EXCEPT ![s] = Tail(q)] /\ held' = [held EXCEPT ![t] = Head(q)]
    BY <1>2, <1>8
  <2> PICK r : r = Tail(q)
    OBVIOUS
  <2> PICK n : n = m + 1
    OBVIOUS
  <2>3. /\ Rest(r, p, n) /\ n # 0 /\ pending' = [pending EXCEPT ![s] = r]
        /\ held' = [held EXCEPT ![t] = p[n]]
    BY <2>1, <2>2
  <2>4. Takes(s, n)
    BY <1>1, <1>2, <1>p, <2>3 DEF Takes, Rest
  <2> QED
    BY <1>1, <2>4
<1> QED
  BY <1>7, <1>8

LEMMA OfferingMoves ==
  ASSUME Sound, NEW t \in Turns, NEW bad,
         Replied(t, bad) \/ Prompted(t) \/ Bind(t) \/ OfferFails(t)
  PROVE  Moves
<1>1. /\ UNCHANGED <<turn, prefs, promised, facts>>
      /\ \A x \in Turns : x # t => pc'[x] = pc[x]
      /\ pc'[t] \notin Early
  BY DEF Replied, Prompted, Bind, OfferFails, Move, redis, Early, Sound, TypeOK
<1>2. \A x \in Turns : TurnGoes(x)
  BY <1>1 DEF TurnGoes
<1>3. DraftsMove
  <2>1. CASE Replied(t, bad)
    BY <2>1, RepliedTakes DEF DraftsMove
  <2>2. CASE Prompted(t)
    BY <2>2 DEF Prompted, redis, notes, DraftsMove
  <2>3. CASE Bind(t)
    <3>1. Binds(t)
      BY <2>3 DEF Bind, Stamped, Binds, notes, Sound, TypeOK
    <3> QED
      BY <3>1 DEF DraftsMove
  <2>4. CASE OfferFails(t)
    <3>1. Drops
      BY <2>4 DEF OfferFails, Drops, LetsGo, redis, notes, Sound, TypeOK
    <3> QED
      BY <3>1 DEF DraftsMove
  <2> QED
    BY <2>1, <2>2, <2>3, <2>4
<1> QED
  BY <1>1, <1>2, <1>3 DEF Moves, FactsMove, PromiseKept

LEMMA SettlingMoves ==
  ASSUME Sound,
         \/ \E t \in Turns : ExpireDraft(t) \/ \E u \in Users : React(t, u)
         \/ \E s \in Scopes : ExpirePending(s)
         \/ UNCHANGED vars
  PROVE  Moves
<1>1. UNCHANGED <<pc, turn, prefs, promised, facts>>
  BY DEF ExpireDraft, React, ExpirePending, vars, redis
<1>2. \A x \in Turns : TurnGoes(x)
  BY <1>1 DEF TurnGoes
<1>3. DraftsMove
  <2>1. ASSUME NEW t \in Turns, ExpireDraft(t)
        PROVE  Settles(t)
    BY <2>1 DEF ExpireDraft, Unbind, notes, Settles
  <2>2. ASSUME NEW t \in Turns, NEW u \in Users, React(t, u)
        PROVE  Settles(t)
    <3>1. bound[t] # None /\ (SaveNote(t, u) => Annotates(t))
      BY <2>2, NoteFacts DEF React, Annotates
    <3> QED
      BY <2>2, <3>1 DEF React, Unbind, Settles
  <2>3. ASSUME NEW s \in Scopes, ExpirePending(s)
        PROVE  Takes(s, Len(pending[s]))
    <3>1. <<>> \in Seq(Draft) /\ Len(<<>>) = 0 /\ Len(pending[s]) \in Nat
      BY DEF Sound, TypeOK
    <3>2. pending' = [pending EXCEPT ![s] = <<>>]
      BY <2>3 DEF ExpirePending
    <3>3. UNCHANGED <<held, bound, saved, outlived, doubled>>
      BY <2>3 DEF ExpirePending, notes
    <3>4. \A i \in 1..Len(<<>>) : FALSE
      BY <3>1
    <3>5. Len(pending[s]) \in 0..Len(pending[s])
      BY <3>1
    <3> PICK q \in Seq(Draft) : q = <<>>
      BY <3>1
    <3>6. /\ pending' = [pending EXCEPT ![s] = q]
          /\ \A i \in 1..Len(q) : FALSE
      BY <3>2, <3>4
    <3> QED
      BY <3>3, <3>5, <3>6 DEF Takes
  <2>4. CASE UNCHANGED vars
    BY <2>4 DEF vars, redis, notes, DraftsMove
  <2> QED
    BY <2>1, <2>2, <2>3, <2>4 DEF DraftsMove
<1> QED
  BY <1>1, <1>2, <1>3 DEF Moves, FactsMove, PromiseKept

LEMMA CutShortMoves ==
  ASSUME Sound, NEW t \in Turns, NEW u \in Users, ReactCutShort(t, u)
  PROVE  Moves
<1>1. UNCHANGED <<turn, prefs, promised, facts, pending, bound, doubled>>
  BY DEF ReactCutShort, redis
<1>2. /\ \A x \in Turns : pc'[x] \in {pc[x], "done"}
      /\ LetsGo
  BY DEF ReactCutShort, Stop, LetsGo
<1>3. \A x \in Turns : TurnGoes(x)
  BY <1>1, <1>2 DEF TurnGoes, Early
<1>4. Outlives(t)
  <2>1. bound[t] # None /\ Annotates(t)
    BY NoteFacts DEF ReactCutShort, Annotates
  <2> QED
    BY <1>1, <1>2, <2>1 DEF ReactCutShort, Outlives
<1> QED
  BY <1>1, <1>3, <1>4 DEF Moves, DraftsMove, FactsMove, PromiseKept

LEMMA CommandMoves ==
  ASSUME Sound, NEW u \in Users, SlashCommand(u)
  PROVE  Moves
<1>1. /\ UNCHANGED <<pc, turn, pending, held, bound, saved, outlived, doubled>>
      /\ facts' \subseteq facts
  BY DEF SlashCommand, Forget, ForgetFacts, Setpref, Govern, notes
<1>2. \A x \in Turns : TurnGoes(x)
  BY <1>1 DEF TurnGoes
<1>3. ASSUME \A x \in Users : PromiseKept(x), NEW x \in Users
      PROVE  promised'[x] => prefs'[x]["do_not_log"] = "1"
  <2>0. "do_not_log" \in PrefKeys
    BY DEF PrefKeys
  <2>1. CASE UNCHANGED <<prefs, promised>>
    BY <1>3, <2>1 DEF PromiseKept
  <2>2. CASE /\ prefs' = [prefs EXCEPT ![u] = [k \in PrefKeys |-> "unset"]]
             /\ promised' = [promised EXCEPT ![u] = FALSE]
    BY <1>3, <2>2 DEF PromiseKept, Sound, TypeOK
  <2>3. ASSUME NEW key \in PrefKeys, NEW v \in {"1", "unset"},
               prefs' = [prefs EXCEPT ![u][key] = v],
               promised' = IF key # "do_not_log" THEN promised
                           ELSE [promised EXCEPT ![u] = v # "unset"]
        PROVE  promised'[x] => prefs'[x]["do_not_log"] = "1"
    <3>1. CASE x # u
      BY <1>3, <2>3, <3>1 DEF PromiseKept, Sound, TypeOK
    <3>2. CASE x = u /\ key # "do_not_log"
      BY <1>3, <2>0, <2>3, <3>2 DEF PromiseKept, Sound, TypeOK
    <3>3. CASE x = u /\ key = "do_not_log"
      <4>1. prefs'[x]["do_not_log"] = v
        BY <2>0, <2>3, <3>3 DEF Sound, TypeOK
      <4>2. promised'[x] = (v # "unset")
        BY <2>3, <3>3 DEF Sound, TypeOK
      <4> QED
        BY <2>3, <4>1, <4>2
    <3> QED
      BY <3>1, <3>2, <3>3
  <2>4. ASSUME NEW s, NEW what, Forget(u, s, what)
        PROVE  promised'[x] => prefs'[x]["do_not_log"] = "1"
    BY <2>1, <2>2, <2>4 DEF Forget
  <2>5. ASSUME NEW key \in PrefKeys, NEW value, Setpref(u, key, value)
        PROVE  promised'[x] => prefs'[x]["do_not_log"] = "1"
    <3> PICK v : v = Normal(value)
      OBVIOUS
    <3>1. v = "refused" \/ v \in {"1", "unset"}
      BY DEF Normal
    <3>2. CASE v = "refused"
      BY <2>1, <2>5, <3>2 DEF Setpref
    <3>3. CASE v # "refused"
      BY <2>3, <2>5, <3>1, <3>3 DEF Setpref
    <3> QED
      BY <3>2, <3>3
  <2>6. ASSUME NEW target, Govern(u, target)
        PROVE  promised'[x] => prefs'[x]["do_not_log"] = "1"
    BY <2>1, <2>6 DEF Govern
  <2> QED
    BY <2>4, <2>5, <2>6 DEF SlashCommand
<1> QED
  BY <1>1, <1>2, <1>3 DEF Moves, DraftsMove, FactsMove, PromiseKept

LEMMA StepMoves ==
  ASSUME Sound, [Next]_vars
  PROVE  Moves
<1>1. ASSUME NEW t \in Turns, NEW m \in Messages, NEW u \in Users, NEW s \in Scopes,
             NEW gain \in 0..1, NEW bad,
             \/ Refuse(t, u, s, m, bad, gain) \/ BeginFails(t, u, s, m, bad, gain)
             \/ Begin(t, u, s, m, bad, gain) \/ Onboard(t, u, s, m, bad, gain)
      PROVE  Moves
  BY <1>1, BeginningMoves
<1>2. ASSUME NEW t \in Turns, NEW bad,
             Recalled(t, bad) \/ LlmReplies(t, bad) \/ LlmFails(t)
      PROVE  Moves
  BY <1>2, AnsweringMoves
<1>3. ASSUME NEW t \in Turns, NEW bad,
             Replied(t, bad) \/ Prompted(t) \/ Bind(t) \/ OfferFails(t)
      PROVE  Moves
  BY <1>3, OfferingMoves
<1>4. CASE \/ \E t \in Turns : ExpireDraft(t) \/ \E u \in Users : React(t, u)
           \/ \E s \in Scopes : ExpirePending(s)
           \/ UNCHANGED vars
  BY <1>4, SettlingMoves
<1>5. CASE \E u \in Users : SlashCommand(u)
  BY <1>5, CommandMoves
<1>6. CASE Restart
  <2>1. UNCHANGED <<turn, prefs, promised, facts, pending, bound, saved, outlived,
                    doubled>>
    BY <1>6 DEF Restart, redis, notes
  <2>2. /\ LetsGo
        /\ \A t \in Turns : pc'[t] \in {pc[t], "done"}
    BY <1>6 DEF Restart, Stop, LetsGo
  <2>3. \A t \in Turns : TurnGoes(t)
    BY <2>1, <2>2 DEF TurnGoes, Early
  <2>4. Drops
    BY <2>1, <2>2 DEF Drops
  <2> QED
    BY <2>1, <2>3, <2>4 DEF Moves, DraftsMove, FactsMove, PromiseKept
<1>7. CASE \E t \in Turns, u \in Users : ReactCutShort(t, u)
  BY <1>7, CutShortMoves
<1> QED
  BY <1>1, <1>2, <1>3, <1>4, <1>5, <1>6, <1>7 DEF Next

-----------------------------------------------------------------------------
(* Consent, and the provenance of drafts.                                  *)

FactsOK == \A f \in facts : turn[f.turn] # None /\ ~turn[f.turn].optedOut

\* Who was told that nothing is kept had opted out when the turn began.
ToldOK == \A t \in Turns : turn[t] # None /\ turn[t].told => turn[t].optedOut

Provenance == OwnDrafts /\ FactsOK /\ ToldOK /\ \A u \in Users : PromiseKept(u)

\* What an answer adds to the queue of its scope.
LEMMA QueuedFacts ==
  ASSUME Sound, NEW t \in Turns, NEW tr \in TurnRecord, NEW new,
         Queues(t, tr, new), NEW s \in Scopes, NEW i \in 1..Len(pending'[s])
  PROVE  /\ pending'[s][i] # None
         /\ \/ i \in 1..Len(pending[s]) /\ pending'[s][i] = pending[s][i]
            \/ /\ s = tr.scope /\ i \notin 1..Len(pending[s]) /\ ~tr.optedOut
               /\ pending'[s][i].turn = t /\ pending'[s][i].by = tr.user
               /\ pending'[s][i].name = tr.viewer.name
               /\ t \notin doubled' => pending'[s][i].k = i - Len(pending[s])
<1> PICK q : q = pending[s]
  OBVIOUS
<1>1. /\ q \in Seq(Draft) /\ new \in Seq(Draft) /\ tr.scope \in Scopes
      /\ Len(new) \in Nat /\ Len(q) \in Nat
  BY DEF Queues, NewDrafts, Sound, TypeOK, TurnRecord
<1>2. /\ new # <<>> => ~tr.optedOut
      /\ \A k \in 1..Len(new) :
           /\ new[k].turn = t /\ new[k].by = tr.user /\ new[k].name = tr.viewer.name
           /\ t \notin doubled' => new[k].k = k
  BY DEF Queues, NewDrafts
<1>3. pending' = [pending EXCEPT ![tr.scope] = @ \o new]
  BY DEF Queues, NewDrafts
<1>4. CASE s # tr.scope
  <2>1. pending'[s] = q
    BY <1>3, <1>4 DEF Sound, TypeOK
  <2>2. q[i] \in Draft
    BY <1>1, <2>1
  <2> QED
    BY <2>1, <2>2, NoneAssumption
<1>5. CASE s = tr.scope
  <2>1. pending'[s] = q \o new
    BY <1>3, <1>5 DEF Sound, TypeOK
  <2>2. i \in 1..(Len(q) + Len(new))
    BY <1>1, <2>1
  <2>3. CASE i \in 1..Len(q)
    <3>1. pending'[s][i] = q[i] /\ q[i] \in Draft
      BY <1>1, <2>1, <2>3
    <3> QED
      BY <2>3, <3>1, NoneAssumption
  <2>4. CASE i \notin 1..Len(q)
    <3> PICK k : k = i - Len(q)
      OBVIOUS
    <3>1. k \in 1..Len(new) /\ new # <<>>
      BY <1>1, <2>2, <2>4
    <3>2. (q \o new)[i] = new[k] /\ new[k] \in Draft
      BY <1>1, <2>2, <2>4, <3>1
    <3>3. pending'[s][i] = new[k] /\ new[k] # None /\ ~tr.optedOut
      BY <1>2, <2>1, <3>1, <3>2, NoneAssumption
    <3>4. /\ new[k].turn = t /\ new[k].by = tr.user /\ new[k].name = tr.viewer.name
          /\ t \notin doubled' => new[k].k = i - Len(q)
      BY <1>2, <3>1
    <3> QED
      BY <1>5, <2>4, <3>3, <3>4
  <2> QED
    BY <2>3, <2>4
<1> QED
  BY <1>4, <1>5

\* What is left of the queues when the first ones of a scope are taken.
LEMMA TakenFacts ==
  ASSUME Sound, NEW s \in Scopes, NEW n, Takes(s, n)
  PROVE  /\ \A x \in Scopes : \A i \in 1..Len(pending'[x]) :
              \E j \in 1..Len(pending[x]) :
                /\ pending'[x][i] = pending[x][j]
                /\ x = s => j = i + n
                /\ x # s => j = i
         /\ \A x \in Turns :
              \/ held'[x] = held[x]
              \/ /\ n \in 1..Len(pending[s]) /\ held'[x] = pending[s][n]
                 /\ \A y \in Turns \ {x} : held'[y] = held[y]
<1> PICK q \in Seq(Draft) :
       /\ pending' = [pending EXCEPT ![s] = q]
       /\ \A i \in 1..Len(q) : i + n \in 1..Len(pending[s]) /\ q[i] = pending[s][i + n]
  BY DEF Takes
<1>1. ASSUME NEW x \in Scopes, NEW i \in 1..Len(pending'[x])
      PROVE  \E j \in 1..Len(pending[x]) :
               /\ pending'[x][i] = pending[x][j]
               /\ x = s => j = i + n
               /\ x # s => j = i
  <2>1. CASE x = s
    <3>1. pending'[x] = q
      BY <2>1 DEF Sound, TypeOK
    <3> QED
      BY <1>1, <2>1, <3>1
  <2>2. CASE x # s
    BY <1>1, <2>2 DEF Sound, TypeOK
  <2> QED
    BY <2>1, <2>2
<1>2. ASSUME NEW x \in Turns
      PROVE  \/ held'[x] = held[x]
             \/ /\ n \in 1..Len(pending[s]) /\ held'[x] = pending[s][n]
                /\ \A y \in Turns \ {x} : held'[y] = held[y]
  <2>1. n \in 0..Len(pending[s]) /\ Len(pending[s]) \in Nat
    BY DEF Takes, Sound, TypeOK
  <2>2. n # 0 => n \in 1..Len(pending[s])
    BY <2>1
  <2>3. \/ UNCHANGED held
        \/ \E t \in Turns : n # 0 /\ held' = [held EXCEPT ![t] = pending[s][n]]
    BY DEF Takes
  <2> QED
    BY <2>2, <2>3 DEF Sound, TypeOK
<1> QED
  BY <1>1, <1>2

LEMMA ProvenanceKept ==
  ASSUME Sound, Sound', Moves, Provenance
  PROVE  Provenance'
<1>1. \A t \in Turns : TurnGoes(t)
  BY DEF Moves
<1>2. \A u \in Users : PromiseKept(u)'
  BY DEF Moves, Provenance
<1>3. ToldOK'
  <2> SUFFICES ASSUME NEW t \in Turns, turn'[t] # None, turn'[t].told
               PROVE  turn'[t].optedOut
    BY DEF ToldOK
  <2>1. CASE turn[t] # None
    BY <1>1, <2>1 DEF TurnGoes, Provenance, ToldOK
  <2>2. CASE turn[t] = None
    BY <1>1, <2>2 DEF TurnGoes, Provenance, PromiseKept
  <2> QED
    BY <2>1, <2>2
<1>4. FactsOK'
  <2> SUFFICES ASSUME NEW f \in facts'
               PROVE  turn'[f.turn] # None /\ ~turn'[f.turn].optedOut
    BY DEF FactsOK
  <2>1. CASE f \in facts
    <3>1. f.turn \in Turns /\ turn[f.turn] # None /\ ~turn[f.turn].optedOut
      BY <2>1 DEF Sound, TypeOK, Provenance, FactsOK
    <3> QED
      BY <1>1, <3>1 DEF TurnGoes
  <2>2. CASE f \notin facts
    BY <2>2 DEF Moves, FactsMove
  <2> QED
    BY <2>1, <2>2
<1>5. ASSUME NEW d \in Draft, Own(d)
      PROVE  Own(d)'
  <2>1. d.turn \in Turns
    BY DEF Draft
  <2>2. turn'[d.turn] = turn[d.turn] /\ pc'[d.turn] \notin Early
    BY <1>1, <1>5, <2>1 DEF TurnGoes, Own
  <2> QED
    BY <1>5, <2>2 DEF Own
<1>6. /\ \A s \in Scopes : \A i \in 1..Len(pending[s]) :
           pending[s][i] \in Draft /\ Own(pending[s][i])
      /\ \A t \in Turns : held[t] # None => held[t] \in Draft /\ Own(held[t])
      /\ \A t \in Turns : bound[t] # None => bound[t] \in Draft /\ Own(bound[t])
      /\ \A e \in saved : e.draft \in Draft /\ Own(e.draft) /\ e.by = e.draft.by
  BY DEF Provenance, OwnDrafts, Sound, TypeOK, Note
<1>7. OwnDrafts'
  <2>1. CASE UNCHANGED <<pending, held, bound, saved>>
    BY <1>5, <1>6, <2>1 DEF OwnDrafts
  <2>2. ASSUME NEW t \in Turns, NEW tr \in TurnRecord, NEW new, Queues(t, tr, new)
        PROVE  OwnDrafts'
    <3>1. ASSUME NEW s \in Scopes, NEW i \in 1..Len(pending'[s])
          PROVE  Own(pending[s][i])'
      <4>1. CASE i \in 1..Len(pending[s]) /\ pending'[s][i] = pending[s][i]
        <5> PICK d : d = pending[s][i]
          OBVIOUS
        <5>1. Own(d)'
          BY <1>5, <1>6, <4>1
        <5> QED
          BY <4>1, <5>1 DEF Own
      <4>2. CASE /\ pending'[s][i].turn = t /\ pending'[s][i].by = tr.user
                 /\ pending'[s][i].name = tr.viewer.name /\ ~tr.optedOut
        <5>1. /\ turn'[t] = tr /\ tr # None /\ ~tr.optedOut
              /\ pc'[t] \notin Early
          BY <2>2, <4>2 DEF Queues
        <5> QED
          BY <4>2, <5>1 DEF Own
      <4> QED
        BY <2>2, <3>1, <4>1, <4>2, QueuedFacts, SMTT(30)
    <3>2. UNCHANGED <<held, bound, saved>>
      BY <2>2 DEF Queues
    <3> QED
      BY <1>5, <1>6, <3>1, <3>2 DEF OwnDrafts
  <2>3. ASSUME NEW s \in Scopes, NEW n, Takes(s, n)
        PROVE  OwnDrafts'
    <3>1. ASSUME NEW x \in Scopes, NEW i \in 1..Len(pending'[x])
          PROVE  Own(pending[x][i])'
      <4> PICK d : d = pending'[x][i]
        OBVIOUS
      <4>1. \E j \in 1..Len(pending[x]) : d = pending[x][j]
        BY <2>3, <3>1, TakenFacts
      <4>2. Own(d)'
        BY <1>5, <1>6, <4>1
      <4> QED
        BY <4>2 DEF Own
    <3>2. ASSUME NEW x \in Turns, held'[x] # None
          PROVE  Own(held[x])'
      <4> PICK d : d = held'[x]
        OBVIOUS
      <4>0. \/ d = held[x]
            \/ \E i \in 1..Len(pending[s]) : d = pending[s][i]
        BY <2>3, TakenFacts
      <4>1. d \in Draft /\ Own(d)
        BY <1>6, <3>2, <4>0
      <4>2. Own(d)'
        BY <1>5, <4>1
      <4> QED
        BY <4>2 DEF Own
    <3>3. UNCHANGED <<bound, saved>>
      BY <2>3 DEF Takes
    <3> QED
      BY <1>5, <1>6, <3>1, <3>2, <3>3 DEF OwnDrafts
  <2>4. ASSUME NEW t \in Turns, Binds(t)
        PROVE  OwnDrafts'
    <3>1. ASSUME NEW x \in Turns, bound'[x] # None
          PROVE  Own(bound[x])'
      <4> PICK d : d = bound'[x]
        OBVIOUS
      <4>1. d \in Draft /\ Own(d)
        BY <1>6, <2>4, <3>1 DEF Binds, Sound, TypeOK
      <4>2. Own(d)'
        BY <1>5, <4>1
      <4> QED
        BY <4>2 DEF Own
    <3>2. ASSUME NEW x \in Turns, held'[x] # None
          PROVE  held'[x] = held[x]
      BY <2>4, <3>2 DEF Binds, Sound, TypeOK
    <3> QED
      BY <1>5, <1>6, <2>4, <3>1, <3>2 DEF Binds, OwnDrafts
  <2>5. CASE Drops
    BY <1>5, <1>6, <2>5 DEF Drops, LetsGo, OwnDrafts
  <2>6. ASSUME NEW t \in Turns, bound[t] # None, Annotates(t) \/ UNCHANGED saved,
               NEW e \in saved'
        PROVE  Own(e.draft)' /\ e.by = e.draft.by
    <3> PICK d : d = e.draft
      OBVIOUS
    <3>1. d \in Draft /\ Own(d) /\ e.by = d.by
      BY <1>6, <2>6 DEF Annotates
    <3>2. Own(d)'
      BY <1>5, <3>1
    <3> QED
      BY <3>1, <3>2 DEF Own
  <2>7. ASSUME NEW t \in Turns, Settles(t)
        PROVE  OwnDrafts'
    <3>1. \A e \in saved' : Own(e.draft)' /\ e.by = e.draft.by
      BY <2>6, <2>7 DEF Settles
    <3>2. ASSUME NEW x \in Turns, bound'[x] # None
          PROVE  bound'[x] = bound[x]
      BY <2>7, <3>2 DEF Settles, Sound, TypeOK
    <3> QED
      BY <1>5, <1>6, <2>7, <3>1, <3>2 DEF Settles, OwnDrafts
  <2>8. ASSUME NEW t \in Turns, Outlives(t)
        PROVE  OwnDrafts'
    <3>1. \A e \in saved' : Own(e.draft)' /\ e.by = e.draft.by
      BY <2>6, <2>8 DEF Outlives
    <3> QED
      BY <1>5, <1>6, <2>8, <3>1 DEF Outlives, LetsGo, OwnDrafts
  <2> QED
    BY <2>1, <2>2, <2>3, <2>4, <2>5, <2>7, <2>8 DEF Moves, DraftsMove
<1> QED
  BY <1>2, <1>3, <1>4, <1>7 DEF Provenance

LEMMA OnePlace ==
  ASSUME Apart, NEW s1 \in Scopes, NEW s2 \in Scopes,
         NEW i \in 1..Len(pending[s1]), NEW j \in 1..Len(pending[s2]),
         pending[s1][i] = pending[s2][j], Single(pending[s1][i])
  PROVE  s1 = s2 /\ i = j
BY DEF Apart

LEMMA QueuedApart ==
  ASSUME Sound, Provenance, Apart,
         NEW t \in Turns, NEW tr \in TurnRecord, NEW new, Queues(t, tr, new)
  PROVE  Apart'
<1>1. /\ UNCHANGED <<held, bound, saved, outlived>> /\ pc[t] \in Early
      /\ \A s \in Scopes : Len(pending[s]) \in Nat
      /\ doubled \subseteq doubled'
  BY DEF Queues, NewDrafts, Sound, TypeOK
<1>2. ASSUME NEW d, Own(d)
      PROVE  d.turn # t
  BY <1>1, <1>2 DEF Own
<1>3. /\ \A s \in Scopes : \A i \in 1..Len(pending[s]) : pending[s][i].turn # t
      /\ \A x \in Turns : held[x] # None => held[x].turn # t
      /\ \A x \in Turns : bound[x] # None => bound[x].turn # t
      /\ \A e \in saved : e.draft.turn # t
  BY <1>2 DEF Provenance, OwnDrafts
<1>4. ASSUME NEW s \in Scopes, NEW i \in 1..Len(pending'[s])
      PROVE  /\ pending'[s][i] # None
             /\ \/ i \in 1..Len(pending[s]) /\ pending'[s][i] = pending[s][i]
                \/ /\ s = tr.scope /\ pending'[s][i].turn = t
                   /\ t \notin doubled' => pending'[s][i].k = i - Len(pending[s])
  BY <1>4, QueuedFacts, SMTT(30)
<1>5. ASSUME NEW s1 \in Scopes, NEW s2 \in Scopes,
             NEW i \in 1..Len(pending'[s1]), NEW j \in 1..Len(pending'[s2]),
             pending'[s1][i] = pending'[s2][j], Single(pending[s1][i])'
      PROVE  s1 = s2 /\ i = j
  <2>1. CASE /\ i \in 1..Len(pending[s1]) /\ pending'[s1][i] = pending[s1][i]
             /\ j \in 1..Len(pending[s2]) /\ pending'[s2][j] = pending[s2][j]
    <3>1. pending[s1][i] = pending[s2][j] /\ Single(pending[s1][i])
      BY <1>1, <1>5, <2>1 DEF Single
    <3> QED
      BY <2>1, <3>1, OnePlace
  <2>2. CASE pending'[s1][i].turn = t
    <3>0. t \notin doubled'
      BY <1>5, <2>2 DEF Single
    <3>1. s1 = tr.scope /\ pending'[s1][i].k = i - Len(pending[s1])
      BY <1>3, <1>4, <2>2, <3>0
    <3>2. s2 = tr.scope /\ pending'[s2][j].k = j - Len(pending[s2])
      BY <1>3, <1>4, <1>5, <2>2, <3>0
    <3>3. i \in Nat /\ j \in Nat /\ s1 = s2 /\ i - Len(pending[s1]) = j - Len(pending[s1])
      BY <1>5, <3>1, <3>2
    <3> QED
      BY <1>1, <3>3
  <2> QED
    BY <1>4, <1>5, <2>1, <2>2
<1>6. ASSUME NEW s \in Scopes, NEW i \in 1..Len(pending'[s]), Single(pending[s][i])'
      PROVE  /\ \A x \in Turns : held[x] # pending'[s][i] /\ bound[x] # pending'[s][i]
             /\ \A e \in saved : e.draft # pending'[s][i]
  <2>1. CASE i \in 1..Len(pending[s]) /\ pending'[s][i] = pending[s][i]
    <3>1. Single(pending[s][i])
      BY <1>1, <1>6, <2>1 DEF Single
    <3> QED
      BY <2>1, <3>1 DEF Apart
  <2>2. CASE pending'[s][i].turn = t
    BY <1>3, <1>4, <2>2
  <2> QED
    BY <1>4, <2>1, <2>2
<1>7. /\ \A d : d.turn \notin doubled' => Single(d)
      /\ \A d : Single(d)' <=> d.turn \notin doubled'
  BY <1>1 DEF Single
<1> QED
  BY <1>1, <1>5, <1>6, <1>7 DEF Apart, Single

LEMMA TakenApart ==
  ASSUME Sound, Apart, NEW s \in Scopes, NEW n, Takes(s, n)
  PROVE  Apart'
<1>1. UNCHANGED <<bound, saved, outlived, doubled>> /\ n \in 0..Len(pending[s])
  BY DEF Takes
<1>2. /\ \A x \in Scopes : \A i \in 1..Len(pending'[x]) :
           \E j \in 1..Len(pending[x]) :
             /\ pending'[x][i] = pending[x][j]
             /\ x = s => j = i + n
             /\ x # s => j = i
      /\ \A x \in Turns :
           \/ held'[x] = held[x]
           \/ /\ n \in 1..Len(pending[s]) /\ held'[x] = pending[s][n]
              /\ \A y \in Turns \ {x} : held'[y] = held[y]
  BY TakenFacts
<1>3. \A d : Single(d)' <=> Single(d)
  BY <1>1 DEF Single
<1>4. ASSUME NEW s1 \in Scopes, NEW s2 \in Scopes,
             NEW i \in 1..Len(pending'[s1]), NEW j \in 1..Len(pending'[s2]),
             pending'[s1][i] = pending'[s2][j], pending'[s1][i].turn \notin doubled
      PROVE  s1 = s2 /\ i = j
  <2>1. PICK k \in 1..Len(pending[s1]) :
          /\ pending'[s1][i] = pending[s1][k] /\ (s1 = s => k = i + n)
          /\ (s1 # s => k = i)
    BY <1>2, <1>4
  <2>2. PICK l \in 1..Len(pending[s2]) :
          /\ pending'[s2][j] = pending[s2][l] /\ (s2 = s => l = j + n)
          /\ (s2 # s => l = j)
    BY <1>2, <1>4
  <2>3. s1 = s2 /\ k = l
    <3>1. pending[s1][k] = pending[s2][l] /\ Single(pending[s1][k])
      BY <1>4, <2>1, <2>2 DEF Single
    <3> QED
      BY <3>1, OnePlace
  <2>4. i \in Int /\ j \in Int /\ n \in Int
    BY <1>1, <1>4
  <2> QED
    BY <2>1, <2>2, <2>3, <2>4
<1>5. ASSUME NEW x \in Scopes, NEW i \in 1..Len(pending'[x]), NEW e \in saved,
             pending'[x][i].turn \notin doubled
      PROVE  e.draft # pending'[x][i]
  BY <1>2, <1>5 DEF Apart, Single
<1>6. ASSUME NEW x \in Scopes, NEW i \in 1..Len(pending'[x]), NEW y \in Turns,
             pending'[x][i].turn \notin doubled
      PROVE  held'[y] # pending'[x][i] /\ bound[y] # pending'[x][i]
  <2>1. PICK j \in 1..Len(pending[x]) :
          pending'[x][i] = pending[x][j] /\ (x = s => j = i + n)
    BY <1>2, <1>6
  <2>2. bound[y] # pending[x][j] /\ held[y] # pending[x][j]
    BY <1>6, <2>1 DEF Apart, Single
  <2>3. ASSUME n \in 1..Len(pending[s])
        PROVE  pending[s][n] # pending[x][j]
    <3>1. i \in Int /\ i > 0 /\ n \in Int
      BY <1>6, <2>3
    <3>2. ASSUME pending[s][n] = pending[x][j]
          PROVE  FALSE
      <4>1. Single(pending[s][n])
        BY <1>6, <2>1, <3>2 DEF Single
      <4>2. s = x /\ n = j
        BY <2>3, <3>2, <4>1, OnePlace
      <4> QED
        BY <2>1, <3>1, <4>2
    <3> QED
      BY <3>2
  <2> QED
    BY <1>2, <2>1, <2>2, <2>3
<1>7. ASSUME NEW t1 \in Turns, NEW t2 \in Turns, held'[t1] # None,
             held'[t1].turn \notin doubled
      PROVE  held'[t1] # bound[t2] /\ (held'[t1] = held'[t2] => t1 = t2)
  <2>1. CASE n \in 1..Len(pending[s]) /\ held'[t1] = pending[s][n]
    <3>1. \A x \in Turns : held[x] # held'[t1] /\ bound[x] # held'[t1]
      BY <1>7, <2>1 DEF Apart, Single
    <3>2. t1 # t2 => held'[t2] = held[t2]
      BY <1>2, <3>1
    <3> QED
      BY <3>1, <3>2
  <2>2. CASE held'[t1] = held[t1]
    <3>1. CASE held'[t2] = held[t2]
      BY <1>7, <2>2, <3>1 DEF Apart, Single
    <3>2. CASE n \in 1..Len(pending[s]) /\ held'[t2] = pending[s][n]
      <4>1. held[t1] # bound[t2]
        BY <1>7, <2>2 DEF Apart, Single
      <4>2. held[t1] # pending[s][n]
        BY <1>7, <2>2, <3>2 DEF Apart, Single
      <4> QED
        BY <2>2, <3>2, <4>1, <4>2
    <3> QED
      BY <1>2, <3>1, <3>2
  <2> QED
    BY <1>2, <2>1, <2>2
<1>8. ASSUME NEW e \in saved, NEW x \in Turns, e.draft.turn \notin doubled
      PROVE  e.draft # held'[x] /\ (e.draft = bound[x] => e.draft \in outlived)
  <2>1. e.draft # held[x] /\ (e.draft = bound[x] => e.draft \in outlived)
    BY <1>8 DEF Apart, Single
  <2>2. n \in 1..Len(pending[s]) => e.draft # pending[s][n]
    BY <1>8 DEF Apart, Single
  <2> QED
    BY <1>2, <2>1, <2>2
<1>9. /\ \A t1, t2 \in Turns :
           bound[t1] # None /\ bound[t1] = bound[t2] /\ Single(bound[t1]) => t1 = t2
      /\ \A e1, e2 \in saved :
           e1.draft = e2.draft /\ Single(e1.draft) => e1 = e2 \/ e1.draft \in outlived
      /\ \A d \in outlived : \E e \in saved : e.draft = d
  BY DEF Apart
<1> QED
  BY <1>1, <1>4, <1>5, <1>6, <1>7, <1>8, <1>9 DEF Apart, Single

\* What a reaction's note adds: it is the only note of its draft, unless the
\* draft had outlived one.
LEMMA NotedApart ==
  ASSUME Sound, Apart, NEW t \in Turns, bound[t] # None,
         Annotates(t) \/ UNCHANGED saved
  PROVE  /\ \A e \in saved' : e \in saved \/ e.draft = bound[t]
         /\ saved \subseteq saved'
         /\ \A e1, e2 \in saved' :
              e1.draft = e2.draft /\ Single(e1.draft) => e1 = e2 \/ e1.draft \in outlived
<1>1. (\A e \in saved' : e \in saved \/ e.draft = bound[t]) /\ saved \subseteq saved'
  BY DEF Annotates
<1>2. ASSUME NEW e1 \in saved', NEW e2 \in saved', e1.draft = e2.draft,
             Single(e1.draft), e1 # e2
      PROVE  e1.draft \in outlived
  <2>1. CASE e1 \in saved /\ e2 \in saved
    BY <1>2, <2>1 DEF Apart
  <2>2. CASE e1 \notin saved \/ e2 \notin saved
    <3>1. PICK e : saved' = saved \cup {e} /\ e.draft = bound[t]
      BY <1>2, <2>2 DEF Annotates
    <3>2. \E x \in saved : x.draft = bound[t] /\ e1.draft = bound[t]
      BY <1>2, <2>2, <3>1
    <3> QED
      BY <1>2, <3>2 DEF Apart
  <2> QED
    BY <2>1, <2>2
<1> QED
  BY <1>1, <1>2

LEMMA MovedApart ==
  ASSUME Sound, Provenance, Apart, Moves
  PROVE  Apart'
<1>0. /\ \A s \in Scopes : \A i \in 1..Len(pending[s]) : pending[s][i] # None
      /\ \A e \in saved : e.draft # None
  BY NoneAssumption DEF Sound, TypeOK, Note
<1>1. CASE UNCHANGED <<pending, held, bound, saved, outlived, doubled>>
  BY <1>1 DEF Apart, Single
<1>2. ASSUME NEW t \in Turns, Binds(t)
      PROVE  Apart'
  <2>1. /\ UNCHANGED <<pending, saved, outlived, doubled>> /\ held[t] # None
        /\ bound'[t] = held[t] /\ held'[t] = None
        /\ \A x \in Turns : x # t => bound'[x] = bound[x] /\ held'[x] = held[x]
    BY <1>2 DEF Binds, Sound, TypeOK
  <2> QED
    BY <1>0, <2>1 DEF Apart, Single
<1>3. CASE Drops
  BY <1>0, <1>3 DEF Drops, LetsGo, Apart, Single
<1>4. ASSUME NEW t \in Turns, Settles(t)
      PROVE  Apart'
  <2>1. /\ UNCHANGED <<pending, held, outlived, doubled>>
        /\ bound[t] # None /\ bound'[t] = None
        /\ \A x \in Turns : x # t => bound'[x] = bound[x]
    BY <1>4 DEF Settles, Sound, TypeOK
  <2>2. /\ \A e \in saved' : e \in saved \/ e.draft = bound[t]
        /\ saved \subseteq saved'
        /\ \A e1, e2 \in saved' :
             e1.draft = e2.draft /\ Single(e1.draft) => e1 = e2 \/ e1.draft \in outlived
    BY <1>4, NotedApart DEF Settles
  <2>3. ASSUME NEW e \in saved', Single(e.draft)
        PROVE  /\ \A s \in Scopes : \A i \in 1..Len(pending[s]) : e.draft # pending[s][i]
               /\ \A x \in Turns : /\ e.draft # held[x]
                                   /\ e.draft = bound'[x] => e.draft \in outlived
    <3>1. CASE e \in saved
      BY <1>0, <2>1, <2>3, <3>1 DEF Apart, Single
    <3>2. CASE e.draft = bound[t]
      BY <2>1, <2>3, <3>2 DEF Apart, Single
    <3> QED
      BY <2>2, <3>1, <3>2
  <2> QED
    BY <1>0, <2>1, <2>2, <2>3 DEF Apart, Single
<1>5. ASSUME NEW t \in Turns, Outlives(t)
      PROVE  Apart'
  <2>1. /\ UNCHANGED <<pending, bound, doubled>> /\ bound[t] # None
        /\ outlived' = outlived \cup {bound[t]} /\ LetsGo /\ Annotates(t)
    BY <1>5 DEF Outlives
  <2>2. /\ \A e \in saved' : e \in saved \/ e.draft = bound[t]
        /\ saved \subseteq saved'
        /\ \A e1, e2 \in saved' :
             e1.draft = e2.draft /\ Single(e1.draft) => e1 = e2 \/ e1.draft \in outlived
    BY <2>1, NotedApart
  <2>3. \A e \in saved' : e.draft # None
    BY <1>0, <2>1, <2>2
  <2>4. ASSUME NEW e \in saved', Single(e.draft)
        PROVE  /\ \A s \in Scopes : \A i \in 1..Len(pending[s]) : e.draft # pending[s][i]
               /\ \A x \in Turns : /\ e.draft # held'[x]
                                   /\ e.draft = bound[x] => e.draft \in outlived'
    <3>1. CASE e \in saved
      BY <2>1, <2>3, <2>4, <3>1 DEF Apart, Single, LetsGo
    <3>2. CASE e.draft = bound[t]
      BY <2>1, <2>3, <2>4, <3>2 DEF Apart, Single, LetsGo
    <3> QED
      BY <2>2, <3>1, <3>2
  <2>5. \A d \in outlived' : \E e \in saved' : e.draft = d
    <3>1. \E e \in saved' : e.draft = bound[t]
      BY <2>1 DEF Annotates
    <3> QED
      BY <2>1, <2>2, <3>1 DEF Apart
  <2>6. ASSUME NEW t1 \in Turns, NEW t2 \in Turns, held'[t1] # None, Single(held'[t1])
        PROVE  held'[t1] # bound[t2] /\ (held'[t1] = held'[t2] => t1 = t2)
    BY <2>1, <2>6 DEF Apart, LetsGo
  <2>7. ASSUME NEW s \in Scopes, NEW i \in 1..Len(pending[s]), NEW x \in Turns,
               Single(pending[s][i])
        PROVE  held'[x] # pending[s][i] /\ bound[x] # pending[s][i]
    BY <1>0, <2>1, <2>7 DEF Apart, LetsGo
  <2>8. \A e1, e2 \in saved' : e1.draft = e2.draft /\ Single(e1.draft) =>
          e1 = e2 \/ e1.draft \in outlived'
    BY <2>1, <2>2
  <2> QED
    BY <2>1, <2>4, <2>5, <2>6, <2>7, <2>8 DEF Apart, Single
<1> QED
  BY <1>1, <1>2, <1>3, <1>4, <1>5, QueuedApart, TakenApart DEF Moves, DraftsMove

-----------------------------------------------------------------------------
Custody == Provenance /\ Apart

LEMMA InitCustody == Init => Custody
<1> SUFFICES ASSUME Init PROVE Custody
  OBVIOUS
<1>1. Len(<<>>) = 0
  OBVIOUS
<1>2. \A s \in Scopes : 1..Len(pending[s]) = {}
  BY <1>1 DEF Init
<1>3. OwnDrafts
  BY <1>2 DEF Init, OwnDrafts
<1>4. FactsOK /\ ToldOK /\ \A u \in Users : PromiseKept(u)
  BY DEF Init, FactsOK, ToldOK, PromiseKept
<1>5. Apart
  BY <1>2 DEF Init, Apart
<1> QED
  BY <1>3, <1>4, <1>5 DEF Custody, Provenance

LEMMA AlwaysCustody == Spec => []Custody
<1>1. ASSUME Sound, Sound', Custody, [Next]_vars
      PROVE  Custody'
  BY <1>1, StepMoves, ProvenanceKept, MovedApart DEF Custody
<1> QED
  BY <1>1, InitCustody, AlwaysSound, PTL DEF Spec

LEMMA LiveOwn ==
  ASSUME Sound, Custody, NEW d \in LiveDrafts \ {None}
  PROVE  /\ Own(d)
         /\ \/ \E s \in Scopes : \E i \in 1..Len(pending[s]) : d = pending[s][i]
            \/ \E t \in Turns : d = held[t]
            \/ \E t \in Turns : d = bound[t]
            \/ \E e \in saved : d = e.draft
<1>1. \/ \E s \in Scopes : \E i \in 1..Len(pending[s]) : d = pending[s][i]
      \/ \E t \in Turns : d = held[t]
      \/ \E t \in Turns : d = bound[t]
      \/ \E e \in saved : d = e.draft
  <2>1. \A s \in Scopes : DOMAIN pending[s] = 1..Len(pending[s])
    BY DEF Sound, TypeOK
  <2>2. DOMAIN held = Turns /\ DOMAIN bound = Turns
    BY DEF Sound, TypeOK
  <2>3. ASSUME NEW s \in Scopes, d \in Range(pending[s])
        PROVE  \E i \in 1..Len(pending[s]) : d = pending[s][i]
    BY <2>1, <2>3 DEF Range
  <2>4. ASSUME d \in Range(held)
        PROVE  \E t \in Turns : d = held[t]
    BY <2>2, <2>4 DEF Range
  <2>5. ASSUME d \in Range(bound)
        PROVE  \E t \in Turns : d = bound[t]
    BY <2>2, <2>5 DEF Range
  <2>6. \/ \E s \in Scopes : d \in Range(pending[s])
        \/ d \in Range(held) \/ d \in Range(bound)
        \/ \E e \in saved : d = e.draft
    <3>1. \/ d \in UNION {Range(pending[s]) : s \in Scopes}
          \/ d \in Range(held) \/ d \in Range(bound)
          \/ d \in {e.draft : e \in saved}
      BY Zenon DEF LiveDrafts
    <3>2. ASSUME d \in UNION {Range(pending[s]) : s \in Scopes}
          PROVE  \E s \in Scopes : d \in Range(pending[s])
      BY <3>2, Zenon
    <3>3. ASSUME d \in {e.draft : e \in saved}
          PROVE  \E e \in saved : d = e.draft
      BY <3>3, Zenon
    <3> QED
      BY <3>1, <3>2, <3>3, Zenon
  <2> QED
    BY <2>3, <2>4, <2>5, <2>6
<1>2. Own(d)
  BY <1>1 DEF Custody, Provenance, OwnDrafts
<1> QED
  BY <1>1, <1>2

\* Nothing is kept of a turn whose author had been told that nothing is kept:
\* no fact, and no draft in any of its places.
THEOREM ConsentIsKept == Spec => []ConsentKept
<1>1. ASSUME Sound, Custody
      PROVE  ConsentKept
  <2> SUFFICES ASSUME NEW t \in Turns, turn[t] # None, turn[t].told
               PROVE  /\ \A f \in facts : f.turn # t
                      /\ \A d \in LiveDrafts \ {None} : d.turn # t
    BY DEF ConsentKept
  <2>1. turn[t].optedOut
    BY <1>1 DEF Custody, Provenance, ToldOK
  <2>2. \A f \in facts : f.turn # t
    BY <1>1, <2>1 DEF Custody, Provenance, FactsOK
  <2>3. \A d \in LiveDrafts \ {None} : d.turn # t
    BY <1>1, <2>1, LiveOwn DEF Own
  <2> QED
    BY <2>2, <2>3
<1> QED
  BY <1>1, AlwaysSound, AlwaysCustody, PTL

\* Where a draft that is somewhere can be: once in one place, or wherever it was
\* bound when its note was written.
LEMMA SettledOnce ==
  ASSUME Sound, Custody, NEW d \in LiveDrafts \ {None}, Single(d)
  PROVE  \/ Offered(d) + Prompts(d) + Notes(d) = 1
         \/ d \in outlived /\ Offered(d) = 0 /\ Prompts(d) <= 1
<1> DEFINE A == {p \in Queued : pending[p[1]][p[2]] = d}
           B == {t \in Turns : held[t] = d}
           C == {t \in Turns : bound[t] = d}
           D == {e \in saved : e.draft = d}
<1>1. /\ Offered(d) = Cardinality(A) + Cardinality(B)
      /\ Prompts(d) = Cardinality(C) /\ Notes(d) = Cardinality(D)
  BY DEF Offered, Prompts, Notes
<1>2. Cardinality({}) = 0 /\ \A x : Cardinality({x}) = 1
  BY FS_EmptySet, FS_Singleton
<1>3. d # None /\ Apart
  BY DEF Custody
<1>4. \A p \in Queued : p[1] \in Scopes /\ p[2] \in 1..Len(pending[p[1]])
                        /\ p = <<p[1], p[2]>>
  BY DEF Queued
<1>5. \A s \in Scopes : \A i \in 1..Len(pending[s]) : <<s, i>> \in Queued
  BY DEF Queued
<1>6. ASSUME NEW s \in Scopes, NEW i \in 1..Len(pending[s]), d = pending[s][i]
      PROVE  A = {<<s, i>>} /\ B = {} /\ C = {} /\ D = {}
  <2>1. ASSUME NEW p \in A PROVE p = <<s, i>>
    <3>1. /\ p[1] \in Scopes /\ p[2] \in 1..Len(pending[p[1]]) /\ p = <<p[1], p[2]>>
          /\ pending[p[1]][p[2]] = pending[s][i] /\ Single(pending[p[1]][p[2]])
      BY <1>4, <1>6, <2>1
    <3>2. p[1] = s /\ p[2] = i
      BY <1>3, <3>1, OnePlace
    <3> QED
      BY <3>1, <3>2
  <2>2. <<s, i>> \in A
    BY <1>5, <1>6
  <2>3. A = {<<s, i>>}
    BY <2>1, <2>2
  <2>4. B = {} /\ C = {} /\ D = {}
    BY <1>3, <1>6 DEF Apart
  <2> QED
    BY <2>3, <2>4
<1>7. ASSUME \A s \in Scopes : \A i \in 1..Len(pending[s]) : d # pending[s][i]
      PROVE  A = {}
  BY <1>4, <1>7
<1>8. ASSUME NEW t \in Turns, d = held[t]
      PROVE  A = {} /\ B = {t} /\ C = {} /\ D = {}
  <2>1. \A s \in Scopes : \A i \in 1..Len(pending[s]) : d # pending[s][i]
    BY <1>3, <1>8 DEF Apart
  <2>2. B = {t} /\ C = {} /\ D = {}
    BY <1>3, <1>8 DEF Apart
  <2> QED
    BY <1>7, <2>1, <2>2
<1>9. ASSUME NEW t \in Turns, d = bound[t]
      PROVE  A = {} /\ B = {} /\ C = {t} /\ (D = {} \/ d \in outlived)
  <2>1. \A s \in Scopes : \A i \in 1..Len(pending[s]) : d # pending[s][i]
    BY <1>3, <1>9 DEF Apart
  <2>2. B = {} /\ C = {t} /\ (D = {} \/ d \in outlived)
    BY <1>3, <1>9 DEF Apart
  <2> QED
    BY <1>7, <2>1, <2>2
<1>10. ASSUME NEW e \in saved, d = e.draft
       PROVE  A = {} /\ B = {} /\ (d \in outlived \/ (C = {} /\ D = {e}))
  <2>1. \A s \in Scopes : \A i \in 1..Len(pending[s]) : d # pending[s][i]
    BY <1>3, <1>10 DEF Apart
  <2>2. B = {} /\ (d \in outlived \/ C = {})
    BY <1>3, <1>10 DEF Apart
  <2>3. d \in outlived \/ D = {e}
    BY <1>3, <1>10 DEF Apart
  <2> QED
    BY <1>7, <2>1, <2>2, <2>3
<1>11. CASE d \in outlived
  <2>1. PICK e \in saved : d = e.draft
    BY <1>3, <1>11 DEF Apart
  <2>2. A = {} /\ B = {}
    BY <1>10, <2>1
  <2>3. C = {} \/ \E t : C = {t}
    BY <1>9
  <2> HIDE DEF A, B, C, D
  <2>4. Cardinality(A) = 0 /\ Cardinality(B) = 0 /\ Cardinality(C) \in {0, 1}
    BY <1>2, <2>2, <2>3
  <2> QED
    BY <1>1, <1>11, <2>4
<1>12. CASE d \notin outlived
  <2>1. \/ \E s \in Scopes : \E i \in 1..Len(pending[s]) : d = pending[s][i]
        \/ \E t \in Turns : d = held[t]
        \/ \E t \in Turns : d = bound[t]
        \/ \E e \in saved : d = e.draft
    BY LiveOwn
  <2>2. \/ (\E p : A = {p}) /\ B = {} /\ C = {} /\ D = {}
        \/ A = {} /\ (\E t : B = {t}) /\ C = {} /\ D = {}
        \/ A = {} /\ B = {} /\ (\E t : C = {t}) /\ D = {}
        \/ A = {} /\ B = {} /\ C = {} /\ (\E e : D = {e})
    <3> HIDE DEF A, B, C, D
    <3>1. CASE \E s \in Scopes : \E i \in 1..Len(pending[s]) : d = pending[s][i]
      BY <1>6, <3>1
    <3>2. CASE \E t \in Turns : d = held[t]
      BY <1>8, <3>2
    <3>3. CASE \E t \in Turns : d = bound[t]
      BY <1>9, <1>12, <3>3
    <3>4. CASE \E e \in saved : d = e.draft
      BY <1>10, <1>12, <3>4
    <3> QED
      BY <2>1, <3>1, <3>2, <3>3, <3>4
  <2> HIDE DEF A, B, C, D
  <2>3. \/ Cardinality(A) = 1 /\ Cardinality(B) = 0 /\ Cardinality(C) = 0 /\ Cardinality(D) = 0
        \/ Cardinality(A) = 0 /\ Cardinality(B) = 1 /\ Cardinality(C) = 0 /\ Cardinality(D) = 0
        \/ Cardinality(A) = 0 /\ Cardinality(B) = 0 /\ Cardinality(C) = 1 /\ Cardinality(D) = 0
        \/ Cardinality(A) = 0 /\ Cardinality(B) = 0 /\ Cardinality(C) = 0 /\ Cardinality(D) = 1
    BY <1>2, <2>2
  <2> QED
    BY <1>1, <2>3
<1> QED
  BY <1>11, <1>12

\* A rating found in a message is queued once, held by one turn, bound to one
\* prompt or saved, and only its author saves it, for any number of turns,
\* users and scopes and every interleaving of replies, reactions and restarts.
\* One whose deletion did not follow its note stays with its one prompt, and
\* one that Redis queued twice carries its author's id and name all the same.
THEOREM DraftsAreSettledOnce == Spec => []DraftsSettleOnce
<1>1. ASSUME Sound, Custody
      PROVE  DraftsSettleOnce
  <2>1. ASSUME NEW d \in LiveDrafts \ {None}
        PROVE  d.by = turn[d.turn].user /\ d.name = turn[d.turn].viewer.name
    BY <1>1, LiveOwn DEF Own
  <2>2. ASSUME NEW d \in LiveDrafts \ {None}, d.turn \notin doubled
        PROVE  \/ Offered(d) + Prompts(d) + Notes(d) = 1
               \/ d \in outlived /\ Offered(d) = 0 /\ Prompts(d) <= 1
    BY <1>1, <2>2, SettledOnce DEF Single
  <2>3. \A e \in saved : e.by = e.draft.by
    BY <1>1 DEF Custody, Provenance, OwnDrafts
  <2> QED
    BY <2>1, <2>2, <2>3 DEF DraftsSettleOnce
<1> QED
  BY <1>1, AlwaysSound, AlwaysCustody, PTL
=============================================================================

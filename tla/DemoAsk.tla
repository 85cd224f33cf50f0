------------------------------- MODULE DemoAsk -------------------------------
(***************************************************************************)
(* POST /demo/ask in public demo mode: the per-address sliding window, the *)
(* daily token budget, the semaphore around Sauron, and the conversation   *)
(* threads of the in-process checkpointer.                                 *)
(*                                                                         *)
(* The handler runs on one asyncio loop, so everything between two awaits  *)
(* is one step: Arrive up to the wait for the semaphore, Enter up to the   *)
(* first await of sauron.run, and Reply or Fail from its end.              *)
(***************************************************************************)
EXTENDS Integers, Sequences, FiniteSets

CONSTANTS
  Requests, Addresses,
  Limit,          \* settings.demo_rate_limit_per_ip
  Window,         \* the limiter's window_s, in ticks
  MaxTracked,     \* _MAX_TRACKED_IPS
  Cap,            \* settings.demo_daily_token_cap
  WorstCase,      \* WORST_CASE_TOKENS
  MaxConcurrent,  \* MAX_CONCURRENT
  DayLength,      \* ticks in a UTC day
  MaxTime         \* bound: the clock

ASSUME DemoAssumption ==
  /\ Limit \in Nat \ {0} /\ Window \in Nat \ {0} /\ MaxTracked \in Nat
  /\ Cap \in Nat /\ WorstCase \in Nat /\ MaxConcurrent \in Nat \ {0}
  /\ DayLength \in Nat \ {0} /\ MaxTime \in Nat

VARIABLES
  now,
  hits,       \* address -> its deque in the limiter; <<>> when not tracked
  used,       \* the budget's counter
  day,        \* the day that counter is about
  pc,         \* request -> "new", "waiting", "running", "done"
  places,     \* free places of the semaphore
  waiters,    \* requests waiting for it, first come first served
  threads,    \* requests whose thread the checkpointer still has
  reply,      \* request -> "none", "answer", "limited", "spent", "error"
  allowed     \* bookkeeping: <<address, time, request>> the limiter let pass

vars == <<now, hits, used, day, pc, places, waiters, threads, reply, allowed>>

TypeOK ==
  /\ now \in 0..MaxTime
  /\ hits \in [Addresses -> Seq(0..MaxTime)]
  /\ used \in Nat /\ day \in Nat
  /\ pc \in [Requests -> {"new", "waiting", "running", "done"}]
  /\ places \in 0..MaxConcurrent
  /\ waiters \in Seq(Requests)
  /\ threads \subseteq Requests
  /\ reply \in [Requests -> {"none", "answer", "limited", "spent", "error"}]
  /\ allowed \subseteq Addresses \X (0..MaxTime) \X Requests

Init ==
  /\ now = 0
  /\ hits = [a \in Addresses |-> <<>>]
  /\ used = 0 /\ day = 0
  /\ pc = [r \in Requests |-> "new"]
  /\ places = MaxConcurrent
  /\ waiters = <<>>
  /\ threads = {}
  /\ reply = [r \in Requests |-> "none"]
  /\ allowed = {}

-----------------------------------------------------------------------------
(* SlidingWindowLimiter.allow                                              *)

\* The purge keeps an address whose last hit is in the window.
Purged(q) == IF q # <<>> /\ now - q[Len(q)] < Window THEN q ELSE <<>>

Tracked == IF Cardinality({a \in Addresses : hits[a] # <<>>}) > MaxTracked
           THEN [a \in Addresses |-> Purged(hits[a])] ELSE hits

\* The k oldest hits are out of a window of this width, and no more of them.
Expired(q, width, k) ==
  /\ \A i \in 1..k : now - q[i] >= width
  /\ k < Len(q) => now - q[k + 1] < width

\* popleft, while the oldest hit is out of the window.
DropExpired(q, width) ==
  LET k == CHOOSE k \in 0..Len(q) : Expired(q, width, k)
  IN SubSeq(q, k + 1, Len(q))

\* Variant: a hit leaves the window one tick early.
RecentEarly(q) == DropExpired(q, Window - 1)

Recent(q) == DropExpired(q, Window)

Full(a) == Len(Recent(Tracked[a])) >= Limit

\* The deque of a after the call; the hit is added iff it is allowed.
AfterAllow(a) ==
  hits' = [Tracked EXCEPT ![a] = IF Full(a) THEN Recent(@)
                                 ELSE Append(Recent(@), now)]

-----------------------------------------------------------------------------
(* TokenBudget: _roll is called by every access.                            *)

Today == now \div DayLength
Spent == IF day = Today THEN used ELSE 0
CanAfford == Spent + WorstCase <= Cap

\* Variant: the worst case is given back, though nobody reserved it.
ChargeRefund(tokens) ==
  /\ day' = Today
  /\ used' = IF tokens > 0 THEN Spent + tokens - WorstCase ELSE Spent

Charge(tokens) == day' = Today /\ used' = Spent + tokens

-----------------------------------------------------------------------------
Answer(r, what) ==
  /\ pc' = [pc EXCEPT ![r] = "done"]
  /\ reply' = [reply EXCEPT ![r] = what]

\* The limiter refuses.
Limited(r, a) ==
  /\ pc[r] = "new" /\ Full(a)
  /\ AfterAllow(a)
  /\ Answer(r, "limited")
  /\ UNCHANGED <<now, used, day, places, waiters, threads, allowed>>

\* The limiter lets the request pass, which counts as a hit, and the budget
\* refuses it.
Broke(r, a) ==
  /\ pc[r] = "new" /\ ~Full(a) /\ ~CanAfford
  /\ AfterAllow(a)
  /\ Charge(0)
  /\ allowed' = allowed \cup {<<a, now, r>>}
  /\ Answer(r, "spent")
  /\ UNCHANGED <<now, places, waiters, threads>>

\* Both let it pass: it waits for the semaphore, for no time when it is free.
Admit(r, a) ==
  /\ pc[r] = "new" /\ ~Full(a) /\ CanAfford
  /\ AfterAllow(a)
  /\ Charge(0)
  /\ allowed' = allowed \cup {<<a, now, r>>}
  /\ pc' = [pc EXCEPT ![r] = "waiting"]
  /\ waiters' = Append(waiters, r)
  /\ UNCHANGED <<now, places, threads, reply>>

\* async with rt.sem; sauron.run checkpoints the thread of the request.
Enter(r) ==
  /\ waiters # <<>> /\ r = Head(waiters)
  /\ places > 0
  /\ places' = places - 1
  /\ waiters' = Tail(waiters)
  /\ pc' = [pc EXCEPT ![r] = "running"]
  /\ threads' = threads \cup {r}
  /\ UNCHANGED <<now, hits, used, day, reply, allowed>>

\* sauron.run returns: the thread is deleted, the semaphore released, and
\* what the model reported is charged.
Reply(r, tokens) ==
  /\ pc[r] = "running"
  /\ threads' = threads \ {r}
  /\ Charge(tokens)
  /\ places' = places + 1
  /\ Answer(r, "answer")
  /\ UNCHANGED <<now, hits, waiters, allowed>>

\* Variants: the thread is deleted only after a good answer; a failed request
\* keeps its place in the semaphore.
FailKeepsThread(r) ==
  /\ pc[r] = "running"
  /\ places' = places + 1
  /\ Answer(r, "error")
  /\ UNCHANGED <<now, hits, used, day, waiters, threads, allowed>>
FailKeepsPlace(r) ==
  /\ pc[r] = "running"
  /\ threads' = threads \ {r}
  /\ Answer(r, "error")
  /\ UNCHANGED <<now, hits, used, day, places, waiters, allowed>>

\* sauron.run raises: the same, but nothing is charged.
Fail(r) ==
  /\ pc[r] = "running"
  /\ threads' = threads \ {r}
  /\ places' = places + 1
  /\ Answer(r, "error")
  /\ UNCHANGED <<now, hits, used, day, waiters, allowed>>

Tick ==
  /\ now < MaxTime
  /\ now' = now + 1
  /\ UNCHANGED <<hits, used, day, pc, places, waiters, threads, reply,
                 allowed>>

Arrive(r) ==
  \E a \in Addresses : Limited(r, a) \/ Broke(r, a) \/ Admit(r, a)

Handle(r) ==
  Enter(r) \/ Fail(r) \/ \E tokens \in 0..WorstCase : Reply(r, tokens)

Next ==
  \/ \E r \in Requests : Arrive(r) \/ Handle(r)
  \/ Tick

Spec == Init /\ [][Next]_vars

\* The loop runs every handler that can go on; sauron.run ends, because its
\* graph and its model calls are bounded.
Fairness == \A r \in Requests : WF_vars(Handle(r))

FairSpec == Spec /\ Fairness

-----------------------------------------------------------------------------
\* Whatever is purged or expires, no address passes the limiter more than
\* Limit times within any Window (api/demo.py:57-68).
WindowRespected ==
  \A h \in allowed :
    Cardinality({g \in allowed : g[1] = h[1] /\ g[2] <= h[2]
                                 /\ h[2] - g[2] < Window}) <= Limit

\* Once a request is answered, with success or not, the checkpointer has
\* nothing of it (api/demo.py:278-279: no visitor text is retained).
NothingRetained == \A r \in threads : pc[r] = "running"

\* A request that passed the limits is answered, even when others fail.
EveryAskAnswered ==
  \A r \in Requests : pc[r] = "waiting" ~> pc[r] = "done"
=============================================================================

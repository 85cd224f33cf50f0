-------------------------- MODULE SauronGraphProofs --------------------------
(***************************************************************************)
(* Theorems about SauronGraph, for any number of runs, threads, iterations *)
(* and tools.                                                              *)
(***************************************************************************)
EXTENDS SauronGraph, TLAPS

\* What tool_dispatch leaves of a state, before and after it notes a result.
LEMMA HeardType ==
  ASSUME NEW s \in ArdaState, NEW outcome \in Outcomes(s)
  PROVE  /\ Heard(s, outcome) \in ArdaState
         /\ Heard(s, outcome).iterations = s.iterations
         /\ Heard(s, outcome).last = s.last
<1> DEFINE msg == [role |-> "results", ids |-> Answered(s, outcome)]
<1>1. /\ s.pending \in Seq(Uses)
      /\ \A i \in 1..Len(s.pending) : s.pending[i] \in Uses
  BY DEF ArdaState
<1>2. msg \in Message
  BY <1>1 DEF Message, Answered
<1>3. Append(s.messages, msg) \in Seq(Message)
  BY <1>2 DEF ArdaState
<1>4. Erred(s, outcome) \in BOOLEAN
  BY DEF Erred
<1> DEFINE m == Append(s.messages, msg)
           e == Erred(s, outcome)
<1>5. Heard(s, outcome) = [s EXCEPT !.messages = m, !.pending = <<>>, !.error = e]
  BY DEF Heard
<1>6. m \in Seq(Message) /\ e \in BOOLEAN /\ <<>> \in Seq(Uses)
  BY <1>3, <1>4
<1> HIDE DEF m, e
<1>7. [s EXCEPT !.messages = m, !.pending = <<>>, !.error = e] \in ArdaState
  BY <1>6 DEF ArdaState
<1> QED
  BY <1>5, <1>7 DEF ArdaState

Noted(s, outcome, first, last) ==
  [Heard(s, outcome) EXCEPT
     !.intent = IF @ = NoUse THEN s.pending[first] ELSE @,
     !.last = outcome[last]]

LEMMA NotedType ==
  ASSUME NEW s \in ArdaState, NEW outcome \in Outcomes(s),
         NEW first \in Good(s, outcome), NEW last \in Good(s, outcome)
  PROVE  /\ Noted(s, outcome, first, last) \in ArdaState
         /\ Noted(s, outcome, first, last).iterations = s.iterations
         /\ Noted(s, outcome, first, last).messages = Heard(s, outcome).messages
         /\ Noted(s, outcome, first, last).last = outcome[last]
         /\ outcome[last] \in Results
<1>1. /\ s.pending[first] \in Uses /\ s.pending[last] \in Uses
      /\ outcome[last] \in Results
  BY DEF ArdaState, Good, Outcomes
<1> QED
  BY <1>1, HeardType DEF Noted, ArdaState

\* A run in a node still has an iteration left.
IterationsOK ==
  \A r \in Runs : node[r] \in {"agent", "tools"} =>
    state[r].iterations < MaxIterations

Typed == TypeOK /\ IterationsOK

LEMMA EmptyType == Empty \in ArdaState
BY SauronAssumption DEF Empty, ArdaState, NoResult, NoUse, Message

LEMMA InputType ==
  ASSUME TypeOK, NEW r \in Runs
  PROVE  Input(r) \in ArdaState /\ Input(r).iterations = 0
         /\ Input(r).last = NoResult /\ Input(r).pending = <<>>
<1>1. [role |-> "user", ids |-> {}] \in Message
  BY DEF Message
<1>2. saved[thread[r]].messages \in Seq(Message)
  BY DEF TypeOK, ArdaState
<1> DEFINE m == Append(saved[thread[r]].messages, [role |-> "user", ids |-> {}])
<1>3. Input(r) = [Empty EXCEPT !.messages = m]
  BY DEF Input
<1>4. m \in Seq(Message)
  BY <1>1, <1>2
<1> HIDE DEF m
<1>5. [Empty EXCEPT !.messages = m] \in ArdaState
  BY <1>4, EmptyType DEF ArdaState
<1>6. /\ [Empty EXCEPT !.messages = m].iterations = 0
      /\ [Empty EXCEPT !.messages = m].last = NoResult
      /\ [Empty EXCEPT !.messages = m].pending = <<>>
  BY DEF Empty
<1> QED
  BY <1>3, <1>5, <1>6

LEMMA CheckpointType ==
  ASSUME TypeOK, NEW r \in Runs, NEW s \in ArdaState,
         NEW next \in {"agent", "tools", "end"}, Checkpoint(r, s, next),
         called' \subseteq Runs \X Results, tainted' \subseteq Threads
  PROVE  TypeOK'
BY DEF TypeOK, Checkpoint

LEMMA CheckpointIterations ==
  ASSUME TypeOK, IterationsOK, NEW r \in Runs, NEW s \in ArdaState, NEW next,
         Checkpoint(r, s, next),
         next \in {"agent", "tools"} => s.iterations < MaxIterations
  PROVE  IterationsOK'
BY DEF TypeOK, IterationsOK, Checkpoint

\* The two answers of the model.
Failed(r) == [state[r] EXCEPT !.error = TRUE, !.iterations = @ + 1]

Said(r, n, text) ==
  LET k == state[r].iterations + 1
  IN [state[r] EXCEPT
        !.messages = Append(@, [role |-> "assistant",
                                ids |-> {<<r, k, i>> : i \in 1..n}]),
        !.pending = [i \in 1..n |-> <<r, k, i>>],
        !.text = @ \/ text,
        !.iterations = k]

LEMMA FailedType ==
  ASSUME Typed, NEW r \in Runs, node[r] = "agent"
  PROVE  Failed(r) \in ArdaState /\ Failed(r).last = state[r].last
<1>1. state[r] \in ArdaState /\ state[r].iterations < MaxIterations
  BY DEF Typed, TypeOK, IterationsOK
<1>2. state[r].iterations + 1 \in 0..MaxIterations
  BY <1>1, SauronAssumption DEF ArdaState
<1> QED
  BY <1>1, <1>2 DEF Failed, ArdaState

LEMMA SaidType ==
  ASSUME Typed, NEW r \in Runs, node[r] = "agent",
         NEW n \in 0..MaxUses, NEW text \in BOOLEAN
  PROVE  Said(r, n, text) \in ArdaState /\ Said(r, n, text).last = state[r].last
<1> DEFINE k == state[r].iterations + 1
           msg == [role |-> "assistant", ids |-> {<<r, k, i>> : i \in 1..n}]
<1>1. state[r] \in ArdaState /\ state[r].iterations < MaxIterations
  BY DEF Typed, TypeOK, IterationsOK
<1>2. k \in 1..MaxIterations
  BY <1>1, SauronAssumption DEF ArdaState
<1>3. \A i \in 1..n : <<r, k, i>> \in Uses
  BY <1>2, SauronAssumption DEF Uses
<1>4. [i \in 1..n |-> <<r, k, i>>] \in Seq(Uses)
  BY <1>3, SauronAssumption
<1>5. msg \in Message
  BY <1>3 DEF Message
<1>6. Append(state[r].messages, msg) \in Seq(Message)
  BY <1>1, <1>5 DEF ArdaState
<1>7. (state[r].text \/ text) \in BOOLEAN
  BY <1>1 DEF ArdaState
<1> DEFINE m == Append(state[r].messages, msg)
           p == [i \in 1..n |-> <<r, k, i>>]
           b == state[r].text \/ text
<1>8. Said(r, n, text) = [state[r] EXCEPT !.messages = m, !.pending = p,
                                          !.text = b, !.iterations = k]
  BY DEF Said
<1>9. m \in Seq(Message) /\ p \in Seq(Uses) /\ b \in BOOLEAN
      /\ k \in 0..MaxIterations
  BY <1>2, <1>4, <1>6, <1>7
<1> HIDE DEF m, p, b, k
<1>10. [state[r] EXCEPT !.messages = m, !.pending = p, !.text = b,
                        !.iterations = k] \in ArdaState
  BY <1>1, <1>9 DEF ArdaState
<1> QED
  BY <1>1, <1>8, <1>10 DEF ArdaState

LEMMA InitTyped == Init => Typed
BY EmptyType, SauronAssumption DEF Init, Typed, TypeOK, IterationsOK

LEMMA RouteFacts ==
  ASSUME NEW s \in ArdaState
  PROVE  /\ Route(s) \in {"tools", "end"}
         /\ Route(s) = "tools" => s.iterations < MaxIterations
                                  /\ s.pending # <<>>
         /\ s.pending = <<>> => Route(s) = "end"
BY DEF Route

\* A step of the graph is one of four, each with the state it leaves.
LEMMA GraphStepCases ==
  ASSUME Typed, NEW r \in Runs, GraphStep(r)
  PROVE  \/ /\ node[r] = "agent"
            /\ Checkpoint(r, Failed(r), Route(Failed(r)))
            /\ UNCHANGED <<called, tainted>>
         \/ /\ node[r] = "agent"
            /\ \E n \in 0..MaxUses, text \in BOOLEAN :
                 Checkpoint(r, Said(r, n, text), Route(Said(r, n, text)))
            /\ UNCHANGED <<called, tainted>>
         \/ /\ node[r] = "tools"
            /\ \E outcome \in Outcomes(state[r]) :
                 /\ Good(state[r], outcome) = {}
                 /\ Checkpoint(r, Heard(state[r], outcome), "agent")
                 /\ called' = called
            /\ tainted' = tainted
         \/ /\ node[r] = "tools"
            /\ \E outcome \in Outcomes(state[r]) :
                 /\ \E first, last \in Good(state[r], outcome) :
                      Checkpoint(r, Noted(state[r], outcome, first, last),
                                 "agent")
                 /\ called' = called \cup
                      {<<r, outcome[i]>> : i \in Good(state[r], outcome)}
            /\ tainted' = tainted
<1>1. CASE ModelFails(r)
  BY <1>1 DEF ModelFails, Failed
<1>2. CASE \E n \in 0..MaxUses, text \in BOOLEAN : ModelAnswers(r, n, text)
  BY <1>2 DEF ModelAnswers, Said
<1>3. CASE \E outcome \in Outcomes(state[r]) : Dispatch(r, outcome)
  <2>1. PICK outcome \in Outcomes(state[r]) : Dispatch(r, outcome)
    BY <1>3
  <2>2. CASE Good(state[r], outcome) = {}
    BY <2>1, <2>2 DEF Dispatch
  <2>3. CASE Good(state[r], outcome) # {}
    BY <2>1, <2>3 DEF Dispatch, Noted
  <2> QED
    BY <2>2, <2>3
<1> QED
  BY <1>1, <1>2, <1>3 DEF GraphStep

LEMMA StepTyped ==
  ASSUME Typed, [Next]_vars
  PROVE  Typed'
<1> USE DEF Typed
<1>1. ASSUME NEW r \in Runs, Start(r)
      PROVE  Typed'
  <2>1. Input(r) \in ArdaState /\ Input(r).iterations < MaxIterations
    BY InputType, SauronAssumption
  <2>2. called' \subseteq Runs \X Results /\ tainted' \subseteq Threads
    BY <1>1 DEF Start, TypeOK
  <2>3. Checkpoint(r, Input(r), "agent")
    BY <1>1 DEF Start
  <2> QED
    BY <2>1, <2>2, <2>3, CheckpointType, CheckpointIterations
<1>2. ASSUME NEW r \in Runs, GraphStep(r)
      PROVE  Typed'
  <2>1. CASE /\ node[r] = "agent"
             /\ Checkpoint(r, Failed(r), Route(Failed(r)))
             /\ UNCHANGED <<called, tainted>>
    BY <2>1, FailedType, RouteFacts, CheckpointType, CheckpointIterations
       DEF TypeOK
  <2>2. CASE /\ node[r] = "agent"
             /\ \E n \in 0..MaxUses, text \in BOOLEAN :
                  Checkpoint(r, Said(r, n, text), Route(Said(r, n, text)))
             /\ UNCHANGED <<called, tainted>>
    <3>1. PICK n \in 0..MaxUses, text \in BOOLEAN :
            Checkpoint(r, Said(r, n, text), Route(Said(r, n, text)))
      BY <2>2
    <3>2. Said(r, n, text) \in ArdaState
      BY <2>2, SaidType
    <3> QED
      BY <2>2, <3>1, <3>2, RouteFacts, CheckpointType, CheckpointIterations
         DEF TypeOK
  <2>3. CASE /\ node[r] = "tools"
             /\ \E outcome \in Outcomes(state[r]) :
                  /\ Good(state[r], outcome) = {}
                  /\ Checkpoint(r, Heard(state[r], outcome), "agent")
                  /\ called' = called
             /\ tainted' = tainted
    <3>1. PICK outcome \in Outcomes(state[r]) :
            Checkpoint(r, Heard(state[r], outcome), "agent")
      BY <2>3
    <3>2. state[r] \in ArdaState /\ state[r].iterations < MaxIterations
      BY <2>3 DEF TypeOK, IterationsOK
    <3> QED
      BY <2>3, <3>1, <3>2, HeardType, CheckpointType, CheckpointIterations
         DEF TypeOK
  <2>4. CASE /\ node[r] = "tools"
             /\ \E outcome \in Outcomes(state[r]) :
                  /\ \E first, last \in Good(state[r], outcome) :
                       Checkpoint(r, Noted(state[r], outcome, first, last),
                                  "agent")
                  /\ called' = called \cup
                       {<<r, outcome[i]>> : i \in Good(state[r], outcome)}
             /\ tainted' = tainted
    <3>1. PICK outcome \in Outcomes(state[r]) :
            /\ \E first, last \in Good(state[r], outcome) :
                 Checkpoint(r, Noted(state[r], outcome, first, last), "agent")
            /\ called' = called \cup
                 {<<r, outcome[i]>> : i \in Good(state[r], outcome)}
      BY <2>4
    <3>2. PICK first \in Good(state[r], outcome),
               last \in Good(state[r], outcome) :
            Checkpoint(r, Noted(state[r], outcome, first, last), "agent")
      BY <3>1
    <3>3. state[r] \in ArdaState /\ state[r].iterations < MaxIterations
      BY <2>4 DEF TypeOK, IterationsOK
    <3>4. \A i \in Good(state[r], outcome) : outcome[i] \in Results
      BY DEF Good, Outcomes
    <3>5. called' \subseteq Runs \X Results /\ tainted' \subseteq Threads
      BY <2>4, <3>1, <3>4 DEF TypeOK
    <3> QED
      BY <3>2, <3>3, <3>5, NotedType, CheckpointType, CheckpointIterations
  <2> QED
    BY <1>2, <2>1, <2>2, <2>3, <2>4, GraphStepCases
<1>3. ASSUME NEW r \in Runs, GraphFails(r)
      PROVE  Typed'
  BY <1>3, SauronAssumption DEF GraphFails, TypeOK, IterationsOK
<1>4. CASE Crash
  BY <1>4, SauronAssumption DEF Crash, TypeOK, IterationsOK
<1>5. CASE UNCHANGED vars
  BY <1>5 DEF vars, TypeOK, IterationsOK
<1> QED
  BY <1>1, <1>2, <1>3, <1>4, <1>5 DEF Next

\* Every state a run works on, and every checkpoint, is an ArdaState within
\* the bounds of the loop: no run makes more than MAX_ITERATIONS steps.
THEOREM TypeCorrect == Spec => []TypeOK
<1>1. Init => Typed
  BY InitTyped
<1>2. Typed /\ [Next]_vars => Typed'
  BY StepTyped
<1>3. Typed => TypeOK
  BY DEF Typed
<1> QED
  BY <1>1, <1>2, <1>3, PTL DEF Spec

-----------------------------------------------------------------------------
(* A run reports what a specialist told it, not an earlier run.            *)

Own ==
  \A r \in Runs :
    /\ node[r] = "new" => state[r].last = NoResult
    /\ state[r].last # NoResult => <<r, state[r].last>> \in called
    /\ \A c \in called : c[1] = r => state[r].last # NoResult

LEMMA OwnOfOne ==
  ASSUME TypeOK, Own, NEW r \in Runs, NEW s \in ArdaState, NEW next,
         next # "new", Checkpoint(r, s, next),
         \A c \in called' : c \in called \/ c[1] = r,
         called \subseteq called',
         s.last # NoResult => <<r, s.last>> \in called',
         (\E c \in called' : c[1] = r) => s.last # NoResult
  PROVE  Own'
BY DEF TypeOK, Own, Checkpoint

LEMMA StepOwn ==
  ASSUME Typed, Own, [Next]_vars
  PROVE  Own'
<1>1. ASSUME NEW r \in Runs, Start(r)
      PROVE  Own'
  <2>1. Input(r) \in ArdaState /\ Input(r).last = NoResult
    BY InputType DEF Typed
  <2>2. Checkpoint(r, Input(r), "agent") /\ called' = called
    BY <1>1 DEF Start
  <2>3. \A c \in called : c[1] # r
    BY <1>1 DEF Start, Own
  <2> QED
    BY <2>1, <2>2, <2>3, OwnOfOne DEF Typed
<1>2. ASSUME NEW r \in Runs, GraphStep(r)
      PROVE  Own'
  <2>0. /\ state[r] \in ArdaState
        /\ state[r].last # NoResult => <<r, state[r].last>> \in called
        /\ (\E c \in called : c[1] = r) => state[r].last # NoResult
    BY DEF Typed, TypeOK, Own
  <2>1. CASE /\ node[r] = "agent"
             /\ Checkpoint(r, Failed(r), Route(Failed(r)))
             /\ UNCHANGED <<called, tainted>>
    <3>1. /\ Failed(r) \in ArdaState /\ Failed(r).last = state[r].last
          /\ Route(Failed(r)) # "new"
      BY <2>1, FailedType, RouteFacts
    <3> QED
      BY <2>0, <2>1, <3>1, OwnOfOne DEF Typed
  <2>2. CASE /\ node[r] = "agent"
             /\ \E n \in 0..MaxUses, text \in BOOLEAN :
                  Checkpoint(r, Said(r, n, text), Route(Said(r, n, text)))
             /\ UNCHANGED <<called, tainted>>
    <3>1. PICK n \in 0..MaxUses, text \in BOOLEAN :
            Checkpoint(r, Said(r, n, text), Route(Said(r, n, text)))
      BY <2>2
    <3>2. /\ Said(r, n, text) \in ArdaState
          /\ Said(r, n, text).last = state[r].last
          /\ Route(Said(r, n, text)) # "new"
      BY <2>2, SaidType, RouteFacts
    <3> QED
      BY <2>0, <2>2, <3>1, <3>2, OwnOfOne DEF Typed
  <2>3. CASE /\ node[r] = "tools"
             /\ \E outcome \in Outcomes(state[r]) :
                  /\ Good(state[r], outcome) = {}
                  /\ Checkpoint(r, Heard(state[r], outcome), "agent")
                  /\ called' = called
             /\ tainted' = tainted
    <3>1. PICK outcome \in Outcomes(state[r]) :
            Checkpoint(r, Heard(state[r], outcome), "agent")
      BY <2>3
    <3>2. /\ Heard(state[r], outcome) \in ArdaState
          /\ Heard(state[r], outcome).last = state[r].last
      BY <2>0, HeardType
    <3> QED
      BY <2>0, <2>3, <3>1, <3>2, OwnOfOne DEF Typed
  <2>4. CASE /\ node[r] = "tools"
             /\ \E outcome \in Outcomes(state[r]) :
                  /\ \E first, last \in Good(state[r], outcome) :
                       Checkpoint(r, Noted(state[r], outcome, first, last),
                                  "agent")
                  /\ called' = called \cup
                       {<<r, outcome[i]>> : i \in Good(state[r], outcome)}
             /\ tainted' = tainted
    <3>1. PICK outcome \in Outcomes(state[r]) :
            /\ \E first, last \in Good(state[r], outcome) :
                 Checkpoint(r, Noted(state[r], outcome, first, last), "agent")
            /\ called' = called \cup
                 {<<r, outcome[i]>> : i \in Good(state[r], outcome)}
      BY <2>4
    <3>2. PICK first \in Good(state[r], outcome),
               last \in Good(state[r], outcome) :
            Checkpoint(r, Noted(state[r], outcome, first, last), "agent")
      BY <3>1
    <3>3. /\ Noted(state[r], outcome, first, last) \in ArdaState
          /\ Noted(state[r], outcome, first, last).last = outcome[last]
          /\ outcome[last] \in Results
      BY <2>0, NotedType
    <3>4. Noted(state[r], outcome, first, last).last # NoResult
      BY <3>3, SauronAssumption DEF NoResult
    <3>5. /\ <<r, outcome[last]>> \in called' /\ called \subseteq called'
          /\ \A c \in called' : c \in called \/ c[1] = r
      BY <3>1
    <3> QED
      BY <3>2, <3>3, <3>4, <3>5, OwnOfOne DEF Typed
  <2> QED
    BY <1>2, <2>1, <2>2, <2>3, <2>4, GraphStepCases
<1>3. ASSUME NEW r \in Runs, GraphFails(r)
      PROVE  Own'
  BY <1>3 DEF GraphFails, Own, Typed, TypeOK
<1>4. CASE Crash
  BY <1>4 DEF Crash, Own, Typed, TypeOK
<1>5. CASE UNCHANGED vars
  BY <1>5 DEF vars, Own
<1> QED
  BY <1>1, <1>2, <1>3, <1>4, <1>5 DEF Next

\* A run that ends "completed" does so on its own account, whatever the
\* checkpoint of its thread held when it started, and whatever other runs of
\* that thread do meanwhile.
THEOREM CompletedOnItsOwn == Spec => []CompletedIsOwn
<1>1. Init => Typed /\ Own
  BY InitTyped DEF Init, Own, Empty
<1>2. Typed /\ Own /\ [Next]_vars => Typed' /\ Own'
  BY StepTyped, StepOwn
<1>3. Typed /\ Own => CompletedIsOwn
  BY DEF Own, CompletedIsOwn, StatusOf
<1> QED
  BY <1>1, <1>2, <1>3, PTL DEF Spec

-----------------------------------------------------------------------------
(* What a thread keeps, as long as its runs do not overlap and none is lost: *)
(* the checkpoint is the state of the run that works on it.                 *)

Prefix(m, n) == Len(m) <= Len(n) /\ SubSeq(n, 1, Len(m)) = m

LEMMA PrefixFacts ==
  ASSUME NEW m \in Seq(Message)
  PROVE  /\ Prefix(m, m)
         /\ \A x \in Message : Prefix(m, Append(m, x))
         /\ \A k \in Seq(Message), n \in Seq(Message) :
              Prefix(k, m) /\ Prefix(m, n) => Prefix(k, n)
<1>1. Prefix(m, m)
  BY DEF Prefix
<1>2. \A x \in Message : Prefix(m, Append(m, x))
  BY DEF Prefix
<1>3. ASSUME NEW k \in Seq(Message), NEW n \in Seq(Message),
             Prefix(k, m), Prefix(m, n)
      PROVE  Prefix(k, n)
  <2>1. /\ Len(k) \in Nat /\ Len(m) \in Nat /\ Len(n) \in Nat
        /\ Len(k) <= Len(m) /\ Len(m) <= Len(n)
    BY <1>3 DEF Prefix
  <2>2. \A i \in 1..Len(k) : k[i] = m[i]
    BY <1>3, <2>1 DEF Prefix
  <2>3. \A i \in 1..Len(m) : m[i] = n[i]
    BY <1>3, <2>1 DEF Prefix
  <2>4. \A i \in 1..Len(k) : SubSeq(n, 1, Len(k))[i] = k[i]
    BY <2>1, <2>2, <2>3
  <2>5. SubSeq(n, 1, Len(k)) \in Seq(Message)
        /\ Len(SubSeq(n, 1, Len(k))) = Len(k)
    BY <2>1
  <2>6. SubSeq(n, 1, Len(k)) = k
    BY <2>4, <2>5
  <2> QED
    BY <2>1, <2>6 DEF Prefix
<1> QED
  BY <1>1, <1>2, <1>3

Kept ==
  \A t \in Threads \ tainted :
    /\ \A q, r \in Active(t) : q = r
    /\ \A r \in Active(t) : saved[t] = state[r]
    /\ \A r \in Runs : node[r] = "end" /\ thread[r] = t =>
         Prefix(state[r].messages, saved[t].messages)
    /\ \A r \in Runs : thread[r] = t => node[r] # "lost"

\* Every checkpoint extends the conversation it continues.
LEMMA Extends ==
  ASSUME Typed, NEW r \in Runs, Start(r) \/ GraphStep(r)
  PROVE  \E s \in ArdaState, next \in {"agent", "tools", "end"} :
           /\ Checkpoint(r, s, next)
           /\ Start(r) => Prefix(saved[thread[r]].messages, s.messages)
                          /\ next = "agent" /\ node[r] = "new"
           /\ ~Start(r) => Prefix(state[r].messages, s.messages)
                           /\ node[r] \in {"agent", "tools"}
                           /\ tainted' = tainted
<1>1. CASE Start(r)
  <2>1. Input(r) \in ArdaState
    BY InputType DEF Typed
  <2>2. saved[thread[r]].messages \in Seq(Message)
    BY DEF Typed, TypeOK, ArdaState
  <2>3. [role |-> "user", ids |-> {}] \in Message
    BY DEF Message
  <2>4. Input(r).messages = Append(saved[thread[r]].messages,
                                   [role |-> "user", ids |-> {}])
    BY DEF Input, Empty
  <2>5. Prefix(saved[thread[r]].messages, Input(r).messages)
    BY <2>2, <2>3, <2>4, PrefixFacts
  <2> QED
    BY <1>1, <2>1, <2>5 DEF Start
<1>2. CASE ~Start(r) /\ GraphStep(r)
  <2>0. state[r] \in ArdaState /\ state[r].messages \in Seq(Message)
    BY DEF Typed, TypeOK, ArdaState
  <2>1. CASE /\ node[r] = "agent"
             /\ Checkpoint(r, Failed(r), Route(Failed(r)))
             /\ UNCHANGED <<called, tainted>>
    <3>1. Failed(r) \in ArdaState /\ Failed(r).messages = state[r].messages
      BY <2>0, <2>1, FailedType DEF Failed, ArdaState
    <3> QED
      BY <1>2, <2>0, <2>1, <3>1, PrefixFacts, RouteFacts
  <2>2. CASE /\ node[r] = "agent"
             /\ \E n \in 0..MaxUses, text \in BOOLEAN :
                  Checkpoint(r, Said(r, n, text), Route(Said(r, n, text)))
             /\ UNCHANGED <<called, tainted>>
    <3>1. PICK n \in 0..MaxUses, text \in BOOLEAN :
            Checkpoint(r, Said(r, n, text), Route(Said(r, n, text)))
      BY <2>2
    <3>2. Said(r, n, text) \in ArdaState
      BY <2>2, SaidType
    <3>3. \E x : Said(r, n, text).messages = Append(state[r].messages, x)
      BY <2>0 DEF Said, ArdaState
    <3>4. Prefix(state[r].messages, Said(r, n, text).messages)
      BY <2>0, <3>2, <3>3 DEF Prefix, ArdaState
    <3> QED
      BY <1>2, <2>2, <3>1, <3>2, <3>4, RouteFacts
  <2>3. CASE /\ node[r] = "tools"
             /\ tainted' = tainted
             /\ \E outcome \in Outcomes(state[r]) :
                  \/ Checkpoint(r, Heard(state[r], outcome), "agent")
                  \/ \E first, last \in Good(state[r], outcome) :
                       Checkpoint(r, Noted(state[r], outcome, first, last),
                                  "agent")
    <3>1. PICK outcome \in Outcomes(state[r]) :
            \/ Checkpoint(r, Heard(state[r], outcome), "agent")
            \/ \E first, last \in Good(state[r], outcome) :
                 Checkpoint(r, Noted(state[r], outcome, first, last), "agent")
      BY <2>3
    <3>2. Heard(state[r], outcome) \in ArdaState
      BY <2>0, HeardType
    <3>3. \E x : Heard(state[r], outcome).messages
                   = Append(state[r].messages, x)
      BY <2>0 DEF Heard, ArdaState
    <3>4. Prefix(state[r].messages, Heard(state[r], outcome).messages)
      BY <2>0, <3>3 DEF Prefix
    <3>5. ASSUME NEW first \in Good(state[r], outcome),
                 NEW last \in Good(state[r], outcome)
          PROVE  /\ Noted(state[r], outcome, first, last) \in ArdaState
                 /\ Noted(state[r], outcome, first, last).messages
                      = Heard(state[r], outcome).messages
      BY <2>0, NotedType
    <3> QED
      BY <1>2, <2>3, <3>1, <3>2, <3>4, <3>5
  <2> QED
    BY <1>2, <2>1, <2>2, <2>3, GraphStepCases
<1> QED
  BY <1>1, <1>2

LEMMA StepKept ==
  ASSUME Typed, Kept, [Next]_vars
  PROVE  Kept'
<1>1. ASSUME NEW r \in Runs, Start(r) \/ GraphStep(r)
      PROVE  Kept'
  <2>1. PICK s \in ArdaState, next \in {"agent", "tools", "end"} :
           /\ Checkpoint(r, s, next)
           /\ Start(r) => Prefix(saved[thread[r]].messages, s.messages)
                          /\ next = "agent" /\ node[r] = "new"
           /\ ~Start(r) => Prefix(state[r].messages, s.messages)
                           /\ node[r] \in {"agent", "tools"}
                           /\ tainted' = tainted
    BY <1>1, Extends
  <2> DEFINE t == thread[r]
  <2>2. /\ thread' = thread /\ t \in Threads
        /\ saved' = [saved EXCEPT ![t] = s] /\ saved'[t] = s
        /\ state' = [state EXCEPT ![r] = s] /\ state'[r] = s
        /\ node' = [node EXCEPT ![r] = next] /\ node'[r] = next
        /\ \A q \in Runs \ {r} : state'[q] = state[q] /\ node'[q] = node[q]
        /\ \A u \in Threads \ {t} : saved'[u] = saved[u]
    BY <2>1 DEF Checkpoint, Typed, TypeOK
  <2>3. tainted \subseteq tainted'
    BY <1>1, <2>1 DEF Start
  <2>4. ASSUME NEW u \in Threads \ tainted', u # t
        PROVE  /\ Active(u)' = Active(u)
               /\ \A q \in Active(u) : q # r
               /\ \A q \in Runs : thread[q] = u => q # r
    BY <2>2, <2>4 DEF Active
  <2>5. ASSUME t \notin tainted'
        PROVE  /\ \A q \in Active(t) : q = r
               /\ Prefix(saved[t].messages, s.messages)
               /\ t \notin tainted
    <3>1. t \notin tainted
      BY <2>3, <2>5
    <3>2. CASE Start(r)
      BY <2>1, <2>5, <3>1, <3>2 DEF Start
    <3>3. CASE ~Start(r)
      <4>1. r \in Active(t)
        BY <2>1, <3>3 DEF Active
      <4> QED
        BY <2>1, <2>2, <3>1, <3>3, <4>1 DEF Kept
    <3> QED
      BY <3>1, <3>2, <3>3
  <2>6. ASSUME NEW u \in Threads, u \notin tainted'
        PROVE  /\ \A p, q \in Active(u)' : p = q
               /\ \A q \in Active(u)' : saved'[u] = state'[q]
               /\ \A q \in Runs : node'[q] = "end" /\ thread'[q] = u =>
                    Prefix(state'[q].messages, saved'[u].messages)
               /\ \A q \in Runs : thread'[q] = u => node'[q] # "lost"
    <3>0. u \notin tainted
      BY <2>3, <2>6
    <3>1. CASE u # t
      BY <2>2, <2>4, <2>6, <3>0, <3>1 DEF Kept, Active
    <3>2. CASE u = t
      <4>1. Active(u)' \subseteq {r}
        BY <2>2, <2>5, <2>6, <3>2 DEF Active
      <4>2. \A q \in Active(u)' : saved'[u] = state'[q]
        BY <2>2, <3>2, <4>1
      <4>3. ASSUME NEW q \in Runs, node'[q] = "end", thread'[q] = u
            PROVE  Prefix(state'[q].messages, saved'[u].messages)
        <5>1. s.messages \in Seq(Message) /\ saved[t].messages \in Seq(Message)
              /\ state[q].messages \in Seq(Message)
          BY <2>2 DEF Typed, TypeOK, ArdaState
        <5>2. CASE q = r
          BY <2>2, <3>2, <5>1, <5>2, PrefixFacts
        <5>3. CASE q # r
          <6>1. Prefix(state[q].messages, saved[t].messages)
            BY <2>2, <3>0, <3>2, <4>3, <5>3 DEF Kept
          <6>2. Prefix(saved[t].messages, s.messages)
            BY <2>5, <2>6, <3>2
          <6> QED
            BY <2>2, <3>2, <5>1, <5>3, <6>1, <6>2, PrefixFacts
        <5> QED
          BY <5>2, <5>3
      <4>4. \A q \in Runs : thread'[q] = u => node'[q] # "lost"
        BY <2>2, <3>0, <3>2 DEF Kept
      <4> QED
        BY <4>1, <4>2, <4>3, <4>4
    <3> QED
      BY <3>1, <3>2
  <2> QED
    BY <2>6 DEF Kept
<1>2. ASSUME NEW r \in Runs, GraphFails(r)
      PROVE  Kept'
  <2>1. /\ thread' = thread /\ saved' = saved /\ state' = state
        /\ tainted' = tainted \cup {thread[r]} /\ node' = [node EXCEPT ![r] = "lost"]
    BY <1>2 DEF GraphFails
  <2>2. \A q \in Runs \ {r} : node'[q] = node[q]
    BY <2>1 DEF Typed, TypeOK
  <2>3. \A u \in Threads \ tainted' : u \in Threads \ tainted /\ u # thread[r]
    BY <2>1
  <2>4. \A u \in Threads \ tainted' : Active(u)' = Active(u)
    BY <2>1, <2>2, <2>3 DEF Active
  <2> QED
    BY <2>1, <2>2, <2>3, <2>4 DEF Kept
<1>3. CASE Crash
  <2>1. /\ thread' = thread /\ saved' = saved /\ state' = state
        /\ tainted' = tainted \cup {t \in Threads : Active(t) # {}}
        /\ node' = [r \in Runs |-> IF node[r] \in {"agent", "tools"}
                                   THEN "lost" ELSE node[r]]
    BY <1>3 DEF Crash
  <2>2. \A u \in Threads \ tainted' :
          /\ u \in Threads \ tainted
          /\ \A q \in Runs : thread[q] = u => node'[q] = node[q]
    BY <2>1 DEF Active
  <2>3. \A u \in Threads \ tainted' : Active(u)' = Active(u)
    BY <2>1, <2>2 DEF Active
  <2> QED
    BY <2>1, <2>2, <2>3 DEF Kept
<1>4. CASE UNCHANGED vars
  BY <1>4 DEF vars, Kept, Active
<1> QED
  BY <1>1, <1>2, <1>3, <1>4 DEF Next

LEMMA InitKept == Init => Kept
BY DEF Init, Kept, Active

\* Cross-turn memory holds for every thread whose runs do not overlap and are
\* not lost: a later run, whatever it does and whatever fails in it, only adds
\* to what an earlier one said.
THEOREM TurnsAreKept == Spec => []TurnsKept
<1>1. Init => Typed /\ Kept
  BY InitTyped, InitKept
<1>2. Typed /\ Kept /\ [Next]_vars => Typed' /\ Kept'
  BY StepTyped, StepKept
<1>3. Typed /\ Kept => TurnsKept
  BY DEF Typed, TypeOK, Kept, TurnsKept, Prefix
<1> QED
  BY <1>1, <1>2, <1>3, PTL DEF Spec

-----------------------------------------------------------------------------
(* Why a thread can be continued: in between its nodes, the conversation of *)
(* a run lacks at most the answers to the tools it has still to run, which  *)
(* are those of its last message.                                           *)

AsksFor(s) == {s.pending[i] : i \in 1..Len(s.pending)}

\* The last message asks for the pending tools, and the rest is answered.
WaitsForTools(s) ==
  \E m \in Seq(Message), x \in Message :
    /\ s.messages = Append(m, x) /\ WellFormed(m)
    /\ x.role = "assistant" /\ x.ids = AsksFor(s)

Ready(s, next) ==
  /\ next = "agent" => WellFormed(s.messages) /\ s.pending = <<>>
  /\ next = "tools" => WaitsForTools(s)
  /\ next = "end" => WellFormed(s.messages) \/ s.pending # <<>>

\* No run of the thread was cut off.
Whole(t) == \A r \in Runs : thread[r] = t => ~CutOff(r)

Usable ==
  \A t \in Threads \ tainted : Whole(t) =>
    /\ Active(t) = {} => WellFormed(saved[t].messages)
    /\ \A r \in Active(t) : Ready(state[r], node[r])

LEMMA WellFormedAppend ==
  ASSUME NEW m \in Seq(Message), WellFormed(m), NEW x \in Message,
         x.role = "assistant" => x.ids = {}
  PROVE  WellFormed(Append(m, x))
<1>1. /\ Len(m) \in Nat /\ Len(Append(m, x)) = Len(m) + 1
      /\ \A i \in 1..Len(m) : Append(m, x)[i] = m[i]
      /\ Append(m, x)[Len(m) + 1] = x
  OBVIOUS
<1> DEFINE a == Append(m, x)
<1> SUFFICES ASSUME NEW i \in 1..Len(a), a[i].role = "assistant", a[i].ids # {}
             PROVE  i < Len(a) /\ a[i + 1] = [role |-> "results", ids |-> a[i].ids]
  BY DEF WellFormed
<1>2. i # Len(m) + 1
  BY <1>1
<1>3. i \in 1..Len(m) /\ a[i] = m[i]
  BY <1>1, <1>2
<1>4. i < Len(m) /\ m[i + 1] = [role |-> "results", ids |-> m[i].ids]
  BY <1>3 DEF WellFormed
<1>5. i + 1 \in 1..Len(m)
  BY <1>1, <1>3, <1>4
<1>6. i < Len(a)
  BY <1>1, <1>3
<1> QED
  BY <1>1, <1>3, <1>4, <1>5, <1>6

LEMMA WellFormedAnswer ==
  ASSUME NEW m \in Seq(Message), WellFormed(m), NEW x \in Message,
         NEW y \in Message, y = [role |-> "results", ids |-> x.ids]
  PROVE  WellFormed(Append(Append(m, x), y))
<1> DEFINE a == Append(m, x)
           b == Append(a, y)
<1>1. /\ Len(m) \in Nat /\ Len(b) = Len(m) + 2
      /\ \A i \in 1..Len(m) : b[i] = m[i]
      /\ b[Len(m) + 1] = x /\ b[Len(m) + 2] = y
  <2>1. a \in Seq(Message) /\ Len(a) = Len(m) + 1
    OBVIOUS
  <2>2. \A i \in 1..Len(m) : a[i] = m[i] /\ i \in 1..Len(a)
    BY <2>1
  <2>3. a[Len(m) + 1] = x /\ Len(m) + 1 \in 1..Len(a) /\ Len(m) \in Nat
    BY <2>1
  <2> HIDE DEF a
  <2>4. Len(b) = Len(a) + 1 /\ b[Len(a) + 1] = y
    BY <2>1
  <2>5. \A i \in 1..Len(a) : b[i] = a[i]
    BY <2>1
  <2> HIDE DEF b
  <2> QED
    BY <2>1, <2>2, <2>3, <2>4, <2>5
<1> HIDE DEF b
<1> SUFFICES ASSUME NEW i \in 1..Len(b), b[i].role = "assistant", b[i].ids # {}
             PROVE  i < Len(b) /\ b[i + 1] = [role |-> "results", ids |-> b[i].ids]
  BY DEF WellFormed, b
<1>2. i # Len(m) + 2
  BY <1>1
<1>3. CASE i = Len(m) + 1
  BY <1>1, <1>3
<1>4. CASE i \in 1..Len(m)
  <2>1. i < Len(m) /\ m[i + 1] = [role |-> "results", ids |-> m[i].ids]
    BY <1>1, <1>4 DEF WellFormed
  <2>2. i + 1 \in 1..Len(m) /\ i < Len(b)
    BY <1>1, <1>4, <2>1
  <2> QED
    BY <1>1, <1>4, <2>1, <2>2
<1> QED
  BY <1>1, <1>2, <1>3, <1>4

\* agent_step leaves the tools of the message it appends, or none.
LEMMA SaidReady ==
  ASSUME Typed, NEW r \in Runs, node[r] = "agent", WellFormed(state[r].messages),
         NEW n \in 0..MaxUses, NEW text \in BOOLEAN
  PROVE  Ready(Said(r, n, text), Route(Said(r, n, text)))
<1> DEFINE k == state[r].iterations + 1
           x == [role |-> "assistant", ids |-> {<<r, k, i>> : i \in 1..n}]
           s == Said(r, n, text)
<1>1. state[r] \in ArdaState /\ state[r].messages \in Seq(Message)
      /\ k \in 1..MaxIterations
  BY SauronAssumption DEF Typed, TypeOK, IterationsOK, ArdaState
<1>2. s \in ArdaState
  BY SaidType
<1>3. s.messages = Append(state[r].messages, x) /\ s.pending = [i \in 1..n |-> <<r, k, i>>]
  BY <1>1 DEF Said, ArdaState
<1>4. n \in Nat /\ \A i \in 1..n : <<r, k, i>> \in Uses
  BY <1>1, SauronAssumption DEF Uses
<1>5. x \in Message
  BY <1>4 DEF Message
<1>6. x.ids = AsksFor(s)
  <2>1. Len(s.pending) = n
    BY <1>3, <1>4
  <2> QED
    BY <1>3, <2>1 DEF AsksFor
<1>7. CASE n = 0
  <2>1. x.ids = {} /\ s.pending = <<>>
    BY <1>3, <1>7
  <2>2. WellFormed(s.messages)
    BY <1>1, <1>3, <1>5, <2>1, WellFormedAppend
  <2> QED
    BY <1>2, <2>1, <2>2, RouteFacts DEF Ready
<1>8. CASE n # 0
  <2>1. s.pending # <<>>
    <3>1. Len(s.pending) = n /\ Len(<<>>) = 0
      BY <1>3, <1>4
    <3> QED
      BY <1>8, <3>1
  <2>2. WaitsForTools(s)
    BY <1>1, <1>3, <1>5, <1>6 DEF WaitsForTools
  <2> QED
    BY <1>2, <2>1, <2>2, RouteFacts DEF Ready
<1> QED
  BY <1>7, <1>8

\* tool_dispatch answers what the last message asks for.
LEMMA HeardReady ==
  ASSUME NEW s \in ArdaState, WaitsForTools(s), NEW outcome \in Outcomes(s)
  PROVE  WellFormed(Heard(s, outcome).messages) /\ Heard(s, outcome).pending = <<>>
<1>1. PICK m \in Seq(Message), x \in Message :
        /\ s.messages = Append(m, x) /\ WellFormed(m)
        /\ x.role = "assistant" /\ x.ids = AsksFor(s)
  BY DEF WaitsForTools
<1> DEFINE y == [role |-> "results", ids |-> Answered(s, outcome)]
<1>2. Answered(s, outcome) = x.ids
  BY <1>1 DEF Answered, AsksFor
<1>3. y \in Message /\ y = [role |-> "results", ids |-> x.ids]
  BY <1>2 DEF Message
<1>4. /\ Heard(s, outcome).messages = Append(Append(m, x), y)
      /\ Heard(s, outcome).pending = <<>>
  BY <1>1 DEF Heard, ArdaState
<1> HIDE DEF y
<1> QED
  BY <1>1, <1>3, <1>4, WellFormedAnswer

LEMMA GraphReady ==
  ASSUME Typed, NEW r \in Runs, GraphStep(r), Ready(state[r], node[r])
  PROVE  \E s \in ArdaState, next \in {"agent", "tools", "end"} :
           /\ Checkpoint(r, s, next) /\ Ready(s, next)
           /\ node[r] \in {"agent", "tools"} /\ tainted' = tainted
<1>0. state[r] \in ArdaState
  BY DEF Typed, TypeOK
<1>1. CASE /\ node[r] = "agent"
           /\ Checkpoint(r, Failed(r), Route(Failed(r)))
           /\ UNCHANGED <<called, tainted>>
  <2>1. /\ Failed(r) \in ArdaState /\ Failed(r).messages = state[r].messages
        /\ Failed(r).pending = state[r].pending
    BY <1>0, <1>1, FailedType DEF Failed, ArdaState
  <2>2. WellFormed(state[r].messages) /\ state[r].pending = <<>>
    BY <1>1 DEF Ready
  <2>3. Route(Failed(r)) = "end"
    BY <2>1, <2>2, RouteFacts
  <2> QED
    BY <1>1, <2>1, <2>2, <2>3 DEF Ready
<1>2. CASE /\ node[r] = "agent"
           /\ \E n \in 0..MaxUses, text \in BOOLEAN :
                Checkpoint(r, Said(r, n, text), Route(Said(r, n, text)))
           /\ UNCHANGED <<called, tainted>>
  <2>1. PICK n \in 0..MaxUses, text \in BOOLEAN :
          Checkpoint(r, Said(r, n, text), Route(Said(r, n, text)))
    BY <1>2
  <2>2. Said(r, n, text) \in ArdaState
    BY <1>2, SaidType
  <2>3. Ready(Said(r, n, text), Route(Said(r, n, text)))
    BY <1>2, SaidReady DEF Ready
  <2> QED
    BY <1>2, <2>1, <2>2, <2>3, RouteFacts
<1>3. CASE /\ node[r] = "tools"
           /\ tainted' = tainted
           /\ \E outcome \in Outcomes(state[r]) :
                \/ Checkpoint(r, Heard(state[r], outcome), "agent")
                \/ \E first, last \in Good(state[r], outcome) :
                     Checkpoint(r, Noted(state[r], outcome, first, last), "agent")
  <2>1. PICK outcome \in Outcomes(state[r]) :
          \/ Checkpoint(r, Heard(state[r], outcome), "agent")
          \/ \E first, last \in Good(state[r], outcome) :
               Checkpoint(r, Noted(state[r], outcome, first, last), "agent")
    BY <1>3
  <2> DEFINE h == Heard(state[r], outcome)
  <2>2. h \in ArdaState /\ WellFormed(h.messages) /\ h.pending = <<>>
    BY <1>0, <1>3, HeardType, HeardReady DEF Ready
  <2>3. ASSUME NEW first \in Good(state[r], outcome),
               NEW last \in Good(state[r], outcome)
        PROVE  /\ Noted(state[r], outcome, first, last) \in ArdaState
               /\ Noted(state[r], outcome, first, last).messages = h.messages
               /\ Noted(state[r], outcome, first, last).pending = h.pending
    <3>1. /\ Noted(state[r], outcome, first, last) \in ArdaState
          /\ Noted(state[r], outcome, first, last).messages = h.messages
      BY <1>0, NotedType
    <3>2. Noted(state[r], outcome, first, last).pending = h.pending
      BY <2>2 DEF Noted, ArdaState
    <3> QED
      BY <3>1, <3>2
  <2> HIDE DEF h
  <2>4. CASE Checkpoint(r, h, "agent")
    BY <1>3, <2>2, <2>4 DEF Ready
  <2>5. CASE \E first, last \in Good(state[r], outcome) :
               Checkpoint(r, Noted(state[r], outcome, first, last), "agent")
    <3>1. PICK first \in Good(state[r], outcome), last \in Good(state[r], outcome) :
            Checkpoint(r, Noted(state[r], outcome, first, last), "agent")
      BY <2>5
    <3>2. Ready(Noted(state[r], outcome, first, last), "agent")
      BY <2>2, <2>3 DEF Ready
    <3> QED
      BY <1>3, <2>3, <3>1, <3>2
  <2> QED
    BY <2>1, <2>4, <2>5 DEF h
<1> QED
  BY <1>1, <1>2, <1>3, GraphStepCases

LEMMA StartReady ==
  ASSUME Typed, NEW r \in Runs, Start(r), WellFormed(saved[thread[r]].messages)
  PROVE  Input(r) \in ArdaState /\ Ready(Input(r), "agent")
<1>1. Input(r) \in ArdaState /\ Input(r).pending = <<>>
  BY InputType DEF Typed
<1>2. saved[thread[r]].messages \in Seq(Message)
  BY DEF Typed, TypeOK, ArdaState
<1> DEFINE x == [role |-> "user", ids |-> {}]
<1>3. x \in Message /\ x.role # "assistant"
  BY DEF Message
<1>4. Input(r).messages = Append(saved[thread[r]].messages, x)
  BY DEF Input, Empty
<1> HIDE DEF x
<1>5. WellFormed(Input(r).messages)
  BY <1>2, <1>3, <1>4, WellFormedAppend
<1> QED
  BY <1>1, <1>5 DEF Ready

LEMMA StepUsable ==
  ASSUME Typed, Kept, Usable, [Next]_vars
  PROVE  Usable'
<1>1. ASSUME NEW r \in Runs, Start(r) \/ GraphStep(r)
      PROVE  Usable'
  <2> DEFINE t == thread[r]
  <2>0. t \in Threads /\ (GraphStep(r) => node[r] \in {"agent", "tools"})
    BY GraphStepCases DEF Typed, TypeOK
  <2>1. PICK s \in ArdaState, next \in {"agent", "tools", "end"} :
          /\ Checkpoint(r, s, next)
          /\ t \notin tainted' /\ Whole(t) => Ready(s, next)
    <3>1. CASE Start(r)
      <4>1. Input(r) \in ArdaState /\ Checkpoint(r, Input(r), "agent")
        BY <3>1, InputType DEF Start, Typed
      <4>2. t \notin tainted' => Active(t) = {} /\ t \notin tainted
        BY <3>1 DEF Start
      <4>3. t \notin tainted' /\ Whole(t) => Ready(Input(r), "agent")
        BY <2>0, <3>1, <4>2, StartReady DEF Usable
      <4> QED
        BY <4>1, <4>3
    <3>2. CASE GraphStep(r)
      <4>1. r \in Active(t)
        BY <2>0, <3>2 DEF Active
      <4>2. CASE t \notin tainted /\ Whole(t)
        <5>1. Ready(state[r], node[r])
          BY <2>0, <4>1, <4>2 DEF Usable
        <5> QED
          BY <3>2, <5>1, GraphReady
      <4>3. CASE ~(t \notin tainted /\ Whole(t))
        <5>1. tainted' = tainted
          BY <3>2, GraphStepCases
        <5> QED
          BY <1>1, <4>3, <5>1, Extends
      <4> QED
        BY <4>2, <4>3
    <3> QED
      BY <1>1, <3>1, <3>2
  <2>2. /\ thread' = thread /\ saved' = [saved EXCEPT ![t] = s] /\ saved'[t] = s
        /\ state'[r] = s /\ node'[r] = next
        /\ \A q \in Runs \ {r} : state'[q] = state[q] /\ node'[q] = node[q]
        /\ \A u \in Threads \ {t} : saved'[u] = saved[u]
    BY <2>0, <2>1 DEF Checkpoint, Typed, TypeOK
  <2>3. tainted \subseteq tainted' /\ node[r] # "end"
    BY <1>1, GraphStepCases DEF Start
  <2>4. \A u : Whole(u)' => Whole(u)
    BY <2>2, <2>3 DEF Whole, CutOff
  <2> SUFFICES ASSUME NEW u \in Threads, u \notin tainted', Whole(u)'
               PROVE  /\ Active(u)' = {} => WellFormed(saved'[u].messages)
                      /\ \A q \in Active(u)' : Ready(state'[q], node'[q])
    BY DEF Usable
  <2>5. u \notin tainted /\ Whole(u)
    BY <2>3, <2>4
  <2>6. CASE u # t
    <3>1. Active(u)' = Active(u) /\ \A q \in Active(u) : q \in Runs /\ q # r
      BY <2>2, <2>6 DEF Active
    <3> QED
      BY <2>2, <2>5, <2>6, <3>1 DEF Usable
  <2>7. CASE u = t
    <3>1. Ready(s, next)
      BY <2>1, <2>5, <2>7
    <3>2. Active(t) \subseteq {r}
      <4>1. CASE Start(r)
        BY <2>7, <4>1 DEF Start
      <4>2. CASE GraphStep(r)
        BY <2>0, <2>5, <2>7, <4>2 DEF Kept, Active
      <4> QED
        BY <1>1, <4>1, <4>2
    <3>3. Active(t)' \subseteq {r}
      BY <2>2, <3>2 DEF Active
    <3>4. Active(t)' = {} => next = "end"
      BY <2>2 DEF Active
    <3>5. next = "end" => s.pending = <<>>
      BY <2>2, <2>7 DEF Whole, CutOff
    <3> QED
      BY <2>2, <2>7, <3>1, <3>3, <3>4, <3>5 DEF Ready
  <2> QED
    BY <2>6, <2>7
<1>2. ASSUME UNCHANGED <<thread, saved, state>>, tainted \subseteq tainted',
             \A r \in Runs : thread[r] \notin tainted' => node'[r] = node[r]
      PROVE  Usable'
  <2> SUFFICES ASSUME NEW u \in Threads, u \notin tainted', Whole(u)'
               PROVE  /\ Active(u)' = {} => WellFormed(saved[u].messages)
                      /\ \A q \in Active(u)' : Ready(state[q], node'[q])
    BY <1>2 DEF Usable
  <2>1. Active(u)' = Active(u) /\ Whole(u) /\ u \notin tainted
    BY <1>2 DEF Active, Whole, CutOff
  <2> QED
    BY <1>2, <2>1 DEF Usable, Active
<1>3. CASE (\E r \in Runs : GraphFails(r)) \/ Crash \/ UNCHANGED vars
  <2>1. /\ UNCHANGED <<thread, saved, state>> /\ tainted \subseteq tainted'
        /\ \A r \in Runs : thread[r] \notin tainted' => node'[r] = node[r]
    BY <1>3 DEF GraphFails, Crash, vars, Active, Typed, TypeOK
  <2> QED
    BY <1>2, <2>1
<1> QED
  BY <1>1, <1>3 DEF Next

\* Between two runs of a thread whose runs do not overlap, are not lost and are
\* not cut off, every tool the model asked for has its answer in the
\* conversation: the model's API never refuses to continue it.
THEOREM ThreadsStayUsable == Spec => []ThreadUsable
<1>1. Init => Typed /\ Kept /\ Usable
  BY InitTyped, InitKept DEF Init, Usable, Active, Empty, WellFormed
<1>2. Typed /\ Kept /\ Usable /\ [Next]_vars => Typed' /\ Kept' /\ Usable'
  BY StepTyped, StepKept, StepUsable
<1>3. Usable => ThreadUsable
  BY DEF Usable, ThreadUsable, Whole
<1> QED
  BY <1>1, <1>2, <1>3, PTL DEF Spec
=============================================================================

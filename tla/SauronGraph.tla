----------------------------- MODULE SauronGraph -----------------------------
(***************************************************************************)
(* Sauron's LangGraph loop: agent_step calls the model, tool_dispatch runs *)
(* the tools it asked for, and the checkpointer keeps the graph's state    *)
(* per thread, so that a later run of the thread continues its             *)
(* conversation.                                                           *)
(*                                                                         *)
(* A run keeps the graph's state in memory and writes it to the            *)
(* checkpointer at the end of each node; runs of one thread may overlap,   *)
(* since nothing serialises them.                                          *)
(***************************************************************************)
EXTENDS Naturals, Sequences

CONSTANTS
  Runs,           \* calls of Sauron.run
  Threads,        \* thread ids
  Results,        \* statuses a specialist's AgentResult may have
  MaxIterations,  \* MAX_ITERATIONS
  MaxUses,        \* bound: tool_use blocks in one answer of the model
  MaxCrashes      \* bound: restarts of the API and errors of the checkpointer

ASSUME SauronAssumption ==
  /\ MaxIterations \in Nat \ {0} /\ MaxUses \in Nat \ {0} /\ MaxCrashes \in Nat
  /\ Results \subseteq {"completed", "failed", "queued"}

VARIABLES
  node,     \* run -> "new", "agent", "tools", "end", or "lost" (see below)
  thread,   \* run -> its thread
  state,    \* run -> the ArdaState it works on
  saved,    \* thread -> the latest checkpoint
  crashes,
  called,   \* bookkeeping: <<run, status>> of every specialist that answered
  tainted   \* bookkeeping: threads with overlapping or lost runs

vars == <<node, thread, state, saved, crashes, called, tainted>>

\* A tool_use: the iteration of the run that asked for it, and its position.
Uses == Runs \X (1..MaxIterations) \X (1..MaxUses)
NoUse == <<>>
NoResult == "none"

\* ids: the tools an assistant message asks for, or a user message answers.
Message == [role : {"user", "assistant", "results"}, ids : SUBSET Uses]

ArdaState ==
  [messages : Seq(Message), pending : Seq(Uses), intent : Uses \cup {NoUse},
   last : Results \cup {NoResult}, text : BOOLEAN, error : BOOLEAN,
   iterations : 0..MaxIterations]

Empty ==
  [messages |-> <<>>, pending |-> <<>>, intent |-> NoUse, last |-> NoResult,
   text |-> FALSE, error |-> FALSE, iterations |-> 0]

Active(t) == {r \in Runs : node[r] \in {"agent", "tools"} /\ thread[r] = t}

TypeOK ==
  /\ node \in [Runs -> {"new", "agent", "tools", "end", "lost"}]
  /\ thread \in [Runs -> Threads]
  /\ state \in [Runs -> ArdaState]
  /\ saved \in [Threads -> ArdaState]
  /\ crashes \in 0..MaxCrashes
  /\ called \subseteq Runs \X Results
  /\ tainted \subseteq Threads

Init ==
  /\ node = [r \in Runs |-> "new"]
  /\ thread \in [Runs -> Threads]
  /\ state = [r \in Runs |-> Empty]
  /\ saved = [t \in Threads |-> Empty]
  /\ crashes = 0 /\ called = {} /\ tainted = {}

\* The end of a node (or of reading the input): the run goes to `next`, and
\* what it knows becomes the thread's latest checkpoint.
Checkpoint(r, s, next) ==
  /\ state' = [state EXCEPT ![r] = s]
  /\ saved' = [saved EXCEPT ![thread[r]] = s]
  /\ node' = [node EXCEPT ![r] = next]
  /\ UNCHANGED <<thread, crashes>>

\* Variants: a run starts with the result of the thread's last one, or with
\* an empty conversation.
InputKeepsResult(r) ==
  [Empty EXCEPT !.messages = Append(saved[thread[r]].messages,
                                    [role |-> "user", ids |-> {}]),
                !.last = saved[thread[r]].last]
InputReplaces(r) ==
  [Empty EXCEPT !.messages = <<[role |-> "user", ids |-> {}]>>]

\* initial_state: messages are added to the thread's, the rest is replaced.
Input(r) ==
  [Empty EXCEPT !.messages = Append(saved[thread[r]].messages,
                                    [role |-> "user", ids |-> {}])]

Start(r) ==
  /\ node[r] = "new"
  /\ Checkpoint(r, Input(r), "agent")
  /\ tainted' = IF Active(thread[r]) = {} THEN tainted
                ELSE tainted \cup {thread[r]}
  /\ UNCHANGED called

-----------------------------------------------------------------------------
(* agent_step and route_after_agent.                                        *)

\* The Messages API refuses a conversation in which a tool_use is not answered
\* by the message that follows it.
WellFormed(messages) ==
  \A i \in 1..Len(messages) :
    messages[i].role = "assistant" /\ messages[i].ids # {} =>
      i < Len(messages) /\ messages[i + 1] = [role |-> "results",
                                              ids |-> messages[i].ids]

\* Variant: the bound is tested one iteration late.
RouteLate(s) ==
  IF ~s.error /\ s.pending # <<>> /\ s.iterations <= MaxIterations
  THEN "tools" ELSE "end"

Route(s) ==
  IF ~s.error /\ s.pending # <<>> /\ s.iterations < MaxIterations
  THEN "tools" ELSE "end"

\* Variant: a failed call is tried again for as long as it fails.
ModelFailsRetries(r) == node[r] = "agent" /\ UNCHANGED vars

ModelFails(r) ==
  LET s == [state[r] EXCEPT !.error = TRUE, !.iterations = @ + 1]
  IN /\ node[r] = "agent"
     /\ Checkpoint(r, s, Route(s))
     /\ UNCHANGED <<called, tainted>>

\* The model asks for n tools, with or without a text.  An error of the last
\* tool_dispatch is still in the state.
ModelAnswers(r, n, text) ==
  LET k == state[r].iterations + 1
      s == [state[r] EXCEPT
              !.messages = Append(@, [role |-> "assistant",
                                      ids |-> {<<r, k, i>> : i \in 1..n}]),
              !.pending = [i \in 1..n |-> <<r, k, i>>],
              !.text = @ \/ text,
              !.iterations = k]
  IN /\ node[r] = "agent"
     /\ WellFormed(state[r].messages)
     /\ Checkpoint(r, s, Route(s))
     /\ UNCHANGED <<called, tainted>>

-----------------------------------------------------------------------------
(* tool_dispatch.  outcome says how each pending tool ends: with a result,  *)
(* or it "raises", as an unknown tool does; "mute": the exception has no    *)
(* text, which leaves an error that nothing takes for one.                  *)

Outcomes(s) == [1..Len(s.pending) -> Results \cup {"raises", "mute"}]

\* Variant: no tool_result for a tool that raised.
AnsweredUnlessRaised(s, outcome) ==
  {s.pending[i] : i \in {k \in 1..Len(s.pending) : outcome[k] \in Results}}

Answered(s, outcome) == {s.pending[i] : i \in 1..Len(s.pending)}

\* The positions of the tools that returned a result.
Good(s, outcome) == {i \in 1..Len(s.pending) : outcome[i] \in Results}

\* The last exception is the error.
Erred(s, outcome) ==
  \E i \in 1..Len(s.pending) :
    /\ outcome[i] = "raises"
    /\ \A j \in i..Len(s.pending) : outcome[j] # "mute"

\* The model hears of every tool it asked for.
Heard(s, outcome) ==
  [s EXCEPT !.messages = Append(@, [role |-> "results",
                                    ids |-> Answered(s, outcome)]),
            !.pending = <<>>,
            !.error = Erred(s, outcome)]

\* The first tool that ever returned is the intent, the last one's result is
\* the result.
Dispatch(r, outcome) ==
  LET s == state[r]
      good == Good(s, outcome)
  IN /\ node[r] = "tools"
     /\ \/ /\ good = {}
           /\ Checkpoint(r, Heard(s, outcome), "agent")
        \/ \E first, last \in good :
             /\ \A i \in good : first <= i /\ i <= last
             /\ Checkpoint(r,
                  [Heard(s, outcome) EXCEPT
                     !.intent = IF @ = NoUse THEN s.pending[first] ELSE @,
                     !.last = outcome[last]],
                  "agent")
     /\ called' = called \cup {<<r, outcome[i]>> : i \in good}
     /\ UNCHANGED tainted

-----------------------------------------------------------------------------
\* The checkpointer raises: the run fails, and its node is not recorded.
GraphFails(r) ==
  /\ crashes < MaxCrashes /\ node[r] \in {"agent", "tools"}
  /\ crashes' = crashes + 1
  /\ tainted' = tainted \cup {thread[r]}
  /\ node' = [node EXCEPT ![r] = "lost"]
  /\ UNCHANGED <<thread, state, saved, called>>

\* The API restarts: its runs are gone, the checkpoints on disk are not.
Crash ==
  /\ crashes < MaxCrashes
  /\ crashes' = crashes + 1
  /\ tainted' = tainted \cup {t \in Threads : Active(t) # {}}
  /\ node' = [r \in Runs |-> IF node[r] \in {"agent", "tools"} THEN "lost"
                             ELSE node[r]]
  /\ UNCHANGED <<thread, state, saved, called>>

GraphStep(r) ==
  \/ ModelFails(r)
  \/ \E n \in 0..MaxUses, text \in BOOLEAN : ModelAnswers(r, n, text)
  \/ \E outcome \in Outcomes(state[r]) : Dispatch(r, outcome)

Next ==
  \/ \E r \in Runs : Start(r) \/ GraphStep(r) \/ GraphFails(r)
  \/ Crash

Spec == Init /\ [][Next]_vars

\* The model's client and the specialists answer or time out.
FairSpec == Spec /\ \A r \in Runs : WF_vars(GraphStep(r))

-----------------------------------------------------------------------------
\* The status of the AgentResult, from the state in which the graph ended.
StatusOf(s) ==
  IF s.last # NoResult THEN s.last
  ELSE IF s.text /\ ~s.error THEN "completed" ELSE "failed"

\* "completed" is never inherited: a specialist this very run called returned
\* it, or the run called none that answered and the model wrote a text, though
\* the thread's checkpoint holds the results of earlier runs
\* (sauron/agent.py:84-95 and 116-128).
CompletedIsOwn ==
  \A r \in Runs : node[r] = "end" /\ StatusOf(state[r]) = "completed" =>
    \/ <<r, "completed">> \in called
    \/ state[r].text /\ \A c \in called : c[1] # r

\* A run that was cut off left a tool_use unanswered.
CutOff(r) == node[r] = "end" /\ state[r].pending # <<>>

\* A thread can be continued: between two of its runs, unless one was cut off
\* by the bound or after a tool that failed, every tool_use of the conversation
\* is answered, failed and unknown tools included (graph.py:121-168).
ThreadUsable ==
  \A t \in Threads \ tainted :
    \/ Active(t) # {}
    \/ WellFormed(saved[t].messages)
    \/ \E r \in Runs : thread[r] = t /\ CutOff(r)

\* Cross-turn memory: what a run said and was told stays in the thread,
\* through all that later runs add to it (state.py:26, README.md:100).
TurnsKept ==
  \A r \in Runs : node[r] = "end" /\ thread[r] \notin tainted =>
    LET kept == saved[thread[r]].messages
        said == state[r].messages
    IN Len(said) <= Len(kept) /\ SubSeq(kept, 1, Len(said)) = said

\* Every run ends, whatever the model asks for and whatever fails, also on a
\* thread whose conversation the model refuses.
EveryRunEnds ==
  \A r \in Runs : node[r] = "agent" ~> node[r] \in {"end", "lost"}

\* "The conditional edge loops until Claude stops emitting tool_use (or
\* MAX_ITERATIONS is hit)" (graph.py:6-7), unless the call of the model fails.
LoopsUntilDone ==
  \A r \in Runs : CutOff(r) => state[r].iterations >= MaxIterations
=============================================================================

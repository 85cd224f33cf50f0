------------------------------- MODULE TomChat -------------------------------
(***************************************************************************)
(* Tom Bombadil's conversation: a mention on Discord, or a dispatch by     *)
(* Sauron, is one turn.  A turn passes the guards, reads preferences, long *)
(* term facts and the history of its scope, calls the model up to three    *)
(* times, writes history, preferences, drafts and facts, replies, and      *)
(* offers one pending draft, which a reaction of its author settles.       *)
(*                                                                         *)
(* All handlers of the bot run on one asyncio loop and use a synchronous   *)
(* Redis client, so what lies between two awaits is one step.  A dispatch  *)
(* runs in the API process under a viewer and a scope of its own.          *)
(***************************************************************************)
EXTENDS Integers, Sequences, FiniteSets, SequencesExt

CONSTANTS
  Turns, Users, Scopes, Names, NoName,
  None,         \* no turn yet, no draft, no override
  DispatchUser, DispatchScope,  \* "sauron-dispatch": the viewer and the scope
  Configured,   \* user -> [tier, name]: identity.yaml and the film database
  Overrides,    \* what /setrole may set
  Messages,     \* what the rules find in a text, see MessagesAssumption
  PrefValues,   \* what users type as the value of a preference
  Attempts,     \* max_attempts of the model's call
  HistoryMax,   \* HISTORY_MAX_TURNS
  MaxTokens,    \* RATE_LIMIT_MAX_TOKENS
  MaxFaults,    \* bound: Redis calls that fail or are resent, bot restarts
  MaxCommands   \* bound: slash commands

Named(v) == v.name # NoName

ASSUME ChatAssumption ==
  /\ DispatchUser \in Users /\ DispatchScope \in Scopes /\ NoName \notin Names
  /\ Configured \in [Users -> [tier : {"solomon", "regular", "stranger"},
                               name : Names \cup {NoName}]]
  /\ Overrides \subseteq [tier : {"solomon", "regular", "stranger"},
                           name : Names \cup {NoName}]
  /\ \A v \in Overrides \cup {Configured[u] : u \in Users} :
       v.tier = "stranger" <=> ~Named(v)
  /\ ~Named(Configured[DispatchUser])
  /\ Attempts \in Nat \ {0} /\ HistoryMax \in Nat \ {0} /\ MaxTokens \in Nat \ {0}
  /\ MaxFaults \in Nat /\ MaxCommands \in Nat

ASSUME MessagesAssumption ==
  Messages \subseteq [long : BOOLEAN, pref : {"none", "0", "1"}, drafts : 0..2,
                      fact : BOOLEAN]

VARIABLES
  pc, turn,           \* a turn's place in on_message, and what it has read
  tries, held,        \* calls of the model that failed; the draft it has popped
  history,            \* tom:hist:*: scope -> the last entries
  prefs,              \* tom:pref:*: user -> key -> value
  facts,              \* Finrod's documents of kind tom_fact
  override, banned,   \* tom:identity:*, tom:bans
  tokens,             \* tom:rl:*: whole tokens in a user's bucket
  pending, bound,     \* tom:drafts:scope:*, tom:draft:*
  cached,             \* prompts in discord.py's message cache
  saved,              \* bookkeeping: the notes save_note wrote for drafts
  outlived,           \* bookkeeping: drafts left bound after their note
  doubled,            \* bookkeeping: turns of which a draft was pushed twice
  promised,           \* bookkeeping: the last answer said do_not_log is on
  faults, commands    \* bounds

redis == <<history, prefs, override, banned, tokens, pending, bound>>
notes == <<saved, outlived, doubled>>
vars == <<pc, turn, tries, held, redis, facts, cached, notes, promised,
          faults, commands>>

PrefKeys == {"do_not_log", "suppress_films"}
Entry == [turn : Turns, role : {"user", "assistant"}]
Draft == [turn : Turns, k : 1..2, by : Users, name : Names]
Note == [draft : Draft, by : Users, again : BOOLEAN]
Viewer == [tier : {"solomon", "regular", "stranger"}, name : Names \cup {NoName}]
TurnRecord == [user : Users, scope : Scopes, viewer : Viewer, msg : Messages,
               optedOut : BOOLEAN, told : BOOLEAN]

ASSUME NoneAssumption == None \notin Draft /\ None \notin TurnRecord

TypeOK ==
  /\ pc \in [Turns -> {"idle", "recall", "llm", "reply", "offer", "marks", "done"}]
  /\ turn \in [Turns -> TurnRecord \cup {None}]
  /\ \A t \in Turns : pc[t] \in {"recall", "llm", "reply"} => turn[t] # None
  /\ tries \in [Turns -> 0..Attempts]
  /\ held \in [Turns -> Draft \cup {None}]
  /\ \A t \in Turns : held[t] # None <=> pc[t] \in {"offer", "marks"}
  /\ history \in [Scopes -> Seq(Entry)] /\ pending \in [Scopes -> Seq(Draft)]
  /\ \A s \in Scopes : Len(history[s]) <= 2 * HistoryMax
  /\ prefs \in [Users -> [PrefKeys -> {"unset", "0", "1", "yes"}]]
  /\ facts \subseteq [turn : Turns, name : Names]
  /\ override \in [Users -> Viewer \cup {None}] /\ banned \subseteq Users
  /\ tokens \in [Users -> 0..MaxTokens]
  /\ bound \in [Turns -> Draft \cup {None}] /\ cached \subseteq Turns
  /\ saved \subseteq Note /\ outlived \subseteq Draft /\ doubled \subseteq Turns
  /\ promised \in [Users -> BOOLEAN]
  /\ faults \in 0..MaxFaults
  /\ commands \in 0..MaxCommands

Init ==
  /\ pc = [t \in Turns |-> "idle"] /\ turn = [t \in Turns |-> None]
  /\ tries = [t \in Turns |-> 0] /\ held = [t \in Turns |-> None]
  /\ history = [s \in Scopes |-> <<>>] /\ pending = [s \in Scopes |-> <<>>]
  /\ prefs = [u \in Users |-> [k \in PrefKeys |-> "unset"]]
  /\ facts = {} /\ override = [u \in Users |-> None] /\ banned = {}
  /\ tokens = [u \in Users |-> MaxTokens]
  /\ bound = [t \in Turns |-> None] /\ cached = {}
  /\ saved = {} /\ outlived = {} /\ doubled = {}
  /\ promised = [u \in Users |-> FALSE]
  /\ faults = 0 /\ commands = 0

-----------------------------------------------------------------------------
(* Beginning a turn.  bad is the Redis call of the step that fails, or that *)
(* redis-py sends twice because its reply was lost; one whose failure or    *)
(* repetition would change nothing is left out.                             *)

GuardFaults == {"identity", "bans", "bucket", "spend", "prefs", "history"}
Repeats == {"draftTwice", "draft2Twice"}
TailFaults == Repeats \cup {"user", "assistant", "userTwice", "assistantTwice",
                            "pref", "draft", "draft2", "fact"}
ReplyFaults == {"reply", "popTwice", "popLost"}

Fault(bad) == /\ bad # "none" => faults < MaxFaults
              /\ faults' = IF bad = "none" THEN faults ELSE faults + 1

\* An override that cannot be read counts as none.
Resolve(u, bad) == IF override[u] # None /\ bad # "identity"
                   THEN override[u] ELSE Configured[u]

\* The bucket of u when the time since its last write gives gain tokens.
Level(u, gain) == IF tokens[u] + gain > MaxTokens THEN MaxTokens
                  ELSE tokens[u] + gain

\* A ban list or a bucket that cannot be read refuses nobody.
Refused(u, v, m, bad, gain) ==
  \/ u \in banned /\ bad # "bans"
  \/ m.long
  \/ /\ v.tier # "solomon" /\ bad # "bucket"
     /\ Level(u, gain) < 1

Admit(t, u, s, m, bad, gain) ==
  LET v == Resolve(u, bad)
      pays == v.tier # "solomon" /\ u # DispatchUser
  IN /\ pc[t] = "idle" /\ Fault(bad)
     /\ bad = "identity" => override[u] # None
     /\ bad = "bans" => u \in banned
     /\ bad = "bucket" => Level(u, gain) < 1
     /\ u # DispatchUser => ~Refused(u, v, m, bad, gain)
     /\ tokens' = IF pays /\ bad \notin {"bucket", "spend"}
                  THEN [tokens EXCEPT ![u] = Level(u, gain) - 1] ELSE tokens
     /\ turn' = [turn EXCEPT ![t] =
          [user |-> u, scope |-> s, viewer |-> v, msg |-> m,
           optedOut |-> prefs[u]["do_not_log"] = "1", told |-> promised[u]]]

Move(t, place) == pc' = [pc EXCEPT ![t] = place]

\* Variant: the list is trimmed one entry too late.
KeepOneMore(q) == IF Len(q) > 2 * HistoryMax + 1 THEN Tail(q) ELSE q

\* LTRIM key -2*HISTORY_MAX_TURNS -1, after each RPUSH.
Keep(q) == IF Len(q) > 2 * HistoryMax THEN Tail(q) ELSE q

Push(q, t, role) == Keep(Append(q, [turn |-> t, role |-> role]))

\* Variant: each entry has an exception handler of its own.
RememberEach(q, t, bad) ==
  IF bad = "user" THEN Push(q, t, "assistant")
  ELSE Push(Push(q, t, "user"), t, "assistant")

\* Two append_turn calls; the second is not tried when the first fails.
Remember(q, t, bad) ==
  CASE bad = "user" -> q
    [] bad = "assistant" -> Push(q, t, "user")
    [] bad = "userTwice" -> Push(Push(Push(q, t, "user"), t, "user"), t, "assistant")
    [] bad = "assistantTwice" ->
         Push(Push(Push(q, t, "user"), t, "assistant"), t, "assistant")
    [] OTHER -> Push(Push(q, t, "user"), t, "assistant")

\* What the rules find: a draft is only for a viewer with a name, and asking
\* not to hear of films is a fact of its own.
Found(tr) == [pref |-> tr.msg.pref,
              drafts |-> IF Named(tr.viewer) THEN tr.msg.drafts ELSE 0,
              fact |-> tr.msg.fact \/ tr.msg.pref = "1"]

\* The drafts _persist_facts queues, in the order prefs, drafts, facts.
Pushed(tr, bad) ==
  LET n == Found(tr).drafts
      all == [k \in 1..n |-> k]
  IN CASE bad \in {"pref", "draft"} -> <<>>
       [] bad = "draft2" /\ n > 1 -> <<1>>
       [] bad = "draftTwice" /\ n > 0 -> <<1>> \o all
       [] bad = "draft2Twice" /\ n > 1 -> all \o <<2>>
       [] OTHER -> all

\* Long-term memory is filed under the viewer's name.
RememberFact(t, tr) ==
  IF Named(tr.viewer) THEN facts \cup {[turn |-> t, name |-> tr.viewer.name]}
  ELSE facts

Extract(t, tr, bad) ==
  IF tr.optedOut THEN UNCHANGED <<prefs, pending, facts, doubled>> ELSE
  /\ prefs' = IF Found(tr).pref = "none" \/ bad = "pref" THEN prefs
              ELSE [prefs EXCEPT ![tr.user]["suppress_films"] = Found(tr).pref]
  /\ pending' = [pending EXCEPT ![tr.scope] = @ \o
       [i \in 1..Len(Pushed(tr, bad)) |->
          [turn |-> t, k |-> Pushed(tr, bad)[i], by |-> tr.user,
           name |-> tr.viewer.name]]]
  /\ doubled' = IF Len(Pushed(tr, bad)) > Found(tr).drafts THEN doubled \cup {t}
                ELSE doubled
  /\ facts' = IF Found(tr).fact /\ bad \notin {"pref", "draft", "draft2", "fact"}
              THEN RememberFact(t, tr) ELSE facts

\* A reply was produced: history and extraction, with no await that waits.
Answered(t, tr, bad) ==
  /\ history' = [history EXCEPT ![tr.scope] = Remember(@, t, bad)]
  /\ Extract(t, tr, bad)
  /\ Move(t, IF tr.user = DispatchUser THEN "done" ELSE "reply")

Refuse(t, u, s, m, bad, gain) ==
  /\ pc[t] = "idle" /\ u # DispatchUser /\ Fault(bad)
  /\ Refused(u, Resolve(u, bad), m, bad, gain)
  /\ Move(t, "done")
  /\ UNCHANGED <<turn, tries, held, redis, facts, cached, notes, promised,
                 commands>>

\* Nothing catches a failure to read the preferences or the history.
BeginFails(t, u, s, m, bad, gain) ==
  /\ Admit(t, u, s, m, bad, gain)
  /\ \/ bad = "prefs"
     \/ bad = "history" /\ ~Named(turn'[t].viewer)
  /\ Move(t, "done")
  /\ UNCHANGED <<tries, held, history, prefs, override, banned, pending, bound,
                 facts, cached, notes, promised, commands>>

\* recall_facts waits for Finrod, but only on behalf of a named viewer.
Begin(t, u, s, m, bad, gain) ==
  /\ Admit(t, u, s, m, bad, gain) /\ bad # "prefs"
  /\ \/ Named(turn'[t].viewer) /\ Move(t, "recall") /\ bad # "history"
     \/ /\ ~Named(turn'[t].viewer) /\ bad # "history"
        /\ u = DispatchUser \/ history[s] # <<>>
        /\ Move(t, "llm")
  /\ UNCHANGED <<tries, held, history, prefs, override, banned, pending, bound,
                 facts, cached, notes, promised, commands>>

\* A stranger's first words on Discord get the onboarding paragraph.
Onboard(t, u, s, m, bad, gain) ==
  /\ Admit(t, u, s, m, bad, gain) /\ bad \notin {"prefs", "history"}
  /\ ~Named(turn'[t].viewer) /\ u # DispatchUser /\ history[s] = <<>>
  /\ Answered(t, turn'[t], bad)
  /\ UNCHANGED <<tries, held, override, banned, bound, cached, saved, outlived,
                 promised, commands>>

Recalled(t, bad) ==
  /\ pc[t] = "recall" /\ Fault(bad)
  /\ Move(t, IF bad = "history" THEN "done" ELSE "llm")
  /\ UNCHANGED <<turn, tries, held, redis, facts, cached, notes, promised,
                 commands>>

-----------------------------------------------------------------------------
(* The model's answer, the reply, and the offer of a draft                 *)

LlmReplies(t, bad) ==
  /\ pc[t] = "llm" /\ Fault(bad)
  /\ bad \in {"draft", "draft2", "fact"} \cup Repeats =>
       Named(turn[t].viewer) /\ ~turn[t].optedOut
  /\ Answered(t, turn[t], bad) /\ tries' = [tries EXCEPT ![t] = 0]
  /\ UNCHANGED <<turn, held, override, banned, tokens, bound, cached,
                 saved, outlived, promised, commands>>

\* Variant: the attempts start over instead of running out.
AfterFailureForever(t) == [tries |-> (tries[t] + 1) % Attempts, over |-> FALSE]

AfterFailure(t) == [tries |-> tries[t] + 1, over |-> tries[t] + 1 = Attempts]

\* An empty answer ends the attempts, the last failure gives the canned error.
\* Neither is remembered, and the text is not searched.
LlmFails(t) ==
  /\ pc[t] = "llm"
  /\ \E empty \in BOOLEAN :
       LET over == empty \/ AfterFailure(t).over
       IN /\ tries' = [tries EXCEPT ![t] = IF over THEN 0 ELSE AfterFailure(t).tries]
          /\ Move(t, IF ~over THEN "llm"
                     ELSE IF turn[t].user = DispatchUser THEN "done" ELSE "reply")
  /\ UNCHANGED <<turn, held, redis, facts, cached, notes, promised,
                 faults, commands>>

\* message.reply returned: the oldest draft of the scope is popped.  A reply
\* that raises ends the turn; a pop that is resent loses the first draft and
\* takes the next, one that raises after Redis ran it only loses it.
Replied(t, bad) ==
  /\ pc[t] = "reply" /\ Fault(bad)
  /\ LET s == turn[t].scope
         q == IF bad \in {"popTwice", "popLost"} /\ pending[s] # <<>>
              THEN Tail(pending[s]) ELSE pending[s]
         offers == bad \in {"none", "popTwice"} /\ q # <<>>
     IN /\ Move(t, IF offers THEN "offer" ELSE "done")
        /\ pending' = [pending EXCEPT ![s] = IF offers THEN Tail(q) ELSE q]
        /\ held' = IF offers THEN [held EXCEPT ![t] = Head(q)] ELSE held
  /\ UNCHANGED <<turn, tries, history, prefs, override, banned, tokens, bound,
                 facts, cached, notes, promised, commands>>

\* The prompt is posted; the two reactions are still to be added.
Prompted(t) ==
  /\ pc[t] = "offer"
  /\ Move(t, "marks") /\ cached' = cached \cup {t}
  /\ UNCHANGED <<turn, tries, held, redis, facts, notes, promised,
                 faults, commands>>

\* Variant: the draft is bound to the viewer whose reply offered it.
StampedByTurn(t) == [held[t] EXCEPT !.by = turn[t].user]

Stamped(t) == held[t]

\* The HSET; that the EXPIRE after it may fail changes nothing more.
Bind(t) ==
  /\ pc[t] = "marks"
  /\ bound' = [bound EXCEPT ![t] = Stamped(t)]
  /\ held' = [held EXCEPT ![t] = None]
  /\ Move(t, "done")
  /\ UNCHANGED <<turn, tries, history, prefs, override, banned, tokens, pending,
                 facts, cached, notes, promised, faults, commands>>

\* Posting, a reaction or the HSET raises: the popped draft is gone.
OfferFails(t) ==
  /\ pc[t] \in {"offer", "marks"} /\ Fault("offer")
  /\ held' = [held EXCEPT ![t] = None]
  /\ Move(t, "done")
  /\ UNCHANGED <<turn, tries, redis, facts, cached, notes, promised, commands>>

Unbind(t) == bound' = [bound EXCEPT ![t] = None]

\* on_reaction_add: only for messages in the cache, and only the requester's.
MayReact(t, u) == t \in cached /\ bound[t] # None /\ bound[t].by = u

\* save_note wrote a note.  Its dedup key refuses a second one, but only for
\* the week in which the first was written, and while nobody deletes it.
SaveNote(t, u) ==
  saved' = saved \cup
    {[draft |-> bound[t], by |-> u,
      again |-> \E e \in saved : e.draft = bound[t]]}

\* Either emoji: save_note may refuse or fail, or was not asked for; the draft
\* is deleted all the same.
React(t, u) ==
  /\ MayReact(t, u) /\ Unbind(t)
  /\ SaveNote(t, u) \/ UNCHANGED saved
  /\ UNCHANGED <<pc, turn, tries, held, history, prefs, override, banned, tokens,
                 pending, facts, cached, outlived, doubled, promised, faults,
                 commands>>

\* The bot's process ends, and its turns where they are.
Stop ==
  LET mine == {t \in Turns : /\ pc[t] \notin {"idle", "done"}
                             /\ turn[t].user # DispatchUser}
  IN /\ pc' = [t \in Turns |-> IF t \in mine THEN "done" ELSE pc[t]]
     /\ held' = [t \in Turns |-> None] /\ cached' = {}

\* save_note has written the note, and delete_draft raises, or the container
\* restarts between the two: the draft stays bound to its prompt.  Nothing else
\* of the bot runs between them, there is no await.
ReactCutShort(t, u) ==
  /\ MayReact(t, u) /\ Fault("delete")
  /\ SaveNote(t, u) /\ outlived' = outlived \cup {bound[t]}
  /\ Stop \/ UNCHANGED <<pc, held, cached>>
  /\ UNCHANGED <<turn, tries, redis, facts, doubled, promised, commands>>

\* DRAFT_TTL_SECONDS pass.
ExpireDraft(t) ==
  /\ bound[t] # None /\ Unbind(t)
  /\ UNCHANGED <<pc, turn, tries, held, history, prefs, override, banned, tokens,
                 pending, facts, cached, notes, promised, faults, commands>>

ExpirePending(s) ==
  /\ pending[s] # <<>> /\ pending' = [pending EXCEPT ![s] = <<>>]
  /\ UNCHANGED <<pc, turn, tries, held, history, prefs, override, banned, tokens,
                 bound, facts, cached, notes, promised, faults, commands>>

-----------------------------------------------------------------------------
(* Slash commands: one step each.                                          *)

Command == commands < MaxCommands /\ commands' = commands + 1

ForgetFacts(v) ==
  IF Named(v) THEN {f \in facts : f.name # v.name} ELSE facts

Forget(u, s, what) ==
  /\ Command
  /\ history' = IF what \in {"short", "all"}
                THEN [history EXCEPT ![s] = <<>>] ELSE history
  /\ IF what \in {"prefs", "all"}
     THEN /\ prefs' = [prefs EXCEPT ![u] = [k \in PrefKeys |-> "unset"]]
          /\ promised' = [promised EXCEPT ![u] = FALSE]
     ELSE UNCHANGED <<prefs, promised>>
  /\ facts' = IF what \in {"long", "all"} THEN ForgetFacts(Resolve(u, "none"))
              ELSE facts
  /\ UNCHANGED <<pc, turn, tries, held, override, banned, tokens, pending, bound,
                 cached, notes, faults>>

\* Variant: any value is stored as it was typed, and confirmed.
NormalAny(value) == value

\* normalize_pref_value, and "clear": what is stored; "junk" is refused.
Normal(value) == CASE value = "yes" -> "1"
                   [] value \in {"no", "clear"} -> "unset"
                   [] OTHER -> "refused"

Setpref(u, key, value) ==
  /\ Command
  /\ IF Normal(value) = "refused" THEN UNCHANGED <<prefs, promised>> ELSE
     /\ prefs' = [prefs EXCEPT ![u][key] = Normal(value)]
     /\ promised' = IF key # "do_not_log" THEN promised
                    ELSE [promised EXCEPT ![u] = Normal(value) # "unset"]
  /\ UNCHANGED <<pc, turn, tries, held, history, override, banned, tokens,
                 pending, bound, facts, cached, notes, faults>>

\* /ban, /unban and /setrole: the owner only.
Govern(u, target) ==
  /\ Command /\ Resolve(u, "none").tier = "solomon"
  /\ \/ /\ banned' \in {banned \cup {target}, banned \ {target}}
        /\ UNCHANGED override
     \/ override' \in {[override EXCEPT ![target] = v] : v \in Overrides}
        /\ UNCHANGED banned
  /\ UNCHANGED <<pc, turn, tries, held, history, prefs, tokens, pending, bound,
                 facts, cached, notes, promised, faults>>

\* The commands of the bot that change what turns read: on behalf of the user
\* who gave them, in the scope where they were given.
SlashCommand(u) ==
  \/ \E s \in Scopes \ {DispatchScope}, what \in {"short", "prefs", "long", "all"} :
       Forget(u, s, what)
  \/ \E key \in PrefKeys, value \in PrefValues : Setpref(u, key, value)
  \/ \E target \in Users \ {DispatchUser} : Govern(u, target)

-----------------------------------------------------------------------------
\* The bot's container restarts.
Restart ==
  /\ Fault("restart") /\ Stop
  /\ cached # {} \/ pc' # pc
  /\ UNCHANGED <<turn, tries, redis, facts, notes, promised, commands>>

\* TomBombadil.run: a dispatch speaks as nobody's user in a scope of its own.
Speaks(u, s) == u = DispatchUser <=> s = DispatchScope

Next ==
  \/ \E t \in Turns, m \in Messages, u \in Users, s \in Scopes,
        gain \in 0..1 :
       /\ Speaks(u, s)
       /\ \/ \E bad \in GuardFaults \cup {"none"} :
               \/ Refuse(t, u, s, m, bad, gain) \/ BeginFails(t, u, s, m, bad, gain)
               \/ Begin(t, u, s, m, bad, gain)
          \/ \E bad \in GuardFaults \cup TailFaults \cup {"none"} :
               Onboard(t, u, s, m, bad, gain)
  \/ \E t \in Turns : \/ \E bad \in {"none", "history"} : Recalled(t, bad)
                      \/ \E bad \in TailFaults \cup {"none"} : LlmReplies(t, bad)
                      \/ LlmFails(t)
                      \/ \E bad \in ReplyFaults \cup {"none"} : Replied(t, bad)
                      \/ Prompted(t) \/ Bind(t) \/ OfferFails(t) \/ ExpireDraft(t)
                      \/ \E u \in Users : React(t, u) \/ ReactCutShort(t, u)
  \/ \E s \in Scopes : ExpirePending(s)
  \/ \E u \in Users \ {DispatchUser} : SlashCommand(u)
  \/ Restart

\* The loop runs on, the model's client has a timeout, and calls to Discord
\* return or raise.
Fairness == \A t \in Turns :
  /\ WF_vars(\E bad \in {"none", "history"} : Recalled(t, bad))
  /\ WF_vars(LlmFails(t) \/ \E bad \in TailFaults \cup {"none"} : LlmReplies(t, bad))
  /\ WF_vars(\E bad \in ReplyFaults \cup {"none"} : Replied(t, bad))
  /\ WF_vars(Prompted(t) \/ Bind(t) \/ OfferFails(t))

Spec == Init /\ [][Next]_vars /\ Fairness

-----------------------------------------------------------------------------
Queued == UNION {{s} \X (1..Len(pending[s])) : s \in Scopes}

Offered(d) == Cardinality({p \in Queued : pending[p[1]][p[2]] = d})
              + Cardinality({t \in Turns : held[t] = d})
Prompts(d) == Cardinality({t \in Turns : bound[t] = d})
Notes(d)   == Cardinality({e \in saved : e.draft = d})

LiveDrafts == (UNION {Range(pending[s]) : s \in Scopes}) \cup Range(held)
              \cup Range(bound) \cup {e.draft : e \in saved}

\* A rating found in a message is queued, held by one turn, bound to one
\* prompt or saved, once, and never two of these; whoever's turn offered it, it
\* carries its author's id and name, and only the author's reaction saves it.
\* If the deletion of a saved draft failed, or the bot died before it, the
\* draft may still be bound to its one prompt, and be saved again from there,
\* but it is not offered to anybody any more.  A draft of which Redis was sent
\* the RPUSH twice is offered twice.
DraftsSettleOnce ==
  /\ \A d \in LiveDrafts \ {None} :
       /\ d.by = turn[d.turn].user /\ d.name = turn[d.turn].viewer.name
       /\ d.turn \notin doubled =>
            \/ Offered(d) + Prompts(d) + Notes(d) = 1
            \/ d \in outlived /\ Offered(d) = 0 /\ Prompts(d) <= 1
  /\ \A e \in saved : e.by = e.draft.by

\* An assistant's entry follows the message it answers, whatever other turns,
\* /forget and failed writes did in between, or its own copy, when its RPUSH
\* was sent twice; only the oldest entry may have lost its question to the trim.
HistoryPaired ==
  \A s \in Scopes : \A i \in 2..Len(history[s]) :
    history[s][i].role = "assistant" =>
      history[s][i - 1] \in {[turn |-> history[s][i].turn, role |-> "user"],
                            history[s][i]}

\* Of a turn that began after its author was told that do_not_log is on,
\* there is no fact and no draft anywhere: not by a value that was stored but
\* reads as off, nor by a preference that could not be read.
ConsentKept ==
  \A t \in Turns : turn[t] # None /\ turn[t].told =>
    /\ \A f \in facts : f.turn # t
    /\ \A d \in LiveDrafts \ {None} : d.turn # t

\* Every mention and every dispatch comes to its end: three attempts at most,
\* and no wait that nobody ends.
EveryTurnEnds == \A t \in Turns : pc[t] # "idle" ~> pc[t] = "done"
=============================================================================

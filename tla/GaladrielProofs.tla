--------------------------- MODULE GaladrielProofs ---------------------------
(***************************************************************************)
(* Theorems about Galadriel, for any number of workers, jobs, clients and   *)
(* crashes: a job has one holder, an at job is started once, a due time is  *)
(* not overwritten and no job is left behind; and with one worker no       *)
(* occurrence is started twice.                                            *)
(***************************************************************************)
EXTENDS Galadriel, TLAPS

USE DEF Actors

LEMMA NextRunType ==
  ASSUME NEW j \in Jobs, NEW t \in Nat
  PROVE  NextRun(j, t) \in Time
<1>1. CASE j \in OneShot
  BY <1>1, NumbersAssumption DEF NextRun, Time
<1>2. CASE j \notin OneShot
  <2>1. t \div Period \in Nat
    BY NumbersAssumption
  <2>2. \A n \in Nat : (n + 1) * Period \in Nat
    BY NumbersAssumption
  <2> QED
    BY <1>2, <2>1, <2>2 DEF NextRun, Time
<1> QED
  BY <1>1, <1>2

LEMMA SaveType ==
  ASSUME NEW j \in Jobs, NEW rec \in Record
  PROVE  /\ Save(j, rec) \in Seq(Command)
         /\ Len(Save(j, rec)) = 2
         /\ Save(j, rec)[1] = Set(j, rec)
         /\ Save(j, rec)[2] = IF rec.next # NoTime /\ rec.enabled
                              THEN ZAdd(j, rec) ELSE ZRem(j)
<1>1. Set(j, rec) \in Command /\ ZAdd(j, rec) \in Command
  BY DEF Set, ZAdd, Command
<1>2. ZRem(j) \in Command
  BY DEF ZRem, Command
<1> QED
  BY <1>1, <1>2 DEF Save

LEMMA DeleteType ==
  ASSUME NEW j \in Jobs
  PROVE  /\ Delete(j) \in Seq(Command)
         /\ Len(Delete(j)) = 2
         /\ Delete(j)[1] = Del(j)
         /\ Delete(j)[2] = ZRem(j)
<1>1. Del(j) \in Command /\ ZRem(j) \in Command
  BY DEF Del, ZRem, Command
<1> QED
  BY <1>1 DEF Delete

LEMMA CreatedRecord ==
  ASSUME TypeOK, NEW j \in Jobs, NEW enabled \in BOOLEAN
  PROVE  [enabled |-> enabled, next |-> NextRun(j, now)] \in Record
<1>1. NextRun(j, now) \in Time
  BY NextRunType, NumbersAssumption DEF TypeOK
<1> QED
  BY <1>1 DEF Record

LEMMA RescheduleType ==
  ASSUME TypeOK, NEW j \in Jobs
  PROVE  Reschedule(j) \in Seq(Command)
<1>1. [enabled |-> FALSE, next |-> NoTime] \in Record
  BY DEF Record, Time
<1>2. [enabled |-> TRUE, next |-> NextRun(j, now)] \in Record
  BY CreatedRecord
<1> QED
  BY <1>1, <1>2, SaveType, DeleteType DEF Reschedule

CurOK == \A w \in Workers : wpc[w] \in {"read", "running"} => cur[w] \in Jobs

LEMMA ApplyType ==
  ASSUME TypeOK, NEW cmd \in Command, Apply(cmd)
  PROVE  /\ blob' \in [Jobs -> Record \cup {NoJob}]
         /\ zset' \in [Jobs -> Time]
<1>1. CASE cmd.op = "set"
  BY <1>1 DEF Apply, Command, TypeOK
<1>2. CASE cmd.op = "zadd"
  BY <1>2 DEF Apply, Command, TypeOK, Record
<1>3. CASE cmd.op = "zrem"
  BY <1>3 DEF Apply, Command, TypeOK, Time
<1>4. CASE cmd.op = "del"
  BY <1>4 DEF Apply, Command, TypeOK
<1> QED
  BY <1>1, <1>2, <1>3, <1>4 DEF Command

LEMMA InitType == Init => TypeOK /\ CurOK
BY NumbersAssumption DEF Init, TypeOK, CurOK, Time

LEMMA WriteType ==
  ASSUME TypeOK, CurOK, NEW c \in Clients, NEW cmds \in Seq(Command),
         Write(c, cmds), created' \subseteq Jobs, raced' \subseteq Seeded
  PROVE  TypeOK' /\ CurOK'
BY DEF TypeOK, CurOK, Write, store, work

LEMMA ClientType ==
  ASSUME TypeOK, CurOK, NEW c \in Clients, ClientStep(c)
  PROVE  TypeOK' /\ CurOK'
<1>1. CASE \E j \in Jobs, enabled \in BOOLEAN : Create(c, j, enabled)
  <2>1. PICK j \in Jobs, enabled \in BOOLEAN : Create(c, j, enabled)
    BY <1>1
  <2>2. Save(j, [enabled |-> enabled, next |-> NextRun(j, now)])
          \in Seq(Command)
    BY CreatedRecord, SaveType
  <2> QED
    BY <2>1, <2>2, WriteType DEF Create, TypeOK
<1>2. CASE \E j \in Jobs : ScheduleParty(c, j)
  <2>1. PICK j \in Jobs : ScheduleParty(c, j)
    BY <1>2
  <2>2. Save(j, [enabled |-> TRUE, next |-> NextRun(j, now)])
          \in Seq(Command)
    BY CreatedRecord, SaveType
  <2> QED
    BY <2>1, <2>2, WriteType DEF ScheduleParty, TypeOK
<1>3. CASE \E j \in Jobs : Remove(c, j)
  BY <1>3, DeleteType, WriteType DEF Remove, TypeOK
<1>4. CASE \E j \in Jobs : Seed(c, j)
  <2>1. PICK j \in Jobs : Seed(c, j)
    BY <1>4
  <2>2. Save(j, [enabled |-> TRUE, next |-> NextRun(j, now)])
          \in Seq(Command)
    BY CreatedRecord, SaveType
  <2>3. raced' \subseteq Seeded
    BY <2>1 DEF Seed, NoteRace, TypeOK
  <2> QED
    BY <2>1, <2>2, <2>3, WriteType DEF Seed, TypeOK
<1> QED
  BY <1>1, <1>2, <1>3, <1>4 DEF ClientStep

LEMMA WorkerType ==
  ASSUME TypeOK, CurOK, NEW w \in Workers, WorkerStep(w)
  PROVE  TypeOK' /\ CurOK'
<1>1. CASE Scan(w)
  <2>1. PICK S \in SUBSET Due(now) :
          /\ cand' = [cand EXCEPT ![w] = S]
          /\ wpc' = [wpc EXCEPT ![w] = IF S = {} THEN "poll" ELSE "claim"]
    BY <1>1 DEF Scan
  <2>2. S \subseteq Jobs
    BY DEF Due
  <2> QED
    BY <1>1, <2>1, <2>2 DEF Scan, TypeOK, CurOK, store, hist, marks
<1>2. CASE \E j \in Jobs : Claim(w, j)
  BY <1>2 DEF Claim, TypeOK, CurOK, Time, hist, marks
<1>3. CASE \E j \in Jobs : Lose(w, j)
  BY <1>3 DEF Lose, AfterClaim, TypeOK, CurOK, store, hist, marks
<1>4. CASE Read(w)
  <2>1. Claimed(cur[w]) \subseteq Jobs \X Time
    BY <1>4 DEF Read, Claimed, TypeOK, CurOK, Record
  <2> QED
    BY <1>4, <2>1 DEF Read, AfterClaim, TypeOK, CurOK, store, hist, marks
<1>5. CASE \E e \in batch[w] : Run(w, e[1], e[2])
  <2>1. PICK e \in batch[w] : Run(w, e[1], e[2])
    BY <1>5
  <2>2. e \in Jobs \X Time
    BY DEF TypeOK
  <2> QED
    BY <2>1, <2>2 DEF Run, TypeOK, CurOK, store, marks
<1>6. CASE Finish(w)
  <2>1. Reschedule(cur[w]) \in Seq(Command)
    BY <1>6, RescheduleType DEF Finish, CurOK
  <2> QED
    BY <1>6, <2>1 DEF Finish, TypeOK, CurOK, store, hist, marks
<1> QED
  BY <1>1, <1>2, <1>3, <1>4, <1>5, <1>6 DEF WorkerStep

LEMMA ExecuteType ==
  ASSUME TypeOK, CurOK, NEW a \in Actors, Execute(a)
  PROVE  TypeOK' /\ CurOK'
<1>1. todo[a] \in Seq(Command) /\ todo[a] # <<>>
  BY DEF Execute, TypeOK
<1>2. Head(todo[a]) \in Command /\ Tail(todo[a]) \in Seq(Command)
  BY <1>1
<1>3. /\ blob' \in [Jobs -> Record \cup {NoJob}]
      /\ zset' \in [Jobs -> Time]
  BY <1>2, ApplyType DEF Execute
<1>4. cancelled' \subseteq Jobs
  BY <1>2 DEF Execute, Cancelled, TypeOK, Command
<1>5. /\ wpc' \in [Workers -> {"poll", "claim", "read", "run", "running",
                               "save"}]
      /\ \A w \in Workers : wpc'[w] \in {"read", "running"} => wpc'[w] = wpc[w]
  BY DEF Execute, AfterSave, TypeOK
<1> QED
  BY <1>2, <1>3, <1>4, <1>5 DEF Execute, TypeOK, CurOK, marks

LEMMA FailureType ==
  ASSUME TypeOK, CurOK, Failure
  PROVE  TypeOK' /\ CurOK'
<1>1. CASE \E a \in Actors : ExecuteRetried(a)
  <2>1. PICK a \in Actors : ExecuteRetried(a)
    BY <1>1
  <2>2. Head(todo[a]) \in Command
    BY <2>1 DEF ExecuteRetried, TypeOK
  <2>3. /\ blob' \in [Jobs -> Record \cup {NoJob}]
        /\ zset' \in [Jobs -> Time]
    BY <2>1, <2>2, ApplyType DEF ExecuteRetried
  <2>4. cancelled' \subseteq Jobs
    BY <2>1, <2>2 DEF ExecuteRetried, Cancelled, TypeOK, Command
  <2> QED
    BY <2>1, <2>3, <2>4, NumbersAssumption
    DEF ExecuteRetried, TypeOK, CurOK, work, Command
<1>2. CASE \E w \in Workers, j \in Jobs : ClaimRetried(w, j)
  BY <1>2, NumbersAssumption
  DEF ClaimRetried, AfterClaim, TypeOK, CurOK, Time, hist, marks
<1>3. CASE \E w \in Workers : WorkerAbort(w)
  BY <1>3, NumbersAssumption DEF WorkerAbort, TypeOK, CurOK, store, hist, marks
<1>4. CASE \E c \in Clients : ClientAbort(c)
  BY <1>4, NumbersAssumption DEF ClientAbort, TypeOK, CurOK, store, work, hist, marks
<1> QED
  BY <1>1, <1>2, <1>3, <1>4 DEF Failure

LEMMA StepType == TypeOK /\ CurOK /\ [Next]_vars => TypeOK' /\ CurOK'
<1> SUFFICES ASSUME TypeOK, CurOK, [Next]_vars
             PROVE  TypeOK' /\ CurOK'
  OBVIOUS
<1>1. CASE \E c \in Clients : ClientStep(c)
  BY <1>1, ClientType
<1>2. CASE \E w \in Workers : WorkerStep(w)
  BY <1>2, WorkerType
<1>3. CASE \E a \in Actors : Execute(a)
  BY <1>3, ExecuteType
<1>4. CASE Failure
  BY <1>4, FailureType
<1>5. CASE Tick
  BY <1>5, NumbersAssumption DEF Tick, TypeOK, CurOK, store, work, hist, marks
<1>6. CASE UNCHANGED vars
  BY <1>6 DEF vars, TypeOK, CurOK
<1> QED
  BY <1>1, <1>2, <1>3, <1>4, <1>5, <1>6 DEF Next

\* Every variable keeps the type the code gives it: what a worker runs is a
\* job, what is sent to Redis is one of the commands of a save or a delete.
THEOREM TypeCorrect == Spec => []TypeOK
<1>1. Init => TypeOK /\ CurOK
  BY InitType
<1>2. TypeOK /\ CurOK /\ [Next]_vars => (TypeOK /\ CurOK)'
  BY StepType
<1> QED
  BY <1>1, <1>2, PTL DEF Spec

-----------------------------------------------------------------------------
(* The inductive invariant behind OneHolder and OneShotOnce: the right to   *)
(* run a job is one token, which is in the queue, or with one worker, or in *)
(* the last command of one save.                                            *)

\* The commands of a script are about one job, a save ends with its ZADD, and
\* only workers that save have commands to send.
TodoOK ==
  /\ \A a \in Actors : \A i \in 1..Len(todo[a]) :
        /\ todo[a][i].op = "zadd" => i = Len(todo[a])
        /\ todo[a][i].job = todo[a][1].job
  /\ \A w \in Workers : todo[w] # <<>> => wpc[w] = "save"

\* A worker has a job in one place, and in its batch once.
HoldsOnce ==
  \A w \in Workers, j \in Jobs : ~Disturbed(j) =>
    /\ wpc[w] \in {"read", "running"} /\ cur[w] = j =>
         \A e \in batch[w] : e[1] # j
    /\ WillQueue(w, j) => \A e \in batch[w] : e[1] # j
    /\ \A e, f \in batch[w] : e[1] = j /\ f[1] = j => e = f

Untouched(j) == zset[j] = NoTime /\ \A a \in Actors : ~Holds(a, j)

\* A job nobody has created has no token.
Fresh == \A j \in Jobs \ Seeded : j \notin created => Untouched(j)

Custody == OneHolder /\ HoldsOnce /\ Fresh

\* What is disturbed once stays so.
Grow == \A j : Disturbed(j) => Disturbed(j)'

LEMMA GhostsGrow ==
  ASSUME [Next]_vars
  PROVE  /\ cancelled \subseteq cancelled' /\ created \subseteq created'
         /\ raced \subseteq raced' /\ resent \subseteq resent' /\ Grow
<1>1. /\ cancelled \subseteq cancelled' /\ created \subseteq created'
      /\ raced \subseteq raced' /\ resent \subseteq resent'
  BY DEF Next, ClientStep, WorkerStep, Create, ScheduleParty, Remove, Seed, Write,
         NoteRace, Scan, Claim, Lose, Read, Run, Finish, Execute, Failure,
         ExecuteRetried, ClaimRetried, WorkerAbort, ClientAbort, Tick, vars,
         Cancelled, hist, marks
<1> QED
  BY <1>1 DEF Grow, Disturbed

LEMMA CommandFields ==
  ASSUME NEW j, NEW rec
  PROVE  /\ Set(j, rec).op = "set" /\ Set(j, rec).job = j
         /\ Set(j, rec).rec = rec
         /\ ZAdd(j, rec).op = "zadd" /\ ZAdd(j, rec).job = j
         /\ ZRem(j).op = "zrem" /\ ZRem(j).job = j
         /\ Del(j).op = "del" /\ Del(j).job = j
BY DEF Set, ZAdd, ZRem, Del

LEMMA SaveShape ==
  ASSUME NEW j \in Jobs, NEW rec \in Record
  PROVE  /\ Len(Save(j, rec)) = 2
         /\ Save(j, rec)[1].op = "set" /\ Save(j, rec)[1].job = j
         /\ Save(j, rec)[1].rec = rec
         /\ Save(j, rec)[2].op \in {"zadd", "zrem"} /\ Save(j, rec)[2].job = j
         /\ rec.next = NoTime => Save(j, rec)[2].op = "zrem"
<1>1. CASE rec.next # NoTime /\ rec.enabled
  <2>1. Save(j, rec)[2] = ZAdd(j, rec)
    BY <1>1, SaveType
  <2> QED
    BY <1>1, <2>1, SaveType, CommandFields
<1>2. CASE ~(rec.next # NoTime /\ rec.enabled)
  <2>1. Save(j, rec)[2] = ZRem(j)
    BY <1>2, SaveType
  <2> QED
    BY <1>2, <2>1, SaveType, CommandFields
<1> QED
  BY <1>1, <1>2

LEMMA DeleteShape ==
  ASSUME NEW j \in Jobs
  PROVE  /\ Len(Delete(j)) = 2
         /\ Delete(j)[1].op = "del" /\ Delete(j)[1].job = j
         /\ Delete(j)[2].op = "zrem" /\ Delete(j)[2].job = j
<1>1. Delete(j)[1] = Del(j) /\ Delete(j)[2] = ZRem(j) /\ Len(Delete(j)) = 2
  BY DeleteType
<1> QED
  BY <1>1, CommandFields

LEMMA RescheduleShape ==
  ASSUME TypeOK, NEW j \in Jobs
  PROVE  /\ Len(Reschedule(j)) = 2
         /\ Reschedule(j)[1].op \in {"set", "del"}
         /\ Reschedule(j)[2].op \in {"zadd", "zrem"}
         /\ Reschedule(j)[1].job = j /\ Reschedule(j)[2].job = j
         /\ Reschedule(j)[1].op = "del" => j \in OneShot
         /\ j \in OneShot => Reschedule(j)[2].op = "zrem"
<1>1. [enabled |-> FALSE, next |-> NoTime] \in Record
  BY DEF Record, Time
<1>2. [enabled |-> TRUE, next |-> NextRun(j, now)] \in Record
  BY CreatedRecord
<1>3. CASE j \in DeleteAfterRun
  <2>1. Reschedule(j) = Delete(j)
    BY <1>3 DEF Reschedule
  <2> QED
    BY <1>3, <2>1, DeleteShape, JobsAssumption
<1>4. CASE j \in OneShot \ DeleteAfterRun
  <2> DEFINE rec == [enabled |-> FALSE, next |-> NoTime]
  <2>1. Reschedule(j) = Save(j, rec) /\ rec.next = NoTime
    BY <1>4 DEF Reschedule
  <2>2. rec \in Record
    BY <1>1
  <2> HIDE DEF rec
  <2> QED
    BY <1>4, <2>1, <2>2, SaveShape
<1>5. CASE j \notin OneShot
  <2> DEFINE rec == [enabled |-> TRUE, next |-> NextRun(j, now)]
  <2>1. Reschedule(j) = Save(j, rec)
    BY <1>5, JobsAssumption DEF Reschedule
  <2>2. rec \in Record
    BY <1>2
  <2> HIDE DEF rec
  <2> QED
    BY <1>5, <2>1, <2>2, SaveShape
<1> QED
  BY <1>3, <1>4, <1>5

\* What is left after the first command.
LEMMA TailShape ==
  ASSUME TypeOK, NEW a \in Actors, Execute(a)
  PROVE  /\ todo[a] \in Seq(Command) /\ Len(todo[a]) \in Nat \ {0}
         /\ Head(todo[a]) = todo[a][1] /\ todo[a][1] \in Command
         /\ todo'[a] = Tail(todo[a])
         /\ Len(todo'[a]) = Len(todo[a]) - 1
         /\ \A i \in 1..Len(todo'[a]) : todo'[a][i] = todo[a][i + 1]
         /\ \A b \in Actors : b # a => todo'[b] = todo[b]
BY DEF Execute, TypeOK

LEMMA InitTodo == Init => TodoOK
BY DEF Init, TodoOK

LEMMA ClientTodo ==
  ASSUME TypeOK, TodoOK, NEW c \in Clients, ClientStep(c)
  PROVE  TodoOK'
<1> DEFINE Good(cmds) == /\ Len(cmds) = 2
                         /\ cmds[1].op # "zadd" /\ cmds[2].job = cmds[1].job
<1>1. ASSUME NEW cmds, Good(cmds), Write(c, cmds)
      PROVE  TodoOK'
  <2>1. todo' = [todo EXCEPT ![c] = cmds] /\ wpc' = wpc
    BY <1>1 DEF Write, work
  <2>2. \A w \in Workers : todo'[w] = todo[w]
    BY <2>1, ActorsAssumption DEF TypeOK
  <2>3. todo'[c] = cmds /\ \A a \in Actors : a # c => todo'[a] = todo[a]
    BY <2>1 DEF TypeOK
  <2>4. \A i \in 1..Len(cmds) : /\ cmds[i].op = "zadd" => i = Len(cmds)
                                /\ cmds[i].job = cmds[1].job
    <3>1. \A i \in 1..Len(cmds) : i = 1 \/ i = 2
      BY <1>1
    <3> QED
      BY <1>1, <3>1
  <2> HIDE DEF Good
  <2> QED
    BY <2>1, <2>2, <2>3, <2>4 DEF TodoOK
<1>2. ASSUME NEW j \in Jobs, NEW rec \in Record, Write(c, Save(j, rec))
      PROVE  TodoOK'
  <2>1. Good(Save(j, rec))
    BY SaveShape
  <2> QED
    BY <1>1, <1>2, <2>1
<1>3. CASE \E j \in Jobs, enabled \in BOOLEAN : Create(c, j, enabled)
  BY <1>2, <1>3, CreatedRecord DEF Create
<1>4. CASE \E j \in Jobs : ScheduleParty(c, j)
  BY <1>2, <1>4, CreatedRecord DEF ScheduleParty
<1>5. CASE \E j \in Jobs : Remove(c, j)
  <2>1. PICK j \in Jobs : Remove(c, j)
    BY <1>5
  <2>2. Good(Delete(j))
    BY DeleteShape
  <2> QED
    BY <1>1, <2>1, <2>2 DEF Remove
<1>6. CASE \E j \in Jobs : Seed(c, j)
  BY <1>2, <1>6, CreatedRecord DEF Seed
<1> QED
  BY <1>3, <1>4, <1>5, <1>6 DEF ClientStep

LEMMA WorkerTodo ==
  ASSUME TypeOK, CurOK, TodoOK, NEW w \in Workers, WorkerStep(w)
  PROVE  TodoOK'
<1>1. CASE Scan(w)
  BY <1>1 DEF Scan, TodoOK, TypeOK
<1>2. CASE \E j \in Jobs : Claim(w, j)
  <2>1. /\ todo' = todo /\ wpc[w] = "claim"
        /\ \A v \in Workers : v # w => wpc'[v] = wpc[v]
    BY <1>2 DEF Claim, TypeOK
  <2> QED
    BY <2>1 DEF TodoOK
<1>3. CASE \E j \in Jobs : Lose(w, j)
  BY <1>3 DEF Lose, AfterClaim, TodoOK, TypeOK
<1>4. CASE Read(w)
  BY <1>4 DEF Read, AfterClaim, TodoOK, TypeOK
<1>5. CASE \E e \in batch[w] : Run(w, e[1], e[2])
  BY <1>5 DEF Run, TodoOK, TypeOK
<1>6. CASE Finish(w)
  <2>1. cur[w] \in Jobs
    BY <1>6 DEF Finish, CurOK
  <2>2. /\ todo'[w] = Reschedule(cur[w])
        /\ \A a \in Actors : a # w => todo'[a] = todo[a]
        /\ wpc'[w] = "save"
        /\ \A v \in Workers : v # w => wpc'[v] = wpc[v]
    BY <1>6 DEF Finish, TypeOK
  <2>3. \A i \in 1..Len(todo'[w]) :
          /\ todo'[w][i].op = "zadd" => i = Len(todo'[w])
          /\ todo'[w][i].job = todo'[w][1].job
    <3> DEFINE cmds == Reschedule(cur[w])
    <3>1. /\ Len(cmds) = 2 /\ cmds[1].op \in {"set", "del"}
          /\ cmds[1].job = cmds[2].job
      BY <2>1, RescheduleShape
    <3>2. todo'[w] = cmds
      BY <2>2
    <3> HIDE DEF cmds
    <3>3. \A i \in 1..Len(cmds) : i = 1 \/ i = 2
      BY <3>1
    <3> QED
      BY <3>1, <3>2, <3>3
  <2> QED
    BY <2>2, <2>3 DEF TodoOK
<1> QED
  BY <1>1, <1>2, <1>3, <1>4, <1>5, <1>6 DEF WorkerStep

LEMMA ExecuteTodo ==
  ASSUME TypeOK, TodoOK, NEW a \in Actors, Execute(a)
  PROVE  TodoOK'
<1>1. ASSUME NEW i \in 1..Len(todo'[a])
      PROVE  /\ todo'[a][i].op = "zadd" => i = Len(todo'[a])
             /\ todo'[a][i].job = todo'[a][1].job
  <2>1. /\ i + 1 \in 1..Len(todo[a]) /\ todo'[a][i] = todo[a][i + 1]
        /\ 1 \in 1..Len(todo'[a])
    BY TailShape
  <2>2. 2 \in 1..Len(todo[a]) /\ todo'[a][1] = todo[a][1 + 1] /\ 1 + 1 = 2
    BY <2>1, TailShape
  <2>3. todo[a][i + 1].job = todo[a][1].job /\ todo[a][2].job = todo[a][1].job
    BY <2>1, <2>2 DEF TodoOK
  <2>4. todo[a][i + 1].op = "zadd" => i + 1 = Len(todo[a])
    BY <2>1 DEF TodoOK
  <2> QED
    BY <2>1, <2>2, <2>3, <2>4, TailShape
<1>2. \A w \in Workers : todo'[w] # <<>> => wpc'[w] = "save"
  <2> SUFFICES ASSUME NEW w \in Workers, todo'[w] # <<>>
               PROVE  wpc'[w] = "save"
    OBVIOUS
  <2>1. CASE w = a
    <3>1. Len(todo[a]) # 1
      BY <2>1, TailShape
    <3> QED
      BY <2>1, <3>1 DEF Execute, AfterSave, TodoOK
  <2>2. CASE w # a
    BY <2>2, TailShape DEF Execute, AfterSave, TodoOK
  <2> QED
    BY <2>1, <2>2
<1>3. \A b \in Actors : b # a => todo'[b] = todo[b]
  BY TailShape
<1> QED
  BY <1>1, <1>2, <1>3 DEF TodoOK

LEMMA FailureTodo ==
  ASSUME TypeOK, TodoOK, Failure
  PROVE  TodoOK'
<1>1. CASE \E a \in Actors : ExecuteRetried(a)
  BY <1>1 DEF ExecuteRetried, TodoOK, work
<1>2. CASE \E w \in Workers, j \in Jobs : ClaimRetried(w, j)
  BY <1>2 DEF ClaimRetried, AfterClaim, TodoOK, TypeOK
<1>3. CASE \E w \in Workers : WorkerAbort(w)
  BY <1>3 DEF WorkerAbort, TodoOK, TypeOK
<1>4. CASE \E c \in Clients : ClientAbort(c)
  BY <1>4 DEF ClientAbort, TodoOK, TypeOK, work
<1> QED
  BY <1>1, <1>2, <1>3, <1>4 DEF Failure

LEMMA InitCustody == Init => Custody
<1> SUFFICES ASSUME Init PROVE Custody
  OBVIOUS
<1>1. \A a \in Actors, j \in Jobs : ~Holds(a, j)
  BY DEF Init, Holds, Claims, WillQueue
<1>2. \A j \in Jobs : zset[j] = NoTime /\ blob[j] = NoJob
  BY DEF Init
<1>3. \A w \in Workers : batch[w] = {}
  BY DEF Init
<1> QED
  BY <1>1, <1>2, <1>3, JobsAssumption
  DEF Custody, OneHolder, HoldsOnce, Fresh, Untouched, Holds, WillQueue, Claims

\* A step that neither queues a job nor gives one to anybody.
LEMMA Shrink ==
  ASSUME Custody, Grow,
         \A a \in Actors, j \in Jobs : Holds(a, j)' => Holds(a, j),
         \A j \in Jobs : zset'[j] \in {zset[j], NoTime},
         created \subseteq created'
  PROVE  OneHolder' /\ Fresh'
<1>1. OneHolder'
  BY DEF Custody, OneHolder, Grow
<1>2. Fresh'
  BY DEF Custody, Fresh, Untouched
<1> QED
  BY <1>1, <1>2

\* A client starts to save a job that has no token.
LEMMA SaveUntouched ==
  ASSUME TypeOK, TodoOK, Custody, Grow, NEW c \in Clients, NEW j \in Jobs,
         NEW rec \in Record, Idle(c), Write(c, Save(j, rec)),
         Untouched(j) \/ Disturbed(j)',
         created \subseteq created', j \notin Seeded => j \in created'
  PROVE  Custody'
<1>1. /\ todo'[c] = Save(j, rec)
      /\ \A a \in Actors : a # c => todo'[a] = todo[a]
      /\ UNCHANGED <<blob, zset, wpc, cur, batch>>
      /\ c \notin Workers
  BY ActorsAssumption DEF Write, TypeOK, store, work
<1>2. \A a \in Actors, k \in Jobs : a # c =>
        (WillQueue(a, k)' <=> WillQueue(a, k))
  BY <1>1 DEF WillQueue
<1>3. \A k \in Jobs : WillQueue(c, k)' => k = j
  <2> DEFINE cmds == Save(j, rec)
  <2>1. Len(cmds) = 2 /\ cmds[1].job = j /\ cmds[2].job = j
    BY SaveShape
  <2>2. todo'[c] = cmds
    BY <1>1
  <2> HIDE DEF cmds
  <2>3. \A i \in 1..Len(cmds) : i = 1 \/ i = 2
    BY <2>1
  <2> QED
    BY <2>1, <2>2, <2>3 DEF WillQueue
<1>4. \A w \in Workers, k \in Jobs :
        /\ Claims(w, k)' <=> Claims(w, k)
        /\ Holds(w, k)' <=> Holds(w, k)
  BY <1>1, <1>2 DEF Claims, Holds
<1>5. \A a \in Actors, k \in Jobs : Holds(a, k)' =>
        Holds(a, k) \/ (a = c /\ k = j)
  <2> SUFFICES ASSUME NEW a \in Actors, NEW k \in Jobs, Holds(a, k)',
                      ~(a = c /\ k = j)
               PROVE  Holds(a, k)
    OBVIOUS
  <2>1. CASE a \in Workers
    BY <1>4, <2>1
  <2>2. CASE a \notin Workers
    <3>1. WillQueue(a, k)'
      BY <2>2 DEF Holds
    <3>2. a # c
      BY <1>3, <3>1
    <3> QED
      BY <1>2, <3>1, <3>2 DEF Holds
  <2> QED
    BY <2>1, <2>2
<1>6. OneHolder'
  BY <1>1, <1>5 DEF Custody, OneHolder, Untouched, Grow
<1>7. HoldsOnce'
  BY <1>1, <1>2 DEF Custody, HoldsOnce, Grow
<1>8. Fresh'
  <2> SUFFICES ASSUME NEW k \in Jobs \ Seeded, k \notin created'
               PROVE  zset'[k] = NoTime /\ \A a \in Actors : ~Holds(a, k)'
    BY DEF Fresh, Untouched
  <2>1. k # j /\ Untouched(k)
    BY DEF Custody, Fresh
  <2> QED
    BY <1>1, <1>5, <2>1 DEF Untouched
<1> QED
  BY <1>6, <1>7, <1>8 DEF Custody

LEMMA ClientCustody ==
  ASSUME TypeOK, TodoOK, Custody, Grow, NEW c \in Clients, ClientStep(c)
  PROVE  Custody'
<1>1. CASE \E j \in Jobs, enabled \in BOOLEAN : Create(c, j, enabled)
  <2>1. PICK j \in Jobs, enabled \in BOOLEAN : Create(c, j, enabled)
    BY <1>1
  <2>2. Untouched(j) /\ j \notin Seeded /\ Idle(c)
    BY <2>1 DEF Create, Custody, Fresh
  <2>3. created \subseteq created' /\ j \in created'
    BY <2>1 DEF Create
  <2> QED
    BY <2>1, <2>2, <2>3, SaveUntouched, CreatedRecord DEF Create
<1>2. CASE \E j \in Jobs : ScheduleParty(c, j)
  <2>1. PICK j \in Jobs : ScheduleParty(c, j)
    BY <1>2
  <2>2. Untouched(j) /\ j \notin Seeded /\ Idle(c)
    BY <2>1, JobsAssumption DEF ScheduleParty, Custody, Fresh
  <2>3. created \subseteq created' /\ j \in created'
    BY <2>1 DEF ScheduleParty
  <2> QED
    BY <2>1, <2>2, <2>3, SaveUntouched, CreatedRecord DEF ScheduleParty
<1>3. CASE \E j \in Jobs : Remove(c, j)
  <2>1. PICK j \in Jobs : Remove(c, j)
    BY <1>3
  <2>2. /\ todo'[c] = Delete(j)
        /\ \A a \in Actors : a # c => todo'[a] = todo[a]
        /\ UNCHANGED <<blob, zset, wpc, cur, batch, created>>
        /\ c \notin Workers
    BY <2>1, ActorsAssumption DEF Remove, Write, TypeOK, store, work
  <2>3. \A a \in Actors, k \in Jobs : a # c =>
          (WillQueue(a, k)' <=> WillQueue(a, k))
    BY <2>2 DEF WillQueue
  <2>4. \A k \in Jobs : ~WillQueue(c, k)'
    <3> DEFINE cmds == Delete(j)
    <3>1. Len(cmds) = 2 /\ cmds[1].op # "zadd" /\ cmds[2].op # "zadd"
      BY DeleteShape
    <3>2. todo'[c] = cmds
      BY <2>2
    <3> HIDE DEF cmds
    <3>3. \A i \in 1..Len(cmds) : i = 1 \/ i = 2
      BY <3>1
    <3> QED
      BY <3>1, <3>2, <3>3 DEF WillQueue
  <2>5. \A a \in Actors, k \in Jobs : Holds(a, k)' => Holds(a, k)
    BY <2>2, <2>3, <2>4 DEF Holds, Claims
  <2>7. OneHolder' /\ Fresh'
    BY <2>2, <2>5, Shrink
  <2>8. HoldsOnce'
    BY <2>2, <2>3 DEF Custody, HoldsOnce, Grow
  <2> QED
    BY <2>7, <2>8 DEF Custody
<1>4. CASE \E j \in Jobs : Seed(c, j)
  <2>1. PICK j \in Jobs : Seed(c, j)
    BY <1>4
  <2>2. j \in Seeded /\ blob[j] = NoJob /\ created' = created /\ Idle(c)
    BY <2>1 DEF Seed
  <2>3. InUse(j) => Disturbed(j)'
    BY <2>1, <2>2 DEF Seed, NoteRace, Disturbed
  <2>4. ~InUse(j) => Untouched(j)
    BY DEF InUse, Untouched
  <2> QED
    BY <2>1, <2>2, <2>3, <2>4, SaveUntouched, CreatedRecord DEF Seed
<1> QED
  BY <1>1, <1>2, <1>3, <1>4 DEF ClientStep

\* A worker step other than Claim and Finish moves no token: it only loses
\* some, or takes one from the worker's own hand to its batch or back.
LEMMA WorkerKeeps ==
  ASSUME TypeOK, TodoOK, Custody, Grow, NEW w \in Workers,
         todo' = todo, zset' = zset, created' = created,
         \A v \in Workers : v # w => /\ wpc'[v] = wpc[v]
                                     /\ cur'[v] = cur[v]
                                     /\ batch'[v] = batch[v],
         \A j \in Jobs : Claims(w, j)' => Claims(w, j),
         \A j \in Jobs : ~Disturbed(j) =>
           /\ wpc'[w] \in {"read", "running"} /\ cur'[w] = j =>
                \A e \in batch'[w] : e[1] # j
           /\ \A e, f \in batch'[w] : e[1] = j /\ f[1] = j => e = f,
         todo[w] = <<>>
  PROVE  Custody'
<1>1. \A a \in Actors, j \in Jobs : WillQueue(a, j)' <=> WillQueue(a, j)
  BY DEF WillQueue
<1>2. \A v \in Workers, j \in Jobs : v # w => (Claims(v, j)' <=> Claims(v, j))
  BY DEF Claims
<1>3. \A a \in Actors, j \in Jobs : Holds(a, j)' => Holds(a, j)
  BY <1>1, <1>2 DEF Holds
<1>4. OneHolder' /\ Fresh'
  BY <1>3, Shrink
<1>5. \A j \in Jobs : ~WillQueue(w, j)
  BY DEF WillQueue
<1>6. HoldsOnce'
  BY <1>1, <1>5 DEF Custody, HoldsOnce, Grow
<1> QED
  BY <1>4, <1>6 DEF Custody

LEMMA ClaimCustody ==
  ASSUME TypeOK, TodoOK, Custody, Grow, NEW w \in Workers, NEW j \in Jobs,
         Claim(w, j)
  PROVE  Custody'
<1>1. /\ zset[j] # NoTime /\ zset'[j] = NoTime
      /\ \A k \in Jobs : k # j => zset'[k] = zset[k]
      /\ wpc[w] = "claim" /\ wpc'[w] = "read" /\ cur'[w] = j
      /\ \A v \in Workers : v # w => wpc'[v] = wpc[v] /\ cur'[v] = cur[v]
      /\ UNCHANGED <<blob, todo, batch, created>>
  BY DEF Claim, hist, TypeOK
<1>2. ~Disturbed(j) => \A a \in Actors : ~Holds(a, j)
  BY <1>1 DEF Custody, OneHolder
<1>3. \A a \in Actors, k \in Jobs : WillQueue(a, k)' <=> WillQueue(a, k)
  BY <1>1 DEF WillQueue
<1>4. \A v \in Workers, k \in Jobs :
        Claims(v, k)' => Claims(v, k) \/ (v = w /\ k = j)
  BY <1>1 DEF Claims
<1>5. \A a \in Actors, k \in Jobs :
        Holds(a, k)' => Holds(a, k) \/ (a = w /\ k = j)
  BY <1>3, <1>4 DEF Holds
<1>6. OneHolder'
  BY <1>1, <1>2, <1>5 DEF Custody, OneHolder, Grow
<1>7. HoldsOnce'
  <2>1. ~Disturbed(j) => \A e \in batch[w] : e[1] # j
    BY <1>2 DEF Holds, Claims
  <2> QED
    BY <1>1, <1>3, <2>1 DEF Custody, HoldsOnce, Grow
<1>8. Fresh'
  BY <1>1, <1>5 DEF Custody, Fresh, Untouched
<1> QED
  BY <1>6, <1>7, <1>8 DEF Custody

LEMMA FinishCustody ==
  ASSUME TypeOK, CurOK, TodoOK, Custody, Grow, NEW w \in Workers, Finish(w)
  PROVE  Custody'
<1> DEFINE j == cur[w]
           cmds == Reschedule(j)
<1>1. j \in Jobs
  BY DEF Finish, CurOK
<1>2. /\ todo'[w] = cmds
      /\ \A a \in Actors : a # w => todo'[a] = todo[a]
      /\ wpc[w] = "running" /\ wpc'[w] = "save"
      /\ \A v \in Workers : v # w => wpc'[v] = wpc[v] /\ cur'[v] = cur[v]
      /\ UNCHANGED <<blob, zset, batch, created>>
      /\ w \notin Clients
  BY ActorsAssumption DEF Finish, store, hist, TypeOK
<1>3. Len(cmds) = 2 /\ cmds[1].job = j /\ cmds[2].job = j
  BY <1>1, RescheduleShape
<1> HIDE DEF cmds
<1>4. \A i \in 1..Len(cmds) : i = 1 \/ i = 2
  BY <1>3
<1>5. \A k \in Jobs : WillQueue(w, k)' => k = j
  BY <1>2, <1>3, <1>4 DEF WillQueue
<1>6. Claims(w, j)
  BY <1>2 DEF Claims
<1> HIDE DEF j
<1>7. \A a \in Actors, k \in Jobs : a # w =>
        (WillQueue(a, k)' <=> WillQueue(a, k))
  BY <1>2 DEF WillQueue
<1>8. \A v \in Workers, k \in Jobs : Claims(v, k)' => Claims(v, k)
  BY <1>2 DEF Claims
<1>9. \A a \in Actors, k \in Jobs : Holds(a, k)' => Holds(a, k)
  <2> SUFFICES ASSUME NEW a \in Actors, NEW k \in Jobs, Holds(a, k)'
               PROVE  Holds(a, k)
    OBVIOUS
  <2>1. CASE WillQueue(a, k)'
    BY <1>5, <1>6, <1>7, <2>1 DEF Holds
  <2>2. CASE a \in Workers /\ Claims(a, k)'
    BY <1>8, <2>2 DEF Holds
  <2> QED
    BY <2>1, <2>2 DEF Holds
<1>10. OneHolder' /\ Fresh'
  BY <1>2, <1>9, Shrink
<1>11. HoldsOnce'
  <2>1. ~Disturbed(j) => \A e \in batch[w] : e[1] # j
    BY <1>1, <1>2 DEF Custody, HoldsOnce, j
  <2> QED
    BY <1>2, <1>5, <1>7, <2>1 DEF Custody, HoldsOnce, Grow
<1> QED
  BY <1>10, <1>11 DEF Custody

LEMMA WorkerCustody ==
  ASSUME TypeOK, CurOK, TodoOK, Custody, Grow, NEW w \in Workers, WorkerStep(w)
  PROVE  Custody'
<1>1. CASE Scan(w)
  <2>1. /\ UNCHANGED <<todo, blob, zset, created, cur, batch>>
        /\ \A v \in Workers : v # w => wpc'[v] = wpc[v]
        /\ wpc'[w] \in {"poll", "claim"} /\ wpc[w] = "poll"
    BY <1>1 DEF Scan, store, hist, TypeOK
  <2>2. todo[w] = <<>>
    BY <2>1 DEF TodoOK
  <2>3. \A j \in Jobs : Claims(w, j)' => Claims(w, j)
    BY <2>1 DEF Claims
  <2> QED
    BY <2>1, <2>2, <2>3, WorkerKeeps DEF Custody, HoldsOnce
<1>2. CASE \E j \in Jobs : Claim(w, j)
  BY <1>2, ClaimCustody
<1>3. CASE \E j \in Jobs : Lose(w, j)
  <2>1. /\ UNCHANGED <<todo, blob, zset, created, cur, batch>>
        /\ \A v \in Workers : v # w => wpc'[v] = wpc[v]
        /\ wpc'[w] \in {"poll", "claim", "run"} /\ wpc[w] = "claim"
    BY <1>3 DEF Lose, AfterClaim, store, hist, TypeOK
  <2>2. todo[w] = <<>>
    BY <2>1 DEF TodoOK
  <2>3. \A j \in Jobs : Claims(w, j)' => Claims(w, j)
    BY <2>1 DEF Claims
  <2> QED
    BY <2>1, <2>2, <2>3, WorkerKeeps DEF Custody, HoldsOnce
<1>4. CASE Read(w)
  <2>1. /\ UNCHANGED <<todo, blob, zset, created>>
        /\ \A v \in Workers : v # w => /\ wpc'[v] = wpc[v]
                                       /\ cur'[v] = cur[v]
                                       /\ batch'[v] = batch[v]
        /\ wpc'[w] \in {"poll", "claim", "run"} /\ wpc[w] = "read"
        /\ batch'[w] = batch[w] \cup Claimed(cur[w])
    BY <1>4 DEF Read, AfterClaim, store, hist, TypeOK
  <2>2. todo[w] = <<>>
    BY <2>1 DEF TodoOK
  <2>3. \A e, f \in Claimed(cur[w]) : e[1] = cur[w] /\ e = f
    BY DEF Claimed
  <2>4. cur[w] \in Jobs /\ (~Disturbed(cur[w]) => \A e \in batch[w] : e[1] # cur[w])
    BY <2>1 DEF Custody, HoldsOnce, CurOK
  <2>5. \A j \in Jobs : Claims(w, j)' => Claims(w, j)
    BY <2>1, <2>3 DEF Claims
  <2>6. \A j \in Jobs : ~Disturbed(j) =>
          \A e, f \in batch'[w] : e[1] = j /\ f[1] = j => e = f
    BY <2>1, <2>3, <2>4 DEF Custody, HoldsOnce
  <2> QED
    BY <2>1, <2>2, <2>5, <2>6, WorkerKeeps
<1>5. CASE \E e \in batch[w] : Run(w, e[1], e[2])
  <2>1. PICK e \in batch[w] : Run(w, e[1], e[2])
    BY <1>5
  <2>2. e \in Jobs \X Time /\ e = <<e[1], e[2]>>
    BY DEF TypeOK
  <2>3. /\ UNCHANGED <<todo, blob, zset, created>>
        /\ \A v \in Workers : v # w => /\ wpc'[v] = wpc[v]
                                       /\ cur'[v] = cur[v]
                                       /\ batch'[v] = batch[v]
        /\ wpc'[w] = "running" /\ wpc[w] = "run" /\ cur'[w] = e[1]
        /\ batch'[w] = batch[w] \ {e}
    BY <2>1, <2>2 DEF Run, store, TypeOK
  <2>4. todo[w] = <<>>
    BY <2>3 DEF TodoOK
  <2>5. \A j \in Jobs : Claims(w, j)' => Claims(w, j)
    BY <2>3 DEF Claims
  <2>6. ~Disturbed(e[1]) => \A f \in batch'[w] : f[1] # e[1]
    BY <2>2, <2>3 DEF Custody, HoldsOnce
  <2>7. \A j \in Jobs : ~Disturbed(j) =>
          \A f, g \in batch'[w] : f[1] = j /\ g[1] = j => f = g
    BY <2>3 DEF Custody, HoldsOnce
  <2> QED
    BY <2>3, <2>4, <2>5, <2>6, <2>7, WorkerKeeps
<1>6. CASE Finish(w)
  BY <1>6, FinishCustody
<1> QED
  BY <1>1, <1>2, <1>3, <1>4, <1>5, <1>6 DEF WorkerStep

\* A command that is sent gives nobody a job: it only takes itself out of the
\* script it is in.
LEMMA ExecuteMovesNothing ==
  ASSUME TypeOK, TodoOK, NEW a \in Actors, Execute(a)
  PROVE  /\ \A b \in Actors, j \in Jobs : WillQueue(b, j)' => WillQueue(b, j)
         /\ \A w \in Workers : wpc'[w] \in {"read", "running"} =>
              w # a /\ wpc'[w] = wpc[w]
         /\ \A w \in Workers, j \in Jobs : Claims(w, j)' => Claims(w, j)
<1>1. \A b \in Actors, j \in Jobs : WillQueue(b, j)' => WillQueue(b, j)
  <2> SUFFICES ASSUME NEW b \in Actors, NEW j \in Jobs, WillQueue(b, j)'
               PROVE  WillQueue(b, j)
    OBVIOUS
  <2>1. CASE b = a
    <3>1. PICK i \in 1..Len(todo'[a]) :
            todo'[a][i].op = "zadd" /\ todo'[a][i].job = j
      BY <2>1 DEF WillQueue
    <3>2. i + 1 \in 1..Len(todo[a]) /\ todo'[a][i] = todo[a][i + 1]
      BY TailShape
    <3> QED
      BY <2>1, <3>1, <3>2 DEF WillQueue
  <2>2. CASE b # a
    BY <2>2, TailShape DEF WillQueue
  <2> QED
    BY <2>1, <2>2
<1>2. \A w \in Workers : wpc'[w] \in {"read", "running"} =>
        w # a /\ wpc'[w] = wpc[w]
  BY DEF Execute, AfterSave, TodoOK, TypeOK
<1>3. \A w \in Workers, j \in Jobs : Claims(w, j)' => Claims(w, j)
  BY <1>2 DEF Claims, Execute
<1> QED
  BY <1>1, <1>2, <1>3

LEMMA ExecuteCustody ==
  ASSUME TypeOK, TodoOK, Custody, Grow, NEW a \in Actors, Execute(a)
  PROVE  Custody'
<1>0. PICK cmd \in Command : cmd = todo[a][1]
  BY TailShape
<1>1. /\ cmd = todo[a][1] /\ Apply(cmd) /\ cmd.job \in Jobs
      /\ 1 \in 1..Len(todo[a])
  <2>1. \A c \in Command : c.job \in Jobs
    BY DEF Command
  <2> QED
    BY <1>0, <2>1, TailShape DEF Execute
<1>2. UNCHANGED <<cur, batch, created>>
  BY DEF Execute
<1>3. \A b \in Actors, j \in Jobs : WillQueue(b, j)' => WillQueue(b, j)
  BY ExecuteMovesNothing
<1>4. \A w \in Workers : wpc'[w] \in {"read", "running"} =>
        w # a /\ wpc'[w] = wpc[w]
  BY ExecuteMovesNothing
<1>5. \A w \in Workers, j \in Jobs : Claims(w, j)' => Claims(w, j)
  BY ExecuteMovesNothing
<1>6. \A b \in Actors, j \in Jobs : Holds(b, j)' => Holds(b, j)
  BY <1>3, <1>5 DEF Holds
<1>7. cmd.op = "zadd" => /\ WillQueue(a, cmd.job) /\ Holds(a, cmd.job)
                         /\ \A j \in Jobs : ~WillQueue(a, j)'
  <2> SUFFICES ASSUME cmd.op = "zadd"
               PROVE  /\ WillQueue(a, cmd.job) /\ Holds(a, cmd.job)
                      /\ \A j \in Jobs : ~WillQueue(a, j)'
    OBVIOUS
  <2>1. WillQueue(a, cmd.job)
    BY <1>1 DEF WillQueue
  <2>2. Len(todo[a]) = 1
    BY <1>1 DEF TodoOK
  <2>3. Len(todo'[a]) = 0
    BY <2>2, TailShape
  <2>4. \A j \in Jobs : ~WillQueue(a, j)'
    BY <2>3 DEF WillQueue
  <2> QED
    BY <2>1, <2>4 DEF Holds
<1>8. \A j \in Jobs : \/ zset'[j] \in {zset[j], NoTime}
                      \/ cmd.op = "zadd" /\ cmd.job = j
  BY <1>1 DEF Apply, Command, TypeOK
<1>9. cmd.op = "zadd" /\ ~Disturbed(cmd.job) =>
        \A b \in Actors : ~Holds(b, cmd.job)'
  <2> SUFFICES ASSUME cmd.op = "zadd", ~Disturbed(cmd.job), NEW b \in Actors,
                      Holds(b, cmd.job)'
               PROVE  FALSE
    OBVIOUS
  <2>1. b = a
    BY <1>1, <1>6, <1>7 DEF Custody, OneHolder
  <2>2. a \in Workers /\ Claims(a, cmd.job)'
    BY <1>1, <1>7, <2>1 DEF Holds
  <2>3. \A e \in batch[a] : e[1] # cmd.job
    BY <1>1, <1>7, <2>2 DEF Custody, HoldsOnce
  <2> QED
    BY <1>2, <1>4, <2>2, <2>3 DEF Claims
<1>10. OneHolder'
  BY <1>6, <1>8, <1>9 DEF Custody, OneHolder, Grow
<1>11. HoldsOnce'
  BY <1>2, <1>3, <1>4 DEF Custody, HoldsOnce, Grow
<1>12. Fresh'
  <2> SUFFICES ASSUME NEW j \in Jobs \ Seeded, j \notin created
               PROVE  zset'[j] = NoTime /\ \A b \in Actors : ~Holds(b, j)'
    BY <1>2 DEF Fresh, Untouched
  <2>1. zset[j] = NoTime /\ \A b \in Actors : ~Holds(b, j)
    BY DEF Custody, Fresh, Untouched
  <2> QED
    BY <1>6, <1>7, <1>8, <2>1
<1> QED
  BY <1>10, <1>11, <1>12 DEF Custody

\* A command sent twice, and the lost answer of a claim, disturb their own job;
\* of the others they leave everything as it was.
LEMMA ResentCustody ==
  ASSUME TypeOK, TodoOK, Custody, Grow, NEW a \in Actors, ExecuteRetried(a)
  PROVE  Custody'
<1>1. PICK cmd \in Command : /\ cmd = Head(todo[a]) /\ Apply(cmd)
                             /\ 1 \in 1..Len(todo[a]) /\ todo[a][1] = cmd
  BY DEF ExecuteRetried, TypeOK
<1>2. /\ UNCHANGED <<todo, wpc, cur, batch, created>> /\ cmd.job \in Jobs
      /\ Disturbed(cmd.job)'
  BY <1>1 DEF ExecuteRetried, work, Disturbed, Command
<1>3. \A j \in Jobs : \/ zset'[j] \in {zset[j], NoTime}
                      \/ cmd.op = "zadd" /\ cmd.job = j
  BY <1>1 DEF Apply, Command, TypeOK
<1>4. \A b \in Actors, j \in Jobs : Holds(b, j)' <=> Holds(b, j)
  BY <1>2 DEF Holds, Claims, WillQueue
<1>5. cmd.op = "zadd" => Holds(a, cmd.job)
  BY <1>1 DEF Holds, WillQueue
<1>6. OneHolder'
  BY <1>2, <1>3, <1>4 DEF Custody, OneHolder, Grow
<1>7. HoldsOnce'
  BY <1>2 DEF Custody, HoldsOnce, Grow, WillQueue
<1>8. Fresh'
  <2> SUFFICES ASSUME NEW j \in Jobs \ Seeded, j \notin created
               PROVE  zset'[j] = NoTime /\ \A b \in Actors : ~Holds(b, j)'
    BY <1>2 DEF Fresh, Untouched
  <2>1. zset[j] = NoTime /\ \A b \in Actors : ~Holds(b, j)
    BY DEF Custody, Fresh, Untouched
  <2> QED
    BY <1>3, <1>4, <1>5, <2>1
<1> QED
  BY <1>6, <1>7, <1>8 DEF Custody

LEMMA FailureCustody ==
  ASSUME TypeOK, TodoOK, Custody, Grow, Failure
  PROVE  Custody'
<1>1. CASE \E a \in Actors : ExecuteRetried(a)
  BY <1>1, ResentCustody
<1>2. CASE \E w \in Workers : WorkerAbort(w)
  <2>1. PICK w \in Workers : WorkerAbort(w)
    BY <1>2
  <2>2. /\ UNCHANGED <<zset, created>>
        /\ \A v \in Workers : v # w => /\ wpc'[v] = wpc[v]
                                       /\ cur'[v] = cur[v]
                                       /\ batch'[v] = batch[v]
        /\ wpc'[w] = "poll" /\ batch'[w] = {} /\ todo'[w] = <<>>
        /\ \A a \in Actors : a # w => todo'[a] = todo[a]
    BY <2>1 DEF WorkerAbort, store, hist, TypeOK
  <2>3. \A a \in Actors, j \in Jobs : WillQueue(a, j)' => WillQueue(a, j)
    BY <2>2 DEF WillQueue
  <2>4. \A a \in Actors, j \in Jobs : Holds(a, j)' => Holds(a, j)
    BY <2>2, <2>3 DEF Holds, Claims
  <2>5. OneHolder' /\ Fresh'
    BY <2>2, <2>4, Shrink
  <2>6. HoldsOnce'
    BY <2>2, <2>3 DEF Custody, HoldsOnce, Grow
  <2> QED
    BY <2>5, <2>6 DEF Custody
<1>3. CASE \E c \in Clients : ClientAbort(c)
  <2>1. PICK c \in Clients : ClientAbort(c)
    BY <1>3
  <2>2. /\ UNCHANGED <<zset, created, wpc, cur, batch>>
        /\ todo'[c] = <<>>
        /\ \A a \in Actors : a # c => todo'[a] = todo[a]
    BY <2>1 DEF ClientAbort, store, work, hist, TypeOK
  <2>3. \A a \in Actors, j \in Jobs : WillQueue(a, j)' => WillQueue(a, j)
    BY <2>2 DEF WillQueue
  <2>4. \A a \in Actors, j \in Jobs : Holds(a, j)' => Holds(a, j)
    BY <2>2, <2>3 DEF Holds, Claims
  <2>5. OneHolder' /\ Fresh'
    BY <2>2, <2>4, Shrink
  <2>6. HoldsOnce'
    BY <2>2, <2>3 DEF Custody, HoldsOnce, Grow
  <2> QED
    BY <2>5, <2>6 DEF Custody
<1>4. CASE \E w \in Workers, k \in Jobs : ClaimRetried(w, k)
  <2>1. PICK w \in Workers, k \in Jobs : ClaimRetried(w, k)
    BY <1>4
  <2>2. /\ UNCHANGED <<todo, cur, batch, created>>
        /\ \A j \in Jobs : zset'[j] \in {zset[j], NoTime}
        /\ \A v \in Workers : wpc'[v] \in {"read", "running"} => wpc'[v] = wpc[v]
    BY <2>1 DEF ClaimRetried, AfterClaim, TypeOK
  <2>3. \A a \in Actors, j \in Jobs : Holds(a, j)' => Holds(a, j)
    BY <2>2 DEF Holds, Claims, WillQueue
  <2>4. OneHolder' /\ Fresh'
    BY <2>2, <2>3, Shrink
  <2>5. HoldsOnce'
    BY <2>2 DEF Custody, HoldsOnce, Grow, WillQueue
  <2> QED
    BY <2>4, <2>5 DEF Custody
<1> QED
  BY <1>1, <1>2, <1>3, <1>4 DEF Failure

LEMMA IdleCustody ==
  ASSUME Custody, UNCHANGED <<store, todo, work, hist>>
  PROVE  Custody'
BY DEF Custody, OneHolder, HoldsOnce, Fresh, Untouched, Holds, Claims, WillQueue,
       Disturbed, store, work, hist, marks

IInv == TypeOK /\ CurOK /\ TodoOK /\ Custody

LEMMA InitIInv == Init => IInv
BY InitType, InitTodo, InitCustody DEF IInv

LEMMA StepIInv ==
  ASSUME IInv, [Next]_vars
  PROVE  IInv'
<1>0. Grow
  BY GhostsGrow
<1>1. TypeOK' /\ CurOK'
  BY StepType DEF IInv
<1>2. CASE \E c \in Clients : ClientStep(c)
  BY <1>0, <1>1, <1>2, ClientTodo, ClientCustody DEF IInv
<1>3. CASE \E w \in Workers : WorkerStep(w)
  BY <1>0, <1>1, <1>3, WorkerTodo, WorkerCustody DEF IInv
<1>4. CASE \E a \in Actors : Execute(a)
  BY <1>0, <1>1, <1>4, ExecuteTodo, ExecuteCustody DEF IInv
<1>5. CASE Failure
  BY <1>0, <1>1, <1>5, FailureTodo, FailureCustody DEF IInv
<1>6. CASE Tick \/ UNCHANGED vars
  <2>1. UNCHANGED <<store, todo, work, hist>>
    BY <1>6 DEF Tick, vars, store, work, hist, marks
  <2>2. TodoOK'
    BY <2>1 DEF IInv, TodoOK, work
  <2> QED
    BY <1>1, <2>1, <2>2, IdleCustody DEF IInv
<1> QED
  BY <1>2, <1>3, <1>4, <1>5, <1>6 DEF Next

\* Two workers never hold the same job, and a job somebody holds is not in the
\* queue: the claim by ZREM in pop_due is exclusive for any number of workers,
\* seeders, jobs, crashes and concurrent deletions. Only a job that a seed found
\* absent while another process was at it, or on which a command was resent, is
\* excepted; no such job spoils the claims of another.
THEOREM ClaimIsExclusive == Spec => []OneHolder
<1>1. IInv /\ [Next]_vars => IInv'
  BY StepIInv
<1>2. IInv => OneHolder
  BY DEF IInv, Custody
<1> QED
  BY InitIInv, <1>1, <1>2, PTL DEF Spec

-----------------------------------------------------------------------------
(* An at job that was started has no token left: its holder, while it runs, *)
(* is on its way to retire it.                                              *)

Started(j) == \E e \in fired : e[1] = j

Done(j) ==
  /\ j \in created
  /\ zset[j] = NoTime
  /\ \A a \in Actors : ~WillQueue(a, j)
  /\ \A w \in Workers : /\ \A e \in batch[w] : e[1] # j
                        /\ wpc[w] = "read" => cur[w] # j

\* No seed races with an at job: only a resent command can disturb it.
Spent == \A j \in OneShot \ resent : Started(j) => Done(j)

LEMMA InitSpent == Init => Spent
BY DEF Init, Spent, Started

\* A save or a delete that a client starts queues at most its own job.
LEMMA WriteQueues ==
  ASSUME TypeOK, NEW c \in Clients, NEW k \in Jobs, NEW cmds, Write(c, cmds),
         Len(cmds) = 2, cmds[1].op # "zadd",
         cmds[2].op = "zadd" => cmds[2].job = k
  PROVE  \A a \in Actors, j \in Jobs :
           WillQueue(a, j)' => WillQueue(a, j) \/ (cmds[2].op = "zadd" /\ j = k)
<1>1. todo'[c] = cmds /\ \A a \in Actors : a # c => todo'[a] = todo[a]
  BY DEF Write, TypeOK
<1>2. \A i \in 1..Len(cmds) : i = 1 \/ i = 2
  OBVIOUS
<1> QED
  BY <1>1, <1>2 DEF WillQueue

LEMMA ClientSpent ==
  ASSUME IInv, Spent, resent \subseteq resent', NEW c \in Clients, ClientStep(c)
  PROVE  Spent'
<1>1. ASSUME NEW k \in Jobs, NEW cmds, Write(c, cmds),
             Len(cmds) = 2, cmds[1].op # "zadd",
             cmds[2].op = "zadd" => cmds[2].job = k /\ (k \in OneShot => k \notin created),
             created \subseteq created'
      PROVE  Spent'
  <2>1. \A a \in Actors, j \in Jobs :
          WillQueue(a, j)' => WillQueue(a, j) \/ (cmds[2].op = "zadd" /\ j = k)
    BY <1>1, WriteQueues DEF IInv
  <2>2. UNCHANGED <<zset, wpc, cur, batch, fired>>
    BY <1>1 DEF Write, store, work
  <2> SUFFICES ASSUME NEW j \in OneShot \ resent', Started(j) PROVE Done(j)'
    BY <2>2 DEF Spent, Started
  <2>3. Done(j) /\ j \in Jobs
    BY JobsAssumption DEF Spent
  <2> QED
    BY <1>1, <2>1, <2>2, <2>3 DEF Done
<1>2. ASSUME NEW k \in Jobs, NEW rec \in Record, Write(c, Save(k, rec)),
             k \in OneShot => k \notin created, created \subseteq created'
      PROVE  Spent'
  <2> DEFINE cmds == Save(k, rec)
  <2>1. Len(cmds) = 2 /\ cmds[1].op # "zadd" /\ cmds[2].job = k
    BY SaveShape
  <2>2. Write(c, cmds)
    BY <1>2
  <2> HIDE DEF cmds
  <2> QED
    BY <1>1, <1>2, <2>1, <2>2
<1>3. CASE \E k \in Jobs, enabled \in BOOLEAN : Create(c, k, enabled)
  <2>1. PICK k \in Jobs, enabled \in BOOLEAN : Create(c, k, enabled)
    BY <1>3
  <2>2. [enabled |-> enabled, next |-> NextRun(k, now)] \in Record
    BY CreatedRecord DEF IInv
  <2> QED
    BY <1>2, <2>1, <2>2 DEF Create
<1>4. CASE \E k \in Jobs : ScheduleParty(c, k)
  <2>1. PICK k \in Jobs : ScheduleParty(c, k)
    BY <1>4
  <2>2. [enabled |-> TRUE, next |-> NextRun(k, now)] \in Record
    BY CreatedRecord DEF IInv
  <2> QED
    BY <1>2, <2>1, <2>2 DEF ScheduleParty
<1>5. CASE \E k \in Jobs : Remove(c, k)
  <2>1. PICK k \in Jobs : Remove(c, k)
    BY <1>5
  <2> DEFINE cmds == Delete(k)
  <2>2. Len(cmds) = 2 /\ cmds[1].op # "zadd" /\ cmds[2].op # "zadd"
    BY DeleteShape
  <2>3. Write(c, cmds) /\ created' = created
    BY <2>1 DEF Remove
  <2> HIDE DEF cmds
  <2> QED
    BY <1>1, <2>2, <2>3
<1>6. CASE \E k \in Jobs : Seed(c, k)
  <2>1. PICK k \in Jobs : Seed(c, k)
    BY <1>6
  <2>2. [enabled |-> TRUE, next |-> NextRun(k, now)] \in Record
    BY CreatedRecord DEF IInv
  <2>3. k \notin OneShot
    BY <2>1, JobsAssumption DEF Seed
  <2> QED
    BY <1>2, <2>1, <2>2, <2>3 DEF Seed
<1> QED
  BY <1>3, <1>4, <1>5, <1>6 DEF ClientStep

\* The worker that starts a job had the only token.
LEMMA RunSpends ==
  ASSUME IInv, NEW w \in Workers, NEW e \in batch[w], Run(w, e[1], e[2]),
         e[1] \in OneShot \ resent
  PROVE  Done(e[1])'
<1> DEFINE j == e[1]
<1>1. /\ e \in Jobs \X Time /\ e = <<e[1], e[2]>> /\ j \in Jobs /\ j \notin Seeded
      /\ ~Disturbed(j)
  BY JobsAssumption DEF IInv, TypeOK, Disturbed
<1>2. /\ UNCHANGED <<todo, zset, created>>
      /\ \A v \in Workers : v # w => /\ wpc'[v] = wpc[v]
                                     /\ cur'[v] = cur[v]
                                     /\ batch'[v] = batch[v]
      /\ wpc'[w] = "running" /\ batch'[w] = batch[w] \ {e}
  BY <1>1 DEF Run, store, IInv, TypeOK
<1>3. Holds(w, j)
  BY DEF Holds, Claims
<1>4. zset[j] = NoTime /\ \A a \in Actors : Holds(a, j) => a = w
  BY <1>1, <1>3 DEF IInv, Custody, OneHolder
<1>5. j \in created
  BY <1>1, <1>3 DEF IInv, Custody, Fresh, Untouched
<1>6. ~WillQueue(w, j)
  BY <1>1 DEF IInv, Custody, HoldsOnce
<1>7. \A a \in Actors : ~WillQueue(a, j)'
  BY <1>2, <1>4, <1>6 DEF Holds, WillQueue
<1>8. \A f \in batch[w] : f[1] = j => f = e
  BY <1>1 DEF IInv, Custody, HoldsOnce
<1>9. \A v \in Workers : v # w => /\ \A f \in batch[v] : f[1] # j
                                  /\ wpc[v] = "read" => cur[v] # j
  BY <1>4 DEF Holds, Claims
<1> HIDE DEF j
<1>10. Done(j)'
  BY <1>2, <1>4, <1>5, <1>7, <1>8, <1>9 DEF Done
<1> QED
  BY <1>10 DEF j

LEMMA WorkerSpent ==
  ASSUME IInv, Spent, resent \subseteq resent', NEW w \in Workers, WorkerStep(w)
  PROVE  Spent'
<1>1. CASE Scan(w)
  <2>1. /\ UNCHANGED <<todo, zset, created, cur, batch, fired>>
        /\ \A v \in Workers : wpc'[v] = "read" => wpc[v] = "read"
    BY <1>1 DEF Scan, store, hist, IInv, TypeOK
  <2> QED
    BY <2>1 DEF Spent, Started, Done, WillQueue
<1>2. CASE \E k \in Jobs : Claim(w, k)
  <2>1. PICK k \in Jobs : Claim(w, k)
    BY <1>2
  <2>2. /\ UNCHANGED <<todo, created, batch, fired>>
        /\ zset[k] # NoTime /\ zset'[k] = NoTime
        /\ \A j \in Jobs : j # k => zset'[j] = zset[j]
        /\ cur'[w] = k
        /\ \A v \in Workers : v # w => wpc'[v] = wpc[v] /\ cur'[v] = cur[v]
    BY <2>1 DEF Claim, hist, IInv, TypeOK
  <2> SUFFICES ASSUME NEW j \in OneShot \ resent', Started(j) PROVE Done(j)'
    BY <2>2 DEF Spent, Started
  <2>3. Done(j) /\ j \in Jobs /\ j # k
    BY <2>2, JobsAssumption DEF Spent, Done
  <2> QED
    BY <2>2, <2>3 DEF Done, WillQueue
<1>3. CASE \E k \in Jobs : Lose(w, k)
  <2>1. /\ UNCHANGED <<todo, zset, created, cur, batch, fired>>
        /\ \A v \in Workers : wpc'[v] = "read" => wpc[v] = "read"
    BY <1>3 DEF Lose, AfterClaim, store, hist, IInv, TypeOK
  <2> QED
    BY <2>1 DEF Spent, Started, Done, WillQueue
<1>4. CASE Read(w)
  <2>1. /\ UNCHANGED <<todo, zset, created, fired>>
        /\ \A v \in Workers : v # w => /\ wpc'[v] = wpc[v]
                                       /\ cur'[v] = cur[v]
                                       /\ batch'[v] = batch[v]
        /\ wpc'[w] # "read" /\ wpc[w] = "read"
        /\ batch'[w] = batch[w] \cup Claimed(cur[w])
    BY <1>4 DEF Read, AfterClaim, store, hist, IInv, TypeOK
  <2>2. \A e \in Claimed(cur[w]) : e[1] = cur[w]
    BY DEF Claimed
  <2> SUFFICES ASSUME NEW j \in OneShot \ resent', Started(j) PROVE Done(j)'
    BY <2>1 DEF Spent, Started
  <2>3. Done(j) /\ cur[w] # j
    BY <2>1 DEF Spent, Done
  <2> QED
    BY <2>1, <2>2, <2>3 DEF Done, WillQueue
<1>5. CASE \E e \in batch[w] : Run(w, e[1], e[2])
  <2>1. PICK e \in batch[w] : Run(w, e[1], e[2])
    BY <1>5
  <2>2. e \in Jobs \X Time /\ e = <<e[1], e[2]>>
    BY DEF IInv, TypeOK
  <2>3. /\ UNCHANGED <<todo, zset, created>>
        /\ fired' = fired \cup {e}
        /\ \A v \in Workers : wpc'[v] = "read" => wpc[v] = "read" /\ cur'[v] = cur[v]
        /\ \A v \in Workers : batch'[v] \subseteq batch[v]
    BY <2>1, <2>2 DEF Run, store, IInv, TypeOK
  <2> SUFFICES ASSUME NEW j \in OneShot \ resent', Started(j)' PROVE Done(j)'
    BY DEF Spent
  <2>4. CASE j = e[1]
    BY <2>1, <2>4, RunSpends
  <2>5. CASE j # e[1]
    <3>1. Done(j)
      BY <2>3, <2>5 DEF Spent, Started
    <3> QED
      BY <2>3, <3>1 DEF Done, WillQueue
  <2> QED
    BY <2>4, <2>5
<1>6. CASE Finish(w)
  <2> DEFINE k == cur[w]
             cmds == Reschedule(k)
  <2>1. /\ k \in Jobs
        /\ UNCHANGED <<zset, created, batch, fired>>
        /\ todo'[w] = cmds
        /\ \A a \in Actors : a # w => todo'[a] = todo[a]
        /\ \A v \in Workers : wpc'[v] = "read" => wpc[v] = "read" /\ cur'[v] = cur[v]
    BY <1>6 DEF Finish, store, hist, IInv, TypeOK, CurOK
  <2>2. /\ Len(cmds) = 2 /\ cmds[1].op # "zadd"
        /\ cmds[2].op = "zadd" => cmds[2].job = k /\ k \notin OneShot
    BY <2>1, RescheduleShape DEF IInv
  <2> HIDE DEF cmds
  <2>3. \A i \in 1..Len(cmds) : i = 1 \/ i = 2
    BY <2>2
  <2> HIDE DEF k
  <2>4. \A j \in OneShot : ~WillQueue(w, j)'
    BY <2>1, <2>2, <2>3 DEF WillQueue
  <2> SUFFICES ASSUME NEW j \in OneShot \ resent', Started(j) PROVE Done(j)'
    BY <2>1 DEF Spent, Started
  <2>5. Done(j)
    BY DEF Spent
  <2>6. \A a \in Actors : ~WillQueue(a, j)'
    BY <2>1, <2>4, <2>5 DEF Done, WillQueue
  <2> QED
    BY <2>1, <2>5, <2>6 DEF Done
<1> QED
  BY <1>1, <1>2, <1>3, <1>4, <1>5, <1>6 DEF WorkerStep

LEMMA ExecuteSpent ==
  ASSUME IInv, Spent, resent \subseteq resent', NEW a \in Actors, Execute(a)
  PROVE  Spent'
<1>1. PICK cmd \in Command : cmd = todo[a][1]
  BY TailShape DEF IInv
<1>2. Apply(cmd) /\ 1 \in 1..Len(todo[a])
  BY <1>1, TailShape DEF Execute, IInv
<1>3. /\ UNCHANGED <<created, batch, cur, fired>>
      /\ \A w \in Workers : wpc'[w] = "read" => wpc[w] = "read"
  BY DEF Execute, AfterSave, IInv, TypeOK
<1> SUFFICES ASSUME NEW j \in OneShot \ resent', Started(j) PROVE Done(j)'
  BY <1>3 DEF Spent, Started
<1>4. Done(j) /\ j \in Jobs
  BY JobsAssumption DEF Spent
<1>5. ASSUME NEW b \in Actors, WillQueue(b, j)' PROVE FALSE
  <2>1. PICK i \in 1..Len(todo'[b]) :
          todo'[b][i].op = "zadd" /\ todo'[b][i].job = j
    BY <1>5 DEF WillQueue
  <2>2. CASE b = a
    <3>1. i + 1 \in 1..Len(todo[a]) /\ todo'[a][i] = todo[a][i + 1]
      BY <2>1, <2>2, TailShape DEF IInv
    <3> QED
      BY <1>4, <2>1, <2>2, <3>1 DEF Done, WillQueue
  <2>3. CASE b # a
    BY <1>4, <2>1, <2>3, TailShape DEF Done, WillQueue, IInv
  <2> QED
    BY <2>2, <2>3
<1>6. ~(cmd.op = "zadd" /\ cmd.job = j)
  BY <1>1, <1>2, <1>4 DEF Done, WillQueue
<1>7. zset'[j] = NoTime
  BY <1>2, <1>4, <1>6 DEF Apply, Command, Done, IInv, TypeOK
<1> QED
  BY <1>3, <1>4, <1>5, <1>7 DEF Done

LEMMA FailureSpent ==
  ASSUME IInv, Spent, resent \subseteq resent', Failure
  PROVE  Spent'
<1>1. CASE \E a \in Actors : ExecuteRetried(a)
  <2>1. PICK a \in Actors : ExecuteRetried(a)
    BY <1>1
  <2>2. PICK cmd \in Command : cmd = Head(todo[a]) /\ Apply(cmd)
    BY <2>1 DEF ExecuteRetried, IInv, TypeOK
  <2>3. /\ UNCHANGED <<todo, created, fired, wpc, cur, batch>>
        /\ cmd.job \in resent'
    BY <2>1, <2>2 DEF ExecuteRetried, work
  <2>4. \A j \in Jobs : j # cmd.job => zset'[j] = zset[j]
    BY <2>2 DEF Apply, Command, IInv, TypeOK
  <2> QED
    BY <2>3, <2>4, JobsAssumption DEF Spent, Started, Done, WillQueue
<1>2. CASE \E w \in Workers : WorkerAbort(w)
  <2>1. PICK w \in Workers : WorkerAbort(w)
    BY <1>2
  <2>2. /\ UNCHANGED <<zset, created, fired>>
        /\ \A v \in Workers : wpc'[v] = "read" => wpc[v] = "read" /\ cur'[v] = cur[v]
        /\ \A v \in Workers : batch'[v] \subseteq batch[v]
        /\ \A a \in Actors : todo'[a] \in {todo[a], <<>>}
    BY <2>1 DEF WorkerAbort, store, hist, IInv, TypeOK
  <2>3. \A a \in Actors, j \in Jobs : WillQueue(a, j)' => WillQueue(a, j)
    BY <2>2 DEF WillQueue
  <2> QED
    BY <2>2, <2>3, JobsAssumption DEF Spent, Started, Done
<1>3. CASE \E c \in Clients : ClientAbort(c)
  <2>1. PICK c \in Clients : ClientAbort(c)
    BY <1>3
  <2>2. /\ UNCHANGED <<zset, created, fired, wpc, cur, batch>>
        /\ \A a \in Actors : todo'[a] \in {todo[a], <<>>}
    BY <2>1 DEF ClientAbort, store, work, hist, IInv, TypeOK
  <2>3. \A a \in Actors, j \in Jobs : WillQueue(a, j)' => WillQueue(a, j)
    BY <2>2 DEF WillQueue
  <2> QED
    BY <2>2, <2>3, JobsAssumption DEF Spent, Started, Done
<1>4. CASE \E w \in Workers, k \in Jobs : ClaimRetried(w, k)
  <2>1. PICK w \in Workers, k \in Jobs : ClaimRetried(w, k)
    BY <1>4
  <2>2. /\ UNCHANGED <<todo, created, fired, cur, batch>>
        /\ \A j \in Jobs : zset'[j] \in {zset[j], NoTime}
        /\ \A v \in Workers : wpc'[v] = "read" => wpc[v] = "read"
    BY <2>1 DEF ClaimRetried, AfterClaim, IInv, TypeOK
  <2> QED
    BY <2>2, JobsAssumption DEF Spent, Started, Done, WillQueue
<1> QED
  BY <1>1, <1>2, <1>3, <1>4 DEF Failure

LEMMA StepSpent ==
  ASSUME IInv, Spent, [Next]_vars
  PROVE  Spent'
<1>1. CASE Tick \/ UNCHANGED vars
  <2>1. UNCHANGED <<store, todo, work, hist>>
    BY <1>1 DEF Tick, vars, store, work, hist, marks
  <2> QED
    BY <2>1 DEF Spent, Started, Done, WillQueue, store, work, hist, marks
<1>2. resent \subseteq resent'
  BY GhostsGrow
<1> QED
  BY <1>1, <1>2, ClientSpent, WorkerSpent, ExecuteSpent, FailureSpent DEF Next

\* No step starts an at job that was started before, whatever the number of
\* workers and wherever they crash, unless a command on that job was resent.
THEOREM OneShotStartsOnce == Spec => OneShotOnce
<1>1. Init => IInv /\ Spent
  BY InitIInv, InitSpent
<1>2. IInv /\ Spent /\ [Next]_vars => (IInv /\ Spent)'
  BY StepIInv, StepSpent
<1>3. IInv /\ Spent /\ [Next]_vars =>
        [\A w \in Workers : \A e \in batch[w] :
           e[1] \in OneShot \ resent /\ Run(w, e[1], e[2])
             => \A due \in 0..MaxTime : <<e[1], due>> \notin fired]_vars
  <2> SUFFICES ASSUME IInv, Spent, NEW w \in Workers, NEW e \in batch[w],
                      e[1] \in OneShot \ resent, NEW due \in 0..MaxTime,
                      <<e[1], due>> \in fired
               PROVE  FALSE
    OBVIOUS
  <2>1. Started(e[1])
    BY DEF Started
  <2> QED
    BY <2>1 DEF Spent, Done
<1> QED
  BY <1>1, <1>2, <1>3, PTL DEF Spec, OneShotOnce

-----------------------------------------------------------------------------
(* No due time is overwritten.                                              *)

\* What one Redis command does, job by job.
LEMMA ApplyEffect ==
  ASSUME TypeOK, NEW cmd \in Command, Apply(cmd)
  PROVE  /\ cmd.job \in Jobs /\ cmd.op \in {"set", "zadd", "zrem", "del"}
         /\ cmd.op = "set" => /\ cmd.rec \in Record /\ zset' = zset
                              /\ blob'[cmd.job] = cmd.rec
         /\ cmd.op = "zadd" => /\ cmd.rec \in Record /\ blob' = blob
                               /\ zset'[cmd.job] = cmd.rec.next
         /\ cmd.op = "zrem" => blob' = blob /\ zset'[cmd.job] = NoTime
         /\ cmd.op = "del" => zset' = zset /\ blob'[cmd.job] = NoJob
         /\ \A j \in Jobs : j # cmd.job =>
              blob'[j] = blob[j] /\ zset'[j] = zset[j]
<1>1. cmd.job \in Jobs /\ cmd.op \in {"set", "zadd", "zrem", "del"}
  BY DEF Command
<1>2. cmd.op \in {"set", "zadd"} => cmd.rec \in Record
  BY DEF Command
<1>3. CASE cmd.op = "set"
  BY <1>1, <1>2, <1>3 DEF Apply, TypeOK
<1>4. CASE cmd.op = "zadd"
  BY <1>1, <1>2, <1>4 DEF Apply, TypeOK
<1>5. CASE cmd.op = "zrem"
  BY <1>1, <1>5 DEF Apply, TypeOK
<1>6. CASE cmd.op = "del"
  BY <1>1, <1>6 DEF Apply, TypeOK
<1> QED
  BY <1>1, <1>3, <1>4, <1>5, <1>6

\* A job in the queue has no holder, so no ZADD for it is on its way.
LEMMA ScoreKept ==
  ASSUME IInv, [Next]_vars, NEW j \in Jobs, zset[j] # NoTime, ~Disturbed(j)
  PROVE  zset'[j] \in {zset[j], NoTime}
<1>1. \A a \in Actors : ~WillQueue(a, j)
  BY DEF IInv, Custody, OneHolder, Holds
<1>2. ASSUME NEW a \in Actors, todo[a] # <<>>, Apply(Head(todo[a]))
      PROVE  zset'[j] \in {zset[j], NoTime}
  <2>1. PICK cmd \in Command : cmd = todo[a][1] /\ Apply(cmd)
    BY <1>2 DEF IInv, TypeOK
  <2>2. 1 \in 1..Len(todo[a])
    BY <1>2 DEF IInv, TypeOK
  <2>3. ~(cmd.op = "zadd" /\ cmd.job = j)
    BY <1>1, <2>1, <2>2 DEF WillQueue
  <2> QED
    BY <2>1, <2>3, ApplyEffect DEF IInv
<1>3. CASE \E c \in Clients : ClientStep(c)
  BY <1>3 DEF ClientStep, Create, ScheduleParty, Remove, Seed, Write, store
<1>4. CASE \E w \in Workers : WorkerStep(w)
  <2>1. PICK w \in Workers : WorkerStep(w)
    BY <1>4
  <2>2. CASE \E k \in Jobs : Claim(w, k)
    BY <2>2 DEF Claim, IInv, TypeOK
  <2>3. CASE ~\E k \in Jobs : Claim(w, k)
    BY <2>1, <2>3 DEF WorkerStep, Scan, Lose, Read, Run, Finish, store
  <2> QED
    BY <2>2, <2>3
<1>5. CASE \E a \in Actors : Execute(a)
  BY <1>2, <1>5 DEF Execute
<1>6. CASE Failure
  <2>1. CASE \E a \in Actors : ExecuteRetried(a)
    BY <1>2, <2>1 DEF ExecuteRetried
  <2>2. CASE \E w \in Workers, k \in Jobs : ClaimRetried(w, k)
    BY <2>2 DEF ClaimRetried, IInv, TypeOK
  <2>3. CASE (\E w \in Workers : WorkerAbort(w)) \/ (\E c \in Clients : ClientAbort(c))
    BY <2>3 DEF WorkerAbort, ClientAbort, store
  <2> QED
    BY <1>6, <2>1, <2>2, <2>3 DEF Failure
<1>7. CASE Tick \/ UNCHANGED vars
  BY <1>7 DEF Tick, vars, store
<1> QED
  BY <1>3, <1>4, <1>5, <1>6, <1>7 DEF Next

\* No due time is overwritten by a later one, with any number of workers,
\* seeders and clients and wherever they crash, but for a job whose seed raced
\* (sync_job.py:203-222) or on which a command was resent.
THEOREM DueIsNotSkipped == Spec => DueNotSkipped
<1>1. IInv /\ [Next]_vars => IInv'
  BY StepIInv
<1>2. IInv /\ [Next]_vars =>
        [\A j \in Due(now) : Disturbed(j)' \/ zset'[j] \in {zset[j], NoTime}]_vars
  <2> SUFFICES ASSUME IInv, [Next]_vars, NEW j \in Due(now), ~Disturbed(j)'
               PROVE  zset'[j] \in {zset[j], NoTime}
    OBVIOUS
  <2>1. j \in Jobs /\ zset[j] # NoTime
    BY DEF Due
  <2>2. ~Disturbed(j)
    BY <2>1, GhostsGrow DEF Grow
  <2> QED
    BY <2>1, <2>2, ScoreKept
<1> QED
  BY InitIInv, <1>1, <1>2, PTL DEF Spec, DueNotSkipped

-----------------------------------------------------------------------------
(* What a script still has to do.  A command that takes a job out of the   *)
(* queue, or its blob away, is about a job that is cancelled or that has,  *)
(* and will have, no token: a seed makes one, but only for a seeded job.   *)

Known == created \cup Seeded

Gone(j) == j \in cancelled \/ (j \notin Seeded /\ Untouched(j))

CommandOK(a, i) ==
  LET cmd == todo[a][i] IN
  /\ cmd.op \in {"set", "del"} =>
       i = 1 /\ Len(todo[a]) = 2 /\ todo[a][2].job = cmd.job
  /\ cmd.op = "set" /\ cmd.rec.enabled =>
       todo[a][2].op = "zadd" /\ todo[a][2].rec = cmd.rec
  /\ cmd.op = "zadd" => cmd.rec.next # NoTime
  /\ cmd.op = "zrem" => \/ Gone(cmd.job)
                        \/ i = 2 /\ todo[a][1].op = "del"
  /\ cmd.op = "del" => \/ Gone(cmd.job)
                       \/ a \in Clients /\ blob[cmd.job] # NoJob

KnownOK ==
  /\ \A a \in Actors : \A i \in 1..Len(todo[a]) : todo[a][i].job \in Known
  /\ \A j \in Jobs : blob[j] # NoJob => j \in Known

ScriptsOK ==
  /\ KnownOK
  /\ \A a \in Actors : \A i \in 1..Len(todo[a]) :
       todo[a][i].job \notin resent => CommandOK(a, i)

\* Whoever schedules a party chooses a time that has not passed.
PartiesAhead == \A j \in Parties : j \in created' \ created => AtTime[j] >= now

LEMMA SaveCommands ==
  ASSUME NEW j \in Jobs, NEW rec \in Record
  PROVE  \E cmds : /\ cmds = Save(j, rec) /\ Len(cmds) = 2
                   /\ cmds[1].op = "set" /\ cmds[1].job = j /\ cmds[1].rec = rec
                   /\ cmds[2].job = j
                   /\ IF rec.next # NoTime /\ rec.enabled
                      THEN cmds[2].op = "zadd" /\ cmds[2].rec = rec
                      ELSE cmds[2].op = "zrem"
<1>1. Len(Save(j, rec)) = 2 /\ Save(j, rec)[1] = Set(j, rec)
  BY SaveType
<1>2. CASE rec.next # NoTime /\ rec.enabled
  <2>1. Save(j, rec)[2] = ZAdd(j, rec) /\ ZAdd(j, rec).rec = rec
    BY <1>2, SaveType DEF ZAdd
  <2> QED
    BY <1>1, <1>2, <2>1, CommandFields
<1>3. CASE ~(rec.next # NoTime /\ rec.enabled)
  <2>1. Save(j, rec)[2] = ZRem(j)
    BY <1>3, SaveType
  <2> QED
    BY <1>1, <1>3, <2>1, CommandFields
<1> QED
  BY <1>2, <1>3

\* A client starts one script, and does nothing else.
ClientWrites(c, j, cmds) ==
  /\ todo[c] = <<>> /\ todo' = [todo EXCEPT ![c] = cmds]
  /\ UNCHANGED <<store, now, work, faults, retries, cancelled, fired, resent>>
  /\ Len(cmds) = 2 /\ cmds[1].job = j /\ cmds[2].job = j

ClientSaves(c, j, cmds) ==
  /\ cmds[1].op = "set" /\ cmds[1].rec \in Record
  /\ cmds[1].rec.next = NextRun(j, now)
  /\ IF cmds[1].rec.next # NoTime /\ cmds[1].rec.enabled
     THEN cmds[2].op = "zadd" /\ cmds[2].rec = cmds[1].rec
     ELSE cmds[2].op = "zrem"
  /\ \/ /\ j \notin created \cup Seeded /\ created' = created \cup {j}
        /\ cmds[1].rec.next # NoTime \/ j \in Parties
     \/ /\ j \in Seeded /\ blob[j] = NoJob /\ (InUse(j) => Disturbed(j)')
        /\ cmds[1].rec.enabled /\ created' = created

ClientDeletes(j, cmds) ==
  /\ cmds[1].op = "del" /\ cmds[2].op = "zrem"
  /\ j \in Removable /\ blob[j] # NoJob /\ created' = created

LEMMA ClientScript ==
  ASSUME TypeOK, NEW c \in Clients, ClientStep(c)
  PROVE  \E j \in Jobs : \E cmds :
           /\ ClientWrites(c, j, cmds)
           /\ ClientSaves(c, j, cmds) \/ ClientDeletes(j, cmds)
<1>1. ASSUME NEW j \in Jobs, NEW enabled \in BOOLEAN, Idle(c),
             Write(c, Save(j, [enabled |-> enabled, next |-> NextRun(j, now)])),
             \/ /\ j \notin created \cup Seeded /\ created' = created \cup {j}
                /\ NextRun(j, now) # NoTime \/ j \in Parties
             \/ /\ j \in Seeded /\ blob[j] = NoJob /\ (InUse(j) => Disturbed(j)')
                /\ enabled /\ created' = created
      PROVE  \E cmds : ClientWrites(c, j, cmds) /\ ClientSaves(c, j, cmds)
  <2> DEFINE rec == [enabled |-> enabled, next |-> NextRun(j, now)]
  <2>1. rec \in Record /\ rec.next = NextRun(j, now) /\ rec.enabled = enabled
    BY CreatedRecord
  <2>2. Write(c, Save(j, rec))
    BY <1>1
  <2> HIDE DEF rec
  <2>3. PICK cmds :
          /\ cmds = Save(j, rec) /\ Len(cmds) = 2
          /\ cmds[1].op = "set" /\ cmds[1].job = j /\ cmds[1].rec = rec
          /\ cmds[2].job = j
          /\ IF rec.next # NoTime /\ rec.enabled
             THEN cmds[2].op = "zadd" /\ cmds[2].rec = rec
             ELSE cmds[2].op = "zrem"
    BY <2>1, SaveCommands
  <2>4. ClientWrites(c, j, cmds)
    BY <1>1, <2>2, <2>3 DEF ClientWrites, Write, Idle
  <2>5. ClientSaves(c, j, cmds)
    BY <1>1, <2>1, <2>3 DEF ClientSaves
  <2> QED
    BY <2>4, <2>5
<1>2. CASE \E j \in Jobs, enabled \in BOOLEAN : Create(c, j, enabled)
  BY <1>1, <1>2 DEF Create
<1>3. CASE \E j \in Jobs : ScheduleParty(c, j)
  BY <1>1, <1>3, JobsAssumption DEF ScheduleParty
<1>4. CASE \E j \in Jobs : Seed(c, j)
  <2>1. PICK j \in Jobs : Seed(c, j)
    BY <1>4
  <2>2. InUse(j) => Disturbed(j)'
    BY <2>1 DEF Seed, NoteRace, Disturbed
  <2> QED
    BY <1>1, <2>1, <2>2 DEF Seed
<1>5. CASE \E j \in Jobs : Remove(c, j)
  <2>1. PICK j \in Jobs : Remove(c, j)
    BY <1>5
  <2>2. ClientWrites(c, j, Delete(j)) /\ ClientDeletes(j, Delete(j))
    BY <2>1, DeleteShape DEF Remove, ClientWrites, ClientDeletes, Write, Idle
  <2> QED
    BY <2>2
<1> QED
  BY <1>2, <1>3, <1>4, <1>5 DEF ClientStep

\* What a worker writes after a run: an at job is retired, a cron job queued.
Retires(j, cmds) ==
  /\ cmds[2].op = "zrem" /\ j \in OneShot
  /\ cmds[1].op = "del" \/ (cmds[1].op = "set" /\ ~cmds[1].rec.enabled)

Requeues(j, cmds) ==
  /\ j \notin OneShot
  /\ cmds[1].op = "set" /\ cmds[1].rec.enabled
  /\ cmds[1].rec.next = NextRun(j, now)
  /\ cmds[2].op = "zadd" /\ cmds[2].rec = cmds[1].rec

LEMMA FinishScript ==
  ASSUME IInv, NEW w \in Workers, Finish(w)
  PROVE  /\ cur[w] \in Jobs /\ wpc[w] = "running" /\ todo[w] = <<>>
         /\ \E cmds : /\ todo' = [todo EXCEPT ![w] = cmds]
                      /\ Len(cmds) = 2
                      /\ cmds[1].job = cur[w] /\ cmds[2].job = cur[w]
                      /\ Retires(cur[w], cmds) \/ Requeues(cur[w], cmds)
<1>1. cur[w] \in Jobs /\ wpc[w] = "running" /\ todo[w] = <<>>
  BY DEF Finish, IInv, CurOK, TodoOK
<1> DEFINE j == cur[w]
<1>2. j \in Jobs /\ todo' = [todo EXCEPT ![w] = Reschedule(j)]
  BY <1>1 DEF Finish
<1> HIDE DEF j
<1>3. CASE j \in DeleteAfterRun
  <2>1. Reschedule(j) = Delete(j) /\ j \in OneShot
    BY <1>3, JobsAssumption DEF Reschedule
  <2> QED
    <3> DEFINE cmds == Delete(j)
    <3>1. /\ Len(cmds) = 2 /\ cmds[1].job = j /\ cmds[2].job = j
          /\ cmds[1].op = "del" /\ cmds[2].op = "zrem"
      BY <1>2, DeleteShape
    <3>2. todo' = [todo EXCEPT ![w] = cmds]
      BY <1>2, <2>1
    <3> HIDE DEF cmds
    <3>3. Retires(j, cmds)
      BY <2>1, <3>1 DEF Retires
    <3> QED
      BY <1>1, <3>1, <3>2, <3>3 DEF j
<1>4. CASE j \in OneShot \ DeleteAfterRun
  <2> DEFINE rec == [enabled |-> FALSE, next |-> NoTime]
  <2>1. Reschedule(j) = Save(j, rec) /\ rec \in Record /\ ~rec.enabled
    BY <1>4 DEF Reschedule, Record, Time
  <2> HIDE DEF rec
  <2>2. PICK cmds :
          /\ cmds = Save(j, rec) /\ Len(cmds) = 2
          /\ cmds[1].op = "set" /\ cmds[1].job = j /\ cmds[1].rec = rec
          /\ cmds[2].job = j
          /\ IF rec.next # NoTime /\ rec.enabled
             THEN cmds[2].op = "zadd" /\ cmds[2].rec = rec
             ELSE cmds[2].op = "zrem"
    BY <1>2, <2>1, SaveCommands
  <2> QED
    BY <1>1, <1>2, <1>4, <2>1, <2>2 DEF Retires, j
<1>5. CASE j \notin OneShot
  <2> DEFINE rec == [enabled |-> TRUE, next |-> NextRun(j, now)]
  <2>1. Reschedule(j) = Save(j, rec) /\ rec.enabled /\ rec.next = NextRun(j, now)
    BY <1>5, JobsAssumption DEF Reschedule
  <2>2. rec \in Record
    BY <1>2, CreatedRecord DEF IInv
  <2>3. rec.next # NoTime
    <3>1. now \in Nat /\ Period \in Nat \ {0}
      BY NumbersAssumption DEF IInv, TypeOK
    <3>2. now \div Period \in Nat
      BY <3>1
    <3>3. (now \div Period + 1) * Period \in Nat
      BY <3>1, <3>2
    <3> QED
      BY <1>5, <2>1, <3>3, NumbersAssumption DEF NextRun
  <2> HIDE DEF rec
  <2>4. PICK cmds :
          /\ cmds = Save(j, rec) /\ Len(cmds) = 2
          /\ cmds[1].op = "set" /\ cmds[1].job = j /\ cmds[1].rec = rec
          /\ cmds[2].job = j
          /\ IF rec.next # NoTime /\ rec.enabled
             THEN cmds[2].op = "zadd" /\ cmds[2].rec = rec
             ELSE cmds[2].op = "zrem"
    BY <1>2, <2>2, SaveCommands
  <2> QED
    BY <1>1, <1>2, <1>5, <2>1, <2>3, <2>4 DEF Requeues, j
<1> QED
  BY <1>3, <1>4, <1>5

\* Whoever is to add a job to the queue, or has claimed it, was given it: a job
\* that exists and has no token never gets one again, unless it is a seeded job.
LEMMA UntouchedStays ==
  ASSUME IInv, [Next]_vars, NEW j \in created \ Seeded,
         j \in Jobs, Untouched(j)
  PROVE  Untouched(j)'
<1>0. zset[j] = NoTime /\ \A a \in Actors : ~Holds(a, j)
  BY DEF Untouched
<1>1. CASE \E c \in Clients : ClientStep(c)
  <2>1. PICK c \in Clients : ClientStep(c)
    BY <1>1
  <2>2. PICK k \in Jobs : \E cmds :
          /\ ClientWrites(c, k, cmds)
          /\ ClientSaves(c, k, cmds) \/ ClientDeletes(k, cmds)
    BY <2>1, ClientScript DEF IInv
  <2>3. PICK cmds : /\ ClientWrites(c, k, cmds)
                    /\ ClientSaves(c, k, cmds) \/ ClientDeletes(k, cmds)
    BY <2>2
  <2>4. /\ todo'[c] = cmds /\ \A a \in Actors : a # c => todo'[a] = todo[a]
        /\ UNCHANGED <<zset, wpc, cur, batch>>
    BY <2>3 DEF ClientWrites, store, work, IInv, TypeOK
  <2>5. \A i \in 1..Len(cmds) : i = 1 \/ i = 2
    BY <2>3 DEF ClientWrites
  <2>6. ~WillQueue(c, j)'
    <3>1. CASE ClientSaves(c, k, cmds)
      <4>1. k # j
        BY <3>1 DEF ClientSaves
      <4> QED
        BY <2>3, <2>4, <2>5, <4>1 DEF WillQueue, ClientWrites
    <3>2. CASE ClientDeletes(k, cmds)
      BY <2>4, <2>5, <3>2 DEF WillQueue, ClientDeletes
    <3> QED
      BY <2>3, <3>1, <3>2
  <2>7. \A a \in Actors : ~WillQueue(a, j)'
    BY <1>0, <2>4, <2>6 DEF WillQueue, Holds
  <2>8. \A w \in Workers : ~Claims(w, j)'
    BY <1>0, <2>4 DEF Claims, Holds
  <2> QED
    BY <1>0, <2>4, <2>7, <2>8 DEF Untouched, Holds
<1>2. CASE \E w \in Workers : WorkerStep(w)
  <2>1. PICK w \in Workers : WorkerStep(w)
    BY <1>2
  <2>2. CASE Scan(w) \/ (\E k \in Jobs : Lose(w, k))
    <3>1. /\ UNCHANGED <<zset, todo, cur, batch>>
          /\ \A v \in Workers : wpc'[v] \in {"read", "running"} => wpc'[v] = wpc[v]
      BY <2>2 DEF Scan, Lose, AfterClaim, store, hist, IInv, TypeOK
    <3> QED
      BY <1>0, <3>1 DEF Untouched, Holds, Claims, WillQueue
  <2>3. CASE \E k \in Jobs : Claim(w, k)
    <3>1. PICK k \in Jobs : Claim(w, k)
      BY <2>3
    <3>2. /\ UNCHANGED <<todo, batch>> /\ k # j /\ cur'[w] = k /\ zset'[j] = zset[j]
          /\ \A v \in Workers : v # w => wpc'[v] = wpc[v] /\ cur'[v] = cur[v]
      BY <1>0, <3>1 DEF Claim, hist, IInv, TypeOK
    <3> QED
      BY <1>0, <3>2 DEF Untouched, Holds, Claims, WillQueue
  <2>4. CASE Read(w)
    <3>1. /\ UNCHANGED <<zset, todo>> /\ cur[w] # j
          /\ wpc'[w] \notin {"read", "running"}
          /\ batch'[w] = batch[w] \cup Claimed(cur[w])
          /\ \A v \in Workers : v # w =>
               wpc'[v] = wpc[v] /\ cur'[v] = cur[v] /\ batch'[v] = batch[v]
      BY <1>0, <2>4 DEF Read, AfterClaim, store, hist, Holds, Claims, IInv, TypeOK
    <3>2. \A e \in Claimed(cur[w]) : e[1] # j
      BY <3>1 DEF Claimed
    <3> QED
      BY <1>0, <3>1, <3>2 DEF Untouched, Holds, Claims, WillQueue
  <2>5. CASE \E e \in batch[w] : Run(w, e[1], e[2])
    <3>1. PICK e \in batch[w] : Run(w, e[1], e[2])
      BY <2>5
    <3>2. /\ UNCHANGED <<zset, todo>> /\ cur'[w] = e[1] /\ e[1] # j
          /\ \A v \in Workers : batch'[v] \subseteq batch[v]
          /\ \A v \in Workers : v # w => wpc'[v] = wpc[v] /\ cur'[v] = cur[v]
      BY <1>0, <3>1 DEF Run, store, Holds, Claims, IInv, TypeOK
    <3> QED
      BY <1>0, <3>2 DEF Untouched, Holds, Claims, WillQueue
  <2>6. CASE Finish(w)
    <3>1. cur[w] \in Jobs /\ wpc[w] = "running" /\ cur[w] # j
      BY <1>0, <2>6, FinishScript DEF Holds, Claims
    <3>2. PICK cmds : /\ todo' = [todo EXCEPT ![w] = cmds] /\ Len(cmds) = 2
                      /\ cmds[1].job = cur[w] /\ cmds[2].job = cur[w]
      BY <2>6, FinishScript
    <3>3. todo'[w] = cmds /\ \A a \in Actors : a # w => todo'[a] = todo[a]
      BY <3>2 DEF IInv, TypeOK
    <3>4. \A i \in 1..Len(cmds) : i = 1 \/ i = 2
      BY <3>2
    <3>5. \A a \in Actors : ~WillQueue(a, j)'
      BY <1>0, <3>1, <3>2, <3>3, <3>4, ZenonT(30) DEF WillQueue, Holds
    <3>6. /\ UNCHANGED <<zset, batch>> /\ wpc'[w] = "save"
          /\ \A v \in Workers : v # w => wpc'[v] = wpc[v] /\ cur'[v] = cur[v]
      BY <2>6 DEF Finish, store, hist, IInv, TypeOK
    <3> QED
      BY <1>0, <3>5, <3>6 DEF Untouched, Holds, Claims
  <2> QED
    BY <2>1, <2>2, <2>3, <2>4, <2>5, <2>6 DEF WorkerStep
<1>3. CASE \E a \in Actors : Execute(a)
  <2>1. PICK a \in Actors : Execute(a)
    BY <1>3
  <2>2. \A b \in Actors : ~Holds(b, j)'
    BY <1>0, <2>1, ExecuteMovesNothing DEF Holds, IInv
  <2>3. PICK cmd \in Command : cmd = todo[a][1] /\ Apply(cmd)
    BY <2>1, TailShape DEF Execute, IInv
  <2>4. 1 \in 1..Len(todo[a])
    BY <2>1, TailShape DEF IInv
  <2>5. ~(cmd.op = "zadd" /\ cmd.job = j)
    BY <1>0, <2>3, <2>4 DEF Holds, WillQueue
  <2>6. zset'[j] = NoTime
    BY <1>0, <2>3, <2>5, ApplyEffect DEF IInv
  <2> QED
    BY <2>2, <2>6 DEF Untouched
<1>4. CASE Failure
  <2>1. CASE \E w \in Workers : WorkerAbort(w)
    <3>1. PICK w \in Workers : WorkerAbort(w)
      BY <2>1
    <3>2. /\ UNCHANGED <<zset>> /\ wpc'[w] = "poll" /\ batch'[w] = {}
          /\ \A v \in Workers : v # w =>
               wpc'[v] = wpc[v] /\ cur'[v] = cur[v] /\ batch'[v] = batch[v]
          /\ \A a \in Actors : todo'[a] \in {todo[a], <<>>}
      BY <3>1 DEF WorkerAbort, store, hist, IInv, TypeOK
    <3>3. \A a \in Actors : ~WillQueue(a, j)'
      BY <1>0, <3>2 DEF WillQueue, Holds
    <3> QED
      BY <1>0, <3>2, <3>3 DEF Untouched, Holds, Claims
  <2>2. CASE \E c \in Clients : ClientAbort(c)
    <3>1. /\ UNCHANGED <<zset, wpc, cur, batch>>
          /\ \A a \in Actors : todo'[a] \in {todo[a], <<>>}
      BY <2>2 DEF ClientAbort, store, work, hist, IInv, TypeOK
    <3>2. \A a \in Actors : ~WillQueue(a, j)'
      BY <1>0, <3>1 DEF WillQueue, Holds
    <3> QED
      BY <1>0, <3>1, <3>2 DEF Untouched, Holds, Claims
  <2>3. CASE \E a \in Actors : ExecuteRetried(a)
    <3>1. PICK a \in Actors : ExecuteRetried(a)
      BY <2>3
    <3>2. PICK cmd \in Command : cmd = todo[a][1] /\ Apply(cmd) /\ 1 \in 1..Len(todo[a])
      BY <3>1 DEF ExecuteRetried, IInv, TypeOK
    <3>3. ~(cmd.op = "zadd" /\ cmd.job = j)
      BY <1>0, <3>2 DEF Holds, WillQueue
    <3>4. zset'[j] = NoTime
      BY <1>0, <3>2, <3>3, ApplyEffect DEF IInv
    <3>5. UNCHANGED <<todo, wpc, cur, batch>>
      BY <3>1 DEF ExecuteRetried, work
    <3> QED
      BY <1>0, <3>4, <3>5 DEF Untouched, Holds, Claims, WillQueue
  <2>4. CASE \E w \in Workers, k \in Jobs : ClaimRetried(w, k)
    <3>1. /\ UNCHANGED <<todo, cur, batch>> /\ zset'[j] \in {zset[j], NoTime}
          /\ \A v \in Workers : wpc'[v] \in {"read", "running"} => wpc'[v] = wpc[v]
      BY <2>4 DEF ClaimRetried, AfterClaim, IInv, TypeOK
    <3> QED
      BY <1>0, <3>1 DEF Untouched, Holds, Claims, WillQueue
  <2> QED
    BY <1>4, <2>1, <2>2, <2>3, <2>4 DEF Failure
<1>5. CASE Tick \/ UNCHANGED vars
  <2>1. UNCHANGED <<zset, todo, wpc, cur, batch>>
    BY <1>5 DEF Tick, vars, store, work
  <2> QED
    BY <1>0, <2>1 DEF Untouched, Holds, Claims, WillQueue
<1> QED
  BY <1>1, <1>2, <1>3, <1>4, <1>5 DEF Next

\* What has a blob, or a command on its way, was created or is a seeded job.
LEMMA StepKnown ==
  ASSUME IInv, KnownOK, [Next]_vars
  PROVE  KnownOK'
<1>0. Known \subseteq Known'
  BY GhostsGrow DEF Known
<1>1. CASE \E c \in Clients : ClientStep(c)
  <2>1. PICK c \in Clients : ClientStep(c)
    BY <1>1
  <2>2. PICK j \in Jobs : \E cmds :
          /\ ClientWrites(c, j, cmds)
          /\ ClientSaves(c, j, cmds) \/ ClientDeletes(j, cmds)
    BY <2>1, ClientScript DEF IInv
  <2>3. PICK cmds : /\ ClientWrites(c, j, cmds)
                    /\ ClientSaves(c, j, cmds) \/ ClientDeletes(j, cmds)
    BY <2>2
  <2>4. j \in Known'
    BY <1>0, <2>3 DEF ClientSaves, ClientDeletes, Known, KnownOK
  <2>5. /\ todo'[c] = cmds /\ \A a \in Actors : a # c => todo'[a] = todo[a]
        /\ blob' = blob
    BY <2>3 DEF ClientWrites, store, IInv, TypeOK
  <2>6. \A i \in 1..Len(cmds) : cmds[i].job = j
    <3>1. \A i \in 1..Len(cmds) : i = 1 \/ i = 2
      BY <2>3 DEF ClientWrites
    <3> QED
      BY <2>3, <3>1 DEF ClientWrites
  <2> QED
    BY <1>0, <2>4, <2>5, <2>6 DEF KnownOK
<1>2. CASE \E w \in Workers : Finish(w)
  <2>1. PICK w \in Workers : Finish(w)
    BY <1>2
  <2>2. PICK cmds : /\ todo' = [todo EXCEPT ![w] = cmds] /\ Len(cmds) = 2
                    /\ cmds[1].job = cur[w] /\ cmds[2].job = cur[w]
    BY <2>1, FinishScript
  <2>3. /\ todo'[w] = cmds /\ \A a \in Actors : a # w => todo'[a] = todo[a]
        /\ blob' = blob /\ Claims(w, cur[w]) /\ cur[w] \in Jobs
    BY <2>1, <2>2 DEF Finish, store, Claims, IInv, TypeOK, CurOK
  <2>4. cur[w] \in Known
    BY <2>3 DEF IInv, Custody, Fresh, Untouched, Holds, Known
  <2>5. \A i \in 1..Len(cmds) : i = 1 \/ i = 2
    BY <2>2
  <2> QED
    BY <1>0, <2>2, <2>3, <2>4, <2>5 DEF KnownOK
<1>3. ASSUME NEW a \in Actors, NEW cmd \in Command, cmd = todo[a][1],
             1 \in 1..Len(todo[a]), Apply(cmd)
      PROVE  \A j \in Jobs : blob'[j] # NoJob => j \in Known'
  <2>1. \A j \in Jobs : blob'[j] # NoJob => blob[j] # NoJob \/ j = cmd.job
    BY <1>3, ApplyEffect DEF IInv
  <2> QED
    BY <1>0, <1>3, <2>1 DEF KnownOK
<1>4. CASE \E a \in Actors : Execute(a)
  <2>1. PICK a \in Actors : Execute(a)
    BY <1>4
  <2>2. \A j \in Jobs : blob'[j] # NoJob => j \in Known'
    <3>1. PICK cmd \in Command : cmd = todo[a][1] /\ Apply(cmd)
      BY <2>1, TailShape DEF Execute, IInv
    <3>2. 1 \in 1..Len(todo[a])
      BY <2>1, TailShape DEF IInv
    <3> QED
      BY <1>3, <3>1, <3>2
  <2>3. \A i \in 1..Len(todo'[a]) : /\ i + 1 \in 1..Len(todo[a])
                                     /\ todo'[a][i] = todo[a][i + 1]
    BY <2>1, TailShape DEF IInv
  <2>4. \A b \in Actors : b # a => todo'[b] = todo[b]
    BY <2>1, TailShape DEF IInv
  <2> QED
    BY <1>0, <2>2, <2>3, <2>4 DEF KnownOK
<1>5. CASE \E a \in Actors : ExecuteRetried(a)
  <2>1. PICK a \in Actors : ExecuteRetried(a)
    BY <1>5
  <2>2. \A j \in Jobs : blob'[j] # NoJob => j \in Known'
    <3>1. todo[a][1] \in Command /\ 1 \in 1..Len(todo[a]) /\ Apply(todo[a][1])
      BY <2>1 DEF ExecuteRetried, IInv, TypeOK
    <3> QED
      BY <1>3, <3>1
  <2> QED
    BY <1>0, <2>1, <2>2 DEF KnownOK, ExecuteRetried
<1>6. ASSUME blob' = blob, \A a \in Actors : todo'[a] \in {todo[a], <<>>}
      PROVE  KnownOK'
  BY <1>0, <1>6 DEF KnownOK
<1>7. CASE \E w \in Workers : WorkerStep(w) /\ ~Finish(w)
  BY <1>6, <1>7 DEF WorkerStep, Scan, Claim, Lose, Read, Run, store
<1>8. CASE Failure /\ ~\E a \in Actors : ExecuteRetried(a)
  BY <1>6, <1>8 DEF Failure, ClaimRetried, WorkerAbort, ClientAbort, store, IInv, TypeOK
<1>9. CASE Tick \/ UNCHANGED vars
  BY <1>6, <1>9 DEF Tick, vars, store
<1> QED
  BY <1>1, <1>2, <1>4, <1>5, <1>7, <1>8, <1>9 DEF Next

LEMMA GoneStays ==
  ASSUME IInv, [Next]_vars, NEW j \in Jobs, j \in Known, Gone(j)
  PROVE  Gone(j)' /\ j \in Known'
BY UntouchedStays, GhostsGrow DEF Gone, Known

\* A job whose blob a command removes was cancelled by it, or retired before.
LEMMA RemovedIsGone ==
  ASSUME IInv, ScriptsOK, NEW a \in Actors, Execute(a),
         todo[a][1].op = "del", NEW j, j = todo[a][1].job, j \notin resent
  PROVE  /\ j \in Jobs /\ j \in Known /\ Gone(j)'
<1>1. 1 \in 1..Len(todo[a]) /\ CommandOK(a, 1) /\ todo[a][1] \in Command
  BY TailShape DEF IInv, ScriptsOK
<1>2. j \in Jobs /\ j \in Known
  BY <1>1 DEF ScriptsOK, KnownOK, Command
<1>3. [Next]_vars
  BY DEF Next
<1>4. ASSUME Gone(j)
      PROVE  Gone(j)'
  BY <1>2, <1>3, <1>4, GoneStays
<1>5. ASSUME a \in Clients, blob[j] # NoJob
      PROVE  Gone(j)'
  <2>1. cancelled' = cancelled \cup {j}
    BY <1>5, TailShape DEF Execute, Cancelled, IInv
  <2> QED
    BY <2>1 DEF Gone
<1>6. Gone(j)'
  BY <1>1, <1>4, <1>5 DEF CommandOK
<1> QED
  BY <1>2, <1>6

\* A script nobody touches stays in order.
LEMMA OtherScripts ==
  ASSUME IInv, ScriptsOK, [Next]_vars, NEW a \in Actors,
         NEW i \in 1..Len(todo[a]), todo'[a] = todo[a],
         todo[a][i].job \notin resent',
         \A j \in Jobs \ resent' : blob[j] # NoJob => blob'[j] # NoJob \/ Gone(j)'
  PROVE  CommandOK(a, i)'
<1>0. todo[a][i] \in Command /\ resent \subseteq resent'
  BY GhostsGrow DEF IInv, TypeOK
<1> PICK cmd \in Command : cmd = todo[a][i]
  BY <1>0
<1>1. CommandOK(a, i) /\ cmd = todo[a][i] /\ cmd \in Command /\ cmd.job \in Jobs
  BY <1>0 DEF ScriptsOK, Command
<1>2. cmd.job \in Known /\ cmd.job \in Known'
  BY <1>1, GhostsGrow DEF ScriptsOK, KnownOK, Known
<1>4. Gone(cmd.job) => Gone(cmd.job)'
  BY <1>1, <1>2, GoneStays
<1>5. cmd.op = "zrem" => \/ Gone(cmd.job)'
                         \/ i = 2 /\ todo[a][1].op = "del"
  BY <1>1, <1>4 DEF CommandOK
<1>6. cmd.op = "del" => \/ Gone(cmd.job)'
                        \/ a \in Clients /\ blob'[cmd.job] # NoJob
  BY <1>1, <1>4 DEF CommandOK
<1> QED
  BY <1>1, <1>2, <1>5, <1>6 DEF CommandOK

LEMMA ClientScripts ==
  ASSUME IInv, ScriptsOK, PartiesAhead, NEW c \in Clients, ClientStep(c)
  PROVE  ScriptsOK'
<1>1. PICK j \in Jobs : \E cmds :
        /\ ClientWrites(c, j, cmds)
        /\ ClientSaves(c, j, cmds) \/ ClientDeletes(j, cmds)
  BY ClientScript DEF IInv
<1>2. PICK cmds : /\ ClientWrites(c, j, cmds)
                  /\ ClientSaves(c, j, cmds) \/ ClientDeletes(j, cmds)
  BY <1>1
<1>3. /\ todo'[c] = cmds /\ \A a \in Actors : a # c => todo'[a] = todo[a]
      /\ UNCHANGED <<blob, zset, wpc, cur, batch, resent>>
      /\ Len(cmds) = 2 /\ cmds[1].job = j /\ cmds[2].job = j
  BY <1>2 DEF ClientWrites, store, work, IInv, TypeOK
<1>4. [Next]_vars /\ KnownOK'
  BY StepKnown DEF Next, ScriptsOK
<1>5. \A a \in Actors : a # c => \A i \in 1..Len(todo'[a]) :
        todo'[a][i].job \notin resent' => CommandOK(a, i)'
  BY <1>3, <1>4, OtherScripts
<1>6. CASE ClientSaves(c, j, cmds)
  <2> DEFINE rec == cmds[1].rec
  <2>1. \A i \in 1..Len(cmds) : i = 1 \/ i = 2
    BY <1>3
  <2>2. cmds[1].op = "set" /\ cmds[2].op \in {"zadd", "zrem"}
    BY <1>6 DEF ClientSaves
  <2>3. ASSUME cmds[2].op = "zrem"
        PROVE  ~rec.enabled /\ Gone(j)'
    <3>1. ~(rec.next # NoTime /\ rec.enabled)
      BY <1>6, <2>3 DEF ClientSaves
    <3>2. now \in Nat /\ now <= MaxTime /\ Period \in Nat \ {0} /\ MaxTime \in Nat
      BY NumbersAssumption DEF IInv, TypeOK
    <3>3. rec.next # NoTime
      <4>1. CASE j \in OneShot /\ j \notin Parties
        BY <1>6, <4>1, JobsAssumption DEF ClientSaves
      <4>2. CASE j \in Parties
        <5>0. j \in created' \ created
          BY <1>6, <4>2, JobsAssumption DEF ClientSaves
        <5>1. j \in OneShot /\ AtTime[j] \in Nat /\ AtTime[j] >= now
          BY <4>2, <5>0, JobsAssumption, NumbersAssumption DEF PartiesAhead
        <5>2. rec.next = AtTime[j]
          BY <1>6, <3>2, <5>1 DEF ClientSaves, NextRun
        <5> QED
          BY <5>1, <5>2, NumbersAssumption
      <4>3. CASE j \notin OneShot
        <5>1. now \div Period \in Nat
          BY <3>2
        <5>2. (now \div Period + 1) * Period \in Nat
          BY <3>2, <5>1
        <5> QED
          BY <1>6, <4>3, <5>2, NumbersAssumption DEF ClientSaves, NextRun
      <4> QED
        BY <4>1, <4>2, <4>3
    <3>4. ~rec.enabled /\ j \notin created \cup Seeded
      BY <1>6, <3>1, <3>3 DEF ClientSaves
    <3>5. Untouched(j)
      BY <3>4 DEF IInv, Custody, Fresh
    <3>6. \A a \in Actors : ~WillQueue(a, j)'
      BY <1>3, <2>1, <2>2, <2>3, <3>5 DEF WillQueue, Untouched, Holds
    <3>7. Untouched(j)'
      BY <1>3, <3>5, <3>6 DEF Untouched, Holds, Claims
    <3> QED
      BY <3>4, <3>7 DEF Gone
  <2>4. /\ cmds[2].op = "zadd" => cmds[2].rec = rec /\ rec.next # NoTime
        /\ rec.enabled => cmds[2].op = "zadd"
    BY <1>6, <2>2, <2>3 DEF ClientSaves
  <2> HIDE DEF rec
  <2>5. CommandOK(c, 1)'
    BY <1>3, <2>2, <2>4 DEF CommandOK, rec
  <2>6. CommandOK(c, 2)'
    BY <1>3, <2>2, <2>3, <2>4 DEF CommandOK, rec
  <2>7. \A i \in 1..Len(todo'[c]) : CommandOK(c, i)'
    BY <1>3, <2>1, <2>5, <2>6
  <2> QED
    BY <1>4, <1>5, <2>7 DEF ScriptsOK
<1>7. CASE ClientDeletes(j, cmds)
  <2>1. cmds[1].op = "del" /\ cmds[2].op = "zrem" /\ blob'[j] # NoJob /\ created' = created
    BY <1>3, <1>7 DEF ClientDeletes
  <2>3. \A i \in 1..Len(cmds) : i = 1 \/ i = 2
    BY <1>3
  <2>4. \A i \in 1..Len(todo'[c]) : CommandOK(c, i)'
    BY <1>3, <2>1, <2>3 DEF CommandOK
  <2> QED
    BY <1>3, <1>4, <1>5, <2>4 DEF ScriptsOK
<1> QED
  BY <1>2, <1>6, <1>7

LEMMA FinishScripts ==
  ASSUME IInv, ScriptsOK, NEW w \in Workers, Finish(w)
  PROVE  ScriptsOK'
<1>1. PICK j \in Jobs : j = cur[w] /\ wpc[w] = "running"
  BY FinishScript
<1>2. PICK cmds : /\ todo' = [todo EXCEPT ![w] = cmds] /\ Len(cmds) = 2
                  /\ cmds[1].job = j /\ cmds[2].job = j
                  /\ Retires(j, cmds) \/ Requeues(j, cmds)
  BY <1>1, FinishScript
<1>3. /\ todo'[w] = cmds /\ \A a \in Actors : a # w => todo'[a] = todo[a]
      /\ UNCHANGED <<blob, zset, batch, created, cancelled, resent>>
      /\ wpc'[w] = "save"
      /\ \A v \in Workers : v # w => wpc'[v] = wpc[v] /\ cur'[v] = cur[v]
  BY <1>2 DEF Finish, store, hist, marks, IInv, TypeOK
<1>4. [Next]_vars /\ KnownOK'
  BY StepKnown DEF Next, WorkerStep, ScriptsOK
<1>5. \A a \in Actors : a # w => \A i \in 1..Len(todo'[a]) :
        todo'[a][i].job \notin resent' => CommandOK(a, i)'
  BY <1>3, <1>4, OtherScripts
<1>6. \A i \in 1..Len(cmds) : i = 1 \/ i = 2
  BY <1>2
<1>7. Claims(w, j) /\ Holds(w, j)
  BY <1>1 DEF Claims, Holds
<1>9. ASSUME Retires(j, cmds), j \notin resent
      PROVE  Gone(j)'
  <2>0. ~Disturbed(j) /\ j \notin Seeded
    BY <1>9, JobsAssumption DEF Retires, Disturbed, IInv, TypeOK
  <2>1. zset[j] = NoTime /\ \A a \in Actors : Holds(a, j) => a = w
    BY <1>7, <2>0 DEF IInv, Custody, OneHolder
  <2>2. \A e \in batch[w] : e[1] # j
    BY <1>1, <2>0 DEF IInv, Custody, HoldsOnce
  <2>3. \A a \in Actors : ~WillQueue(a, j)'
    <3>1. cmds[1].op # "zadd" /\ cmds[2].op # "zadd"
      BY <1>9 DEF Retires
    <3> QED
      BY <1>3, <1>6, <2>1, <3>1 DEF WillQueue, Holds
  <2>4. \A v \in Workers : ~Claims(v, j)'
    BY <1>3, <2>1, <2>2 DEF Claims, Holds
  <2>5. Untouched(j)'
    BY <1>3, <2>1, <2>3, <2>4 DEF Untouched, Holds
  <2> QED
    BY <2>0, <2>5 DEF Gone
<1>10. ASSUME j \notin resent
       PROVE  CommandOK(w, 1)' /\ CommandOK(w, 2)'
  <2>1. CASE Retires(j, cmds)
    <3>1. /\ cmds[1].op \in {"set", "del"} /\ cmds[2].op = "zrem"
          /\ cmds[1].op = "set" => ~cmds[1].rec.enabled
      BY <2>1 DEF Retires
    <3>2. CommandOK(w, 1)'
      BY <1>2, <1>3, <1>9, <1>10, <2>1, <3>1 DEF CommandOK
    <3>3. CommandOK(w, 2)'
      BY <1>2, <1>3, <1>9, <1>10, <2>1, <3>1 DEF CommandOK
    <3> QED
      BY <3>2, <3>3
  <2>2. CASE Requeues(j, cmds)
    <3>1. /\ cmds[1].op = "set" /\ cmds[2].op = "zadd"
          /\ cmds[2].rec = cmds[1].rec /\ cmds[2].rec.next = NextRun(j, now)
          /\ j \notin OneShot
      BY <2>2 DEF Requeues
    <3>2. NextRun(j, now) # NoTime
      <4>1. now \in Nat /\ Period \in Nat \ {0}
        BY NumbersAssumption DEF IInv, TypeOK
      <4>2. now \div Period \in Nat
        BY <4>1
      <4>3. (now \div Period + 1) * Period \in Nat
        BY <4>1, <4>2
      <4> QED
        BY <3>1, <4>3, NumbersAssumption DEF NextRun
    <3>3. cmds[2].rec.next # NoTime
      BY <3>1, <3>2
    <3>4. CommandOK(w, 1)'
      BY <1>2, <1>3, <3>1 DEF CommandOK
    <3>5. CommandOK(w, 2)'
      BY <1>2, <1>3, <3>1, <3>3 DEF CommandOK
    <3> QED
      BY <3>4, <3>5
  <2> QED
    BY <1>2, <2>1, <2>2
<1>11. \A i \in 1..Len(todo'[w]) :
         todo'[w][i].job \notin resent' => CommandOK(w, i)'
  <2> SUFFICES ASSUME NEW i \in 1..Len(cmds), cmds[i].job \notin resent
               PROVE  CommandOK(w, i)'
    BY <1>3
  <2>1. i = 1 \/ i = 2
    BY <1>6
  <2> QED
    BY <1>2, <1>10, <2>1
<1> QED
  BY <1>3, <1>4, <1>5, <1>11 DEF ScriptsOK

LEMMA ExecuteScripts ==
  ASSUME IInv, ScriptsOK, NEW a \in Actors, Execute(a)
  PROVE  ScriptsOK'
<1>1. PICK cmd \in Command : cmd = todo[a][1] /\ Apply(cmd)
  BY TailShape DEF Execute, IInv
<1>2. /\ 1 \in 1..Len(todo[a]) /\ Len(todo[a]) \in Nat
      /\ Len(todo'[a]) = Len(todo[a]) - 1
      /\ \A i \in 1..Len(todo'[a]) : /\ i + 1 \in 1..Len(todo[a])
                                     /\ i + 1 # 1 /\ i \in Nat
                                     /\ todo'[a][i] = todo[a][i + 1]
      /\ \A b \in Actors : b # a => todo'[b] = todo[b]
  BY TailShape DEF IInv
<1>3. [Next]_vars /\ KnownOK'
  BY StepKnown DEF Next, ScriptsOK
<1>4. cmd.job \in Jobs /\ resent' = resent
  BY <1>1, ApplyEffect DEF IInv, Execute, marks
<1>6. ASSUME NEW j \in Jobs \ resent', blob[j] # NoJob, blob'[j] = NoJob
      PROVE  cmd.op = "del" /\ cmd.job = j /\ Gone(j)'
  <2>1. NoJob \notin Record
    BY NumbersAssumption DEF Record, Time
  <2>2. cmd.op = "del" /\ cmd.job = j
    BY <1>1, <1>6, <2>1, ApplyEffect DEF IInv
  <2> QED
    BY <1>1, <1>4, <2>2, RemovedIsGone
<1>7. \A b \in Actors : b # a => \A i \in 1..Len(todo'[b]) :
        todo'[b][i].job \notin resent' => CommandOK(b, i)'
  BY <1>2, <1>3, <1>6, OtherScripts
<1>8. ASSUME NEW i \in 1..Len(todo'[a]), todo'[a][i].job \notin resent'
      PROVE  CommandOK(a, i)'
  <2>1. CommandOK(a, i + 1)
    BY <1>2, <1>4, <1>8 DEF ScriptsOK
  <2>2. PICK c \in Command : c = todo[a][i + 1] /\ c.job \in Jobs
    <3>1. todo[a][i + 1] \in Command
      BY <1>2 DEF IInv, TypeOK
    <3> QED
      BY <3>1 DEF Command
  <2>3. /\ c.job \in Known /\ c.op \notin {"set", "del"}
        /\ c.op = "zadd" => c.rec.next # NoTime
    BY <1>2, <2>1, <2>2 DEF CommandOK, ScriptsOK, KnownOK
  <2>4. ASSUME c.op = "zrem"
        PROVE  Gone(c.job)'
    <3>1. CASE Gone(c.job)
      BY <1>3, <2>2, <2>3, <3>1, GoneStays
    <3>2. CASE todo[a][1].op = "del"
      <4>1. todo[a][1].job = c.job /\ c.job \notin resent
        BY <1>2, <1>4, <1>8, <2>2 DEF IInv, TodoOK
      <4> QED
        BY <3>2, <4>1, RemovedIsGone
    <3> QED
      BY <2>1, <2>2, <2>4, <3>1, <3>2 DEF CommandOK
  <2>5. todo'[a][i] = c
    BY <1>2, <2>2
  <2> QED
    BY <2>3, <2>4, <2>5 DEF CommandOK
<1> QED
  BY <1>2, <1>3, <1>7, <1>8 DEF ScriptsOK

LEMMA ResentScripts ==
  ASSUME IInv, ScriptsOK, NEW a \in Actors, ExecuteRetried(a)
  PROVE  ScriptsOK'
<1>1. PICK cmd \in Command : cmd = todo[a][1] /\ Apply(cmd) /\ 1 \in 1..Len(todo[a])
  BY DEF ExecuteRetried, IInv, TypeOK
<1>2. /\ UNCHANGED <<todo, created>> /\ resent' = resent \cup {cmd.job}
      /\ [Next]_vars /\ KnownOK'
  <2>1. UNCHANGED <<todo, created>> /\ resent' = resent \cup {cmd.job}
    BY <1>1 DEF ExecuteRetried, IInv, TypeOK
  <2>2. [Next]_vars
    BY DEF Next, Failure
  <2> QED
    BY <2>1, <2>2, StepKnown DEF ScriptsOK
<1>3. /\ cmd.job \in Jobs
      /\ \A j \in Jobs : j # cmd.job => blob'[j] = blob[j]
  BY <1>1, ApplyEffect DEF IInv
<1>4. \A b \in Actors : \A i \in 1..Len(todo'[b]) :
        todo'[b][i].job \notin resent' => CommandOK(b, i)'
  <2>1. \A j \in Jobs \ resent' : blob[j] # NoJob => blob'[j] # NoJob
    BY <1>2, <1>3
  <2> QED
    BY <1>2, <2>1, OtherScripts
<1> QED
  BY <1>2, <1>4 DEF ScriptsOK

LEMMA StepScripts ==
  ASSUME PartiesAhead, IInv, ScriptsOK, [Next]_vars
  PROVE  ScriptsOK'
<1>1. CASE \E c \in Clients : ClientStep(c)
  BY <1>1, ClientScripts
<1>2. CASE \E a \in Actors : Execute(a)
  BY <1>2, ExecuteScripts
<1>3. CASE \E w \in Workers : Finish(w)
  BY <1>3, FinishScripts
<1>4. ASSUME UNCHANGED <<blob, created>>,
             \A a \in Actors : todo'[a] \in {todo[a], <<>>}
      PROVE  ScriptsOK'
  <2>1. \A a \in Actors : \A i \in 1..Len(todo'[a]) :
          todo'[a][i].job \notin resent' => CommandOK(a, i)'
    <3> SUFFICES ASSUME NEW a \in Actors, NEW i \in 1..Len(todo'[a]),
                        todo'[a][i].job \notin resent'
                 PROVE  CommandOK(a, i)'
      OBVIOUS
    <3>1. todo'[a] = todo[a] /\ i \in 1..Len(todo[a])
      BY <1>4
    <3> QED
      BY <1>4, <3>1, OtherScripts
  <2> QED
    BY <2>1, StepKnown DEF ScriptsOK
<1>5. CASE \E w \in Workers : WorkerStep(w) /\ ~Finish(w)
  <2>1. UNCHANGED <<blob, created, todo>>
    BY <1>5 DEF WorkerStep, Scan, Claim, Lose, Read, Run, store, hist
  <2> QED
    BY <1>4, <2>1
<1>6. CASE Failure
  <2>1. CASE ~\E a \in Actors : ExecuteRetried(a)
    <3>1. /\ UNCHANGED <<blob, created>>
          /\ \A a \in Actors : todo'[a] \in {todo[a], <<>>}
      BY <1>6, <2>1
      DEF Failure, ClaimRetried, WorkerAbort, ClientAbort, store, hist, IInv, TypeOK
    <3> QED
      BY <1>4, <3>1
  <2> QED
    BY <2>1, ResentScripts
<1>7. CASE Tick \/ UNCHANGED vars
  <2>1. UNCHANGED <<blob, created, todo>>
    BY <1>7 DEF Tick, vars, store, hist
  <2> QED
    BY <1>4, <2>1
<1> QED
  BY <1>1, <1>2, <1>3, <1>5, <1>6, <1>7 DEF Next

\* Why a job that is not in the queue is not forgotten.
Waits(j) ==
  \/ zset[j] # NoTime
  \/ \E a \in Actors : Holds(a, j) \/ \E i \in 1..Len(todo[a]) :
       todo[a][i].op = "set" /\ todo[a][i].job = j

Awaited(j) == blob[j] # NoJob /\ blob[j].enabled /\ ~BeingDeleted(j) => Waits(j)

\* A step that leaves the store alone and only adds to the scripts.
LEMMA AwaitedStays ==
  ASSUME UNCHANGED <<blob, zset>>, [Next]_vars, NEW j \in Jobs, Awaited(j),
         \A w \in Workers : Claims(w, j) => Claims(w, j)',
         \A a \in Actors : todo[a] # <<>> => todo'[a] = todo[a],
         \A a \in Actors : Len(todo[a]) \in Nat /\ (todo[a] = <<>> => Len(todo[a]) = 0)
  PROVE  Awaited(j)'
<1>1. \A a \in Actors : \A i \in 1..Len(todo[a]) : todo'[a] = todo[a]
  <2> SUFFICES ASSUME NEW a \in Actors, NEW i \in 1..Len(todo[a])
               PROVE  todo'[a] = todo[a]
    OBVIOUS
  <2>1. Len(todo[a]) # 0
    OBVIOUS
  <2> QED
    BY <2>1
<1>2. BeingDeleted(j) => BeingDeleted(j)'
  BY <1>1, GhostsGrow DEF BeingDeleted
<1>3. Waits(j) => Waits(j)'
  BY <1>1 DEF Waits, Holds, WillQueue
<1> QED
  BY <1>2, <1>3 DEF Awaited

LEMMA WorkerAwaited ==
  ASSUME IInv, NEW w \in Workers, WorkerStep(w), NEW j \in Jobs, Awaited(j)
  PROVE  Awaited(j)'
<1>0. /\ [Next]_vars
      /\ \A a \in Actors : Len(todo[a]) \in Nat /\ (todo[a] = <<>> => Len(todo[a]) = 0)
  BY DEF Next, IInv, TypeOK
<1>1. CASE Scan(w) \/ (\E k \in Jobs : Lose(w, k))
  <2>1. /\ UNCHANGED <<blob, zset, todo, cur, batch>>
        /\ \A v \in Workers : wpc[v] \in {"read", "running"} => wpc'[v] = wpc[v]
    BY <1>1 DEF Scan, Lose, AfterClaim, store, hist, IInv, TypeOK
  <2>2. \A v \in Workers : Claims(v, j) => Claims(v, j)'
    BY <2>1 DEF Claims
  <2> QED
    BY <1>0, <2>1, <2>2, AwaitedStays
<1>2. CASE \E k \in Jobs : Claim(w, k)
  <2>1. PICK k \in Jobs : Claim(w, k)
    BY <1>2
  <2>2. /\ UNCHANGED <<blob, todo, batch, cancelled>> /\ wpc[w] = "claim"
        /\ wpc'[w] = "read" /\ cur'[w] = k
        /\ \A i \in Jobs : i # k => zset'[i] = zset[i]
        /\ \A v \in Workers : v # w => wpc'[v] = wpc[v] /\ cur'[v] = cur[v]
    BY <2>1 DEF Claim, hist, IInv, TypeOK
  <2>3. \A v \in Workers : Claims(v, j) => Claims(v, j)'
    BY <2>2 DEF Claims
  <2>4. Claims(w, k)'
    BY <2>2 DEF Claims
  <2>5. Waits(j) => Waits(j)'
    <3>1. CASE j = k
      BY <2>4, <3>1 DEF Waits, Holds
    <3>2. CASE j # k
      BY <2>2, <2>3, <3>2 DEF Waits, Holds, WillQueue
    <3> QED
      BY <3>1, <3>2
  <2> QED
    BY <2>2, <2>5 DEF Awaited, BeingDeleted
<1>3. CASE Read(w)
  <2>1. /\ UNCHANGED <<blob, zset, todo, cancelled>> /\ wpc[w] = "read"
        /\ batch'[w] = batch[w] \cup Claimed(cur[w])
        /\ \A v \in Workers : v # w => /\ wpc'[v] = wpc[v] /\ cur'[v] = cur[v]
                                       /\ batch'[v] = batch[v]
    BY <1>3 DEF Read, AfterClaim, store, hist, IInv, TypeOK
  <2>2. ASSUME blob[j] # NoJob, blob[j].enabled
        PROVE  \A v \in Workers : Claims(v, j) => Claims(v, j)'
    <3>1. cur[w] = j => <<j, blob[j].next>> \in batch'[w]
      BY <2>1, <2>2 DEF Claimed
    <3>2. cur[w] = j => Claims(w, j)'
      BY <3>1 DEF Claims
    <3>3. (\E e \in batch[w] : e[1] = j) => Claims(w, j)'
      BY <2>1 DEF Claims
    <3> QED
      BY <2>1, <3>2, <3>3 DEF Claims
  <2>3. CASE blob[j] # NoJob /\ blob[j].enabled
    BY <1>0, <2>1, <2>2, <2>3, AwaitedStays
  <2>4. CASE ~(blob[j] # NoJob /\ blob[j].enabled)
    BY <2>1, <2>4 DEF Awaited
  <2> QED
    BY <2>3, <2>4
<1>4. CASE \E e \in batch[w] : Run(w, e[1], e[2])
  <2>1. PICK e \in batch[w] : Run(w, e[1], e[2])
    BY <1>4
  <2>2. e \in Jobs \X Time /\ e = <<e[1], e[2]>>
    BY DEF IInv, TypeOK
  <2>3. /\ UNCHANGED <<blob, zset, todo>> /\ wpc[w] = "run"
        /\ wpc'[w] = "running" /\ cur'[w] = e[1] /\ batch'[w] = batch[w] \ {e}
        /\ \A v \in Workers : v # w => /\ wpc'[v] = wpc[v] /\ cur'[v] = cur[v]
                                       /\ batch'[v] = batch[v]
    BY <2>1, <2>2 DEF Run, store, IInv, TypeOK
  <2>4. \A v \in Workers : Claims(v, j) => Claims(v, j)'
    BY <2>3 DEF Claims
  <2> QED
    BY <1>0, <2>3, <2>4, AwaitedStays
<1>5. CASE Finish(w)
  <2>1. PICK k \in Jobs : k = cur[w] /\ wpc[w] = "running" /\ todo[w] = <<>>
    BY <1>5, FinishScript
  <2>2. PICK cmds : /\ todo' = [todo EXCEPT ![w] = cmds] /\ Len(cmds) = 2
                    /\ cmds[1].job = k
                    /\ Retires(k, cmds) \/ Requeues(k, cmds)
    BY <1>5, <2>1, FinishScript
  <2>3. /\ todo'[w] = cmds /\ \A a \in Actors : a # w => todo'[a] = todo[a]
        /\ UNCHANGED <<blob, zset, batch>>
        /\ \A v \in Workers : v # w => wpc'[v] = wpc[v] /\ cur'[v] = cur[v]
    BY <1>5, <2>2 DEF Finish, store, hist, IInv, TypeOK
  <2>4. CASE j = k
    <3>1. 1 \in 1..Len(cmds) /\ cmds[1].op \in {"set", "del"}
      BY <2>2 DEF Retires, Requeues
    <3>2. CASE cmds[1].op = "set"
      <4>1. Waits(j)'
        BY <2>2, <2>3, <2>4, <3>1, <3>2 DEF Waits
      <4> QED
        BY <4>1 DEF Awaited
    <3>3. CASE cmds[1].op = "del"
      <4>1. BeingDeleted(j)'
        BY <2>2, <2>3, <2>4, <3>1, <3>3 DEF BeingDeleted
      <4> QED
        BY <4>1 DEF Awaited
    <3> QED
      BY <3>1, <3>2, <3>3
  <2>5. CASE j # k
    <3>1. \A v \in Workers : Claims(v, j) => Claims(v, j)'
      BY <2>1, <2>3, <2>5 DEF Claims
    <3> QED
      BY <1>0, <2>1, <2>3, <3>1, AwaitedStays
  <2> QED
    BY <2>4, <2>5
<1> QED
  BY <1>1, <1>2, <1>3, <1>4, <1>5 DEF WorkerStep

LEMMA ExecuteAwaited ==
  ASSUME IInv, ScriptsOK, NEW a \in Actors, Execute(a),
         NEW j \in Jobs \ resent, Awaited(j)
  PROVE  Awaited(j)'
<1>1. PICK cmd \in Command : cmd = todo[a][1] /\ Apply(cmd)
  BY TailShape DEF Execute, IInv
<1>2. /\ 1 \in 1..Len(todo[a]) /\ Len(todo[a]) \in Nat
      /\ Len(todo'[a]) = Len(todo[a]) - 1
      /\ \A i \in 1..Len(todo'[a]) : todo'[a][i] = todo[a][i + 1]
      /\ \A i \in 1..Len(todo[a]) : i # 1 =>
           /\ i - 1 \in 1..Len(todo'[a]) /\ todo'[a][i - 1] = todo[a][i]
      /\ \A b \in Actors : b # a => todo'[b] = todo[b]
  <2>1. /\ Len(todo[a]) \in Nat \ {0} /\ Len(todo'[a]) = Len(todo[a]) - 1
        /\ \A i \in 1..Len(todo'[a]) : todo'[a][i] = todo[a][i + 1]
        /\ \A b \in Actors : b # a => todo'[b] = todo[b]
    BY TailShape DEF IInv
  <2>2. \A i \in 1..Len(todo[a]) : i # 1 =>
          i - 1 \in 1..Len(todo'[a]) /\ (i - 1) + 1 = i
    BY <2>1
  <2>3. \A i \in 1..Len(todo[a]) : i # 1 => todo'[a][i - 1] = todo[a][i]
    <3> SUFFICES ASSUME NEW i \in 1..Len(todo[a]), i # 1
                 PROVE  todo'[a][i - 1] = todo[a][i]
      OBVIOUS
    <3>1. i - 1 \in 1..Len(todo'[a]) /\ (i - 1) + 1 = i
      BY <2>2
    <3>2. todo'[a][i - 1] = todo[a][(i - 1) + 1]
      BY <2>1, <3>1
    <3> QED
      BY <3>1, <3>2
  <2> QED
    BY <2>1, <2>2, <2>3
<1>3. /\ cmd.job = j => CommandOK(a, 1)
      /\ UNCHANGED <<cur, batch>>
  BY <1>1, <1>2 DEF ScriptsOK, Execute
<1>4. \A w \in Workers : Claims(w, j) => Claims(w, j)'
  BY DEF Execute, AfterSave, Claims, IInv, TypeOK, TodoOK
<1>5. \A b \in Actors : WillQueue(b, j) => \/ WillQueue(b, j)'
                                           \/ b = a /\ cmd.op = "zadd" /\ cmd.job = j
  <2> SUFFICES ASSUME NEW b \in Actors, NEW i \in 1..Len(todo[b]),
                      todo[b][i].op = "zadd", todo[b][i].job = j,
                      ~(b = a /\ i = 1)
               PROVE  WillQueue(b, j)'
    BY <1>1 DEF WillQueue
  <2>1. PICK k \in 1..Len(todo'[b]) : todo'[b][k] = todo[b][i]
    BY <1>2
  <2> QED
    BY <2>1 DEF WillQueue
<1>6. Waits(j) => \/ Waits(j)'
                  \/ cmd.job = j /\ cmd.op # "del"
  <2>1. CASE zset[j] # NoTime
    <3>1. zset'[j] # NoTime \/ cmd.op = "zrem" \/ cmd.op = "zadd" \/ cmd.job # j
      BY <1>1, <2>1, ApplyEffect DEF IInv
    <3>2. cmd.job # j \/ cmd.op = "del" => zset'[j] = zset[j]
      BY <1>1, ApplyEffect DEF IInv
    <3> QED
      BY <2>1, <3>1, <3>2 DEF Waits
  <2>2. CASE \E b \in Actors : Holds(b, j)
    BY <1>4, <1>5, <2>2 DEF Waits, Holds
  <2>3. ASSUME NEW b \in Actors, NEW i \in 1..Len(todo[b]),
               todo[b][i].op = "set", todo[b][i].job = j
        PROVE  Waits(j)' \/ (cmd.job = j /\ cmd.op # "del")
    <3>1. CASE b = a /\ i = 1
      BY <1>1, <2>3, <3>1
    <3>2. CASE ~(b = a /\ i = 1)
      <4>1. PICK k \in 1..Len(todo'[b]) : todo'[b][k] = todo[b][i]
        BY <1>2, <3>2
      <4> QED
        BY <2>3, <4>1 DEF Waits
    <3> QED
      BY <3>1, <3>2
  <2> QED
    BY <2>1, <2>2, <2>3 DEF Waits
<1>7. BeingDeleted(j) => BeingDeleted(j)' \/ (cmd.op = "del" /\ cmd.job = j)
  <2>1. cancelled \subseteq cancelled'
    BY DEF Execute, Cancelled
  <2>2. ASSUME NEW b \in Actors, NEW i \in 1..Len(todo[b]),
               todo[b][i].op = "del", todo[b][i].job = j, ~(b = a /\ i = 1)
        PROVE  BeingDeleted(j)'
    <3>1. PICK k \in 1..Len(todo'[b]) : todo'[b][k] = todo[b][i]
      BY <1>2, <2>2
    <3> QED
      BY <2>2, <3>1 DEF BeingDeleted
  <2> QED
    BY <1>1, <2>1, <2>2 DEF BeingDeleted
<1>8. CASE cmd.job # j
  <2>1. blob'[j] = blob[j]
    BY <1>1, <1>8, ApplyEffect DEF IInv
  <2> QED
    BY <1>6, <1>7, <1>8, <2>1 DEF Awaited
<1>9. CASE cmd.job = j /\ cmd.op = "set"
  <2>1. blob'[j] = cmd.rec
    BY <1>1, <1>9, ApplyEffect DEF IInv
  <2>2. ASSUME cmd.rec.enabled
        PROVE  Waits(j)'
    <3>1. Len(todo[a]) = 2 /\ todo[a][2].op = "zadd" /\ todo[a][2].job = j
      BY <1>1, <1>3, <1>9, <2>2 DEF CommandOK
    <3>2. 1 \in 1..Len(todo'[a]) /\ todo'[a][1] = todo[a][2]
      <4>1. Len(todo'[a]) = 1
        BY <1>2, <3>1
      <4>2. 1 \in 1..Len(todo'[a])
        BY <4>1
      <4>3. todo'[a][1] = todo[a][1 + 1]
        BY <1>2, <4>2
      <4> QED
        BY <4>2, <4>3
    <3> QED
      BY <3>1, <3>2 DEF Waits, Holds, WillQueue
  <2> QED
    BY <2>1, <2>2 DEF Awaited
<1>10. CASE cmd.job = j /\ cmd.op = "zadd"
  <2>1. zset'[j] # NoTime
    BY <1>1, <1>3, <1>10, ApplyEffect DEF CommandOK, IInv
  <2> QED
    BY <2>1 DEF Awaited, Waits
<1>11. CASE cmd.job = j /\ cmd.op = "zrem"
  <2>1. Gone(j) /\ blob'[j] = blob[j]
    BY <1>1, <1>3, <1>11, ApplyEffect DEF CommandOK, IInv
  <2>2. CASE j \in cancelled
    BY <2>2, GhostsGrow DEF Awaited, BeingDeleted, Next
  <2>3. CASE Untouched(j)
    <3>1. ASSUME NEW b \in Actors, NEW i \in 1..Len(todo[b]),
                 todo[b][i].op = "set", todo[b][i].job = j
          PROVE  Waits(j)'
      <4>1. CASE b = a
        <5>1. i # 1
          BY <1>1, <1>11, <3>1, <4>1
        <5>2. i - 1 \in 1..Len(todo'[a]) /\ todo'[a][i - 1] = todo[a][i]
          BY <1>2, <4>1, <5>1
        <5> QED
          BY <3>1, <4>1, <5>2 DEF Waits
      <4>2. CASE b # a
        BY <1>2, <3>1, <4>2 DEF Waits
      <4> QED
        BY <4>1, <4>2
    <3>2. Waits(j) => Waits(j)'
      BY <2>3, <3>1 DEF Waits, Untouched
    <3> QED
      BY <1>7, <1>11, <2>1, <3>2 DEF Awaited
  <2> QED
    BY <2>1, <2>2, <2>3 DEF Gone
<1>12. CASE cmd.job = j /\ cmd.op = "del"
  <2>1. blob'[j] = NoJob
    BY <1>1, <1>12, ApplyEffect DEF IInv
  <2> QED
    BY <2>1 DEF Awaited
<1>13. cmd.op \in {"set", "zadd", "zrem", "del"}
  BY <1>1, ApplyEffect DEF IInv
<1> QED
  BY <1>8, <1>9, <1>10, <1>11, <1>12, <1>13

LEMMA StepAwaited ==
  ASSUME IInv, ScriptsOK, [Next]_vars, faults' = 0,
         NEW j \in Jobs \ resent', Awaited(j)
  PROVE  Awaited(j)'
<1>0. /\ \A a \in Actors : Len(todo[a]) \in Nat /\ (todo[a] = <<>> => Len(todo[a]) = 0)
      /\ j \in Jobs \ resent /\ cancelled \subseteq cancelled'
  BY GhostsGrow DEF IInv, TypeOK
<1>1. CASE \E c \in Clients : ClientStep(c)
  <2>1. PICK c \in Clients : ClientStep(c)
    BY <1>1
  <2>2. /\ UNCHANGED <<blob, zset, wpc, cur, batch>>
        /\ \A a \in Actors : todo[a] # <<>> => todo'[a] = todo[a]
    BY <2>1, ClientScript DEF ClientWrites, store, work, IInv, TypeOK
  <2>3. \A w \in Workers : Claims(w, j) => Claims(w, j)'
    BY <2>2 DEF Claims
  <2> QED
    BY <1>0, <2>2, <2>3, AwaitedStays
<1>2. CASE Failure
  <2>1. CASE \E a \in Actors : ExecuteRetried(a)
    <3>1. PICK a \in Actors : ExecuteRetried(a)
      BY <2>1
    <3>2. PICK cmd \in Command : cmd = Head(todo[a]) /\ Apply(cmd)
      BY <3>1 DEF ExecuteRetried, IInv, TypeOK
    <3>3. cmd.job # j /\ UNCHANGED <<todo, wpc, cur, batch>>
      BY <3>1, <3>2 DEF ExecuteRetried, work
    <3>4. blob'[j] = blob[j] /\ zset'[j] = zset[j]
      BY <3>2, <3>3, ApplyEffect DEF IInv
    <3> QED
      BY <1>0, <3>3, <3>4 DEF Awaited, Waits, BeingDeleted, Holds, Claims, WillQueue
  <2>2. CASE \E w \in Workers, k \in Jobs : ClaimRetried(w, k)
    <3>1. PICK w \in Workers, k \in Jobs : ClaimRetried(w, k)
      BY <2>2
    <3>2. /\ k # j /\ zset'[j] = zset[j] /\ wpc[w] = "claim"
          /\ UNCHANGED <<blob, todo, cur, batch>>
          /\ \A v \in Workers : v # w => wpc'[v] = wpc[v]
      BY <3>1 DEF ClaimRetried, AfterClaim, IInv, TypeOK
    <3>3. \A v \in Workers : Claims(v, j) => Claims(v, j)'
      BY <3>2 DEF Claims
    <3> QED
      BY <1>0, <3>2, <3>3 DEF Awaited, Waits, BeingDeleted, Holds, WillQueue
  <2>3. CASE (\E w \in Workers : WorkerAbort(w)) \/ (\E c \in Clients : ClientAbort(c))
    <3>1. faults' = faults + 1 /\ faults + 1 # 0
      BY <2>3 DEF WorkerAbort, ClientAbort, IInv, TypeOK
    <3> QED
      BY <3>1
  <2> QED
    BY <1>2, <2>1, <2>2, <2>3 DEF Failure
<1>3. CASE Tick \/ UNCHANGED vars
  <2>1. UNCHANGED <<store, todo, work, hist>>
    BY <1>3 DEF Tick, vars, store, work, hist, marks
  <2> QED
    BY <2>1 DEF Awaited, Waits, BeingDeleted, Holds, Claims, WillQueue, store, work, hist
<1>4. CASE \E w \in Workers : WorkerStep(w)
  BY <1>0, <1>4, WorkerAwaited
<1>5. CASE \E a \in Actors : Execute(a)
  BY <1>0, <1>5, ExecuteAwaited
<1> QED
  BY <1>1, <1>2, <1>3, <1>4, <1>5 DEF Next

LEMMA FaultsGrow ==
  ASSUME TypeOK, [Next]_vars, faults' = 0
  PROVE  faults = 0
<1>1. faults' \in {faults, faults + 1}
  BY DEF Next, ClientStep, WorkerStep, Create, ScheduleParty, Remove, Seed, Write,
         Scan, Claim, Lose, Read, Run, Finish, Execute, Failure, ExecuteRetried,
         ClaimRetried, WorkerAbort, ClientAbort, Tick, vars
<1> QED
  BY <1>1 DEF TypeOK

StrandInv ==
  /\ ScriptsOK
  /\ faults = 0 => \A j \in Jobs \ resent : Awaited(j)

\* As long as no process fails and parties are scheduled ahead, every enabled
\* job that nobody deletes is in the queue or on its way there, for any number
\* of workers, seeders and clients, whichever seeds race; only a job on which a
\* command was resent is excepted.
THEOREM NoJobIsStranded ==
  Spec /\ [][PartiesAhead]_vars => []NeverStranded
<1>1. Init => IInv /\ StrandInv
  BY InitIInv DEF Init, StrandInv, ScriptsOK, KnownOK, Awaited
<1>2. IInv /\ StrandInv /\ [Next]_vars /\ [PartiesAhead]_vars
        => (IInv /\ StrandInv)'
  <2> SUFFICES ASSUME IInv, StrandInv, [Next]_vars, [PartiesAhead]_vars
               PROVE  (IInv /\ StrandInv)'
    OBVIOUS
  <2>0. PartiesAhead
    BY DEF PartiesAhead, vars, hist
  <2>1. IInv' /\ ScriptsOK'
    BY <2>0, StepIInv, StepScripts DEF StrandInv
  <2>2. ASSUME faults' = 0, NEW j \in Jobs \ resent'
        PROVE  Awaited(j)'
    <3>1. faults = 0 /\ j \in Jobs \ resent
      BY <2>2, FaultsGrow, GhostsGrow DEF IInv
    <3> QED
      BY <2>2, <3>1, StepAwaited DEF StrandInv
  <2> QED
    BY <2>1, <2>2 DEF StrandInv
<1>3. StrandInv => NeverStranded
  BY DEF StrandInv, NeverStranded, Awaited, Waits
<1> QED
  BY <1>1, <1>2, <1>3, PTL DEF Spec

-----------------------------------------------------------------------------
(* NoDoubleFire: with one worker, the occurrence a cron job waits for is    *)
(* later than every occurrence of it that was started, and it is the one    *)
(* its blob names when it is claimed.                                       *)

\* The property needs it: a second worker may claim by a stale candidate list,
\* before the time is due, and run an occurrence that is then queued again.
SoleWorker == \A v, w \in Workers : v = w

\* A script saves a cron job in its queue place too, and nothing else there.
PairOK(cmds) ==
  /\ Len(cmds) <= 2
  /\ \A i \in 1..Len(cmds) :
       /\ cmds[i].op = "set" => i = 1
       /\ cmds[i].op = "set" /\ cmds[i].job \notin OneShot /\ cmds[i].rec.enabled =>
            /\ Len(cmds) = 2 /\ cmds[2].op = "zadd"
            /\ cmds[2].job = cmds[i].job /\ cmds[2].rec = cmds[i].rec
       /\ cmds[i].op = "zadd" /\ i = 2 =>
            /\ cmds[1].op = "set"
            /\ cmds[1].job = cmds[i].job /\ cmds[1].rec = cmds[i].rec

PairsOK == \A a \in Actors : PairOK(todo[a])

Later(t, j) == t \in Nat /\ \A e \in fired : e[1] = j => e[2] < t

Agrees(j, t) ==
  \/ blob[j] = NoJob
  \/ ~blob[j].enabled
  \/ blob[j].next = t

\* A cron job whose seed did not race and whose commands were sent once.
Steady(j) == j \notin OneShot /\ ~Disturbed(j)

FiredOK == \A e \in fired : Steady(e[1]) => e[2] \in Nat /\ e[2] <= now

ScoresLater ==
  \A j \in Jobs :
    Steady(j) /\ zset[j] # NoTime => Later(zset[j], j) /\ Agrees(j, zset[j])

QueuedLater ==
  \A a \in Actors : \A i \in 1..Len(todo[a]) :
    todo[a][i].op = "zadd" /\ Steady(todo[a][i].job) =>
      /\ Later(todo[a][i].rec.next, todo[a][i].job)
      /\ i = 1 => Agrees(todo[a][i].job, todo[a][i].rec.next)

ReadDue ==
  \A w \in Workers : wpc[w] = "read" /\ Steady(cur[w]) =>
    \/ blob[cur[w]] = NoJob
    \/ ~blob[cur[w]].enabled
    \/ Later(blob[cur[w]].next, cur[w]) /\ blob[cur[w]].next <= now

BatchDue ==
  \A w \in Workers : \A e \in batch[w] :
    Steady(e[1]) => Later(e[2], e[1]) /\ e[2] <= now

CandidatesDue ==
  \A w \in Workers :
    /\ wpc[w] \notin {"claim", "read"} => cand[w] = {}
    /\ \A j \in cand[w] :
         /\ j \in Known
         /\ ~Disturbed(j) => /\ zset[j] = NoTime \/ zset[j] <= now
                             /\ \A a \in Actors : ~WillQueue(a, j)

InTime == PairsOK /\ FiredOK /\ ScoresLater /\ QueuedLater /\ ReadDue /\ BatchDue
            /\ CandidatesDue

\* croniter's get_next is strictly later than its base.
LEMMA NextRunLater ==
  ASSUME NEW j \in Jobs \ OneShot, NEW t \in Nat
  PROVE  NextRun(j, t) \in Nat /\ NextRun(j, t) > t
<1> PICK P \in Nat \ {0} : P = Period
  BY NumbersAssumption
<1> DEFINE q == t \div P
           r == t % P
<1>1. q \in Nat /\ r \in Nat /\ r < P /\ t = P * q + r
  OBVIOUS
<1> HIDE DEF q, r
<1>2. (q + 1) * P = P * q + P
  BY <1>1
<1>3. P * q \in Nat
  BY <1>1
<1>4. (q + 1) * P \in Nat /\ (q + 1) * P > t
  BY <1>1, <1>2, <1>3
<1> QED
  BY <1>4 DEF NextRun, q

LEMMA InitInTime == Init => InTime
BY DEF Init, InTime, Steady, PairsOK, PairOK, FiredOK, ScoresLater, QueuedLater, ReadDue,
       BatchDue, CandidatesDue

\* Time passes, tokens go, and nothing is queued or claimed.
LEMMA InTimeShrinks ==
  ASSUME TypeOK, InTime, Grow, UNCHANGED <<blob, fired>>,
         now' \in Nat, now <= now', created \subseteq created',
         \A j \in Jobs : zset'[j] \in {zset[j], NoTime},
         \A a \in Actors : todo'[a] \in {todo[a], <<>>},
         \A w \in Workers :
           /\ batch'[w] \subseteq batch[w] /\ cand'[w] \subseteq cand[w]
           /\ wpc'[w] = "read" => wpc[w] = "read" /\ cur'[w] = cur[w]
           /\ wpc'[w] \notin {"claim", "read"} => cand'[w] = {}
  PROVE  InTime'
<1>0. now \in Nat /\ \A t \in Nat : t <= now => t <= now'
  BY NumbersAssumption DEF TypeOK
<1>1. \A t, j : Later(t, j) => Later(t, j)'
  BY DEF Later
<1>2. \A t, j : Agrees(j, t) => Agrees(j, t)'
  BY DEF Agrees
<1>9. \A j : Steady(j)' => Steady(j)
  BY DEF Steady, Grow
<1>3. PairsOK' /\ FiredOK'
  BY <1>0, <1>9 DEF InTime, PairsOK, PairOK, FiredOK
<1>4. ScoresLater'
  BY <1>1, <1>2, <1>9 DEF InTime, ScoresLater
<1>5. QueuedLater'
  BY <1>1, <1>2, <1>9 DEF InTime, QueuedLater
<1>6. ReadDue' /\ BatchDue'
  BY <1>0, <1>1, <1>9 DEF InTime, ReadDue, BatchDue, Later
<1>7. CandidatesDue'
  <2> SUFFICES ASSUME NEW w \in Workers, NEW j \in cand'[w]
               PROVE  /\ j \in Known'
                      /\ ~Disturbed(j)' => /\ zset'[j] = NoTime \/ zset'[j] <= now'
                                           /\ \A a \in Actors : ~WillQueue(a, j)'
    BY DEF CandidatesDue
  <2>0. j \in Known'
    BY DEF InTime, CandidatesDue, Known
  <2> SUFFICES ASSUME ~Disturbed(j)'
               PROVE  /\ zset'[j] = NoTime \/ zset'[j] <= now'
                      /\ \A a \in Actors : ~WillQueue(a, j)'
    BY <2>0
  <2>1. j \in cand[w] /\ j \in Jobs /\ ~Disturbed(j)
    BY DEF TypeOK, Grow
  <2>2. zset'[j] = NoTime \/ zset'[j] <= now'
    BY <1>0, <2>1 DEF InTime, CandidatesDue, TypeOK, Time
  <2>3. \A a \in Actors : ~WillQueue(a, j)'
    BY <2>1 DEF InTime, CandidatesDue, WillQueue
  <2> QED
    BY <2>2, <2>3
<1> QED
  BY <1>3, <1>4, <1>5, <1>6, <1>7 DEF InTime

\* A script that queues a cron job at a time still to come.
LEMMA InTimeScript ==
  ASSUME IInv, InTime, Grow, NEW a \in Actors, NEW cmds, PairOK(cmds),
         todo' = [todo EXCEPT ![a] = cmds],
         UNCHANGED <<blob, zset, now, fired, cand, batch>>,
         created \subseteq created',
         \A w \in Workers : /\ wpc'[w] = "read" => wpc[w] = "read" /\ cur'[w] = cur[w]
                            /\ wpc[w] \in {"claim", "read"} => wpc'[w] = wpc[w],
         Len(cmds) = 2, cmds[1].op # "zadd",
         cmds[2].op = "zadd" =>
           /\ cmds[2].job \in Jobs
           /\ cmds[2].job \notin OneShot => cmds[2].rec.next = NextRun(cmds[2].job, now)
           /\ ~Disturbed(cmds[2].job)' => \A w \in Workers : cmds[2].job \notin cand[w]
  PROVE  InTime'
<1>0. now \in Nat /\ todo'[a] = cmds /\ \A b \in Actors : b # a => todo'[b] = todo[b]
  BY DEF IInv, TypeOK
<1>1. \A t, j : (Later(t, j) => Later(t, j)') /\ (Agrees(j, t) => Agrees(j, t)')
  BY DEF Later, Agrees
<1>10. \A j : Steady(j)' => Steady(j)
  BY DEF Steady, Grow
<1>2. \A i \in 1..Len(cmds) : i = 1 \/ i = 2
  OBVIOUS
<1>3. PairsOK' /\ FiredOK'
  <2>1. PairsOK'
    BY <1>0 DEF InTime, PairsOK
  <2> QED
    BY <1>10, <2>1 DEF InTime, FiredOK
<1>4. ScoresLater'
  BY <1>1, <1>10 DEF InTime, ScoresLater
<1>5. ASSUME cmds[2].op = "zadd", Steady(cmds[2].job)
      PROVE  Later(cmds[2].rec.next, cmds[2].job)'
  <2> DEFINE j == cmds[2].job
             t == NextRun(j, now)
  <2>1. t \in Nat /\ t > now
    BY <1>0, <1>5, NextRunLater DEF Steady
  <2>2. \A e \in fired : e[1] = j => e[2] \in Nat /\ e[2] <= now
    BY <1>5 DEF InTime, FiredOK
  <2> HIDE DEF t
  <2>3. \A e \in fired : e[1] = j => e[2] < t
    BY <1>0, <2>1, <2>2
  <2>4. t = cmds[2].rec.next
    BY <1>5 DEF t, Steady
  <2> QED
    BY <2>1, <2>3, <2>4 DEF Later
<1>6. QueuedLater'
  <2> SUFFICES ASSUME NEW b \in Actors, NEW i \in 1..Len(todo'[b]),
                      NEW z, z = todo'[b][i], z.op = "zadd", Steady(z.job)
               PROVE  Later(z.rec.next, z.job)' /\ (i = 1 => Agrees(z.job, z.rec.next)')
    BY <1>10 DEF QueuedLater
  <2>1. CASE b = a
    <3>1. i = 2 /\ z = cmds[2]
      BY <1>0, <1>2, <2>1
    <3> QED
      BY <1>5, <3>1
  <2>2. CASE b # a
    BY <1>0, <1>1, <2>2 DEF InTime, QueuedLater
  <2> QED
    BY <2>1, <2>2
<1>7. ReadDue' /\ BatchDue'
  BY <1>1, <1>10 DEF InTime, ReadDue, BatchDue
<1>8. \A w \in Workers : \A j \in cand[w] : ~Disturbed(j)' =>
        \A b \in Actors : ~WillQueue(b, j)'
  <2> SUFFICES ASSUME NEW w \in Workers, NEW j \in cand[w], NEW b \in Actors,
                      ~Disturbed(j)', NEW i \in 1..Len(todo'[b]), todo'[b][i].op = "zadd",
                      todo'[b][i].job = j
               PROVE  FALSE
    BY DEF WillQueue
  <2>1. CASE b = a
    <3>1. todo'[b][i] = cmds[2] /\ cmds[2].op = "zadd"
      BY <1>0, <1>2, <2>1
    <3> QED
      BY <3>1
  <2>2. CASE b # a
    BY <1>0, <2>2 DEF InTime, CandidatesDue, WillQueue, Grow
  <2> QED
    BY <2>1, <2>2
<1>9. CandidatesDue'
  BY <1>8 DEF InTime, CandidatesDue, Known, Grow
<1> QED
  BY <1>3, <1>4, <1>6, <1>7, <1>9 DEF InTime

LEMMA ClientInTime ==
  ASSUME IInv, InTime, Grow, NEW c \in Clients, ClientStep(c)
  PROVE  InTime'
<1>1. PICK j \in Jobs : \E cmds :
        /\ ClientWrites(c, j, cmds)
        /\ ClientSaves(c, j, cmds) \/ ClientDeletes(j, cmds)
  BY ClientScript DEF IInv
<1>2. PICK cmds : /\ ClientWrites(c, j, cmds)
                  /\ ClientSaves(c, j, cmds) \/ ClientDeletes(j, cmds)
  BY <1>1
<1>3. /\ todo' = [todo EXCEPT ![c] = cmds] /\ Len(cmds) = 2
      /\ cmds[1].job = j /\ cmds[2].job = j
      /\ UNCHANGED <<blob, zset, now, fired, cand, batch, wpc, cur>>
      /\ created \subseteq created'
  BY <1>2 DEF ClientWrites, ClientSaves, ClientDeletes, store, work
<1>4. \A i \in 1..Len(cmds) : i = 1 \/ i = 2
  BY <1>3
<1>5. CASE ClientSaves(c, j, cmds)
  <2>1. j \notin OneShot => cmds[1].rec.next # NoTime
    <3>1. now \in Nat
      BY DEF IInv, TypeOK
    <3> QED
      BY <1>5, <3>1, NextRunLater, NumbersAssumption DEF ClientSaves
  <2>2. PairOK(cmds)
    BY <1>3, <1>4, <1>5, <2>1 DEF PairOK, ClientSaves
  <2>3. ~Disturbed(j)' => \A w \in Workers : j \notin cand[w]
    BY <1>5 DEF ClientSaves, InTime, CandidatesDue, Known, InUse
  <2>4. cmds[1].op = "set" /\ (cmds[2].op = "zadd" => cmds[2].rec.next = NextRun(j, now))
    BY <1>5 DEF ClientSaves
  <2> QED
    BY <1>3, <2>2, <2>3, <2>4, InTimeScript
<1>6. CASE ClientDeletes(j, cmds)
  <2>1. PairOK(cmds) /\ cmds[1].op # "zadd" /\ cmds[2].op # "zadd"
    BY <1>3, <1>4, <1>6 DEF PairOK, ClientDeletes
  <2> QED
    BY <1>3, <2>1, InTimeScript
<1> QED
  BY <1>2, <1>5, <1>6

\* The candidates of a scan are due, and what is in the queue nobody else has.
LEMMA ScanInTime ==
  ASSUME SoleWorker, IInv, InTime, Grow, NEW w \in Workers, Scan(w)
  PROVE  InTime'
<1>1. PICK S \in SUBSET Due(now) :
        /\ FirstDue(S) /\ cand' = [cand EXCEPT ![w] = S]
        /\ wpc' = [wpc EXCEPT ![w] = IF S = {} THEN "poll" ELSE "claim"]
  BY DEF Scan
<1>2. UNCHANGED <<blob, zset, now, todo, cur, batch, created, fired>>
  BY DEF Scan, store, hist
<1>3. cand'[w] = S /\ wpc'[w] = IF S = {} THEN "poll" ELSE "claim"
  BY <1>1 DEF IInv, TypeOK
<1>4. \A v \in Workers : v = w
  BY DEF SoleWorker
<1>5. CandidatesDue'
  <2> SUFFICES ASSUME NEW j \in S
               PROVE  /\ j \in Known
                      /\ ~Disturbed(j) => /\ zset[j] = NoTime \/ zset[j] <= now
                                          /\ \A a \in Actors : ~WillQueue(a, j)
    BY <1>2, <1>3, <1>4 DEF CandidatesDue, WillQueue, Known, Grow
  <2>1. j \in Jobs /\ zset[j] # NoTime /\ zset[j] <= now
    BY DEF Due
  <2>2. ~Disturbed(j) => \A a \in Actors : ~Holds(a, j)
    BY <2>1 DEF IInv, Custody, OneHolder
  <2>3. j \in Known
    BY <2>1 DEF IInv, Custody, Fresh, Untouched, Known
  <2> QED
    BY <2>1, <2>2, <2>3 DEF Holds
<1>6. PairsOK' /\ FiredOK' /\ ScoresLater' /\ QueuedLater' /\ BatchDue'
  BY <1>2 DEF InTime, PairsOK, FiredOK, ScoresLater, QueuedLater, BatchDue, Later,
              Agrees, Steady, Grow
<1>7. ReadDue'
  BY <1>3, <1>4 DEF ReadDue
<1> QED
  BY <1>5, <1>6, <1>7 DEF InTime

LEMMA ClaimInTime ==
  ASSUME SoleWorker, IInv, InTime, Grow, NEW w \in Workers, NEW k \in Jobs, Claim(w, k)
  PROVE  InTime'
<1>1. /\ UNCHANGED <<blob, now, todo, batch, created, fired>>
      /\ wpc[w] = "claim" /\ wpc'[w] = "read" /\ cur'[w] = k
      /\ k \in cand[w] /\ cand'[w] = cand[w] \ {k}
      /\ zset[k] # NoTime /\ zset' = [zset EXCEPT ![k] = NoTime]
  BY DEF Claim, hist, IInv, TypeOK
<1>2. \A j \in Jobs : zset'[j] \in {zset[j], NoTime}
  BY <1>1 DEF IInv, TypeOK
<1>3. \A v \in Workers : v = w
  BY DEF SoleWorker
<1>4. PairsOK' /\ FiredOK' /\ ScoresLater' /\ QueuedLater' /\ BatchDue'
  BY <1>1, <1>2 DEF InTime, PairsOK, FiredOK, ScoresLater, QueuedLater, BatchDue,
                    Later, Agrees, Steady, Grow
<1>5. ReadDue'
  <2>1. ~Disturbed(k) => zset[k] <= now
    BY <1>1 DEF InTime, CandidatesDue
  <2>2. Steady(k) => Later(zset[k], k) /\ Agrees(k, zset[k])
    BY <1>1 DEF InTime, ScoresLater
  <2>3. Steady(k)' => Steady(k) /\ ~Disturbed(k)
    BY DEF Steady, Grow
  <2> QED
    BY <1>1, <1>3, <2>1, <2>2, <2>3 DEF ReadDue, Later, Agrees
<1>6. CandidatesDue'
  <2>1. cand[w] \subseteq Jobs
    BY DEF IInv, TypeOK
  <2> SUFFICES ASSUME NEW j \in cand'[w]
               PROVE  /\ j \in Known'
                      /\ ~Disturbed(j)' => /\ zset'[j] = NoTime \/ zset'[j] <= now'
                                           /\ \A a \in Actors : ~WillQueue(a, j)'
    BY <1>1, <1>3 DEF CandidatesDue
  <2> QED
    BY <1>1, <1>2, <2>1 DEF InTime, CandidatesDue, WillQueue, Known, Grow
<1> QED
  BY <1>4, <1>5, <1>6 DEF InTime

LEMMA ReadInTime ==
  ASSUME SoleWorker, IInv, InTime, Grow, NEW w \in Workers, Read(w)
  PROVE  InTime'
<1>1. /\ UNCHANGED <<blob, zset, now, todo, cand, created, fired>>
      /\ wpc[w] = "read" /\ wpc'[w] # "read"
      /\ wpc'[w] \in {"poll", "run"} => cand[w] = {}
      /\ wpc'[w] \in {"claim", "poll", "run"}
      /\ batch'[w] = batch[w] \cup Claimed(cur[w])
  BY DEF Read, AfterClaim, store, hist, IInv, TypeOK
<1>2. \A v \in Workers : v = w
  BY DEF SoleWorker
<1>3. PairsOK' /\ FiredOK' /\ ScoresLater' /\ QueuedLater'
  BY <1>1 DEF InTime, PairsOK, FiredOK, ScoresLater, QueuedLater, Later, Agrees,
              Steady, Grow
<1>4. BatchDue'
  <2> SUFFICES ASSUME NEW e \in batch'[w], Steady(e[1])
               PROVE  Later(e[2], e[1]) /\ e[2] <= now
    BY <1>1, <1>2 DEF BatchDue, Later, Steady, Grow
  <2>1. CASE e \in batch[w]
    BY <2>1 DEF InTime, BatchDue
  <2>2. CASE e \in Claimed(cur[w])
    <3>1. /\ blob[cur[w]] # NoJob /\ blob[cur[w]].enabled
          /\ e[1] = cur[w] /\ e[2] = blob[cur[w]].next
      BY <2>2 DEF Claimed
    <3> QED
      BY <1>1, <3>1 DEF InTime, ReadDue
  <2> QED
    BY <1>1, <2>1, <2>2
<1>5. ReadDue'
  BY <1>1, <1>2 DEF ReadDue
<1>6. CandidatesDue'
  BY <1>1, <1>2 DEF InTime, CandidatesDue, WillQueue, Known, Grow
<1> QED
  BY <1>3, <1>4, <1>5, <1>6 DEF InTime

\* The occurrence that starts becomes the latest: its job has no other token.
LEMMA RunInTime ==
  ASSUME SoleWorker, IInv, InTime, Grow, NEW w \in Workers, NEW e \in batch[w],
         Run(w, e[1], e[2])
  PROVE  InTime'
<1>1. e \in Jobs \X Time /\ e = <<e[1], e[2]>> /\ e[1] \in Jobs
  BY DEF IInv, TypeOK
<1>2. /\ UNCHANGED <<blob, zset, now, todo, cand, created>>
      /\ wpc[w] = "run" /\ wpc'[w] = "running"
      /\ batch'[w] = batch[w] \ {e} /\ fired' = fired \cup {e}
  BY <1>1 DEF Run, store, IInv, TypeOK
<1>3. \A v \in Workers : v = w
  BY DEF SoleWorker
<1>4. Holds(w, e[1])
  BY DEF Holds, Claims
<1>5. ~Disturbed(e[1]) =>
        zset[e[1]] = NoTime /\ \A a \in Actors : Holds(a, e[1]) => a = w
  BY <1>1, <1>4 DEF IInv, Custody, OneHolder
<1>6. ~Disturbed(e[1]) => \A a \in Actors : ~WillQueue(a, e[1])
  BY <1>1, <1>5 DEF Holds, IInv, Custody, HoldsOnce
<1>14. \A j : Steady(j)' => Steady(j) /\ ~Disturbed(j)
  BY DEF Steady, Grow
<1>7. \A t, j : j # e[1] /\ Later(t, j) => Later(t, j)'
  BY <1>2 DEF Later
<1>8. \A t, j : Agrees(j, t) => Agrees(j, t)'
  BY <1>2 DEF Agrees
<1>9. FiredOK'
  BY <1>2, <1>14 DEF InTime, FiredOK, BatchDue, Later
<1>10. ScoresLater'
  BY <1>2, <1>5, <1>7, <1>8, <1>14 DEF InTime, ScoresLater
<1>11. QueuedLater'
  BY <1>2, <1>6, <1>7, <1>8, <1>14 DEF InTime, QueuedLater, WillQueue
<1>12. BatchDue'
  <2>1. \A f \in batch'[w] : /\ f \in batch[w]
                             /\ ~Disturbed(e[1]) => f[1] # e[1]
    BY <1>1, <1>2 DEF IInv, Custody, HoldsOnce
  <2> QED
    BY <1>2, <1>3, <1>7, <1>14, <2>1 DEF InTime, BatchDue
<1>13. ReadDue' /\ CandidatesDue' /\ PairsOK'
  BY <1>2, <1>3 DEF InTime, ReadDue, CandidatesDue, WillQueue, Known, PairsOK, Grow
<1> QED
  BY <1>9, <1>10, <1>11, <1>12, <1>13 DEF InTime

LEMMA FinishInTime ==
  ASSUME SoleWorker, IInv, InTime, Grow, NEW w \in Workers, Finish(w)
  PROVE  InTime'
<1>1. PICK j \in Jobs : j = cur[w] /\ wpc[w] = "running"
  BY FinishScript
<1>2. PICK cmds : /\ todo' = [todo EXCEPT ![w] = cmds] /\ Len(cmds) = 2
                  /\ cmds[1].job = j /\ cmds[2].job = j
                  /\ Retires(j, cmds) \/ Requeues(j, cmds)
  BY <1>1, FinishScript
<1>3. /\ UNCHANGED <<blob, zset, now, fired, cand, batch, created>>
      /\ wpc'[w] = "save"
      /\ \A v \in Workers : v = w
  BY DEF Finish, store, hist, IInv, TypeOK, SoleWorker
<1>4. cand[w] = {}
  BY <1>1 DEF InTime, CandidatesDue
<1>5. \A i \in 1..Len(cmds) : i = 1 \/ i = 2
  BY <1>2
<1>6. PairOK(cmds)
  BY <1>2, <1>5 DEF PairOK, Retires, Requeues
<1>7. /\ cmds[1].op # "zadd"
      /\ cmds[2].op = "zadd" => cmds[2].rec.next = NextRun(j, now)
  BY <1>2 DEF Retires, Requeues
<1> QED
  BY <1>1, <1>2, <1>3, <1>4, <1>6, <1>7, InTimeScript

\* A blob that is written agrees with the place in the queue that is still to
\* be written after it; any other place the job has would be a second holder.
LEMMA ExecuteInTime ==
  ASSUME SoleWorker, IInv, InTime, NEW a \in Actors, Execute(a)
  PROVE  InTime'
<1>1. PICK cmd \in Command : cmd = todo[a][1] /\ Apply(cmd)
  BY TailShape DEF Execute, IInv
<1>2. /\ 1 \in 1..Len(todo[a]) /\ Len(todo[a]) \in Nat
      /\ Len(todo'[a]) = Len(todo[a]) - 1
      /\ \A i \in 1..Len(todo'[a]) : todo'[a][i] = todo[a][i + 1]
      /\ \A b \in Actors : b # a => todo'[b] = todo[b]
  BY TailShape DEF IInv
<1>3. UNCHANGED <<now, cand, cur, batch, created, fired>>
  BY DEF Execute
<1>4. PairOK(todo[a]) /\ Len(todo'[a]) \in {0, 1}
  <2>1. PairOK(todo[a])
    BY DEF InTime, PairsOK
  <2>2. Len(todo[a]) <= 2 /\ Len(todo[a]) # 0
    BY <1>2, <2>1 DEF PairOK
  <2>3. \A n \in Nat : n <= 2 /\ n # 0 => n - 1 \in {0, 1}
    OBVIOUS
  <2>4. Len(todo[a]) \in Nat /\ Len(todo'[a]) = Len(todo[a]) - 1
    BY <1>2
  <2>5. Len(todo'[a]) \in {0, 1}
    BY <2>2, <2>3, <2>4
  <2> QED
    BY <2>1, <2>5
<1>5. \A i \in 1..Len(todo'[a]) : /\ i = 1 /\ 2 \in 1..Len(todo[a])
                                  /\ todo'[a][1] = todo[a][2]
  <2> SUFFICES ASSUME NEW i \in 1..Len(todo'[a])
               PROVE  i = 1 /\ 2 \in 1..Len(todo[a]) /\ todo'[a][1] = todo[a][2]
    OBVIOUS
  <2>1. i = 1 /\ i + 1 = 2 /\ 2 \in 1..Len(todo[a])
    BY <1>2, <1>4
  <2>2. todo'[a][i] = todo[a][i + 1]
    BY <1>2
  <2> QED
    BY <2>1, <2>2
<1>6. PairsOK'
  <2>1. ASSUME NEW i \in 1..Len(todo'[a])
        PROVE  todo'[a][i].op # "set" /\ i = 1
    BY <1>4, <1>5, <2>1 DEF PairOK
  <2>2. PairOK(todo'[a])
    BY <1>4, <2>1 DEF PairOK
  <2> QED
    BY <1>2, <2>2 DEF InTime, PairsOK
<1>7. \A t, j : Later(t, j) <=> Later(t, j)'
  BY <1>3 DEF Later
<1>18. \A j : Disturbed(j)' <=> Disturbed(j)
  BY DEF Execute, marks, Disturbed
<1>19. \A j : Steady(j)' <=> Steady(j)
  BY <1>18 DEF Steady
<1>8. /\ cmd.job \in Jobs /\ cmd.op \in {"set", "zadd", "zrem", "del"}
      /\ cmd.op = "set" => zset' = zset /\ blob'[cmd.job] = cmd.rec
      /\ cmd.op = "zadd" => blob' = blob /\ zset'[cmd.job] = cmd.rec.next
      /\ cmd.op = "zrem" => blob' = blob /\ zset'[cmd.job] = NoTime
      /\ cmd.op = "del" => zset' = zset /\ blob'[cmd.job] = NoJob
      /\ \A j \in Jobs : j # cmd.job => blob'[j] = blob[j] /\ zset'[j] = zset[j]
  BY <1>1, ApplyEffect DEF IInv
<1>9. \A w \in Workers : wpc'[w] \in {"claim", "read"} <=> wpc[w] \in {"claim", "read"}
  BY ActorsAssumption DEF Execute, AfterSave, IInv, TypeOK, TodoOK
<1>10. \A w \in Workers : wpc'[w] = "read" => wpc[w] = "read"
  BY DEF Execute, AfterSave
\* The only effect of a command on a blob that its job's token could notice.
<1> DEFINE SavesCron == cmd.op = "set" /\ Steady(cmd.job) /\ cmd.rec.enabled
<1>11. ASSUME SavesCron
       PROVE  /\ Len(todo[a]) = 2 /\ todo[a][2].op = "zadd"
              /\ todo[a][2].job = cmd.job /\ todo[a][2].rec = cmd.rec
              /\ Holds(a, cmd.job) /\ zset[cmd.job] = NoTime
              /\ \A b \in Actors : Holds(b, cmd.job) => b = a
  <2>1. Len(todo[a]) = 2 /\ todo[a][2].op = "zadd" /\ todo[a][2].job = cmd.job
          /\ todo[a][2].rec = cmd.rec
    BY <1>1, <1>2, <1>4, <1>11 DEF PairOK, Steady
  <2>2. 2 \in 1..Len(todo[a])
    BY <2>1
  <2>3. Holds(a, cmd.job)
    BY <2>1, <2>2 DEF Holds, WillQueue
  <2> QED
    BY <1>8, <1>11, <2>1, <2>3 DEF IInv, Custody, OneHolder, Steady
<1>12. ASSUME NEW j \in Jobs, Steady(j), NEW t, Agrees(j, t), ~(SavesCron /\ cmd.job = j)
       PROVE  Agrees(j, t)'
  BY <1>8, <1>12 DEF Agrees
<1>13. ScoresLater'
  <2> SUFFICES ASSUME NEW j \in Jobs, Steady(j), NEW t, t = zset'[j], t # NoTime
               PROVE  Later(t, j) /\ Agrees(j, t)'
    BY <1>7, <1>19 DEF ScoresLater
  <2>1. CASE cmd.op = "zadd" /\ cmd.job = j
    <3>1. t = cmd.rec.next /\ blob' = blob
      BY <1>8, <2>1
    <3>2. Later(t, j) /\ Agrees(j, t)
      BY <1>1, <1>2, <2>1, <3>1 DEF InTime, QueuedLater
    <3> QED
      BY <3>1, <3>2 DEF Agrees
  <2>2. CASE ~(cmd.op = "zadd" /\ cmd.job = j)
    <3>1. zset[j] = t
      BY <1>8, <2>2
    <3>2. Later(t, j) /\ Agrees(j, t)
      BY <3>1 DEF InTime, ScoresLater
    <3>3. ~(SavesCron /\ cmd.job = j)
      BY <1>11, <3>1
    <3> QED
      BY <1>12, <3>2, <3>3
  <2> QED
    BY <2>1, <2>2
<1>14. QueuedLater'
  <2> SUFFICES ASSUME NEW b \in Actors, NEW i \in 1..Len(todo'[b]),
                      NEW z, z = todo'[b][i], z.op = "zadd", Steady(z.job)
               PROVE  Later(z.rec.next, z.job) /\ (i = 1 => Agrees(z.job, z.rec.next)')
    BY <1>7, <1>19 DEF QueuedLater
  <2>1. CASE b = a
    <3>1. i = 1 /\ 2 \in 1..Len(todo[a]) /\ z = todo[a][2]
      BY <1>5, <2>1
    <3>2. cmd.op = "set" /\ cmd.job = z.job /\ cmd.rec = z.rec
      BY <1>1, <1>4, <2>1, <3>1 DEF PairOK
    <3>3. Later(z.rec.next, z.job)
      BY <2>1, <3>1 DEF InTime, QueuedLater
    <3>4. blob'[z.job] = z.rec
      BY <1>8, <3>2
    <3>5. Agrees(z.job, z.rec.next)'
      BY <3>4 DEF Agrees
    <3> QED
      BY <3>3, <3>5
  <2>2. CASE b # a
    <3>1. i \in 1..Len(todo[b]) /\ z = todo[b][i] /\ z \in Command
      BY <1>2, <2>2 DEF IInv, TypeOK
    <3>2. z.job \in Jobs
      BY <3>1 DEF Command
    <3>3. Later(z.rec.next, z.job) /\ (i = 1 => Agrees(z.job, z.rec.next))
      BY <3>1 DEF InTime, QueuedLater
    <3>4. Holds(b, z.job)
      BY <3>1 DEF Holds, WillQueue
    <3>5. ~(SavesCron /\ cmd.job = z.job)
      BY <1>11, <2>2, <3>4
    <3>6. i = 1 => Agrees(z.job, z.rec.next)'
      BY <1>12, <3>2, <3>3, <3>5
    <3> QED
      BY <3>3, <3>6
  <2> QED
    BY <2>1, <2>2
<1>15. ReadDue'
  <2> SUFFICES ASSUME NEW w \in Workers, wpc'[w] = "read", Steady(cur[w]),
                      blob'[cur[w]] # NoJob, blob'[cur[w]].enabled
               PROVE  Later(blob'[cur[w]].next, cur[w]) /\ blob'[cur[w]].next <= now
    BY <1>3, <1>7, <1>19 DEF ReadDue
  <2>1. wpc[w] = "read" /\ cur[w] \in Jobs
    BY <1>10 DEF IInv, CurOK
  <2>2. Holds(w, cur[w]) /\ todo[w] = <<>>
    BY <2>1 DEF Holds, Claims, IInv, TodoOK
  <2>3. w # a
    BY <2>2 DEF Execute
  <2>4. ~(SavesCron /\ cmd.job = cur[w])
    BY <1>11, <2>2, <2>3
  <2>5. blob'[cur[w]] = blob[cur[w]]
    BY <1>8, <2>1, <2>4
  <2> QED
    BY <2>1, <2>5 DEF InTime, ReadDue
<1>16. FiredOK' /\ BatchDue'
  BY <1>3, <1>7, <1>19 DEF InTime, FiredOK, BatchDue
<1>17. CandidatesDue'
  <2> SUFFICES ASSUME NEW w \in Workers, NEW j \in cand[w], ~Disturbed(j)
               PROVE  /\ zset'[j] = NoTime \/ zset'[j] <= now
                      /\ \A b \in Actors : ~WillQueue(b, j)'
    BY <1>3, <1>9, <1>18 DEF InTime, CandidatesDue, Known
  <2>1. /\ j \in Jobs
        /\ zset[j] = NoTime \/ zset[j] <= now
        /\ \A b \in Actors : ~WillQueue(b, j)
    BY DEF InTime, CandidatesDue, IInv, TypeOK
  <2>2. ~(cmd.op = "zadd" /\ cmd.job = j)
    BY <1>1, <1>2, <2>1 DEF WillQueue
  <2>3. zset'[j] = NoTime \/ zset'[j] <= now
    BY <1>8, <2>1, <2>2
  <2>4. \A b \in Actors : ~WillQueue(b, j)'
    BY <1>2, <1>5, <2>1, SMTT(30) DEF WillQueue
  <2> QED
    BY <2>3, <2>4
<1> QED
  BY <1>6, <1>13, <1>14, <1>15, <1>16, <1>17 DEF InTime

\* A command that is sent twice leaves the script as it was; the job it is on
\* is excepted from then on.
LEMMA ResentInTime ==
  ASSUME IInv, InTime, Grow, NEW a \in Actors, ExecuteRetried(a)
  PROVE  InTime'
<1>1. PICK cmd \in Command : cmd = Head(todo[a]) /\ Apply(cmd)
  BY DEF ExecuteRetried, IInv, TypeOK
<1>2. /\ UNCHANGED <<now, todo, wpc, cand, cur, batch, created, fired>>
      /\ resent' = resent \cup {cmd.job}
  BY <1>1 DEF ExecuteRetried, work
<1>3. \A j \in Jobs : j # cmd.job => blob'[j] = blob[j] /\ zset'[j] = zset[j]
  BY <1>1, ApplyEffect DEF IInv
<1>4. \A j : ~Disturbed(j)' => ~Disturbed(j) /\ j # cmd.job
  BY <1>2 DEF Disturbed, Grow
<1>5. \A j : Steady(j)' => Steady(j) /\ j # cmd.job
  BY <1>4 DEF Steady
<1>6. \A t, j : Later(t, j) <=> Later(t, j)'
  BY <1>2 DEF Later
<1>7. \A t : \A j \in Jobs : Steady(j)' => (Agrees(j, t) <=> Agrees(j, t)')
  BY <1>3, <1>5 DEF Agrees
<1>8. PairsOK' /\ FiredOK' /\ BatchDue'
  BY <1>2, <1>5, <1>6 DEF InTime, PairsOK, FiredOK, BatchDue
<1>9. ScoresLater'
  BY <1>3, <1>5, <1>6, <1>7 DEF InTime, ScoresLater
<1>10. QueuedLater'
  <2> SUFFICES ASSUME NEW b \in Actors, NEW i \in 1..Len(todo[b]),
                      NEW z, z = todo[b][i], z.op = "zadd", Steady(z.job)'
               PROVE  Later(z.rec.next, z.job)' /\ (i = 1 => Agrees(z.job, z.rec.next)')
    BY <1>2 DEF QueuedLater
  <2>1. z \in Command
    BY DEF IInv, TypeOK
  <2>2. z.job \in Jobs
    BY <2>1 DEF Command
  <2> QED
    BY <1>5, <1>6, <1>7, <2>2 DEF InTime, QueuedLater
<1>11. ReadDue'
  <2> SUFFICES ASSUME NEW w \in Workers, wpc[w] = "read", Steady(cur[w])'
               PROVE  \/ blob'[cur[w]] = NoJob
                      \/ ~blob'[cur[w]].enabled
                      \/ Later(blob'[cur[w]].next, cur[w]) /\ blob'[cur[w]].next <= now
    BY <1>2, <1>6 DEF ReadDue
  <2>1. cur[w] \in Jobs
    BY DEF IInv, CurOK
  <2>2. blob'[cur[w]] = blob[cur[w]]
    BY <1>2, <1>3, <1>5, <2>1
  <2> QED
    BY <1>2, <1>5, <2>2 DEF InTime, ReadDue
<1>12. CandidatesDue'
  <2>1. \A w \in Workers : cand[w] \subseteq Jobs
    BY DEF IInv, TypeOK
  <2> QED
    BY <1>2, <1>3, <1>4, <2>1 DEF InTime, CandidatesDue, WillQueue, Known
<1> QED
  BY <1>8, <1>9, <1>10, <1>11, <1>12 DEF InTime

LEMMA StepInTime ==
  ASSUME SoleWorker, IInv, InTime, [Next]_vars
  PROVE  InTime'
<1>0. now \in Nat /\ now + 1 \in Nat /\ now <= now + 1 /\ now <= now
  BY DEF IInv, TypeOK
<1>9. Grow
  BY GhostsGrow
<1>10. \A v, w \in Workers : v = w
  BY DEF SoleWorker
<1>11. \A w \in Workers : wpc[w] \notin {"claim", "read"} => cand[w] = {}
  BY DEF InTime, CandidatesDue
<1>1. CASE \E c \in Clients : ClientStep(c)
  BY <1>1, <1>9, ClientInTime
<1>2. CASE \E a \in Actors : Execute(a)
  BY <1>2, ExecuteInTime
<1>3. CASE \E w \in Workers : WorkerStep(w)
  <2>1. PICK w \in Workers : WorkerStep(w)
    BY <1>3
  <2>2. CASE \E j \in Jobs : Lose(w, j)
    <3>1. /\ UNCHANGED <<blob, zset, now, todo, batch, created, fired, cur>>
          /\ wpc[w] = "claim" /\ cand'[w] \subseteq cand[w]
          /\ wpc'[w] \in {"claim", "poll", "run"}
          /\ wpc'[w] # "claim" => cand'[w] = {}
      BY <2>2 DEF Lose, AfterClaim, store, hist, IInv, TypeOK
    <3> QED
      BY <1>0, <1>9, <1>10, <3>1, InTimeShrinks DEF IInv
  <2> QED
    BY <1>9, <2>1, <2>2, ScanInTime, ClaimInTime, ReadInTime, RunInTime, FinishInTime
       DEF WorkerStep
<1>4. CASE Failure
  <2>1. CASE \E w \in Workers : WorkerAbort(w)
    <3>1. PICK w \in Workers : WorkerAbort(w)
      BY <2>1
    <3>2. /\ UNCHANGED <<blob, zset, now, created, fired>>
          /\ wpc'[w] = "poll" /\ cand'[w] = {} /\ batch'[w] = {}
          /\ \A b \in Actors : todo'[b] \in {todo[b], <<>>}
      BY <3>1 DEF WorkerAbort, store, hist, IInv, TypeOK
    <3> QED
      BY <1>0, <1>9, <1>10, <3>2, InTimeShrinks DEF IInv
  <2>2. CASE \E c \in Clients : ClientAbort(c)
    <3>1. /\ UNCHANGED <<blob, zset, now, created, fired, cand, batch, wpc, cur>>
          /\ \A b \in Actors : todo'[b] \in {todo[b], <<>>}
      BY <2>2 DEF ClientAbort, store, hist, work, IInv, TypeOK
    <3> QED
      BY <1>0, <1>9, <1>11, <3>1, InTimeShrinks DEF IInv
  <2>3. CASE \E w \in Workers, j \in Jobs : ClaimRetried(w, j)
    <3>1. PICK w \in Workers, j \in Jobs : ClaimRetried(w, j)
      BY <2>3
    <3>2. /\ UNCHANGED <<blob, now, todo, batch, created, fired, cur>>
          /\ wpc[w] = "claim" /\ cand'[w] \subseteq cand[w]
          /\ wpc'[w] \in {"claim", "poll", "run"}
          /\ wpc'[w] # "claim" => cand'[w] = {}
          /\ \A k \in Jobs : zset'[k] \in {zset[k], NoTime}
      BY <3>1 DEF ClaimRetried, AfterClaim, IInv, TypeOK
    <3> QED
      BY <1>0, <1>9, <1>10, <3>2, InTimeShrinks DEF IInv
  <2>4. CASE \E a \in Actors : ExecuteRetried(a)
    BY <1>9, <2>4, ResentInTime
  <2> QED
    BY <1>4, <2>1, <2>2, <2>3, <2>4 DEF Failure
<1>5. CASE Tick \/ UNCHANGED vars
  <2>1. /\ UNCHANGED <<blob, zset, created, fired, cand, batch, wpc, cur, todo>>
        /\ now' \in {now, now + 1}
    BY <1>5 DEF Tick, vars, store, work, hist
  <2> QED
    BY <1>0, <1>9, <1>11, <2>1, InTimeShrinks DEF IInv
<1> QED
  BY <1>1, <1>2, <1>3, <1>4, <1>5 DEF Next

\* With one worker, no occurrence of a job is started twice, whatever is
\* created, seeded or deleted meanwhile and wherever the processes crash; only
\* a job on which two seeds raced or a command was resent is excepted, and
\* such a job does not disturb the others.
THEOREM OneWorkerFiresOnce ==
  ASSUME SoleWorker
  PROVE  Spec => NoDoubleFire
<1>1. Init => IInv /\ InTime /\ Spent
  BY InitIInv, InitInTime, InitSpent
<1>2. IInv /\ InTime /\ Spent /\ [Next]_vars => (IInv /\ InTime /\ Spent)'
  BY StepIInv, StepInTime, StepSpent
<1>3. IInv /\ InTime /\ Spent /\ [Next]_vars =>
        [\A w \in Workers : \A e \in batch[w] :
           ~Disturbed(e[1]) /\ Run(w, e[1], e[2]) => e \notin fired]_vars
  <2> SUFFICES ASSUME IInv, InTime, Spent, NEW w \in Workers, NEW e \in batch[w],
                      ~Disturbed(e[1]), e \in fired
               PROVE  FALSE
    OBVIOUS
  <2>1. e[1] \in Jobs
    BY DEF IInv, TypeOK
  <2>2. CASE e[1] \in OneShot
    BY <2>2 DEF Spent, Started, Done, Disturbed
  <2>3. CASE e[1] \notin OneShot
    BY <2>3 DEF InTime, BatchDue, Later, Steady
  <2> QED
    BY <2>2, <2>3
<1> QED
  BY <1>1, <1>2, <1>3, PTL DEF Spec, NoDoubleFire
=============================================================================

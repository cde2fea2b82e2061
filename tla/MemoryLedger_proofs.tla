------------------------ MODULE MemoryLedger_proofs ------------------------
(***************************************************************************)
(* The memory ledger for every number of users, conversations and tasks:   *)
(* its types, that nobody's words become another user's memory, that       *)
(* questions and answers alternate in a prompt, and that in a calm         *)
(* conversation every turn up to summarized_upto went into one summary and *)
(* a forgotten turn leaves nothing behind.                                 *)
(*                                                                         *)
(* Three invariants, each relative to those before it: Inv says what a     *)
(* task holds of its own user, IdsInv which numbers and times belong       *)
(* together, CalmInv what is stored and held of a calm conversation.       *)
(***************************************************************************)
EXTENDS MemoryLedger, TLAPS, FiniteSetTheorems, FunctionTheorems

\* The local variables of a task under way: whose it is is known, and the turns it holds
\* while the LLM summarises them are its own user's.
GoodTask(q) ==
    /\ q \in Task
    /\ q.at # "idle" => q.user \in Users
    /\ q.at \in PersistLabels => q.conv \in Convs /\ q.ts \in Times
    /\ q.at = "llm" => \A t \in q.rows : t.user = q.user

GoodTasks == task \in [Tasks -> Task] /\ \A p \in Tasks : GoodTask(task[p])

Tables ==
    /\ turns \subseteq Turn /\ facts \subseteq Fact
    /\ progress \in [Convs -> [owner : Users \cup {None}, upto : Nat]]
    /\ drawn \in Nat /\ clock \in 0..MaxTx
    /\ summed \subseteq Nat /\ twice \subseteq summed /\ calm \subseteq Convs

\* The inductive invariant.
Inv == Tables /\ GoodTasks /\ NoCrossUser

USE MemoryAssumption

LEMMA IdleIsGood == GoodTask(IdleTask)
BY DEF IdleTask, Task, GoodTask, PersistLabels

\* Replacing the local variables of one task keeps all tasks good.
LEMMA TaskUpdate ==
    ASSUME GoodTasks, NEW p \in Tasks, NEW q, GoodTask(q), task' = [task EXCEPT ![p] = q]
    PROVE  GoodTasks'
BY DEF GoodTasks, GoodTask

LEMMA TaskEnd == ASSUME GoodTasks, NEW p \in Tasks, Finish(p) PROVE GoodTasks'
BY TaskUpdate, IdleIsGood DEF Finish

LEMMA InitInv == Init => Inv
<1> SUFFICES ASSUME Init PROVE Inv
  OBVIOUS
<1>1. Tables
  BY DEF Init, Tables, NoState
<1>2. GoodTasks
  BY IdleIsGood DEF Init, GoodTasks, GoodTask
<1>3. NoCrossUser
  BY DEF Init, NoCrossUser
<1> QED BY <1>1, <1>2, <1>3 DEF Inv

LEMMA RecordBeginInv ==
    ASSUME Inv, NEW p \in Tasks, NEW u \in Users, NEW c \in Convs, RecordBegin(p, u, c)
    PROVE  Inv'
<1> DEFINE q == [IdleTask EXCEPT !.at = "user", !.user = u, !.conv = c, !.ts = clock + 1]
<1>1. clock \in 0..MaxTx /\ clock + 1 \in 0..MaxTx /\ clock + 1 \in Times
  BY DEF Inv, Tables, RecordBegin, Call, Times
<1>2. GoodTask(q)
  BY <1>1 DEF GoodTask, Task, IdleTask, PersistLabels
<1>3. GoodTasks'
  BY <1>2, TaskUpdate DEF Inv, RecordBegin
<1>4. Tables'
  BY <1>1 DEF Inv, Tables, RecordBegin, Call, ledger
<1>5. NoCrossUser'
  BY DEF Inv, NoCrossUser, RecordBegin, ledger
<1> QED BY <1>3, <1>4, <1>5 DEF Inv

LEMMA RecordTurnInv ==
    ASSUME Inv, NEW p \in Tasks, NEW role \in Roles, NEW next \in {"assistant", "commit"},
           RecordTurn(p, role, next)
    PROVE  Inv'
<1> DEFINE q == [task[p] EXCEPT !.rows = @ \cup {NewTurn(task[p], role)}, !.at = next]
<1>1. GoodTask(task[p]) /\ task[p].at \in PersistLabels
  BY DEF Inv, GoodTasks, RecordTurn, At, Roles, PersistLabels
<1>2. NewTurn(task[p], role) \in Turn
  <2>1. task[p].user \in Users /\ task[p].conv \in Convs /\ task[p].ts \in Times
    BY <1>1 DEF GoodTask, PersistLabels
  <2>2. drawn + 1 \in Nat
    BY DEF Inv, Tables
  <2> QED BY <2>1, <2>2 DEF NewTurn, Turn
<1>3. GoodTask(q)
  BY <1>1, <1>2 DEF GoodTask, Task, PersistLabels
<1>4. task' = [task EXCEPT ![p] = q]
  <2>1. task \in [Tasks -> Task]
    BY DEF Inv, GoodTasks
  <2>2. task' = [task EXCEPT ![p].rows = @ \cup {NewTurn(task[p], role)}, ![p].at = next]
    BY DEF RecordTurn
  <2> QED BY <2>1, <2>2 DEF Task
<1>5. GoodTasks'
  BY <1>3, <1>4, TaskUpdate DEF Inv
<1>6. Tables'
  BY DEF Inv, Tables, RecordTurn, ledger, history
<1>7. NoCrossUser'
  BY DEF Inv, NoCrossUser, RecordTurn, ledger
<1> QED BY <1>5, <1>6, <1>7 DEF Inv

LEMMA RecordCommitInv ==
    ASSUME Inv, NEW p \in Tasks, RecordCommit(p)
    PROVE  Inv'
<1> DEFINE q == [task[p] EXCEPT !.at = "state", !.rows = {}]
<1>1. GoodTask(task[p]) /\ task[p].at \in PersistLabels
  BY DEF Inv, GoodTasks, RecordCommit, At, PersistLabels
<1>2. GoodTask(q)
  BY <1>1 DEF GoodTask, Task, PersistLabels
<1>3. task' = [task EXCEPT ![p] = q]
  BY DEF RecordCommit, Inv, GoodTasks, Task
<1>4. GoodTasks'
  BY <1>2, <1>3, TaskUpdate DEF Inv
<1>5. task[p].rows \subseteq Turn /\ task[p].user \in Users
  BY <1>1 DEF GoodTask, Task, PersistLabels
<1>6. Tables'
  BY <1>5 DEF Inv, Tables, RecordCommit, history
<1>7. NoCrossUser'
  BY DEF Inv, NoCrossUser, RecordCommit
<1> QED BY <1>4, <1>6, <1>7 DEF Inv

LEMMA ReadStateInv ==
    ASSUME Inv, NEW p \in Tasks, ReadState(p)
    PROVE  Inv'
<1> DEFINE row == progress[task[p].conv]
           q == IF row.owner = None THEN IdleTask
                ELSE [task[p] EXCEPT !.at = "pending", !.upto = row.upto]
<1>1. GoodTask(task[p]) /\ task[p].at \in PersistLabels
  BY DEF Inv, GoodTasks, ReadState, At, PersistLabels
<1>2. row.upto \in Nat
  BY <1>1 DEF GoodTask, Inv, Tables
<1>3. GoodTask([task[p] EXCEPT !.at = "pending", !.upto = row.upto])
  BY <1>1, <1>2 DEF GoodTask, Task, PersistLabels
<1>4. GoodTask(q)
  BY <1>3, IdleIsGood
<1>5. task' = [task EXCEPT ![p] = q]
  BY DEF ReadState, Inv, GoodTasks
<1>6. GoodTasks'
  BY <1>4, <1>5, TaskUpdate DEF Inv
<1>7. Tables' /\ NoCrossUser'
  BY DEF Inv, Tables, NoCrossUser, ReadState, ledger, history
<1> QED BY <1>6, <1>7 DEF Inv

LEMMA ReadPendingInv ==
    ASSUME Inv, NEW p \in Tasks, ReadPending(p)
    PROVE  Inv'
<1> DEFINE rows == Pending(task[p].user, task[p].conv, task[p].upto)
           q == IF Cardinality(rows) < Every THEN IdleTask
                ELSE [task[p] EXCEPT !.at = "llm", !.rows = rows]
<1>1. GoodTask(task[p]) /\ task[p].at \in PersistLabels
  BY DEF Inv, GoodTasks, ReadPending, At, PersistLabels
<1>2. rows \subseteq Turn /\ \A t \in rows : t.user = task[p].user
  BY DEF Pending, Inv, Tables
<1>3. GoodTask([task[p] EXCEPT !.at = "llm", !.rows = rows])
  <2> HIDE DEF rows
  <2> QED BY <1>1, <1>2 DEF GoodTask, Task, PersistLabels
<1>4. GoodTask(q)
  BY <1>3, IdleIsGood
<1>5. task' = [task EXCEPT ![p] = q]
  BY DEF ReadPending, Inv, GoodTasks
<1>6. GoodTasks'
  <2> HIDE DEF q
  <2> QED BY <1>4, <1>5, TaskUpdate DEF Inv
<1>7. Tables' /\ NoCrossUser'
  BY DEF Inv, Tables, NoCrossUser, ReadPending, ledger, history
<1> QED BY <1>6, <1>7 DEF Inv

\* The facts of a summary belong to the user of the turns they were distilled from.
LEMMA SummaryCommitInv ==
    ASSUME Inv, NEW p \in Tasks, SummaryCommit(p)
    PROVE  Inv'
<1> DEFINE new == [user |-> task[p].user, src |-> task[p].rows]
<1>1. GoodTask(task[p]) /\ task[p].at = "llm"
  BY DEF Inv, GoodTasks, SummaryCommit, At
<1>2. new \in Fact /\ \A t \in new.src : t.user = new.user
  BY <1>1 DEF GoodTask, Task, Fact
<1>3. facts' \subseteq facts \cup {new}
  BY DEF SummaryCommit
<1>4. NoCrossUser'
  BY <1>2, <1>3 DEF NoCrossUser, Inv
<1>5. facts' \subseteq Fact
  BY <1>2, <1>3 DEF Inv, Tables
<1>6. progress' \in [Convs -> [owner : Users \cup {None}, upto : Nat]]
  <2>1. PICK last \in task[p].rows :
          progress' = IF progress[task[p].conv].owner = None THEN progress
                      ELSE [progress EXCEPT ![task[p].conv].upto = last.id]
    BY DEF SummaryCommit
  <2>2. last.id \in Nat
    BY <1>1 DEF GoodTask, Task, Turn
  <2> QED BY <2>1, <2>2 DEF Inv, Tables
<1>7. summed' \subseteq Nat /\ twice' \subseteq summed'
  <2>1. /\ summed' = summed \cup {t.id : t \in task[p].rows}
        /\ twice' = twice \cup {t.id : t \in {s \in task[p].rows : s.id \in summed}}
    BY DEF SummaryCommit
  <2>2. task[p].rows \subseteq Turn
    BY <1>1 DEF GoodTask, Task
  <2> QED BY <2>1, <2>2 DEF Inv, Tables, Turn
<1>8. Tables'
  BY <1>5, <1>6, <1>7 DEF Inv, Tables, SummaryCommit
<1>9. GoodTasks'
  BY TaskEnd DEF Inv, SummaryCommit
<1> QED BY <1>4, <1>8, <1>9 DEF Inv

LEMMA AddMemoryInv == ASSUME Inv, NEW u \in Users, AddMemory(u) PROVE Inv'
<1>1. [user |-> u, src |-> {}] \in Fact
  BY DEF Fact
<1>2. clock' \in 0..MaxTx
  BY DEF Inv, Tables, AddMemory, Call
<1>3. Tables'
  BY <1>1, <1>2 DEF Inv, Tables, AddMemory, history
<1>4. GoodTasks' /\ NoCrossUser'
  BY DEF Inv, GoodTasks, GoodTask, NoCrossUser, AddMemory
<1> QED BY <1>3, <1>4 DEF Inv

LEMMA DeleteMemoryInv == ASSUME Inv, NEW f \in facts, DeleteMemory(f) PROVE Inv'
BY DEF Inv, Tables, GoodTasks, GoodTask, NoCrossUser, DeleteMemory, history

LEMMA ForgetBeginInv ==
    ASSUME Inv, NEW p \in Tasks, NEW u \in Users, ForgetBegin(p, u)
    PROVE  Inv'
<1> DEFINE q == [IdleTask EXCEPT !.at = "facts", !.user = u]
<1>1. clock' \in 0..MaxTx /\ calm' \subseteq calm
  BY DEF Inv, Tables, ForgetBegin, Call
<1>2. GoodTask(q)
  <2>1. IdleTask \in Task
    BY IdleIsGood DEF GoodTask
  <2>2. q \in Task
    BY <2>1 DEF Task, ForgetLabels
  <2>3. q.at = "facts" /\ q.user = u
    BY <2>1 DEF Task
  <2> HIDE DEF q
  <2> QED BY <2>2, <2>3 DEF GoodTask, PersistLabels
<1>3. GoodTasks'
  BY <1>2, TaskUpdate DEF Inv, ForgetBegin
<1>4. Tables'
  BY <1>1 DEF Inv, Tables, ForgetBegin, ledger
<1>5. NoCrossUser'
  BY DEF Inv, NoCrossUser, ForgetBegin, ledger
<1> QED BY <1>3, <1>4, <1>5 DEF Inv

LEMMA ForgetInv ==
    ASSUME Inv, NEW p \in Tasks, ForgetFacts(p) \/ ForgetTurns(p) \/ ForgetCommit(p)
    PROVE  Inv'
<1>2. GoodTask(task[p])
  BY DEF Inv, GoodTasks
<1>3. CASE ForgetFacts(p)
  <2> DEFINE old == FactsOf(task[p].user)
             q == [task[p] EXCEPT !.at = "turns", !.old = old]
  <2>1. old \subseteq Fact
    BY DEF FactsOf, Inv, Tables
  <2>2. GoodTask(q)
    <3> HIDE DEF old
    <3> QED BY <1>2, <1>3, <2>1 DEF GoodTask, Task, PersistLabels, ForgetLabels, ForgetFacts, At
  <2>3. task' = [task EXCEPT ![p] = q]
    BY <1>3 DEF ForgetFacts, Inv, GoodTasks, Task
  <2>4. GoodTasks'
    BY <2>2, <2>3, TaskUpdate DEF Inv
  <2>5. Tables' /\ NoCrossUser'
    BY <1>3 DEF Inv, Tables, NoCrossUser, ForgetFacts, ledger, history
  <2> QED BY <2>4, <2>5 DEF Inv
<1>4. CASE ForgetTurns(p)
  <2> DEFINE rows == TurnsOf(task[p].user)
             q == [task[p] EXCEPT !.at = "states", !.rows = rows]
  <2>1. rows \subseteq Turn
    BY DEF TurnsOf, Inv, Tables
  <2>2. GoodTask(q)
    <3> HIDE DEF rows
    <3> QED BY <1>2, <1>4, <2>1 DEF GoodTask, Task, PersistLabels, ForgetLabels, ForgetTurns, At
  <2>3. task' = [task EXCEPT ![p] = q]
    BY <1>4 DEF ForgetTurns, Inv, GoodTasks, Task
  <2>4. GoodTasks'
    BY <2>2, <2>3, TaskUpdate DEF Inv
  <2>5. Tables' /\ NoCrossUser'
    BY <1>4 DEF Inv, Tables, NoCrossUser, ForgetTurns, ledger, history
  <2> QED BY <2>4, <2>5 DEF Inv
<1>5. CASE ForgetCommit(p)
  <2>1. GoodTasks'
    BY <1>5, TaskEnd DEF Inv, ForgetCommit
  <2>2. Tables'
    BY <1>5 DEF Inv, Tables, ForgetCommit, NoState, history
  <2>3. NoCrossUser'
    BY <1>5 DEF Inv, NoCrossUser, ForgetCommit
  <2> QED BY <2>1, <2>2, <2>3 DEF Inv
<1> QED BY <1>3, <1>4, <1>5

LEMMA NextInv == Inv /\ [Next]_vars => Inv'
<1> SUFFICES ASSUME Inv, [Next]_vars PROVE Inv'
  OBVIOUS
<1>1. CASE UNCHANGED vars
  BY <1>1 DEF vars, ledger, history, Inv, Tables, GoodTasks, GoodTask, NoCrossUser
<1>2. CASE \E u \in Users : AddMemory(u)
  BY <1>2, AddMemoryInv
<1>3. CASE \E f \in facts : DeleteMemory(f)
  BY <1>3, DeleteMemoryInv
<1>4. ASSUME NEW p \in Tasks, \E u \in Users, c \in Convs : RecordBegin(p, u, c) PROVE Inv'
  BY <1>4, RecordBeginInv
<1>5. ASSUME NEW p \in Tasks,
             RecordTurn(p, "user", "assistant") \/ RecordTurn(p, "assistant", "commit")
      PROVE Inv'
  BY <1>5, RecordTurnInv DEF Roles
<1>6. ASSUME NEW p \in Tasks,
             RecordCommit(p) \/ ReadState(p) \/ ReadPending(p) \/ SummaryCommit(p)
      PROVE Inv'
  BY <1>6, RecordCommitInv, ReadStateInv, ReadPendingInv, SummaryCommitInv
<1>7. ASSUME NEW p \in Tasks, Abort(p) PROVE Inv'
  <2>1. GoodTasks'
    BY <1>7, TaskEnd DEF Inv, Abort
  <2>2. Tables' /\ NoCrossUser'
    BY <1>7 DEF Inv, Tables, NoCrossUser, Abort, ledger, history
  <2> QED BY <2>1, <2>2 DEF Inv
<1> QED BY <1>1, <1>2, <1>3, <1>4, <1>5, <1>6, <1>7, ForgetBeginInv, ForgetInv DEF Next

\* The invariant holds in every reachable state.
THEOREM Invariance == Spec => []Inv
BY InitInv, NextInv, PTL DEF Spec

\* The three tables and the local variables of every task keep their types.
THEOREM TypeCorrect == Spec => []TypeOK
<1>1. Inv => TypeOK
  BY DEF Inv, Tables, GoodTasks, TypeOK
<1> QED BY <1>1, Invariance, PTL

\* maybe_summarize never turns the words of one user into the memory of another, whoever
\* shares a conversation id and however many tasks overlap.
THEOREM MemoriesStayApart == Spec => []NoCrossUser
<1>1. Inv => NoCrossUser
  BY DEF Inv
<1> QED BY <1>1, Invariance, PTL
-----------------------------------------------------------------------------
(***************************************************************************)
(* Numbers and pairs                                                       *)
(***************************************************************************)
Recorders == {p \in Tasks : task[p].at \in {"user", "assistant", "commit"}}

\* the turns that are stored and those that some task holds
Known == turns \cup UNION {task[p].rows : p \in Tasks}

Numbers ==
    /\ \A t \in Known : t.id \in 1..drawn /\ t.ts <= clock
    /\ \A c \in Convs : progress[c].upto <= drawn
    /\ \A p \in Tasks : task[p].ts <= clock
    /\ summed \subseteq 1..drawn

\* a number belongs to one turn; a question and its answer share their time, in this order
Apart(s, t) ==
    /\ s.id = t.id => s = t
    /\ s.ts = t.ts => /\ s.user = t.user /\ s.conv = t.conv
                      /\ s.role = t.role => s = t
                      /\ s.role = "user" /\ t.role = "assistant" => s.id < t.id
Distinct == \A s, t \in Known : Apart(s, t)

\* what a transaction has written so far ...
Written(p) ==
    /\ \A t \in task[p].rows : t.user = task[p].user /\ t.conv = task[p].conv /\ t.ts = task[p].ts
    /\ task[p].at = "user" => task[p].rows = {}
    /\ task[p].at = "assistant" => \E x \in task[p].rows : task[p].rows = {x} /\ x.role = "user"
    /\ task[p].at = "commit" =>
         \E x, y \in task[p].rows : task[p].rows = {x, y} /\ x.role = "user" /\ y.role = "assistant"
\* ... is known to it alone
Alone(p) ==
    /\ \A t \in turns : t.ts # task[p].ts
    /\ \A q \in Tasks \ {p} : \A t \in task[q].rows : t.ts # task[p].ts
    /\ \A q \in Recorders \ {p} : task[q].ts # task[p].ts
    /\ \A t \in task[p].rows : t.id \notin summed
FreshRows(p) == Written(p) /\ Alone(p)
Fresh == \A p \in Recorders : FreshRows(p)

\* a question is stored with its answer and forgotten with it
Paired ==
    /\ IsFiniteSet(turns)
    /\ \A t \in turns : \E s \in turns : s.ts = t.ts /\ s.role # t.role
    /\ \A p \in Tasks : task[p].at = "states" =>
         \A s, t \in turns : s.ts = t.ts /\ s \in task[p].rows => t \in task[p].rows

HeldRows ==
    \A p \in Tasks : /\ task[p].at = "llm" => \A t \in task[p].rows : t.conv = task[p].conv
                     /\ task[p].at = "states" => \A t \in task[p].rows : t.user = task[p].user

IdsInv == Numbers /\ Distinct /\ Fresh /\ Paired /\ HeldRows

(***************************************************************************)
(* A conversation that is calm: what its task, if there is one, has read   *)
(* is still so, its summarised turns are those up to summarized_upto, and  *)
(* what a DELETE is about to remove of it is all there is.                 *)
(***************************************************************************)
OneTask(c) ==
    /\ \A p, q \in Persisting(c) : p = q
    /\ Persisting(c) = {} \/ Forgetting = {}

TurnsCounted(c) ==
    \A t \in turns : t.conv = c => /\ t.user = progress[c].owner
                                   /\ t.id <= progress[c].upto <=> t.id \in summed
                                   /\ t.id \notin twice

ReadStill(c, p) ==
    /\ progress[c].owner \in {None, task[p].user}
    /\ task[p].at \in {"state", "pending", "llm"} => progress[c].owner = task[p].user
    /\ p \in Recorders => \A t \in task[p].rows : progress[c].upto < t.id
    /\ task[p].at = "pending" => task[p].upto = progress[c].upto
    /\ task[p].at = "llm" => task[p].rows = {t \in turns : t.conv = c /\ progress[c].upto < t.id}

FactsBacked(c) == \A f \in facts : \A t \in f.src : t.conv = c => t \in turns

AllHeld(c, p) ==
    /\ task[p].at \in {"turns", "states"} =>
         \A f \in facts : f.user = task[p].user /\ (\E t \in f.src : t.conv = c) => f \in task[p].old
    /\ task[p].at = "states" => \A t \in turns : t.user = task[p].user /\ t.conv = c => t \in task[p].rows

CalmConv(c) ==
    /\ OneTask(c) /\ TurnsCounted(c) /\ FactsBacked(c)
    /\ \A p \in Persisting(c) : ReadStill(c, p)
    /\ \A p \in Forgetting : AllHeld(c, p)
CalmInv == \A c \in calm : CalmConv(c)
-----------------------------------------------------------------------------
(***************************************************************************)
(* What each step leaves in the variables of its task                      *)
(***************************************************************************)
Only(p) == \A q \in Tasks \ {p} : task'[q] = task[q]

\* the same call goes on
Same(p) == /\ task'[p].user = task[p].user /\ task'[p].conv = task[p].conv /\ task'[p].ts = task[p].ts
           /\ Only(p)

LEMMA Labels ==
    /\ PersistLabels = {"user", "assistant", "commit", "state", "pending", "llm"}
    /\ ForgetLabels = {"facts", "turns", "states"}
BY DEF PersistLabels, ForgetLabels

LEMMA Idle ==
    /\ IdleTask.at = "idle" /\ IdleTask.rows = {} /\ IdleTask.ts = 0 /\ IdleTask.old = {}
    /\ IdleTask.user = None /\ IdleTask.conv = None
BY DEF IdleTask

LEMMA Replaced ==
    ASSUME Inv, NEW p \in Tasks, NEW q, task' = [task EXCEPT ![p] = q]
    PROVE  task'[p] = q /\ Only(p)
BY DEF Inv, GoodTasks, Only

LEMMA EndDoes == ASSUME Inv, NEW p \in Tasks, Finish(p) PROVE task'[p] = IdleTask /\ Only(p)
BY Replaced DEF Finish

LEMMA BeginDoes ==
    ASSUME Inv, NEW p \in Tasks, NEW u \in Users, NEW c \in Convs, RecordBegin(p, u, c)
    PROVE  /\ task'[p].at = "user" /\ task'[p].user = u /\ task'[p].conv = c
           /\ task'[p].ts = clock + 1 /\ task'[p].rows = {}
           /\ Only(p) /\ task[p].at = "idle" /\ clock' = clock + 1
<1> DEFINE q == [IdleTask EXCEPT !.at = "user", !.user = u, !.conv = c, !.ts = clock + 1]
<1>1. q.at = "user" /\ q.user = u /\ q.conv = c /\ q.ts = clock + 1 /\ q.rows = {}
  BY DEF IdleTask
<1>2. task' = [task EXCEPT ![p] = q] /\ task[p].at = "idle" /\ clock' = clock + 1
  BY DEF RecordBegin, At, Call
<1> HIDE DEF q
<1> QED BY <1>1, <1>2, Replaced

LEMMA TurnDoes ==
    ASSUME Inv, NEW p \in Tasks, NEW role \in Roles, NEW next \in {"assistant", "commit"},
           RecordTurn(p, role, next)
    PROVE  /\ task'[p].at = next /\ task'[p].rows = task[p].rows \cup {NewTurn(task[p], role)}
           /\ Same(p) /\ task[p].at = role
<1>1. task[p] \in Task /\ task[p].at = role
  BY DEF Inv, GoodTasks, RecordTurn, At
<1> DEFINE R == task[p].rows \cup {NewTurn(task[p], role)}
           q == [task[p] EXCEPT !.rows = R, !.at = next]
<1>2. task' = [task EXCEPT ![p] = q]
  BY <1>1 DEF RecordTurn, Inv, GoodTasks, Task
<1> HIDE DEF R
<1>3. q.at = next /\ q.rows = R /\ q.user = task[p].user /\ q.conv = task[p].conv /\ q.ts = task[p].ts
  BY <1>1 DEF Task
<1> HIDE DEF q
<1> QED BY <1>1, <1>2, <1>3, Replaced DEF Same, R

LEMMA CommitDoes ==
    ASSUME Inv, NEW p \in Tasks, RecordCommit(p)
    PROVE  /\ task'[p].at = "state" /\ task'[p].rows = {} /\ Same(p) /\ task[p].at = "commit"
<1>1. task[p] \in Task /\ task[p].at = "commit"
  BY DEF Inv, GoodTasks, RecordCommit, At
<1> DEFINE q == [task[p] EXCEPT !.at = "state", !.rows = {}]
<1>2. task' = [task EXCEPT ![p] = q]
  BY <1>1 DEF RecordCommit, Inv, GoodTasks, Task
<1>3. q.at = "state" /\ q.rows = {} /\ q.user = task[p].user /\ q.conv = task[p].conv /\ q.ts = task[p].ts
  BY <1>1 DEF Task
<1> HIDE DEF q
<1> QED BY <1>1, <1>2, <1>3, Replaced DEF Same

LEMMA StateDoes ==
    ASSUME Inv, NEW p \in Tasks, ReadState(p)
    PROVE  /\ task[p].at = "state"
           /\ \/ task'[p] = IdleTask /\ Only(p)
              \/ /\ task'[p].at = "pending" /\ task'[p].rows = task[p].rows /\ Same(p)
                 /\ task'[p].upto = progress[task[p].conv].upto
<1>1. task[p] \in Task /\ task[p].at = "state"
  BY DEF Inv, GoodTasks, ReadState, At
<1> DEFINE n == progress[task[p].conv].upto
           q == [task[p] EXCEPT !.at = "pending", !.upto = n]
<1>2. task' = [task EXCEPT ![p] = IdleTask] \/ task' = [task EXCEPT ![p] = q]
  BY <1>1 DEF ReadState, Inv, GoodTasks, Task
<1> HIDE DEF n
<1>3. /\ q.at = "pending" /\ q.rows = task[p].rows /\ q.user = task[p].user /\ q.conv = task[p].conv
      /\ q.ts = task[p].ts /\ q.upto = n
  BY <1>1 DEF Task
<1> HIDE DEF q
<1> QED BY <1>1, <1>2, <1>3, Replaced DEF Same, n

LEMMA PendingDoes ==
    ASSUME Inv, NEW p \in Tasks, ReadPending(p)
    PROVE  /\ task[p].at = "pending"
           /\ \/ task'[p] = IdleTask /\ Only(p)
              \/ /\ task'[p].at = "llm" /\ Same(p) /\ task'[p].upto = task[p].upto
                 /\ task'[p].rows = Pending(task[p].user, task[p].conv, task[p].upto)
<1>1. task[p] \in Task /\ task[p].at = "pending"
  BY DEF Inv, GoodTasks, ReadPending, At
<1> DEFINE R == Pending(task[p].user, task[p].conv, task[p].upto)
           q == [task[p] EXCEPT !.at = "llm", !.rows = R]
<1>2. task' = [task EXCEPT ![p] = IdleTask] \/ task' = [task EXCEPT ![p] = q]
  BY <1>1 DEF ReadPending, Inv, GoodTasks, Task
<1> HIDE DEF R
<1>3. /\ q.at = "llm" /\ q.rows = R /\ q.user = task[p].user /\ q.conv = task[p].conv
      /\ q.ts = task[p].ts /\ q.upto = task[p].upto
  BY <1>1 DEF Task
<1> HIDE DEF q
<1> QED BY <1>1, <1>2, <1>3, Replaced DEF Same, R

LEMMA ForgetBeginDoes ==
    ASSUME Inv, NEW p \in Tasks, NEW u \in Users, ForgetBegin(p, u)
    PROVE  /\ task'[p].at = "facts" /\ task'[p].user = u /\ task'[p].ts = 0 /\ task'[p].rows = {}
           /\ Only(p) /\ task[p].at = "idle" /\ clock' = clock + 1
<1> DEFINE q == [IdleTask EXCEPT !.at = "facts", !.user = u]
<1>1. q.at = "facts" /\ q.user = u /\ q.ts = 0 /\ q.rows = {}
  BY DEF IdleTask
<1>2. task' = [task EXCEPT ![p] = q] /\ task[p].at = "idle" /\ clock' = clock + 1
  BY DEF ForgetBegin, At, Call
<1> HIDE DEF q
<1> QED BY <1>1, <1>2, Replaced

LEMMA ForgetReads ==
    ASSUME Inv, NEW p \in Tasks
    PROVE  /\ ForgetFacts(p) =>
                /\ task[p].at = "facts" /\ task'[p].at = "turns" /\ Same(p)
                /\ task'[p].rows = task[p].rows /\ task'[p].old = FactsOf(task[p].user)
           /\ ForgetTurns(p) =>
                /\ task[p].at = "turns" /\ task'[p].at = "states" /\ Same(p)
                /\ task'[p].rows = TurnsOf(task[p].user) /\ task'[p].old = task[p].old
<1>1. task \in [Tasks -> Task] /\ task[p] \in Task
  BY DEF Inv, GoodTasks
<1>2. ASSUME ForgetFacts(p)
      PROVE  /\ task[p].at = "facts" /\ task'[p].at = "turns" /\ Same(p)
             /\ task'[p].rows = task[p].rows /\ task'[p].old = FactsOf(task[p].user)
  <2> DEFINE old == FactsOf(task[p].user)
             q == [task[p] EXCEPT !.at = "turns", !.old = old]
  <2>1. task' = [task EXCEPT ![p] = q] /\ task[p].at = "facts"
    BY <1>1, <1>2 DEF ForgetFacts, At, Task
  <2> HIDE DEF old
  <2>2. /\ q.at = "turns" /\ q.old = old /\ q.rows = task[p].rows /\ q.user = task[p].user
        /\ q.conv = task[p].conv /\ q.ts = task[p].ts
    BY <1>1 DEF Task
  <2> HIDE DEF q
  <2> QED BY <2>1, <2>2, Replaced DEF Same, old
<1>3. ASSUME ForgetTurns(p)
      PROVE  /\ task[p].at = "turns" /\ task'[p].at = "states" /\ Same(p)
             /\ task'[p].rows = TurnsOf(task[p].user) /\ task'[p].old = task[p].old
  <2> DEFINE R == TurnsOf(task[p].user)
             q == [task[p] EXCEPT !.at = "states", !.rows = R]
  <2>1. task' = [task EXCEPT ![p] = q] /\ task[p].at = "turns"
    BY <1>1, <1>3 DEF ForgetTurns, At, Task
  <2> HIDE DEF R
  <2>2. /\ q.at = "states" /\ q.old = task[p].old /\ q.rows = R /\ q.user = task[p].user
        /\ q.conv = task[p].conv /\ q.ts = task[p].ts
    BY <1>1 DEF Task
  <2> HIDE DEF q
  <2> QED BY <2>1, <2>2, Replaced DEF Same, R
<1> QED BY <1>2, <1>3
-----------------------------------------------------------------------------
(***************************************************************************)
(* Numbers and pairs are kept                                              *)
(***************************************************************************)
LEMMA WrittenKept == ASSUME NEW q \in Tasks, task'[q] = task[q], FreshRows(q) PROVE Written(q)'
BY DEF FreshRows, Written

LEMMA FreshKept == ASSUME Fresh, UNCHANGED <<turns, task, summed>> PROVE Fresh'
<1> SUFFICES ASSUME NEW q \in Recorders PROVE FreshRows(q)'
  BY DEF Fresh, Recorders
<1>1. FreshRows(q) /\ q \in Tasks
  BY DEF Fresh, Recorders
<1>2. Written(q)'
  BY <1>1, WrittenKept
<1>3. Alone(q)'
  BY <1>1 DEF FreshRows, Alone, Recorders
<1> QED BY <1>2, <1>3 DEF FreshRows

LEMMA KnownTypes ==
    ASSUME Inv
    PROVE  /\ turns \subseteq Turn /\ drawn \in Nat /\ clock \in 0..MaxTx
           /\ \A p \in Tasks : /\ task[p] \in Task /\ task[p].rows \subseteq Turn
                               /\ task[p].ts \in 0..MaxTx /\ task[p].upto \in Nat
           /\ \A t \in Known : t.id \in Nat /\ t.ts \in Times /\ t.user \in Users /\ t.role \in Roles
<1>1. \A p \in Tasks : /\ task[p] \in Task /\ task[p].rows \subseteq Turn
                       /\ task[p].ts \in 0..MaxTx /\ task[p].upto \in Nat
  BY DEF Inv, GoodTasks, Task
<1>2. turns \subseteq Turn /\ drawn \in Nat /\ clock \in 0..MaxTx
  BY DEF Inv, Tables
<1>3. Known \subseteq Turn
  BY <1>1, <1>2 DEF Known
<1> QED BY <1>1, <1>2, <1>3 DEF Turn

\* A task of which nothing is heard any more, or that only reads: no turn is new.
LEMMA NothingRecorded ==
    ASSUME Inv, Inv', Numbers, Distinct, Fresh, NEW p \in Tasks, Only(p),
           task'[p].at \notin {"user", "assistant", "commit"}, task'[p].ts <= clock',
           task'[p].rows \subseteq turns \cup (IF p \in Recorders THEN {} ELSE task[p].rows),
           turns' \subseteq turns, drawn' = drawn, clock' \in {clock, clock + 1},
           summed' \subseteq summed \cup (IF p \in Recorders THEN {} ELSE {t.id : t \in task[p].rows}),
           \A c \in Convs : progress'[c].upto <= drawn
    PROVE  Numbers' /\ Distinct' /\ Fresh'
<1>1. Known' \subseteq Known
  BY DEF Known, Only
<1>2. Distinct'
  BY <1>1 DEF Distinct
<1>3. Numbers'
  <2>1. ASSUME NEW t \in Known' PROVE t.id \in 1..drawn /\ t.ts <= clock'
    BY <1>1, KnownTypes DEF Numbers, Times
  <2>2. ASSUME NEW q \in Tasks PROVE task'[q].ts <= clock'
    BY KnownTypes DEF Numbers, Only
  <2>3. summed' \subseteq 1..drawn
    <3>1. \A t \in task[p].rows : t.id \in 1..drawn
      BY DEF Numbers, Known
    <3> QED BY <3>1 DEF Numbers
  <2> QED BY <2>1, <2>2, <2>3 DEF Numbers
<1>4. ASSUME NEW q \in Recorders' PROVE FreshRows(q)'
  <2>1. q \in Recorders /\ q # p /\ task'[q] = task[q] /\ FreshRows(q)
    BY DEF Recorders, Only, Fresh
  <2>2. \A t \in turns' : t.ts # task'[q].ts
    BY <2>1 DEF FreshRows, Written, Alone
  <2>3. \A o \in Tasks \ {q} : \A t \in task'[o].rows : t.ts # task'[q].ts
    BY <2>1 DEF FreshRows, Written, Alone, Only
  <2>4. \A o \in Recorders' \ {q} : task'[o].ts # task'[q].ts
    BY <2>1 DEF FreshRows, Written, Alone, Only, Recorders
  <2>5. ASSUME NEW t \in task[q].rows PROVE t.id \notin summed'
    <3>1. t.id \notin summed /\ t.ts = task[q].ts /\ t \in Known
      <4>1. q \in Tasks
        BY DEF Recorders
      <4> QED BY <2>1, <4>1 DEF FreshRows, Written, Alone, Known
    <3>2. ASSUME NEW s \in task[p].rows PROVE s.id # t.id
      <4>1. s \in Known /\ s.ts # t.ts
        BY <2>1, <3>1 DEF FreshRows, Written, Alone, Known
      <4> QED BY <3>1, <4>1 DEF Distinct, Apart
    <3> QED BY <3>1, <3>2
  <2>6. Written(q)'
    BY <2>1, WrittenKept DEF Recorders
  <2> QED BY <2>1, <2>2, <2>3, <2>4, <2>5, <2>6 DEF FreshRows, Alone
<1> QED BY <1>2, <1>3, <1>4 DEF Fresh

\* Steps that leave the stored turns or take some away.
LEMMA PairedKept ==
    ASSUME Paired, NEW p \in Tasks, Only(p), turns' = turns, task'[p].at # "states"
    PROVE  Paired'
BY DEF Paired, Only

LEMMA HeldKept ==
    ASSUME HeldRows, NEW p \in Tasks, Only(p), task'[p].at \notin {"llm", "states"}
    PROVE  HeldRows'
BY DEF HeldRows, Only

LEMMA EndIds ==
    ASSUME Inv, Inv', IdsInv, NEW p \in Tasks, Finish(p), turns' = turns, drawn' = drawn, clock' = clock,
           summed' \subseteq summed \cup (IF p \in Recorders THEN {} ELSE {t.id : t \in task[p].rows}),
           \A c \in Convs : progress'[c].upto <= drawn
    PROVE  IdsInv'
<1>1. task'[p] = IdleTask /\ Only(p)
  BY EndDoes
<1>2. 0 <= clock' /\ clock' \in {clock, clock + 1}
  BY KnownTypes
<1>3. Numbers' /\ Distinct' /\ Fresh'
  BY <1>1, <1>2, Idle, NothingRecorded DEF IdsInv
<1>4. Paired' /\ HeldRows'
  BY <1>1, Idle, PairedKept, HeldKept DEF IdsInv
<1> QED BY <1>3, <1>4 DEF IdsInv

LEMMA RecordBeginIds ==
    ASSUME Inv, Inv', IdsInv, NEW p \in Tasks, NEW u \in Users, NEW c \in Convs, RecordBegin(p, u, c)
    PROVE  IdsInv'
<1>1. /\ task'[p].at = "user" /\ task'[p].ts = clock + 1 /\ task'[p].rows = {} /\ Only(p)
      /\ task[p].at = "idle" /\ clock' = clock + 1 /\ UNCHANGED <<turns, facts, progress, drawn, summed>>
  BY BeginDoes DEF RecordBegin, ledger
<1>2. /\ Numbers /\ Distinct /\ Fresh /\ Paired /\ HeldRows /\ clock \in Nat
      /\ \A t \in Known : t.ts \in Nat
      /\ \A q \in Tasks : task[q].ts \in Nat
  BY KnownTypes DEF IdsInv, Times
<1>3. Known' \subseteq Known
  BY <1>1 DEF Known, Only
<1>4. Distinct'
  BY <1>2, <1>3 DEF Distinct
<1>5. Numbers'
  <2>1. \A t \in Known' : t.id \in 1..drawn' /\ t.ts <= clock'
    BY <1>1, <1>2, <1>3 DEF Numbers
  <2>2. \A q \in Tasks : task'[q].ts <= clock'
    BY <1>1, <1>2 DEF Numbers, Only
  <2> QED BY <1>1, <1>2, <2>1, <2>2 DEF Numbers
<1>6. Fresh'
  <2>1. FreshRows(p)'
    <3>1. \A t \in turns : t.ts # clock + 1
      BY <1>2 DEF Numbers, Known
    <3>2. \A q \in Tasks \ {p} : \A t \in task'[q].rows : t.ts # clock + 1
      <4>1. \A q \in Tasks : \A t \in task[q].rows : t \in Known
        BY DEF Known
      <4> QED BY <1>1, <1>2, <4>1 DEF Numbers, Only
    <3>3. \A q \in Tasks \ {p} : task'[q].ts # clock + 1
      BY <1>1, <1>2 DEF Numbers, Only
    <3> QED BY <1>1, <3>1, <3>2, <3>3 DEF FreshRows, Written, Alone, Recorders
  <2>2. ASSUME NEW q \in Recorders' \ {p} PROVE FreshRows(q)'
    <3>1. q \in Recorders /\ task'[q] = task[q] /\ FreshRows(q)
      BY <1>1, <1>2 DEF Recorders, Only, Fresh
    <3>2. task'[p].ts # task'[q].ts
      BY <1>1, <1>2, <3>1 DEF Numbers, Recorders
    <3>3. Written(q)'
      BY <3>1, WrittenKept DEF Recorders
    <3> QED BY <1>1, <3>1, <3>2, <3>3 DEF FreshRows, Alone, Recorders, Only
  <2> QED BY <2>1, <2>2 DEF Fresh
<1>7. Paired' /\ HeldRows'
  BY <1>1, <1>2, PairedKept, HeldKept
<1> QED BY <1>4, <1>5, <1>6, <1>7 DEF IdsInv

\* The number drawn last is nobody else's, and only the rows of this transaction have its time.
LEMMA RecordTurnIds ==
    ASSUME Inv, Inv', IdsInv, NEW p \in Tasks,
           RecordTurn(p, "user", "assistant") \/ RecordTurn(p, "assistant", "commit")
    PROVE  IdsInv'
<1>1. PICK role \in Roles, next \in {"assistant", "commit"} :
        /\ RecordTurn(p, role, next)
        /\ role = "user" => next = "assistant"
        /\ role = "assistant" => next = "commit"
  BY DEF Roles
<1> DEFINE x == NewTurn(task[p], role)
<1>2. /\ task'[p].at = next /\ task'[p].rows = task[p].rows \cup {x} /\ Same(p) /\ task[p].at = role
      /\ UNCHANGED <<turns, facts, progress, clock, summed>> /\ drawn' = drawn + 1
  BY <1>1, TurnDoes DEF RecordTurn, ledger, history
<1>3. /\ x.id = drawn + 1 /\ x.user = task[p].user /\ x.conv = task[p].conv /\ x.role = role
      /\ x.ts = task[p].ts
  BY DEF NewTurn
<1> HIDE DEF x
<1>4. /\ Numbers /\ Distinct /\ Fresh /\ Paired /\ HeldRows /\ drawn \in Nat
      /\ \A t \in Known : t.id \in Nat
  BY KnownTypes DEF IdsInv
<1>5. p \in Recorders /\ FreshRows(p)
  BY <1>2, <1>4 DEF Recorders, Fresh, Roles
<1>6. Known' \subseteq Known \cup {x}
  BY <1>2 DEF Known, Only, Same
<1>7. ASSUME NEW t \in Known
      PROVE  /\ t.id < x.id /\ t # x
             /\ t.ts = x.ts => /\ t \in task[p].rows /\ t.user = x.user /\ t.conv = x.conv
                               /\ t.role = "user" /\ role = "assistant"
  <2>1. t.id <= drawn /\ t.id \in Nat
    BY <1>4 DEF Numbers
  <2>2. t.id < x.id
    BY <1>3, <1>4, <2>1
  <2>3. ASSUME t.ts = x.ts
        PROVE  t \in task[p].rows /\ t.user = x.user /\ t.conv = x.conv /\ t.role = "user" /\ role = "assistant"
    <3>1. t \in task[p].rows
      BY <1>3, <1>5, <2>3 DEF FreshRows, Written, Alone, Known
    <3> QED BY <1>2, <1>3, <1>5, <3>1 DEF FreshRows, Written, Alone, Roles
  <2> QED BY <1>4, <2>2, <2>3
<1>8. Distinct'
  <2> SUFFICES ASSUME NEW s \in Known', NEW t \in Known' PROVE Apart(s, t)
    BY DEF Distinct, Apart
  <2>1. CASE s \in Known /\ t \in Known
    BY <1>4, <2>1 DEF Distinct
  <2>2. CASE s = x /\ t = x
    BY <1>3, <2>2 DEF Apart, Roles
  <2>3. CASE s \in Known /\ t = x
    <3>1. s.id # t.id /\ (s.ts = t.ts => s.user = t.user /\ s.conv = t.conv /\ s.role # t.role /\ s.id < t.id)
      BY <1>3, <1>4, <1>7, <2>3
    <3> QED BY <3>1 DEF Apart
  <2>4. CASE s = x /\ t \in Known
    <3>1. s.id # t.id
      BY <1>3, <1>4, <1>7, <2>4
    <3>2. s.ts = t.ts => s.user = t.user /\ s.conv = t.conv /\ s.role = "assistant" /\ t.role = "user"
      BY <1>3, <1>7, <2>4
    <3> QED BY <3>1, <3>2 DEF Apart
  <2> QED BY <1>6, <2>1, <2>2, <2>3, <2>4
<1>9. Numbers'
  <2>1. task[p].ts <= clock /\ x.id \in 1..drawn'
    BY <1>2, <1>3, <1>4 DEF Numbers
  <2>2. \A t \in Known' : t.id \in 1..drawn' /\ t.ts <= clock'
    BY <1>2, <1>3, <1>4, <1>6, <2>1 DEF Numbers
  <2>3. \A q \in Tasks : task'[q].ts <= clock'
    BY <1>2, <1>4 DEF Numbers, Only, Same
  <2>4. \A c \in Convs : progress'[c].upto <= drawn'
    <3>1. \A c \in Convs : progress[c].upto \in Nat
      BY DEF Inv, Tables
    <3> QED BY <1>2, <1>4, <3>1 DEF Numbers
  <2>5. summed' \subseteq 1..drawn'
    BY <1>2, <1>4 DEF Numbers
  <2> QED BY <2>2, <2>3, <2>4, <2>5 DEF Numbers
<1>10. Fresh'
  <2>1. FreshRows(p)'
    <3>1. /\ \A t \in turns' : t.ts # task'[p].ts
          /\ \A q \in Tasks \ {p} : \A t \in task'[q].rows : t.ts # task'[p].ts
          /\ \A q \in Recorders' \ {p} : task'[q].ts # task'[p].ts
      BY <1>2, <1>5 DEF FreshRows, Written, Alone, Only, Same, Recorders
    <3>2. x.id \notin summed'
      BY <1>2, <1>3, <1>4 DEF Numbers
    <3>3. \A t \in task'[p].rows : /\ t.user = task'[p].user /\ t.conv = task'[p].conv /\ t.ts = task'[p].ts
                                   /\ t.id \notin summed'
      BY <1>2, <1>3, <1>5, <3>2 DEF FreshRows, Written, Alone, Same
    <3>4. CASE role = "user"
      <4>1. task'[p].at = "assistant" /\ task'[p].rows = {x} /\ x.role = "user"
        BY <1>1, <1>2, <1>3, <1>5, <3>4 DEF FreshRows, Written, Alone
      <4> QED BY <3>1, <3>3, <4>1 DEF FreshRows, Written, Alone
    <3>5. CASE role = "assistant"
      <4>1. PICK y \in task[p].rows : task[p].rows = {y} /\ y.role = "user"
        BY <1>2, <1>5, <3>5 DEF FreshRows, Written, Alone
      <4>2. task'[p].at = "commit" /\ task'[p].rows = {y, x} /\ x.role = "assistant"
        BY <1>1, <1>2, <1>3, <3>5, <4>1
      <4> QED BY <3>1, <3>3, <4>1, <4>2 DEF FreshRows, Written, Alone
    <3> QED BY <3>4, <3>5 DEF Roles
  <2>2. ASSUME NEW q \in Recorders' \ {p} PROVE FreshRows(q)'
    <3>1. q \in Recorders /\ task'[q] = task[q] /\ FreshRows(q)
      BY <1>2, <1>4 DEF Recorders, Only, Same, Fresh
    <3>2. task'[p].ts # task'[q].ts /\ x.ts # task'[q].ts
      BY <1>2, <1>3, <1>5, <3>1 DEF FreshRows, Written, Alone, Same
    <3>3. \A o \in Tasks \ {q} : \A t \in task'[o].rows : t.ts # task'[q].ts
      BY <1>2, <3>1, <3>2 DEF FreshRows, Written, Alone, Only, Same
    <3>4. \A o \in Recorders' \ {q} : task'[o].ts # task'[q].ts
      BY <1>2, <3>1, <3>2 DEF FreshRows, Written, Alone, Recorders, Only, Same
    <3>5. Written(q)'
      BY <3>1, WrittenKept DEF Recorders
    <3> QED BY <1>2, <3>1, <3>3, <3>4, <3>5 DEF FreshRows, Alone
  <2> QED BY <2>1, <2>2 DEF Fresh
<1>11. Paired' /\ HeldRows'
  BY <1>2, <1>4, PairedKept, HeldKept DEF Same
<1> QED BY <1>8, <1>9, <1>10, <1>11 DEF IdsInv

LEMMA RecordCommitIds ==
    ASSUME Inv, Inv', IdsInv, NEW p \in Tasks, RecordCommit(p)
    PROVE  IdsInv'
<1>1. /\ task'[p].at = "state" /\ task'[p].rows = {} /\ Same(p) /\ task[p].at = "commit"
      /\ turns' = turns \cup task[p].rows /\ UNCHANGED <<facts, drawn, clock, summed>>
  BY CommitDoes DEF RecordCommit, history
<1>2. Numbers /\ Distinct /\ Fresh /\ Paired /\ HeldRows
  BY DEF IdsInv
<1>3. p \in Recorders /\ FreshRows(p)
  BY <1>1, <1>2 DEF Recorders, Fresh
<1>4. Known' \subseteq Known
  BY <1>1 DEF Known, Only, Same
<1>5. Distinct'
  BY <1>2, <1>4 DEF Distinct
<1>6. Numbers'
  <2>1. \A c \in Convs : progress'[c].upto = progress[c].upto
    <3>1. progress \in [Convs -> [owner : Users \cup {None}, upto : Nat]]
      BY DEF Inv, Tables
    <3>2. PICK u : progress' = [progress EXCEPT ![task[p].conv].owner = u]
      BY DEF RecordCommit
    <3> QED BY <3>1, <3>2
  <2> QED BY <1>1, <1>2, <1>4, <2>1 DEF Numbers, Only, Same
<1>7. ASSUME NEW q \in Recorders' PROVE FreshRows(q)'
  <2>1. q # p /\ q \in Tasks /\ q \in Recorders /\ task'[q] = task[q] /\ FreshRows(q)
    BY <1>1, <1>2 DEF Recorders, Only, Same, Fresh
  <2>2. \A t \in turns' : t.ts # task'[q].ts
    BY <1>1, <2>1 DEF FreshRows, Alone
  <2>3. \A o \in Tasks \ {q} : \A t \in task'[o].rows : t.ts # task'[q].ts
    BY <1>1, <2>1 DEF FreshRows, Alone, Only, Same
  <2>4. \A o \in Recorders' \ {q} : task'[o].ts # task'[q].ts
    BY <1>1, <2>1 DEF FreshRows, Alone, Recorders, Only, Same
  <2>5. Written(q)'
    BY <2>1, WrittenKept DEF Recorders
  <2> QED BY <1>1, <2>1, <2>2, <2>3, <2>4, <2>5 DEF FreshRows, Alone
<1>8. Paired'
  <2>1. PICK x \in task[p].rows, y \in task[p].rows :
          task[p].rows = {x, y} /\ x.role = "user" /\ y.role = "assistant" /\ x.ts = y.ts
    BY <1>1, <1>3 DEF FreshRows, Written
  <2>2. IsFiniteSet(turns')
    <3>1. turns' = (turns \cup {x}) \cup {y}
      BY <1>1, <2>1
    <3> QED BY <1>2, <3>1, FS_AddElement DEF Paired
  <2>3. \A t \in turns' : \E s \in turns' : s.ts = t.ts /\ s.role # t.role
    BY <1>1, <1>2, <2>1 DEF Paired
  <2>4. ASSUME NEW q \in Tasks, task'[q].at = "states", NEW s \in turns', NEW t \in turns', s.ts = t.ts,
               s \in task'[q].rows
        PROVE  t \in task'[q].rows
    <3>1. q # p /\ task'[q] = task[q]
      BY <1>1, <2>4 DEF Only, Same
    <3>2. s.ts # task[p].ts
      BY <1>3, <2>4, <3>1 DEF FreshRows, Alone
    <3>3. s \in turns /\ t \in turns
      BY <1>1, <1>3, <2>4, <3>2 DEF FreshRows, Written
    <3> QED BY <1>2, <2>4, <3>1, <3>3 DEF Paired
  <2> QED BY <2>2, <2>3, <2>4 DEF Paired
<1>9. HeldRows'
  BY <1>1, <1>2, HeldKept DEF Same
<1> QED BY <1>5, <1>6, <1>7, <1>8, <1>9 DEF IdsInv, Fresh

\* The steps that only read.
LEMMA ReadIds ==
    ASSUME Inv, Inv', IdsInv, NEW p \in Tasks,
           ReadState(p) \/ ReadPending(p) \/ ForgetFacts(p) \/ ForgetTurns(p)
    PROVE  IdsInv'
<1>1. /\ UNCHANGED <<turns, facts, progress, drawn, clock, summed>>
      /\ task[p].at \in {"state", "pending", "facts", "turns"}
  BY StateDoes, PendingDoes, ForgetReads DEF ReadState, ReadPending, ForgetFacts, ForgetTurns, ledger, history
<1>2. Numbers /\ Distinct /\ Fresh /\ Paired /\ HeldRows /\ p \notin Recorders
  BY <1>1 DEF IdsInv, Recorders
<1>3. \A t \in turns : t.user \in Users /\ t.ts \in Times
  BY KnownTypes DEF Known
<1>4. ASSUME task'[p] = IdleTask, Only(p) PROVE IdsInv'
  <2>1. 0 <= clock' /\ clock' \in {clock, clock + 1}
    BY <1>1, KnownTypes
  <2>2. Numbers' /\ Distinct' /\ Fresh'
    BY <1>1, <1>2, <1>4, <2>1, Idle, NothingRecorded DEF Numbers
  <2> QED BY <1>1, <1>2, <1>4, <2>2, Idle, PairedKept, HeldKept DEF IdsInv
<1>5. ASSUME Same(p), task'[p].at \in {"pending", "llm", "turns", "states"},
             task'[p].rows = task[p].rows \/ task'[p].rows \subseteq turns
      PROVE  Numbers' /\ Distinct' /\ Fresh'
  <2>1. task'[p].ts <= clock'
    BY <1>1, <1>2, <1>5 DEF Numbers, Same
  <2> QED BY <1>1, <1>2, <1>5, <2>1, NothingRecorded DEF Numbers, Same
<1>6. CASE ReadState(p)
  <2>1. CASE task'[p] = IdleTask /\ Only(p)
    BY <1>4, <2>1
  <2>2. CASE task'[p].at = "pending" /\ task'[p].rows = task[p].rows /\ Same(p)
    BY <1>1, <1>2, <1>5, <2>2, PairedKept, HeldKept DEF IdsInv, Same
  <2> QED BY <1>6, <2>1, <2>2, StateDoes
<1>7. CASE ReadPending(p)
  <2>1. CASE task'[p] = IdleTask /\ Only(p)
    BY <1>4, <2>1
  <2>2. CASE /\ task'[p].at = "llm" /\ Same(p)
             /\ task'[p].rows = Pending(task[p].user, task[p].conv, task[p].upto)
    <3>1. task'[p].rows \subseteq turns /\ \A t \in task'[p].rows : t.conv = task'[p].conv
      BY <2>2 DEF Pending, Same
    <3>2. Paired'
      BY <1>1, <1>2, <2>2, PairedKept DEF Same
    <3>3. HeldRows'
      BY <1>2, <2>2, <3>1 DEF HeldRows, Same, Only
    <3> QED BY <1>5, <2>2, <3>1, <3>2, <3>3 DEF IdsInv
  <2> QED BY <1>7, <2>1, <2>2, PendingDoes
<1>8. CASE ForgetFacts(p)
  <2>1. task'[p].at = "turns" /\ task'[p].rows = task[p].rows /\ Same(p)
    BY <1>8, ForgetReads
  <2> QED BY <1>1, <1>2, <1>5, <2>1, PairedKept, HeldKept DEF IdsInv, Same
<1>9. CASE ForgetTurns(p)
  <2>1. task'[p].at = "states" /\ Same(p) /\ task'[p].rows = TurnsOf(task[p].user)
    BY <1>9, ForgetReads
  <2>2. /\ task'[p].rows \subseteq turns /\ \A t \in turns : t \in task'[p].rows <=> t.user = task'[p].user
    BY <2>1 DEF TurnsOf, Same
  <2>3. \A s, t \in turns : s.ts = t.ts => s.user = t.user
    BY <1>2 DEF Distinct, Apart, Known
  <2>4. Paired'
    BY <1>1, <1>2, <2>1, <2>2, <2>3 DEF Paired, Only, Same
  <2>5. HeldRows'
    BY <1>2, <2>1, <2>2 DEF HeldRows, Same, Only
  <2> QED BY <1>5, <2>1, <2>2, <2>4, <2>5 DEF IdsInv
<1> QED BY <1>6, <1>7, <1>8, <1>9

LEMMA ForgetBeginIds ==
    ASSUME Inv, Inv', IdsInv, NEW p \in Tasks, NEW u \in Users, ForgetBegin(p, u)
    PROVE  IdsInv'
<1>1. /\ task'[p].at = "facts" /\ task'[p].ts = 0 /\ task'[p].rows = {} /\ Only(p)
      /\ clock' = clock + 1 /\ UNCHANGED <<turns, facts, progress, drawn, summed>>
  BY ForgetBeginDoes DEF ForgetBegin, ledger
<1>2. 0 <= clock'
  BY <1>1, KnownTypes
<1>3. Numbers' /\ Distinct' /\ Fresh'
  BY <1>1, <1>2, NothingRecorded DEF IdsInv, Numbers
<1> QED BY <1>1, <1>3, PairedKept, HeldKept DEF IdsInv

LEMMA ForgetCommitIds ==
    ASSUME Inv, Inv', IdsInv, NEW p \in Tasks, ForgetCommit(p)
    PROVE  IdsInv'
<1>1. /\ task'[p] = IdleTask /\ Only(p) /\ task[p].at = "states" /\ p \notin Recorders
      /\ turns' = turns \ task[p].rows /\ UNCHANGED <<drawn, clock, summed>>
  BY EndDoes DEF ForgetCommit, At, history, Recorders
<1>2. Numbers /\ Distinct /\ Fresh /\ Paired /\ HeldRows
  BY DEF IdsInv
<1>3. \A c \in Convs : progress'[c].upto <= drawn
  <2>1. progress' = [c \in Convs |-> IF progress[c].owner = task[p].user THEN NoState ELSE progress[c]]
    BY DEF ForgetCommit
  <2>2. NoState.upto = 0 /\ drawn \in Nat
    BY KnownTypes DEF NoState
  <2> QED BY <1>2, <2>1, <2>2 DEF Numbers
<1>4. 0 <= clock' /\ clock' \in {clock, clock + 1}
  BY <1>1, KnownTypes
<1>5. Numbers' /\ Distinct' /\ Fresh'
  BY <1>1, <1>2, <1>3, <1>4, Idle, NothingRecorded
<1>6. Paired'
  <2>1. IsFiniteSet(turns')
    BY <1>1, <1>2, FS_Subset DEF Paired
  <2>2. ASSUME NEW t \in turns' PROVE \E s \in turns' : s.ts = t.ts /\ s.role # t.role
    <3>1. PICK s \in turns : s.ts = t.ts /\ s.role # t.role
      BY <1>1, <1>2 DEF Paired
    <3>2. s \notin task[p].rows
      BY <1>1, <1>2, <3>1 DEF Paired
    <3> QED BY <1>1, <3>1, <3>2
  <2>3. ASSUME NEW q \in Tasks, task'[q].at = "states", NEW s \in turns', NEW t \in turns', s.ts = t.ts,
               s \in task'[q].rows
        PROVE  t \in task'[q].rows
    <3>1. task'[q] = task[q]
      BY <1>1, <2>3, Idle DEF Only
    <3> QED BY <1>1, <1>2, <2>3, <3>1 DEF Paired
  <2> QED BY <2>1, <2>2, <2>3 DEF Paired
<1> QED BY <1>1, <1>2, <1>5, <1>6, Idle, HeldKept DEF IdsInv

LEMMA SummaryCommitIds ==
    ASSUME Inv, Inv', IdsInv, NEW p \in Tasks, SummaryCommit(p)
    PROVE  IdsInv'
<1>1. /\ Finish(p) /\ UNCHANGED <<turns, drawn, clock>> /\ p \notin Recorders
      /\ summed' = summed \cup {t.id : t \in task[p].rows}
  BY DEF SummaryCommit, Recorders, At
<1>2. \A c \in Convs : progress'[c].upto <= drawn
  <2>1. PICK last \in task[p].rows :
          progress' = IF progress[task[p].conv].owner = None THEN progress
                      ELSE [progress EXCEPT ![task[p].conv].upto = last.id]
    BY DEF SummaryCommit
  <2>2. last.id <= drawn
    BY DEF IdsInv, Numbers, Known
  <2>3. progress \in [Convs -> [owner : Users \cup {None}, upto : Nat]]
    BY DEF Inv, Tables
  <2> QED BY <2>1, <2>2, <2>3 DEF IdsInv, Numbers
<1> QED BY <1>1, <1>2, EndIds

LEMMA NextIds ==
    ASSUME Inv, Inv', IdsInv, [Next]_vars
    PROVE  IdsInv'
<1>1. CASE UNCHANGED vars
  <2>1. UNCHANGED <<turns, facts, progress, drawn, clock, task, summed>>
    BY <1>1 DEF vars, ledger, history
  <2>2. Known' = Known
    BY <2>1 DEF Known
  <2>3. Numbers' /\ Distinct' /\ Paired' /\ HeldRows'
    BY <2>1, <2>2 DEF IdsInv, Numbers, Distinct, Paired, HeldRows
  <2> QED BY <2>1, <2>3, FreshKept DEF IdsInv
<1>2. ASSUME (\E u \in Users : AddMemory(u)) \/ (\E f \in facts : DeleteMemory(f)) PROVE IdsInv'
  <2>1. /\ UNCHANGED <<turns, progress, drawn, task, summed>>
        /\ clock' = clock \/ clock' = clock + 1
    BY <1>2 DEF AddMemory, DeleteMemory, Call, history
  <2>2. /\ Known' = Known /\ Recorders' = Recorders
        /\ \A t \in Known : t.ts \in Nat
        /\ \A q \in Tasks : task[q].ts \in Nat
    BY <2>1, KnownTypes DEF Known, Recorders, Times
  <2>3. Numbers'
    <3>1. clock \in Nat
      BY KnownTypes
    <3> QED BY <2>1, <2>2, <3>1 DEF IdsInv, Numbers
  <2>4. Distinct' /\ Paired' /\ HeldRows'
    BY <2>1, <2>2 DEF IdsInv, Distinct, Paired, HeldRows
  <2>5. Fresh'
    BY <2>1, <2>2, FreshKept DEF IdsInv
  <2> QED BY <2>3, <2>4, <2>5 DEF IdsInv
<1>3. ASSUME NEW p \in Tasks, Abort(p) PROVE IdsInv'
  BY <1>3, EndIds DEF Abort, ledger, history, IdsInv, Numbers
<1> QED BY <1>1, <1>2, <1>3, RecordBeginIds, RecordTurnIds, RecordCommitIds, ReadIds, SummaryCommitIds,
           ForgetBeginIds, ForgetCommitIds DEF Next
-----------------------------------------------------------------------------
(***************************************************************************)
(* A calm conversation stays as CalmConv says                              *)
(***************************************************************************)

\* The step leaves what is stored of the conversation as it is ...
LeavesStored(c) ==
    /\ progress'[c] = progress[c]
    /\ \A t : t.conv = c => (t \in turns' <=> t \in turns)
    /\ \A t \in turns : t.conv = c => /\ t.id \in summed' <=> t.id \in summed
                                      /\ t.id \in twice' => t.id \in twice
    /\ \A f \in facts' : f \in facts \/ \A t \in f.src : t.conv # c

\* ... and a task as it is, away from the conversation, or where it should be.
LeavesTask(c, q) ==
    \/ task'[q] = task[q]
    \/ q \notin Persisting(c)' /\ q \notin Forgetting'
    \/ q \in Persisting(c) /\ q \notin Forgetting' /\ ReadStill(c, q)'
    \/ q \in Forgetting /\ q \notin Persisting(c)' /\ AllHeld(c, q)'

LEMMA CalmAside ==
    ASSUME NEW c, CalmConv(c), LeavesStored(c), \A q \in Tasks : LeavesTask(c, q)
    PROVE  CalmConv(c)'
<1>1. Persisting(c)' \subseteq Persisting(c) /\ Forgetting' \subseteq Forgetting
  BY DEF LeavesTask, Persisting, Forgetting
<1>2. OneTask(c)'
  BY <1>1 DEF CalmConv, OneTask
<1>3. TurnsCounted(c)'
  BY DEF CalmConv, TurnsCounted, LeavesStored
<1>4. FactsBacked(c)'
  BY DEF CalmConv, FactsBacked, LeavesStored
<1>5. ASSUME NEW q \in Persisting(c)' PROVE ReadStill(c, q)'
  <2>1. q \in Tasks /\ q \in Persisting(c) /\ ReadStill(c, q)
    BY <1>1 DEF Persisting, CalmConv
  <2>2. CASE task'[q] = task[q]
    <3>1. {t \in turns' : t.conv = c /\ progress'[c].upto < t.id}
            = {t \in turns : t.conv = c /\ progress[c].upto < t.id}
      BY DEF LeavesStored
    <3>2. q \in Recorders' <=> q \in Recorders
      BY <2>2 DEF Recorders
    <3> QED BY <2>1, <2>2, <3>1, <3>2 DEF ReadStill, LeavesStored
  <2>3. CASE task'[q] # task[q]
    <3>1. q \notin Forgetting \/ q \notin Persisting(c)
      BY DEF Forgetting, Persisting, ForgetLabels, PersistLabels
    <3> QED BY <2>1, <2>3, <3>1 DEF LeavesTask
  <2> QED BY <2>2, <2>3
<1>6. ASSUME NEW q \in Forgetting' PROVE AllHeld(c, q)'
  <2>1. q \in Tasks /\ q \in Forgetting /\ AllHeld(c, q)
    BY <1>1 DEF Forgetting, CalmConv
  <2>2. CASE task'[q] = task[q]
    BY <2>1, <2>2 DEF AllHeld, LeavesStored
  <2>3. CASE task'[q] # task[q]
    BY <2>1, <2>3 DEF LeavesTask
  <2> QED BY <2>2, <2>3
<1> QED BY <1>2, <1>3, <1>4, <1>5, <1>6 DEF CalmConv

\* A task that is over, and one that has nothing to do with the conversation.
LEMMA Gone ==
    ASSUME NEW c, NEW p \in Tasks, Only(p), c # None,
           \/ task'[p] = IdleTask
           \/ task'[p].at \in PersistLabels /\ task'[p].conv # c
    PROVE  \A q \in Tasks : LeavesTask(c, q)
BY Idle, Labels DEF Only, LeavesTask, Persisting, Forgetting

LEMMA CalmTypes ==
    ASSUME Inv
    PROVE  /\ calm \subseteq Convs /\ None \notin Convs /\ twice \subseteq summed
           /\ \A c \in Convs : progress[c].owner \in Users \cup {None} /\ progress[c].upto \in Nat
BY DEF Inv, Tables

LEMMA RecordBeginCalm ==
    ASSUME Inv, CalmInv, NEW p \in Tasks, NEW u \in Users, NEW d \in Convs, RecordBegin(p, u, d),
           NEW c \in calm'
    PROVE  CalmConv(c)'
<1>1. /\ task'[p].at = "user" /\ task'[p].conv = d /\ task'[p].rows = {} /\ task'[p].user = u
      /\ Only(p) /\ task[p].at = "idle" /\ UNCHANGED <<turns, facts, progress, summed, twice>>
      /\ calm' = IF Quiet(u, d) THEN calm ELSE calm \ {d}
  <2>1. /\ calm' = IF Quiet(u, d) THEN calm ELSE calm \ {d}
        /\ UNCHANGED <<turns, facts, progress, summed, twice>>
    BY DEF RecordBegin, ledger
  <2> QED BY <2>1, BeginDoes
<1>2. c \in calm /\ c \in Convs /\ CalmConv(c) /\ c # None
  BY <1>1, CalmTypes DEF CalmInv
<1>3. LeavesStored(c)
  BY <1>1 DEF LeavesStored
<1>4. CASE c # d
  BY <1>1, <1>2, <1>3, <1>4, Gone, Labels, CalmAside
<1>5. CASE c = d
  <2>1. Persisting(c) = {} /\ Forgetting = {} /\ progress[c].owner \in {None, u}
    BY <1>1, <1>5 DEF Quiet
  <2>2. \A q \in Persisting(c)' : q = p
    BY <1>1, <2>1 DEF Persisting, Only
  <2>3. Forgetting' = {}
    BY <1>1, <2>1, Labels DEF Forgetting, Only
  <2>4. ReadStill(c, p)'
    BY <1>1, <2>1 DEF ReadStill
  <2>5. TurnsCounted(c)' /\ FactsBacked(c)'
    BY <1>1, <1>2 DEF CalmConv, TurnsCounted, FactsBacked
  <2>6. OneTask(c)'
    BY <2>2, <2>3 DEF OneTask
  <2> QED BY <2>2, <2>3, <2>4, <2>5, <2>6 DEF CalmConv
<1> QED BY <1>4, <1>5

LEMMA RecordTurnCalm ==
    ASSUME Inv, IdsInv, NEW p \in Tasks, NEW c \in Convs, CalmConv(c),
           RecordTurn(p, "user", "assistant") \/ RecordTurn(p, "assistant", "commit")
    PROVE  CalmConv(c)'
<1>1. PICK role \in Roles, next \in {"assistant", "commit"} : RecordTurn(p, role, next)
  BY DEF Roles
<1>2. /\ task'[p].at = next /\ task'[p].rows = task[p].rows \cup {NewTurn(task[p], role)}
      /\ Same(p) /\ task[p].at = role
      /\ UNCHANGED <<turns, facts, progress, summed, twice>>
  BY <1>1, TurnDoes DEF RecordTurn, ledger, history
<1>3. LeavesStored(c)
  BY <1>2 DEF LeavesStored
<1>4. CASE task[p].conv # c
  BY <1>2, <1>3, <1>4, Gone, Labels, CalmAside, CalmTypes DEF Same
<1>5. CASE task[p].conv = c
  <2>1. p \in Persisting(c) /\ p \in Recorders /\ ReadStill(c, p)
    BY <1>2, <1>5, Labels DEF Persisting, Recorders, Roles, CalmConv
  <2>2. progress[c].upto < NewTurn(task[p], role).id
    <3>1. progress[c].upto <= drawn /\ progress[c].upto \in Nat /\ drawn \in Nat
      BY CalmTypes, KnownTypes DEF IdsInv, Numbers
    <3> QED BY <3>1 DEF NewTurn
  <2>3. ReadStill(c, p)'
    BY <1>2, <2>1, <2>2 DEF ReadStill, Same
  <2>4. \A q \in Tasks : LeavesTask(c, q)
    BY <1>2, <2>1, <2>3, Labels DEF LeavesTask, Same, Only, Forgetting
  <2> QED BY <1>3, <2>4, CalmAside
<1> QED BY <1>4, <1>5

\* The question and the answer get numbers beyond those summarised.
LEMMA RecordCommitCalm ==
    ASSUME Inv, IdsInv, NEW p \in Tasks, NEW c \in Convs, CalmConv(c), RecordCommit(p)
    PROVE  CalmConv(c)'
<1> DEFINE d == task[p].conv
<1>1. /\ task'[p].at = "state" /\ task'[p].rows = {} /\ Same(p) /\ task[p].at = "commit"
      /\ turns' = turns \cup task[p].rows /\ UNCHANGED <<facts, summed, twice>>
  BY CommitDoes DEF RecordCommit, history
<1>2. p \in Recorders /\ FreshRows(p)
  BY <1>1 DEF IdsInv, Fresh, Recorders
<1>3. GoodTask(task[p]) /\ d \in Convs /\ task[p].user \in Users
  BY <1>1, Labels DEF Inv, GoodTasks, GoodTask
<1>4. \A e \in Convs : /\ progress'[e].upto = progress[e].upto
                       /\ e # d => progress'[e] = progress[e]
                       /\ e = d => progress'[e].owner = IF progress[e].owner = None THEN task[p].user
                                                                                  ELSE progress[e].owner
  <2>1. progress \in [Convs -> [owner : Users \cup {None}, upto : Nat]]
    BY DEF Inv, Tables
  <2>2. progress' = [progress EXCEPT ![d].owner = IF @ = None THEN task[p].user ELSE @]
    BY DEF RecordCommit
  <2> QED BY <1>3, <2>1, <2>2
<1>5. CASE d # c
  <2>1. \A t \in task[p].rows : t.conv # c
    BY <1>2, <1>5 DEF FreshRows, Written
  <2>2. LeavesStored(c)
    BY <1>1, <1>4, <1>5, <2>1 DEF LeavesStored
  <2> QED BY <1>1, <1>5, <2>2, Gone, Labels, CalmAside, CalmTypes DEF Same
<1>6. CASE d = c
  <2>1. p \in Persisting(c) /\ ReadStill(c, p) /\ OneTask(c)
    BY <1>1, <1>6, Labels DEF Persisting, CalmConv
  <2>2. Forgetting = {} /\ \A q \in Persisting(c) : q = p
    BY <2>1 DEF OneTask
  <2>3. Forgetting' = {}
    BY <1>1, <2>2, Labels DEF Forgetting, Same, Only
  <2>4. \A q \in Persisting(c)' : q = p
    BY <2>2, <1>1 DEF Persisting, Same, Only
  <2>5. progress'[c].owner = task[p].user /\ progress[c].owner \in {None, task[p].user}
    BY <1>4, <1>6, <2>1 DEF ReadStill
  <2>6. ReadStill(c, p)'
    BY <1>1, <2>5 DEF ReadStill, Same, Recorders
  <2>7. ASSUME NEW t \in turns', t.conv = c
        PROVE  /\ t.user = progress'[c].owner
               /\ t.id <= progress'[c].upto <=> t.id \in summed'
               /\ t.id \notin twice'
    <3>1. CASE t \in turns
      <4>1. t.user = progress[c].owner /\ t.user \in Users
        BY <2>7, <3>1, KnownTypes DEF CalmConv, TurnsCounted, Known
      <4> QED BY <1>1, <1>4, <2>5, <2>7, <3>1, <4>1, MemoryAssumption DEF CalmConv, TurnsCounted
    <3>2. CASE t \in task[p].rows
      <4>1. t.user = task[p].user /\ t.id \notin summed
        BY <1>2, <3>2 DEF FreshRows, Written, Alone
      <4>2. progress[c].upto < t.id /\ progress[c].upto \in Nat /\ t.id \in Nat
        BY <1>2, <2>1, <3>2, KnownTypes, CalmTypes DEF ReadStill, Known
      <4> QED BY <1>1, <1>4, <2>5, <4>1, <4>2, CalmTypes
    <3> QED BY <1>1, <3>1, <3>2
  <2>8. TurnsCounted(c)' /\ FactsBacked(c)' /\ OneTask(c)'
    BY <1>1, <2>3, <2>4, <2>7 DEF CalmConv, TurnsCounted, FactsBacked, OneTask
  <2> QED BY <2>3, <2>4, <2>6, <2>8 DEF CalmConv
<1> QED BY <1>5, <1>6

LEMMA ReadCalm ==
    ASSUME Inv, IdsInv, NEW p \in Tasks, NEW c \in Convs, CalmConv(c), ReadState(p) \/ ReadPending(p)
    PROVE  CalmConv(c)'
<1>1. /\ UNCHANGED <<turns, facts, progress, summed, twice>> /\ task[p].at \in {"state", "pending"}
      /\ Only(p) /\ (Same(p) \/ task'[p] = IdleTask)
  BY StateDoes, PendingDoes DEF ReadState, ReadPending, ledger, history, Same
<1>2. LeavesStored(c) /\ c # None
  BY <1>1, CalmTypes DEF LeavesStored
<1>3. ASSUME Same(p), task'[p].at \in {"pending", "llm"}, task[p].conv = c => ReadStill(c, p)'
      PROVE  CalmConv(c)'
  <2>1. CASE task[p].conv # c
    BY <1>1, <1>2, <1>3, <2>1, Gone, Labels, CalmAside DEF Same
  <2>2. CASE task[p].conv = c
    <3>1. \A q \in Tasks : LeavesTask(c, q)
      BY <1>1, <1>3, <2>2, Labels DEF LeavesTask, Only, Persisting, Forgetting
    <3> QED BY <1>2, <3>1, CalmAside
  <2> QED BY <2>1, <2>2
<1>4. CASE task'[p] = IdleTask
  BY <1>1, <1>2, <1>4, Gone, CalmAside
<1>5. ASSUME task[p].conv = c
      PROVE  ReadStill(c, p) /\ progress[c].owner = task[p].user /\ p \notin Recorders
  <2>1. p \in Persisting(c)
    BY <1>1, <1>5, Labels DEF Persisting
  <2> QED BY <1>1, <2>1 DEF CalmConv, ReadStill, Recorders
<1>6. CASE ReadState(p) /\ task'[p] # IdleTask
  <2>1. task'[p].at = "pending" /\ Same(p) /\ task'[p].upto = progress[task[p].conv].upto
    BY <1>6, StateDoes
  <2>2. task[p].conv = c => ReadStill(c, p)'
    BY <1>1, <1>5, <2>1 DEF ReadStill, Same, Recorders
  <2> QED BY <1>3, <2>1, <2>2
<1>7. CASE ReadPending(p) /\ task'[p] # IdleTask
  <2>1. /\ task[p].at = "pending" /\ task'[p].at = "llm" /\ Same(p)
        /\ task'[p].rows = Pending(task[p].user, task[p].conv, task[p].upto)
    BY <1>7, PendingDoes
  <2>2. ASSUME task[p].conv = c PROVE ReadStill(c, p)'
    <3>1. task[p].upto = progress[c].upto /\ progress[c].owner = task[p].user /\ progress[c].upto \in Nat
      BY <1>5, <2>1, <2>2, CalmTypes DEF ReadStill
    <3>2. \A t \in turns : t.conv = c => t.user = task[p].user /\ t.id \in Nat
      BY <3>1, KnownTypes DEF CalmConv, TurnsCounted, Known
    <3>3. task'[p].rows = {t \in turns : t.conv = c /\ progress[c].upto < t.id}
      BY <2>1, <2>2, <3>1, <3>2 DEF Pending, After
    <3> QED BY <1>1, <2>1, <3>1, <3>3 DEF ReadStill, Same, Recorders
  <2> QED BY <1>3, <2>1, <2>2
<1> QED BY <1>4, <1>6, <1>7
\* What is summarised is all that is pending, and summarized_upto moves to the last of it.
LEMMA SummaryCommitCalm ==
    ASSUME Inv, IdsInv, NEW p \in Tasks, NEW c \in Convs, CalmConv(c), SummaryCommit(p)
    PROVE  CalmConv(c)'
<1> DEFINE d == task[p].conv
           R == task[p].rows
<1>1. /\ task'[p] = IdleTask /\ Only(p) /\ task[p].at = "llm" /\ turns' = turns
      /\ summed' = summed \cup {t.id : t \in R}
      /\ twice' = twice \cup {t.id : t \in {s \in R : s.id \in summed}}
  BY EndDoes DEF SummaryCommit, At
<1>2. PICK last \in R : /\ IsLast(R, last)
                        /\ progress' = IF progress[d].owner = None THEN progress
                                       ELSE [progress EXCEPT ![d].upto = last.id]
  BY DEF SummaryCommit
<1>3. \A f \in facts' : f \in facts \/ f.src = R
  <2>1. PICK fs \in {{}, {[user |-> task[p].user, src |-> R]}} : facts' = facts \cup fs
    BY DEF SummaryCommit
  <2> QED BY <2>1
<1>4. \A t \in R : t.conv = d /\ t \in Known
  BY <1>1 DEF IdsInv, HeldRows, Known
<1>5. \A s, t \in Known : s.id = t.id => s = t
  BY DEF IdsInv, Distinct, Apart
<1>6. c # None /\ \A t \in turns : t \in Known
  BY CalmTypes DEF Known
<1>7. CASE d # c
  <2>1. LeavesStored(c)
    <3>1. progress'[c] = progress[c]
      BY <1>2, <1>7 DEF Inv, Tables
    <3>2. ASSUME NEW t \in turns, t.conv = c PROVE \A s \in R : s.id # t.id
      BY <1>4, <1>5, <1>6, <1>7, <3>2
    <3>3. \A t \in turns : t.conv = c => /\ t.id \in summed' <=> t.id \in summed
                                         /\ t.id \in twice' => t.id \in twice
      BY <1>1, <3>2
    <3>4. \A f \in facts' : f \in facts \/ \A t \in f.src : t.conv # c
      BY <1>3, <1>4, <1>7
    <3> QED BY <1>1, <3>1, <3>3, <3>4 DEF LeavesStored
  <2> QED BY <1>1, <1>6, <2>1, Gone, CalmAside
<1>8. CASE d = c
  <2>1. p \in Persisting(c) /\ ReadStill(c, p) /\ OneTask(c)
    BY <1>1, <1>8, Labels DEF Persisting, CalmConv
  <2>2. Persisting(c)' = {} /\ Forgetting' = {}
    BY <1>1, <2>1, Idle, Labels DEF OneTask, Persisting, Forgetting, Only
  <2>3. progress[c].owner = task[p].user /\ progress[c].owner # None
    <3>1. task[p].user \in Users
      BY <1>1 DEF Inv, GoodTasks, GoodTask
    <3> QED BY <1>1, <2>1, <3>1, MemoryAssumption DEF ReadStill
  <2>4. R = {t \in turns : t.conv = c /\ progress[c].upto < t.id}
    BY <1>1, <2>1 DEF ReadStill
  <2>5. progress'[c].upto = last.id /\ progress'[c].owner = progress[c].owner
    <3>1. progress \in [Convs -> [owner : Users \cup {None}, upto : Nat]]
      BY DEF Inv, Tables
    <3> QED BY <1>2, <1>8, <2>3, <3>1
  <2>6. last.id \in Nat /\ progress[c].upto \in Nat /\ progress[c].upto < last.id
    BY <1>4, <2>4, KnownTypes, CalmTypes
  <2>7. ASSUME NEW t \in turns, t.conv = c
        PROVE  t.id <= last.id /\ t.id \in summed' /\ t.id \notin twice'
    <3>1. t.id \in Nat /\ (t.id <= progress[c].upto <=> t.id \in summed) /\ t.id \notin twice
      BY <1>6, <2>7, KnownTypes DEF CalmConv, TurnsCounted
    <3>2. CASE t.id <= progress[c].upto
      <4>1. \A s \in R : s.id # t.id
        BY <2>4, <2>6, <3>1, <3>2, KnownTypes, <1>4
      <4> QED BY <1>1, <2>6, <3>1, <3>2, <4>1
    <3>3. CASE ~(t.id <= progress[c].upto)
      <4>1. t \in R
        BY <2>4, <2>6, <2>7, <3>1, <3>3
      <4>2. t.id \in summed' /\ t.id <= last.id /\ t.id \notin summed
        BY <1>1, <1>2, <3>1, <3>3, <4>1 DEF IsLast
      <4> QED BY <1>1, <3>1, <4>2
    <3> QED BY <3>2, <3>3
  <2>8. TurnsCounted(c)'
    BY <1>1, <2>5, <2>7 DEF CalmConv, TurnsCounted
  <2>9. FactsBacked(c)'
    BY <1>1, <1>3, <2>4 DEF CalmConv, FactsBacked
  <2> QED BY <2>2, <2>8, <2>9 DEF CalmConv, OneTask
<1> QED BY <1>7, <1>8

LEMMA ForgetReadsCalm ==
    ASSUME Inv, NEW p \in Tasks, NEW c \in Convs, CalmConv(c), ForgetFacts(p) \/ ForgetTurns(p)
    PROVE  CalmConv(c)'
<1>1. /\ UNCHANGED <<turns, facts, progress, summed, twice>> /\ Only(p)
      /\ task[p].at \in {"facts", "turns"} /\ task'[p].at \in {"turns", "states"}
      /\ task'[p].user = task[p].user
  BY ForgetReads DEF ForgetFacts, ForgetTurns, ledger, history, Same
<1>2. p \in Forgetting /\ p \notin Persisting(c)' /\ AllHeld(c, p)
  BY <1>1, Labels DEF Forgetting, Persisting, CalmConv
<1>3. AllHeld(c, p)'
  <2>1. CASE ForgetFacts(p)
    BY <1>1, <2>1, ForgetReads DEF AllHeld, FactsOf
  <2>2. CASE ForgetTurns(p)
    BY <1>1, <1>2, <2>2, ForgetReads DEF AllHeld, TurnsOf
  <2> QED BY <2>1, <2>2
<1>4. \A q \in Tasks : LeavesTask(c, q)
  BY <1>1, <1>2, <1>3 DEF LeavesTask, Only
<1>5. LeavesStored(c)
  BY <1>1 DEF LeavesStored
<1> QED BY <1>4, <1>5, CalmAside

LEMMA ForgetBeginCalm ==
    ASSUME Inv, CalmInv, NEW p \in Tasks, NEW u \in Users, ForgetBegin(p, u), NEW c \in calm'
    PROVE  CalmConv(c)'
<1>1. /\ task'[p].at = "facts" /\ Only(p) /\ UNCHANGED <<turns, facts, progress, summed, twice>>
      /\ c \in calm /\ Persisting(c) = {} /\ CalmConv(c)
  <2>1. calm' = {e \in calm : Persisting(e) = {}} /\ UNCHANGED <<turns, facts, progress, summed, twice>>
    BY DEF ForgetBegin, ledger
  <2> QED BY <2>1, ForgetBeginDoes DEF CalmInv
<1>2. Persisting(c)' = {}
  BY <1>1, Labels DEF Persisting, Only
<1>3. TurnsCounted(c)' /\ FactsBacked(c)' /\ OneTask(c)'
  BY <1>1, <1>2 DEF CalmConv, TurnsCounted, FactsBacked, OneTask
<1>4. ASSUME NEW q \in Forgetting' PROVE AllHeld(c, q)'
  <2>1. CASE q = p
    BY <1>1, <2>1 DEF AllHeld
  <2>2. CASE q # p
    BY <1>1, <2>2 DEF CalmConv, AllHeld, Forgetting, Only
  <2> QED BY <2>1, <2>2
<1> QED BY <1>2, <1>3, <1>4 DEF CalmConv

\* Either nothing of the conversation belongs to the user, or all of it goes.
LEMMA ForgetCommitCalm ==
    ASSUME Inv, IdsInv, NEW p \in Tasks, NEW c \in Convs, CalmConv(c), ForgetCommit(p)
    PROVE  CalmConv(c)'
<1> DEFINE u == task[p].user
<1>1. /\ task'[p] = IdleTask /\ Only(p) /\ task[p].at = "states"
      /\ facts' = facts \ task[p].old /\ turns' = turns \ task[p].rows
      /\ UNCHANGED <<summed, twice>>
  BY EndDoes DEF ForgetCommit, At, history
<1>2. progress'[c] = IF progress[c].owner = u THEN NoState ELSE progress[c]
  BY DEF ForgetCommit
<1>3. p \in Forgetting /\ Persisting(c) = {} /\ AllHeld(c, p)
  BY <1>1, Labels DEF Forgetting, CalmConv, OneTask
<1>4. Persisting(c)' = {} /\ Forgetting' \subseteq Forgetting \ {p}
  BY <1>1, <1>3, Idle, Labels DEF Persisting, Forgetting, Only
<1>5. \A t \in turns : t.conv = c => (t \in task[p].rows <=> t.user = u)
  BY <1>1, <1>3 DEF AllHeld, IdsInv, HeldRows
<1>6. TurnsCounted(c)'
  <2>1. ASSUME NEW t \in turns', t.conv = c PROVE t \in turns /\ progress'[c] = progress[c]
    BY <1>1, <1>2, <1>5, <2>1 DEF CalmConv, TurnsCounted
  <2> QED BY <1>1, <2>1 DEF CalmConv, TurnsCounted
<1>7. FactsBacked(c)'
  <2>1. ASSUME NEW f \in facts', NEW t \in f.src, t.conv = c PROVE t \in turns'
    <3>1. f \in facts /\ f \notin task[p].old /\ t \in turns /\ t.user = f.user
      BY <1>1, <2>1 DEF CalmConv, FactsBacked, Inv, NoCrossUser
    <3>2. f.user # u
      BY <1>1, <1>3, <2>1, <3>1 DEF AllHeld
    <3> QED BY <1>1, <1>5, <2>1, <3>1, <3>2
  <2> QED BY <2>1 DEF FactsBacked
<1>8. ASSUME NEW q \in Forgetting' PROVE AllHeld(c, q)'
  BY <1>1, <1>4 DEF CalmConv, AllHeld, Forgetting, Only
<1> QED BY <1>4, <1>6, <1>7, <1>8 DEF CalmConv, OneTask

LEMMA NextCalm ==
    ASSUME Inv, IdsInv, CalmInv, [Next]_vars
    PROVE  CalmInv'
<1> SUFFICES ASSUME NEW c \in calm' PROVE CalmConv(c)'
  BY DEF CalmInv
<1>1. CASE c \in calm /\ UNCHANGED <<turns, progress, task, summed, twice>>
           /\ \A f \in facts' : f \in facts \/ f.src = {}
  <2>1. CalmConv(c) /\ LeavesStored(c)
    BY <1>1 DEF CalmInv, LeavesStored
  <2>2. \A q \in Tasks : LeavesTask(c, q)
    BY <1>1 DEF LeavesTask
  <2> QED BY <2>1, <2>2, CalmAside
<1>2. CASE UNCHANGED vars
  BY <1>1, <1>2 DEF vars, ledger, history
<1>3. ASSUME (\E u \in Users : AddMemory(u)) \/ (\E f \in facts : DeleteMemory(f))
      PROVE  CalmConv(c)'
  BY <1>1, <1>3 DEF AddMemory, DeleteMemory, history
<1>4. ASSUME NEW p \in Tasks, \E u \in Users, d \in Convs : RecordBegin(p, u, d) PROVE CalmConv(c)'
  BY <1>4, RecordBeginCalm
<1>5. ASSUME NEW p \in Tasks, \E u \in Users : ForgetBegin(p, u) PROVE CalmConv(c)'
  BY <1>5, ForgetBeginCalm
<1>6. ASSUME calm' = calm PROVE c \in Convs /\ c # None /\ CalmConv(c)
  BY <1>6, CalmTypes DEF CalmInv
<1>7. ASSUME NEW p \in Tasks,
             RecordTurn(p, "user", "assistant") \/ RecordTurn(p, "assistant", "commit")
      PROVE  CalmConv(c)'
  <2>1. calm' = calm
    BY <1>7 DEF RecordTurn, history
  <2> QED BY <1>6, <1>7, <2>1, RecordTurnCalm
<1>8. ASSUME NEW p \in Tasks, RecordCommit(p) \/ ReadState(p) \/ ReadPending(p) PROVE CalmConv(c)'
  <2>1. calm' = calm
    BY <1>8 DEF RecordCommit, ReadState, ReadPending, history
  <2> QED BY <1>6, <1>8, <2>1, RecordCommitCalm, ReadCalm
<1>9. ASSUME NEW p \in Tasks, SummaryCommit(p) PROVE CalmConv(c)'
  <2>1. calm' = calm
    BY <1>9 DEF SummaryCommit
  <2> QED BY <1>6, <1>9, <2>1, SummaryCommitCalm
<1>10. ASSUME NEW p \in Tasks, ForgetFacts(p) \/ ForgetTurns(p) \/ ForgetCommit(p) PROVE CalmConv(c)'
  <2>1. calm' = calm
    BY <1>10 DEF ForgetFacts, ForgetTurns, ForgetCommit, history
  <2> QED BY <1>6, <1>10, <2>1, ForgetReadsCalm, ForgetCommitCalm
<1>11. ASSUME NEW p \in Tasks, Abort(p) PROVE CalmConv(c)'
  <2>1. /\ UNCHANGED <<turns, facts, progress, summed, twice, calm>>
        /\ task'[p] = IdleTask /\ Only(p)
    BY <1>11, EndDoes DEF Abort, ledger, history
  <2>2. LeavesStored(c)
    BY <2>1 DEF LeavesStored
  <2> QED BY <1>6, <2>1, <2>2, Gone, CalmAside
<1> QED BY <1>2, <1>3, <1>4, <1>5, <1>7, <1>8, <1>9, <1>10, <1>11 DEF Next
-----------------------------------------------------------------------------
(***************************************************************************)
(* The order of load_context                                               *)
(***************************************************************************)
Earlier(t)  == {s \in turns : s.user = t.user /\ s.conv = t.conv /\ s.ts < t.ts}
Said(t, r)  == {s \in Earlier(t) : s.role = r}

\* There are as many questions as answers before a turn: each has its answer at its time.
LEMMA AnswersMatch ==
    ASSUME Inv, IdsInv, NEW t \in turns
    PROVE  /\ IsFiniteSet(Said(t, "user")) /\ IsFiniteSet(Said(t, "assistant"))
           /\ Cardinality(Said(t, "assistant")) = Cardinality(Said(t, "user"))
<1> DEFINE Q == Said(t, "user")
           A == Said(t, "assistant")
           partner == [q \in Q |-> CHOOSE a \in A : a.ts = q.ts]
<1>1. \A s \in turns : \E o \in turns : o.ts = s.ts /\ o.role # s.role
  BY DEF IdsInv, Paired
<1>2. \A r, s \in turns : r.ts = s.ts => /\ r.user = s.user /\ r.conv = s.conv
                                         /\ r.role = s.role => r = s
  BY DEF IdsInv, Distinct, Apart, Known
<1>3. \A s \in turns : s.role \in {"user", "assistant"}
  BY KnownTypes DEF Known, Roles
<1>4. \A q \in Q : \E a \in A : a.ts = q.ts
  BY <1>1, <1>2, <1>3 DEF Said, Earlier
<1>5. \A a \in A : \E q \in Q : q.ts = a.ts
  BY <1>1, <1>2, <1>3 DEF Said, Earlier
<1>6. \A q \in Q : partner[q] \in A /\ partner[q].ts = q.ts
  BY <1>4
<1>7. Q \subseteq turns /\ A \subseteq turns /\ (\A q \in Q : q.role = "user") /\ (\A a \in A : a.role = "assistant")
  BY DEF Said, Earlier
<1>8. partner \in [Q -> A]
  BY <1>6
<1> HIDE DEF partner, Q, A
<1>9. \A q, r \in Q : partner[q] = partner[r] => q = r
  BY <1>2, <1>6, <1>7
<1>10. \A a \in A : \E q \in Q : partner[q] = a
  <2> TAKE a \in A
  <2>1. PICK q \in Q : q.ts = a.ts
    BY <1>5
  <2> QED BY <1>2, <1>6, <1>7, <2>1
<1>11. partner \in Bijection(Q, A)
  BY <1>8, <1>9, <1>10, Fun_IsBij
<1>12. IsFiniteSet(Q)
  BY <1>7, FS_Subset DEF IdsInv, Paired
<1>13. IsFiniteSet(A) /\ Cardinality(A) = Cardinality(Q)
  BY <1>11, <1>12, FS_Bijection DEF ExistsBijection
<1> QED BY <1>12, <1>13 DEF Q, A

LEMMA EarlierIsEven ==
    ASSUME Inv, IdsInv, NEW t \in turns
    PROVE  IsFiniteSet(Earlier(t)) /\ \E n \in Nat : Cardinality(Earlier(t)) = n + n
<1> DEFINE Q == Said(t, "user")
           A == Said(t, "assistant")
<1>1. IsFiniteSet(Q) /\ IsFiniteSet(A) /\ Cardinality(A) = Cardinality(Q)
  BY AnswersMatch
<1>2. Earlier(t) = Q \cup A /\ Q \cap A = {}
  BY KnownTypes DEF Said, Earlier, Known, Roles
<1>3. Cardinality(Q) \in Nat
  BY <1>1, FS_CardinalityType
<1>4. Cardinality(Q \cap A) = 0
  BY <1>2, FS_EmptySet
<1> HIDE DEF Q, A
<1>5. IsFiniteSet(Q \cup A) /\ Cardinality(Q \cup A) = Cardinality(Q) + Cardinality(A) - Cardinality(Q \cap A)
  BY <1>1, FS_Union
<1>6. Cardinality(Q \cup A) = Cardinality(Q) + Cardinality(Q)
  BY <1>1, <1>3, <1>4, <1>5
<1> QED BY <1>2, <1>3, <1>5, <1>6

LEMMA Alternate == Inv /\ IdsInv => PairsTogether
<1> SUFFICES ASSUME Inv, IdsInv, NEW t \in turns PROVE t.role = "user" <=> Position(t) % 2 = 0
  BY DEF PairsTogether
<1> DEFINE B == {s \in turns : s.user = t.user /\ s.conv = t.conv /\ TimeOrder(s, t)}
<1>1. PICK n \in Nat : IsFiniteSet(Earlier(t)) /\ Cardinality(Earlier(t)) = n + n
  BY EarlierIsEven
<1>2. \A s \in turns : s \in Known /\ s.id \in Nat /\ s.ts \in Nat /\ s.role \in {"user", "assistant"}
  BY KnownTypes DEF Known, Times, Roles
<1>3. \A r, s \in turns : r.ts = s.ts => /\ r.user = s.user /\ r.conv = s.conv
                                         /\ r.role = s.role => r = s
                                         /\ r.role = "user" /\ s.role = "assistant" => r.id < s.id
  BY DEF IdsInv, Distinct, Apart, Known
<1>4. CASE t.role = "user"
  <2>1. \A s \in turns : s.ts = t.ts => ~(s.id < t.id)
    BY <1>2, <1>3, <1>4
  <2>2. B = Earlier(t)
    BY <2>1 DEF Earlier, TimeOrder
  <2>3. (n + n) % 2 = 0
    OBVIOUS
  <2> QED BY <1>1, <1>4, <2>2, <2>3 DEF Position
<1>5. CASE t.role = "assistant"
  <2>1. PICK q \in turns : q.ts = t.ts /\ q.role = "user" /\ q.id < t.id /\ q.user = t.user /\ q.conv = t.conv
    BY <1>2, <1>3, <1>5 DEF IdsInv, Paired
  <2>2. \A s \in turns : s.ts = t.ts /\ s.id < t.id => s = q
    BY <1>2, <1>3, <1>5, <2>1
  <2>3. B = Earlier(t) \cup {q} /\ q \notin Earlier(t)
    BY <1>2, <2>1, <2>2 DEF Earlier, TimeOrder
  <2>4. Cardinality(B) = n + n + 1
    <3> HIDE DEF B
    <3> QED BY <1>1, <2>3, FS_AddElement
  <2>5. (n + n + 1) % 2 = 1
    OBVIOUS
  <2> QED BY <1>5, <2>4, <2>5 DEF Position
<1> QED BY <1>2, <1>4, <1>5
-----------------------------------------------------------------------------
(***************************************************************************)
(* Theorems                                                                *)
(***************************************************************************)
LEMMA InitMore == Init => IdsInv /\ CalmInv
<1> SUFFICES ASSUME Init PROVE IdsInv /\ CalmInv
  OBVIOUS
<1>1. /\ turns = {} /\ facts = {} /\ drawn = 0 /\ clock = 0 /\ summed = {} /\ twice = {}
      /\ \A c \in Convs : progress[c] = NoState
      /\ \A p \in Tasks : task[p] = IdleTask
      /\ calm = Convs
  BY DEF Init
<1>2. Recorders = {} /\ Known = {}
  BY <1>1, Idle DEF Recorders, Known
<1>3. Numbers
  BY <1>1, <1>2, Idle DEF Numbers, NoState
<1>4. Distinct /\ Fresh
  BY <1>2 DEF Distinct, Fresh
<1>5. Paired /\ HeldRows
  BY <1>1, Idle, FS_EmptySet DEF Paired, HeldRows
<1>6. ASSUME NEW c \in calm PROVE CalmConv(c)
  <2>1. Persisting(c) = {} /\ Forgetting = {}
    BY <1>1, Idle, Labels DEF Persisting, Forgetting
  <2> QED BY <1>1, <2>1 DEF CalmConv, OneTask, TurnsCounted, FactsBacked
<1> QED BY <1>3, <1>4, <1>5, <1>6 DEF IdsInv, CalmInv

\* The three parts of the invariant hold in every reachable state.
THEOREM FullInvariance == Spec => [](Inv /\ IdsInv /\ CalmInv)
<1>1. Init => Inv /\ IdsInv /\ CalmInv
  BY InitInv, InitMore
<1>2. Inv /\ IdsInv /\ CalmInv /\ [Next]_vars => (Inv /\ IdsInv /\ CalmInv)'
  BY NextInv, NextIds, NextCalm
<1> QED BY <1>1, <1>2, PTL DEF Spec

\* load_context puts questions and answers into the prompt in turn: the rows of a
\* transaction share created_at and the question has the smaller id, whatever ids the
\* transactions of other tasks draw in between, and the DELETE of the turns of
\* delete_user_memory takes both rows or none.
THEOREM TurnsPaired == Spec => []PairsTogether
BY Alternate, FullInvariance, PTL

\* No turn of a calm conversation is passed over by summarized_upto: a failed LLM call,
\* a failed statement or a restart between the steps of maybe_summarize loses none.
THEOREM NothingSkipped == Spec => []CalmNotSkipped
<1>1. Inv /\ CalmInv => CalmNotSkipped
  BY DEF Inv, Tables, CalmInv, CalmConv, TurnsCounted, CalmNotSkipped, Passed
<1> QED BY <1>1, FullInvariance, PTL

\* No turn of a calm conversation goes into two summaries: the LLM call and the
\* transaction that moves summarized_upto see the same rows.
THEOREM PromotedAtMostOnce == Spec => []CalmPromotedOnce
<1>1. CalmInv => CalmPromotedOnce
  BY DEF CalmInv, CalmConv, TurnsCounted, CalmPromotedOnce
<1> QED BY <1>1, FullInvariance, PTL

\* delete_user_memory leaves no fact about a calm conversation whose turns are gone: although
\* its three statements see the rows of three moments and the tasks of others come between.
THEOREM NothingLeftBehind == Spec => []CalmForgotten
<1>1. CalmInv => CalmForgotten
  BY DEF CalmInv, CalmConv, FactsBacked, CalmForgotten
<1> QED BY <1>1, FullInvariance, PTL
=============================================================================

---------------------------- MODULE MemoryLedger ----------------------------
(***************************************************************************)
(* The long-term memory of the agent (src/shared/memory_store.py): after   *)
(* an answer a background task stores the question and the answer in the   *)
(* ledger and, when enough turns are pending, lets the LLM summarise them  *)
(* into facts about the user (_bg_persist of src/agent_server/main.py).    *)
(* A user may add and delete facts, and have everything forgotten.         *)
(*                                                                         *)
(* The tasks of all requests are interleaved at each await.  What a        *)
(* transaction writes becomes visible at its commit, but the ids it draws  *)
(* from the sequence are gone at once.                                     *)
(***************************************************************************)
EXTENDS Naturals, FiniteSets

CONSTANTS
    Users,
    Convs,      \* conversation ids, chosen by the callers
    Tasks,      \* background tasks and DELETE requests running at the same time
    MaxTx,      \* bound on the calls: answers stored, facts added, DELETE requests
    Every,      \* memory_summarize_every
    None        \* NULL

ASSUME MemoryAssumption ==
    /\ MaxTx \in Nat /\ Every \in Nat
    /\ None \notin Users /\ None \notin Convs

VARIABLES
    turns,      \* memory_turns, the committed rows
    facts,      \* user_memory
    progress,   \* conversation_state
    drawn,      \* ids drawn from memory_turns_id_seq
    clock,      \* calls begun, for created_at = now()
    task,       \* the local variables of each task
    summed,     \* history variable: ids of the turns that went into a committed summary
    twice,      \* history variable: ids of those that went into more than one
    calm        \* history variable: conversations with one user and never two tasks at once

ledger  == <<turns, facts, progress>>
history == <<summed, twice, calm>>
vars    == <<ledger, drawn, clock, task, history>>
-----------------------------------------------------------------------------
Times == 1..MaxTx
Roles == {"user", "assistant"}

Turn == [id : Nat, user : Users, conv : Convs, role : Roles, ts : Times]
Fact == [user : Users, src : SUBSET Turn]       \* src: the turns it was distilled from

PersistLabels == {"user", "assistant", "commit", "state", "pending", "llm"}
ForgetLabels  == {"facts", "turns", "states"}
Task == [at : {"idle"} \cup PersistLabels \cup ForgetLabels,
         user : Users \cup {None}, conv : Convs \cup {None}, ts : 0..MaxTx,
         upto : Nat, rows : SUBSET Turn, old : SUBSET Fact]

IdleTask == [at |-> "idle", user |-> None, conv |-> None, ts |-> 0, upto |-> 0,
             rows |-> {}, old |-> {}]
NoState  == [owner |-> None, upto |-> 0]

TypeOK ==
    /\ turns \subseteq Turn /\ facts \subseteq Fact
    /\ progress \in [Convs -> [owner : Users \cup {None}, upto : Nat]]
    /\ drawn \in Nat /\ clock \in 0..MaxTx
    /\ task \in [Tasks -> Task]
    /\ summed \subseteq Nat /\ twice \subseteq summed /\ calm \subseteq Convs

Init ==
    /\ turns = {} /\ facts = {}
    /\ progress = [c \in Convs |-> NoState]
    /\ drawn = 0 /\ clock = 0
    /\ task = [p \in Tasks |-> IdleTask]
    /\ summed = {} /\ twice = {} /\ calm = Convs
-----------------------------------------------------------------------------
At(p, l) == task[p].at = l
Finish(p) == task' = [task EXCEPT ![p] = IdleTask]

Persisting(c) == {p \in Tasks : task[p].at \in PersistLabels /\ task[p].conv = c}
Forgetting    == {p \in Tasks : task[p].at \in ForgetLabels}

\* the conversation is u's alone and nothing else is under way in it
Quiet(u, c) ==
    /\ Persisting(c) = {} /\ Forgetting = {}
    /\ progress[c].owner \in {None, u}
    /\ \A t \in turns : t.conv = c => t.user = u

\* a call of a user that opens a transaction
Call == clock < MaxTx /\ clock' = clock + 1

(***************************************************************************)
(* record_turns: one transaction, with an embedding call before each row.  *)
(***************************************************************************)
RecordBegin(p, u, c) ==
    /\ At(p, "idle")
    /\ Call
    /\ task' = [task EXCEPT ![p] =
                  [IdleTask EXCEPT !.at = "user", !.user = u, !.conv = c, !.ts = clock + 1]]
    /\ calm' = IF Quiet(u, c) THEN calm ELSE calm \ {c}
    /\ UNCHANGED <<ledger, drawn, summed, twice>>

ModelRole(q, role) ==                    \* mutant: the role names of the ADK
    [id |-> drawn + 1, user |-> q.user, conv |-> q.conv,
     role |-> IF role = "user" THEN role ELSE "model", ts |-> q.ts]
NewTurn(q, role) ==
    [id |-> drawn + 1, user |-> q.user, conv |-> q.conv, role |-> role, ts |-> q.ts]

RecordTurn(p, role, next) ==
    /\ At(p, role)
    /\ task' = [task EXCEPT ![p].rows = @ \cup {NewTurn(task[p], role)}, ![p].at = next]
    /\ drawn' = drawn + 1
    /\ UNCHANGED <<ledger, clock, history>>

\* the first user of a conversation id owns its state
RecordCommit(p) ==
    /\ At(p, "commit")
    /\ turns' = turns \cup task[p].rows
    /\ progress' = [progress EXCEPT ![task[p].conv].owner = IF @ = None THEN task[p].user ELSE @]
    /\ task' = [task EXCEPT ![p].at = "state", ![p].rows = {}]
    /\ UNCHANGED <<facts, drawn, clock, history>>

(***************************************************************************)
(* maybe_summarize                                                         *)
(***************************************************************************)
ReadState(p) ==
    /\ At(p, "state")
    /\ LET row == progress[task[p].conv] IN
         task' = [task EXCEPT ![p] = IF row.owner = None THEN IdleTask
                                     ELSE [@ EXCEPT !.at = "pending", !.upto = row.upto]]
    /\ UNCHANGED <<ledger, drawn, clock, history>>

FromLast(id, upto) == id >= upto         \* mutant: the last summarised turn is read again
PastNext(id, upto) == id > upto + 1      \* mutant: the first pending turn is left out
After(id, upto) == id > upto

AnyUser(u, c, upto) == {t \in turns : t.conv = c /\ After(t.id, upto)} \* mutant: no user_id = $3
Pending(u, c, upto) == {t \in turns : t.conv = c /\ t.user = u /\ After(t.id, upto)}

ReadPending(p) ==
    /\ At(p, "pending")
    /\ LET rows == Pending(task[p].user, task[p].conv, task[p].upto) IN
         task' = [task EXCEPT ![p] = IF Cardinality(rows) < Every THEN IdleTask
                                     ELSE [@ EXCEPT !.at = "llm", !.rows = rows]]
    /\ UNCHANGED <<ledger, drawn, clock, history>>

IsLast(rows, last) == \A t \in rows : t.id <= last.id

\* the answer of the LLM, with or without facts, and the transaction that stores it
SummaryCommit(p) ==
    /\ At(p, "llm")
    /\ LET q == task[p]  c == task[p].conv IN
         /\ \E fs \in {{}, {[user |-> q.user, src |-> q.rows]}} : facts' = facts \cup fs
         /\ \E last \in q.rows :
               /\ IsLast(q.rows, last)
               /\ progress' = IF progress[c].owner = None THEN progress
                              ELSE [progress EXCEPT ![c].upto = last.id]
         /\ summed' = summed \cup {t.id : t \in q.rows}
         /\ twice' = twice \cup {t.id : t \in {s \in q.rows : s.id \in summed}}
    /\ Finish(p)
    /\ UNCHANGED <<turns, drawn, clock, calm>>

(***************************************************************************)
(* add_user_memory and delete_user_memory                                  *)
(***************************************************************************)
AddMemory(u) ==
    /\ Call
    /\ facts' = facts \cup {[user |-> u, src |-> {}]}
    /\ UNCHANGED <<turns, progress, drawn, task, history>>

DeleteMemory(f) ==
    /\ facts' = facts \ {f}
    /\ UNCHANGED <<turns, progress, drawn, clock, task, history>>

ForgetBegin(p, u) ==
    /\ At(p, "idle")
    /\ Call
    /\ task' = [task EXCEPT ![p] = [IdleTask EXCEPT !.at = "facts", !.user = u]]
    /\ calm' = {c \in calm : Persisting(c) = {}}
    /\ UNCHANGED <<ledger, drawn, summed, twice>>

NoFacts(u) == {}                         \* mutant: user_memory is left alone
FactsOf(u) == {f \in facts : f.user = u}
TurnsOf(u) == {t \in turns : t.user = u}

ForgetFacts(p) ==
    /\ At(p, "facts")
    /\ task' = [task EXCEPT ![p].at = "turns", ![p].old = FactsOf(task[p].user)]
    /\ UNCHANGED <<ledger, drawn, clock, history>>

ForgetTurns(p) ==
    /\ At(p, "turns")
    /\ task' = [task EXCEPT ![p].at = "states", ![p].rows = TurnsOf(task[p].user)]
    /\ UNCHANGED <<ledger, drawn, clock, history>>

\* the third DELETE, of the conversations the user opened, and the commit
ForgetCommit(p) ==
    /\ At(p, "states")
    /\ facts' = facts \ task[p].old
    /\ turns' = turns \ task[p].rows
    /\ progress' = [c \in Convs |-> IF progress[c].owner = task[p].user THEN NoState
                                                                        ELSE progress[c]]
    /\ Finish(p)
    /\ UNCHANGED <<drawn, clock, history>>

\* a failed statement or LLM call, or the death of the process: the open transaction is
\* rolled back and the task is over
Abort(p) == ~At(p, "idle") /\ Finish(p) /\ UNCHANGED <<ledger, drawn, clock, history>>
\* load_context: where a turn stands among those of its user and conversation
IdOrder(s, t) == s.id < t.id             \* mutant: ORDER BY id
TimeOrder(s, t) == s.ts < t.ts \/ (s.ts = t.ts /\ s.id < t.id)
Position(t) == Cardinality({s \in turns : s.user = t.user /\ s.conv = t.conv /\ TimeOrder(s, t)})
-----------------------------------------------------------------------------
Next ==
    \/ \E u \in Users : AddMemory(u)
    \/ \E f \in facts : DeleteMemory(f)
    \/ \E p \in Tasks :
          \/ \E u \in Users, c \in Convs : RecordBegin(p, u, c)
          \/ RecordTurn(p, "user", "assistant")
          \/ RecordTurn(p, "assistant", "commit")
          \/ RecordCommit(p)
          \/ ReadState(p)
          \/ ReadPending(p)
          \/ SummaryCommit(p)
          \/ \E u \in Users : ForgetBegin(p, u)
          \/ ForgetFacts(p)
          \/ ForgetTurns(p)
          \/ ForgetCommit(p)
          \/ Abort(p)

Spec == Init /\ [][Next]_vars
-----------------------------------------------------------------------------
(***************************************************************************)
(* Properties                                                              *)
(***************************************************************************)

\* No user's words become another user's memory, whoever shares a conversation id and
\* however the tasks overlap (maybe_summarize, the user_id in the query of the turns).
NoCrossUser == \A f \in facts : \A t \in f.src : t.user = f.user

\* The recent turns put into a prompt alternate between question and answer although the
\* rows of overlapping tasks get their ids interleaved (load_context orders by created_at,
\* which is one per transaction, before id).
PairsTogether == \A t \in turns : t.role = "user" <=> Position(t) % 2 = 0

Passed(t) == t.id <= progress[t.conv].upto

\* In a conversation of one user whose tasks do not overlap, every turn up to
\* summarized_upto went into a summary, whatever calls and transactions failed.
CalmNotSkipped == \A t \in turns : (t.conv \in calm /\ Passed(t)) => t.id \in summed

\* In such a conversation no turn goes into two summaries.
CalmPromotedOnce == \A t \in turns : t.conv \in calm => t.id \notin twice

\* In such a conversation nothing distilled from a forgotten turn is left.
CalmForgotten == \A f \in facts : \A t \in f.src : t.conv \in calm => t \in turns

\* Every turn up to summarized_upto went into a summary.
NotSkipped == \A t \in turns : Passed(t) => t.id \in summed

\* No turn goes into two summaries.
PromotedOnce == \A t \in turns : t.id \notin twice

\* Nothing distilled from a forgotten turn is left.
ForgottenForGood == \A f \in facts : f.src \subseteq turns
=============================================================================

----------------------------- MODULE VocRecords -----------------------------
(***************************************************************************)
(* The records of past enquiries (src/admin_console/backend/routers/voc.py, *)
(* src/shared/voc_classify.py): imports store them row by row, with the    *)
(* vector of each if it could be made; administrators edit and delete them; *)
(* a background run asks the language model who could have done what each  *)
(* answer says and stores the verdict with the row.                        *)
(*                                                                         *)
(* A text is a version number, a vector or a verdict is the text it was    *)
(* made from.  External: the embedding server and the language model,      *)
(* which may fail on any call, and the database, on any write.             *)
(***************************************************************************)
EXTENDS UploadSession, Sequences

CONSTANTS
    Runs,       \* requests that start a classification; each is sent once
    MaxRecs,    \* bound on the rows ever stored
    MaxItems,   \* bound on the rows of a file
    MaxText,    \* bound on the versions of a text
    MaxGap,     \* max_consecutive_failures of embed_texts
    BatchSize   \* voc_classify_batch

ASSUME VocAssumption ==
    /\ {MaxRecs, MaxItems, MaxText, MaxGap, BatchSize} \subseteq Nat \ {0}

VARIABLES
    recs,       \* voc_records by id; a deleted row keeps its place
    plan,       \* the rows an import is storing
    next,       \* the next of them
    run,        \* the classification runs
    running,    \* _classify_state["running"]
    pool,       \* the connection pool exists: get_pool does not wait
    raced,      \* history: a start came in while another was waiting for the pool
    touched     \* history: ids edited while a run held their old text

recVars == <<recs, plan, next>>
runVars == <<run, running, pool, raced>>
vars    == <<upVars, recVars, runVars, touched>>
-----------------------------------------------------------------------------
Texts  == 1..MaxText
Item   == {"vector", "gap", "blank"}  \* embedded, not embeddable, empty once cleaned
Record == [live : BOOLEAN, text : Texts, vec : Texts \cup {0}, label : Texts \cup {0},
           batch : Reqs \cup {None}, pos : 0..MaxItems]
RunRec == [at : {"idle", "opening", "read", "batch", "write", "ended", "lost"},
           todo : SUBSET ((1..MaxRecs) \X Texts), verdicts : SUBSET ((1..MaxRecs) \X Texts)]
NoRun  == [at |-> "idle", todo |-> {}, verdicts |-> {}]

TypeOK ==
    /\ UploadTypeOK
    /\ recs \in Seq(Record) /\ Len(recs) <= MaxRecs
    /\ plan \in [Reqs -> Seq(Item)] /\ next \in [Reqs -> 1..MaxItems + 1]
    /\ run \in [Runs -> RunRec]
    /\ running \in BOOLEAN /\ pool \in BOOLEAN /\ raced \in BOOLEAN
    /\ touched \subseteq 1..MaxRecs

Ids    == 1..Len(recs)
Live   == {i \in Ids : recs[i].live}
Task(s) == run[s].at \in {"read", "batch", "write"}
Holds(s, i) == \E p \in run[s].todo \cup run[s].verdicts : p[1] = i

Init ==
    /\ UploadInit
    /\ recs = <<>>
    /\ plan = [r \in Reqs |-> <<>>] /\ next = [r \in Reqs |-> 1]
    /\ run = [s \in Runs |-> NoRun]
    /\ running = FALSE /\ pool = FALSE /\ raced = FALSE
    /\ touched = {}
-----------------------------------------------------------------------------
(***************************************************************************)
(* Imports                                                                 *)
(***************************************************************************)
NewRecord(r, k, v) == [live |-> TRUE, text |-> 1, vec |-> v, label |-> 0, batch |-> r, pos |-> k]

\* POST /import needs no session: the file is in one of two formats or refused
ImportFile(r) ==
    /\ req[r].at = "idle"
    /\ \E l \in {"embed", "failed"} : ReqTo(r, l)
    /\ UNCHANGED <<sess, prev, committed, restarts, calm, recVars, runVars, touched>>

\* embed_texts gives up after MaxGap failures in a row, however they fall into batches
GivesUp(p) == \E i \in 1..Len(p) : /\ i + MaxGap - 1 <= Len(p)
                                   /\ \A j \in i..(i + MaxGap - 1) : p[j] = "gap"

\* all rows are embedded before the first is stored; no rows at all is an error for the commit of a
\* table, and nothing inserted for a plain import
Embed(r) ==
    /\ req[r].at = "embed"
    /\ \/ \E n \in 1..MaxItems : \E p \in [1..n -> Item] :
            /\ ~GivesUp(p) /\ plan' = [plan EXCEPT ![r] = p]
            /\ ReqTo(r, "insert") /\ pool' = TRUE
       \/ req[r].u = None /\ ReqTo(r, "done") /\ pool' = TRUE /\ UNCHANGED plan
       \/ ReqTo(r, "failed") /\ UNCHANGED <<plan, pool>>
    /\ UNCHANGED <<sess, prev, committed, restarts, calm, recs, next, run, running, raced, touched>>

\* the end of the loop: a table's session is cleared next, a plain import is done
Finished(r) ==
    IF req[r].u = None THEN ReqTo(r, "done") /\ UNCHANGED committed
    ELSE ReqTo(r, "drop") /\ committed' = [committed EXCEPT ![req[r].u] = @ + 1]

GoOn(r) ==
    /\ next' = [next EXCEPT ![r] = @ + 1]
    /\ IF next[r] = Len(plan[r]) THEN Finished(r) ELSE UNCHANGED <<req, committed>>

StoreRow(r) ==
    /\ req[r].at = "insert"
    /\ LET item == plan[r][next[r]]
       IN  \/ item = "blank" /\ UNCHANGED recs /\ GoOn(r)
           \/ /\ item # "blank" /\ Len(recs) < MaxRecs
              /\ recs' = Append(recs, NewRecord(r, next[r], IF item = "vector" THEN 1 ELSE 0))
              /\ GoOn(r)
           \/ item # "blank" /\ ReqTo(r, "failed") /\ UNCHANGED <<recs, next, committed>>
    /\ UNCHANGED <<sess, prev, restarts, calm, plan, runVars, touched>>
StopAtGap(r) ==         \* mutant: a row without a vector ends the loop
    /\ req[r].at = "insert"
    /\ IF plan[r][next[r]] = "gap" THEN Finished(r) /\ UNCHANGED <<recs, next>>
       ELSE /\ Len(recs) < MaxRecs
            /\ recs' = Append(recs, NewRecord(r, next[r], 1)) /\ GoOn(r)
    /\ UNCHANGED <<sess, prev, restarts, calm, plan, runVars, touched>>
InsertRow(r) == StoreRow(r)
-----------------------------------------------------------------------------
(***************************************************************************)
(* Editing; the embedding is made before the statement, which is atomic    *)
(***************************************************************************)
Change(A) == A /\ pool' = TRUE /\ UNCHANGED <<upVars, plan, next, run, running, raced>>

Create == Change(/\ Len(recs) < MaxRecs
                 /\ recs' = Append(recs, NewRecord(None, 0, 1)) /\ UNCHANGED touched)

\* update_voc writes text and vector and resets the verdict
Reset(i, t)     == [recs[i] EXCEPT !.text = t, !.vec = t, !.label = 0]
KeepLabel(i, t) == [recs[i] EXCEPT !.text = t, !.vec = t]      \* mutant: handled_by is left alone
Edited(i, t)    == Reset(i, t)

Update(i) ==
    Change(/\ recs[i].live /\ recs[i].text < MaxText
           /\ recs' = [recs EXCEPT ![i] = Edited(i, recs[i].text + 1)]
           /\ touched' = IF \E s \in Runs : Holds(s, i) THEN touched \cup {i} ELSE touched)

\* delete_voc and bulk_delete_voc, delete_voc_batch
Removed(S) ==
    /\ recs' = [i \in Ids |-> IF i \in S THEN [NewRecord(recs[i].batch, recs[i].pos, 0) EXCEPT !.live = FALSE]
                                         ELSE recs[i]]
    /\ touched' = touched \ S
Delete(S)      == Change(S # {} /\ Removed(S))
DeleteBatch(r) == Change((\E i \in Live : recs[i].batch = r) /\ Removed({i \in Ids : recs[i].batch = r}))
-----------------------------------------------------------------------------
(***************************************************************************)
(* The classification                                                      *)
(***************************************************************************)
RunTo(s, l) == run' = [run EXCEPT ![s].at = l]
InRun == UNCHANGED <<upVars, plan, next, touched>>

\* classify_voc: the flag is looked at, then get_pool waits if there is no pool yet
NotRunning  == ~running
AlwaysStart == TRUE                        \* mutant: no 409
MayStart    == NotRunning
Start(s) ==
    /\ run[s].at = "idle" /\ MayStart
    /\ IF pool THEN RunTo(s, "read") /\ running' = TRUE ELSE RunTo(s, "opening") /\ UNCHANGED running
    /\ raced' = (raced \/ \E q \in Runs : run[q].at = "opening")
    /\ InRun /\ UNCHANGED <<recs, pool>>

Launch(s) ==
    /\ run[s].at = "opening"
    /\ \/ RunTo(s, "read") /\ running' = TRUE /\ pool' = TRUE
       \/ RunTo(s, "ended") /\ UNCHANGED <<running, pool>>
    /\ InRun /\ UNCHANGED <<recs, raced>>

\* the finally of _run
End(s)        == run' = [run EXCEPT ![s] = [NoRun EXCEPT !.at = "ended"]] /\ running' = FALSE
LeaveFlag(s)  == run' = [run EXCEPT ![s] = [NoRun EXCEPT !.at = "ended"]] /\ UNCHANGED running  \* mutant: no finally
Fails(s)      == End(s)

\* classify_pending reads the rows without a verdict, all or the first `limit' of them by id
Pending     == {<<i, recs[i].text>> : i \in {j \in Live : recs[j].label = 0}}
First(S, n) == {p \in S : Cardinality({q \in S : q[1] <= p[1]}) <= n}
ReadPending(s) ==
    /\ run[s].at = "read"
    /\ \/ \E T \in {First(Pending, 1), Pending} :
            /\ Pending # {} /\ run' = [run EXCEPT ![s].at = "batch", ![s].todo = T]
            /\ UNCHANGED running
       \/ Pending = {} /\ End(s)
       \/ Fails(s)
    /\ InRun /\ UNCHANGED <<recs, pool, raced>>

\* classify_records: what passes validate is about rows that were sent; nothing, if the call fails
Verdicts(sent) == SUBSET sent

Judge(s) ==
    /\ run[s].at = "batch" /\ run[s].todo # {}
    /\ LET sent == First(run[s].todo, BatchSize)
       IN  \E V \in Verdicts(sent) :
             run' = [run EXCEPT ![s] = [at |-> "write", verdicts |-> V, todo |-> @.todo \ sent]]
    /\ InRun /\ UNCHANGED <<recs, running, pool, raced>>

\* one UPDATE ... WHERE id for each; an error of the database ends the run
WriteVerdict(s) ==
    /\ run[s].at = "write"
    /\ \/ \E p \in run[s].verdicts :
            /\ run' = [run EXCEPT ![s].verdicts = @ \ {p}]
            /\ recs' = IF recs[p[1]].live THEN [recs EXCEPT ![p[1]].label = p[2]] ELSE recs
            /\ UNCHANGED running
       \/ run[s].verdicts # {} /\ Fails(s) /\ UNCHANGED recs
       \/ run[s].verdicts = {} /\ RunTo(s, "batch") /\ UNCHANGED <<recs, running>>
    /\ InRun /\ UNCHANGED <<pool, raced>>

Finish(s) ==
    /\ run[s].at = "batch" /\ run[s].todo = {} /\ End(s)
    /\ InRun /\ UNCHANGED <<recs, pool, raced>>
-----------------------------------------------------------------------------
Restart ==
    /\ UploadRestart
    /\ run' = [s \in Runs |-> IF run[s].at \in {"idle", "ended"} THEN run[s] ELSE [NoRun EXCEPT !.at = "lost"]]
    /\ running' = FALSE /\ pool' = FALSE /\ raced' = FALSE
    /\ UNCHANGED <<recVars, touched>>

OfUpload(A) == A /\ UNCHANGED <<recVars, runVars, touched>>
ReqStep(r)  == OfUpload(CommitStep(r)) \/ Embed(r) \/ InsertRow(r)
TaskStep(s) == Launch(s) \/ ReadPending(s) \/ Judge(s) \/ WriteVerdict(s) \/ Finish(s)

Next ==
    \/ \E u \in Uploads : OfUpload(PreviewStep(u))
    \/ \E r \in Reqs : OfUpload(Find(r)) \/ ImportFile(r) \/ ReqStep(r) \/ DeleteBatch(r)
    \/ Create \/ \E i \in Ids : Update(i)
    \/ \E S \in SUBSET Live : Delete(S)
    \/ \E s \in Runs : Start(s) \/ TaskStep(s)
    \/ Restart

\* what a request or a task waits for answers or times out: the embedding server and the model by their
\* client, the database by assumption (its pools set no command_timeout)
Spec     == Init /\ [][Next]_vars
Fairness == (\A r \in Reqs : WF_vars(ReqStep(r))) /\ (\A s \in Runs : WF_vars(TaskStep(s)))
-----------------------------------------------------------------------------
\* An import that answers "inserted" stored every row of the file that was not empty exactly once,
\* those without a vector too, whatever else ran meanwhile, and none other (_insert_many: "one row
\* must not throw away the rest"; 333 rows of which 16 arrived was the accident it recalls).
AnsweredWhole ==
    \A r \in Reqs : (req[r].at = "drop" \/ (req[r].at = "done" /\ plan[r] # <<>>)) =>
        \A k \in 1..Len(plan[r]) :
            LET rows == {i \in Ids : recs[i].batch = r /\ recs[i].pos = k}
            IN  /\ Cardinality(rows) = IF plan[r][k] = "blank" THEN 0 ELSE 1
                /\ \A i \in rows \cap Live : recs[i].vec = 0 => plan[r][k] = "gap"

\* A row's vector and verdict are those of its present text: an edit makes the verdict void.  What
\* is left out is the edit that falls into a run that has already read the row (touched).
CalmLabelFitsText ==
    \A i \in Ids : /\ recs[i].vec \in {0, recs[i].text}
                   /\ recs[i].label \in {0, recs[i].text} \/ i \in touched

\* One classification at a time (409), and the flag says whether there is one, whatever ends it,
\* unless a start came in while another was waiting for the pool (classify_voc).
CalmOneRun ==
    raced \/ /\ \A s, q \in Runs : Task(s) /\ Task(q) => s = q
             /\ running <=> \E s \in Runs : Task(s)

OneRun == \A s, q \in Runs : Task(s) /\ Task(q) => s = q

\* Every import is answered, and the running flag, once set, is cleared again, also by a run that
\* ends with an exception: otherwise no classification can start until the console restarts.
ImportsEndFlagFalls ==
    /\ running ~> ~running
    /\ \A r \in Reqs : Working(r) ~> ~Working(r)

\* An administrator's edit is never undone by the verdict on the old text (update_voc: "the answer
\* changed, so the verdict is void").
LabelFitsText == \A i \in Ids : recs[i].label \in {0, recs[i].text}
=============================================================================

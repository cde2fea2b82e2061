---------------------------- MODULE UploadSession ----------------------------
(***************************************************************************)
(* Upload sessions (src/admin_console/backend/uploads.py): a preview stores *)
(* the file and a row in upload_sessions, a commit finds both, parses the  *)
(* file again and registers its content, and time-outs and later previews  *)
(* clear away what was left.  The commits of manuals and of execution      *)
(* commands clear the session before they look at what they parsed; the    *)
(* commit of VOC tables, which stores row by row after that (VocRecords),  *)
(* clears it at the end.                                                   *)
(***************************************************************************)
EXTENDS Naturals, FiniteSets

CONSTANTS
    Uploads,    \* upload ids
    Reqs,       \* requests that commit an upload; each is sent once
    UsedKinds,  \* the kinds of the uploads made
    MaxRestart, \* bound on the restarts of the console
    None

EarlyToo == {"document", "spreadsheet", "execution_commands", "voc_table"}   \* mutant: VOC tables as well
Early == {"document", "spreadsheet", "execution_commands"}
Kinds == Early \cup {"voc_table"}

ASSUME UploadAssumption ==
    /\ UsedKinds \subseteq Kinds /\ MaxRestart \in Nat
    /\ None \notin Uploads \cup Reqs /\ IsFiniteSet(Reqs)

VARIABLES
    sess,       \* the row of upload_sessions and the file at saved_path
    prev,       \* how far the preview of the upload is, or what became of it
    req,        \* the commits
    committed,  \* how often the content of the upload was registered whole
    restarts,
    calm        \* history: no commits of one upload overlapped, no clearing after a success failed or was cut off

upVars == <<sess, prev, req, committed, restarts, calm>>
-----------------------------------------------------------------------------
Session == [row : BOOLEAN, file : BOOLEAN, expired : BOOLEAN, kind : Kinds]
Previews == {"none", "saved", "clean", "check", "offered", "wiped", "failed"}
Request == [at : {"idle", "found", "clear", "store", "embed", "insert", "drop", "done", "failed", "lost"},
            u : Uploads \cup {None}, empty : BOOLEAN]
NoReq   == [at |-> "idle", u |-> None, empty |-> FALSE]

UploadTypeOK ==
    /\ sess \in [Uploads -> Session]
    /\ prev \in [Uploads -> Previews]
    /\ req \in [Reqs -> Request]
    /\ committed \in [Uploads -> 0..Cardinality(Reqs)]
    /\ restarts \in 0..MaxRestart /\ calm \in BOOLEAN

Ended      == {"done", "failed", "lost"}
Working(r) == req[r].at \notin Ended \cup {"idle"}

\* delete_upload_session; with no row the path is unknown and the file stays
Without(u)  == IF sess[u].row THEN [sess[u] EXCEPT !.row = FALSE, !.file = FALSE] ELSE sess[u]
Discard(u)  == sess' = [sess EXCEPT ![u] = Without(u)]

\* its SELECT fails, or its DELETE when the file is already gone
DiscardFails(u) ==
    \/ UNCHANGED sess
    \/ sess[u].row /\ sess' = [sess EXCEPT ![u].file = FALSE]

UploadInit ==
    /\ sess \in [Uploads -> {[row |-> FALSE, file |-> FALSE, expired |-> FALSE, kind |-> k] : k \in UsedKinds}]
    /\ prev = [u \in Uploads |-> "none"]
    /\ req = [r \in Reqs |-> NoReq]
    /\ committed = [u \in Uploads |-> 0]
    /\ restarts = 0 /\ calm = TRUE
-----------------------------------------------------------------------------
(***************************************************************************)
(* The preview: create_upload_session, then a look into the file           *)
(***************************************************************************)
PreviewTo(u, l) == prev' = [prev EXCEPT ![u] = l] /\ UNCHANGED <<req, committed, restarts, calm>>

\* the file is written first; a row the database refuses leaves the file
Save(u) ==
    /\ prev[u] = "none"
    /\ \E ok \in BOOLEAN :
         /\ sess' = [sess EXCEPT ![u].file = TRUE, ![u].row = ok]
         /\ PreviewTo(u, IF ok THEN "saved" ELSE "failed")

\* _cleanup_expired_sessions unlinks the files of the rows that have expired by its SELECT ...
CleanupRead(u) ==
    LET old == {v \in Uploads : sess[v].row /\ sess[v].expired}
    IN  /\ prev[u] = "saved"
        /\ \/ /\ sess' = [v \in Uploads |-> IF v \in old THEN [sess[v] EXCEPT !.file = FALSE] ELSE sess[v]]
              /\ PreviewTo(u, IF old = {} THEN "check" ELSE "clean")
           \/ UNCHANGED sess /\ PreviewTo(u, "failed")

\* ... and deletes the rows that have expired by its DELETE
CleanupDelete(u) ==
    /\ prev[u] = "clean"
    /\ \/ /\ sess' = [v \in Uploads |-> IF sess[v].expired THEN [sess[v] EXCEPT !.row = FALSE] ELSE sess[v]]
          /\ PreviewTo(u, "check")
       \/ UNCHANGED sess /\ PreviewTo(u, "failed")

\* a file that is gone, expired or unreadable, or holds no table or text, ends the preview
Look(u) ==
    /\ prev[u] = "check"
    /\ \/ /\ sess[u].row /\ sess[u].file /\ ~sess[u].expired
          /\ UNCHANGED sess /\ PreviewTo(u, "offered")
       \/ (Discard(u) \/ DiscardFails(u)) /\ PreviewTo(u, "failed")

Expire(u) ==
    /\ sess[u].row /\ ~sess[u].expired
    /\ sess' = [sess EXCEPT ![u].expired = TRUE]
    /\ UNCHANGED <<prev, req, committed, restarts, calm>>
-----------------------------------------------------------------------------
(***************************************************************************)
(* The commit                                                              *)
(***************************************************************************)
ReqTo(r, l) == req' = [req EXCEPT ![r].at = l]

\* get_upload_session: another's session, an expired one, another kind, a file that is gone
Find(r) ==
    /\ req[r].at = "idle"
    /\ \E u \in {v \in Uploads : prev[v] \in {"offered", "wiped"}}, stranger, otherKind \in BOOLEAN :
         LET s == sess[u]
             refuse == ~s.row \/ stranger
             gone == ~refuse /\ (s.expired \/ (~otherKind /\ ~s.file))
             ok == ~refuse /\ ~gone /\ ~otherKind
         IN  /\ req' = [req EXCEPT ![r] = [NoReq EXCEPT !.at = IF ok THEN "found" ELSE "failed", !.u = u]]
             /\ IF gone THEN Discard(u) \/ DiscardFails(u) ELSE UNCHANGED sess
             /\ calm' = (calm /\ (ok => \A q \in Reqs : Working(q) => req[q].u # u))
    /\ UNCHANGED <<prev, committed, restarts>>

\* parse_file or _build in a thread: the file may be gone by now, the columns wrong, the result empty
Parse(r) ==
    /\ req[r].at = "found"
    /\ \/ ReqTo(r, "failed")
       \/ /\ sess[req[r].u].file /\ sess[req[r].u].kind \in Early
          /\ \E e \in BOOLEAN : req' = [req EXCEPT ![r].at = "clear", ![r].empty = e]
       \/ sess[req[r].u].file /\ sess[req[r].u].kind \notin Early /\ ReqTo(r, "embed")
    /\ UNCHANGED <<sess, prev, committed, restarts, calm>>

\* manuals and execution commands: clear the session, then look whether there is anything to store
ClearFirst(r) ==
    /\ req[r].at = "clear"
    /\ \/ Discard(req[r].u) /\ ReqTo(r, IF req[r].empty THEN "failed" ELSE "store")
       \/ DiscardFails(req[r].u) /\ ReqTo(r, "failed")
    /\ UNCHANGED <<prev, committed, restarts, calm>>

\* one transaction (_insert_draft, the upserts of execution_commands)
Store(r) ==
    /\ req[r].at = "store"
    /\ \/ committed' = [committed EXCEPT ![req[r].u] = @ + 1] /\ ReqTo(r, "done")
       \/ ReqTo(r, "failed") /\ UNCHANGED committed
    /\ UNCHANGED <<sess, prev, restarts, calm>>

\* VOC tables: the session goes when every row is stored; if that fails, so does the answer
ClearLast(r) ==
    /\ req[r].at = "drop"
    /\ \/ Discard(req[r].u) /\ ReqTo(r, "done") /\ UNCHANGED calm
       \/ DiscardFails(req[r].u) /\ ReqTo(r, "failed") /\ calm' = FALSE
    /\ UNCHANGED <<prev, committed, restarts>>
NeverClear(r) ==        \* mutant: the session is left to its expiry
    /\ req[r].at = "drop" /\ ReqTo(r, "done")
    /\ UNCHANGED <<sess, prev, committed, restarts, calm>>
Drop(r) == ClearLast(r)

\* the console restarts, perhaps with an empty temporary directory
UploadRestart ==
    /\ restarts < MaxRestart /\ restarts' = restarts + 1
    /\ req' = [r \in Reqs |-> IF Working(r) THEN [req[r] EXCEPT !.at = "lost"] ELSE req[r]]
    /\ \E wiped \in BOOLEAN :
         /\ sess' = [u \in Uploads |-> [sess[u] EXCEPT !.file = @ /\ ~wiped]]
         /\ prev' = [u \in Uploads |-> CASE prev[u] \in {"saved", "clean", "check"} -> "failed"
                                         [] prev[u] = "offered" /\ wiped -> "wiped"
                                         [] OTHER -> prev[u]]
    /\ calm' = (calm /\ \A r \in Reqs : req[r].at # "drop")
    /\ UNCHANGED committed

PreviewStep(u) == Save(u) \/ CleanupRead(u) \/ CleanupDelete(u) \/ Look(u) \/ Expire(u)
CommitStep(r)  == Parse(r) \/ ClearFirst(r) \/ Store(r) \/ Drop(r)
-----------------------------------------------------------------------------
OnlyFailed(u) ==
    /\ prev[u] = "offered" /\ ~sess[u].expired /\ committed[u] = 0
    /\ \E r \in Reqs : req[r].at = "failed" /\ req[r].u = u
    /\ \A r \in Reqs : Working(r) => req[r].u # u

\* "A failed commit does not clear the session, so that it can be tried again and the true cause
\* stays visible" (the comment in every commit), for every kind of upload.
FailedCommitKeepsSession == \A u \in Uploads : OnlyFailed(u) => sess[u].row

\* The same, and the file with it, for VOC tables, whose commit was changed to work like that: wrong
\* columns, an embedding server that is down or an INSERT that fails half-way leave both to the next try.
VocSessionSurvives == \A u \in Uploads : sess[u].kind = "voc_table" /\ OnlyFailed(u) => sess[u].row /\ sess[u].file

\* A commit sent again after a success finds no session: as long as commits of one upload do not
\* overlap and clearing works, its content is registered once (delete_upload_session on success).
CalmCommittedOnce == calm => \A u \in Uploads : committed[u] <= 1

\* A file is there only while a row knows it, so that some preview will clear it away.
NoFileLeft == \A u \in Uploads : sess[u].file => sess[u].row
=============================================================================

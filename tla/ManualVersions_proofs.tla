----------------------- MODULE ManualVersions_proofs -----------------------
(***************************************************************************)
(* Proofs about ManualVersions, for any number of versions, titles and     *)
(* overlapping requests: the inductive invariant, and from it that a title *)
(* never has two published versions and that the handlers implement        *)
(* PublishedSlot; then what holds of the chunks and their embeddings, each *)
(* under the condition without which the code has a race.                  *)
(***************************************************************************)
EXTENDS ManualVersions, TLAPS, FiniteSetTheorems

\* labels at which a publication knows its row and its title
PublishLabels == {"config", "fetch", "embed", "call", "store", "lock", "archive", "commit"}

\* what the local variables of a request hold at each label
ReqShape(q) ==
    /\ q.at \in PublishLabels \cup {"edit", "drop", "unpublish", "delete"} => q.id \in Ids
    /\ q.at \in PublishLabels \cup {"insert", "path"} => q.title \in Titles
    /\ q.at \in {"edit", "drop"} => q.n \in Chunks
    /\ q.at = "edit" => q.text \in Texts
    /\ q.at \in {"fetch", "embed", "call", "store", "refetch", "recall", "restore"} => q.label \in Writes

Shape ==
    /\ \A r \in Reqs : ReqShape(req[r])
    /\ \A i \in Ids : Exists(i) => files[i].title \in Titles
    /\ \A i \in Ids : \A n \in Chunks : chunks[i][n].live => chunks[i][n].text \in Texts

\* a row the search finds under a title
Serves(f, t) == f.st = "published" /\ f.title = t

\* a publication's row was uploaded under the title it locks
Targets(q, f) == f.st # "unborn" /\ (f.st = "deleted" \/ f.title = q.title)
TargetInv == \A r \in Reqs : req[r].at \in PublishLabels => Targets(req[r], files[req[r].id])

\* the advisory lock of a title has one holder
LockInv ==
    \A r, q \in Reqs :
        (/\ req[r].at \in {"archive", "commit"}
         /\ req[q].at \in {"archive", "commit"}
         /\ req[r].title = req[q].title) => r = q

\* between its two UPDATEs a publication holds the row locks of all other published versions
ArchiveInv ==
    \A r \in Reqs : req[r].at = "commit" =>
        \A j \in Ids : j \in req[r].arch <=> (j # req[r].id /\ Serves(files[j], req[r].title))

TxInv == TargetInv /\ LockInv /\ ArchiveInv

IInv == TypeOK /\ Shape /\ TxInv /\ AtMostOnePublished /\ PublishedAtAgrees
-----------------------------------------------------------------------------
LEMMA IdleIsRequest == IdleReq \in Request /\ ReqShape(IdleReq)
  BY ManualAssumption DEF IdleReq, Request, Labels, ReqShape, PublishLabels

LEMMA InitIInv == Init => IInv
<1> SUFFICES ASSUME Init PROVE IInv
  OBVIOUS
<1>1. TypeOK
  BY IdleIsRequest, ManualAssumption
     DEF Init, TypeOK, Unborn, NoChunk, FileRow, ChunkRow, Status, Writes
<1>2. Shape
  BY IdleIsRequest DEF Init, Shape, Exists, Unborn, NoChunk
<1>3. TxInv
  BY DEF Init, TxInv, TargetInv, LockInv, ArchiveInv, IdleReq, PublishLabels
<1>4. AtMostOnePublished /\ PublishedAtAgrees
  BY DEF Init, AtMostOnePublished, PublishedAtAgrees, Unborn
<1> QED
  BY <1>1, <1>2, <1>3, <1>4 DEF IInv

(***************************************************************************)
(* A step that only changes the local variables of one request keeps the   *)
(* invariant if the new values have the shape of their label and respect   *)
(* the lock.                                                               *)
(***************************************************************************)
LEMMA LocalStep ==
  ASSUME IInv, Local, NEW r \in Reqs, NEW q \in Request,
         req' = [req EXCEPT ![r] = q], ReqShape(q),
         q.at \in PublishLabels => Targets(q, files[q.id]),
         q.at \in {"archive", "commit"} =>
            \A s \in Reqs \ {r} : req[s].at \in {"archive", "commit"} => req[s].title # q.title,
         q.at = "commit" =>
            \A j \in Ids : j \in q.arch <=> (j # q.id /\ Serves(files[j], q.title))
  PROVE  IInv'
<1> USE DEF IInv, Local
<1>1. TypeOK'
  BY DEF TypeOK, setting
<1>2. \A s \in Reqs : req'[s] = IF s = r THEN q ELSE req[s]
  BY DEF TypeOK
<1>3. Shape'
  BY <1>2 DEF Shape, Exists
<1>4. TargetInv'
  BY <1>2 DEF TxInv, TargetInv
<1>5. LockInv'
  BY <1>2 DEF TxInv, LockInv
<1>6. ArchiveInv'
  BY <1>2 DEF TxInv, ArchiveInv
<1>7. (AtMostOnePublished /\ PublishedAtAgrees)'
  BY DEF AtMostOnePublished, PublishedAtAgrees
<1> QED
  BY <1>1, <1>3, <1>4, <1>5, <1>6, <1>7 DEF TxInv

(***************************************************************************)
(* Requests that begin, and the reads and remote calls of the handlers.    *)
(***************************************************************************)
LEMMA CallStep == ASSUME IInv, NEW r \in Reqs, Call(r) PROVE IInv'
<1> USE ManualAssumption
<1>1. ASSUME NEW t \in Titles, UploadReadMax(r, t) PROVE IInv'
  <2>1. PICK v \in 1..MaxVersion :
          req' = [req EXCEPT ![r] = [IdleReq EXCEPT !.at = "insert", !.title = t, !.ver = v]]
    BY <1>1 DEF UploadReadMax, Start
  <2>2. v \in 0..MaxVersion
    OBVIOUS
  <2>3. [IdleReq EXCEPT !.at = "insert", !.title = t, !.ver = v] \in Request
    BY <2>2, IdleIsRequest DEF Request, Labels
  <2> QED
    BY <1>1, <2>1, <2>3, LocalStep DEF UploadReadMax, ReqShape, IdleReq, PublishLabels
<1>2. ASSUME NEW op \in {"edit", "drop"}, NEW i \in Ids, NEW n \in Chunks, NEW x \in Texts \cup {None},
             op = "edit" => x \in Texts, CheckEditable(r, op, i, n, x)
      PROVE  IInv'
  <2>1. [IdleReq EXCEPT !.at = op, !.id = i, !.n = n, !.text = x] \in Request
    BY IdleIsRequest DEF Request, Labels
  <2> QED
    BY <1>2, <2>1, LocalStep DEF CheckEditable, Start, ReqShape, IdleReq, PublishLabels
<1>3. ASSUME NEW i \in Ids, PublishRead(r, i) PROVE IInv'
  <2>1. files[i].title \in Titles /\ files[i].st # "unborn"
    BY <1>3 DEF PublishRead, IInv, Shape, Exists
  <2>2. [IdleReq EXCEPT !.at = "config", !.id = i, !.title = files[i].title] \in Request
    BY <2>1, IdleIsRequest DEF Request, Labels
  <2> QED
    BY <1>3, <2>1, <2>2, LocalStep DEF PublishRead, Start, ReqShape, IdleReq, PublishLabels, Targets
<1>4. ASSUME NEW i \in Ids, UnpublishRead(r, i) PROVE IInv'
  <2>1. [IdleReq EXCEPT !.at = "unpublish", !.id = i] \in Request
    BY IdleIsRequest DEF Request, Labels
  <2> QED
    BY <1>4, <2>1, LocalStep DEF UnpublishRead, Start, ReqShape, IdleReq, PublishLabels
<1>5. ASSUME NEW i \in Ids, DeleteRead(r, i) PROVE IInv'
  <2>1. [IdleReq EXCEPT !.at = "delete", !.id = i] \in Request
    BY IdleIsRequest DEF Request, Labels
  <2> QED
    BY <1>5, <2>1, LocalStep DEF DeleteRead, Start, ReqShape, IdleReq, PublishLabels
<1>6. ASSUME NEW i \in Ids, NEW p \in Paths \cup {None}, PathRead(r, i, p) PROVE IInv'
  <2>1. files[i].title \in Titles
    BY <1>6 DEF PathRead, IInv, Shape
  <2>2. [IdleReq EXCEPT !.at = "path", !.title = files[i].title, !.path = p] \in Request
    BY <2>1, IdleIsRequest DEF Request, Labels
  <2> QED
    BY <1>6, <2>1, <2>2, LocalStep DEF PathRead, Start, ReqShape, IdleReq, PublishLabels
<1>7. ASSUME ReembedReadConfig(r) PROVE IInv'
  <2>1. cache \in Writes
    BY DEF IInv, TypeOK
  <2>2. [IdleReq EXCEPT !.at = "refetch", !.label = cache] \in Request
    BY <2>1, IdleIsRequest DEF Request, Labels
  <2> QED
    BY <1>7, <2>1, <2>2, LocalStep DEF ReembedReadConfig, Start, ReqShape, IdleReq, PublishLabels
<1> QED
  BY <1>1, <1>2, <1>3, <1>4, <1>5, <1>6, <1>7 DEF Call

\* jobs read from the chunk table are jobs
LEMMA JobsAreJobs ==
  ASSUME IInv, NEW i \in Ids, NEW n \in Chunks, chunks[i][n].live
  PROVE  JobsOf(i, n) \in Job
  BY DEF IInv, Shape, JobsOf, Job

LEMMA ReadStep ==
  ASSUME IInv, NEW r \in Reqs,
         \/ PublishReadConfig(r) \/ PublishFetch(r) \/ AllEmbedded(r) \/ ReembedFetch(r)
         \/ ReembedDone(r) \/ Abort(r)
         \/ PublishWindow(r) \/ Embed(r, "call") \/ Embed(r, "recall") \/ WindowDone(r)
         \/ EmbedReturn(r, "call", "store") \/ EmbedReturn(r, "recall", "restore")
  PROVE  IInv'
<1> DEFINE q == req[r]
<1>1. q \in Request /\ ReqShape(q) /\ cache \in Writes
  BY DEF IInv, TypeOK, Shape
<1>2. q.at \in PublishLabels => Targets(q, files[q.id])
  BY DEF IInv, TxInv, TargetInv
<1>3. CASE PublishReadConfig(r)
  <2> DEFINE q2 == [q EXCEPT !.at = "fetch", !.label = cache]
  <2>1. req' = [req EXCEPT ![r] = q2] /\ Local /\ q.at = "config"
    BY <1>3 DEF PublishReadConfig, At, IInv, TypeOK
  <2>2. q2 \in Request /\ ReqShape(q2)
    BY <1>1, <2>1 DEF Request, Labels, ReqShape, PublishLabels
  <2>3. q2.at = "fetch" /\ q2.id = q.id /\ q2.title = q.title
    BY <1>1 DEF Request
  <2> HIDE DEF q2
  <2> QED
    BY <1>2, <2>1, <2>2, <2>3, LocalStep DEF PublishLabels, Targets
<1>4. CASE PublishFetch(r)
  <2> DEFINE jobs == {JobsOf(q.id, n) : n \in {m \in Chunks : chunks[q.id][m].live /\ chunks[q.id][m].emb = None}}
             q2 == [q EXCEPT !.at = "embed", !.todo = jobs]
  <2>1. req' = [req EXCEPT ![r] = q2] /\ Local /\ q.at = "fetch"
    BY <1>4 DEF PublishFetch, At, IInv, TypeOK
  <2>2. q.id \in Ids
    BY <1>1, <2>1 DEF ReqShape, PublishLabels
  <2>3. jobs \in SUBSET Job
    BY <2>2, JobsAreJobs
  <2> HIDE DEF jobs
  <2>4. q2 \in Request /\ ReqShape(q2)
    BY <1>1, <2>1, <2>3 DEF Request, Labels, ReqShape, PublishLabels
  <2>5. q2.at = "embed" /\ q2.id = q.id /\ q2.title = q.title
    BY <1>1 DEF Request
  <2> HIDE DEF q2
  <2> QED
    BY <1>2, <2>1, <2>4, <2>5, LocalStep DEF PublishLabels, Targets
<1>5. CASE ReembedFetch(r)
  <2>1. PICK s \in SUBSET StaleCells(q.label) :
          req' = [req EXCEPT ![r].at = "recall", ![r].win = {JobsOf(c[1], c[2]) : c \in s}]
    BY <1>5 DEF ReembedFetch
  <2> DEFINE jobs == {JobsOf(c[1], c[2]) : c \in s}
             q2 == [q EXCEPT !.at = "recall", !.win = jobs]
  <2>2. req' = [req EXCEPT ![r] = q2] /\ Local /\ q.at = "refetch"
    BY <1>5, <2>1 DEF ReembedFetch, At, IInv, TypeOK
  <2>3. jobs \in SUBSET Job
    BY <2>1, JobsAreJobs DEF StaleCells, Stale
  <2> HIDE DEF jobs
  <2>4. q2 \in Request /\ ReqShape(q2)
    BY <1>1, <2>2, <2>3 DEF Request, Labels, ReqShape, PublishLabels
  <2>5. q2.at = "recall"
    BY <1>1 DEF Request
  <2> HIDE DEF q2
  <2> QED
    BY <2>2, <2>4, <2>5, LocalStep DEF PublishLabels, Targets
<1>6. CASE ReembedDone(r) \/ Abort(r)
  <2>1. req' = [req EXCEPT ![r] = IdleReq] /\ Local
    BY <1>6 DEF ReembedDone, Abort, Finish
  <2>2. IdleReq.at = "idle"
    BY DEF IdleReq
  <2> QED
    BY <2>1, <2>2, IdleIsRequest, LocalStep DEF PublishLabels, Targets
<1>7. ASSUME NEW here \in {"call", "recall"}, Embed(r, here) PROVE IInv'
  <2>1. PICK b \in SUBSET q.win : \E ok \in SUBSET b :
          req' = [req EXCEPT ![r].win = @ \ b, ![r].got = @ \cup
                    {[id |-> j.id, n |-> j.n, text |-> j.text, by |-> cache] : j \in ok}]
    BY <1>7 DEF Embed
  <2>1a. PICK ok \in SUBSET b :
          req' = [req EXCEPT ![r].win = @ \ b, ![r].got = @ \cup
                    {[id |-> j.id, n |-> j.n, text |-> j.text, by |-> cache] : j \in ok}]
    BY <2>1
  <2> DEFINE new == {[id |-> j.id, n |-> j.n, text |-> j.text, by |-> cache] : j \in ok}
             q2 == [q EXCEPT !.win = @ \ b, !.got = @ \cup new]
  <2>2. req' = [req EXCEPT ![r] = q2] /\ Local /\ q.at = here
    BY <1>7, <2>1a DEF Embed, At, IInv, TypeOK
  <2>3. q.win \in SUBSET Job
    BY <1>1 DEF Request
  <2>4. new \in SUBSET Vector
    BY <1>1, <2>3 DEF Job, Vector
  <2> HIDE DEF new
  <2>5. q2 \in Request
    BY <1>1, <2>3, <2>4 DEF Request
  <2>6. q2.at = here /\ q2.id = q.id /\ q2.title = q.title /\ q2.label = q.label
    BY <1>1, <2>2 DEF Request
  <2> HIDE DEF q2
  <2>7. ReqShape(q2)
    BY <1>1, <2>2, <2>6 DEF ReqShape, PublishLabels
  <2> QED
    BY <1>2, <2>2, <2>5, <2>6, <2>7, LocalStep DEF PublishLabels, Targets
<1>8. CASE PublishWindow(r)
  <2>1. PICK w \in SUBSET q.todo :
          req' = [req EXCEPT ![r].at = "call", ![r].win = w, ![r].todo = @ \ w]
    BY <1>8 DEF PublishWindow
  <2> DEFINE q2 == [q EXCEPT !.at = "call", !.win = w, !.todo = @ \ w]
  <2>2. req' = [req EXCEPT ![r] = q2] /\ Local /\ q.at = "embed"
    BY <1>8, <2>1 DEF PublishWindow, At, IInv, TypeOK
  <2>3. q.todo \in SUBSET Job
    BY <1>1 DEF Request
  <2>4. q2 \in Request
    BY <1>1, <2>3 DEF Request, Labels
  <2>5. q2.at = "call" /\ q2.id = q.id /\ q2.title = q.title /\ q2.label = q.label
    BY <1>1 DEF Request
  <2> HIDE DEF q2
  <2>6. ReqShape(q2)
    BY <1>1, <2>2, <2>5 DEF ReqShape, PublishLabels
  <2> QED
    BY <1>2, <2>2, <2>4, <2>5, <2>6, LocalStep DEF PublishLabels, Targets
<1>9. ASSUME NEW here, NEW next, At(r, here), Goto(r, next), Local,
             <<here, next>> \in {<<"store", "embed">>, <<"call", "store">>, <<"recall", "restore">>, <<"embed", "lock">>}
      PROVE  IInv'
  <2> DEFINE q2 == [q EXCEPT !.at = next]
  <2>1. req' = [req EXCEPT ![r] = q2] /\ Local /\ q.at = here
    BY <1>9 DEF Goto, At, IInv, TypeOK
  <2>2. q2 \in Request
    BY <1>1, <1>9 DEF Request, Labels
  <2>3. q2.at = next /\ q2.id = q.id /\ q2.title = q.title /\ q2.label = q.label
    BY <1>1 DEF Request
  <2> HIDE DEF q2
  <2>4. ReqShape(q2)
    BY <1>1, <1>9, <2>1, <2>3 DEF ReqShape, PublishLabels
  <2> QED
    BY <1>2, <1>9, <2>1, <2>2, <2>3, <2>4, LocalStep DEF PublishLabels, Targets
<1> QED
  BY <1>3, <1>4, <1>5, <1>6, <1>7, <1>8, <1>9 DEF AllEmbedded, WindowDone, EmbedReturn

(***************************************************************************)
(* The transaction of a publication up to its commit.                      *)
(***************************************************************************)
LEMMA LockStep == ASSUME IInv, NEW r \in Reqs, PublishLock(r) PROVE IInv'
<1> DEFINE q2 == [req[r] EXCEPT !.at = "archive"]
<1>1. req[r] \in Request /\ ReqShape(req[r]) /\ req[r].at = "lock" /\ Local
  BY DEF IInv, TypeOK, Shape, PublishLock, At
<1>2. req' = [req EXCEPT ![r] = q2]
  BY DEF PublishLock, Goto, IInv, TypeOK
<1>3. q2 \in Request
  BY <1>1 DEF Request, Labels
<1>4. q2.at = "archive" /\ q2.id = req[r].id /\ q2.title = req[r].title
  BY <1>1 DEF Request
<1> HIDE DEF q2
<1>5. ReqShape(q2)
  BY <1>1, <1>4 DEF ReqShape, PublishLabels
<1>6. \A s \in Reqs : req[s].at \in {"archive", "commit"} => req[s].title # q2.title
  BY <1>4 DEF PublishLock, LockFree, Holds
<1>7. Targets(q2, files[q2.id])
  BY <1>1, <1>4 DEF IInv, TxInv, TargetInv, Targets, PublishLabels
<1> QED
  BY <1>1, <1>2, <1>3, <1>4, <1>5, <1>6, <1>7, LocalStep

LEMMA ArchiveStep == ASSUME IInv, NEW r \in Reqs, PublishArchive(r) PROVE IInv'
<1> DEFINE others == InService(req[r].title, req[r].id)
           q2 == [req[r] EXCEPT !.at = "commit", !.arch = others]
<1>1. req[r] \in Request /\ ReqShape(req[r]) /\ req[r].at = "archive" /\ Local
  BY DEF IInv, TypeOK, Shape, PublishArchive, At
<1>2. req' = [req EXCEPT ![r] = q2]
  BY DEF PublishArchive, IInv, TypeOK
<1>3. /\ others \in SUBSET Ids
      /\ \A j \in Ids : j \in others <=> (j # req[r].id /\ Serves(files[j], req[r].title))
  BY DEF InService, Published, Versions, Exists, Serves
<1>4. q2 \in Request
  BY <1>1, <1>3 DEF Request, Labels
<1>5. q2.at = "commit" /\ q2.id = req[r].id /\ q2.title = req[r].title /\ q2.arch = others
  BY <1>1, <1>3 DEF Request
<1> HIDE DEF q2, others
<1>6. ReqShape(q2)
  BY <1>1, <1>5 DEF ReqShape, PublishLabels
<1>7. \A s \in Reqs \ {r} : req[s].at \in {"archive", "commit"} => req[s].title # q2.title
  BY <1>1, <1>5 DEF IInv, TxInv, LockInv
<1>8. Targets(q2, files[q2.id])
  BY <1>1, <1>5 DEF IInv, TxInv, TargetInv, Targets, PublishLabels
<1> QED
  BY <1>1, <1>2, <1>3, <1>4, <1>5, <1>6, <1>7, <1>8, LocalStep

(***************************************************************************)
(* Statements on chunks leave the versions and the lock alone.             *)
(***************************************************************************)
LEMMA ChunkStep ==
  ASSUME IInv, NEW r \in Reqs, NEW q \in Request, req' = [req EXCEPT ![r] = q],
         ReqShape(q), q.at \in {"idle", "store", "restore"},
         q.at = "store" => req[r].at = "store" /\ q.id = req[r].id /\ q.title = req[r].title,
         UNCHANGED <<files, setting>>,
         chunks' \in [Ids -> [Chunks -> ChunkRow]],
         \A i \in Ids : \A n \in Chunks : chunks'[i][n].live => chunks'[i][n].text \in Texts
  PROVE  IInv'
<1> USE DEF IInv
<1>1. TypeOK'
  BY DEF TypeOK, setting
<1>2. \A s \in Reqs : req'[s] = IF s = r THEN q ELSE req[s]
  BY DEF TypeOK
<1>3. Shape'
  BY <1>2 DEF Shape, Exists
<1>4. TargetInv'
  BY <1>2 DEF TxInv, TargetInv, Targets, PublishLabels
<1>5. LockInv'
  BY <1>2 DEF TxInv, LockInv
<1>6. ArchiveInv'
  BY <1>2 DEF TxInv, ArchiveInv
<1>7. (AtMostOnePublished /\ PublishedAtAgrees)'
  BY DEF AtMostOnePublished, PublishedAtAgrees
<1> QED
  BY <1>1, <1>3, <1>4, <1>5, <1>6, <1>7 DEF TxInv

LEMMA ChunkStatements ==
  ASSUME IInv, NEW r \in Reqs,
         UpdateChunk(r) \/ DeleteChunk(r) \/ Store(r, "store") \/ Store(r, "restore")
  PROVE  IInv'
<1>1. /\ req[r] \in Request /\ ReqShape(req[r])
      /\ chunks \in [Ids -> [Chunks -> ChunkRow]]
      /\ \A i \in Ids : \A n \in Chunks : chunks[i][n].live => chunks[i][n].text \in Texts
  BY DEF IInv, TypeOK, Shape
<1>2. IdleReq.at = "idle" /\ NoChunk \in ChunkRow /\ ~NoChunk.live
  BY DEF IdleReq, NoChunk, ChunkRow
<1>3. CASE UpdateChunk(r)
  <2> DEFINE i == req[r].id  n == req[r].n  x == req[r].text
  <2>1. i \in Ids /\ n \in Chunks /\ x \in Texts
    BY <1>1, <1>3 DEF UpdateChunk, At, ReqShape
  <2>2. chunks[i][n] \in ChunkRow
    BY <1>1, <2>1
  <2>3. Corrected(chunks[i][n], x) \in ChunkRow /\ Corrected(chunks[i][n], x).text = x
    BY <2>1, <2>2 DEF Corrected, ChunkRow
  <2>4. chunks' = chunks \/ chunks' = [chunks EXCEPT ![i][n] = Corrected(chunks[i][n], x)]
    BY <1>3 DEF UpdateChunk
  <2>5. chunks' \in [Ids -> [Chunks -> ChunkRow]]
    BY <1>1, <2>1, <2>3, <2>4
  <2>6. \A j \in Ids : \A m \in Chunks :
           chunks'[j][m] = chunks[j][m] \/ chunks'[j][m] = Corrected(chunks[i][n], x)
    BY <1>1, <2>1, <2>4
  <2>7. \A j \in Ids : \A m \in Chunks : chunks'[j][m].live => chunks'[j][m].text \in Texts
    BY <1>1, <2>1, <2>3, <2>6
  <2> QED
    BY <1>2, <1>3, <2>5, <2>7, IdleIsRequest, ChunkStep DEF UpdateChunk, Finish
<1>4. CASE DeleteChunk(r)
  <2>1. req[r].id \in Ids /\ req[r].n \in Chunks
    BY <1>1, <1>4 DEF DeleteChunk, At, ReqShape
  <2>2. chunks' = [chunks EXCEPT ![req[r].id][req[r].n] = NoChunk]
    BY <1>4 DEF DeleteChunk
  <2>3. chunks' \in [Ids -> [Chunks -> ChunkRow]]
    BY <1>1, <1>2, <2>1, <2>2
  <2>4. \A j \in Ids : \A m \in Chunks : chunks'[j][m] = chunks[j][m] \/ chunks'[j][m] = NoChunk
    BY <1>1, <2>1, <2>2
  <2>5. \A j \in Ids : \A m \in Chunks : chunks'[j][m].live => chunks'[j][m].text \in Texts
    BY <1>1, <1>2, <2>4
  <2> QED
    BY <1>2, <1>4, <2>3, <2>5, IdleIsRequest, ChunkStep DEF DeleteChunk, Finish
<1>5. ASSUME NEW here \in {"store", "restore"}, Store(r, here) PROVE IInv'
  <2>1. PICK v \in req[r].got :
          IF ModelOf[v.by] \in Fits
            THEN /\ StoreVector(v, req[r].label)
                 /\ req' = [req EXCEPT ![r].got = @ \ {v}]
            ELSE Finish(r) /\ UNCHANGED chunks
    BY <1>5 DEF Store
  <2>2. req[r].at = here /\ UNCHANGED <<files, setting>>
    BY <1>5 DEF Store, At
  <2>3. v.id \in Ids /\ v.n \in Chunks /\ v.text \in Texts /\ v.by \in Writes /\ req[r].label \in Writes
    BY <1>1, <2>2 DEF Request, Vector, ReqShape
  <2>4. CASE ModelOf[v.by] \notin Fits
    BY <1>1, <1>2, <2>1, <2>2, <2>4, IdleIsRequest, ChunkStep DEF Finish
  <2>5. CASE ModelOf[v.by] \in Fits
    <3> DEFINE e == [text |-> v.text, by |-> v.by, label |-> req[r].label]
               row == [chunks[v.id][v.n] EXCEPT !.emb = e]
               q2 == [req[r] EXCEPT !.got = @ \ {v}]
    <3>1. chunks' = chunks \/ chunks' = [chunks EXCEPT ![v.id][v.n] = row]
      BY <1>1, <2>1, <2>3, <2>5 DEF StoreVector
    <3>2. chunks[v.id][v.n] \in ChunkRow
      BY <1>1, <2>3
    <3>3. e \in Embedding
      BY <2>3 DEF Embedding
    <3> HIDE DEF e
    <3>4. row \in ChunkRow /\ row.live = chunks[v.id][v.n].live /\ row.text = chunks[v.id][v.n].text
      BY <3>2, <3>3 DEF ChunkRow
    <3> HIDE DEF row
    <3>5. chunks' \in [Ids -> [Chunks -> ChunkRow]]
      BY <1>1, <2>3, <3>1, <3>4
    <3>6. \A j \in Ids : \A m \in Chunks :
            chunks'[j][m] = chunks[j][m] \/ (j = v.id /\ m = v.n /\ chunks'[j][m] = row)
      BY <1>1, <2>3, <3>1
    <3>7. \A j \in Ids : \A m \in Chunks : chunks'[j][m].live => chunks'[j][m].text \in Texts
      BY <1>1, <2>3, <3>4, <3>6
    <3>8. req' = [req EXCEPT ![r] = q2]
      BY <2>1, <2>5 DEF IInv, TypeOK
    <3>9. q2 \in Request
      BY <1>1 DEF Request
    <3>10. q2.at = here /\ q2.id = req[r].id /\ q2.title = req[r].title /\ q2.label = req[r].label
      BY <1>1, <2>2 DEF Request
    <3> HIDE DEF q2
    <3>11. ReqShape(q2)
      BY <1>1, <2>2, <3>10 DEF ReqShape, PublishLabels
    <3> QED
      BY <2>2, <3>5, <3>7, <3>8, <3>9, <3>10, <3>11, ChunkStep
  <2> QED
    BY <2>4, <2>5
<1> QED
  BY <1>3, <1>4, <1>5

(***************************************************************************)
(* Statements on versions: each ends its request, never revives a row, and *)
(* leaves alone the rows another publication has locked.                   *)
(***************************************************************************)
LEMMA FilesStep ==
  ASSUME IInv, NEW r \in Reqs, req' = [req EXCEPT ![r] = IdleReq], UNCHANGED setting,
         files' \in [Ids -> FileRow],
         \A i \in Ids : Exists(i)' => files'[i].title \in Titles,
         \A i \in Ids : files[i].st # "unborn" =>
            /\ files'[i].st # "unborn"
            /\ files'[i].st # "deleted" => files[i].st # "deleted" /\ files'[i].title = files[i].title,
         \A s \in Reqs \ {r} : req[s].at = "commit" =>
            \A j \in Ids \ {req[s].id} : Serves(files'[j], req[s].title) <=> Serves(files[j], req[s].title),
         AtMostOnePublished', PublishedAtAgrees',
         chunks' \in [Ids -> [Chunks -> ChunkRow]],
         \A i \in Ids : \A n \in Chunks : chunks'[i][n].live => chunks'[i][n].text \in Texts
  PROVE  IInv'
<1> USE DEF IInv
<1>1. TypeOK'
  BY IdleIsRequest DEF TypeOK, setting
<1>2. \A s \in Reqs : req'[s] = IF s = r THEN IdleReq ELSE req[s]
  BY DEF TypeOK
<1>3. IdleReq.at = "idle"
  BY DEF IdleReq
<1>4. Shape'
  BY <1>2, IdleIsRequest DEF Shape
<1>5. TargetInv'
  <2> SUFFICES ASSUME NEW s \in Reqs, req'[s].at \in PublishLabels
               PROVE  Targets(req'[s], files'[req'[s].id])
    BY DEF TargetInv
  <2>1. s # r /\ req'[s] = req[s]
    BY <1>2, <1>3 DEF PublishLabels
  <2>2. req[s].id \in Ids
    BY <2>1 DEF Shape, ReqShape, PublishLabels
  <2> QED
    BY <2>1, <2>2 DEF TxInv, TargetInv, Targets
<1>6. LockInv'
  BY <1>2, <1>3 DEF TxInv, LockInv
<1>7. ArchiveInv'
  <2> SUFFICES ASSUME NEW s \in Reqs, req'[s].at = "commit", NEW j \in Ids
               PROVE  j \in req'[s].arch <=> (j # req'[s].id /\ Serves(files'[j], req'[s].title))
    BY DEF ArchiveInv
  <2>1. s \in Reqs \ {r} /\ req'[s] = req[s]
    BY <1>2, <1>3
  <2> QED
    BY <2>1 DEF TxInv, ArchiveInv
<1> QED
  BY <1>1, <1>4, <1>5, <1>6, <1>7 DEF TxInv

\* facts of the state before any statement on versions
LEMMA Before ==
  ASSUME IInv, NEW r \in Reqs
  PROVE  /\ req[r] \in Request /\ ReqShape(req[r])
         /\ files \in [Ids -> FileRow]
         /\ chunks \in [Ids -> [Chunks -> ChunkRow]]
         /\ \A i \in Ids : Exists(i) => files[i].title \in Titles
         /\ \A i \in Ids : \A n \in Chunks : chunks[i][n].live => chunks[i][n].text \in Texts
         /\ req[r].at \in PublishLabels => Targets(req[r], files[req[r].id])
  BY DEF IInv, TypeOK, Shape, TxInv, TargetInv

\* a row nobody else has locked is not among those another publication will archive
LEMMA FreeRowNotArchived ==
  ASSUME IInv, NEW r \in Reqs, NEW i \in Ids, RowFree(r, i), NEW s \in Reqs \ {r},
         req[s].at = "commit", i # req[s].id
  PROVE  ~Serves(files[i], req[s].title)
  BY DEF IInv, TxInv, ArchiveInv, RowFree

LEMMA UploadStep == ASSUME IInv, NEW r \in Reqs, UploadInsert(r) PROVE IInv'
<1>1. PICK i \in Ids :
        /\ files[i].st = "unborn"
        /\ files' = [files EXCEPT ![i] = [st |-> "draft", title |-> req[r].title,
                        ver |-> req[r].ver, pubAt |-> FALSE, path |-> None]]
        /\ \E x \in Texts : chunks' = [chunks EXCEPT ![i] =
                [n \in Chunks |-> [live |-> TRUE, text |-> x, emb |-> None]]]
  BY DEF UploadInsert
<1>2. PICK x \in Texts :
        chunks' = [chunks EXCEPT ![i] = [n \in Chunks |-> [live |-> TRUE, text |-> x, emb |-> None]]]
  BY <1>1
<1> DEFINE row == [st |-> "draft", title |-> req[r].title, ver |-> req[r].ver, pubAt |-> FALSE, path |-> None]
<1>3. req[r].title \in Titles /\ row \in FileRow
  BY Before DEF UploadInsert, At, ReqShape, FileRow, Status, Request
<1>4. \A j \in Ids : files'[j] = IF j = i THEN row ELSE files[j]
  BY <1>1, Before
<1>5. row.st = "draft" /\ row.title = req[r].title /\ row.pubAt = FALSE
  OBVIOUS
<1>6. files' \in [Ids -> FileRow]
  BY <1>1, <1>3, Before
<1> HIDE DEF row
<1>7. \A j \in Ids : Exists(j)' => files'[j].title \in Titles
  BY <1>3, <1>4, <1>5, Before DEF Exists
<1>8. \A j \in Ids, t \in Titles : Serves(files'[j], t) <=> Serves(files[j], t)
  BY <1>1, <1>4, <1>5 DEF Serves
<1>9. AtMostOnePublished' /\ PublishedAtAgrees'
  BY <1>4, <1>5 DEF IInv, AtMostOnePublished, PublishedAtAgrees
<1>10. /\ chunks' \in [Ids -> [Chunks -> ChunkRow]]
       /\ \A j \in Ids : \A n \in Chunks : chunks'[j][n].live => chunks'[j][n].text \in Texts
  <2> DEFINE new == [live |-> TRUE, text |-> x, emb |-> None]
  <2>1. new \in ChunkRow /\ new.text \in Texts
    BY DEF ChunkRow
  <2>2. chunks' = [chunks EXCEPT ![i] = [n \in Chunks |-> new]]
    BY <1>2
  <2> HIDE DEF new
  <2> QED
    BY <2>1, <2>2, Before
<1>11. req' = [req EXCEPT ![r] = IdleReq] /\ UNCHANGED setting
  BY DEF UploadInsert, Finish
<1>12. \A s \in Reqs : req[s].at = "commit" => req[s].title \in Titles
  BY Before DEF ReqShape, PublishLabels
<1> QED
  BY <1>1, <1>4, <1>6, <1>7, <1>8, <1>9, <1>10, <1>11, <1>12, FilesStep

LEMMA UnpublishStep == ASSUME IInv, NEW r \in Reqs, UnpublishWrite(r) PROVE IInv'
<1> DEFINE i == req[r].id
<1>1. i \in Ids
  BY Before DEF UnpublishWrite, At, ReqShape
<1>2. RowFree(r, i) /\ files' = IF Exists(i) THEN [files EXCEPT ![i] = DraftRow(@)] ELSE files
  BY DEF UnpublishWrite
<1>3. \A j \in Ids : files'[j] = IF j = i /\ Exists(i) THEN DraftRow(files[j]) ELSE files[j]
  BY <1>1, <1>2, Before
<1>4. \A f \in FileRow : /\ DraftRow(f) \in FileRow /\ DraftRow(f).st = "draft"
                         /\ DraftRow(f).title = f.title /\ DraftRow(f).pubAt = FALSE
  BY DEF DraftRow, FileRow, Status
<1>5. files' \in [Ids -> FileRow]
  BY <1>1, <1>2, <1>4, Before
<1>6. \A j \in Ids : /\ files'[j].title = files[j].title
                     /\ files'[j].st = "unborn" <=> files[j].st = "unborn"
                     /\ Exists(j)' <=> Exists(j)
                     /\ files'[j].st = "published" => files[j].st = "published"
                     /\ j # i => files'[j] = files[j]
  BY <1>3, <1>4, Before DEF Exists
<1>7. ASSUME NEW s \in Reqs \ {r}, req[s].at = "commit"
      PROVE  \A j \in Ids \ {req[s].id} : Serves(files'[j], req[s].title) <=> Serves(files[j], req[s].title)
  BY <1>1, <1>2, <1>6, <1>7, FreeRowNotArchived DEF Serves
<1>8. AtMostOnePublished'
  BY <1>6 DEF IInv, AtMostOnePublished
<1>9. PublishedAtAgrees'
  BY <1>3, <1>4, Before DEF IInv, PublishedAtAgrees
<1>10. req' = [req EXCEPT ![r] = IdleReq] /\ UNCHANGED setting /\ UNCHANGED chunks
  BY DEF UnpublishWrite, Finish
<1> QED
  BY <1>5, <1>6, <1>7, <1>8, <1>9, <1>10, Before, FilesStep DEF Exists

LEMMA DeleteStep == ASSUME IInv, NEW r \in Reqs, DeleteWrite(r) PROVE IInv'
<1> DEFINE i == req[r].id
           gone == [Unborn EXCEPT !.st = "deleted"]
<1>1. i \in Ids
  BY Before DEF DeleteWrite, At, ReqShape
<1>2. /\ RowFree(r, i)
      /\ files' = [files EXCEPT ![i] = gone]
      /\ chunks' = [chunks EXCEPT ![i] = [n \in Chunks |-> NoChunk]]
  BY DEF DeleteWrite
<1>3. gone \in FileRow /\ gone.st = "deleted" /\ gone.pubAt = FALSE
  <2>1. 0 \in 0..MaxVersion
    BY ManualAssumption
  <2>2. Unborn \in FileRow
    BY <2>1 DEF Unborn, FileRow, Status
  <2> QED
    BY <2>2 DEF gone, Unborn, FileRow, Status
<1> HIDE DEF gone
<1>4. \A j \in Ids : files'[j] = IF j = i THEN gone ELSE files[j]
  BY <1>1, <1>2, Before
<1>5. files' \in [Ids -> FileRow]
  BY <1>1, <1>2, <1>3, Before
<1>6. \A j \in Ids : /\ files'[j].st = "unborn" => files[j].st = "unborn"
                     /\ Exists(j)' => j # i /\ Exists(j) /\ files'[j].title = files[j].title
                     /\ j # i => files'[j] = files[j]
  BY <1>3, <1>4, Before DEF Exists
<1>7. ASSUME NEW s \in Reqs \ {r}, req[s].at = "commit"
      PROVE  \A j \in Ids \ {req[s].id} : Serves(files'[j], req[s].title) <=> Serves(files[j], req[s].title)
  BY <1>1, <1>2, <1>3, <1>4, <1>7, FreeRowNotArchived DEF Serves
<1>8. AtMostOnePublished' /\ PublishedAtAgrees'
  BY <1>3, <1>4 DEF IInv, AtMostOnePublished, PublishedAtAgrees
<1>9. /\ chunks' \in [Ids -> [Chunks -> ChunkRow]]
      /\ \A j \in Ids : \A n \in Chunks : chunks'[j][n].live => chunks'[j][n].text \in Texts
  <2>1. NoChunk \in ChunkRow /\ ~NoChunk.live
    BY DEF NoChunk, ChunkRow
  <2> QED
    BY <1>2, <2>1, Before
<1>10. req' = [req EXCEPT ![r] = IdleReq] /\ UNCHANGED setting
  BY DEF DeleteWrite, Finish
<1> QED
  BY <1>5, <1>6, <1>7, <1>8, <1>9, <1>10, Before, FilesStep DEF Exists

LEMMA PathStep == ASSUME IInv, NEW r \in Reqs, PathWrite(r) PROVE IInv'
<1>1. req[r].path \in Paths \cup {None} /\ req[r].at = "path"
  BY Before DEF PathWrite, At, Request
<1>2. \A j \in Ids : files'[j] = files[j] \/ files'[j] = [files[j] EXCEPT !.path = req[r].path]
  BY DEF PathWrite
<1>3. \A j \in Ids : /\ files'[j] \in FileRow
                     /\ files'[j].st = files[j].st /\ files'[j].title = files[j].title
                     /\ files'[j].pubAt = files[j].pubAt
  <2> SUFFICES ASSUME NEW j \in Ids
               PROVE  /\ files'[j] \in FileRow
                      /\ files'[j].st = files[j].st /\ files'[j].title = files[j].title
                      /\ files'[j].pubAt = files[j].pubAt
    OBVIOUS
  <2> DEFINE row == [files[j] EXCEPT !.path = req[r].path]
  <2>1. files[j] \in FileRow
    BY Before
  <2>2. row \in FileRow /\ row.st = files[j].st /\ row.title = files[j].title /\ row.pubAt = files[j].pubAt
    BY <1>1, <2>1 DEF FileRow
  <2>3. files'[j] = files[j] \/ files'[j] = row
    BY <1>2
  <2> HIDE DEF row
  <2> QED
    BY <2>1, <2>2, <2>3
<1>4. files' \in [Ids -> FileRow]
  BY <1>3 DEF PathWrite
<1>5. \A j \in Ids : Exists(j)' <=> Exists(j)
  BY <1>3 DEF Exists
<1>6. \A j \in Ids : \A t : Serves(files'[j], t) <=> Serves(files[j], t)
  BY <1>3 DEF Serves
<1>7. AtMostOnePublished' /\ PublishedAtAgrees'
  BY <1>3 DEF IInv, AtMostOnePublished, PublishedAtAgrees
<1>8. req' = [req EXCEPT ![r] = IdleReq] /\ UNCHANGED setting /\ UNCHANGED chunks
  BY DEF PathWrite, Finish
<1> QED
  BY <1>3, <1>4, <1>5, <1>6, <1>7, <1>8, Before, FilesStep

(***************************************************************************)
(* The commit of a publication.                                            *)
(***************************************************************************)
\* what the commit does to each row: the archived rows are the other published versions of
\* the title, so exactly the published row remains
LEMMA CommitRows ==
  ASSUME IInv, NEW r \in Reqs, PublishCommit(r)
  PROVE  /\ req[r].id \in Ids /\ req[r].title \in Titles
         /\ files' \in [Ids -> FileRow]
         /\ \A j \in Ids : /\ files'[j].title = files[j].title
                           /\ files'[j].st = "unborn" <=> files[j].st = "unborn"
                           /\ files'[j].st = "deleted" <=> files[j].st = "deleted"
         /\ PublishedAtAgrees'
         /\ \A j \in Ids : (Exists(j) /\ files[j].title # req[r].title) => files'[j] = files[j]
         /\ \A j \in Ids : (files'[j].st = "published" /\ files[j].title = req[r].title) => j = req[r].id
         /\ Exists(req[r].id) => /\ files'[req[r].id].st = "published"
                                 /\ files[req[r].id].title = req[r].title
<1> DEFINE i == req[r].id  t == req[r].title
<1>1. i \in Ids /\ t \in Titles /\ req[r].at = "commit"
  BY Before DEF PublishCommit, At, ReqShape, PublishLabels
<1>2. /\ \A j \in Ids : j \in req[r].arch <=> (j # i /\ Serves(files[j], t))
      /\ Targets(req[r], files[i])
      /\ Exists(i) => files[i].title = t
  BY <1>1, Before DEF PublishLabels, IInv, TxInv, ArchiveInv, Targets, Exists
<1>3. files' = [j \in Ids |->
                   CASE j \in req[r].arch -> [files[j] EXCEPT !.st = "archived"]
                     [] j = i /\ Exists(j) -> PublishedRow(files[j])
                     [] OTHER -> files[j]]
  BY DEF PublishCommit
<1> HIDE DEF i, t
<1>4. \A f \in FileRow : /\ PublishedRow(f) \in FileRow /\ PublishedRow(f).st = "published"
                         /\ PublishedRow(f).title = f.title /\ PublishedRow(f).pubAt = TRUE
  BY DEF PublishedRow, FileRow, Status
<1>5. \A j \in Ids : /\ (j # i /\ Serves(files[j], t)) => files'[j] = [files[j] EXCEPT !.st = "archived"]
                     /\ (j = i /\ Exists(j)) => files'[j] = PublishedRow(files[j])
                     /\ (j # i /\ ~Serves(files[j], t)) \/ (j = i /\ ~Exists(j)) => files'[j] = files[j]
  BY <1>2, <1>3
<1>6. ASSUME NEW j \in Ids
      PROVE  /\ files'[j] \in FileRow
             /\ files'[j].title = files[j].title
             /\ files'[j].st = "unborn" <=> files[j].st = "unborn"
             /\ files'[j].st = "deleted" <=> files[j].st = "deleted"
             /\ files'[j].pubAt <=> files'[j].st \in {"published", "archived"}
             /\ (Exists(j) /\ files[j].title # t) => files'[j] = files[j]
             /\ (files'[j].st = "published" /\ files[j].title = t) => j = i
  <2>1. files[j] \in FileRow /\ (files[j].pubAt <=> files[j].st \in {"published", "archived"})
    BY Before DEF IInv, PublishedAtAgrees
  <2>2. CASE j # i /\ Serves(files[j], t)
    <3> DEFINE row == [files[j] EXCEPT !.st = "archived"]
    <3>1. row \in FileRow /\ row.st = "archived" /\ row.title = files[j].title /\ row.pubAt = files[j].pubAt
      BY <2>1 DEF FileRow, Status
    <3>2. files'[j] = row
      BY <1>5, <2>2
    <3> HIDE DEF row
    <3> QED
      BY <2>1, <2>2, <3>1, <3>2 DEF Serves
  <2>3. CASE j = i /\ Exists(j)
    <3>1. files'[j] = PublishedRow(files[j])
      BY <1>5, <2>3
    <3>2. files[j].title = t /\ files[j].st \notin {"unborn", "deleted"}
      BY <1>2, <2>3 DEF Exists
    <3> QED
      BY <1>4, <2>1, <2>3, <3>1, <3>2
  <2>4. CASE (j # i /\ ~Serves(files[j], t)) \/ (j = i /\ ~Exists(j))
    BY <1>5, <2>1, <2>4 DEF Serves
  <2> QED
    BY <2>2, <2>3, <2>4
<1>7. files' \in [Ids -> FileRow]
  BY <1>3, <1>6
<1>8. PublishedAtAgrees'
  BY <1>6 DEF PublishedAtAgrees
<1>9. Exists(i) => files'[i].st = "published" /\ files[i].title = t
  <2> SUFFICES ASSUME Exists(i) PROVE files'[i].st = "published" /\ files[i].title = t
    OBVIOUS
  <2>1. files'[i] = PublishedRow(files[i]) /\ files[i] \in FileRow
    BY <1>1, <1>5, Before
  <2> QED
    BY <1>2, <1>4, <2>1
<1> QED
  BY <1>1, <1>6, <1>7, <1>8, <1>9 DEF i, t

LEMMA CommitStep == ASSUME IInv, NEW r \in Reqs, PublishCommit(r) PROVE IInv'
<1>1. ASSUME NEW s \in Reqs \ {r}, req[s].at = "commit"
      PROVE  \A j \in Ids \ {req[s].id} : Serves(files'[j], req[s].title) <=> Serves(files[j], req[s].title)
  <2>1. req[s].title # req[r].title
    BY <1>1 DEF IInv, TxInv, LockInv, PublishCommit, At
  <2> QED
    BY <2>1, CommitRows DEF Serves, Exists
<1>2. AtMostOnePublished'
  BY CommitRows DEF IInv, AtMostOnePublished, Exists
<1>3. req' = [req EXCEPT ![r] = IdleReq] /\ UNCHANGED setting /\ UNCHANGED chunks
  BY DEF PublishCommit, Finish
<1>4. \A j \in Ids : Exists(j)' => files'[j].title \in Titles
  BY CommitRows, Before DEF Exists
<1> QED
  BY <1>1, <1>2, <1>3, <1>4, CommitRows, Before, FilesStep

LEMMA SettingStep == ASSUME IInv, SetModel \/ RefreshFetch \/ RefreshStore PROVE IInv'
<1> USE DEF IInv
<1>1. UNCHANGED <<files, chunks, req>>
  BY DEF SetModel, RefreshFetch, RefreshStore
<1>2. TypeOK'
  BY <1>1, ManualAssumption DEF TypeOK, SetModel, RefreshFetch, RefreshStore, Writes
<1>3. Shape' /\ TxInv'
  BY <1>1 DEF Shape, TxInv, TargetInv, LockInv, ArchiveInv, Exists, Published, Versions
<1>4. AtMostOnePublished' /\ PublishedAtAgrees'
  BY <1>1 DEF AtMostOnePublished, PublishedAtAgrees
<1> QED
  BY <1>2, <1>3, <1>4

LEMMA NextIInv == IInv /\ [Next]_vars => IInv'
<1> SUFFICES ASSUME IInv, [Next]_vars PROVE IInv'
  OBVIOUS
<1>1. CASE UNCHANGED vars
  <2>1. UNCHANGED <<files, chunks, req, model, cache, fetched>>
    BY <1>1 DEF vars, setting
  <2> QED
    BY <2>1 DEF IInv, TypeOK, Shape, TxInv, TargetInv, LockInv, ArchiveInv, Exists, Published, Versions,
                AtMostOnePublished, PublishedAtAgrees
<1>2. CASE SetModel \/ RefreshFetch \/ RefreshStore
  BY <1>2, SettingStep
<1>3. ASSUME NEW r \in Reqs, Call(r) \/ Advance(r) \/ Abort(r) PROVE IInv'
  BY <1>3, CallStep, ReadStep, LockStep, ArchiveStep, CommitStep, ChunkStatements, UploadStep,
     UnpublishStep, DeleteStep, PathStep DEF Advance
<1> QED
  BY <1>1, <1>2, <1>3 DEF Next

(***************************************************************************)
(* The theorems.                                                           *)
(***************************************************************************)

\* Every reachable state satisfies the inductive invariant, whatever requests overlap.
THEOREM Invariance == Spec => []IInv
  BY InitIInv, NextIInv, PTL DEF Spec

\* The tables and the requests always have their types.
THEOREM TypeCorrect == Spec => []TypeOK
<1>1. IInv => TypeOK
  BY DEF IInv
<1> QED
  BY <1>1, Invariance, PTL

\* The advisory lock of publish_manual keeps one published version per title, for any
\* number of overlapping publications, withdrawals and deletions.
THEOREM OnePublishedPerTitle == Spec => []AtMostOnePublished
<1>1. IInv => AtMostOnePublished
  BY DEF IInv
<1> QED
  BY <1>1, Invariance, PTL

\* published_at is set in exactly the rows in service or archived.
THEOREM PublishedAtCorrect == Spec => []PublishedAtAgrees
<1>1. IInv => PublishedAtAgrees
  BY DEF IInv
<1> QED
  BY <1>1, Invariance, PTL
-----------------------------------------------------------------------------
(***************************************************************************)
(* The handlers implement PublishedSlot.                                   *)
(***************************************************************************)
SlotOf == [t \in Titles |-> Published(t)]

LEMMA OneSlotChanges ==
  ASSUME NEW t \in Titles,
         \A u \in Titles \ {t} : Published(u)' = Published(u),
         \/ Published(t)' = Published(t)
         \/ Published(t)' = {}
         \/ \E i \in Ids : Published(t)' = {i} /\ \A u \in Titles : i \notin Published(u)
  PROVE  [Slot!SlotNext]_SlotOf
<1>1. CASE Published(t)' = Published(t)
  BY <1>1 DEF SlotOf
<1>2. CASE Published(t)' = {}
  <2>1. SlotOf' = [SlotOf EXCEPT ![t] = {}]
    BY <1>2 DEF SlotOf
  <2> QED
    BY <2>1 DEF SlotOf, Slot!SlotNext, Slot!Withdraw
<1>3. CASE \E i \in Ids : Published(t)' = {i} /\ \A u \in Titles : i \notin Published(u)
  <2>1. PICK i \in Ids : Published(t)' = {i} /\ \A u \in Titles : i \notin Published(u)
    BY <1>3
  <2>2. SlotOf' = [SlotOf EXCEPT ![t] = {i}]
    BY <2>1 DEF SlotOf
  <2>3. Slot!Publish(t, i)
    BY <2>1, <2>2 DEF SlotOf, Slot!Publish
  <2> QED
    BY <2>3 DEF Slot!SlotNext
<1> QED
  BY <1>1, <1>2, <1>3

\* at most one version is published, so withdrawing it empties the slot
LEMMA SlotIsSingle ==
  ASSUME IInv, NEW i \in Ids, files[i].st = "published"
  PROVE  /\ files[i].title \in Titles
         /\ Published(files[i].title) = {i}
         /\ \A u \in Titles : i \in Published(u) => u = files[i].title
  BY DEF IInv, AtMostOnePublished, Published, Versions, Exists, Shape

LEMMA StepRefines == IInv /\ [Next]_vars => [Slot!SlotNext]_SlotOf
<1> SUFFICES ASSUME IInv, [Next]_vars PROVE [Slot!SlotNext]_SlotOf
  OBVIOUS
<1>1. CASE UNCHANGED files
  BY <1>1 DEF SlotOf, Published, Versions, Exists
<1>2. ASSUME NEW r \in Reqs, UploadInsert(r) \/ PathWrite(r) PROVE [Slot!SlotNext]_SlotOf
  <2>1. CASE PathWrite(r)
    <3>1. \A j \in Ids : files'[j] = files[j] \/ files'[j] = [files[j] EXCEPT !.path = req[r].path]
      BY <2>1 DEF PathWrite
    <3>2. \A j \in Ids : files'[j].st = files[j].st /\ files'[j].title = files[j].title
      BY <3>1, Before DEF FileRow
    <3> QED
      BY <3>2 DEF SlotOf, Published, Versions, Exists
  <2>2. CASE UploadInsert(r)
    <3>1. PICK i \in Ids : /\ files[i].st = "unborn"
                           /\ files' = [files EXCEPT ![i] = [st |-> "draft", title |-> req[r].title,
                                           ver |-> req[r].ver, pubAt |-> FALSE, path |-> None]]
      BY <2>2 DEF UploadInsert
    <3>2. \A j \in Ids : j # i => files'[j] = files[j]
      BY <3>1, Before
    <3>3. files'[i].st = "draft"
      BY <3>1, Before
    <3> QED
      BY <3>1, <3>2, <3>3 DEF SlotOf, Published, Versions, Exists
  <2> QED
    BY <1>2, <2>1, <2>2
<1>3. ASSUME NEW r \in Reqs, UnpublishWrite(r) \/ DeleteWrite(r) PROVE [Slot!SlotNext]_SlotOf
  <2>1. PICK i \in Ids : i = req[r].id
    BY <1>3, Before DEF UnpublishWrite, DeleteWrite, At, ReqShape
  <2>2. \A j \in Ids \ {i} : files'[j] = files[j]
    BY <1>3, <2>1, Before DEF UnpublishWrite, DeleteWrite
  <2>3. files'[i].st # "published" \/ files' = files
    <3>1. CASE UnpublishWrite(r)
      BY <2>1, <3>1, Before DEF UnpublishWrite, DraftRow, FileRow
    <3>2. CASE DeleteWrite(r)
      BY <2>1, <3>2, Before DEF DeleteWrite, Unborn
    <3> QED
      BY <1>3, <3>1, <3>2
  <2>4. CASE files[i].st # "published"
    BY <2>1, <2>2, <2>3, <2>4 DEF SlotOf, Published, Versions, Exists
  <2>5. CASE files[i].st = "published" /\ files' # files
    <3>1. PICK t \in Titles : t = files[i].title
      BY <2>1, <2>5, SlotIsSingle
    <3>2. Published(t) = {i} /\ \A u \in Titles : i \in Published(u) => u = t
      BY <2>1, <2>5, <3>1, SlotIsSingle
    <3>3. Published(t)' = {}
      BY <2>1, <2>2, <2>3, <2>5, <3>2 DEF Published, Versions, Exists
    <3>4. \A u \in Titles \ {t} : Published(u)' = Published(u)
      BY <2>1, <2>2, <2>3, <2>5, <3>2 DEF Published, Versions, Exists
    <3> QED
      BY <3>3, <3>4, OneSlotChanges
  <2> QED
    BY <1>1, <2>4, <2>5
<1>4. ASSUME NEW r \in Reqs, PublishCommit(r) PROVE [Slot!SlotNext]_SlotOf
  <2>1. PICK i \in Ids, t \in Titles : i = req[r].id /\ t = req[r].title
    BY <1>4, CommitRows
  <2>2. \A u \in Titles \ {t} : Published(u)' = Published(u)
    BY <1>4, <2>1, CommitRows DEF Published, Versions, Exists
  <2>3. CASE ~Exists(i)
    <3>1. Published(t)' = {}
      BY <1>4, <2>1, <2>3, CommitRows DEF Published, Versions, Exists
    <3> QED
      BY <2>2, <3>1, OneSlotChanges
  <2>4. CASE Exists(i)
    <3>1. Published(t)' = {i} /\ files[i].title = t
      BY <1>4, <2>1, <2>4, CommitRows DEF Published, Versions, Exists
    <3>2. CASE files[i].st = "published"
      BY <2>1, <2>2, <3>1, <3>2, SlotIsSingle, OneSlotChanges
    <3>3. CASE files[i].st # "published"
      <4>1. \A u \in Titles : i \notin Published(u)
        BY <3>3 DEF Published, Versions
      <4> QED
        BY <2>1, <2>2, <3>1, <4>1, OneSlotChanges
    <3> QED
      BY <3>2, <3>3
  <2> QED
    BY <2>3, <2>4
<1>5. ASSUME NEW r \in Reqs, Call(r) PROVE UNCHANGED files
  BY <1>5 DEF Call, UploadReadMax, CheckEditable, PublishRead, UnpublishRead, DeleteRead, PathRead,
              ReembedReadConfig, Local
<1>6. ASSUME NEW r \in Reqs, Advance(r) \/ Abort(r)
      PROVE  \/ UNCHANGED files \/ UploadInsert(r) \/ PathWrite(r) \/ UnpublishWrite(r)
             \/ DeleteWrite(r) \/ PublishCommit(r)
  BY <1>6 DEF Advance, Abort, UpdateChunk, DeleteChunk, PublishReadConfig, PublishFetch, PublishWindow, Embed,
              EmbedReturn, Store, WindowDone, AllEmbedded, PublishLock, PublishArchive, ReembedFetch, ReembedDone, Local
<1>7. CASE UNCHANGED vars \/ SetModel \/ RefreshFetch \/ RefreshStore
  BY <1>1, <1>7 DEF vars, SetModel, RefreshFetch, RefreshStore
<1> QED
  BY <1>1, <1>2, <1>3, <1>4, <1>5, <1>6, <1>7 DEF Next

\* The handlers implement the abstract slots: searches see one version of a title at a
\* time, replaced or withdrawn in a single step.
THEOREM Refinement == Spec => RefinesSlot
<1>1. Init => Slot!SlotInit
  BY DEF Init, Slot!SlotInit, Published, Versions, Exists, Unborn
<1>2. IInv /\ [Next]_vars => [Slot!SlotNext]_([t \in Titles |-> Published(t)])
  BY StepRefines DEF SlotOf
<1> QED
  BY <1>1, <1>2, Invariance, PTL DEF Spec, RefinesSlot, Slot!SlotSpec
-----------------------------------------------------------------------------
(***************************************************************************)
(* The chunks and their embeddings.  What follows holds under conditions   *)
(* on the constants, each next to its theorem: without them the code has   *)
(* the races that the counterexamples of the configurations run by hand    *)
(* show.                                                                   *)
(***************************************************************************)
Alone   == \A r, q \in Reqs : r = q              \* requests do not overlap
Steady  == Alone \/ "edit" \notin Ops            \* nor corrections with anything
OneRefresh == MaxRefresh <= 1                    \* nor refreshes of the settings cache

\* Writes of the setting follow each other, so what was read later is not older: the label of a
\* request, then the model that made a vector, then the cache, then the setting.
Ages(q) ==
    /\ q.at = "config" => q.got = {}
    /\ q.label <= cache
    /\ \A v \in q.got : q.label <= v.by /\ v.by <= cache
Aged(c) == c.emb # None => c.emb.label <= c.emb.by /\ c.emb.by <= cache

Aging ==
    /\ cache <= model
    /\ \A m \in fetched : cache <= m /\ m <= model
    /\ \A m, k \in fetched : m = k
    /\ \A r \in Reqs : Ages(req[r])
    /\ \A i \in Ids : \A n \in Chunks : Aged(chunks[i][n])

\* what a request has read of a chunk is what is there, unless the chunk is gone
StillSo(j) ==
    /\ files[j.id].st # "unborn"
    /\ chunks[j.id][j.n].live => chunks[j.id][j.n].text = j.text
Jobs(q) == q.todo \cup q.win

TextInv ==
    /\ \A r \in Reqs : /\ \A j \in Jobs(req[r]) \cup req[r].got : StillSo(j)
                       /\ req[r].at = "edit" => "edit" \in Ops
    /\ \A i \in Ids : \A n \in Chunks : chunks[i][n].live => files[i].st # "unborn"
    /\ EmbeddingMatchesText

\* what a handler checked before its last statement still holds there
Guarded ==
    \A r \in Reqs :
        /\ req[r].at \in {"edit", "drop"} => files[req[r].id].st = "draft"
        /\ req[r].at \in PublishLabels => Exists(req[r].id) /\ files[req[r].id].st # "published"

(***************************************************************************)
(* Steps that only change the local variables of a request, from p to q    *)
(***************************************************************************)
ReadNow(j) == \E i \in Ids, n \in Chunks : chunks[i][n].live /\ j = JobsOf(i, n)
MadeNow(v, p) == v.by = cache /\ \E j \in p.win : v.id = j.id /\ v.n = j.n /\ v.text = j.text

Carried(p, q) ==
    /\ \A j \in Jobs(q) : j \in Jobs(p) \/ ReadNow(j)
    /\ \A v \in q.got : v \in p.got \/ MadeNow(v, p)
    /\ \/ q.label = p.label
       \/ (q.label = 0 \/ q.label = cache) /\ (p.at = "config" \/ q.got = {})
    /\ q.at = "config" => q.got = {}
    /\ q.at = "edit" => "edit" \in Ops
    /\ q.at \in {"edit", "drop"} => files[q.id].st = "draft"
    /\ q.at \in PublishLabels => \/ Exists(q.id) /\ files[q.id].st # "published"
                                 \/ p.at \in PublishLabels /\ q.id = p.id

LocalAction(r) ==
    \/ Call(r) \/ PublishReadConfig(r) \/ PublishFetch(r) \/ PublishWindow(r)
    \/ (\E here \in {"call", "recall"} : Embed(r, here))
    \/ EmbedReturn(r, "call", "store") \/ EmbedReturn(r, "recall", "restore")
    \/ WindowDone(r) \/ AllEmbedded(r) \/ PublishLock(r) \/ PublishArchive(r)
    \/ ReembedFetch(r) \/ ReembedDone(r) \/ Abort(r)

\* a request that begins, or that ends and leaves nothing behind
LEMMA BeginsAfresh ==
  ASSUME IInv, NEW p, NEW q,
         q.todo = {}, q.win = {}, q.got = {}, q.label = 0 \/ q.label = cache,
         q.at = "edit" => "edit" \in Ops,
         q.at \in {"edit", "drop"} => files[q.id].st = "draft",
         q.at \in PublishLabels => Exists(q.id) /\ files[q.id].st # "published"
  PROVE  Carried(p, q)
BY DEF Carried, Jobs

LEMMA CallCarries ==
  ASSUME IInv, NEW r \in Reqs, Call(r)
  PROVE  Local /\ \E q : req' = [req EXCEPT ![r] = q] /\ Carried(req[r], q)
<1> USE DEF Start, IdleReq, PublishLabels
<1>1. ASSUME NEW t \in Titles, UploadReadMax(r, t)
      PROVE  Local /\ \E q : req' = [req EXCEPT ![r] = q] /\ Carried(req[r], q)
  <2>a. PICK v \in 1..MaxVersion :
          req' = [req EXCEPT ![r] = [IdleReq EXCEPT !.at = "insert", !.title = t, !.ver = v]]
    BY <1>1 DEF UploadReadMax
  <2> DEFINE q == [IdleReq EXCEPT !.at = "insert", !.title = t, !.ver = v]
  <2>1. Local /\ req' = [req EXCEPT ![r] = q]
    BY <1>1, <2>a DEF UploadReadMax
  <2>2. q.todo = {} /\ q.win = {} /\ q.got = {} /\ q.label = 0 /\ q.at = "insert"
    OBVIOUS
  <2> HIDE DEF q
  <2>3. Carried(req[r], q)
    BY <2>1, <2>2, BeginsAfresh
  <2> QED BY <2>1, <2>3
<1>2. ASSUME NEW op \in {"edit", "drop"}, NEW i \in Ids, NEW n \in Chunks, NEW x,
             CheckEditable(r, op, i, n, x)
      PROVE  Local /\ \E q : req' = [req EXCEPT ![r] = q] /\ Carried(req[r], q)
  <2> DEFINE q == [IdleReq EXCEPT !.at = op, !.id = i, !.n = n, !.text = x]
  <2>1. Local /\ req' = [req EXCEPT ![r] = q] /\ op \in Ops /\ files[i].st = "draft"
    BY <1>2 DEF CheckEditable, Editable
  <2>2. q.todo = {} /\ q.win = {} /\ q.got = {} /\ q.label = 0 /\ q.at = op /\ q.id = i
    OBVIOUS
  <2> HIDE DEF q
  <2>3. Carried(req[r], q)
    BY <2>1, <2>2, BeginsAfresh
  <2> QED BY <2>1, <2>3
<1>3. ASSUME NEW i \in Ids, PublishRead(r, i)
      PROVE  Local /\ \E q : req' = [req EXCEPT ![r] = q] /\ Carried(req[r], q)
  <2> DEFINE q == [IdleReq EXCEPT !.at = "config", !.id = i, !.title = files[i].title]
  <2>1. Local /\ req' = [req EXCEPT ![r] = q] /\ Exists(i) /\ files[i].st # "published"
    BY <1>3 DEF PublishRead
  <2>2. q.todo = {} /\ q.win = {} /\ q.got = {} /\ q.label = 0 /\ q.at = "config" /\ q.id = i
    OBVIOUS
  <2> HIDE DEF q
  <2>3. Carried(req[r], q)
    BY <2>1, <2>2, BeginsAfresh
  <2> QED BY <2>1, <2>3
<1>4. ASSUME NEW i \in Ids, UnpublishRead(r, i)
      PROVE  Local /\ \E q : req' = [req EXCEPT ![r] = q] /\ Carried(req[r], q)
  <2> DEFINE q == [IdleReq EXCEPT !.at = "unpublish", !.id = i]
  <2>1. Local /\ req' = [req EXCEPT ![r] = q]
    BY <1>4 DEF UnpublishRead
  <2>2. q.todo = {} /\ q.win = {} /\ q.got = {} /\ q.label = 0 /\ q.at = "unpublish" /\ q.id = i
    OBVIOUS
  <2> HIDE DEF q
  <2>3. Carried(req[r], q)
    BY <2>1, <2>2, BeginsAfresh
  <2> QED BY <2>1, <2>3
<1>5. ASSUME NEW i \in Ids, DeleteRead(r, i)
      PROVE  Local /\ \E q : req' = [req EXCEPT ![r] = q] /\ Carried(req[r], q)
  <2> DEFINE q == [IdleReq EXCEPT !.at = "delete", !.id = i]
  <2>1. Local /\ req' = [req EXCEPT ![r] = q]
    BY <1>5 DEF DeleteRead
  <2>2. q.todo = {} /\ q.win = {} /\ q.got = {} /\ q.label = 0 /\ q.at = "delete" /\ q.id = i
    OBVIOUS
  <2> HIDE DEF q
  <2>3. Carried(req[r], q)
    BY <2>1, <2>2, BeginsAfresh
  <2> QED BY <2>1, <2>3
<1>6. ASSUME NEW i \in Ids, NEW p, PathRead(r, i, p)
      PROVE  Local /\ \E q : req' = [req EXCEPT ![r] = q] /\ Carried(req[r], q)
  <2> DEFINE q == [IdleReq EXCEPT !.at = "path", !.title = files[i].title, !.path = p]
  <2>1. Local /\ req' = [req EXCEPT ![r] = q]
    BY <1>6 DEF PathRead
  <2>2. q.todo = {} /\ q.win = {} /\ q.got = {} /\ q.label = 0 /\ q.at = "path"
    OBVIOUS
  <2> HIDE DEF q
  <2>3. Carried(req[r], q)
    BY <2>1, <2>2, BeginsAfresh
  <2> QED BY <2>1, <2>3
<1>7. ASSUME ReembedReadConfig(r)
      PROVE  Local /\ \E q : req' = [req EXCEPT ![r] = q] /\ Carried(req[r], q)
  <2> DEFINE q == [IdleReq EXCEPT !.at = "refetch", !.label = cache]
  <2>1. Local /\ req' = [req EXCEPT ![r] = q]
    BY <1>7 DEF ReembedReadConfig
  <2>2. q.todo = {} /\ q.win = {} /\ q.got = {} /\ q.label = cache /\ q.at = "refetch"
    OBVIOUS
  <2> HIDE DEF q
  <2>3. Carried(req[r], q)
    BY <2>1, <2>2, BeginsAfresh
  <2> QED BY <2>1, <2>3
<1> QED
  BY <1>1, <1>2, <1>3, <1>4, <1>5, <1>6, <1>7 DEF Call

LEMMA LocalCarries ==
  ASSUME IInv, NEW r \in Reqs, LocalAction(r)
  PROVE  Local /\ \E q : req' = [req EXCEPT ![r] = q] /\ Carried(req[r], q)
<1> PICK p : p = req[r]
  OBVIOUS
<1>0. p \in Request /\ req \in [Reqs -> Request] /\ ReqShape(p)
  BY Before DEF IInv, TypeOK
<1>a. CASE Call(r)
  BY <1>a, CallCarries
<1>1. CASE PublishReadConfig(r)
  <2> DEFINE q == [p EXCEPT !.at = "fetch", !.label = cache]
  <2>1. Local /\ p.at = "config" /\ req' = [req EXCEPT ![r] = q]
    BY <1>0, <1>1 DEF PublishReadConfig, At
  <2>2. q.at = "fetch" /\ q.id = p.id /\ q.todo = p.todo /\ q.win = p.win /\ q.got = p.got /\ q.label = cache
    BY <1>0 DEF Request
  <2> HIDE DEF q
  <2>3. Carried(p, q)
    BY <2>1, <2>2 DEF Carried, Jobs, PublishLabels
  <2> QED BY <2>1, <2>3
<1>2. CASE PublishFetch(r)
  <2> DEFINE jobs == {JobsOf(p.id, n) : n \in {m \in Chunks : chunks[p.id][m].live /\ chunks[p.id][m].emb = None}}
             q == [p EXCEPT !.at = "embed", !.todo = jobs]
  <2>1. Local /\ p.at = "fetch" /\ req' = [req EXCEPT ![r] = q]
    BY <1>0, <1>2 DEF PublishFetch, At
  <2>2. \A j \in jobs : ReadNow(j)
    BY <1>0, <2>1 DEF ReadNow, ReqShape, PublishLabels
  <2> HIDE DEF jobs
  <2>3. q.at = "embed" /\ q.id = p.id /\ q.todo = jobs /\ q.win = p.win /\ q.got = p.got /\ q.label = p.label
    BY <1>0 DEF Request
  <2> HIDE DEF q
  <2>4. Carried(p, q)
    BY <2>1, <2>2, <2>3 DEF Carried, Jobs, PublishLabels
  <2> QED BY <2>1, <2>4
<1>3. CASE PublishWindow(r)
  <2>1. PICK w \in SUBSET p.todo : req' = [req EXCEPT ![r].at = "call", ![r].win = w, ![r].todo = @ \ w]
    BY <1>3 DEF PublishWindow
  <2> DEFINE q == [p EXCEPT !.at = "call", !.win = w, !.todo = @ \ w]
  <2>2. Local /\ p.at = "embed" /\ req' = [req EXCEPT ![r] = q]
    BY <1>0, <1>3, <2>1 DEF PublishWindow, At
  <2>3. q.at = "call" /\ q.id = p.id /\ q.todo = p.todo \ w /\ q.win = w /\ q.got = p.got /\ q.label = p.label
    BY <1>0 DEF Request
  <2> HIDE DEF q
  <2>4. Carried(p, q)
    BY <2>1, <2>2, <2>3 DEF Carried, Jobs, PublishLabels
  <2> QED BY <2>2, <2>4
<1>4. ASSUME NEW here \in {"call", "recall"}, Embed(r, here)
      PROVE  Local /\ \E q : req' = [req EXCEPT ![r] = q] /\ Carried(p, q)
  <2>a. PICK b \in SUBSET p.win : \E ok \in SUBSET b :
          req' = [req EXCEPT ![r].win = @ \ b, ![r].got = @ \cup
                    {[id |-> j.id, n |-> j.n, text |-> j.text, by |-> cache] : j \in ok}]
    BY <1>4 DEF Embed
  <2>1. PICK ok \in SUBSET b :
          req' = [req EXCEPT ![r].win = @ \ b, ![r].got = @ \cup
                    {[id |-> j.id, n |-> j.n, text |-> j.text, by |-> cache] : j \in ok}]
    BY <2>a
  <2> DEFINE new == {[id |-> j.id, n |-> j.n, text |-> j.text, by |-> cache] : j \in ok}
             q == [p EXCEPT !.win = @ \ b, !.got = @ \cup new]
  <2>2. Local /\ p.at = here /\ req' = [req EXCEPT ![r] = q]
    BY <1>0, <1>4, <2>1 DEF Embed, At
  <2>3. \A v \in new : MadeNow(v, p)
    BY <2>1 DEF MadeNow
  <2> HIDE DEF new
  <2>4. q.at = here /\ q.id = p.id /\ q.todo = p.todo /\ q.win = p.win \ b /\ q.got = p.got \cup new /\ q.label = p.label
    BY <1>0, <2>2 DEF Request
  <2> HIDE DEF q
  <2>5. Carried(p, q)
    BY <2>2, <2>3, <2>4 DEF Carried, Jobs, PublishLabels
  <2> QED BY <2>2, <2>5
<1>5. ASSUME NEW here, NEW next, At(r, here), Goto(r, next), Local,
             <<here, next>> \in {<<"store", "embed">>, <<"call", "store">>, <<"recall", "restore">>,
                                 <<"embed", "lock">>, <<"lock", "archive">>}
      PROVE  Local /\ \E q : req' = [req EXCEPT ![r] = q] /\ Carried(p, q)
  <2> DEFINE q == [p EXCEPT !.at = next]
  <2>1. p.at = here /\ req' = [req EXCEPT ![r] = q]
    BY <1>0, <1>5 DEF Goto, At
  <2>2. q.at = next /\ q.id = p.id /\ q.todo = p.todo /\ q.win = p.win /\ q.got = p.got /\ q.label = p.label
    BY <1>0 DEF Request
  <2> HIDE DEF q
  <2>3. next \in {"embed", "store", "restore", "lock", "archive"}
        /\ (next \in PublishLabels => here \in PublishLabels)
    BY <1>5 DEF PublishLabels
  <2>4. Carried(p, q)
    BY <2>1, <2>2, <2>3 DEF Carried, Jobs, PublishLabels
  <2> QED BY <1>5, <2>1, <2>4
<1>6. CASE PublishArchive(r)
  <2> DEFINE others == InService(p.title, p.id)
             q == [p EXCEPT !.at = "commit", !.arch = others]
  <2>1. Local /\ p.at = "archive" /\ req' = [req EXCEPT ![r] = q]
    BY <1>0, <1>6 DEF PublishArchive, At
  <2> HIDE DEF others
  <2>2. q.at = "commit" /\ q.id = p.id /\ q.todo = p.todo /\ q.win = p.win /\ q.got = p.got /\ q.label = p.label
    BY <1>0 DEF Request
  <2> HIDE DEF q
  <2>3. Carried(p, q)
    BY <2>1, <2>2 DEF Carried, Jobs, PublishLabels
  <2> QED BY <2>1, <2>3
<1>7. CASE ReembedFetch(r)
  <2>1. PICK s \in SUBSET StaleCells(p.label) :
          req' = [req EXCEPT ![r].at = "recall", ![r].win = {JobsOf(c[1], c[2]) : c \in s}]
    BY <1>7 DEF ReembedFetch
  <2> DEFINE jobs == {JobsOf(c[1], c[2]) : c \in s}
             q == [p EXCEPT !.at = "recall", !.win = jobs]
  <2>2. Local /\ p.at = "refetch" /\ req' = [req EXCEPT ![r] = q]
    BY <1>0, <1>7, <2>1 DEF ReembedFetch, At
  <2>3. \A j \in jobs : ReadNow(j)
    BY <2>1 DEF ReadNow, StaleCells, Stale
  <2> HIDE DEF jobs
  <2>4. q.at = "recall" /\ q.todo = p.todo /\ q.win = jobs /\ q.got = p.got /\ q.label = p.label
    BY <1>0 DEF Request
  <2> HIDE DEF q
  <2>5. Carried(p, q)
    BY <2>2, <2>3, <2>4 DEF Carried, Jobs, PublishLabels
  <2> QED BY <2>2, <2>5
<1>8. CASE ReembedDone(r) \/ Abort(r)
  <2>1. req' = [req EXCEPT ![r] = IdleReq] /\ Local
    BY <1>8 DEF ReembedDone, Abort, Finish
  <2>2. Carried(p, IdleReq)
    BY BeginsAfresh DEF IdleReq, PublishLabels
  <2> QED BY <2>1, <2>2
<1> QED
  BY <1>a, <1>1, <1>2, <1>3, <1>4, <1>5, <1>6, <1>7, <1>8
     DEF LocalAction, EmbedReturn, WindowDone, AllEmbedded, PublishLock

(***************************************************************************)
(* The statements that write: those that end their request, and the UPDATE *)
(* that stores a vector                                                    *)
(***************************************************************************)
Ends(r) == \/ UploadInsert(r) \/ UpdateChunk(r) \/ DeleteChunk(r) \/ PublishCommit(r)
           \/ UnpublishWrite(r) \/ DeleteWrite(r) \/ PathWrite(r)

\* what may become of a chunk
Written(r, i, n) ==
    \/ chunks'[i][n] = chunks[i][n]
    \/ /\ ~chunks'[i][n].live /\ chunks'[i][n].emb = None
       /\ files'[i].st = "deleted" \/ (req[r].at = "drop" /\ i = req[r].id)
    \/ files[i].st = "unborn" /\ files'[i].st = "draft" /\ chunks'[i][n].emb = None
    \/ /\ req[r].at = "edit" /\ i = req[r].id /\ chunks[i][n].live
       /\ chunks'[i][n].emb = None

LEMMA EndsFacts ==
  ASSUME IInv, NEW r \in Reqs, Ends(r)
  PROVE  /\ req' = [req EXCEPT ![r] = IdleReq] /\ UNCHANGED setting
         /\ \A i \in Ids : files[i].st # "unborn" => files'[i].st # "unborn"
         /\ \A i \in Ids : \A n \in Chunks : Written(r, i, n)
<1>0. /\ req' = [req EXCEPT ![r] = IdleReq] /\ UNCHANGED setting
  BY DEF Ends, UploadInsert, UpdateChunk, DeleteChunk, PublishCommit, UnpublishWrite, DeleteWrite,
         PathWrite, Finish
<1>a. files \in [Ids -> FileRow] /\ chunks \in [Ids -> [Chunks -> ChunkRow]]
  BY Before
<1>1. CASE UploadInsert(r)
  <2>1. PICK i \in Ids : /\ files[i].st = "unborn"
                         /\ files' = [files EXCEPT ![i] = [st |-> "draft", title |-> req[r].title,
                                       ver |-> req[r].ver, pubAt |-> FALSE, path |-> None]]
                         /\ \E x \in Texts : chunks' = [chunks EXCEPT ![i] =
                              [n \in Chunks |-> [live |-> TRUE, text |-> x, emb |-> None]]]
    BY <1>1 DEF UploadInsert
  <2>2. PICK x \in Texts : chunks' = [chunks EXCEPT ![i] =
                              [n \in Chunks |-> [live |-> TRUE, text |-> x, emb |-> None]]]
    BY <2>1
  <2>3. \A j \in Ids : (j # i => files'[j] = files[j]) /\ (j = i => files'[j].st = "draft")
    BY <1>a, <2>1
  <2>4. \A j \in Ids : \A n \in Chunks :
           (j # i => chunks'[j][n] = chunks[j][n]) /\ (j = i => chunks'[j][n].emb = None)
    BY <1>a, <2>2
  <2> QED BY <1>0, <2>1, <2>3, <2>4 DEF Written
<1>2. CASE UpdateChunk(r)
  <2>1. req[r].id \in Ids /\ req[r].n \in Chunks /\ req[r].at = "edit" /\ UNCHANGED files
    BY <1>2, Before DEF UpdateChunk, At, ReqShape
  <2>2. PICK i \in Ids, n \in Chunks : i = req[r].id /\ n = req[r].n
    BY <2>1
  <2>3. chunks' = IF chunks[i][n].live
                    THEN [chunks EXCEPT ![i][n] = Corrected(chunks[i][n], req[r].text)]
                    ELSE chunks
    BY <1>2, <2>2 DEF UpdateChunk
  <2>4. chunks[i][n] \in ChunkRow
    BY <1>a
  <2>5. Corrected(chunks[i][n], req[r].text).emb = None
    BY <2>4 DEF Corrected, ChunkRow
  <2>6. \A j \in Ids : \A m \in Chunks :
           \/ chunks'[j][m] = chunks[j][m]
           \/ j = i /\ m = n /\ chunks[i][n].live
              /\ chunks'[j][m] = Corrected(chunks[i][n], req[r].text)
    BY <1>a, <2>3
  <2> QED BY <1>0, <2>1, <2>2, <2>5, <2>6 DEF Written
<1>3. CASE DeleteChunk(r)
  <2>1. req[r].id \in Ids /\ req[r].n \in Chunks /\ req[r].at = "drop" /\ UNCHANGED files
    BY <1>3, Before DEF DeleteChunk, At, ReqShape
  <2>2. chunks' = [chunks EXCEPT ![req[r].id][req[r].n] = NoChunk]
    BY <1>3 DEF DeleteChunk
  <2>3. \A j \in Ids : \A m \in Chunks :
           chunks'[j][m] = chunks[j][m] \/ (j = req[r].id /\ chunks'[j][m] = NoChunk)
    BY <1>a, <2>1, <2>2
  <2> QED BY <1>0, <2>1, <2>3 DEF Written, NoChunk
<1>4. CASE PublishCommit(r)
  <2>1. UNCHANGED chunks
    BY <1>4 DEF PublishCommit
  <2> QED BY <1>0, <1>4, <2>1, CommitRows DEF Written
<1>5. CASE UnpublishWrite(r)
  <2>1. UNCHANGED chunks /\ \A j \in Ids : files'[j] = files[j] \/ files'[j] = DraftRow(files[j])
    BY <1>5, <1>a DEF UnpublishWrite
  <2>2. \A f \in FileRow : DraftRow(f).st = "draft"
    BY DEF DraftRow, FileRow
  <2>3. \A j \in Ids : files'[j] = files[j] \/ files'[j].st = "draft"
    BY <1>a, <2>1, <2>2
  <2> QED BY <1>0, <2>1, <2>3 DEF Written
<1>6. CASE DeleteWrite(r)
  <2>1. PICK i : i = req[r].id
    OBVIOUS
  <2>2. /\ files' = [files EXCEPT ![i] = [Unborn EXCEPT !.st = "deleted"]]
        /\ chunks' = [chunks EXCEPT ![i] = [n \in Chunks |-> NoChunk]]
    BY <1>6, <2>1 DEF DeleteWrite
  <2>3. \A j \in Ids : (j # i => files'[j] = files[j]) /\ (j = i => files'[j].st = "deleted")
    BY <1>a, <2>2 DEF Unborn
  <2>4. \A j \in Ids : \A n \in Chunks :
           (j # i => chunks'[j][n] = chunks[j][n]) /\ (j = i => chunks'[j][n] = NoChunk)
    BY <1>a, <2>2
  <2> QED BY <1>0, <2>3, <2>4 DEF Written, NoChunk
<1>7. CASE PathWrite(r)
  <2>1. UNCHANGED chunks
        /\ \A j \in Ids : files'[j] = files[j] \/ files'[j] = [files[j] EXCEPT !.path = req[r].path]
    BY <1>7 DEF PathWrite
  <2>2. \A j \in Ids : files'[j].st = files[j].st
    BY <1>a, <2>1 DEF FileRow
  <2> QED BY <1>0, <2>1, <2>2 DEF Written
<1> QED BY <1>1, <1>2, <1>3, <1>4, <1>5, <1>6, <1>7 DEF Ends

\* The UPDATE of a chunk by a request that goes on as q with the rest of its vectors.
Stored(r, v, q) ==
    /\ q.todo = req[r].todo /\ q.win = req[r].win /\ q.got = req[r].got \ {v}
    /\ q.label = req[r].label /\ q.at = req[r].at /\ q.id = req[r].id
    /\ \A i \in Ids : \A n \in Chunks :
         \/ chunks'[i][n] = chunks[i][n]
         \/ /\ i = v.id /\ n = v.n /\ chunks[i][n].live /\ chunks'[i][n].live
            /\ chunks'[i][n].text = chunks[i][n].text
            /\ chunks'[i][n].emb.text = v.text /\ chunks'[i][n].emb.by = v.by
            /\ chunks'[i][n].emb.label = req[r].label

LEMMA StoreFacts ==
  ASSUME IInv, NEW r \in Reqs, NEW here \in {"store", "restore"}, Store(r, here)
  PROVE  /\ UNCHANGED <<files, setting>> /\ req[r].at = here
         /\ \/ req' = [req EXCEPT ![r] = IdleReq] /\ UNCHANGED chunks
            \/ \E v \in req[r].got : \E q : req' = [req EXCEPT ![r] = q] /\ Stored(r, v, q)
<1>0. /\ req[r] \in Request /\ ReqShape(req[r]) /\ chunks \in [Ids -> [Chunks -> ChunkRow]]
      /\ req \in [Reqs -> Request]
  BY Before DEF IInv, TypeOK
<1>1. UNCHANGED <<files, setting>> /\ req[r].at = here
  BY DEF Store, At
<1>2. PICK v \in req[r].got :
          IF ModelOf[v.by] \in Fits
            THEN /\ StoreVector(v, req[r].label)
                 /\ req' = [req EXCEPT ![r].got = @ \ {v}]
            ELSE Finish(r) /\ UNCHANGED chunks
  BY DEF Store
<1>3. CASE ModelOf[v.by] \notin Fits
  BY <1>1, <1>2, <1>3 DEF Finish
<1>4. CASE ModelOf[v.by] \in Fits
  <2> DEFINE e == [text |-> v.text, by |-> v.by, label |-> req[r].label]
             q == [req[r] EXCEPT !.got = @ \ {v}]
  <2>1. v.id \in Ids /\ v.n \in Chunks
    BY <1>0 DEF Request, Vector
  <2>2. chunks' = IF chunks[v.id][v.n].live THEN [chunks EXCEPT ![v.id][v.n].emb = e] ELSE chunks
    BY <1>2, <1>4 DEF StoreVector
  <2>3. e.text = v.text /\ e.by = v.by /\ e.label = req[r].label
    OBVIOUS
  <2> HIDE DEF e
  <2>4. chunks[v.id][v.n] \in ChunkRow
    BY <1>0, <2>1
  <2> DEFINE row == [chunks[v.id][v.n] EXCEPT !.emb = e]
  <2>5. row.live = chunks[v.id][v.n].live /\ row.text = chunks[v.id][v.n].text /\ row.emb = e
    BY <2>4 DEF ChunkRow
  <2>6. \A i \in Ids : \A n \in Chunks :
           \/ chunks'[i][n] = chunks[i][n]
           \/ i = v.id /\ n = v.n /\ chunks[i][n].live /\ chunks'[i][n] = row
    BY <1>0, <2>1, <2>2
  <2> HIDE DEF row
  <2>7. req' = [req EXCEPT ![r] = q]
    BY <1>0, <1>2, <1>4
  <2>8. /\ q.todo = req[r].todo /\ q.win = req[r].win /\ q.got = req[r].got \ {v}
        /\ q.label = req[r].label /\ q.at = req[r].at /\ q.id = req[r].id
    BY <1>0 DEF Request
  <2> HIDE DEF q
  <2>9. Stored(r, v, q)
    BY <2>3, <2>5, <2>6, <2>8 DEF Stored
  <2> QED BY <1>1, <2>7, <2>9
<1> QED BY <1>3, <1>4

LEMMA StepCases ==
  ASSUME NEW r \in Reqs, Call(r) \/ Advance(r) \/ Abort(r)
  PROVE  LocalAction(r) \/ Ends(r) \/ \E here \in {"store", "restore"} : Store(r, here)
BY DEF Advance, LocalAction, Ends

(***************************************************************************)
(* A label that is up to date is true.                                     *)
(***************************************************************************)
LEMMA AgingInit == Init => Aging
  BY ManualAssumption DEF Init, Aging, Ages, Aged, IdleReq, NoChunk

LEMMA AgingSetting ==
  ASSUME OneRefresh, IInv, Aging, SetModel \/ RefreshFetch \/ RefreshStore
  PROVE  Aging'
<1>0. /\ model \in Writes /\ cache \in Writes /\ fetched \subseteq Writes
      /\ req \in [Reqs -> Request] /\ chunks \in [Ids -> [Chunks -> ChunkRow]]
      /\ Writes \subseteq Nat /\ MaxRefresh \in Nat
  BY ManualAssumption DEF IInv, TypeOK, Writes
<1>1. CASE SetModel
  BY <1>0, <1>1 DEF SetModel, Aging, Ages, Aged
<1>2. CASE RefreshFetch
  <2>1. /\ Cardinality(fetched) < MaxRefresh /\ fetched' = fetched \cup {model}
        /\ UNCHANGED <<files, chunks, req, model, cache>>
    BY <1>2 DEF RefreshFetch
  <2>2. fetched = {}
    <3>1. IsFiniteSet(Writes)
      <4>1. 1 \in Int /\ MaxWrites \in Int
        BY ManualAssumption
      <4> QED BY <4>1, FS_Interval DEF Writes
    <3>2. IsFiniteSet(fetched)
      BY <1>0, <3>1, FS_Subset
    <3>3. Cardinality(fetched) \in Nat
      BY <3>2, FS_CardinalityType
    <3>4. Cardinality(fetched) = 0
      BY <1>0, <2>1, <3>3 DEF OneRefresh
    <3> QED BY <3>2, <3>4, FS_EmptySet
  <2> QED BY <1>0, <2>1, <2>2 DEF Aging, Ages, Aged
<1>3. CASE RefreshStore
  <2>1. PICK m \in fetched : cache' = m /\ fetched' = fetched \ {m}
    BY <1>3 DEF RefreshStore
  <2>2. UNCHANGED <<files, chunks, req, model>>
    BY <1>3 DEF RefreshStore
  <2>3. cache' \in Nat /\ cache <= cache' /\ cache' <= model /\ fetched' = {}
    BY <1>0, <2>1 DEF Aging
  <2>4. ASSUME NEW r \in Reqs PROVE Ages(req[r])'
    <3>1. req[r] \in Request /\ Ages(req[r])
      BY <1>0 DEF Aging
    <3>2. req[r].label \in Writes \cup {0} /\ req[r].got \subseteq Vector
      <4>1. \A p \in Request : p.label \in Writes \cup {0} /\ p.got \subseteq Vector
        BY DEF Request
      <4> QED BY <3>1, <4>1
    <3>3. \A v \in Vector : v.by \in Nat
      BY <1>0 DEF Vector
    <3>4. req[r].label \in Nat
      <4>1. \A x \in Writes \cup {0} : x \in Nat
        BY <1>0
      <4> QED BY <3>2, <4>1
    <3> QED BY <1>0, <2>2, <2>3, <3>1, <3>2, <3>3, <3>4 DEF Ages
  <2>5. ASSUME NEW i \in Ids, NEW n \in Chunks PROVE Aged(chunks[i][n])'
    <3>1. chunks[i][n] \in ChunkRow /\ Aged(chunks[i][n])
      BY <1>0 DEF Aging
    <3>2. chunks[i][n].emb # None => chunks[i][n].emb.by \in Nat
      BY <1>0, <3>1 DEF ChunkRow, Embedding
    <3>3. chunks'[i][n] = chunks[i][n]
      BY <2>2
    <3> QED BY <1>0, <2>3, <3>1, <3>2, <3>3 DEF Aged
  <2> QED BY <2>2, <2>3, <2>4, <2>5 DEF Aging
<1> QED BY <1>1, <1>2, <1>3

LEMMA CarriedAges ==
  ASSUME IInv, Aging, NEW r \in Reqs, NEW q, Carried(req[r], q)
  PROVE  Ages(q)
<1>1. req[r] \in Request /\ Ages(req[r]) /\ cache \in Writes /\ Writes \subseteq Nat
  BY ManualAssumption, Before DEF IInv, TypeOK, Aging, Writes
<1>2. req[r].label \in Nat
  BY <1>1 DEF Request
<1>3. q.label <= cache
  BY <1>1, <1>2 DEF Carried, Ages
<1>4. ASSUME NEW v \in q.got PROVE q.label <= v.by /\ v.by <= cache
  <2>1. v \in req[r].got \/ v.by = cache
    BY <1>4 DEF Carried, MadeNow
  <2>2. q.label = req[r].label \/ (req[r].at = "config" /\ req[r].got = {} /\ q.label <= cache)
    BY <1>1, <1>3, <1>4 DEF Carried, Ages
  <2> QED BY <1>1, <1>2, <1>3, <2>1, <2>2 DEF Ages
<1> QED BY <1>3, <1>4 DEF Ages, Carried

LEMMA AgingStep ==
  ASSUME OneRefresh, IInv, Aging, [Next]_vars
  PROVE  Aging'
<1>1. CASE UNCHANGED vars
  BY <1>1 DEF vars, setting, Aging, Ages, Aged
<1>2. CASE SetModel \/ RefreshFetch \/ RefreshStore
  BY <1>2, AgingSetting
<1>a. req \in [Reqs -> Request]
  BY DEF IInv, TypeOK
<1>3. ASSUME NEW r \in Reqs, LocalAction(r) PROVE Aging'
  <2>1. PICK q : req' = [req EXCEPT ![r] = q] /\ Carried(req[r], q)
    BY <1>3, LocalCarries
  <2>2. UNCHANGED <<files, chunks, model, cache, fetched>>
    BY <1>3, LocalCarries DEF Local, setting
  <2>3. Ages(q)
    BY <2>1, CarriedAges
  <2>4. \A s \in Reqs : Ages(req'[s])
    BY <1>a, <2>1, <2>3 DEF Aging
  <2> QED BY <2>2, <2>4 DEF Aging, Ages, Aged
<1>4. ASSUME NEW r \in Reqs, Ends(r) PROVE Aging'
  <2>1. /\ req' = [req EXCEPT ![r] = IdleReq]
        /\ \A i \in Ids : \A n \in Chunks : chunks'[i][n].emb = None \/ chunks'[i][n] = chunks[i][n]
    BY <1>4, EndsFacts DEF Written
  <2>2. UNCHANGED <<model, cache, fetched>>
    BY <1>4, EndsFacts DEF setting
  <2>3. Ages(IdleReq)
    BY ManualAssumption DEF Ages, IdleReq, IInv, TypeOK, Writes
  <2>4. \A s \in Reqs : Ages(req'[s])
    BY <1>a, <2>1, <2>3 DEF Aging
  <2>5. \A i \in Ids : \A n \in Chunks : Aged(chunks'[i][n])
    BY <2>1 DEF Aging, Aged
  <2> QED BY <2>2, <2>4, <2>5 DEF Aging, Ages, Aged
<1>5. ASSUME NEW r \in Reqs, NEW here \in {"store", "restore"}, Store(r, here) PROVE Aging'
  <2>1. UNCHANGED <<files, model, cache, fetched>>
    BY <1>5, StoreFacts DEF setting
  <2>2. CASE req' = [req EXCEPT ![r] = IdleReq] /\ UNCHANGED chunks
    <3>1. Ages(IdleReq)
      BY ManualAssumption DEF Ages, IdleReq, IInv, TypeOK, Writes
    <3>2. \A s \in Reqs : Ages(req'[s])
      BY <1>a, <2>2, <3>1 DEF Aging
    <3> QED BY <2>1, <2>2, <3>2 DEF Aging, Ages, Aged
  <2>3. CASE \E v \in req[r].got : \E q : req' = [req EXCEPT ![r] = q] /\ Stored(r, v, q)
    <3>1. PICK v, q : v \in req[r].got /\ req' = [req EXCEPT ![r] = q] /\ Stored(r, v, q)
      BY <2>3
    <3>2. Ages(req[r])
      BY DEF Aging
    <3>3. Ages(q)
      BY <3>1, <3>2 DEF Ages, Stored
    <3>4. \A s \in Reqs : Ages(req'[s])
      BY <1>a, <3>1, <3>3 DEF Aging
    <3>5. \A i \in Ids : \A n \in Chunks : Aged(chunks'[i][n])
      BY <3>1, <3>2 DEF Aging, Aged, Ages, Stored
    <3> QED BY <2>1, <3>4, <3>5 DEF Aging, Ages, Aged
  <2> QED BY <1>5, <2>2, <2>3, StoreFacts
<1> QED
  BY <1>1, <1>2, <1>3, <1>4, <1>5, StepCases DEF Next

\* the write that made a vector lies between the one of its label and the last one
LEMMA AgingOrder ==
  ASSUME IInv, Aging, NEW i \in Ids, NEW n \in Chunks, chunks[i][n].emb # None
  PROVE  /\ {chunks[i][n].emb.label, chunks[i][n].emb.by, model} \subseteq Writes
         /\ chunks[i][n].emb.label <= chunks[i][n].emb.by
         /\ chunks[i][n].emb.by <= model
         /\ chunks[i][n].emb.by \in chunks[i][n].emb.label..model
<1>1. chunks[i][n] \in ChunkRow /\ cache \in Writes /\ model \in Writes /\ Writes \subseteq Nat
  BY ManualAssumption DEF IInv, TypeOK, Writes
<1>2. chunks[i][n].emb.by \in Writes /\ chunks[i][n].emb.label \in Writes
  BY <1>1 DEF ChunkRow, Embedding
<1>3. /\ chunks[i][n].emb.label <= chunks[i][n].emb.by
      /\ chunks[i][n].emb.by <= cache /\ cache <= model
  BY DEF Aging, Aged
<1>4. \A a, b, c, d \in Nat : a <= b /\ b <= c /\ c <= d => a <= b /\ b <= d /\ b \in a..d
  OBVIOUS
<1>5. /\ chunks[i][n].emb.label \in Nat /\ chunks[i][n].emb.by \in Nat
      /\ cache \in Nat /\ model \in Nat
  BY <1>1, <1>2
<1>6. /\ chunks[i][n].emb.label <= chunks[i][n].emb.by /\ chunks[i][n].emb.by <= model
      /\ chunks[i][n].emb.by \in chunks[i][n].emb.label..model
  BY <1>3, <1>4, <1>5
<1> QED
  BY <1>1, <1>2, <1>6

\* A vector labelled since the configured model came into service was made by it, however
\* publications, re-embeddings and writes of the setting overlap and whichever models they
\* name, as long as two refreshes of the settings cache do not overlap: publish_manual and
\* reembed read the label before they call the embedding server.
THEOREM LabelsTrue == OneRefresh => (Spec => []FreshLabelIsTrue)
<1>1. OneRefresh /\ IInv /\ Aging /\ [Next]_vars => Aging'
  BY AgingStep
<1>2. IInv /\ Aging => FreshLabelIsTrue
  BY AgingOrder DEF FreshLabelIsTrue
<1> SUFFICES ASSUME OneRefresh PROVE Spec => []FreshLabelIsTrue
  OBVIOUS
<1>3. IInv /\ Aging /\ [Next]_vars => Aging'
  BY <1>1
<1> QED
  BY <1>2, <1>3, AgingInit, Invariance, PTL DEF Spec

\* no model comes back after another one was configured
NoReturn ==
    \A v, w \in Writes : \A u \in v..w : ModelOf[v] = ModelOf[w] => ModelOf[u] = ModelOf[w]

\* The name by which reembed tells stale chunks is true of every vector if, besides, the
\* operator never configures a model again that another one had replaced.
THEOREM NamesTrue == OneRefresh /\ NoReturn => (Spec => []NameIsTrue)
<1>1. OneRefresh /\ IInv /\ Aging /\ [Next]_vars => Aging'
  BY AgingStep
<1>2. NoReturn /\ IInv /\ Aging => NameIsTrue
  <2> SUFFICES ASSUME NoReturn, IInv, Aging, NEW i \in Ids, NEW n \in Chunks,
                      chunks[i][n].emb # None,
                      ModelOf[chunks[i][n].emb.label] = ModelOf[model]
               PROVE  ModelOf[chunks[i][n].emb.by] = ModelOf[model]
    BY DEF NameIsTrue
  <2> QED BY AgingOrder DEF NoReturn
<1> SUFFICES ASSUME OneRefresh, NoReturn PROVE Spec => []NameIsTrue
  OBVIOUS
<1>3. (IInv /\ Aging => NameIsTrue) /\ (IInv /\ Aging /\ [Next]_vars => Aging')
  BY <1>1, <1>2
<1> QED
  BY <1>3, AgingInit, Invariance, PTL DEF Spec

(***************************************************************************)
(* An embedding belongs to the text of its chunk.                          *)
(***************************************************************************)
LEMMA TextInit == Init => TextInv
  BY DEF Init, TextInv, EmbeddingMatchesText, Jobs, IdleReq, NoChunk

\* a request without chunks in hand
LEMMA IdleHolds ==
  Jobs(IdleReq) = {} /\ IdleReq.got = {} /\ IdleReq.at = "idle"
  BY DEF Jobs, IdleReq

LEMMA TextLocal ==
  ASSUME IInv, TextInv, NEW r \in Reqs, LocalAction(r)
  PROVE  TextInv'
<1>1. PICK q : req' = [req EXCEPT ![r] = q] /\ Carried(req[r], q)
  BY LocalCarries
<1>2. UNCHANGED <<files, chunks>> /\ req \in [Reqs -> Request]
  BY LocalCarries DEF Local, IInv, TypeOK
<1>3. ASSUME NEW j, ReadNow(j) PROVE StillSo(j)
  BY <1>3 DEF ReadNow, JobsOf, StillSo, TextInv
<1>4. ASSUME NEW v, MadeNow(v, req[r]) PROVE StillSo(v)
  <2>1. PICK j \in req[r].win : v.id = j.id /\ v.n = j.n /\ v.text = j.text
    BY <1>4 DEF MadeNow
  <2>2. StillSo(j)
    BY DEF TextInv, Jobs
  <2> QED BY <2>1, <2>2 DEF StillSo
<1>5. /\ \A j \in Jobs(q) \cup q.got : StillSo(j)
      /\ q.at = "edit" => "edit" \in Ops
  BY <1>1, <1>3, <1>4 DEF Carried, TextInv
<1>6. ASSUME NEW s \in Reqs
      PROVE  /\ \A j \in Jobs(req'[s]) \cup req'[s].got : StillSo(j)
             /\ req'[s].at = "edit" => "edit" \in Ops
  BY <1>1, <1>2, <1>5 DEF TextInv
<1> QED BY <1>2, <1>6 DEF TextInv, StillSo, Jobs, EmbeddingMatchesText

LEMMA TextEnds ==
  ASSUME Steady, IInv, TextInv, NEW r \in Reqs, Ends(r)
  PROVE  TextInv'
<1>1. /\ req' = [req EXCEPT ![r] = IdleReq] /\ req \in [Reqs -> Request]
      /\ \A i \in Ids : files[i].st # "unborn" => files'[i].st # "unborn"
      /\ \A i \in Ids : \A n \in Chunks : Written(r, i, n)
  BY EndsFacts DEF IInv, TypeOK
<1>2. ASSUME NEW s \in Reqs, NEW j \in Jobs(req'[s]) \cup req'[s].got
      PROVE  StillSo(j)'
  <2>1. s # r /\ req'[s] = req[s]
    BY <1>1, <1>2, IdleHolds
  <2>2. StillSo(j)
    BY <1>2, <2>1 DEF TextInv
  <2>3. j.id \in Ids /\ j.n \in Chunks
    <3>1. req[s] \in Request
      BY <1>1
    <3>2. req[s].todo \subseteq Job /\ req[s].win \subseteq Job /\ req[s].got \subseteq Vector
      BY <3>1 DEF Request
    <3>3. j \in Job \/ j \in Vector
      BY <1>2, <2>1, <3>2 DEF Jobs
    <3> QED BY <3>3 DEF Job, Vector
  <2>4. req[r].at # "edit"
    BY <2>1 DEF Steady, Alone, TextInv
  <2>5. Written(r, j.id, j.n)
    BY <1>1, <2>3
  <2>6. \/ chunks'[j.id][j.n] = chunks[j.id][j.n]
        \/ ~chunks'[j.id][j.n].live
    BY <2>2, <2>4, <2>5 DEF Written, StillSo
  <2> QED BY <1>1, <2>2, <2>3, <2>6 DEF StillSo
<1>3. ASSUME NEW s \in Reqs PROVE req'[s].at = "edit" => "edit" \in Ops
  BY <1>1, IdleHolds DEF TextInv
<1>4. ASSUME NEW i \in Ids, NEW n \in Chunks
      PROVE  /\ chunks'[i][n].live => files'[i].st # "unborn"
             /\ (chunks'[i][n].live /\ chunks'[i][n].emb # None)
                   => chunks'[i][n].emb.text = chunks'[i][n].text
  BY <1>1 DEF Written, TextInv, EmbeddingMatchesText
<1> QED BY <1>2, <1>3, <1>4 DEF TextInv, Jobs, EmbeddingMatchesText

LEMMA TextStore ==
  ASSUME IInv, TextInv, NEW r \in Reqs, NEW here \in {"store", "restore"}, Store(r, here)
  PROVE  TextInv'
<1>1. UNCHANGED files /\ req[r].at = here /\ req \in [Reqs -> Request]
  BY StoreFacts DEF IInv, TypeOK
<1>2. CASE req' = [req EXCEPT ![r] = IdleReq] /\ UNCHANGED chunks
  <2>1. ASSUME NEW s \in Reqs
        PROVE  /\ \A j \in Jobs(req'[s]) \cup req'[s].got : StillSo(j)
               /\ req'[s].at = "edit" => "edit" \in Ops
    BY <1>1, <1>2, IdleHolds DEF TextInv
  <2> QED BY <1>1, <1>2, <2>1 DEF TextInv, StillSo, Jobs, EmbeddingMatchesText
<1>3. CASE \E v \in req[r].got : \E q : req' = [req EXCEPT ![r] = q] /\ Stored(r, v, q)
  <2>1. PICK v, q : v \in req[r].got /\ req' = [req EXCEPT ![r] = q] /\ Stored(r, v, q)
    BY <1>3
  <2>2. v \in req[r].got /\ StillSo(v)
    BY <2>1 DEF TextInv
  <2>3. ASSUME NEW s \in Reqs
        PROVE  /\ \A j \in Jobs(req'[s]) \cup req'[s].got : StillSo(j) /\ j.id \in Ids /\ j.n \in Chunks
               /\ req'[s].at = "edit" => "edit" \in Ops
    <3>1. /\ Jobs(req'[s]) \subseteq Jobs(req[s]) /\ req'[s].got \subseteq req[s].got
          /\ req'[s].at = req[s].at
      BY <1>1, <2>1 DEF Stored, Jobs
    <3>2. req[s] \in Request
      BY <1>1
    <3>3. Jobs(req[s]) \subseteq Job /\ req[s].got \subseteq Vector
      BY <3>2 DEF Request, Jobs
    <3>4. \A j \in Job \cup Vector : j.id \in Ids /\ j.n \in Chunks
      BY DEF Job, Vector
    <3> QED BY <3>1, <3>3, <3>4 DEF TextInv
  <2>4. ASSUME NEW i \in Ids, NEW n \in Chunks
        PROVE  /\ (chunks'[i][n].live <=> chunks[i][n].live) /\ chunks'[i][n].text = chunks[i][n].text
               /\ (chunks'[i][n].live /\ chunks'[i][n].emb # None)
                     => chunks'[i][n].emb.text = chunks'[i][n].text
    <3>1. chunks[i][n] \in ChunkRow
      BY DEF IInv, TypeOK
    <3>2. CASE chunks'[i][n] = chunks[i][n]
      BY <3>2 DEF TextInv, EmbeddingMatchesText
    <3>3. CASE /\ i = v.id /\ n = v.n /\ chunks[i][n].live /\ chunks'[i][n].live
               /\ chunks'[i][n].text = chunks[i][n].text
               /\ chunks'[i][n].emb.text = v.text
      BY <2>2, <3>3 DEF StillSo
    <3> QED BY <2>1, <3>2, <3>3 DEF Stored
  <2>5. \A s \in Reqs : \A j \in Jobs(req'[s]) \cup req'[s].got : StillSo(j)'
    BY <1>1, <2>3, <2>4 DEF StillSo
  <2> QED BY <1>1, <2>3, <2>4, <2>5 DEF TextInv, Jobs, EmbeddingMatchesText
<1> QED BY <1>2, <1>3, StoreFacts

LEMMA TextStep ==
  ASSUME Steady, IInv, TextInv, [Next]_vars
  PROVE  TextInv'
<1>1. CASE UNCHANGED <<files, chunks, req>>
  BY <1>1 DEF TextInv, StillSo, Jobs, EmbeddingMatchesText
<1>2. CASE SetModel \/ RefreshFetch \/ RefreshStore \/ UNCHANGED vars
  BY <1>1, <1>2 DEF SetModel, RefreshFetch, RefreshStore, vars
<1>3. ASSUME NEW r \in Reqs, Call(r) \/ Advance(r) \/ Abort(r) PROVE TextInv'
  BY <1>3, StepCases, TextLocal, TextEnds, TextStore
<1> QED BY <1>2, <1>3 DEF Next

\* A stored embedding was computed from the text its chunk has, unless a correction of a
\* chunk overlaps another request: update_chunk clears the embedding, and publish_manual
\* and reembed write one back by the chunk's id alone.
THEOREM TextsFit == Steady => (Spec => []EmbeddingMatchesText)
<1>1. Steady /\ IInv /\ TextInv /\ [Next]_vars => TextInv'
  BY TextStep
<1>2. TextInv => EmbeddingMatchesText
  BY DEF TextInv
<1> SUFFICES ASSUME Steady PROVE Spec => []EmbeddingMatchesText
  OBVIOUS
<1>3. IInv /\ TextInv /\ [Next]_vars => TextInv'
  BY <1>1
<1> QED
  BY <1>2, <1>3, TextInit, Invariance, PTL DEF Spec

(***************************************************************************)
(* Requests one at a time.                                                 *)
(***************************************************************************)
LEMMA GuardInit == Init => Guarded
  BY DEF Init, Guarded, IdleReq, PublishLabels

LEMMA GuardStep ==
  ASSUME Alone, IInv, Guarded, [Next]_vars
  PROVE  Guarded'
<1>0. req \in [Reqs -> Request]
  BY DEF IInv, TypeOK
<1>1. CASE UNCHANGED <<files, req>>
  BY <1>1 DEF Guarded, Exists
<1>2. CASE SetModel \/ RefreshFetch \/ RefreshStore \/ UNCHANGED vars
  BY <1>1, <1>2 DEF SetModel, RefreshFetch, RefreshStore, vars
<1>3. ASSUME NEW r \in Reqs, LocalAction(r) PROVE Guarded'
  <2>1. PICK q : req' = [req EXCEPT ![r] = q] /\ Carried(req[r], q)
    BY <1>3, LocalCarries
  <2>2. UNCHANGED files
    BY <1>3, LocalCarries DEF Local
  <2>3. \A s \in Reqs : s = r /\ req'[s] = q
    BY <1>0, <2>1 DEF Alone
  <2>4. /\ q.at \in {"edit", "drop"} => files[q.id].st = "draft"
        /\ q.at \in PublishLabels => Exists(q.id) /\ files[q.id].st # "published"
    BY <2>1 DEF Carried, Guarded
  <2> QED BY <2>2, <2>3, <2>4 DEF Guarded, Exists
<1>4. ASSUME NEW r \in Reqs, req' = [req EXCEPT ![r] = IdleReq] PROVE Guarded'
  <2>1. \A s \in Reqs : req'[s].at = "idle"
    BY <1>0, <1>4, IdleHolds DEF Alone
  <2> QED BY <2>1 DEF Guarded, PublishLabels
<1>5. ASSUME NEW r \in Reqs, NEW here \in {"store", "restore"}, Store(r, here) PROVE Guarded'
  <2>1. UNCHANGED files
    BY <1>5, StoreFacts
  <2>2. ASSUME NEW v \in req[r].got, NEW q, req' = [req EXCEPT ![r] = q], Stored(r, v, q)
        PROVE  Guarded'
    <3>1. \A s \in Reqs : req'[s].at = req[s].at /\ req'[s].id = req[s].id
      BY <1>0, <2>2 DEF Stored
    <3> QED BY <2>1, <3>1 DEF Guarded, Exists
  <2> QED BY <1>4, <1>5, <2>2, StoreFacts
<1>6. ASSUME NEW r \in Reqs, Call(r) \/ Advance(r) \/ Abort(r) PROVE Guarded'
  BY <1>3, <1>4, <1>5, <1>6, StepCases, EndsFacts
<1> QED BY <1>2, <1>6 DEF Next

\* every reachable state when requests do not overlap
LEMMA GuardedAlone == ASSUME Alone PROVE Spec => [](IInv /\ Guarded)
<1>1. IInv /\ Guarded /\ [Next]_vars => Guarded'
  BY GuardStep
<1> QED
  BY <1>1, GuardInit, Invariance, PTL DEF Spec

LEMMA FrozenStep ==
  ASSUME IInv, Guarded, [Next]_vars, NEW i \in Ids, NEW n \in Chunks,
         files[i].st \in {"published", "archived"}, chunks[i][n].live, files'[i].st # "deleted"
  PROVE  chunks'[i][n].text = chunks[i][n].text
<1>1. CASE SetModel \/ RefreshFetch \/ RefreshStore \/ UNCHANGED vars
  BY <1>1 DEF SetModel, RefreshFetch, RefreshStore, vars
<1>2. ASSUME NEW r \in Reqs, LocalAction(r) PROVE chunks'[i][n].text = chunks[i][n].text
  BY <1>2, LocalCarries DEF Local
<1>3. ASSUME NEW r \in Reqs, Ends(r) PROVE chunks'[i][n].text = chunks[i][n].text
  <2>1. Written(r, i, n)
    BY <1>3, EndsFacts
  <2> QED BY <2>1 DEF Written, Guarded
<1>4. ASSUME NEW r \in Reqs, NEW here \in {"store", "restore"}, Store(r, here)
      PROVE  chunks'[i][n].text = chunks[i][n].text
  <2>1. CASE UNCHANGED chunks
    BY <2>1
  <2>2. ASSUME NEW v \in req[r].got, NEW q, Stored(r, v, q)
        PROVE  chunks'[i][n].text = chunks[i][n].text
    BY <2>2 DEF Stored
  <2> QED BY <1>4, <2>1, <2>2, StoreFacts
<1> QED BY <1>1, <1>2, <1>3, <1>4, StepCases DEF Next

\* When requests do not overlap, the chunks of a version that left the draft state keep
\* their text: _assert_chunk_editable is then as good as a lock.
THEOREM FrozenAlone == Alone => (Spec => PublishedTextFrozen)
<1> SUFFICES ASSUME Alone PROVE Spec => PublishedTextFrozen
  OBVIOUS
<1>1. IInv /\ Guarded /\ [Next]_vars =>
        [\A i \in Ids : \A n \in Chunks :
           (files[i].st \in {"published", "archived"} /\ chunks[i][n].live /\ files'[i].st # "deleted")
             => chunks'[i][n].text = chunks[i][n].text]_vars
  BY FrozenStep
<1> QED
  BY <1>1, GuardedAlone, PTL DEF Spec, PublishedTextFrozen

LEMMA NeverEmptiesStep ==
  ASSUME Alone, IInv, Guarded, [Next]_vars, NEW r \in Reqs, NEW t \in Titles,
         At(r, "commit"), req'[r].at = "idle", Published(t) # {}
  PROVE  Published(t)' # {}
<1>0. req[r].at = "commit" /\ req[r].id \in Ids
  BY Before DEF At, ReqShape, PublishLabels
<1>1. CASE UNCHANGED files
  BY <1>1 DEF Published, Versions, Exists
<1>2. CASE PublishCommit(r)
  <2>1. Exists(req[r].id)
    BY <1>0 DEF Guarded, PublishLabels
  <2>2. CASE t = req[r].title
    <3>1. /\ files'[req[r].id].st = "published"
          /\ files'[req[r].id].title = t
      BY <1>0, <1>2, <2>1, <2>2, CommitRows
    <3>2. req[r].id \in Published(t)'
      BY <1>0, <3>1 DEF Published, Versions, Exists
    <3> QED BY <3>2
  <2>3. CASE t # req[r].title
    <3>1. PICK j \in Published(t) : TRUE
      OBVIOUS
    <3>2. j \in Ids /\ Exists(j) /\ files[j].title = t
      BY DEF Published, Versions
    <3>3. files'[j] = files[j]
      BY <1>2, <2>3, <3>2, CommitRows
    <3>4. j \in Published(t)'
      BY <3>1, <3>3 DEF Published, Versions, Exists
    <3> QED BY <3>4
  <2> QED BY <2>2, <2>3
<1>3. CASE SetModel \/ RefreshFetch \/ RefreshStore \/ UNCHANGED vars
  BY <1>1, <1>3 DEF SetModel, RefreshFetch, RefreshStore, vars
<1>4. ASSUME NEW s \in Reqs, Call(s) \/ Advance(s) \/ Abort(s) PROVE Published(t)' # {}
  <2>1. s = r
    BY DEF Alone
  <2>2. CASE LocalAction(s)
    BY <1>1, <2>2, LocalCarries DEF Local
  <2>3. CASE \E here \in {"store", "restore"} : Store(s, here)
    BY <1>1, <2>3, StoreFacts
  <2>4. CASE Ends(s)
    BY <1>0, <1>2, <2>1, <2>4 DEF Ends, UploadInsert, UpdateChunk, DeleteChunk, UnpublishWrite,
                                  DeleteWrite, PathWrite, At
  <2> QED BY <1>4, <2>2, <2>3, <2>4, StepCases
<1> QED BY <1>3, <1>4 DEF Next

\* When requests do not overlap, a publication never takes a title out of service: what it
\* archives it replaces in the same transaction.
THEOREM NeverEmptiesAlone == Alone => (Spec => PublishNeverEmptiesTitle)
<1> SUFFICES ASSUME Alone PROVE Spec => PublishNeverEmptiesTitle
  OBVIOUS
<1>1. IInv /\ Guarded /\ [Next]_vars =>
        [\A r \in Reqs : \A t \in Titles :
           (At(r, "commit") /\ req'[r].at = "idle" /\ Published(t) # {}) => Published(t)' # {}]_vars
  BY NeverEmptiesStep
<1> QED
  BY <1>1, GuardedAlone, PTL DEF Spec, PublishNeverEmptiesTitle
=============================================================================

--------------------------- MODULE ManualVersions ---------------------------
(***************************************************************************)
(* The life of a manual in the admin console: upload of a draft version,   *)
(* correction of its chunks, publication with embedding, rollback,         *)
(* withdrawal, deletion, and re-embedding after a change of the embedding  *)
(* model (src/admin_console/backend/routers/manuals.py).                   *)
(*                                                                         *)
(* Every request runs in one asyncio process and is interleaved with the   *)
(* others at each await, so each handler is cut into the database          *)
(* statements and remote calls it awaits.  A statement outside a           *)
(* transaction commits at once; the publishing transaction keeps its       *)
(* advisory lock and its row locks until it commits.                       *)
(***************************************************************************)
EXTENDS Naturals, FiniteSets

CONSTANTS
    Ids,        \* the values of manual_files.id (SERIAL, never reused)
    Titles,     \* menu titles under which versions are registered
    Reqs,       \* requests in flight at the same time
    Chunks,     \* chunk numbers of an uploaded document
    MaxVersion, \* bound on manual_files.version
    Texts,      \* chunk texts a document or a correction may contain
    MaxWrites,  \* bound on the writes of the setting vllm_embed_model, the first included
    ModelOf,    \* the model that each write names; an earlier model may come back
    Fits,       \* the models whose dimension is the configured embed_dim
    MaxRefresh, \* bound on overlapping refreshes of the settings cache
    Window,     \* PUBLISH_WINDOW, the chunks sent to the embedding server at once
    Paths,      \* reference paths an operator may set
    Ops,        \* the operations the console users call in this instance
    None        \* NULL

ASSUME ManualAssumption ==
    /\ Chunks # {}
    /\ MaxVersion \in Nat
    /\ Texts # {} /\ None \notin Texts
    /\ MaxWrites \in Nat \ {0} /\ DOMAIN ModelOf = 1..MaxWrites
    /\ Window \in Nat \ {0} /\ MaxRefresh \in Nat
    /\ None \notin Paths
    /\ None \notin [text : Texts, by : 1..MaxWrites, label : 1..MaxWrites]

VARIABLES
    files,      \* manual_files
    chunks,     \* manual_chunks
    req,        \* the local variables of each request
    model,      \* vllm_embed_model in platform_settings, as the number of its last write
    cache,      \* the same in the process's settings cache (config_store)
    fetched     \* rows read by refreshes of the cache still to be stored

setting == <<model, cache, fetched>>
vars == <<files, chunks, req, setting>>
-----------------------------------------------------------------------------
\* A value of the setting is followed as the number w of the write that set it, so that
\* the order of reads and writes shows; the code knows only ModelOf[w], and whatever it
\* compares it compares by that.
Writes == 1..MaxWrites

Embedding == [text : Texts, by : Writes, label : Writes]
Job       == [id : Ids, n : Chunks, text : Texts]
Vector    == [id : Ids, n : Chunks, text : Texts, by : Writes]

Status  == {"unborn", "draft", "published", "archived", "deleted"}
FileRow == [st : Status, title : Titles \cup {None}, ver : 0..MaxVersion,
            pubAt : BOOLEAN, path : Paths \cup {None}]
ChunkRow == [live : BOOLEAN, text : Texts \cup {None}, emb : Embedding \cup {None}]

Labels == {"idle", "insert", "edit", "drop", "path", "unpublish", "delete",
           "config", "fetch", "embed", "call", "store", "lock", "archive", "commit",
           "refetch", "recall", "restore"}
Request == [at : Labels, id : Ids \cup {None}, n : Chunks \cup {None},
            title : Titles \cup {None}, ver : 0..MaxVersion,
            text : Texts \cup {None}, path : Paths \cup {None}, label : Writes \cup {0},
            todo : SUBSET Job, win : SUBSET Job, got : SUBSET Vector, arch : SUBSET Ids]

Unborn    == [st |-> "unborn", title |-> None, ver |-> 0, pubAt |-> FALSE,
              path |-> None]
NoChunk   == [live |-> FALSE, text |-> None, emb |-> None]
IdleReq   == [at |-> "idle", id |-> None, n |-> None, title |-> None, ver |-> 0,
              text |-> None, path |-> None, label |-> 0, todo |-> {}, win |-> {}, got |-> {},
              arch |-> {}]

TypeOK ==
    /\ files \in [Ids -> FileRow]
    /\ chunks \in [Ids -> [Chunks -> ChunkRow]]
    /\ req \in [Reqs -> Request]
    /\ model \in Writes /\ cache \in Writes /\ fetched \subseteq Writes

Init ==
    /\ files = [i \in Ids |-> Unborn]
    /\ chunks = [i \in Ids |-> [n \in Chunks |-> NoChunk]]
    /\ req = [r \in Reqs |-> IdleReq]
    /\ model = 1 /\ cache = 1 /\ fetched = {}
-----------------------------------------------------------------------------
Exists(i)  == files[i].st \notin {"unborn", "deleted"}
Versions(t) == {i \in Ids : Exists(i) /\ files[i].title = t}
Published(t) == {i \in Versions(t) : files[i].st = "published"}

\* pg_advisory_xact_lock(hashtext(title)), held to the end of the transaction
Holds(r, t) == req[r].at \in {"archive", "commit"} /\ req[r].title = t
Unlocked(t) == t \in Titles         \* mutant: the advisory lock is not taken
LockFree(t) == \A r \in Reqs : ~Holds(r, t)

\* rows an uncommitted transaction of another request has updated
RowFree(r, i) == \A q \in Reqs \ {r} : ~(req[q].at = "commit" /\ i \in req[q].arch)

At(r, l) == req[r].at = l
Goto(r, l) == req' = [req EXCEPT ![r].at = l]
Start(r, op, rec) == At(r, "idle") /\ op \in Ops /\ req' = [req EXCEPT ![r] = rec]
Finish(r) == req' = [req EXCEPT ![r] = IdleReq]
Local == UNCHANGED <<files, chunks, setting>>

(***************************************************************************)
(* _insert_draft: MAX(version) + 1 is read, then the row and its chunks    *)
(* are inserted and committed together.                                    *)
(***************************************************************************)
NextByCount(t, v) == v = Cardinality(Versions(t)) + 1     \* mutant: COUNT(*) for MAX
NextVersion(t, v) ==
    /\ \A i \in Versions(t) : files[i].ver < v
    /\ v = 1 \/ \E i \in Versions(t) : v = files[i].ver + 1

\* bound: an id is left for every upload under way
IdsLeft == Cardinality({q \in Reqs : At(q, "insert")}) < Cardinality({i \in Ids : files[i].st = "unborn"})

UploadReadMax(r, t) ==
    /\ IdsLeft
    /\ \E v \in 1..MaxVersion :
          /\ NextVersion(t, v)
          /\ Start(r, "upload", [IdleReq EXCEPT !.at = "insert", !.title = t, !.ver = v])
    /\ Local

UploadInsert(r) ==
    /\ At(r, "insert")
    /\ \E i \in Ids :
          /\ files[i].st = "unborn"
          /\ files' = [files EXCEPT ![i] = [st |-> "draft", title |-> req[r].title,
                           ver |-> req[r].ver, pubAt |-> FALSE, path |-> None]]
          /\ \E x \in Texts : chunks' = [chunks EXCEPT ![i] =
                [n \in Chunks |-> [live |-> TRUE, text |-> x, emb |-> None]]]
    /\ Finish(r)
    /\ UNCHANGED setting

(***************************************************************************)
(* update_chunk and delete_chunk: _assert_chunk_editable reads the status  *)
(* of the document, a later statement writes the chunk by its id.          *)
(***************************************************************************)
EditableAlways(i, n) == chunks[i][n].live       \* mutant: the status is not looked at
Editable(i, n) == chunks[i][n].live /\ files[i].st = "draft"

CheckEditable(r, op, i, n, x) ==
    /\ Editable(i, n)
    /\ Start(r, op, [IdleReq EXCEPT !.at = op, !.id = i, !.n = n, !.text = x])
    /\ Local

KeepEmbedding(c, x) == [c EXCEPT !.text = x]     \* mutant: embedding = NULL forgotten
Corrected(c, x) == [c EXCEPT !.text = x, !.emb = None]

UpdateChunk(r) ==
    /\ At(r, "edit")
    /\ LET i == req[r].id  n == req[r].n IN
         chunks' = IF chunks[i][n].live
                     THEN [chunks EXCEPT ![i][n] = Corrected(chunks[i][n], req[r].text)]
                     ELSE chunks
    /\ Finish(r)
    /\ UNCHANGED <<files, setting>>

DeleteChunk(r) ==
    /\ At(r, "drop")
    /\ chunks' = [chunks EXCEPT ![req[r].id][req[r].n] = NoChunk]
    /\ Finish(r)
    /\ UNCHANGED <<files, setting>>

(***************************************************************************)
(* publish_manual                                                          *)
(***************************************************************************)
PublishRead(r, i) ==
    /\ Exists(i)                          \* else 404
    /\ files[i].st # "published"          \* else "already published"
    /\ Start(r, "publish", [IdleReq EXCEPT !.at = "config", !.id = i, !.title = files[i].title])
    /\ Local

PublishReadConfig(r) ==
    /\ At(r, "config")
    /\ req' = [req EXCEPT ![r].at = "fetch", ![r].label = cache]
    /\ Local

JobsOf(i, n) == [id |-> i, n |-> n, text |-> chunks[i][n].text]

PublishFetch(r) ==
    /\ At(r, "fetch")
    /\ LET i == req[r].id IN
       req' = [req EXCEPT ![r].at = "embed", ![r].todo =
                  {JobsOf(i, n) : n \in {m \in Chunks : chunks[i][m].live /\ chunks[i][m].emb = None}}]
    /\ Local

\* the next window of chunks is handed to embed_texts
PublishWindow(r) ==
    /\ At(r, "embed")
    /\ \E w \in SUBSET req[r].todo :
          /\ w # {} /\ Cardinality(w) <= Window
          /\ Cardinality(w) = Window \/ w = req[r].todo
          /\ req' = [req EXCEPT ![r].at = "call", ![r].win = w, ![r].todo = @ \ w]
    /\ Local

\* One call of the embedding server by embed_texts, for a batch or for one text of a batch
\* that failed: each call reads the configured model again.  A text that fails on its own
\* gets no vector; a dead server raises (Abort).
Embed(r, here) ==
    /\ At(r, here)
    /\ \E b \in SUBSET req[r].win : \E ok \in SUBSET b :
          /\ b # {}
          /\ req' = [req EXCEPT ![r].win = @ \ b, ![r].got = @ \cup
                       {[id |-> j.id, n |-> j.n, text |-> j.text, by |-> cache] : j \in ok}]
    /\ Local

EmbedReturn(r, here, store) == At(r, here) /\ req[r].win = {} /\ Goto(r, store) /\ Local

StoreLateLabel(v, label) ==              \* mutant: the setting is read when storing
    chunks' = IF chunks[v.id][v.n].live
                THEN [chunks EXCEPT ![v.id][v.n].emb =
                         [text |-> v.text, by |-> v.by, label |-> cache]]
                ELSE chunks
StoreVector(v, label) ==
    chunks' = IF chunks[v.id][v.n].live
                THEN [chunks EXCEPT ![v.id][v.n].emb =
                         [text |-> v.text, by |-> v.by, label |-> label]]
                ELSE chunks

\* one UPDATE ... WHERE id = c.id, or the 500 of a vector of another dimension
Store(r, here) ==
    /\ At(r, here)
    /\ \E v \in req[r].got :
          IF ModelOf[v.by] \in Fits
            THEN /\ StoreVector(v, req[r].label)
                 /\ req' = [req EXCEPT ![r].got = @ \ {v}]
            ELSE Finish(r) /\ UNCHANGED chunks
    /\ UNCHANGED <<files, setting>>

FetchAgain(r) == At(r, "store") /\ req[r].got = {} /\ Goto(r, "fetch") /\ Local  \* mutant
WindowDone(r) == At(r, "store") /\ req[r].got = {} /\ Goto(r, "embed") /\ Local

AllEmbedded(r) == At(r, "embed") /\ req[r].todo = {} /\ Goto(r, "lock") /\ Local

PublishLock(r) ==
    /\ At(r, "lock")
    /\ LockFree(req[r].title)
    /\ Goto(r, "archive")
    /\ Local

EveryOther(t, i) == {j \in Ids \ {i} : files[j].st = "published"} \* mutant: no title = $1
InService(t, i) == Published(t) \ {i}

\* first UPDATE of the transaction; its effect is visible to others at commit
PublishArchive(r) ==
    /\ At(r, "archive")
    /\ LET others == InService(req[r].title, req[r].id) IN
         /\ \A j \in others : RowFree(r, j)
         /\ req' = [req EXCEPT ![r].at = "commit", ![r].arch = others]
    /\ Local

MisspeltStatus(f) == [f EXCEPT !.st = "publish", !.pubAt = TRUE]           \* mutant
DraftsOnly(f) ==                         \* mutant: ... AND status = 'draft'
    IF f.st = "draft" THEN [f EXCEPT !.st = "published", !.pubAt = TRUE] ELSE f
PublishedRow(f) == [f EXCEPT !.st = "published", !.pubAt = TRUE]

\* second UPDATE, by id alone, and the commit
PublishCommit(r) ==
    /\ At(r, "commit")
    /\ RowFree(r, req[r].id)
    /\ files' = [j \in Ids |->
                   CASE j \in req[r].arch -> [files[j] EXCEPT !.st = "archived"]
                     [] j = req[r].id /\ Exists(j) -> PublishedRow(files[j])
                     [] OTHER -> files[j]]
    /\ Finish(r)
    /\ UNCHANGED <<chunks, setting>>

(***************************************************************************)
(* unpublish_manual, delete_manual, set_reference_path: a read that        *)
(* decides, then an unconditional statement by id (or title).              *)
(***************************************************************************)
AnyVersion(i) == Exists(i)               \* mutant: the status is not looked at
Withdrawable(i) == files[i].st = "published"
Deletable(i) == Exists(i) /\ files[i].st # "published"

KeepTime(f) == [f EXCEPT !.st = "draft"]         \* mutant: published_at is kept
DraftRow(f) == [f EXCEPT !.st = "draft", !.pubAt = FALSE]

UnpublishRead(r, i) ==
    /\ Withdrawable(i)
    /\ Start(r, "unpublish", [IdleReq EXCEPT !.at = "unpublish", !.id = i])
    /\ Local

UnpublishWrite(r) ==
    /\ At(r, "unpublish")
    /\ LET i == req[r].id IN
         /\ RowFree(r, i)
         /\ files' = IF Exists(i) THEN [files EXCEPT ![i] = DraftRow(@)] ELSE files
    /\ Finish(r)
    /\ UNCHANGED <<chunks, setting>>

DeleteRead(r, i) ==
    /\ Deletable(i)
    /\ Start(r, "delete", [IdleReq EXCEPT !.at = "delete", !.id = i])
    /\ Local

\* ON DELETE CASCADE removes the chunks with the row
DeleteWrite(r) ==
    /\ At(r, "delete")
    /\ LET i == req[r].id IN
         /\ RowFree(r, i)
         /\ files' = [files EXCEPT ![i] = [Unborn EXCEPT !.st = "deleted"]]
         /\ chunks' = [chunks EXCEPT ![i] = [n \in Chunks |-> NoChunk]]
    /\ Finish(r)
    /\ UNCHANGED setting

PathRead(r, i, p) ==
    /\ Exists(i)
    /\ Start(r, "path", [IdleReq EXCEPT !.at = "path", !.title = files[i].title, !.path = p])
    /\ Local

PathWrite(r) ==
    /\ At(r, "path")
    /\ LET rows == Versions(req[r].title) IN
         /\ \A i \in rows : RowFree(r, i)
         /\ files' = [i \in Ids |-> IF i \in rows THEN [files[i] EXCEPT !.path = req[r].path]
                                                  ELSE files[i]]
    /\ Finish(r)
    /\ UNCHANGED <<chunks, setting>>

(***************************************************************************)
(* reembed: the chunks whose embedding is missing or labelled with another *)
(* model than the configured one; limit is a parameter of the request.     *)
(***************************************************************************)
Stale(c, label) == c.live /\ (c.emb = None \/ ModelOf[c.emb.label] # ModelOf[label])
StaleCells(label) == {c \in Ids \X Chunks : Stale(chunks[c[1]][c[2]], label)}

ReembedReadConfig(r) ==
    /\ Start(r, "reembed", [IdleReq EXCEPT !.at = "refetch", !.label = cache])
    /\ Local

ReembedFetch(r) ==
    /\ At(r, "refetch")
    /\ \E s \in SUBSET StaleCells(req[r].label) :
          /\ s = {} => StaleCells(req[r].label) = {}
          /\ req' = [req EXCEPT ![r].at = "recall", ![r].win = {JobsOf(c[1], c[2]) : c \in s}]
    /\ Local

ReembedDone(r) == At(r, "restore") /\ req[r].got = {} /\ Finish(r) /\ Local

\* the settings screen writes the setting (set_config): a model new or used before
SetModel ==
    /\ "model" \in Ops
    /\ model < MaxWrites
    /\ model' = model + 1
    /\ UNCHANGED <<files, chunks, req, cache, fetched>>

\* _refresh_cache_if_stale: any get_config of the process that finds the cache expired
\* reads the rows, and stores them after the await
RefreshFetch ==
    /\ "model" \in Ops
    /\ Cardinality(fetched) < MaxRefresh
    /\ fetched' = fetched \cup {model}
    /\ UNCHANGED <<files, chunks, req, model, cache>>

RefreshStore ==
    /\ \E m \in fetched : cache' = m /\ fetched' = fetched \ {m}
    /\ UNCHANGED <<files, chunks, req, model>>

\* an exception at an await or the death of the process: an open transaction is rolled
\* back, what was committed stays
Abort(r) == ~At(r, "idle") /\ "abort" \in Ops /\ Finish(r) /\ Local
-----------------------------------------------------------------------------
Call(r) ==
    \/ \E t \in Titles : UploadReadMax(r, t)
    \/ \E i \in Ids, n \in Chunks, x \in Texts : CheckEditable(r, "edit", i, n, x)
    \/ \E i \in Ids, n \in Chunks : CheckEditable(r, "drop", i, n, None)
    \/ \E i \in Ids : PublishRead(r, i) \/ UnpublishRead(r, i) \/ DeleteRead(r, i)
    \/ \E i \in Ids, p \in Paths \cup {None} : PathRead(r, i, p)
    \/ ReembedReadConfig(r)

Advance(r) ==
    \/ UploadInsert(r)
    \/ UpdateChunk(r)
    \/ DeleteChunk(r)
    \/ PublishReadConfig(r)
    \/ PublishFetch(r)
    \/ PublishWindow(r)
    \/ \E here \in {"call", "recall"} : Embed(r, here)
    \/ EmbedReturn(r, "call", "store")
    \/ EmbedReturn(r, "recall", "restore")
    \/ \E here \in {"store", "restore"} : Store(r, here)
    \/ WindowDone(r)
    \/ AllEmbedded(r)
    \/ PublishLock(r)
    \/ PublishArchive(r)
    \/ PublishCommit(r)
    \/ UnpublishWrite(r)
    \/ DeleteWrite(r)
    \/ PathWrite(r)
    \/ ReembedFetch(r)
    \/ ReembedDone(r)

Next == SetModel \/ RefreshFetch \/ RefreshStore \/ \E r \in Reqs : Call(r) \/ Advance(r) \/ Abort(r)

Spec == Init /\ [][Next]_vars

\* Every statement and embedding call of a request ends (timeouts), and PostgreSQL serves
\* those who wait for an advisory or a row lock in turn, hence strong fairness.
FairSpec == Spec /\ \A r \in Reqs : SF_vars(Advance(r))
-----------------------------------------------------------------------------
(***************************************************************************)
(* Properties                                                              *)
(***************************************************************************)

\* However publications, withdrawals and deletions of a title overlap, the search never
\* has two versions of it (publish_manual, the advisory lock).
AtMostOnePublished ==
    \A i, j \in Ids :
        (files[i].st = "published" /\ files[j].st = "published"
            /\ files[i].title = files[j].title) => i = j

\* published_at is set in exactly the rows that are or were in service (publish_manual and
\* unpublish_manual write the two columns together).
PublishedAtAgrees ==
    \A i \in Ids : files[i].pubAt <=> files[i].st \in {"published", "archived"}

\* Every behaviour is one of the abstract slots: a publication replaces the version of its
\* title in one step, so no search sees two versions or another title change.
Slot == INSTANCE PublishedSlot WITH slot <- [t \in Titles |-> Published(t)]
RefinesSlot == Slot!SlotSpec

\* A publication never takes a title out of service: if a version was published before the
\* commit, one is after it (publish_manual, the two UPDATEs of the transaction).
PublishNeverEmptiesTitle ==
    [][\A r \in Reqs : \A t \in Titles :
          (At(r, "commit") /\ req'[r].at = "idle" /\ Published(t) # {})
             => Published(t)' # {}]_vars

\* Two uploads of a title get different version numbers (_insert_draft).
VersionsDistinct ==
    \A i, j \in Ids :
        (Exists(i) /\ Exists(j) /\ files[i].title = files[j].title
            /\ files[i].ver = files[j].ver) => i = j

\* A version in service is never deleted (delete_manual, the guard before the DELETE).
NeverDeletePublished ==
    [][\A i \in Ids : files[i].st = "published" => files'[i].st # "deleted"]_vars

\* Only a version in service is turned back into a draft (unpublish_manual).
OnlyPublishedWithdrawn ==
    [][\A i \in Ids : files[i].st = "archived" => files'[i].st # "draft"]_vars

\* The chunks of a version that left the draft state keep their text
\* (_assert_chunk_editable).
PublishedTextFrozen ==
    [][\A i \in Ids : \A n \in Chunks :
          (files[i].st \in {"published", "archived"} /\ chunks[i][n].live /\ files'[i].st # "deleted")
             => chunks'[i][n].text = chunks[i][n].text]_vars

\* An embedding stored for a chunk was computed from the text the chunk has
\* (update_chunk clears it, publish_manual and reembed write it back by id).
EmbeddingMatchesText ==
    \A i \in Ids : \A n \in Chunks :
        (chunks[i][n].live /\ chunks[i][n].emb # None) => chunks[i][n].emb.text = chunks[i][n].text

\* A version in service has every chunk embedded (publish_manual).
PublishedFullyEmbedded ==
    [][\A i \in Ids :
          (files[i].st # "published" /\ files'[i].st = "published")
             => \A n \in Chunks : chunks[i][n].live => chunks[i][n].emb # None]_vars

\* All versions of a title carry the same reference path (set_reference_path).
ReferencePathShared ==
    \A i, j \in Ids :
        (Exists(i) /\ Exists(j) /\ files[i].title = files[j].title) => files[i].path = files[j].path

\* A vector labelled since the configured model came into service was made by it, however
\* publish, reembed and the writes of the setting overlap: the label is read before the
\* embedding calls, so after a change in between it is the older of the two and reembed
\* finds the chunk.  It needs refreshes of the settings cache that do not overlap.
FreshLabelIsTrue ==
    \A i \in Ids : \A n \in Chunks :
        LET e == chunks[i][n].emb IN
        (chunks[i][n].live /\ e # None
            /\ \A w \in e.label..model : ModelOf[w] = ModelOf[model])
           => ModelOf[e.by] = ModelOf[model]

\* What reembed itself goes by: a vector labelled with the name of the configured model was
\* made by that model.  It fails when a model used before is configured again, without any
\* overlapping refreshes: a label older than the change becomes the configured name again.
NameIsTrue ==
    \A i \in Ids : \A n \in Chunks :
        LET e == chunks[i][n].emb IN
        (chunks[i][n].live /\ e # None /\ ModelOf[e.label] = ModelOf[model])
           => ModelOf[e.by] = ModelOf[model]

\* No request waits for ever: the lock of a title is always released, and a failed chunk
\* does not keep the embedding loop going.
RequestsFinish == \A r \in Reqs : ~At(r, "idle") ~> At(r, "idle")
=============================================================================

# AI-Infra-Assistant in TLA+

AI-Infra-Assistant answers questions of a company's infrastructure users in a
chat window. An agent server runs an LLM (Google ADK and vLLM) with tools that search manuals and
old support cases (VOC), run commands on servers over ssh and draw charts; an
admin console maintains the manuals, cases, commands and settings. Everything
is Python on asyncio over PostgreSQL, Redis and HTTP.

This directory holds TLA+ models of the parts of the program whose steps
overlap, fail or depend on an earlier state, TLC configurations that check them on
small instances and TLAPS proofs about them. Source paths are relative to `src/`.

    tlc -workers 2 -config MCManualVersions_publish.cfg MCManualVersions
    tlapm ManualVersions_proofs.tla

## 1. Components

| Component | State | Operations | What is hard |
|---|---|---|---|
| Manual versions (`admin_console/backend/routers/manuals.py`) | `manual_files`, `manual_chunks` | upload commit, chunk correction, publish or roll back, unpublish, delete, reference path, re-embed | every handler is a check, some awaits and a write; publication has a lock, two UPDATEs and a remote call per chunk |
| Settings store (`shared/config_store.py`) | `platform_settings`, a cache per process | set, get, refresh after a TTL | overlapping refreshes, a setting read twice in one request |
| Long-term memory (`shared/memory_store.py`) | `memory_turns`, `user_memory`, `conversation_state` | record, summarise, add a fact, forget one, forget all | tasks run behind the answer, with LLM calls between reading and writing |
| Streaming answers (`agent_server/main.py`, `shared/chart_inline.py`) | session, toolsets, dedup and guard state of a request | prepare, stream, retry, review, release | event order, broken tool calls, disconnection, failures at every await |
| Resident ssh master (`shared/ssh_exec.py`) | processes, control sockets, back-off | ensure, supervise, stop | three callers of one check-then-start, files that outlive processes |
| Commands as the caller (`shared/ssh_exec.py`) | what was learnt about the server | run, fall back to another mode | concurrent attempts, commands run twice |
| Execution gate (`shared/mcp_caller.py`, `mcp_servers/execution_mcp`, `shared/execution_exec.py`, console router) | command table, tool snapshot, audit log | register, toggle, update, delete, call | snapshot against table, audit behind the answer |
| Upload sessions (`uploads.py`) | `upload_sessions`, temporary files | preview, commit, expire | one session committed twice, or cleared before its use failed |
| VOC records (`routers/voc.py`, `shared/voc_classify.py`) | `voc_records`, a running flag | import, edit, delete, classify | partial batches, a background run against edits |
| db-init (`shared/migrations.py`) | schema versions, commands, settings | create, migrate, import, seed | crashes, overlap, later releases, the administrator's changes |
| Embedding client (`shared/db.py`) | Redis cache | embed one or many | batches that fail, keys that mix settings of two moments |
| Search (`manual_search.py`, `voc_search.py`, `retrieval.py`, `manual_mcp/server.py`) | none of its own | rank, fuse, rerank, expand, read a document | statements at different times, boundaries |
| Others | | | see section 7 |

The console writes manuals, records, commands and settings; the search tools read the
published versions; the agent server calls the tools, streams what the LLM makes of their
answers and hands the result to the long-term memory, which comes back in the
prompt of the next question. db-init runs before all of them.

What makes each correct: one published version per title and embeddings that
belong to the text and the model they are labelled with; memory that stays with
its user, is summarised once and is really forgotten; answers that arrive whole
and once, without values nobody looked up, and requests that leave nothing
behind; one master per server and none orphaned; no command run that the console
has switched off, and an account of every answer; verdicts and vectors that belong to the
present text of a record; uploads registered once and kept until they are; an
installation that is complete after db-init and keeps what administrators entered; results
that are whole and without repetition.

## 2. Modules

| Module | Models |
|---|---|
| `ManualVersions` | manuals with the embedding settings they depend on |
| `PublishedSlot` | abstract: one slot per title, replaced or emptied in one step |
| `MemoryLedger` | the long-term memory |
| `StreamAnswer` | one request from the session to the release |
| `SshMaster` | the master processes, their socket files and who starts them |
| `RunAsUser` | one command on the login server with its attempts |
| `ExecutionGate` | extends `RunAsUser`: tools, table, console, audit log |
| `UploadSession` | previews, sessions, commits, restarts |
| `VocRecords` | extends `UploadSession`: imports, edits, classification |
| `Startup` | db-init beside the console, over several releases |
| `Embedding` | calls of the embedding server with the cache |
| `Search` | the two searches and the reading of a document |
| `ManualVersions_proofs`, `MemoryLedger_proofs`, `StreamAnswer_proofs`, `SshMaster_proofs`, `Startup_proofs` | theorems about the module of that name |
| `ExecutionGate_proofs` | theorems about `ExecutionGate` and `RunAsUser` |
| `VocRecords_proofs` | theorems about `VocRecords` and `UploadSession` |
| `Retrieval_proofs` | theorems about `Embedding` and `Search` |
| `MC*` | model values, instances, symmetries and restrictions for TLC |

Operators commented `mutant` are plausible mistakes. They are used by no
action; each shows that a property notices the mistake when the operator takes
the place of the one defined after it. History variables, which no action reads to
decide anything, are marked as such; those called `calm`, `apart`, `severed`, `raced`, `mixed` or `touched`
mark behaviours in which a race or a time-out the code does not prevent has happened. A property named
`Calm...` leaves these out, and section 3 lists the configuration in
which the property without the condition fails.

### ManualVersions

A handler is cut at every await: `PublishRead` is the SELECT of
`publish_manual`, `PublishReadConfig` the read of the model name, `PublishFetch`
the list of chunks without an embedding, `PublishWindow`/`Embed`/`EmbedReturn`/`Store` a window of
embeddings and their UPDATEs, `PublishLock`, `PublishArchive` and
`PublishCommit` the transaction. `req[r]` holds the handler's
local variables, `req[r].at` the statement it awaits next. A statement outside
a transaction commits at once. The transaction's first UPDATE locks the
rows in `arch`, which become visible as archived at the commit; other writers
wait for them (`RowFree`) and publications of the title wait for the advisory
lock (`LockFree`). A file that does not exist is `unborn` (its id not
drawn yet) or `deleted`; ids are never reused.

A vector is abstracted to the text it was made from, the model that made it and the
model name stored with it. `Fits` are the models with the configured dimension;
storing any other vector is a database error that ends the request.
`model` is the setting in the database, `cache` the process's copy, `fetched`
the rows a refresh has read and not yet stored. A value of the setting is followed as the number of the
write that set it, so that what was read earlier can be told from what was read later; `ModelOf` is the model each write
names, in any sequence, and everything the code compares it compares by that name. So an operator may go back to an
earlier model. A label is then true of the vectors labelled since (`FreshLabelIsTrue`), but a false label of the
time before becomes the configured name again, and `reembed` overlooks it (`NameIsTrue`). The TTL is abstracted: any
refresh may start at any time. `LIMIT` and the order in `reembed` are any non-empty
subset of the stale chunks. A correction of a chunk that is gone changes nothing, as in SQL.

Two titles share a lock in the code when their `hashtext` collides; that only
delays, and is left out. A multi-row `set_reference_path` that waits for one row
while it holds another can deadlock with a publication; PostgreSQL aborts one
of the two, which is `Abort`.

### MemoryLedger

`_bg_persist` is `RecordBegin`, two `RecordTurn` (an embedding and an
INSERT each), `RecordCommit`, `ReadState`, `ReadPending` and `SummaryCommit`;
`delete_user_memory` for everything is `ForgetBegin` and one action per DELETE,
committed together. Ids are drawn at the INSERT and seen at the commit, so commits may
come out of order. `created_at` is the time of the transaction. `Abort` is any failure: the open
transaction is lost, earlier ones stay. A fact is the user it belongs to and the
turns it was distilled from.

`summed` and `twice` (turns that went into a stored summary, and into a second) and `calm`
(conversations of one user in which no two tasks ever overlapped) are history
variables: no action reads them to decide anything.

Left out: the text of facts, expiry, the number of facts selected by similarity, and
`turn_count`, which nothing reads.

### StreamAnswer

One request of `chat_completions`. The ADK runner, its tools and the client are
the environment: `Partial` and `Final` are its events, `ToolAnswer` and
`ManualSearched` what `_AnswerGuard.observe` sees, `ToolCallBroken` the
exception `_run_with_toolcall_recovery` catches, `StreamFails`, `PrepFails` and
`PlainFails` all others, `Disconnect` and `Cancelled` the client, `Killed` the
process. A message is a sequence of lines, a line a word, a value to verify or a reference to a
guide. `Feed` is `_StreamDedup.feed`, `Show` the holding back of `ChartInliner.feed`
(any tail may look like the beginning of a marker), `Review` the outcomes of
`_AnswerGuard.review`; whether enough is left to be worth sending is a matter of
text length, so both outcomes are possible.

`mode` is how the ADK streams, `hold` whether the check of values is on; both are fixed for a request.
`agent_query` and `voc_query` run the same loop without the retry and are not modelled
apart. Left out: progress lines, raw tool output, chart pictures, a failure inside
`_create_session` of the retry and a `delete_session` that fails itself.
`unsure` is a history variable: the runner sent a text that cannot be told from a repetition.

### SshMaster

The processes, the socket file of each address and `_master_procs` are separate
variables because they disagree in the interesting states: a process without a
socket, a file without a process (`Stale`), a dictionary entry whose process has
ended. `call[c]` is one call of `ensure_master`, cut at its awaits: `Begin` is the
look at process and file, `CheckAlive` is `ssh -O check` with its time-out,
`Spawn` removes the file and starts ssh, `ChildGone`, `Answers` and `Deadline` are the
ends of the polling loop, `Store` keeps the process. The caller `Supervisor` is the
start-up and then `start_master_supervisor`, the others are GET /warm. ssh is
external: a master binds the path if there is no file and otherwise exits or runs on
without a socket; it removes the file it bound when it exits, not when it is killed. A
command that finds no listener connects by itself and leaves a master
(`CommandConnects`, `Expires`). The length of the back-off is time and is abstracted; the count
that determines it is kept. Two history variables say what disturbs the single master, both since the last start of
the service: `apart`, that no calls have overlapped each other or a connecting command, and `severed`, that
a check of a socket somebody listened on ran into its five seconds, which `ensure_master` takes for no listener and removes the
file (ssh_exec.py:354-356, 408-414). `Calm` is apart and not severed; each condition alone is not enough (section 3).

### RunAsUser and ExecutionGate

`RunAsUser` is `run_ssh_as_user`: `Launch` builds the command and reads the mode, `Attempt` is an answer
of ssh and what the loop makes of it up to the next await, `TimesOut` the time-out of
`wait_for`. `needs` and `downgrade` are the two variables of the process from
which all commands learn. The login server is a record: whether it has runuser and where it
finds each command. An exit code and what stderr says are any combination such a server gives.

`ExecutionGate` is the wrapper around it (`build_wrapped`): `Arrive` (no user, no
execution), `Check` (`_tool_state` and the roles), `LogRefusal`, `Handle`, `RunIt`,
`Answer`, `WriteLog`. `offered` is the snapshot of the table taken at `Restart`, `rows` the
table, which `Open`/`Write`, `Toggle`, `Update` and `Delete` change. `Open` reads the tool
names that are taken and `Write` uses them later: two administrators can draw the same
name, and the unique index refuses the second. Titles share one ASCII base, so that
names collide. `tool_name_for` tries the base and the numbers up to `MaxSuffix` (99) and then returns the base with a hash
(`Hash`), which may be taken: a bulk registration leaves such a title out (`validate_definition`). The argument rules of `execution_exec.py` are a verdict: any command
may be refused at `Launch`.

### UploadSession and VocRecords

`sess[u]` is a row of `upload_sessions` and its file, `prev[u]` the preview that made it, `req[r]` a
commit. The commits of documents, spreadsheets and execution commands (`Early`) clear the
session in `ClearFirst`, before `Store`; VOC tables in `ClearLast`, after the last row. A clearing that
fails leaves the row, with its file or without (`DiscardFails`: the file goes before the DELETE). A
clean-up reads and unlinks (`CleanupRead`), then deletes by a second look at the clock (`CleanupDelete`); either may fail and end the preview.
Expiry may come at any time.

`VocRecords` adds the rows (`recs`, by id), the import loop one row per step (`Embed`, `InsertRow`), the console's
edits and the classification: `Start` with the guard, `Launch` when `get_pool` has returned,
`ReadPending`, `Judge`, one `WriteVerdict` per row, `Finish`; `Fails` is the `except` with its `finally`. A
text is a version number, a vector or verdict is the version it was made from. `todo` is the
set of rows a run has still to judge; a batch takes the first of them by id. Any
import may fail at any row, any batch may get no verdict.

### Startup

One db-init is `EnsureDatabases`, `ReadApplied`, `Apply` (one transaction per version),
`ReadRegistry`, `Import` (one INSERT each), `Seed` (one key each). `Crash` stops it anywhere,
`Upgrade` installs a release in which a version with any number may be new, or another value in
`.env`. Which name `tool_name_for` gives to a title is any choice of bases, so that
a title of the catalog may take the name of a custom command. After `MaxSuffix` numbers the name has a hash instead and may be
taken: the import then skips the command (`ON CONFLICT DO NOTHING`), the console refuses it. The console's edits come in
between at any step. The custom commands come second (stage `custom`) and are left out when
`system_db` cannot be read. `alone` says whether every change of a command since a process read the
registry was an import's. What the SQL of a migration does is left out; `ran` counts how often it
took effect.

### Embedding and Search

`Embedding` is `embed_texts` with `_embed_batch`: `ReadModel`, one `LookUp` per
text, `Post` and `Store`, with the settings read again where the code reads them
again. A vector is the server, the model and the text it came from. The server may order its
answer as it likes if it numbers the items, refuses texts in `Bad`, and may fail; since only the
texts without a cached vector are sent, the order is a permutation of their places. One batch
that fails is repeated text by text; failures in a row give up.

`Search` has `Candidates` (one statement: any orders on the three axes, fused by rank), `Rerank` (any
answer, also nonsense; then the removal of near-duplicates), `AttachNeighbours` (a second
statement) and `Open`, `Count`, `Page` for `get_document`; a page stops at the first chunk that does not fit. `Weight` is the
fraction 1/(60 + rank) in units of 1/`Common`, so that scores add up exactly; the order of equal scores is open. Without a vector the
candidates are any list (the words axis alone). What an axis finds and how alike two texts are is data:
a number per chunk, and neighbours in it are alike. A result is the set of chunks its text shows whole, and whether it says that it is cut (`Clipped`): the texts of the chunks around the hit are joined
in their order, from the one before the hit on, and what is longer than `manual_result_max_chars` ends there with a notice. A
chunk may be as long as the limit, so the hit itself can be lost; `ResultsWhole` says what the code then still
promises, and `HitShown` and `StepsShown`, which one would like, are violated. A VOC record has the size of the longer of its question and answer, which are cut one by one. The switch of the
near-duplicates, the window and the limit are settings, read after the reranker has answered.

## 3. Runs

| Run | Instance | Shows |
|---|---|---|
| `manual_publish` | 3 ids, 2 titles, 2 requests, upload/publish/unpublish/delete/abort | one published version per title, `PublishedSlot` implemented |
| `manual_sequential` | 3 ids, 1 title, 1 chunk, 2 texts, 1 request, all operations | the guards of the handlers give the documented rules when requests do not overlap |
| `manual_embedding` | 1 id, 2 chunks, 2 requests, 4 writes of the setting: two models, the first again, one that does not fit | a label given since the configured model came into service is true when refreshes of the cache do not overlap |
| `manual_live` | 2 ids, 2 requests | no request waits for ever |
| `memory_ledger` | 2 users, 2 conversations, 2 tasks, 3 calls, a summary every 2 turns | separation of users, order in prompts, exactly-once summaries in calm conversations |
| `stream_answer` | 3 lines of 4, every mode, fair | deduplication, verification, delivery, memory, release |
| `ssh_master` | 2 addresses, 3 processes, supervisor and /warm, 1 fault, fair | without overlap and without a socket in use removed, one master and a truthful cheap look; a lost connection or a changed host is reached again |
| `execution_gate` | 2 callers, 2 titles, 2 kinds of server, 2 administrators, 1 restart, fair | a tool switched off does not run, answers are accounted for, commands repeat only with a reason, the login shell is reached, every call settles |
| `console_records` | 2 uploads, 2 requests, 2 runs, 2 rows, 1 restart, fair | imports stored whole and once, failed VOC commits can be repeated, verdicts fit their text, one classification at a time, and it ends |
| `startup` | 2 db-inits, 2 versions, 2 releases, 3 commands, 2 settings, 2 changes, 1 crash, fair | migrations take effect once, a db-init that ends well left everything ready, the console's values stay, it converges |
| `retrieval` | 3 texts in calls of up to 3, batches of 2; 1 manual of 3 or 4 chunks, 2 records | vectors fit their texts, results are whole or say that they are cut, documents are read through |
| `console_session` | as `console_records`, no classification | a counterexample, see below |

Why the bounds are enough. Two overlapping requests show every pairwise race of
the handlers, and a third version lets one be in service, one archived and one
arriving; the second title shows that titles do not disturb each other. Three models let
the setting change twice within a request, and one does not fit. Three
calls to the memory give four turns and a deletion, or two summaries
of which one overlaps a forgetting; with four calls and one conversation
(3.3 million states) the same properties hold. Three lines are a message before
a tool call, one after it and one in the retry.

For the ssh master, three processes are the one stored, the one being started and one a command left
behind or whose call has given up; one fault (a lost connection, a kill, a restart, a changed host)
comes at every point. In the gate, two titles are enough for one row to lend its tool name to the
other and for the limit of tools (`MaxTools = 1`) to leave one out; two calls are enough for one to
learn under the other's attempts. Two rows of a file have a beginning, a middle at which the import fails, and an end, and
a batch size of 1 puts an await between them;
a commit of an upload stores two rows when no other commit is sent; a gap limit of 2 is reached by one file and not by another.
Two releases bring a version older than one applied, and two changes let an administrator delete
a command and create another that takes its name (1.26 million states). One number before the hash, and one hash for all titles,
make two titles run out of names. Ranks up to 2, answers of two
items texts of no limit or of three units over chunks of one and three, and pages of two chunks or five units make the fusion, the cut of an answer, the
cut of a text and the end of a page fall inside, on and beyond the boundary.

`MCSshMaster`, `MCExecutionGate`, `MCVocRecords`, `MCStartup` and `MCRetrieval` restrict
combinations and say so: the host changes while the supervisor is alone, and a behaviour leaves `Calm` in one of the two ways until the next restart; administrators act in
behaviours with one call; commands are changed in the first release, and not the second of the catalog, settings before any other
change and while no db-init runs, and the environment in the last release; the catalog is imported in the order of its names, which have one base; a behaviour is about commits, or about an import beside edits and one
run, or about edits and several runs; or about the embedding server, or one search, or one
reading. Every property relates only actions that some kind of behaviour combines. The other
`MC` modules restrict nothing. The theorems of section 4 are about the specifications themselves, without
these restrictions.

Bounds are constants: `Ids`, `MaxVersion`, `MaxWrites` (of the setting), `MaxRefresh` (refreshes
under way), `Window` (chunks per embedding window), `MaxTx` (calls to the
memory), `MaxLines` (lines the LLM writes), `MaxFails`, `MaxFaults`, `MaxEdits`, `MaxRestarts`,
`MaxRecs`, `MaxItems`, `MaxText`, `MaxCrash`, `MaxRelease`, `MaxCalls`, `MaxSetting`, `MaxMoves`. Deadlock is checked where requests can
always come back (`manual_sequential`, `manual_embedding`, `manual_live`); elsewhere a behaviour ends
when its ids, calls or requests are used up, so it is switched off. Symmetry is used in
safety runs only, over values no formula tells apart; the runs with liveness use none.

### Fairness

`ManualVersions!FairSpec`: every statement and remote call ends by its answer or
its timeout, so a request that can go on does; lock waits are served in turn by
PostgreSQL's lock queues, so a request that gets its chance again and again takes
it (strong fairness of `Advance`). New requests and changes of settings need not happen.

`StreamAnswer!FairSpec`: the handler goes on because the LLM and the tools
answer or time out (weak fairness of `Handle`; the model never forces an error, a
retry or a disconnection), and the event loop finalises an abandoned
asynchronous generator (weak fairness of `Collect`). `Released` promises nothing after `Killed`, which is the death of the process and
also the cancellation of the cleanup itself.

`SshMaster!Fairness`: the supervisor's loop catches every exception and never ends (weak fairness of its
steps). Whether ssh reaches the server is the network's affair, so `Recovers` assumes that a server that is tried again and
again is reached within the deadline some time (strong fairness of the start, the connection and the
answer). A check that times out on a socket in use ends the calm the property is about. No fairness is assumed of /warm, of commands or of faults.

`ExecutionGate!Fairness`: every coroutine that can go on does; `wait_for` bounds an attempt and the
database answers or fails. Nothing is assumed of new calls, administrators or restarts.

`VocRecords!Fairness`: what a request or task waits for answers or times out, so both go on. The embedding server and the
language model are called with time-outs; that the database answers or breaks the connection is an assumption, since the pools set no
`command_timeout`. `Startup!FairSpec`: db-init waits for nothing for ever, and since its container has
`restart: "no"`, somebody starts it again as long as it fails; crashes are bounded.

### A disagreement

`console_session` ends with a counterexample, against a sentence of the
repository (quoted in `PROJECT.json`): a commit that fails has lost its upload session, although
the comment in `commit_document` (manuals.py:200), `commit_excel` (:295) and the command import (execution.py:522) says it
keeps it; the session is deleted at manuals.py:206, :302 and execution.py:527, before the content is examined and stored.

### Configurations run by hand

They end with a counterexample; they are the limits of the properties the passing runs
show for one request at a time or under a condition. One property is active in each file, the others
are comments to be activated one at a time.

| Configuration | Property | What happens |
|---|---|---|
| `MCManualVersions_races` | `VersionsDistinct` | two uploads read the same MAX(version) |
| | `NeverDeletePublished` | a version is published between the check and the DELETE |
| | `OnlyPublishedWithdrawn` | an archived version becomes a draft |
| | `PublishNeverEmptiesTitle` | the row to publish is gone, the one in service is archived all the same |
| | `PublishedFullyEmbedded` | a publication goes on although single chunks failed to embed (manuals.py:401 against its docstring, :358) |
| `MCManualVersions_editing` | `EmbeddingMatchesText` | a correction during the embedding call is left with the vector of the old text (manuals.py:409 against :311) |
| | `PublishedTextFrozen` | a chunk is corrected after its version went into service |
| `MCManualVersions_label` | `FreshLabelIsTrue` | an older refresh of the settings is stored last |
| `MCManualVersions_names` | `NameIsTrue` | the label is read (manuals.py:366), the setting is changed, the vectors are made by the new model, and the first model is configured again |
| `MCManualVersions_path` | `ReferencePathShared` | a version uploaded after the reference path was set has none (manuals.py:127 against :74) |
| `MCMemoryLedger_limits` | `NotSkipped` | a summary for one user passes the turns of another in a shared conversation (memory_store.py:181 against migrations.py:326) |
| | `PromotedOnce` | two tasks summarise the same turns |
| | `ForgottenForGood` | a summary under way stores facts after everything was forgotten (memory_store.py:172 against main.py:1473) |
| `MCStreamAnswer_limits` | `NoSessionLeft` | a failed preparation leaves its session (main.py:948, against :287) |
| | `DeltaExact` | a delta that begins with all that was sent loses a piece |
| | `RememberedVerified` | the unreviewed answer goes into the memory (main.py:995-998) |
| | `RetryTextShown` | after a stream that broke within a message the retry's answer is dropped as a repetition (main.py:779 against :887) |
| `MCSshMaster_limits` | `OneMaster` | overlapping calls start a master each, one is never stopped |
| | `LooksUpIsUp` | process and file are there, but the file belongs to nobody |
| | `ApartOneMaster` | without any overlap: the socket of a command's master is removed because its check timed out and ours binds the path; when the other ends it takes the file along, and the next round starts a second master |
| | `ApartLooksUpIsUp` | without any overlap: the same, and another command's master has bound the path before the next look |
| `MCExecutionGate_limits` | `EveryRefusalLogged` | a refusal by the handler leaves no row in `job_logs` (mcp_caller.py:177 against README.md:70) |
| | `LoweredWithReason` | runuser naming a command it cannot start is taken for a missing runuser |
| `MCVocRecords_limits` | `NoFileLeft` | a session expires within a clean-up: its row goes, its file stays (uploads.py:118) |
| | `LabelFitsText` | the verdict on an old text is written over an edit (voc_classify.py:269) |
| | `OneRun` | two starts wait for the first pool together (voc.py:199) |
| `MCStartup_limits` | `AllImported` | a custom command whose name the catalog has taken is left out and counted (migrations.py:923) |
| | `DeletedStays` | a command deleted in the console comes back at the next start |
| `MCRetrieval_limits` | `CacheFits` | a setting changes between the reading of the model and of the key (db.py:101) |
| | `NothingCut` | the rest of a chunk that was cut is returned by no page (manual_mcp/server.py:76) |
| | `HitShown` | the text begins with the chunk before the hit and is cut after it (manual_search.py:253) |
| | `StepsShown` | the chunk between two hits is cut off both (manual_search.py:253; the docstring at :161-164 wants it there) |
| | `NoneTwice` | with the removal of near-duplicates off, an answer that repeats an index repeats the chunk |

## 4. Proofs

Every safety property of a passing run has a theorem. The theorems hold for all values
of the constants that satisfy the assumptions, which are weak and named in the modules; TLC checks them
in every run:

- NULL is no value: `None` is not an id, a path, a row, a text or a vector (in `StreamAnswer`, no sequence of
  lines), and the values of different kinds (words, looked-up values, guides, error texts) differ;
- bounds are numbers, and those that stand for sizes are not 0;
- what lies in a table or in memory is finite (`Reqs`, `Catalog`);
- a document has chunks, a chunk has a text, the content of a manual is a sequence; the first rows of the table of commands have
  different names;
- `Common` is a multiple of every 60 + rank, which some number is for any limit of an axis.

A theorem about a history without overlap says so in the property (`Calm...`) or in a condition on the constants
beside the theorem. Each condition is met by the run that checks the property, and section 3 lists the
counterexample without it.

**`ManualVersions_proofs`.** `AtMostOnePublished` is not inductive: the commit of a
publication archives what its first UPDATE found, and what keeps that set
right in between is split over the lock, the row locks and the rows of others.
The inductive invariant `IInv` is

- `TypeOK`, and `Shape`: which local variables are set at which label;
- `TargetInv`: the row a request publishes was uploaded under the title it locks;
- `LockInv`: one holder of each title's lock;
- `ArchiveInv`: between the two UPDATEs the rows to archive are exactly
  the other published rows of the title, because only the lock's holder can
  publish one and unpublish waits for its row;
- `AtMostOnePublished` and `PublishedAtAgrees`.

`LocalStep`, `ChunkStep` and `FilesStep` say which part of it each kind of statement can
disturb; there is one lemma for each statement that writes a file row. From it follow
`TypeCorrect`, `OnePublishedPerTitle`, `PublishedAtCorrect` (which no run lists) and `Refinement`:
the specification implements `PublishedSlot` under
`slot[t] = Published(t)`, by `OneSlotChanges` for steps that write one row and
by the lock for the commit.

About chunks, each relative to `IInv`: `LabelsTrue` needs that writes of the setting follow each other, so that the label a
request holds was not written after the model that makes its vectors (`Aging`), whichever models are named; it holds if
refreshes of the settings cache do not overlap (`OneRefresh`). `NamesTrue` draws from the same invariant that the bare
name is enough if no replaced model comes back (`NoReturn`). `TextsFit` needs that a text read for embedding is still the chunk's
(`TextInv`), which a correction breaks, so it is proved for requests one at a time or without
corrections (`Steady`). `FrozenAlone` and `NeverEmptiesAlone` need that what a handler checked still holds at its last
statement (`Guarded`), which is true of one request at a time (`Alone`).

**`MemoryLedger_proofs`.** `NoCrossUser` needs that the rows in a task's hands belong
to the user it serves: `GoodTask` says so from the query to the commit,
`Tables` gives the tables their types. `TypeCorrect` and `MemoriesStayApart` follow.
The separation therefore rests on the one condition `user_id = $3` in the query
of the pending turns, and on nothing about the order of tasks. The other properties need two more layers: `IdsInv`, that
an id is drawn once and the two turns of a call have its time and follow each other (`TurnsPaired`); and `CalmInv`, that in a
conversation without overlap no task holds rows another has summarised or deleted, every turn passed
was summarised, and facts of a forgotten turn are nowhere, neither stored nor in a task's hands (`NothingSkipped`,
`PromotedAtMostOnce`, `NothingLeftBehind`).

**`StreamAnswer_proofs`.** What a client has seen, what is held back and what `_StreamDedup` knows are three
sequences. `InStep` ties the last to what the LLM said, `Sent` the first two to it (`out \o buf`, with the text of an error behind
it at the end), `Remembered` what is stored. `EveryLineOnce`, `Grounded`, `AnswerWhole` and `ShownIsRemembered` follow.
`Without` keeps the lines not in a set, in order; that a review shows nothing made up rests on what it returns.

**`SshMaster_proofs`.** In `Calm` (no overlap, no socket in use removed): every master that is up listens on its server's socket (`Listening`), a child
that still connects has a call waiting for it (`Awaited`), and `_master_procs` holds only what is up or over
(`Kept`). None of the three survives a step without the others. `OneMasterAtATime` and `LooksUpMeansUp` follow.

**`ExecutionGate_proofs`.** `OffIsOff` needs why a call may be past the gate (`Passed`: its tool was on at a moment since it
arrived) and that it is about a tool on offer; `AnswersAccounted` needs what `job_logs` and the pending tasks hold of a call at
each of its stages (`Logged`); `RepeatsHaveReason` and `LoginShellReached` what a command has tried so far and with how many
effects (`Tried`), which holds for each call alone. `NamesApart`: two administrators never leave two rows with one name, whatever they read before;
a name that is taken although `tool_name_for` returned it is refused, by the check of the title or by the unique index.

**`VocRecords_proofs`.** `Sessions` says what an upload that was offered still has, at every stage of a commit and of a clean-up
(`SessionSurvives`); `Once` that without overlap a registered upload has no session, or only the commit that is about to clear it
(`RegisteredOnce`); `StoredBy` which rows of an import are in the table before, between and after its inserts (`ImportsWhole`);
`Fits` that a classification carries the text a row has, unless the row was touched meanwhile (`LabelsFit`); `Single` that the
flag is up exactly while a run is under way (`OneRunAtATime`).

**`Startup_proofs`.** `MigratedExactlyOnce` only needs that a version is counted and recorded in one
step. `DoneReady` says of each stage what the stages before it have established (`Recorded`, `Seeded`, `Passed`), and of
imports that run beside each other without an administrator (`Imported`) that names seen are still in use and that a title
came with its first name, or that name was taken. A name of the catalog that is skipped must be found to be the name of the very title, or all
numbers to its base taken: the names with a base that a process knows and the titles with it that are done grow in step (`InStep`), until
the numbers are used up (`Full`). The property says `alone` of the whole chain of imports: with an administrator's change
seen by one import and its names used by another, a title of the catalog may be left out, which two changes show and one does not.
`ConsoleKeptAlways` is an action property from the same invariant.

**`Retrieval_proofs`.** About `EmbedSpec` and `SearchSpec`, whose variables are disjoint. `EveryTextItsVector`: the places filled so far belong to the first
texts (`Filled`), the part under way follows them with its keys and cached vectors in step (`Underway`), and the
cache holds what its keys say, unless a setting changed in the middle of a call (`Kept`). `ManualReadThrough`: what was read is
the chunks 1 to `offset`; that a page ends somewhere, at a chunk that does not fit or with its rows, is the choice of a least number.
`AnswersWhole`: `Good` says at each stage what the next relies on. A cut text shows the chunks before a number
(`Clipping`), so that it has no gap from its beginning on (`StartFrom`), and one that is not cut shows all. What every axis puts first has the highest score and leads the
candidates (`FirstWins`, `FusedFacts`); the removal of near-duplicates keeps the first and of those that are alike one, described by the
set of places it keeps (`DedupedFacts`); and of two hits not more than twice the window and one apart, every chunk between is near enough to
one of them, so that it is shown or the one it belongs to says that it is cut (`WholeFrom`). The attempt corrected the property: it asks for what lies between two hits only if both are of one document,
since a manual whose last chunk is another document's gives that hit its own text alone.

Two forms recur. Induction over numbers is done by the least element of a set (`Smallest`), since the library's induction theorems
take operators. And arms of a `CASE` that overlapped were made exclusive, since what such a `CASE` denotes is open although TLC takes the
first.

Only model-checked: the liveness properties (`RequestsFinish`, `Released`, `Recovers`, `EveryCallSettles`, `ImportsEndFlagFalls`,
`Converges`), which are beyond the proof system together with ENABLED. No safety property is left to TLC alone.

## 5. What is not shown

Vectors, similarity, full-text ranking and the LLM's choice of words are outside
the models, as are the formats of documents, spreadsheets and charts. Two
processes that serve the same console would each have a settings cache; the model has one.
Times are abstracted to what may come before what. What an ssh client that was killed
leaves running on the server is a command whose effect is open (`TimesOut`).

## 6. Plan

Done: all modules of section 2, checked; every safety property of a passing run, proved.
Left: abstract specifications for the gate (an answer and its row in `job_logs`) and for an upload (registered at most
once), and proofs that the modules implement them.

## 7. Not modelled

- Agent construction and instruction, the service hub and the masking of
  personal data keep no state.
- Document parsing, cleaning and the drawing of charts convert formats; the modules take their results as inputs.
- The argument rules of `shared/execution_exec.py` (what a command may contain) are text rules; `RunAsUser` takes their
  verdict, accepted or refused.
- Console accounts, settings and restarts are single statements (a change of the embedding model is `SetModel`).
- The creation of connection pools and of the shared HTTP client (`get_pool`), except for the await it puts into the start of a classification.
- `agent_query` and `voc_query` of the agent server, which run the loop of `StreamAnswer` without its retry.
- The first load and the time-to-live of the settings cache.
- The SQL inside the migrations, apart from the tables the modules start from.
- The front end, containers, scripts, vendored packages and the mock LLM hold no logic of the program.

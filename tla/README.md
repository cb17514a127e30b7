# A TLA+ model of Memstem

Memstem keeps an agent's memories as markdown files (the *vault*), indexes them
in SQLite for full-text and vector search, and ingests new ones from the session
files of several coding agents. This directory holds TLA+ modules of its
stateful core, TLC configurations that check them on small instances, and TLAPS
proofs of the theorems that matter most for every size of the instance.

Paths below are relative to `src/memstem/` of the repository.

## 1. The system

### Components, their state and their operations

| component | code | state | operations |
|---|---|---|---|
| Vault | `core/storage.py`, `core/frontmatter.py` | one markdown file per memory | `write` (temp file, then rename), `read`, `delete`, `walk` |
| Index rows | `core/index.py` | `memories`, `tags`, `links`, `memories_fts`, by id, `path` unique | `upsert` (displaces another id that has the path), `delete` (cascades) |
| Vectors | `core/index.py` | `memories_vec`, `embed_state` (body hash, signature, time) | `plan_vector_reuse`, `apply_vectors`, `record_embed_state`, `needs_reembed`, `strip_vectors`, `verify_embedding_signature` |
| Compaction | `core/index.py`, `hygiene/loop.py` | `memories_vec_new`, `memories_vec_old` | copy aside in batches, bring up to date, compare, rename |
| Read connections | `core/index.py` | a pool of four, searches in flight | `reader`, `search_started`, `search_finished` |
| Embedding queue | `core/index.py`, `core/embed_worker.py` | `embed_queue` (stamp, claim, retries, failed) and the workers | `enqueue_embed`, `claim_pending`, `dequeue_embed_if_unchanged`, `release_embed_claim`, `mark_embed_error`, `reset_failed_queue`; `EmbedWorker.tick` |
| Ingest pipeline | `core/pipeline.py`, `core/dedup.py`, `core/extraction.py` | `record_map` (source, ref -> memory), `body_hash_index` | `Pipeline.process`: noise, duplicate, retire, write, index, hash, enqueue |
| Daemon | `cli.py` | background tasks, the reconcile's skip, tombstones | reconcile, live drain, prune of removed files, sweep of removed sources |
| Hygiene loop and lock | `hygiene/loop.py`, `hygiene/state.py` | `hygiene_state` (locks, last runs, cursors) | poll, due check, lock, run, mark, release |
| Importance | `hygiene/importance.py` | its cursor; the importance in files and rows | plan from the rows above the cursor, bump memory by memory, move the cursor |
| Distillation | `hygiene/session_distill.py` | summaries in the vault, failures per session, `summarizer_cache` | candidates, ask, write, drop displaced summaries |
| Project records | `hygiene/project_records.py` | `memories/projects/<slug>.md` | look, ask unless flagged `manual`, write |
| Clean-ups | `hygiene/cleanup_retro.py`, `hygiene/expired_vectors.py`, `scripts/dedupe_*.py` | `deprecated_by`, `valid_to`, `dedup_audit`, skill tickets, a manifest | collapse duplicates, mark noise, strip vectors |
| Query log | `core/retrieval_log.py`, `core/retrieval_pending.py` | `query_log`, a spool of pending entries | log, prune, spool, replay |
| Search | `core/search.py`, `core/mmr.py`, `core/recency.py`, `core/rerank.py`, `core/hyde.py`, `core/jev_shadow.py` | a thread pool for semantic legs, `rerank_cache` and the cache of expansions, the Jev ledger | keyword query and semantic leg, fusion, boosts, reading of files, rerank, MMR, Jev |
| Servers | `servers/` | none of its own | MCP and HTTP requests; `memstem_upsert` writes |
| Adapters | `adapters/` | read positions in foreign files | one record per session, memory or skill |

### How they interact

* Several threads of the daemon, the MCP server, and the command line's
  processes share one vault directory and one SQLite file. SQLite serialises
  transactions; nothing serialises the *sequences* of transactions that make up
  one operation. Files and rows are never committed together.
* The pipeline and `memstem_upsert` hand work to the workers through
  `embed_queue` only. A worker reads the vault, not the row that asked.
* Hygiene stages read, change and rewrite vault files that the pipeline also
  writes, and run in the daemon and from the command line under one lock per
  stage. The clean-ups take no lock.
* Searches read rows on connections of their own and then the files, while all
  of the above go on; bulk ingest waits for them a little. What a search shows
  is logged, through the spool when the database is busy, and the importance
  stage reads the log.

### What is hard

Interleavings of transactions of two workers, or of a worker and a writer, on
one memory; leases that end before the work; crashes between two commits of one
operation; a text that is taken back while its successor is being embedded; an
error that arrives after the thing that failed was replaced; a stage that
outlives its lock or its task; a plan that is minutes or days old when it is
applied; a copy that falls behind its original; a search whose leg never comes
back; an interrupt that may hit somebody else's connection. `hazards` in `PROJECT.json` lists them line by
line.

### What makes each component correct

* **Queue**: a request is never lost, never erased by work done for an older
  text, is served by one worker at a time, and ends. `embed_state` tells the
  truth about the vectors. A stored text ends up with its vectors.
* **Ingest**: one record of a source has one memory; identical text is stored
  once; what was ingested last is what the vault holds; a removed source hides
  its memory and a returning one shows it again.
* **Hygiene lock**: runs of a stage take turns; a crash does not block the stage
  for ever.
* **Query log and importance**: what is shown enters the log once, though it
  was spooled; each row of the log raises its memory once; no row is passed by.
* **Distillation and project records**: a session or a project comes to have one
  summary, current when it counts as current; flagged text of the operator stays;
  refusals cost a bounded number of calls.
* **Clean-ups**: a hidden duplicate leads to a copy that is shown; vectors and
  hashes stay true; everything is on record.
* **Compaction**: the swapped-in table holds what the old one held.
* **Search**: connections come back, a search interrupts only its own scan, an
  answer contains only memories that exist and are not hidden, in time.

## 2. The modules and the code

| module | models | extends / uses |
|---|---|---|
| `EmbedQueue` | queue, workers, the writers' half of storing a text | |
| `MCEmbedQueue` | text histories and symmetry for TLC | `EmbedQueue` |
| `EmbedQueueProofs` | types, requests are not erased, one worker per record, `embed_state` tells the truth, no text is forgotten | `EmbedQueue`, TLAPS |
| `StageTurns` | abstract: runners of a stage take turns | |
| `StageLock` | the stage lock, cadence, failure, cancellation, crash | implements `StageTurns` |
| `MCStageLock` | instances | `StageLock` |
| `Ingest` | pipeline, record map, body hashes, reconcile, sweep, prune | |
| `MCIngest` | text histories for TLC | `Ingest` |
| `IngestProofs` | types, no authored memory is out of the sweep's reach, what is skipped is stored, a text is stored once by one thread or two | `Ingest`, TLAPS |
| `QueryLog` | log, spool, replay, prune, for two processes | |
| `Importance`, `MCImportance` | the importance stage over the log, beside the pipeline | `QueryLog` |
| `ImportanceProofs` | a spooled batch is in the log once, the cursor passes no row by, a row counts once, runs take turns | `Importance`, `StageTurns`, TLAPS |
| `SessionDistill`, `MCDistill` | session summaries by the loop and the command | |
| `HygieneProofs` | the lock's refinement; summaries: types, one to a session, current ones are, calls are bounded, under the lock in turns | `StageLock`, `SessionDistill`, `StageTurns`, TLAPS |
| `ProjectRecords`, `MCProjects` | project records, the operator's flag and edits | |
| `ProjectProofs` | types, manual texts are kept, one id and one row per record, runs take turns | `ProjectRecords`, `StageTurns`, TLAPS |
| `Cleanup`, `MCCleanup` | retroactive clean-up, the phase-1 scripts, expired vectors, beside pipeline and worker | |
| `CleanupProofs` | a survivor remains, a copy is there, vectors and hashes stay true | `Cleanup`, TLAPS |
| `VecCompact`, `MCCompact` | the rebuild of the vector table beside its writers | |
| `VecCompactProofs` | rows and vectors survive a rebuild | `VecCompact`, TLAPS |
| `Ranking` | fusion, multipliers, rerank, MMR and Jev orders, as operators | |
| `Search`, `MCSearch` | searches, their legs, connections, rerank cache, vault changes, ingest's wait | `Ranking` |
| `SearchProofs` | a search interrupts only its own scan; connections, pool and count come right; scores are of the bodies read; what is served was there, once | `Search`, TLAPS |

`PROJECT.json` maps each definition to its lines.

### EmbedQueue

A file's content is a version number; `text` gives each version's body, so a
text can come back. `vault`, `indexed`, `known` (body hash), `vec`, `state`
(`embed_state`) and `queue` are one value per memory. A worker goes through
`Claim`, `Read`, `Recheck`/`PruneMissing`, `MarkInvalid`, `Plan`, `Apply` (or
`Refused`, `Outage`, `StalePlan`), `Record`, `Dequeue`: one action per
transaction or file access of `EmbedWorker._embed_one`. A writer goes through
`BeginWrite` (the vault), `Upsert`, `RecordHash`, `Enqueue`. Crashes of either,
leases that lapse, the prune pass, removed and hand-edited files, `reindex` and
`--retry-failed` are actions of their own.

The embedder refuses the texts in `Poison` each time and any other now and then
(`Refused`, an event). Abstracted: a record's chunks to the body they come from (a plan made of two
bodies' chunks is re-checked as the code does, against the base body); the
request stamp to a counter, so two stamps never tie; one embedder signature;
expiry (`valid_to`); a body stored by two memories (the pipeline refuses it); the
displacement of another memory's row at the same path, which is in `Ingest`.

### StageLock

One stage: the lock row, the last-run row, and for each runner the step between
reading the row, taking it conditionally, running, marking, releasing. The
stages are independent keys of the same table. Times are stamps: the lock's k-th
taking has stamp k + 1, and `horizon` says which stamps are older than an hour.
A row that does not parse counts as old. `thread` is separate from `pc` because
a cancelled task leaves its thread running.

### Ingest

A source file (`Refs`) holds one text after another and may go away and come
back. A thread processes a record in the steps of `Pipeline.process`: `Skip` and
`Compare` (reconcile only), `Lookup` with the noise filter, `Match` with the
three cases of a duplicate, `Write`, `IndexRecord`, `RecordMapping`, `NoteHash`;
or `Unmap`, `Count`, `Unfile`, `Drop` for a retired session. The reconcile's
cycle goes `walk`, `sweep`, `prune`, `rest`. The sweep classifies (`SweepScan`),
drops orphans, looks again (`Examine`), reads, writes and indexes the memory it
hides or shows, and drops dead mappings in the order of the code; the prune
scans and deletes row by row. `Slot` gives the path when type and name fix it
(skills, dailies, sessions with an id), so two memories can meet on one.

Abstracted: all bodies of one normalized hash are one; frontmatter other than
type and `deleted_at`; one root; the sweep's read of the mappings and its look at the
files are one step, and a stream that fails inside the walk, which ends the cycle
there, is not modelled (`FailSweep` and `Crash` end it later); the read of the existing memory happens with
the write it precedes; `get_path`, `read` and `delete` of `Unfile` are one step;
the reconcile reads a file when it starts on it. Left out: the merging of
OpenClaw sessions, `skip_unchanged` of one live drain, the subagent prune, the
overlap of the startup and the periodic reconcile, and the waiting for searches,
which is in `Search`. Unless `"overlap"` is allowed the two threads are not on
the same ref at once: see section 4.

### QueryLog and Importance

A call of a logger carries the memories it has shown; `Commit` enters them
together with the spooled batches it replays, in one transaction, and `Retire`
unlinks those files; a busy database sends the batch to the spool. Ids are
handed out once; pruning keeps the newest rows. A run of the stage takes the
rows above the cursor (`Fresh`), proposes an absolute value per memory, and
`Stamp`s memories one by one, cursor last. The loop takes the lock before it
plans, the command after. A bump of a memory that was deleted after its file was read
inserts its row again in the code; here it stays deleted. `StartIngest` reads the importance that the write of
the pipeline carries over. Abstracted: the score to one point a row, up to
`MaxBump`; clients and queries.

### SessionDistill and ProjectRecords

Both plan, ask the summarizer for each item (`Answer`, `NoAnswer`), and then
write what they have, one proposal after the other: file, row, removal of
displaced files and their rows, attempt record. The lengths of a session in
words, turns and characters are one number; a summary knows the length it was
planned at (`snap`), how much the model was allowed to read, and, as history,
how long the session was when the prompt was made. Old summaries of each kind
the vault may hold (none, another path, two files, the same id twice, written by
hand) are initial states. Only sessions that went on in the last `Window` days are
candidates (`Recent`; `Since` says when each did before the beginning): one that ages
out of the window without a summary gets none, as `find_session_candidates` says,
until it goes on. The loop and the command have one window (30 days by default) or,
with `--backfill`, the command has none (other values of `--recency-days` are left
out); the command may leave stale summaries alone (`--no-refresh-stale`).
A project record is an id, the flag, whether the
operator wrote its text, and how many sessions it was made from. A run takes its
candidates in the order of their names. The candidates of `SessionDistill` are
the one list of the sessions due that is in the order of the code, stated as a
set of lists (`Candidates`). The wikilinks and the rest of the
frontmatter are left out, and so is a record file that does not parse, which
`existing_project_record` takes for none: it gets a new id and its text is replaced.
A lock whose holder died is taken
as freed: the lock itself is in `StageLock`.

### Cleanup

One command at a time plans over all memories and then takes its jobs one by
one, each a read, a write of the file, an upsert and a note in the audit or a
ticket; the pipeline, the embed worker, the importance stage and the clock go on
between the steps (the pipeline's commits after the file are one step here, and apart
in `Ingest`). At the start each source may have its memory or not. The noise
filter is a constant, the set of marks of each body.
The manifest of the phase-1 scripts stays on disk between its making and its use.

### VecCompact

A row is (memory, index) and holds the text its vector was made of. The batch is
read without the lock and written with it; `Swap` is one transaction: refresh
what was embedded since, prune what is gone, compare the counts, rename.
`Apply` and `RecordState` are the two transactions of the worker; its plan and its call
of the embedder are in the step of `Apply`, so that no plan is stale, which the code
answers by trying again. vec0 allocates
slots in chunks and gives none back but whole ones (`SlotsAfter`).

### Ranking and Search

Scores are integers in a common unit (`Unit`, a multiple of every `k + rank`), so
that orders come out as the code's. A list is sorted by counting what comes before
each of its items (`SortedBy`: equal keys stay in their order) and filtered by its
places (`Extract`), without recursion, so that what a list serves can be proved.
Fusion is `1/(k + rank)` summed over two lists, times the factors for importance, type and
recency. A search goes `keywords` (leg handed over), `await` (keyword query done), `read`
(one file at a time), `rerank` and `ask` (one record after another is looked up in
the cache and, if it is not there, asked about), `ranked`, and `judged` when Jev
orders it; its leg goes `queued`, `call`, `attach`, `wait`, `scan`, `return`, `ok` or
`err`, in one of `SemanticWorkers` threads. A leg may stop for ever at any step. Given
up, it is told so by a flag and by an interrupt of the connection it has attached.
Connections are numbers, `Shared` the writer's own, which is lent when no other can be
opened. Reads on it go under `Index._lock`: a leg waits for it (`wait`) and holds it
while it scans (`IndexLocked`), and reads of a search on that connection, the cache of
the reranker and the ingest wait for it. Other holders of the lock are short and are
left out. The query log never waits for it: it tries for a bounded time and drops or
spools its rows (`_acquire_or_skip`). The reranker's answer is a number or a text
without one, which counts as 0 (`_parse_score`); either is cached, and only a call that
raises leaves no row. The cache is that of one query and one model. A record is a body
and how it stands (shown, hidden, broken). Abstracted: a file at a hit's path that
holds another id, errors of the reranker's cache (it swallows them: `cache_lookup`,
`cache_write`), the lock around the cache of expansions, which only delays a leg, and the query, its expansion and its
embedding (the leg's call succeeds or fails), the state of the circuit breaker
(a call may fail at once), deadlines (they may pass at any step).

## 3. The runs

All runs use `CHECK_DEADLOCK FALSE`: with edits and faults spent the system may
rest. `MaxEvents` and its like bound what the environment does; each run names
its faults.

| run | instance | shows |
|---|---|---|
| `EmbedQueueFaults` | 1 memory, 2 workers, 1 writer, 2 events, every fault | `TypeOK`, `ConsumedIsFresh` |
| `EmbedQueueWriters` | 1 memory, 2 workers, 2 writers, 3 versions, 2 events: a worker's crash, an edit by hand | `OneWorkerPerRecord`, `CertifiedVectors`, `NothingForgotten` |
| `EmbedQueueConverges` | 2 memories, 1 worker, a refused text, 1 event: a crash, an outage or a sporadic error | `Converges`, `RequestsEnd` |
| `StageLockTurns` | 1 loop, 2 commands, every fault, 3 events | `TakeTurns`, `DueIsRun` |
| `IngestReconcile` | a watched transcript of 3 texts, one noise; a note of 2 that may be removed; 1 event of five kinds | `NeverStranded`, `SkippedIsStored`, `KeepsLive`, `HidesGone` |
| `IngestShared` | 2 notes and a transcript that come to hold one text, after the transcript took up an earlier one of its own again; valve floor 0, 2 events | `StoredOnce`, `SkippedIsStored`, `KeepsLive` |
| `ImportanceCounts` | 2 memories, 2 loggers, 2 calls, a log of 2 rows, a spool of 1 file, loop and command, 1 change of a source, 1 of five faults | `CountedOnce`, `NonePassedOver`, `SpooledOnce`, `RowsArePassed` |
| `CleanupTools` | 2 notes of one text, a note to come, a skill, 3 bodies; 2 clean-ups, 1 edit, ingest, bump, day, failed write | `SurvivorRemains`, `HiddenHasCopy`, `VisibleIsEmbedded`, `HashIsStored` |
| `Distill` | 2 sessions, one of which the model may refuse and the other may leave the window, old summaries of 4 kinds, a raised cap, 1 cool-down, 1 command, 1 fault | `OneSummary`, `CurrentIsCurrent`, `CallsAreCapped`, `EverySessionIsDistilled` |
| `Projects` | 2 projects, loop and 1 command, 2 edits by the operator, 1 fault | `ManualIsKept`, `OneRecord`, `EveryProjectHasRecord` |
| `VecCompact` | 2 records of up to 2 chunks, batches of 1, 3 edits, 1 fault | `CompactorKeepsRows`, `SwapKeepsVectors`, `TableIsCompacted` |
| `Search` | 2 searches, 1 thread for legs, a pool of 1, 3 records of 2 bodies, answers without a number, 2 events | `NothingLeaks`, `InterruptsOwnScan`, `ServedMatchesVault`, `ScoresFitBodies`, `SearchAnswers`, `IngestProceeds` |

Each module has a `TypeOK`. Those of `EmbedQueue`, `StageLock`, `Ingest` and
`ProjectRecords` are proved, and that of `Cleanup` within its proofs; the others
hold of the instances above (add `INVARIANT TypeOK` to the `.cfg`) and are left
out of the runs, which are for what could be wrong.

Why these bounds: the hazards of the queue need a record, two workers on it and
a text between two others (3 versions); a second memory matters only for the
batch, which `EmbedQueueConverges` has. A third runner of a stage is what a
wrongly freed lock needs. For ingest, a session and an authored file reach both
branches of each type test; three refs with one text reach attach, leave and
retire. A valve is crossed with the floor at 0 (1 of 1 lost is blocked, 1 of 2
or of 3 is not) and never with the floor at 1. `IngestReconcile` with 2 events and a
transcript of two texts (2.1 million states) also passes; it takes too long to
repeat each time. `MaxIds` is above what the instances mint. A log of two rows is
pruned by the second call; a spool of one file overflows with the second batch. Two
notes of one text make a group with a winner and a loser, and the skill collides
with them. Batches of one row put every step of a writer between two rows of the
copy. With one thread a leg that never ends keeps it from the other search, and
with a pool of one a connection changes hands or is closed. `Plans` says which
searches run and which events may come, so that two searches at once and a vault
that changes twice under one search are separate parts of one run: both at once
have too many states. So only one search at a time asks the reranker here; two that ask
about one pair at once are in `ScoresFit` alone. `s1` reranks, `s2` diversifies and asks Jev; three records,
one without vectors and one with two chunks, make lists that fusion and boosts
order differently.

What the passing runs assume, because the code does not promise it otherwise:
`EmbedQueueWriters` has no lease that lapses under a working holder, no writer that
dies, no text that comes back and no removed file; a row is given up after `MaxRetries`
errors, and in `EmbedQueueConverges` there are fewer sporadic ones than that; `IngestReconcile` watches only the
transcript, so no live drain writes a note that the sweep has read, and
`IngestShared` removes no note; `Projects` has no project whose prompt always
times out (`Unreachable`). Section 4 says what happens without these.
Exceptions that a property needs are written in the property, as a history
variable: `outrun` and `broken` in `Importance`, `misled`, `renewed`, `lost` and
`failed` in `Cleanup`, `overlooked` and `torn` in the writers of summaries.

### Fairness

*Queue*: each worker's and writer's next step, and the passing of a lease: they
are loops of live threads, and time passes; crashes, outages and edits are
bounded and unfair. *Stage lock*: loops, threads and restarts go on, as in
`Fairness` of `StageLock`; failures and commands need not come. *Ingest*: the
reconcile comes round again (`_periodic_reconcile` catches every exception) and
a record under way goes on. Nothing is fair about watchers, files or mounts, so
`KeepsLive` rests on the reconcile alone. *Importance, Distill, Projects*: the
loop polls for as long as the daemon runs (`HygieneLoop.run` catches what a tick
raises), and a run that has begun goes on; commands, answers that fail and
crashes are unfair and bounded. *Compaction*: the stage comes round and goes on,
and the worker applies and records; `TableIsCompacted` is about the time when
edits and faults have ended. *Search*: the thread of a search and that of ingest
get their turn and deadlines pass. The legs have no fairness at all: that is
what `SearchAnswers` is about. It and `IngestProceeds` except the one thing the code
cannot free, a scan that holds `Index._lock` for ever (*Shared scan*).

## 4. Known divergences

What the models show of this code that a document, a comment or a reader would
not expect. The passing runs leave the situation out or except it by name; to see
one, check the named definition with the change of constants given.

* *False proxy.* Two workers on one record leave `embed_state` vouching for
  vectors of another body, since `apply_vectors` and `record_embed_state` are two
  transactions (`EmbedQueue` with `Faults = {"slow"}`, `CertifiedVectors`). A lease
  that ends during a batch lets two workers embed one record
  (`embed_worker.py:11-15` says otherwise).
* *Text taken back.* A text that returns while its successor is being embedded
  is never embedded again (`EmbedQueueWriters` with a script `<<"a", "b", "a">>`,
  `NothingForgotten`).
* *Stale error.* `mark_embed_error` carries no stamp: an error about an older
  content can give up a newer request. A file repaired by hand stays failed until
  `reindex` (`embed_worker.py:233-234` promises more).
* *Lost request.* A crash between `record_body_hash` and `enqueue_embed` leaves a
  text without a request that the reconcile skips.
* *Cancelled stage.* A cancelled loop frees the lock of a stage that is still
  running in its thread; a reclaimed lock is deleted by its former holder
  (`StageLock` with `Faults = {"cancel"}`: two runners in `thread`).
* *Copies.* A note whose text became a duplicate is lost from search when the
  other source is removed (`Ingest`, a `Fleeting` note that was copied,
  `KeepsLive`); two refs on one memory overwrite each other for ever once they
  differ. A hidden memory keeps its hash row: a note that came back with another text,
  as a new memory, and then takes the old text up again is a duplicate of the hidden
  one (`IngestShared` with a copy of texts `<<"b", "d", "b", "a">>`, `KeepsLive`).
* *Overlap.* Reconcile and live drain on one file leave the older text in the
  vault under the newer text's hash, so that it is skipped from then on, or store
  a new ref twice (`Ingest` with `Faults = {"overlap"}`, `SkippedIsStored`). Even on two
  files that come to hold one text they store it twice, as both look before either
  has recorded the hash (`IngestShared` with both threads and a watched transcript,
  `StoredOnce`; `pipeline.py:257-258` says a duplicate reuses the id). The
  tombstone's read, write and upsert put an old body back over a record ingested
  in between.
* *Torn record.* An error between the write of a memory's file and its hash row
  leaves the hash of the older text. If the file gets that text back, or another ref
  has it, the reconcile skips it while the vault holds the newer one (`Ingest` with
  a note of texts `<<"c", "d", "c">>`, or with two notes that share a text, and
  `Faults = {"fail"}`, `SkippedIsStored`).
* *Stale importance plan.* `hygiene importance --apply` plans before it takes the
  lock: after another run it writes old values and an old cursor, and rows are
  counted again.
* *Manifest.* A manifest is applied though its winner was hidden after it was
  made; no memory of the text is shown then (`misled`). `record_body_hash` leaves
  the hash where it was when the winner has changed, against the comment at
  `cleanup_retro.py:477-479`. A memory marked as transient noise is stamped anew,
  with a later `valid_to`, each time the clean-up runs again.
* *Hand-written distillation.* The writer takes over the id of a record the
  operator wrote for the session, and with it the row.
* *Manual flag.* A flag that is set while a run of project records is under way
  is lost, with the text (`overlooked`).
* *Held up.* `compute_project_record_plan` does not catch
  `TransientSummarizerError` (`summarizer.py:47` says callers must) and applies
  nothing until all projects are planned: with `Unreachable = {"g1"}` no other
  project ever gets a record (`EveryProjectHasRecord`).
* *Compaction window.* Vectors changed in place between the copy of their batch
  and the swap, but not yet recorded, are swapped out for the old ones
  (`writing` in `SwapKeepsVectors`). The docstring at `index.py:1424-1426` has the
  rows of memories that were re-embedded since the build began refreshed, by their
  `embed_state.embedded_at`, which is written in a later transaction than the vectors.
* *Broken file.* A file in the vault that no longer parses ends every search that
  hits it with an error (`Raise`); a missing one is passed over.
* *Breaker.* The comment in `Embedder._guarded` says a permanent error resets the
  streak of transient ones, but the exception skips the reset; and after the
  cool-down all waiting calls go through, not one trial.
* *Shared scan.* A leg for whose reader no connection can be opened scans under
  `Index._lock` (`index.py:2159-2160`), on a connection that no interrupt reaches. Until it
  ends, its search and all others wait at the cache of the reranker or on the shared
  connection, and so does ingest; `_run_semantic_leg` says that "an overrunning scan
  never blocks them" (`search.py:729-730`). `SearchAnswers` and `IngestProceeds` without
  `<>[]IndexLocked` are violated.
* *Held thread.* An abandoned leg that hangs in its expansion or embedding, or on
  the shared connection, keeps its thread; the interrupt frees only a scan.

## 5. What is proved

TLAPS checks the theorems of `EmbedQueueProofs`, `HygieneProofs`, `VecCompactProofs`,
`SearchProofs`, `ImportanceProofs`, `IngestProofs`, `CleanupProofs` and `ProjectProofs`
for every value of the constants that satisfies the named `ASSUME` of the module, and
what a theorem assumes besides. The larger invariants were checked by TLC on the
instances of the runs first.

**Queue.** `TypeCorrect`, `RequestsAreNotErased`: `TypeOK` is not inductive; that a
worker past its read holds a real version of the right kind (`StageOK`) is needed
to type the next step. `ConsumedIsFresh` then needs `TokenInv`: no stamp is beyond
the clock, so a new one differs from every claim's, and a worker past its read whose
stamp is still the row's has read a version at least as new as the row's request.

`ServedOnce`, with neither slow leases nor removals: `LeaseInv` adds that a claim in
hand is the row's claim with its lease running (`ClaimsKept`), and that an indexed
memory has its file (`FilesStay`), since a prune would take a row from under a claim.

`VectorsAreCertified` has the same hypotheses. `VectorInv`: a stored state that is not
that of the vectors has a request open, and its holder closes that only when both
are those of the body it has read. For `NothingIsForgotten`, `DemandInv` follows the demand for a text through the system: the newest text of a
memory is embedded, or asked for by the row, or in the hand of a worker, or a
writer under way will still ask for it. It assumes that no lease ends during a batch,
no file is removed, no writer dies between its commits (nothing would ask), and no
text returns (*Text taken back*: the returning text would look embedded while its
successor's vectors are on the way). Edits by hand, crashes of workers and outages are
in: a text put into a file by hand is owed vectors once a writer, or `memstem
reindex`, has taken it up (`TakenUp`).

**Stage lock.** `LockImplementsTurns`, `LockTypes`: every step of `StageLock` is a step of
`StageTurns` or a stutter, until a run outlives its lock or a loop is cancelled
(`calm`). `LockInv` says that in calm times the holder is one, the row has its
stamp, and who is about to take the lock saw none or an old one. The stages use the
lock as their modules have it, freed when its holder dies. That they use it well is
`SummariesTakeTurns`, `RecordsTakeTurns` and `BumpsTakeTurns`: the runs that are under
the lock of `SessionDistill`, `ProjectRecords` and `Importance`, the loop from its
start and the command from the end of its plan, are the `working` of `StageTurns`,
whatever fails or is killed. So what `StageLock` promises in calm times is what the
stages write under. Each follows from the invariant that who writes holds the lock,
and from one runner's moving in a step.

**Compaction.** `CopyKeepsUp`, `RowsSurvive`, `VectorsSurvive`: whatever the size of a batch,
the bodies and the interleaving, a rebuild loses no row and no vector of a record
at rest. `CompactInv` says that what has been copied, and the batch in hand, agree
with the live table but for records embedded since the rebuild began or being
embedded (`CopyFollows`). The pruned copy is then a subset of the live rows, and for
finite sets equal counts make it all of them (`SwappedRows`): that is why the order
prune, then compare, matters.

**Search.** `OwnScanInterrupted`: a leg makes its connection known only while it scans on
it, and every way out of the scan takes that back before the connection moves
(`InterruptInv`). `NothingIsLeaked`: no connection is in two of a search's hands, a
leg's and the pool (`Apart`), and the count is that of the searches in the code that
is counted. That a connection is left to borrow is the pigeonhole of `OneIsFree`:
each caller holds two at most. `ScoresFit`: scores exist only while a search
reranks, and what it has found does not change then (`ScoreInv`), so the place of a
score says whose it is, though the vault has moved on. It holds for any answers of the
model, with a number or without, any calls that fail, and any searches that ask
about one body at once: the later answer replaces the row. `ServedIsTrue`, that an
answer names each memory once, that each could be shown at some time of the search,
and that what it matched and could be shown all along is in it while
there is room, rests on `ShowInv`: what a search has in hand has no doubles and
was `shown` in its time, and what stayed is not dropped but for want of room. The
lemmas on lists (`Firsts`, `Only`, `SortedBy`, the picks of MMR) say that each keeps the
members it is to keep, once each, in their order.

**Importance.** `SpoolIsReplayedOnce`: `SpooledOnce` is inductive with `HandsOK` (a batch in a
logger's hands is in neither spool nor log) and `FilesOK` (one file for a call; a
logger retires only files whose rows are in). The case that matters is
`SpoolCommit` when another logger is about to retire the same file.
`CursorPassesNoRow` (`PlanOK`): of the rows up to the one the run will set the cursor
to, each is settled or is in the window of a memory still to do. New rows have greater
ids than that (`LogChanges`), which is why the cursor may go to the last row the plan
has seen, and not to the newest (`StampNewest` breaks it). `RowsCountOnce` is the
other half. `CountInv`: while nobody applies a plan, no row above the cursor has been
counted more often than the runs that broke off (`broken`) or applied an old plan
(`outrun`) allow, nor has a row of the window whose memory the run has still to
write. It rests on the loop's planning under the lock it applies under; the command
plans before, which is what `outrun` counts.

**Ingest.** `IngestTypes`: a record or a sweep step under way has what its next step needs
(`ProcOK`, `OpOK`). For the rest, `Traces` gives each memory a class (a kind, or a
file) that map, rows, files, hashes and jobs in hand agree on, for any classes that
share no text and no slot. `NothingStranded` (`StrandInv`): a memory that is shown
has a ref in the map (`NotesMapped`); the sweep hides before it unmaps (`HidesFirst`) and
acts only on what it has still seen (`SeenStill`), its phases come in order, and a
job on a note maps what it wrote (`NoteJob`). It assumes `NotesApart`: a watched note races
with the sweep (*Overlap*), and two kinds on one text or slot share a memory.
`SkippedStaysStored` (`SkipInv`): no text newer than the one in hand has a hash row,
the row and file at a job's path have its text once written, and the sweep puts
back only what it has read, as no other record of a note is under way then. It
assumes `TextsApart`: each file has texts and path of its own and none of its
texts comes back, without which one failed step breaks the property (*Torn record*),
and reconcile and drain are never on one file at once (*Overlap*). Errors, crashes,
lost files and a watched transcript are in. `TextStoredOnce` needs other hypotheses
(`WholeAndApart`): no step fails, since an error before the hash is recorded lets a
text be stored twice, and two threads have nothing to share. One thread may meet
any texts and paths that files share or swap; with the second, each transcript has
texts and a path that no other file has, while the authored files, which only the
reconcile reads, may still share theirs. Two threads on one text do store it twice
(*Overlap*). Texts come back, files go, memory files are lost. `OnceInv`: the hash
of a row's text names the row's memory, but for the record whose hash is to come
(`HashToCome`), and that one's text has had no other owner since `Match`; a file
that is there has the id and text of its row unless the row is to come (`FilesFit`,
`RowToCome`), which is why the sweep's reading, writing and indexing of a file
changes neither. That the threads leave each other's memory, text and path alone
(`Strangers`) is not assumed: it follows from `Traces` for the classes `Group`, in
which each transcript is a class and the authored files are one.

**Clean-ups.** `HashesAreStored` is inductive with the types. `VisibleHasVectors` (`VectorInv`):
what is stripped has expired, and what is not has the vectors of its body, a request
for them, or an indexing under way. `SurvivorStays` rests on the plan (`PlanInv`: each
memory is in one entry, and the jobs in hand are of distinct memories and one winner)
and on what jobs and pipeline may still write (`SurvivorInv`): a job hides a
memory that survives behind another that survives, and what the pipeline puts
back hides nobody who was not hidden. `HiddenHasACopy` (`CopyInv`): between the check of a
group and its last job only the pipeline writes files.

**Project records.** `ProjectTypes`, `ManualStays`, `RecordsStayOne`: the loop rests while the
command holds the lock, and nobody writes without it (`LockInv`); only projects that
may be written are asked about, and a run that writes has a proposal (`TodoInv`);
what a run knows of a record is still so unless the operator acted on it (`LookInv`,
`overlooked`); the row of a path has the id of its file unless a write broke off
(`RowInv`, `torn`).

**Session summaries.** `DistillTypes` comes with `Locked`: the loop holds the lock for a
whole run, a command from its first write on. `CurrentHolds` (`SeenInv`): the length noted
in a summary is that of the text its prompt was made of, and the model has read no
more than there was of it. `SummaryHolds`
(`SummaryInv`): ids and rows of a session are its own; where the writer is says
what of file, row, removal and removal of the row has been done; a row leads
nowhere only between the last two. `CallsAreBounded` (`CallInv`): the sessions in the
loop's lists are distinct and free to be tried, so that each wasted call is in the
count of failures, in hand, or lost with a run; and the count reaches its cap
again only after a cool-down of its own (`Paid`), of which `now` leaves room for no more than
`CallsAreCapped` allows.

Every invariant and action property of the runs is stated by a theorem, under the
hypotheses given here. Only model-checked, because out of this prover's reach, is

* liveness (`Converges`, `RequestsEnd`, `DueIsRun`, `KeepsLive`, `HidesGone`,
  `RowsArePassed`, `EverySessionIsDistilled`, `EveryProjectHasRecord`, `TableIsCompacted`,
  `SearchAnswers`, `IngestProceeds`).

## 6. Not modelled, and why

* Search without a deadline (`semantic_timeout` unset: the same calls in one
  thread), the cache of expansions (a lookup before a call whose result is an
  input), the state of the breaker, the queue, ledger and budget of the shadow
  judge (nothing served depends on them but through a skipped request).
* Parsers of foreign files, the merging of OpenClaw sessions, images: inputs.
* `verify.py` and the older `distillation.py`, the reports of the scripts, the
  evaluation harness: they change nothing the rest reads, or a copy of it.
* Chunk-level reuse of vectors in `EmbedQueue`; the subagent prune; two sweeps at
  once; two clean-ups at once: each would double a state that is large already.
* Configuration, discovery, migration, authentication, update check: set-up.

## 7. Plan

1. *Proofs*: `SkippedStaysStored` with texts that return, for which the model
   would have to say which of two failed steps came last.
2. *Refinements*: the queue as an abstract queue of requests; `QueryLog` as a log
   in which a call appears at most once.
3. *Servers*: `memstem_upsert` with its identity rules, on `Ingest`'s tables.
4. *Vector reuse* at the level of chunks.

----------------------------- MODULE EmbedQueue -----------------------------
(***************************************************************************)
(* The embedding queue of the Memstem index and the workers that drain it. *)
(*                                                                         *)
(* A memory is a markdown file in the vault and a row of `memories`.  Its  *)
(* vectors are a copy derived from the file: a writer (pipeline, MCP       *)
(* upsert, `memstem reindex`) stores the text, then stamps a row of        *)
(* `embed_queue`; a worker claims the row under a lease, reads the file,   *)
(* calls the embedder, replaces the vectors, records `embed_state` and     *)
(* consumes the row, each in a transaction of its own.                     *)
(*                                                                         *)
(* A file's content is a version number (0: no file); `text` gives the     *)
(* body of each version, so that two versions may have the same body.      *)
(* Bodies are named per memory: the same name in two memories is not the   *)
(* same body, since process() stores no body twice.                        *)
(* Faults is the set of environment events a run allows.                   *)
(***************************************************************************)
EXTENDS Naturals, FiniteSets

CONSTANTS
  Memories,     \* memory ids
  Workers,      \* embed workers, of the daemon and of `memstem embed`
  Writers,      \* threads that store text: reconcile, live drain, MCP, reindex
  NoMemory,     \* placeholder for "no memory"
  NoWorker,     \* claimed_by IS NULL
  Texts,        \* bodies that yield at least one chunk
  Poison,       \* the texts the embedder always refuses
  Scripts,      \* the candidate values of text
  MaxVersion,   \* bound on the versions of a file
  MaxEvents,    \* bound on outages, errors, crashes, removals, reindexes, resets
  BatchSize,    \* rows a worker claims at a time
  MaxRetries,   \* failures after which a row is given up
  Faults        \* which environment events may happen

Empty   == "empty"     \* a body with no chunk
Broken  == "broken"    \* a file whose frontmatter does not validate
Nothing == "nothing"   \* no vectors, no embed_state row, no hash row

Bodies   == Texts \cup {Empty, Broken}
Versions == 1..MaxVersion

ASSUME ConstantsAssumption ==
  /\ NoMemory \notin Memories
  /\ NoWorker \notin Workers
  /\ Texts \cap {Empty, Broken, Nothing} = {}
  /\ Poison \subseteq Texts
  /\ MaxVersion \in Nat
  /\ MaxEvents \in Nat
  /\ BatchSize \in Nat \ {0}
  /\ MaxRetries \in Nat \ {0}
  /\ Scripts \subseteq [Versions -> Bodies]
  /\ Faults \subseteq {"slow", "crash", "writercrash", "delete", "handedit"}

VARIABLES
  text,      \* body of each version, chosen once
  edits,     \* edits[m]: versions of m's file written so far
  vault,     \* vault[m]: version of m's file on disk, 0 when there is none
  taken,     \* taken[m]: history, the version a writer last took up, 0 for none
  indexed,   \* indexed[m]: m has a row in `memories`
  known,     \* known[m]: the body `body_hash_index` holds for m
  vec,       \* vec[m]: the body m's vectors were computed from
  state,     \* state[m]: body_hash of m's `embed_state` row
  queue,     \* queue[m]: m's row of `embed_queue`
  clock,     \* the last enqueued_at handed out
  asked,     \* asked[m]: history, edits[m] when the row was last stamped
  pc,        \* pc[w]: where worker w is in _embed_one
  job,       \* job[w]: the claim w is serving
  todo,      \* todo[w]: claims of w's batch it has not started
  writer,    \* writer[p]: what writer p is doing
  doomed,    \* ids the prune pass found without a file
  events     \* environment events so far

fileVars   == <<text, edits, vault, taken>>
indexVars  == <<indexed, known, vec, state>>
queueVars  == <<queue, clock, asked>>
workerVars == <<pc, job, todo>>
vars == <<fileVars, indexVars, queueVars, workerVars, writer, doomed, events>>

-----------------------------------------------------------------------------
(* Types *)

Row == [token : Nat, claim : Workers \cup {NoWorker}, lapsed : BOOLEAN,
        retries : Nat, failed : BOOLEAN]

\* token 0 stands for "no row".
NoRow == [token |-> 0, claim |-> NoWorker, lapsed |-> FALSE,
          retries |-> 0, failed |-> FALSE]

Claims == [mem : Memories, token : Nat]

\* base: the body whose chunks plan_vector_reuse found stored.
Job == [mem : Memories \cup {NoMemory}, token : Nat, ver : 0..MaxVersion,
        base : Texts \cup {Nothing}]

NoJob == [mem |-> NoMemory, token |-> 0, ver |-> 0, base |-> Nothing]

Stages == {"idle", "missing", "prune", "invalid", "plan", "embed", "record",
           "dequeue"}

Kinds == {"pipeline", "mcp", "reindex"}

WriterState == [pc : {"idle", "upsert", "hash", "enqueue"}, kind : Kinds,
                mem : Memories \cup {NoMemory}, ver : 0..MaxVersion]

NoWrite == [pc |-> "idle", kind |-> "pipeline", mem |-> NoMemory, ver |-> 0]

TypeOK ==
  /\ text \in [Versions -> Bodies]
  /\ edits \in [Memories -> 0..MaxVersion]
  /\ vault \in [Memories -> 0..MaxVersion]
  /\ taken \in [Memories -> 0..MaxVersion]
  /\ indexed \in [Memories -> BOOLEAN]
  /\ known \in [Memories -> Bodies \cup {Nothing}]
  /\ vec \in [Memories -> Texts \cup {Nothing}]
  /\ state \in [Memories -> Texts \cup {Empty, Nothing}]
  /\ queue \in [Memories -> Row]
  /\ clock \in Nat
  /\ asked \in [Memories -> 0..MaxVersion]
  /\ pc \in [Workers -> Stages]
  /\ job \in [Workers -> Job]
  /\ todo \in [Workers -> SUBSET Claims]
  /\ writer \in [Writers -> WriterState]
  /\ doomed \subseteq Memories
  /\ events \in 0..MaxEvents

Init ==
  /\ text \in Scripts
  /\ edits = [m \in Memories |-> 0]
  /\ vault = [m \in Memories |-> 0]
  /\ taken = [m \in Memories |-> 0]
  /\ indexed = [m \in Memories |-> FALSE]
  /\ known = [m \in Memories |-> Nothing]
  /\ vec = [m \in Memories |-> Nothing]
  /\ state = [m \in Memories |-> Nothing]
  /\ queue = [m \in Memories |-> NoRow]
  /\ clock = 0
  /\ asked = [m \in Memories |-> 0]
  /\ pc = [w \in Workers |-> "idle"]
  /\ job = [w \in Workers |-> NoJob]
  /\ todo = [w \in Workers |-> {}]
  /\ writer = [p \in Writers |-> NoWrite]
  /\ doomed = {}
  /\ events = 0

-----------------------------------------------------------------------------
(* Rows of embed_queue *)

Queued(m) == queue[m].token # 0

Unclaimed(row) == [row EXCEPT !.claim = NoWorker, !.lapsed = FALSE]

\* Faulty variants: an upsert that ignores a row already there, and one that
\* forgets the error record.
StampedOnce(row, t) == [row EXCEPT !.token = IF @ = 0 THEN t ELSE @,
                                   !.retries = 0, !.failed = FALSE]

StampedStillFailed(row, t) == [row EXCEPT !.token = t]

\* enqueue_embed: a new stamp and a clean error record; the claim stays.
Stamped(row, t) == [row EXCEPT !.token = t, !.retries = 0, !.failed = FALSE]

\* Faulty variant: dequeue_embed, which compares nothing.
ConsumedBlindly(row, t) == NoRow

\* dequeue_embed_if_unchanged: the claim's token decides.
Consumed(row, t) == IF row.token = t THEN NoRow ELSE Unclaimed(row)

\* mark_embed_error: no token is compared.
Errored(row, max) ==
  IF row.token = 0 THEN row
  ELSE [Unclaimed(row) EXCEPT !.retries = row.retries + 1,
                              !.failed = (row.retries + 1 >= max)]

\* Faulty variants: a claim nobody looks at, and a lease that never ends.
ClaimableTwice == {m \in Memories : Queued(m) /\ ~queue[m].failed}

ClaimableOnce == {m \in Memories : Queued(m) /\ ~queue[m].failed /\ queue[m].claim = NoWorker}

\* The rows claim_pending may hand out.
Claimable == {m \in Memories : /\ Queued(m)
                               /\ ~queue[m].failed
                               /\ queue[m].claim = NoWorker \/ queue[m].lapsed}

\* The oldest BatchSize of them (ORDER BY enqueued_at LIMIT ?).
Batches ==
  {b \in SUBSET Claimable :
     /\ b # {}
     /\ Cardinality(b) <= BatchSize
     /\ b # Claimable => Cardinality(b) = BatchSize
     /\ \A m \in b, n \in Claimable \ b : queue[m].token <= queue[n].token}

\* Index.delete: every row of m goes.
DeleteRows(m) ==
  /\ indexed' = [indexed EXCEPT ![m] = FALSE]
  /\ known' = [known EXCEPT ![m] = Nothing]
  /\ vec' = [vec EXCEPT ![m] = Nothing]
  /\ state' = [state EXCEPT ![m] = Nothing]
  /\ queue' = [queue EXCEPT ![m] = NoRow]
  /\ UNCHANGED <<clock, asked>>

\* The memories worker w has claimed and not finished with.
Holding(w) == {c.mem : c \in todo[w]} \cup
              (IF pc[w] = "idle" THEN {} ELSE {job[w].mem})

Body(w) == text[job[w].ver]

Event == events < MaxEvents /\ events' = events + 1

-----------------------------------------------------------------------------
(* Workers: one tick claims a batch, then serves it claim by claim *)

Claim(w) ==
  /\ pc[w] = "idle" /\ todo[w] = {}
  /\ \E b \in Batches :
       /\ todo' = [todo EXCEPT ![w] = {[mem |-> m, token |-> queue[m].token] : m \in b}]
       /\ queue' = [m \in Memories |->
                      IF m \in b THEN [queue[m] EXCEPT !.claim = w, !.lapsed = FALSE]
                      ELSE queue[m]]
  /\ UNCHANGED <<fileVars, indexVars, clock, asked, pc, job, writer, doomed, events>>

\* Faulty variant: a body without chunks is planned like any other.
AfterReadNoEmpty(m) ==
  IF ~indexed[m] \/ vault[m] = 0 THEN "missing"
  ELSE IF text[vault[m]] = Broken THEN "invalid" ELSE "plan"

\* Where _embed_one goes after reading m's path and file.
AfterRead(m) ==
  IF ~indexed[m] \/ vault[m] = 0 THEN "missing"
  ELSE CASE text[vault[m]] = Broken -> "invalid"
         [] text[vault[m]] = Empty  -> "record"
         [] OTHER                   -> "plan"

\* The claims come in the order of RETURNING, which is none.
Read(w) ==
  /\ pc[w] = "idle"
  /\ \E c \in todo[w] :
       /\ todo' = [todo EXCEPT ![w] = @ \ {c}]
       /\ job' = [job EXCEPT ![w] = [mem |-> c.mem, token |-> c.token,
                                     ver |-> vault[c.mem], base |-> Nothing]]
       /\ pc' = [pc EXCEPT ![w] = AfterRead(c.mem)]
  /\ UNCHANGED <<fileVars, indexVars, queueVars, writer, doomed, events>>

\* Worker w leaves its claim and turns to the next one of its batch.
Finish(w) ==
  /\ pc' = [pc EXCEPT ![w] = "idle"]
  /\ job' = [job EXCEPT ![w] = NoJob]
  /\ UNCHANGED todo

Goto(w, stage) ==
  /\ pc' = [pc EXCEPT ![w] = stage]
  /\ UNCHANGED <<job, todo>>

\* w ends its claim on a row that becomes the given one.
FinishWith(w, row) ==
  /\ Finish(w)
  /\ queue' = [queue EXCEPT ![job[w].mem] = row]
  /\ UNCHANGED <<fileVars, indexVars, clock, asked, writer, doomed>>

\* The record was missing: look at the index and the disk again.
Recheck(w) ==
  LET m == job[w].mem IN
  /\ pc[w] = "missing"
  /\ UNCHANGED events
  /\ \/ ~indexed[m] /\ FinishWith(w, Consumed(queue[m], job[w].token))
     \/ /\ indexed[m] /\ vault[m] = 0
        /\ Goto(w, "prune")
        /\ UNCHANGED <<fileVars, indexVars, queueVars, writer, doomed>>
     \/ indexed[m] /\ vault[m] # 0 /\ FinishWith(w, Unclaimed(queue[m]))

PruneMissing(w) ==
  /\ pc[w] = "prune"
  /\ DeleteRows(job[w].mem)
  /\ Finish(w)
  /\ UNCHANGED <<fileVars, writer, doomed, events>>

MarkInvalid(w) ==
  /\ pc[w] = "invalid"
  /\ FinishWith(w, Errored(queue[job[w].mem], 1))
  /\ UNCHANGED events

\* plan_vector_reuse: stored chunks count when embed_state vouches for them.
Plan(w) ==
  LET m == job[w].mem IN
  /\ pc[w] = "plan"
  /\ pc' = [pc EXCEPT ![w] = "embed"]
  /\ job' = [job EXCEPT ![w].base = IF state[m] = vec[m] THEN vec[m] ELSE Nothing]
  /\ UNCHANGED <<fileVars, indexVars, queueVars, todo, writer, doomed, events>>

\* embed_batch raises: the text is refused, or any text meets an error that
\* counts; or the provider is down.
Refused(w) ==
  /\ pc[w] = "embed"
  /\ FinishWith(w, Errored(queue[job[w].mem], MaxRetries))
  /\ \/ Body(w) \in Poison /\ UNCHANGED events
     \/ Event

Outage(w) ==
  /\ pc[w] = "embed"
  /\ Event
  /\ FinishWith(w, Unclaimed(queue[job[w].mem]))

\* The embedder answered: apply_vectors.  A memory deleted meanwhile only loses
\* its orphan vectors.
Apply(w) ==
  LET m == job[w].mem IN
  /\ pc[w] = "embed" /\ Body(w) \notin Poison
  /\ Goto(w, "record")
  /\ vec' = [vec EXCEPT ![m] = IF indexed[m] THEN Body(w) ELSE Nothing]
  /\ UNCHANGED <<fileVars, indexed, known, state, queueVars, writer, doomed, events>>

\* StaleVectorPlanError: a chunk to be kept is not the one that was planned on.
StalePlan(w) ==
  LET m == job[w].mem IN
  /\ pc[w] = "embed" /\ Body(w) \notin Poison
  /\ indexed[m] /\ job[w].base \notin {Nothing, vec[m]}
  /\ FinishWith(w, Unclaimed(queue[m]))
  /\ UNCHANGED events

\* Faulty variant: the hash is taken from the file as it is by now.
RecordReread(w) ==
  LET m == job[w].mem IN
  /\ pc[w] = "record"
  /\ Goto(w, "dequeue")
  /\ state' = [state EXCEPT ![m] = text[vault[m]]]
  /\ UNCHANGED <<fileVars, indexed, known, vec, queueVars, writer, doomed, events>>

\* record_embed_state; a foreign key violation removes the vectors instead.
Record(w) ==
  LET m == job[w].mem IN
  /\ pc[w] = "record"
  /\ Goto(w, "dequeue")
  /\ IF indexed[m]
     THEN state' = [state EXCEPT ![m] = Body(w)] /\ UNCHANGED vec
     ELSE vec' = [vec EXCEPT ![m] = Nothing] /\ UNCHANGED state
  /\ UNCHANGED <<fileVars, indexed, known, queueVars, writer, doomed, events>>

Dequeue(w) ==
  /\ pc[w] = "dequeue"
  /\ FinishWith(w, Consumed(queue[job[w].mem], job[w].token))
  /\ UNCHANGED events

WorkerStep(w) ==
  \/ Claim(w) \/ Read(w) \/ Recheck(w) \/ PruneMissing(w) \/ MarkInvalid(w)
  \/ Plan(w) \/ Refused(w) \/ Outage(w) \/ Apply(w)
  \/ StalePlan(w) \/ Record(w) \/ Dequeue(w)

\* The worker's process dies, or an exception ends its tick; claims remain.
Crash(w) ==
  /\ "crash" \in Faults
  /\ pc[w] # "idle" \/ todo[w] # {}
  /\ Event
  /\ pc' = [pc EXCEPT ![w] = "idle"]
  /\ job' = [job EXCEPT ![w] = NoJob]
  /\ todo' = [todo EXCEPT ![w] = {}]
  /\ UNCHANGED <<fileVars, indexVars, queueVars, writer, doomed>>

\* CLAIM_LEASE_SECONDS go by; without "slow" only for a claim nobody serves.
LeaseLapses(m) ==
  /\ queue[m].claim # NoWorker /\ ~queue[m].lapsed
  /\ "slow" \in Faults \/ m \notin Holding(queue[m].claim)
  /\ queue' = [queue EXCEPT ![m].lapsed = TRUE]
  /\ UNCHANGED <<fileVars, indexVars, clock, asked, workerVars, writer, doomed, events>>

-----------------------------------------------------------------------------
(* Writers: store the text, index it, note its hash, ask for vectors *)

\* Vault.write of a record's next text by the pipeline or by memstem_upsert.
BeginWrite(p, k, m) ==
  LET v == edits[m] + 1 IN
  /\ writer[p].pc = "idle" /\ k \in {"pipeline", "mcp"}
  /\ edits[m] < MaxVersion /\ text[v] # Broken
  /\ edits' = [edits EXCEPT ![m] = v]
  /\ vault' = [vault EXCEPT ![m] = v]
  /\ taken' = [taken EXCEPT ![m] = v]
  /\ writer' = [writer EXCEPT ![p] = [pc |-> "upsert", kind |-> k, mem |-> m, ver |-> v]]
  /\ UNCHANGED <<text, indexVars, queueVars, workerVars, doomed, events>>

\* `memstem reindex` reaches m's file on its walk.
BeginReindex(p, m) ==
  /\ writer[p].pc = "idle"
  /\ vault[m] # 0 /\ text[vault[m]] # Broken
  /\ Event
  /\ writer' = [writer EXCEPT ![p] = [pc |-> "upsert", kind |-> "reindex",
                                      mem |-> m, ver |-> vault[m]]]
  /\ taken' = [taken EXCEPT ![m] = vault[m]]
  /\ UNCHANGED <<text, edits, vault, indexVars, queueVars, workerVars, doomed>>

Upsert(p) ==
  /\ writer[p].pc = "upsert"
  /\ indexed' = [indexed EXCEPT ![writer[p].mem] = TRUE]
  /\ writer' = [writer EXCEPT ![p].pc =
                  IF writer[p].kind = "reindex" THEN "enqueue" ELSE "hash"]
  /\ UNCHANGED <<fileVars, known, vec, state, queueVars, workerVars, doomed, events>>

\* record_body_hash; without a memories row the foreign key ends the call.
RecordHash(p) ==
  LET m == writer[p].mem IN
  /\ writer[p].pc = "hash"
  /\ IF indexed[m]
     THEN /\ known' = [known EXCEPT ![m] = text[writer[p].ver]]
          /\ writer' = [writer EXCEPT ![p].pc = "enqueue"]
     ELSE /\ writer' = [writer EXCEPT ![p] = NoWrite]
          /\ UNCHANGED known
  /\ UNCHANGED <<fileVars, indexed, vec, state, queueVars, workerVars, doomed, events>>

\* The pipeline asks only if needs_reembed; the other writers always ask.
WantsVectors(p) ==
  writer[p].kind = "pipeline" => state[writer[p].mem] # text[writer[p].ver]

Stamp(m) ==
  /\ clock' = clock + 1
  /\ queue' = [queue EXCEPT ![m] = Stamped(queue[m], clock + 1)]
  /\ asked' = [asked EXCEPT ![m] = edits[m]]

Enqueue(p) ==
  LET m == writer[p].mem IN
  /\ writer[p].pc = "enqueue"
  /\ IF indexed[m] /\ WantsVectors(p) THEN Stamp(m) ELSE UNCHANGED queueVars
  /\ writer' = [writer EXCEPT ![p] = NoWrite]
  /\ UNCHANGED <<fileVars, indexVars, workerVars, doomed, events>>

WriterStep(p) == Upsert(p) \/ RecordHash(p) \/ Enqueue(p)

WriterCrash(p) ==
  /\ "writercrash" \in Faults
  /\ writer[p].pc # "idle"
  /\ Event
  /\ writer' = [writer EXCEPT ![p] = NoWrite]
  /\ UNCHANGED <<fileVars, indexVars, queueVars, workerVars, doomed>>

-----------------------------------------------------------------------------
(* The prune pass, the operator, and hands on the vault *)

\* _prune_deleted_vault_files lists the rows whose file is gone ...
PruneScan ==
  /\ doomed = {}
  /\ doomed' = {m \in Memories : indexed[m] /\ vault[m] = 0}
  /\ doomed' # {}
  /\ UNCHANGED <<fileVars, indexVars, queueVars, workerVars, writer, events>>

\* ... and then deletes them one by one.
PruneRow(m) ==
  /\ m \in doomed
  /\ doomed' = doomed \ {m}
  /\ DeleteRows(m)
  /\ UNCHANGED <<fileVars, workerVars, writer, events>>

\* `memstem embed --retry-failed`.
RetryFailed ==
  /\ \E m \in Memories : queue[m].failed
  /\ Event
  /\ queue' = [m \in Memories |->
                 IF queue[m].failed THEN [queue[m] EXCEPT !.failed = FALSE, !.retries = 0]
                 ELSE queue[m]]
  /\ UNCHANGED <<fileVars, indexVars, clock, asked, workerVars, writer, doomed>>

RemoveFile(m) ==
  /\ "delete" \in Faults
  /\ vault[m] # 0
  /\ Event
  /\ vault' = [vault EXCEPT ![m] = 0]
  /\ UNCHANGED <<text, edits, taken, indexVars, queueVars, workerVars, writer, doomed>>

\* An editor saves the file; nothing watches the vault.
HandEdit(m) ==
  /\ "handedit" \in Faults
  /\ vault[m] # 0 /\ edits[m] < MaxVersion
  /\ edits' = [edits EXCEPT ![m] = @ + 1]
  /\ vault' = [vault EXCEPT ![m] = edits[m] + 1]
  /\ UNCHANGED <<text, taken, indexVars, queueVars, workerVars, writer, doomed, events>>

Next ==
  \/ \E w \in Workers : WorkerStep(w) \/ Crash(w)
  \/ \E p \in Writers :
       \/ WriterStep(p) \/ WriterCrash(p)
       \/ \E m \in Memories : BeginReindex(p, m) \/ \E k \in Kinds : BeginWrite(p, k, m)
  \/ \E m \in Memories : LeaseLapses(m) \/ PruneRow(m) \/ RemoveFile(m) \/ HandEdit(m)
  \/ PruneScan
  \/ RetryFailed

Spec == Init /\ [][Next]_vars

\* Threads and time go on; crashes, outages, edits and operators need not come.
Fairness ==
  /\ \A w \in Workers : WF_vars(WorkerStep(w))
  /\ \A p \in Writers : WF_vars(WriterStep(p))
  /\ \A m \in Memories : WF_vars(LeaseLapses(m))

FairSpec == Spec /\ Fairness

-----------------------------------------------------------------------------
(* Properties *)

\* No two workers serve the same record at once, so nothing is embedded twice
\* in flight (embed_worker.py:11-15).
OneWorkerPerRecord ==
  \A w1, w2 \in Workers : w1 # w2 => Holding(w1) \cap Holding(w2) = {}

\* When a worker consumes a queue row of a memory that is still indexed, the
\* file it read was at least as new as the row's last stamp: a request made
\* while an older body was being embedded is never erased with it.
ConsumedIsFresh ==
  [][\A m \in Memories :
       Queued(m) /\ queue'[m].token = 0 /\ indexed'[m] =>
         \E w \in Workers : job[w].mem = m /\ job[w].ver >= asked[m]]_vars

Quiet(m) ==
  /\ \A p \in Writers : writer[p].mem # m
  /\ \A w \in Workers : m \notin Holding(w)

\* embed_state may stand for the vectors: at rest, with no request open, a
\* memory it calls embedded has the vectors of exactly that body.
CertifiedVectors ==
  \A m \in Memories :
    state[m] \in Texts /\ ~Queued(m) /\ Quiet(m) => vec[m] = state[m]

Embeddable(m) == indexed[m] /\ vault[m] # 0 /\ text[vault[m]] \in Texts

\* A writer has taken up the text in m's file: it wrote it, or `memstem reindex`
\* came by.  A text put there by hand is taken up by nobody.
TakenUp(m) == taken[m] # 0 /\ text[taken[m]] = text[vault[m]]

\* A text some writer has taken up, and whose vectors are missing or old, has a
\* request open, or a writer that is about to make one: also where another
\* writer, an edit by hand, or a worker with an older or an untold text in hand
\* comes in between.
NothingForgotten ==
  \A m \in Memories :
    Embeddable(m) /\ TakenUp(m) /\ (\A p \in Writers : writer[p].mem # m) =>
      Queued(m) \/ vec[m] = text[vault[m]]

\* Every request ends: it is consumed, given up, or goes with its memory.
RequestsEnd ==
  \A m \in Memories :
    (Queued(m) /\ ~queue[m].failed) ~> (~Queued(m) \/ queue[m].failed)

\* Once edits stop, every text the embedder takes ends up with its vectors.
Converges ==
  \A m \in Memories :
    <>[](Embeddable(m) /\ text[vault[m]] \notin Poison => vec[m] = text[vault[m]])
=============================================================================

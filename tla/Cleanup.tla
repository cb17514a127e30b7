------------------------------ MODULE Cleanup ------------------------------
(***************************************************************************)
(* The clean-ups an operator starts by hand over a vault that was filled   *)
(* before duplicates and noise were kept out: `hygiene cleanup-retro`, the *)
(* audit, selection and manifest of the phase-1 scripts, and `hygiene      *)
(* strip-expired-vectors`; beside them the pipeline and the embed worker.  *)
(*                                                                         *)
(* A clean-up plans over all memories, and then takes its jobs one by one: *)
(* it reads a file, writes it with `deprecated_by` or `valid_to`, upserts  *)
(* it, and notes what it did.  None of them takes the stage lock.          *)
(*                                                                         *)
(* A body stands for the normalized text; a path is the memory's own.      *)
(***************************************************************************)
EXTENDS Naturals, FiniteSets, Sequences, SequencesExt, Functions

CONSTANTS
  Ids,        \* the ids there may be, in their lexicographic order
  NoMemory,
  Refs,       \* sources
  Live,       \* those the pipeline hears of
  Origin,     \* Origin[m]: the source memory m came from
  Kind,       \* Kind[r]: the type of the memories of source r
  Bodies,
  NoBody,
  Marks,      \* Marks[b]: what the noise filter finds in body b
  Legacy,     \* Legacy[m]: the bodies memory m may hold at first, none if unborn
  Standing,   \* Standing[m]: the rank memory m has at first
  Ttl,        \* days a transient memory is kept
  Never,      \* the valid_to of a memory that does not expire
  MaxTime,    \* bounds: days,
  MaxEdits,   \*   changes of a source,
  MaxIngests, \*   records processed,
  MaxRuns,    \*   clean-ups,
  MaxBumps,   \*   memories that gain importance,
  MaxFails    \*   writes that fail

Memories == Range(Ids)

ASSUME CleanupAssumption ==
  /\ Ids \in Seq(Memories) /\ Ids # << >>
  /\ NoMemory \notin Memories /\ NoBody \notin Bodies
  /\ Live \subseteq Refs /\ Origin \in [Memories -> Refs] /\ Kind \in [Refs -> STRING]
  /\ Marks \in [Bodies -> SUBSET {"heartbeat", "dump", "echo", "scheduled", "task"}]
  /\ \E b \in Bodies : Marks[b] = {}
  /\ Legacy \in [Memories -> SUBSET Bodies] /\ Standing \in [Memories -> 0..1]
  /\ {Ttl, MaxTime, MaxEdits, MaxIngests, MaxRuns, MaxBumps, MaxFails} \subseteq Nat
  /\ Never \in Nat /\ Never > MaxTime + Ttl

VARIABLES
  source,    \* source[r]: the text source r holds
  map,       \* map[r]: record_map
  files,     \* files[m]: the memory's file in the vault
  rows,      \* rows[m]: its row of `memories`
  hash,      \* hash[b]: the memory body_hash_index names for b
  score,     \* score[m]: importance, retrievals and update time, as one rank
  vectors,   \* vectors[m]: the body whose vectors are stored
  state,     \* state[m]: the body embed_state vouches for
  queue,     \* embed_queue
  now,
  pipe,      \* the record the pipeline is processing
  command,   \* the clean-up that runs
  manifest,  \* the phase-1 manifest on disk
  audit,     \* dedup_audit: loser, winner
  tickets,   \* skills/_review
  used,      \* used[k]: how much of bound k is used up
  failed,    \* history: losers whose job ended in an error
  misled,    \* history: losers whose winner was hidden when the manifest was applied
  renewed,   \* history: memories that came back after valid_to had passed
  lost       \* history: memories the pipeline and a clean-up were writing at once

vars == <<source, map, files, rows, hash, score, vectors, state, queue, now, pipe, command,
          manifest, audit, tickets, used, failed, misled, renewed, lost>>

File == [body : Bodies, by : Memories \cup {NoMemory}, until : 0..Never]

NoFile == [body |-> NoBody, by |-> NoMemory, until |-> Never]

Job == [memory : Memories, winner : Memories \cup {NoMemory}, until : 0..Never,
        body : Bodies \cup {NoBody}, file : File \cup {NoFile}]

NoJob == [memory |-> Ids[1], winner |-> NoMemory, until |-> Never, body |-> NoBody,
          file |-> NoFile]

AtRest == [pc |-> "rest", tool |-> "none", groups |-> {}, jobs |-> {}, job |-> NoJob,
           overtaken |-> FALSE]

NoPipe == [pc |-> "idle", ref |-> CHOOSE r \in Refs : TRUE, memory |-> Ids[1],
           file |-> NoFile]

TypeOK ==
  /\ source \in [Refs -> Bodies] /\ map \in [Refs -> Memories \cup {NoMemory}]
  /\ files \in [Memories -> File \cup {NoFile}] /\ rows \in [Memories -> File \cup {NoFile}]
  /\ hash \in [Bodies -> Memories \cup {NoMemory}]
  /\ \A b \in Bodies : hash[b] # NoMemory => files[hash[b]] # NoFile
  /\ vectors \in [Memories -> Bodies \cup {NoBody}] /\ state \in [Memories -> Bodies \cup {NoBody}]
  /\ queue \subseteq Memories /\ now \in 0..MaxTime
  /\ pipe.pc \in {"idle", "write", "index"} /\ pipe.file \in File \cup {NoFile}
  /\ command.pc \in {"rest", "groups", "jobs", "write", "index", "log", "strip"}
  /\ command.jobs \subseteq Job /\ command.job \in Job
  /\ \A j \in command.jobs : j.memory # j.winner

Init ==
  /\ \E text \in [Memories -> Bodies \cup {NoBody}] :
       /\ \A m \in Memories : IF Legacy[m] = {} THEN text[m] = NoBody ELSE text[m] \in Legacy[m]
       /\ files = [m \in Memories |-> IF text[m] = NoBody THEN NoFile
                      ELSE [body |-> text[m], by |-> NoMemory, until |-> Never]]
  /\ rows = files
  /\ map \in [Refs -> Memories \cup {NoMemory}]
  /\ \A r \in Refs :
       LET born == {m \in Memories : Origin[m] = r /\ files[m] # NoFile} IN
       IF born = {} THEN map[r] = NoMemory ELSE map[r] \in born
  /\ source = [r \in Refs |-> IF map[r] = NoMemory THEN CHOOSE b \in Bodies : Marks[b] = {}
                              ELSE files[map[r]].body]
  /\ hash = [b \in Bodies |-> NoMemory]
  /\ score = Standing
  /\ vectors = [m \in Memories |-> files[m].body]
  /\ state = vectors
  /\ queue = {}
  /\ now = 0
  /\ pipe = NoPipe
  /\ command = AtRest
  /\ manifest = {}
  /\ audit = {} /\ tickets = {}
  /\ used = [k \in {"edits", "ingests", "runs", "bumps", "fails"} |-> 0]
  /\ failed = {} /\ misled = {} /\ renewed = {} /\ lost = {}

-----------------------------------------------------------------------------
(* noise_filter, select_winner, record_body_hash *)

Expired(file) == file.until <= now

\* What search shows by default.
Visible(file) == file # NoFile /\ file.by = NoMemory /\ ~Expired(file)

\* What the detectors find; the echoes of boot files are known to the pipeline
\* alone.
Finds(body, echoes) == IF echoes THEN Marks[body] ELSE Marks[body] \ {"echo"}

\* noise_filter, rule by rule.
Verdict(body, echoes) ==
  CASE Finds(body, echoes) \cap {"heartbeat", "dump", "echo"} # {} -> "drop"
    [] "scheduled" \in Finds(body, echoes)                         -> "anchored"
    [] "task" \in Finds(body, echoes)                              -> "transient"
    [] OTHER                                                       -> "keep"

\* The valid_to of a verdict; a scheduled session's is counted from its own
\* date, which is day 0.
Until(verdict) == IF verdict = "drop" THEN now
                  ELSE IF verdict = "anchored" THEN Ttl ELSE now + Ttl

Rank(m) == CHOOSE i \in DOMAIN Ids : Ids[i] = m

\* The higher rank wins, and of equals the smaller id.
Beats(m, n) ==
  score[m] > score[n] \/ (score[m] = score[n] /\ Rank(m) < Rank(n))

Winner(group) == CHOOSE m \in group : \A n \in group \ {m} : Beats(m, n)

CoinFlip(group) == \A m, n \in group : score[m] = score[n]

\* Faulty variant: other hashes of the memory stay.
RecordedToo(body, m) ==
  [b \in Bodies |-> IF b = body /\ hash[b] = NoMemory THEN m ELSE hash[b]]

\* record_body_hash: other hashes of the memory go; a hash that is there keeps
\* its memory.
Recorded(body, m) ==
  [b \in Bodies |-> IF b = body THEN IF hash[b] = NoMemory THEN m ELSE hash[b]
                    ELSE IF hash[b] = m THEN NoMemory ELSE hash[b]]

\* Faulty variant: deprecated memories are planned again.
PlannableAll == {m \in Memories : rows[m] # NoFile}

\* The memories a planner looks at.
Plannable == {m \in Memories : rows[m] # NoFile /\ rows[m].by = NoMemory}

\* find_dedup_collisions: two or more memories with one body.
Collisions ==
  {group \in {{m \in Plannable : files[m].body = b} : b \in Bodies} : Cardinality(group) > 1}

\* What is planned for a group.
Entry(group) == [winner |-> Winner(group), losers |-> group \ {Winner(group)},
                 body |-> files[Winner(group)].body]

TypeOfMemory(m) == Kind[Origin[m]]

-----------------------------------------------------------------------------
(* The audit and the phase-1 manifest *)

\* classify, class B: the records of one source that hold one body.
SameSource ==
  {group \in {{m \in Plannable : Origin[m] = r /\ files[m].body = b} : r \in Refs, b \in Bodies} :
     Cardinality(group) > 1}

Blocked == {"skill", "project", "distillation"}

\* _disqualify_reasons finds none.
Qualifies(group) ==
  /\ \A m \in group : TypeOfMemory(m) \notin Blocked
  /\ ~CoinFlip(group)

\* select_phase1
Selected == {Entry(group) : group \in {g \in SameSource : Qualifies(g)}}

\* Faulty variant: the winner's text is not looked at again.
CheckedLightly(entry) ==
  \A m \in entry.losers : files[m].body = entry.body /\ files[m].by = NoMemory

\* _check_group: every rule again, against the files as they are now, but for
\* the winner's own deprecated_by.
Checked(entry) ==
  /\ files[entry.winner].body = entry.body
  /\ \A m \in entry.losers : files[m].body = entry.body /\ files[m].by = NoMemory

-----------------------------------------------------------------------------
(* A clean-up starts *)

Use(k, bound) == used[k] < bound /\ used' = [used EXCEPT ![k] = @ + 1]

\* What no step of a clean-up touches.
Beside == UNCHANGED <<source, map, score, state, now, pipe>>

Stores == <<files, rows, hash, vectors, queue, renewed, lost>>

Started(tool, entries, pc) ==
  /\ command.pc = "rest" /\ Use("runs", MaxRuns)
  /\ command' = [AtRest EXCEPT !.pc = pc, !.tool = tool, !.groups = entries]
  /\ Beside /\ UNCHANGED <<Stores, manifest, audit, tickets, failed, misled>>

\* hygiene_cleanup_retro plans the duplicates and applies the plan.
StartRetro == Started("retro", {Entry(group) : group \in Collisions}, "groups")

\* dedupe_audit_report and dedupe_phase1_select, which change nothing else.
MakeManifest ==
  /\ command.pc = "rest" /\ Selected # {}
  /\ manifest' = Selected
  /\ Beside /\ UNCHANGED <<Stores, command, audit, tickets, used, failed, misled>>

\* dedupe_phase1_apply takes the manifest it finds.
StartManifest == manifest # {} /\ Started("phase1", manifest, "groups")

\* Faulty variant: what is going to expire is stripped with what has.
StartStripSoon ==
  Started("strip", {m \in Memories : rows[m] # NoFile /\ rows[m].until # Never /\ vectors[m] # NoBody},
          "strip")

\* find_expired_with_vectors
StartStrip ==
  Started("strip", {m \in Memories : rows[m] # NoFile /\ Expired(rows[m]) /\ vectors[m] # NoBody},
          "strip")

-----------------------------------------------------------------------------
(* Duplicates *)

InvolvesSkill(entry) == \E m \in entry.losers \cup {entry.winner} : TypeOfMemory(m) = "skill"

\* write_skill_review_ticket
Ticket ==
  /\ command.pc = "groups" /\ command.tool = "retro"
  /\ \E entry \in command.groups :
       /\ InvolvesSkill(entry)
       /\ tickets' = tickets \cup {entry.losers \cup {entry.winner}}
       /\ command' = [command EXCEPT !.groups = @ \ {entry}]
  /\ Beside /\ UNCHANGED <<Stores, manifest, audit, used, failed, misled>>

JobOf(entry, m) == [NoJob EXCEPT !.memory = m, !.winner = entry.winner, !.body = entry.body]

\* A group without a skill: its losers are the jobs.
OpenGroup ==
  /\ command.pc = "groups" /\ command.tool = "retro"
  /\ \E entry \in command.groups :
       /\ ~InvolvesSkill(entry)
       /\ command' = [command EXCEPT !.pc = "jobs", !.groups = @ \ {entry},
                        !.jobs = {JobOf(entry, m) : m \in entry.losers}]
  /\ Beside /\ UNCHANGED <<Stores, manifest, audit, tickets, used, failed, misled>>

\* An entry of the manifest: its files are read and checked before the first is
\* written; an entry that fails a check is skipped whole.
CheckGroup ==
  /\ command.pc = "groups" /\ command.tool = "phase1"
  /\ \E entry \in command.groups :
       \/ /\ Checked(entry)
          /\ command' = [command EXCEPT !.pc = "jobs", !.groups = @ \ {entry},
                !.overtaken = FALSE,
                !.jobs = {[JobOf(entry, m) EXCEPT !.file = files[m]] : m \in entry.losers}]
          /\ misled' = IF files[entry.winner].by # NoMemory
                       THEN misled \cup entry.losers ELSE misled
       \/ /\ ~Checked(entry)
          /\ command' = [command EXCEPT !.groups = @ \ {entry}]
          /\ UNCHANGED misled
  /\ Beside /\ UNCHANGED <<Stores, manifest, audit, tickets, used, failed>>

-----------------------------------------------------------------------------
(* Noise and vectors *)

\* The memories find_noise_hits has a verdict on.
NoiseHits == {m \in Plannable : ~Expired(rows[m]) /\ Verdict(files[m].body, FALSE) # "keep"}

\* With the duplicates done, cleanup-retro plans the noise.
PlanNoise ==
  /\ command.pc = "groups" /\ command.tool = "retro" /\ command.groups = {}
  /\ command' = [AtRest EXCEPT !.pc = "jobs", !.tool = "noise",
       !.jobs = {[NoJob EXCEPT !.memory = m, !.until = Until(Verdict(files[m].body, FALSE))] :
                   m \in NoiseHits}]
  /\ Beside /\ UNCHANGED <<Stores, manifest, audit, tickets, used, failed, misled>>

\* Index.strip_vectors, for each memory of the plan.
Strip ==
  /\ command.pc = "strip"
  /\ \E m \in command.groups :
       /\ vectors' = [vectors EXCEPT ![m] = NoBody]
       /\ queue' = queue \ {m}
       /\ command' = [command EXCEPT !.groups = @ \ {m}]
  /\ Beside /\ UNCHANGED <<files, rows, hash, renewed, lost, manifest, audit, tickets, used, failed, misled>>

Finish ==
  /\ \/ command.pc \in {"groups", "strip"} /\ command.tool # "retro" /\ command.groups = {}
     \/ command.pc = "jobs" /\ command.tool = "noise" /\ command.jobs = {}
  /\ command' = AtRest
  /\ Beside /\ UNCHANGED <<Stores, manifest, audit, tickets, used, failed, misled>>

-----------------------------------------------------------------------------
(* Jobs *)

\* The losers of a group are done.
CloseGroup ==
  /\ command.pc = "jobs" /\ command.tool # "noise" /\ command.jobs = {}
  /\ command' = [command EXCEPT !.pc = "groups"]
  /\ Beside /\ UNCHANGED <<Stores, manifest, audit, tickets, used, failed, misled>>

\* The file as the job rewrites it.
Rewritten(file, job) == IF job.winner # NoMemory THEN [file EXCEPT !.by = job.winner]
                        ELSE [file EXCEPT !.until = job.until]

\* A memory comes back when a row that has expired gets a later date.
Renewed(m, file) == IF rows[m] # NoFile /\ Expired(rows[m]) /\ ~Expired(file) THEN renewed \cup {m} ELSE renewed

\* The file is read, by phase 1 some time ago.
TakeJob ==
  /\ command.pc = "jobs"
  /\ \E job \in command.jobs :
       LET file == IF command.tool = "phase1" THEN job.file ELSE files[job.memory] IN
       command' = [command EXCEPT !.pc = "write", !.jobs = @ \ {job},
                    !.job = [job EXCEPT !.file = Rewritten(file, job)]]
  /\ Beside /\ UNCHANGED <<Stores, manifest, audit, tickets, used, failed, misled>>

\* Vault.write
WriteJob ==
  /\ command.pc = "write"
  /\ files' = [files EXCEPT ![command.job.memory] = command.job.file]
  /\ lost' = IF files[command.job.memory].body # command.job.file.body
             THEN lost \cup {command.job.memory} ELSE lost
  /\ command' = [command EXCEPT !.pc = "index"]
  /\ Beside /\ UNCHANGED <<rows, hash, vectors, queue, renewed, manifest, audit, tickets, used, failed,
                          misled>>

\* Index.upsert
IndexJob ==
  /\ command.pc = "index"
  /\ rows' = [rows EXCEPT ![command.job.memory] = command.job.file]
  /\ renewed' = Renewed(command.job.memory, command.job.file)
  /\ lost' = IF files[command.job.memory].body # command.job.file.body
             THEN lost \cup {command.job.memory} ELSE lost
  /\ command' = [command EXCEPT !.pc = IF command.job.winner # NoMemory THEN "log" ELSE "jobs"]
  /\ Beside /\ UNCHANGED <<files, hash, vectors, queue, manifest, audit, tickets, used, failed,
                          misled>>

\* A row of dedup_audit; cleanup-retro records the body's hash with it.
LogJob ==
  /\ command.pc = "log"
  /\ hash' = IF command.tool = "retro" THEN Recorded(command.job.body, command.job.winner) ELSE hash
  /\ lost' = IF files[command.job.winner].body # command.job.body
             THEN lost \cup {command.job.winner} ELSE lost
  /\ audit' = audit \cup {<<command.job.memory, command.job.winner>>}
  /\ command' = [command EXCEPT !.pc = "jobs"]
  /\ Beside /\ UNCHANGED <<files, rows, vectors, queue, renewed, manifest, tickets, used, failed, misled>>

\* A read or a write raises: the error is noted and the next job taken.
FailJob ==
  /\ command.pc \in {"write", "index", "log"} /\ Use("fails", MaxFails)
  /\ failed' = failed \cup {command.job.memory}
  /\ command' = [command EXCEPT !.pc = "jobs"]
  /\ Beside /\ UNCHANGED <<Stores, manifest, audit, tickets, misled>>

CommandStep == \/ Ticket \/ OpenGroup \/ CheckGroup \/ PlanNoise \/ Strip \/ Finish \/ CloseGroup
               \/ TakeJob \/ WriteJob \/ IndexJob \/ LogJob

-----------------------------------------------------------------------------
(* The pipeline and the embed worker *)

\* What the pipeline leaves alone.
Apart == UNCHANGED <<source, score, vectors, state, now, manifest, audit, tickets, failed, misled>>

\* A source gets another text.
Edit(r, b) ==
  /\ source[r] # b /\ Use("edits", MaxEdits)
  /\ source' = [source EXCEPT ![r] = b]
  /\ UNCHANGED <<map, score, vectors, state, now, manifest, audit, tickets, failed, misled,
                 files, rows, hash, queue, renewed, lost, pipe, command>>

\* The id of a record: the one its source maps to, or a new one.
IdsFor(r) == IF map[r] # NoMemory THEN {map[r]}
             ELSE {m \in Memories : files[m] = NoFile /\ Origin[m] = r}

\* _build_frontmatter: what a clean-up has written is carried over; the verdict
\* on the new text goes before an old valid_to.
Carried(old, body, verdict) ==
  [body |-> body, by |-> old.by,
   until |-> IF verdict = "keep" THEN old.until ELSE Until(verdict)]

\* Pipeline.process up to its first write: noise is dropped, a text that another
\* memory holds is a duplicate, and a new source is mapped to that memory.
Process(r) ==
  LET body == source[r]  verdict == Verdict(body, TRUE)  holder == hash[body] IN
  /\ pipe.pc = "idle" /\ Use("ingests", MaxIngests)
  /\ \/ /\ verdict = "drop"
        /\ UNCHANGED <<map, pipe>>
     \/ /\ verdict # "drop" /\ holder # NoMemory /\ holder # map[r]
        /\ map' = IF map[r] = NoMemory THEN [map EXCEPT ![r] = holder] ELSE map
        /\ UNCHANGED pipe
     \/ /\ verdict # "drop" /\ (holder = NoMemory \/ holder = map[r])
        /\ \E m \in IdsFor(r) :
             pipe' = [pc |-> "write", ref |-> r, memory |-> m,
                      file |-> Carried(files[m], body, verdict)]
        /\ UNCHANGED map
  /\ Apart /\ UNCHANGED <<files, rows, hash, queue, renewed, lost, command>>

PipeWrite ==
  /\ pipe.pc = "write"
  /\ files' = [files EXCEPT ![pipe.memory] = pipe.file]
  /\ pipe' = [pipe EXCEPT !.pc = "index"]
  /\ command' = [command EXCEPT !.overtaken = TRUE]
  /\ Apart /\ UNCHANGED <<rows, map, hash, queue, renewed, used, lost>>

\* upsert, record_map, record_body_hash; a text without vectors is queued unless
\* it has expired.
PipeIndex ==
  LET m == pipe.memory  body == pipe.file.body IN
  /\ pipe.pc = "index"
  /\ rows' = [rows EXCEPT ![m] = pipe.file]
  /\ renewed' = Renewed(m, pipe.file)
  /\ map' = [map EXCEPT ![pipe.ref] = m]
  /\ hash' = Recorded(body, m)
  /\ queue' = IF ~Expired(pipe.file) /\ state[m] # body THEN queue \cup {m} ELSE queue
  /\ lost' = IF files[m] # pipe.file THEN lost \cup {m} ELSE lost
  /\ pipe' = NoPipe
  /\ command' = [command EXCEPT !.overtaken = TRUE]
  /\ Apart /\ UNCHANGED <<files, used>>

\* The worker embeds what the file holds now.
Embed(m) ==
  /\ m \in queue
  /\ vectors' = [vectors EXCEPT ![m] = files[m].body]
  /\ state' = [state EXCEPT ![m] = files[m].body]
  /\ queue' = queue \ {m}
  /\ UNCHANGED <<source, map, files, rows, hash, score, now, pipe, command, manifest, audit,
                 tickets, used, failed, misled, renewed, lost>>

\* The importance stage raises a memory.
Bump(m) ==
  /\ files[m] # NoFile /\ score[m] = 0 /\ Use("bumps", MaxBumps)
  /\ score' = [score EXCEPT ![m] = 1]
  /\ UNCHANGED <<source, map, files, rows, hash, vectors, state, queue, now, pipe, command,
                 manifest, audit, tickets, failed, misled, renewed, lost>>

\* A day goes by.
Tick ==
  /\ now < MaxTime
  /\ now' = now + 1
  /\ UNCHANGED <<source, map, files, rows, hash, score, vectors, state, queue, pipe, command,
                 manifest, audit, tickets, used, failed, misled, renewed, lost>>

Next ==
  \/ StartRetro \/ MakeManifest \/ StartManifest \/ StartStrip
  \/ CommandStep \/ FailJob
  \/ \E r \in Live : Process(r) \/ \E b \in Bodies : Edit(r, b)
  \/ PipeWrite \/ PipeIndex \/ Tick
  \/ \E m \in Memories : Embed(m) \/ Bump(m)

Spec == Init /\ [][Next]_vars

-----------------------------------------------------------------------------
(* Properties *)

\* A memory that is hidden as a duplicate leads to one that is not, by way of
\* its deprecated_by: no memories hide each other.  So it is but where the
\* manifest's winner was hidden before the manifest was applied.
SurvivorRemains ==
  \A hidden \in (SUBSET Memories) \ {{}} :
    \E m \in hidden : files[m].by \notin hidden \/ m \in misled \cup failed \cup lost

\* A memory is hidden for one that holds the same text, unless the pipeline
\* has written a file since the plan was made or the manifest checked.
HiddenHasCopy ==
  [][\A m \in Memories :
       files'[m].by # files[m].by /\ files'[m].by # NoMemory =>
         \/ files[files'[m].by].body = files'[m].body /\ files[m].body = files'[m].body
         \/ command'.overtaken]_vars

\* Vectors are taken only from what stays hidden: a memory that search shows,
\* and that waits for nothing, has the vectors of its text, but for one that a
\* new verdict brought back after its valid_to had passed.
VisibleIsEmbedded ==
  \A m \in Memories :
    Visible(rows[m]) /\ m \notin queue /\ ~(pipe.pc = "index" /\ pipe.memory = m)
      => vectors[m] = rows[m].body \/ m \in renewed \cup lost

\* What the hash index names is there: a text that would be skipped as a
\* duplicate is the text of a memory, but where a clean-up put back or recorded
\* what the pipeline had just replaced.
HashIsStored ==
  \A b \in Bodies :
    hash[b] # NoMemory =>
      \/ files[hash[b]].body = b
      \/ hash[b] \in lost \/ (pipe.pc = "index" /\ pipe.memory = hash[b])
=============================================================================

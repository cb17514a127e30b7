----------------------------- MODULE Importance -----------------------------
(***************************************************************************)
(* The importance stage over the query log, beside the ingest pipeline.    *)
(*                                                                         *)
(* A run reads the rows above the cursor, proposes a value for every       *)
(* memory they show, rewrites those memories one by one, each file whole,  *)
(* and moves the cursor last.  The loop of the daemon takes the stage lock *)
(* and then plans; the command plans and then takes the lock.  Meanwhile   *)
(* the pipeline rewrites a memory whose source has changed, and carries    *)
(* over the importance it finds in the file.                               *)
(***************************************************************************)
EXTENDS QueryLog

CONSTANTS
  Runners,      \* "loop", and "command" for `memstem hygiene importance`
  NoRunner,
  Full,         \* importance 1.0
  Seed,         \* the importance a new memory starts with
  MaxBump,      \* what a memory can gain in one run
  Sourced,      \* the memories whose source may change
  MaxIngests    \* bound on the changes of a source

ASSUME ImportanceAssumption ==
  /\ Runners \subseteq {"loop", "command"} /\ NoRunner \notin Runners
  /\ Full \in Nat /\ Seed \in 0..Full /\ MaxBump \in Nat \ {0}
  /\ Sourced \subseteq Memories /\ MaxIngests \in Nat

VARIABLES
  vault,    \* vault[m]: the file of memory m
  rows,     \* rows[m]: what the row of `memories` says of it
  cursor,   \* importance_last_query_log_id
  lock,     \* who holds the stage lock
  runner,   \* runner[r]: the run of r
  ingest,   \* the memory the pipeline is rewriting
  times,    \* history: times[id]: writes of an importance that counted row id
  settled,  \* history: row ids counted, or dismissed with their memory
  broken,   \* history: runs that ended before their cursor
  outrun    \* history: plans applied although a run had come in between

stageVars == <<vault, rows, cursor, lock, runner, ingest, times, settled, broken,
               outrun>>
vars == <<logVars, stageVars>>

File == [body : 0..MaxIngests, importance : 0..Full, hidden : BOOLEAN]

NewFile == [body |-> 0, importance |-> Seed, hidden |-> FALSE]

RowIds == 1..(MaxCalls * Cardinality(Memories) * (2 + MaxEvents))

AtRest == [pc |-> "rest", window |-> {}, from |-> << >>, last |-> 0,
           proposed |-> [m \in Memories |-> 0], todo |-> {},
           memory |-> CHOOSE m \in Memories : TRUE, file |-> NewFile]

NoIngest == [pc |-> "idle", memory |-> CHOOSE m \in Memories : TRUE, file |-> NewFile,
             found |-> 0]

TypeOK ==
  /\ LogTypeOK
  /\ vault \in [Memories -> File] /\ rows \in [Memories -> File]
  /\ cursor \in 0..lastId
  /\ lock \in Runners \cup {NoRunner}
  /\ \A r \in Runners :
       /\ runner[r].pc \in {"rest", "plan", "planned", "apply", "write", "index", "stamp",
                              "over"}
       /\ runner[r].todo \subseteq Memories /\ runner[r].file \in File
       /\ runner[r].pc \in {"apply", "write", "index", "stamp"} => lock = r
  /\ ingest.pc \in {"idle", "write", "index"} /\ ingest.file \in File
  /\ settled \subseteq RowIds
  /\ broken \in 0..MaxEvents /\ outrun \in 0..MaxEvents

Init ==
  /\ LogInit
  /\ vault = [m \in Memories |-> NewFile]
  /\ rows = [m \in Memories |-> NewFile]
  /\ cursor = 0
  /\ lock = NoRunner
  /\ runner = [r \in Runners |-> AtRest]
  /\ ingest = NoIngest
  /\ times = [id \in RowIds |-> 0]
  /\ settled = {}
  /\ broken = 0
  /\ outrun = 0

-----------------------------------------------------------------------------
(* compute_importance_updates *)

Least(a, b) == IF a <= b THEN a ELSE b

\* Faulty variant: the row at the cursor is read again.
FreshAgain == {row \in log : row.id >= cursor}

\* The rows of the log above the cursor.
Fresh == {row \in log : row.id > cursor}

Of(m, window) == {row \in window : row.memory = m}

\* A memory that is gone, deprecated or expired is not bumped; nor is one at
\* the ceiling.
Eligible(m) == m \in alive /\ ~vault[m].hidden /\ vault[m].importance < Full

\* What a memory's rows in the window make of its importance.
Proposed(m, window) ==
  Least(Full, vault[m].importance + Least(MaxBump, Cardinality(Of(m, window))))

\* What a run changes: a plan is stale when it is no longer what it was.
Progress == <<cursor, [m \in Memories |-> vault[m].importance]>>

\* The plan of r, made with the log and the files as they are now.
Planned(r, pc) ==
  LET updates == {m \in Memories : Eligible(m) /\ Of(m, Fresh) # {}} IN
  /\ runner' = [runner EXCEPT ![r] = [AtRest EXCEPT
       !.pc = pc,
       !.window = Fresh,
       !.from = IF pc = "planned" THEN Progress ELSE << >>,
       !.last = IF Fresh = {} THEN cursor ELSE Max({row.id : row \in Fresh}),
       !.proposed = [m \in Memories |-> IF m \in updates THEN Proposed(m, Fresh) ELSE 0],
       !.todo = updates]]
  /\ settled' = settled \cup {row.id : row \in {w \in Fresh : w.memory \notin updates}}

\* The loop rests until the stage is due again; a command is over.
Ended(r) == [runner EXCEPT ![r] = [AtRest EXCEPT !.pc = IF r = "loop" THEN "rest" ELSE "over"]]

\* What a step of a runner leaves alone.
Beside == UNCHANGED <<logVars, ingest, outrun>>

\* HygieneLoop._maybe_run_stage takes the lock, then plans.
TakeLock(r) ==
  /\ r = "loop" /\ runner[r].pc = "rest" /\ lock = NoRunner
  /\ Fresh # {}
  /\ lock' = r
  /\ runner' = [runner EXCEPT ![r].pc = "plan"]
  /\ Beside /\ UNCHANGED <<vault, rows, cursor, times, settled, broken>>

Plan(r) ==
  /\ r = "loop" /\ runner[r].pc = "plan"
  /\ Planned(r, "apply")
  /\ Beside /\ UNCHANGED <<vault, rows, cursor, lock, times, broken>>

\* Somebody runs the command: hygiene_importance plans, shows the plan, and then asks for the lock; while
\* another runner holds it the command ends.
PlanFirst(r) ==
  /\ r = "command" /\ runner[r].pc = "rest" /\ Fresh # {}
  /\ Event
  /\ Planned(r, "planned")
  /\ UNCHANGED <<alive, log, lastId, spool, logger, calls, kept, entered, cut>>
  /\ UNCHANGED <<vault, rows, cursor, lock, ingest, times, broken, outrun>>

LockLater(r) ==
  /\ runner[r].pc = "planned"
  /\ \/ /\ lock = NoRunner
        /\ lock' = r
        /\ runner' = [runner EXCEPT ![r].pc = "apply"]
        /\ outrun' = IF Progress # runner[r].from THEN outrun + 1 ELSE outrun
     \/ /\ lock # NoRunner
        /\ runner' = Ended(r)
        /\ UNCHANGED <<lock, outrun>>
  /\ UNCHANGED <<logVars, vault, rows, cursor, ingest, times, settled, broken>>

-----------------------------------------------------------------------------
(* apply_importance_updates *)

\* One update: the file is read again; a memory that has gone or been hidden
\* since the plan is left as it is.
Reread(r, m) ==
  /\ runner[r].pc = "apply" /\ m \in runner[r].todo
  /\ \/ /\ m \in alive /\ ~vault[m].hidden
        /\ runner' = [runner EXCEPT ![r].pc = "write", ![r].memory = m,
             ![r].file = [vault[m] EXCEPT !.importance = runner[r].proposed[m]]]
        /\ UNCHANGED settled
     \/ /\ m \notin alive \/ vault[m].hidden
        /\ runner' = [runner EXCEPT ![r].todo = @ \ {m}]
        /\ settled' = settled \cup {row.id : row \in Of(m, runner[r].window)}
  /\ Beside /\ UNCHANGED <<vault, rows, cursor, lock, times, broken>>

\* Vault.write puts the file back, body and all ...
WriteBump(r) ==
  LET m == runner[r].memory  counted == {row.id : row \in Of(m, runner[r].window)} IN
  /\ runner[r].pc = "write"
  /\ vault' = [vault EXCEPT ![m] = runner[r].file]
  /\ times' = [id \in RowIds |-> IF id \in counted THEN times[id] + 1 ELSE times[id]]
  /\ settled' = settled \cup counted
  /\ runner' = [runner EXCEPT ![r].pc = "index"]
  /\ Beside /\ UNCHANGED <<rows, cursor, lock, broken>>

\* ... and Index.upsert follows.
IndexBump(r) ==
  /\ runner[r].pc = "index"
  /\ rows' = [rows EXCEPT ![runner[r].memory] = runner[r].file]
  /\ runner' = [runner EXCEPT ![r].pc = "apply", ![r].todo = @ \ {runner[r].memory}]
  /\ Beside /\ UNCHANGED <<vault, cursor, lock, times, settled, broken>>

\* Faulty variant: the cursor goes to the newest row there is.
StampNewest(r) ==
  /\ runner[r].pc = "apply" /\ runner[r].todo = {}
  /\ cursor' = lastId
  /\ runner' = [runner EXCEPT ![r].pc = "stamp"]
  /\ Beside /\ UNCHANGED <<vault, rows, lock, times, settled, broken>>

\* Faulty variant: a run without an update leaves the cursor.
StampIfBumped(r) ==
  /\ runner[r].pc = "apply" /\ runner[r].todo = {}
  /\ cursor' = IF \E m \in Memories : runner[r].proposed[m] > 0
               THEN runner[r].last ELSE cursor
  /\ runner' = [runner EXCEPT ![r].pc = "stamp"]
  /\ Beside /\ UNCHANGED <<vault, rows, lock, times, settled, broken>>

\* _write_cursor, with or without updates.
Stamp(r) ==
  /\ runner[r].pc = "apply" /\ runner[r].todo = {}
  /\ cursor' = runner[r].last
  /\ runner' = [runner EXCEPT ![r].pc = "stamp"]
  /\ Beside /\ UNCHANGED <<vault, rows, lock, times, settled, broken>>

\* last_run is set and the lock released.
ReleaseLock(r) ==
  /\ runner[r].pc = "stamp"
  /\ lock' = NoRunner
  /\ runner' = Ended(r)
  /\ Beside /\ UNCHANGED <<vault, rows, cursor, times, settled, broken>>

\* A read or a write raises, or the process dies, before the cursor; the lock is
\* released, or given up when it is old enough.
Break(r) ==
  /\ "break" \in Faults /\ runner[r].pc \in {"plan", "apply", "write", "index"}
  /\ Event
  /\ broken' = broken + 1
  /\ lock' = NoRunner
  /\ runner' = Ended(r)
  /\ UNCHANGED <<alive, log, lastId, spool, logger, calls, kept, entered, cut>>
  /\ UNCHANGED <<vault, rows, cursor, ingest, times, settled, outrun>>

Run(r) ==
  \/ TakeLock(r) \/ Plan(r) \/ WriteBump(r) \/ IndexBump(r) \/ Stamp(r) \/ ReleaseLock(r)
  \/ LockLater(r)
  \/ \E m \in Memories : Reread(r, m)

-----------------------------------------------------------------------------
(* The pipeline *)

\* What a step of the pipeline leaves alone.
Apart == UNCHANGED <<logVars, cursor, lock, runner, times, settled, broken, outrun>>

\* _build_frontmatter carries over what hygiene has written ...
StartIngest(m) ==
  /\ ingest.pc = "idle" /\ m \in alive \cap Sourced /\ vault[m].body < MaxIngests
  /\ ingest' = [pc |-> "write", memory |-> m, found |-> vault[m].importance,
                file |-> [vault[m] EXCEPT !.body = @ + 1]]
  /\ UNCHANGED <<vault, rows>> /\ Apart

\* ... and the file is written, then indexed.
WriteIngest ==
  /\ ingest.pc = "write"
  /\ vault' = [vault EXCEPT ![ingest.memory] = ingest.file]
  /\ ingest' = [ingest EXCEPT !.pc = "index"]
  /\ UNCHANGED rows /\ Apart

IndexIngest ==
  /\ ingest.pc = "index"
  /\ rows' = [rows EXCEPT ![ingest.memory] = ingest.file]
  /\ ingest' = NoIngest
  /\ UNCHANGED vault /\ Apart

\* A clean-up deprecates or expires a memory.
Hide(m) ==
  /\ "hide" \in Faults /\ m \in alive /\ ~vault[m].hidden
  /\ Event
  /\ vault' = [vault EXCEPT ![m].hidden = TRUE]
  /\ rows' = [rows EXCEPT ![m].hidden = TRUE]
  /\ UNCHANGED <<alive, log, lastId, spool, logger, calls, kept, entered, cut>>
  /\ UNCHANGED <<cursor, lock, runner, ingest, times, settled, broken, outrun>>

Next ==
  \/ LogNext /\ UNCHANGED stageVars
  \/ \E r \in Runners : Run(r) \/ PlanFirst(r) \/ Break(r)
  \/ \E m \in Memories : StartIngest(m) \/ Hide(m)
  \/ WriteIngest \/ IndexIngest

Spec == Init /\ [][Next]_vars

\* The loop polls for its stages for as long as the daemon runs; a command, once
\* started, goes on.
FairSpec == Spec /\ \A r \in Runners : WF_vars(Run(r))

-----------------------------------------------------------------------------
(* Properties *)

\* A row of the log raises its memory's importance once, and once more for
\* every run that broke before its cursor and for every plan that was applied
\* after another run: otherwise "re-running is idempotent" (cli.py:2746-2749).
CountedOnce == \A id \in RowIds : times[id] <= 1 + broken + outrun

\* The cursor passes no row by: every row at or below it that is still there
\* has been counted, or dismissed with its memory.
NonePassedOver ==
  \A row \in log : row.id <= cursor => row.id \in settled

\* Every row is passed by the cursor in the end, unless it is pruned or goes
\* with its memory: when the calls rest, no row is above the cursor.
RowsArePassed == <>[](Fresh = {})

=============================================================================

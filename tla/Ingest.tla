------------------------------- MODULE Ingest -------------------------------
(***************************************************************************)
(* From source files to memories: the ingest pipeline, the reconcile, and  *)
(* the sweeps that follow what happened to the files.                      *)
(*                                                                         *)
(* A source file is a ref; it holds one version of its text after another, *)
(* and may be removed and come back.  A record of it is processed by the   *)
(* reconcile thread or by the live drain, in steps that commit one by one: *)
(* the vault file, the row of `memories`, the row of `record_map`, the row *)
(* of `body_hash_index`.  A cycle of the reconcile walks all files, hides  *)
(* the memories whose files are gone, and deletes the rows whose vault     *)
(* file is gone.                                                           *)
(*                                                                         *)
(* Ids are handed out in order; 0 is no id.  A path is a number too: an id *)
(* for a memory with a file name of its own, or the Slot of the ref.  The  *)
(* queue a stored text goes to is in EmbedQueue.                           *)
(***************************************************************************)
EXTENDS Naturals, Sequences, FiniteSets

CONSTANTS
  Refs,        \* the source files of one root
  Sessions,    \* those that are transcripts; the others are authored
  Bodies,      \* normalized texts
  Noise,       \* the texts the noise filter drops
  Texts,       \* Texts[r]: the texts r holds one after another
  Slot,        \* Slot[r]: the path that r's type and name fix, 0 if its id does
  MaxIds,      \* bound on the ids handed out
  Threads,     \* "reconcile", and "live" for the drain of the watchers
  Watched,     \* the refs whose changes a watcher sees
  Fleeting,    \* the refs that may be removed
  ValveFloor,  \* losses that are never taken for a vanished root
  MaxEvents,   \* bound on removals, unmounts, forgotten files, errors, crashes
  Faults       \* which of "unmount", "forget", "crash", "fail", "overlap" may happen

Ids   == 1..MaxIds
Paths == Ids \cup ({Slot[r] : r \in Refs} \ {0})

ASSUME IngestAssumption ==
  /\ Sessions \subseteq Refs /\ Watched \subseteq Refs /\ Fleeting \subseteq Refs
  /\ IsFiniteSet(Refs) /\ Refs # {}
  /\ Noise \subseteq Bodies
  /\ Texts \in [Refs -> Seq(Bodies)] /\ \A r \in Refs : Texts[r] # << >>
  /\ MaxIds \in Nat /\ Slot \in [Refs -> Nat \ Ids]
  /\ "reconcile" \in Threads /\ Threads \subseteq {"reconcile", "live"}
  /\ ValveFloor \in Nat /\ MaxEvents \in Nat
  /\ Faults \subseteq {"unmount", "forget", "crash", "fail", "overlap"}

VARIABLES
  ver,      \* ver[r]: which of its texts file r holds, or held last
  there,    \* the refs whose file exists
  mounted,  \* the root of the source files is there
  signals,  \* the refs whose change a watcher has seen and not handed on
  vault,    \* vault[p]: the memory file at path p
  rows,     \* rows[m]: the row of `memories`
  map,      \* map[r]: the memory `record_map` names for r
  hash,     \* hash[b]: the memory `body_hash_index` names for text b
  minted,   \* ids handed out
  proc,     \* proc[t]: the record thread t is processing
  phase,    \* where the reconcile cycle is
  todo,     \* refs still to walk, or orphan mappings still to drop
  seen,     \* seen[r]: the authored memory the sweep has still to examine for r
  unsure,   \* refs about which the sweep may conclude nothing
  op,       \* the memory the sweep is hiding or showing
  doomed,   \* rows the prune pass found without a file
  torn,     \* history: memories indexed but not mapped when an error came
  events

fileVars   == <<ver, there, mounted>>
sourceVars == <<fileVars, signals>>
storeVars  == <<vault, rows, map, hash, minted>>
sweepVars  == <<phase, todo, seen, unsure, op, doomed>>
vars == <<sourceVars, storeVars, proc, sweepVars, torn, events>>

-----------------------------------------------------------------------------
(* Types *)

Types == {"authored", "session"}

File == [id : Ids \cup {0}, body : Bodies, type : Types, gone : BOOLEAN]
Row  == [path : Paths \cup {0}, body : Bodies, type : Types]

AnyBody == CHOOSE b \in Bodies : TRUE
NoFile  == [id |-> 0, body |-> AnyBody, type |-> "authored", gone |-> FALSE]
NoRow   == [path |-> 0, body |-> AnyBody, type |-> "authored"]

Stages == {"idle", "skip", "compare", "lookup", "match", "attach", "write", "index",
           "map", "note", "unmap", "count", "unfile", "drop"}

Proc == [pc : Stages, ref : Refs, body : Bodies, id : Ids \cup {0},
         path : Paths \cup {0}]

NoProc == [pc |-> "idle", ref |-> CHOOSE r \in Refs : TRUE, body |-> AnyBody,
           id |-> 0, path |-> 0]

\* gone: what deleted_at is to become; live: a ref of the memory is alive.
Op == [pc : {"idle", "read", "write", "index", "unmap"}, id : Ids \cup {0},
       gone : BOOLEAN, live : BOOLEAN, dead : SUBSET Refs, file : File,
       path : Paths \cup {0}]

NoOp == [pc |-> "idle", id |-> 0, gone |-> FALSE, live |-> FALSE, dead |-> {},
         file |-> NoFile, path |-> 0]

TypeOK ==
  /\ ver \in [Refs -> Nat \ {0}] /\ \A r \in Refs : ver[r] <= Len(Texts[r])
  /\ there \subseteq Refs
  /\ mounted \in BOOLEAN
  /\ signals \subseteq Watched
  /\ vault \in [Paths -> File]
  /\ rows \in [Ids -> Row]
  /\ map \in [Refs -> Ids \cup {0}]
  /\ hash \in [Bodies -> Ids \cup {0}]
  /\ minted \in 0..MaxIds
  /\ proc \in [Threads -> Proc]
  /\ \A t \in Threads :
       /\ proc[t].pc \notin {"idle", "skip", "lookup", "match"} => proc[t].id # 0
       /\ proc[t].pc \in {"index", "map", "note"} => proc[t].path # 0
  /\ phase \in {"rest", "walk", "sweep", "prune"}
  /\ todo \subseteq Refs
  /\ seen \in [Refs -> Ids \cup {0}]
  /\ unsure \subseteq Refs
  /\ op \in Op /\ (op.pc # "idle" => op.id # 0)
  /\ op.pc \in {"write", "index"} => op.file.id # 0 /\ op.path # 0
  /\ doomed \subseteq Ids
  /\ torn \subseteq Ids
  /\ events \in 0..MaxEvents

Init ==
  /\ ver = [r \in Refs |-> 1]
  /\ there = {}
  /\ mounted = TRUE
  /\ signals = {}
  /\ vault = [p \in Paths |-> NoFile]
  /\ rows = [m \in Ids |-> NoRow]
  /\ map = [r \in Refs |-> 0]
  /\ hash = [b \in Bodies |-> 0]
  /\ minted = 0
  /\ proc = [t \in Threads |-> NoProc]
  /\ phase = "rest"
  /\ todo = {}
  /\ seen = [r \in Refs |-> 0]
  /\ unsure = {}
  /\ op = NoOp
  /\ doomed = {}
  /\ torn = {}
  /\ events = 0

-----------------------------------------------------------------------------
(* Sources, index rows, threads *)

TypeOf(r) == IF r \in Sessions THEN "session" ELSE "authored"

Content(r) == Texts[r][ver[r]]

\* source_exists(ref)
Stat(r) == mounted /\ r \in there

Indexed(m) == m # 0 /\ rows[m].path # 0

\* The tables without the rows that belong to the memories in gone.
RowsWithout(gone) == [m \in Ids |-> IF m \in gone THEN NoRow ELSE rows[m]]
HashWithout(gone) == [b \in Bodies |-> IF hash[b] \in gone THEN 0 ELSE hash[b]]

\* Index.upsert: a row of another memory at this path is displaced.
Upsert(file, p) ==
  LET displaced == {m \in Ids \ {file.id} : rows[m].path = p} IN
  /\ rows' = [RowsWithout(displaced) EXCEPT
                ![file.id] = [path |-> p, body |-> file.body, type |-> file.type]]
  /\ hash' = HashWithout(displaced)

\* Index.delete
DeleteRows(m) ==
  /\ rows' = RowsWithout({m})
  /\ hash' = HashWithout({m})

Event == events < MaxEvents /\ events' = events + 1

Goto(t, stage) == proc' = [proc EXCEPT ![t].pc = stage]

Done(t) == proc' = [proc EXCEPT ![t] = NoProc]

\* More losses than max(10, half of all) are a vanished mount.
OverValve(n, total) == n > ValveFloor /\ n > total \div 2

Bound(r) == map[r] # 0 /\ Indexed(map[r]) /\ rows[map[r]].type = "authored"

-----------------------------------------------------------------------------
(* Pipeline.process: one record of file r, by thread t *)

\* The record holds the text the file has now.  The live drains share a lock;
\* nothing keeps the reconcile off a ref that a drain is processing.
Emit(t, r) ==
  /\ proc[t].pc = "idle"
  /\ Stat(r)
  /\ IF t = "reconcile" THEN phase = "walk" /\ r \in todo ELSE r \in signals
  /\ "overlap" \in Faults \/ \A u \in Threads : proc[u].pc # "idle" => proc[u].ref # r
  /\ proc' = [proc EXCEPT ![t] = [NoProc EXCEPT
                !.pc = IF t = "reconcile" THEN "skip" ELSE "lookup",
                !.ref = r, !.body = Content(r)]]
  /\ todo' = IF t = "reconcile" THEN todo \ {r} ELSE todo
  /\ signals' = IF t = "live" THEN signals \ {r} ELSE signals
  /\ UNCHANGED <<fileVars, storeVars, phase, seen, unsure, op, doomed, torn, events>>

\* What a step of process() leaves alone.
Elsewhere == UNCHANGED <<sourceVars, sweepVars, torn, events>>

\* _reconcile_skip_unchanged looks up the mapping ...
Skip(t) ==
  /\ proc[t].pc = "skip"
  /\ LET m == map[proc[t].ref] IN
     proc' = [proc EXCEPT ![t].id = m, ![t].pc = IF m = 0 THEN "lookup" ELSE "compare"]
  /\ UNCHANGED storeVars /\ Elsewhere

\* Faulty variant: a mapping is enough to skip.
CompareNothing(t) ==
  /\ proc[t].pc = "compare"
  /\ Done(t)
  /\ UNCHANGED storeVars /\ Elsewhere

\* ... and compares it with the memory that holds the text.
Compare(t) ==
  /\ proc[t].pc = "compare"
  /\ IF hash[proc[t].body] = proc[t].id THEN Done(t) ELSE Goto(t, "lookup")
  /\ UNCHANGED storeVars /\ Elsewhere

\* Noise is dropped, and takes a session's earlier version with it.
Lookup(t) ==
  LET m == map[proc[t].ref] IN
  /\ proc[t].pc = "lookup"
  /\ \/ /\ proc[t].body \in Noise
        /\ IF m # 0 /\ proc[t].ref \in Sessions
           THEN proc' = [proc EXCEPT ![t].id = m, ![t].pc = "unmap"]
           ELSE Done(t)
     \/ /\ proc[t].body \notin Noise
        /\ proc' = [proc EXCEPT ![t].id = m, ![t].pc = "match"]
  /\ UNCHANGED storeVars /\ Elsewhere

\* What becomes of a record whose text another memory holds: a new authored ref
\* is attached to that memory, a session with a memory of its own retires it,
\* and everything else is left as it is.
Duplicate(t, other) ==
  CASE proc[t].id = 0 /\ proc[t].ref \notin Sessions ->
         proc' = [proc EXCEPT ![t].id = other, ![t].pc = "attach"]
    [] proc[t].id # 0 /\ proc[t].ref \in Sessions -> Goto(t, "unmap")
    [] OTHER -> Done(t)

\* Faulty variant: a ref that has a memory is never a duplicate.
MatchNew(t) ==
  LET other == hash[proc[t].body]  own == proc[t].id IN
  /\ proc[t].pc = "match"
  /\ \/ other # 0 /\ own = 0 /\ Duplicate(t, other) /\ UNCHANGED minted
     \/ own # 0 /\ Goto(t, "write") /\ UNCHANGED minted
     \/ /\ other = 0 /\ own = 0
        /\ minted < MaxIds
        /\ minted' = minted + 1
        /\ proc' = [proc EXCEPT ![t].id = minted + 1, ![t].pc = "write"]
  /\ UNCHANGED <<vault, rows, map, hash>> /\ Elsewhere

\* find_memory_id_for_body_hash; a new text of a new ref gets a fresh id.
Match(t) ==
  LET other == hash[proc[t].body]  own == proc[t].id IN
  /\ proc[t].pc = "match"
  /\ \/ other \notin {0, own} /\ Duplicate(t, other) /\ UNCHANGED minted
     \/ other \in {0, own} /\ own # 0 /\ Goto(t, "write") /\ UNCHANGED minted
     \/ /\ other = 0 /\ own = 0
        /\ minted < MaxIds
        /\ minted' = minted + 1
        /\ proc' = [proc EXCEPT ![t].id = minted + 1, ![t].pc = "write"]
  /\ UNCHANGED <<vault, rows, map, hash>> /\ Elsewhere

Attach(t) ==
  /\ proc[t].pc = "attach"
  /\ map' = [map EXCEPT ![proc[t].ref] = proc[t].id]
  /\ Done(t)
  /\ UNCHANGED <<vault, rows, hash, minted>> /\ Elsewhere

\* A memory that has its file keeps its path.
PathFor(r, m) ==
  IF Indexed(m) /\ vault[rows[m].path] # NoFile THEN rows[m].path
  ELSE IF Slot[r] = 0 THEN m ELSE Slot[r]

FileOf(t) == [id |-> proc[t].id, body |-> proc[t].body, type |-> TypeOf(proc[t].ref),
              gone |-> FALSE]

\* Faulty variant: a file that is there is not written again.
WriteOnce(t) ==
  LET p == PathFor(proc[t].ref, proc[t].id) IN
  /\ proc[t].pc = "write"
  /\ vault' = IF vault[p] = NoFile THEN [vault EXCEPT ![p] = FileOf(t)] ELSE vault
  /\ proc' = [proc EXCEPT ![t].path = p, ![t].pc = "index"]
  /\ UNCHANGED <<rows, map, hash, minted>> /\ Elsewhere

\* Vault.write; _build_frontmatter carries no deleted_at over.
Write(t) ==
  LET p == PathFor(proc[t].ref, proc[t].id) IN
  /\ proc[t].pc = "write"
  /\ vault' = [vault EXCEPT ![p] = FileOf(t)]
  /\ proc' = [proc EXCEPT ![t].path = p, ![t].pc = "index"]
  /\ UNCHANGED <<rows, map, hash, minted>> /\ Elsewhere

IndexRecord(t) ==
  /\ proc[t].pc = "index"
  /\ Upsert(FileOf(t), proc[t].path)
  /\ Goto(t, "map")
  /\ UNCHANGED <<vault, map, minted>> /\ Elsewhere

RecordMapping(t) ==
  /\ proc[t].pc = "map"
  /\ map' = [map EXCEPT ![proc[t].ref] = proc[t].id]
  /\ Goto(t, "note")
  /\ UNCHANGED <<vault, rows, hash, minted>> /\ Elsewhere

\* Faulty variant: the memory's other texts are not forgotten.
NoteHashOnly(t) ==
  LET m == proc[t].id  b == proc[t].body IN
  /\ proc[t].pc = "note"
  /\ hash' = IF Indexed(m) /\ hash[b] = 0 THEN [hash EXCEPT ![b] = m] ELSE hash
  /\ Done(t)
  /\ UNCHANGED <<vault, rows, map, minted>> /\ Elsewhere

\* record_body_hash: the memory's other texts are forgotten, and this one is
\* its own unless another memory holds it; without a row of `memories` the
\* foreign key ends the call.
NoteHash(t) ==
  LET m == proc[t].id  b == proc[t].body IN
  /\ proc[t].pc = "note"
  /\ hash' = IF Indexed(m)
             THEN [HashWithout({m}) EXCEPT ![b] = IF hash[b] = 0 THEN m ELSE hash[b]]
             ELSE hash
  /\ Done(t)
  /\ UNCHANGED <<vault, rows, map, minted>> /\ Elsewhere

-----------------------------------------------------------------------------
(* _retire_superseded_session *)

Unmap(t) ==
  /\ proc[t].pc = "unmap"
  /\ map' = [map EXCEPT ![proc[t].ref] = 0]
  /\ Goto(t, "count")
  /\ UNCHANGED <<vault, rows, hash, minted>> /\ Elsewhere

Count(t) ==
  /\ proc[t].pc = "count"
  /\ IF \E r \in Refs : map[r] = proc[t].id THEN Done(t) ELSE Goto(t, "unfile")
  /\ UNCHANGED storeVars /\ Elsewhere

\* The vault file goes if it still names the memory.
Unfile(t) ==
  LET m == proc[t].id IN
  /\ proc[t].pc = "unfile"
  /\ vault' = IF Indexed(m) /\ vault[rows[m].path].id = m
              THEN [vault EXCEPT ![rows[m].path] = NoFile] ELSE vault
  /\ Goto(t, "drop")
  /\ UNCHANGED <<rows, map, hash, minted>> /\ Elsewhere

Drop(t) ==
  /\ proc[t].pc = "drop"
  /\ DeleteRows(proc[t].id)
  /\ Done(t)
  /\ UNCHANGED <<vault, map, minted>> /\ Elsewhere

Process(t) ==
  \/ Skip(t) \/ Compare(t) \/ Lookup(t) \/ Match(t) \/ Attach(t) \/ Write(t)
  \/ IndexRecord(t) \/ RecordMapping(t) \/ NoteHash(t)
  \/ Unmap(t) \/ Count(t) \/ Unfile(t) \/ Drop(t)

-----------------------------------------------------------------------------
(* A cycle of the reconcile thread: walk, sweep, prune *)

\* What a step of the sweep or the prune leaves alone.
Outside == UNCHANGED <<sourceVars, proc, torn, events>>

BeginCycle ==
  /\ phase = "rest"
  /\ phase' = "walk"
  /\ todo' = Refs
  /\ UNCHANGED <<storeVars, seen, unsure, op, doomed>> /\ Outside

\* The walk meets no file.
PassBy(r) ==
  /\ phase = "walk" /\ r \in todo /\ ~Stat(r)
  /\ todo' = todo \ {r}
  /\ UNCHANGED <<storeVars, phase, seen, unsure, op, doomed>> /\ Outside

\* Faulty variant: the valve has no floor.
SweepScanFloorless ==
  LET bound == {r \in Refs : Bound(r)}
      lost  == {r \in bound : ~Stat(r)}
      blocked == ~mounted \/ 2 * Cardinality(lost) > Cardinality(bound)
  IN
  /\ phase = "walk" /\ todo = {} /\ proc["reconcile"].pc = "idle"
  /\ phase' = "sweep"
  /\ todo' = {r \in Refs : map[r] # 0 /\ ~Indexed(map[r])}
  /\ seen' = [r \in Refs |-> IF r \in bound THEN map[r] ELSE 0]
  /\ unsure' = IF blocked THEN lost ELSE {}
  /\ UNCHANGED <<storeVars, op, doomed>> /\ Outside

\* _sweep_deleted_sources reads all mappings and classifies the authored ones:
\* a lost file of a root that is there is dead, unless the valve blocks the
\* root; mappings to no memory are orphans.
SweepScan ==
  LET bound == {r \in Refs : Bound(r)}
      lost  == {r \in bound : ~Stat(r)}
      blocked == ~mounted \/ OverValve(Cardinality(lost), Cardinality(bound))
  IN
  /\ phase = "walk" /\ todo = {} /\ proc["reconcile"].pc = "idle"
  /\ phase' = "sweep"
  /\ todo' = {r \in Refs : map[r] # 0 /\ ~Indexed(map[r])}
  /\ seen' = [r \in Refs |-> IF r \in bound THEN map[r] ELSE 0]
  /\ unsure' = IF blocked THEN lost ELSE {}
  /\ UNCHANGED <<storeVars, op, doomed>> /\ Outside

DropOrphan(r) ==
  /\ phase = "sweep" /\ r \in todo
  /\ map' = [map EXCEPT ![r] = 0]
  /\ todo' = todo \ {r}
  /\ UNCHANGED <<vault, rows, hash, minted, phase, seen, unsure, op, doomed>> /\ Outside

Of(m) == {r \in Refs : seen[r] = m}

\* Faulty variant: the mappings go first, and nothing is left to hide.
ExamineUnmaps(m) ==
  LET live == {r \in Of(m) \ unsure : Stat(r)} IN
  /\ phase = "sweep" /\ todo = {} /\ op.pc = "idle"
  /\ Of(m) # {}
  /\ op' = [NoOp EXCEPT !.pc = "unmap", !.id = m, !.live = (live # {}),
                        !.dead = (Of(m) \ unsure) \ live]
  /\ seen' = [r \in Refs |-> IF seen[r] = m THEN 0 ELSE seen[r]]
  /\ UNCHANGED <<storeVars, phase, todo, unsure, doomed>> /\ Outside

\* The refs are looked at again.  With all of them gone the memory is hidden and
\* then its mappings dropped; otherwise the dead mappings go, and a live ref
\* shows the memory again.
Examine(m) ==
  LET live == {r \in Of(m) \ unsure : Stat(r)}
      dead == (Of(m) \ unsure) \ live
      lost == dead # {} /\ dead = Of(m)
  IN
  /\ phase = "sweep" /\ todo = {} /\ op.pc = "idle"
  /\ Of(m) # {}
  /\ op' = [NoOp EXCEPT !.pc = IF lost THEN "read" ELSE "unmap", !.id = m, !.gone = lost,
                        !.live = (live # {}), !.dead = dead]
  /\ seen' = [r \in Refs |-> IF seen[r] = m THEN 0 ELSE seen[r]]
  /\ UNCHANGED <<storeVars, phase, todo, unsure, doomed>> /\ Outside

\* _set_source_tombstone reads the file, unless it is missing or as wanted ...
ReadFile ==
  LET p == rows[op.id].path IN
  /\ op.pc = "read"
  /\ op' = IF p = 0 \/ vault[p] = NoFile \/ vault[p].gone = op.gone THEN NoOp
           ELSE [op EXCEPT !.pc = "write", !.file = [vault[p] EXCEPT !.gone = op.gone],
                           !.path = p]
  /\ UNCHANGED <<storeVars, phase, todo, seen, unsure, doomed>> /\ Outside

\* ... writes it back, body and all, with the other deleted_at ...
WriteFile ==
  /\ op.pc = "write"
  /\ vault' = [vault EXCEPT ![op.path] = op.file]
  /\ op' = [op EXCEPT !.pc = "index"]
  /\ UNCHANGED <<rows, map, hash, minted, phase, todo, seen, unsure, doomed>> /\ Outside

\* ... and indexes it.
IndexFile ==
  /\ op.pc = "index"
  /\ Upsert(op.file, op.path)
  /\ op' = IF op.gone THEN [op EXCEPT !.pc = "unmap"] ELSE NoOp
  /\ UNCHANGED <<vault, map, minted, phase, todo, seen, unsure, doomed>> /\ Outside

UnmapDead(r) ==
  /\ op.pc = "unmap" /\ r \in op.dead
  /\ map' = [map EXCEPT ![r] = 0]
  /\ op' = [op EXCEPT !.dead = @ \ {r}]
  /\ UNCHANGED <<vault, rows, hash, minted, phase, todo, seen, unsure, doomed>> /\ Outside

\* Faulty variant: what was hidden stays hidden.
UnmapDoneForGood ==
  /\ op.pc = "unmap" /\ op.dead = {}
  /\ op' = NoOp
  /\ UNCHANGED <<storeVars, phase, todo, seen, unsure, doomed>> /\ Outside

UnmapDone ==
  /\ op.pc = "unmap" /\ op.dead = {}
  /\ op' = IF ~op.gone /\ op.live THEN [op EXCEPT !.pc = "read"] ELSE NoOp
  /\ UNCHANGED <<storeVars, phase, todo, seen, unsure, doomed>> /\ Outside

Missing == {m \in Ids : Indexed(m) /\ vault[rows[m].path] = NoFile}

\* So many memory files are lost that the prune pass takes the vault for gone.
VaultLoss == OverValve(Cardinality(Missing), Cardinality({m \in Ids : Indexed(m)}))

\* _prune_deleted_vault_files, with the same valve.
PruneScan ==
  /\ phase = "sweep" /\ todo = {} /\ op.pc = "idle" /\ \A r \in Refs : seen[r] = 0
  /\ phase' = "prune"
  /\ unsure' = {}
  /\ doomed' = IF VaultLoss THEN {} ELSE Missing
  /\ UNCHANGED <<storeVars, todo, seen, op>> /\ Outside

PruneRow(m) ==
  /\ phase = "prune" /\ m \in doomed
  /\ DeleteRows(m)
  /\ doomed' = doomed \ {m}
  /\ UNCHANGED <<vault, map, minted, phase, todo, seen, unsure, op>> /\ Outside

EndCycle ==
  /\ phase = "prune" /\ doomed = {}
  /\ phase' = "rest"
  /\ UNCHANGED <<storeVars, todo, seen, unsure, op, doomed>> /\ Outside

Reconcile ==
  \/ BeginCycle \/ SweepScan \/ ReadFile \/ WriteFile \/ IndexFile \/ UnmapDone
  \/ PruneScan \/ EndCycle
  \/ \E r \in Refs : Emit("reconcile", r) \/ PassBy(r) \/ DropOrphan(r) \/ UnmapDead(r)
  \/ \E m \in Ids : Examine(m) \/ PruneRow(m)

-----------------------------------------------------------------------------
(* What happens to the files and to the daemon *)

Still == UNCHANGED <<storeVars, proc, sweepVars, torn>>

\* A watcher may see a change, or miss it.
Seen(r) == signals' = signals \/ (r \in Watched /\ signals' = signals \cup {r})

\* Somebody saves the file with its next text, or puts it back as it was.
Save(r) ==
  /\ mounted /\ ver[r] < Len(Texts[r])
  /\ ver' = [ver EXCEPT ![r] = @ + 1]
  /\ there' = there \cup {r}
  /\ Seen(r)
  /\ UNCHANGED <<mounted, events>> /\ Still

Restore(r) ==
  /\ mounted /\ r \notin there
  /\ there' = there \cup {r}
  /\ Seen(r)
  /\ UNCHANGED <<ver, mounted, events>> /\ Still

Remove(r) ==
  /\ mounted /\ r \in there \cap Fleeting
  /\ Event
  /\ there' = there \ {r}
  /\ UNCHANGED <<ver, mounted, signals>> /\ Still

Unmount ==
  /\ "unmount" \in Faults /\ mounted
  /\ Event
  /\ mounted' = FALSE
  /\ UNCHANGED <<ver, there, signals>> /\ Still

Remount ==
  /\ ~mounted
  /\ mounted' = TRUE
  /\ UNCHANGED <<ver, there, signals, events>> /\ Still

\* Somebody deletes a memory's file.
Forget(p) ==
  /\ "forget" \in Faults /\ vault[p] # NoFile
  /\ Event
  /\ vault' = [vault EXCEPT ![p] = NoFile]
  /\ UNCHANGED <<sourceVars, rows, map, hash, minted, proc, sweepVars, torn>>

\* Indexed by a thread of failed, but not mapped.
TornBy(failed) == torn \cup {proc[t].id : t \in {u \in failed : proc[u].pc = "map"}}

\* A read, a write or a transaction fails: the record is given up ...
Fail(t) ==
  /\ "fail" \in Faults /\ proc[t].pc # "idle"
  /\ Event
  /\ torn' = TornBy({t})
  /\ Done(t)
  /\ UNCHANGED <<sourceVars, storeVars, sweepVars>>

NoSweep ==
  /\ phase' = "rest" /\ todo' = {} /\ seen' = [r \in Refs |-> 0]
  /\ unsure' = {} /\ op' = NoOp /\ doomed' = {}

\* ... or the rest of the cycle is.
FailSweep ==
  /\ "fail" \in Faults /\ phase \in {"sweep", "prune"}
  /\ Event
  /\ NoSweep
  /\ UNCHANGED <<sourceVars, storeVars, proc, torn>>

\* The daemon dies and is started again.
Crash ==
  /\ "crash" \in Faults
  /\ Event
  /\ torn' = TornBy(Threads)
  /\ proc' = [t \in Threads |-> NoProc]
  /\ NoSweep
  /\ signals' = {}
  /\ UNCHANGED <<fileVars, storeVars>>

Next ==
  \/ \E t \in Threads : Process(t) \/ Fail(t)
  \/ Reconcile
  \/ \E r \in Refs : Save(r) \/ Restore(r) \/ Remove(r)
  \/ "live" \in Threads /\ \E r \in Watched : Emit("live", r)
  \/ Unmount \/ Remount \/ FailSweep \/ Crash
  \/ \E p \in Paths : Forget(p)

Spec == Init /\ [][Next]_vars

\* The threads go on and the cycle comes round again; a watcher may miss every
\* change, and neither files nor mounts need come back.
Fairness == WF_vars(Reconcile) /\ \A t \in Threads : WF_vars(Process(t))

FairSpec == Spec /\ Fairness

-----------------------------------------------------------------------------
(* Properties *)

Busy(m) == op.id = m \/ \E t \in Threads : proc[t].pc # "idle" /\ proc[t].id = m

Settled(r) == \A t \in Threads : proc[t].pc # "idle" => proc[t].ref # r

\* m can be found by a search: its row leads to its file, which is not hidden.
Shown(m) ==
  /\ Indexed(m)
  /\ vault[rows[m].path] # NoFile
  /\ vault[rows[m].path].id = m /\ ~vault[rows[m].path].gone

Authored(m) == Indexed(m) /\ rows[m].type = "authored"

\* No authored memory is both visible and out of the sweep's reach, for want of
\* a mapping; only an error between the two rows of one record leaves such a
\* memory (cli.py:1621-1624).
NeverStranded ==
  \A m \in Ids :
    Authored(m) /\ Shown(m) /\ ~Busy(m) /\ m \notin torn => \E r \in Refs : map[r] = m

\* The reconcile skips a record only when "identical content is already stored"
\* (cli.py:1420-1424): a memory that holds the text by its hash row has it in
\* its file and its row.
SkippedIsStored ==
  \A r \in Refs :
    LET m == map[r] IN
    /\ Indexed(m) /\ ~Busy(m) /\ Settled(r)
    /\ hash[Content(r)] = m /\ vault[rows[m].path] # NoFile
    => vault[rows[m].path].body = Content(r) /\ rows[m].body = Content(r)

\* A text is in the vault, in the index, and not hidden.
Findable(b) == \E m \in Ids : Shown(m) /\ rows[m].body = b /\ vault[rows[m].path].body = b

\* Once the files rest, every file's text can be found, whatever the watchers
\* missed (cli.py:1817-1823).
KeepsLive ==
  \A r \in Refs :
    <>[](Stat(r) /\ Content(r) \notin Noise /\ ~VaultLoss => Findable(Content(r)))

\* One text is stored once: no two memories with the same text are shown, when
\* no record is under way (pipeline.py:259-263).
StoredOnce ==
  \A m, n \in Ids :
    /\ m # n /\ Shown(m) /\ Shown(n) /\ ~Busy(m) /\ ~Busy(n)
    => rows[m].body # rows[n].body

\* So many mapped files are lost that the valve stays shut.
MassLoss ==
  LET bound == {r \in Refs : Bound(r)} IN
  OverValve(Cardinality({r \in bound : ~Stat(r)}), Cardinality(bound))

\* Once the files rest, an authored memory is shown only while a file of its
\* own is there.
HidesGone ==
  \A m \in Ids :
    <>[](Authored(m) /\ Shown(m) /\ m \notin torn /\ mounted /\ ~MassLoss =>
           \E r \in Refs : map[r] = m /\ Stat(r))
=============================================================================

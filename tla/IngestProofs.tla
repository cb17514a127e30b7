---------------------------- MODULE IngestProofs ----------------------------
(***************************************************************************)
(* What holds of Ingest for any number of source files, texts, threads     *)
(* and ids, and under every fault that a theorem does not name.            *)
(***************************************************************************)
EXTENDS Ingest, FiniteSetTheorems, TLAPS

-----------------------------------------------------------------------------
(* Types *)

\* A record under way has what its stage needs.
ProcOK(job) ==
  /\ job \in Proc
  /\ job.pc \notin {"idle", "skip", "lookup", "match"} => job.id # 0
  /\ job.pc \in {"index", "map", "note"} => job.path # 0

OpOK(o) ==
  /\ o \in Op /\ (o.pc # "idle" => o.id # 0)
  /\ o.pc \in {"write", "index"} => o.file.id # 0 /\ o.path # 0

SourceTyped ==
  /\ ver \in [Refs -> Nat \ {0}] /\ \A r \in Refs : ver[r] <= Len(Texts[r])
  /\ there \subseteq Refs /\ mounted \in BOOLEAN /\ signals \subseteq Watched

\* A file that is there names a memory.
StoreTyped ==
  /\ vault \in [Paths -> File] /\ \A p \in Paths : vault[p] = NoFile \/ vault[p].id # 0
  /\ rows \in [Ids -> Row] /\ map \in [Refs -> Ids \cup {0}]
  /\ hash \in [Bodies -> Ids \cup {0}] /\ minted \in 0..MaxIds

ProcsTyped == proc \in [Threads -> Proc] /\ \A t \in Threads : ProcOK(proc[t])

SweepTyped ==
  /\ phase \in {"rest", "walk", "sweep", "prune"} /\ todo \subseteq Refs
  /\ seen \in [Refs -> Ids \cup {0}] /\ unsure \subseteq Refs
  /\ OpOK(op) /\ doomed \subseteq Ids

TypeInv ==
  /\ SourceTyped /\ StoreTyped /\ ProcsTyped /\ SweepTyped
  /\ torn \subseteq Ids /\ events \in 0..MaxEvents

LEMMA Constants ==
  /\ Ids \subseteq Nat \ {0} /\ 0 \notin Ids
  /\ Ids \subseteq Paths /\ Paths \subseteq Nat \ {0} /\ 0 \notin Paths
  /\ \A r \in Refs : Slot[r] \in Nat \ Ids /\ (Slot[r] # 0 => Slot[r] \in Paths)
  /\ AnyBody \in Bodies /\ (CHOOSE r \in Refs : TRUE) \in Refs
<1>1. PICK r \in Refs : TRUE
  BY IngestAssumption
<1>2. Texts[r] \in Seq(Bodies) /\ Texts[r] # << >>
  BY IngestAssumption
<1>3. Texts[r][1] \in Bodies
  BY <1>2
<1>4. AnyBody \in Bodies
  BY <1>3 DEF AnyBody
<1>5. (CHOOSE q \in Refs : TRUE) \in Refs
  BY <1>1
<1> QED BY <1>4, <1>5, IngestAssumption DEF Ids, Paths

LEMMA Values ==
  /\ NoFile \in File /\ NoFile.id = 0 /\ NoRow \in Row /\ NoRow.path = 0
  /\ NoProc \in Proc /\ NoProc.pc = "idle" /\ NoProc.id = 0 /\ NoProc.path = 0
  /\ NoOp \in Op /\ NoOp.pc = "idle"
BY Constants DEF NoFile, File, NoRow, Row, NoProc, Proc, Stages, NoOp, Op, Types

LEMMA ContentTyped ==
  ASSUME SourceTyped, NEW r \in Refs
  PROVE  Content(r) \in Bodies /\ \E i \in DOMAIN Texts[r] : Content(r) = Texts[r][i]
<1>1. Texts[r] \in Seq(Bodies) /\ ver[r] \in Nat \ {0} /\ ver[r] <= Len(Texts[r])
  BY IngestAssumption DEF SourceTyped
<1>2. ver[r] \in 1..Len(Texts[r])
  BY <1>1
<1> QED BY <1>1, <1>2 DEF Content

LEMMA FileOfTyped ==
  ASSUME TypeInv, NEW t \in Threads
  PROVE  /\ FileOf(t) \in File /\ FileOf(t).id = proc[t].id /\ FileOf(t).body = proc[t].body
         /\ FileOf(t).type = TypeOf(proc[t].ref) /\ ~ FileOf(t).gone
BY DEF TypeInv, ProcsTyped, Proc, FileOf, File, TypeOf, Types

LEMMA IndexedPath ==
  ASSUME StoreTyped, NEW m \in Ids, Indexed(m)
  PROVE  rows[m].path \in Paths
BY DEF StoreTyped, Row, Indexed

LEMMA PathForTyped ==
  ASSUME StoreTyped, NEW r \in Refs, NEW m \in Ids
  PROVE  PathFor(r, m) \in Paths
BY Constants, IndexedPath DEF PathFor

LEMMA TablesWithout ==
  ASSUME StoreTyped, NEW gone
  PROVE  /\ RowsWithout(gone) \in [Ids -> Row]
         /\ \A m \in Ids : RowsWithout(gone)[m] = IF m \in gone THEN NoRow ELSE rows[m]
         /\ HashWithout(gone) \in [Bodies -> Ids \cup {0}]
         /\ \A b \in Bodies : HashWithout(gone)[b] = IF hash[b] \in gone THEN 0 ELSE hash[b]
BY Values DEF StoreTyped, RowsWithout, HashWithout

\* What Index.upsert makes of the tables.
LEMMA UpsertTables ==
  ASSUME StoreTyped, NEW file \in File, file.id # 0, NEW p \in Paths, Upsert(file, p)
  PROVE  /\ rows' \in [Ids -> Row] /\ hash' \in [Bodies -> Ids \cup {0}]
         /\ rows'[file.id] = [path |-> p, body |-> file.body, type |-> file.type]
         /\ \A m \in Ids \ {file.id} : rows'[m] = IF rows[m].path = p THEN NoRow ELSE rows[m]
         /\ \A b \in Bodies :
              \/ hash'[b] = hash[b] /\ (hash[b] \in Ids \ {file.id} => rows[hash[b]].path # p)
              \/ hash'[b] = 0
<1> DEFINE displaced == {m \in Ids \ {file.id} : rows[m].path = p}
           row == [path |-> p, body |-> file.body, type |-> file.type]
<1>1. /\ rows' = [RowsWithout(displaced) EXCEPT ![file.id] = row]
      /\ hash' = HashWithout(displaced)
  BY DEF Upsert
<1>2. file.id \in Ids /\ row \in Row
  BY DEF File, Row
<1> HIDE DEF row
<1>3. /\ RowsWithout(displaced) \in [Ids -> Row]
      /\ \A m \in Ids : RowsWithout(displaced)[m] = IF m \in displaced THEN NoRow ELSE rows[m]
      /\ HashWithout(displaced) \in [Bodies -> Ids \cup {0}]
      /\ \A b \in Bodies : HashWithout(displaced)[b] = IF hash[b] \in displaced THEN 0 ELSE hash[b]
  BY TablesWithout
<1> QED BY <1>1, <1>2, <1>3 DEF row

LEMMA ProcStep ==
  ASSUME ProcsTyped, NEW t \in Threads, NEW job, ProcOK(job), proc' = [proc EXCEPT ![t] = job]
  PROVE  ProcsTyped'
<1>1. proc' \in [Threads -> Proc]
  BY DEF ProcsTyped, ProcOK
<1>2. \A u \in Threads : ProcOK(proc'[u])
  BY DEF ProcsTyped
<1> QED BY <1>1, <1>2 DEF ProcsTyped, ProcOK

LEMMA DoneTypes ==
  ASSUME ProcsTyped, NEW t \in Threads, Done(t)
  PROVE  ProcsTyped'
BY Values, ProcStep DEF Done, ProcOK

LEMMA GotoTypes ==
  ASSUME ProcsTyped, NEW t \in Threads, NEW stage \in Stages, Goto(t, stage),
         stage \notin {"idle", "skip", "lookup", "match"} => proc[t].id # 0,
         stage \in {"index", "map", "note"} => proc[t].path # 0
  PROVE  ProcsTyped'
<1> DEFINE job == [proc[t] EXCEPT !.pc = stage]
<1>1. proc[t] \in Proc /\ proc' = [proc EXCEPT ![t] = job]
  BY DEF Goto, ProcsTyped
<1>2. job \in Proc /\ job.pc = stage /\ job.id = proc[t].id /\ job.path = proc[t].path
  BY <1>1 DEF Proc
<1> HIDE DEF job
<1> QED BY <1>1, <1>2, ProcStep DEF ProcOK

LEMMA EmitTypes ==
  ASSUME TypeInv, NEW t \in Threads, NEW r \in Refs, Emit(t, r)
  PROVE  TypeInv'
<1> DEFINE job == [NoProc EXCEPT !.pc = IF t = "reconcile" THEN "skip" ELSE "lookup",
                                 !.ref = r, !.body = Content(r)]
<1>1. proc' = [proc EXCEPT ![t] = job] /\ Content(r) \in Bodies
  BY ContentTyped DEF Emit, TypeInv
<1>2. ProcOK(job)
  BY <1>1, Values DEF ProcOK, Proc, Stages
<1> HIDE DEF job
<1>3. ProcsTyped'
  BY <1>1, <1>2, ProcStep DEF TypeInv
<1>4. SourceTyped' /\ StoreTyped' /\ torn' \subseteq Ids /\ events' \in 0..MaxEvents
  BY DEF TypeInv, Emit, SourceTyped, StoreTyped, fileVars, storeVars
<1>5. SweepTyped'
  BY DEF TypeInv, Emit, SweepTyped
<1> QED BY <1>3, <1>4, <1>5 DEF TypeInv

\* The id and the stage of a record change together.
LEMMA ProcWith ==
  ASSUME ProcsTyped, NEW t \in Threads, NEW id \in Ids \cup {0}, NEW stage \in Stages,
         stage \notin {"idle", "skip", "lookup", "match"} => id # 0,
         stage \in {"index", "map", "note"} => proc[t].path # 0,
         proc' = [proc EXCEPT ![t].id = id, ![t].pc = stage]
  PROVE  ProcsTyped'
<1> DEFINE job == [proc[t] EXCEPT !.id = id, !.pc = stage]
<1>1. proc[t] \in Proc /\ proc' = [proc EXCEPT ![t] = job]
  BY DEF ProcsTyped
<1>2. job \in Proc /\ job.pc = stage /\ job.id = id /\ job.path = proc[t].path
  BY <1>1 DEF Proc
<1> HIDE DEF job
<1> QED BY <1>1, <1>2, ProcStep DEF ProcOK

LEMMA MatchTypes ==
  ASSUME TypeInv, NEW t \in Threads, Match(t)
  PROVE  ProcsTyped' /\ StoreTyped'
<1> DEFINE other == hash[proc[t].body]
<1>1. proc[t] \in Proc /\ ProcsTyped /\ StoreTyped /\ other \in Ids \cup {0}
  BY DEF TypeInv, ProcsTyped, StoreTyped, Proc
<1>2. {"attach", "unmap", "write"} \subseteq Stages
  BY DEF Stages
<1>3. CASE other \notin {0, proc[t].id} /\ Duplicate(t, other) /\ UNCHANGED minted
  <2>1. StoreTyped'
    BY <1>3 DEF Match, TypeInv, StoreTyped
  <2>2. CASE Done(t)
    BY <1>1, <2>1, <2>2, DoneTypes
  <2>3. CASE Goto(t, "unmap") /\ proc[t].id # 0
    BY <1>1, <1>2, <2>1, <2>3, GotoTypes
  <2>4. CASE proc' = [proc EXCEPT ![t].id = other, ![t].pc = "attach"]
    <3>1. other # 0
      BY <1>3
    <3> HIDE DEF other
    <3>2. ProcsTyped'
      BY <1>1, <1>2, <2>4, <3>1, ProcWith
    <3> QED BY <2>1, <3>2
  <2>5. \/ Done(t)
        \/ Goto(t, "unmap") /\ proc[t].id # 0
        \/ proc' = [proc EXCEPT ![t].id = other, ![t].pc = "attach"]
    BY <1>3 DEF Duplicate
  <2> QED BY <2>2, <2>3, <2>4, <2>5
<1>4. CASE proc[t].id # 0 /\ Goto(t, "write") /\ UNCHANGED minted
  <2>1. StoreTyped'
    BY <1>4 DEF Match, TypeInv, StoreTyped
  <2> QED BY <1>1, <1>2, <1>4, <2>1, GotoTypes
<1>5. CASE /\ minted < MaxIds /\ minted' = minted + 1
           /\ proc' = [proc EXCEPT ![t].id = minted + 1, ![t].pc = "write"]
  <2>1. minted + 1 \in Ids /\ minted + 1 \in 0..MaxIds
    BY <1>1, <1>5, IngestAssumption DEF StoreTyped, Ids
  <2>2. StoreTyped'
    BY <1>5, <2>1 DEF Match, TypeInv, StoreTyped
  <2>3. minted + 1 # 0
    BY <2>1, Constants
  <2> QED BY <1>1, <1>2, <1>5, <2>1, <2>2, <2>3, ProcWith
<1> QED BY <1>3, <1>4, <1>5 DEF Match

LEMMA ProcessTypes ==
  ASSUME TypeInv, NEW t \in Threads, Process(t)
  PROVE  TypeInv'
<1> DEFINE job == proc[t]
<1>1. /\ ProcsTyped /\ StoreTyped /\ job \in Proc /\ ProcOK(job)
      /\ job.id \in Ids \cup {0} /\ job.ref \in Refs /\ job.body \in Bodies
      /\ job.path \in Paths \cup {0}
  BY DEF TypeInv, ProcsTyped, Proc
<1>2. Stages = {"idle", "skip", "compare", "lookup", "match", "attach", "write", "index",
                "map", "note", "unmap", "count", "unfile", "drop"}
  BY DEF Stages
<1>3. SourceTyped' /\ SweepTyped' /\ torn' \subseteq Ids /\ events' \in 0..MaxEvents
  <2>1. Elsewhere
    BY DEF Process, Skip, Compare, Lookup, Match, Attach, Write, IndexRecord, RecordMapping,
           NoteHash, Unmap, Count, Unfile, Drop
  <2> QED BY <2>1 DEF Elsewhere, TypeInv, SourceTyped, SweepTyped, sourceVars, fileVars, sweepVars
<1> SUFFICES ProcsTyped' /\ StoreTyped'
  BY <1>3 DEF TypeInv
<1>4. CASE Skip(t)
  <2>1. map[job.ref] \in Ids \cup {0} /\ StoreTyped'
    BY <1>1, <1>4 DEF Skip, StoreTyped, storeVars
  <2> DEFINE stage == IF map[job.ref] = 0 THEN "lookup" ELSE "compare"
  <2>2. proc' = [proc EXCEPT ![t].id = map[job.ref], ![t].pc = stage] /\ stage \in Stages
    BY <1>2, <1>4 DEF Skip
  <2>3. stage \notin {"idle", "skip", "lookup", "match"} => map[job.ref] # 0
    OBVIOUS
  <2>4. stage \notin {"index", "map", "note"}
    OBVIOUS
  <2> HIDE DEF stage
  <2>5. ProcsTyped'
    BY <1>1, <2>1, <2>2, <2>3, <2>4, ProcWith
  <2> QED BY <2>1, <2>5
<1>5. CASE Compare(t)
  <2>1. StoreTyped'
    BY <1>1, <1>5 DEF Compare, StoreTyped, storeVars
  <2> QED BY <1>1, <1>2, <1>5, <2>1, DoneTypes, GotoTypes DEF Compare
<1>6. CASE Lookup(t)
  <2>1. map[job.ref] \in Ids \cup {0} /\ StoreTyped'
    BY <1>1, <1>6 DEF Lookup, StoreTyped, storeVars
  <2>2. CASE map[job.ref] # 0 /\ proc' = [proc EXCEPT ![t].id = map[job.ref], ![t].pc = "unmap"]
    BY <1>1, <1>2, <2>1, <2>2, ProcWith
  <2>3. CASE proc' = [proc EXCEPT ![t].id = map[job.ref], ![t].pc = "match"]
    BY <1>1, <1>2, <2>1, <2>3, ProcWith
  <2> QED BY <1>1, <1>6, <2>1, <2>2, <2>3, DoneTypes DEF Lookup
<1>7. CASE Match(t)
  BY <1>7, MatchTypes
<1>8. CASE Attach(t) \/ RecordMapping(t)
  <2>1. map' \in [Refs -> Ids \cup {0}] /\ UNCHANGED <<vault, rows, hash, minted>>
    BY <1>1, <1>8 DEF Attach, RecordMapping, StoreTyped
  <2>2. StoreTyped'
    BY <1>1, <2>1 DEF StoreTyped
  <2>3. Attach(t) => ProcsTyped'
    BY <1>1, DoneTypes DEF Attach
  <2>4. RecordMapping(t) => ProcsTyped'
    BY <1>1, <1>2, GotoTypes DEF RecordMapping, ProcOK
  <2> QED BY <1>8, <2>2, <2>3, <2>4
<1>9. CASE Write(t)
  <2> DEFINE p == PathFor(job.ref, job.id)
             new == [job EXCEPT !.path = p, !.pc = "index"]
  <2>1. job.id \in Ids /\ job.id # 0
    BY <1>1, <1>9 DEF Write, ProcOK
  <2>2. p \in Paths /\ p # 0
    BY <1>1, <2>1, PathForTyped, Constants
  <2>3. vault' = [vault EXCEPT ![p] = FileOf(t)] /\ proc' = [proc EXCEPT ![t] = new]
    BY <1>1, <1>9 DEF Write, ProcsTyped
  <2>4. StoreTyped'
    BY <1>1, <1>9, <2>1, <2>2, <2>3, FileOfTyped DEF Write, StoreTyped
  <2>5. ProcOK(new)
    <3> HIDE DEF p
    <3> QED BY <1>1, <1>2, <2>1, <2>2 DEF ProcOK, Proc
  <2> HIDE DEF new
  <2>6. ProcsTyped'
    BY <1>1, <2>3, <2>5, ProcStep
  <2> QED BY <2>4, <2>6
<1>10. CASE IndexRecord(t)
  <2>1. job.path \in Paths /\ job.path # 0 /\ job.id # 0
    BY <1>1, <1>10 DEF IndexRecord, ProcOK
  <2>2. StoreTyped'
    BY <1>1, <1>10, <2>1, FileOfTyped, UpsertTables DEF IndexRecord, StoreTyped
  <2> QED BY <1>1, <1>2, <1>10, <2>1, <2>2, GotoTypes DEF IndexRecord
<1>11. CASE NoteHash(t)
  <2>1. job.id \in Ids /\ job.id # 0
    BY <1>1, <1>11 DEF NoteHash, ProcOK
  <2>2. hash' \in [Bodies -> Ids \cup {0}]
    <3>1. HashWithout({job.id}) \in [Bodies -> Ids \cup {0}]
      BY <1>1, TablesWithout
    <3>2. hash[job.body] \in Ids \cup {0}
      BY <1>1 DEF StoreTyped
    <3> QED BY <1>1, <1>11, <2>1, <3>1, <3>2 DEF NoteHash, StoreTyped
  <2>3. StoreTyped'
    BY <1>1, <1>11, <2>2 DEF NoteHash, StoreTyped
  <2> QED BY <1>1, <1>11, <2>3, DoneTypes DEF NoteHash
<1>12. CASE Unmap(t) \/ Count(t)
  <2>1. job.id # 0
    BY <1>1, <1>12 DEF Unmap, Count, ProcOK
  <2>2. StoreTyped'
    BY <1>1, <1>12 DEF Unmap, Count, StoreTyped, storeVars
  <2> QED BY <1>1, <1>2, <1>12, <2>1, <2>2, DoneTypes, GotoTypes DEF Unmap, Count
<1>13. CASE Unfile(t)
  <2>1. job.id # 0 /\ job.id \in Ids
    BY <1>1, <1>13 DEF Unfile, ProcOK
  <2>2. StoreTyped'
    BY <1>1, <1>13, <2>1, Values, IndexedPath DEF Unfile, StoreTyped
  <2> QED BY <1>1, <1>2, <1>13, <2>1, <2>2, GotoTypes DEF Unfile
<1>14. CASE Drop(t)
  <2>1. StoreTyped'
    BY <1>1, <1>14, TablesWithout DEF Drop, DeleteRows, StoreTyped
  <2> QED BY <1>1, <1>14, <2>1, DoneTypes DEF Drop
<1> QED BY <1>4, <1>5, <1>6, <1>7, <1>8, <1>9, <1>10, <1>11, <1>12, <1>13, <1>14 DEF Process

LEMMA ReconcileTypes ==
  ASSUME TypeInv, Reconcile, \A r \in Refs : ~ Emit("reconcile", r)
  PROVE  TypeInv'
<1>1. /\ StoreTyped /\ SweepTyped /\ OpOK(op)
      /\ op \in [pc : {"idle", "read", "write", "index", "unmap"}, id : Ids \cup {0},
                 gone : BOOLEAN, live : BOOLEAN, dead : SUBSET Refs, file : File,
                 path : Paths \cup {0}]
  BY DEF TypeInv, SweepTyped, OpOK, Op
<1>2. OpOK(NoOp) /\ NoOp.dead = {}
  BY Values DEF OpOK, NoOp
<1>3. SourceTyped' /\ ProcsTyped' /\ torn' \subseteq Ids /\ events' \in 0..MaxEvents
  <2>1. Outside
    BY DEF Reconcile, BeginCycle, SweepScan, ReadFile, WriteFile, IndexFile, UnmapDone,
           PruneScan, EndCycle, PassBy, DropOrphan, UnmapDead, Examine, PruneRow
  <2> QED BY <2>1 DEF Outside, TypeInv, SourceTyped, ProcsTyped, sourceVars, fileVars
<1> SUFFICES StoreTyped' /\ SweepTyped'
  BY <1>3 DEF TypeInv
<1>4. CASE \/ BeginCycle \/ SweepScan \/ UnmapDone \/ PruneScan \/ EndCycle
           \/ \E r \in Refs : PassBy(r)
  <2>1. StoreTyped'
    BY <1>1, <1>4 DEF BeginCycle, SweepScan, UnmapDone, PruneScan, EndCycle, PassBy,
                      StoreTyped, storeVars
  <2>2. BeginCycle \/ EndCycle \/ (\E r \in Refs : PassBy(r)) => SweepTyped'
    BY <1>1 DEF BeginCycle, EndCycle, PassBy, SweepTyped
  <2>3. SweepScan => SweepTyped'
    BY <1>1 DEF SweepScan, SweepTyped, StoreTyped
  <2>4. UnmapDone => SweepTyped'
    BY <1>1, <1>2 DEF UnmapDone, SweepTyped, OpOK, Op
  <2>5. PruneScan => SweepTyped'
    BY <1>1 DEF PruneScan, SweepTyped, Missing
  <2> QED BY <1>4, <2>1, <2>2, <2>3, <2>4, <2>5
<1>5. ASSUME NEW r \in Refs, DropOrphan(r) \/ UnmapDead(r) PROVE StoreTyped' /\ SweepTyped'
  <2>1. StoreTyped'
    BY <1>1, <1>5 DEF DropOrphan, UnmapDead, StoreTyped
  <2>2. DropOrphan(r) => SweepTyped'
    BY <1>1 DEF DropOrphan, SweepTyped
  <2>3. UnmapDead(r) => SweepTyped'
    BY <1>1 DEF UnmapDead, SweepTyped, OpOK, Op
  <2> QED BY <1>5, <2>1, <2>2, <2>3
<1>6. ASSUME NEW m \in Ids, Examine(m) PROVE StoreTyped' /\ SweepTyped'
  <2> DEFINE live == {r \in Of(m) \ unsure : Stat(r)}
             dead == (Of(m) \ unsure) \ live
             lost == dead # {} /\ dead = Of(m)
             new == [NoOp EXCEPT !.pc = IF lost THEN "read" ELSE "unmap", !.id = m, !.gone = lost,
                                 !.live = (live # {}), !.dead = dead]
  <2>1. op' = new /\ seen' = [r \in Refs |-> IF seen[r] = m THEN 0 ELSE seen[r]]
        /\ UNCHANGED <<storeVars, phase, todo, unsure, doomed>>
    BY <1>6 DEF Examine
  <2>2. dead \subseteq Refs /\ lost \in BOOLEAN /\ (live # {}) \in BOOLEAN
    BY DEF Of
  <2>3. OpOK(new)
    <3> HIDE DEF dead, live, lost
    <3> QED BY <2>2, Values, Constants DEF OpOK, Op
  <2> HIDE DEF new
  <2> QED BY <1>1, <2>1, <2>3 DEF StoreTyped, SweepTyped, storeVars
<1>7. CASE ReadFile
  <2> DEFINE p == rows[op.id].path
             new == [op EXCEPT !.pc = "write", !.file = [vault[p] EXCEPT !.gone = op.gone],
                               !.path = p]
  <2>1. StoreTyped' /\ op.id \in Ids /\ op.id # 0
    BY <1>1, <1>7 DEF ReadFile, StoreTyped, storeVars, OpOK
  <2>2. CASE op' = NoOp
    BY <1>1, <1>2, <1>7, <2>1, <2>2 DEF ReadFile, SweepTyped
  <2>3. CASE p # 0 /\ vault[p] # NoFile /\ op' = new
    <3>1. p \in Paths
      BY <1>1, <2>1, <2>3 DEF StoreTyped, Row
    <3>2. vault[p] \in File /\ vault[p].id # 0
      BY <1>1, <2>3, <3>1 DEF StoreTyped
    <3>3. [vault[p] EXCEPT !.gone = op.gone] \in File /\ [vault[p] EXCEPT !.gone = op.gone].id # 0
      BY <1>1, <3>2 DEF File
    <3>4. OpOK(new)
      <4> HIDE DEF p
      <4> QED BY <1>1, <2>1, <2>3, <3>1, <3>3 DEF OpOK, Op
    <3> HIDE DEF new
    <3> QED BY <1>1, <1>7, <2>1, <2>3, <3>4 DEF ReadFile, SweepTyped
  <2> QED BY <1>7, <2>2, <2>3 DEF ReadFile
<1>8. CASE WriteFile
  <2>1. StoreTyped'
    BY <1>1, <1>8 DEF WriteFile, StoreTyped, OpOK
  <2>2. SweepTyped'
    BY <1>1, <1>8 DEF WriteFile, SweepTyped, OpOK, Op
  <2> QED BY <2>1, <2>2
<1>9. CASE IndexFile
  <2>1. op.path \in Paths /\ op.file \in File /\ op.file.id # 0
    BY <1>1, <1>9 DEF IndexFile, OpOK
  <2>2. StoreTyped'
    BY <1>1, <1>9, <2>1, UpsertTables DEF IndexFile, StoreTyped
  <2>3. OpOK(op')
    BY <1>1, <1>2, <1>9 DEF IndexFile, OpOK, Op
  <2> QED BY <1>1, <1>9, <2>2, <2>3 DEF IndexFile, SweepTyped
<1>10. ASSUME NEW m \in Ids, PruneRow(m) PROVE StoreTyped' /\ SweepTyped'
  BY <1>1, <1>10, TablesWithout DEF PruneRow, DeleteRows, StoreTyped, SweepTyped
<1> QED BY <1>4, <1>5, <1>6, <1>7, <1>8, <1>9, <1>10 DEF Reconcile

LEMMA FilesTypes ==
  ASSUME TypeInv, NEW r \in Refs, Save(r) \/ Restore(r) \/ Remove(r)
  PROVE  TypeInv'
<1>1. StoreTyped' /\ ProcsTyped' /\ SweepTyped' /\ torn' \subseteq Ids
  BY DEF TypeInv, Save, Restore, Remove, Still, StoreTyped, ProcsTyped, SweepTyped,
         storeVars, sweepVars
<1>2. events' \in 0..MaxEvents
  BY IngestAssumption DEF TypeInv, Save, Restore, Remove, Event
<1>3. SourceTyped'
  <2>1. Len(Texts[r]) \in Nat
    BY IngestAssumption
  <2> QED BY <2>1 DEF TypeInv, Save, Restore, Remove, Seen, SourceTyped
<1> QED BY <1>1, <1>2, <1>3 DEF TypeInv

LEMMA FaultTypes ==
  ASSUME TypeInv,
         Unmount \/ Remount \/ FailSweep \/ Crash \/ (\E t \in Threads : Fail(t))
           \/ (\E p \in Paths : Forget(p))
  PROVE  TypeInv'
<1>1. events' \in 0..MaxEvents
  <2>1. Event \/ UNCHANGED events
    BY DEF Unmount, Remount, FailSweep, Crash, Fail, Forget
  <2> QED BY <2>1, IngestAssumption DEF TypeInv, Event
<1>2. ASSUME NEW failed \in SUBSET Threads PROVE TornBy(failed) \subseteq Ids
  <2>1. \A t \in failed : proc[t].pc = "map" => proc[t].id \in Ids
    BY DEF TypeInv, ProcsTyped, ProcOK, Proc
  <2> QED BY <2>1 DEF TypeInv, TornBy
<1>3. torn' \subseteq Ids
  BY <1>2 DEF TypeInv, Unmount, Remount, FailSweep, Crash, Fail, Forget, Still
<1>4. SourceTyped'
  BY DEF TypeInv, Unmount, Remount, FailSweep, Crash, Fail, Forget, SourceTyped, sourceVars, fileVars
<1>5. StoreTyped'
  BY Values DEF TypeInv, Unmount, Remount, FailSweep, Crash, Fail, Forget, Still, StoreTyped, storeVars
<1>6. ProcsTyped'
  <2>1. CASE UNCHANGED proc
    BY <2>1 DEF TypeInv, ProcsTyped
  <2>2. CASE \E t \in Threads : Done(t)
    BY <2>2, DoneTypes DEF TypeInv
  <2>3. CASE proc' = [t \in Threads |-> NoProc]
    BY <2>3, Values DEF ProcsTyped, ProcOK
  <2> QED BY <2>1, <2>2, <2>3 DEF Unmount, Remount, FailSweep, Crash, Fail, Forget, Still
<1>7. SweepTyped'
  BY Values DEF TypeInv, Unmount, Remount, FailSweep, Crash, Fail, Forget, Still, NoSweep,
                SweepTyped, sweepVars, OpOK
<1> QED BY <1>1, <1>3, <1>4, <1>5, <1>6, <1>7 DEF TypeInv

LEMMA TypesStep == TypeInv /\ [Next]_vars => TypeInv'
<1> SUFFICES ASSUME TypeInv, [Next]_vars PROVE TypeInv'
  OBVIOUS
<1>1. "reconcile" \in Threads
  BY IngestAssumption
<1>2. CASE Reconcile
  BY <1>1, <1>2, EmitTypes, ReconcileTypes
<1>3. CASE UNCHANGED vars
  BY <1>3 DEF vars, sourceVars, fileVars, storeVars, sweepVars, TypeInv, SourceTyped, StoreTyped,
              ProcsTyped, SweepTyped
<1>4. Watched \subseteq Refs
  BY IngestAssumption
<1> QED BY <1>2, <1>3, <1>4, EmitTypes, ProcessTypes, FilesTypes, FaultTypes DEF Next

LEMMA TypesInit == Init => TypeInv
<1> SUFFICES ASSUME Init PROVE TypeInv
  OBVIOUS
<1>1. SourceTyped
  <2>1. \A r \in Refs : Texts[r] # << >> /\ Texts[r] \in Seq(Bodies)
    BY IngestAssumption
  <2>2. \A r \in Refs : 1 <= Len(Texts[r])
    BY <2>1
  <2> QED BY <2>2 DEF Init, SourceTyped
<1>2. StoreTyped /\ ProcsTyped /\ SweepTyped
  BY Values, IngestAssumption DEF Init, StoreTyped, ProcsTyped, ProcOK, SweepTyped, OpOK
<1> QED BY <1>1, <1>2, IngestAssumption DEF Init, TypeInv

LEMMA AlwaysTyped == Spec => []TypeInv
BY TypesInit, TypesStep, PTL DEF Spec

\* Pipeline.process, the sweep and the prune pass: every variable keeps its type under
\* every fault, and a record past its mapping or its path has an id and a path.
THEOREM IngestTypes == Spec => []TypeOK
<1>1. TypeInv => TypeOK
  BY DEF TypeInv, SourceTyped, StoreTyped, ProcsTyped, ProcOK, SweepTyped, OpOK, TypeOK
<1> QED BY <1>1, AlwaysTyped, PTL

-----------------------------------------------------------------------------
(* Memories belong to classes of files *)

TextOf(r, b) == \E i \in DOMAIN Texts[r] : b = Texts[r][i]

\* A class has one type of files, and its texts to itself.
Classes(class) ==
  \A r, q \in Refs :
    /\ class[r] = class[q] => TypeOf(r) = TypeOf(q)
    /\ class[r] # class[q] => \A b \in Bodies : ~ (TextOf(r, b) /\ TextOf(q, b))

\* A memory file at path p of a class's file: kind[m] is the class of memory m.
Filed(class, kind, p, file) ==
  /\ file.id <= minted
  /\ \E r \in Refs : kind[file.id] = class[r] /\ file.type = TypeOf(r) /\ p \in {file.id, Slot[r]}

MapOf(class, kind) ==
  \A r \in Refs : map[r] # 0 => map[r] <= minted /\ kind[map[r]] = class[r]

RowsOf(class, kind) ==
  \A m \in Ids : rows[m].path # 0 =>
    /\ m <= minted
    /\ \E r \in Refs : kind[m] = class[r] /\ rows[m].type = TypeOf(r) /\ rows[m].path \in {m, Slot[r]}

FilesOf(class, kind) ==
  \A p \in Paths : vault[p].id # 0 => Filed(class, kind, p, vault[p])

HashOf(class, kind) ==
  \A b \in Bodies : hash[b] # 0 =>
    hash[b] <= minted /\ \E r \in Refs : kind[hash[b]] = class[r] /\ TextOf(r, b)

JobOf(class, kind, job) ==
  job.pc # "idle" =>
    /\ TextOf(job.ref, job.body)
    /\ job.id # 0 => job.id <= minted /\ kind[job.id] = class[job.ref]
    /\ job.pc \in {"index", "map", "note"} =>
         \E r \in Refs : class[r] = class[job.ref] /\ job.path \in {job.id, Slot[r]}

OpOf(class, kind) == op.pc \in {"write", "index"} => Filed(class, kind, op.path, op.file)

\* Whatever there is of a memory is of one class.
Traces(class, kind) ==
  /\ MapOf(class, kind) /\ RowsOf(class, kind) /\ FilesOf(class, kind) /\ HashOf(class, kind)
  /\ \A t \in Threads : JobOf(class, kind, proc[t])
  /\ OpOf(class, kind)

\* Ids can be compared.
LEMMA Numbers ==
  ASSUME TypeInv
  PROVE  /\ minted \in Nat /\ \A m \in Ids \cup {0} : m \in Nat
         /\ \A r \in Refs : map[r] \in Nat
         /\ \A p \in Paths : vault[p].id \in Nat
         /\ \A b \in Bodies : hash[b] \in Nat
         /\ \A t \in Threads : proc[t].id \in Nat
         /\ op.file.id \in Nat
<1>1. \A m \in Ids \cup {0} : m \in Nat
  BY DEF Ids
<1>2. minted \in Nat
  BY IngestAssumption DEF TypeInv, StoreTyped
<1>3. \A r \in Refs : map[r] \in Nat
  BY <1>1 DEF TypeInv, StoreTyped
<1>4. \A p \in Paths : vault[p].id \in Nat
  BY <1>1 DEF TypeInv, StoreTyped, File
<1>5. \A b \in Bodies : hash[b] \in Nat
  BY <1>1 DEF TypeInv, StoreTyped
<1>6. \A t \in Threads : proc[t].id \in Nat
  BY <1>1 DEF TypeInv, ProcsTyped, Proc
<1>7. op.file.id \in Nat
  BY <1>1 DEF TypeInv, SweepTyped, OpOK, Op, File
<1> QED BY <1>1, <1>2, <1>3, <1>4, <1>5, <1>6, <1>7

LEMMA TracesStay ==
  ASSUME TypeInv, NEW class, NEW kind, Traces(class, kind),
         minted' \in Nat, minted <= minted'
  PROVE  /\ UNCHANGED map => MapOf(class, kind)'
         /\ UNCHANGED rows => RowsOf(class, kind)'
         /\ UNCHANGED vault => FilesOf(class, kind)'
         /\ UNCHANGED hash => HashOf(class, kind)'
         /\ \A t \in Threads : proc'[t] = proc[t] \/ proc'[t] = NoProc => JobOf(class, kind, proc[t])'
         /\ UNCHANGED op \/ op' = NoOp => OpOf(class, kind)'
<1>1. \A m \in Nat : m <= minted => m <= minted'
  BY Numbers
<1>2. ASSUME UNCHANGED map PROVE MapOf(class, kind)'
  BY <1>1, <1>2, Numbers DEF Traces, MapOf
<1>3. ASSUME UNCHANGED rows PROVE RowsOf(class, kind)'
  BY <1>1, <1>3, Numbers DEF Traces, RowsOf
<1>4. ASSUME UNCHANGED vault PROVE FilesOf(class, kind)'
  BY <1>1, <1>4, Numbers DEF Traces, FilesOf, Filed
<1>5. ASSUME UNCHANGED hash PROVE HashOf(class, kind)'
  BY <1>1, <1>5, Numbers DEF Traces, HashOf
<1>6. ASSUME NEW t \in Threads, proc'[t] = proc[t] \/ proc'[t] = NoProc
      PROVE  JobOf(class, kind, proc[t])'
  <2>1. CASE proc'[t] = NoProc
    BY <2>1, Values DEF JobOf
  <2>2. CASE proc'[t] = proc[t]
    <3>1. proc[t].id \in Nat /\ JobOf(class, kind, proc[t])
      BY Numbers DEF Traces
    <3> QED BY <1>1, <2>2, <3>1 DEF JobOf
  <2> QED BY <1>6, <2>1, <2>2
<1>7. ASSUME UNCHANGED op \/ op' = NoOp PROVE OpOf(class, kind)'
  <2>1. CASE op' = NoOp
    BY <2>1, Values DEF OpOf
  <2>2. CASE UNCHANGED op
    BY <1>1, <2>2, Numbers DEF Traces, OpOf, Filed
  <2> QED BY <1>7, <2>1, <2>2
<1> QED BY <1>2, <1>3, <1>4, <1>5, <1>6, <1>7

\* Index.upsert of a file of a class leaves rows of classes.
LEMMA TracesUpsert ==
  ASSUME TypeInv, NEW class, NEW kind, Traces(class, kind), UNCHANGED minted,
         NEW file \in File, file.id # 0, NEW p \in Paths, Upsert(file, p),
         Filed(class, kind, p, file)
  PROVE  RowsOf(class, kind)' /\ HashOf(class, kind)'
<1>1. /\ rows' \in [Ids -> Row] /\ file.id \in Ids
      /\ rows'[file.id] = [path |-> p, body |-> file.body, type |-> file.type]
      /\ \A m \in Ids \ {file.id} : rows'[m] = IF rows[m].path = p THEN NoRow ELSE rows[m]
      /\ \A b \in Bodies : hash'[b] = hash[b] \/ hash'[b] = 0
  BY UpsertTables DEF TypeInv, File
<1>2. RowsOf(class, kind)'
  BY <1>1, Values DEF Traces, RowsOf, Filed
<1>3. HashOf(class, kind)'
  BY <1>1 DEF Traces, HashOf
<1> QED BY <1>2, <1>3

LEMMA TracesDelete ==
  ASSUME TypeInv, NEW class, NEW kind, Traces(class, kind), UNCHANGED minted,
         NEW m, DeleteRows(m)
  PROVE  RowsOf(class, kind)' /\ HashOf(class, kind)'
<1>1. /\ \A n \in Ids : rows'[n] = IF n = m THEN NoRow ELSE rows[n]
      /\ \A b \in Bodies : hash'[b] = IF hash[b] = m THEN 0 ELSE hash[b]
  BY TablesWithout DEF TypeInv, DeleteRows
<1> QED BY <1>1, Values DEF Traces, RowsOf, HashOf

\* The id to be handed out next may be of any class.
LEMMA TracesMint ==
  ASSUME TypeInv, NEW class, NEW C, NEW kind \in [Ids -> C], Traces(class, kind),
         NEW c \in C, minted < MaxIds
  PROVE  \E next \in [Ids -> C] : next[minted + 1] = c /\ Traces(class, next)
<1> DEFINE next == [kind EXCEPT ![minted + 1] = c]
<1>1. minted + 1 \in Ids /\ minted \in Nat
  BY Numbers, IngestAssumption DEF Ids
<1>2. next \in [Ids -> C] /\ next[minted + 1] = c
  BY <1>1
<1>3. \A m \in Ids : m <= minted => next[m] = kind[m]
  BY <1>1, Numbers
<1>4. \A m \in Ids \cup {0} : m # 0 => m \in Ids
  OBVIOUS
<1> HIDE DEF next
<1>5. MapOf(class, next)
  BY <1>3, <1>4 DEF TypeInv, StoreTyped, Traces, MapOf
<1>6. RowsOf(class, next)
  BY <1>3, <1>4 DEF TypeInv, StoreTyped, Traces, RowsOf
<1>7. FilesOf(class, next)
  <2>1. \A p \in Paths : vault[p].id \in Ids \cup {0}
    BY DEF TypeInv, StoreTyped, File
  <2> QED BY <1>3, <1>4, <2>1 DEF Traces, FilesOf, Filed
<1>8. HashOf(class, next)
  BY <1>3, <1>4 DEF TypeInv, StoreTyped, Traces, HashOf
<1>9. ASSUME NEW t \in Threads PROVE JobOf(class, next, proc[t])
  <2>1. proc[t].id \in Ids \cup {0}
    BY DEF TypeInv, ProcsTyped, Proc
  <2> QED BY <1>3, <1>4, <2>1 DEF Traces, JobOf
<1>10. OpOf(class, next)
  <2>1. op.file.id \in Ids \cup {0} /\ (op.pc \in {"write", "index"} => op.file.id # 0)
    BY DEF TypeInv, SweepTyped, OpOK, Op, File
  <2> QED BY <1>3, <1>4, <2>1 DEF Traces, OpOf, Filed
<1>11. Traces(class, next)
  BY <1>5, <1>6, <1>7, <1>8, <1>9, <1>10 DEF Traces
<1> QED BY <1>2, <1>11

\* A text that a memory of the class holds is a text of the class.
LEMMA SameClass ==
  ASSUME TypeInv, NEW class, Classes(class), NEW kind, Traces(class, kind),
         NEW r \in Refs, NEW b \in Bodies, TextOf(r, b), hash[b] # 0
  PROVE  hash[b] <= minted /\ kind[hash[b]] = class[r]
BY DEF Traces, HashOf, Classes

LEMMA PathOfClass ==
  ASSUME TypeInv, NEW class, NEW kind, Traces(class, kind),
         NEW r \in Refs, NEW m \in Ids, kind[m] = class[r]
  PROVE  \E q \in Refs : class[q] = class[r] /\ PathFor(r, m) \in {m, Slot[q]}
BY Constants DEF Traces, RowsOf, PathFor, Indexed

LEMMA ContentIsText ==
  ASSUME SourceTyped, NEW r \in Refs
  PROVE  TextOf(r, Content(r))
BY ContentTyped DEF TextOf

LEMMA TracesEmit ==
  ASSUME TypeInv, NEW class, NEW kind, Traces(class, kind),
         NEW t \in Threads, NEW r \in Refs, Emit(t, r)
  PROVE  Traces(class, kind)'
<1>1. UNCHANGED <<map, rows, vault, hash, op, minted>> /\ minted' \in Nat /\ minted <= minted'
  BY Numbers DEF Emit, storeVars
<1>2. proc'[t].ref = r /\ proc'[t].body = Content(r) /\ proc'[t].id = 0
      /\ proc'[t].pc \in {"skip", "lookup"}
  BY Values DEF Emit, TypeInv, ProcsTyped, Proc
<1>3. JobOf(class, kind, proc[t])'
  <2>1. TextOf(r, Content(r))
    BY ContentIsText DEF TypeInv
  <2> QED BY <1>2, <2>1 DEF JobOf, TextOf
<1>4. \A u \in Threads \ {t} : proc'[u] = proc[u]
  BY DEF Emit, TypeInv, ProcsTyped
<1>5. \A u \in Threads : JobOf(class, kind, proc[u])'
  BY <1>1, <1>3, <1>4, TracesStay
<1> QED BY <1>1, <1>5, TracesStay DEF Traces

LEMMA TracesProcess ==
  ASSUME TypeInv, TypeInv', NEW class, Classes(class), NEW kind, Traces(class, kind),
         NEW t \in Threads, Process(t),
         minted' # minted => kind[minted'] = class[proc[t].ref]
  PROVE  Traces(class, kind)'
<1> DEFINE job == proc[t]
<1>1. /\ ProcsTyped /\ StoreTyped /\ job \in Proc /\ ProcOK(job) /\ JobOf(class, kind, job)
      /\ job.id \in Ids \cup {0} /\ job.ref \in Refs /\ job.body \in Bodies
      /\ job.path \in Paths \cup {0}
  BY DEF TypeInv, ProcsTyped, Proc, Traces
<1>2. minted' \in Nat /\ minted <= minted' /\ (Match(t) \/ UNCHANGED minted)
  <2>1. Match(t) \/ UNCHANGED minted
    BY DEF Process, Skip, Compare, Lookup, Attach, Write, IndexRecord, RecordMapping,
           NoteHash, Unmap, Count, Unfile, Drop, storeVars
  <2>2. UNCHANGED minted \/ minted' = minted + 1
    BY <2>1 DEF Match
  <2> QED BY <2>1, <2>2, Numbers
<1>3. /\ \A u \in Threads \ {t} : proc'[u] = proc[u]
      /\ UNCHANGED op
  BY <1>1 DEF Process, Skip, Compare, Lookup, Match, Duplicate, Attach, Write, IndexRecord,
         RecordMapping, NoteHash, Unmap, Count, Unfile, Drop, Elsewhere, sweepVars, Done, Goto, ProcsTyped
<1>4. OpOf(class, kind)' /\ \A u \in Threads \ {t} : JobOf(class, kind, proc[u])'
  BY <1>2, <1>3, TracesStay
<1> SUFFICES /\ MapOf(class, kind)' /\ RowsOf(class, kind)' /\ FilesOf(class, kind)'
             /\ HashOf(class, kind)' /\ JobOf(class, kind, proc[t])'
  BY <1>4 DEF Traces
\* The record is dropped, or goes on to a stage as it is.
<1>5. Done(t) => JobOf(class, kind, proc[t])'
  <2>1. Done(t) => proc'[t] = NoProc
    BY <1>1 DEF Done, ProcsTyped
  <2> QED BY <1>2, <2>1, TracesStay
<1>6. ASSUME NEW stage \in Stages, Goto(t, stage), stage \notin {"index", "map", "note"}
              \/ job.pc \in {"index", "map", "note"}, job.pc # "idle"
      PROVE  JobOf(class, kind, proc[t])'
  <2>1. proc'[t].pc = stage /\ proc'[t].id = job.id /\ proc'[t].ref = job.ref
        /\ proc'[t].body = job.body /\ proc'[t].path = job.path
    BY <1>1, <1>6 DEF Goto, ProcsTyped, Proc
  <2>2. job.id <= minted => job.id <= minted'
    BY <1>2, Numbers
  <2> QED BY <1>1, <1>6, <2>1, <2>2 DEF JobOf
\* ... or with the id of its class.
<1>7. ASSUME NEW id \in Ids \cup {0}, NEW stage \in Stages \ {"index", "map", "note"},
             proc' = [proc EXCEPT ![t].id = id, ![t].pc = stage], job.pc # "idle",
             id # 0 => id <= minted' /\ kind[id] = class[job.ref]
      PROVE  JobOf(class, kind, proc[t])'
  <2>1. proc'[t].pc = stage /\ proc'[t].id = id /\ proc'[t].ref = job.ref /\ proc'[t].body = job.body
    BY <1>1, <1>7 DEF ProcsTyped, Proc
  <2> QED BY <1>1, <1>7, <2>1 DEF JobOf
<1>8. {"idle", "skip", "compare", "lookup", "match", "attach", "write", "index",
       "map", "note", "unmap", "count", "unfile", "drop"} = Stages
  BY DEF Stages
<1>9. map[job.ref] \in Ids \cup {0}
      /\ (map[job.ref] # 0 => map[job.ref] <= minted /\ kind[map[job.ref]] = class[job.ref])
  BY <1>1 DEF Traces, MapOf, StoreTyped
<1>10. CASE Skip(t) \/ Compare(t) \/ Lookup(t) \/ Count(t)
  <2>1. UNCHANGED <<map, rows, vault, hash, minted>>
    BY <1>10 DEF Skip, Compare, Lookup, Count, storeVars
  <2>2. Skip(t) => JobOf(class, kind, proc[t])'
    <3>1. {"lookup", "compare"} \subseteq Stages \ {"index", "map", "note"}
      BY <1>8
    <3>2. Skip(t) => /\ job.pc # "idle"
                     /\ \E stage \in {"lookup", "compare"} :
                          proc' = [proc EXCEPT ![t].id = map[job.ref], ![t].pc = stage]
      BY DEF Skip
    <3> QED BY <1>7, <1>9, <2>1, <3>1, <3>2
  <2>3. Compare(t) => JobOf(class, kind, proc[t])'
    BY <1>5, <1>6, <1>8 DEF Compare
  <2>4. Lookup(t) => JobOf(class, kind, proc[t])'
    <3>1. {"unmap", "match"} \subseteq Stages \ {"index", "map", "note"}
      BY <1>8
    <3>2. Lookup(t) =>
            /\ job.pc # "idle"
            /\ \/ Done(t)
               \/ \E stage \in {"unmap", "match"} :
                    proc' = [proc EXCEPT ![t].id = map[job.ref], ![t].pc = stage]
      BY DEF Lookup
    <3> QED BY <1>5, <1>7, <1>9, <2>1, <3>1, <3>2
  <2>5. Count(t) => JobOf(class, kind, proc[t])'
    BY <1>5, <1>6, <1>8 DEF Count
  <2> QED BY <1>2, <1>10, <2>1, <2>2, <2>3, <2>4, <2>5, TracesStay
<1>11. CASE Match(t)
  <2>1. UNCHANGED <<map, rows, vault, hash>> /\ job.pc = "match"
    BY <1>11 DEF Match
  <2> DEFINE other == hash[job.body]
  <2>2. other \in Ids \cup {0}
    BY <1>1 DEF StoreTyped
  <2>3. TextOf(job.ref, job.body)
    BY <1>1, <2>1 DEF JobOf
  <2>4. other # 0 => other <= minted /\ kind[other] = class[job.ref]
    BY <1>1, <2>3, SameClass
  <2> HIDE DEF other
  <2>5. CASE other \notin {0, job.id} /\ Duplicate(t, other) /\ UNCHANGED minted
    <3>1. \/ Done(t) \/ Goto(t, "unmap")
          \/ proc' = [proc EXCEPT ![t].id = other, ![t].pc = "attach"]
      BY <2>5 DEF Duplicate
    <3>2. JobOf(class, kind, proc[t])'
      BY <1>5, <1>6, <1>7, <1>8, <2>1, <2>2, <2>4, <2>5, <3>1
    <3> QED BY <1>2, <2>1, <3>2, TracesStay
  <2>6. CASE Goto(t, "write")
    BY <1>2, <1>6, <1>8, <2>1, <2>6, TracesStay
  <2>7. CASE /\ minted < MaxIds /\ minted' = minted + 1
             /\ proc' = [proc EXCEPT ![t].id = minted + 1, ![t].pc = "write"]
    <3>1. minted' \in Ids /\ kind[minted'] = class[job.ref]
      BY <2>7, Numbers, IngestAssumption DEF Ids
    <3>2. proc' = [proc EXCEPT ![t].id = minted', ![t].pc = "write"]
      BY <2>7
    <3>3. "write" \in Stages \ {"index", "map", "note"} /\ minted' <= minted'
      BY <1>2, <1>8
    <3>4. JobOf(class, kind, proc[t])'
      BY <1>7, <2>1, <3>1, <3>2, <3>3
    <3> QED BY <1>2, <2>1, <3>4, TracesStay
  <2> QED BY <1>11, <2>5, <2>6, <2>7 DEF Match, other
<1>12. CASE Attach(t) \/ RecordMapping(t)
  <2>1. /\ job.id \in Ids /\ job.id <= minted /\ kind[job.id] = class[job.ref]
        /\ UNCHANGED <<vault, rows, hash, minted>> /\ map' = [map EXCEPT ![job.ref] = job.id]
    BY <1>1, <1>12 DEF Attach, RecordMapping, ProcOK, JobOf
  <2>2. MapOf(class, kind)'
    BY <1>1, <2>1 DEF Traces, MapOf, StoreTyped
  <2>3. JobOf(class, kind, proc[t])'
    BY <1>5, <1>6, <1>8, <1>12 DEF Attach, RecordMapping
  <2> QED BY <1>2, <2>1, <2>2, <2>3, TracesStay
<1>13. CASE Write(t)
  <2> DEFINE p == PathFor(job.ref, job.id)
  <2>1. /\ job.id \in Ids /\ job.id <= minted /\ kind[job.id] = class[job.ref]
        /\ UNCHANGED <<map, rows, hash, minted>> /\ vault' = [vault EXCEPT ![p] = FileOf(t)]
        /\ proc' = [proc EXCEPT ![t].path = p, ![t].pc = "index"] /\ TextOf(job.ref, job.body)
    BY <1>1, <1>13 DEF Write, ProcOK, JobOf
  <2>2. PICK q \in Refs : class[q] = class[job.ref] /\ p \in {job.id, Slot[q]}
    BY <1>1, <2>1, PathOfClass
  <2>3. TypeOf(q) = TypeOf(job.ref)
    BY <1>1, <2>2 DEF Classes
  <2> HIDE DEF p
  <2>4. proc'[t].pc = "index" /\ proc'[t].id = job.id /\ proc'[t].ref = job.ref
        /\ proc'[t].body = job.body /\ proc'[t].path = p
    BY <1>1, <2>1 DEF ProcsTyped, Proc
  <2>5. JobOf(class, kind, proc[t])'
    BY <2>1, <2>2, <2>4 DEF JobOf, TextOf
  <2>6. FilesOf(class, kind)'
    <3>1. \A x \in Paths \ {p} : vault'[x] = vault[x]
      BY <1>1, <2>1 DEF StoreTyped
    <3>2. p \in Paths => vault'[p] = FileOf(t)
      BY <1>1, <2>1 DEF StoreTyped
    <3>3. Filed(class, kind, p, FileOf(t))
      BY <2>1, <2>2, <2>3, FileOfTyped DEF Filed
    <3> QED BY <2>1, <3>1, <3>2, <3>3 DEF Traces, FilesOf, Filed
  <2> QED BY <1>2, <2>1, <2>5, <2>6, TracesStay
<1>14. CASE IndexRecord(t)
  <2>1. /\ job.path \in Paths /\ job.id \in Ids /\ job.id # 0 /\ job.id <= minted
        /\ UNCHANGED <<vault, map, minted>> /\ Upsert(FileOf(t), job.path) /\ job.pc = "index"
        /\ kind[job.id] = class[job.ref]
    BY <1>1, <1>14, Constants DEF IndexRecord, ProcOK, JobOf
  <2>2. PICK q \in Refs : class[q] = class[job.ref] /\ job.path \in {job.id, Slot[q]}
    BY <1>1, <2>1 DEF JobOf
  <2>3. Filed(class, kind, job.path, FileOf(t))
    BY <1>1, <2>1, <2>2, FileOfTyped DEF Filed, Classes
  <2>4. RowsOf(class, kind)' /\ HashOf(class, kind)'
    BY <2>1, <2>3, FileOfTyped, TracesUpsert
  <2>5. JobOf(class, kind, proc[t])'
    BY <1>6, <1>8, <1>14 DEF IndexRecord
  <2> QED BY <1>2, <2>1, <2>4, <2>5, TracesStay
<1>15. CASE NoteHash(t)
  <2>1. /\ job.id \in Ids /\ job.id # 0 /\ job.id <= minted /\ kind[job.id] = class[job.ref]
        /\ UNCHANGED <<vault, rows, map, minted>> /\ TextOf(job.ref, job.body)
    BY <1>1, <1>15, Constants DEF NoteHash, ProcOK, JobOf
  <2>2. \A b \in Bodies : \/ hash'[b] \in {0, hash[b]}
                          \/ b = job.body /\ hash'[b] = job.id
    <3>1. /\ HashWithout({job.id}) \in [Bodies -> Ids \cup {0}]
          /\ \A b \in Bodies : HashWithout({job.id})[b] \in {0, hash[b]}
      BY <1>1, TablesWithout
    <3> QED BY <1>1, <1>15, <3>1 DEF NoteHash
  <2>3. HashOf(class, kind)'
    BY <1>1, <2>1, <2>2 DEF Traces, HashOf
  <2>4. JobOf(class, kind, proc[t])'
    BY <1>5, <1>15 DEF NoteHash
  <2> QED BY <1>2, <2>1, <2>3, <2>4, TracesStay
<1>16. CASE Unmap(t)
  <2>1. MapOf(class, kind)'
    BY <1>1, <1>16 DEF Unmap, Traces, MapOf, StoreTyped
  <2>2. JobOf(class, kind, proc[t])'
    BY <1>6, <1>8, <1>16 DEF Unmap
  <2> QED BY <1>2, <1>16, <2>1, <2>2, TracesStay DEF Unmap
<1>17. CASE Unfile(t)
  <2>1. FilesOf(class, kind)'
    <3>1. UNCHANGED minted /\ \A p \in Paths : vault'[p] \in {vault[p], NoFile}
      BY <1>1, <1>17 DEF Unfile, StoreTyped
    <3> QED BY <3>1, Values DEF Traces, FilesOf, Filed
  <2>2. JobOf(class, kind, proc[t])'
    BY <1>6, <1>8, <1>17 DEF Unfile
  <2> QED BY <1>2, <1>17, <2>1, <2>2, TracesStay DEF Unfile
<1>18. CASE Drop(t)
  <2>1. RowsOf(class, kind)' /\ HashOf(class, kind)'
    BY <1>18, TracesDelete DEF Drop
  <2>2. JobOf(class, kind, proc[t])'
    BY <1>5, <1>18 DEF Drop
  <2> QED BY <1>2, <1>18, <2>1, <2>2, TracesStay DEF Drop
<1> QED BY <1>10, <1>11, <1>12, <1>13, <1>14, <1>15, <1>16, <1>17, <1>18 DEF Process

LEMMA TracesSweep ==
  ASSUME TypeInv, NEW class, NEW kind, Traces(class, kind), Reconcile,
         \A r \in Refs : ~ Emit("reconcile", r)
  PROVE  Traces(class, kind)'
<1>1. /\ StoreTyped /\ OpOK(op) /\ op.id \in Ids \cup {0} /\ op.file \in File
      /\ op.path \in Paths \cup {0}
  BY DEF TypeInv, SweepTyped, OpOK, Op
<1>2. UNCHANGED <<proc, minted>>
  BY DEF Reconcile, BeginCycle, SweepScan, ReadFile, WriteFile, IndexFile, UnmapDone,
         PruneScan, EndCycle, PassBy, DropOrphan, UnmapDead, Examine, PruneRow, Outside, storeVars
<1>3. minted' \in Nat /\ minted <= minted' /\ \A t \in Threads : proc'[t] = proc[t]
  BY <1>2, Numbers
<1>4. \A t \in Threads : JobOf(class, kind, proc[t])'
  BY <1>3, TracesStay
<1> SUFFICES /\ MapOf(class, kind)' /\ RowsOf(class, kind)' /\ FilesOf(class, kind)'
             /\ HashOf(class, kind)' /\ OpOf(class, kind)'
  BY <1>4 DEF Traces
<1>5. op'.pc \notin {"write", "index"} => OpOf(class, kind)'
  BY DEF OpOf
<1>6. CASE BeginCycle \/ SweepScan \/ PruneScan \/ EndCycle \/ (\E r \in Refs : PassBy(r))
  <2>1. UNCHANGED <<map, rows, vault, hash, op>>
    BY <1>6 DEF BeginCycle, SweepScan, PruneScan, EndCycle, PassBy, storeVars
  <2> QED BY <1>3, <2>1, TracesStay
<1>7. ASSUME NEW r \in Refs, DropOrphan(r) \/ UnmapDead(r)
      PROVE  /\ MapOf(class, kind)' /\ RowsOf(class, kind)' /\ FilesOf(class, kind)'
             /\ HashOf(class, kind)' /\ OpOf(class, kind)'
  <2>1. UNCHANGED <<rows, vault, hash>> /\ map' = [map EXCEPT ![r] = 0]
    BY <1>7 DEF DropOrphan, UnmapDead
  <2>2. MapOf(class, kind)'
    BY <1>1, <1>2, <2>1 DEF Traces, MapOf, StoreTyped
  <2>3. OpOf(class, kind)'
    <3>1. DropOrphan(r) => UNCHANGED op
      BY DEF DropOrphan
    <3>2. UnmapDead(r) => op'.pc \notin {"write", "index"}
      BY <1>1 DEF UnmapDead, OpOK, Op
    <3> QED BY <1>3, <1>5, <1>7, <3>1, <3>2, TracesStay
  <2> QED BY <1>3, <2>1, <2>2, <2>3, TracesStay
<1>8. CASE UnmapDone \/ (\E m \in Ids : Examine(m))
  <2>1. UNCHANGED <<map, rows, vault, hash>>
    BY <1>8 DEF UnmapDone, Examine, storeVars
  <2>2. UnmapDone => op'.pc \notin {"write", "index"}
    BY <1>1, Values DEF UnmapDone, OpOK, Op
  <2>3. ASSUME NEW m \in Ids, Examine(m) PROVE op'.pc \in {"read", "unmap"}
    BY <2>3, Values DEF Examine, Op
  <2> QED BY <1>3, <1>5, <1>8, <2>1, <2>2, <2>3, TracesStay
<1>9. CASE ReadFile
  <2> DEFINE p == rows[op.id].path
  <2>1. UNCHANGED <<map, rows, vault, hash>>
    BY <1>9 DEF ReadFile, storeVars
  <2>2. op.id \in Ids
    BY <1>1, <1>9 DEF ReadFile, OpOK
  <2>3. CASE op' = NoOp
    BY <1>3, <2>1, <2>3, TracesStay
  <2>4. CASE p # 0 /\ vault[p] # NoFile
             /\ op' = [op EXCEPT !.pc = "write", !.file = [vault[p] EXCEPT !.gone = op.gone], !.path = p]
    <3>1. p \in Paths
      BY <1>1, <2>2, <2>4 DEF StoreTyped, Row
    <3>2. vault[p] \in File /\ vault[p].id # 0
      BY <1>1, <2>4, <3>1 DEF StoreTyped
    <3>3. Filed(class, kind, p, vault[p])
      BY <3>1, <3>2 DEF Traces, FilesOf
    <3>4. op'.path = p /\ op'.file.id = vault[p].id /\ op'.file.type = vault[p].type
      BY <1>1, <2>4, <3>2 DEF OpOK, Op, File
    <3>5. OpOf(class, kind)'
      BY <1>2, <3>3, <3>4 DEF OpOf, Filed
    <3> QED BY <1>3, <2>1, <3>5, TracesStay
  <2> QED BY <1>9, <2>3, <2>4 DEF ReadFile
<1>10. CASE WriteFile
  <2>1. /\ UNCHANGED <<map, rows, hash>> /\ vault' = [vault EXCEPT ![op.path] = op.file]
        /\ Filed(class, kind, op.path, op.file)
    BY <1>10 DEF WriteFile, Traces, OpOf
  <2>2. op'.file = op.file /\ op'.path = op.path
    BY <1>1, <1>10 DEF WriteFile, OpOK, Op
  <2>3. FilesOf(class, kind)'
    BY <1>1, <1>2, <2>1 DEF Traces, FilesOf, Filed, StoreTyped
  <2>4. OpOf(class, kind)'
    BY <1>2, <2>1, <2>2 DEF OpOf, Filed
  <2> QED BY <1>3, <2>1, <2>3, <2>4, TracesStay
<1>11. CASE IndexFile
  <2>1. /\ Upsert(op.file, op.path) /\ UNCHANGED <<vault, map>> /\ op.file.id # 0
        /\ op.path \in Paths /\ Filed(class, kind, op.path, op.file)
    BY <1>1, <1>11 DEF IndexFile, Traces, OpOf, OpOK
  <2>2. RowsOf(class, kind)' /\ HashOf(class, kind)'
    BY <1>1, <1>2, <2>1, TracesUpsert
  <2>3. op'.pc \notin {"write", "index"}
    BY <1>1, <1>11, Values DEF IndexFile, OpOK, Op
  <2> QED BY <1>3, <1>5, <2>1, <2>2, <2>3, TracesStay
<1>12. ASSUME NEW m \in Ids, PruneRow(m)
       PROVE  /\ MapOf(class, kind)' /\ RowsOf(class, kind)' /\ FilesOf(class, kind)'
              /\ HashOf(class, kind)' /\ OpOf(class, kind)'
  <2>1. DeleteRows(m) /\ UNCHANGED <<vault, map, op>>
    BY <1>12 DEF PruneRow
  <2> QED BY <1>2, <1>3, <2>1, TracesStay, TracesDelete
<1> QED BY <1>6, <1>7, <1>8, <1>9, <1>10, <1>11, <1>12 DEF Reconcile

LEMMA TracesFaults ==
  ASSUME TypeInv, NEW class, NEW kind, Traces(class, kind),
         \/ Unmount \/ Remount \/ FailSweep \/ Crash \/ UNCHANGED vars
         \/ \E t \in Threads : Fail(t)
         \/ \E p \in Paths : Forget(p)
         \/ \E r \in Refs : Save(r) \/ Restore(r) \/ Remove(r)
  PROVE  Traces(class, kind)'
<1>1. UNCHANGED <<map, rows, hash, minted>> /\ (UNCHANGED op \/ op' = NoOp)
      /\ minted' \in Nat /\ minted <= minted'
  <2>1. UNCHANGED <<map, rows, hash, minted>>
    BY DEF Unmount, Remount, FailSweep, Crash, Fail, Forget, Save, Restore, Remove, Still,
           storeVars, vars
  <2>2. UNCHANGED op \/ op' = NoOp
    BY DEF Unmount, Remount, FailSweep, Crash, Fail, Forget, Save, Restore, Remove, Still,
           NoSweep, sweepVars, vars
  <2> QED BY <2>1, <2>2, Numbers
<1>2. \A t \in Threads : proc'[t] = proc[t] \/ proc'[t] = NoProc
  <2>1. \/ UNCHANGED proc \/ proc' = [t \in Threads |-> NoProc]
        \/ \E t \in Threads : proc' = [proc EXCEPT ![t] = NoProc]
    BY DEF Unmount, Remount, FailSweep, Crash, Fail, Done, Forget, Save, Restore, Remove, Still, vars
  <2> QED BY <2>1 DEF TypeInv, ProcsTyped
<1>3. FilesOf(class, kind)'
  <2>1. \A p \in Paths : vault'[p] \in {vault[p], NoFile}
    <3>1. UNCHANGED vault \/ \E p \in Paths : vault' = [vault EXCEPT ![p] = NoFile]
      BY DEF Unmount, Remount, FailSweep, Crash, Fail, Forget, Save, Restore, Remove, Still,
             storeVars, vars
    <3> QED BY <3>1 DEF TypeInv, StoreTyped
  <2> QED BY <1>1, <2>1, Values DEF Traces, FilesOf, Filed
<1> QED BY <1>1, <1>2, <1>3, TracesStay DEF Traces

LEMMA TracesStep ==
  ASSUME TypeInv, TypeInv', [Next]_vars, NEW class, Classes(class),
         NEW C, \A r \in Refs : class[r] \in C, NEW kind \in [Ids -> C], Traces(class, kind)
  PROVE  \E next \in [Ids -> C] : Traces(class, next) /\ Traces(class, next)'
<1>1. "reconcile" \in Threads /\ Watched \subseteq Refs
  BY IngestAssumption
<1>2. ASSUME NEW t \in Threads, Process(t), UNCHANGED minted PROVE Traces(class, kind)'
  BY <1>2, TracesProcess
<1>3. ASSUME NEW t \in Threads, Process(t), ~ UNCHANGED minted
      PROVE  \E next \in [Ids -> C] : Traces(class, next) /\ Traces(class, next)'
  <2>1. Match(t)
    BY <1>3 DEF Process, Skip, Compare, Lookup, Attach, Write, IndexRecord, RecordMapping,
                NoteHash, Unmap, Count, Unfile, Drop, storeVars
  <2>2. minted < MaxIds /\ minted' = minted + 1
    BY <1>3, <2>1 DEF Match
  <2>3. proc[t].ref \in Refs
    BY DEF TypeInv, ProcsTyped, Proc
  <2>4. PICK c \in C : c = class[proc[t].ref]
    BY <2>3
  <2>5. PICK next \in [Ids -> C] : next[minted + 1] = c /\ Traces(class, next)
    BY <2>2, TracesMint
  <2>6. Traces(class, next)'
    BY <1>3, <2>2, <2>4, <2>5, TracesProcess
  <2> QED BY <2>5, <2>6
<1>4. CASE Reconcile
  BY <1>1, <1>4, TracesEmit, TracesSweep
<1>5. CASE \/ Unmount \/ Remount \/ FailSweep \/ Crash \/ UNCHANGED vars
           \/ \E t \in Threads : Fail(t)
           \/ \E p \in Paths : Forget(p)
           \/ \E r \in Refs : Save(r) \/ Restore(r) \/ Remove(r)
  BY <1>5, TracesFaults
<1>6. CASE "live" \in Threads /\ \E r \in Watched : Emit("live", r)
  BY <1>1, <1>6, TracesEmit
<1> QED BY <1>2, <1>3, <1>4, <1>5, <1>6 DEF Next

LEMMA TracesInit ==
  ASSUME Init, NEW class, NEW kind
  PROVE  Traces(class, kind)
BY Values DEF Init, Traces, MapOf, RowsOf, FilesOf, HashOf, JobOf, OpOf

-----------------------------------------------------------------------------
(* No authored memory is stranded *)

Notes == Refs \ Sessions

\* No watcher sees an authored file, its memory has a path of its own, and it shares
\* no text with a transcript.
NotesApart ==
  /\ Watched \subseteq Sessions
  /\ \A r \in Notes : Slot[r] = 0
  /\ \A r \in Sessions, q \in Notes : \A b \in Bodies : ~ (TextOf(r, b) /\ TextOf(q, b))

TypeClass == [r \in Refs |-> TypeOf(r)]

\* The cycle takes its phases in order.
Orderly ==
  /\ proc["reconcile"].pc # "idle" => phase = "walk"
  /\ op.pc # "idle" => phase = "sweep" /\ todo = {}
  /\ \A t \in Threads \ {"reconcile"} : proc[t].pc # "idle" => proc[t].ref \in Sessions

\* What the sweep has read of the mappings is so still.
SeenStill ==
  /\ \A r \in Refs : seen[r] # 0 => phase = "sweep" /\ map[r] = seen[r] /\ r \in Notes \ todo
  /\ phase = "sweep" => \A r \in todo \cap Notes : map[r] # 0 => ~ Indexed(map[r])

\* What the record of an authored file has read of the mappings is so still.
NoteJob(job) ==
  job.pc # "idle" /\ job.ref \in Notes =>
    /\ job.pc = "match" => job.id = map[job.ref]
    /\ job.pc = "attach" => map[job.ref] = 0
    /\ job.pc \in {"write", "index", "map"} => map[job.ref] \in {0, job.id}
    /\ job.pc \in {"write", "index"} /\ map[job.ref] = 0 => ~ Indexed(job.id)
    /\ job.pc \notin {"unmap", "count", "unfile", "drop"}

\* A memory is hidden before its mappings go, and shown while one stays.
HidesFirst ==
  op.pc # "idle" =>
    /\ \A r \in op.dead : map[r] = op.id /\ seen[r] = 0 /\ r \in Notes
    /\ op.gone /\ op.pc # "unmap" => op.dead # {}
    /\ op.gone /\ op.pc = "unmap" /\ op.dead # {} => ~ Shown(op.id)
    /\ ~ op.gone => \E r \in Notes \ op.dead : map[r] = op.id
    /\ op.pc \in {"write", "index"} =>
         op.file.id = op.id /\ op.path = op.id /\ op.file.gone = op.gone
    /\ op.pc = "index" => vault[op.id] = NoFile \/ vault[op.id].gone = op.gone

NotesMapped ==
  \A m \in Ids : Authored(m) /\ Shown(m) /\ m \notin torn =>
    \/ \E r \in Refs : map[r] = m
    \/ \E t \in Threads : proc[t].pc = "map" /\ proc[t].id = m

StrandInv ==
  /\ Orderly /\ SeenStill /\ \A t \in Threads : NoteJob(proc[t])
  /\ HidesFirst /\ NotesMapped

\* The memories of authored files and those of transcripts keep out of each other's way.
LEMMA KindFacts ==
  ASSUME TypeInv, NotesApart, NEW kind, Traces(TypeClass, kind)
  PROVE  /\ \A r \in Refs : map[r] # 0 => map[r] \in Ids /\ kind[map[r]] = TypeOf(r)
         /\ \A m \in Ids : vault[m] = NoFile \/ vault[m].id = m
         /\ \A m, n \in Ids : rows[n].path = m => n = m
         /\ \A m \in Ids : Authored(m) => kind[m] = "authored"
         /\ \A m \in Ids : kind[m] = "authored" =>
              rows[m].path \in {0, m} /\ (Indexed(m) => Authored(m))
<1>1. \A r \in Refs : TypeClass[r] = TypeOf(r) /\ (Slot[r] \notin Ids)
                      /\ (TypeOf(r) = "authored" => Slot[r] = 0)
  BY Constants DEF TypeClass, NotesApart, Notes, TypeOf
<1>2. \A r \in Refs : map[r] # 0 => map[r] \in Ids /\ kind[map[r]] = TypeOf(r)
  BY <1>1 DEF TypeInv, StoreTyped, Traces, MapOf
<1>3. \A m \in Ids : vault[m] = NoFile \/ vault[m].id = m
  <2>1. \A m \in Ids : m \in Paths
    BY Constants
  <2> QED BY <1>1, <2>1 DEF TypeInv, StoreTyped, Traces, FilesOf, Filed
<1>4. \A m \in Ids : m # 0
  BY Constants
<1>5. \A m, n \in Ids : rows[n].path = m => n = m
  BY <1>1, <1>4 DEF Traces, RowsOf
<1>6. \A m \in Ids : Authored(m) => kind[m] = "authored"
  BY <1>1 DEF Traces, RowsOf, Authored, Indexed
<1>7. \A m \in Ids : kind[m] = "authored" =>
        rows[m].path \in {0, m} /\ (Indexed(m) => Authored(m))
  BY <1>1 DEF Traces, RowsOf, Authored, Indexed
<1> QED BY <1>2, <1>3, <1>5, <1>6, <1>7

LEMMA KindShown ==
  ASSUME TypeInv, NotesApart, NEW kind, Traces(TypeClass, kind), NEW m \in Ids,
         kind[m] = "authored"
  PROVE  Shown(m) <=> rows[m].path = m /\ vault[m] # NoFile /\ ~ vault[m].gone
BY KindFacts, Constants DEF Shown, Indexed

LEMMA KindNext ==
  ASSUME NotesApart, NEW kind, Traces(TypeClass, kind)', NEW m \in Ids
  PROVE  /\ Authored(m)' => kind[m] = "authored"
         /\ kind[m] = "authored" => rows'[m].path \in {0, m}
<1>1. \A r \in Refs : TypeClass[r] = TypeOf(r) /\ (TypeOf(r) = "authored" => Slot[r] = 0)
  BY DEF TypeClass, NotesApart, Notes, TypeOf
<1>2. RowsOf(TypeClass, kind)'
  BY DEF Traces
<1> QED BY <1>1, <1>2 DEF RowsOf, Authored, Indexed

\* A memory that a step shows has a file and a row that say so.
LEMMA ShownNext ==
  ASSUME NotesApart, NEW kind, Traces(TypeClass, kind)', NEW m \in Ids, kind[m] = "authored",
         Shown(m)'
  PROVE  rows'[m].path = m /\ vault'[m] # NoFile /\ ~ vault'[m].gone
BY KindNext DEF Shown, Indexed

LEMMA Apart ==
  ASSUME NotesApart
  PROVE  Classes(TypeClass) /\ \A r \in Refs : TypeClass[r] \in Types
BY DEF NotesApart, Notes, Classes, TypeClass, TypeOf, Types

\* A step that leaves the memories of authored files alone, or takes a file away.
LEMMA StrandRests ==
  ASSUME TypeInv, NotesApart, StrandInv, NEW kind, Traces(TypeClass, kind), Traces(TypeClass, kind)',
         TypeInv',
         \A r \in Notes : map'[r] = map[r],
         \A m \in Ids : kind[m] = "authored" => rows'[m] = rows[m] /\ vault'[m] \in {vault[m], NoFile},
         UNCHANGED <<phase, todo, seen, op>>, torn \subseteq torn',
         \A t \in Threads : \/ proc'[t] = proc[t] \/ proc'[t].pc = "idle"
                            \/ /\ proc[t].pc # "idle" \/ t # "reconcile"
                               /\ proc'[t].ref \in Sessions,
         \A t \in Threads : proc[t].pc = "map" /\ kind[proc[t].id] = "authored" =>
           proc'[t] = proc[t] \/ proc[t].id \in torn'
  PROVE  StrandInv'
<1>1. Orderly'
  <2>1. "reconcile" \in Threads
    BY IngestAssumption
  <2> QED BY <2>1 DEF StrandInv, Orderly
<1>2. \A r \in Notes : r \in Refs /\ TypeOf(r) = "authored"
  BY DEF Notes, TypeOf
<1>3. \A r \in Refs : map[r] # 0 => map[r] \in Ids /\ kind[map[r]] = TypeOf(r)
  BY KindFacts
<1>4. \A r \in Notes : map[r] # 0 => (Indexed(map[r])' <=> Indexed(map[r]))
  BY <1>2, <1>3 DEF Indexed
<1>5. SeenStill'
  <2>1. \A r \in Refs : seen'[r] # 0 => phase' = "sweep" /\ map'[r] = seen'[r] /\ r \in Notes \ todo'
    BY DEF StrandInv, SeenStill, Notes
  <2>2. ASSUME phase' = "sweep", NEW r \in todo' \cap Notes, map'[r] # 0
        PROVE  ~ Indexed(map[r])'
    BY <1>4, <2>2 DEF StrandInv, SeenStill
  <2> QED BY <2>1, <2>2 DEF SeenStill
<1>6. ASSUME NEW t \in Threads PROVE NoteJob(proc[t])'
  <2>1. CASE proc'[t].pc = "idle" \/ proc'[t].ref \in Sessions
    BY <2>1 DEF NoteJob, Notes
  <2>2. CASE proc'[t] = proc[t] /\ proc[t].ref \in Notes /\ proc[t].pc # "idle"
    <3>1. proc[t].id \in Ids \cup {0}
      BY DEF TypeInv, ProcsTyped, Proc
    <3>2. proc[t].id # 0 => kind[proc[t].id] = "authored"
      <4>1. proc[t].ref \in Refs /\ TypeClass[proc[t].ref] = "authored"
        BY <1>2, <2>2 DEF TypeClass
      <4> QED BY <2>2, <4>1 DEF Traces, JobOf
    <3>3. Indexed(proc[t].id)' <=> Indexed(proc[t].id)
      BY <2>2, <3>1, <3>2 DEF Indexed
    <3> QED BY <2>2, <3>3 DEF StrandInv, NoteJob
  <2> QED BY <2>1, <2>2 DEF TypeInv, ProcsTyped, Proc, Notes
<1>7. HidesFirst'
  <2> SUFFICES ASSUME op.pc # "idle" PROVE HidesFirst'
    BY DEF HidesFirst
  <2>1. /\ \A r \in op.dead : map[r] = op.id /\ seen[r] = 0 /\ r \in Notes
        /\ op.gone /\ op.pc # "unmap" => op.dead # {}
        /\ op.gone /\ op.pc = "unmap" /\ op.dead # {} => ~ Shown(op.id)
        /\ ~ op.gone => \E r \in Notes \ op.dead : map[r] = op.id
        /\ op.pc \in {"write", "index"} =>
             op.file.id = op.id /\ op.path = op.id /\ op.file.gone = op.gone
        /\ op.pc = "index" => vault[op.id] = NoFile \/ vault[op.id].gone = op.gone
    BY DEF StrandInv, HidesFirst
  <2>2. op.id # 0
    BY DEF TypeInv, SweepTyped, OpOK
  <2>3. op.dead # {} \/ ~ op.gone => op.id \in Ids /\ kind[op.id] = "authored"
    BY <1>2, <1>3, <2>1, <2>2
  <2>4. op.gone /\ op.pc = "unmap" /\ op.dead # {} => ~ Shown(op.id)'
    <3>1. ASSUME NEW m \in Ids, kind[m] = "authored", Shown(m)' PROVE Shown(m)
      <4>1. rows'[m].path = m /\ vault'[m] # NoFile /\ ~ vault'[m].gone
        BY <3>1, ShownNext
      <4> QED BY <3>1, <4>1, KindShown
    <3> QED BY <2>1, <2>3, <3>1
  <2>5. op.pc = "index" => vault'[op.id] = NoFile \/ vault'[op.id].gone = op.gone
    <3>1. op.pc = "index" => op.id \in Ids /\ kind[op.id] = "authored"
      BY <2>1, <2>3 DEF TypeInv, SweepTyped, OpOK, Op
    <3> QED BY <2>1, <3>1
  <2> QED BY <2>1, <2>4, <2>5 DEF HidesFirst
<1>8. ASSUME NEW m \in Ids, Authored(m)', Shown(m)', m \notin torn'
      PROVE  (\E r \in Refs : map'[r] = m) \/ \E t \in Threads : proc'[t].pc = "map" /\ proc'[t].id = m
  <2>1. kind[m] = "authored"
    BY <1>8, KindNext
  <2>2. Shown(m)
    <3>1. rows'[m].path = m /\ vault'[m] # NoFile /\ ~ vault'[m].gone
      BY <1>8, <2>1, ShownNext
    <3> QED BY <1>8, <2>1, <3>1, KindShown
  <2>3. Authored(m) /\ m \notin torn
    BY <1>8, <2>1 DEF Authored, Indexed
  <2>4. \/ \E r \in Refs : map[r] = m
        \/ \E t \in Threads : proc[t].pc = "map" /\ proc[t].id = m
    BY <2>2, <2>3 DEF StrandInv, NotesMapped
  <2>5. m # 0
    BY Constants
  <2> QED BY <1>2, <1>3, <1>8, <2>1, <2>4, <2>5 DEF Notes, TypeOf
<1>9. NotesMapped'
  BY <1>8 DEF NotesMapped
<1> QED BY <1>1, <1>5, <1>6, <1>7, <1>9 DEF StrandInv

\* What indexing a record makes of the other rows.
LEMMA OtherRows ==
  ASSUME TypeInv, NEW t \in Threads, IndexRecord(t), NEW m \in Ids \ {proc[t].id}
  PROVE  rows'[m] = IF rows[m].path = proc[t].path THEN NoRow ELSE rows[m]
<1> DEFINE displaced == {n \in Ids \ {proc[t].id} : rows[n].path = proc[t].path}
           row == [path |-> proc[t].path, body |-> FileOf(t).body, type |-> FileOf(t).type]
<1>1. FileOf(t).id = proc[t].id
  BY FileOfTyped
<1>2. rows' = [RowsWithout(displaced) EXCEPT ![proc[t].id] = row]
  BY <1>1 DEF IndexRecord, Upsert
<1> HIDE DEF row
<1>3. /\ RowsWithout(displaced) \in [Ids -> Row]
      /\ RowsWithout(displaced)[m] = IF m \in displaced THEN NoRow ELSE rows[m]
  BY TablesWithout DEF TypeInv
<1> QED BY <1>2, <1>3

\* The record of a transcript does not touch the memories of authored files.
LEMMA StrandSession ==
  ASSUME TypeInv, TypeInv', NotesApart, StrandInv,
         NEW kind, Traces(TypeClass, kind), Traces(TypeClass, kind)',
         NEW t \in Threads, Process(t), proc[t].ref \in Sessions
  PROVE  StrandInv'
<1> DEFINE job == proc[t]
<1>1. /\ StoreTyped /\ ProcsTyped /\ job \in Proc /\ ProcOK(job) /\ JobOf(TypeClass, kind, job)
      /\ job.id \in Ids \cup {0} /\ job.ref \in Refs
  BY DEF TypeInv, ProcsTyped, Proc, Traces
<1>2. TypeClass[job.ref] = "session" /\ Sessions \cap Notes = {}
  BY <1>1 DEF TypeClass, TypeOf, Notes
<1>3. job.pc # "idle" /\ (job.id # 0 => kind[job.id] = "session")
  <2>1. job.pc # "idle"
    BY DEF Process, Skip, Compare, Lookup, Match, Attach, Write, IndexRecord, RecordMapping,
           NoteHash, Unmap, Count, Unfile, Drop
  <2> QED BY <1>1, <1>2, <2>1 DEF JobOf
<1>4. UNCHANGED map \/ map' = [map EXCEPT ![job.ref] = job.id] \/ map' = [map EXCEPT ![job.ref] = 0]
  BY DEF Process, Skip, Compare, Lookup, Match, Attach, Write, IndexRecord, RecordMapping,
         NoteHash, Unmap, Count, Unfile, Drop, storeVars
<1>5. \A r \in Notes : map'[r] = map[r]
  BY <1>1, <1>2, <1>4 DEF StoreTyped, Notes
<1>6. ASSUME NEW m \in Ids, kind[m] = "authored"
      PROVE  rows'[m] = rows[m] /\ vault'[m] = vault[m]
  <2>1. m # job.id /\ m # 0 /\ m \in Paths
    BY <1>3, <1>6, Constants
  <2>2. rows[m].path \in {0, m} /\ \A n \in Ids : rows[n].path = m => n = m
    BY <1>6, KindFacts
  <2>3. CASE \/ Skip(t) \/ Compare(t) \/ Lookup(t) \/ Match(t) \/ Attach(t) \/ RecordMapping(t)
             \/ NoteHash(t) \/ Unmap(t) \/ Count(t)
    BY <2>3 DEF Skip, Compare, Lookup, Match, Attach, RecordMapping, NoteHash, Unmap, Count, storeVars
  <2>4. CASE Write(t)
    <3>1. job.id \in Ids /\ \A r \in Refs : Slot[r] \notin Ids
      BY <1>1, <2>4, Constants DEF Write, ProcOK
    <3>2. PathFor(job.ref, job.id) # m
      BY <1>1, <2>1, <2>2, <3>1 DEF PathFor
    <3> QED BY <1>1, <2>1, <2>4, <3>2 DEF Write, StoreTyped
  <2>5. CASE IndexRecord(t)
    <3>1. job.path \in Paths /\ job.path # 0 /\ job.id \in Ids /\ job.id # 0
      BY <1>1, <2>5, Constants DEF IndexRecord, ProcOK, Proc
    <3>2. job.path # m
      <4>1. \E r \in Refs : job.path \in {job.id, Slot[r]}
        BY <1>1, <2>5 DEF IndexRecord, JobOf
      <4>2. \A r \in Refs : Slot[r] \notin Ids
        BY Constants
      <4> QED BY <2>1, <4>1, <4>2
    <3>3. rows'[m] = rows[m]
      BY <2>1, <2>2, <2>5, <3>1, <3>2, OtherRows
    <3> QED BY <2>5, <3>3 DEF IndexRecord
  <2>6. CASE Unfile(t)
    <3>1. job.id \in Ids /\ rows[job.id].path # m /\ UNCHANGED rows
      BY <1>1, <2>1, <2>2, <2>6 DEF Unfile, ProcOK
    <3>2. vault' = [vault EXCEPT ![rows[job.id].path] = NoFile] \/ UNCHANGED vault
      BY <2>6 DEF Unfile
    <3> QED BY <1>1, <2>1, <3>1, <3>2 DEF StoreTyped
  <2>7. CASE Drop(t)
    <3>1. UNCHANGED vault /\ rows' = RowsWithout({job.id})
      BY <2>7 DEF Drop, DeleteRows
    <3> QED BY <1>1, <2>1, <3>1, TablesWithout
  <2> QED BY <2>3, <2>4, <2>5, <2>6, <2>7 DEF Process
<1>7. UNCHANGED <<phase, todo, seen, op, torn>>
  BY DEF Process, Skip, Compare, Lookup, Match, Attach, Write, IndexRecord, RecordMapping,
         NoteHash, Unmap, Count, Unfile, Drop, Elsewhere, sweepVars
<1>8. /\ \A u \in Threads \ {t} : proc'[u] = proc[u]
      /\ proc'[t].pc = "idle" \/ proc'[t].ref = job.ref
  BY <1>1, Values DEF Process, Skip, Compare, Lookup, Match, Duplicate, Attach, Write, IndexRecord,
         RecordMapping, NoteHash, Unmap, Count, Unfile, Drop, Done, Goto, ProcsTyped, Proc
<1>9. \A u \in Threads : proc[u].pc = "map" /\ kind[proc[u].id] = "authored" => proc'[u] = proc[u]
  BY <1>1, <1>3, <1>8 DEF ProcOK
<1> QED BY <1>3, <1>5, <1>6, <1>7, <1>8, <1>9, StrandRests

\* The record of an authored file is the reconcile's: no sweep is under way.
LEMMA StrandNote ==
  ASSUME TypeInv, TypeInv', NotesApart, StrandInv,
         NEW kind, Traces(TypeClass, kind), Traces(TypeClass, kind)',
         NEW t \in Threads, Process(t), proc[t].ref \in Notes
  PROVE  StrandInv'
<1> DEFINE job == proc[t]
<1>1. /\ StoreTyped /\ ProcsTyped /\ job \in Proc /\ ProcOK(job) /\ JobOf(TypeClass, kind, job)
      /\ job.id \in Ids \cup {0} /\ job.ref \in Refs /\ job.body \in Bodies
      /\ job.path \in Paths \cup {0} /\ NoteJob(job)
  BY DEF TypeInv, ProcsTyped, Proc, Traces, StrandInv
<1>2. job.ref \notin Sessions /\ TypeOf(job.ref) = "authored" /\ TypeClass[job.ref] = "authored"
  BY <1>1 DEF Notes, TypeOf, TypeClass
<1>3. job.pc # "idle" /\ t = "reconcile"
  <2>1. job.pc # "idle"
    BY DEF Process, Skip, Compare, Lookup, Match, Attach, Write, IndexRecord, RecordMapping,
           NoteHash, Unmap, Count, Unfile, Drop
  <2> QED BY <1>2, <2>1 DEF StrandInv, Orderly
<1>4. phase = "walk" /\ op.pc = "idle" /\ \A r \in Refs : seen[r] = 0
  BY <1>3 DEF StrandInv, Orderly, SeenStill
<1>5. UNCHANGED <<phase, todo, seen, op, torn>>
  BY DEF Process, Skip, Compare, Lookup, Match, Attach, Write, IndexRecord, RecordMapping,
         NoteHash, Unmap, Count, Unfile, Drop, Elsewhere, sweepVars
<1>6. \A u \in Threads \ {t} : proc'[u] = proc[u]
  BY <1>1 DEF Process, Skip, Compare, Lookup, Match, Duplicate, Attach, Write, IndexRecord,
         RecordMapping, NoteHash, Unmap, Count, Unfile, Drop, Done, Goto, ProcsTyped
<1>7. Orderly' /\ SeenStill' /\ HidesFirst'
  <2>1. Orderly'
    BY <1>3, <1>4, <1>5, <1>6 DEF StrandInv, Orderly
  <2>2. SeenStill' /\ HidesFirst'
    BY <1>4, <1>5 DEF SeenStill, HidesFirst
  <2> QED BY <2>1, <2>2
<1>8. \A u \in Threads \ {t} : NoteJob(proc[u])'
  BY <1>3, <1>6 DEF StrandInv, Orderly, NoteJob, Notes
<1> SUFFICES NoteJob(proc[t])' /\ NotesMapped'
  BY <1>7, <1>8 DEF StrandInv
\* What was mapped is mapped, and nothing new is shown.
<1>9. ASSUME UNCHANGED <<rows, vault>>, job.pc # "map" \/ map'[job.ref] = job.id,
             \A r \in Refs : map[r] # 0 => map'[r] = map[r]
      PROVE  NotesMapped'
  <2> SUFFICES ASSUME NEW m \in Ids, Authored(m)', Shown(m)', m \notin torn'
               PROVE  \/ \E r \in Refs : map'[r] = m
                      \/ \E u \in Threads : proc'[u].pc = "map" /\ proc'[u].id = m
    BY DEF NotesMapped
  <2>1. Authored(m) /\ Shown(m) /\ m \notin torn /\ m # 0
    BY <1>5, <1>9, Constants DEF Authored, Shown, Indexed
  <2>2. \/ \E r \in Refs : map[r] = m
        \/ \E u \in Threads : proc[u].pc = "map" /\ proc[u].id = m
    BY <2>1 DEF StrandInv, NotesMapped
  <2> QED BY <1>1, <1>6, <1>9, <2>1, <2>2
<1>10. Done(t) => NoteJob(proc[t])'
  BY <1>1, Values DEF Done, NoteJob, ProcsTyped
<1>11. CASE Skip(t) \/ Compare(t) \/ Lookup(t)
  <2>1. UNCHANGED <<map, rows, vault>> /\ job.pc # "map"
    BY <1>11 DEF Skip, Compare, Lookup, storeVars
  <2>2. \/ Done(t)
        \/ /\ proc'[t].pc \in {"lookup", "compare", "match"} /\ proc'[t].ref = job.ref
           /\ proc'[t].pc = "match" => proc'[t].id = map[job.ref]
    BY <1>1, <1>2, <1>11 DEF Skip, Compare, Lookup, Goto, ProcsTyped, Proc
  <2> QED BY <1>9, <1>10, <2>1, <2>2 DEF NoteJob
<1>12. CASE Match(t)
  <2>1. UNCHANGED <<map, rows, vault>> /\ job.pc = "match" /\ job.id = map[job.ref]
    BY <1>1, <1>3, <1>12 DEF Match, NoteJob
  <2>2. \/ Done(t)
        \/ proc'[t].pc = "attach" /\ job.id = 0 /\ proc'[t].ref = job.ref
        \/ proc'[t].pc = "write" /\ job.id # 0 /\ proc'[t].id = job.id /\ proc'[t].ref = job.ref
        \/ /\ proc'[t].pc = "write" /\ job.id = 0 /\ proc'[t].id = minted + 1
           /\ proc'[t].ref = job.ref /\ minted < MaxIds
    BY <1>1, <1>2, <1>12 DEF Match, Duplicate, Goto, ProcsTyped, Proc
  <2>3. minted < MaxIds => ~ Indexed(minted + 1)
    <3>1. minted < MaxIds => minted + 1 \in Ids /\ ~ (minted + 1 <= minted)
      BY Numbers, IngestAssumption DEF Ids
    <3> QED BY <3>1 DEF Traces, RowsOf, Indexed
  <2>4. \A m : Indexed(m)' <=> Indexed(m)
    BY <2>1 DEF Indexed
  <2>5. NoteJob(proc[t])'
    BY <1>10, <2>1, <2>2, <2>3, <2>4 DEF NoteJob
  <2> QED BY <1>9, <2>1, <2>5
<1>13. CASE Attach(t)
  <2>1. job.pc = "attach" /\ map[job.ref] = 0 /\ UNCHANGED <<rows, vault>>
        /\ map' = [map EXCEPT ![job.ref] = job.id] /\ Done(t)
    BY <1>1, <1>3, <1>13 DEF Attach, NoteJob
  <2>2. \A r \in Refs : map[r] # 0 => map'[r] = map[r]
    BY <2>1 DEF StoreTyped
  <2> QED BY <1>9, <1>10, <2>1, <2>2
<1>14. CASE Write(t)
  <2> DEFINE p == PathFor(job.ref, job.id)
  <2>1. /\ job.pc = "write" /\ UNCHANGED <<map, rows>> /\ vault' = [vault EXCEPT ![p] = FileOf(t)]
        /\ job.id \in Ids /\ map[job.ref] \in {0, job.id} /\ (map[job.ref] = 0 => ~ Indexed(job.id))
        /\ proc' = [proc EXCEPT ![t].path = p, ![t].pc = "index"]
    BY <1>1, <1>3, <1>14 DEF Write, NoteJob, ProcOK
  <2>2. proc'[t].pc = "index" /\ proc'[t].id = job.id /\ proc'[t].ref = job.ref
    <3> HIDE DEF p
    <3> QED BY <1>1, <2>1 DEF ProcsTyped, Proc
  <2>3. NoteJob(proc[t])'
    <3>1. \A m : Indexed(m)' <=> Indexed(m)
      BY <2>1 DEF Indexed
    <3> QED BY <2>1, <2>2, <3>1 DEF NoteJob
  <2>4. kind[job.id] = "authored" /\ job.id # 0
    BY <1>1, <1>2, <1>3, <2>1, Constants DEF JobOf
  <2>5. p = job.id
    <3>1. rows[job.id].path \in {0, job.id}
      BY <2>1, <2>4, KindFacts
    <3>2. Slot[job.ref] = 0
      BY DEF NotesApart
    <3> QED BY <3>1, <3>2 DEF PathFor, Indexed
  <2> SUFFICES ASSUME NEW m \in Ids, Authored(m)', Shown(m)', m \notin torn'
               PROVE  \/ \E r \in Refs : map'[r] = m
                      \/ \E u \in Threads : proc'[u].pc = "map" /\ proc'[u].id = m
    BY <2>3 DEF NotesMapped
  <2>6. CASE m = job.id
    BY <1>1, <2>1, <2>6 DEF Authored, Indexed
  <2>7. CASE m # job.id
    <3>1. kind[m] = "authored" /\ m \in Paths
      BY KindNext, Constants
    <3>2. rows'[m].path = m /\ vault'[m] # NoFile /\ ~ vault'[m].gone
      BY <3>1, ShownNext
    <3>3. vault'[m] = vault[m] /\ rows'[m] = rows[m]
      BY <1>1, <2>1, <2>5, <2>7, <3>1 DEF StoreTyped
    <3>4. Authored(m) /\ Shown(m) /\ m \notin torn
      BY <1>5, <3>1, <3>2, <3>3, KindShown DEF Authored, Indexed
    <3>5. \/ \E r \in Refs : map[r] = m
          \/ \E u \in Threads : proc[u].pc = "map" /\ proc[u].id = m
      BY <3>4 DEF StrandInv, NotesMapped
    <3> QED BY <1>6, <2>1, <3>5
  <2> QED BY <2>6, <2>7
<1>15. CASE IndexRecord(t)
  <2>1. /\ job.pc = "index" /\ UNCHANGED <<map, vault>> /\ Upsert(FileOf(t), job.path) /\ Goto(t, "map")
        /\ job.id \in Ids /\ map[job.ref] \in {0, job.id} /\ job.path \in Paths /\ job.path # 0
    BY <1>1, <1>3, <1>15 DEF IndexRecord, NoteJob, ProcOK
  <2>2. proc'[t].pc = "map" /\ proc'[t].id = job.id /\ proc'[t].ref = job.ref
    BY <1>1, <2>1 DEF Goto, ProcsTyped, Proc
  <2>3. NoteJob(proc[t])'
    BY <2>1, <2>2 DEF NoteJob
  <2> SUFFICES ASSUME NEW m \in Ids, Authored(m)', Shown(m)', m \notin torn', m # job.id
               PROVE  \/ \E r \in Refs : map'[r] = m
                      \/ \E u \in Threads : proc'[u].pc = "map" /\ proc'[u].id = m
    BY <2>2, <2>3 DEF NotesMapped
  <2>4. kind[m] = "authored"
    BY KindNext
  <2>5. rows'[m].path = m /\ vault'[m] # NoFile /\ ~ vault'[m].gone /\ m # 0
    BY <2>4, ShownNext, Constants
  <2>6. rows'[m] = rows[m]
    BY <1>15, <2>5, OtherRows, Values
  <2>7. Authored(m) /\ Shown(m) /\ m \notin torn
    BY <1>5, <2>1, <2>4, <2>5, <2>6, KindShown DEF Authored, Indexed
  <2>8. \/ \E r \in Refs : map[r] = m
        \/ \E u \in Threads : proc[u].pc = "map" /\ proc[u].id = m
    BY <2>7 DEF StrandInv, NotesMapped
  <2> QED BY <1>6, <2>1, <2>8
<1>16. CASE RecordMapping(t)
  <2>1. /\ UNCHANGED <<rows, vault>> /\ map' = [map EXCEPT ![job.ref] = job.id] /\ Goto(t, "note")
        /\ map[job.ref] \in {0, job.id}
    BY <1>1, <1>3, <1>16 DEF RecordMapping, NoteJob
  <2>2. map'[job.ref] = job.id /\ \A r \in Refs : map[r] # 0 => map'[r] = map[r]
    BY <1>1, <2>1 DEF StoreTyped
  <2>3. NoteJob(proc[t])'
    BY <1>1, <2>1 DEF Goto, ProcsTyped, Proc, NoteJob
  <2> QED BY <1>9, <2>1, <2>2, <2>3
<1>17. CASE NoteHash(t)
  BY <1>9, <1>10, <1>17 DEF NoteHash
<1>18. ~ Unmap(t) /\ ~ Count(t) /\ ~ Unfile(t) /\ ~ Drop(t)
  BY <1>1 DEF NoteJob, Unmap, Count, Unfile, Drop
<1> QED BY <1>11, <1>12, <1>13, <1>14, <1>15, <1>16, <1>17, <1>18 DEF Process

LEMMA StrandEmit ==
  ASSUME TypeInv, TypeInv', NotesApart, StrandInv,
         NEW kind, Traces(TypeClass, kind), Traces(TypeClass, kind)',
         NEW t \in Threads, NEW r \in Refs, Emit(t, r), t = "reconcile" \/ r \in Watched
  PROVE  StrandInv'
<1>1. /\ UNCHANGED <<map, rows, vault, phase, seen, op, torn>> /\ proc[t].pc = "idle"
      /\ proc'[t].ref = r /\ proc'[t].pc \in {"skip", "lookup"}
  BY Values DEF Emit, storeVars, TypeInv, ProcsTyped, Proc
<1>2. \A u \in Threads \ {t} : proc'[u] = proc[u]
  BY DEF Emit, TypeInv, ProcsTyped
<1>3. CASE t # "reconcile"
  <2>1. r \in Sessions /\ UNCHANGED todo
    BY <1>3 DEF NotesApart, Emit
  <2> QED BY <1>1, <1>2, <1>3, <2>1, StrandRests
<1>4. CASE t = "reconcile"
  <2>1. phase = "walk"
    BY <1>4 DEF Emit
  <2>2. Orderly' /\ SeenStill' /\ HidesFirst'
    BY <1>1, <1>2, <1>4, <2>1 DEF StrandInv, Orderly, SeenStill, HidesFirst
  <2>3. \A u \in Threads : NoteJob(proc[u])'
    BY <1>1, <1>2, <1>4 DEF StrandInv, Orderly, NoteJob, Notes
  <2>4. NotesMapped'
    <3>1. \A m \in Ids : Authored(m)' /\ Shown(m)' => Authored(m) /\ Shown(m)
      BY <1>1 DEF Authored, Shown, Indexed
    <3> QED BY <1>1, <1>2, <3>1 DEF StrandInv, NotesMapped
  <2> QED BY <2>2, <2>3, <2>4 DEF StrandInv
<1> QED BY <1>3, <1>4

\* A step of the sweep or the prune leaves the records alone.
LEMMA StrandCycle ==
  ASSUME StrandInv, UNCHANGED <<proc, torn>>, proc["reconcile"].pc = "idle",
         phase' \in {"rest", "walk", "prune"}, op'.pc = "idle", \A r \in Refs : seen'[r] = 0,
         UNCHANGED <<map, vault>>, \A m \in Ids : rows'[m] \in {rows[m], NoRow}
  PROVE  StrandInv'
<1>1. Orderly' /\ SeenStill' /\ HidesFirst'
  BY DEF StrandInv, Orderly, SeenStill, HidesFirst
<1>2. \A t \in Threads : NoteJob(proc[t])'
  BY DEF StrandInv, Orderly, NoteJob, Notes
<1>3. NotesMapped'
  <2>1. \A m \in Ids : Authored(m)' /\ Shown(m)' => Authored(m) /\ Shown(m)
    BY Values DEF Authored, Shown, Indexed
  <2> QED BY <2>1 DEF StrandInv, NotesMapped
<1> QED BY <1>1, <1>2, <1>3 DEF StrandInv

LEMMA StrandScan ==
  ASSUME TypeInv, NotesApart, StrandInv, NEW kind, Traces(TypeClass, kind), SweepScan
  PROVE  StrandInv'
<1>1. /\ UNCHANGED <<map, rows, vault, op, proc, torn>> /\ phase = "walk" /\ phase' = "sweep"
      /\ proc["reconcile"].pc = "idle"
      /\ todo' = {r \in Refs : map[r] # 0 /\ ~ Indexed(map[r])}
      /\ \A r \in Refs : seen'[r] = IF Bound(r) THEN map[r] ELSE 0
  BY DEF SweepScan, Outside, storeVars
<1>2. Orderly' /\ HidesFirst' /\ \A t \in Threads : NoteJob(proc[t])'
  BY <1>1 DEF StrandInv, Orderly, HidesFirst, NoteJob, Notes
<1>3. SeenStill'
  <2>1. ASSUME NEW r \in Refs, Bound(r) PROVE r \in Notes \ todo'
    <3>1. kind[map[r]] = TypeOf(r) /\ Authored(map[r]) /\ map[r] \in Ids
      BY <2>1, KindFacts DEF Bound, Authored
    <3>2. TypeOf(r) = "authored"
      BY <3>1, KindFacts
    <3> QED BY <1>1, <2>1, <3>2 DEF Bound, TypeOf, Notes
  <2>2. \A m : Indexed(m)' <=> Indexed(m)
    BY <1>1 DEF Indexed
  <2> QED BY <1>1, <2>1, <2>2 DEF SeenStill
<1>4. NotesMapped'
  <2>1. \A m \in Ids : Authored(m)' /\ Shown(m)' => Authored(m) /\ Shown(m)
    BY <1>1 DEF Authored, Shown, Indexed
  <2> QED BY <1>1, <2>1 DEF StrandInv, NotesMapped
<1> QED BY <1>2, <1>3, <1>4 DEF StrandInv

LEMMA StrandOrphan ==
  ASSUME TypeInv, NotesApart, StrandInv, NEW kind, Traces(TypeClass, kind),
         NEW r \in Refs, DropOrphan(r)
  PROVE  StrandInv'
<1>1. /\ UNCHANGED <<rows, vault, phase, seen, op, proc, torn>> /\ phase = "sweep" /\ r \in todo
      /\ map' = [map EXCEPT ![r] = 0] /\ todo' = todo \ {r}
  BY DEF DropOrphan, Outside
<1>2. op.pc = "idle" /\ proc["reconcile"].pc = "idle"
  BY <1>1 DEF StrandInv, Orderly
<1>3. Orderly' /\ HidesFirst' /\ \A t \in Threads : NoteJob(proc[t])'
  BY <1>1, <1>2 DEF StrandInv, Orderly, HidesFirst, NoteJob, Notes
<1>4. SeenStill'
  <2>1. \A m : Indexed(m)' <=> Indexed(m)
    BY <1>1 DEF Indexed
  <2> QED BY <1>1, <2>1 DEF StrandInv, SeenStill, TypeInv, StoreTyped, Notes
<1>5. ASSUME NEW m \in Ids, Authored(m)', Shown(m)', m \notin torn'
      PROVE  \/ \E q \in Refs : map'[q] = m
             \/ \E t \in Threads : proc'[t].pc = "map" /\ proc'[t].id = m
  <2>1. Authored(m) /\ Shown(m) /\ m \notin torn
    BY <1>1, <1>5 DEF Authored, Shown, Indexed
  <2>2. map[r] # m
    <3> SUFFICES ASSUME map[r] = m PROVE FALSE
      OBVIOUS
    <3>1. kind[m] = "authored" /\ kind[m] = TypeOf(r) /\ Indexed(m) /\ m # 0
      BY <2>1, KindFacts, Constants DEF Shown
    <3>2. r \in Notes
      BY <3>1 DEF TypeOf, Notes
    <3> QED BY <1>1, <3>1, <3>2 DEF StrandInv, SeenStill
  <2> QED BY <1>1, <2>1, <2>2 DEF StrandInv, NotesMapped, TypeInv, StoreTyped
<1> QED BY <1>3, <1>4, <1>5 DEF StrandInv, NotesMapped

LEMMA StrandExamine ==
  ASSUME TypeInv, NotesApart, StrandInv, NEW m \in Ids, Examine(m)
  PROVE  StrandInv'
<1> DEFINE live == {r \in Of(m) \ unsure : Stat(r)}
           dead == (Of(m) \ unsure) \ live
           lost == dead # {} /\ dead = Of(m)
<1>1. /\ UNCHANGED <<map, rows, vault, phase, todo, proc, torn>> /\ phase = "sweep" /\ todo = {}
      /\ op' = [NoOp EXCEPT !.pc = IF lost THEN "read" ELSE "unmap", !.id = m, !.gone = lost,
                            !.live = (live # {}), !.dead = dead]
      /\ seen' = [r \in Refs |-> IF seen[r] = m THEN 0 ELSE seen[r]] /\ Of(m) # {}
  BY DEF Examine, Outside, storeVars
<1>2. dead \subseteq Of(m) /\ lost \in BOOLEAN
  OBVIOUS
<1>3. \A r \in Of(m) : map[r] = m /\ seen'[r] = 0 /\ r \in Notes
  BY <1>1, Constants DEF StrandInv, SeenStill, Of
<1>4. lost => dead # {}
  OBVIOUS
<1>5. ~ lost => \E r \in Of(m) : r \notin dead
  BY <1>1, <1>2
<1> HIDE DEF live, dead, lost
<1>6. op'.pc = (IF lost THEN "read" ELSE "unmap") /\ op'.id = m /\ op'.gone = lost /\ op'.dead = dead
  BY <1>1, Values DEF Op
<1>7. HidesFirst'
  BY <1>2, <1>3, <1>4, <1>5, <1>6, <1>1 DEF HidesFirst
<1>8. Orderly' /\ SeenStill'
  <2>1. \A n : Indexed(n)' <=> Indexed(n)
    BY <1>1 DEF Indexed
  <2> QED BY <1>1, <2>1 DEF StrandInv, Orderly, SeenStill
<1>9. \A t \in Threads : NoteJob(proc[t])'
  BY <1>1 DEF StrandInv, Orderly, NoteJob, Notes
<1>10. NotesMapped'
  <2>1. \A n \in Ids : Authored(n)' /\ Shown(n)' => Authored(n) /\ Shown(n)
    BY <1>1 DEF Authored, Shown, Indexed
  <2> QED BY <1>1, <2>1 DEF StrandInv, NotesMapped
<1> QED BY <1>7, <1>8, <1>9, <1>10 DEF StrandInv

\* The sweep hides a memory, or shows it.
LEMMA StrandHide ==
  ASSUME TypeInv, TypeInv', NotesApart, StrandInv,
         NEW kind, Traces(TypeClass, kind), Traces(TypeClass, kind)',
         ReadFile \/ WriteFile \/ IndexFile \/ UnmapDone \/ \E r \in Refs : UnmapDead(r)
  PROVE  StrandInv'
<1>1. op.pc # "idle" /\ UNCHANGED <<phase, todo, seen, proc, torn>>
  BY DEF ReadFile, WriteFile, IndexFile, UnmapDone, UnmapDead, Outside
<1>2. phase = "sweep" /\ todo = {} /\ proc["reconcile"].pc = "idle"
  BY <1>1 DEF StrandInv, Orderly
<1>3. PICK n \in Ids : n = op.id
  BY <1>1 DEF TypeInv, SweepTyped, OpOK, Op
<1>4. /\ op.id = n
      /\ \A r \in op.dead : map[r] = n /\ seen[r] = 0 /\ r \in Notes
      /\ op.gone /\ op.pc # "unmap" => op.dead # {}
      /\ op.gone /\ op.pc = "unmap" /\ op.dead # {} => ~ Shown(n)
      /\ ~ op.gone => \E r \in Notes \ op.dead : map[r] = n
      /\ op.pc \in {"write", "index"} => op.file.id = n /\ op.path = n /\ op.file.gone = op.gone
      /\ op.pc = "index" => vault[n] = NoFile \/ vault[n].gone = op.gone
  BY <1>3, <1>1 DEF StrandInv, HidesFirst
<1>5. /\ StoreTyped /\ OpOK(op) /\ n \in Ids /\ n # 0 /\ n \in Paths /\ op.file \in File
      /\ op \in [pc : {"idle", "read", "write", "index", "unmap"}, id : Ids \cup {0},
                 gone : BOOLEAN, live : BOOLEAN, dead : SUBSET Refs, file : File,
                 path : Paths \cup {0}]
  BY <1>3, <1>1, Constants DEF TypeInv, SweepTyped, OpOK, Op
<1>6. op.dead # {} \/ ~ op.gone => kind[n] = "authored"
  <2>1. \A r \in Notes : map[r] # 0 => kind[map[r]] = "authored"
    BY KindFacts DEF Notes, TypeOf
  <2> QED BY <1>4, <1>5, <2>1
<1>7. \A t \in Threads : NoteJob(proc[t])'
  BY <1>1, <1>2 DEF StrandInv, Orderly, NoteJob, Notes
<1>8. Orderly'
  BY <1>1, <1>2 DEF StrandInv, Orderly
<1>9. UNCHANGED map => SeenStill'
  BY <1>1, <1>2 DEF StrandInv, SeenStill
<1>10. UNCHANGED <<map, rows, vault>> => NotesMapped'
  <2>1. UNCHANGED <<rows, vault>> => \A m \in Ids : Authored(m)' /\ Shown(m)' => Authored(m) /\ Shown(m)
    BY DEF Authored, Shown, Indexed
  <2> QED BY <1>1, <2>1 DEF StrandInv, NotesMapped
<1>11. op' = NoOp => HidesFirst'
  BY Values DEF HidesFirst
<1>12. CASE ReadFile
  <2> DEFINE p == rows[n].path
  <2>1. UNCHANGED <<map, rows, vault>> /\ op.pc = "read"
    BY <1>3, <1>12 DEF ReadFile, storeVars
  <2>2. CASE p # 0 /\ vault[p] # NoFile
             /\ op' = [op EXCEPT !.pc = "write", !.file = [vault[p] EXCEPT !.gone = op.gone], !.path = p]
    <3>1. kind[n] = "authored"
      BY <1>4, <1>5, <1>6, <2>1
    <3>2. p = n /\ vault[p].id = n /\ vault[p] \in File
      <4>1. rows[n].path \in {0, n}
        BY <1>5, <3>1, KindFacts
      <4>2. vault[n] = NoFile \/ vault[n].id = n
        BY <1>5, KindFacts
      <4> QED BY <1>5, <2>2, <4>1, <4>2 DEF StoreTyped
    <3> HIDE DEF p
    <3>3. [vault[p] EXCEPT !.gone = op.gone].id = n /\ [vault[p] EXCEPT !.gone = op.gone].gone = op.gone
      BY <1>5, <3>2 DEF File
    <3>4. op'.pc = "write" /\ op'.path = n /\ op'.id = n /\ op'.dead = op.dead /\ op'.gone = op.gone
          /\ op'.file.id = n /\ op'.file.gone = op.gone
      BY <1>3, <1>5, <2>2, <3>2, <3>3
    <3>5. HidesFirst'
      BY <1>1, <1>4, <2>1, <3>4 DEF HidesFirst
    <3> QED BY <1>7, <1>8, <1>9, <1>10, <2>1, <3>5 DEF StrandInv
  <2>3. CASE op' = NoOp
    BY <1>7, <1>8, <1>9, <1>10, <1>11, <2>1, <2>3 DEF StrandInv
  <2> QED BY <1>3, <1>12, <2>2, <2>3 DEF ReadFile
<1>13. CASE UnmapDone
  <2>1. UNCHANGED <<map, rows, vault>> /\ op.pc = "unmap"
    BY <1>13 DEF UnmapDone, storeVars
  <2>2. CASE ~ op.gone /\ op' = [op EXCEPT !.pc = "read"]
    <3>1. op'.pc = "read" /\ op'.id = n /\ op'.dead = op.dead /\ ~ op'.gone
      BY <1>3, <1>5, <2>2
    <3>2. HidesFirst'
      BY <1>1, <1>4, <2>1, <2>2, <3>1 DEF HidesFirst
    <3> QED BY <1>7, <1>8, <1>9, <1>10, <2>1, <3>2 DEF StrandInv
  <2>3. CASE op' = NoOp
    BY <1>7, <1>8, <1>9, <1>10, <1>11, <2>1, <2>3 DEF StrandInv
  <2> QED BY <1>13, <2>2, <2>3 DEF UnmapDone
<1>14. CASE WriteFile
  <2>1. /\ op.pc = "write" /\ UNCHANGED <<map, rows>> /\ vault' = [vault EXCEPT ![n] = op.file]
        /\ kind[n] = "authored" /\ op.file.gone = op.gone
        /\ op'.pc = "index" /\ op'.id = n /\ op'.dead = op.dead /\ op'.gone = op.gone
        /\ op'.file = op.file /\ op'.path = n /\ op.file.id = n
    BY <1>4, <1>5, <1>6, <1>3, <1>14 DEF WriteFile
  <2>2. vault'[n] = op.file /\ \A m \in Ids \ {n} : vault'[m] = vault[m]
    BY <1>5, <2>1, Constants DEF StoreTyped
  <2>3. HidesFirst'
    BY <1>1, <1>4, <2>1, <2>2 DEF HidesFirst
  <2>4. ASSUME NEW m \in Ids, Authored(m)', Shown(m)', m \notin torn'
        PROVE  \/ \E r \in Refs : map'[r] = m
               \/ \E t \in Threads : proc'[t].pc = "map" /\ proc'[t].id = m
    <3>1. kind[m] = "authored"
      BY <2>4, KindNext
    <3>2. rows'[m].path = m /\ vault'[m] # NoFile /\ ~ vault'[m].gone
      BY <2>4, <3>1, ShownNext
    <3>3. CASE m = n
      <4>1. ~ op.gone
        BY <2>1, <2>2, <3>2, <3>3
      <4> QED BY <1>4, <2>1, <3>3, <4>1 DEF Notes
    <3>4. CASE m # n
      <4>1. Authored(m) /\ Shown(m) /\ m \notin torn
        BY <1>1, <2>1, <2>2, <2>4, <3>1, <3>2, <3>4, KindShown DEF Authored, Indexed
      <4> QED BY <1>1, <2>1, <4>1 DEF StrandInv, NotesMapped
    <3> QED BY <3>3, <3>4
  <2> QED BY <1>7, <1>8, <1>9, <2>1, <2>3, <2>4 DEF StrandInv, NotesMapped
<1>15. CASE IndexFile
  <2>1. /\ op.pc = "index" /\ UNCHANGED <<map, vault>> /\ Upsert(op.file, n) /\ op.file.id = n
        /\ kind[n] = "authored" /\ (vault[n] = NoFile \/ vault[n].gone = op.gone)
        /\ op' = IF op.gone THEN [op EXCEPT !.pc = "unmap"] ELSE NoOp
    BY <1>4, <1>5, <1>6, <1>3, <1>15 DEF IndexFile
  <2>2. \A m \in Ids \ {n} : rows'[m] = IF rows[m].path = n THEN NoRow ELSE rows[m]
    <3> DEFINE displaced == {m \in Ids \ {n} : rows[m].path = n}
               row == [path |-> n, body |-> op.file.body, type |-> op.file.type]
    <3>1. rows' = [RowsWithout(displaced) EXCEPT ![n] = row]
      BY <2>1 DEF Upsert
    <3> HIDE DEF row
    <3>2. /\ RowsWithout(displaced) \in [Ids -> Row]
          /\ \A m \in Ids : RowsWithout(displaced)[m] = IF m \in displaced THEN NoRow ELSE rows[m]
      BY <1>5, TablesWithout
    <3> QED BY <3>1, <3>2
  <2>3. op.gone => ~ Shown(n)'
    <3>1. Shown(n)' => vault'[n] # NoFile /\ ~ vault'[n].gone
      BY <1>5, <2>1, ShownNext
    <3> QED BY <2>1, <3>1
  <2>4. HidesFirst'
    <3>1. CASE op.gone
      <4>1. op'.pc = "unmap" /\ op'.id = n /\ op'.dead = op.dead /\ op'.gone
        BY <1>3, <1>5, <2>1, <3>1
      <4> QED BY <1>1, <1>4, <2>1, <2>3, <3>1, <4>1 DEF HidesFirst
    <3> QED BY <1>11, <2>1, <3>1
  <2>5. ASSUME NEW m \in Ids, Authored(m)', Shown(m)', m \notin torn'
        PROVE  \/ \E r \in Refs : map'[r] = m
               \/ \E t \in Threads : proc'[t].pc = "map" /\ proc'[t].id = m
    <3>1. kind[m] = "authored"
      BY <2>5, KindNext
    <3>2. rows'[m].path = m /\ vault'[m] # NoFile /\ ~ vault'[m].gone /\ m # 0
      BY <2>5, <3>1, ShownNext, Constants
    <3>3. CASE m = n
      <4>1. ~ op.gone
        BY <2>1, <3>2, <3>3
      <4> QED BY <1>4, <2>1, <3>3, <4>1 DEF Notes
    <3>4. CASE m # n
      <4>1. rows'[m] = rows[m]
        BY <2>2, <3>2, <3>4, Values
      <4>2. Authored(m) /\ Shown(m) /\ m \notin torn
        BY <1>1, <2>1, <2>5, <3>1, <3>2, <4>1, KindShown DEF Authored, Indexed
      <4> QED BY <1>1, <2>1, <4>2 DEF StrandInv, NotesMapped
    <3> QED BY <3>3, <3>4
  <2> QED BY <1>7, <1>8, <1>9, <2>1, <2>4, <2>5 DEF StrandInv, NotesMapped
<1>16. ASSUME NEW r \in Refs, UnmapDead(r) PROVE StrandInv'
  <2>1. /\ op.pc = "unmap" /\ r \in op.dead /\ map' = [map EXCEPT ![r] = 0]
        /\ UNCHANGED <<rows, vault>> /\ op'.pc = "unmap" /\ op'.id = n
        /\ op'.dead = op.dead \ {r} /\ op'.gone = op.gone
    BY <1>3, <1>5, <1>16 DEF UnmapDead
  <2>2. map[r] = n /\ seen[r] = 0 /\ \A q \in Refs \ {r} : map'[q] = map[q]
    BY <1>4, <1>5, <2>1 DEF StoreTyped
  <2>3. SeenStill'
    <3>1. \A q \in Refs : seen'[q] # 0 => phase' = "sweep" /\ map'[q] = seen'[q] /\ q \in Notes \ todo'
      BY <1>1, <2>2 DEF StrandInv, SeenStill
    <3> QED BY <1>1, <1>2, <3>1 DEF SeenStill
  <2>4. HidesFirst'
    <3>1. ~ op.gone => \E q \in Notes \ op'.dead : map'[q] = op'.id
      BY <1>4, <2>1, <2>2 DEF Notes
    <3>2. op.gone /\ op'.dead # {} => ~ Shown(n)'
      <4>1. \A m : Shown(m)' <=> Shown(m)
        BY <2>1 DEF Shown, Indexed
      <4> QED BY <1>4, <2>1, <4>1
    <3>3. \A q \in op'.dead : map'[q] = op'.id /\ seen'[q] = 0 /\ q \in Notes
      BY <1>1, <1>4, <1>5, <2>1, <2>2
    <3> QED BY <2>1, <3>1, <3>2, <3>3 DEF HidesFirst
  <2>5. ASSUME NEW m \in Ids, Authored(m)', Shown(m)', m \notin torn'
        PROVE  \/ \E q \in Refs : map'[q] = m
               \/ \E t \in Threads : proc'[t].pc = "map" /\ proc'[t].id = m
    <3>1. Authored(m) /\ Shown(m) /\ m \notin torn
      BY <1>1, <2>1, <2>5 DEF Authored, Shown, Indexed
    <3>2. CASE m = n
      <4>1. ~ op.gone
        BY <1>4, <2>1, <3>1, <3>2
      <4> QED BY <1>4, <2>1, <2>2, <3>2, <4>1 DEF Notes
    <3>3. CASE m # n
      BY <1>1, <2>2, <3>1, <3>3 DEF StrandInv, NotesMapped
    <3> QED BY <3>2, <3>3
  <2> QED BY <1>7, <1>8, <2>3, <2>4, <2>5 DEF StrandInv, NotesMapped
<1> QED BY <1>12, <1>13, <1>14, <1>15, <1>16

LEMMA StrandSweep ==
  ASSUME TypeInv, TypeInv', NotesApart, StrandInv,
         NEW kind, Traces(TypeClass, kind), Traces(TypeClass, kind)', Reconcile
  PROVE  StrandInv'
<1>1. CASE BeginCycle \/ PruneScan \/ EndCycle \/ \E m \in Ids : PruneRow(m)
  <2>1. phase # "walk" /\ phase' \in {"rest", "walk", "prune"} /\ op.pc = "idle"
        /\ \A r \in Refs : seen[r] = 0
    BY <1>1 DEF BeginCycle, PruneScan, EndCycle, PruneRow, StrandInv, Orderly, SeenStill
  <2>2. proc["reconcile"].pc = "idle"
    BY <2>1 DEF StrandInv, Orderly
  <2>3. UNCHANGED <<proc, torn, seen, op, map, vault>>
    BY <1>1 DEF BeginCycle, PruneScan, EndCycle, PruneRow, Outside, storeVars
  <2>4. \A m \in Ids : rows'[m] \in {rows[m], NoRow}
    <3>1. UNCHANGED rows \/ \E m \in Ids : rows' = RowsWithout({m})
      BY <1>1 DEF BeginCycle, PruneScan, EndCycle, PruneRow, DeleteRows, storeVars
    <3> QED BY <3>1 DEF RowsWithout
  <2> QED BY <2>1, <2>2, <2>3, <2>4, StrandCycle
<1>2. ASSUME NEW r \in Refs, PassBy(r) PROVE StrandInv'
  <2>1. UNCHANGED <<map, rows, vault, phase, seen, op, proc, torn>> /\ phase = "walk"
    BY <1>2 DEF PassBy, Outside, storeVars
  <2>2. Orderly' /\ SeenStill' /\ HidesFirst'
    BY <2>1 DEF StrandInv, Orderly, SeenStill, HidesFirst
  <2>3. \A m : (Indexed(m)' <=> Indexed(m)) /\ (Shown(m)' <=> Shown(m)) /\ (Authored(m)' <=> Authored(m))
    BY <2>1 DEF Indexed, Shown, Authored
  <2>4. \A t \in Threads : NoteJob(proc[t])'
    BY <2>1, <2>3 DEF StrandInv, NoteJob
  <2>5. NotesMapped'
    BY <2>1, <2>3 DEF StrandInv, NotesMapped
  <2> QED BY <2>2, <2>4, <2>5 DEF StrandInv
<1>3. "reconcile" \in Threads
  BY IngestAssumption
<1> QED BY <1>1, <1>2, <1>3, StrandEmit, StrandScan, StrandOrphan, StrandExamine, StrandHide
        DEF Reconcile

LEMMA StrandFaults ==
  ASSUME TypeInv, TypeInv', NotesApart, StrandInv,
         NEW kind, Traces(TypeClass, kind), Traces(TypeClass, kind)',
         \/ Unmount \/ Remount \/ FailSweep \/ Crash \/ UNCHANGED vars
         \/ \E t \in Threads : Fail(t)
         \/ \E p \in Paths : Forget(p)
         \/ \E r \in Refs : Save(r) \/ Restore(r) \/ Remove(r)
  PROVE  StrandInv'
<1>1. UNCHANGED <<map, rows>>
  BY DEF Unmount, Remount, FailSweep, Crash, Fail, Forget, Save, Restore, Remove, Still,
         storeVars, vars
<1>2. \A p \in Paths : vault'[p] \in {vault[p], NoFile}
  <2>1. UNCHANGED vault \/ \E p \in Paths : vault' = [vault EXCEPT ![p] = NoFile]
    BY DEF Unmount, Remount, FailSweep, Crash, Fail, Forget, Save, Restore, Remove, Still,
           storeVars, vars
  <2> QED BY <2>1 DEF TypeInv, StoreTyped
<1>3. CASE Crash
  <2>1. /\ \A t \in Threads : proc'[t].pc = "idle"
        /\ op'.pc = "idle" /\ \A r \in Refs : seen'[r] = 0
        /\ phase' = "rest" /\ UNCHANGED vault /\ torn' = TornBy(Threads)
    BY <1>3, Values DEF Crash, NoSweep, storeVars
  <2>2. Orderly' /\ SeenStill' /\ HidesFirst' /\ \A t \in Threads : NoteJob(proc[t])'
    <3>1. "reconcile" \in Threads
      BY IngestAssumption
    <3> QED BY <2>1, <3>1 DEF Orderly, SeenStill, HidesFirst, NoteJob
  <2>3. NotesMapped'
    <3>1. \A m \in Ids : Authored(m)' /\ Shown(m)' => Authored(m) /\ Shown(m)
      BY <1>1, <2>1 DEF Authored, Shown, Indexed
    <3>2. torn \subseteq torn' /\ \A t \in Threads : proc[t].pc = "map" => proc[t].id \in torn'
      BY <2>1 DEF TornBy
    <3> QED BY <1>1, <3>1, <3>2 DEF StrandInv, NotesMapped
  <2> QED BY <2>2, <2>3 DEF StrandInv
<1>4. CASE FailSweep
  <2>1. /\ UNCHANGED <<map, vault, rows, proc, torn>> /\ phase \in {"sweep", "prune"}
        /\ phase' = "rest" /\ op'.pc = "idle" /\ \A r \in Refs : seen'[r] = 0
    BY <1>4, Values DEF FailSweep, NoSweep, storeVars
  <2>2. proc["reconcile"].pc = "idle"
    BY <2>1 DEF StrandInv, Orderly
  <2> QED BY <2>1, <2>2, StrandCycle
<1>5. CASE \/ Unmount \/ Remount \/ UNCHANGED vars \/ (\E p \in Paths : Forget(p))
           \/ \E r \in Refs : Save(r) \/ Restore(r) \/ Remove(r)
  <2>1. UNCHANGED <<phase, todo, seen, op, torn, proc>>
    BY <1>5 DEF Unmount, Remount, Forget, Save, Restore, Remove, Still, sweepVars, vars
  <2> QED BY <1>1, <1>2, <2>1, Constants, StrandRests
<1>6. ASSUME NEW t \in Threads, Fail(t) PROVE StrandInv'
  <2>1. UNCHANGED <<phase, todo, seen, op>> /\ torn' = TornBy({t}) /\ Done(t)
    BY <1>6 DEF Fail, sweepVars
  <2>2. torn \subseteq torn' /\ (proc[t].pc = "map" => proc[t].id \in torn')
    BY <2>1 DEF TornBy
  <2>3. proc'[t].pc = "idle" /\ \A u \in Threads \ {t} : proc'[u] = proc[u]
    BY <2>1, Values DEF Done, TypeInv, ProcsTyped
  <2> QED BY <1>1, <1>2, <2>1, <2>2, <2>3, Constants, StrandRests
<1> QED BY <1>3, <1>4, <1>5, <1>6

LEMMA StrandStep ==
  ASSUME TypeInv, TypeInv', NotesApart, StrandInv, [Next]_vars,
         NEW kind \in [Ids -> Types], Traces(TypeClass, kind)
  PROVE  StrandInv' /\ \E next \in [Ids -> Types] : Traces(TypeClass, next)'
<1>1. PICK next \in [Ids -> Types] : Traces(TypeClass, next) /\ Traces(TypeClass, next)'
  BY Apart, TracesStep
<1>2. CASE Reconcile
  BY <1>1, <1>2, StrandSweep
<1>3. ASSUME NEW t \in Threads, Process(t) PROVE StrandInv'
  <2>1. proc[t].ref \in Sessions \/ proc[t].ref \in Notes
    BY DEF TypeInv, ProcsTyped, Proc, Notes
  <2> QED BY <1>1, <1>3, <2>1, StrandSession, StrandNote
<1>4. CASE "live" \in Threads /\ \E r \in Watched : Emit("live", r)
  <2>1. Watched \subseteq Refs
    BY IngestAssumption
  <2> QED BY <1>1, <1>4, <2>1, StrandEmit
<1>5. CASE \/ Unmount \/ Remount \/ FailSweep \/ Crash \/ UNCHANGED vars
           \/ \E t \in Threads : Fail(t)
           \/ \E p \in Paths : Forget(p)
           \/ \E r \in Refs : Save(r) \/ Restore(r) \/ Remove(r)
  BY <1>1, <1>5, StrandFaults
<1>6. StrandInv'
  BY <1>2, <1>3, <1>4, <1>5 DEF Next
<1> QED BY <1>1, <1>6

LEMMA StrandInit ==
  ASSUME Init
  PROVE  StrandInv /\ \E kind \in [Ids -> Types] : Traces(TypeClass, kind)
<1>1. StrandInv
  <2>1. \A t \in Threads : proc[t].pc = "idle"
    BY Values DEF Init
  <2>2. "reconcile" \in Threads /\ op.pc = "idle"
    BY Values, IngestAssumption DEF Init
  <2>3. \A m \in Ids : ~ Indexed(m)
    BY Values DEF Init, Indexed
  <2>4. phase = "rest" /\ \A r \in Refs : seen[r] = 0
    BY DEF Init
  <2> QED BY <2>1, <2>2, <2>3, <2>4
          DEF StrandInv, Orderly, SeenStill, NoteJob, HidesFirst, NotesMapped, Authored
<1>2. [m \in Ids |-> "authored"] \in [Ids -> Types]
  BY DEF Types
<1> QED BY <1>1, <1>2, TracesInit

\* cli.py:1621-1624: no authored memory is both visible and out of the sweep's reach, for
\* want of a mapping, unless an error came between the two rows of its record.  Whatever
\* the reconcile, a live drain of the transcripts, the sweep, the prune pass and every
\* fault do to one another; NotesApart leaves out what a watched authored file can do to
\* a sweep that is under way.
THEOREM NothingStranded ==
  ASSUME NotesApart
  PROVE  Spec => []NeverStranded
<1> DEFINE Inv == TypeInv /\ StrandInv /\ \E kind \in [Ids -> Types] : Traces(TypeClass, kind)
<1>1. Init => Inv
  BY TypesInit, StrandInit
<1>2. Inv /\ [Next]_vars => Inv'
  BY TypesStep, StrandStep
<1>3. Inv => NeverStranded
  <2> SUFFICES ASSUME StrandInv, NEW m \in Ids, Authored(m), Shown(m), ~ Busy(m), m \notin torn
               PROVE  \E r \in Refs : map[r] = m
    BY DEF NeverStranded
  <2> QED BY DEF StrandInv, NotesMapped, Busy
<1> HIDE DEF Inv
<1> QED BY <1>1, <1>2, <1>3, PTL DEF Spec

-----------------------------------------------------------------------------
(* What is skipped is stored *)

\* A file has its texts and its path to itself, none of its texts comes back, and the
\* reconcile and a live drain are never on one file at once.
TextsApart ==
  /\ NotesApart
  /\ "overlap" \notin Faults
  /\ \A r, q \in Refs : r # q =>
       /\ \A b \in Bodies : ~ (TextOf(r, b) /\ TextOf(q, b))
       /\ Slot[r] # 0 => Slot[r] # Slot[q]
  /\ \A r \in Refs : \A i, j \in DOMAIN Texts[r] : Texts[r][i] = Texts[r][j] => i = j

RefClass == [r \in Refs |-> r]

\* The texts of r with a hash row are among its first k.
Known(r, k) == \A i \in DOMAIN Texts[r] : hash[Texts[r][i]] # 0 => i <= k

Holds(p, b) == vault[p] = NoFile \/ vault[p].body = b

\* The memory that has the present text of r by its hash row has it.
Held(r) ==
  LET m == hash[Content(r)] IN
  Indexed(m) => rows[m].body = Content(r) /\ Holds(rows[m].path, Content(r))

\* No text newer than the one in hand has a hash row.
JobText(job) ==
  job.pc # "idle" =>
    \E k \in 1..ver[job.ref] : job.body = Texts[job.ref][k] /\ Known(job.ref, k)

JobStored(job) ==
  /\ job.pc \in {"index", "map", "note"} => Holds(job.path, job.body)
  /\ job.pc \in {"map", "note"} /\ Indexed(job.id) =>
       rows[job.id].path = job.path /\ rows[job.id].body = job.body

OneOnEach ==
  \A t, u \in Threads : t # u /\ proc[t].pc # "idle" /\ proc[u].pc # "idle" =>
    proc[t].ref # proc[u].ref

OpStored ==
  /\ op.pc \in {"write", "index"} => \A r \in Refs : hash[Content(r)] = op.id => op.file.body = Content(r)
  /\ op.pc = "index" => Holds(op.path, op.file.body)

SkipInv ==
  /\ \A r \in Refs : Known(r, ver[r]) /\ Held(r)
  /\ \A t \in Threads : JobText(proc[t]) /\ JobStored(proc[t])
  /\ OneOnEach /\ OpStored

LEMMA ContentAt ==
  ASSUME SourceTyped, NEW r \in Refs
  PROVE  /\ ver[r] \in DOMAIN Texts[r] /\ ver[r] \in Nat \ {0} /\ DOMAIN Texts[r] \subseteq Nat
         /\ Content(r) = Texts[r][ver[r]] /\ Content(r) \in Bodies
         /\ \A i \in DOMAIN Texts[r] : Texts[r][i] \in Bodies /\ TextOf(r, Texts[r][i])
<1>1. Texts[r] \in Seq(Bodies) /\ ver[r] \in Nat \ {0} /\ ver[r] <= Len(Texts[r])
  BY IngestAssumption DEF SourceTyped
<1>2. ver[r] \in 1..Len(Texts[r])
  BY <1>1
<1> QED BY <1>1, <1>2 DEF Content, TextOf

\* What there is of a memory is at the paths of its ref.
LEMMA RefFacts ==
  ASSUME TypeInv, TextsApart, NEW kind, Traces(RefClass, kind)
  PROVE  /\ \A r \in Refs : \A b \in Bodies : TextOf(r, b) /\ hash[b] # 0 =>
              hash[b] \in Ids /\ kind[hash[b]] = r
         /\ \A m \in Ids : rows[m].path # 0 =>
              kind[m] \in Refs /\ rows[m].path \in Paths /\ rows[m].path \in {m, Slot[kind[m]]}
         /\ \A t \in Threads : proc[t].pc # "idle" =>
              /\ proc[t].ref \in Refs /\ TextOf(proc[t].ref, proc[t].body) /\ proc[t].body \in Bodies
              /\ proc[t].id # 0 => proc[t].id \in Ids /\ kind[proc[t].id] = proc[t].ref
              /\ proc[t].pc \in {"index", "map", "note"} =>
                   /\ proc[t].id \in Ids /\ kind[proc[t].id] = proc[t].ref
                   /\ proc[t].path \in Paths /\ proc[t].path \in {proc[t].id, Slot[proc[t].ref]}
<1>1. \A r \in Refs : RefClass[r] = r
  BY DEF RefClass
<1>2. ASSUME NEW r \in Refs, NEW b \in Bodies, TextOf(r, b), hash[b] # 0
      PROVE  hash[b] \in Ids /\ kind[hash[b]] = r
  <2>1. hash[b] \in Ids
    BY <1>2 DEF TypeInv, StoreTyped
  <2>2. PICK q \in Refs : kind[hash[b]] = q /\ TextOf(q, b)
    BY <1>1, <1>2 DEF Traces, HashOf
  <2> QED BY <1>2, <2>1, <2>2 DEF TextsApart
<1>3. ASSUME NEW m \in Ids, rows[m].path # 0
      PROVE  kind[m] \in Refs /\ rows[m].path \in Paths /\ rows[m].path \in {m, Slot[kind[m]]}
  <2>1. rows[m].path \in Paths
    BY <1>3, Constants, IndexedPath DEF TypeInv, Indexed
  <2> QED BY <1>1, <1>3, <2>1 DEF Traces, RowsOf
<1>4. ASSUME NEW t \in Threads, proc[t].pc # "idle"
      PROVE  /\ proc[t].ref \in Refs /\ TextOf(proc[t].ref, proc[t].body) /\ proc[t].body \in Bodies
             /\ proc[t].id # 0 => proc[t].id \in Ids /\ kind[proc[t].id] = proc[t].ref
             /\ proc[t].pc \in {"index", "map", "note"} =>
                  /\ proc[t].id \in Ids /\ kind[proc[t].id] = proc[t].ref
                  /\ proc[t].path \in Paths /\ proc[t].path \in {proc[t].id, Slot[proc[t].ref]}
  <2>1. proc[t] \in Proc /\ ProcOK(proc[t]) /\ JobOf(RefClass, kind, proc[t])
    BY DEF TypeInv, ProcsTyped, Traces
  <2>2. proc[t].ref \in Refs /\ proc[t].body \in Bodies /\ proc[t].id \in Ids \cup {0}
        /\ proc[t].path \in Paths \cup {0}
    BY <2>1 DEF Proc
  <2>3. proc[t].pc \in {"index", "map", "note"} => proc[t].id # 0 /\ proc[t].path # 0
    BY <2>1 DEF ProcOK
  <2> QED BY <1>1, <1>4, <2>1, <2>2, <2>3 DEF JobOf
<1> QED BY <1>2, <1>3, <1>4

\* Memories that can meet on a path are of one ref.
LEMMA OnePath ==
  ASSUME TextsApart, NEW m \in Ids, NEW n \in Ids, NEW r \in Refs, NEW q \in Refs,
         NEW p \in Paths, p \in {m, Slot[r]}, p \in {n, Slot[q]}
  PROVE  m = n \/ r = q
<1>1. p # 0 /\ \A s \in Refs : Slot[s] \notin Ids
  BY Constants
<1> QED BY <1>1 DEF TextsApart

\* The present text has a hash row: it is the one in hand.
LEMMA Newest ==
  ASSUME TypeInv, SkipInv, NEW t \in Threads, proc[t].pc # "idle", proc[t].ref \in Refs,
         hash[Content(proc[t].ref)] # 0
  PROVE  proc[t].body = Content(proc[t].ref)
<1> DEFINE r == proc[t].ref
<1>1. ver[r] \in DOMAIN Texts[r] /\ ver[r] \in Nat /\ Content(r) = Texts[r][ver[r]]
  BY ContentAt DEF TypeInv
<1>2. PICK k \in 1..ver[r] : proc[t].body = Texts[r][k] /\ Known(r, k)
  BY DEF SkipInv, JobText
<1>3. ver[r] <= k
  BY <1>1, <1>2 DEF Known
<1> QED BY <1>1, <1>2, <1>3

\* The sweep works on the memory of an authored file, while no record of such is under way.
LEMMA OpFacts ==
  ASSUME TypeInv, TextsApart, StrandInv, NEW kind, Traces(RefClass, kind),
         op.pc \in {"read", "write", "index"}
  PROVE  /\ op.id \in Ids /\ kind[op.id] \in Notes
         /\ \A t \in Threads : proc[t].pc # "idle" => proc[t].ref \in Sessions
         /\ op.pc \in {"write", "index"} => op.file \in File /\ op.file.id = op.id /\ op.path = op.id
<1>1. op.id \in Ids /\ op.id # 0 /\ op.file \in File
  BY Constants DEF TypeInv, SweepTyped, OpOK, Op
<1>2. \A t \in Threads : proc[t].pc # "idle" => proc[t].ref \in Sessions
  BY DEF StrandInv, Orderly
<1>3. \E r \in Notes : map[r] = op.id
  BY DEF StrandInv, HidesFirst
<1>4. \A r \in Refs : map[r] # 0 => kind[map[r]] = r
  BY DEF Traces, MapOf, RefClass
<1>5. op.pc \in {"write", "index"} => op.file.id = op.id /\ op.path = op.id
  BY DEF StrandInv, HidesFirst
<1> QED BY <1>1, <1>2, <1>3, <1>4, <1>5 DEF Notes

\* A record that is dropped, or goes on with the same text and past its write with the
\* same memory and path.
GoesOn(t) ==
  \/ proc'[t].pc = "idle"
  \/ /\ proc[t].pc # "idle" /\ proc'[t].ref = proc[t].ref /\ proc'[t].body = proc[t].body
     /\ proc'[t].pc \in {"index", "map", "note"} =>
          /\ proc[t].pc \in {"map", "note"} /\ proc'[t].pc \in {"map", "note"}
          /\ proc'[t].id = proc[t].id /\ proc'[t].path = proc[t].path

\* Rows and files go, and what is there stays as it is.
OnlyLess ==
  /\ \A b \in Bodies : hash'[b] \in {hash[b], 0}
  /\ \A m \in Ids : rows'[m] \in {rows[m], NoRow}
  /\ \A p \in Paths : vault'[p] \in {vault[p], NoFile}

LEMMA LessHeld ==
  ASSUME TypeInv, TextsApart, NEW kind, Traces(RefClass, kind), SkipInv, OnlyLess, UNCHANGED ver,
         NEW r \in Refs
  PROVE  Held(r)' /\ \A k : Known(r, k) => Known(r, k)'
<1> DEFINE b == Content(r)  m == hash[b]
<1>1. b \in Bodies /\ b' = b /\ \A i \in DOMAIN Texts[r] : Texts[r][i] \in Bodies
  BY ContentAt DEF TypeInv, Content
<1>2. ASSUME Indexed(m)'
      PROVE  rows'[m].body = b /\ (vault'[rows'[m].path] = NoFile \/ vault'[rows'[m].path].body = b)
             /\ hash'[b] = m
  <2>1. hash'[b] = m /\ m # 0 /\ rows'[m].path # 0
    BY <1>1, <1>2 DEF OnlyLess, Indexed
  <2>2. m \in Ids
    BY <1>1, <2>1 DEF TypeInv, StoreTyped
  <2>3. rows'[m] = rows[m]
    BY <2>1, <2>2, Values DEF OnlyLess
  <2>4. rows[m].path \in Paths
    BY <2>1, <2>2, <2>3, RefFacts
  <2>5. rows[m].body = b /\ Holds(rows[m].path, b)
    BY <2>1, <2>3 DEF SkipInv, Held, Indexed
  <2>6. vault'[rows[m].path] \in {vault[rows[m].path], NoFile}
    BY <2>4 DEF OnlyLess
  <2> QED BY <2>1, <2>3, <2>5, <2>6 DEF Holds
<1>3. \A k : Known(r, k) => Known(r, k)'
  BY <1>1 DEF Known, OnlyLess
<1>4. Held(r)'
  BY <1>1, <1>2 DEF Held, Holds
<1> QED BY <1>3, <1>4

LEMMA LessJobs ==
  ASSUME TypeInv, TextsApart, NEW kind, Traces(RefClass, kind), SkipInv, OnlyLess, UNCHANGED ver,
         NEW t \in Threads, proc'[t] = proc[t] \/ GoesOn(t)
  PROVE  JobText(proc[t])' /\ JobStored(proc[t])'
<1>1. CASE proc'[t].pc = "idle"
  BY <1>1 DEF JobText, JobStored
<1>2. CASE /\ proc[t].pc # "idle" /\ proc'[t].ref = proc[t].ref /\ proc'[t].body = proc[t].body
           /\ proc'[t].pc \in {"index", "map", "note"} =>
                /\ proc[t].pc \in {"index", "map", "note"}
                /\ proc'[t].pc \in {"map", "note"} => proc[t].pc \in {"map", "note"}
                /\ proc'[t].id = proc[t].id /\ proc'[t].path = proc[t].path
  <2>1. proc[t].ref \in Refs
    BY <1>2, RefFacts
  <2>2. JobText(proc[t])'
    <3>1. PICK k \in 1..ver[proc[t].ref] :
            proc[t].body = Texts[proc[t].ref][k] /\ Known(proc[t].ref, k)
      BY <1>2 DEF SkipInv, JobText
    <3>2. \A q \in Refs : \A j : Known(q, j) => Known(q, j)'
      BY LessHeld
    <3>3. Known(proc[t].ref, k)'
      BY <1>2, <2>1, <3>1, <3>2 DEF Known
    <3> QED BY <1>2, <3>1, <3>3 DEF JobText
  <2>3. JobStored(proc[t])'
    <3> SUFFICES ASSUME proc'[t].pc \in {"index", "map", "note"} PROVE JobStored(proc[t])'
      BY DEF JobStored
    <3>1. proc[t].path \in Paths /\ proc[t].id \in Ids
      BY <1>2, RefFacts
    <3>2. Holds(proc[t].path, proc[t].body)'
      BY <1>2, <3>1 DEF SkipInv, JobStored, Holds, OnlyLess
    <3>3. ASSUME proc'[t].pc \in {"map", "note"}, rows'[proc[t].id].path # 0, proc[t].id # 0
          PROVE  rows'[proc[t].id].path = proc[t].path /\ rows'[proc[t].id].body = proc[t].body
      <4>1. rows'[proc[t].id] = rows[proc[t].id] /\ Indexed(proc[t].id)
        BY <3>1, <3>3, Values DEF OnlyLess, Indexed
      <4> QED BY <1>2, <3>3, <4>1 DEF SkipInv, JobStored
    <3> QED BY <1>2, <3>2, <3>3 DEF JobStored, Holds, Indexed
  <2> QED BY <2>2, <2>3
<1> QED BY <1>1, <1>2 DEF GoesOn

LEMMA SkipRests ==
  ASSUME TypeInv, TextsApart, NEW kind, Traces(RefClass, kind), SkipInv, OnlyLess, UNCHANGED ver,
         OpStored', \A t \in Threads : proc'[t] = proc[t] \/ GoesOn(t)
  PROVE  SkipInv'
<1>1. \A r \in Refs : Held(r)' /\ (\A k : Known(r, k) => Known(r, k)')
  BY LessHeld
<1>2. \A r \in Refs : Known(r, ver[r])'
  BY <1>1 DEF SkipInv, Known
<1>3. \A t \in Threads : JobText(proc[t])' /\ JobStored(proc[t])'
  BY LessJobs
<1>4. OneOnEach'
  BY DEF GoesOn, SkipInv, OneOnEach
<1> QED BY <1>1, <1>2, <1>3, <1>4 DEF SkipInv

\* The sweep's work in hand is left alone, or put down.
LEMMA OpRests ==
  ASSUME TypeInv, SkipInv, UNCHANGED ver, OnlyLess, UNCHANGED op \/ op'.pc \notin {"write", "index"}
  PROVE  OpStored'
<1>1. CASE op'.pc \notin {"write", "index"}
  BY <1>1 DEF OpStored
<1>2. CASE UNCHANGED op /\ op.pc \in {"write", "index"}
  <2>1. op.path \in Paths /\ op.id # 0
    BY <1>2, Constants DEF TypeInv, SweepTyped, OpOK, Op
  <2>2. \A r \in Refs : Content(r) \in Bodies /\ Content(r)' = Content(r)
    BY ContentAt DEF TypeInv, Content
  <2>3. \A r \in Refs : (hash[Content(r)] = op.id)' => op.file.body = Content(r)
    BY <1>2, <2>1, <2>2 DEF SkipInv, OpStored, OnlyLess
  <2>4. op.pc = "index" => Holds(op.path, op.file.body)'
    BY <1>2, <2>1 DEF SkipInv, OpStored, OnlyLess, Holds
  <2> QED BY <1>2, <2>2, <2>3, <2>4 DEF OpStored, Holds
<1> QED BY <1>1, <1>2

\* The steps of a record that store nothing.
LEMMA SkipQuiet ==
  ASSUME TypeInv, TextsApart, NEW kind, Traces(RefClass, kind), SkipInv, NEW t \in Threads,
         \/ Skip(t) \/ Compare(t) \/ Lookup(t) \/ Match(t) \/ Attach(t) \/ RecordMapping(t)
         \/ Unmap(t) \/ Count(t) \/ Unfile(t) \/ Drop(t)
  PROVE  SkipInv'
<1>1. StoreTyped /\ ProcsTyped /\ proc[t] \in Proc /\ ProcOK(proc[t])
  BY DEF TypeInv, ProcsTyped
<1>2. UNCHANGED <<ver, op>>
  BY DEF Skip, Compare, Lookup, Match, Attach, RecordMapping, Unmap, Count, Unfile, Drop,
         Elsewhere, sweepVars, sourceVars, fileVars
<1>3. OnlyLess
  <2>1. CASE \/ Skip(t) \/ Compare(t) \/ Lookup(t) \/ Match(t) \/ Attach(t) \/ RecordMapping(t)
             \/ Unmap(t) \/ Count(t)
    BY <2>1 DEF OnlyLess, Skip, Compare, Lookup, Match, Attach, RecordMapping, Unmap, Count, storeVars
  <2>2. CASE Unfile(t)
    <3>1. \A p \in Paths : vault'[p] \in {vault[p], NoFile}
      BY <1>1, <2>2 DEF Unfile, StoreTyped
    <3> QED BY <2>2, <3>1 DEF OnlyLess, Unfile
  <2>3. CASE Drop(t)
    <3>1. /\ \A m \in Ids : rows'[m] \in {rows[m], NoRow}
          /\ \A b \in Bodies : hash'[b] \in {hash[b], 0}
      BY <1>1, <2>3, TablesWithout DEF Drop, DeleteRows
    <3> QED BY <2>3, <3>1 DEF OnlyLess, Drop
  <2> QED BY <2>1, <2>2, <2>3
<1>4. \A u \in Threads \ {t} : proc'[u] = proc[u]
  BY <1>1 DEF Skip, Compare, Lookup, Match, Duplicate, Attach, RecordMapping, Unmap, Count,
              Unfile, Drop, Done, Goto, ProcsTyped
<1>5. GoesOn(t)
  <2>1. proc[t].pc # "idle"
    BY DEF Skip, Compare, Lookup, Match, Attach, RecordMapping, Unmap, Count, Unfile, Drop
  <2>2. CASE RecordMapping(t)
    BY <1>1, <2>1, <2>2 DEF RecordMapping, Goto, GoesOn, ProcsTyped, Proc
  <2>3. CASE ~ RecordMapping(t)
    <3>1. \/ proc' = [proc EXCEPT ![t] = NoProc]
          \/ \E stage \in {"lookup", "count", "unfile", "drop", "unmap", "write"} :
               proc' = [proc EXCEPT ![t].pc = stage]
          \/ \E stage \in {"lookup", "compare", "unmap", "match", "attach", "write"}, id \in Nat :
               proc' = [proc EXCEPT ![t].id = id, ![t].pc = stage]
      <4>1. map[proc[t].ref] \in Nat /\ minted + 1 \in Nat /\ hash[proc[t].body] \in Nat
        BY <1>1, Numbers DEF Proc
      <4> QED BY <2>3, <4>1 DEF Skip, Compare, Lookup, Match, Duplicate, Attach, Unmap, Count,
                                Unfile, Drop, Done, Goto
    <3>2. CASE proc' = [proc EXCEPT ![t] = NoProc]
      BY <1>1, <3>2, Values DEF GoesOn, ProcsTyped
    <3>3. ASSUME NEW stage \in {"lookup", "count", "unfile", "drop", "unmap", "write"},
                 proc' = [proc EXCEPT ![t].pc = stage]
          PROVE  GoesOn(t)
      BY <1>1, <2>1, <3>3 DEF GoesOn, ProcsTyped, Proc
    <3>4. ASSUME NEW stage \in {"lookup", "compare", "unmap", "match", "attach", "write"},
                 NEW id \in Nat, proc' = [proc EXCEPT ![t].id = id, ![t].pc = stage]
          PROVE  GoesOn(t)
      BY <1>1, <2>1, <3>4 DEF GoesOn, ProcsTyped, Proc
    <3> QED BY <3>1, <3>2, <3>3, <3>4
  <2> QED BY <2>2, <2>3
<1>6. OpStored'
  BY <1>2, <1>3, OpRests
<1> QED BY <1>2, <1>3, <1>4, <1>5, <1>6, SkipRests

\* Vault.write: what it replaces is the file of the same ref, and no newer text.
LEMMA SkipWrite ==
  ASSUME TypeInv, TextsApart, StrandInv, NEW kind, Traces(RefClass, kind), SkipInv,
         NEW t \in Threads, Write(t)
  PROVE  SkipInv'
<1> DEFINE job == proc[t]  p == PathFor(job.ref, job.id)
<1>1. /\ StoreTyped /\ ProcsTyped /\ job \in Proc /\ job.pc = "write"
      /\ job.id \in Ids /\ job.ref \in Refs /\ kind[job.id] = job.ref
  <2>1. job \in Proc /\ ProcOK(job) /\ job.pc = "write"
    BY DEF Write, TypeInv, ProcsTyped
  <2>2. job.id # 0
    BY <2>1 DEF ProcOK
  <2> QED BY <2>1, <2>2, RefFacts DEF TypeInv
<1>2. p \in Paths /\ p \in {job.id, Slot[job.ref]}
  <2>1. p \in Paths
    BY <1>1, PathForTyped
  <2>2. rows[job.id].path # 0 => rows[job.id].path \in {job.id, Slot[job.ref]}
    BY <1>1, RefFacts
  <2> QED BY <2>1, <2>2 DEF PathFor, Indexed
<1> HIDE DEF p
<1>3. /\ vault' = [vault EXCEPT ![p] = FileOf(t)] /\ UNCHANGED <<rows, hash, ver, op>>
      /\ proc' = [proc EXCEPT ![t].path = p, ![t].pc = "index"]
  BY DEF Write, p, Elsewhere, sweepVars, sourceVars, fileVars
<1>4. vault'[p].body = job.body /\ \A s \in Paths \ {p} : vault'[s] = vault[s]
  BY <1>1, <1>2, <1>3, FileOfTyped DEF StoreTyped
<1>5. /\ \A u \in Threads \ {t} : proc'[u] = proc[u]
      /\ proc'[t].pc = "index" /\ proc'[t].path = p /\ proc'[t].ref = job.ref
      /\ proc'[t].body = job.body
  BY <1>1, <1>3 DEF ProcsTyped, Proc
<1>6. \A r \in Refs : Content(r)' = Content(r)
  BY <1>3 DEF Content
<1>7. ASSUME NEW r \in Refs PROVE Known(r, ver[r])' /\ Held(r)'
  <2>1. Known(r, ver[r])'
    BY <1>3 DEF SkipInv, Known
  <2>2. ASSUME Indexed(hash[Content(r)])
        PROVE  rows[hash[Content(r)]].body = Content(r)
               /\ Holds(rows[hash[Content(r)]].path, Content(r))'
    <3>1. PICK m \in Ids : m = hash[Content(r)] /\ kind[m] = r /\ rows[m].path \in Paths
                           /\ rows[m].path \in {m, Slot[r]}
      <4>1. Content(r) \in Bodies /\ TextOf(r, Content(r)) /\ hash[Content(r)] # 0
            /\ rows[hash[Content(r)]].path # 0
        BY <2>2, ContentAt DEF Indexed, TypeInv
      <4> QED BY <4>1, RefFacts
    <3>2. rows[m].body = Content(r) /\ Holds(rows[m].path, Content(r))
      BY <2>2, <3>1 DEF SkipInv, Held
    <3>3. CASE rows[m].path # p
      BY <1>3, <1>4, <1>6, <3>1, <3>2, <3>3 DEF Holds
    <3>4. CASE rows[m].path = p
      <4>1. r = job.ref
        BY <1>1, <1>2, <3>1, <3>4, OnePath
      <4>2. hash[Content(job.ref)] # 0 /\ job.pc # "idle"
        BY <1>1, <2>2, <4>1 DEF Indexed
      <4>3. job.body = Content(r)
        BY <1>1, <4>1, <4>2, Newest
      <4> QED BY <1>3, <1>4, <1>6, <3>1, <3>2, <3>4, <4>3 DEF Holds
    <3> QED BY <3>3, <3>4
  <2> QED BY <1>3, <1>6, <2>1, <2>2 DEF Held, Indexed, Holds
<1>8. ASSUME NEW u \in Threads PROVE JobText(proc[u])'
  <2>1. /\ proc'[u].ref = proc[u].ref /\ proc'[u].body = proc[u].body
        /\ proc'[u].pc # "idle" => proc[u].pc # "idle"
    BY <1>1, <1>5
  <2> QED BY <1>3, <2>1 DEF SkipInv, JobText, Known
<1>9. ASSUME NEW u \in Threads PROVE JobStored(proc[u])'
  <2>1. CASE u = t
    BY <1>2, <1>4, <1>5, <2>1 DEF JobStored, Holds
  <2>2. CASE u # t /\ proc[u].pc \in {"index", "map", "note"}
    <3>1. /\ proc[u].id \in Ids /\ proc[u].ref \in Refs /\ proc[u].path \in Paths
          /\ proc[u].path \in {proc[u].id, Slot[proc[u].ref]} /\ kind[proc[u].id] = proc[u].ref
      BY <2>2, RefFacts
    <3>2. proc[u].ref # job.ref
      BY <1>1, <2>2 DEF SkipInv, OneOnEach
    <3>3. proc[u].path # p
      BY <1>1, <1>2, <3>1, <3>2, OnePath
    <3>4. vault'[proc[u].path] = vault[proc[u].path] /\ proc'[u] = proc[u] /\ JobStored(proc[u])
      BY <1>4, <1>5, <2>2, <3>1, <3>3 DEF SkipInv
    <3> QED BY <1>3, <3>4 DEF JobStored, Holds, Indexed
  <2>3. CASE u # t /\ proc[u].pc \notin {"index", "map", "note"}
    BY <1>5, <2>3 DEF JobStored
  <2> QED BY <2>1, <2>2, <2>3
<1>10. OneOnEach'
  BY <1>1, <1>5 DEF SkipInv, OneOnEach
<1>11. OpStored'
  <2>1. op.pc = "index" => op.path \in Paths /\ op.path # p
    <3>1. op.pc = "index" => /\ op.id \in Ids /\ kind[op.id] \in Notes /\ op.path = op.id
                             /\ job.ref \in Sessions
      BY <1>1, OpFacts
    <3>2. \A r \in Refs : Slot[r] \notin Ids
      BY Constants
    <3> QED BY <1>1, <1>2, <3>1, <3>2, Constants DEF Notes
  <2> QED BY <1>3, <1>4, <1>6, <2>1 DEF SkipInv, OpStored, Holds
<1> QED BY <1>7, <1>8, <1>9, <1>10, <1>11 DEF SkipInv

\* Index.upsert of a file whose body is the present text, where the present text has a
\* hash row of the file's memory.
LEMMA UpsertHeld ==
  ASSUME TypeInv, TextsApart, NEW kind, Traces(RefClass, kind), SkipInv,
         NEW file \in File, file.id # 0, NEW p \in Paths, Upsert(file, p),
         UNCHANGED <<vault, ver>>, Holds(p, file.body),
         \A r \in Refs : hash[Content(r)] = file.id => file.body = Content(r)
  PROVE  /\ \A r \in Refs : Known(r, ver[r])' /\ Held(r)'
         /\ \A b \in Bodies : hash'[b] \in {hash[b], 0}
         /\ \A m \in Ids \ {file.id} : rows'[m] \in {rows[m], NoRow}
         /\ rows'[file.id].path = p /\ rows'[file.id].body = file.body
<1>1. /\ StoreTyped
      /\ rows'[file.id].path = p /\ rows'[file.id].body = file.body
      /\ \A m \in Ids \ {file.id} : rows'[m] \in {rows[m], NoRow}
      /\ \A b \in Bodies : hash'[b] \in {hash[b], 0}
  <2>1. StoreTyped
    BY DEF TypeInv
  <2>2. /\ rows'[file.id] = [path |-> p, body |-> file.body, type |-> file.type]
        /\ \A m \in Ids \ {file.id} : rows'[m] = IF rows[m].path = p THEN NoRow ELSE rows[m]
        /\ \A b \in Bodies : hash'[b] = hash[b] \/ hash'[b] = 0
    BY <2>1, UpsertTables
  <2> QED BY <2>1, <2>2
<1>2. ASSUME NEW r \in Refs PROVE Known(r, ver[r])' /\ Held(r)'
  <2> DEFINE b == Content(r)
  <2>1. b \in Bodies /\ b' = b /\ \A i \in DOMAIN Texts[r] : Texts[r][i] \in Bodies
    BY ContentAt DEF TypeInv, Content
  <2>2. Known(r, ver[r])'
    BY <1>1, <2>1 DEF SkipInv, Known
  <2>3. ASSUME hash'[b] # 0, rows'[hash'[b]].path # 0
        PROVE  rows'[hash'[b]].body = b /\ Holds(rows'[hash'[b]].path, b)
    <3>1. PICK m \in Ids : m = hash'[b] /\ m = hash[b]
      BY <1>1, <2>1, <2>3 DEF StoreTyped
    <3>2. CASE m = file.id
      BY <1>1, <3>1, <3>2
    <3>3. CASE m # file.id
      <4>1. rows'[m] = rows[m] /\ m # 0 /\ rows[m].path # 0
        BY <1>1, <2>3, <3>1, <3>3, Values
      <4> QED BY <3>1, <4>1 DEF SkipInv, Held, Indexed
    <3> QED BY <3>2, <3>3
  <2>4. Held(r)'
    BY <2>1, <2>3 DEF Held, Indexed, Holds
  <2> QED BY <2>2, <2>4
<1> QED BY <1>1, <1>2

LEMMA SkipIndex ==
  ASSUME TypeInv, TextsApart, StrandInv, NEW kind, Traces(RefClass, kind), SkipInv,
         NEW t \in Threads, IndexRecord(t)
  PROVE  SkipInv'
<1> DEFINE job == proc[t]
<1>1. /\ ProcsTyped /\ job \in Proc /\ job.pc = "index" /\ job.ref \in Refs /\ job.id \in Ids
      /\ kind[job.id] = job.ref /\ job.path \in Paths /\ job.id # 0 /\ job.body \in Bodies
  <2>1. job \in Proc /\ job.pc = "index"
    BY DEF IndexRecord, TypeInv, ProcsTyped
  <2> QED BY <2>1, RefFacts, Constants DEF TypeInv
<1>2. /\ FileOf(t) \in File /\ FileOf(t).id = job.id /\ FileOf(t).body = job.body
  BY FileOfTyped
<1>3. /\ Upsert(FileOf(t), job.path) /\ UNCHANGED <<vault, ver, op>>
      /\ proc' = [proc EXCEPT ![t].pc = "map"]
  BY DEF IndexRecord, Goto, Elsewhere, sweepVars, sourceVars, fileVars
<1>4. Holds(job.path, job.body)
  BY <1>1 DEF SkipInv, JobStored
<1>5. ASSUME NEW r \in Refs, hash[Content(r)] = job.id PROVE job.body = Content(r)
  <2>1. r = job.ref
    <3>1. Content(r) \in Bodies /\ TextOf(r, Content(r))
      BY ContentAt DEF TypeInv
    <3> QED BY <1>1, <1>5, <3>1, RefFacts
  <2>2. hash[Content(job.ref)] # 0 /\ job.pc # "idle"
    BY <1>1, <1>5, <2>1
  <2> QED BY <1>1, <2>1, <2>2, Newest
<1>6. /\ \A r \in Refs : Known(r, ver[r])' /\ Held(r)'
      /\ \A b \in Bodies : hash'[b] \in {hash[b], 0}
      /\ \A m \in Ids \ {job.id} : rows'[m] \in {rows[m], NoRow}
      /\ rows'[job.id].path = job.path /\ rows'[job.id].body = job.body
  BY <1>1, <1>2, <1>3, <1>4, <1>5, UpsertHeld
<1>7. /\ \A u \in Threads \ {t} : proc'[u] = proc[u]
      /\ proc'[t] = [job EXCEPT !.pc = "map"] /\ proc'[t].pc = "map" /\ proc'[t].id = job.id
      /\ proc'[t].path = job.path /\ proc'[t].ref = job.ref /\ proc'[t].body = job.body
  BY <1>1, <1>3 DEF ProcsTyped, Proc
<1>8. ASSUME NEW u \in Threads PROVE JobText(proc[u])'
  <2>1. /\ proc'[u].ref = proc[u].ref /\ proc'[u].body = proc[u].body
        /\ proc'[u].pc # "idle" => proc[u].pc # "idle"
    BY <1>1, <1>7
  <2>2. ASSUME proc[u].pc # "idle"
        PROVE  \E k \in 1..ver[proc[u].ref] :
                 /\ proc[u].body = Texts[proc[u].ref][k]
                 /\ \A i \in DOMAIN Texts[proc[u].ref] : hash'[Texts[proc[u].ref][i]] # 0 => i <= k
    <3>1. proc[u].ref \in Refs
      BY <2>2, RefFacts
    <3>2. \A i \in DOMAIN Texts[proc[u].ref] : Texts[proc[u].ref][i] \in Bodies
      BY <3>1, ContentAt DEF TypeInv
    <3> QED BY <1>6, <2>2, <3>2 DEF SkipInv, JobText, Known
  <2> QED BY <1>3, <2>1, <2>2 DEF JobText, Known
<1>9. ASSUME NEW u \in Threads PROVE JobStored(proc[u])'
  <2>1. CASE u = t
    BY <1>3, <1>4, <1>6, <1>7, <2>1 DEF JobStored, Holds
  <2>2. CASE u # t /\ proc[u].pc \in {"index", "map", "note"}
    <3>1. proc[u].id \in Ids /\ kind[proc[u].id] = proc[u].ref
      BY <2>2, RefFacts
    <3>2. proc[u].ref # job.ref
      BY <1>1, <2>2 DEF SkipInv, OneOnEach
    <3>3. rows'[proc[u].id] \in {rows[proc[u].id], NoRow}
      BY <1>1, <1>6, <3>1, <3>2
    <3>4. proc'[u] = proc[u] /\ JobStored(proc[u])
      BY <1>7, <2>2 DEF SkipInv
    <3> QED BY <1>3, <3>3, <3>4, Values DEF JobStored, Holds, Indexed
  <2>3. CASE u # t /\ proc[u].pc \notin {"index", "map", "note"}
    BY <1>7, <2>3 DEF JobStored
  <2> QED BY <2>1, <2>2, <2>3
<1>10. OneOnEach'
  <2>1. \A u \in Threads : proc'[u].ref = proc[u].ref /\ (proc'[u].pc # "idle" => proc[u].pc # "idle")
    BY <1>1, <1>7
  <2> QED BY <2>1 DEF SkipInv, OneOnEach
<1>11. OpStored'
  <2>1. \A r \in Refs : Content(r) \in Bodies /\ Content(r)' = Content(r)
    BY <1>3, ContentAt DEF TypeInv, Content
  <2>2. op.pc \in {"write", "index"} => op.id # 0
    BY DEF TypeInv, SweepTyped, OpOK
  <2> QED BY <1>3, <1>6, <2>1, <2>2 DEF SkipInv, OpStored, Holds
<1> QED BY <1>6, <1>8, <1>9, <1>10, <1>11 DEF SkipInv

\* record_body_hash: the text it records is the one that the row and the file have.
LEMMA SkipNote ==
  ASSUME TypeInv, TextsApart, StrandInv, NEW kind, Traces(RefClass, kind), SkipInv,
         NEW t \in Threads, NoteHash(t)
  PROVE  SkipInv'
<1> DEFINE job == proc[t]
<1>1. /\ ProcsTyped /\ StoreTyped /\ job.pc = "note" /\ job.ref \in Refs /\ job.id \in Ids
      /\ kind[job.id] = job.ref /\ job.path \in Paths /\ job.body \in Bodies
      /\ TextOf(job.ref, job.body) /\ JobStored(job) /\ JobText(job)
  <2>1. job.pc = "note"
    BY DEF NoteHash
  <2> QED BY <2>1, RefFacts DEF TypeInv, SkipInv
<1>2. UNCHANGED <<vault, rows, ver, op>>
  BY DEF NoteHash, Elsewhere, sweepVars, sourceVars, fileVars
<1>3. \A b \in Bodies : \/ hash'[b] \in {hash[b], 0}
                        \/ b = job.body /\ hash'[b] = job.id /\ Indexed(job.id)
  <2>1. /\ HashWithout({job.id}) \in [Bodies -> Ids \cup {0}]
        /\ \A b \in Bodies : HashWithout({job.id})[b] \in {0, hash[b]}
    BY <1>1, TablesWithout
  <2> QED BY <1>1, <2>1 DEF NoteHash
<1>4. \A u \in Threads : /\ proc'[u].pc # "idle" => proc'[u] = proc[u] /\ u # t
                         /\ u = t => proc'[u].pc = "idle"
  BY <1>1, Values DEF NoteHash, Done, ProcsTyped
<1>5. \A r \in Refs : Content(r)' = Content(r) /\ Content(r) \in Bodies /\ TextOf(r, Content(r))
  BY <1>2, ContentAt DEF TypeInv, Content
\* Only the text of this record gets a row, and it is the newest that has one.
<1>6. ASSUME NEW r \in Refs, r # job.ref, NEW b \in Bodies, TextOf(r, b)
      PROVE  hash'[b] \in {hash[b], 0}
  <2>1. b # job.body
    BY <1>1, <1>6 DEF TextsApart
  <2> QED BY <1>3, <2>1
<1>7. ASSUME NEW r \in Refs, r # job.ref, NEW k, Known(r, k) PROVE Known(r, k)'
  <2>1. \A i \in DOMAIN Texts[r] : Texts[r][i] \in Bodies /\ TextOf(r, Texts[r][i])
    BY ContentAt DEF TypeInv
  <2> QED BY <1>6, <1>7, <2>1 DEF Known
<1>8. PICK q \in Refs : q = job.ref
  BY <1>1
<1>9. Known(q, ver[q])'
  <2>1. /\ \A i \in DOMAIN Texts[q] : Texts[q][i] \in Bodies /\ i \in Nat
        /\ ver[q] \in DOMAIN Texts[q] /\ ver[q] \in Nat
        /\ DOMAIN Texts[q] = 1..Len(Texts[q]) /\ Len(Texts[q]) \in Nat
    <3>1. Texts[q] \in Seq(Bodies)
      BY IngestAssumption
    <3> QED BY <3>1, ContentAt DEF TypeInv
  <2>2. PICK k \in 1..ver[q] : job.body = Texts[q][k] /\ Known(q, k)
    BY <1>1, <1>8 DEF JobText
  <2>3. k \in DOMAIN Texts[q]
    BY <2>1, <2>2
  <2>4. ASSUME NEW i \in DOMAIN Texts[q], hash'[Texts[q][i]] # 0 PROVE i <= ver[q]
    <3>1. CASE Texts[q][i] = job.body
      BY <2>1, <2>2, <2>3, <2>4, <3>1 DEF TextsApart
    <3>2. CASE hash[Texts[q][i]] # 0
      <4>1. Known(q, ver[q])
        BY DEF SkipInv
      <4> QED BY <3>2, <4>1 DEF Known
    <3> QED BY <1>3, <2>1, <2>4, <3>1, <3>2
  <2> QED BY <1>2, <2>4 DEF Known
<1>10. ASSUME NEW r \in Refs PROVE Known(r, ver[r])' /\ Held(r)'
  <2>1. Known(r, ver[r])'
    <3>1. Known(r, ver[r])
      BY DEF SkipInv
    <3>2. CASE r = q
      BY <1>9, <3>2
    <3>3. CASE r # q
      <4>1. Known(r, ver[r])'  <=> \A i \in DOMAIN Texts[r] : hash'[Texts[r][i]] # 0 => i <= ver[r]
        BY <1>2 DEF Known
      <4> QED BY <1>7, <1>8, <3>1, <3>3, <4>1 DEF Known
    <3> QED BY <3>2, <3>3
  <2>2. PICK b \in Bodies : b = Content(r)
    BY <1>5
  <2>3. b = Content(r)'
    BY <1>5, <2>2
  <2>4. ASSUME hash'[b] # 0, rows[hash'[b]].path # 0
        PROVE  rows[hash'[b]].body = b /\ Holds(rows[hash'[b]].path, b)
    <3>1. CASE hash'[b] = hash[b]
      BY <2>2, <2>4, <3>1 DEF SkipInv, Held, Indexed
    <3>2. CASE b = job.body /\ hash'[b] = job.id /\ Indexed(job.id)
      BY <1>1, <3>2 DEF JobStored
    <3> QED BY <1>3, <2>4, <3>1, <3>2
  <2>5. Held(r)'
    BY <1>2, <2>3, <2>4 DEF Held, Indexed, Holds
  <2> QED BY <2>1, <2>5
<1>11. ASSUME NEW u \in Threads PROVE JobText(proc[u])' /\ JobStored(proc[u])'
  <2>1. CASE proc'[u].pc = "idle"
    BY <2>1 DEF JobText, JobStored
  <2>2. CASE proc'[u].pc # "idle"
    <3>1. proc'[u] = proc[u] /\ proc[u].pc # "idle" /\ u # t
      BY <1>4, <2>2
    <3>2. proc[u].ref \in Refs /\ proc[u].ref # job.ref
      BY <1>1, <3>1, RefFacts DEF SkipInv, OneOnEach
    <3>3. PICK k \in 1..ver[proc[u].ref] :
            proc[u].body = Texts[proc[u].ref][k] /\ Known(proc[u].ref, k)
      BY <3>1 DEF SkipInv, JobText
    <3>4. \A i \in DOMAIN Texts[proc[u].ref] : hash'[Texts[proc[u].ref][i]] # 0 => i <= k
      BY <1>7, <3>2, <3>3 DEF Known
    <3>5. JobText(proc[u])'
      BY <1>2, <3>1, <3>3, <3>4 DEF JobText, Known
    <3>6. JobStored(proc[u])
      BY DEF SkipInv
    <3> QED BY <1>2, <3>1, <3>5, <3>6 DEF JobStored, Holds, Indexed
  <2> QED BY <2>1, <2>2
<1>12. OneOnEach'
  BY <1>4 DEF SkipInv, OneOnEach
<1>13. OpStored'
  <2>1. ASSUME op.pc \in {"write", "index"}, NEW r \in Refs, hash'[Content(r)] = op.id
        PROVE  hash[Content(r)] = op.id
    <3>1. op.id # 0 /\ kind[op.id] \in Notes /\ job.ref \in Sessions
      BY <1>1, <2>1, OpFacts, Constants
    <3>2. op.id # job.id
      BY <1>1, <3>1 DEF Notes
    <3> QED BY <1>3, <1>5, <2>1, <3>1, <3>2
  <2> QED BY <1>2, <1>5, <2>1 DEF SkipInv, OpStored, Holds
<1> QED BY <1>10, <1>11, <1>12, <1>13 DEF SkipInv

\* What the sweep writes back is the text that it has read and that nobody else replaces.
LEMMA SkipHide ==
  ASSUME TypeInv, TextsApart, StrandInv, NEW kind, Traces(RefClass, kind), SkipInv,
         ReadFile \/ WriteFile \/ IndexFile
  PROVE  SkipInv'
<1>1. /\ StoreTyped /\ op.pc \in {"read", "write", "index"}
      /\ op.id \in Ids /\ op.id # 0 /\ kind[op.id] \in Notes /\ op.id \in Paths
      /\ \A t \in Threads : proc[t].pc # "idle" => proc[t].ref \in Sessions
      /\ op.pc \in {"write", "index"} => op.file \in File /\ op.file.id = op.id /\ op.path = op.id
      /\ op \in [pc : {"idle", "read", "write", "index", "unmap"}, id : Ids \cup {0},
                 gone : BOOLEAN, live : BOOLEAN, dead : SUBSET Refs, file : File,
                 path : Paths \cup {0}]
  <2>1. op.pc \in {"read", "write", "index"}
    BY DEF ReadFile, WriteFile, IndexFile
  <2> QED BY <2>1, OpFacts, Constants DEF TypeInv, SweepTyped, OpOK, Op
<1>2. UNCHANGED <<ver, proc>>
  BY DEF ReadFile, WriteFile, IndexFile, Outside, sourceVars, fileVars
<1>3. \A r \in Refs : Content(r)' = Content(r) /\ Content(r) \in Bodies /\ TextOf(r, Content(r))
  BY <1>2, ContentAt DEF TypeInv, Content
\* No record under way is about this memory or at its path.
<1>4. ASSUME NEW t \in Threads, proc[t].pc \in {"index", "map", "note"}
      PROVE  proc[t].id \in Ids \ {op.id} /\ proc[t].path \in Paths \ {op.id}
  <2>1. /\ proc[t].id \in Ids /\ kind[proc[t].id] = proc[t].ref /\ proc[t].path \in Paths
        /\ proc[t].path \in {proc[t].id, Slot[proc[t].ref]} /\ proc[t].ref \in Refs
    BY <1>4, RefFacts
  <2>2. proc[t].ref \in Sessions
    BY <1>1, <1>4
  <2>3. proc[t].id # op.id
    BY <1>1, <2>1, <2>2 DEF Notes
  <2>4. Slot[proc[t].ref] \notin Ids
    BY <2>1, Constants
  <2> QED BY <1>1, <2>1, <2>3, <2>4
<1>5. CASE ReadFile
  <2>1. op.pc = "read" /\ UNCHANGED <<vault, rows, hash>>
    BY <1>5 DEF ReadFile, storeVars
  <2>2. OnlyLess
    BY <2>1 DEF OnlyLess
  <2>3. OpStored'
    <3>1. CASE op' = NoOp
      BY <3>1, Values DEF OpStored
    <3>2. CASE op' # NoOp
      <4>1. PICK p : p = rows[op.id].path
        OBVIOUS
      <4>2. /\ p # 0 /\ vault[p] # NoFile
            /\ op' = [op EXCEPT !.pc = "write", !.file = [vault[p] EXCEPT !.gone = op.gone], !.path = p]
        BY <1>5, <3>2, <4>1 DEF ReadFile
      <4>3. p \in Paths /\ vault[p] \in File
        BY <1>1, <4>1, <4>2, RefFacts DEF StoreTyped
      <4>4. op'.pc = "write" /\ op'.id = op.id /\ op'.file.body = vault[p].body
        BY <1>1, <4>2, <4>3 DEF File
      <4>5. ASSUME NEW r \in Refs, hash[Content(r)] = op.id PROVE vault[p].body = Content(r)
        BY <1>1, <4>1, <4>2, <4>5 DEF SkipInv, Held, Indexed, Holds
      <4> QED BY <1>3, <2>1, <4>4, <4>5 DEF OpStored
    <3> QED BY <3>1, <3>2
  <2> QED BY <1>2, <2>2, <2>3, SkipRests
<1>6. CASE WriteFile
  <2>1. /\ op.pc = "write" /\ op.file.id = op.id /\ op.path = op.id
        /\ vault' = [vault EXCEPT ![op.id] = op.file] /\ op' = [op EXCEPT !.pc = "index"]
        /\ UNCHANGED <<rows, hash>>
    BY <1>1, <1>6 DEF WriteFile
  <2>2. vault'[op.id] = op.file /\ \A p \in Paths \ {op.id} : vault'[p] = vault[p]
    BY <1>1, <2>1 DEF StoreTyped
  <2>3. op'.pc = "index" /\ op'.id = op.id /\ op'.file = op.file /\ op'.path = op.id
    BY <1>1, <2>1
  <2>4. \A r \in Refs : hash[Content(r)] = op.id => op.file.body = Content(r)
    BY <2>1 DEF SkipInv, OpStored
  <2>5. ASSUME NEW r \in Refs PROVE Known(r, ver[r])' /\ Held(r)'
    <3>1. Known(r, ver[r])'
      BY <1>2, <2>1 DEF SkipInv, Known
    <3>2. PICK m : m = hash[Content(r)]
      OBVIOUS
    <3>3. ASSUME m # 0, rows[m].path # 0
          PROVE  /\ rows[m].body = Content(r)
                 /\ vault'[rows[m].path] = NoFile \/ vault'[rows[m].path].body = Content(r)
      <4>1. m \in Ids /\ kind[m] = r /\ rows[m].path \in Paths /\ rows[m].path \in {m, Slot[r]}
        BY <1>3, <3>2, <3>3, RefFacts
      <4>2. rows[m].body = Content(r) /\ Holds(rows[m].path, Content(r))
        BY <3>2, <3>3 DEF SkipInv, Held, Indexed
      <4>3. CASE rows[m].path = op.id
        <5>1. m = op.id
          BY <1>1, <4>1, <4>3, Constants
        <5> QED BY <2>2, <2>4, <3>2, <4>2, <4>3, <5>1
      <4>4. CASE rows[m].path # op.id
        BY <2>2, <4>1, <4>2, <4>4 DEF Holds
      <4> QED BY <4>3, <4>4
    <3>4. Held(r)'
      BY <1>3, <2>1, <3>2, <3>3 DEF Held, Indexed, Holds
    <3> QED BY <3>1, <3>4
  <2>6. ASSUME NEW t \in Threads PROVE JobText(proc[t])' /\ JobStored(proc[t])'
    <3>1. JobText(proc[t])'
      BY <1>2, <2>1 DEF SkipInv, JobText, Known
    <3>2. proc[t].pc \in {"index", "map", "note"} => vault'[proc[t].path] = vault[proc[t].path]
      BY <1>4, <2>2
    <3>3. JobStored(proc[t])
      BY DEF SkipInv
    <3> QED BY <1>2, <2>1, <3>1, <3>2, <3>3 DEF JobStored, Holds, Indexed
  <2>7. OneOnEach'
    BY <1>2 DEF SkipInv, OneOnEach
  <2>8. OpStored'
    BY <1>3, <2>1, <2>2, <2>3, <2>4 DEF OpStored, Holds
  <2> QED BY <2>5, <2>6, <2>7, <2>8 DEF SkipInv
<1>7. CASE IndexFile
  <2>1. /\ op.pc = "index" /\ op.file.id = op.id /\ op.path = op.id /\ op.file \in File
        /\ Upsert(op.file, op.id) /\ UNCHANGED vault /\ op'.pc \notin {"write", "index"}
    BY <1>1, <1>7, Values DEF IndexFile
  <2>2. Holds(op.id, op.file.body) /\ \A r \in Refs : hash[Content(r)] = op.id => op.file.body = Content(r)
    BY <2>1 DEF SkipInv, OpStored
  <2>3. /\ \A r \in Refs : Known(r, ver[r])' /\ Held(r)'
        /\ \A b \in Bodies : hash'[b] \in {hash[b], 0}
        /\ \A m \in Ids \ {op.id} : rows'[m] \in {rows[m], NoRow}
    BY <1>1, <1>2, <2>1, <2>2, UpsertHeld
  <2>4. ASSUME NEW t \in Threads PROVE JobText(proc[t])'
    <3>1. ASSUME proc[t].pc # "idle"
          PROVE  \E k \in 1..ver[proc[t].ref] :
                   /\ proc[t].body = Texts[proc[t].ref][k]
                   /\ \A i \in DOMAIN Texts[proc[t].ref] : hash'[Texts[proc[t].ref][i]] # 0 => i <= k
      <4>1. proc[t].ref \in Refs
        BY <3>1, RefFacts
      <4>2. \A i \in DOMAIN Texts[proc[t].ref] : Texts[proc[t].ref][i] \in Bodies
        BY <4>1, ContentAt DEF TypeInv
      <4> QED BY <2>3, <3>1, <4>2 DEF SkipInv, JobText, Known
    <3> QED BY <1>2, <3>1 DEF JobText, Known
  <2>5. ASSUME NEW t \in Threads PROVE JobStored(proc[t])'
    <3>1. proc[t].pc \in {"index", "map", "note"} => rows'[proc[t].id] \in {rows[proc[t].id], NoRow}
      BY <1>4, <2>3
    <3>2. JobStored(proc[t])
      BY DEF SkipInv
    <3> QED BY <1>2, <2>1, <3>1, <3>2, Values DEF JobStored, Holds, Indexed
  <2>6. OneOnEach' /\ OpStored'
    BY <1>2, <2>1 DEF SkipInv, OneOnEach, OpStored
  <2> QED BY <2>3, <2>4, <2>5, <2>6 DEF SkipInv
<1> QED BY <1>5, <1>6, <1>7

\* The other steps of the cycle delete or move nothing but mappings and rows.
LEMMA SkipCycle ==
  ASSUME TypeInv, TextsApart, NEW kind, Traces(RefClass, kind), SkipInv,
         \/ BeginCycle \/ SweepScan \/ UnmapDone \/ PruneScan \/ EndCycle
         \/ \E r \in Refs : PassBy(r) \/ DropOrphan(r) \/ UnmapDead(r)
         \/ \E m \in Ids : Examine(m) \/ PruneRow(m)
  PROVE  SkipInv'
<1>1. UNCHANGED <<ver, proc, vault>>
  BY DEF BeginCycle, SweepScan, UnmapDone, PruneScan, EndCycle, PassBy, DropOrphan, UnmapDead,
         Examine, PruneRow, Outside, sourceVars, fileVars, storeVars
<1>2. OnlyLess
  <2>1. UNCHANGED <<rows, hash>> \/ \E m \in Ids : DeleteRows(m)
    BY DEF BeginCycle, SweepScan, UnmapDone, PruneScan, EndCycle, PassBy, DropOrphan, UnmapDead,
           Examine, PruneRow, storeVars
  <2>2. StoreTyped
    BY DEF TypeInv
  <2>3. ASSUME NEW m \in Ids, DeleteRows(m)
        PROVE  /\ \A n \in Ids : rows'[n] \in {rows[n], NoRow}
               /\ \A b \in Bodies : hash'[b] \in {hash[b], 0}
    BY <2>2, <2>3, TablesWithout DEF DeleteRows
  <2> QED BY <1>1, <2>1, <2>3 DEF OnlyLess
<1>3. UNCHANGED op \/ op'.pc \notin {"write", "index"}
  <2>1. op \in [pc : {"idle", "read", "write", "index", "unmap"}, id : Ids \cup {0},
                gone : BOOLEAN, live : BOOLEAN, dead : SUBSET Refs, file : File,
                path : Paths \cup {0}]
    BY DEF TypeInv, SweepTyped, OpOK, Op
  <2>2. CASE \/ BeginCycle \/ SweepScan \/ PruneScan \/ EndCycle
             \/ \E r \in Refs : PassBy(r) \/ DropOrphan(r)
             \/ \E m \in Ids : PruneRow(m)
    BY <2>2 DEF BeginCycle, SweepScan, PruneScan, EndCycle, PassBy, DropOrphan, PruneRow
  <2>3. CASE UnmapDone
    BY <2>1, <2>3, Values DEF UnmapDone
  <2>4. ASSUME NEW r \in Refs, UnmapDead(r) PROVE op'.pc = "unmap"
    BY <2>1, <2>4 DEF UnmapDead
  <2>5. ASSUME NEW m \in Ids, Examine(m) PROVE op'.pc \in {"read", "unmap"}
    <3>1. NoOp \in [pc : {"idle", "read", "write", "index", "unmap"}, id : Ids \cup {0},
                    gone : BOOLEAN, live : BOOLEAN, dead : SUBSET Refs, file : File,
                    path : Paths \cup {0}]
      BY Values DEF Op
    <3> QED BY <2>5, <3>1 DEF Examine
  <2> QED BY <2>2, <2>3, <2>4, <2>5
<1>4. OpStored'
  BY <1>1, <1>2, <1>3, OpRests
<1> QED BY <1>1, <1>2, <1>4, SkipRests

\* A record starts with the present text, on a ref that nobody else is on.
LEMMA SkipEmit ==
  ASSUME TypeInv, TextsApart, SkipInv, NEW t \in Threads, NEW r \in Refs, Emit(t, r)
  PROVE  SkipInv'
<1>1. UNCHANGED <<ver, vault, rows, hash, op>>
  BY DEF Emit, fileVars, storeVars
<1>2. /\ proc'[t].ref = r /\ proc'[t].body = Content(r) /\ proc'[t].pc \in {"skip", "lookup"}
      /\ \A u \in Threads \ {t} : proc'[u] = proc[u]
  BY Values DEF Emit, TypeInv, ProcsTyped, Proc
<1>3. \A u \in Threads : proc[u].pc # "idle" => proc[u].ref # r
  BY DEF Emit, TextsApart
<1>4. \A q \in Refs : Known(q, ver[q])' /\ Held(q)'
  BY <1>1 DEF SkipInv, Known, Held, Indexed, Holds, Content
<1>5. ASSUME NEW u \in Threads PROVE JobText(proc[u])' /\ JobStored(proc[u])'
  <2>1. CASE u = t
    <3>1. Content(r) = Texts[r][ver[r]] /\ ver[r] \in 1..ver[r] /\ Known(r, ver[r])
      BY ContentAt DEF SkipInv, TypeInv
    <3> QED BY <1>1, <1>2, <2>1, <3>1 DEF JobText, JobStored, Known
  <2>2. CASE u # t
    BY <1>1, <1>2, <2>2 DEF SkipInv, JobText, JobStored, Known, Holds, Indexed
  <2> QED BY <2>1, <2>2
<1>6. OneOnEach'
  BY <1>2, <1>3 DEF SkipInv, OneOnEach
<1>7. OpStored'
  BY <1>1 DEF SkipInv, OpStored, Holds, Content
<1> QED BY <1>4, <1>5, <1>6, <1>7 DEF SkipInv

\* A file that changes comes to hold a text that has no hash row.
LEMMA SkipSave ==
  ASSUME TypeInv, SkipInv, NEW r \in Refs, Save(r)
  PROVE  SkipInv'
<1>1. UNCHANGED <<vault, rows, hash, op, proc>> /\ ver' = [ver EXCEPT ![r] = @ + 1]
  BY DEF Save, Still, storeVars, sweepVars
<1>2. /\ ver \in [Refs -> Nat \ {0}] /\ Texts[r] \in Seq(Bodies) /\ ver[r] < Len(Texts[r])
      /\ ver[r] \in Nat
  BY IngestAssumption DEF Save, TypeInv, SourceTyped
<1>3. ver'[r] = ver[r] + 1 /\ \A q \in Refs \ {r} : ver'[q] = ver[q]
  BY <1>1, <1>2
<1>4. ver'[r] \in DOMAIN Texts[r] /\ Content(r)' = Texts[r][ver'[r]]
  BY <1>2, <1>3 DEF Content
<1>5. hash[Content(r)'] = 0
  BY <1>2, <1>3, <1>4 DEF SkipInv, Known
<1>6. \A q \in Refs \ {r} : Content(q)' = Content(q)
  BY <1>3 DEF Content
<1>7. ASSUME NEW q \in Refs PROVE Known(q, ver[q])' /\ Held(q)'
  <2>1. CASE q = r
    <3>1. Held(q)'
      BY <1>1, <1>5, <2>1 DEF Held, Indexed
    <3>2. \A i \in DOMAIN Texts[r] : i \in Nat
      BY <1>2
    <3>3. Known(r, ver[r])
      BY DEF SkipInv
    <3>4. Known(r, ver[r])'
      BY <1>1, <1>2, <1>3, <3>2, <3>3 DEF Known
    <3> QED BY <2>1, <3>1, <3>4
  <2>2. CASE q # r
    BY <1>1, <1>3, <1>6, <2>2 DEF SkipInv, Known, Held, Indexed, Holds
  <2> QED BY <2>1, <2>2
<1>8. ASSUME NEW t \in Threads PROVE JobText(proc[t])' /\ JobStored(proc[t])'
  <2>1. proc[t].ref \in Refs
    BY DEF TypeInv, ProcsTyped, Proc
  <2>2. 1..ver[proc[t].ref] \subseteq 1..ver'[proc[t].ref]
    BY <1>2, <1>3, <2>1
  <2>3. JobText(proc[t]) /\ JobStored(proc[t])
    BY DEF SkipInv
  <2> QED BY <1>1, <2>2, <2>3 DEF JobText, JobStored, Known, Holds, Indexed
<1>9. OneOnEach'
  BY <1>1 DEF SkipInv, OneOnEach
<1>10. OpStored'
  <2>1. op.pc \in {"write", "index"} => op.id # 0
    BY DEF TypeInv, SweepTyped, OpOK
  <2> QED BY <1>1, <1>5, <1>6, <2>1 DEF SkipInv, OpStored, Holds
<1> QED BY <1>7, <1>8, <1>9, <1>10 DEF SkipInv

LEMMA SkipFaults ==
  ASSUME TypeInv, TextsApart, NEW kind, Traces(RefClass, kind), SkipInv,
         \/ Unmount \/ Remount \/ FailSweep \/ Crash \/ UNCHANGED vars
         \/ \E t \in Threads : Fail(t)
         \/ \E p \in Paths : Forget(p)
         \/ \E r \in Refs : Restore(r) \/ Remove(r)
  PROVE  SkipInv'
<1>1. UNCHANGED <<ver, rows, hash>>
  BY DEF Unmount, Remount, FailSweep, Crash, Fail, Forget, Restore, Remove, Still,
         sourceVars, fileVars, storeVars, vars
<1>2. OnlyLess
  <2>1. UNCHANGED vault \/ \E p \in Paths : vault' = [vault EXCEPT ![p] = NoFile]
    BY DEF Unmount, Remount, FailSweep, Crash, Fail, Forget, Restore, Remove, Still, storeVars, vars
  <2> QED BY <1>1, <2>1 DEF OnlyLess, TypeInv, StoreTyped
<1>3. UNCHANGED op \/ op' = NoOp
  BY DEF Unmount, Remount, FailSweep, Crash, Fail, Forget, Restore, Remove, Still, NoSweep,
         sweepVars, vars
<1>4. OpStored'
  BY <1>1, <1>2, <1>3, Values, OpRests
<1>5. \A t \in Threads : proc'[t] = proc[t] \/ proc'[t].pc = "idle"
  <2>1. \/ UNCHANGED proc \/ proc' = [t \in Threads |-> NoProc]
        \/ \E t \in Threads : proc' = [proc EXCEPT ![t] = NoProc]
    BY DEF Unmount, Remount, FailSweep, Crash, Fail, Forget, Restore, Remove, Still, Done, vars
  <2> QED BY <2>1, Values DEF TypeInv, ProcsTyped
<1> QED BY <1>1, <1>2, <1>4, <1>5, SkipRests DEF GoesOn

LEMMA SkipStep ==
  ASSUME TypeInv, TextsApart, StrandInv, NEW kind, Traces(RefClass, kind), SkipInv, [Next]_vars
  PROVE  SkipInv'
<1>1. "reconcile" \in Threads /\ Watched \subseteq Refs
  BY IngestAssumption
<1>2. ASSUME NEW t \in Threads, Process(t) PROVE SkipInv'
  BY <1>2, SkipQuiet, SkipWrite, SkipIndex, SkipNote DEF Process
<1>3. CASE Reconcile
  BY <1>1, <1>3, SkipEmit, SkipHide, SkipCycle DEF Reconcile
<1>4. CASE "live" \in Threads /\ \E r \in Watched : Emit("live", r)
  BY <1>1, <1>4, SkipEmit
<1>5. CASE \E r \in Refs : Save(r)
  BY <1>5, SkipSave
<1>6. CASE \/ Unmount \/ Remount \/ FailSweep \/ Crash \/ UNCHANGED vars
           \/ \E t \in Threads : Fail(t)
           \/ \E p \in Paths : Forget(p)
           \/ \E r \in Refs : Restore(r) \/ Remove(r)
  BY <1>6, SkipFaults
<1> QED BY <1>2, <1>3, <1>4, <1>5, <1>6 DEF Next

LEMMA SkipInit ==
  ASSUME Init
  PROVE  SkipInv /\ \E kind \in [Ids -> Refs] : Traces(RefClass, kind)
<1>1. /\ \A b \in Bodies : hash[b] = 0
      /\ \A t \in Threads : proc[t].pc = "idle"
      /\ op.pc = "idle"
  BY Values DEF Init
<1>2. \A r \in Refs : /\ Content(r) \in Bodies
                      /\ \A i \in DOMAIN Texts[r] : Texts[r][i] \in Bodies
  BY TypesInit, ContentAt DEF TypeInv
<1>3. \A r \in Refs : Known(r, ver[r]) /\ Held(r)
  BY <1>1, <1>2 DEF Known, Held, Indexed
<1>4. SkipInv
  BY <1>1, <1>3 DEF SkipInv, JobText, JobStored, OneOnEach, OpStored
<1>5. \E kind \in [Ids -> Refs] : TRUE
  <2>1. PICK r \in Refs : TRUE
    BY IngestAssumption
  <2>2. [m \in Ids |-> r] \in [Ids -> Refs]
    OBVIOUS
  <2> QED BY <2>2
<1> QED BY <1>4, <1>5, TracesInit

\* cli.py:1420-1424: a file that the reconcile skips for its hash row has its text in the
\* row and the vault file of its memory, whatever the drain, the sweep, the prune pass
\* and every fault but an overlap of the two threads on one file do.  With a text that
\* comes back or that two files share, an error between the write of a file and its hash
\* row is enough to break this.
THEOREM SkippedStaysStored ==
  ASSUME TextsApart
  PROVE  Spec => []SkippedIsStored
<1> DEFINE Inv == /\ TypeInv /\ StrandInv /\ SkipInv
                  /\ \E kind \in [Ids -> Types] : Traces(TypeClass, kind)
                  /\ \E kind \in [Ids -> Refs] : Traces(RefClass, kind)
<1>1. NotesApart /\ Classes(RefClass) /\ \A r \in Refs : RefClass[r] \in Refs
  BY DEF TextsApart, Classes, RefClass
<1>2. Init => Inv
  BY TypesInit, StrandInit, SkipInit
<1>3. Inv /\ [Next]_vars => Inv'
  <2> SUFFICES ASSUME Inv, [Next]_vars PROVE Inv'
    OBVIOUS
  <2>1. TypeInv'
    BY TypesStep
  <2>2. StrandInv' /\ \E kind \in [Ids -> Types] : Traces(TypeClass, kind)'
    BY <1>1, <2>1, StrandStep
  <2>3. SkipInv'
    BY SkipStep
  <2>4. \E kind \in [Ids -> Refs] : Traces(RefClass, kind)'
    BY <1>1, <2>1, TracesStep
  <2> QED BY <2>1, <2>2, <2>3, <2>4
<1>4. Inv => SkippedIsStored
  BY DEF SkippedIsStored, SkipInv, Held, Holds
<1> HIDE DEF Inv
<1> QED BY <1>2, <1>3, <1>4, PTL DEF Spec

-----------------------------------------------------------------------------
(* A text is stored once *)

\* A transcript has its texts and its path to itself, no watcher sees an authored file,
\* and the two threads are never on one file at once.
TranscriptsApart ==
  /\ NotesApart
  /\ "overlap" \notin Faults
  /\ \A r \in Sessions, q \in Refs : r # q =>
       /\ \A b \in Bodies : ~ (TextOf(r, b) /\ TextOf(q, b))
       /\ Slot[r] # 0 => Slot[r] # Slot[q]

\* No step fails or is cut short, and two threads have no text to share.
WholeAndApart ==
  /\ Faults \cap {"fail", "crash"} = {}
  /\ Threads = {"reconcile"} \/ TranscriptsApart

Running(t) == proc[t].pc # "idle"

\* The reconcile processes records in the walk, and hides memories in the sweep.
InTurn ==
  /\ Running("reconcile") => phase = "walk"
  /\ op.pc # "idle" => phase = "sweep"

\* The hash of a memory's text, or the row of the file at a path, is still to come.
HashToCome(m) == \E t \in Threads : proc[t].pc \in {"map", "note"} /\ proc[t].id = m
RowToCome(p) == \E t \in Threads : proc[t].pc = "index" /\ proc[t].path = p

\* The text of a row has its hash.
RowsHashed ==
  \A m \in Ids : Indexed(m) /\ ~ HashToCome(m) => hash[rows[m].body] = m

OwnPaths ==
  \A m, n \in Ids : Indexed(m) /\ Indexed(n) /\ rows[m].path = rows[n].path => m = n

\* The file of a row is its memory's and has its text.
FilesFit ==
  \A m \in Ids :
    LET p == rows[m].path IN
    Indexed(m) /\ vault[p] # NoFile /\ ~ RowToCome(p) =>
      vault[p].id = m /\ vault[p].body = rows[m].body

\* Since Match no other memory has come to hold the text.
JobFits(job) ==
  /\ job.pc \in {"write", "index", "map", "note"} => hash[job.body] \in {0, job.id}
  /\ job.pc = "index" /\ vault[job.path] # NoFile =>
       vault[job.path].id = job.id /\ vault[job.path].body = job.body
  /\ job.pc \in {"map", "note"} /\ Indexed(job.id) => rows[job.id].body = job.body

\* The sweep writes the file back with the text of the row.
OpFits ==
  op.pc \in {"write", "index"} =>
    /\ Indexed(op.id) /\ op.path = rows[op.id].path
    /\ op.file.id = op.id /\ op.file.body = rows[op.id].body

OnceInv ==
  /\ InTurn /\ RowsHashed /\ OwnPaths /\ FilesFit /\ OpFits /\ OneOnEach
  /\ \A t \in Threads : JobFits(proc[t])

\* Two threads, or a thread and the sweep, do not meet on a memory, a text or a path.
Strangers ==
  /\ \A t, u \in Threads : t # u /\ Running(t) /\ Running(u) =>
       /\ proc[t].body # proc[u].body
       /\ proc[t].id # 0 => proc[t].id # proc[u].id
       /\ proc[t].pc = "write" /\ proc[u].pc = "index" =>
            PathFor(proc[t].ref, proc[t].id) # proc[u].path
       /\ proc[t].pc = "index" /\ proc[u].pc \in {"map", "note"} /\ Indexed(proc[u].id) =>
            rows[proc[u].id].path # proc[t].path
  /\ op.pc \in {"read", "write", "index"} => \A t \in Threads : Running(t) =>
       /\ proc[t].id # op.id
       /\ proc[t].pc = "index" /\ Indexed(op.id) => rows[op.id].path # proc[t].path

\* A transcript is a group of its own, and the authored files are one.
Group == [r \in Refs |-> IF r \in Sessions THEN {r} ELSE Notes]

LEMMA GroupFacts ==
  ASSUME TranscriptsApart
  PROVE  /\ Classes(Group)
         /\ \A r, q \in Refs : Group[r] = Group[q] => r = q \/ (r \in Notes /\ q \in Notes)
         /\ \A r \in Notes : Group[r] = Notes
<1>1. Sessions \subseteq Refs
  BY IngestAssumption
<1>2. \A r, q \in Refs : Group[r] = Group[q] => r = q \/ (r \in Notes /\ q \in Notes)
  BY <1>1 DEF Group, Notes
<1>3. \A r, q \in Refs : Group[r] = Group[q] => TypeOf(r) = TypeOf(q)
  BY <1>2 DEF Notes, TypeOf
<1>4. ASSUME NEW r \in Refs, NEW q \in Refs, Group[r] # Group[q], NEW b \in Bodies
      PROVE  ~ (TextOf(r, b) /\ TextOf(q, b))
  <2>1. r # q /\ (r \in Sessions \/ q \in Sessions)
    BY <1>4 DEF Group
  <2> QED BY <2>1 DEF TranscriptsApart
<1>5. \A r \in Notes : Group[r] = Notes
  BY DEF Group, Notes
<1> QED BY <1>2, <1>3, <1>4, <1>5 DEF Classes

\* What is of two groups does not meet on a path.
LEMMA PathsApart ==
  ASSUME TranscriptsApart, NEW r \in Refs, NEW q \in Refs, Group[r] # Group[q],
         NEW m \in Ids, NEW n \in Ids, m # n, NEW p, p # 0, p \in {m, Slot[r]}
  PROVE  p \notin {n, Slot[q]}
<1>1. Slot[r] \notin Ids /\ Slot[q] \notin Ids
  BY Constants
<1>2. r # q /\ (r \in Sessions \/ q \in Sessions)
  BY DEF Group
<1>3. Slot[r] # 0 => Slot[r] # Slot[q]
  BY <1>2 DEF TranscriptsApart
<1> QED BY <1>1, <1>3

LEMMA StrangersAlone ==
  ASSUME OnceInv, Threads = {"reconcile"}
  PROVE  Strangers
BY DEF Strangers, OnceInv, InTurn, Running

LEMMA StrangersApart ==
  ASSUME TypeInv, TranscriptsApart, StrandInv, OneOnEach, NEW kind, Traces(Group, kind)
  PROVE  Strangers
<1>1. ASSUME NEW t \in Threads, Running(t)
      PROVE  /\ proc[t].ref \in Refs /\ proc[t].body \in Bodies /\ TextOf(proc[t].ref, proc[t].body)
             /\ proc[t].id # 0 => proc[t].id \in Ids /\ kind[proc[t].id] = Group[proc[t].ref]
             /\ proc[t].pc \in {"write", "index", "map", "note"} => proc[t].id \in Ids
             /\ proc[t].pc = "index" => proc[t].path # 0 /\ \E r \in Refs :
                  Group[r] = Group[proc[t].ref] /\ proc[t].path \in {proc[t].id, Slot[r]}
  <2>1. proc[t] \in Proc /\ ProcOK(proc[t]) /\ JobOf(Group, kind, proc[t])
    BY DEF TypeInv, ProcsTyped, Traces
  <2>2. proc[t].id \in Ids \cup {0} /\ proc[t].ref \in Refs /\ proc[t].body \in Bodies
    BY <2>1 DEF Proc
  <2> QED BY <1>1, <2>1, <2>2 DEF JobOf, ProcOK, Running
<1>2. ASSUME NEW m \in Ids, Indexed(m)
      PROVE  \E r \in Refs : kind[m] = Group[r] /\ rows[m].path \in {m, Slot[r]}
  BY <1>2 DEF Traces, RowsOf, Indexed
<1>3. ASSUME NEW t \in Threads, NEW u \in Threads, t # u, Running(t), Running(u)
      PROVE  /\ proc[t].body # proc[u].body
             /\ proc[t].id # 0 => proc[t].id # proc[u].id
             /\ proc[t].pc = "write" /\ proc[u].pc = "index" =>
                  PathFor(proc[t].ref, proc[t].id) # proc[u].path
             /\ proc[t].pc = "index" /\ proc[u].pc \in {"map", "note"} /\ Indexed(proc[u].id) =>
                  rows[proc[u].id].path # proc[t].path
  <2> DEFINE r == proc[t].ref  q == proc[u].ref
  <2>1. r \in Refs /\ q \in Refs /\ r # q /\ (r \in Sessions \/ q \in Sessions)
    BY <1>1, <1>3 DEF OneOnEach, StrandInv, Orderly, Running
  <2>2. Group[r] # Group[q]
    BY <2>1, GroupFacts DEF Notes
  <2>3. proc[t].body # proc[u].body
    BY <1>1, <1>3, <2>1, <2>2, GroupFacts DEF Classes
  <2>4. proc[t].id # 0 => proc[t].id # proc[u].id
    BY <1>1, <1>3, <2>2
  <2>5. ASSUME proc[t].pc = "write", proc[u].pc = "index"
        PROVE  PathFor(r, proc[t].id) # proc[u].path
    <3>1. proc[t].id \in Ids /\ proc[u].id \in Ids /\ proc[t].id # proc[u].id
          /\ kind[proc[t].id] = Group[r]
      BY <1>1, <1>3, <2>4, <2>5, Constants
    <3>2. PICK s \in Refs : Group[s] = Group[r] /\ PathFor(r, proc[t].id) \in {proc[t].id, Slot[s]}
      BY <2>1, <3>1, PathOfClass
    <3>3. PICK z \in Refs : Group[z] = Group[q] /\ proc[u].path \in {proc[u].id, Slot[z]}
      BY <1>1, <1>3, <2>5
    <3>4. proc[u].path # 0
      BY <1>1, <1>3, <2>5
    <3>5. Group[z] # Group[s]
      BY <2>2, <3>2, <3>3
    <3>6. \A m, n \in Ids : m # n => \A p : p # 0 /\ p \in {m, Slot[z]} => p \notin {n, Slot[s]}
      BY <3>5, PathsApart
    <3> QED BY <3>1, <3>2, <3>3, <3>4, <3>6
  <2>6. ASSUME proc[t].pc = "index", proc[u].pc \in {"map", "note"}, Indexed(proc[u].id)
        PROVE  rows[proc[u].id].path # proc[t].path
    <3>1. proc[t].id \in Ids /\ proc[u].id \in Ids /\ proc[t].id # proc[u].id
          /\ kind[proc[u].id] = Group[q]
      BY <1>1, <1>3, <2>4, <2>6, Constants
    <3>2. PICK s \in Refs : Group[s] = Group[q] /\ rows[proc[u].id].path \in {proc[u].id, Slot[s]}
      BY <1>2, <2>6, <3>1
    <3>3. PICK z \in Refs : Group[z] = Group[r] /\ proc[t].path \in {proc[t].id, Slot[z]}
      BY <1>1, <1>3, <2>6
    <3>4. proc[t].path # 0
      BY <1>1, <1>3, <2>6
    <3>5. Group[z] # Group[s]
      BY <2>2, <3>2, <3>3
    <3>6. \A m, n \in Ids : m # n => \A p : p # 0 /\ p \in {m, Slot[z]} => p \notin {n, Slot[s]}
      BY <3>5, PathsApart
    <3> QED BY <3>1, <3>2, <3>3, <3>4, <3>6
  <2> QED BY <2>3, <2>4, <2>5, <2>6
<1>4. ASSUME op.pc \in {"read", "write", "index"}, NEW t \in Threads, Running(t)
      PROVE  /\ proc[t].id # op.id
             /\ proc[t].pc = "index" /\ Indexed(op.id) => rows[op.id].path # proc[t].path
  <2>1. op.id \in Ids /\ op.id # 0
    BY <1>4, Constants DEF TypeInv, SweepTyped, OpOK, Op
  <2>2. PICK r \in Notes : map[r] = op.id
    BY <1>4 DEF StrandInv, HidesFirst
  <2>3. r \in Refs /\ Group[r] = Notes /\ kind[op.id] = Notes
    BY <2>1, <2>2, GroupFacts DEF Traces, MapOf, Notes
  <2>4. proc[t].ref \in Sessions /\ proc[t].ref \in Refs
    BY <1>1, <1>4 DEF StrandInv, Orderly, Running
  <2>5. Group[proc[t].ref] # Notes
    BY <2>3, <2>4, GroupFacts DEF Notes
  <2>6. proc[t].id # op.id
    BY <1>1, <1>4, <2>1, <2>3, <2>5
  <2>7. ASSUME proc[t].pc = "index", Indexed(op.id)
        PROVE  rows[op.id].path # proc[t].path
    <3>1. PICK s \in Refs : Group[s] = Notes /\ rows[op.id].path \in {op.id, Slot[s]}
      BY <1>2, <2>1, <2>3, <2>7
    <3>2. PICK z \in Refs : Group[z] = Group[proc[t].ref] /\ proc[t].path \in {proc[t].id, Slot[z]}
      BY <1>1, <1>4, <2>7
    <3>3. proc[t].id \in Ids /\ proc[t].path # 0
      BY <1>1, <1>4, <2>7
    <3> QED BY <2>1, <2>5, <2>6, <3>1, <3>2, <3>3, PathsApart, SMTT(30)
  <2> QED BY <2>6, <2>7
<1> QED BY <1>3, <1>4 DEF Strangers

\* What Index.upsert leaves of the hashes.
LEMMA UpsertHash ==
  ASSUME StoreTyped, NEW file, NEW p, Upsert(file, p), NEW b \in Bodies
  PROVE  hash'[b] = IF hash[b] \in {m \in Ids \ {file.id} : rows[m].path = p} THEN 0 ELSE hash[b]
BY DEF Upsert, HashWithout

LEMMA JobTyped ==
  ASSUME TypeInv, NEW t \in Threads
  PROVE  /\ StoreTyped /\ SweepTyped /\ ProcsTyped /\ proc[t] \in Proc /\ ProcOK(proc[t])
         /\ proc[t].id \in Ids \cup {0} /\ proc[t].body \in Bodies /\ proc[t].ref \in Refs
         /\ proc[t].pc \notin {"idle", "skip", "lookup", "match"} => proc[t].id \in Ids
         /\ proc[t].pc = "index" => proc[t].path \in Paths
BY DEF TypeInv, ProcsTyped, Proc, ProcOK

\* What one step of process() does to the records under way.
LEMMA JobNext ==
  ASSUME TypeInv, NEW t \in Threads, Process(t)
  PROVE  /\ Running(t) /\ UNCHANGED <<op, phase>>
         /\ \A u \in Threads \ {t} : proc'[u] = proc[u]
         /\ \/ proc'[t] = NoProc
            \/ proc'[t].ref = proc[t].ref /\ proc'[t].body = proc[t].body
<1>1. ProcsTyped /\ proc[t] \in Proc
  BY JobTyped
<1>2. Running(t) /\ UNCHANGED <<op, phase>>
  BY DEF Process, Skip, Compare, Lookup, Match, Attach, Write, IndexRecord, RecordMapping,
         NoteHash, Unmap, Count, Unfile, Drop, Elsewhere, sweepVars, Running
<1>3. CASE \/ Done(t) \/ \E stage : Goto(t, stage)
  BY <1>1, <1>2, <1>3 DEF Done, Goto, ProcsTyped, Proc
<1>4. ASSUME NEW stage, NEW id, proc' = [proc EXCEPT ![t].id = id, ![t].pc = stage]
      PROVE  /\ \A u \in Threads \ {t} : proc'[u] = proc[u]
             /\ proc'[t].ref = proc[t].ref /\ proc'[t].body = proc[t].body
  BY <1>1, <1>4 DEF ProcsTyped, Proc
<1>5. CASE Compare(t) \/ Attach(t) \/ IndexRecord(t) \/ RecordMapping(t) \/ NoteHash(t)
           \/ Unmap(t) \/ Count(t) \/ Unfile(t) \/ Drop(t)
  BY <1>2, <1>3, <1>5
  DEF Compare, Attach, IndexRecord, RecordMapping, NoteHash, Unmap, Count, Unfile, Drop
<1>6. CASE Skip(t) \/ Lookup(t)
  BY <1>2, <1>3, <1>4, <1>6 DEF Skip, Lookup
<1>7. CASE Match(t)
  BY <1>2, <1>3, <1>4, <1>7 DEF Match, Duplicate
<1>8. CASE Write(t)
  BY <1>1, <1>2, <1>8 DEF Write, ProcsTyped, Proc
<1> QED BY <1>5, <1>6, <1>7, <1>8 DEF Process

LEMMA OneOnEachStays ==
  ASSUME OneOnEach,
         \A u \in Threads : proc'[u].pc = "idle" \/ (Running(u) /\ proc'[u].ref = proc[u].ref)
  PROVE  OneOnEach'
BY DEF OneOnEach, Running

\* What is done elsewhere may take something from a record under way, and adds nothing.
LeftAlone(u) ==
  /\ proc'[u] = proc[u]
  /\ hash'[proc[u].body] \in {0, hash[proc[u].body]}
  /\ proc[u].pc = "index" => vault'[proc[u].path] \in {NoFile, vault[proc[u].path]}
  /\ proc[u].pc \in {"map", "note"} => rows'[proc[u].id] \in {NoRow, rows[proc[u].id]}

LEMMA JobStays ==
  ASSUME NEW u \in Threads, JobFits(proc[u]), LeftAlone(u)
  PROVE  JobFits(proc[u])'
<1>1. proc[u].pc \in {"write", "index", "map", "note"} => hash'[proc[u].body] \in {0, proc[u].id}
  BY DEF JobFits, LeftAlone
<1>2. proc[u].pc = "index" /\ vault'[proc[u].path] # NoFile =>
        vault'[proc[u].path].id = proc[u].id /\ vault'[proc[u].path].body = proc[u].body
  BY DEF JobFits, LeftAlone
<1>3. proc[u].pc \in {"map", "note"} /\ proc[u].id # 0 /\ rows'[proc[u].id].path # 0 =>
        rows'[proc[u].id].body = proc[u].body
  BY Values DEF JobFits, LeftAlone, Indexed
<1> QED BY <1>1, <1>2, <1>3 DEF JobFits, LeftAlone, Indexed

\* A step that changes no row and no hash and writes no file.
LEMMA OnceRests ==
  ASSUME TypeInv, OnceInv, UNCHANGED <<rows, hash>>,
         \A p \in Paths : vault'[p] \in {NoFile, vault[p]},
         \A u \in Threads :
           \/ proc'[u] = proc[u]
           \/ /\ proc[u].pc \notin {"index", "map", "note"}
              /\ proc'[u].pc \notin {"index", "map", "note"}
              /\ proc'[u].pc = "write" => hash[proc'[u].body] \in {0, proc'[u].id}
           \/ proc[u].pc = "map" /\ proc'[u].pc = "note" /\ proc'[u].id = proc[u].id
              /\ proc'[u].body = proc[u].body,
         InTurn', OpFits', OneOnEach'
  PROVE  OnceInv'
<1>1. /\ StoreTyped /\ \A m \in Ids : Indexed(m) => rows[m].path \in Paths
      /\ \A u \in Threads : proc[u].pc = "index" => proc[u].path \in Paths
  BY JobTyped, IndexedPath DEF TypeInv
<1>2. \A m : Indexed(m)' <=> Indexed(m)
  BY DEF Indexed
<1>3. /\ \A m : HashToCome(m)' <=> HashToCome(m)
      /\ \A p : RowToCome(p)' <=> RowToCome(p)
  BY DEF HashToCome, RowToCome
<1>4. RowsHashed'
  BY <1>2, <1>3 DEF OnceInv, RowsHashed
<1>5. OwnPaths'
  BY <1>2 DEF OnceInv, OwnPaths
<1>6. FilesFit'
  <2> SUFFICES ASSUME NEW m \in Ids, Indexed(m), vault'[rows[m].path] # NoFile,
                      ~ RowToCome(rows[m].path)
               PROVE  /\ vault'[rows[m].path].id = m
                      /\ vault'[rows[m].path].body = rows[m].body
    BY <1>2, <1>3 DEF FilesFit
  <2> QED BY <1>1 DEF OnceInv, FilesFit
<1>7. ASSUME NEW u \in Threads PROVE JobFits(proc[u])'
  <2>1. CASE proc'[u] = proc[u]
    BY <1>1, <2>1, JobStays DEF OnceInv, LeftAlone
  <2>2. CASE proc[u].pc = "map" /\ proc'[u].pc = "note" /\ proc'[u].id = proc[u].id
             /\ proc'[u].body = proc[u].body
    BY <1>2, <2>2 DEF OnceInv, JobFits, Indexed
  <2>3. CASE /\ proc'[u].pc \notin {"index", "map", "note"}
             /\ proc'[u].pc = "write" => hash[proc'[u].body] \in {0, proc'[u].id}
    BY <2>3 DEF JobFits
  <2> QED BY <2>1, <2>2, <2>3
<1> QED BY <1>4, <1>5, <1>6, <1>7 DEF OnceInv

\* The rows of one memory are deleted, whatever records are under way.
LEMMA OnceDeletes ==
  ASSUME TypeInv, OnceInv, NEW d, DeleteRows(d), UNCHANGED <<vault, op, phase>>,
         op.pc \in {"write", "index"} => d # op.id,
         \A u \in Threads : \/ proc'[u] = proc[u]
                            \/ proc[u].pc = "drop" /\ proc'[u].pc = "idle"
  PROVE  OnceInv'
<1>1. /\ StoreTyped
      /\ \A m \in Ids : rows'[m] = IF m = d THEN NoRow ELSE rows[m]
      /\ \A b \in Bodies : hash'[b] = IF hash[b] = d THEN 0 ELSE hash[b]
  BY TablesWithout DEF DeleteRows, TypeInv
<1>2. \A m \in Ids : Indexed(m)' => Indexed(m) /\ m # d /\ rows'[m] = rows[m]
  BY <1>1, Values DEF Indexed
<1>3. \A m \in Ids : rows[m].body \in Bodies
  BY <1>1 DEF StoreTyped, Row
<1>4. /\ \A m : HashToCome(m)' <=> HashToCome(m)
      /\ \A p : RowToCome(p)' <=> RowToCome(p)
  BY DEF HashToCome, RowToCome
<1>5. RowsHashed'
  BY <1>1, <1>2, <1>3, <1>4 DEF OnceInv, RowsHashed
<1>6. OwnPaths'
  BY <1>2 DEF OnceInv, OwnPaths
<1>7. FilesFit'
  BY <1>2, <1>4 DEF OnceInv, FilesFit
<1>8. OpFits'
  <2> SUFFICES ASSUME op.pc \in {"write", "index"} PROVE Indexed(op.id)' /\ rows'[op.id] = rows[op.id]
    BY DEF OnceInv, OpFits
  <2>1. op.id \in Ids /\ op.id # d
    BY Constants DEF TypeInv, SweepTyped, OpOK, Op
  <2> QED BY <1>1, <2>1 DEF OnceInv, OpFits, Indexed
<1>9. ASSUME NEW u \in Threads PROVE JobFits(proc[u])'
  <2>1. CASE proc'[u] = proc[u]
    <3>1. proc[u].body \in Bodies /\ (proc[u].pc \in {"map", "note"} => proc[u].id \in Ids)
      BY JobTyped
    <3>2. LeftAlone(u)
      BY <1>1, <2>1, <3>1 DEF LeftAlone
    <3> QED BY <3>2, JobStays DEF OnceInv
  <2>2. CASE proc'[u].pc = "idle"
    BY <2>2 DEF JobFits
  <2> QED BY <2>1, <2>2
<1>10. OneOnEach'
  <2>1. \A u \in Threads : proc'[u].pc = "idle" \/ (Running(u) /\ proc'[u].ref = proc[u].ref)
    BY DEF Running
  <2> QED BY <2>1, OneOnEachStays DEF OnceInv
<1>11. InTurn'
  BY IngestAssumption DEF OnceInv, InTurn, Running
<1> QED BY <1>5, <1>6, <1>7, <1>8, <1>9, <1>10, <1>11 DEF OnceInv

\* The step of a record keeps to its turn, and to its file.
LEMMA StaysInTurn ==
  ASSUME TypeInv, OnceInv, NEW t \in Threads, Process(t)
  PROVE  InTurn' /\ OneOnEach'
<1>1. /\ Running(t) /\ UNCHANGED <<op, phase>> /\ \A u \in Threads \ {t} : proc'[u] = proc[u]
      /\ proc'[t].pc = "idle" \/ proc'[t].ref = proc[t].ref
  BY JobNext, Values
<1>2. OneOnEach'
  BY <1>1, OneOnEachStays DEF OnceInv, Running
<1>3. InTurn'
  BY <1>1, IngestAssumption DEF OnceInv, InTurn, Running
<1> QED BY <1>2, <1>3

LEMMA OnceWrite ==
  ASSUME TypeInv, OnceInv, Strangers, NEW t \in Threads, Write(t)
  PROVE  OnceInv'
<1>1. /\ StoreTyped /\ proc[t].id \in Ids /\ proc[t].ref \in Refs /\ proc[t].pc = "write"
      /\ proc[t] \in Proc /\ ProcsTyped
  BY JobTyped DEF Write
<1> DEFINE p == PathFor(proc[t].ref, proc[t].id)
<1>2. /\ vault' = [vault EXCEPT ![p] = FileOf(t)] /\ p \in Paths
      /\ proc' = [proc EXCEPT ![t].path = p, ![t].pc = "index"]
      /\ UNCHANGED <<rows, hash, op, phase>>
  BY <1>1, PathForTyped DEF Write, Elsewhere, sweepVars
<1>3. /\ proc'[t].pc = "index" /\ proc'[t].path = p /\ proc'[t].id = proc[t].id
      /\ proc'[t].body = proc[t].body /\ \A u \in Threads \ {t} : proc'[u] = proc[u]
  BY <1>1, <1>2 DEF ProcsTyped, Proc
<1>4. \A u \in Threads : u # t /\ proc[u].pc = "index" => proc[u].path # p
  BY <1>1 DEF Strangers, Running
<1> HIDE DEF p
<1>5. /\ FileOf(t).id = proc[t].id /\ FileOf(t).body = proc[t].body
      /\ \A q \in Paths : vault'[q] = IF q = p THEN FileOf(t) ELSE vault[q]
  BY <1>1, <1>2, FileOfTyped DEF StoreTyped
<1>6. /\ \A m : HashToCome(m)' <=> HashToCome(m)
      /\ \A q : RowToCome(q)' <=> (q = p \/ RowToCome(q))
  BY <1>1, <1>3 DEF HashToCome, RowToCome
<1>7. RowsHashed' /\ OwnPaths' /\ OpFits'
  BY <1>2, <1>6 DEF OnceInv, RowsHashed, OwnPaths, OpFits, Indexed
<1>8. FilesFit'
  <2> SUFFICES ASSUME NEW m \in Ids, Indexed(m), vault'[rows[m].path] # NoFile,
                      p # rows[m].path, ~ RowToCome(rows[m].path)
               PROVE  /\ vault'[rows[m].path].id = m
                      /\ vault'[rows[m].path].body = rows[m].body
    BY <1>2, <1>6 DEF FilesFit, Indexed
  <2>1. rows[m].path \in Paths
    BY <1>1, IndexedPath
  <2> QED BY <1>5, <2>1 DEF OnceInv, FilesFit
<1>9. ASSUME NEW u \in Threads PROVE JobFits(proc[u])'
  <2>1. CASE u = t
    BY <1>1, <1>2, <1>3, <1>5, <2>1 DEF OnceInv, JobFits
  <2>2. CASE u # t
    <3>1. proc[u].pc = "index" => proc[u].path \in Paths
      BY JobTyped
    <3>2. LeftAlone(u)
      BY <1>2, <1>3, <1>4, <1>5, <2>2, <3>1 DEF LeftAlone
    <3> QED BY <3>2, JobStays DEF OnceInv
  <2> QED BY <2>1, <2>2
<1>10. InTurn' /\ OneOnEach'
  BY StaysInTurn DEF Process
<1> QED BY <1>7, <1>8, <1>9, <1>10 DEF OnceInv

\* The row of the record; another memory on its path is displaced with its hashes.
LEMMA OnceIndex ==
  ASSUME TypeInv, OnceInv, Strangers, NEW t \in Threads, IndexRecord(t)
  PROVE  OnceInv'
<1> DEFINE job == proc[t]
           displaced == {m \in Ids \ {job.id} : rows[m].path = job.path}
<1>1. /\ StoreTyped /\ job.id \in Ids /\ job.pc = "index" /\ job.body \in Bodies
      /\ job.path \in Paths /\ job \in Proc /\ ProcsTyped /\ job.id # 0 /\ job.path # 0
  BY JobTyped, Constants DEF IndexRecord
<1>2. /\ FileOf(t) \in File /\ FileOf(t).id = job.id /\ FileOf(t).body = job.body
      /\ Upsert(FileOf(t), job.path)
  BY FileOfTyped DEF IndexRecord
<1>3. /\ proc'[t].pc = "map" /\ proc'[t].id = job.id /\ proc'[t].body = job.body
      /\ \A u \in Threads \ {t} : proc'[u] = proc[u]
      /\ UNCHANGED <<vault, op, phase>>
  BY <1>1 DEF IndexRecord, Goto, Elsewhere, sweepVars, ProcsTyped, Proc
<1>4. \A u \in Threads : u # t /\ Running(u) =>
        /\ proc[u].body # job.body /\ proc[u].id # job.id
        /\ proc[u].pc \in {"map", "note"} /\ Indexed(proc[u].id) => rows[proc[u].id].path # job.path
  BY <1>1 DEF Strangers, Running
<1>5. op.pc \in {"write", "index"} => op.id # job.id /\ rows[op.id].path # job.path
  BY <1>1 DEF Strangers, Running, OnceInv, OpFits
<1> HIDE DEF job
<1>6. /\ rows'[job.id].path = job.path /\ rows'[job.id].body = job.body
      /\ \A m \in Ids \ {job.id} : rows'[m] = IF rows[m].path = job.path THEN NoRow ELSE rows[m]
  <2>1. /\ rows'[FileOf(t).id] = [path |-> job.path, body |-> FileOf(t).body, type |-> FileOf(t).type]
        /\ \A m \in Ids \ {FileOf(t).id} :
             rows'[m] = IF rows[m].path = job.path THEN NoRow ELSE rows[m]
    BY <1>1, <1>2, UpsertTables
  <2> QED BY <1>2, <2>1
<1>7. \A b \in Bodies : hash'[b] = IF hash[b] \in displaced THEN 0 ELSE hash[b]
  BY <1>1, <1>2, UpsertHash
<1>8. /\ job.id # 0 /\ rows'[job.id].path # 0
      /\ \A m \in Ids \ {job.id} :
           Indexed(m)' => Indexed(m) /\ rows'[m] = rows[m] /\ rows[m].path # job.path
  BY <1>1, <1>6, Values DEF Indexed
<1>9. \A m \in Ids : rows[m].body \in Bodies
  BY <1>1 DEF StoreTyped, Row
<1>10. /\ \A m : HashToCome(m)' <=> (m = job.id \/ HashToCome(m))
       /\ \A p : RowToCome(p) =>
            p = job.path \/ \E u \in Threads : proc'[u].pc = "index" /\ proc'[u].path = p
       /\ \A u \in Threads \ {t} : proc[u].pc \in {"map", "note"} => Running(u)
  BY <1>1, <1>3 DEF HashToCome, RowToCome, Running, job
<1>11. RowsHashed'
  BY <1>1, <1>7, <1>8, <1>9, <1>10 DEF OnceInv, RowsHashed
<1>12. OwnPaths'
  BY <1>6, <1>8 DEF OnceInv, OwnPaths
<1>13. FilesFit'
  <2> SUFFICES ASSUME NEW m \in Ids, Indexed(m)', vault[rows'[m].path] # NoFile,
                      ~ \E u \in Threads : proc'[u].pc = "index" /\ proc'[u].path = rows'[m].path
               PROVE  /\ vault[rows'[m].path].id = m
                      /\ vault[rows'[m].path].body = rows'[m].body
    BY <1>3 DEF FilesFit, RowToCome
  <2>1. CASE m = job.id
    BY <1>1, <1>6, <2>1 DEF OnceInv, JobFits, job
  <2>2. CASE m # job.id
    BY <1>8, <1>10, <2>2 DEF OnceInv, FilesFit
  <2> QED BY <2>1, <2>2
<1>14. ASSUME NEW u \in Threads PROVE JobFits(proc[u])'
  <2>1. CASE u = t
    BY <1>1, <1>3, <1>6, <1>7, <1>8, <2>1 DEF OnceInv, JobFits, Indexed, job
  <2>2. CASE u # t
    <3>1. proc[u].body \in Bodies /\ (proc[u].pc \in {"map", "note"} => proc[u].id \in Ids)
      BY JobTyped
    <3>2. proc[u].pc \in {"map", "note"} => rows'[proc[u].id] \in {NoRow, rows[proc[u].id]}
      BY <1>4, <1>6, <1>10, <2>2, <3>1
    <3>3. LeftAlone(u)
      BY <1>3, <1>7, <2>2, <3>1, <3>2 DEF LeftAlone
    <3> QED BY <3>3, JobStays DEF OnceInv
  <2> QED BY <2>1, <2>2
<1>15. OpFits'
  <2> SUFFICES ASSUME op.pc \in {"write", "index"} PROVE Indexed(op.id)' /\ rows'[op.id] = rows[op.id]
    BY <1>3 DEF OnceInv, OpFits
  <2>1. op.id \in Ids
    BY Constants DEF TypeInv, SweepTyped, OpOK, Op
  <2> QED BY <1>3, <1>5, <1>6, <2>1 DEF OnceInv, OpFits, Indexed
<1>16. InTurn' /\ OneOnEach'
  BY StaysInTurn DEF Process
<1> QED BY <1>11, <1>12, <1>13, <1>14, <1>15, <1>16 DEF OnceInv

\* record_body_hash: the text had no hash, or one of the memory itself; a memory whose
\* row is gone gets none.
LEMMA OnceNote ==
  ASSUME TypeInv, OnceInv, Strangers, NEW t \in Threads, NoteHash(t)
  PROVE  OnceInv'
<1> DEFINE job == proc[t]
<1>1. /\ StoreTyped /\ job.id \in Ids /\ job.pc = "note" /\ job.body \in Bodies
      /\ ProcsTyped /\ hash[job.body] \in {0, job.id}
  BY JobTyped DEF NoteHash, OnceInv, JobFits
<1>2. /\ proc'[t].pc = "idle" /\ \A u \in Threads \ {t} : proc'[u] = proc[u]
      /\ UNCHANGED <<vault, rows, op, phase>>
  BY <1>1, Values DEF NoteHash, Done, Elsewhere, sweepVars, ProcsTyped
<1>3. \A u \in Threads : u # t /\ Running(u) => proc[u].body # job.body /\ proc[u].id # job.id
  BY <1>1, Constants DEF Strangers, Running
<1>4. ASSUME NEW b \in Bodies
      PROVE  hash'[b] = IF ~ Indexed(job.id) THEN hash[b]
                        ELSE IF b = job.body THEN job.id
                        ELSE IF hash[b] = job.id THEN 0 ELSE hash[b]
  <2>1. /\ HashWithout({job.id}) \in [Bodies -> Ids \cup {0}]
        /\ \A c \in Bodies : HashWithout({job.id})[c] = IF hash[c] = job.id THEN 0 ELSE hash[c]
    BY <1>1, TablesWithout
  <2>2. hash' = IF Indexed(job.id)
                THEN [HashWithout({job.id}) EXCEPT
                        ![job.body] = IF hash[job.body] = 0 THEN job.id ELSE hash[job.body]]
                ELSE hash
    BY DEF NoteHash
  <2> QED BY <1>1, <2>1, <2>2
<1>5. Indexed(job.id) => rows[job.id].body = job.body
  BY <1>1 DEF OnceInv, JobFits
<1>6. /\ \A m : HashToCome(m) => m = job.id \/ HashToCome(m)'
      /\ \A p : RowToCome(p)' <=> RowToCome(p)
  BY <1>1, <1>2 DEF HashToCome, RowToCome
<1> HIDE DEF job
<1>7. RowsHashed'
  <2> SUFFICES ASSUME NEW m \in Ids, Indexed(m), ~ HashToCome(m)' PROVE hash'[rows[m].body] = m
    BY <1>2 DEF RowsHashed, Indexed
  <2>1. CASE m = job.id
    BY <1>1, <1>4, <1>5, <2>1
  <2>2. CASE m # job.id
    <3>1. hash[rows[m].body] = m /\ rows[m].body \in Bodies
      BY <1>1, <1>6, <2>2 DEF OnceInv, RowsHashed, StoreTyped, Row
    <3>2. rows[m].body # job.body
      BY <1>1, <2>2, <3>1, Constants
    <3> QED BY <1>4, <2>2, <3>1, <3>2
  <2> QED BY <2>1, <2>2
<1>8. OwnPaths' /\ FilesFit' /\ OpFits'
  BY <1>2, <1>6 DEF OnceInv, OwnPaths, FilesFit, OpFits, Indexed
<1>9. ASSUME NEW u \in Threads PROVE JobFits(proc[u])'
  <2>1. CASE proc'[u].pc = "idle"
    BY <2>1 DEF JobFits
  <2>2. CASE proc'[u].pc # "idle"
    <3>1. u # t /\ proc'[u] = proc[u] /\ Running(u) /\ proc[u].body \in Bodies
      BY <1>2, <2>2, JobTyped DEF Running
    <3>2. LeftAlone(u)
      BY <1>2, <1>3, <1>4, <3>1 DEF LeftAlone
    <3> QED BY <3>2, JobStays DEF OnceInv
  <2> QED BY <2>1, <2>2
<1>10. InTurn' /\ OneOnEach'
  BY StaysInTurn DEF Process
<1> QED BY <1>7, <1>8, <1>9, <1>10 DEF OnceInv

LEMMA OnceProcess ==
  ASSUME TypeInv, OnceInv, Strangers, NEW t \in Threads, Process(t)
  PROVE  OnceInv'
<1>1. /\ StoreTyped /\ ProcsTyped /\ proc[t] \in Proc
  BY JobTyped
<1>2. /\ Running(t) /\ UNCHANGED <<op, phase>> /\ InTurn' /\ OneOnEach'
      /\ \A u \in Threads \ {t} : proc'[u] = proc[u]
  BY JobNext, StaysInTurn
<1>3. ASSUME UNCHANGED rows PROVE OpFits'
  BY <1>2, <1>3 DEF OnceInv, OpFits, Indexed
<1>4. CASE Skip(t) \/ Compare(t) \/ Lookup(t) \/ Attach(t) \/ Unmap(t) \/ Count(t)
  <2>1. UNCHANGED <<rows, hash, vault>>
    BY <1>4 DEF Skip, Compare, Lookup, Attach, Unmap, Count, storeVars
  <2>2. proc[t].pc \in {"skip", "compare", "lookup", "attach", "unmap", "count"}
    BY <1>4 DEF Skip, Compare, Lookup, Attach, Unmap, Count
  <2>3. proc'[t].pc \in {"idle", "lookup", "compare", "unmap", "match", "count", "unfile"}
    BY <1>1, <1>4, Values
    DEF Skip, Compare, Lookup, Attach, Unmap, Count, Goto, Done, ProcsTyped, Proc
  <2> QED BY <1>2, <1>3, <2>1, <2>2, <2>3, OnceRests
<1>5. CASE Match(t)
  <2>1. UNCHANGED <<rows, hash, vault>> /\ proc[t].pc = "match"
    BY <1>5 DEF Match
  <2>2. /\ proc'[t].pc \in {"idle", "attach", "unmap", "write"}
        /\ proc'[t].pc = "write" => hash[proc'[t].body] \in {0, proc'[t].id}
    BY <1>1, <1>5, Values DEF Match, Duplicate, Goto, Done, ProcsTyped, Proc
  <2> QED BY <1>2, <1>3, <2>1, <2>2, OnceRests
<1>6. CASE RecordMapping(t)
  <2>1. UNCHANGED <<rows, hash, vault>> /\ proc[t].pc = "map"
    BY <1>6 DEF RecordMapping
  <2>2. proc'[t].pc = "note" /\ proc'[t].id = proc[t].id /\ proc'[t].body = proc[t].body
    BY <1>1, <1>6 DEF RecordMapping, Goto, ProcsTyped, Proc
  <2> QED BY <1>2, <1>3, <2>1, <2>2, OnceRests
<1>7. CASE Unfile(t)
  <2>1. \A p \in Paths : vault'[p] \in {NoFile, vault[p]}
    BY <1>1, <1>7 DEF Unfile, StoreTyped
  <2>2. UNCHANGED <<rows, hash>> /\ proc[t].pc = "unfile" /\ proc'[t].pc = "drop"
    BY <1>1, <1>7 DEF Unfile, Goto, ProcsTyped, Proc
  <2> QED BY <1>2, <1>3, <2>1, <2>2, OnceRests
<1>8. CASE Drop(t)
  <2>1. /\ proc[t].pc = "drop" /\ proc'[t].pc = "idle" /\ DeleteRows(proc[t].id)
        /\ UNCHANGED vault
    BY <1>1, <1>8, Values DEF Drop, Done, ProcsTyped
  <2>2. op.pc \in {"write", "index"} => proc[t].id # op.id
    BY <1>2 DEF Strangers
  <2> QED BY <1>2, <2>1, <2>2, OnceDeletes
<1> QED BY <1>4, <1>5, <1>6, <1>7, <1>8, OnceWrite, OnceIndex, OnceNote DEF Process

\* The sweep puts the text of a row back into its file and its row.
LEMMA OnceHides ==
  ASSUME TypeInv, OnceInv, Strangers, ReadFile \/ WriteFile \/ IndexFile
  PROVE  OnceInv'
<1>1. /\ StoreTyped /\ SweepTyped /\ UNCHANGED <<proc, phase>>
      /\ phase = "sweep" /\ OpOK(op) /\ op.pc \in {"read", "write", "index"}
  BY DEF ReadFile, WriteFile, IndexFile, Outside, OnceInv, InTurn, TypeInv, SweepTyped
<1>2. op.id \in Ids /\ op.path \in Paths \cup {0} /\ op.file \in File
  BY <1>1, Constants DEF OpOK, Op
<1>3. Indexed(op.id) =>
        /\ ~ RowToCome(rows[op.id].path)
        /\ \A u \in Threads : proc[u].pc = "index" => proc[u].path # rows[op.id].path
  BY <1>1 DEF Strangers, Running, RowToCome
<1>4. InTurn' /\ OneOnEach'
  BY <1>1 DEF OnceInv, InTurn, OneOnEach, Running
<1>5. /\ \A m : HashToCome(m)' <=> HashToCome(m)
      /\ \A p : RowToCome(p)' <=> RowToCome(p)
  BY <1>1 DEF HashToCome, RowToCome
<1>6. CASE ReadFile
  <2> DEFINE p == rows[op.id].path
  <2>1. UNCHANGED <<rows, hash, vault>>
    BY <1>6 DEF ReadFile, storeVars
  <2>2. CASE op' = NoOp
    BY <1>1, <1>4, <2>1, <2>2, Values, OnceRests DEF OpFits
  <2>3. CASE op' # NoOp
    <3>1. /\ p # 0 /\ vault[p] # NoFile
          /\ op' = [op EXCEPT !.pc = "write", !.file = [vault[p] EXCEPT !.gone = op.gone], !.path = p]
      BY <1>6, <2>3 DEF ReadFile
    <3>2. Indexed(op.id) /\ p \in Paths /\ vault[p] \in File
      BY <1>1, <1>2, <3>1, IndexedPath, Constants DEF Indexed, StoreTyped
    <3>3. vault[p].id = op.id /\ vault[p].body = rows[op.id].body
      BY <1>1, <1>2, <1>3, <3>1, <3>2 DEF OnceInv, FilesFit
    <3>4. /\ op'.id = op.id /\ op'.path = p /\ op'.file.id = vault[p].id
          /\ op'.file.body = vault[p].body
      BY <1>1, <3>1, <3>2 DEF OpOK, Op, File
    <3>5. OpFits'
      BY <2>1, <3>2, <3>3, <3>4 DEF OpFits, Indexed
    <3> QED BY <1>1, <1>4, <2>1, <3>5, OnceRests
  <2> QED BY <2>2, <2>3
<1>7. ASSUME op.pc \in {"write", "index"}
      PROVE  /\ Indexed(op.id) /\ op.path = rows[op.id].path /\ op.path \in Paths
             /\ op.file.id = op.id /\ op.file.body = rows[op.id].body
             /\ \A u \in Threads : proc[u].pc = "index" => proc[u].path # op.path
  BY <1>1, <1>2, <1>3, <1>7, IndexedPath DEF OnceInv, OpFits
<1>8. CASE WriteFile
  <2>1. /\ vault' = [vault EXCEPT ![op.path] = op.file] /\ UNCHANGED <<rows, hash>>
        /\ op.pc = "write" /\ op' = [op EXCEPT !.pc = "index"]
    BY <1>8 DEF WriteFile
  <2>2. \A p \in Paths : vault'[p] = IF p = op.path THEN op.file ELSE vault[p]
    BY <1>1, <2>1 DEF StoreTyped
  <2>3. OpFits'
    BY <1>1, <1>7, <2>1 DEF OpFits, Indexed, OpOK, Op
  <2>4. RowsHashed' /\ OwnPaths'
    BY <1>5, <2>1 DEF OnceInv, RowsHashed, OwnPaths, Indexed
  <2>5. FilesFit'
    <3> SUFFICES ASSUME NEW m \in Ids, Indexed(m), vault'[rows[m].path] # NoFile,
                        ~ RowToCome(rows[m].path)
                 PROVE  /\ vault'[rows[m].path].id = m
                        /\ vault'[rows[m].path].body = rows[m].body
      BY <1>5, <2>1 DEF FilesFit, Indexed
    <3>1. rows[m].path \in Paths
      BY <1>1, IndexedPath
    <3>2. CASE rows[m].path = op.path
      <4>1. m = op.id
        BY <1>2, <1>7, <2>1, <3>2 DEF OnceInv, OwnPaths
      <4> QED BY <1>7, <2>1, <2>2, <3>1, <3>2, <4>1
    <3>3. CASE rows[m].path # op.path
      BY <2>2, <3>1, <3>3 DEF OnceInv, FilesFit
    <3> QED BY <3>2, <3>3
  <2>6. ASSUME NEW u \in Threads PROVE JobFits(proc[u])'
    <3>1. proc[u].pc = "index" => proc[u].path \in Paths
      BY JobTyped
    <3>2. LeftAlone(u)
      BY <1>1, <1>7, <2>1, <2>2, <3>1 DEF LeftAlone
    <3> QED BY <3>2, JobStays DEF OnceInv
  <2> QED BY <1>4, <2>3, <2>4, <2>5, <2>6 DEF OnceInv
<1>9. CASE IndexFile
  <2>1. op.pc = "index" /\ Upsert(op.file, op.path) /\ UNCHANGED vault
    BY <1>9 DEF IndexFile
  <2>2. /\ rows'[op.id].path = op.path /\ rows'[op.id].body = rows[op.id].body
        /\ \A m \in Ids \ {op.id} : rows'[m] = IF rows[m].path = op.path THEN NoRow ELSE rows[m]
    <3>1. /\ rows'[op.file.id] = [path |-> op.path, body |-> op.file.body, type |-> op.file.type]
          /\ \A m \in Ids \ {op.file.id} :
               rows'[m] = IF rows[m].path = op.path THEN NoRow ELSE rows[m]
      BY <1>1, <1>2, <1>7, <2>1, UpsertTables, Constants
    <3> QED BY <1>7, <2>1, <3>1
  <2>3. \A b \in Bodies :
          hash'[b] = IF hash[b] \in {m \in Ids \ {op.id} : rows[m].path = op.path} THEN 0 ELSE hash[b]
    BY <1>1, <1>7, <2>1, UpsertHash
  <2>4. \A m \in Ids : m # op.id /\ Indexed(m) => rows[m].path # op.path
    BY <1>2, <1>7, <2>1 DEF OnceInv, OwnPaths
  <2>5. \A m \in Ids : Indexed(m)' =>
          Indexed(m) /\ rows'[m].path = rows[m].path /\ rows'[m].body = rows[m].body
    BY <1>7, <2>1, <2>2, Values DEF Indexed
  <2>6. \A m \in Ids : rows[m].body \in Bodies
    BY <1>1 DEF StoreTyped, Row
  <2>7. RowsHashed'
    <3> SUFFICES ASSUME NEW m \in Ids, Indexed(m), ~ HashToCome(m) PROVE hash'[rows[m].body] = m
      BY <1>5, <2>5 DEF RowsHashed
    <3>1. hash[rows[m].body] = m
      BY DEF OnceInv, RowsHashed
    <3> QED BY <2>3, <2>4, <2>6, <3>1
  <2>8. OwnPaths'
    BY <2>5 DEF OnceInv, OwnPaths
  <2>9. FilesFit'
    <3> SUFFICES ASSUME NEW m \in Ids, Indexed(m)', vault[rows[m].path] # NoFile,
                        ~ RowToCome(rows[m].path)
                 PROVE  /\ vault[rows[m].path].id = m
                        /\ vault[rows[m].path].body = rows[m].body
      BY <1>1, <2>1, <2>5 DEF FilesFit, RowToCome
    <3> QED BY <2>5 DEF OnceInv, FilesFit
  <2>10. ASSUME NEW u \in Threads PROVE JobFits(proc[u])'
    <3>1. proc[u].body \in Bodies
      BY JobTyped
    <3>2. proc[u].pc \in {"map", "note"} /\ Indexed(proc[u].id) => rows'[proc[u].id].body = proc[u].body
      <4>1. proc[u].pc \in {"map", "note"} /\ Indexed(proc[u].id) => rows[proc[u].id].body = proc[u].body
        BY DEF OnceInv, JobFits
      <4>2. proc[u].pc \in {"map", "note"} => proc[u].id \in Ids
        BY JobTyped
      <4> QED BY <2>2, <2>4, <4>1, <4>2
    <3>3. proc[u].pc \in {"map", "note"} /\ Indexed(proc[u].id)' => Indexed(proc[u].id)
      <4>1. proc[u].pc \in {"map", "note"} => proc[u].id \in Ids
        BY JobTyped
      <4> QED BY <1>1, <2>5, <4>1 DEF Indexed
    <3> QED BY <1>1, <2>1, <2>3, <3>1, <3>2, <3>3 DEF OnceInv, JobFits, Indexed
  <2>11. OpFits'
    <3>1. op'.pc \in {"unmap", "idle"}
      BY <1>1, <1>9, Values DEF IndexFile, OpOK, Op
    <3> QED BY <3>1 DEF OpFits
  <2> QED BY <1>4, <2>7, <2>8, <2>9, <2>10, <2>11 DEF OnceInv
<1> QED BY <1>6, <1>8, <1>9

LEMMA OnceEmit ==
  ASSUME TypeInv, OnceInv, NEW t \in Threads, NEW r \in Refs, Emit(t, r),
         Threads = {"reconcile"} \/ "overlap" \notin Faults
  PROVE  OnceInv'
<1>1. /\ UNCHANGED <<rows, hash, vault, op, phase>> /\ ~ Running(t)
      /\ t = "reconcile" => phase = "walk"
  BY DEF Emit, storeVars, Running
<1>2. /\ proc'[t].pc \in {"skip", "lookup"} /\ proc'[t].ref = r
      /\ \A u \in Threads \ {t} : proc'[u] = proc[u]
  BY Values DEF Emit, TypeInv, ProcsTyped, Proc
<1>3. \A u \in Threads \ {t} : Running(u) => proc[u].ref # r
  BY IngestAssumption DEF Emit, Running
<1>4. OneOnEach'
  BY <1>2, <1>3 DEF OnceInv, OneOnEach, Running
<1>5. InTurn' /\ OpFits'
  BY <1>1, <1>2, IngestAssumption DEF OnceInv, InTurn, OpFits, Indexed, Running
<1> QED BY <1>1, <1>2, <1>4, <1>5, OnceRests DEF Running

LEMMA OnceCycle ==
  ASSUME TypeInv, OnceInv, Strangers, Reconcile, WholeAndApart
  PROVE  OnceInv'
<1>1. /\ StoreTyped /\ SweepTyped /\ ProcsTyped /\ "reconcile" \in Threads /\ OpOK(op)
  BY IngestAssumption DEF TypeInv, SweepTyped
<1>2. ASSUME UNCHANGED <<rows, hash, vault, proc>>, OpFits',
             \/ UNCHANGED <<op, phase>>
             \/ UNCHANGED phase /\ phase = "sweep"
             \/ ~ Running("reconcile") /\ op.pc = "idle" /\ UNCHANGED op
      PROVE  OnceInv'
  <2>1. InTurn' /\ OneOnEach'
    BY <1>2 DEF OnceInv, InTurn, OneOnEach, Running
  <2> QED BY <1>2, <2>1, OnceRests
<1>3. CASE \/ BeginCycle \/ SweepScan \/ PruneScan \/ EndCycle
           \/ \E r \in Refs : PassBy(r) \/ DropOrphan(r)
  <2>1. UNCHANGED <<rows, hash, vault, proc, op>>
    BY <1>3 DEF BeginCycle, SweepScan, PruneScan, EndCycle, PassBy, DropOrphan, Outside, storeVars
  <2>2. (\E r \in Refs : PassBy(r) \/ DropOrphan(r)) => UNCHANGED phase
    BY DEF PassBy, DropOrphan
  <2>3. BeginCycle \/ SweepScan \/ PruneScan \/ EndCycle =>
          ~ Running("reconcile") /\ op.pc = "idle"
    BY DEF BeginCycle, SweepScan, PruneScan, EndCycle, OnceInv, InTurn, Running
  <2>4. OpFits'
    BY <2>1 DEF OnceInv, OpFits, Indexed
  <2> QED BY <1>2, <1>3, <2>1, <2>2, <2>3, <2>4
<1>4. CASE UnmapDone \/ \E r \in Refs : UnmapDead(r)
  <2>1. UNCHANGED <<rows, hash, vault, proc, phase>> /\ op.pc = "unmap"
    BY <1>4 DEF UnmapDone, UnmapDead, Outside, storeVars
  <2>2. op'.pc \in {"idle", "read", "unmap"}
    BY <1>1, <1>4, Values DEF UnmapDone, UnmapDead, OpOK, Op
  <2>3. phase = "sweep" /\ OpFits'
    BY <2>1, <2>2 DEF OnceInv, InTurn, OpFits
  <2> QED BY <1>2, <2>1, <2>3
<1>5. ASSUME NEW m \in Ids, Examine(m)
      PROVE  OnceInv'
  <2>1. UNCHANGED <<rows, hash, vault, proc, phase>> /\ phase = "sweep"
    BY <1>5 DEF Examine, Outside, storeVars
  <2>2. PICK lost, live, dead :
          op' = [NoOp EXCEPT !.pc = IF lost THEN "read" ELSE "unmap", !.id = m, !.gone = lost,
                             !.live = live, !.dead = dead]
    BY <1>5, Zenon DEF Examine
  <2>3. op'.pc \in {"read", "unmap"}
    BY <2>2 DEF NoOp
  <2>4. OpFits'
    BY <2>3 DEF OpFits
  <2> QED BY <1>2, <2>1, <2>4
<1>6. ASSUME NEW r \in Refs, Emit("reconcile", r)
      PROVE  OnceInv'
  BY <1>1, <1>6, OnceEmit DEF WholeAndApart, TranscriptsApart
<1>7. ASSUME NEW m \in Ids, PruneRow(m)
      PROVE  OnceInv'
  <2>1. DeleteRows(m) /\ UNCHANGED <<vault, op, proc, phase>> /\ phase = "prune"
    BY <1>7 DEF PruneRow, Outside
  <2>2. op.pc = "idle"
    BY <2>1 DEF OnceInv, InTurn
  <2> QED BY <2>1, <2>2, OnceDeletes
<1> QED BY <1>3, <1>4, <1>5, <1>6, <1>7, OnceHides DEF Reconcile

LEMMA OnceStep ==
  ASSUME TypeInv, OnceInv, Strangers, WholeAndApart, [Next]_vars
  PROVE  OnceInv'
<1>1. ASSUME UNCHANGED <<rows, hash, proc, op, phase>>,
             \A p \in Paths : vault'[p] \in {NoFile, vault[p]}
      PROVE  OnceInv'
  <2>1. InTurn' /\ OpFits' /\ OneOnEach'
    BY <1>1 DEF OnceInv, InTurn, OpFits, OneOnEach, Indexed, Running
  <2> QED BY <1>1, <2>1, OnceRests
<1>2. CASE (\E r \in Refs : Save(r) \/ Restore(r) \/ Remove(r)) \/ Unmount \/ Remount \/ UNCHANGED vars
  <2>1. UNCHANGED <<rows, hash, proc, op, phase, vault>>
    BY <1>2 DEF Save, Restore, Remove, Unmount, Remount, Still, vars, storeVars, sweepVars
  <2> QED BY <1>1, <2>1
<1>3. ASSUME NEW q \in Paths, Forget(q)
      PROVE  OnceInv'
  <2>1. UNCHANGED <<rows, hash, proc, op, phase>>
    BY <1>3 DEF Forget, sweepVars
  <2>2. \A p \in Paths : vault'[p] \in {NoFile, vault[p]}
    BY <1>3 DEF Forget, TypeInv, StoreTyped
  <2> QED BY <1>1, <2>1, <2>2
<1>4. ~ FailSweep /\ ~ Crash /\ \A t \in Threads : ~ Fail(t)
  BY DEF WholeAndApart, FailSweep, Crash, Fail
<1>5. CASE "live" \in Threads /\ \E r \in Watched : Emit("live", r)
  <2>1. Watched \subseteq Refs
    BY IngestAssumption
  <2> QED BY <1>5, <2>1, OnceEmit DEF WholeAndApart, TranscriptsApart
<1> QED BY <1>2, <1>3, <1>4, <1>5, OnceProcess, OnceCycle DEF Next

LEMMA OnceInit == Init => OnceInv
<1> SUFFICES ASSUME Init PROVE OnceInv
  OBVIOUS
<1>1. /\ \A t \in Threads : proc[t].pc = "idle" /\ ~ Running(t)
      /\ op.pc = "idle" /\ \A m \in Ids : ~ Indexed(m)
  BY Values DEF Init, Indexed, Running
<1>2. "reconcile" \in Threads
  BY IngestAssumption
<1> QED BY <1>1, <1>2
        DEF OnceInv, InTurn, RowsHashed, OwnPaths, FilesFit, OpFits, OneOnEach, JobFits, Running

\* pipeline.py:259-263: a text is looked for before it is stored, so it is stored once,
\* though files come and go and lose their memory's file, as long as no step fails.  The
\* reconcile alone may meet any texts and paths; beside a live drain of the transcripts
\* the authored files may share theirs, and a text may come back.
THEOREM TextStoredOnce ==
  ASSUME WholeAndApart
  PROVE  Spec => []StoredOnce
<1> DEFINE Two == /\ TranscriptsApart /\ StrandInv
                  /\ \E kind \in [Ids -> Types] : Traces(TypeClass, kind)
                  /\ \E kind \in [Ids -> SUBSET Refs] : Traces(Group, kind)
           Inv == TypeInv /\ OnceInv /\ (Threads = {"reconcile"} \/ Two)
<1>1. Inv => StoredOnce
  <2> SUFFICES ASSUME OnceInv, NEW m \in Ids, NEW n \in Ids, m # n, Shown(m), Shown(n),
                      ~ Busy(m), ~ Busy(n)
               PROVE  rows[m].body # rows[n].body
    BY DEF StoredOnce
  <2>1. ~ HashToCome(m) /\ ~ HashToCome(n)
    BY DEF Busy, HashToCome
  <2>2. hash[rows[m].body] = m /\ hash[rows[n].body] = n
    BY <2>1 DEF OnceInv, RowsHashed, Shown
  <2> QED BY <2>2
<1>2. \A r \in Refs : Group[r] \in SUBSET Refs
  BY DEF Group, Notes
<1>3. Init => Inv
  <2> SUFFICES ASSUME Init PROVE Inv
    OBVIOUS
  <2>1. TypeInv /\ OnceInv /\ StrandInv /\ \E kind \in [Ids -> Types] : Traces(TypeClass, kind)
    BY TypesInit, OnceInit, StrandInit
  <2>2. [m \in Ids |-> {}] \in [Ids -> SUBSET Refs]
    OBVIOUS
  <2>3. \E kind \in [Ids -> SUBSET Refs] : Traces(Group, kind)
    BY <2>2, TracesInit
  <2> QED BY <2>1, <2>3 DEF WholeAndApart
<1>4. Inv /\ [Next]_vars => Inv'
  <2> SUFFICES ASSUME Inv, [Next]_vars PROVE Inv'
    OBVIOUS
  <2>1. TypeInv'
    BY TypesStep
  <2>2. Strangers
    BY StrangersAlone, StrangersApart DEF OnceInv
  <2>3. OnceInv'
    BY <2>2, OnceStep
  <2>4. Two => Two'
    <3> SUFFICES ASSUME Two PROVE Two'
      OBVIOUS
    <3>1. NotesApart /\ Classes(Group)
      BY GroupFacts DEF TranscriptsApart
    <3>2. StrandInv' /\ \E kind \in [Ids -> Types] : Traces(TypeClass, kind)'
      BY <2>1, <3>1, StrandStep
    <3>3. \E kind \in [Ids -> SUBSET Refs] : Traces(Group, kind)'
      BY <1>2, <2>1, <3>1, TracesStep
    <3> QED BY <3>2, <3>3
  <2> QED BY <2>1, <2>3, <2>4
<1> HIDE DEF Inv
<1> QED BY <1>1, <1>3, <1>4, PTL DEF Spec
=============================================================================

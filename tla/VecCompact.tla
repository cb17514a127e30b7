----------------------------- MODULE VecCompact -----------------------------
(***************************************************************************)
(* The rebuild of the vector table beside the live one (ADR 0036/0040).    *)
(*                                                                         *)
(* The compactor copies the rows of memories_vec into memories_vec_new in  *)
(* batches, each read on a connection of its own and written under the     *)
(* lock, while the pipeline edits and deletes records and the embed worker *)
(* applies vectors and records that it did.  One transaction then brings   *)
(* the copy up to date, compares the counts and renames it into place.     *)
(*                                                                         *)
(* A row is <<memory, index>>, in the order of the chunk ids, and holds    *)
(* the text its vector was computed from.                                  *)
(***************************************************************************)
EXTENDS Naturals, Sequences, FiniteSets, FiniteSetsExt, Functions

CONSTANTS
  Memories,    \* ids, in their order
  Texts,       \* what a chunk can say
  Bodies,      \* the bodies a record can have: sequences of texts
  Nothing,     \* no body
  NoTable,     \* no table
  BatchSize,   \* rows of a batch
  ChunkSlots,  \* slots vec0 allocates at once
  MinDead,     \* vec_compact_min_dead_slots
  MaxSlots,    \* bounds: slots the table starts with,
  MaxEdits,    \*   edits, deletions and expiries,
  MaxFaults    \*   errors and crashes

ASSUME CompactAssumption ==
  /\ Memories \subseteq Nat /\ IsFiniteSet(Memories)
  /\ Bodies \subseteq Seq(Texts) /\ IsFiniteSet(Bodies) /\ Nothing \notin Bodies
  /\ {BatchSize, ChunkSlots} \subseteq Nat \ {0}
  /\ {MinDead, MaxSlots, MaxEdits, MaxFaults} \subseteq Nat

VARIABLES
  body,     \* body[m]: the body of the row of m in memories
  live,     \* memories_vec
  build,    \* memories_vec_new
  old,      \* memories_vec_old
  slots,    \* slots allocated for memories_vec
  state,    \* state[m]: the body embed_state says is embedded
  hashes,   \* hashes[m]: the body vec_chunk_hashes is about
  writing,  \* writing[m]: the body whose vectors are applied and not yet recorded
  fresh,    \* records with an embedded_at since the rebuild started
  pc,       \* what the compactor does
  batch,    \* the rows it has read
  cursor,   \* the last chunk id it has copied
  left      \* left[k]: what is left of bound k

vars == <<body, live, build, old, slots, state, hashes, writing, fresh, pc, batch, cursor, left>>

rows == <<live, slots>>

records == <<body, state, hashes, writing>>

\* The rows that the bodies may have: one for each chunk.
Ids == Memories \X (1..Max({Len(b) : b \in Bodies} \cup {0}))

Tables == UNION {[s -> Texts] : s \in SUBSET Ids}

Copying == {"read", "write", "swap"}

\* The compactor works on a table of its own from the first batch to the swap.
TypeOK ==
  /\ body \in [Memories -> Bodies \cup {Nothing}]
  /\ live \in Tables
  /\ build \in Tables \cup {NoTable} /\ old \in Tables \cup {NoTable}
  /\ slots \in Nat /\ Cardinality(DOMAIN live) <= slots
  /\ \A f \in {state, hashes, writing} : f \in [Memories -> Bodies \cup {Nothing}]
  /\ fresh \subseteq Memories
  /\ pc \in {"rest", "drop", "clean"} \cup Copying
  /\ pc \in Copying => build # NoTable /\ old = NoTable
  /\ batch \in Tables /\ cursor \in Ids \cup {<<0, 0>>}
  /\ left \in [{"edits", "faults"} -> Nat]

----------------------------------------------------------------------------
\* Rows

Before(c, d) == c[1] < d[1] \/ (c[1] = d[1] /\ c[2] < d[2])

RowsOf(table, m) == {c \in DOMAIN table : c[1] = m}

Without(table, m) == Restrict(table, DOMAIN table \ RowsOf(table, m))

ChunksOf(m, b) == {m} \X (1..Len(b))

SlotsFor(n) == ChunkSlots * ((n + ChunkSlots - 1) \div ChunkSlots)

\* vec0 takes dead slots first, and gives a chunk back only when all its slots are dead.
SlotsAfter(n) == {s \in SlotsFor(n)..Max({slots, SlotsFor(n)}) : s % ChunkSlots = 0}

\* The chunk of m, if any, whose stored vector is reused for chunk i of body b.
Reusable(m, b, i) ==
  IF hashes[m] = Nothing \/ hashes[m] # state[m] THEN {}
  ELSE {j \in 1..Len(hashes[m]) : <<m, j>> \in DOMAIN live /\ hashes[m][j] = b[i]}

VectorFor(m, b, i) ==
  LET from == Reusable(m, b, i)
  IN IF from = {} THEN b[i]
     ELSE live[<<m, IF i \in from THEN i ELSE Min(from)>>]

Embedded(m, b) ==
  [c \in (DOMAIN live \ RowsOf(live, m)) \cup ChunksOf(m, b) |->
     IF c[1] = m THEN VectorFor(m, b, c[2]) ELSE live[c]]

----------------------------------------------------------------------------
\* The pipeline and the stages beside the compactor

Ticks(k) == left[k] > 0 /\ left' = [left EXCEPT ![k] = @ - 1]

Uncopied == UNCHANGED <<build, old, pc, batch, cursor>>

Edit(m) ==
  /\ Ticks("edits")
  /\ \E b \in Bodies \ {body[m]} : body' = [body EXCEPT ![m] = b]
  /\ UNCHANGED <<rows, state, hashes, writing, fresh>> /\ Uncopied

DeleteVectors(m) ==
  /\ live' = Without(live, m)
  /\ slots' \in SlotsAfter(Cardinality(DOMAIN live'))
  /\ hashes' = [hashes EXCEPT ![m] = Nothing]

Delete(m) ==
  /\ Ticks("edits")
  /\ body[m] # Nothing
  /\ DeleteVectors(m)
  /\ body' = [body EXCEPT ![m] = Nothing]
  /\ state' = [state EXCEPT ![m] = Nothing]
  /\ fresh' = fresh \ {m}
  /\ UNCHANGED writing /\ Uncopied

Strip(m) ==
  /\ Ticks("edits")
  /\ DeleteVectors(m)
  /\ UNCHANGED <<body, state, writing, fresh>> /\ Uncopied

\* The worker, once for each record at a time.  What it does for a record that
\* is deleted meanwhile is to drop what it wrote.
Apply(m) ==
  /\ writing[m] = Nothing /\ body[m] # Nothing /\ state[m] # body[m]
  /\ live' = Embedded(m, body[m])
  /\ slots' \in SlotsAfter(Cardinality(DOMAIN live'))
  /\ hashes' = [hashes EXCEPT ![m] = body[m]]
  /\ writing' = [writing EXCEPT ![m] = body[m]]
  /\ UNCHANGED <<body, state, fresh, left>> /\ Uncopied

RecordState(m) ==
  /\ writing[m] # Nothing
  /\ writing' = [writing EXCEPT ![m] = Nothing]
  /\ \/ /\ body[m] # Nothing
        /\ state' = [state EXCEPT ![m] = writing[m]]
        /\ fresh' = fresh \cup {m}
        /\ UNCHANGED <<rows, hashes>>
     \/ /\ body[m] = Nothing
        /\ DeleteVectors(m)
        /\ UNCHANGED <<state, fresh>>
  /\ UNCHANGED <<body, left>> /\ Uncopied

----------------------------------------------------------------------------
\* The compactor

\* Variant: only the share of live slots counts.
DueByShare ==
  LET n == Cardinality(DOMAIN live) IN slots # 0 /\ 5 * n < 4 * slots

\* Fewer than 80 % of the slots live, and at least a chunk's worth dead.
Due ==
  LET n == Cardinality(DOMAIN live)
  IN slots # 0 /\ slots >= n + MinDead /\ 5 * n < 4 * slots

\* What an interrupted rebuild left is dropped first.
Begin ==
  /\ pc = "rest" /\ Due
  /\ pc' = "read" /\ cursor' = <<0, 0>> /\ batch' = << >>
  /\ build' = << >> /\ old' = NoTable
  /\ fresh' = {}
  /\ UNCHANGED <<rows, records, left>>

\* Without a connection to read on, all rows in one transaction.
CopyWhole ==
  /\ pc = "read" /\ cursor = <<0, 0>>
  /\ build' = live /\ pc' = "swap"
  /\ UNCHANGED <<rows, records, old, fresh, batch, cursor, left>>

Ahead == {c \in DOMAIN live : Before(cursor, c)}

ReadBatch ==
  /\ pc = "read"
  /\ IF Ahead = {} THEN pc' = "swap" /\ UNCHANGED batch
     ELSE /\ pc' = "write"
          /\ batch' = Restrict(live, {c \in Ahead :
                        Cardinality({d \in Ahead : Before(d, c)}) < BatchSize})
  /\ UNCHANGED <<rows, records, build, old, fresh, cursor, left>>

WriteBatch ==
  /\ pc = "write"
  /\ build' = [c \in DOMAIN build \cup DOMAIN batch |->
                 IF c \in DOMAIN batch THEN batch[c] ELSE build[c]]
  /\ cursor' = CHOOSE c \in DOMAIN batch : \A d \in DOMAIN batch \ {c} : Before(d, c)
  /\ batch' = << >> /\ pc' = "read"
  /\ UNCHANGED <<rows, records, old, fresh, left>>

\* Variant: the copy as it is.
RefreshedNot == build

\* The copy with the rows of records embedded since then taken again.
Refreshed ==
  [c \in {d \in DOMAIN build : d[1] \notin fresh} \cup {d \in DOMAIN live : d[1] \in fresh} |->
     IF c[1] \in fresh THEN live[c] ELSE build[c]]

\* Variant: rows deleted since they were copied stay.
PrunedNot(table) == table

Pruned(table) == Restrict(table, DOMAIN table \cap DOMAIN live)

Counted(table) == Cardinality(DOMAIN table) = Cardinality(DOMAIN live)

Swap ==
  /\ pc = "swap"
  /\ Counted(Pruned(Refreshed))
  /\ live' = Pruned(Refreshed) /\ old' = live /\ build' = NoTable
  /\ slots' = SlotsFor(Cardinality(DOMAIN live'))
  /\ pc' = "drop"
  /\ UNCHANGED <<records, fresh, batch, cursor, left>>

Mismatch ==
  /\ pc = "swap"
  /\ ~ Counted(Pruned(Refreshed))
  /\ pc' = "clean"
  /\ UNCHANGED <<rows, records, build, old, fresh, batch, cursor, left>>

DropOld ==
  /\ pc = "drop"
  /\ old' = NoTable /\ pc' = "rest"
  /\ UNCHANGED <<rows, records, build, fresh, batch, cursor, left>>

\* Any exception; the transaction it ends leaves nothing behind.
Fail ==
  /\ Ticks("faults")
  /\ pc \in Copying \cup {"drop"}
  /\ pc' = "clean" /\ batch' = << >>
  /\ UNCHANGED <<rows, records, build, old, fresh, cursor>>

Clean ==
  /\ pc = "clean"
  /\ build' = NoTable /\ old' = NoTable
  /\ pc' = "rest" /\ batch' = << >>
  /\ UNCHANGED <<rows, records, fresh, cursor, left>>

\* The daemon dies and starts again: the tables stay as they are, the worker
\* takes its record up afresh.
Crash ==
  /\ Ticks("faults")
  /\ pc' = "rest" /\ batch' = << >>
  /\ writing' = [m \in Memories |-> Nothing]
  /\ UNCHANGED <<rows, body, state, hashes, build, old, fresh, cursor>>

----------------------------------------------------------------------------

Init ==
  /\ body \in [Memories -> Bodies]
  /\ state = body /\ hashes = body
  /\ writing = [m \in Memories |-> Nothing]
  /\ live = [c \in UNION {ChunksOf(m, body[m]) : m \in Memories} |-> body[c[1]][c[2]]]
  /\ slots \in {s \in SlotsFor(Cardinality(DOMAIN live))..MaxSlots : s % ChunkSlots = 0}
  /\ build = NoTable /\ old = NoTable
  /\ fresh = {} /\ pc = "rest" /\ batch = << >> /\ cursor = <<0, 0>>
  /\ left = [edits |-> MaxEdits, faults |-> MaxFaults]

Work(m) == Apply(m) \/ RecordState(m)

Compact ==
  \/ Begin \/ CopyWhole \/ ReadBatch \/ WriteBatch
  \/ Swap \/ Mismatch \/ DropOld \/ Clean

Next ==
  \/ \E m \in Memories : Edit(m) \/ Delete(m) \/ Strip(m) \/ Work(m)
  \/ Compact \/ Fail \/ Crash

Fairness ==
  /\ WF_vars(Compact)
  /\ \A m \in Memories : WF_vars(Work(m))

Spec == Init /\ [][Next]_vars /\ Fairness

----------------------------------------------------------------------------
\* Properties

\* No step of the compactor, the swap, a failure and a crash included, loses a
\* row of the table that searches read or brings one back.
CompactorKeepsRows == [][pc' # pc => DOMAIN live' = DOMAIN live]_vars

\* The new table has, for every record whose vectors the worker is not between
\* applying and recording, the vectors the old one had.
SwapKeepsVectors ==
  [][Swap => \A c \in DOMAIN live : writing[c[1]] = Nothing => live'[c] = live[c]]_vars

\* When records are left alone and nothing fails any more the table gets
\* compacted, and stays so: what is left over of a rebuild that failed does not
\* keep the next one from its end, and a rebuilt table is not due again.
TableIsCompacted == <>[]~ Due

=============================================================================

-------------------------- MODULE VecCompactProofs --------------------------
(***************************************************************************)
(* What holds of VecCompact for every set of records and bodies, every     *)
(* size of a batch and of a vec0 chunk, and every bound.                   *)
(***************************************************************************)
EXTENDS VecCompact, FiniteSetTheorems, TLAPS

Indexes == UNION {1..Len(b) : b \in Bodies}

Chunks == Memories \X Indexes

RowsTyped ==
  /\ body \in [Memories -> Bodies \cup {Nothing}]
  /\ writing \in [Memories -> Bodies \cup {Nothing}]
  /\ DOMAIN live \subseteq Chunks

\* A row of table may differ from its live row if its record has been embedded
\* since the rebuild began, or is being.
Follows(table) ==
  \A c \in DOMAIN table \cap DOMAIN live :
    \/ c[1] \in fresh \/ writing[c[1]] # Nothing
    \/ table[c] = live[c]

CopyFollows ==
  /\ pc \in Copying => Follows(build)
  /\ pc = "write" => Follows(batch)

CompactInv == RowsTyped /\ CopyFollows

-----------------------------------------------------------------------------
(* Rows *)

\* The chunks there can be are finitely many, though no bound is named.
LEMMA ChunksFinite == IsFiniteSet(Chunks)
<1> DEFINE lens == [b \in Bodies |-> 1..Len(b)]
           images == {1..Len(b) : b \in Bodies}
<1>1. lens \in Surjection(Bodies, images)
  BY DEF Surjection
<1>2. IsFiniteSet(images)
  BY <1>1, FS_Surjection, CompactAssumption
<1>3. \A t \in images : IsFiniteSet(t)
  <2> SUFFICES ASSUME NEW b \in Bodies PROVE IsFiniteSet(1..Len(b))
    OBVIOUS
  <2>1. b \in Seq(Texts)
    BY CompactAssumption
  <2>2. Len(b) \in Int
    BY <2>1
  <2> QED BY <2>2, FS_Interval
<1>4. IsFiniteSet(Indexes)
  BY <1>2, <1>3, FS_UNION DEF Indexes
<1> QED BY <1>4, FS_Product, CompactAssumption DEF Chunks

LEMMA BodyChunks ==
  ASSUME NEW m \in Memories, NEW b \in Bodies
  PROVE  ChunksOf(m, b) \subseteq Chunks
BY DEF ChunksOf, Chunks, Indexes

LEMMA DeletedRows ==
  ASSUME NEW m \in Memories, DeleteVectors(m)
  PROVE  /\ DOMAIN live' = {c \in DOMAIN live : c[1] # m}
         /\ \A c \in DOMAIN live' : live'[c] = live[c]
BY DEF DeleteVectors, Without, RowsOf, Restrict

LEMMA AppliedRows ==
  ASSUME NEW m \in Memories, Apply(m), RowsTyped
  PROVE  /\ DOMAIN live' \subseteq Chunks
         /\ \A c \in DOMAIN live' : c[1] # m => c \in DOMAIN live /\ live'[c] = live[c]
<1>1. body[m] \in Bodies
  BY DEF Apply, RowsTyped
<1>2. ChunksOf(m, body[m]) \subseteq Chunks
  BY <1>1, BodyChunks
<1>3. \A c \in ChunksOf(m, body[m]) : c[1] = m
  BY DEF ChunksOf
<1> QED BY <1>2, <1>3 DEF Apply, Embedded, RowsOf, RowsTyped

\* What the swap compares counts of: the pruned copy has no row the live table
\* has not, so that equal counts are equal sets of rows.
LEMMA EqualCounts ==
  ASSUME RowsTyped, Counted(Pruned(Refreshed))
  PROVE  DOMAIN Pruned(Refreshed) = DOMAIN live
<1>1. DOMAIN Pruned(Refreshed) \subseteq DOMAIN live
  BY DEF Pruned, Restrict
<1>2. IsFiniteSet(DOMAIN live)
  BY ChunksFinite, FS_Subset DEF RowsTyped
<1> QED BY <1>1, <1>2, FS_Subset DEF Counted

LEMMA SwappedRows ==
  ASSUME RowsTyped, CopyFollows, Swap
  PROVE  /\ DOMAIN live' = DOMAIN live
         /\ \A c \in DOMAIN live : writing[c[1]] = Nothing => live'[c] = live[c]
<1>1. DOMAIN live' = DOMAIN live
  BY EqualCounts DEF Swap
<1>2. ASSUME NEW c \in DOMAIN live, writing[c[1]] = Nothing
      PROVE  live'[c] = live[c]
  <2>1. c \in DOMAIN Refreshed /\ live'[c] = Refreshed[c]
    BY <1>1 DEF Swap, Pruned, Restrict
  <2>2. CASE c[1] \in fresh
    BY <2>1, <2>2 DEF Refreshed
  <2>3. CASE c[1] \notin fresh
    <3>1. c \in DOMAIN build /\ Refreshed[c] = build[c]
      BY <2>1, <2>3 DEF Refreshed
    <3>2. Follows(build)
      BY DEF CopyFollows, Swap, Copying
    <3> QED BY <3>1, <3>2, <2>1, <2>3, <1>2 DEF Follows
  <2> QED BY <2>2, <2>3
<1> QED BY <1>1, <1>2

-----------------------------------------------------------------------------
(* The invariant *)

LEMMA InitInv == Init => CompactInv
<1> SUFFICES ASSUME Init PROVE CompactInv
  OBVIOUS
<1>1. \A m \in Memories : body[m] \in Bodies /\ ChunksOf(m, body[m]) \subseteq Chunks
  BY BodyChunks DEF Init
<1>2. DOMAIN live \subseteq Chunks
  BY <1>1 DEF Init
<1> QED BY <1>2 DEF Init, CompactInv, RowsTyped, CopyFollows, Copying

LEMMA NextInv == CompactInv /\ [Next]_vars => CompactInv'
<1> SUFFICES ASSUME CompactInv, [Next]_vars PROVE CompactInv'
  OBVIOUS
<1> USE DEF CompactInv, rows, records
<1>1. ASSUME NEW m \in Memories, Edit(m) PROVE CompactInv'
  BY <1>1 DEF Edit, Uncopied, RowsTyped, CopyFollows, Follows, Copying
<1>2. ASSUME NEW m \in Memories, Delete(m) PROVE CompactInv'
  <2>1. RowsTyped'
    BY <1>2, DeletedRows DEF Delete, RowsTyped
  <2>2. \A c \in DOMAIN live' : c \in DOMAIN live /\ c[1] # m /\ live'[c] = live[c]
    BY <1>2, DeletedRows DEF Delete
  <2>3. CopyFollows'
    BY <1>2, <2>2 DEF Delete, Uncopied, CopyFollows, Follows, Copying
  <2> QED BY <2>1, <2>3
<1>3. ASSUME NEW m \in Memories, Strip(m) PROVE CompactInv'
  <2>1. RowsTyped'
    BY <1>3, DeletedRows DEF Strip, RowsTyped
  <2>2. \A c \in DOMAIN live' : c \in DOMAIN live /\ live'[c] = live[c]
    BY <1>3, DeletedRows DEF Strip
  <2>3. CopyFollows'
    BY <1>3, <2>2 DEF Strip, Uncopied, CopyFollows, Follows, Copying
  <2> QED BY <2>1, <2>3
<1>4. ASSUME NEW m \in Memories, Apply(m) PROVE CompactInv'
  <2>1. body[m] \in Bodies /\ body[m] # Nothing
    BY <1>4 DEF Apply, RowsTyped
  <2>2. RowsTyped'
    BY <1>4, <2>1, AppliedRows DEF Apply, RowsTyped
  <2>3. \A c \in DOMAIN live' : \/ c[1] = m
                                \/ c \in DOMAIN live /\ live'[c] = live[c]
    BY <1>4, AppliedRows
  <2>4. writing'[m] # Nothing /\ \A n \in Memories \ {m} : writing'[n] = writing[n]
    BY <1>4, <2>1 DEF Apply, RowsTyped
  <2>5. \A c \in DOMAIN live' : c[1] \in Memories
    BY <2>2 DEF RowsTyped, Chunks
  <2>6. ASSUME NEW table, Follows(table)
        PROVE  \A c \in DOMAIN table \cap DOMAIN live' :
                 c[1] \in fresh \/ writing'[c[1]] # Nothing \/ table[c] = live'[c]
    BY <2>3, <2>4, <2>5, <2>6 DEF Follows
  <2>7. CopyFollows'
    BY <1>4, <2>6 DEF Apply, Uncopied, CopyFollows, Follows, Copying
  <2> QED BY <2>2, <2>7
<1>5. ASSUME NEW m \in Memories, RecordState(m) PROVE CompactInv'
  <2>1. RowsTyped'
    BY <1>5, DeletedRows DEF RecordState, RowsTyped
  <2>2. \A n \in Memories \ {m} : writing'[n] = writing[n]
    BY <1>5 DEF RecordState, RowsTyped
  <2>3. \A c \in DOMAIN live' :
          /\ c \in DOMAIN live /\ live'[c] = live[c]
          /\ c[1] = m => c[1] \in fresh'
    BY <1>5, DeletedRows DEF RecordState
  <2>4. fresh \subseteq fresh'
    BY <1>5 DEF RecordState
  <2>5. \A c \in DOMAIN live' : c[1] \in Memories
    BY <2>1 DEF RowsTyped, Chunks
  <2>6. ASSUME NEW table, Follows(table)
        PROVE  \A c \in DOMAIN table \cap DOMAIN live' :
                 c[1] \in fresh' \/ writing'[c[1]] # Nothing \/ table[c] = live'[c]
    BY <2>2, <2>3, <2>4, <2>5, <2>6 DEF Follows
  <2>7. CopyFollows'
    BY <1>5, <2>6 DEF RecordState, Uncopied, CopyFollows, Follows, Copying
  <2> QED BY <2>1, <2>7
<1>6. CASE Begin
  BY <1>6 DEF Begin, RowsTyped, CopyFollows, Follows, Copying
<1>7. CASE CopyWhole
  BY <1>7 DEF CopyWhole, RowsTyped, CopyFollows, Follows, Copying
<1>8. CASE ReadBatch
  <2>1. Follows(build)' /\ RowsTyped'
    BY <1>8 DEF ReadBatch, RowsTyped, CopyFollows, Follows, Copying
  <2>2. pc' = "write" => Follows(batch)'
    BY <1>8 DEF ReadBatch, Follows, Restrict
  <2> QED BY <2>1, <2>2 DEF CopyFollows
<1>9. CASE WriteBatch
  <2>1. Follows(build) /\ Follows(batch)
    BY <1>9 DEF WriteBatch, CopyFollows, Copying
  <2>2. Follows(build)'
    BY <1>9, <2>1 DEF WriteBatch, Follows
  <2> QED BY <1>9, <2>2 DEF WriteBatch, RowsTyped, CopyFollows
<1>10. CASE Swap
  BY <1>10, SwappedRows DEF Swap, RowsTyped, CopyFollows, Copying
<1>11. CASE Mismatch \/ DropOld \/ Clean \/ Fail
  BY <1>11 DEF Mismatch, DropOld, Clean, Fail, RowsTyped, CopyFollows, Copying
<1>12. CASE Crash
  BY <1>12 DEF Crash, RowsTyped, CopyFollows, Copying
<1>13. CASE UNCHANGED vars
  BY <1>13 DEF vars, RowsTyped, CopyFollows, Follows, Copying
<1> QED
  BY <1>1, <1>2, <1>3, <1>4, <1>5, <1>6, <1>7, <1>8, <1>9, <1>10, <1>11, <1>12, <1>13
  DEF Next, Work, Compact

\* Nowhere on the way through a rebuild does the copy fall behind the live table
\* by more than the rows the swap takes again.
THEOREM CopyKeepsUp == Spec => []CompactInv
<1>1. Spec => Init /\ [][Next]_vars
  BY DEF Spec
<1> QED BY <1>1, InitInv, NextInv, PTL

-----------------------------------------------------------------------------
(* The properties *)

\* No step of the compactor changes which rows searches find, whatever the
\* worker, the pipeline and failures do between its transactions: the count
\* that is compared decides, since the copy is pruned first.
THEOREM RowsSurvive == Spec => CompactorKeepsRows
<1>1. CompactInv /\ [Next]_vars => [pc' # pc => DOMAIN live' = DOMAIN live]_vars
  <2> SUFFICES ASSUME CompactInv, Next, pc' # pc PROVE DOMAIN live' = DOMAIN live
    BY DEF vars
  <2>1. \A m \in Memories : ~ (Edit(m) \/ Delete(m) \/ Strip(m) \/ Work(m))
    BY DEF Edit, Delete, Strip, Work, Apply, RecordState, Uncopied
  <2>2. CASE Swap
    BY <2>2, SwappedRows DEF CompactInv
  <2>3. CASE Fail \/ Crash \/ (Compact /\ ~ Swap)
    BY <2>3 DEF Fail, Crash, Compact, Begin, CopyWhole, ReadBatch, WriteBatch, Mismatch,
                DropOld, Clean, rows
  <2> QED BY <2>1, <2>2, <2>3 DEF Next, Compact
<1>2. Spec => [][Next]_vars
  BY DEF Spec
<1> QED BY <1>1, <1>2, CopyKeepsUp, PTL DEF CompactorKeepsRows

\* The renamed table says of every record at rest what the old one said.
THEOREM VectorsSurvive == Spec => SwapKeepsVectors
<1>1. CompactInv /\ [Next]_vars
      => [Swap => \A c \in DOMAIN live : writing[c[1]] = Nothing => live'[c] = live[c]]_vars
  BY SwappedRows DEF CompactInv
<1>2. Spec => [][Next]_vars
  BY DEF Spec
<1> QED BY <1>1, <1>2, CopyKeepsUp, PTL DEF SwapKeepsVectors

=============================================================================

-------------------------- MODULE ImportanceProofs --------------------------
(***************************************************************************)
(* The log, its spool and the cursor of the importance stage, for any      *)
(* number of processes, memories, calls, rows and faults.                  *)
(***************************************************************************)
EXTENDS Importance, FiniteSetTheorems, TLAPS

-----------------------------------------------------------------------------
(* The spool *)

LoggerState == [pc : {"idle", "log", "spool", "retire"},
                batch : Batch \cup {NoBatch}, files : SUBSET Batch]

SpoolTyped ==
  /\ calls \in Nat /\ cut \in Nat
  /\ spool \subseteq Batch /\ kept \subseteq Calls
  /\ entered \in [Calls -> Nat]
  /\ logger \in [Loggers -> LoggerState]

InHand(l) == logger[l].pc \in {"log", "spool"}

\* A batch in hand is nowhere else, and none of its rows is in the log.
HandsOK ==
  /\ \A l \in Loggers : InHand(l) =>
       LET b == logger[l].batch IN
       /\ b \in Batch /\ b.call <= calls
       /\ entered[b.call] = 0 /\ b.call \notin kept
       /\ \A other \in spool : other.call # b.call
       /\ \A k \in Loggers \ {l} : InHand(k) => logger[k].batch.call # b.call
  /\ \A c \in Calls : c > calls => entered[c] = 0 /\ c \notin kept

\* A call has one file, and a file that is to be retired has its rows in the log.
FilesOK ==
  /\ \A b \in spool : b.call <= calls
  /\ \A b, other \in spool : b.call = other.call => b = other
  /\ \A l \in Loggers :
       /\ logger[l].pc # "retire" => logger[l].files = {}
       /\ \A b \in logger[l].files : entered[b.call] > 0

SpoolInv == SpoolTyped /\ HandsOK /\ FilesOK /\ SpooledOnce

spoolVars == <<spool, logger, calls, kept, entered, cut>>

LEMMA BatchCall == \A b \in Batch : b.call \in Calls /\ b.call \in Nat
BY QueryLogAssumption DEF Batch, Calls

LEMMA RetiringState ==
  ASSUME NEW files \in SUBSET Batch
  PROVE  /\ Retiring(files) \in LoggerState
         /\ Retiring(files).files = files
         /\ Retiring(files).pc \in {"idle", "retire"}
         /\ files # {} => Retiring(files).pc = "retire"
BY DEF Retiring, Idle, LoggerState, NoBatch

LEMMA IdleState == Idle \in LoggerState /\ Idle.files = {} /\ Idle.pc = "idle"
BY DEF Idle, LoggerState

\* A logger that lets go of a batch which is nowhere else.
LEMMA LoggerIdles ==
  ASSUME SpoolInv, NEW l \in Loggers, logger' = [logger EXCEPT ![l] = Idle],
         logger[l].pc # "retire", UNCHANGED <<spool, calls, kept, entered, cut>>
  PROVE  SpoolInv'
<1>1. \A k \in Loggers : logger'[k] = IF k = l THEN Idle ELSE logger[k]
  BY DEF SpoolInv, SpoolTyped
<1>2. SpoolTyped'
  BY IdleState DEF SpoolInv, SpoolTyped
<1>3. HandsOK'
  BY <1>1, IdleState DEF SpoolInv, HandsOK, InHand
<1>4. FilesOK'
  BY <1>1, IdleState DEF SpoolInv, FilesOK
<1>5. SpooledOnce'
  BY <1>1, IdleState DEF SpoolInv, FilesOK, SpooledOnce
<1> QED BY <1>2, <1>3, <1>4, <1>5 DEF SpoolInv

LEMMA SpoolCall ==
  ASSUME SpoolInv, NEW l \in Loggers, NEW shown \in SUBSET Memories, Call(l, shown)
  PROVE  SpoolInv'
<1> DEFINE b == [call |-> calls + 1, shown |-> shown]
           state == [pc |-> "log", files |-> {}, batch |-> b]
<1>1. b \in Batch /\ state \in LoggerState
  BY QueryLogAssumption DEF SpoolInv, SpoolTyped, Call, Batch, Calls, LoggerState
<1>2. \A k \in Loggers : logger'[k] = IF k = l THEN state ELSE logger[k]
  BY DEF SpoolInv, SpoolTyped, Call
<1>3. SpoolTyped'
  BY <1>1 DEF SpoolInv, SpoolTyped, Call
<1>4. HandsOK'
  <2>1. /\ entered' = entered /\ kept' = kept /\ spool' = spool /\ calls' = calls + 1
        /\ calls \in Nat
    BY DEF Call, SpoolInv, SpoolTyped
  <2>2. entered[b.call] = 0 /\ b.call \notin kept
    BY <1>1, <2>1, BatchCall DEF SpoolInv, HandsOK
  <2>3. \A other \in spool : other.call # b.call
    BY <2>1, BatchCall DEF SpoolInv, SpoolTyped, FilesOK
  <2>4. \A k \in Loggers : InHand(k) => logger[k].batch.call \in Nat /\ logger[k].batch.call <= calls
    BY BatchCall DEF SpoolInv, HandsOK
  <2>5. \A k \in Loggers : (InHand(k))' <=> k = l \/ InHand(k)
    BY <1>2 DEF InHand
  <2>6. ASSUME NEW k \in Loggers, (InHand(k))'
        PROVE  LET c == logger'[k].batch IN
               /\ c \in Batch /\ c.call <= calls + 1
               /\ entered[c.call] = 0 /\ c.call \notin kept
               /\ \A other \in spool : other.call # c.call
               /\ \A j \in Loggers \ {k} : (InHand(j))' => logger'[j].batch.call # c.call
    <3>1. CASE k = l
      BY <1>1, <1>2, <2>1, <2>2, <2>3, <2>4, <2>5, <3>1
    <3>2. CASE k # l
      <4>1. InHand(k) /\ logger'[k] = logger[k]
        BY <1>2, <2>5, <2>6, <3>2
      <4> QED BY <1>2, <2>1, <2>4, <2>5, <3>2, <4>1 DEF SpoolInv, HandsOK
    <3> QED BY <3>1, <3>2
  <2>7. \A c \in Calls : c > calls + 1 => entered[c] = 0 /\ c \notin kept
    BY <2>1 DEF SpoolInv, HandsOK, Calls
  <2> QED BY <2>1, <2>6, <2>7 DEF HandsOK
<1>5. FilesOK'
  <2>1. \A other \in spool : other.call <= calls + 1
    BY BatchCall DEF SpoolInv, SpoolTyped, FilesOK
  <2> QED BY <1>2, <2>1 DEF SpoolInv, FilesOK, Call
<1>6. SpooledOnce'
  <2>1. logger[l].files = {} /\ state.files = {}
    BY DEF SpoolInv, FilesOK, Call
  <2> HIDE DEF state
  <2>2. \A k \in Loggers : logger'[k].files = logger[k].files
    BY <1>2, <2>1
  <2> QED BY <2>2 DEF SpoolInv, SpooledOnce, Call
<1> QED BY <1>3, <1>4, <1>5, <1>6 DEF SpoolInv

LEMMA SpoolQueue ==
  ASSUME SpoolInv, NEW l \in Loggers, Queue(l)
  PROVE  SpoolInv'
<1>1. CASE UNCHANGED <<spool, kept>>
  BY <1>1, LoggerIdles DEF Queue
<1>2. CASE spool' = spool \cup {logger[l].batch} /\ kept' = kept \cup {logger[l].batch.call}
  <2> DEFINE b == logger[l].batch
  <2>1. /\ b \in Batch /\ b.call \in Calls /\ b.call <= calls
        /\ entered[b.call] = 0 /\ \A other \in spool : other.call # b.call
    BY BatchCall DEF Queue, InHand, SpoolInv, HandsOK
  <2>2. \A k \in Loggers : logger'[k] = IF k = l THEN Idle ELSE logger[k]
    BY DEF SpoolInv, SpoolTyped, Queue
  <2>3. UNCHANGED <<calls, entered, cut>> /\ logger[l].pc = "spool"
    BY DEF Queue
  <2>4. SpoolTyped'
    BY <1>2, <2>1, <2>3, IdleState DEF SpoolInv, SpoolTyped, Queue
  <2>5. HandsOK'
    <3>1. \A k \in Loggers : (InHand(k))' <=> k # l /\ InHand(k)
      BY <2>2, IdleState DEF InHand
    <3>2. ASSUME NEW k \in Loggers, k # l, InHand(k)
          PROVE  logger[k].batch.call # b.call
      BY <2>3, <3>2 DEF InHand, SpoolInv, HandsOK
    <3>3. \A c \in Calls : c > calls => c # b.call
      BY <2>1, BatchCall DEF Calls, SpoolInv, SpoolTyped
    <3> QED BY <1>2, <2>2, <2>3, <3>1, <3>2, <3>3 DEF SpoolInv, HandsOK
  <2>6. FilesOK'
    BY <1>2, <2>1, <2>2, <2>3, IdleState DEF SpoolInv, FilesOK
  <2>7. SpooledOnce'
    <3>1. \A k \in Loggers : logger'[k].files = logger[k].files
      BY <2>2, <2>3, IdleState DEF SpoolInv, FilesOK
    <3>2. entered[b.call] <= cut
      BY <2>1 DEF SpoolInv, SpoolTyped
    <3> QED BY <1>2, <2>3, <3>1, <3>2 DEF SpoolInv, SpooledOnce
  <2> QED BY <2>4, <2>5, <2>6, <2>7 DEF SpoolInv
<1> QED BY <1>1, <1>2 DEF Queue

\* The rows of a replayed file are in once more.  If it was to be retired already, it
\* was another logger's, and is counted in cut.
LEMMA SpoolCommit ==
  ASSUME SpoolInv, NEW l \in Loggers, Commit(l)
  PROVE  SpoolInv'
<1> DEFINE batch == logger[l].batch
<1>1. UNCHANGED <<spool, calls, kept>> /\ logger[l].pc = "log"
  BY DEF Commit
<1>2. CASE logger' = [logger EXCEPT ![l] = Idle] /\ UNCHANGED <<entered, cut>>
  BY <1>1, <1>2, LoggerIdles
<1>3. ASSUME NEW files \in SUBSET spool,
             entered' = [c \in Calls |-> IF \E b \in files \cup {batch} : b.call = c
                                         THEN entered[c] + 1 ELSE entered[c]],
             logger' = [logger EXCEPT ![l] = Retiring(files)],
             cut' = IF \E k \in Loggers \ {l} : logger[k].files \cap files # {}
                    THEN cut + 1 ELSE cut
      PROVE  SpoolInv'
  <2>1. files \in SUBSET Batch
    BY <1>3 DEF SpoolInv, SpoolTyped
  <2>2. \A k \in Loggers : logger'[k] = IF k = l THEN Retiring(files) ELSE logger[k]
    BY <1>3 DEF SpoolInv, SpoolTyped
  <2>3. batch \in Batch /\ batch.call \in Calls /\ batch.call <= calls /\ batch \notin files
    BY <1>1, <1>3, BatchCall DEF InHand, SpoolInv, HandsOK
  <2>4. \A c \in Calls : /\ entered[c] \in Nat /\ entered'[c] \in Nat /\ entered[c] <= entered'[c]
                          /\ entered'[c] <= entered[c] + 1
    BY <1>3 DEF SpoolInv, SpoolTyped
  <2>5. \A b \in files : entered'[b.call] = entered[b.call] + 1
    BY <1>3, <2>1, BatchCall
  <2>6. \A b \in spool \ files : entered'[b.call] = entered[b.call]
    <3> SUFFICES ASSUME NEW b \in spool \ files PROVE entered'[b.call] = entered[b.call]
      OBVIOUS
    <3>1. b.call \in Calls
      BY BatchCall DEF SpoolInv, SpoolTyped
    <3>2. \A other \in files : other.call # b.call
      BY <1>3 DEF SpoolInv, FilesOK
    <3>3. batch.call # b.call
      BY <1>1 DEF InHand, SpoolInv, HandsOK
    <3> QED BY <1>3, <3>1, <3>2, <3>3
  <2>7. cut \in Nat /\ cut' \in Nat /\ cut <= cut'
    BY <1>3 DEF SpoolInv, SpoolTyped
  <2>8. SpoolTyped'
    <3>1. logger' \in [Loggers -> LoggerState]
      BY <1>3, <2>1, RetiringState DEF SpoolInv, SpoolTyped
    <3>2. entered' \in [Calls -> Nat]
      BY <1>3 DEF SpoolInv, SpoolTyped
    <3> QED BY <1>1, <2>7, <3>1, <3>2 DEF SpoolInv, SpoolTyped
  <2>9. HandsOK'
    <3>1. \A k \in Loggers : (InHand(k))' <=> k # l /\ InHand(k)
      BY <2>1, <2>2, RetiringState DEF InHand
    <3>2. ASSUME NEW k \in Loggers, k # l, InHand(k)
          PROVE  entered'[logger[k].batch.call] = 0
      <4> DEFINE c == logger[k].batch.call
      <4>1. c \in Calls /\ entered[c] = 0 /\ \A other \in spool : other.call # c
        BY <3>2, BatchCall DEF SpoolInv, HandsOK
      <4>2. batch.call # c
        BY <1>1, <3>2 DEF InHand, SpoolInv, HandsOK
      <4> QED BY <1>3, <4>1, <4>2
    <3>3. ASSUME NEW c \in Calls, c > calls PROVE entered'[c] = 0 /\ c \notin kept
      <4>1. entered[c] = 0 /\ c \notin kept
        BY <3>3 DEF SpoolInv, HandsOK
      <4>2. \A b \in files \cup {batch} : b.call <= calls /\ b.call \in Nat
        BY <1>3, <2>1, <2>3, BatchCall DEF SpoolInv, FilesOK
      <4>3. calls \in Nat /\ c \in Nat
        BY DEF SpoolInv, SpoolTyped, Calls
      <4>4. \A b \in files \cup {batch} : b.call # c
        BY <3>3, <4>2, <4>3
      <4> QED BY <1>3, <4>1, <4>4
    <3> QED BY <1>1, <2>2, <3>1, <3>2, <3>3 DEF SpoolInv, HandsOK
  <2>10. FilesOK'
    <3>1. \A b \in files : entered'[b.call] > 0
      BY <2>1, <2>4, <2>5, BatchCall
    <3>2. \A k \in Loggers : \A b \in logger[k].files : entered[b.call] > 0 /\ b.call \in Calls
      BY BatchCall DEF SpoolInv, FilesOK, SpoolTyped, LoggerState
    <3>3. \A k \in Loggers : \A b \in logger[k].files : entered'[b.call] > 0
      BY <2>4, <3>2
    <3> QED BY <1>1, <2>1, <2>2, <3>1, <3>3, RetiringState DEF SpoolInv, FilesOK
  <2>11. SpooledOnce'
    <3>1. \A c \in kept : entered'[c] > 0 \/ \E b \in spool : b.call = c
      BY <2>4 DEF SpoolInv, SpoolTyped, SpooledOnce
    <3>2. ASSUME NEW b \in files
          PROVE  entered'[b.call] <= cut' + 1 /\ b \in logger'[l].files
      <4>1. b \in logger'[l].files
        BY <2>1, <2>2, RetiringState
      <4>2. entered[b.call] \in Nat
        BY <2>1, BatchCall DEF SpoolInv, SpoolTyped
      <4>3. CASE entered[b.call] <= cut
        BY <2>5, <2>7, <4>1, <4>2, <4>3
      <4>4. CASE entered[b.call] <= cut + 1 /\ \E k \in Loggers : b \in logger[k].files
        <5>1. logger[l].files = {}
          BY <1>1 DEF SpoolInv, FilesOK
        <5>2. cut' = cut + 1
          BY <1>3, <4>4, <5>1
        <5> QED BY <2>5, <2>7, <4>1, <4>2, <4>4, <5>2
      <4> QED BY <4>3, <4>4 DEF SpoolInv, SpooledOnce
    <3>3. ASSUME NEW b \in spool \ files
          PROVE  \/ entered'[b.call] <= cut'
                 \/ entered'[b.call] <= cut' + 1 /\ \E k \in Loggers : b \in logger'[k].files
      <4>1. entered[b.call] \in Nat
        BY BatchCall DEF SpoolInv, SpoolTyped
      <4>2. CASE entered[b.call] <= cut
        BY <2>6, <2>7, <4>1, <4>2
      <4>3. CASE entered[b.call] <= cut + 1 /\ \E k \in Loggers : b \in logger[k].files
        <5>1. logger[l].files = {}
          BY <1>1 DEF SpoolInv, FilesOK
        <5>2. PICK k \in Loggers : k # l /\ b \in logger[k].files
          BY <4>3, <5>1
        <5>3. b \in logger'[k].files
          BY <2>2, <5>2
        <5> QED BY <2>6, <2>7, <4>1, <4>3, <5>3
      <4> QED BY <4>2, <4>3 DEF SpoolInv, SpooledOnce
    <3> QED BY <1>1, <3>1, <3>2, <3>3 DEF SpooledOnce
  <2> QED BY <2>8, <2>9, <2>10, <2>11 DEF SpoolInv
<1> QED BY <1>2, <1>3 DEF Commit, Replayable

\* A file is unlinked only by a logger that has its rows in the log.
LEMMA SpoolRetire ==
  ASSUME SpoolInv, NEW l \in Loggers, Retire(l)
  PROVE  SpoolInv'
<1>1. PICK file \in logger[l].files :
        /\ spool' = spool \ {file}
        /\ logger' = [logger EXCEPT ![l] = Retiring(logger[l].files \ {file})]
  BY DEF Retire
<1> DEFINE rest == logger[l].files \ {file}
<1>2. rest \in SUBSET Batch /\ UNCHANGED <<calls, kept, entered, cut>> /\ logger[l].pc = "retire"
  BY DEF Retire, SpoolInv, SpoolTyped, LoggerState
<1>3. \A k \in Loggers : logger'[k] = IF k = l THEN Retiring(rest) ELSE logger[k]
  BY <1>1 DEF SpoolInv, SpoolTyped
<1>4. SpoolTyped'
  BY <1>1, <1>2, RetiringState DEF SpoolInv, SpoolTyped
<1>5. HandsOK'
  <2>1. \A k \in Loggers : (InHand(k))' <=> k # l /\ InHand(k)
    BY <1>2, <1>3, RetiringState DEF InHand
  <2> QED BY <1>1, <1>2, <1>3, <2>1 DEF SpoolInv, HandsOK
<1>6. FilesOK'
  BY <1>1, <1>2, <1>3, RetiringState DEF SpoolInv, FilesOK
<1>7. SpooledOnce'
  <2>1. entered[file.call] > 0
    BY <1>1 DEF SpoolInv, FilesOK
  <2>2. \A k \in Loggers : logger'[k].files = IF k = l THEN rest ELSE logger[k].files
    BY <1>2, <1>3, RetiringState
  <2>3. \A c \in kept : entered[c] > 0 \/ \E b \in spool' : b.call = c
    BY <1>1, <2>1 DEF SpoolInv, SpooledOnce
  <2>4. \A b \in spool' : \A k \in Loggers : b \in logger[k].files => b \in logger'[k].files
    BY <1>1, <2>2
  <2> QED BY <1>1, <1>2, <2>3, <2>4 DEF SpoolInv, SpooledOnce
<1> QED BY <1>4, <1>5, <1>6, <1>7 DEF SpoolInv

LEMMA SpoolDies ==
  ASSUME SpoolInv, NEW l \in Loggers, LoggerDies(l)
  PROVE  SpoolInv'
<1>1. /\ logger' = [logger EXCEPT ![l] = Idle] /\ UNCHANGED <<spool, calls, kept, entered>>
      /\ cut' = IF logger[l].files # {} THEN cut + 1 ELSE cut
  BY DEF LoggerDies
<1>2. \A k \in Loggers : logger'[k] = IF k = l THEN Idle ELSE logger[k]
  BY <1>1 DEF SpoolInv, SpoolTyped
<1>3. SpoolTyped'
  BY <1>1, IdleState DEF SpoolInv, SpoolTyped
<1>4. HandsOK'
  BY <1>1, <1>2, IdleState DEF SpoolInv, HandsOK, InHand
<1>5. FilesOK'
  BY <1>1, <1>2, IdleState DEF SpoolInv, FilesOK
<1>6. SpooledOnce'
  <2>1. ASSUME NEW b \in spool
        PROVE  \/ entered[b.call] <= cut'
               \/ entered[b.call] <= cut' + 1 /\ \E k \in Loggers : b \in logger'[k].files
    <3>1. entered[b.call] \in Nat /\ cut \in Nat
      BY BatchCall DEF SpoolInv, SpoolTyped
    <3>2. CASE \E k \in Loggers : k # l /\ b \in logger[k].files
      BY <1>1, <1>2, <3>1, <3>2 DEF SpoolInv, SpooledOnce
    <3>3. CASE ~ \E k \in Loggers : k # l /\ b \in logger[k].files
      BY <1>1, <3>1, <3>3 DEF SpoolInv, SpooledOnce
    <3> QED BY <3>2, <3>3
  <2> QED BY <1>1, <2>1 DEF SpoolInv, SpooledOnce
<1> QED BY <1>3, <1>4, <1>5, <1>6 DEF SpoolInv

LEMMA SpoolBusy ==
  ASSUME SpoolInv, NEW l \in Loggers, Busy(l)
  PROVE  SpoolInv'
<1> DEFINE state == [logger[l] EXCEPT !.pc = "spool"]
<1>1. /\ logger' = [logger EXCEPT ![l] = state] /\ logger[l].pc = "log"
      /\ UNCHANGED <<spool, calls, kept, entered, cut>>
  BY DEF Busy
<1>2. /\ logger[l] \in LoggerState /\ state \in LoggerState /\ state.pc = "spool"
      /\ state.batch = logger[l].batch /\ state.files = logger[l].files
  BY DEF SpoolInv, SpoolTyped, LoggerState
<1> HIDE DEF state
<1>3. \A k \in Loggers : logger'[k] = IF k = l THEN state ELSE logger[k]
  BY <1>1 DEF SpoolInv, SpoolTyped
<1>4. /\ \A k \in Loggers : logger'[k].batch = logger[k].batch /\ logger'[k].files = logger[k].files
      /\ \A k \in Loggers : (InHand(k))' <=> InHand(k)
      /\ \A k \in Loggers : logger'[k].pc = "retire" <=> logger[k].pc = "retire"
  BY <1>1, <1>2, <1>3 DEF InHand
<1>5. SpoolTyped'
  BY <1>1, <1>2 DEF SpoolInv, SpoolTyped
<1>6. HandsOK'
  BY <1>1, <1>4 DEF SpoolInv, HandsOK
<1>7. FilesOK' /\ SpooledOnce'
  BY <1>1, <1>4 DEF SpoolInv, FilesOK, SpooledOnce
<1> QED BY <1>5, <1>6, <1>7 DEF SpoolInv

LEMMA SpoolStep == SpoolInv /\ [Next]_vars => SpoolInv'
<1> SUFFICES ASSUME SpoolInv, [Next]_vars PROVE SpoolInv'
  OBVIOUS
<1>1. CASE UNCHANGED spoolVars
  BY <1>1 DEF spoolVars, SpoolInv, SpoolTyped, HandsOK, InHand, FilesOK, SpooledOnce
<1>2. CASE \E l \in Loggers, shown \in SUBSET Memories : Call(l, shown)
  BY <1>2, SpoolCall
<1>3. ASSUME NEW l \in Loggers, GiveUp(l) PROVE SpoolInv'
  BY <1>3, LoggerIdles DEF GiveUp
<1>4. CASE \E l \in Loggers : Log(l) \/ GiveUp(l) \/ Busy(l) \/ LoggerDies(l)
  BY <1>3, <1>4, SpoolCommit, SpoolRetire, SpoolQueue, SpoolBusy, SpoolDies DEF Log
<1>5. (\E m \in Memories : Delete(m)) => UNCHANGED spoolVars
  BY DEF Delete, spoolVars
<1>6. UNCHANGED logVars => UNCHANGED spoolVars
  BY DEF logVars, spoolVars
<1>7. \A r \in Runners : Run(r) => UNCHANGED logVars
  BY DEF Run, TakeLock, Plan, WriteBump, IndexBump, Stamp, ReleaseLock, LockLater, Reread, Beside
<1>8. \A r \in Runners : PlanFirst(r) \/ Break(r) => UNCHANGED spoolVars
  BY DEF PlanFirst, Break, spoolVars
<1>9. \A m \in Memories : StartIngest(m) \/ Hide(m) => UNCHANGED spoolVars
  BY DEF StartIngest, Hide, Apart, logVars, spoolVars
<1>10. WriteIngest \/ IndexIngest \/ UNCHANGED vars => UNCHANGED spoolVars
  BY DEF WriteIngest, IndexIngest, Apart, vars, logVars, spoolVars
<1> QED BY <1>1, <1>2, <1>4, <1>5, <1>6, <1>7, <1>8, <1>9, <1>10 DEF Next, LogNext

LEMMA SpoolInit == Init => SpoolInv
<1> SUFFICES ASSUME Init PROVE SpoolInv
  OBVIOUS
<1>1. LogInit
  BY DEF Init
<1>2. \A l \in Loggers : logger[l] = Idle
  BY <1>1 DEF LogInit
<1>3. SpoolTyped
  BY <1>1, IdleState DEF LogInit, SpoolTyped
<1>4. HandsOK /\ FilesOK /\ SpooledOnce
  BY <1>1, <1>2, IdleState DEF LogInit, HandsOK, InHand, FilesOK, SpooledOnce, Calls
<1> QED BY <1>3, <1>4 DEF SpoolInv

\* retrieval_pending.replay, enqueue and remove_replayed: what the spool has accepted is
\* in the log or in the spool, and in the log no more often than there were crashes or
\* meetings, whatever the processes do beside each other.
THEOREM SpoolIsReplayedOnce == Spec => []SpooledOnce
<1>1. SpoolInv => SpooledOnce
  BY DEF SpoolInv
<1> QED BY <1>1, SpoolInit, SpoolStep, PTL DEF Spec

-----------------------------------------------------------------------------
(* The cursor passes no row *)

Planning == {"planned", "apply", "write", "index"}

\* What a runner still has to do covers every row that its cursor will pass.
PlanOK(state) ==
  /\ {"pc", "window", "last", "memory", "file", "todo"} \subseteq DOMAIN state
  /\ state.pc \in Planning =>
       /\ state.last \in 0..lastId
       /\ \A row \in log : row.id <= state.last =>
            row.id \in settled \/ (row \in state.window /\ row.memory \in state.todo)
  /\ state.pc = "index" => {row.id : row \in Of(state.memory, state.window)} \subseteq settled

LogIds ==
  /\ lastId \in Nat /\ cursor \in 0..lastId
  /\ \A row \in log : row.id \in 0..lastId
  /\ IsFiniteSet(spool) /\ alive \subseteq Memories

PlansOK ==
  /\ runner = [r \in Runners |-> runner[r]]
  /\ \A r \in Runners : PlanOK(runner[r])

CursorInv == LogIds /\ PlansOK /\ NonePassedOver

-----------------------------------------------------------------------------
(* Sets of ids *)

LEMMA Greatest ==
  ASSUME NEW n \in Nat, NEW S \in SUBSET (0..n), S # {}
  PROVE  Max(S) \in S /\ \A x \in S : x <= Max(S)
<1> DEFINE below == {n - x : x \in S}
<1>1. IsWellFoundedOn({ss \in Nat \X Nat : ss[1] < ss[2]}, Nat)
  BY NatLessThanWellFounded DEF OpToRel
<1>2. below \subseteq Nat /\ below # {}
  <2>1. \A x \in S : n - x \in Nat
    OBVIOUS
  <2>2. PICK x \in S : TRUE
    OBVIOUS
  <2>3. n - x \in below
    OBVIOUS
  <2> QED BY <2>1, <2>3
<1>3. PICK d \in below : \A y \in below : <<y, d>> \notin {ss \in Nat \X Nat : ss[1] < ss[2]}
  <2> HIDE DEF below
  <2> QED BY <1>1, <1>2, WFMin
<1>4. \A y \in below : d <= y
  <2> SUFFICES ASSUME NEW y \in below, y < d PROVE FALSE
    BY <1>2, SMT
  <2>1. <<y, d>> \in {ss \in Nat \X Nat : ss[1] < ss[2]}
    BY <1>2, SMT
  <2> QED BY <1>3, <2>1
<1>5. PICK x \in S : d = n - x
  BY <1>3
<1>6. \A y \in S : x >= y
  BY <1>4, <1>5
<1>7. Max(S) \in S /\ \A y \in S : Max(S) >= y
  BY <1>6 DEF Max
<1> QED BY <1>7

\* The rows of finitely many batches are so many.
LEMMA RowsCounted ==
  ASSUME NEW batches, IsFiniteSet(batches), alive \subseteq Memories
  PROVE  Cardinality(Rows(batches)) \in Nat
<1> DEFINE shown == {q \in batches \X alive : q[2] \in q[1].shown}
           row == [p \in shown |-> [call |-> p[1].call, memory |-> p[2]]]
<1>1. IsFiniteSet(alive)
  BY FS_Subset, QueryLogAssumption
<1>2. IsFiniteSet(batches \X alive)
  BY <1>1, FS_Product
<1>3. IsFiniteSet(shown)
  BY <1>2, FS_Subset
<1>4. row \in Surjection(shown, Rows(batches))
  BY DEF Surjection, Rows
<1> HIDE DEF shown, row
<1> QED BY <1>3, <1>4, FS_Surjection, FS_CardinalityType

LEMMA PrunedRows ==
  ASSUME NEW all
  PROVE  Pruned(all) \subseteq all
BY DEF Pruned

-----------------------------------------------------------------------------
(* Steps *)

\* What is not the stage's may add rows above lastId, and remove some.
LEMMA LogChanges ==
  ASSUME CursorInv, UNCHANGED <<runner, cursor, settled>>,
         lastId' \in Nat, lastId <= lastId', IsFiniteSet(spool'), alive' \subseteq Memories,
         \A row \in log' : row \in log \/ row.id \in (lastId + 1)..lastId'
  PROVE  CursorInv'
<1>1. LogIds'
  BY DEF CursorInv, LogIds
<1>2. ASSUME NEW r \in Runners PROVE PlanOK(runner[r])'
  <2>1. PlanOK(runner[r])
    BY DEF CursorInv, PlansOK
  <2>2. runner[r].pc \in Planning =>
          /\ runner[r].last \in 0..lastId'
          /\ \A row \in log' : row.id <= runner[r].last =>
               row.id \in settled \/ (row \in runner[r].window /\ row.memory \in runner[r].todo)
    BY <2>1 DEF PlanOK, CursorInv, LogIds
  <2> QED BY <2>1, <2>2 DEF PlanOK, Of
<1>3. NonePassedOver'
  BY DEF CursorInv, LogIds, NonePassedOver
<1> QED BY <1>1, <1>2, <1>3 DEF CursorInv, PlansOK

LEMMA CursorLog ==
  ASSUME CursorInv, LogNext, UNCHANGED stageVars
  PROVE  CursorInv'
<1>1. UNCHANGED <<runner, cursor, settled>>
  BY DEF stageVars
<1>2. CASE UNCHANGED <<log, lastId>> /\ IsFiniteSet(spool') /\ alive' \subseteq Memories
  BY <1>1, <1>2, LogChanges DEF CursorInv, LogIds
<1>3. ASSUME NEW l \in Loggers, Commit(l) PROVE CursorInv'
  <2>1. IsFiniteSet(spool') /\ alive' = alive /\ alive \subseteq Memories
    BY <1>3 DEF Commit, CursorInv, LogIds
  <2>2. CASE UNCHANGED <<log, lastId>>
    BY <1>2, <2>1, <2>2
  <2>3. ASSUME NEW files \in SUBSET spool, NEW replayed, replayed = Rows(files),
               NEW own, own = Rows({logger[l].batch}),
               NEW last, last = lastId + Cardinality(replayed),
               log' = Pruned(log \cup Numbered(replayed, lastId) \cup Numbered(own, last)),
               lastId' = last + Cardinality(own)
        PROVE  CursorInv'
    <3>1. Cardinality(replayed) \in Nat
      BY <2>1, <2>3, RowsCounted, FS_Subset DEF CursorInv, LogIds
    <3>2. Cardinality(own) \in Nat
      BY <2>1, <2>3, RowsCounted, FS_Singleton
    <3>3. lastId \in Nat /\ lastId' \in Nat /\ last \in Nat /\ lastId <= last /\ last <= lastId'
      BY <2>3, <3>1, <3>2 DEF CursorInv, LogIds
    <3>4. \A row \in Numbered(replayed, lastId) : row.id \in (lastId + 1)..lastId'
      BY <2>3, <3>1, <3>2, <3>3 DEF Numbered
    <3>5. \A row \in Numbered(own, last) : row.id \in (lastId + 1)..lastId'
      BY <2>3, <3>1, <3>2, <3>3 DEF Numbered
    <3>6. \A row \in log' : row \in log \/ row.id \in (lastId + 1)..lastId'
      BY <2>3, <3>4, <3>5, PrunedRows
    <3> QED BY <1>1, <2>1, <3>3, <3>6, LogChanges
  <2> QED BY <1>3, <2>2, <2>3 DEF Commit, Replayable
<1>4. ASSUME NEW m \in Memories, Delete(m) PROVE CursorInv'
  BY <1>1, <1>4, LogChanges DEF Delete, CursorInv, LogIds
<1>5. ASSUME NEW l \in Loggers, Retire(l) \/ Queue(l) \/ GiveUp(l) \/ Busy(l) \/ LoggerDies(l)
             \/ \E shown \in SUBSET Memories : Call(l, shown)
      PROVE  CursorInv'
  <2>1. UNCHANGED <<log, lastId, alive>>
    BY <1>5 DEF Retire, Queue, GiveUp, Busy, LoggerDies, Call
  <2>2. spool' \subseteq spool \/ \E b : spool' = spool \cup {b}
    BY <1>5 DEF Retire, Queue, GiveUp, Busy, LoggerDies, Call
  <2>3. IsFiniteSet(spool')
    BY <2>2, FS_Subset, FS_AddElement DEF CursorInv, LogIds
  <2> QED BY <1>2, <2>1, <2>3 DEF CursorInv, LogIds
<1> QED BY <1>3, <1>4, <1>5 DEF LogNext, Log

\* A runner goes on, and the log stays.
LEMMA RunnerGoes ==
  ASSUME CursorInv, NEW r \in Runners, NEW state,
         runner' = [runner EXCEPT ![r] = state],
         settled \subseteq settled', UNCHANGED <<alive, log, lastId, spool>>,
         cursor' \in 0..lastId, \A row \in log : row.id <= cursor' => row.id \in settled',
         {"pc", "window", "last", "memory", "file", "todo"} \subseteq DOMAIN state,
         state.pc \in Planning =>
           /\ state.last \in 0..lastId
           /\ \A row \in log : row.id <= state.last =>
                row.id \in settled' \/ (row \in state.window /\ row.memory \in state.todo),
         state.pc = "index" => {row.id : row \in Of(state.memory, state.window)} \subseteq settled'
  PROVE  CursorInv'
<1>1. LogIds'
  BY DEF CursorInv, LogIds
<1>2. \A q \in Runners : runner'[q] = IF q = r THEN state ELSE runner[q]
  BY DEF CursorInv, PlansOK
<1>3. ASSUME NEW q \in Runners PROVE PlanOK(runner[q])'
  <2>1. CASE q = r
    BY <1>2, <2>1 DEF PlanOK, Of
  <2>2. CASE q # r
    <3>1. PlanOK(runner[q]) /\ runner'[q] = runner[q]
      BY <1>2, <2>2 DEF CursorInv, PlansOK
    <3> QED BY <3>1 DEF PlanOK, Of
  <2> QED BY <2>1, <2>2
<1>4. NonePassedOver'
  BY DEF NonePassedOver
<1>5. runner' = [q \in Runners |-> runner'[q]]
  BY DEF CursorInv, PlansOK
<1> QED BY <1>1, <1>3, <1>4, <1>5 DEF CursorInv, PlansOK

LEMMA RunnerRests ==
  ASSUME CursorInv, NEW r \in Runners, runner' = Ended(r),
         UNCHANGED <<alive, log, lastId, spool, cursor, settled>>
  PROVE  CursorInv'
<1> DEFINE state == [AtRest EXCEPT !.pc = IF r = "loop" THEN "rest" ELSE "over"]
<1>1. /\ {"pc", "window", "last", "memory", "file", "todo"} \subseteq DOMAIN state
      /\ state.pc \notin Planning /\ runner' = [runner EXCEPT ![r] = state]
  BY DEF AtRest, Ended, Planning
<1>2. state.pc # "index"
  BY <1>1 DEF Planning
<1> HIDE DEF state
<1> QED BY <1>1, <1>2, RunnerGoes DEF CursorInv, LogIds, NonePassedOver

\* A plan covers the rows above the cursor, and those below it are settled.
LEMMA PlanCovers ==
  ASSUME CursorInv, NEW r \in Runners, NEW pc, Planned(r, pc), pc # "index",
         UNCHANGED <<alive, log, lastId, spool, cursor>>
  PROVE  CursorInv'
<1> DEFINE updates == {m \in Memories : Eligible(m) /\ Of(m, Fresh) # {}}
           last == IF Fresh = {} THEN cursor ELSE Max({row.id : row \in Fresh})
           state == [AtRest EXCEPT
             !.pc = pc, !.window = Fresh,
             !.from = IF pc = "planned" THEN Progress ELSE << >>,
             !.last = last,
             !.proposed = [m \in Memories |-> IF m \in updates THEN Proposed(m, Fresh) ELSE 0],
             !.todo = updates]
<1>1. /\ runner' = [runner EXCEPT ![r] = state]
      /\ settled' = settled \cup {row.id : row \in {w \in Fresh : w.memory \notin updates}}
  BY DEF Planned
<1>2. /\ state.pc = pc /\ state.window = Fresh /\ state.last = last /\ state.todo = updates
      /\ {"pc", "window", "last", "memory", "file", "todo"} \subseteq DOMAIN state
  BY DEF AtRest
<1>3. last \in 0..lastId
  <2>1. CASE Fresh = {}
    BY <2>1 DEF CursorInv, LogIds
  <2>2. CASE Fresh # {}
    <3> DEFINE ids == {row.id : row \in Fresh}
    <3>1. ids \in SUBSET (0..lastId) /\ ids # {}
      BY <2>2 DEF CursorInv, LogIds, Fresh
    <3>2. lastId \in Nat
      BY DEF CursorInv, LogIds
    <3>3. last = Max(ids)
      BY <2>2
    <3> HIDE DEF ids, last
    <3> QED BY <3>1, <3>2, <3>3, Greatest
  <2> QED BY <2>1, <2>2
<1>4. \A row \in log : row.id \in settled' \/ (row \in Fresh /\ row.memory \in updates)
  <2> HIDE DEF updates, state, last
  <2> SUFFICES ASSUME NEW row \in log, row.id \notin settled' PROVE row \in Fresh /\ row.memory \in updates
    OBVIOUS
  <2>1. row \in Fresh
    <3>1. row.id \notin settled
      BY <1>1
    <3> QED BY <3>1 DEF CursorInv, LogIds, NonePassedOver, Fresh
  <2> QED BY <1>1, <2>1
<1>5. settled \subseteq settled' /\ cursor' \in 0..lastId
  BY <1>1 DEF CursorInv, LogIds
<1>6. \A row \in log : row.id <= cursor' => row.id \in settled'
  BY <1>5 DEF CursorInv, NonePassedOver
<1> HIDE DEF state, last, updates
<1> QED BY <1>1, <1>2, <1>3, <1>4, <1>5, <1>6, RunnerGoes

LEMMA CursorRun ==
  ASSUME CursorInv, NEW r \in Runners, Run(r)
  PROVE  CursorInv'
<1>1. UNCHANGED <<alive, log, lastId, spool>>
  BY DEF Run, TakeLock, Plan, WriteBump, IndexBump, Stamp, ReleaseLock, LockLater, Reread, Beside, logVars
<1>2. PlanOK(runner[r])
  BY DEF CursorInv, PlansOK
<1> DEFINE old == runner[r]
<1>3. ASSUME NEW state, runner' = [runner EXCEPT ![r] = state],
             {"pc", "window", "last", "memory", "file", "todo"} \subseteq DOMAIN state,
             settled \subseteq settled', cursor' = cursor,
             state.pc \in Planning =>
               /\ old.pc \in Planning /\ state.last = old.last /\ state.window = old.window
               /\ \A row \in log : row \in old.window /\ row.memory \in old.todo =>
                    row.id \in settled' \/ row.memory \in state.todo,
             state.pc = "index" =>
               {row.id : row \in Of(state.memory, state.window)} \subseteq settled'
      PROVE  CursorInv'
  <2>1. cursor' \in 0..lastId /\ \A row \in log : row.id <= cursor' => row.id \in settled'
    BY <1>3 DEF CursorInv, LogIds, NonePassedOver
  <2>2. state.pc \in Planning =>
          /\ state.last \in 0..lastId
          /\ \A row \in log : row.id <= state.last =>
               row.id \in settled' \/ (row \in state.window /\ row.memory \in state.todo)
    <3> SUFFICES ASSUME state.pc \in Planning
                 PROVE  /\ state.last \in 0..lastId
                        /\ \A row \in log : row.id <= state.last =>
                             row.id \in settled' \/ (row \in state.window /\ row.memory \in state.todo)
      OBVIOUS
    <3> HIDE DEF old
    <3>1. /\ old.pc \in Planning /\ state.last = old.last /\ state.window = old.window
          /\ \A row \in log : row \in old.window /\ row.memory \in old.todo =>
               row.id \in settled' \/ row.memory \in state.todo
      BY <1>3
    <3>2. /\ old.last \in 0..lastId
          /\ \A row \in log : row.id <= old.last =>
               row.id \in settled \/ (row \in old.window /\ row.memory \in old.todo)
      BY <1>2, <3>1 DEF PlanOK, old
    <3> QED BY <1>3, <3>1, <3>2
  <2> HIDE DEF old
  <2> QED BY <1>1, <1>3, <2>1, <2>2, RunnerGoes
<1>4. CASE TakeLock(r)
  <2> DEFINE state == [old EXCEPT !.pc = "plan"]
  <2>1. /\ {"pc", "window", "last", "memory", "file", "todo"} \subseteq DOMAIN state
        /\ state.pc = "plan"
    BY <1>2 DEF PlanOK
  <2>2. runner' = [runner EXCEPT ![r] = state] /\ UNCHANGED <<settled, cursor>>
    BY <1>4 DEF TakeLock
  <2> HIDE DEF state, old
  <2> QED BY <1>3, <2>1, <2>2 DEF Planning
<1>5. CASE Plan(r)
  BY <1>1, <1>5, PlanCovers DEF Plan
<1>6. CASE LockLater(r)
  <2>1. UNCHANGED <<settled, cursor>> /\ old.pc = "planned"
    BY <1>6 DEF LockLater
  <2>2. CASE runner' = Ended(r)
    BY <1>1, <2>1, <2>2, RunnerRests
  <2>3. CASE runner' = [runner EXCEPT ![r].pc = "apply"]
    <3> DEFINE state == [old EXCEPT !.pc = "apply"]
    <3>1. /\ {"pc", "window", "last", "memory", "file", "todo"} \subseteq DOMAIN state
          /\ state.pc = "apply" /\ state.last = old.last /\ state.window = old.window
          /\ state.todo = old.todo
      BY <1>2 DEF PlanOK
    <3>2. runner' = [runner EXCEPT ![r] = state]
      BY <2>3
    <3> HIDE DEF state, old
    <3> QED BY <1>3, <2>1, <3>1, <3>2 DEF Planning
  <2> QED BY <1>6, <2>2, <2>3 DEF LockLater
<1>7. ASSUME NEW m \in Memories, Reread(r, m) PROVE CursorInv'
  <2>1. cursor' = cursor /\ old.pc = "apply" /\ m \in old.todo
    BY <1>7 DEF Reread
  <2>2. ASSUME NEW file, settled' = settled,
               runner' = [runner EXCEPT ![r].pc = "write", ![r].memory = m, ![r].file = file]
        PROVE  CursorInv'
    <3> DEFINE state == [old EXCEPT !.pc = "write", !.memory = m, !.file = file]
    <3>1. /\ {"pc", "window", "last", "memory", "file", "todo"} \subseteq DOMAIN state
          /\ state.pc = "write" /\ state.last = old.last /\ state.window = old.window
          /\ state.todo = old.todo
      BY <1>2 DEF PlanOK
    <3>2. runner' = [runner EXCEPT ![r] = state]
      BY <2>2 DEF CursorInv, PlansOK
    <3> HIDE DEF state, old
    <3> QED BY <1>3, <2>1, <2>2, <3>1, <3>2 DEF Planning
  <2>3. ASSUME runner' = [runner EXCEPT ![r].todo = @ \ {m}],
               settled' = settled \cup {row.id : row \in Of(m, old.window)}
        PROVE  CursorInv'
    <3> DEFINE state == [old EXCEPT !.todo = @ \ {m}]
    <3>1. /\ {"pc", "window", "last", "memory", "file", "todo"} \subseteq DOMAIN state
          /\ state.pc = "apply" /\ state.last = old.last /\ state.window = old.window
          /\ state.todo = old.todo \ {m}
      BY <1>2, <2>1 DEF PlanOK
    <3>2. runner' = [runner EXCEPT ![r] = state]
      BY <2>3
    <3>3. \A row \in log : row \in old.window /\ row.memory \in old.todo =>
            row.id \in settled' \/ row.memory \in state.todo
      BY <2>3, <3>1 DEF Of
    <3> HIDE DEF state, old
    <3> QED BY <1>3, <2>1, <2>3, <3>1, <3>2, <3>3 DEF Planning
  <2> QED BY <1>7, <2>2, <2>3 DEF Reread
<1>8. CASE WriteBump(r)
  <2> DEFINE state == [old EXCEPT !.pc = "index"]
  <2>1. /\ {"pc", "window", "last", "memory", "file", "todo"} \subseteq DOMAIN state
        /\ state.pc = "index" /\ state.last = old.last /\ state.window = old.window
        /\ state.todo = old.todo /\ state.memory = old.memory
    BY <1>2 DEF PlanOK
  <2>2. /\ runner' = [runner EXCEPT ![r] = state] /\ cursor' = cursor /\ old.pc = "write"
        /\ settled' = settled \cup {row.id : row \in Of(old.memory, old.window)}
    BY <1>8 DEF WriteBump
  <2> HIDE DEF state, old
  <2> QED BY <1>3, <2>1, <2>2 DEF Planning
<1>9. CASE IndexBump(r)
  <2> DEFINE state == [old EXCEPT !.pc = "apply", !.todo = @ \ {old.memory}]
  <2>1. /\ {"pc", "window", "last", "memory", "file", "todo"} \subseteq DOMAIN state
        /\ state.pc = "apply" /\ state.last = old.last /\ state.window = old.window
        /\ state.todo = old.todo \ {old.memory}
    BY <1>2 DEF PlanOK
  <2>2. /\ UNCHANGED <<settled, cursor>> /\ old.pc = "index"
        /\ runner' = [runner EXCEPT ![r] = state]
    BY <1>9 DEF IndexBump, CursorInv, PlansOK
  <2>3. \A row \in log : row \in old.window /\ row.memory \in old.todo =>
          row.id \in settled' \/ row.memory \in state.todo
    BY <1>2, <2>1, <2>2 DEF PlanOK, Of
  <2> HIDE DEF state, old
  <2> QED BY <1>3, <2>1, <2>2, <2>3 DEF Planning
<1>10. CASE Stamp(r)
  <2> DEFINE state == [old EXCEPT !.pc = "stamp"]
  <2>1. /\ {"pc", "window", "last", "memory", "file", "todo"} \subseteq DOMAIN state
        /\ state.pc = "stamp"
    BY <1>2 DEF PlanOK
  <2>2. /\ settled' = settled /\ old.pc = "apply" /\ old.todo = {} /\ cursor' = old.last
        /\ runner' = [runner EXCEPT ![r] = state]
    BY <1>10 DEF Stamp
  <2>3. cursor' \in 0..lastId /\ \A row \in log : row.id <= cursor' => row.id \in settled'
    BY <1>2, <2>2 DEF PlanOK, Planning
  <2> HIDE DEF state, old
  <2> QED BY <1>1, <2>1, <2>2, <2>3, RunnerGoes DEF Planning
<1>11. CASE ReleaseLock(r)
  BY <1>1, <1>11, RunnerRests DEF ReleaseLock
<1> QED BY <1>4, <1>5, <1>6, <1>7, <1>8, <1>9, <1>10, <1>11 DEF Run

LEMMA CursorStep == CursorInv /\ [Next]_vars => CursorInv'
<1> SUFFICES ASSUME CursorInv, [Next]_vars PROVE CursorInv'
  OBVIOUS
<1>1. CASE LogNext /\ UNCHANGED stageVars
  BY <1>1, CursorLog
<1>2. ASSUME NEW r \in Runners, PlanFirst(r) PROVE CursorInv'
  <2>1. UNCHANGED <<alive, log, lastId, spool, cursor>> /\ Planned(r, "planned")
    BY <1>2 DEF PlanFirst
  <2> QED BY <2>1, PlanCovers
<1>3. ASSUME NEW r \in Runners, Break(r) PROVE CursorInv'
  BY <1>3, RunnerRests DEF Break
<1>4. CASE UNCHANGED <<alive, log, lastId, spool, runner, cursor, settled>>
  BY <1>4, LogChanges DEF CursorInv, LogIds
<1>5. (\E m \in Memories : StartIngest(m) \/ Hide(m)) \/ WriteIngest \/ IndexIngest \/ UNCHANGED vars
        => UNCHANGED <<alive, log, lastId, spool, runner, cursor, settled>>
  BY DEF StartIngest, Hide, WriteIngest, IndexIngest, Apart, vars, logVars, stageVars
<1> QED BY <1>1, <1>2, <1>3, <1>4, <1>5, CursorRun DEF Next

LEMMA CursorInit == Init => CursorInv
<1> SUFFICES ASSUME Init PROVE CursorInv
  OBVIOUS
<1>1. LogIds /\ NonePassedOver
  BY FS_EmptySet DEF Init, LogInit, LogIds, NonePassedOver
<1>2. \A r \in Runners : runner[r] = AtRest
  BY DEF Init
<1>3. PlanOK(AtRest)
  BY DEF PlanOK, AtRest, Planning
<1> QED BY <1>1, <1>2, <1>3 DEF CursorInv, PlansOK, Init

\* run_importance and its cursor: whatever else is logged, replayed, pruned, deleted or
\* hidden during a run, and however a run ends, a row at or below the cursor has been
\* counted, or dismissed with its memory.
THEOREM CursorPassesNoRow == Spec => []NonePassedOver
<1>1. CursorInv => NonePassedOver
  BY DEF CursorInv
<1> QED BY <1>1, CursorInit, CursorStep, PTL DEF Spec

LEMMA AlwaysCovered == Spec => []CursorInv
BY CursorInit, CursorStep, PTL DEF Spec

-----------------------------------------------------------------------------
(* A row is counted once *)

Applying == {"apply", "write", "index"}

Holding == {"plan", "stamp"} \cup Applying

\* What a row may have been counted beyond the once.
Slack == broken + outrun

\* A run has still to count the rows of its window whose memory it has still to
\* write, and no run before it has counted a row above its window.
CountsOK(state, counted, slack) ==
  /\ state.pc \in {"planned"} \cup Applying =>
       /\ \A row \in state.window : row.id \in Nat /\ row.id <= state.last
       /\ \A row, other \in state.window : row.id = other.id => row.memory = other.memory
  /\ state.pc = "planned" =>
       /\ state.from[1] \in Nat /\ state.last >= state.from[1]
       /\ \A row \in state.window : row.id > state.from[1]
  /\ state.pc \in {"write", "index"} => state.memory \in state.todo
  /\ state.pc \in Applying =>
       /\ \A id \in RowIds : id > state.last => counted[id] <= slack
       /\ \A row \in state.window :
            row.memory \in state.todo /\ row.id \in RowIds
              /\ ~ (state.pc = "index" /\ state.memory = row.memory) => counted[row.id] <= slack

\* An id is of one row.
IdsOK == \A row, other \in log : row.id = other.id => row.memory = other.memory

TimesTyped == times \in [RowIds -> Nat] /\ broken \in Nat /\ outrun \in Nat

\* While no run is being applied, no row above the cursor has been counted.
AboveIsNew ==
  (\A r \in Runners : runner[r].pc \notin Applying) =>
     \A id \in RowIds : id > cursor => times[id] <= Slack

CountInv ==
  /\ TimesTyped /\ IdsOK /\ CountedOnce /\ AboveIsNew
  /\ \A r \in Runners : runner[r].pc \in Holding => lock = r
  /\ \A r \in Runners : CountsOK(runner[r], times, Slack)

LEMMA RowIdsAreNaturals == RowIds \subseteq Nat
BY DEF RowIds

\* Steps that count nothing, and leave the runners and the cursor alone.
LEMMA CountQuiet ==
  ASSUME CountInv, UNCHANGED <<runner, lock, cursor, times, broken, outrun>>, IdsOK'
  PROVE  CountInv'
<1>1. \A r \in Runners : CountsOK(runner[r], times, Slack)'
  BY DEF CountInv, CountsOK, Slack
<1>2. TimesTyped' /\ CountedOnce' /\ AboveIsNew'
  BY DEF CountInv, TimesTyped, CountedOnce, AboveIsNew, Slack
<1> QED BY <1>1, <1>2 DEF CountInv

LEMMA NumberedRows ==
  ASSUME NEW rows_, NEW last \in Nat, Cardinality(rows_) \in Nat
  PROVE  /\ \A row \in Numbered(rows_, last) : row.id \in (last + 1)..(last + Cardinality(rows_))
         /\ \A row, other \in Numbered(rows_, last) : row.id = other.id => row = other
BY DEF Numbered

\* The ids of a transaction are new, and each is given once.
LEMMA CountCommit ==
  ASSUME CursorInv, IdsOK, NEW l \in Loggers, Commit(l)
  PROVE  IdsOK'
<1>1. CASE UNCHANGED log
  BY <1>1 DEF IdsOK
<1>2. ASSUME NEW files \in SUBSET spool, NEW replayed, replayed = Rows(files),
             NEW own, own = Rows({logger[l].batch}),
             NEW last, last = lastId + Cardinality(replayed),
             log' = Pruned(log \cup Numbered(replayed, lastId) \cup Numbered(own, last))
      PROVE  IdsOK'
  <2>1. Cardinality(replayed) \in Nat /\ Cardinality(own) \in Nat
    BY <1>2, RowsCounted, FS_Subset, FS_Singleton DEF CursorInv, LogIds
  <2>2. lastId \in Nat /\ last \in Nat /\ lastId <= last
    BY <1>2, <2>1 DEF CursorInv, LogIds
  <2>3. \A row \in log : row.id \in 0..lastId
    BY DEF CursorInv, LogIds
  <2>4. /\ \A row \in Numbered(replayed, lastId) : row.id \in (lastId + 1)..last
        /\ \A row, other \in Numbered(replayed, lastId) : row.id = other.id => row = other
    BY <1>2, <2>1, <2>2, NumberedRows
  <2>5. /\ \A row \in Numbered(own, last) : row.id \in (last + 1)..(last + Cardinality(own))
        /\ \A row, other \in Numbered(own, last) : row.id = other.id => row = other
    BY <2>1, <2>2, NumberedRows
  <2>6. \A row \in log' : row \in log \/ row \in Numbered(replayed, lastId) \/ row \in Numbered(own, last)
    BY <1>2, PrunedRows
  <2> QED BY <2>1, <2>2, <2>3, <2>4, <2>5, <2>6 DEF IdsOK
<1> QED BY <1>1, <1>2 DEF Commit, Replayable

LEMMA CountLog ==
  ASSUME CursorInv, CountInv, LogNext, UNCHANGED stageVars
  PROVE  CountInv'
<1>1. UNCHANGED <<runner, lock, cursor, times, broken, outrun>>
  BY DEF stageVars
<1>2. CASE log' \subseteq log
  BY <1>1, <1>2, CountQuiet DEF CountInv, IdsOK
<1>3. CASE \E l \in Loggers : Commit(l)
  BY <1>1, <1>3, CountCommit, CountQuiet DEF CountInv
<1>4. \/ log' \subseteq log
      \/ \E l \in Loggers : Commit(l)
  BY DEF LogNext, Log, Retire, Queue, GiveUp, Busy, LoggerDies, Call, Delete
<1> QED BY <1>2, <1>3, <1>4

\* A runner goes on, and the rows that have been counted stay those.
LEMMA CountGoes ==
  ASSUME CursorInv, CountInv, NEW r \in Runners, NEW state,
         runner' = [runner EXCEPT ![r] = state], UNCHANGED <<log, times>>,
         TimesTyped', Slack <= Slack', AboveIsNew',
         \A q \in Runners \ {r} : runner[q].pc \in Holding => lock' = q,
         state.pc \in Holding => lock' = r,
         CountsOK(state, times, Slack')
  PROVE  CountInv'
<1>1. \A q \in Runners : runner'[q] = IF q = r THEN state ELSE runner[q]
  BY DEF CursorInv, PlansOK
<1>2. /\ \A id \in RowIds : times[id] \in Nat
      /\ Slack \in Nat /\ Slack' \in Nat
  BY DEF CountInv, TimesTyped, Slack
<1>3. ASSUME NEW q \in Runners PROVE CountsOK(runner'[q], times', Slack')
  <2>1. CASE q = r
    BY <1>1, <2>1
  <2>2. CASE q # r
    <3>1. CountsOK(runner[q], times, Slack) /\ runner'[q] = runner[q]
      BY <1>1, <2>2 DEF CountInv
    <3> QED BY <1>2, <3>1 DEF CountsOK
  <2> QED BY <2>1, <2>2
<1>4. CountedOnce' /\ IdsOK'
  <2>1. \A id \in RowIds : times[id] <= 1 + broken + outrun
    BY DEF CountInv, CountedOnce
  <2> QED BY <1>2, <2>1 DEF CountInv, CountedOnce, IdsOK, Slack, TimesTyped
<1>5. \A q \in Runners : runner'[q].pc \in Holding => lock' = q
  BY <1>1
<1> QED BY <1>3, <1>4, <1>5 DEF CountInv

\* A run that holds the lock holds it alone; nobody holds a free lock.
LEMMA HoldsAlone ==
  ASSUME CountInv, NEW r \in Runners, runner[r].pc \in Holding \/ lock = NoRunner
  PROVE  \A q \in Runners \ {r} : runner[q].pc \notin Holding
BY ImportanceAssumption DEF CountInv

\* The cursor and the counts stay, and no run ends that was being applied.
LEMMA AboveStays ==
  ASSUME CursorInv, CountInv, NEW r \in Runners, NEW state,
         runner' = [runner EXCEPT ![r] = state], UNCHANGED <<cursor, times, broken, outrun>>,
         state.pc \in Applying \/ runner[r].pc \notin Applying
  PROVE  TimesTyped' /\ Slack <= Slack' /\ AboveIsNew'
<1>1. \A q \in Runners : runner'[q] = IF q = r THEN state ELSE runner[q]
  BY DEF CursorInv, PlansOK
<1>2. TimesTyped' /\ Slack <= Slack'
  BY DEF CountInv, TimesTyped, Slack
<1>3. (\A q \in Runners : runner'[q].pc \notin Applying) => \A q \in Runners : runner[q].pc \notin Applying
  BY <1>1
<1>4. Slack' = Slack
  BY DEF Slack
<1> QED BY <1>2, <1>3, <1>4 DEF CountInv, AboveIsNew

\* A runner that is not being applied and gives the lock back, or never had it.
LEMMA CountRests ==
  ASSUME CursorInv, CountInv, NEW r \in Runners, runner' = Ended(r), UNCHANGED <<log, times>>,
         TimesTyped', Slack <= Slack', AboveIsNew',
         \A q \in Runners \ {r} : runner[q].pc \in Holding => lock' = q
  PROVE  CountInv'
<1> DEFINE state == [AtRest EXCEPT !.pc = IF r = "loop" THEN "rest" ELSE "over"]
<1>1. state.pc \in {"rest", "over"} /\ runner' = [runner EXCEPT ![r] = state]
  BY DEF AtRest, Ended
<1>2. state.pc \notin Holding /\ state.pc \notin {"planned"} \cup Applying
  BY <1>1 DEF Holding, Applying
<1> HIDE DEF state
<1>3. CountsOK(state, times, Slack')
  BY <1>2 DEF CountsOK, Applying
<1> QED BY <1>1, <1>2, <1>3, CountGoes

\* A plan is of the rows above the cursor, none of which has been counted, and
\* remembers where the cursor was.
LEMMA CountPlans ==
  ASSUME CursorInv, CountInv, NEW r \in Runners, NEW pc, Planned(r, pc),
         UNCHANGED <<log, lock, cursor, times, broken, outrun>>,
         \/ pc = "planned" /\ runner[r].pc = "rest"
         \/ pc = "apply" /\ runner[r].pc = "plan"
  PROVE  CountInv'
<1> DEFINE updates == {m \in Memories : Eligible(m) /\ Of(m, Fresh) # {}}
           last == IF Fresh = {} THEN cursor ELSE Max({row.id : row \in Fresh})
           state == [AtRest EXCEPT
             !.pc = pc, !.window = Fresh,
             !.from = IF pc = "planned" THEN Progress ELSE << >>,
             !.last = last,
             !.proposed = [m \in Memories |-> IF m \in updates THEN Proposed(m, Fresh) ELSE 0],
             !.todo = updates]
<1>1. runner' = [runner EXCEPT ![r] = state]
  BY DEF Planned
<1>2. /\ state.pc = pc /\ state.window = Fresh /\ state.last = last
      /\ pc = "planned" => state.from = Progress
  BY DEF AtRest
<1>3. last \in Nat /\ cursor \in Nat /\ last >= cursor /\ \A row \in Fresh : row.id \in Nat /\ row.id <= last
  <2>1. CASE Fresh = {}
    BY <2>1 DEF CursorInv, LogIds
  <2>2. CASE Fresh # {}
    <3> DEFINE ids == {row.id : row \in Fresh}
    <3>1. ids \in SUBSET (0..lastId) /\ ids # {} /\ \A row \in Fresh : row.id \in ids
      BY <2>2 DEF CursorInv, LogIds, Fresh
    <3>2. lastId \in Nat /\ cursor \in Nat
      BY DEF CursorInv, LogIds
    <3>3. last = Max(ids)
      BY <2>2
    <3>4. \A id \in ids : id > cursor /\ id \in Nat
      BY <3>1 DEF Fresh, CursorInv, LogIds
    <3> HIDE DEF ids, last
    <3>5. last \in ids /\ \A id \in ids : id <= last
      BY <3>1, <3>2, <3>3, Greatest
    <3>6. last \in Nat /\ last >= cursor
      BY <3>2, <3>4, <3>5
    <3>7. \A row \in Fresh : row.id \in Nat /\ row.id <= last
      BY <3>1, <3>4, <3>5
    <3> QED BY <3>2, <3>6, <3>7
  <2> QED BY <2>1, <2>2
<1>4. Progress[1] = cursor
  BY DEF Progress
<1> HIDE DEF state, last, updates
<1>5. runner[r].pc \notin Applying
  BY DEF Applying
<1>6. TimesTyped' /\ Slack <= Slack' /\ AboveIsNew'
  BY <1>1, <1>5, AboveStays
<1>7. pc = "apply" => \A id \in RowIds : id > cursor => times[id] <= Slack
  <2> SUFFICES ASSUME pc = "apply" PROVE \A id \in RowIds : id > cursor => times[id] <= Slack
    OBVIOUS
  <2>1. \A q \in Runners \ {r} : runner[q].pc \notin Holding
    BY HoldsAlone DEF Holding
  <2>2. \A q \in Runners : runner[q].pc \notin Applying
    BY <1>5, <2>1 DEF Holding
  <2> QED BY <2>2 DEF CountInv, AboveIsNew
<1>8. Slack' = Slack
  BY DEF Slack
<1>9. CountsOK(state, times, Slack')
  <2>1. \A row, other \in Fresh : row.id = other.id => row.memory = other.memory
    BY DEF CountInv, IdsOK, Fresh
  <2>2. \A row \in Fresh : row.id > cursor
    BY DEF Fresh
  <2>3. \A row \in Fresh : row.id \in RowIds /\ pc = "apply" => times[row.id] <= Slack
    BY <1>7, <2>2
  <2>4. \A id \in RowIds : id > last /\ pc = "apply" => times[id] <= Slack
    BY <1>3, <1>7, RowIdsAreNaturals
  <2>5. pc \notin {"write", "index"} /\ (pc \in Applying => pc = "apply")
    BY DEF Applying
  <2> QED BY <1>2, <1>3, <1>4, <1>8, <2>1, <2>2, <2>3, <2>4, <2>5 DEF CountsOK
<1>10. /\ state.pc \in Holding => lock' = r
       /\ \A q \in Runners \ {r} : runner[q].pc \in Holding => lock' = q
  BY <1>2 DEF Holding, Applying, CountInv
<1> QED BY <1>1, <1>6, <1>9, <1>10, CountGoes

\* Bumping a memory counts its rows of the window, each for the first time but for the slack.
LEMMA CountWrites ==
  ASSUME CursorInv, CountInv, NEW r \in Runners, WriteBump(r)
  PROVE  CountInv'
<1> DEFINE old == runner[r]
           state == [old EXCEPT !.pc = "index"]
<1> DEFINE counted == {row.id : row \in Of(old.memory, old.window)}
<1>1. PlanOK(old) /\ CountsOK(old, times, Slack)
  BY DEF CursorInv, PlansOK, CountInv
<1>2. /\ state.pc = "index" /\ state.last = old.last /\ state.window = old.window
      /\ state.todo = old.todo /\ state.memory = old.memory
  BY <1>1 DEF PlanOK
<1>3. /\ runner' = [runner EXCEPT ![r] = state] /\ old.pc = "write"
      /\ times' = [id \in RowIds |-> IF id \in counted THEN times[id] + 1 ELSE times[id]]
      /\ UNCHANGED <<log, lock, cursor, broken, outrun>>
  BY DEF WriteBump, Beside, logVars
<1>4. /\ old.memory \in old.todo /\ old.last \in Nat
      /\ \A row \in old.window : row.id \in Nat /\ row.id <= old.last
      /\ \A row, other \in old.window : row.id = other.id => row.memory = other.memory
      /\ \A id \in RowIds : id > old.last => times[id] <= Slack
      /\ \A row \in old.window : row.memory \in old.todo /\ row.id \in RowIds => times[row.id] <= Slack
  <2> HIDE DEF old
  <2>1. old.last \in Nat
    BY <1>1, <1>3 DEF PlanOK, Planning, CursorInv, LogIds
  <2> QED BY <1>1, <1>3, <2>1 DEF CountsOK, Applying
<1>5. /\ \A row \in old.window : row.id \in counted => row.memory = old.memory
      /\ \A id \in counted : id <= old.last /\ id \in Nat
      /\ \A id \in counted \cap RowIds : times[id] <= Slack
  <2> HIDE DEF old
  <2> QED BY <1>4 DEF Of
<1>6. /\ \A id \in RowIds : times[id] \in Nat /\ times[id] <= 1 + Slack
      /\ Slack \in Nat /\ Slack' = Slack
  BY <1>3 DEF CountInv, TimesTyped, CountedOnce, Slack
<1>7. \A q \in Runners : runner'[q] = IF q = r THEN state ELSE runner[q]
  BY <1>3 DEF CursorInv, PlansOK
<1> HIDE DEF state, counted
<1>8. \A id \in RowIds : times'[id] = IF id \in counted THEN times[id] + 1 ELSE times[id]
  BY <1>3
<1>9. TimesTyped'
  BY <1>3, <1>6 DEF CountInv, TimesTyped
<1>10. CountedOnce'
  <2>1. \A id \in RowIds : times'[id] <= 1 + Slack
    BY <1>5, <1>6, <1>8
  <2> QED BY <1>3, <1>9, <2>1 DEF CountedOnce, Slack, TimesTyped
<1>11. CountsOK(state, times', Slack)
  <2>1. \A id \in RowIds : id > state.last => times'[id] <= Slack
    BY <1>2, <1>4, <1>5, <1>8, RowIdsAreNaturals
  <2>2. \A row \in state.window :
          row.memory \in state.todo /\ row.id \in RowIds /\ row.memory # state.memory
            => times'[row.id] <= Slack
    BY <1>2, <1>4, <1>5, <1>8
  <2> QED BY <1>2, <1>4, <2>1, <2>2 DEF CountsOK
<1>12. \A q \in Runners \ {r} : runner[q].pc \notin Holding
  BY <1>3, HoldsAlone DEF Holding, Applying
<1>13. ASSUME NEW q \in Runners PROVE CountsOK(runner'[q], times', Slack')
  <2>1. CASE q = r
    BY <1>6, <1>7, <1>11, <2>1
  <2>2. CASE q # r
    <3>1. CountsOK(runner[q], times, Slack) /\ runner'[q] = runner[q]
      BY <1>7, <2>2 DEF CountInv
    <3>2. runner[q].pc \notin Applying
      BY <1>12, <2>2 DEF Holding
    <3> QED BY <3>1, <3>2 DEF CountsOK, Applying
  <2> QED BY <2>1, <2>2
<1>14. AboveIsNew'
  BY <1>2, <1>7 DEF AboveIsNew, Applying
<1>15. /\ IdsOK'
       /\ \A q \in Runners : runner'[q].pc \in Holding => lock' = q
  BY <1>2, <1>3, <1>7 DEF CountInv, IdsOK, Holding, Applying
<1> QED BY <1>9, <1>10, <1>13, <1>14, <1>15 DEF CountInv

\* For a run that breaks, every row may be counted once more.
LEMMA CountBreaks ==
  ASSUME CursorInv, CountInv, NEW r \in Runners, Break(r)
  PROVE  CountInv'
<1>1. /\ runner' = Ended(r) /\ UNCHANGED <<log, cursor, times, outrun>> /\ broken' = broken + 1
      /\ runner[r].pc \in Holding
  BY DEF Break, Holding, Applying
<1>2. TimesTyped' /\ Slack <= Slack' /\ AboveIsNew'
  <2>1. broken \in Nat /\ outrun \in Nat /\ Slack' = Slack + 1 /\ Slack = broken + outrun
    BY <1>1 DEF CountInv, TimesTyped, Slack
  <2>2. \A id \in RowIds : times'[id] <= Slack'
    BY <1>1, <2>1 DEF CountInv, CountedOnce
  <2> QED BY <1>1, <2>1, <2>2 DEF CountInv, TimesTyped, AboveIsNew
<1>3. \A q \in Runners \ {r} : runner[q].pc \notin Holding
  BY <1>1, HoldsAlone
<1> QED BY <1>1, <1>2, <1>3, CountRests

LEMMA CountRun ==
  ASSUME CursorInv, CountInv, NEW r \in Runners, Run(r)
  PROVE  CountInv'
<1> DEFINE old == runner[r]
<1>1. PlanOK(old) /\ CountsOK(old, times, Slack) /\ log' = log
  BY DEF CursorInv, PlansOK, CountInv, Run, TakeLock, Plan, WriteBump, IndexBump, Stamp,
         ReleaseLock, LockLater, Reread, Beside, logVars
<1>2. \A q \in Runners : runner[q].pc \in Holding => lock = q
  BY DEF CountInv
<1>3. ASSUME NEW state, runner' = [runner EXCEPT ![r] = state],
             UNCHANGED <<lock, cursor, times, broken, outrun>>,
             state.pc \in Applying, old.pc \in Applying,
             state.window = old.window, state.last = old.last, state.todo \subseteq old.todo,
             state.pc \in {"write", "index"} => state.memory \in state.todo,
             old.pc = "index" => old.memory \notin state.todo,
             state.pc # "index"
      PROVE  CountInv'
  <2>1. TimesTyped' /\ Slack <= Slack' /\ AboveIsNew'
    BY <1>3, AboveStays
  <2>2. Slack' = Slack
    BY <1>3 DEF Slack
  <2>3. CountsOK(state, times, Slack)
    <3> HIDE DEF old
    <3> QED BY <1>1, <1>3 DEF CountsOK, Applying
  <2>4. state.pc \in Holding => lock' = r
    BY <1>2, <1>3 DEF Holding
  <2> QED BY <1>1, <1>2, <1>3, <2>1, <2>2, <2>3, <2>4, CountGoes
<1>4. CASE TakeLock(r)
  <2> DEFINE state == [old EXCEPT !.pc = "plan"]
  <2>1. state.pc = "plan"
    BY <1>1 DEF PlanOK
  <2>2. /\ runner' = [runner EXCEPT ![r] = state] /\ lock = NoRunner /\ lock' = r
        /\ UNCHANGED <<cursor, times, broken, outrun>> /\ old.pc = "rest"
    BY <1>4 DEF TakeLock, Beside
  <2> HIDE DEF state
  <2>3. TimesTyped' /\ Slack <= Slack' /\ AboveIsNew'
    BY <2>2, AboveStays DEF Applying
  <2>4. CountsOK(state, times, Slack')
    BY <2>1 DEF CountsOK, Applying
  <2>5. \A q \in Runners \ {r} : runner[q].pc \notin Holding
    BY <2>2, HoldsAlone
  <2> QED BY <1>1, <2>2, <2>3, <2>4, <2>5, CountGoes
<1>5. CASE Plan(r)
  <2>1. Planned(r, "apply") /\ runner[r].pc = "plan" /\ UNCHANGED <<log, lock, cursor, times, broken, outrun>>
    BY <1>1, <1>5 DEF Plan, Beside
  <2> QED BY <2>1, CountPlans
<1>6. CASE LockLater(r)
  <2>1. old.pc = "planned" /\ UNCHANGED <<cursor, times, broken>>
    BY <1>6 DEF LockLater
  <2>2. CASE lock = NoRunner /\ lock' = r /\ runner' = [runner EXCEPT ![r].pc = "apply"]
             /\ outrun' = IF Progress # old.from THEN outrun + 1 ELSE outrun
    <3> DEFINE state == [old EXCEPT !.pc = "apply"]
    <3>1. /\ state.pc = "apply" /\ state.last = old.last /\ state.window = old.window
          /\ state.todo = old.todo /\ runner' = [runner EXCEPT ![r] = state]
      BY <1>1, <2>2 DEF PlanOK
    <3> HIDE DEF state
    <3>2. \A q \in Runners \ {r} : runner[q].pc \notin Holding
      BY <2>2, HoldsAlone
    <3>3. /\ \A row \in old.window : row.id \in Nat /\ row.id <= old.last /\ row.id > old.from[1]
          /\ \A row, other \in old.window : row.id = other.id => row.memory = other.memory
          /\ old.from[1] \in Nat /\ old.last >= old.from[1] /\ old.last \in Nat
      <4> HIDE DEF old
      <4>1. old.last \in Nat
        BY <1>1, <2>1 DEF PlanOK, Planning, CursorInv, LogIds
      <4> QED BY <1>1, <2>1, <4>1 DEF CountsOK
    <3>4. /\ \A id \in RowIds : times[id] \in Nat /\ times[id] <= 1 + Slack
          /\ Slack \in Nat /\ broken \in Nat /\ outrun \in Nat /\ cursor \in Nat
      BY DEF CountInv, TimesTyped, CountedOnce, Slack, CursorInv, LogIds
    <3>5. CASE Progress # old.from
      <4>1. outrun' = outrun + 1 /\ Slack' = Slack + 1
        BY <2>1, <2>2, <3>4, <3>5 DEF Slack
      <4>2. \A id \in RowIds : times[id] <= Slack'
        BY <3>4, <4>1
      <4>3. TimesTyped' /\ Slack <= Slack' /\ AboveIsNew'
        BY <2>1, <3>4, <4>1, <4>2 DEF CountInv, TimesTyped, AboveIsNew
      <4>4. CountsOK(state, times, Slack')
        BY <3>1, <3>3, <4>2 DEF CountsOK, Applying
      <4> QED BY <1>1, <2>1, <2>2, <3>1, <3>2, <4>3, <4>4, CountGoes
    <3>6. CASE Progress = old.from
      <4>1. outrun' = outrun /\ Slack' = Slack /\ old.from[1] = cursor
        BY <2>1, <2>2, <3>6 DEF Slack, Progress
      <4>2. \A id \in RowIds : id > cursor => times[id] <= Slack
        <5>1. \A q \in Runners : runner[q].pc \notin Applying
          BY <2>1, <3>2 DEF Holding, Applying
        <5> QED BY <5>1 DEF CountInv, AboveIsNew
      <4>3. TimesTyped' /\ Slack <= Slack' /\ AboveIsNew'
        BY <2>1, <3>1, <4>1, AboveStays DEF Applying
      <4>4. CountsOK(state, times, Slack)
        <5>1. \A id \in RowIds : id > old.last => times[id] <= Slack
          BY <3>3, <3>4, <4>1, <4>2, RowIdsAreNaturals
        <5>2. \A row \in old.window : row.id \in RowIds => times[row.id] <= Slack
          BY <3>3, <4>1, <4>2
        <5> QED BY <3>1, <3>3, <5>1, <5>2 DEF CountsOK, Applying
      <4> QED BY <1>1, <2>1, <2>2, <3>1, <3>2, <4>1, <4>3, <4>4, CountGoes
    <3> QED BY <3>5, <3>6
  <2>3. CASE runner' = Ended(r) /\ UNCHANGED <<lock, outrun>>
    <3> DEFINE state == [AtRest EXCEPT !.pc = IF r = "loop" THEN "rest" ELSE "over"]
    <3>1. runner' = [runner EXCEPT ![r] = state]
      BY <2>3 DEF Ended
    <3> HIDE DEF state
    <3>2. TimesTyped' /\ Slack <= Slack' /\ AboveIsNew'
      BY <2>1, <2>3, <3>1, AboveStays DEF Applying
    <3> QED BY <1>1, <1>2, <2>1, <2>3, <3>2, CountRests
  <2> QED BY <1>6, <2>2, <2>3 DEF LockLater
<1>7. ASSUME NEW m \in Memories, Reread(r, m) PROVE CountInv'
  <2>1. /\ UNCHANGED <<lock, cursor, times, broken, outrun>> /\ old.pc = "apply" /\ m \in old.todo
    BY <1>7 DEF Reread, Beside
  <2>2. ASSUME NEW file,
               runner' = [runner EXCEPT ![r].pc = "write", ![r].memory = m, ![r].file = file]
        PROVE  CountInv'
    <3> DEFINE state == [old EXCEPT !.pc = "write", !.memory = m, !.file = file]
    <3>1. /\ state.pc = "write" /\ state.last = old.last /\ state.window = old.window
          /\ state.todo = old.todo /\ state.memory = m
      BY <1>1 DEF PlanOK
    <3>2. runner' = [runner EXCEPT ![r] = state]
      BY <2>2 DEF CursorInv, PlansOK
    <3> HIDE DEF state, old
    <3> QED BY <1>3, <2>1, <3>1, <3>2 DEF Applying
  <2>3. CASE runner' = [runner EXCEPT ![r].todo = @ \ {m}]
    <3> DEFINE state == [old EXCEPT !.todo = @ \ {m}]
    <3>1. /\ state.pc = "apply" /\ state.last = old.last /\ state.window = old.window
          /\ state.todo \subseteq old.todo /\ runner' = [runner EXCEPT ![r] = state]
      BY <1>1, <2>1, <2>3 DEF PlanOK
    <3> HIDE DEF state, old
    <3> QED BY <1>3, <2>1, <3>1 DEF Applying
  <2> QED BY <1>7, <2>2, <2>3 DEF Reread
<1>8. CASE WriteBump(r)
  BY <1>8, CountWrites
<1>9. CASE IndexBump(r)
  <2> DEFINE state == [old EXCEPT !.pc = "apply", !.todo = @ \ {old.memory}]
  <2>1. /\ state.pc = "apply" /\ state.last = old.last /\ state.window = old.window
        /\ state.todo = old.todo \ {old.memory}
    BY <1>1 DEF PlanOK
  <2>2. /\ UNCHANGED <<lock, cursor, times, broken, outrun>> /\ old.pc = "index"
        /\ runner' = [runner EXCEPT ![r] = state]
    BY <1>9 DEF IndexBump, Beside, CursorInv, PlansOK
  <2> HIDE DEF state, old
  <2> QED BY <1>3, <2>1, <2>2 DEF Applying
<1>10. CASE Stamp(r)
  <2> DEFINE state == [old EXCEPT !.pc = "stamp"]
  <2>1. state.pc = "stamp"
    BY <1>1 DEF PlanOK
  <2>2. /\ runner' = [runner EXCEPT ![r] = state] /\ old.pc = "apply" /\ cursor' = old.last
        /\ UNCHANGED <<lock, times, broken, outrun>>
    BY <1>10 DEF Stamp, Beside
  <2>3. \A id \in RowIds : id > old.last => times[id] <= Slack
    <3> HIDE DEF old
    <3> QED BY <1>1, <2>2 DEF CountsOK, Applying
  <2> HIDE DEF state, old
  <2>4. TimesTyped' /\ Slack <= Slack' /\ AboveIsNew'
    BY <2>2, <2>3 DEF CountInv, TimesTyped, Slack, AboveIsNew
  <2>5. CountsOK(state, times, Slack')
    BY <2>1 DEF CountsOK, Applying
  <2>6. lock = r
    BY <1>2, <2>2 DEF old, Holding, Applying
  <2> QED BY <1>1, <1>2, <2>2, <2>4, <2>5, <2>6, CountGoes
<1>11. CASE ReleaseLock(r)
  <2>1. /\ runner' = Ended(r) /\ UNCHANGED <<cursor, times, broken, outrun>> /\ old.pc = "stamp"
    BY <1>11 DEF ReleaseLock, Beside
  <2>2. \A q \in Runners \ {r} : runner[q].pc \notin Holding
    BY <2>1, HoldsAlone DEF Holding
  <2> DEFINE state == [AtRest EXCEPT !.pc = IF r = "loop" THEN "rest" ELSE "over"]
  <2>3. runner' = [runner EXCEPT ![r] = state]
    BY <2>1 DEF Ended
  <2> HIDE DEF state
  <2>4. TimesTyped' /\ Slack <= Slack' /\ AboveIsNew'
    BY <2>1, <2>3, AboveStays DEF Applying
  <2> QED BY <1>1, <2>1, <2>2, <2>4, CountRests
<1> QED BY <1>4, <1>5, <1>6, <1>7, <1>8, <1>9, <1>10, <1>11 DEF Run

LEMMA CountStep == CursorInv /\ CountInv /\ [Next]_vars => CountInv'
<1> SUFFICES ASSUME CursorInv, CountInv, [Next]_vars PROVE CountInv'
  OBVIOUS
<1>1. CASE LogNext /\ UNCHANGED stageVars
  BY <1>1, CountLog
<1>2. ASSUME NEW r \in Runners, PlanFirst(r) PROVE CountInv'
  <2>1. Planned(r, "planned") /\ runner[r].pc = "rest" /\ UNCHANGED <<log, lock, cursor, times, broken, outrun>>
    BY <1>2 DEF PlanFirst
  <2> QED BY <2>1, CountPlans
<1>3. CASE UNCHANGED <<log, runner, lock, cursor, times, broken, outrun>>
  BY <1>3, CountQuiet DEF CountInv, IdsOK
<1>4. (\E m \in Memories : StartIngest(m) \/ Hide(m)) \/ WriteIngest \/ IndexIngest \/ UNCHANGED vars
        => UNCHANGED <<log, runner, lock, cursor, times, broken, outrun>>
  BY DEF StartIngest, Hide, WriteIngest, IndexIngest, Apart, vars, logVars, stageVars
<1> QED BY <1>1, <1>2, <1>3, <1>4, CountRun, CountBreaks DEF Next

LEMMA CountInit == Init => CountInv
<1> SUFFICES ASSUME Init PROVE CountInv
  OBVIOUS
<1>1. \A r \in Runners : runner[r].pc = "rest"
  BY DEF Init, AtRest
<1>2. \A r \in Runners : CountsOK(runner[r], times, Slack)
  BY <1>1 DEF CountsOK, Applying
<1>3. TimesTyped /\ IdsOK /\ CountedOnce /\ AboveIsNew
  BY DEF Init, LogInit, TimesTyped, IdsOK, CountedOnce, AboveIsNew, Slack
<1> QED BY <1>1, <1>2, <1>3 DEF CountInv, Holding, Applying

\* run_importance under the stage lock, and the command that plans before it has the
\* lock: a row of the log raises its memory once, and once more at most for every run
\* that broke before its cursor and every plan applied after another run.
THEOREM RowsCountOnce == Spec => []CountedOnce
<1>1. CountInv => CountedOnce
  BY DEF CountInv
<1> QED BY <1>1, CountInit, CountStep, AlwaysCovered, PTL DEF Spec

-----------------------------------------------------------------------------
(* Under the lock *)

\* The runs that are under the lock of the stage.
Locking == {r \in Runners : runner[r].pc \in Holding}

Turns == INSTANCE StageTurns WITH working <- Locking

LEMMA OneRunnerMoves ==
  ASSUME CursorInv, [Next]_vars
  PROVE  \E p : \A q \in Runners \ {p} : runner'[q] = runner[q]
<1>0. DOMAIN runner = Runners
  BY DEF CursorInv, PlansOK
<1>1. ASSUME NEW p \in Runners, \E state : runner' = [runner EXCEPT ![p] = state]
      PROVE  \A q \in Runners \ {p} : runner'[q] = runner[q]
  <2>1. PICK state : runner' = [runner EXCEPT ![p] = state]
    BY <1>1
  <2> QED BY <1>0, <2>1
<1>2. CASE \E p \in Runners : Run(p) \/ PlanFirst(p) \/ Break(p)
  BY <1>1, <1>2, ZenonT(30)
  DEF Run, TakeLock, Plan, WriteBump, IndexBump, Stamp, ReleaseLock, LockLater, Reread, PlanFirst,
      Break, Planned, Ended, CursorInv, PlansOK
<1>3. UNCHANGED runner =>  \E p : \A q \in Runners \ {p} : runner'[q] = runner[q]
  OBVIOUS
<1>4. CASE \/ UNCHANGED stageVars
           \/ \E m \in Memories : StartIngest(m) \/ Hide(m)
           \/ WriteIngest \/ IndexIngest
  BY <1>3, <1>4 DEF stageVars, StartIngest, Hide, WriteIngest, IndexIngest, Apart
<1> QED BY <1>2, <1>4 DEF Next, vars

\* What the stage's lock promises when no run outlives it (StageLock) is what the stage
\* runs under: the loop from before its plan and the command from after it take turns,
\* whatever breaks off.
THEOREM BumpsTakeTurns == Spec => Turns!Spec
<1>1. Init => Turns!Init
  BY DEF Init, AtRest, Locking, Holding, Applying, Turns!Init
<1>2. CursorInv /\ CountInv /\ CountInv' /\ [Next]_vars => [Turns!Next]_Locking
  <2> SUFFICES ASSUME CursorInv, CountInv, CountInv', [Next]_vars, Locking' # Locking
               PROVE  Turns!Next
    OBVIOUS
  <2>1. Locking \subseteq {lock} \cap Runners /\ Locking' \subseteq {lock'} \cap Runners
    BY DEF CountInv, Locking
  <2>2. PICK p : \A q \in Runners \ {p} : runner'[q] = runner[q]
    BY OneRunnerMoves
  <2>3. \A q \in Runners \ {p} : q \in Locking' <=> q \in Locking
    BY <2>2 DEF Locking
  <2>4. p \in Runners /\ (\/ Locking = {} /\ Locking' = {p}
                          \/ Locking = {p} /\ Locking' = {})
    BY <2>1, <2>3
  <2> QED BY <2>4 DEF Turns!Next, Turns!Start, Turns!Stop
<1> QED BY <1>1, <1>2, CountInit, CountStep, AlwaysCovered, PTL DEF Spec, Turns!Spec
=============================================================================

-------------------------- MODULE EmbedQueueProofs --------------------------
(***************************************************************************)
(* What holds of EmbedQueue for every number of memories, workers and      *)
(* writers, every text history and every bound: types, requests that are   *)
(* not erased, and, when leases outlast the work and no file leaves the    *)
(* vault, one worker per record, an embed_state that tells the truth about *)
(* the vectors, and no stored text without vectors and without a request.  *)
(***************************************************************************)
EXTENDS EmbedQueue, TLAPS

\* Past the read, a worker has a real version of the stage's kind in hand; a
\* busy writer stores a body that is no broken file.
StageOK ==
  /\ \A w \in Workers :
       /\ pc[w] # "idle" => job[w].mem \in Memories
       /\ pc[w] = "idle" => job[w] = NoJob
       /\ pc[w] \in {"plan", "embed"} => job[w].ver # 0 /\ Body(w) \in Texts
       /\ pc[w] = "record" => job[w].ver # 0 /\ Body(w) \in Texts \cup {Empty}
  /\ \A p \in Writers :
       writer[p].pc # "idle" =>
         /\ writer[p].mem \in Memories
         /\ writer[p].ver # 0
         /\ text[writer[p].ver] # Broken

TypeInv == TypeOK /\ StageOK

-----------------------------------------------------------------------------
(* Type correctness *)

LEMMA RowTypes ==
  ASSUME NEW row \in Row, NEW t \in Nat, NEW max \in Nat
  PROVE  /\ Unclaimed(row) \in Row
         /\ Consumed(row, t) \in Row
         /\ Errored(row, max) \in Row
         /\ Stamped(row, t) \in Row
<1>1. Unclaimed(row) \in Row
  BY DEF Row, Unclaimed
<1>2. NoRow \in Row
  BY DEF Row, NoRow
<1>3. Consumed(row, t) \in Row
  BY <1>1, <1>2 DEF Consumed
<1>4. Errored(row, max) \in Row
  <2>1. row.retries + 1 \in Nat /\ (row.retries + 1 >= max) \in BOOLEAN
    BY DEF Row
  <2>2. [Unclaimed(row) EXCEPT !.retries = row.retries + 1,
                               !.failed = (row.retries + 1 >= max)] \in Row
    BY <1>1, <2>1 DEF Row
  <2> QED BY <2>2 DEF Errored
<1>5. Stamped(row, t) \in Row
  BY DEF Row, Stamped
<1> QED BY <1>1, <1>3, <1>4, <1>5

\* A worker that ends its claim and leaves a well-typed row disturbs no type.
LEMMA FinishWithTypes ==
  ASSUME TypeInv, NEW w \in Workers, NEW row \in Row, pc[w] # "idle",
         FinishWith(w, row), events' \in 0..MaxEvents
  PROVE  TypeInv'
<1> USE ConstantsAssumption DEF TypeInv
<1>0. NoJob \in Job
  BY DEF Job, NoJob
<1>1. TypeOK'
  BY <1>0 DEF TypeOK, FinishWith, Finish, fileVars, indexVars, Stages
<1>2. StageOK'
  BY DEF TypeOK, StageOK, FinishWith, Finish, fileVars, Stages, Job, NoJob, Body
<1> QED BY <1>1, <1>2

LEMMA DeleteRowsTypes ==
  ASSUME TypeOK, NEW m \in Memories, DeleteRows(m)
  PROVE  /\ indexed' \in [Memories -> BOOLEAN]
         /\ known' \in [Memories -> Bodies \cup {Nothing}]
         /\ vec' \in [Memories -> Texts \cup {Nothing}]
         /\ state' \in [Memories -> Texts \cup {Empty, Nothing}]
         /\ queue' \in [Memories -> Row]
         /\ clock' \in Nat
         /\ asked' \in [Memories -> 0..MaxVersion]
BY DEF TypeOK, DeleteRows, Row, NoRow

LEMMA WorkerTypes ==
  ASSUME TypeInv, NEW w \in Workers, WorkerStep(w)
  PROVE  TypeInv'
<1> USE ConstantsAssumption DEF TypeInv
<1>0. /\ \A x \in Workers : queue \in [Memories -> Row] /\ job[x].token \in Nat
      /\ pc[w] # "idle" => queue[job[w].mem] \in Row
  BY DEF TypeOK, StageOK, Job
<1>1. CASE Claim(w)
  <2>1. PICK b \in Batches :
          /\ todo' = [todo EXCEPT ![w] = {[mem |-> m, token |-> queue[m].token] : m \in b}]
          /\ queue' = [m \in Memories |->
                 IF m \in b THEN [queue[m] EXCEPT !.claim = w, !.lapsed = FALSE]
                 ELSE queue[m]]
    BY <1>1 DEF Claim
  <2>2. b \subseteq Memories
    BY DEF Batches, Claimable
  <2>3. queue' \in [Memories -> Row]
    BY <2>1, <1>0, ZenonT(30) DEF Row
  <2>4. {[mem |-> m, token |-> queue[m].token] : m \in b} \subseteq Claims
    BY <2>2, <1>0 DEF Row, Claims
  <2>5. TypeOK'
    BY <1>1, <2>1, <2>3, <2>4 DEF TypeOK, Claim, fileVars, indexVars
  <2>6. StageOK'
    BY <1>1 DEF StageOK, Claim, fileVars, Body
  <2> QED BY <2>5, <2>6
<1>2. CASE Read(w)
  <2>1. PICK c \in todo[w] :
          /\ todo' = [todo EXCEPT ![w] = @ \ {c}]
          /\ job' = [job EXCEPT ![w] = [mem |-> c.mem, token |-> c.token,
                                        ver |-> vault[c.mem], base |-> Nothing]]
          /\ pc' = [pc EXCEPT ![w] = AfterRead(c.mem)]
    BY <1>2 DEF Read
  <2>2. c.mem \in Memories /\ c.token \in Nat
    BY DEF TypeOK, Claims
  <2>3. AfterRead(c.mem) \in {"missing", "invalid", "record", "plan"}
    BY DEF AfterRead
  <2>4. vault[c.mem] \in 0..MaxVersion
    BY <2>2 DEF TypeOK
  <2>5. TypeOK'
    BY <1>2, <2>1, <2>2, <2>3, <2>4 DEF TypeOK, Read, fileVars, indexVars, queueVars, Stages, Job
  <2>6. /\ AfterRead(c.mem) = "plan" => vault[c.mem] # 0 /\ text[vault[c.mem]] \in Texts
        /\ AfterRead(c.mem) = "record" => vault[c.mem] # 0 /\ text[vault[c.mem]] = Empty
    BY <2>2, <2>4 DEF AfterRead, TypeOK, Bodies, Versions
  <2>7. StageOK'
    BY <1>2, <2>1, <2>2, <2>3, <2>6 DEF StageOK, TypeOK, Read, fileVars, Body, NoJob
  <2> QED BY <2>5, <2>7
<1>3. CASE Recheck(w)
  <2>1. CASE pc' = [pc EXCEPT ![w] = "prune"] /\ UNCHANGED <<job, todo, fileVars, indexVars, queueVars, writer, doomed, events>>
    <3>1. TypeOK' BY <2>1 DEF TypeOK, fileVars, indexVars, queueVars, Stages
    <3>2. StageOK' BY <1>3, <2>1 DEF TypeOK, StageOK, Recheck, fileVars, Body
    <3> QED BY <3>1, <3>2
  <2>2. CASE FinishWith(w, Consumed(queue[job[w].mem], job[w].token)) /\ UNCHANGED events
    BY <1>3, <2>2, <1>0, RowTypes, FinishWithTypes DEF Recheck, TypeOK
  <2>3. CASE FinishWith(w, Unclaimed(queue[job[w].mem])) /\ UNCHANGED events
    BY <1>3, <2>3, <1>0, RowTypes, FinishWithTypes DEF Recheck, TypeOK
  <2> QED BY <1>3, <2>1, <2>2, <2>3 DEF Recheck, Goto
<1>4. CASE PruneMissing(w)
  <2>1. job[w].mem \in Memories
    BY <1>4 DEF PruneMissing, StageOK
  <2>2. TypeOK'
    BY <1>4, <2>1, DeleteRowsTypes DEF PruneMissing, TypeOK, Finish, fileVars, Stages, Job, NoJob
  <2>3. StageOK'
    BY <1>4 DEF PruneMissing, TypeOK, StageOK, Finish, fileVars, Body, NoJob
  <2> QED BY <2>2, <2>3
<1>5. CASE MarkInvalid(w)
  BY <1>5, <1>0, RowTypes, FinishWithTypes DEF MarkInvalid, TypeOK
<1>6. CASE Plan(w)
  <2>1. TypeOK'
    BY <1>6, SMTT(30) DEF Plan, TypeOK, StageOK, fileVars, indexVars, queueVars, Stages, Job
  <2>2. StageOK'
    BY <1>6 DEF Plan, TypeOK, StageOK, fileVars, Body, Job
  <2> QED BY <2>1, <2>2
<1>7. CASE Refused(w)
  <2>1. events' \in 0..MaxEvents
    BY <1>7 DEF Refused, Event, TypeOK
  <2> QED BY <1>7, <2>1, <1>0, RowTypes, FinishWithTypes DEF Refused
<1>8. CASE Outage(w)
  <2>1. events' \in 0..MaxEvents
    BY <1>8 DEF Outage, Event, TypeOK
  <2> QED BY <1>8, <2>1, <1>0, RowTypes, FinishWithTypes DEF Outage
<1>9. CASE Apply(w)
  <2>1. TypeOK'
    BY <1>9 DEF Apply, Goto, TypeOK, StageOK, fileVars, queueVars, Stages
  <2>2. StageOK'
    BY <1>9 DEF Apply, Goto, TypeOK, StageOK, fileVars, Body
  <2> QED BY <2>1, <2>2
<1>10. CASE StalePlan(w)
  BY <1>10, <1>0, RowTypes, FinishWithTypes DEF StalePlan, TypeOK
<1>11. CASE Record(w)
  <2>1. TypeOK'
    BY <1>11 DEF Record, Goto, TypeOK, StageOK, fileVars, queueVars, Stages
  <2>2. StageOK'
    BY <1>11 DEF Record, Goto, TypeOK, StageOK, fileVars, Body
  <2> QED BY <2>1, <2>2
<1>12. CASE Dequeue(w)
  BY <1>12, <1>0, RowTypes, FinishWithTypes DEF Dequeue, TypeOK
<1> QED
  BY <1>1, <1>2, <1>3, <1>4, <1>5, <1>6, <1>7, <1>8, <1>9, <1>10, <1>11, <1>12
  DEF WorkerStep

\* The same for everything that is not a step of a worker.
LEMMA EnvironmentTypes ==
  ASSUME TypeInv, Next, \A w \in Workers : ~WorkerStep(w)
  PROVE  TypeInv'
<1> USE ConstantsAssumption DEF TypeInv
<1>0. /\ \A m \in Memories : queue[m] \in Row
      /\ \A p \in Writers : writer[p] \in WriterState
      /\ edits \in [Memories -> 0..MaxVersion] /\ clock \in Nat
  BY DEF TypeOK
<1>w. NoWrite \in WriterState
  BY DEF WriterState, NoWrite, Kinds
<1>1. CASE \E w \in Workers : Crash(w)
  <2>1. PICK w \in Workers : Crash(w)
    BY <1>1
  <2>2. TypeOK'
    BY <2>1 DEF Crash, Event, TypeOK, fileVars, indexVars, queueVars, Stages, Job, NoJob
  <2>3. StageOK'
    BY <2>1 DEF Crash, TypeOK, StageOK, fileVars, Body, NoJob
  <2> QED BY <2>2, <2>3
<1>2. CASE \E p \in Writers : WriterStep(p)
  <2>1. PICK p \in Writers : WriterStep(p)
    BY <1>2
  <2>2. CASE Upsert(p)
    <3>1. \A x \in {"hash", "enqueue"} : [writer[p] EXCEPT !.pc = x] \in WriterState
      BY <1>0 DEF WriterState
    <3>3. TypeOK'
      BY <2>2, <3>1 DEF Upsert, TypeOK, fileVars, queueVars, workerVars
    <3>2. StageOK'
      BY <2>2 DEF Upsert, TypeOK, StageOK, fileVars, workerVars, Body, WriterState
    <3> QED BY <3>2, <3>3
  <2>3. CASE RecordHash(p)
    <3>1. /\ writer[p].mem \in Memories
          /\ text[writer[p].ver] \in Bodies
      BY <2>3 DEF RecordHash, StageOK, TypeOK, WriterState, Versions
    <3>4. [writer[p] EXCEPT !.pc = "enqueue"] \in WriterState
      BY <1>0 DEF WriterState
    <3>2. TypeOK'
      BY <2>3, <3>1, <3>4, <1>w DEF RecordHash, TypeOK, fileVars, queueVars, workerVars
    <3>3. StageOK'
      <4>1. \A q \in Writers : q # p => writer'[q] = writer[q]
        BY <2>3, <1>0 DEF RecordHash, TypeOK
      <4>2. \/ writer'[p] = NoWrite
            \/ writer'[p] = [writer[p] EXCEPT !.pc = "enqueue"]
        BY <2>3, <1>0 DEF RecordHash, TypeOK
      <4> QED
        BY <2>3, <4>1, <4>2, <1>0 DEF RecordHash, StageOK, fileVars, workerVars, Body, WriterState, NoWrite
    <3> QED BY <3>2, <3>3
  <2>4. CASE Enqueue(p)
    <3>1. writer[p].mem \in Memories
      BY <2>4 DEF Enqueue, StageOK
    <3>2. clock + 1 \in Nat
      BY <1>0
    <3>3. Stamped(queue[writer[p].mem], clock + 1) \in Row
      BY <1>0, <3>1, <3>2, RowTypes
    <3>4. TypeOK'
      BY <2>4, <1>w, <3>1, <3>2, <3>3 DEF Enqueue, Stamp, TypeOK, fileVars, indexVars, queueVars, workerVars
    <3>5. StageOK'
      BY <2>4 DEF Enqueue, TypeOK, StageOK, fileVars, workerVars, Body, NoWrite
    <3> QED BY <3>4, <3>5
  <2> QED BY <2>1, <2>2, <2>3, <2>4 DEF WriterStep
<1>3. CASE \E p \in Writers : WriterCrash(p)
  <2>1. PICK p \in Writers : WriterCrash(p)
    BY <1>3
  <2>2. TypeOK'
    BY <2>1, <1>w DEF WriterCrash, Event, TypeOK, fileVars, indexVars, queueVars, workerVars
  <2>3. StageOK'
    BY <2>1 DEF WriterCrash, TypeOK, StageOK, fileVars, workerVars, Body, NoWrite
  <2> QED BY <2>2, <2>3
<1>4. CASE \E p \in Writers, m \in Memories : BeginReindex(p, m)
  <2>1. PICK p \in Writers, m \in Memories : BeginReindex(p, m)
    BY <1>4
  <2>0. [pc |-> "upsert", kind |-> "reindex", mem |-> m, ver |-> vault[m]] \in WriterState
    BY DEF TypeOK, WriterState, Kinds
  <2>2. TypeOK'
    BY <2>0, <2>1 DEF BeginReindex, Event, TypeOK, fileVars, indexVars, queueVars, workerVars
  <2>3. StageOK'
    BY <2>1 DEF BeginReindex, TypeOK, StageOK, fileVars, workerVars, Body
  <2> QED BY <2>2, <2>3
<1>5. CASE \E p \in Writers, m \in Memories, k \in Kinds : BeginWrite(p, k, m)
  <2>1. PICK p \in Writers, m \in Memories, k \in Kinds : BeginWrite(p, k, m)
    BY <1>5
  <2>2. edits[m] + 1 \in 0..MaxVersion /\ edits[m] + 1 # 0
    BY <2>1 DEF BeginWrite, TypeOK
  <2>0. [pc |-> "upsert", kind |-> k, mem |-> m, ver |-> edits[m] + 1] \in WriterState
    BY <2>2 DEF WriterState
  <2>3. TypeOK'
    BY <2>0, <2>1, <2>2 DEF BeginWrite, TypeOK, indexVars, queueVars, workerVars
  <2>4. StageOK'
    BY <2>1, <2>2 DEF BeginWrite, TypeOK, StageOK, workerVars, Body
  <2> QED BY <2>3, <2>4
<1>6. CASE \E m \in Memories : LeaseLapses(m)
  <2>1. PICK m \in Memories : LeaseLapses(m)
    BY <1>6
  <2>2. [queue[m] EXCEPT !.lapsed = TRUE] \in Row
    BY <1>0 DEF Row
  <2>3. TypeOK'
    BY <2>1, <2>2 DEF LeaseLapses, TypeOK, fileVars, indexVars, workerVars
  <2>4. StageOK'
    BY <2>1 DEF LeaseLapses, StageOK, fileVars, workerVars, Body
  <2> QED BY <2>3, <2>4
<1>7. CASE \E m \in Memories : PruneRow(m)
  <2>1. PICK m \in Memories : PruneRow(m)
    BY <1>7
  <2>2. TypeOK'
    BY <2>1, DeleteRowsTypes DEF PruneRow, TypeOK, fileVars, workerVars
  <2>3. StageOK'
    BY <2>1 DEF PruneRow, StageOK, fileVars, workerVars, Body
  <2> QED BY <2>2, <2>3
<1>8. CASE \E m \in Memories : RemoveFile(m) \/ HandEdit(m)
  <2>1. PICK m \in Memories : RemoveFile(m) \/ HandEdit(m)
    BY <1>8
  <2>2. TypeOK'
    <3>1. CASE RemoveFile(m)
      BY <3>1 DEF RemoveFile, Event, TypeOK, indexVars, queueVars, workerVars
    <3>2. CASE HandEdit(m)
      <4>1. edits[m] + 1 \in 0..MaxVersion
        BY <1>0, <3>2 DEF HandEdit
      <4> QED
        BY <3>2, <4>1 DEF HandEdit, TypeOK, indexVars, queueVars, workerVars
    <3> QED BY <2>1, <3>1, <3>2
  <2>3. StageOK'
    BY <2>1 DEF RemoveFile, HandEdit, StageOK, workerVars, Body
  <2> QED BY <2>2, <2>3
<1>9. CASE PruneScan
  <2>1. TypeOK'
    BY <1>9 DEF PruneScan, TypeOK, fileVars, indexVars, queueVars, workerVars
  <2>2. StageOK'
    BY <1>9 DEF PruneScan, StageOK, fileVars, workerVars, Body
  <2> QED BY <2>1, <2>2
<1>10. CASE RetryFailed
  <2>1. \A m \in Memories :
          [queue[m] EXCEPT !.failed = FALSE, !.retries = 0] \in Row
    BY <1>0 DEF Row
  <2>4. queue' \in [Memories -> Row]
    <3>1. queue' = [m \in Memories |->
                      IF queue[m].failed
                      THEN [queue[m] EXCEPT !.failed = FALSE, !.retries = 0]
                      ELSE queue[m]]
      BY <1>10 DEF RetryFailed
    <3> QED BY <3>1, <2>1, <1>0
  <2>5. events' \in 0..MaxEvents
    <3>1. Event
      BY <1>10 DEF RetryFailed
    <3> QED BY <3>1 DEF Event, TypeOK
  <2>2. TypeOK'
    BY <1>10, <2>4, <2>5 DEF RetryFailed, TypeOK, fileVars, indexVars, workerVars
  <2>3. StageOK'
    BY <1>10 DEF RetryFailed, StageOK, fileVars, workerVars, Body
  <2> QED BY <2>2, <2>3
<1> QED
  BY <1>1, <1>2, <1>3, <1>4, <1>5, <1>6, <1>7, <1>8, <1>9, <1>10 DEF Next

\* Every reachable state is well typed, and workers and writers only hold
\* bodies of the kind their stage is for.
THEOREM TypeCorrect == Spec => [](TypeOK /\ StageOK)
<1>1. Init => TypeInv
  BY ConstantsAssumption
  DEF Init, TypeInv, TypeOK, StageOK, Row, NoRow, Job, NoJob, Stages, WriterState, Kinds, NoWrite
<1>2. TypeInv /\ [Next]_vars => TypeInv'
  <2>1. CASE UNCHANGED vars
    BY <2>1 DEF vars, fileVars, indexVars, queueVars, workerVars, TypeInv, TypeOK, StageOK, Body
  <2>2. CASE Next
    BY <2>2, WorkerTypes, EnvironmentTypes
  <2> QED BY <2>1, <2>2
<1> QED BY <1>1, <1>2, PTL DEF Spec, TypeInv

-----------------------------------------------------------------------------
(* The claim token protects a fresher request *)

\* Stamps only grow, so a token that still matches its row was claimed after the
\* row's last stamp, and what was read under it is no older than that stamp.
TokenInv ==
  /\ \A m \in Memories :
       /\ queue[m].token <= clock
       /\ asked[m] <= edits[m]
       /\ vault[m] # 0 => vault[m] = edits[m]
  /\ \A w \in Workers :
       /\ \A c \in todo[w] : c.token # 0 /\ c.token <= clock
       /\ pc[w] # "idle" => job[w].token # 0 /\ job[w].token <= clock
       /\ /\ pc[w] \in {"plan", "embed", "record", "dequeue"}
          /\ job[w].token = queue[job[w].mem].token
          => job[w].ver >= asked[job[w].mem]

FreshInv == TypeInv /\ TokenInv

\* A step that neither stamps nor invents tokens keeps TokenInv.
LEMMA FinishWithToken ==
  ASSUME FreshInv, NEW w \in Workers, NEW row \in Row, pc[w] # "idle",
         row.token \in {0, queue[job[w].mem].token},
         FinishWith(w, row)
  PROVE  TokenInv'
<1> USE DEF FreshInv, TypeInv
<1>1. /\ queue' = [queue EXCEPT ![job[w].mem] = row]
      /\ pc' = [pc EXCEPT ![w] = "idle"] /\ job' = [job EXCEPT ![w] = NoJob]
      /\ UNCHANGED <<todo, clock, asked, edits, vault>>
  BY DEF FinishWith, Finish, fileVars
<1>2. job[w].mem \in Memories
  BY DEF StageOK
<1>3. \A m \in Memories : queue'[m].token \in {0, queue[m].token} /\ queue[m].token \in Nat
  BY <1>1, <1>2 DEF TypeOK, Row
<1>4. \A x \in Workers : x # w => pc'[x] = pc[x] /\ job'[x] = job[x]
  BY <1>1 DEF TypeOK
<1>5. pc'[w] = "idle"
  BY <1>1 DEF TypeOK
<1>6. clock \in Nat
  BY DEF TypeOK
<1>7. \A m \in Memories : queue'[m].token <= clock
  BY <1>3, <1>6 DEF TokenInv
<1>8. ASSUME NEW x \in Workers
      PROVE  /\ pc'[x] # "idle" => job'[x].token # 0 /\ job'[x].token <= clock
             /\ /\ pc'[x] \in {"plan", "embed", "record", "dequeue"}
                /\ job'[x].token = queue'[job'[x].mem].token
                => job'[x].ver >= asked[job'[x].mem]
  <2>1. CASE x = w BY <2>1, <1>5
  <2>2. CASE x # w
    <3>1. pc[x] # "idle" => job[x].mem \in Memories
      BY DEF StageOK
    <3> QED BY <2>2, <3>1, <1>3, <1>4 DEF TokenInv
  <2> QED BY <2>1, <2>2
<1> QED BY <1>1, <1>7, <1>8 DEF TokenInv

\* So does one that at most empties rows and leaves files and workers' claims.
LEMMA QuietToken ==
  ASSUME FreshInv,
         UNCHANGED <<clock, asked, edits, vault, todo>>,
         \A m \in Memories : queue'[m].token \in {0, queue[m].token},
         \A w \in Workers :
           \/ pc'[w] = "idle"
           \/ /\ pc[w] # "idle"
              /\ job'[w].token = job[w].token
              /\ job'[w].mem = job[w].mem
              /\ job'[w].ver = job[w].ver
              /\ pc'[w] \in {"plan", "embed", "record", "dequeue"} =>
                   pc[w] \in {"plan", "embed", "record", "dequeue"}
  PROVE  TokenInv'
<1> USE DEF FreshInv, TypeInv
<1>1. clock \in Nat /\ \A m \in Memories : queue[m].token \in Nat
  BY DEF TypeOK, Row
<1>2. \A m \in Memories : queue'[m].token <= clock
  BY <1>1 DEF TokenInv
<1>3. ASSUME NEW x \in Workers
      PROVE  /\ pc'[x] # "idle" => job'[x].token # 0 /\ job'[x].token <= clock
             /\ /\ pc'[x] \in {"plan", "embed", "record", "dequeue"}
                /\ job'[x].token = queue'[job'[x].mem].token
                => job'[x].ver >= asked[job'[x].mem]
  <2>1. pc[x] # "idle" => job[x].mem \in Memories
    BY DEF StageOK
  <2> QED BY <2>1 DEF TokenInv
<1> QED BY <1>2, <1>3 DEF TokenInv

LEMMA WorkerToken ==
  ASSUME FreshInv, NEW w \in Workers, WorkerStep(w)
  PROVE  TokenInv'
<1> USE DEF FreshInv, TypeInv
<1>0. /\ \A m \in Memories : queue[m] \in Row /\ queue[m].token \in Nat
      /\ pc[w] # "idle" => job[w].mem \in Memories /\ queue[job[w].mem] \in Row
      /\ job[w].token \in Nat
  BY DEF TypeOK, StageOK, Row, Job
<1>1. ASSUME NEW row \in Row, NEW t \in Nat, NEW max \in Nat
      PROVE  /\ Unclaimed(row) \in Row /\ Unclaimed(row).token = row.token
             /\ Consumed(row, t) \in Row /\ Consumed(row, t).token \in {0, row.token}
             /\ Errored(row, max) \in Row /\ Errored(row, max).token = row.token
  <2>1. Unclaimed(row).token = row.token
    BY DEF Row, Unclaimed
  <2>2. Consumed(row, t).token \in {0, row.token}
    BY <2>1 DEF Consumed, NoRow
  <2>3. Errored(row, max).token = row.token
    <3>1. Unclaimed(row) \in Row BY RowTypes
    <3>2. \A u \in Row, r \in Nat, f \in BOOLEAN :
            [u EXCEPT !.retries = r, !.failed = f].token = u.token
      BY DEF Row
    <3>3. row.retries + 1 \in Nat /\ (row.retries + 1 >= max) \in BOOLEAN
      BY DEF Row
    <3> QED BY <2>1, <3>1, <3>2, <3>3 DEF Errored
  <2> QED BY <2>1, <2>2, <2>3, RowTypes
<1>2. CASE Claim(w)
  <2>1. PICK b \in Batches :
          /\ todo' = [todo EXCEPT ![w] = {[mem |-> m, token |-> queue[m].token] : m \in b}]
          /\ queue' = [m \in Memories |->
                 IF m \in b THEN [queue[m] EXCEPT !.claim = w, !.lapsed = FALSE]
                 ELSE queue[m]]
    BY <1>2 DEF Claim
  <2>2. \A m \in b : m \in Memories /\ queue[m].token # 0
    BY DEF Batches, Claimable, Queued
  <2>3. \A m \in Memories : queue'[m].token = queue[m].token
    BY <2>1, <1>0 DEF Row
  <2>4. \A x \in Workers : \A c \in todo'[x] : c.token # 0 /\ c.token <= clock
    <3>1. todo'[w] = {[mem |-> m, token |-> queue[m].token] : m \in b}
      BY <2>1 DEF TypeOK
    <3>2. \A x \in Workers : x # w => todo'[x] = todo[x]
      BY <2>1 DEF TypeOK
    <3>3. \A c \in todo'[w] : \E m \in b : c.token = queue[m].token
      BY <3>1
    <3>4. \A m \in b : queue[m].token # 0 /\ queue[m].token <= clock
      BY <2>2 DEF TokenInv
    <3> QED BY <3>2, <3>3, <3>4 DEF TokenInv
  <2>5. UNCHANGED <<pc, job, clock, asked, edits, vault>>
    BY <1>2 DEF Claim, fileVars
  <2>6. \A x \in Workers : pc[x] # "idle" => job[x].mem \in Memories
    BY DEF StageOK
  <2> QED BY <2>3, <2>4, <2>5, <2>6 DEF TokenInv
<1>3. CASE Read(w)
  <2>1. PICK c \in todo[w] :
          /\ todo' = [todo EXCEPT ![w] = @ \ {c}]
          /\ job' = [job EXCEPT ![w] = [mem |-> c.mem, token |-> c.token,
                                        ver |-> vault[c.mem], base |-> Nothing]]
          /\ pc' = [pc EXCEPT ![w] = AfterRead(c.mem)]
    BY <1>3 DEF Read
  <2>2. UNCHANGED <<queue, clock, asked, edits, vault>>
    BY <1>3 DEF Read, fileVars, queueVars
  <2>3. c.mem \in Memories
    BY DEF TypeOK, Claims
  <2>4. AfterRead(c.mem) \in {"plan", "embed", "record", "dequeue"} => vault[c.mem] # 0
    BY DEF AfterRead
  <2>5. vault[c.mem] # 0 => vault[c.mem] >= asked[c.mem]
    BY <2>3 DEF TypeOK, TokenInv
  <2>6. \A x \in Workers : todo'[x] \subseteq todo[x]
    BY <2>1 DEF TypeOK
  <2>7. ASSUME NEW x \in Workers
        PROVE  /\ pc'[x] # "idle" => job'[x].token # 0 /\ job'[x].token <= clock
               /\ /\ pc'[x] \in {"plan", "embed", "record", "dequeue"}
                  /\ job'[x].token = queue[job'[x].mem].token
                  => job'[x].ver >= asked[job'[x].mem]
    <3>1. CASE x = w
      <4>1. /\ job'[w].mem = c.mem /\ job'[w].token = c.token
            /\ job'[w].ver = vault[c.mem] /\ pc'[w] = AfterRead(c.mem)
        BY <2>1 DEF TypeOK
      <4> QED BY <3>1, <4>1, <2>4, <2>5 DEF TokenInv
    <3>2. CASE x # w
      <4>1. pc'[x] = pc[x] /\ job'[x] = job[x]
        BY <3>2, <2>1 DEF TypeOK
      <4> QED BY <4>1 DEF TokenInv
    <3> QED BY <3>1, <3>2
  <2> QED BY <2>2, <2>6, <2>7 DEF TokenInv
<1>4. CASE Recheck(w)
  <2>1. CASE Goto(w, "prune") /\ UNCHANGED <<queueVars, fileVars>>
    BY <1>4, <2>1, QuietToken DEF Recheck, Goto, queueVars, fileVars, TypeOK
  <2>2. CASE FinishWith(w, Consumed(queue[job[w].mem], job[w].token))
    BY <1>0, <1>1, <1>4, <2>2, FinishWithToken DEF Recheck
  <2>3. CASE FinishWith(w, Unclaimed(queue[job[w].mem]))
    BY <1>0, <1>1, <1>4, <2>3, FinishWithToken DEF Recheck
  <2> QED BY <1>4, <2>1, <2>2, <2>3 DEF Recheck
<1>5. CASE PruneMissing(w)
  <2>1. \A m \in Memories : queue'[m].token \in {0, queue[m].token}
    BY <1>0, <1>5 DEF PruneMissing, DeleteRows, TypeOK, NoRow
  <2> QED BY <1>5, <2>1, QuietToken DEF PruneMissing, DeleteRows, Finish, fileVars, TypeOK
<1>6. CASE MarkInvalid(w)
  BY <1>0, <1>1, <1>6, FinishWithToken DEF MarkInvalid
<1>7. CASE Plan(w)
  <2>1. /\ UNCHANGED <<queue, clock, asked, edits, vault, todo>>
        /\ \A x \in Workers :
             /\ pc'[x] # "idle" => pc[x] # "idle"
             /\ job'[x].token = job[x].token
             /\ job'[x].mem = job[x].mem
             /\ job'[x].ver = job[x].ver
             /\ pc'[x] \in {"plan", "embed", "record", "dequeue"} =>
                  pc[x] \in {"plan", "embed", "record", "dequeue"}
    BY <1>7 DEF Plan, TypeOK, Job, queueVars, fileVars
  <2> QED BY <2>1, QuietToken
<1>8. CASE Refused(w)
  BY <1>0, <1>1, <1>8, FinishWithToken, ConstantsAssumption DEF Refused
<1>9. CASE Outage(w)
  BY <1>0, <1>1, <1>9, FinishWithToken DEF Outage
<1>10. CASE Apply(w)
  BY <1>10, QuietToken DEF Apply, Goto, TypeOK, queueVars, fileVars
<1>11. CASE StalePlan(w)
  BY <1>0, <1>1, <1>11, FinishWithToken DEF StalePlan
<1>12. CASE Record(w)
  BY <1>12, QuietToken DEF Record, Goto, TypeOK, queueVars, fileVars
<1>13. CASE Dequeue(w)
  BY <1>0, <1>1, <1>13, FinishWithToken DEF Dequeue
<1> QED
  BY <1>2, <1>3, <1>4, <1>5, <1>6, <1>7, <1>8, <1>9, <1>10, <1>11, <1>12, <1>13
  DEF WorkerStep

LEMMA EnvironmentToken ==
  ASSUME FreshInv, Next, \A w \in Workers : ~WorkerStep(w)
  PROVE  TokenInv'
<1> USE DEF FreshInv, TypeInv
<1>0. /\ \A m \in Memories : queue[m] \in Row /\ queue[m].token \in Nat
      /\ \A w \in Workers : pc[w] # "idle" => job[w].mem \in Memories
      /\ \A w \in Workers : job[w].token \in Nat
      /\ clock \in Nat
      /\ \A m \in Memories : edits[m] \in Nat /\ asked[m] \in Nat
  BY DEF TypeOK, StageOK, Row, Job
<1>1. CASE \E w \in Workers : Crash(w)
  <2>1. PICK w \in Workers : Crash(w)
    BY <1>1
  <2>2. /\ UNCHANGED <<queue, clock, asked, edits, vault>>
        /\ \A x \in Workers : /\ todo'[x] \subseteq todo[x]
                              /\ pc'[x] # "idle" => pc'[x] = pc[x] /\ job'[x] = job[x]
    BY <2>1 DEF Crash, TypeOK, queueVars, fileVars
  <2> QED BY <2>2, <1>0 DEF TokenInv
<1>2. CASE \E p \in Writers : WriterStep(p)
  <2>1. PICK p \in Writers : WriterStep(p)
    BY <1>2
  <2>2. CASE Upsert(p) \/ RecordHash(p)
    BY <2>2, QuietToken DEF Upsert, RecordHash, queueVars, fileVars, workerVars
  <2>3. CASE Enqueue(p)
    <3> DEFINE m == writer[p].mem
    <3>1. m \in Memories
      BY <2>3 DEF Enqueue, StageOK
    <3>2. UNCHANGED <<workerVars, edits, vault>>
      BY <2>3 DEF Enqueue, fileVars
    <3>3. CASE UNCHANGED queueVars
      BY <3>2, <3>3, QuietToken DEF queueVars, workerVars
    <3>4. CASE Stamp(m)
      <4>1. /\ clock' = clock + 1
            /\ \A n \in Memories : n # m => /\ queue'[n] = queue[n]
                                           /\ asked'[n] = asked[n]
            /\ queue'[m] = Stamped(queue[m], clock + 1)
            /\ asked'[m] = edits[m]
        BY <3>1, <3>4 DEF Stamp, TypeOK
      <4>2. queue'[m].token = clock + 1
        BY <4>1, <1>0, <3>1 DEF Stamped, Row
      <4>3. \A n \in Memories : queue'[n].token <= clock' /\ asked'[n] <= edits[n]
        BY <4>1, <4>2, <1>0 DEF TokenInv
      <4>4. ASSUME NEW x \in Workers
            PROVE  /\ \A c \in todo[x] : c.token # 0 /\ c.token <= clock'
                   /\ pc[x] # "idle" => job[x].token # 0 /\ job[x].token <= clock'
                   /\ /\ pc[x] \in {"plan", "embed", "record", "dequeue"}
                      /\ job[x].token = queue'[job[x].mem].token
                      => job[x].ver >= asked'[job[x].mem]
        <5>1. \A c \in todo[x] : c.token # 0 /\ c.token <= clock'
          BY <4>1, <1>0 DEF TokenInv, TypeOK, Claims
        <5>2. CASE pc[x] # "idle" /\ job[x].mem = m
          BY <5>1, <5>2, <4>1, <4>2, <1>0 DEF TokenInv
        <5>3. CASE pc[x] # "idle" /\ job[x].mem # m
          BY <5>1, <5>3, <4>1, <1>0 DEF TokenInv
        <5>4. CASE pc[x] = "idle"
          BY <5>1, <5>4
        <5> QED BY <5>2, <5>3, <5>4
      <4> QED BY <3>2, <4>3, <4>4 DEF TokenInv, workerVars
    <3> QED BY <2>3, <3>3, <3>4 DEF Enqueue
  <2> QED BY <2>1, <2>2, <2>3 DEF WriterStep
<1>3. CASE \E p \in Writers : WriterCrash(p)
  BY <1>3, QuietToken DEF WriterCrash, queueVars, fileVars, workerVars
<1>4. CASE \E p \in Writers, m \in Memories : BeginReindex(p, m)
  BY <1>4, QuietToken DEF BeginReindex, queueVars, fileVars, workerVars
<1>5. CASE \E m \in Memories :
             /\ edits' = [edits EXCEPT ![m] = edits[m] + 1]
             /\ vault' = [vault EXCEPT ![m] = edits[m] + 1]
             /\ UNCHANGED <<queueVars, workerVars>>
  BY <1>5, <1>0 DEF TokenInv, queueVars, workerVars, TypeOK
<1>6. CASE \E m \in Memories : LeaseLapses(m)
  <2>1. PICK m \in Memories : LeaseLapses(m)
    BY <1>6
  <2>2. \A n \in Memories : queue'[n].token = queue[n].token
    BY <2>1, <1>0 DEF LeaseLapses, TypeOK, Row
  <2> QED BY <2>1, <2>2, QuietToken DEF LeaseLapses, fileVars, workerVars
<1>7. CASE \E m \in Memories : PruneRow(m)
  <2>1. PICK m \in Memories : PruneRow(m)
    BY <1>7
  <2>2. \A n \in Memories : queue'[n].token \in {0, queue[n].token}
    BY <2>1 DEF PruneRow, DeleteRows, TypeOK, NoRow
  <2> QED BY <2>1, <2>2, QuietToken DEF PruneRow, DeleteRows, fileVars, workerVars
<1>8. CASE \E m \in Memories : RemoveFile(m)
  BY <1>8, <1>0 DEF RemoveFile, TokenInv, queueVars, workerVars, TypeOK
<1>9. CASE PruneScan
  BY <1>9, QuietToken DEF PruneScan, queueVars, fileVars, workerVars
<1>10. CASE RetryFailed
  <2>1. \A m \in Memories : queue'[m].token = queue[m].token
    <3>1. queue' = [m \in Memories |->
                      IF queue[m].failed
                      THEN [queue[m] EXCEPT !.failed = FALSE, !.retries = 0]
                      ELSE queue[m]]
      BY <1>10 DEF RetryFailed
    <3> QED BY <3>1, <1>0 DEF Row
  <2> QED BY <1>10, <2>1, QuietToken DEF RetryFailed, fileVars, workerVars
<1> QED
  BY <1>1, <1>2, <1>3, <1>4, <1>5, <1>6, <1>7, <1>8, <1>9, <1>10
  DEF Next, BeginWrite, HandEdit

\* A worker's step that empties the row of a memory still indexed is a Dequeue
\* with the row's own token.
LEMMA ConsumptionIsFresh ==
  ASSUME FreshInv, Next, NEW m \in Memories,
         Queued(m), queue'[m].token = 0, indexed'[m]
  PROVE  \E w \in Workers : job[w].mem = m /\ job[w].ver >= asked[m]
<1> USE DEF FreshInv, TypeInv
<1>0. /\ \A n \in Memories : queue[n] \in Row /\ queue[n].token \in Nat
      /\ clock \in Nat
  BY DEF TypeOK, Row
<1>1. queue'[m].token # queue[m].token
  BY DEF Queued
<1>2. CASE \E w \in Workers : Dequeue(w)
  <2>1. PICK w \in Workers : Dequeue(w)
    BY <1>2
  <2>2. job[w].mem = m /\ queue'[m] = Consumed(queue[m], job[w].token)
    BY <2>1, <1>1 DEF Dequeue, FinishWith, TypeOK
  <2>3. job[w].token = queue[m].token
    BY <2>2, <1>0, <1>1 DEF Consumed, Unclaimed, Row
  <2> QED BY <2>1, <2>2, <2>3 DEF Dequeue, TokenInv
<1>3. ASSUME NEW n \in Memories, DeleteRows(n)
      PROVE  FALSE
  BY <1>3, <1>1 DEF DeleteRows, TypeOK
<1>4. ASSUME NEW w \in Workers, Recheck(w)
      PROVE  FALSE
  <2>1. CASE UNCHANGED queue
    BY <2>1, <1>1
  <2>2. CASE FinishWith(w, Unclaimed(queue[job[w].mem]))
    BY <2>2, <1>0, <1>1 DEF FinishWith, Unclaimed, TypeOK, Row
  <2>3. CASE ~indexed[job[w].mem] /\ FinishWith(w, Consumed(queue[job[w].mem], job[w].token))
    BY <2>3, <1>1 DEF FinishWith, TypeOK, indexVars
  <2> QED BY <1>4, <2>1, <2>2, <2>3 DEF Recheck, queueVars
<1>5. ASSUME NEW w \in Workers, NEW max \in Nat, FinishWith(w, Errored(queue[job[w].mem], max))
      PROVE  FALSE
  <2>1. queue'[m] \in {queue[m], Errored(queue[m], max)}
    BY <1>5 DEF FinishWith, TypeOK
  <2>2. Unclaimed(queue[m]) \in Row /\ Unclaimed(queue[m]).token = queue[m].token
    BY <1>0 DEF Unclaimed, Row
  <2>3. \A u \in Row, r \in Nat, f \in BOOLEAN :
          [u EXCEPT !.retries = r, !.failed = f].token = u.token
    BY DEF Row
  <2>4. queue[m].retries + 1 \in Nat /\ (queue[m].retries + 1 >= max) \in BOOLEAN
    BY <1>0 DEF Row
  <2>5. Errored(queue[m], max).token = queue[m].token
    BY <2>2, <2>3, <2>4 DEF Errored
  <2> QED BY <2>1, <2>5, <1>1
<1>6. ASSUME NEW w \in Workers, FinishWith(w, Unclaimed(queue[job[w].mem]))
      PROVE  FALSE
  BY <1>6, <1>0, <1>1 DEF FinishWith, Unclaimed, TypeOK, Row
<1>7. ASSUME NEW w \in Workers, Claim(w)
      PROVE  FALSE
  <2>1. queue'[m].token = queue[m].token
    BY <1>7, <1>0 DEF Claim, Row
  <2> QED BY <2>1, <1>1
<1>8. ASSUME NEW p \in Writers, Enqueue(p)
      PROVE  FALSE
  <2>1. queue'[m] \in {queue[m], Stamped(queue[m], clock + 1)}
    BY <1>8 DEF Enqueue, Stamp, queueVars, TypeOK
  <2>2. Stamped(queue[m], clock + 1).token = clock + 1
    BY <1>0 DEF Stamped, Row
  <2> QED BY <2>1, <2>2, <1>0, <1>1
<1>9. ASSUME NEW n \in Memories, LeaseLapses(n)
      PROVE  FALSE
  BY <1>9, <1>0, <1>1 DEF LeaseLapses, TypeOK, Row
<1>10. ASSUME RetryFailed
       PROVE  FALSE
  <2>1. queue'[m].token = queue[m].token
    <3>1. queue' = [n \in Memories |->
                      IF queue[n].failed
                      THEN [queue[n] EXCEPT !.failed = FALSE, !.retries = 0]
                      ELSE queue[n]]
      BY <1>10 DEF RetryFailed
    <3> QED BY <3>1, <1>0 DEF Row
  <2> QED BY <2>1, <1>1
<1>11. ~UNCHANGED queue
  BY <1>1
<1>12. ASSUME NEW w \in Workers, WorkerStep(w)
       PROVE  Dequeue(w)
  <2>1. PruneMissing(w) => FALSE
    BY <1>3 DEF PruneMissing, StageOK
  <2>2. MarkInvalid(w) \/ Refused(w) => FALSE
    BY <1>5, ConstantsAssumption DEF MarkInvalid, Refused
  <2>3. Outage(w) \/ StalePlan(w) => FALSE
    BY <1>6 DEF Outage, StalePlan
  <2>4. Read(w) \/ Plan(w) \/ Apply(w) \/ Record(w) => FALSE
    BY <1>11 DEF Read, Plan, Apply, Record, queueVars
  <2> QED BY <1>4, <1>7, <1>12, <2>1, <2>2, <2>3, <2>4 DEF WorkerStep
<1>13. CASE \E w \in Workers : WorkerStep(w)
  BY <1>2, <1>12, <1>13
<1>14. CASE \A w \in Workers : ~WorkerStep(w)
  <2>1. \A n \in Memories : ~PruneRow(n)
    BY <1>3 DEF PruneRow
  <2>2. \A p \in Writers : ~WriterStep(p)
    BY <1>8, <1>11 DEF WriterStep, Upsert, RecordHash, queueVars
  <2> QED
    BY <1>9, <1>10, <1>11, <1>14, <2>1, <2>2
    DEF Next, Crash, WriterCrash, BeginReindex, BeginWrite, RemoveFile, HandEdit,
        PruneScan, queueVars
<1> QED BY <1>13, <1>14

LEMMA AlwaysFresh == Spec => []FreshInv
<1>1. Init => FreshInv
  BY ConstantsAssumption
  DEF Init, FreshInv, TypeInv, TypeOK, StageOK, TokenInv, Row, NoRow, Job, NoJob,
      Stages, WriterState, Kinds, NoWrite
<1>2. FreshInv /\ [Next]_vars => FreshInv'
  <2>1. CASE UNCHANGED vars
    BY <2>1 DEF vars, fileVars, indexVars, queueVars, workerVars, FreshInv, TypeInv,
                TypeOK, StageOK, TokenInv, Body
  <2>2. CASE Next
    BY <2>2, WorkerTypes, EnvironmentTypes, WorkerToken, EnvironmentToken DEF FreshInv
  <2> QED BY <2>1, <2>2
<1> QED BY <1>1, <1>2, PTL DEF Spec

\* Whatever crashes, overruns and deletions do: no worker consumes a request
\* for a text newer than the one it read.
THEOREM RequestsAreNotErased == Spec => ConsumedIsFresh
<1>1. FreshInv /\ [Next]_vars =>
        [\A m \in Memories :
           Queued(m) /\ queue'[m].token = 0 /\ indexed'[m] =>
             \E w \in Workers : job[w].mem = m /\ job[w].ver >= asked[m]]_vars
  BY ConsumptionIsFresh
<1> QED BY <1>1, AlwaysFresh, PTL DEF Spec, ConsumedIsFresh

-----------------------------------------------------------------------------
(* One worker per record, when leases are long enough and no file leaves *)

Mine(w, m) == Queued(m) /\ queue[m].claim = w /\ ~queue[m].lapsed

\* A claim in a worker's hands is its row's claim, with a running lease, and no
\* worker has the same memory in hand twice.
ClaimsKept ==
  \A w \in Workers :
    /\ \A c \in todo[w] : Mine(w, c.mem)
    /\ pc[w] # "idle" => Mine(w, job[w].mem)
    /\ \A c, d \in todo[w] : c.mem = d.mem => c = d
    /\ pc[w] # "idle" => \A c \in todo[w] : c.mem # job[w].mem

\* Without removals an indexed memory has its file, so no prune ever begins.
FilesStay ==
  /\ doomed = {}
  /\ \A m \in Memories : indexed[m] => vault[m] # 0
  /\ \A w \in Workers : pc[w] # "prune"
  /\ \A p \in Writers : writer[p].pc # "idle" => vault[writer[p].mem] # 0

LeaseInv == TypeInv /\ ClaimsKept /\ FilesStay

\* Claims survive a step in which every memory either keeps its claim or is in
\* nobody's hands afterwards.
LEMMA KeepClaims ==
  ASSUME ClaimsKept,
         \A x \in Workers : /\ todo'[x] \subseteq todo[x]
                            /\ pc'[x] # "idle" => /\ pc[x] # "idle"
                                                  /\ job'[x].mem = job[x].mem,
         \A m : \/ \A x \in Workers : Mine(x, m) => Mine(x, m)'
                \/ \A x \in Workers : /\ \A c \in todo'[x] : c.mem # m
                                      /\ pc'[x] # "idle" => job'[x].mem # m
  PROVE  ClaimsKept'
<1> SUFFICES ASSUME NEW x \in Workers
             PROVE  /\ \A c \in todo'[x] : Mine(x, c.mem)'
                    /\ pc'[x] # "idle" => Mine(x, job[x].mem)'
                    /\ \A c, d \in todo'[x] : c.mem = d.mem => c = d
                    /\ pc'[x] # "idle" => \A c \in todo'[x] : c.mem # job'[x].mem
  BY DEF ClaimsKept
<1>1. \A c \in todo'[x] : Mine(x, c.mem) /\ Mine(x, c.mem)'
  BY DEF ClaimsKept
<1>2. pc'[x] # "idle" => Mine(x, job'[x].mem) /\ Mine(x, job[x].mem)'
  BY DEF ClaimsKept
<1> QED BY <1>1, <1>2 DEF ClaimsKept

\* A worker that ends its claim leaves the memory in nobody's hands.
LEMMA FinishWithKeeps ==
  ASSUME TypeInv, ClaimsKept, NEW w \in Workers, pc[w] # "idle", NEW row,
         Finish(w), queue' = [queue EXCEPT ![job[w].mem] = row]
  PROVE  ClaimsKept'
<1> DEFINE m == job[w].mem
<1>1. m \in Memories
  BY DEF TypeInv, StageOK
<1>2. \A x \in Workers : /\ todo'[x] \subseteq todo[x]
                         /\ pc'[x] # "idle" => x # w /\ pc'[x] = pc[x] /\ job'[x] = job[x]
  BY DEF Finish, TypeInv, TypeOK
<1>3. \A x \in Workers : /\ \A c \in todo'[x] : c.mem # m
                         /\ pc'[x] # "idle" => job'[x].mem # m
  BY <1>2 DEF ClaimsKept, Mine
<1>4. \A n : n # m => \A x \in Workers : Mine(x, n) => Mine(x, n)'
  BY DEF Mine, Queued, TypeInv, TypeOK
<1> QED BY <1>2, <1>3, <1>4, KeepClaims

LEMMA WorkerKeeps ==
  ASSUME LeaseInv, NEW w \in Workers, WorkerStep(w)
  PROVE  ClaimsKept'
<1> USE DEF LeaseInv
<1>0. \A m \in Memories : queue[m] \in Row
  BY DEF TypeInv, TypeOK
<1>1. CASE Claim(w)
  <2>1. PICK b \in Batches :
          /\ todo' = [todo EXCEPT ![w] = {[mem |-> m, token |-> queue[m].token] : m \in b}]
          /\ queue' = [m \in Memories |->
                 IF m \in b THEN [queue[m] EXCEPT !.claim = w, !.lapsed = FALSE]
                 ELSE queue[m]]
    BY <1>1 DEF Claim
  <2>2. pc[w] = "idle" /\ todo[w] = {} /\ UNCHANGED <<pc, job>>
    BY <1>1 DEF Claim
  <2>3. \A m \in b : m \in Memories /\ Queued(m) /\
                     (queue[m].claim = NoWorker \/ queue[m].lapsed)
    BY DEF Batches, Claimable
  <2>4. todo'[w] = {[mem |-> m, token |-> queue[m].token] : m \in b}
    BY <2>1 DEF TypeInv, TypeOK
  <2>5. \A x \in Workers : x # w => todo'[x] = todo[x]
    BY <2>1 DEF TypeInv, TypeOK
  <2>6. \A m \in b : Mine(w, m)'
    BY <2>1, <2>3, <1>0 DEF Mine, Queued, Row
  <2>7. \A m \in Memories \ b : queue'[m] = queue[m]
    BY <2>1
  <2>8. \A c \in todo'[w] : c.mem \in b /\ c = [mem |-> c.mem, token |-> queue[c.mem].token]
    BY <2>4
  <2>9. ASSUME NEW x \in Workers, x # w, NEW m \in Memories, Mine(x, m)
        PROVE  Mine(x, m)'
    <3>1. m \notin b
      BY <2>3, <2>9, ConstantsAssumption DEF Mine
    <3> QED BY <2>7, <2>9, <3>1 DEF Mine, Queued
  <2>10. \A x \in Workers : /\ \A c \in todo[x] : c.mem \in Memories
                            /\ pc[x] # "idle" => job[x].mem \in Memories
    BY DEF TypeInv, TypeOK, StageOK, Claims
  <2>11. ASSUME NEW x \in Workers
         PROVE  /\ \A c \in todo'[x] : Mine(x, c.mem)'
                /\ pc'[x] # "idle" => Mine(x, job[x].mem)'
                /\ \A c, d \in todo'[x] : c.mem = d.mem => c = d
                /\ pc'[x] # "idle" => \A c \in todo'[x] : c.mem # job[x].mem
    <3>1. CASE x = w
      BY <3>1, <2>2, <2>6, <2>8
    <3>2. CASE x # w
      BY <3>2, <2>2, <2>5, <2>9, <2>10 DEF ClaimsKept
    <3> QED BY <3>1, <3>2
  <2> QED BY <2>2, <2>11 DEF ClaimsKept
<1>2. CASE Read(w)
  <2>1. PICK c \in todo[w] :
          /\ todo' = [todo EXCEPT ![w] = @ \ {c}]
          /\ job' = [job EXCEPT ![w] = [mem |-> c.mem, token |-> c.token,
                                        ver |-> vault[c.mem], base |-> Nothing]]
          /\ pc' = [pc EXCEPT ![w] = AfterRead(c.mem)]
    BY <1>2 DEF Read
  <2>2. todo'[w] = todo[w] \ {c} /\ job'[w].mem = c.mem
    BY <2>1 DEF TypeInv, TypeOK
  <2>3. \A x \in Workers : x # w => todo'[x] = todo[x] /\ pc'[x] = pc[x] /\ job'[x] = job[x]
    BY <2>1 DEF TypeInv, TypeOK
  <2>4. ASSUME NEW x \in Workers
        PROVE  /\ \A d \in todo'[x] : Mine(x, d.mem)
               /\ pc'[x] # "idle" => Mine(x, job'[x].mem)
               /\ \A d, e \in todo'[x] : d.mem = e.mem => d = e
               /\ pc'[x] # "idle" => \A d \in todo'[x] : d.mem # job'[x].mem
    <3>1. CASE x = w
      BY <3>1, <2>2 DEF ClaimsKept
    <3>2. CASE x # w
      BY <3>2, <2>3 DEF ClaimsKept
    <3> QED BY <3>1, <3>2
  <2>5. \A x \in Workers : /\ \A d \in todo'[x] : Mine(x, d.mem)'
                           /\ pc'[x] # "idle" => Mine(x, job[x].mem)'
    <3>1. UNCHANGED queue
      BY <1>2 DEF Read, queueVars
    <3> QED BY <2>4, <3>1 DEF Mine, Queued
  <2> QED BY <2>4, <2>5 DEF ClaimsKept
<1>3. CASE \E row : FinishWith(w, row) /\ pc[w] # "idle"
  BY <1>3, FinishWithKeeps DEF FinishWith
<1>4. CASE /\ UNCHANGED <<queue, todo>> /\ pc[w] # "idle"
           /\ \E stage : pc' = [pc EXCEPT ![w] = stage]
           /\ \A x \in Workers : job'[x].mem = job[x].mem
  <2>1. \A x, m : Mine(x, m) => Mine(x, m)'
    BY <1>4 DEF Mine, Queued
  <2>2. \A x \in Workers : pc'[x] # "idle" => pc[x] # "idle"
    BY <1>4 DEF TypeInv, TypeOK
  <2> QED BY <1>4, <2>1, <2>2, KeepClaims
<1>5. ~PruneMissing(w)
  BY DEF PruneMissing, FilesStay
<1>6. Recheck(w) => \E row : FinishWith(w, row) /\ pc[w] # "idle"
  BY DEF Recheck, FilesStay, TypeInv, StageOK
<1>7. MarkInvalid(w) \/ Refused(w) \/ Outage(w) \/ StalePlan(w) \/ Dequeue(w)
        => \E row : FinishWith(w, row) /\ pc[w] # "idle"
  BY DEF MarkInvalid, Refused, Outage, StalePlan, Dequeue
<1>8. CASE Plan(w)
  <2>1. \A x \in Workers : job'[x].mem = job[x].mem
    BY <1>8 DEF Plan, TypeInv, TypeOK, Job
  <2> QED BY <1>4, <1>8, <2>1 DEF Plan, queueVars
<1>9. CASE Apply(w) \/ Record(w)
  BY <1>4, <1>9 DEF Apply, Record, Goto, queueVars
<1> QED BY <1>1, <1>2, <1>3, <1>5, <1>6, <1>7, <1>8, <1>9 DEF WorkerStep

LEMMA EnvironmentKeeps ==
  ASSUME LeaseInv, "slow" \notin Faults, Next, \A w \in Workers : ~WorkerStep(w)
  PROVE  ClaimsKept'
<1> USE DEF LeaseInv
<1>0. \A m \in Memories : queue[m] \in Row
  BY DEF TypeInv, TypeOK
<1>1. CASE \E w \in Workers : Crash(w)
  <2>1. PICK w \in Workers : Crash(w)
    BY <1>1
  <2>2. \A x \in Workers : /\ todo'[x] \subseteq todo[x]
                           /\ pc'[x] # "idle" => pc'[x] = pc[x] /\ job'[x] = job[x]
    BY <2>1 DEF Crash, TypeInv, TypeOK
  <2>3. \A x, m : Mine(x, m) => Mine(x, m)'
    BY <2>1 DEF Crash, queueVars, Mine, Queued
  <2> QED BY <2>2, <2>3, KeepClaims
<1>2. CASE UNCHANGED workerVars /\ \A x, m : Mine(x, m) => Mine(x, m)'
  BY <1>2, KeepClaims DEF workerVars
<1>3. UNCHANGED queueVars => \A x, m : Mine(x, m) => Mine(x, m)'
  BY DEF queueVars, Mine, Queued
<1>4. CASE \E p \in Writers : Enqueue(p)
  <2>1. PICK p \in Writers : Enqueue(p)
    BY <1>4
  <2> DEFINE m == writer[p].mem
  <2>2. m \in Memories /\ clock + 1 # 0
    BY <2>1 DEF Enqueue, TypeInv, TypeOK, StageOK
  <2>3. CASE Stamp(m)
    <3>1. queue'[m] = Stamped(queue[m], clock + 1) /\ \A n : n # m => queue'[n] = queue[n]
      BY <2>2, <2>3 DEF Stamp, TypeInv, TypeOK
    <3>2. /\ queue'[m].claim = queue[m].claim /\ queue'[m].lapsed = queue[m].lapsed
          /\ queue'[m].token = clock + 1
      BY <3>1, <2>2, <1>0 DEF Stamped, Row
    <3> QED BY <3>1, <3>2, <2>1, <2>2, <1>2 DEF Enqueue, Mine, Queued
  <2> QED BY <2>1, <2>3, <1>2, <1>3 DEF Enqueue
<1>5. CASE \E m \in Memories : LeaseLapses(m)
  <2>1. PICK m \in Memories : LeaseLapses(m)
    BY <1>5
  <2>2. UNCHANGED workerVars /\ m \notin Holding(queue[m].claim) /\ queue[m].claim # NoWorker
    BY <2>1 DEF LeaseLapses
  <2>3. \A x \in Workers : /\ \A c \in todo[x] : c.mem # m
                           /\ pc[x] # "idle" => job[x].mem # m
    BY <2>2 DEF ClaimsKept, Mine, Holding
  <2>4. \A n : n # m => \A x \in Workers : Mine(x, n) => Mine(x, n)'
    BY <2>1 DEF LeaseLapses, Mine, Queued, TypeInv, TypeOK
  <2> QED BY <2>2, <2>3, <2>4, KeepClaims DEF workerVars
<1>6. \A m \in Memories : ~PruneRow(m)
  BY DEF PruneRow, FilesStay
<1>7. CASE RetryFailed
  <2>1. queue' = [m \in Memories |->
                    IF queue[m].failed THEN [queue[m] EXCEPT !.failed = FALSE, !.retries = 0]
                    ELSE queue[m]]
    BY <1>7 DEF RetryFailed
  <2>2. \A m \in Memories : /\ queue'[m].token = queue[m].token
                            /\ queue'[m].claim = queue[m].claim
                            /\ queue'[m].lapsed = queue[m].lapsed
    BY <2>1, <1>0 DEF Row
  <2>3. \A x \in Workers : /\ \A c \in todo[x] : c.mem \in Memories
                           /\ pc[x] # "idle" => job[x].mem \in Memories
    BY DEF TypeInv, TypeOK, StageOK, Claims
  <2>4. UNCHANGED <<pc, job, todo>>
    BY <1>7 DEF RetryFailed, workerVars
  <2>5. \A x \in Workers, m \in Memories : Mine(x, m) => Mine(x, m)'
    BY <2>2 DEF Mine, Queued
  <2> QED BY <2>3, <2>4, <2>5 DEF ClaimsKept
<1> QED
  BY <1>1, <1>2, <1>3, <1>4, <1>5, <1>6, <1>7
  DEF Next, WriterStep, Upsert, RecordHash, WriterCrash, BeginReindex, BeginWrite,
      RemoveFile, HandEdit, PruneScan

LEMMA FilesAreKept ==
  ASSUME LeaseInv, "delete" \notin Faults, Next
  PROVE  FilesStay'
<1> USE DEF LeaseInv, FilesStay
<1>0. /\ \A m \in Memories : edits[m] \in Nat /\ edits[m] + 1 # 0
      /\ \A p \in Writers : writer[p].pc # "idle" => writer[p].mem \in Memories
      /\ DOMAIN vault = Memories
  BY DEF TypeInv, TypeOK, StageOK
<1>1. CASE \E w \in Workers : WorkerStep(w) \/ Crash(w)
  <2>1. PICK w \in Workers : WorkerStep(w) \/ Crash(w)
    BY <1>1
  <2>2. ~PruneMissing(w)
    BY DEF PruneMissing
  <2>3. UNCHANGED <<vault, writer, doomed, indexed>>
    BY <2>1, <2>2
    DEF WorkerStep, Crash, Claim, Read, Recheck, MarkInvalid, Plan, Refused, Outage, Apply,
        StalePlan, Record, Dequeue, FinishWith, fileVars, indexVars
  <2>4. \A x \in Workers : pc'[x] # "prune"
    <3>1. Read(w) => pc'[w] # "prune" /\ \A x \in Workers : x # w => pc'[x] = pc[x]
      BY DEF Read, AfterRead, TypeInv, TypeOK
    <3>2. Recheck(w) => Finish(w)
      BY DEF Recheck, FinishWith, TypeInv, StageOK
    <3>3. \A stage : stage # "prune" /\ pc' = [pc EXCEPT ![w] = stage]
                       => \A x \in Workers : pc'[x] # "prune"
      BY DEF TypeInv, TypeOK
    <3>4. Finish(w) => \A x \in Workers : pc'[x] # "prune"
      BY <3>3 DEF Finish
    <3> QED BY <2>1, <2>2, <3>1, <3>2, <3>3, <3>4
      DEF WorkerStep, Crash, Claim, MarkInvalid, Plan, Refused, Outage, Apply,
          StalePlan, Record, Dequeue, FinishWith, Goto
  <2> QED BY <2>3, <2>4
<1>2. CASE \E p \in Writers : WriterStep(p) \/ WriterCrash(p)
  <2>1. PICK p \in Writers : WriterStep(p) \/ WriterCrash(p)
    BY <1>2
  <2>2. UNCHANGED <<vault, pc, doomed>>
    BY <2>1 DEF WriterStep, Upsert, RecordHash, Enqueue, WriterCrash, fileVars, workerVars
  <2>3. \A m \in Memories : indexed'[m] => indexed[m] \/ (m = writer[p].mem /\ writer[p].pc # "idle")
    BY <2>1 DEF WriterStep, Upsert, RecordHash, Enqueue, WriterCrash, indexVars, TypeInv, TypeOK
  <2>4. \A q \in Writers : writer'[q].pc # "idle" =>
                             writer[q].pc # "idle" /\ writer'[q].mem = writer[q].mem
    BY <2>1 DEF WriterStep, Upsert, RecordHash, Enqueue, WriterCrash, NoWrite, TypeInv, TypeOK,
                WriterState
  <2> QED BY <2>2, <2>3, <2>4
<1>3. CASE \E p \in Writers, m \in Memories : BeginReindex(p, m)
  BY <1>3 DEF BeginReindex, fileVars, indexVars, workerVars, TypeInv, TypeOK
<1>4. CASE \E p \in Writers, m \in Memories, k \in Kinds : BeginWrite(p, k, m)
  <2>1. PICK p \in Writers, m \in Memories, k \in Kinds : BeginWrite(p, k, m)
    BY <1>4
  <2>2. vault' = [vault EXCEPT ![m] = edits[m] + 1] /\ UNCHANGED <<indexed, pc, doomed>>
    BY <2>1 DEF BeginWrite, indexVars, workerVars
  <2>3. \A n \in Memories : vault[n] # 0 => vault'[n] # 0
    BY <2>2, <1>0
  <2>4. vault'[m] # 0
    BY <2>2, <1>0
  <2>5. \A q \in Writers : q # p => writer'[q] = writer[q]
    BY <2>1 DEF BeginWrite, TypeInv, TypeOK
  <2>6. writer'[p].mem = m
    BY <2>1 DEF BeginWrite, TypeInv, TypeOK
  <2> QED BY <2>2, <2>3, <2>4, <2>5, <2>6, <1>0
<1>5. CASE \E m \in Memories : HandEdit(m)
  <2>1. PICK m \in Memories : HandEdit(m)
    BY <1>5
  <2>2. \A n \in Memories : vault[n] # 0 => vault'[n] # 0
    BY <2>1, <1>0 DEF HandEdit
  <2> QED BY <2>1, <2>2, <1>0 DEF HandEdit, indexVars, workerVars
<1>6. CASE \E m \in Memories : LeaseLapses(m)
  BY <1>6 DEF LeaseLapses, fileVars, indexVars, workerVars
<1>7. CASE RetryFailed
  BY <1>7 DEF RetryFailed, fileVars, indexVars, workerVars
<1>8. ~PruneScan /\ \A m \in Memories : ~PruneRow(m) /\ ~RemoveFile(m)
  BY DEF PruneScan, PruneRow, RemoveFile
<1> QED
  BY <1>1, <1>2, <1>3, <1>4, <1>5, <1>6, <1>7, <1>8 DEF Next

LEMMA AlwaysLeased ==
  ASSUME Faults \cap {"slow", "delete"} = {}
  PROVE  Spec => []LeaseInv
<1>1. Init => LeaseInv
  <2>1. Init => TypeInv
    BY ConstantsAssumption
    DEF Init, TypeInv, TypeOK, StageOK, Row, NoRow, Job, NoJob, Stages, WriterState, Kinds,
        NoWrite
  <2>2. Init => ClaimsKept /\ FilesStay
    BY DEF Init, ClaimsKept, FilesStay, NoWrite
  <2> QED BY <2>1, <2>2 DEF LeaseInv
<1>2. LeaseInv /\ [Next]_vars => LeaseInv'
  <2>1. CASE UNCHANGED vars
    BY <2>1 DEF vars, fileVars, indexVars, queueVars, workerVars, LeaseInv, TypeInv,
                TypeOK, StageOK, ClaimsKept, FilesStay, Mine, Queued, Body
  <2>2. CASE Next
    BY <2>2, WorkerTypes, EnvironmentTypes, WorkerKeeps, EnvironmentKeeps, FilesAreKept
    DEF LeaseInv
  <2> QED BY <2>1, <2>2
<1> QED BY <1>1, <1>2, PTL DEF Spec

\* Leases that outlast the work and a vault that loses no file are enough for
\* the promise of the workers' module: no record is embedded twice in flight.
THEOREM ServedOnce ==
  ASSUME Faults \cap {"slow", "delete"} = {}
  PROVE  Spec => []OneWorkerPerRecord
<1>1. LeaseInv => OneWorkerPerRecord
  BY DEF LeaseInv, ClaimsKept, Mine, OneWorkerPerRecord, Holding
<1> QED BY <1>1, AlwaysLeased, PTL

-----------------------------------------------------------------------------
(* What embed_state says about the vectors *)

\* A stored state that is not that of the vectors has a request open, which its
\* holder closes only when both are those of the body it read.
VectorInv ==
  /\ \A m \in Memories :
       /\ Queued(m) => indexed[m]
       /\ state[m] \in Texts /\ vec[m] # state[m] => Queued(m)
  /\ \A w \in Workers :
       /\ pc[w] = "record" /\ Body(w) \in Texts => vec[job[w].mem] = Body(w)
       /\ pc[w] = "dequeue" => /\ state[job[w].mem] = Body(w)
                               /\ Body(w) \in Texts => vec[job[w].mem] = Body(w)

Serving == {"plan", "embed", "record", "dequeue"}

\* The claim in a worker's hands is the row of an indexed memory, and no other
\* worker's.
LEMMA JobIsQueued ==
  ASSUME LeaseInv, VectorInv, NEW w \in Workers, pc[w] # "idle"
  PROVE  /\ job[w].mem \in Memories
         /\ Queued(job[w].mem)
         /\ indexed[job[w].mem]
         /\ \A x \in Workers : x # w /\ pc[x] # "idle" => job[x].mem # job[w].mem
BY DEF LeaseInv, TypeInv, StageOK, ClaimsKept, Mine, VectorInv

\* The rows a worker leaves behind keep their stamp, but for a consumed one.
LEMMA RowStamps ==
  ASSUME NEW row \in Row, NEW max \in Nat, NEW t \in Nat
  PROVE  /\ Unclaimed(row).token = row.token
         /\ Errored(row, max).token = row.token
         /\ Stamped(row, t).token = t
<1>1. Unclaimed(row) \in Row /\ Unclaimed(row).token = row.token
  BY DEF Row, Unclaimed
<1>2. \A u \in Row, r \in Nat, f \in BOOLEAN :
        [u EXCEPT !.retries = r, !.failed = f].token = u.token
  BY DEF Row
<1>3. row.retries + 1 \in Nat /\ (row.retries + 1 >= max) \in BOOLEAN
  BY DEF Row
<1>4. Errored(row, max).token = row.token
  BY <1>1, <1>2, <1>3 DEF Errored
<1>5. Stamped(row, t).token = t
  BY DEF Row, Stamped
<1> QED BY <1>1, <1>4, <1>5

\* What a worker's step leaves alone, but when it writes vectors, records their
\* state or consumes its row.
LEMMA WorkerMoves ==
  ASSUME LeaseInv, VectorInv, NEW w \in Workers, WorkerStep(w)
  PROVE  \/ Apply(w) \/ Record(w) \/ Dequeue(w)
         \/ /\ UNCHANGED <<fileVars, indexVars, asked, clock, writer>>
            /\ \A m \in Memories : queue'[m].token = queue[m].token
            /\ \A x \in Workers :
                 \/ pc'[x] \notin Serving
                 \/ /\ pc[x] \in Serving
                    /\ pc'[x] \in {pc[x], "embed"}
                    /\ job'[x].mem = job[x].mem /\ job'[x].ver = job[x].ver
                    /\ job'[x].token = job[x].token
                 \/ /\ pc'[x] \in {"plan", "record"}
                    /\ job'[x].mem \in Memories
                    /\ job'[x].ver = vault[job'[x].mem]
                    /\ vault[job'[x].mem] # 0
                    /\ pc'[x] = "record" => text[vault[job'[x].mem]] = Empty
<1> USE DEF LeaseInv, TypeInv
<1>0. \A m \in Memories : queue[m] \in Row /\ queue[m].token \in Nat
  BY DEF TypeOK, Row
<1> DEFINE Quiet1 == UNCHANGED <<fileVars, indexVars, asked, clock, writer>>
           Quiet2 == \A m \in Memories : queue'[m].token = queue[m].token
           Same(x) == /\ pc[x] \in Serving
                      /\ pc'[x] \in {pc[x], "embed"}
                      /\ job'[x].mem = job[x].mem /\ job'[x].ver = job[x].ver
                      /\ job'[x].token = job[x].token
           Fresh(x) == /\ pc'[x] \in {"plan", "record"}
                       /\ job'[x].mem \in Memories
                       /\ job'[x].ver = vault[job'[x].mem]
                       /\ vault[job'[x].mem] # 0
                       /\ pc'[x] = "record" => text[vault[job'[x].mem]] = Empty
<1> SUFFICES \/ Apply(w) \/ Record(w) \/ Dequeue(w)
             \/ /\ Quiet1 /\ Quiet2
                /\ \A x \in Workers : pc'[x] \notin Serving \/ Same(x) \/ Fresh(x)
  OBVIOUS
<1>1. CASE Claim(w)
  <2>1. PICK b \in Batches :
          queue' = [m \in Memories |->
                 IF m \in b THEN [queue[m] EXCEPT !.claim = w, !.lapsed = FALSE]
                 ELSE queue[m]]
    BY <1>1 DEF Claim
  <2>2. Quiet2
    BY <2>1, <1>0 DEF Row
  <2>3. Quiet1 /\ \A x \in Workers : pc'[x] = pc[x] /\ job'[x] = job[x]
    BY <1>1 DEF Claim
  <2> QED BY <2>2, <2>3
<1>2. CASE Read(w)
  <2>1. PICK c \in todo[w] :
          /\ job' = [job EXCEPT ![w] = [mem |-> c.mem, token |-> c.token,
                                        ver |-> vault[c.mem], base |-> Nothing]]
          /\ pc' = [pc EXCEPT ![w] = AfterRead(c.mem)]
    BY <1>2 DEF Read
  <2>2. c.mem \in Memories
    BY DEF TypeOK, Claims
  <2>3. Quiet1 /\ Quiet2
    BY <1>2 DEF Read, queueVars
  <2>4. \A x \in Workers : x # w => pc'[x] = pc[x] /\ job'[x] = job[x]
    BY <2>1 DEF TypeOK
  <2>5. /\ job'[w].mem = c.mem /\ job'[w].ver = vault[c.mem]
        /\ pc'[w] = AfterRead(c.mem)
    BY <2>1 DEF TypeOK
  <2>6. AfterRead(c.mem) \in Serving =>
          /\ AfterRead(c.mem) \in {"plan", "record"}
          /\ vault[c.mem] # 0
          /\ AfterRead(c.mem) = "record" => text[vault[c.mem]] = Empty
    BY DEF AfterRead, Serving
  <2>7. pc'[w] \notin Serving \/ Fresh(w)
    BY <2>2, <2>5, <2>6
  <2> QED BY <2>3, <2>4, <2>7
<1>3. ASSUME NEW row, row.token = queue[job[w].mem].token, FinishWith(w, row),
             pc[w] # "idle"
      PROVE  Quiet1 /\ Quiet2 /\ \A x \in Workers : pc'[x] \notin Serving \/ Same(x)
  <2>1. Quiet1
    BY <1>3 DEF FinishWith
  <2>2. Quiet2
    BY <1>3 DEF FinishWith, TypeOK
  <2>3. pc'[w] = "idle" /\ \A x \in Workers : x # w => pc'[x] = pc[x] /\ job'[x] = job[x]
    BY <1>3 DEF FinishWith, Finish, TypeOK
  <2> QED BY <2>1, <2>2, <2>3 DEF Serving
<1>4. CASE Recheck(w)
  <2>1. pc[w] # "idle" /\ indexed[job[w].mem] /\ queue[job[w].mem] \in Row /\ vault[job[w].mem] # 0
    BY <1>0, <1>4, JobIsQueued DEF Recheck, FilesStay
  <2>2. FinishWith(w, Unclaimed(queue[job[w].mem]))
    BY <2>1, <1>4 DEF Recheck
  <2> QED BY <1>3, <2>1, <2>2, RowStamps
<1>5. ~PruneMissing(w)
  BY DEF PruneMissing, FilesStay
<1>6. CASE MarkInvalid(w) \/ Refused(w)
  <2>1. pc[w] # "idle" /\ queue[job[w].mem] \in Row
    BY <1>0, <1>6, JobIsQueued DEF MarkInvalid, Refused
  <2>2. PICK max \in Nat : FinishWith(w, Errored(queue[job[w].mem], max))
    BY <1>6, ConstantsAssumption DEF MarkInvalid, Refused
  <2> QED BY <1>3, <2>1, <2>2, RowStamps
<1>7. CASE Outage(w) \/ StalePlan(w)
  <2>1. pc[w] # "idle" /\ queue[job[w].mem] \in Row
    BY <1>0, <1>7, JobIsQueued DEF Outage, StalePlan
  <2>2. FinishWith(w, Unclaimed(queue[job[w].mem]))
    BY <1>7 DEF Outage, StalePlan
  <2> QED BY <1>3, <2>1, <2>2, RowStamps
<1>8. CASE Plan(w)
  <2>1. \A x \in Workers : /\ job'[x].mem = job[x].mem /\ job'[x].ver = job[x].ver
                           /\ job'[x].token = job[x].token
    BY <1>8 DEF Plan, TypeOK, Job
  <2>2. pc[w] = "plan" /\ \A x \in Workers : pc'[x] = IF x = w THEN "embed" ELSE pc[x]
    BY <1>8 DEF Plan, TypeOK
  <2>3. Quiet1 /\ Quiet2
    BY <1>8 DEF Plan, queueVars
  <2>4. \A x \in Workers : pc'[x] \notin Serving \/ Same(x)
    BY <2>1, <2>2 DEF Serving
  <2> QED BY <2>3, <2>4
<1> QED BY <1>1, <1>2, <1>4, <1>5, <1>6, <1>7, <1>8 DEF WorkerStep

\* A step that leaves vectors, states and stamps alone, and files whose bodies
\* are in a worker's hands.
LEMMA QuietVectors ==
  ASSUME LeaseInv, VectorInv, UNCHANGED <<text, vec, state>>,
         \A m \in Memories : queue'[m].token # 0 => indexed'[m],
         \A m \in Memories : /\ Queued(m)
                             /\ state[m] \in Texts /\ vec[m] # state[m]
                             => queue'[m].token # 0,
         \A x \in Workers :
           \/ pc'[x] \notin {"record", "dequeue"}
           \/ /\ pc'[x] = pc[x]
              /\ job'[x].mem = job[x].mem /\ job'[x].ver = job[x].ver
           \/ pc'[x] = "record" /\ text[job'[x].ver] = Empty
  PROVE  VectorInv'
<1>1. Empty \notin Texts
  BY ConstantsAssumption
<1>2. ASSUME NEW x \in Workers
      PROVE  /\ pc'[x] = "record" /\ Body(x)' \in Texts => vec[job'[x].mem] = Body(x)'
             /\ pc'[x] = "dequeue" => /\ state[job'[x].mem] = Body(x)'
                                      /\ Body(x)' \in Texts => vec[job'[x].mem] = Body(x)'
  <2>1. Body(x)' = text[job'[x].ver]
    BY DEF Body
  <2> QED BY <1>1, <2>1 DEF VectorInv, Body
<1>3. \A m \in Memories : /\ Queued(m)' => indexed'[m]
                          /\ state[m] \in Texts /\ vec[m] # state[m] => Queued(m)'
  BY DEF Queued, VectorInv
<1> QED BY <1>2, <1>3 DEF VectorInv

LEMMA WorkerVectors ==
  ASSUME LeaseInv, VectorInv, NEW w \in Workers, WorkerStep(w)
  PROVE  VectorInv'
<1> USE DEF LeaseInv, TypeInv
<1>0. /\ \A m \in Memories : queue[m] \in Row /\ queue[m].token \in Nat
      /\ Empty \notin Texts /\ Nothing \notin Texts
  BY ConstantsAssumption DEF TypeOK, Row
<1>m. pc[w] # "idle" => /\ job[w].mem \in Memories /\ Queued(job[w].mem) /\ indexed[job[w].mem]
                        /\ \A x \in Workers : x # w /\ pc[x] # "idle" => job[x].mem # job[w].mem
  BY JobIsQueued
<1>1. CASE Apply(w)
  <2> DEFINE m == job[w].mem
  <2>1. /\ pc[w] = "embed" /\ m \in Memories /\ Queued(m) /\ indexed[m]
        /\ \A x \in Workers : x # w /\ pc[x] # "idle" => job[x].mem # m
    BY <1>1, <1>m DEF Apply
  <2>2. /\ UNCHANGED <<text, indexed, state, queue, job>>
        /\ vec'[m] = Body(w) /\ \A n \in Memories : n # m => vec'[n] = vec[n]
        /\ pc'[w] = "record" /\ \A x \in Workers : x # w => pc'[x] = pc[x]
    BY <1>1, <2>1 DEF Apply, Goto, TypeOK, fileVars, queueVars
  <2>3. \A n \in Memories : /\ Queued(n)' => indexed'[n]
                            /\ state'[n] \in Texts /\ vec'[n] # state'[n] => Queued(n)'
    BY <2>1, <2>2 DEF VectorInv, Queued
  <2>4. ASSUME NEW x \in Workers
        PROVE  /\ pc'[x] = "record" /\ Body(x)' \in Texts => vec'[job'[x].mem] = Body(x)'
               /\ pc'[x] = "dequeue" => /\ state'[job'[x].mem] = Body(x)'
                                        /\ Body(x)' \in Texts => vec'[job'[x].mem] = Body(x)'
    <3>1. Body(x)' = Body(x)
      BY <2>2 DEF Body
    <3>2. CASE x = w
      BY <2>2, <3>1, <3>2
    <3>3. CASE x # w /\ pc[x] # "idle"
      <4>1. job[x].mem # m /\ job[x].mem \in Memories
        BY <2>1, <3>3 DEF StageOK
      <4> QED BY <2>2, <3>1, <3>3, <4>1 DEF VectorInv
    <3>4. CASE x # w /\ pc[x] = "idle"
      BY <2>2, <3>4
    <3> QED BY <3>2, <3>3, <3>4
  <2> QED BY <2>3, <2>4 DEF VectorInv
<1>2. CASE Record(w)
  <2> DEFINE m == job[w].mem
  <2>1. /\ pc[w] = "record" /\ m \in Memories /\ Queued(m) /\ indexed[m]
        /\ \A x \in Workers : x # w /\ pc[x] # "idle" => job[x].mem # m
    BY <1>2, <1>m DEF Record
  <2>2. /\ UNCHANGED <<text, indexed, vec, queue, job>>
        /\ state'[m] = Body(w) /\ \A n \in Memories : n # m => state'[n] = state[n]
        /\ pc'[w] = "dequeue" /\ \A x \in Workers : x # w => pc'[x] = pc[x]
    BY <1>2, <2>1 DEF Record, Goto, TypeOK, fileVars, queueVars
  <2>3. \A n \in Memories : /\ Queued(n)' => indexed'[n]
                            /\ state'[n] \in Texts /\ vec'[n] # state'[n] => Queued(n)'
    BY <2>1, <2>2 DEF VectorInv, Queued
  <2>4. ASSUME NEW x \in Workers
        PROVE  /\ pc'[x] = "record" /\ Body(x)' \in Texts => vec'[job'[x].mem] = Body(x)'
               /\ pc'[x] = "dequeue" => /\ state'[job'[x].mem] = Body(x)'
                                        /\ Body(x)' \in Texts => vec'[job'[x].mem] = Body(x)'
    <3>1. Body(x)' = Body(x)
      BY <2>2 DEF Body
    <3>2. CASE x = w
      BY <2>1, <2>2, <3>1, <3>2 DEF VectorInv
    <3>3. CASE x # w /\ pc[x] # "idle"
      <4>1. job[x].mem # m /\ job[x].mem \in Memories
        BY <2>1, <3>3 DEF StageOK
      <4> QED BY <2>2, <3>1, <3>3, <4>1 DEF VectorInv
    <3>4. CASE x # w /\ pc[x] = "idle"
      BY <2>2, <3>4
    <3> QED BY <3>2, <3>3, <3>4
  <2> QED BY <2>3, <2>4 DEF VectorInv
<1>3. CASE Dequeue(w)
  <2> DEFINE m == job[w].mem
  <2>1. pc[w] = "dequeue" /\ m \in Memories /\ Queued(m) /\ queue[m] \in Row
    BY <1>0, <1>3, <1>m DEF Dequeue
  <2>2. /\ UNCHANGED <<text, vec, state, indexed>>
        /\ queue'[m] = Consumed(queue[m], job[w].token)
        /\ \A n \in Memories : n # m => queue'[n] = queue[n]
    BY <1>3, <2>1 DEF Dequeue, FinishWith, fileVars, indexVars, TypeOK
  <2>3. pc'[w] = "idle" /\ \A x \in Workers : x # w => pc'[x] = pc[x] /\ job'[x] = job[x]
    BY <1>3 DEF Dequeue, FinishWith, Finish, TypeOK
  <2>4. state[m] \notin Texts \/ vec[m] = state[m]
    BY <2>1 DEF VectorInv
  <2>5. queue'[m].token \in {0, queue[m].token}
    BY <2>1, <2>2, RowStamps DEF Consumed, NoRow
  <2>6. \A n \in Memories : /\ queue'[n].token # 0 => indexed'[n]
                            /\ Queued(n) /\ n # m => queue'[n].token # 0
    BY <1>0, <2>1, <2>2, <2>5 DEF VectorInv, Queued
  <2> QED BY <2>2, <2>3, <2>4, <2>6, QuietVectors
<1>4. CASE /\ UNCHANGED <<fileVars, indexVars, asked, clock, writer>>
           /\ \A m \in Memories : queue'[m].token = queue[m].token
           /\ \A x \in Workers :
                \/ pc'[x] \notin Serving
                \/ /\ pc[x] \in Serving
                   /\ pc'[x] \in {pc[x], "embed"}
                   /\ job'[x].mem = job[x].mem /\ job'[x].ver = job[x].ver
                   /\ job'[x].token = job[x].token
                \/ /\ pc'[x] \in {"plan", "record"}
                   /\ job'[x].mem \in Memories
                   /\ job'[x].ver = vault[job'[x].mem]
                   /\ vault[job'[x].mem] # 0
                   /\ pc'[x] = "record" => text[vault[job'[x].mem]] = Empty
  <2>1. UNCHANGED <<text, vec, state, indexed>>
    BY <1>4 DEF fileVars, indexVars
  <2>2. \A m \in Memories : /\ queue'[m].token # 0 => indexed'[m]
                            /\ Queued(m) => queue'[m].token # 0
    BY <1>4, <2>1 DEF VectorInv, Queued
  <2>3. \A x \in Workers :
           \/ pc'[x] \notin {"record", "dequeue"}
           \/ /\ pc'[x] = pc[x]
              /\ job'[x].mem = job[x].mem /\ job'[x].ver = job[x].ver
           \/ pc'[x] = "record" /\ text[job'[x].ver] = Empty
    BY <1>4 DEF Serving
  <2> QED BY <2>1, <2>2, <2>3, QuietVectors
<1> QED BY <1>1, <1>2, <1>3, <1>4, WorkerMoves

LEMMA EnvironmentVectors ==
  ASSUME LeaseInv, VectorInv, "delete" \notin Faults, Next,
         \A w \in Workers : ~WorkerStep(w)
  PROVE  VectorInv'
<1> USE DEF LeaseInv, TypeInv
<1>0. \A m \in Memories : queue[m] \in Row /\ queue[m].token \in Nat
  BY DEF TypeOK, Row
<1>1. ASSUME UNCHANGED <<text, vec, state, pc, job>>,
             \A m \in Memories : indexed[m] => indexed'[m],
             \A m \in Memories : queue'[m].token = queue[m].token
      PROVE  VectorInv'
  <2>1. \A m \in Memories : /\ queue'[m].token # 0 => indexed'[m]
                            /\ Queued(m) => queue'[m].token # 0
    BY <1>1 DEF VectorInv, Queued
  <2> QED BY <1>1, <2>1, QuietVectors
<1>2. CASE \E w \in Workers : Crash(w)
  <2>1. PICK w \in Workers : Crash(w)
    BY <1>2
  <2>2. \A x \in Workers : pc'[x] # "idle" => pc'[x] = pc[x] /\ job'[x] = job[x]
    BY <2>1 DEF Crash, TypeOK
  <2>3. UNCHANGED <<text, vec, state, indexed, queue>>
    BY <2>1 DEF Crash, fileVars, indexVars, queueVars
  <2>4. \A m \in Memories : /\ queue'[m].token # 0 => indexed'[m]
                            /\ Queued(m) => queue'[m].token # 0
    BY <2>3 DEF VectorInv, Queued
  <2> QED BY <2>2, <2>3, <2>4, QuietVectors
<1>3. CASE \E p \in Writers : WriterStep(p)
  <2>1. PICK p \in Writers : WriterStep(p)
    BY <1>3
  <2>2. CASE Upsert(p) \/ RecordHash(p)
    BY <1>1, <2>2 DEF Upsert, RecordHash, fileVars, queueVars, workerVars, TypeOK
  <2>3. CASE Enqueue(p)
    <3>1. UNCHANGED <<text, vec, state, pc, job, indexed>>
      BY <2>3 DEF Enqueue, fileVars, indexVars, workerVars
    <3>2. CASE UNCHANGED queueVars
      BY <1>1, <3>1, <3>2 DEF queueVars
    <3>3. CASE Stamp(writer[p].mem) /\ indexed[writer[p].mem]
      <4> DEFINE m == writer[p].mem
      <4>1. m \in Memories /\ clock + 1 \in Nat /\ clock + 1 # 0
        BY <2>3 DEF Enqueue, StageOK, TypeOK
      <4>2. /\ queue'[m] = Stamped(queue[m], clock + 1)
            /\ \A n \in Memories : n # m => queue'[n] = queue[n]
        BY <3>3, <4>1 DEF Stamp, TypeOK
      <4>3. queue'[m].token = clock + 1
        BY <1>0, <4>1, <4>2, RowStamps
      <4>4. \A n \in Memories : /\ queue'[n].token # 0 => indexed'[n]
                                /\ Queued(n) => queue'[n].token # 0
        BY <3>1, <3>3, <4>1, <4>2, <4>3 DEF VectorInv, Queued
      <4> QED BY <3>1, <4>4, QuietVectors
    <3> QED BY <2>3, <3>2, <3>3 DEF Enqueue
  <2> QED BY <2>1, <2>2, <2>3 DEF WriterStep
<1>4. CASE \E p \in Writers :
             \/ WriterCrash(p)
             \/ \E m \in Memories : BeginReindex(p, m) \/ \E k \in Kinds : BeginWrite(p, k, m)
  BY <1>1, <1>4 DEF WriterCrash, BeginReindex, BeginWrite, fileVars, indexVars, queueVars,
                    workerVars
<1>5. CASE \E m \in Memories : LeaseLapses(m)
  <2>1. PICK m \in Memories : LeaseLapses(m)
    BY <1>5
  <2>2. \A n \in Memories : queue'[n].token = queue[n].token
    BY <1>0, <2>1 DEF LeaseLapses, TypeOK, Row
  <2> QED BY <1>1, <2>1, <2>2 DEF LeaseLapses, fileVars, indexVars, workerVars
<1>6. ~PruneScan /\ \A m \in Memories : ~PruneRow(m) /\ ~RemoveFile(m)
  BY DEF PruneScan, PruneRow, RemoveFile, FilesStay
<1>7. CASE \E m \in Memories : HandEdit(m)
  BY <1>1, <1>7 DEF HandEdit, indexVars, queueVars, workerVars
<1>8. CASE RetryFailed
  <2>1. queue' = [m \in Memories |->
                    IF queue[m].failed THEN [queue[m] EXCEPT !.failed = FALSE, !.retries = 0]
                    ELSE queue[m]]
    BY <1>8 DEF RetryFailed
  <2>2. \A n \in Memories : queue'[n].token = queue[n].token
    BY <1>0, <2>1 DEF Row
  <2> QED BY <1>1, <1>8, <2>2 DEF RetryFailed, fileVars, indexVars, workerVars
<1> QED
  BY <1>2, <1>3, <1>4, <1>5, <1>6, <1>7, <1>8 DEF Next

-----------------------------------------------------------------------------
(* No request for a stored text gets lost *)

\* No text comes back after another one.
NoTextReturns ==
  \A s \in Scripts : \A i, j, k \in Versions :
    i <= j /\ j <= k /\ s[i] = s[k] /\ s[i] \in Texts => s[j] = s[i]

\* The file of m holds a text to be embedded that some writer has taken up.
Due(m) == vault[m] # 0 /\ text[vault[m]] \in Texts /\ TakenUp(m)

\* A writer of that text has not come to its request yet.
Coming(m) ==
  \E p \in Writers :
    writer[p].pc # "idle" /\ writer[p].mem = m /\ text[writer[p].ver] = text[vault[m]]

WriterOK(p) ==
  /\ writer[p].pc \in {"hash", "enqueue"} => indexed[writer[p].mem]
  /\ writer[p].pc # "idle" => writer[p].ver <= edits[writer[p].mem]

MemoryOK(m) ==
  /\ state[m] \in Texts => \E i \in 1..edits[m] : text[i] = state[m]
  /\ taken[m] \in 0..edits[m]
  /\ Due(m) => Queued(m) \/ vec[m] = text[vault[m]] \/ Coming(m)

\* The row a worker serves is still the one it claimed only if it has the text
\* in hand, and what it replaces is no newer than that.
WorkerOK(w) ==
  LET m == job[w].mem IN
  pc[w] \in Serving =>
    /\ job[w].ver \in 1..edits[m]
    /\ state[m] \in Texts => \E i \in 1..job[w].ver : text[i] = state[m]
    /\ job[w].token = queue[m].token /\ Due(m) => Body(w) = text[vault[m]] \/ Coming(m)

DemandInv ==
  /\ text \in Scripts
  /\ \A p \in Writers : WriterOK(p)
  /\ \A m \in Memories : MemoryOK(m)
  /\ \A w \in Workers : WorkerOK(w)

VectorsInv == FreshInv /\ LeaseInv /\ VectorInv /\ DemandInv

\* Between two versions of one text there is no other.
LEMMA SameText ==
  ASSUME NoTextReturns, TypeOK, text \in Scripts,
         NEW i \in Nat, NEW j \in Nat, NEW k \in 1..MaxVersion,
         1 <= i, i <= j, j <= k, text[i] = text[k], text[k] \in Texts
  PROVE  text[j] = text[k]
<1>1. i \in Versions /\ j \in Versions /\ k \in Versions
  BY ConstantsAssumption DEF Versions
<1> QED BY <1>1 DEF NoTextReturns

\* A step that changes neither files nor vectors nor stamps, takes no writer away,
\* and takes up no text but as a writer of it.
LEMMA QuietDemand ==
  ASSUME VectorsInv,
         UNCHANGED <<text, edits, vault, state, vec>>,
         \A m \in Memories : taken'[m] # taken[m] => taken'[m] = vault[m] /\ Coming(m)',
         \A m \in Memories : queue'[m].token = queue[m].token,
         \A m \in Memories : Coming(m) => Coming(m)',
         \A p \in Writers : WriterOK(p)',
         \A x \in Workers :
           \/ pc'[x] \notin Serving
           \/ /\ pc[x] \in Serving
              /\ job'[x].mem = job[x].mem /\ job'[x].ver = job[x].ver
              /\ job'[x].token = job[x].token
           \/ /\ job'[x].mem \in Memories
              /\ job'[x].ver = vault[job'[x].mem]
              /\ vault[job'[x].mem] # 0
  PROVE  DemandInv'
<1> USE DEF VectorsInv, FreshInv, LeaseInv, TypeInv, DemandInv
<1>1. \A m \in Memories : Due(m)' => Due(m) \/ Coming(m)'
  BY DEF Due, TakenUp
<1>2. \A m \in Memories : MemoryOK(m)'
  <2> SUFFICES ASSUME NEW m \in Memories PROVE MemoryOK(m)'
    OBVIOUS
  <2>1. MemoryOK(m) OBVIOUS
  <2>2. taken'[m] \in 0..edits[m]
    BY <2>1 DEF MemoryOK, TokenInv, TypeOK
  <2> QED BY <1>1, <2>1, <2>2 DEF MemoryOK, Queued
<1>3. \A x \in Workers : WorkerOK(x)'
  <2> SUFFICES ASSUME NEW x \in Workers, pc'[x] \in Serving PROVE WorkerOK(x)'
    BY DEF WorkerOK
  <2>0. Body(x)' = text[job'[x].ver]
    BY DEF Body
  <2>1. CASE /\ pc[x] \in Serving
             /\ job'[x].mem = job[x].mem /\ job'[x].ver = job[x].ver
             /\ job'[x].token = job[x].token
    <3>1. WorkerOK(x) /\ job[x].mem \in Memories
      BY <2>1 DEF StageOK, Serving
    <3> QED BY <1>1, <2>0, <2>1, <3>1 DEF WorkerOK, Body
  <2>2. CASE /\ job'[x].mem \in Memories
             /\ job'[x].ver = vault[job'[x].mem]
             /\ vault[job'[x].mem] # 0
    <3>1. vault[job'[x].mem] = edits[job'[x].mem] /\ vault[job'[x].mem] \in Nat
      BY <2>2 DEF TokenInv, TypeOK
    <3>2. job'[x].ver \in 1..edits[job'[x].mem]
      BY <2>2, <3>1
    <3>3. MemoryOK(job'[x].mem)
      BY <2>2
    <3> QED BY <2>0, <2>2, <3>1, <3>2, <3>3 DEF WorkerOK, MemoryOK
  <2> QED BY <2>1, <2>2
<1> QED BY <1>2, <1>3

LEMMA WorkerDemand ==
  ASSUME VectorsInv, NEW w \in Workers, WorkerStep(w)
  PROVE  DemandInv'
<1> USE DEF VectorsInv, FreshInv, LeaseInv, TypeInv, DemandInv
<1>0. \A m \in Memories : queue[m] \in Row /\ queue[m].token \in Nat
  BY DEF TypeOK, Row
<1>m. pc[w] # "idle" => /\ job[w].mem \in Memories /\ Queued(job[w].mem) /\ indexed[job[w].mem]
                        /\ \A x \in Workers : x # w /\ pc[x] # "idle" => job[x].mem # job[w].mem
  BY JobIsQueued
<1>w. ASSUME UNCHANGED <<text, vault, edits, indexed, writer>>
      PROVE  /\ \A p \in Writers : WriterOK(p)'
             /\ \A m \in Memories : Coming(m)' <=> Coming(m)
  <2>1. ASSUME NEW p \in Writers PROVE WriterOK(p)'
    <3>1. WriterOK(p) OBVIOUS
    <3> QED BY <1>w, <3>1 DEF WriterOK
  <2> QED BY <1>w, <2>1 DEF Coming
<1>1. CASE Apply(w)
  <2> DEFINE m == job[w].mem
  <2>1. /\ pc[w] = "embed" /\ m \in Memories /\ Queued(m) /\ indexed[m]
    BY <1>1, <1>m DEF Apply
  <2>2. /\ UNCHANGED <<text, vault, taken, edits, indexed, state, queue, job, writer>>
        /\ \A n \in Memories : n # m => vec'[n] = vec[n]
        /\ \A x \in Workers : pc'[x] \in Serving => pc[x] \in Serving
    BY <1>1, <2>1 DEF Apply, Goto, TypeOK, fileVars, queueVars, Serving
  <2>3. \A n \in Memories : Coming(n)' <=> Coming(n)
    BY <1>w, <2>2
  <2>4. ASSUME NEW n \in Memories PROVE MemoryOK(n)'
    <3>1. MemoryOK(n) OBVIOUS
    <3> QED BY <2>1, <2>2, <2>3, <3>1 DEF MemoryOK, Due, TakenUp, Queued
  <2>5. ASSUME NEW x \in Workers PROVE WorkerOK(x)'
    <3>1. WorkerOK(x) OBVIOUS
    <3>2. pc[x] \in Serving => job[x].mem \in Memories
      BY DEF StageOK, Serving
    <3> QED BY <2>2, <2>3, <3>1, <3>2 DEF WorkerOK, Due, TakenUp, Body
  <2> QED BY <1>w, <2>2, <2>4, <2>5
<1>2. CASE Record(w)
  <2> DEFINE m == job[w].mem
  <2>1. /\ pc[w] = "record" /\ m \in Memories /\ indexed[m]
        /\ \A x \in Workers : x # w /\ pc[x] # "idle" => job[x].mem # m
    BY <1>2, <1>m DEF Record
  <2>2. /\ UNCHANGED <<text, vault, taken, edits, indexed, vec, queue, job, writer>>
        /\ state'[m] = Body(w) /\ \A n \in Memories : n # m => state'[n] = state[n]
        /\ \A x \in Workers : pc'[x] \in Serving => pc[x] \in Serving
    BY <1>2, <2>1 DEF Record, Goto, TypeOK, fileVars, queueVars, Serving
  <2>3. \A n \in Memories : Coming(n)' <=> Coming(n)
    BY <1>w, <2>2
  <2>4. job[w].ver \in 1..edits[m] /\ text[job[w].ver] = Body(w)
    BY <2>1 DEF WorkerOK, Serving, Body
  <2>5. ASSUME NEW n \in Memories PROVE MemoryOK(n)'
    <3>1. MemoryOK(n) OBVIOUS
    <3> QED BY <2>1, <2>2, <2>3, <2>4, <3>1 DEF MemoryOK, Due, TakenUp, Queued
  <2>6. ASSUME NEW x \in Workers PROVE WorkerOK(x)'
    <3>1. WorkerOK(x) OBVIOUS
    <3>2. pc[x] \in Serving => job[x].mem \in Memories /\ (x # w => job[x].mem # m)
      BY <2>1 DEF StageOK, Serving
    <3>3. job[w].ver \in 1..job[w].ver
      BY <2>1, <2>4 DEF TypeOK
    <3>4. pc[x] \in Serving /\ state'[job[x].mem] \in Texts =>
            \E i \in 1..job[x].ver : text[i] = state'[job[x].mem]
      BY <2>1, <2>2, <2>4, <3>1, <3>2, <3>3 DEF WorkerOK
    <3> QED BY <2>2, <2>3, <3>1, <3>2, <3>4 DEF WorkerOK, Due, TakenUp, Body
  <2> QED BY <1>w, <2>2, <2>5, <2>6
<1>3. CASE Dequeue(w)
  <2> DEFINE m == job[w].mem
  <2>1. /\ pc[w] = "dequeue" /\ m \in Memories /\ Queued(m) /\ queue[m] \in Row
        /\ \A x \in Workers : x # w /\ pc[x] # "idle" => job[x].mem # m
    BY <1>0, <1>3, <1>m DEF Dequeue
  <2>2. /\ UNCHANGED <<text, vault, taken, edits, indexed, vec, state, writer>>
        /\ queue'[m] = Consumed(queue[m], job[w].token)
        /\ \A n \in Memories : n # m => queue'[n] = queue[n]
    BY <1>3, <2>1 DEF Dequeue, FinishWith, fileVars, indexVars, TypeOK
  <2>3. pc'[w] = "idle" /\ \A x \in Workers : x # w => pc'[x] = pc[x] /\ job'[x] = job[x]
    BY <1>3 DEF Dequeue, FinishWith, Finish, TypeOK
  <2>4. \A n \in Memories : Coming(n)' <=> Coming(n)
    BY <1>w, <2>2
  <2>5. Due(m) => queue'[m].token # 0 \/ vec[m] = text[vault[m]] \/ Coming(m)
    <3>1. CASE queue[m].token = job[w].token
      <4>1. Due(m) => Body(w) = text[vault[m]] \/ Coming(m)
        BY <2>1, <3>1 DEF WorkerOK, Serving
      <4>2. Body(w) \in Texts => vec[m] = Body(w)
        BY <2>1 DEF VectorInv
      <4> QED BY <4>1, <4>2 DEF Due
    <3>2. CASE queue[m].token # job[w].token
      <4>1. queue'[m].token = queue[m].token
        BY <2>1, <2>2, <3>2, RowStamps DEF Consumed
      <4> QED BY <2>1, <4>1 DEF Queued
    <3> QED BY <3>1, <3>2
  <2>6. ASSUME NEW n \in Memories PROVE MemoryOK(n)'
    <3>1. MemoryOK(n) OBVIOUS
    <3>2. Due(n)' <=> Due(n)
      BY <2>2 DEF Due, TakenUp
    <3>3. Due(n) => Queued(n)' \/ vec[n] = text[vault[n]] \/ Coming(n)
      BY <2>2, <2>5, <3>1 DEF MemoryOK, Queued
    <3> QED BY <2>2, <2>4, <3>1, <3>2, <3>3 DEF MemoryOK
  <2>7. ASSUME NEW x \in Workers PROVE WorkerOK(x)'
    <3>1. WorkerOK(x) OBVIOUS
    <3>2. pc'[x] \in Serving => /\ x # w /\ pc'[x] = pc[x] /\ job'[x] = job[x]
                                /\ job[x].mem \in Memories /\ job[x].mem # m
      BY <2>1, <2>3 DEF StageOK, Serving
    <3> QED BY <2>2, <2>4, <3>1, <3>2 DEF WorkerOK, Due, TakenUp, Body
  <2> QED BY <1>w, <2>2, <2>6, <2>7
<1>4. CASE /\ UNCHANGED <<fileVars, indexVars, asked, clock, writer>>
           /\ \A m \in Memories : queue'[m].token = queue[m].token
           /\ \A x \in Workers :
                \/ pc'[x] \notin Serving
                \/ /\ pc[x] \in Serving
                   /\ pc'[x] \in {pc[x], "embed"}
                   /\ job'[x].mem = job[x].mem /\ job'[x].ver = job[x].ver
                   /\ job'[x].token = job[x].token
                \/ /\ pc'[x] \in {"plan", "record"}
                   /\ job'[x].mem \in Memories
                   /\ job'[x].ver = vault[job'[x].mem]
                   /\ vault[job'[x].mem] # 0
                   /\ pc'[x] = "record" => text[vault[job'[x].mem]] = Empty
  <2>1. UNCHANGED <<text, edits, vault, taken, state, vec, indexed, writer>>
    BY <1>4 DEF fileVars, indexVars
  <2>2. /\ \A p \in Writers : WriterOK(p)'
        /\ \A m \in Memories : Coming(m) => Coming(m)'
    BY <1>w, <2>1
  <2>t. \A n \in Memories : taken'[n] # taken[n] => taken'[n] = vault[n] /\ Coming(n)'
    BY <2>1
  <2> QED BY <1>4, <2>1, <2>2, <2>t, QuietDemand
<1> QED BY <1>1, <1>2, <1>3, <1>4, WorkerMoves

LEMMA WriterDemand ==
  ASSUME VectorsInv, NoTextReturns, NEW p \in Writers, WriterStep(p)
  PROVE  DemandInv'
<1> USE DEF VectorsInv, FreshInv, LeaseInv, TypeInv, DemandInv
<1> DEFINE m == writer[p].mem
<1>0. /\ \A n \in Memories : queue[n] \in Row /\ queue[n].token \in Nat
      /\ \A q \in Writers : writer[q] \in WriterState
      /\ clock \in Nat
  BY DEF TypeOK, Row
<1>1. /\ writer[p].pc # "idle" /\ m \in Memories
      /\ writer[p].ver \in 1..edits[m] /\ edits[m] \in 0..MaxVersion
      /\ WriterOK(p)
  <2>1. writer[p].pc # "idle"
    BY DEF WriterStep, Upsert, RecordHash, Enqueue
  <2>2. m \in Memories /\ writer[p].ver # 0 /\ WriterOK(p)
    BY <2>1 DEF StageOK
  <2>3. writer[p].ver \in Nat
    BY <1>0, ConstantsAssumption DEF WriterState
  <2>4. edits[m] \in 0..MaxVersion
    BY <2>2 DEF TypeOK
  <2> QED BY <2>1, <2>2, <2>3, <2>4, ConstantsAssumption DEF WriterOK
<1>2. CASE Upsert(p)
  <2>1. \A q \in Writers : /\ q # p => writer'[q] = writer[q]
                           /\ writer'[q].mem = writer[q].mem
                           /\ writer'[q].ver = writer[q].ver
                           /\ writer'[q].pc # "idle" <=> writer[q].pc # "idle"
    BY <1>0, <1>1, <1>2 DEF Upsert, WriterState, TypeOK
  <2>2. /\ UNCHANGED <<text, edits, vault, taken, state, vec, queue, pc, job>>
        /\ indexed'[m] /\ \A n \in Memories : indexed[n] => indexed'[n]
    BY <1>1, <1>2 DEF Upsert, fileVars, queueVars, workerVars, TypeOK
  <2>3. ASSUME NEW q \in Writers PROVE WriterOK(q)'
    <3>1. WriterOK(q) OBVIOUS
    <3>2. writer[q].pc # "idle" => writer[q].mem \in Memories
      BY DEF StageOK
    <3> QED BY <1>1, <2>1, <2>2, <3>1, <3>2 DEF WriterOK
  <2>4. \A n \in Memories : Coming(n) => Coming(n)'
    BY <2>1, <2>2 DEF Coming
  <2>5. \A x \in Workers : pc'[x] = pc[x] /\ job'[x] = job[x]
    BY <2>2
  <2>t. \A n \in Memories : taken'[n] # taken[n] => taken'[n] = vault[n] /\ Coming(n)'
    BY <2>2
  <2> QED BY <2>2, <2>3, <2>4, <2>5, <2>t, QuietDemand
<1>3. CASE RecordHash(p)
  <2>1. /\ indexed[m] /\ writer[p].pc = "hash"
        /\ writer' = [writer EXCEPT ![p].pc = "enqueue"]
        /\ UNCHANGED <<text, edits, vault, taken, indexed, state, vec, queue, pc, job>>
    BY <1>1, <1>3 DEF RecordHash, WriterOK, fileVars, queueVars, workerVars
  <2>2. \A q \in Writers : /\ q # p => writer'[q] = writer[q]
                           /\ writer'[q].mem = writer[q].mem
                           /\ writer'[q].ver = writer[q].ver
                           /\ writer'[q].pc # "idle" <=> writer[q].pc # "idle"
    BY <1>0, <1>1, <2>1 DEF WriterState, TypeOK
  <2>3. ASSUME NEW q \in Writers PROVE WriterOK(q)'
    <3>1. WriterOK(q) OBVIOUS
    <3> QED BY <1>1, <2>1, <2>2, <3>1 DEF WriterOK
  <2>4. \A n \in Memories : Coming(n) => Coming(n)'
    BY <2>1, <2>2 DEF Coming
  <2>5. \A x \in Workers : pc'[x] = pc[x] /\ job'[x] = job[x]
    BY <2>1
  <2>t. \A n \in Memories : taken'[n] # taken[n] => taken'[n] = vault[n] /\ Coming(n)'
    BY <2>1
  <2> QED BY <2>1, <2>3, <2>4, <2>5, <2>t, QuietDemand
<1>4. CASE Enqueue(p)
  <2>1. /\ writer' = [writer EXCEPT ![p] = NoWrite]
        /\ UNCHANGED <<text, edits, vault, taken, indexed, state, vec, pc, job>>
        /\ \/ Stamp(m)
           \/ UNCHANGED queueVars /\ state[m] = text[writer[p].ver]
    BY <1>1, <1>4 DEF Enqueue, WriterOK, WantsVectors, fileVars, indexVars, workerVars
  <2>2. writer'[p].pc = "idle" /\ \A q \in Writers : q # p => writer'[q] = writer[q]
    BY <2>1 DEF NoWrite, TypeOK
  <2>3. ASSUME NEW q \in Writers PROVE WriterOK(q)'
    <3>1. WriterOK(q) OBVIOUS
    <3> QED BY <2>1, <2>2, <3>1 DEF WriterOK
  <2>4. \A n \in Memories : n # m \/ text[writer[p].ver] # text[vault[n]] =>
                              (Coming(n) => Coming(n)')
    BY <2>1, <2>2 DEF Coming
  <2>5. \A n \in Memories : Due(n)' <=> Due(n)
    BY <2>1 DEF Due, TakenUp
  <2>6. CASE Stamp(m)
    <3>1. /\ queue'[m] = Stamped(queue[m], clock + 1)
          /\ \A n \in Memories : n # m => queue'[n] = queue[n]
      BY <1>1, <2>6 DEF Stamp, TypeOK
    <3>2. queue'[m].token = clock + 1 /\ queue'[m].token # 0
      BY <1>0, <1>1, <3>1, RowStamps
    <3>3. ASSUME NEW n \in Memories PROVE MemoryOK(n)'
      <4>1. MemoryOK(n) OBVIOUS
      <4> QED BY <2>1, <2>4, <2>5, <3>1, <3>2, <4>1 DEF MemoryOK, Queued
    <3>4. ASSUME NEW x \in Workers PROVE WorkerOK(x)'
      <4>1. WorkerOK(x) OBVIOUS
      <4>2. pc[x] \in Serving => /\ job[x].mem \in Memories
                                 /\ job[x].token <= clock /\ job[x].token \in Nat
        BY DEF StageOK, Serving, TokenInv, TypeOK, Job
      <4>3. pc[x] \in Serving => job[x].token # clock + 1
        BY <1>0, <4>2
      <4> QED BY <2>1, <2>4, <2>5, <3>1, <3>2, <4>1, <4>2, <4>3 DEF WorkerOK, Body
    <3> QED BY <2>1, <2>3, <3>3, <3>4
  <2>7. CASE UNCHANGED queueVars /\ state[m] = text[writer[p].ver]
    <3>0. UNCHANGED queue
      BY <2>7 DEF queueVars
    <3>1. ASSUME NEW n \in Memories PROVE MemoryOK(n)'
      <4>1. MemoryOK(n) OBVIOUS
      <4>2. Due(n) => Queued(n) \/ vec[n] = text[vault[n]] \/ Coming(n)'
        <5>1. CASE n = m /\ text[writer[p].ver] = text[vault[n]]
          BY <2>7, <5>1 DEF Due, VectorInv
        <5>2. CASE n # m \/ text[writer[p].ver] # text[vault[n]]
          BY <2>4, <4>1, <5>2 DEF MemoryOK
        <5> QED BY <5>1, <5>2
      <4> QED BY <2>1, <2>5, <3>0, <4>1, <4>2 DEF MemoryOK, Queued
    <3>2. ASSUME NEW x \in Workers PROVE WorkerOK(x)'
      <4> DEFINE n == job[x].mem
      <4>1. WorkerOK(x) OBVIOUS
      <4>2. pc[x] \in Serving => n \in Memories
        BY DEF StageOK, Serving
      <4>3. pc[x] \in Serving /\ Due(n) /\ n = m /\ text[writer[p].ver] = text[vault[n]]
              => Body(x) = text[vault[n]]
        <5> SUFFICES ASSUME pc[x] \in Serving, Due(n), n = m, text[writer[p].ver] = text[vault[n]]
                     PROVE  Body(x) = text[vault[n]]
          OBVIOUS
        <5>1. state[n] = text[vault[n]] /\ text[vault[n]] \in Texts
          BY <2>7 DEF Due
        <5>2. PICK i \in 1..job[x].ver : text[i] = text[vault[n]]
          BY <4>1, <5>1 DEF WorkerOK
        <5>3. /\ job[x].ver \in 1..edits[n] /\ vault[n] = edits[n]
              /\ vault[n] \in 1..MaxVersion
          BY <4>1, <4>2, ConstantsAssumption DEF WorkerOK, Due, TokenInv, TypeOK
        <5>4. i \in Nat /\ job[x].ver \in Nat /\ 1 <= i /\ i <= job[x].ver /\ job[x].ver <= vault[n]
          BY <5>2, <5>3
        <5>5. text[job[x].ver] = text[vault[n]]
          BY <5>1, <5>2, <5>3, <5>4, SameText
        <5> QED BY <5>5 DEF Body
      <4>4. ASSUME NEW o \in Memories, o = n, pc[x] \in Serving,
                   job[x].token = queue[o].token, Due(o)
            PROVE  Body(x) = text[vault[o]] \/ Coming(o)'
        <5>1. CASE o = m /\ text[writer[p].ver] = text[vault[o]]
          BY <4>3, <4>4, <5>1
        <5>2. CASE o # m \/ text[writer[p].ver] # text[vault[o]]
          BY <2>4, <4>1, <4>4, <5>2 DEF WorkerOK
        <5> QED BY <5>1, <5>2
      <4> QED BY <2>1, <2>5, <3>0, <4>1, <4>2, <4>4 DEF WorkerOK, Body
    <3> QED BY <2>1, <2>3, <3>1, <3>2
  <2> QED BY <2>1, <2>6, <2>7
<1> QED BY <1>2, <1>3, <1>4 DEF WriterStep

LEMMA EnvironmentDemand ==
  ASSUME VectorsInv, NoTextReturns, Faults \cap {"delete", "writercrash"} = {}, Next,
         \A w \in Workers : ~WorkerStep(w), \A p \in Writers : ~WriterStep(p)
  PROVE  DemandInv'
<1> USE DEF VectorsInv, FreshInv, LeaseInv, TypeInv, DemandInv
<1>0. /\ \A m \in Memories : queue[m] \in Row /\ queue[m].token \in Nat
      /\ \A m \in Memories : edits[m] \in Nat /\ vault[m] \in 0..MaxVersion
      /\ \A p \in Writers : writer[p].pc # "idle" => writer[p].mem \in Memories
      /\ \A x \in Workers : pc[x] \in Serving => job[x].mem \in Memories
  BY DEF TypeOK, Row, StageOK, Serving
<1>1. ASSUME UNCHANGED <<text, edits, vault, taken, indexed, state, vec, writer, pc, job>>,
             \A m \in Memories : queue'[m].token = queue[m].token
      PROVE  DemandInv'
  <2>1. ASSUME NEW p \in Writers PROVE WriterOK(p)'
    <3>1. WriterOK(p) OBVIOUS
    <3> QED BY <1>1, <3>1 DEF WriterOK
  <2>2. \A m \in Memories : Coming(m) => Coming(m)'
    BY <1>1 DEF Coming
  <2>t. \A n \in Memories : taken'[n] # taken[n] => taken'[n] = vault[n] /\ Coming(n)'
    BY <1>1
  <2> QED BY <1>1, <2>1, <2>2, <2>t, QuietDemand
<1>2. CASE \E w \in Workers : Crash(w)
  <2>1. PICK w \in Workers : Crash(w)
    BY <1>2
  <2>2. \A x \in Workers : pc'[x] \in Serving => pc'[x] = pc[x] /\ job'[x] = job[x]
    BY <2>1 DEF Crash, TypeOK, Serving
  <2>3. UNCHANGED <<text, edits, vault, taken, indexed, state, vec, writer, queue>>
    BY <2>1 DEF Crash, fileVars, indexVars, queueVars
  <2>4. ASSUME NEW p \in Writers PROVE WriterOK(p)'
    <3>1. WriterOK(p) OBVIOUS
    <3> QED BY <2>3, <3>1 DEF WriterOK
  <2>5. \A m \in Memories : Coming(m) => Coming(m)'
    BY <2>3 DEF Coming
  <2>t. \A n \in Memories : taken'[n] # taken[n] => taken'[n] = vault[n] /\ Coming(n)'
    BY <2>3
  <2> QED BY <2>2, <2>3, <2>4, <2>5, <2>t, QuietDemand
<1>3. CASE \E p \in Writers, m \in Memories : BeginReindex(p, m)
  <2>1. PICK p \in Writers, m \in Memories : BeginReindex(p, m)
    BY <1>3
  <2>2. /\ UNCHANGED <<text, edits, vault, indexed, state, vec, queue, pc, job>>
        /\ writer[p].pc = "idle" /\ vault[m] = edits[m]
        /\ \A n \in Memories : taken'[n] = IF n = m THEN vault[m] ELSE taken[n]
    BY <2>1 DEF BeginReindex, indexVars, queueVars, workerVars, TokenInv, TypeOK
  <2>3. /\ writer'[p].pc = "upsert" /\ writer'[p].mem = m /\ writer'[p].ver = vault[m]
        /\ \A q \in Writers : q # p => writer'[q] = writer[q]
    BY <2>1 DEF BeginReindex, TypeOK
  <2>4. ASSUME NEW q \in Writers PROVE WriterOK(q)'
    <3>1. WriterOK(q) OBVIOUS
    <3> QED BY <1>0, <2>2, <2>3, <3>1 DEF WriterOK
  <2>5. \A n \in Memories : Coming(n) => Coming(n)'
    BY <2>2, <2>3 DEF Coming
  <2>6. \A x \in Workers : pc'[x] = pc[x] /\ job'[x] = job[x]
    BY <2>2
  <2>7. Coming(m)'
    BY <2>2, <2>3 DEF Coming
  <2> QED BY <2>2, <2>4, <2>5, <2>6, <2>7, QuietDemand
<1>4. CASE \E p \in Writers, m \in Memories, k \in Kinds : BeginWrite(p, k, m)
  <2>1. PICK p \in Writers, m \in Memories, k \in Kinds : BeginWrite(p, k, m)
    BY <1>4
  <2>2. /\ UNCHANGED <<text, indexed, state, vec, queue, pc, job>>
        /\ writer[p].pc = "idle"
        /\ edits' = [edits EXCEPT ![m] = edits[m] + 1]
        /\ vault' = [vault EXCEPT ![m] = edits[m] + 1]
        /\ taken' = [taken EXCEPT ![m] = edits[m] + 1]
    BY <2>1 DEF BeginWrite, indexVars, queueVars, workerVars
  <2>3. /\ writer'[p].pc = "upsert" /\ writer'[p].mem = m /\ writer'[p].ver = edits[m] + 1
        /\ \A q \in Writers : q # p => writer'[q] = writer[q]
    BY <2>1 DEF BeginWrite, TypeOK
  <2>4. /\ edits'[m] = edits[m] + 1 /\ vault'[m] = edits[m] + 1 /\ taken'[m] = edits[m] + 1
        /\ \A n \in Memories : n # m => /\ edits'[n] = edits[n] /\ vault'[n] = vault[n]
                                        /\ taken'[n] = taken[n]
        /\ \A n \in Memories : edits'[n] \in Nat /\ edits[n] <= edits'[n]
    BY <1>0, <2>2 DEF TypeOK
  <2>5. ASSUME NEW q \in Writers PROVE WriterOK(q)'
    <3>1. WriterOK(q) OBVIOUS
    <3>2. CASE q = p
      BY <2>3, <2>4, <3>2 DEF WriterOK
    <3>3. CASE q # p
      <4>1. writer[q].ver \in Nat
        BY ConstantsAssumption DEF TypeOK, WriterState
      <4> QED BY <1>0, <2>2, <2>3, <2>4, <3>1, <3>3, <4>1 DEF WriterOK
    <3> QED BY <3>2, <3>3
  <2>6. Coming(m)' /\ \A n \in Memories : n # m => (Coming(n) => Coming(n)')
    BY <2>2, <2>3, <2>4 DEF Coming
  <2>7. \A n \in Memories : n # m => (Due(n)' <=> Due(n))
    BY <2>2, <2>4 DEF Due, TakenUp
  <2>8. \A n \in Memories : 1..edits[n] \subseteq 1..edits'[n]
    BY <1>0, <2>4
  <2>9. ASSUME NEW n \in Memories PROVE MemoryOK(n)'
    <3>1. MemoryOK(n) OBVIOUS
    <3>2. /\ state[n] \in Texts => \E i \in 1..edits'[n] : text[i] = state[n]
          /\ taken'[n] \in 0..edits'[n]
      BY <1>0, <2>4, <2>8, <3>1 DEF MemoryOK
    <3>3. Due(n)' => Queued(n)' \/ vec[n] = text[vault'[n]] \/ Coming(n)'
      BY <2>2, <2>4, <2>6, <2>7, <3>1 DEF MemoryOK, Queued
    <3> QED BY <2>2, <3>2, <3>3 DEF MemoryOK
  <2>10. ASSUME NEW x \in Workers PROVE WorkerOK(x)'
    <3>1. WorkerOK(x) OBVIOUS
    <3>2. pc[x] \in Serving => job[x].ver \in 1..edits'[job[x].mem]
      BY <1>0, <2>8, <3>1 DEF WorkerOK
    <3>3. ASSUME NEW n \in Memories, n = job[x].mem, pc[x] \in Serving,
                 job[x].token = queue[n].token, Due(n)'
          PROVE  Body(x) = text[vault'[n]] \/ Coming(n)'
      BY <2>4, <2>6, <2>7, <3>1, <3>3 DEF WorkerOK
    <3> QED BY <1>0, <2>2, <3>1, <3>2, <3>3 DEF WorkerOK, Body
  <2> QED BY <2>2, <2>5, <2>9, <2>10
<1>5. CASE \E m \in Memories : HandEdit(m)
  <2>1. PICK m \in Memories : HandEdit(m)
    BY <1>5
  <2>2. /\ UNCHANGED <<text, taken, indexed, state, vec, queue, pc, job, writer>>
        /\ vault[m] # 0 /\ vault[m] = edits[m]
        /\ edits[m] + 1 \in 1..MaxVersion
    BY <1>0, <2>1, ConstantsAssumption
    DEF HandEdit, indexVars, queueVars, workerVars, TokenInv, TypeOK
  <2>4. /\ edits'[m] = edits[m] + 1 /\ vault'[m] = edits[m] + 1
        /\ \A n \in Memories : n # m => edits'[n] = edits[n] /\ vault'[n] = vault[n]
        /\ \A n \in Memories : edits'[n] \in Nat /\ edits[n] <= edits'[n]
    BY <1>0, <2>1 DEF HandEdit, TypeOK
  <2>5. ASSUME NEW q \in Writers PROVE WriterOK(q)'
    <3>1. WriterOK(q) OBVIOUS
    <3>2. writer[q].ver \in Nat
      BY ConstantsAssumption DEF TypeOK, WriterState
    <3> QED BY <1>0, <2>2, <2>4, <3>1, <3>2 DEF WriterOK
  <2>8. \A n \in Memories : 1..edits[n] \subseteq 1..edits'[n]
    BY <1>0, <2>4
  <2>6. Due(m)' => text[vault'[m]] = text[vault[m]]
    <3> SUFFICES ASSUME Due(m)' PROVE text[vault'[m]] = text[vault[m]]
      OBVIOUS
    <3>1. /\ text[taken[m]] = text[vault'[m]] /\ text[vault'[m]] \in Texts
          /\ taken[m] # 0 /\ vault'[m] \in 1..MaxVersion
      BY <2>2, <2>4 DEF Due, TakenUp
    <3>2. taken[m] \in 0..edits[m]
      BY DEF MemoryOK
    <3>3. /\ taken[m] \in Nat /\ 1 <= taken[m] /\ taken[m] <= vault[m]
          /\ vault[m] \in Nat /\ vault[m] <= vault'[m]
      BY <1>0, <2>2, <2>4, <3>1, <3>2
    <3> QED BY <3>1, <3>3, SameText
  <2>7. \A n \in Memories : Due(n)' => /\ Due(n) /\ text[vault'[n]] = text[vault[n]]
                                       /\ Coming(n) => Coming(n)'
    <3> SUFFICES ASSUME NEW n \in Memories, Due(n)'
                 PROVE  Due(n) /\ text[vault'[n]] = text[vault[n]] /\ (Coming(n) => Coming(n)')
      OBVIOUS
    <3>1. text[vault'[n]] = text[vault[n]] /\ vault[n] # 0
      BY <2>2, <2>4, <2>6 DEF Due
    <3>2. Due(n)
      BY <2>2, <3>1 DEF Due, TakenUp
    <3>3. Coming(n) => Coming(n)'
      BY <2>2, <3>1 DEF Coming
    <3> QED BY <3>1, <3>2, <3>3
  <2>9. ASSUME NEW n \in Memories PROVE MemoryOK(n)'
    <3>1. MemoryOK(n) OBVIOUS
    <3>2. /\ state[n] \in Texts => \E i \in 1..edits'[n] : text[i] = state[n]
          /\ taken'[n] \in 0..edits'[n]
      BY <1>0, <2>2, <2>4, <2>8, <3>1 DEF MemoryOK
    <3>3. Due(n)' => Queued(n)' \/ vec[n] = text[vault'[n]] \/ Coming(n)'
      BY <2>2, <2>7, <3>1 DEF MemoryOK, Queued
    <3> QED BY <2>2, <3>2, <3>3 DEF MemoryOK
  <2>10. ASSUME NEW x \in Workers PROVE WorkerOK(x)'
    <3>1. WorkerOK(x) OBVIOUS
    <3>2. pc[x] \in Serving => job[x].ver \in 1..edits'[job[x].mem]
      BY <1>0, <2>8, <3>1 DEF WorkerOK
    <3>3. ASSUME NEW n \in Memories, n = job[x].mem, pc[x] \in Serving,
                 job[x].token = queue[n].token, Due(n)'
          PROVE  Body(x) = text[vault'[n]] \/ Coming(n)'
      BY <2>7, <3>1, <3>3 DEF WorkerOK
    <3> QED BY <1>0, <2>2, <3>1, <3>2, <3>3 DEF WorkerOK, Body
  <2> QED BY <2>2, <2>5, <2>9, <2>10
<1>6. CASE \E m \in Memories : LeaseLapses(m)
  <2>1. PICK m \in Memories : LeaseLapses(m)
    BY <1>6
  <2>2. \A n \in Memories : queue'[n].token = queue[n].token
    BY <1>0, <2>1 DEF LeaseLapses, TypeOK, Row
  <2> QED BY <1>1, <2>1, <2>2 DEF LeaseLapses, fileVars, indexVars, workerVars
<1>7. CASE RetryFailed
  <2>1. queue' = [m \in Memories |->
                    IF queue[m].failed THEN [queue[m] EXCEPT !.failed = FALSE, !.retries = 0]
                    ELSE queue[m]]
    BY <1>7 DEF RetryFailed
  <2>2. \A n \in Memories : queue'[n].token = queue[n].token
    BY <1>0, <2>1 DEF Row
  <2> QED BY <1>1, <1>7, <2>2 DEF RetryFailed, fileVars, indexVars, workerVars
<1>8. /\ ~PruneScan
      /\ \A m \in Memories : ~PruneRow(m) /\ ~RemoveFile(m)
      /\ \A p \in Writers : ~WriterCrash(p)
  BY DEF PruneScan, PruneRow, RemoveFile, WriterCrash, FilesStay
<1> QED
  BY <1>2, <1>3, <1>4, <1>5, <1>6, <1>7, <1>8 DEF Next

-----------------------------------------------------------------------------
(* The theorems *)

LEMMA AlwaysCertified ==
  ASSUME Faults \cap {"slow", "delete"} = {}
  PROVE  Spec => []VectorInv
<1>1. Init => VectorInv
  BY ConstantsAssumption DEF Init, VectorInv, Queued, NoRow
<1>2. LeaseInv /\ VectorInv /\ [Next]_vars => VectorInv'
  <2>1. CASE UNCHANGED vars
    BY <2>1 DEF vars, fileVars, indexVars, queueVars, workerVars, VectorInv, Queued, Body
  <2>2. CASE Next
    BY <2>2, WorkerVectors, EnvironmentVectors
  <2> QED BY <2>1, <2>2
<1> QED BY <1>1, <1>2, AlwaysLeased, PTL DEF Spec

\* A body that embed_state vouches for, with no request open and nobody at work,
\* is the body of the stored vectors: of any number of workers and writers, and
\* though workers and writers crash and people edit files.
THEOREM VectorsAreCertified ==
  ASSUME Faults \cap {"slow", "delete"} = {}
  PROVE  Spec => []CertifiedVectors
<1>1. VectorInv => CertifiedVectors
  BY DEF VectorInv, CertifiedVectors
<1> QED BY <1>1, AlwaysCertified, PTL

LEMMA AlwaysDemanded ==
  ASSUME Faults \cap {"slow", "delete", "writercrash"} = {}, NoTextReturns
  PROVE  Spec => []VectorsInv
<1>1. Init => DemandInv
  BY ConstantsAssumption
  DEF Init, DemandInv, WriterOK, MemoryOK, WorkerOK, Due, TakenUp, NoWrite, Serving
<1>2. VectorsInv /\ [Next]_vars => DemandInv'
  <2>1. CASE UNCHANGED vars
    BY <2>1 DEF vars, fileVars, indexVars, queueVars, workerVars, VectorsInv, DemandInv,
                WriterOK, MemoryOK, WorkerOK, Due, TakenUp, Coming, Queued, Body
  <2>2. CASE Next
    BY <2>2, WorkerDemand, WriterDemand, EnvironmentDemand
  <2> QED BY <2>1, <2>2
<1>3. Spec => []LeaseInv /\ []VectorInv
  BY Faults \cap {"slow", "delete"} = {}, AlwaysLeased, AlwaysCertified
<1> QED BY <1>1, <1>2, <1>3, AlwaysFresh, PTL DEF Spec, VectorsInv

\* A text that a writer has taken up has its vectors, a request open, or a writer
\* about to make one, also where people edit files, as long as writers finish, no
\* file goes, and no text comes back after another.
THEOREM NothingIsForgotten ==
  ASSUME Faults \cap {"slow", "delete", "writercrash"} = {}, NoTextReturns
  PROVE  Spec => []NothingForgotten
<1>1. VectorsInv => NothingForgotten
  <2> SUFFICES ASSUME VectorsInv, NEW m \in Memories, Embeddable(m), TakenUp(m),
                      \A p \in Writers : writer[p].mem # m
               PROVE  Queued(m) \/ vec[m] = text[vault[m]]
    BY DEF NothingForgotten
  <2>1. Due(m) /\ ~Coming(m)
    BY DEF Due, Embeddable, Coming
  <2> QED BY <2>1 DEF VectorsInv, DemandInv, MemoryOK
<1> QED BY <1>1, AlwaysDemanded, PTL
=============================================================================

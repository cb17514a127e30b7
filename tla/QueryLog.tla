------------------------------ MODULE QueryLog ------------------------------
(***************************************************************************)
(* The log of what searches and reads have shown, and the spool that takes *)
(* its rows while another process holds the database.                      *)
(*                                                                         *)
(* Every call of a logger carries the memories it has shown.  It commits   *)
(* them in one transaction, together with the batches that wait in the     *)
(* spool, and unlinks those files afterwards; or it finds the database     *)
(* busy and leaves its batch in the spool; or it gives up.  The log keeps  *)
(* its newest rows.                                                        *)
(***************************************************************************)
EXTENDS Naturals, FiniteSets, SequencesExt

CONSTANTS
  Memories,
  Loggers,     \* processes that log: daemon, MCP servers, commands
  MaxCalls,    \* bound on the calls
  MaxRows,     \* rows the log keeps
  MaxFiles,    \* files the spool holds
  MaxReplay,   \* files one transaction replays
  MaxEvents,   \* bound on what goes wrong
  Faults       \* which of "busy", "logcrash", "delete", ... may happen

ASSUME QueryLogAssumption ==
  /\ IsFiniteSet(Memories) /\ IsFiniteSet(Loggers)
  /\ MaxCalls \in Nat /\ MaxRows \in Nat \ {0} /\ MaxFiles \in Nat
  /\ MaxReplay \in Nat \ {0} /\ MaxEvents \in Nat

VARIABLES
  alive,     \* the memories with a row in `memories`
  log,       \* query_log: a set of rows, whose ids say which is older
  lastId,    \* the last id handed out; ids are never used again
  spool,     \* the files of query-log-pending
  logger,    \* logger[l]: what logger l is doing
  calls,     \* calls made
  kept,      \* history: calls whose batch was accepted by the spool
  entered,   \* history: entered[c]: transactions that inserted rows of call c
  cut,       \* history: transactions whose files a crash or another logger met
  events     \* what has gone wrong

logVars == <<alive, log, lastId, spool, logger, calls, kept, entered, cut, events>>

Calls == 1..MaxCalls
Batch == [call : Calls, shown : SUBSET Memories]
Row   == [id : Nat, call : Calls, memory : Memories]

NoBatch == [call |-> 0, shown |-> {}]

Idle == [pc |-> "idle", batch |-> NoBatch, files |-> {}]

LogTypeOK ==
  /\ alive \subseteq Memories
  /\ log \subseteq Row /\ Cardinality(log) <= MaxRows
  /\ \A row \in log : row.id <= lastId /\ row.memory \in alive
  /\ \A row, other \in log : row.id = other.id => row = other
  /\ lastId \in Nat
  /\ spool \subseteq Batch
  /\ logger \in [Loggers -> [pc : {"idle", "log", "spool", "retire"},
                             batch : Batch \cup {NoBatch}, files : SUBSET Batch]]
  /\ calls \in 0..MaxCalls
  /\ kept \subseteq Calls
  /\ entered \in [Calls -> Nat]
  /\ cut \in Nat
  /\ events \in 0..MaxEvents

LogInit ==
  /\ alive = Memories
  /\ log = {}
  /\ lastId = 0
  /\ spool = {}
  /\ logger = [l \in Loggers |-> Idle]
  /\ calls = 0
  /\ kept = {}
  /\ entered = [c \in Calls |-> 0]
  /\ cut = 0
  /\ events = 0

-----------------------------------------------------------------------------
(* Rows, files, transactions *)

Event == events < MaxEvents /\ events' = events + 1

\* What is to be inserted for some batches: not the rows of deleted memories.
Rows(batches) ==
  {[call |-> p[1].call, memory |-> p[2]] : p \in {q \in batches \X alive : q[2] \in q[1].shown}}

\* AUTOINCREMENT: a row's id is greater than every id before it.
Numbered(rows, last) ==
  {[id |-> last + i, call |-> SetToSeq(rows)[i].call, memory |-> SetToSeq(rows)[i].memory] :
     i \in 1..Cardinality(rows)}

\* _maybe_prune: a log over its limit loses its oldest rows, down to nine
\* tenths of the limit.
Pruned(rows) ==
  IF Cardinality(rows) <= MaxRows THEN rows
  ELSE {row \in rows : Cardinality({newer \in rows : newer.id > row.id}) < (MaxRows * 9) \div 10}

\* The files a transaction replays: the first of them in the order of their
\* random names.
Replayable == {files \in SUBSET spool :
                 Cardinality(files) = IF Cardinality(spool) <= MaxReplay
                                      THEN Cardinality(spool) ELSE MaxReplay}

\* What is left to a logger whose rows are in: to retire the files it replayed.
Retiring(files) == IF files = {} THEN Idle
                   ELSE [pc |-> "retire", batch |-> NoBatch, files |-> files]

-----------------------------------------------------------------------------
(* log_search_results, log_get *)

\* A search or a read has shown some memories; by now they may be deleted.
Call(l, shown) ==
  /\ logger[l].pc = "idle" /\ calls < MaxCalls
  /\ shown # {} /\ shown \subseteq alive
  /\ calls' = calls + 1
  /\ logger' = [logger EXCEPT ![l] = [pc |-> "log", files |-> {},
                                      batch |-> [call |-> calls + 1, shown |-> shown]]]
  /\ UNCHANGED <<alive, log, lastId, spool, kept, entered, cut, events>>

\* _log_writer: one transaction replays the spool, inserts the rows and prunes.
\* A row of a deleted memory violates the foreign key and rolls everything
\* back: the call's rows are lost, the spool is as it was.
Commit(l) ==
  LET batch == logger[l].batch IN
  /\ logger[l].pc = "log"
  /\ \/ /\ batch.shown \subseteq alive
        /\ \E files \in Replayable :
             LET replayed == Rows(files)
                 last == lastId + Cardinality(replayed)
             IN
             /\ log' = Pruned(log \cup Numbered(replayed, lastId) \cup Numbered(Rows({batch}), last))
             /\ lastId' = last + Cardinality(Rows({batch}))
             /\ entered' = [c \in Calls |-> IF \E b \in files \cup {batch} : b.call = c
                                            THEN entered[c] + 1 ELSE entered[c]]
             /\ logger' = [logger EXCEPT ![l] = Retiring(files)]
             /\ cut' = IF \E k \in Loggers \ {l} : logger[k].files \cap files # {}
                       THEN cut + 1 ELSE cut
     \/ /\ ~ (batch.shown \subseteq alive)
        /\ logger' = [logger EXCEPT ![l] = Idle]
        /\ UNCHANGED <<log, lastId, entered, cut>>
  /\ UNCHANGED <<alive, spool, calls, kept, events>>

\* Faulty variant: the files stay.
RetireNothing(l) ==
  /\ logger[l].pc = "retire"
  /\ logger' = [logger EXCEPT ![l] = Idle]
  /\ UNCHANGED <<alive, log, lastId, spool, calls, kept, entered, cut, events>>

\* remove_replayed: after the commit, file by file.
Retire(l) ==
  /\ logger[l].pc = "retire"
  /\ \E file \in logger[l].files :
       /\ spool' = spool \ {file}
       /\ logger' = [logger EXCEPT ![l] = Retiring(logger[l].files \ {file})]
  /\ UNCHANGED <<alive, log, lastId, calls, kept, entered, cut, events>>

\* The lock of the connection is not free in time: the rows are dropped.
GiveUp(l) ==
  /\ "busy" \in Faults /\ logger[l].pc = "log"
  /\ logger' = [logger EXCEPT ![l] = Idle]
  /\ UNCHANGED <<alive, log, lastId, spool, calls, kept, entered, cut, events>>

\* Another process writes: BEGIN IMMEDIATE fails.
Busy(l) ==
  /\ "busy" \in Faults /\ logger[l].pc = "log"
  /\ logger' = [logger EXCEPT ![l].pc = "spool"]
  /\ UNCHANGED <<alive, log, lastId, spool, calls, kept, entered, cut, events>>

\* enqueue: while there is room, the finished file is renamed into place.
Queue(l) ==
  /\ logger[l].pc = "spool"
  /\ IF Cardinality(spool) < MaxFiles
     THEN /\ spool' = spool \cup {logger[l].batch}
          /\ kept' = kept \cup {logger[l].batch.call}
     ELSE UNCHANGED <<spool, kept>>
  /\ logger' = [logger EXCEPT ![l] = Idle]
  /\ UNCHANGED <<alive, log, lastId, calls, entered, cut, events>>

\* The process of a logger dies; a temporary file is not a file of the spool.
LoggerDies(l) ==
  /\ "logcrash" \in Faults /\ logger[l].pc # "idle"
  /\ Event
  /\ cut' = IF logger[l].files # {} THEN cut + 1 ELSE cut
  /\ logger' = [logger EXCEPT ![l] = Idle]
  /\ UNCHANGED <<alive, log, lastId, spool, calls, kept, entered>>

\* A memory is deleted; its rows go with it.
Delete(m) ==
  /\ "delete" \in Faults /\ m \in alive
  /\ Event
  /\ alive' = alive \ {m}
  /\ log' = {row \in log : row.memory # m}
  /\ UNCHANGED <<lastId, spool, logger, calls, kept, entered, cut>>

Log(l) == Commit(l) \/ Retire(l) \/ Queue(l)

LogNext ==
  \/ \E l \in Loggers : Log(l) \/ GiveUp(l) \/ Busy(l) \/ LoggerDies(l)
  \/ \E l \in Loggers, shown \in SUBSET Memories : Call(l, shown)
  \/ \E m \in Memories : Delete(m)

-----------------------------------------------------------------------------
(* Properties *)

\* What the spool has accepted is not lost, and enters the log once: its file is
\* there until its rows are in the log (retrieval_pending.py:1-5), and a file
\* whose rows are in the log is about to be retired by the logger that put them
\* there, but for the transactions whose files a crash or another logger met:
\* replay is "at-least-once across crashes" (retrieval_pending.py:4).
SpooledOnce ==
  /\ \A c \in kept : entered[c] > 0 \/ \E batch \in spool : batch.call = c
  /\ \A batch \in spool :
       \/ entered[batch.call] <= cut
       \/ entered[batch.call] <= cut + 1 /\ \E l \in Loggers : batch \in logger[l].files

=============================================================================

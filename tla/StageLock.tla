------------------------------ MODULE StageLock ------------------------------
(***************************************************************************)
(* The lock and the cadence of one hygiene stage.                          *)
(*                                                                         *)
(* The daemon's hygiene loop and the `memstem hygiene` commands run the    *)
(* same stages from processes of their own.  A row of `hygiene_state`      *)
(* holds the time the lock was taken, another the last successful run.  A  *)
(* lock older than max_age_seconds counts as left by a crash.              *)
(*                                                                         *)
(* Times are stamps: the k-th taking of the lock has stamp k + 1, and the  *)
(* stamps up to `horizon` are older than max_age_seconds.  Faults is the   *)
(* set of environment events a run allows.                                 *)
(***************************************************************************)
EXTENDS Naturals

CONSTANTS
  Loops,       \* hygiene loops, one per daemon
  Commands,    \* command-line runs
  MaxEvents,   \* bound on commands, elapsed intervals and faults
  Faults       \* which of "fail", "crash", "cancel", "slow" may happen

Runners == Loops \cup Commands

\* A row of an earlier version that is no timestamp, or of a runner long dead.
Leftover == 1

ASSUME StageAssumption ==
  /\ Loops \cap Commands = {}
  /\ MaxEvents \in Nat
  /\ Faults \subseteq {"fail", "crash", "cancel", "slow"}

VARIABLES
  row,       \* running_since: the stamp of the lock's taking, 0 when absent
  clock,     \* the last stamp given
  horizon,   \* the last stamp older than max_age_seconds
  due,       \* the interval has elapsed since last_run
  pc,        \* pc[r]: where runner r is
  seen,      \* seen[r]: the row r read before it tries to take the lock
  mine,      \* history, mine[r]: the stamp under which r last took the lock
  thread,    \* the runners whose stage function is running
  calm,      \* history: no run has outlived its lock and no loop was cancelled
  events     \* commands, intervals and faults so far

vars == <<row, clock, horizon, due, pc, seen, mine, thread, calm, events>>

Stages == {"idle", "look", "take", "run", "mark", "release",
           "cancelled", "stopping", "stopped"}

TypeOK ==
  /\ row \in 0..clock
  /\ clock \in Nat
  /\ horizon \in 0..clock
  /\ due \in BOOLEAN
  /\ pc \in [Runners -> Stages]
  /\ seen \in [Runners -> 0..clock]
  /\ mine \in [Runners -> 0..clock]
  /\ thread \subseteq Runners
  /\ calm \in BOOLEAN
  /\ events \in 0..MaxEvents

Init ==
  /\ row \in {0, Leftover}
  /\ clock = Leftover
  /\ horizon = Leftover
  /\ due = TRUE
  /\ pc = [r \in Runners |-> "idle"]
  /\ seen = [r \in Runners |-> 0]
  /\ mine = [r \in Runners |-> 0]
  /\ thread = {}
  /\ calm = TRUE
  /\ events = 0

Event == events < MaxEvents /\ events' = events + 1

Goto(r, stage) == pc' = [pc EXCEPT ![r] = stage]

\* r has taken the lock and not yet begun to give it back.
Holds(r) == pc[r] \in {"run", "mark", "release"}

-----------------------------------------------------------------------------
(* A run of the stage *)

\* The loop polls, and goes on when due_for_run says so ...
Tick(r) ==
  /\ r \in Loops /\ pc[r] = "idle"
  /\ due
  /\ Goto(r, "look")
  /\ UNCHANGED <<row, clock, horizon, due, seen, mine, thread, calm, events>>

\* ... a command does not ask.
Invoke(r) ==
  /\ r \in Commands /\ pc[r] = "idle"
  /\ Event
  /\ Goto(r, "look")
  /\ UNCHANGED <<row, clock, horizon, due, seen, mine, thread, calm>>

\* Faulty variant: a lock of any age is respected.
LookKeeps(r) ==
  /\ pc[r] = "look"
  /\ \/ row # 0 /\ Goto(r, "idle") /\ UNCHANGED seen
     \/ row = 0 /\ Goto(r, "take") /\ seen' = [seen EXCEPT ![r] = row]
  /\ UNCHANGED <<row, clock, horizon, due, mine, thread, calm, events>>

\* acquire_stage_lock reads the row.
Look(r) ==
  /\ pc[r] = "look"
  /\ \/ row > horizon /\ Goto(r, "idle") /\ UNCHANGED seen
     \/ row <= horizon /\ Goto(r, "take") /\ seen' = [seen EXCEPT ![r] = row]
  /\ UNCHANGED <<row, clock, horizon, due, mine, thread, calm, events>>

\* Faulty variant: the row is written whatever it has become.
TakeBlindly(r) ==
  /\ pc[r] = "take"
  /\ row' = clock + 1
  /\ clock' = clock + 1
  /\ mine' = [mine EXCEPT ![r] = clock + 1]
  /\ thread' = thread \cup {r}
  /\ Goto(r, "run")
  /\ UNCHANGED <<horizon, due, seen, calm, events>>

\* INSERT ... DO NOTHING, or UPDATE ... WHERE value = <seen>; on success the
\* stage function starts.
Take(r) ==
  /\ pc[r] = "take"
  /\ \/ /\ row = seen[r]
        /\ row' = clock + 1
        /\ clock' = clock + 1
        /\ mine' = [mine EXCEPT ![r] = clock + 1]
        /\ thread' = thread \cup {r}
        /\ Goto(r, "run")
     \/ /\ row # seen[r]
        /\ Goto(r, "idle")
        /\ UNCHANGED <<row, clock, mine, thread, calm>>
  /\ UNCHANGED <<horizon, due, seen, calm, events>>

Complete(r) ==
  /\ pc[r] = "run"
  /\ thread' = thread \ {r}
  /\ Goto(r, "mark")
  /\ UNCHANGED <<row, clock, horizon, due, seen, mine, calm, events>>

\* set_last_run
Mark(r) ==
  /\ pc[r] = "mark"
  /\ due' = FALSE
  /\ Goto(r, "release")
  /\ UNCHANGED <<row, clock, horizon, seen, mine, thread, calm, events>>

\* release_stage_lock; a cancelled loop calls it twice.
AfterRelease == [stage \in {"release", "cancelled", "stopping"} |->
                   CASE stage = "release"   -> "idle"
                     [] stage = "cancelled" -> "stopping"
                     [] stage = "stopping"  -> "stopped"]

Release(r) ==
  /\ pc[r] \in DOMAIN AfterRelease
  /\ row' = 0
  /\ Goto(r, AfterRelease[pc[r]])
  /\ UNCHANGED <<clock, horizon, due, seen, mine, thread, calm, events>>

Step(r) ==
  Tick(r) \/ Look(r) \/ Take(r) \/ Complete(r) \/ Mark(r) \/ Release(r)

-----------------------------------------------------------------------------
(* What may happen to it *)

\* The stage function raises; the lock is released all the same.
Fail(r) ==
  /\ "fail" \in Faults
  /\ pc[r] = "run"
  /\ Event
  /\ thread' = thread \ {r}
  /\ Goto(r, "release")
  /\ UNCHANGED <<row, clock, horizon, due, seen, mine, calm>>

\* The daemon stops: the task that awaits the stage's thread is cancelled, the
\* thread is not.
Cancel(r) ==
  /\ "cancel" \in Faults
  /\ r \in Loops /\ pc[r] = "run"
  /\ Event
  /\ Goto(r, "cancelled")
  /\ calm' = FALSE
  /\ UNCHANGED <<row, clock, horizon, due, seen, mine, thread>>

ThreadEnds(r) ==
  /\ pc[r] \in {"cancelled", "stopping", "stopped"} /\ r \in thread
  /\ thread' = thread \ {r}
  /\ UNCHANGED <<row, clock, horizon, due, pc, seen, mine, calm, events>>

\* The process of a stopped daemon ends with its threads; the next one polls.
Restart(r) ==
  /\ pc[r] = "stopped" /\ r \notin thread
  /\ Goto(r, "idle")
  /\ UNCHANGED <<row, clock, horizon, due, seen, mine, thread, calm, events>>

\* The process dies; its row stays.
Crash(r) ==
  /\ "crash" \in Faults
  /\ pc[r] # "idle"
  /\ Event
  /\ thread' = thread \ {r}
  /\ Goto(r, "idle")
  /\ UNCHANGED <<row, clock, horizon, due, seen, mine, calm>>

\* max_age_seconds go by, perhaps while the lock's taker still needs it.
Ages ==
  LET overrun == \E r \in Runners : Holds(r) /\ mine[r] = horizon + 1 IN
  /\ horizon < clock
  /\ overrun => "slow" \in Faults
  /\ horizon' = horizon + 1
  /\ calm' = (calm /\ ~overrun)
  /\ UNCHANGED <<row, clock, due, pc, seen, mine, thread, events>>

\* The stage's interval goes by.
Elapse ==
  /\ ~due
  /\ Event
  /\ due' = TRUE
  /\ UNCHANGED <<row, clock, horizon, pc, seen, mine, thread, calm>>

Next ==
  \/ \E r \in Runners : \/ Step(r) \/ Invoke(r) \/ Fail(r) \/ Cancel(r)
                        \/ ThreadEnds(r) \/ Restart(r) \/ Crash(r)
  \/ Ages
  \/ Elapse

Spec == Init /\ [][Next]_vars

\* Threads and time go on, and a stopped daemon is started again.
Fairness ==
  /\ \A r \in Runners : WF_vars(Step(r)) /\ WF_vars(ThreadEnds(r)) /\ WF_vars(Restart(r))
  /\ WF_vars(Ages)

FairSpec == Spec /\ Fairness

-----------------------------------------------------------------------------
(* Properties *)

\* Until a run outlives its lock or a daemon is stopped in the middle of one,
\* the runners of a stage take turns, whatever crashes leave behind: "manual
\* runs and the loop never compete" (loop.py:13-14).
Turns == INSTANCE StageTurns WITH working <- IF calm THEN thread ELSE {}

TakeTurns == Turns!Spec

\* A stage that is due is run to its end by somebody, whatever locks crashed
\* runners left behind.
DueIsRun == due ~> ~due

=============================================================================

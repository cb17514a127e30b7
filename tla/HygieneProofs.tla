---------------------------- MODULE HygieneProofs ----------------------------
(***************************************************************************)
(* The hygiene loop's stages.  First the lock they run under: for any      *)
(* number of loops, commands and faults, the runners of a stage take turns *)
(* until a run outlives its lock or a loop is cancelled in one.  Then the  *)
(* writer of session summaries, for any sessions and any bounds.           *)
(***************************************************************************)
EXTENDS StageLock, SessionDistill, FiniteSetTheorems, SequenceTheorems, TLAPS

-----------------------------------------------------------------------------
(* The lock of a stage *)

\* Who is about to take the lock saw none, or an old one.  In calm times the
\* lock's taker is one, its stamp is the row's, and only it can be at work.
LockInv ==
  /\ TypeOK
  /\ \A r \in Runners : pc[r] = "take" => seen[r] <= horizon
  /\ calm => \A r \in Runners :
               /\ pc[r] \notin {"cancelled", "stopping", "stopped"}
               /\ r \in thread => pc[r] = "run"
               /\ Holds(r) => row = mine[r] /\ mine[r] > horizon
               /\ Holds(r) => \A s \in Runners : Holds(s) => r = s

\* A runner that changes its stage without the lock, the stamps or the horizon,
\* and does not come to hold the lock, disturbs nothing.
LEMMA MovesOn ==
  ASSUME LockInv, NEW r \in Runners, NEW stage \in Stages, Goto(r, stage),
         UNCHANGED <<row, clock, horizon, mine, calm>>,
         seen' \in [Runners -> 0..clock],
         due' \in BOOLEAN, events' \in 0..MaxEvents,
         thread' \subseteq thread,
         calm /\ r \in thread' => stage = "run",
         calm => stage \notin {"cancelled", "stopping", "stopped"},
         stage \in {"run", "mark", "release"} => Holds(r),
         stage = "take" => seen'[r] <= horizon,
         \A s \in Runners \ {r} : seen'[s] = seen[s]
  PROVE  LockInv'
<1>1. \A s \in Runners : pc'[s] = IF s = r THEN stage ELSE pc[s]
  BY DEF Goto, LockInv, TypeOK
<1>2. TypeOK'
  BY DEF Goto, LockInv, TypeOK
<1>3. \A s \in Runners : Holds(s)' => Holds(s)
  BY <1>1 DEF Holds
<1> QED BY <1>1, <1>2, <1>3 DEF LockInv

\* Nobody holds a lock that a runner is about to take.
LEMMA TakesFromNobody ==
  ASSUME LockInv, NEW r \in Runners, pc[r] = "take", row = seen[r], calm
  PROVE  /\ \A s \in Runners : ~Holds(s)
         /\ thread = {}
<1>1. row <= horizon /\ row \in Nat /\ horizon \in Nat
  BY DEF LockInv, TypeOK
<1>2. \A s \in Runners : ~Holds(s)
  BY <1>1 DEF LockInv
<1> QED BY <1>2 DEF LockInv, TypeOK, Holds

LEMMA StepKeepsLock ==
  ASSUME LockInv, NEW r \in Runners,
         Step(r) \/ Invoke(r) \/ Fail(r) \/ Cancel(r) \/ ThreadEnds(r) \/ Restart(r) \/ Crash(r)
  PROVE  LockInv'
<1>0. events \in 0..MaxEvents /\ (Event => events' \in 0..MaxEvents)
  BY StageAssumption DEF LockInv, TypeOK, Event
<1>1. CASE Tick(r) \/ Invoke(r)
  BY <1>0, <1>1, MovesOn DEF Tick, Invoke, LockInv, TypeOK, Stages
<1>2. CASE Look(r)
  <2>1. CASE Goto(r, "idle") /\ UNCHANGED seen
    BY <1>0, <1>2, <2>1, MovesOn DEF Look, LockInv, TypeOK, Stages
  <2>2. CASE row <= horizon /\ Goto(r, "take") /\ seen' = [seen EXCEPT ![r] = row]
    BY <1>0, <1>2, <2>2, MovesOn DEF Look, LockInv, TypeOK, Stages
  <2> QED BY <1>2, <2>1, <2>2 DEF Look
<1>3. CASE Take(r)
  <2>1. CASE row # seen[r]
    BY <1>0, <1>3, <2>1, MovesOn DEF Take, LockInv, TypeOK, Stages
  <2>2. CASE row = seen[r]
    <3>1. /\ pc[r] = "take" /\ row' = clock + 1 /\ clock' = clock + 1
          /\ UNCHANGED <<horizon, due, seen, calm, events>>
      BY <1>3, <2>2 DEF Take
    <3>2. /\ \A s \in Runners : pc'[s] = IF s = r THEN "run" ELSE pc[s]
          /\ \A s \in Runners : mine'[s] = IF s = r THEN clock + 1 ELSE mine[s]
          /\ thread' = thread \cup {r}
      BY <1>3, <2>2 DEF Take, Goto, LockInv, TypeOK
    <3>3. TypeOK'
      BY <1>3, <2>2, <3>1 DEF Take, Goto, LockInv, TypeOK, Stages
    <3>4. clock + 1 > horizon
      BY DEF LockInv, TypeOK
    <3>5. calm => /\ \A s \in Runners : ~Holds(s)
                  /\ thread = {}
      BY <3>1, <2>2, TakesFromNobody
    <3>6. calm => \A s \in Runners : Holds(s)' => s = r
      BY <3>2, <3>5 DEF Holds
    <3> QED BY <3>1, <3>2, <3>3, <3>4, <3>5, <3>6 DEF LockInv
  <2> QED BY <2>1, <2>2
<1>4. CASE Complete(r) \/ Mark(r) \/ Fail(r)
  BY <1>0, <1>4, MovesOn DEF Complete, Mark, Fail, LockInv, TypeOK, Stages, Holds
<1>5. CASE Release(r)
  <2>1. \A s \in Runners : pc'[s] = IF s = r THEN AfterRelease[pc[r]] ELSE pc[s]
    BY <1>5 DEF Release, Goto, LockInv, TypeOK
  <2>2. /\ AfterRelease[pc[r]] \in {"idle", "stopping", "stopped"}
        /\ pc[r] = "release" => AfterRelease[pc[r]] = "idle"
    BY <1>5 DEF Release, AfterRelease
  <2>3. TypeOK'
    BY <1>5, <2>2 DEF Release, Goto, LockInv, TypeOK, Stages
  <2>4. calm => pc[r] = "release" /\ Holds(r)
    BY <1>5 DEF Release, AfterRelease, LockInv, Holds
  <2>5. calm => \A s \in Runners : ~Holds(s)'
    BY <2>1, <2>2, <2>4 DEF LockInv, Holds
  <2>6. UNCHANGED <<horizon, seen, thread, calm>>
    BY <1>5 DEF Release
  <2> QED BY <2>1, <2>2, <2>3, <2>4, <2>5, <2>6 DEF LockInv
<1>6. CASE Cancel(r) \/ ThreadEnds(r) \/ Restart(r)
  <2>1. TypeOK'
    BY <1>0, <1>6 DEF Cancel, ThreadEnds, Restart, Goto, LockInv, TypeOK, Stages
  <2>2. ~calm'
    BY <1>6 DEF Cancel, ThreadEnds, Restart, LockInv
  <2>3. \A s \in Runners : pc'[s] = "take" => pc[s] = "take" /\ seen'[s] = seen[s]
    BY <1>6 DEF Cancel, ThreadEnds, Restart, Goto, LockInv, TypeOK
  <2>4. UNCHANGED horizon
    BY <1>6 DEF Cancel, ThreadEnds, Restart
  <2> QED BY <2>1, <2>2, <2>3, <2>4 DEF LockInv
<1>7. CASE Crash(r)
  BY <1>0, <1>7, MovesOn DEF Crash, LockInv, TypeOK, Stages
<1> QED BY <1>1, <1>2, <1>3, <1>4, <1>5, <1>6, <1>7 DEF Step

LEMMA TimeKeepsLock ==
  ASSUME LockInv, Ages \/ Elapse
  PROVE  LockInv'
<1>1. CASE Elapse
  BY <1>1, StageAssumption DEF Elapse, Event, LockInv, TypeOK, Holds
<1>2. CASE Ages
  <2>1. TypeOK'
    BY <1>2 DEF Ages, LockInv, TypeOK
  <2>2. UNCHANGED <<row, pc, seen, mine, thread>> /\ horizon' = horizon + 1 /\ horizon \in Nat
    BY <1>2 DEF Ages, LockInv, TypeOK
  <2>3. \A r \in Runners : seen[r] \in Nat /\ mine[r] \in Nat
    BY DEF LockInv, TypeOK
  <2>4. calm' => calm /\ \A r \in Runners : Holds(r) => mine[r] # horizon + 1
    BY <1>2 DEF Ages
  <2>5. calm' => \A r \in Runners : Holds(r) => mine[r] > horizon'
    BY <2>2, <2>3, <2>4 DEF LockInv
  <2> QED BY <2>1, <2>2, <2>3, <2>4, <2>5 DEF LockInv, Holds
<1> QED BY <1>1, <1>2

\* At most one stage function runs in calm times.
LEMMA AtMostOne ==
  ASSUME LockInv, calm
  PROVE  thread = {} \/ \E r \in Runners : thread = {r}
<1>1. \A r, s \in thread : r = s
  BY DEF LockInv, TypeOK, Holds
<1>2. thread \subseteq Runners
  BY DEF LockInv, TypeOK
<1> QED BY <1>1, <1>2

LEMMA StepTakesTurns ==
  ASSUME LockInv, Next
  PROVE  [Turns!Next]_(IF calm THEN thread ELSE {})
<1> DEFINE working == IF calm THEN thread ELSE {}
<1>1. working = {} \/ \E r \in Runners : working = {r}
  BY AtMostOne
<1>2. CASE working' = {} \/ working' = working
  BY <1>1, <1>2 DEF Turns!Next, Turns!Stop
<1>3. CASE \E r \in Runners : Take(r)
  <2>1. PICK r \in Runners : Take(r)
    BY <1>3
  <2>2. CASE row = seen[r] /\ calm
    <3>1. working = {}
      BY <2>1, <2>2, TakesFromNobody DEF Take
    <3>2. working' = {r}
      BY <2>1, <2>2, <3>1 DEF Take
    <3> QED BY <3>1, <3>2 DEF Turns!Next, Turns!Start
  <2>3. CASE row # seen[r] \/ ~calm
    BY <1>2, <2>1, <2>3 DEF Take
  <2> QED BY <2>2, <2>3
<1>4. CASE \E r \in Runners : Complete(r) \/ Fail(r) \/ Crash(r)
  <2>1. PICK r \in Runners : thread' = thread \ {r} /\ calm' = calm
    BY <1>4 DEF Complete, Fail, Crash
  <2> QED BY <1>1, <1>2, <2>1
<1>5. CASE \E r \in Runners : Cancel(r) \/ ThreadEnds(r)
  BY <1>2, <1>5 DEF Cancel, ThreadEnds, LockInv
<1>6. CASE UNCHANGED <<thread, calm>> \/ Ages
  <2>1. Ages => thread' = thread /\ (calm' => calm)
    BY DEF Ages
  <2>2. CASE ~calm'
    BY <1>2, <2>2
  <2>3. CASE calm' /\ calm /\ thread' = thread
    BY <1>2, <2>3
  <2>4. CASE UNCHANGED <<thread, calm>>
    BY <1>2, <2>4
  <2> QED BY <1>6, <2>1, <2>2, <2>3, <2>4
<1>7. ASSUME NEW r \in Runners,
             Tick(r) \/ Look(r) \/ Mark(r) \/ Release(r) \/ Invoke(r) \/ Restart(r)
      PROVE  UNCHANGED <<thread, calm>>
  BY <1>7 DEF Tick, Look, Mark, Release, Invoke, Restart
<1>8. Elapse => UNCHANGED <<thread, calm>>
  BY DEF Elapse
<1> HIDE DEF working
<1> QED BY <1>3, <1>4, <1>5, <1>6, <1>7, <1>8 DEF Next, Step

\* The locks of any number of daemons and commands implement turns, as long as
\* no run outlives its lock and no loop is cancelled inside one.
THEOREM LockImplementsTurns == Spec => TakeTurns
<1>1. Init => LockInv /\ Turns!Init
  BY StageAssumption DEF Init, LockInv, TypeOK, Stages, Holds, Leftover, Turns!Init
<1>2. LockInv /\ [Next]_vars => LockInv'
  <2>1. CASE UNCHANGED vars
    BY <2>1 DEF vars, LockInv, TypeOK, Holds
  <2>2. CASE Next
    BY <2>2, StepKeepsLock, TimeKeepsLock DEF Next
  <2> QED BY <2>1, <2>2
<1>3. LockInv /\ [Next]_vars => [Turns!Next]_(IF calm THEN thread ELSE {})
  BY StepTakesTurns DEF vars
<1> QED BY <1>1, <1>2, <1>3, PTL DEF Spec, TakeTurns, Turns!Spec

\* Every variable of the lock keeps its type under every fault.
THEOREM LockTypes == Spec => []TypeOK
<1>1. Init => LockInv
  BY StageAssumption DEF Init, LockInv, TypeOK, Stages, Holds, Leftover
<1>2. LockInv /\ [Next]_vars => LockInv'
  <2>1. CASE UNCHANGED vars
    BY <2>1 DEF vars, LockInv, TypeOK, Holds
  <2>2. CASE Next
    BY <2>2, StepKeepsLock, TimeKeepsLock DEF Next
  <2> QED BY <2>1, <2>2
<1>3. LockInv => TypeOK
  BY DEF LockInv
<1> QED BY <1>1, <1>2, <1>3, PTL DEF Spec

-----------------------------------------------------------------------------
(* Sessions and what may be kept of them *)

LEMMA Places1 ==
  /\ Len(Order) \in Nat
  /\ \A s \in Sessions : Place(s) \in 1..Len(Order) /\ Order[Place(s)] = s
<1>1. Order \in Seq(Sessions) /\ Len(Order) \in Nat /\ DOMAIN Order = 1..Len(Order)
  BY DistillAssumption
<1>2. ASSUME NEW s \in Sessions PROVE Place(s) \in 1..Len(Order) /\ Order[Place(s)] = s
  <2>1. \E i \in DOMAIN Order : Order[i] = s
    BY DEF Sessions, Range
  <2> QED BY <1>1, <2>1 DEF Place
<1> QED BY <1>1, <1>2

IdsOf(s) == {IdOf(s, 1), IdOf(s, 2), IdOf(s, 3)}

\* The ids of a session are its own.
LEMMA IdsApart ==
  /\ \A s \in Sessions : IdsOf(s) \subseteq MemoryIds /\ 0 \notin IdsOf(s)
  /\ \A s, t \in Sessions : s # t => IdsOf(s) \cap IdsOf(t) = {}
<1>1. /\ Len(Order) \in Nat
      /\ \A s \in Sessions : Place(s) \in 1..Len(Order) /\ Order[Place(s)] = s
  BY Places1
<1>2. ASSUME NEW s \in Sessions PROVE IdsOf(s) \subseteq MemoryIds /\ 0 \notin IdsOf(s)
  <2>1. Place(s) \in 1..Len(Order)
    BY <1>1
  <2> QED BY <1>1, <2>1 DEF IdsOf, IdOf, MemoryIds
<1>3. ASSUME NEW s \in Sessions, NEW t \in Sessions, s # t PROVE IdsOf(s) \cap IdsOf(t) = {}
  <2>1. Place(s) \in Int /\ Place(t) \in Int /\ Place(s) # Place(t)
    BY <1>1, <1>3
  <2> QED BY <2>1 DEF IdsOf, IdOf
<1> QED BY <1>2, <1>3

\* A run takes each session once, and the loop none that is left alone.
LEMMA CandidatesAre ==
  ASSUME DistillTypeOK, NEW window, NEW forced \in BOOLEAN, NEW refresh \in BOOLEAN,
         NEW all \in Candidates(window, forced, refresh)
  PROVE  /\ all \in Seq(Candidate)
         /\ \A i, j \in DOMAIN all : all[i].session = all[j].session => i = j
         /\ ~forced => \A i \in DOMAIN all : ~Excluded(all[i].session)
<1> DEFINE open == {s \in Sessions : Recent(s, window) /\ Meaningful(s) /\ (forced \/ ~Excluded(s))}
           fresh == {s \in open : forced \/ Covering(s) = NoFile}
           stale == {s \in open : ~forced /\ refresh /\ Covering(s) # NoFile /\ Stale(s, Covering(s))}
           rank(s) == IF s \in fresh THEN Place(s) ELSE Len(Order) + Place(s)
<1>1. PICK n \in 1..Len(Order) : \E list \in [1..n -> fresh \cup stale] :
        /\ \A i, j \in DOMAIN list : i < j => rank(list[i]) < rank(list[j])
        /\ all = [i \in DOMAIN list |-> CandidateOf(list[i])]
  BY DEF Candidates
<1>2. PICK list \in [1..n -> fresh \cup stale] :
        /\ \A i, j \in DOMAIN list : i < j => rank(list[i]) < rank(list[j])
        /\ all = [i \in DOMAIN list |-> CandidateOf(list[i])]
  BY <1>1
<1>3. \A s \in fresh \cup stale : s \in Sessions /\ (~forced => ~Excluded(s))
  OBVIOUS
<1>4. \A s \in fresh \cup stale : rank(s) \in Int
  <2>1. Len(Order) \in Int /\ \A s \in Sessions : Place(s) \in Int
    BY Places1
  <2> QED BY <1>3, <2>1
<1> HIDE DEF open, fresh, stale, rank
<1>5. n \in Nat /\ DOMAIN list = 1..n /\ \A i \in 1..n : list[i] \in fresh \cup stale
  BY <1>2, Places1
<1>6. \A i, j \in 1..n : list[i] = list[j] => i = j
  BY <1>2, <1>4, <1>5
<1>7. \A s \in Sessions : CandidateOf(s) \in Candidate /\ CandidateOf(s).session = s
  BY DEF CandidateOf, Candidate, DistillTypeOK
<1>8. all \in [1..n -> Candidate] /\ \A i \in 1..n : all[i].session = list[i]
  BY <1>2, <1>3, <1>5, <1>7
<1>9. all \in Seq(Candidate) /\ DOMAIN all = 1..n
  BY <1>5, <1>8
<1> QED BY <1>3, <1>5, <1>6, <1>8, <1>9

\* What a step leaves of the lists of a run.
LEMMA TailOf ==
  ASSUME NEW S, NEW list \in Seq(S), list # << >>
  PROVE  /\ Head(list) \in S /\ Tail(list) \in Seq(S)
         /\ DOMAIN list = 1..Len(list) /\ Len(list) \in Nat \ {0}
         /\ DOMAIN Tail(list) = 1..Len(list) - 1
         /\ Head(list) = list[1]
         /\ \A i \in DOMAIN Tail(list) : i + 1 \in DOMAIN list /\ Tail(list)[i] = list[i + 1]
<1>1. /\ Len(list) \in Nat \ {0} /\ DOMAIN list = 1..Len(list) /\ Head(list) = list[1] /\ list[1] \in S
      /\ Tail(list) \in Seq(S) /\ Len(Tail(list)) = Len(list) - 1
  BY HeadTailProperties
<1>2. \A i \in 1..Len(Tail(list)) : Tail(list)[i] = list[i + 1]
  BY HeadTailProperties
<1>3. DOMAIN Tail(list) = 1..Len(Tail(list))
  BY <1>1
<1>4. \A i \in 1..Len(list) - 1 : i + 1 \in 1..Len(list)
  BY <1>1
<1> QED BY <1>1, <1>2, <1>3, <1>4

LEMMA ItemTyped ==
  ASSUME DistillTypeOK, NEW p \in Writers, runner[p].plan # << >>
  PROVE  /\ Item(p) \in Candidate /\ Item(p).session \in Sessions
         /\ Tail(runner[p].plan) \in Seq(Candidate)
<1>1. runner[p].plan \in Seq(Candidate)
  BY DEF DistillTypeOK, Job
<1>2. Item(p) \in Candidate /\ Tail(runner[p].plan) \in Seq(Candidate)
  BY <1>1, TailOf DEF Item
<1> QED BY <1>2 DEF Candidate

-----------------------------------------------------------------------------
(* Types *)

\* A step of one writer: who had the lock has it still.
LEMMA JobTyped ==
  ASSUME DistillTypeOK, NEW p \in Writers, NEW job \in Job, runner' = [runner EXCEPT ![p] = job],
         lock' = lock \/ lock = p \/ lock = "free",
         job.pc \in {"apply"} \cup Writing \/ (p = "loop" /\ job.pc # "rest") => lock' = p,
         job.pc \in Writing => job.plan # << >>
  PROVE  runner' \in [Writers -> Job] /\ Locked'
<1>1. \A q \in Writers : runner'[q] = IF q = p THEN job ELSE runner[q]
  BY DEF DistillTypeOK
<1>2. runner' \in [Writers -> Job]
  BY DEF DistillTypeOK
<1>3. "free" \notin Writers
  BY DEF Writers
<1>4. ASSUME NEW q \in Writers
      PROVE  /\ runner'[q].pc \in {"apply"} \cup Writing \/ (q = "loop" /\ runner'[q].pc # "rest") => lock' = q
             /\ runner'[q].pc \in Writing => runner'[q].plan # << >>
  <2>1. CASE q = p
    BY <1>1, <2>1
  <2>2. CASE q # p
    BY <1>1, <1>3, <2>2 DEF DistillTypeOK, Locked
  <2> QED BY <2>1, <2>2
<1> QED BY <1>2, <1>4 DEF Locked

\* The next proposal is taken up.
LEMMA NextItemTyped ==
  ASSUME DistillTypeOK, NEW p \in Writers, runner[p].plan # << >>, lock = p, NextItem(p), UNCHANGED lock
  PROVE  runner' \in [Writers -> Job] /\ Locked'
<1> DEFINE job == [runner[p] EXCEPT !.pc = "apply", !.plan = Tail(runner[p].plan), !.id = 0, !.gone = 0]
<1>1. runner' = [runner EXCEPT ![p] = job]
  BY DEF NextItem, DistillTypeOK
<1>2. job \in Job /\ job.pc = "apply"
  BY ItemTyped DEF DistillTypeOK, Job
<1>3. job.pc \notin Writing
  BY <1>2 DEF Writing
<1> HIDE DEF job
<1> QED BY <1>1, <1>2, <1>3, JobTyped

LEMMA RestTyped == AtRest \in Job /\ AtRest.pc = "rest"
<1>1. << >> \in Seq(Candidate)
  OBVIOUS
<1> QED BY <1>1 DEF AtRest, Job

LEMMA GoesToTyped ==
  ASSUME DistillTypeOK, NEW p \in Writers, runner[p].plan # << >>, lock = p, UNCHANGED lock,
         NEW pc1 \in Writing, NEW id \in MemoryIds \cup {0}, NEW gone \in MemoryIds \cup {0},
         runner' = [runner EXCEPT ![p] = [runner[p] EXCEPT !.pc = pc1, !.id = id, !.gone = gone]]
  PROVE  runner' \in [Writers -> Job] /\ Locked'
<1> DEFINE job == [runner[p] EXCEPT !.pc = pc1, !.id = id, !.gone = gone]
<1>1. job \in Job /\ job.plan = runner[p].plan
  BY DEF DistillTypeOK, Job
<1> HIDE DEF job
<1> QED BY <1>1, JobTyped DEF job

\* Where a writer of a proposal is, and what it has.
LEMMA AtWork ==
  ASSUME DistillTypeOK, NEW p \in Writers, runner[p].pc \in {"apply"} \cup Writing, runner[p].plan # << >>
  PROVE  lock = p /\ Item(p) \in Candidate /\ Item(p).session \in Sessions
BY ItemTyped DEF DistillTypeOK, Locked

LEMMA FileTyped ==
  ASSUME DistillTypeOK, NEW s \in Sessions, NEW place \in Places
  PROVE  /\ files[s][place] \in File \cup {NoFile} /\ files[s][place].id \in MemoryIds \cup {0}
         /\ files[s][place] # NoFile => files[s][place].id \in MemoryIds
<1>1. files[s][place] \in File \cup {NoFile}
  BY DEF DistillTypeOK
<1>2. CASE files[s][place] \in File
  BY <1>2 DEF File
<1>3. CASE files[s][place] = NoFile
  BY <1>3 DEF NoFile
<1> QED BY <1>1, <1>2, <1>3

LEMMA ExistingTyped ==
  ASSUME DistillTypeOK, NEW s \in Sessions
  PROVE  Existing(s) \in MemoryIds
<1>1. "own" \in Places /\ "other" \in Places
  BY DEF Places
<1>2. IdOf(s, 3) \in MemoryIds
  BY IdsApart DEF IdsOf
<1> QED BY <1>1, <1>2, FileTyped DEF Existing

LEMMA LeastOf ==
  \A m, n \in Int : Least(m, n) \in {m, n} /\ Least(m, n) <= m /\ Least(m, n) <= n
BY DEF Least

LEMMA MaterialTyped ==
  ASSUME NEW c \in Candidate, NEW id \in MemoryIds
  PROVE  Materialize(c, id) \in File
<1>1. c.len \in 0..MaxWords /\ c.cap \in 0..MaxCap /\ MaxWords \in Nat /\ MaxCap \in Nat
  BY DistillAssumption DEF Candidate
<1>2. Least(c.len, c.cap) \in 0..MaxWords + MaxCap
  BY <1>1 DEF Least
<1> QED BY <1>1, <1>2 DEF Materialize, File

LEMMA Started ==
  ASSUME DistillTypeOK,
         StartLoop \/ \E window \in {0, Window}, forced, refresh \in BOOLEAN : StartCommand(window, forced, refresh)
  PROVE  DistillTypeOK'
<1>1. CASE StartLoop
  <2>1. PICK all \in Candidates(Window, FALSE, TRUE) :
          runner' = [runner EXCEPT !["loop"] = [AtRest EXCEPT !.pc = "call",
                       !.todo = SubSeq(all, 1, Least(PerCycle, Len(all)))]]
    BY <1>1 DEF StartLoop
  <2> DEFINE n == Least(PerCycle, Len(all))
             todo == SubSeq(all, 1, n)
             job == [AtRest EXCEPT !.pc = "call", !.todo = todo]
  <2>2. all \in Seq(Candidate)
    <3>1. FALSE \in BOOLEAN /\ TRUE \in BOOLEAN
      OBVIOUS
    <3>2. all \in Candidates(Window, FALSE, TRUE)
      BY <2>1
    <3> HIDE DEF n, todo, job
    <3> QED BY <3>1, <3>2, CandidatesAre, ZenonT(30)
  <2>3. n \in Nat /\ n <= Len(all) /\ Len(all) \in Nat
    <3>1. PerCycle \in Nat /\ Len(all) \in Nat
      BY <2>2, DistillAssumption
    <3> QED BY <3>1, LeastOf
  <2> HIDE DEF n
  <2>4. todo \in Seq(Candidate)
    BY <2>2, <2>3, SubSeqProperties
  <2> HIDE DEF todo
  <2>5. job \in Job /\ job.pc = "call"
    BY <2>4, RestTyped DEF Job
  <2>6. job.pc \notin {"apply"} \cup Writing /\ "loop" \in Writers
    BY <2>5 DEF Writing, Writers
  <2>7. runner' = [runner EXCEPT !["loop"] = job] /\ lock = "free" /\ lock' = "loop"
    BY <1>1, <2>1 DEF StartLoop, n, todo
  <2> HIDE DEF job
  <2>8. runner' \in [Writers -> Job] /\ Locked'
    BY <2>5, <2>6, <2>7, JobTyped
  <2> QED BY <1>1, <2>6, <2>8 DEF StartLoop, Texts, Stored, DistillTypeOK
<1>2. ASSUME NEW window \in {0, Window}, NEW forced \in BOOLEAN, NEW refresh \in BOOLEAN,
             StartCommand(window, forced, refresh)
      PROVE  DistillTypeOK'
  <2>1. PICK all \in Candidates(window, forced, refresh) :
          runner' = [runner EXCEPT !["command"] = [AtRest EXCEPT !.pc = "call", !.todo = all]]
    BY <1>2 DEF StartCommand
  <2> DEFINE job == [AtRest EXCEPT !.pc = "call", !.todo = all]
  <2>2. job \in Job /\ job.pc = "call"
    <3>1. all \in Seq(Candidate)
      BY CandidatesAre
    <3> QED BY <3>1, RestTyped DEF Job
  <2>3. job.pc \notin {"apply"} \cup Writing /\ "command" \in Writers
    BY <2>2 DEF Writing, Writers
  <2> HIDE DEF job
  <2>4. runner' \in [Writers -> Job] /\ Locked'
    BY <1>2, <2>1, <2>2, <2>3, JobTyped DEF StartCommand, job
  <2>5. left' \in [runs : 0..MaxRuns, faults : 0..MaxFaults]
    <3>1. left.runs \in 0..MaxRuns /\ left.runs > 0 /\ MaxRuns \in Nat /\ left.faults \in 0..MaxFaults
      BY <1>2, DistillAssumption DEF StartCommand, DistillTypeOK
    <3>2. left' = [left EXCEPT !.runs = left.runs - 1]
      BY <1>2 DEF StartCommand
    <3>3. left.runs - 1 \in 0..MaxRuns
      BY <3>1
    <3> QED BY <3>2, <3>3 DEF DistillTypeOK
  <2> QED BY <1>2, <2>4, <2>5 DEF StartCommand, Texts, Stored, DistillTypeOK
<1> QED BY <1>1, <1>2
\* A fault uses up one of those there may be.
LEMMA FaultTyped ==
  ASSUME DistillTypeOK, left.faults > 0, left' = [left EXCEPT !.faults = @ - 1]
  PROVE  /\ left' \in [runs : 0..MaxRuns, faults : 0..MaxFaults]
         /\ left'.faults = left.faults - 1
<1>1. left.faults \in 0..MaxFaults /\ MaxFaults \in Nat /\ left.runs \in 0..MaxRuns
  BY DistillAssumption DEF DistillTypeOK
<1>2. left.faults - 1 \in 0..MaxFaults
  BY <1>1
<1>3. left' = [left EXCEPT !.faults = left.faults - 1]
  OBVIOUS
<1> QED BY <1>2, <1>3 DEF DistillTypeOK


LEMMA Constants == TooMany \in Nat /\ MaxAttempts \in Nat \ {0} /\ MaxFaults \in Nat /\ MaxTime \in Nat
BY DistillAssumption DEF TooMany

\* A call is answered, or it is not.
LEMMA Asked ==
  ASSUME DistillTypeOK, NEW p \in Writers, Answer(p) \/ NoAnswer(p)
  PROVE  DistillTypeOK'
<1> DEFINE todo == runner[p].todo
           plan == runner[p].plan
           c == Head(todo)
<1>1. /\ runner[p].pc = "call" /\ todo # << >> /\ UNCHANGED lock
      /\ runner[p] \in Job /\ todo \in Seq(Candidate) /\ plan \in Seq(Candidate)
  BY DEF Answer, NoAnswer, DistillTypeOK, Job
<1>2. c \in Candidate /\ Tail(todo) \in Seq(Candidate)
  BY <1>1, TailOf
<1>3. p = "loop" => lock = p
  BY <1>1 DEF DistillTypeOK, Locked
<1>4. ASSUME NEW more \in Seq(Candidate),
             runner' = [runner EXCEPT ![p] = [runner[p] EXCEPT !.todo = Tail(todo), !.plan = more]]
      PROVE  runner' \in [Writers -> Job] /\ Locked'
  <2> DEFINE job == [runner[p] EXCEPT !.todo = Tail(todo), !.plan = more]
  <2>1. job \in Job /\ job.pc = "call"
    BY <1>1, <1>2 DEF Job
  <2>2. job.pc \notin {"apply"} \cup Writing
    BY <2>1 DEF Writing
  <2>3. runner' = [runner EXCEPT ![p] = job]
    BY <1>4
  <2> HIDE DEF job
  <2> QED BY <1>1, <1>3, <2>1, <2>2, <2>3, JobTyped
<1>5. CASE Answer(p)
  <2>1. PICK answered \in BOOLEAN :
          /\ runner' = [runner EXCEPT ![p].todo = Tail(@),
                                      ![p].plan = Append(@, [c EXCEPT !.answered = answered])]
          /\ wasted' = IF p = "loop" /\ ~answered
                       THEN [wasted EXCEPT ![c.session] = Least(@ + 1, TooMany)] ELSE wasted
    BY <1>5 DEF Answer
  <2> DEFINE more == Append(plan, [c EXCEPT !.answered = answered])
  <2>2. [c EXCEPT !.answered = answered] \in Candidate /\ c.session \in Sessions
    BY <1>2 DEF Candidate
  <2>3. more \in Seq(Candidate)
    BY <1>1, <2>2
  <2>4. runner' = [runner EXCEPT ![p] = [runner[p] EXCEPT !.todo = Tail(todo), !.plan = more]]
    BY <2>1 DEF DistillTypeOK
  <2> HIDE DEF more
  <2>5. runner' \in [Writers -> Job] /\ Locked'
    BY <1>4, <2>3, <2>4
  <2>6. wasted' \in [Sessions -> 0..TooMany]
    <3>1. wasted[c.session] \in 0..TooMany
      BY <2>2 DEF DistillTypeOK
    <3>2. Least(wasted[c.session] + 1, TooMany) \in 0..TooMany
      BY <3>1, Constants DEF Least
    <3> QED BY <2>1, <2>2, <3>2 DEF DistillTypeOK
  <2> QED BY <1>5, <2>5, <2>6 DEF Answer, Texts, Stored, DistillTypeOK
<1>6. CASE NoAnswer(p)
  <2>1. runner' = [runner EXCEPT ![p] = [runner[p] EXCEPT !.todo = Tail(todo), !.plan = plan]]
    BY <1>6 DEF NoAnswer, DistillTypeOK, Job
  <2>2. runner' \in [Writers -> Job] /\ Locked'
    BY <1>1, <1>4, <2>1
  <2>3. left' \in [runs : 0..MaxRuns, faults : 0..MaxFaults]
    BY <1>6, FaultTyped DEF NoAnswer
  <2> QED BY <1>6, <2>2, <2>3 DEF NoAnswer, Texts, Stored, DistillTypeOK
<1> QED BY <1>5, <1>6

\* The lock is taken with the plan made, and given back with the last of it.
LEMMA Handed ==
  ASSUME DistillTypeOK, NEW p \in Writers, Planned(p) \/ Unlock(p) \/ Die(p)
  PROVE  DistillTypeOK'
<1>1. runner[p] \in Job
  BY DEF DistillTypeOK
<1>2. ASSUME runner' = [runner EXCEPT ![p] = AtRest], lock' = lock \/ lock = p \/ lock = "free"
      PROVE  runner' \in [Writers -> Job] /\ Locked'
  <2>1. AtRest.pc \notin {"apply"} \cup Writing
    BY RestTyped DEF Writing
  <2> QED BY <1>2, <2>1, RestTyped, JobTyped
<1>3. CASE Planned(p)
  <2>1. CASE p = "loop" \/ (lock = "free" /\ runner[p].plan # << >>)
    <3> DEFINE job == [runner[p] EXCEPT !.pc = "apply"]
    <3>1. runner' = [runner EXCEPT ![p] = job] /\ lock' = p
      BY <1>3, <2>1 DEF Planned, DistillTypeOK
    <3>2. job \in Job /\ job.pc = "apply" /\ job.pc \notin Writing
      BY <1>1 DEF Job, Writing
    <3>3. lock = p \/ lock = "free"
      BY <1>3, <2>1 DEF Planned, DistillTypeOK, Locked
    <3> HIDE DEF job
    <3>4. runner' \in [Writers -> Job] /\ Locked'
      BY <3>1, <3>2, <3>3, JobTyped
    <3> QED BY <1>3, <3>1, <3>4 DEF Planned, Texts, Stored, DistillTypeOK
  <2>2. CASE ~ (p = "loop" \/ (lock = "free" /\ runner[p].plan # << >>))
    <3>1. runner' = [runner EXCEPT ![p] = AtRest] /\ lock' = lock
      BY <1>3, <2>2 DEF Planned
    <3> QED BY <1>2, <1>3, <3>1 DEF Planned, Texts, Stored, DistillTypeOK
  <2> QED BY <2>1, <2>2
<1>4. CASE Unlock(p)
  <2>1. runner' = [runner EXCEPT ![p] = AtRest] /\ lock' = "free" /\ lock = p
    BY <1>4 DEF Unlock, DistillTypeOK, Locked
  <2> QED BY <1>2, <1>4, <2>1 DEF Unlock, Texts, Stored, DistillTypeOK
<1>5. CASE Die(p)
  <2>1. runner' = [runner EXCEPT ![p] = AtRest] /\ lock' = IF lock = p THEN "free" ELSE lock
    BY <1>5 DEF Die
  <2>2. left' \in [runs : 0..MaxRuns, faults : 0..MaxFaults]
    BY <1>5, FaultTyped DEF Die
  <2> QED BY <1>2, <1>5, <2>1, <2>2 DEF Die, Texts, Stored, DistillTypeOK
<1> QED BY <1>3, <1>4, <1>5

LEMMA FailsTyped ==
  ASSUME DistillTypeOK, NEW s \in Sessions, RecordFailure(s)
  PROVE  fails' \in [Sessions -> [count : 0..MaxAttempts, at : 0..MaxTime]]
<1> DEFINE fail == [count |-> Least(fails[s].count + 1, MaxAttempts), at |-> now]
<1>1. fails[s].count \in 0..MaxAttempts /\ now \in 0..MaxTime
  BY DEF DistillTypeOK
<1>2. Least(fails[s].count + 1, MaxAttempts) \in 0..MaxAttempts
  BY <1>1, Constants DEF Least
<1>3. fail \in [count : 0..MaxAttempts, at : 0..MaxTime]
  BY <1>1, <1>2
<1>4. fails' = [fails EXCEPT ![s] = fail]
  BY DEF RecordFailure
<1> HIDE DEF fail
<1> QED BY <1>3, <1>4 DEF DistillTypeOK

\* The end of a proposal: it is passed over, written, or given up.
LEMMA ItemDone ==
  ASSUME DistillTypeOK, NEW p \in Writers, PassOver(p) \/ ClearFailure(p) \/ ApplyError(p)
  PROVE  DistillTypeOK'
<1>1. /\ runner[p].pc \in {"apply"} \cup Writing /\ runner[p].plan # << >>
      /\ NextItem(p) /\ UNCHANGED lock
  BY DEF PassOver, ClearFailure, ApplyError, Applies, Writing
<1>2. lock = p /\ Item(p) \in Candidate /\ Item(p).session \in Sessions
  BY <1>1, AtWork
<1>3. runner' \in [Writers -> Job] /\ Locked'
  BY <1>1, <1>2, NextItemTyped
<1>4. CASE PassOver(p)
  <2>1. fails' \in [Sessions -> [count : 0..MaxAttempts, at : 0..MaxTime]]
    BY <1>2, <1>4, FailsTyped DEF PassOver, DistillTypeOK
  <2>2. UNCHANGED <<words, last, cap, now, files, rows, left, wasted>> /\ lock' = lock
    BY <1>4 DEF PassOver, Texts, Stored
  <2> QED BY <1>3, <2>1, <2>2 DEF DistillTypeOK
<1>5. CASE ClearFailure(p)
  <2>1. /\ fails' \in [Sessions -> [count : 0..MaxAttempts, at : 0..MaxTime]]
        /\ wasted' \in [Sessions -> 0..TooMany]
    <3>1. [count |-> 0, at |-> 0] \in [count : 0..MaxAttempts, at : 0..MaxTime] /\ 0 \in 0..TooMany
      BY Constants
    <3>2. /\ fails' = [fails EXCEPT ![Item(p).session] = [count |-> 0, at |-> 0]] \/ fails' = fails
          /\ wasted' = [wasted EXCEPT ![Item(p).session] = 0] \/ wasted' = wasted
      BY <1>5 DEF ClearFailure
    <3>3. fails' \in [Sessions -> [count : 0..MaxAttempts, at : 0..MaxTime]]
      BY <3>1, <3>2 DEF DistillTypeOK
    <3> QED BY <3>1, <3>2, <3>3 DEF DistillTypeOK
  <2>2. UNCHANGED <<words, last, cap, now, files, rows, left>> /\ lock' = lock
    BY <1>5 DEF ClearFailure, Texts, Stored
  <2> QED BY <1>3, <2>1, <2>2 DEF DistillTypeOK
<1>6. CASE ApplyError(p)
  <2>1. left' \in [runs : 0..MaxRuns, faults : 0..MaxFaults]
    BY <1>6, FaultTyped DEF ApplyError
  <2> QED BY <1>3, <1>6, <2>1 DEF ApplyError, Texts, Stored, DistillTypeOK
<1> QED BY <1>4, <1>5, <1>6

LEMMA FilePut ==
  ASSUME DistillTypeOK, NEW s \in Sessions, NEW place \in Places, NEW file \in File \cup {NoFile},
         files' = [files EXCEPT ![s][place] = file]
  PROVE  /\ files' \in [Sessions -> [Places -> File \cup {NoFile}]]
         /\ \A t \in Sessions, x \in Places :
              files'[t][x] = IF t = s /\ x = place THEN file ELSE files[t][x]
<1> DEFINE mine1 == [files[s] EXCEPT ![place] = file]
<1>1. files[s] \in [Places -> File \cup {NoFile}]
  BY DEF DistillTypeOK
<1>2. mine1 \in [Places -> File \cup {NoFile}] /\ \A x \in Places : mine1[x] = IF x = place THEN file ELSE files[s][x]
  BY <1>1
<1>3. files' = [files EXCEPT ![s] = mine1]
  BY DEF DistillTypeOK
<1> HIDE DEF mine1
<1> QED BY <1>2, <1>3 DEF DistillTypeOK

\* What a write does to the files, the rows and the writer.
LEMMA WriteTyped ==
  ASSUME DistillTypeOK, NEW p \in Writers, WriteFile(p) \/ UpsertRow(p) \/ Tidy(p) \/ Unrow(p)
  PROVE  DistillTypeOK'
<1> DEFINE s == Item(p).session
           other == files[s]["other"]
<1>1. /\ runner[p].pc \in {"apply"} \cup Writing /\ runner[p].plan # << >>
      /\ UNCHANGED <<words, last, cap, now, fails, lock, left, wasted>>
  BY DEF WriteFile, UpsertRow, Tidy, Unrow, Applies, Writing, Texts
<1>2. lock = p /\ Item(p) \in Candidate /\ s \in Sessions
  BY <1>1, AtWork
<1>3. /\ runner[p] \in Job /\ runner[p].id \in MemoryIds \cup {0} /\ runner[p].gone \in MemoryIds \cup {0}
      /\ other \in File \cup {NoFile} /\ other.id \in MemoryIds \cup {0}
      /\ "own" \in Places /\ "other" \in Places
  BY <1>2, FileTyped DEF DistillTypeOK, Job, Places
<1>4. Writing = {"index", "tidy", "unrow", "clear"}
  BY DEF Writing
<1>5. ASSUME NEW pc1 \in Writing, NEW id \in MemoryIds \cup {0}, NEW gone \in MemoryIds \cup {0},
             runner' = [runner EXCEPT ![p] = [runner[p] EXCEPT !.pc = pc1, !.id = id, !.gone = gone]]
      PROVE  runner' \in [Writers -> Job] /\ Locked'
  BY <1>1, <1>2, <1>5, GoesToTyped
<1>6. ASSUME NEW pc1 \in Writing, GoesTo(p, pc1) PROVE runner' \in [Writers -> Job] /\ Locked'
  <2>1. runner' = [runner EXCEPT ![p] =
                     [runner[p] EXCEPT !.pc = pc1, !.id = runner[p].id, !.gone = runner[p].gone]]
    BY <1>3, <1>6 DEF GoesTo, DistillTypeOK, Job
  <2> QED BY <1>3, <1>5, <2>1
<1>7. NoRow \in Row
  <2>1. Order \in Seq(Sessions) /\ Len(Order) \in Nat /\ DOMAIN Order = 1..Len(Order)
    BY DistillAssumption
  <2>2. Place(s) \in 1..Len(Order)
    BY <1>2, Places1
  <2>3. Order[1] \in Sessions
    BY <2>1, <2>2
  <2> QED BY <2>3 DEF NoRow, Row
<1>8. CASE WriteFile(p)
  <2>1. Existing(s) \in MemoryIds
    BY <1>2, ExistingTyped
  <2>2. Materialize(Item(p), Existing(s)) \in File
    BY <1>2, <2>1, MaterialTyped
  <2>3. files' = [files EXCEPT ![s]["own"] = Materialize(Item(p), Existing(s))]
    BY <1>8 DEF WriteFile
  <2>4. files' \in [Sessions -> [Places -> File \cup {NoFile}]]
    BY <1>2, <1>3, <2>2, <2>3, FilePut
  <2>5. runner' = [runner EXCEPT ![p] =
                     [runner[p] EXCEPT !.pc = "index", !.id = Existing(s), !.gone = runner[p].gone]]
    BY <1>3, <1>8 DEF WriteFile, DistillTypeOK, Job
  <2>6. runner' \in [Writers -> Job] /\ Locked'
    BY <1>3, <1>4, <1>5, <2>1, <2>5
  <2> QED BY <1>1, <1>8, <2>4, <2>6 DEF WriteFile, DistillTypeOK
<1>9. CASE UpsertRow(p)
  <2>1. rows' \in [MemoryIds -> Row]
    <3>1. [session |-> s, place |-> "own"] \in Row
      BY <1>2, <1>3 DEF Row
    <3>2. PICK row1 \in Row : rows' = [i \in MemoryIds |-> IF i = runner[p].id THEN row1
                                                      ELSE IF rows[i] = row1 THEN NoRow ELSE rows[i]]
      BY <1>9, <3>1 DEF UpsertRow
    <3> QED BY <1>7, <3>2 DEF DistillTypeOK
  <2>2. runner' \in [Writers -> Job] /\ Locked'
    <3>1. GoesTo(p, "tidy") /\ "tidy" \in Writing
      BY <1>4, <1>9 DEF UpsertRow
    <3> QED BY <1>6, <3>1
  <2> QED BY <1>1, <1>9, <2>1, <2>2 DEF UpsertRow, DistillTypeOK
<1>10. CASE Tidy(p)
  <2>0. /\ files' = [files EXCEPT ![s]["other"] = NoFile] \/ files' = files
        /\ \/ GoesTo(p, "clear")
           \/ runner' = [runner EXCEPT ![p].pc = "unrow", ![p].gone = other.id]
    <3>1. CASE other # NoFile /\ ~other.hand
      BY <1>10, <3>1 DEF Tidy
    <3>2. CASE ~ (other # NoFile /\ ~other.hand)
      BY <1>10, <3>2 DEF Tidy
    <3> QED BY <3>1, <3>2
  <2> HIDE DEF s, other
  <2>1. files' \in [Sessions -> [Places -> File \cup {NoFile}]]
    BY <1>2, <1>3, <2>0, FilePut DEF DistillTypeOK
  <2>2. \/ GoesTo(p, "clear")
        \/ runner' = [runner EXCEPT ![p].pc = "unrow", ![p].gone = other.id]
    BY <2>0
  <2>3. ASSUME runner' = [runner EXCEPT ![p].pc = "unrow", ![p].gone = other.id]
        PROVE  runner' \in [Writers -> Job] /\ Locked'
    <3>1. runner' = [runner EXCEPT ![p] =
                       [runner[p] EXCEPT !.pc = "unrow", !.id = runner[p].id, !.gone = other.id]]
      BY <1>3, <2>3 DEF DistillTypeOK, Job
    <3>2. "unrow" \in Writing
      BY <1>4
    <3> QED BY <1>3, <1>5, <3>1, <3>2
  <2>4. runner' \in [Writers -> Job] /\ Locked'
    <3>1. "clear" \in Writing
      BY <1>4
    <3> QED BY <1>6, <2>2, <2>3, <3>1
  <2>5. rows' = rows
    BY <1>10 DEF Tidy
  <2> QED BY <1>1, <2>1, <2>4, <2>5 DEF DistillTypeOK
<1>11. CASE Unrow(p)
  <2>1. rows' \in [MemoryIds -> Row]
    BY <1>7, <1>11 DEF Unrow, DistillTypeOK
  <2>2. runner' \in [Writers -> Job] /\ Locked'
    BY <1>4, <1>6, <1>11 DEF Unrow
  <2> QED BY <1>1, <1>11, <2>1, <2>2 DEF Unrow, DistillTypeOK
<1> QED BY <1>8, <1>9, <1>10, <1>11

LEMMA SurroundTyped ==
  ASSUME DistillTypeOK, Surroundings
  PROVE  DistillTypeOK'
<1>1. ASSUME NEW s \in Sessions, Grow(s) PROVE DistillTypeOK'
  <2>1. words[s] \in 0..MaxWords /\ words[s] < MaxWords /\ MaxWords \in Nat
    BY <1>1, DistillAssumption DEF Grow, DistillTypeOK
  <2>2. words' = [words EXCEPT ![s] = words[s] + 1] /\ words[s] + 1 \in 0..MaxWords
    BY <1>1, <2>1 DEF Grow
  <2>3. last' \in [Sessions -> Int]
    <3>1. now \in Int
      BY DistillAssumption DEF DistillTypeOK
    <3> QED BY <1>1, <3>1 DEF Grow, DistillTypeOK
  <2> QED BY <1>1, <2>2, <2>3 DEF Grow, Stored, DistillTypeOK, Locked
<1>2. CASE RaiseCap
  <2>1. cap' \in 0..MaxCap
    <3>1. MaxCap \in Nat /\ cap \in 0..MaxCap
      BY DistillAssumption DEF DistillTypeOK
    <3>2. cap < MaxCap /\ cap' = cap + 1
      BY <1>2 DEF RaiseCap
    <3> QED BY <3>1, <3>2
  <2> QED BY <1>2, <2>1 DEF RaiseCap, Stored, DistillTypeOK, Locked
<1>3. CASE TimePasses
  <2>1. now' \in 0..MaxTime
    BY <1>3, DistillAssumption, SMTT(30) DEF TimePasses, DistillTypeOK
  <2> QED BY <1>3, <2>1 DEF TimePasses, Stored, DistillTypeOK, Locked
<1> QED BY <1>1, <1>2, <1>3 DEF Surroundings

LEMMA TypeStep == DistillTypeOK /\ [DistillNext]_distillVars => DistillTypeOK'
<1> SUFFICES ASSUME DistillTypeOK, [DistillNext]_distillVars PROVE DistillTypeOK'
  OBVIOUS
<1>1. CASE \/ StartLoop
          \/ \E window \in {0, Window}, forced, refresh \in BOOLEAN : StartCommand(window, forced, refresh)
  BY <1>1, Started
<1>2. ASSUME NEW p \in Writers, Run(p) \/ NoAnswer(p) \/ ApplyError(p) \/ Die(p)
      PROVE  DistillTypeOK'
  BY <1>2, Asked, Handed, ItemDone, WriteTyped DEF Run
<1>3. CASE Surroundings
  BY <1>3, SurroundTyped
<1>4. CASE UNCHANGED distillVars
  BY <1>4 DEF distillVars, DistillTypeOK, Locked
<1> QED BY <1>1, <1>2, <1>3, <1>4 DEF DistillNext

LEMMA OldTyped ==
  ASSUME NEW s \in Sessions, NEW found \in {"none", "old", "pair", "twin", "hand"}
  PROVE  /\ OldFiles(s, found) \in [Places -> File \cup {NoFile}]
         /\ \A place \in Places : /\ OldFiles(s, found)[place].id \in IdsOf(s) \cup {0}
                                  /\ OldFiles(s, found)[place].snap = 0
                                  /\ OldFiles(s, found)[place].id = 0 => OldFiles(s, found)[place] = NoFile
<1>1. ASSUME NEW id \in IdsOf(s), NEW when \in 0..2, NEW hand \in BOOLEAN
      PROVE  Old(id, when, hand) \in File /\ Old(id, when, hand).id = id /\ Old(id, when, hand).snap = 0
  <2>1. id \in MemoryIds
    BY IdsApart
  <2>2. 0 \in 0..MaxWords /\ DefaultCap \in 0..MaxWords + MaxCap
    BY DistillAssumption
  <2> QED BY <2>1, <2>2 DEF Old, File
<1>2. NoFile.id = 0 /\ NoFile.snap = 0
  BY DEF NoFile
<1>3. /\ IdOf(s, 1) \in IdsOf(s) /\ IdOf(s, 2) \in IdsOf(s) /\ 0 \notin IdsOf(s)
      /\ 0 \in 0..2 /\ 1 \in 0..2
  BY IdsApart DEF IdsOf
<1> DEFINE Possible == {NoFile} \cup {file \in File : file.id \in IdsOf(s) /\ file.snap = 0}
<1>4. ASSUME NEW id \in IdsOf(s), NEW when \in 0..2, NEW hand \in BOOLEAN
      PROVE  Old(id, when, hand) \in Possible
  BY <1>1, <1>4
<1>5. ASSUME NEW own \in Possible, NEW other \in Possible
      PROVE  Placed(own, other) \in [Places -> Possible]
  BY DEF Placed
<1>6. OldFiles(s, found) \in [Places -> Possible]
  <2>1. NoFile \in Possible
    OBVIOUS
  <2>2. /\ Old(IdOf(s, 1), 1, FALSE) \in Possible /\ Old(IdOf(s, 1), 0, FALSE) \in Possible
        /\ Old(IdOf(s, 2), 1, FALSE) \in Possible /\ Old(IdOf(s, 1), 0, TRUE) \in Possible
    BY <1>3, <1>4
  <2> HIDE DEF Possible
  <2>4. CASE found = "none"
    BY <1>5, <2>1, <2>4 DEF OldFiles
  <2>5. CASE found = "old"
    BY <1>5, <2>1, <2>2, <2>5 DEF OldFiles
  <2>6. CASE found = "pair"
    BY <1>5, <2>2, <2>6 DEF OldFiles
  <2>7. CASE found = "twin"
    BY <1>5, <2>2, <2>7 DEF OldFiles
  <2>8. CASE found = "hand"
    BY <1>5, <2>1, <2>2, <2>8 DEF OldFiles
  <2> QED BY <2>4, <2>5, <2>6, <2>7, <2>8
<1>7. ASSUME NEW file \in Possible
      PROVE  /\ file \in File \cup {NoFile} /\ file.id \in IdsOf(s) \cup {0} /\ file.snap = 0
             /\ file.id = 0 => file = NoFile
  BY <1>2, <1>3
<1> HIDE DEF Possible
<1> QED BY <1>6, <1>7

LEMMA FilesAtFirst ==
  ASSUME DistillInit
  PROVE  /\ files \in [Sessions -> [Places -> File \cup {NoFile}]]
         /\ \A s \in Sessions, place \in Places :
              /\ files[s][place].id \in IdsOf(s) \cup {0} /\ files[s][place].snap = 0
              /\ files[s][place].id = 0 => files[s][place] = NoFile
<1>1. PICK found \in [Sessions -> {"none", "old", "pair", "twin", "hand"}] :
        files = [s \in Sessions |-> OldFiles(s, found[s])]
  BY DEF DistillInit
<1>2. \A s \in Sessions : found[s] \in {"none", "old", "pair", "twin", "hand"}
  OBVIOUS
<1> QED BY <1>1, <1>2, OldTyped

\* A row leads to the file that has its id.
LEMMA RowsAtFirst ==
  ASSUME DistillInit, NEW i \in MemoryIds
  PROVE  \/ rows[i] = NoRow
         \/ \E s \in Sessions, place \in Places :
              rows[i] = [session |-> s, place |-> place] /\ files[s][place].id = i
<1> DEFINE places == {x \in Sessions \X Places : files[x[1]][x[2]].id = i}
<1>1. rows[i] = RowFor(files, i)
  BY DEF DistillInit
<1>2. CASE places = {}
  BY <1>1, <1>2 DEF RowFor
<1>3. CASE places # {}
  <2>1. PICK z \in places : TRUE
    BY <1>3
  <2>2. \A x \in places : x[1] = z[1]
    <3>1. i # 0
      BY DEF MemoryIds
    <3>2. \A x \in places : x[1] \in Sessions /\ i \in IdsOf(x[1])
      BY <3>1, FilesAtFirst
    <3> QED BY <2>1, <3>2, IdsApart
  <2>3. \E y \in places : y[2] = "other" \/ \A x \in places : x = y
    <3>1. CASE \E y \in places : y[2] = "other"
      BY <3>1
    <3>2. CASE ~ \E y \in places : y[2] = "other"
      <4>1. \A x \in places : x \in Sessions \X Places /\ x[2] = "own"
        BY <3>2 DEF Places
      <4>2. \A x \in places : x = z
        BY <2>1, <2>2, <4>1
      <4> QED BY <2>1, <4>2
    <3> QED BY <3>1, <3>2
  <2> DEFINE y == CHOOSE y \in places : y[2] = "other" \/ \A x \in places : x = y
  <2>4. y \in places
    BY <2>3
  <2>5. rows[i] = [session |-> y[1], place |-> y[2]]
    BY <1>1, <1>3 DEF RowFor
  <2> HIDE DEF y
  <2>6. y[1] \in Sessions /\ y[2] \in Places /\ files[y[1]][y[2]].id = i
    BY <2>4
  <2> QED BY <2>5, <2>6
<1> QED BY <1>2, <1>3

LEMMA TypeInit == DistillInit => DistillTypeOK
<1> SUFFICES ASSUME DistillInit PROVE DistillTypeOK
  OBVIOUS
<1>1. files \in [Sessions -> [Places -> File \cup {NoFile}]]
  BY FilesAtFirst
<1>2. rows \in [MemoryIds -> Row]
  <2>1. \A i \in MemoryIds : rows[i] \in Row
    <3> TAKE i \in MemoryIds
    <3>1. Order[1] \in Sessions
      <4>1. Order \in Seq(Sessions) /\ Len(Order) \in Nat /\ DOMAIN Order = 1..Len(Order)
        BY DistillAssumption
      <4>2. Len(Order) >= 1
        BY <4>1 DEF MemoryIds
      <4> QED BY <4>1, <4>2
    <3>2. NoRow \in Row
      BY <3>1 DEF Row, NoRow
    <3>3. \A s \in Sessions, place \in Places : [session |-> s, place |-> place] \in Row
      BY DEF Row
    <3> QED BY <3>2, <3>3, RowsAtFirst
  <2>2. rows = [i \in MemoryIds |-> RowFor(files, i)]
    BY DEF DistillInit
  <2> QED BY <2>1, <2>2
<1>3. /\ words \in [Sessions -> 0..MaxWords] /\ cap \in 0..MaxCap /\ now \in 0..MaxTime
      /\ last \in [Sessions -> Int]
      /\ fails \in [Sessions -> [count : 0..MaxAttempts, at : 0..MaxTime]]
      /\ left \in [runs : 0..MaxRuns, faults : 0..MaxFaults] /\ wasted \in [Sessions -> 0..TooMany]
  <2>1. /\ 0 \in 0..MaxTime /\ 0 \in 0..MaxAttempts /\ 0 \in 0..TooMany
        /\ MaxRuns \in 0..MaxRuns /\ MaxFaults \in 0..MaxFaults
    BY Constants, DistillAssumption
  <2> QED BY <2>1, DistillAssumption DEF DistillInit
<1>4. runner \in [Writers -> Job] /\ Locked
  <2>1. AtRest.pc = "rest" /\ AtRest \in Job
    BY RestTyped
  <2>2. \A p \in Writers : runner[p] = AtRest
    BY DEF DistillInit
  <2> QED BY <2>1, <2>2 DEF DistillInit, Locked, Writing
<1>5. lock \in Writers \cup {"free"}
  BY DEF DistillInit
<1> QED BY <1>1, <1>2, <1>3, <1>4, <1>5 DEF DistillTypeOK

\* The loop holds the lock for a whole run and a command from its first write on, so
\* that never two of them write; and whatever they write is a summary, a row or a count
\* within its bounds.
THEOREM DistillTypes == DistillSpec => []DistillTypeOK
BY TypeInit, TypeStep, PTL DEF DistillSpec

-----------------------------------------------------------------------------
(* What the model has seen *)

\* The snapshot of a summary is of the very text it was made of, and the model has
\* read no more of it than there was.
Truthful(file) == file.snap # 0 => file.snap = file.made /\ file.read <= file.made

SeenInv == DistillTypeOK /\ \A s \in Sessions, place \in Places : Truthful(files[s][place])

\* Only a write makes a summary, and only a write or the tidying after it takes one away.
LEMMA FilesChange ==
  ASSUME DistillTypeOK, NEW p \in Writers, WriteFile(p) \/ Tidy(p)
  PROVE  /\ Item(p) \in Candidate /\ Item(p).session \in Sessions
         /\ \/ /\ WriteFile(p)
               /\ \A t \in Sessions, x \in Places :
                    files'[t][x] = IF t = Item(p).session /\ x = "own"
                                   THEN Materialize(Item(p), Existing(t)) ELSE files[t][x]
            \/ /\ Tidy(p)
               /\ files[Item(p).session]["other"] # NoFile /\ ~files[Item(p).session]["other"].hand
               /\ \A t \in Sessions, x \in Places :
                    files'[t][x] = IF t = Item(p).session /\ x = "other" THEN NoFile ELSE files[t][x]
            \/ /\ Tidy(p)
               /\ files[Item(p).session]["other"] = NoFile \/ files[Item(p).session]["other"].hand
               /\ files' = files
<1> DEFINE c == Item(p)
           s == c.session
<1>1. runner[p].pc \in {"apply"} \cup Writing /\ runner[p].plan # << >>
  BY DEF WriteFile, Tidy, Applies, Writing
<1>2. c \in Candidate /\ s \in Sessions
  BY <1>1, AtWork
<1>3. "own" \in Places /\ "other" \in Places /\ NoFile \in File \cup {NoFile}
  BY DEF Places
<1>4. CASE WriteFile(p)
  <2>1. Existing(s) \in MemoryIds
    BY <1>2, ExistingTyped
  <2>2. Materialize(c, Existing(s)) \in File
    BY <1>2, <2>1, MaterialTyped
  <2>3. files' = [files EXCEPT ![s]["own"] = Materialize(c, Existing(s))]
    BY <1>4 DEF WriteFile
  <2>4. \A t \in Sessions, x \in Places :
          files'[t][x] = IF t = s /\ x = "own" THEN Materialize(c, Existing(s)) ELSE files[t][x]
    BY <1>2, <1>3, <2>2, <2>3, FilePut
  <2> HIDE DEF c, s
  <2>5. \A t \in Sessions, x \in Places :
          files'[t][x] = IF t = s /\ x = "own" THEN Materialize(c, Existing(t)) ELSE files[t][x]
    BY <2>4
  <2> QED BY <1>2, <1>4, <2>5 DEF c, s
<1>5. CASE Tidy(p)
  <2>1. CASE files[s]["other"] # NoFile /\ ~files[s]["other"].hand
    <3>1. files' = [files EXCEPT ![s]["other"] = NoFile]
      BY <1>5, <2>1 DEF Tidy
    <3>2. \A t \in Sessions, x \in Places :
            files'[t][x] = IF t = s /\ x = "other" THEN NoFile ELSE files[t][x]
      BY <1>2, <1>3, <3>1, FilePut
    <3> QED BY <1>2, <1>5, <2>1, <3>2
  <2>2. CASE ~ (files[s]["other"] # NoFile /\ ~files[s]["other"].hand)
    <3>1. files' = files
      BY <1>5, <2>2 DEF Tidy
    <3> QED BY <1>2, <1>5, <2>2, <3>1
  <2> QED BY <2>1, <2>2
<1> QED BY <1>4, <1>5

LEMMA FilesKept ==
  ASSUME [DistillNext]_distillVars
  PROVE  files' = files \/ \E p \in Writers : WriteFile(p) \/ Tidy(p)
BY DEF DistillNext, StartLoop, StartCommand, Run, Answer, NoAnswer, Planned, PassOver, UpsertRow, Unrow,
       ClearFailure, ApplyError, Unlock, Die, Surroundings, Grow, RaiseCap, TimePasses, distillVars, Stored

LEMMA MaterialTruthful ==
  ASSUME NEW c \in Candidate, NEW id
  PROVE  Truthful(Materialize(c, id))
<1>1. c.len \in Int /\ c.cap \in Int
  BY DEF Candidate
<1>2. Least(c.len, c.cap) <= c.len
  BY <1>1, LeastOf
<1> QED BY <1>2 DEF Materialize, Truthful

LEMMA NoFileTruthful == Truthful(NoFile)
BY DEF Truthful, NoFile

LEMMA SeenStep == SeenInv /\ [DistillNext]_distillVars => SeenInv'
<1> SUFFICES ASSUME SeenInv, [DistillNext]_distillVars PROVE SeenInv'
  OBVIOUS
<1>1. DistillTypeOK /\ DistillTypeOK'
  BY TypeStep DEF SeenInv
<1>2. CASE files' = files
  BY <1>1, <1>2 DEF SeenInv
<1>3. ASSUME NEW p \in Writers, WriteFile(p) \/ Tidy(p) PROVE SeenInv'
  <2>1. ASSUME NEW t \in Sessions, NEW x \in Places PROVE Truthful(files'[t][x])
    <3>1. \/ files'[t][x] = files[t][x] \/ files'[t][x] = NoFile
          \/ \E id : files'[t][x] = Materialize(Item(p), id)
      BY <1>1, <1>3, FilesChange
    <3>2. Truthful(files[t][x]) /\ Item(p) \in Candidate
      BY <1>1, <1>3, FilesChange DEF SeenInv
    <3> QED BY <3>1, <3>2, MaterialTruthful, NoFileTruthful
  <2> QED BY <1>1, <2>1 DEF SeenInv
<1> QED BY <1>2, <1>3, FilesKept

\* is_distillation_stale and materialize_distillation: a summary that passes for current
\* is of all but a little of the session, whatever cap is set, however many sessions
\* grow while the model is at work, and whatever writes are broken off.
THEOREM CurrentHolds == DistillSpec => []CurrentIsCurrent
<1>1. SeenInv => CurrentIsCurrent
  <2> SUFFICES ASSUME SeenInv, NEW s \in Sessions, Covering(s).snap # 0, ~Stale(s, Covering(s))
               PROVE  /\ words[s] < Covering(s).made + MinNew
                      /\ Least(words[s], cap) < Least(Covering(s).made, Covering(s).read) + MinUnread
    BY DEF CurrentIsCurrent
  <2> DEFINE file == Covering(s)
  <2>1. file = files[s]["own"] \/ file = files[s]["other"]
    BY DEF Covering
  <2>2. (file \in File \/ file = NoFile) /\ Truthful(file)
    BY <2>1 DEF SeenInv, DistillTypeOK, Places
  <2> HIDE DEF file
  <2>3. file.snap = file.made /\ file.read <= file.made /\ file.made \in Int /\ file.read \in Int
    BY <2>2 DEF Truthful, File, NoFile, file
  <2>4. words[s] \in Int /\ cap \in Int /\ MinNew \in Int /\ MinUnread \in Int
    BY DistillAssumption DEF SeenInv, DistillTypeOK
  <2>5. /\ ~ (Least(words[s], cap) >= file.read + MinUnread)
        /\ ~ (words[s] >= file.snap + MinNew)
    BY DEF Stale, file
  <2>6. Least(file.made, file.read) = file.read
    BY <2>3 DEF Least
  <2>7. Least(words[s], cap) \in Int
    BY <2>4, LeastOf
  <2> QED BY <2>3, <2>4, <2>5, <2>6, <2>7 DEF file
<1>2. DistillInit => SeenInv
  <2> SUFFICES ASSUME DistillInit PROVE SeenInv
    OBVIOUS
  <2> QED BY TypeInit, FilesAtFirst DEF SeenInv, Truthful
<1> QED BY <1>1, <1>2, SeenStep, PTL DEF DistillSpec
-----------------------------------------------------------------------------
(* One summary *)

Leads(s, place) == [session |-> s, place |-> place]

\* The files of a session, and the rows that lead to them, have ids of its own.
OwnIds ==
  /\ \A s \in Sessions, place \in Places :
       files[s][place] # NoFile => files[s][place].id \in IdsOf(s)
  /\ \A i \in MemoryIds, s \in Sessions, place \in Places : rows[i] = Leads(s, place) => i \in IdsOf(s)

At(p, s) == runner[p].pc \in Writing /\ Item(p).session = s

\* What has been done of a write by where it is.
Work(p, s) ==
  At(p, s) =>
    /\ files[s]["own"] # NoFile /\ files[s]["own"].id = runner[p].id
    /\ runner[p].pc # "index" => rows[runner[p].id] = Leads(s, "own")
    /\ runner[p].pc = "unrow" => runner[p].gone \in IdsOf(s) /\ runner[p].gone # runner[p].id
    /\ runner[p].pc \in {"unrow", "clear"} => files[s]["other"] = NoFile \/ files[s]["other"].hand

\* The row of a file that has been removed, and is next.
Displaced(s, i) == \E p \in Writers : At(p, s) /\ runner[p].pc = "unrow" /\ runner[p].gone = i

RowsLead(s) ==
  \A i \in MemoryIds, place \in Places :
    rows[i] = Leads(s, place) => files[s][place].id = i \/ (place = "other" /\ Displaced(s, i))

Alone(s) ==
  files[s]["own"].snap # 0 /\ ~Busy(s) =>
    /\ files[s]["other"] = NoFile \/ files[s]["other"].hand
    /\ rows[files[s]["own"].id] = Leads(s, "own")

Kept(s) ==
  /\ \A p \in Writers : Work(p, s)
  /\ s \notin torn => RowsLead(s) /\ Alone(s)

SummaryInv == DistillTypeOK /\ OwnIds /\ \A s \in Sessions : Kept(s)

LEMMA LeadsApart ==
  \A s, t, x, y : Leads(s, x) = Leads(t, y) => s = t /\ x = y
<1> TAKE s, t, x, y
<1>1. Leads(s, x).session = s /\ Leads(s, x).place = x /\ Leads(t, y).session = t /\ Leads(t, y).place = y
  BY DEF Leads
<1> QED BY <1>1

\* Whoever writes is alone at it.
LEMMA OneWrites ==
  ASSUME DistillTypeOK, NEW p \in Writers, NEW q \in Writers,
         runner[p].pc \in {"apply"} \cup Writing, runner[p].plan # << >>, runner[q].pc \in Writing
  PROVE  q = p
BY DEF DistillTypeOK, Locked

\* A session is as it was after a step that concerns another.
LEMMA Apart ==
  ASSUME DistillTypeOK, DistillTypeOK', OwnIds, OwnIds', NEW s \in Sessions, NEW p \in Writers, Kept(s),
         \A q \in Writers \ {p} : runner'[q] = runner[q],
         ~At(p, s), ~At(p, s)', files'[s] = files[s],
         \A i \in IdsOf(s) : rows'[i] = rows[i], torn \subseteq torn'
  PROVE  Kept(s)'
<1>1. \A q \in Writers : At(q, s)' <=> At(q, s)
  BY DEF At, Item
<1>2. \A q \in Writers : At(q, s) => runner'[q] = runner[q]
  OBVIOUS
<1>3. IdsOf(s)' = IdsOf(s) /\ 0 \notin IdsOf(s) /\ \A i : IdOf(s, i)' = IdOf(s, i)
  BY IdsApart DEF IdsOf, IdOf, Place
<1>4. "own" \in Places /\ "other" \in Places
  BY DEF Places
<1>5. ASSUME NEW q \in Writers PROVE Work(q, s)'
  BY <1>1, <1>2, <1>3, <1>4 DEF Work, Kept, OwnIds, Leads
<1>6. ASSUME s \notin torn' PROVE RowsLead(s)' /\ Alone(s)'
  <2>1. s \notin torn /\ RowsLead(s) /\ Alone(s)
    BY <1>6 DEF Kept
  <2>2. \A i : Displaced(s, i)' <=> Displaced(s, i)
    BY <1>1, <1>2 DEF Displaced
  <2>3. RowsLead(s)'
    <3> SUFFICES ASSUME NEW i \in MemoryIds, NEW place \in Places, rows'[i] = Leads(s, place)
                 PROVE  files'[s][place].id = i \/ (place = "other" /\ Displaced(s, i)')
      BY DEF RowsLead, Leads, MemoryIds
    <3>1. i \in IdsOf(s)
      BY <1>3 DEF OwnIds, Leads
    <3> QED BY <2>1, <2>2, <3>1 DEF RowsLead
  <2>4. Busy(s)' <=> Busy(s)
    BY <1>1 DEF Busy, At
  <2>5. Alone(s)'
    <3>1. files[s]["own"].snap # 0 => files[s]["own"] # NoFile
      BY DEF NoFile
    <3>2. files[s]["own"].snap # 0 => files[s]["own"].id \in IdsOf(s)
      BY <1>4, <3>1 DEF OwnIds
    <3> QED BY <2>1, <2>4, <3>2 DEF Alone, Leads
  <2> QED BY <2>3, <2>5
<1> QED BY <1>5, <1>6 DEF Kept
\* A step that writes nothing, of a writer that is not at a write.
LEMMA Quiet ==
  ASSUME SummaryInv, DistillTypeOK', NEW p \in Writers, \A q \in Writers \ {p} : runner'[q] = runner[q],
         runner'[p] = runner[p] \/ (runner[p].pc \notin Writing /\ runner'[p].pc \notin Writing),
         files' = files, rows' = rows, torn' = torn
  PROVE  SummaryInv'
<1>1. OwnIds'
  BY DEF SummaryInv, OwnIds, Leads, IdsOf, IdOf, Place, MemoryIds
<1>2. CASE runner[p].pc \notin Writing /\ runner'[p].pc \notin Writing
  <2>1. \A s \in Sessions : ~At(p, s) /\ ~At(p, s)'
    BY <1>2 DEF At
  <2> QED BY <1>1, <2>1, Apart DEF SummaryInv
<1>3. CASE runner'[p] = runner[p]
  <2>1. \A q \in Writers : runner'[q] = runner[q]
    BY <1>3
  <2>2. runner' = runner
    BY <2>1 DEF SummaryInv, DistillTypeOK
  <2> QED BY <1>1, <2>2 DEF SummaryInv, Kept, Work, At, Item, RowsLead, Alone, Displaced, Busy, Leads, IdsOf, IdOf,
                            Place, MemoryIds
<1> QED BY <1>2, <1>3

\* The end of a write: it is done, or the session counts as torn.
LEMMA Ended ==
  ASSUME SummaryInv, DistillTypeOK', NEW p \in Writers, \A q \in Writers \ {p} : runner'[q] = runner[q],
         runner[p].pc \in Writing, runner'[p].pc \notin Writing, files' = files, rows' = rows,
         torn \subseteq torn', Item(p).session \in torn' \/ runner[p].pc = "clear"
  PROVE  SummaryInv'
<1>1. OwnIds'
  BY DEF SummaryInv, OwnIds, Leads, IdsOf, IdOf, Place, MemoryIds
<1>0. runner[p].plan # << >> /\ Item(p).session \in Sessions
  BY AtWork DEF SummaryInv, DistillTypeOK, Locked
<1>2. PICK s \in Sessions : s = Item(p).session
  BY <1>0
<1>3. ASSUME NEW t \in Sessions, t # s PROVE Kept(t)'
  <2>1. ~At(p, t) /\ ~At(p, t)'
    BY <1>2, <1>3 DEF At
  <2> QED BY <1>1, <2>1, Apart DEF SummaryInv
<1>4. Kept(s)'
  <2>1. \A q \in Writers : runner'[q].pc \notin Writing
    BY <1>0, OneWrites DEF SummaryInv
  <2>2. At(p, s) /\ Work(p, s) /\ Kept(s)
    BY <1>2 DEF SummaryInv, Kept, At
  <2>3. \A q \in Writers : ~At(q, s)'
    BY <2>1 DEF At
  <2>4. ASSUME s \notin torn' PROVE RowsLead(s)' /\ Alone(s)'
    <3>1. runner[p].pc = "clear" /\ RowsLead(s)
      BY <1>2, <2>2, <2>4 DEF Kept
    <3>2. ASSUME NEW i PROVE ~Displaced(s, i)
      <4>1. \A q \in Writers : runner[q].pc \in Writing => q = p
        BY <1>0, OneWrites DEF SummaryInv
      <4> QED BY <3>1, <4>1 DEF Displaced, At
    <3>3. RowsLead(s)'
      BY <3>1, <3>2 DEF RowsLead, Leads, MemoryIds
    <3>4. /\ rows[files[s]["own"].id] = Leads(s, "own")
          /\ files[s]["other"] = NoFile \/ files[s]["other"].hand
      BY <2>2, <3>1 DEF Work
    <3> QED BY <3>3, <3>4 DEF Alone, Leads
  <2>5. \A q \in Writers : Work(q, s)'
    BY <2>3 DEF Work
  <2> QED BY <2>4, <2>5 DEF Kept
<1> QED BY <1>1, <1>3, <1>4 DEF SummaryInv
\* A step of a write concerns the session it is of.
LEMMA Writes ==
  ASSUME SummaryInv, DistillTypeOK', OwnIds', NEW p \in Writers, NEW s \in Sessions, s = Item(p).session,
         runner[p].pc \in {"apply"} \cup Writing, runner[p].plan # << >>,
         \A q \in Writers \ {p} : runner'[q] = runner[q], runner'[p].plan = runner[p].plan,
         \A t \in Sessions \ {s} : files'[t] = files[t] /\ \A i \in IdsOf(t) : rows'[i] = rows[i],
         torn' = torn, Kept(s)'
  PROVE  SummaryInv'
<1>1. ASSUME NEW t \in Sessions, t # s PROVE Kept(t)'
  <2>1. ~At(p, t) /\ ~At(p, t)'
    BY <1>1 DEF At, Item
  <2> QED BY <1>1, <2>1, Apart DEF SummaryInv
<1> QED BY <1>1 DEF SummaryInv

\* Where the writers are in a write of p.
LEMMA OnlyAt ==
  ASSUME DistillTypeOK, NEW p \in Writers, NEW s \in Sessions, s = Item(p).session,
         runner[p].pc \in {"apply"} \cup Writing, runner[p].plan # << >>,
         \A q \in Writers \ {p} : runner'[q] = runner[q], runner'[p].plan = runner[p].plan
  PROVE  /\ \A q \in Writers : At(q, s) <=> q = p /\ runner[p].pc \in Writing
         /\ \A q \in Writers : At(q, s)' <=> q = p /\ runner'[p].pc \in Writing
<1>1. \A q \in Writers : runner[q].pc \in Writing => q = p
  BY OneWrites
<1> QED BY <1>1 DEF At, Item

LEMMA Written ==
  ASSUME SummaryInv, DistillTypeOK', NEW p \in Writers, WriteFile(p)
  PROVE  SummaryInv'
<1>0. /\ runner[p].pc = "apply" /\ runner[p].plan # << >>
      /\ UNCHANGED <<rows, torn>> /\ runner[p] \in Job
  BY DEF WriteFile, Applies, SummaryInv, DistillTypeOK
<1>1. DistillTypeOK /\ OwnIds /\ Item(p) \in Candidate /\ Item(p).session \in Sessions
  BY <1>0, AtWork DEF SummaryInv
<1>2. PICK s \in Sessions : s = Item(p).session
  BY <1>1
<1>3. PICK id \in MemoryIds : id = Existing(s)
  BY <1>1, ExistingTyped
<1>4. /\ \A q \in Writers \ {p} : runner'[q] = runner[q]
      /\ runner'[p].pc = "index" /\ runner'[p].id = id /\ runner'[p].plan = runner[p].plan
  BY <1>0, <1>2, <1>3 DEF WriteFile, SummaryInv, DistillTypeOK, Job
<1>5. PICK file \in File : file = Materialize(Item(p), id)
  BY <1>1, MaterialTyped
<1>6. file.id = id /\ file # NoFile
  BY <1>3, <1>5 DEF Materialize, NoFile, MemoryIds
<1>7. \A t \in Sessions, x \in Places :
        files'[t][x] = IF t = s /\ x = "own" THEN file ELSE files[t][x]
  <2>1. "own" \in Places /\ file \in File \cup {NoFile}
    BY DEF Places
  <2>2. files' = [files EXCEPT ![s]["own"] = file]
    BY <1>2, <1>3, <1>5 DEF WriteFile
  <2> QED BY <1>1, <2>1, <2>2, FilePut
<1>8. "own" \in Places /\ "other" \in Places /\ "own" # "other" /\ Places = {"own", "other"}
  BY DEF Places
<1>9. id \in IdsOf(s) /\ (files[s]["own"] # NoFile => files[s]["own"].id = id)
  BY <1>1, <1>3, <1>8 DEF Existing, OwnIds, IdsOf
<1>10. \A t : IdsOf(t)' = IdsOf(t)
  BY DEF IdsOf, IdOf, Place
<1>11. OwnIds'
  <2>1. \A t \in Sessions, x \in Places : files'[t][x] # NoFile => files'[t][x].id \in IdsOf(t)
    BY <1>1, <1>6, <1>7, <1>9 DEF OwnIds
  <2> QED BY <1>0, <1>1, <1>10, <2>1 DEF OwnIds, Leads, MemoryIds
<1>12. \A t \in Sessions \ {s} : files'[t] = files[t] /\ \A i \in IdsOf(t) : rows'[i] = rows[i]
  <2> TAKE t \in Sessions \ {s}
  <2>1. \A x \in Places : files'[t][x] = files[t][x]
    BY <1>7
  <2>2. files[t] \in [Places -> File \cup {NoFile}] /\ files'[t] \in [Places -> File \cup {NoFile}]
    BY <1>1 DEF DistillTypeOK, Places, File, MemoryIds, NoFile
  <2> QED BY <1>0, <2>1, <2>2
<1>13. Kept(s)'
  <2>1. \A q \in Writers : ~At(q, s) /\ (At(q, s)' => q = p)
    BY <1>0, <1>1, <1>2, <1>4, OnlyAt DEF Writing
  <2>2. At(p, s)' /\ p \in Writers
    BY <1>0, <1>1, <1>2, <1>4, OnlyAt DEF Writing
  <2>3. Busy(s)'
    BY <2>2 DEF Busy, At
  <2>4. \A q \in Writers : Work(q, s)'
    BY <1>4, <1>6, <1>7, <1>8, <2>1 DEF Work
  <2>5. ASSUME s \notin torn' PROVE RowsLead(s)'
    <3>1. RowsLead(s) /\ \A i : ~Displaced(s, i)
      BY <1>0, <2>1, <2>5 DEF SummaryInv, Kept, Displaced
    <3>2. \A i \in MemoryIds, x \in Places : rows[i] = Leads(s, x) => files'[s][x].id = i
      <4> SUFFICES ASSUME NEW i \in MemoryIds, NEW x \in Places, rows[i] = Leads(s, x)
                   PROVE  files'[s][x].id = i
        OBVIOUS
      <4>1. files[s][x].id = i
        BY <3>1 DEF RowsLead
      <4>2. files[s][x] # NoFile
        BY <4>1 DEF NoFile, MemoryIds
      <4> QED BY <1>6, <1>7, <1>9, <4>1, <4>2
    <3> QED BY <1>0, <3>2 DEF RowsLead, Leads, MemoryIds
  <2> QED BY <2>3, <2>4, <2>5 DEF Kept, Alone
<1> QED BY <1>0, <1>2, <1>4, <1>11, <1>12, <1>13, Writes
LEMMA Upserted ==
  ASSUME SummaryInv, DistillTypeOK', NEW p \in Writers, UpsertRow(p)
  PROVE  SummaryInv'
<1>0. /\ runner[p].pc = "index" /\ runner[p].pc \in Writing /\ runner[p].plan # << >>
      /\ UNCHANGED <<files, torn>> /\ runner[p] \in Job
  BY DEF UpsertRow, Applies, Writing, SummaryInv, DistillTypeOK
<1>1. DistillTypeOK /\ OwnIds /\ Item(p) \in Candidate /\ Item(p).session \in Sessions
  BY <1>0, AtWork DEF SummaryInv
<1>2. PICK s \in Sessions : s = Item(p).session
  BY <1>1
<1>3. /\ \A q \in Writers \ {p} : runner'[q] = runner[q]
      /\ runner'[p].pc = "tidy" /\ runner'[p].id = runner[p].id /\ runner'[p].plan = runner[p].plan
  BY <1>0, <1>1 DEF UpsertRow, GoesTo, DistillTypeOK, Job
<1>4. "own" \in Places /\ "other" \in Places /\ "own" # "other" /\ Places = {"own", "other"} /\ "tidy" \in Writing
  BY DEF Places, Writing
<1>5. /\ At(p, s) /\ \A q \in Writers : At(q, s) <=> q = p
      /\ At(p, s)' /\ \A q \in Writers : At(q, s)' <=> q = p
  BY <1>0, <1>1, <1>2, <1>3, <1>4, OnlyAt
<1>6. PICK id \in MemoryIds : id = runner[p].id /\ id \in IdsOf(s) /\ files[s]["own"].id = id /\ files[s]["own"] # NoFile
  BY <1>1, <1>4, <1>5, IdsApart DEF SummaryInv, Kept, Work, OwnIds
<1>7. \A i \in MemoryIds : rows'[i] = IF i = id THEN Leads(s, "own")
                                     ELSE IF rows[i] = Leads(s, "own") THEN NoRow ELSE rows[i]
  BY <1>2, <1>6 DEF UpsertRow, Leads
<1>8. \A t, x : x \in Places => NoRow # Leads(t, x)
  <2>1. NoRow.place = "none" /\ \A t, x : Leads(t, x).place = x
    BY DEF NoRow, Leads
  <2> QED BY <1>4, <2>1
<1>9. \A t : IdsOf(t)' = IdsOf(t)
  BY DEF IdsOf, IdOf, Place
<1>10. OwnIds'
  <2>1. \A i \in MemoryIds, t \in Sessions, x \in Places : rows'[i] = Leads(t, x) => i \in IdsOf(t)
    <3> SUFFICES ASSUME NEW i \in MemoryIds, NEW t \in Sessions, NEW x \in Places, rows'[i] = Leads(t, x)
                 PROVE  i \in IdsOf(t)
      OBVIOUS
    <3>1. CASE i = id
      BY <1>6, <1>7, <3>1, LeadsApart
    <3>2. CASE i # id
      BY <1>1, <1>7, <1>8, <3>2 DEF OwnIds
    <3> QED BY <3>1, <3>2
  <2> QED BY <1>0, <1>1, <1>9, <2>1 DEF OwnIds, Leads, MemoryIds
<1>11. \A t \in Sessions \ {s} : files'[t] = files[t] /\ \A i \in IdsOf(t) : rows'[i] = rows[i]
  <2> SUFFICES ASSUME NEW t \in Sessions \ {s}, NEW i \in IdsOf(t) PROVE rows'[i] = rows[i]
    BY <1>0
  <2>1. i \in MemoryIds /\ i \notin IdsOf(s)
    BY IdsApart
  <2>2. i # id /\ rows[i] # Leads(s, "own")
    BY <1>1, <1>4, <1>6, <2>1 DEF OwnIds
  <2> QED BY <1>7, <2>1, <2>2
<1>12. Kept(s)'
  <2>1. Busy(s)'
    BY <1>5 DEF Busy, At
  <2>2. \A q \in Writers : Work(q, s)'
    BY <1>0, <1>3, <1>5, <1>6, <1>7 DEF Work, Leads
  <2>3. ASSUME s \notin torn' PROVE RowsLead(s)'
    <3>1. RowsLead(s) /\ \A i : ~Displaced(s, i)
      BY <1>0, <1>5, <2>3 DEF SummaryInv, Kept, Displaced
    <3>2. \A i \in MemoryIds, x \in Places : rows'[i] = Leads(s, x) => files[s][x].id = i
      <4> SUFFICES ASSUME NEW i \in MemoryIds, NEW x \in Places, rows'[i] = Leads(s, x)
                   PROVE  files[s][x].id = i
        OBVIOUS
      <4>1. CASE i = id
        BY <1>6, <1>7, <4>1, LeadsApart
      <4>2. CASE i # id
        BY <1>7, <1>8, <3>1, <4>2 DEF RowsLead
      <4> QED BY <4>1, <4>2
    <3> QED BY <1>0, <3>2 DEF RowsLead, Leads, MemoryIds
  <2> QED BY <2>1, <2>2, <2>3 DEF Kept, Alone
<1> QED BY <1>0, <1>2, <1>3, <1>10, <1>11, <1>12, Writes

LEMMA Unrowed ==
  ASSUME SummaryInv, DistillTypeOK', NEW p \in Writers, Unrow(p)
  PROVE  SummaryInv'
<1>0. /\ runner[p].pc = "unrow" /\ runner[p].pc \in Writing /\ runner[p].plan # << >>
      /\ UNCHANGED <<files, torn>> /\ runner[p] \in Job
  BY DEF Unrow, Applies, Writing, SummaryInv, DistillTypeOK
<1>1. DistillTypeOK /\ OwnIds /\ Item(p) \in Candidate /\ Item(p).session \in Sessions
  BY <1>0, AtWork DEF SummaryInv
<1>2. PICK s \in Sessions : s = Item(p).session
  BY <1>1
<1>3. /\ \A q \in Writers \ {p} : runner'[q] = runner[q]
      /\ runner'[p].pc = "clear" /\ runner'[p].id = runner[p].id /\ runner'[p].plan = runner[p].plan
  BY <1>0, <1>1 DEF Unrow, GoesTo, DistillTypeOK, Job
<1>4. "own" \in Places /\ "other" \in Places /\ "own" # "other" /\ Places = {"own", "other"} /\ "clear" \in Writing
  BY DEF Places, Writing
<1>5. /\ At(p, s) /\ \A q \in Writers : At(q, s) <=> q = p
      /\ At(p, s)' /\ \A q \in Writers : At(q, s)' <=> q = p
  BY <1>0, <1>1, <1>2, <1>3, <1>4, OnlyAt
<1>6. Work(p, s) /\ files[s]["own"] # NoFile
  BY <1>5 DEF SummaryInv, Kept, Work
<1>7. PICK gone \in MemoryIds : gone = runner[p].gone /\ gone \in IdsOf(s) /\ gone # runner[p].id
  BY <1>0, <1>5, <1>6, IdsApart DEF Work
<1>8. \A i \in MemoryIds : rows'[i] = IF i = gone THEN NoRow ELSE rows[i]
  BY <1>1, <1>7 DEF Unrow, DistillTypeOK
<1>9. \A t, x : x \in Places => NoRow # Leads(t, x)
  <2>1. NoRow.place = "none" /\ \A t, x : Leads(t, x).place = x
    BY DEF NoRow, Leads
  <2> QED BY <1>4, <2>1
<1>10. \A t : IdsOf(t)' = IdsOf(t)
  BY DEF IdsOf, IdOf, Place
<1>11. OwnIds'
  <2>1. \A i \in MemoryIds, t \in Sessions, x \in Places : rows'[i] = Leads(t, x) => i \in IdsOf(t)
    BY <1>1, <1>8, <1>9 DEF OwnIds
  <2> QED BY <1>0, <1>1, <1>10, <2>1 DEF OwnIds, Leads, MemoryIds
<1>12. \A t \in Sessions \ {s} : files'[t] = files[t] /\ \A i \in IdsOf(t) : rows'[i] = rows[i]
  BY <1>0, <1>7, <1>8, IdsApart
<1>13. Kept(s)'
  <2>1. Busy(s)'
    BY <1>5 DEF Busy, At
  <2>2. runner[p].id \in MemoryIds
    BY <1>4, <1>5, <1>6, IdsApart, <1>1 DEF Work, OwnIds
  <2>3. Work(p, s)'
    BY <1>0, <1>3, <1>5, <1>6, <1>7, <1>8, <2>2 DEF Work, Leads
  <2>4. \A q \in Writers : Work(q, s)'
    BY <1>5, <2>3 DEF Work
  <2>5. ASSUME s \notin torn' PROVE RowsLead(s)'
    <3>1. RowsLead(s)
      BY <1>0, <2>5 DEF SummaryInv, Kept
    <3>2. \A i \in MemoryIds : Displaced(s, i) => i = gone
      BY <1>5, <1>7 DEF Displaced
    <3>3. \A i \in MemoryIds, x \in Places : rows'[i] = Leads(s, x) => files[s][x].id = i
      BY <1>8, <1>9, <3>1, <3>2 DEF RowsLead
    <3> QED BY <1>0, <3>3 DEF RowsLead, Leads, MemoryIds
  <2> QED BY <2>1, <2>4, <2>5 DEF Kept, Alone
<1> QED BY <1>0, <1>2, <1>3, <1>11, <1>12, <1>13, Writes
LEMMA Tidied ==
  ASSUME SummaryInv, DistillTypeOK', NEW p \in Writers, Tidy(p)
  PROVE  SummaryInv'
<1>0. /\ runner[p].pc = "tidy" /\ runner[p].pc \in Writing /\ runner[p].plan # << >>
      /\ UNCHANGED <<rows, torn>> /\ runner[p] \in Job
  BY DEF Tidy, Applies, Writing, SummaryInv, DistillTypeOK
<1>1. DistillTypeOK /\ OwnIds /\ Item(p) \in Candidate /\ Item(p).session \in Sessions
  BY <1>0, AtWork DEF SummaryInv
<1>2. PICK s \in Sessions : s = Item(p).session
  BY <1>1
<1>3. PICK other \in File \cup {NoFile} : other = files[s]["other"]
  BY <1>1, FileTyped DEF Places
<1>4. /\ \A q \in Writers \ {p} : runner'[q] = runner[q]
      /\ runner'[p].id = runner[p].id /\ runner'[p].plan = runner[p].plan
      /\ \/ runner'[p].pc = "clear" /\ (other = NoFile \/ other.hand \/ other.id = runner[p].id)
         \/ /\ runner'[p].pc = "unrow" /\ runner'[p].gone = other.id
            /\ other # NoFile /\ ~other.hand /\ other.id # runner[p].id
  <2>1. /\ runner \in [Writers -> Job]
        /\ \/ GoesTo(p, "clear") /\ (other = NoFile \/ other.hand \/ other.id = runner[p].id)
           \/ /\ runner' = [runner EXCEPT ![p].pc = "unrow", ![p].gone = other.id]
              /\ other # NoFile /\ ~other.hand /\ other.id # runner[p].id
    <3>1. CASE other # NoFile /\ ~other.hand
      BY <1>1, <1>2, <1>3, <3>1 DEF Tidy, DistillTypeOK
    <3>2. CASE ~ (other # NoFile /\ ~other.hand)
      BY <1>1, <1>2, <1>3, <3>2 DEF Tidy, DistillTypeOK
    <3> QED BY <3>1, <3>2
  <2>2. CASE GoesTo(p, "clear") /\ (other = NoFile \/ other.hand \/ other.id = runner[p].id)
    BY <1>0, <2>1, <2>2 DEF GoesTo, Job
  <2>3. CASE /\ runner' = [runner EXCEPT ![p].pc = "unrow", ![p].gone = other.id]
             /\ other # NoFile /\ ~other.hand /\ other.id # runner[p].id
    BY <1>0, <2>1, <2>3 DEF Job
  <2> QED BY <2>1, <2>2, <2>3
<1>5. "own" \in Places /\ "other" \in Places /\ "own" # "other" /\ Places = {"own", "other"}
      /\ "clear" \in Writing /\ "unrow" \in Writing
  BY DEF Places, Writing
<1>6. /\ At(p, s) /\ \A q \in Writers : At(q, s) <=> q = p
      /\ At(p, s)' /\ \A q \in Writers : At(q, s)' <=> q = p
  BY <1>0, <1>1, <1>2, <1>4, <1>5, OnlyAt
<1>7. \A t \in Sessions, x \in Places : (t # s \/ x = "own") => files'[t][x] = files[t][x]
  <2>1. ~WriteFile(p)
    BY <1>0 DEF WriteFile, Applies
  <2>2. \/ \A t \in Sessions, x \in Places :
             files'[t][x] = IF t = Item(p).session /\ x = "other" THEN NoFile ELSE files[t][x]
        \/ files' = files
    BY <1>1, <2>1, FilesChange
  <2> QED BY <1>2, <1>5, <2>2
<1>8. files'[s]["other"] = NoFile \/ (files'[s]["other"] = other /\ (other = NoFile \/ other.hand))
  BY <1>1, <1>2, <1>3, <1>5, FilesChange DEF WriteFile, Tidy, Applies
<1>9. \A t : IdsOf(t)' = IdsOf(t)
  BY DEF IdsOf, IdOf, Place
<1>10. OwnIds'
  <2>1. \A t \in Sessions, x \in Places : files'[t][x] # NoFile => files'[t][x].id \in IdsOf(t)
    <3>1. \A t \in Sessions, x \in Places : files'[t][x] = NoFile \/ files'[t][x] = files[t][x]
      BY <1>3, <1>5, <1>7, <1>8
    <3> QED BY <1>1, <3>1 DEF OwnIds
  <2> QED BY <1>0, <1>1, <1>9, <2>1 DEF OwnIds, Leads, MemoryIds
<1>11. \A t \in Sessions \ {s} : files'[t] = files[t] /\ \A i \in IdsOf(t) : rows'[i] = rows[i]
  <2> TAKE t \in Sessions \ {s}
  <2>1. \A x \in Places : files'[t][x] = files[t][x]
    BY <1>7
  <2>2. files[t] \in [Places -> File \cup {NoFile}] /\ files'[t] \in [Places -> File \cup {NoFile}]
    BY <1>1 DEF DistillTypeOK, Places, File, MemoryIds, NoFile
  <2> QED BY <1>0, <2>1, <2>2
<1>12. /\ files[s]["own"] # NoFile /\ files[s]["own"].id = runner[p].id
       /\ rows[runner[p].id] = Leads(s, "own")
  BY <1>0, <1>6 DEF SummaryInv, Kept, Work
<1>13. Kept(s)'
  <2>1. Busy(s)'
    BY <1>6 DEF Busy, At
  <2>2. runner'[p].pc = "unrow" => runner'[p].gone \in IdsOf(s) /\ runner'[p].gone # runner'[p].id
    BY <1>1, <1>3, <1>4, <1>5 DEF OwnIds
  <2>3. Work(p, s)'
    BY <1>0, <1>4, <1>5, <1>7, <1>8, <1>9, <1>12, <2>2 DEF Work, Leads
  <2>4. \A q \in Writers : Work(q, s)'
    BY <1>6, <2>3 DEF Work
  <2>5. ASSUME s \notin torn' PROVE RowsLead(s)'
    <3>1. RowsLead(s) /\ \A i : ~Displaced(s, i)
      BY <1>0, <1>6, <2>5 DEF SummaryInv, Kept, Displaced
    <3>2. ASSUME NEW i \in MemoryIds, NEW x \in Places, rows[i] = Leads(s, x)
          PROVE  files'[s][x].id = i \/ (x = "other" /\ Displaced(s, i)')
      <4>1. files[s][x].id = i
        BY <3>1, <3>2 DEF RowsLead
      <4>2. CASE x = "own"
        BY <1>5, <1>7, <4>1, <4>2
      <4>3. CASE x = "other" /\ files'[s]["other"] # NoFile
        BY <1>3, <1>8, <4>1, <4>3
      <4>4. CASE x = "other" /\ files'[s]["other"] = NoFile
        <5>1. other.id = i /\ i # 0 /\ NoFile.id = 0
          BY <1>3, <4>1, <4>4 DEF NoFile, MemoryIds
        <5>2. i # runner[p].id
          BY <1>12, <3>2, <4>4, <1>5, LeadsApart
        <5>3. ~other.hand
          <6>1. other # NoFile
            BY <5>1
          <6> QED BY <1>3, <1>1, <1>2, <1>5, <4>4, <6>1, FilesChange DEF WriteFile, Tidy, Applies
        <5>4. runner'[p].pc = "unrow" /\ runner'[p].gone = i
          BY <1>4, <5>1, <5>2, <5>3
        <5> QED BY <1>6, <4>4, <5>4 DEF Displaced
      <4> QED BY <1>5, <4>2, <4>3, <4>4
    <3> QED BY <1>0, <3>2 DEF RowsLead, Leads, MemoryIds
  <2> QED BY <2>1, <2>4, <2>5 DEF Kept, Alone
<1> QED BY <1>0, <1>2, <1>4, <1>10, <1>11, <1>13, Writes
\* The steps that write nothing.
LEMMA WritesNothing ==
  ASSUME SummaryInv, DistillTypeOK', NEW p \in Writers,
         \/ Answer(p) \/ NoAnswer(p) \/ Planned(p) \/ PassOver(p) \/ ClearFailure(p) \/ Unlock(p)
         \/ ApplyError(p) \/ Die(p)
  PROVE  SummaryInv'
<1>1. runner \in [Writers -> Job] /\ runner[p] \in Job /\ runner[p].plan \in Seq(Candidate)
  BY DEF SummaryInv, DistillTypeOK, Job
<1>2. /\ files' = files /\ rows' = rows /\ \A q \in Writers \ {p} : runner'[q] = runner[q]
  BY <1>1 DEF Answer, NoAnswer, Planned, PassOver, ClearFailure, Unlock, ApplyError, Die, Stored, NextItem
<1>3. /\ "call" \notin Writing /\ "apply" \notin Writing /\ AtRest.pc \notin Writing /\ "clear" \in Writing
  BY RestTyped DEF Writing
<1>4. CASE Answer(p) \/ NoAnswer(p)
  <2>1. runner'[p].pc = runner[p].pc /\ runner[p].pc = "call" /\ torn' = torn
    <3>1. CASE Answer(p)
      BY <1>1, <3>1, ZenonT(30) DEF Answer, Job
    <3>2. CASE NoAnswer(p)
      BY <1>1, <3>2 DEF NoAnswer, Job
    <3> QED BY <1>4, <3>1, <3>2
  <2> QED BY <1>2, <1>3, <2>1, Quiet
<1>5. CASE Planned(p) \/ Unlock(p)
  <2>1. runner[p].pc \in {"call", "apply"} /\ torn' = torn
    BY <1>5 DEF Planned, Unlock
  <2>2. runner'[p].pc \notin Writing
    BY <1>1, <1>3, <1>5 DEF Planned, Unlock, Job
  <2> QED BY <1>2, <1>3, <2>1, <2>2, Quiet
<1>6. ASSUME NextItem(p) PROVE runner'[p].pc = "apply"
  BY <1>1, <1>6 DEF NextItem, Job
<1>7. CASE PassOver(p)
  BY <1>2, <1>3, <1>6, <1>7, Quiet DEF PassOver, Applies
<1>8. CASE ClearFailure(p)
  <2>1. runner[p].pc = "clear" /\ runner'[p].pc = "apply" /\ torn' = torn
    BY <1>6, <1>8 DEF ClearFailure, Applies
  <2> QED BY <1>2, <1>3, <2>1, Ended
<1>9. CASE ApplyError(p)
  <2>1. runner[p].pc \in Writing /\ runner'[p].pc = "apply" /\ torn' = torn \cup {Item(p).session}
    BY <1>6, <1>9 DEF ApplyError, Applies
  <2>2. torn \subseteq torn' /\ Item(p).session \in torn'
    BY <2>1
  <2> QED BY <1>2, <1>3, <2>1, <2>2, Ended
<1>10. CASE Die(p)
  <2>1. runner'[p] = AtRest
    BY <1>1, <1>10 DEF Die
  <2>2. CASE runner[p].pc \in Writing
    <3>1. torn' = torn \cup {Item(p).session}
      BY <1>10, <2>2 DEF Die
    <3>2. torn \subseteq torn' /\ Item(p).session \in torn'
      BY <3>1
    <3> QED BY <1>2, <1>3, <2>1, <2>2, <3>2, Ended
  <2>3. CASE runner[p].pc \notin Writing
    <3>1. torn' = torn
      BY <1>10, <2>3 DEF Die
    <3> QED BY <1>2, <1>3, <2>1, <2>3, <3>1, Quiet
  <2> QED BY <2>2, <2>3
<1> QED BY <1>4, <1>5, <1>7, <1>8, <1>9, <1>10

LEMMA SummaryStep == SummaryInv /\ [DistillNext]_distillVars => SummaryInv'
<1> SUFFICES ASSUME SummaryInv, [DistillNext]_distillVars PROVE SummaryInv'
  OBVIOUS
<1>1. DistillTypeOK /\ DistillTypeOK'
  BY TypeStep DEF SummaryInv
<1>2. runner \in [Writers -> Job] /\ "loop" \in Writers /\ "command" \in Writers
  BY <1>1 DEF DistillTypeOK, Writers
<1>3. "call" \notin Writing /\ "rest" \notin Writing
  BY DEF Writing
<1>4. CASE StartLoop
  <2>1. /\ runner["loop"].pc = "rest" /\ \A q \in Writers \ {"loop"} : runner'[q] = runner[q]
        /\ files' = files /\ rows' = rows /\ torn' = torn
    BY <1>2, <1>4 DEF StartLoop, Stored
  <2>2. runner'["loop"].pc = "call"
    BY <1>2, <1>4 DEF StartLoop, AtRest
  <2> QED BY <1>1, <1>2, <1>3, <2>1, <2>2, Quiet
<1>5. ASSUME NEW window \in {0, Window}, NEW forced \in BOOLEAN, NEW refresh \in BOOLEAN,
             StartCommand(window, forced, refresh)
      PROVE  SummaryInv'
  <2>1. /\ runner["command"].pc = "rest" /\ \A q \in Writers \ {"command"} : runner'[q] = runner[q]
        /\ files' = files /\ rows' = rows /\ torn' = torn
    BY <1>2, <1>5 DEF StartCommand, Stored
  <2>2. runner'["command"].pc = "call"
    BY <1>2, <1>5 DEF StartCommand, AtRest
  <2> QED BY <1>1, <1>2, <1>3, <2>1, <2>2, Quiet
<1>6. ASSUME NEW p \in Writers, Run(p) \/ NoAnswer(p) \/ ApplyError(p) \/ Die(p)
      PROVE  SummaryInv'
  BY <1>1, <1>6, WritesNothing, Written, Upserted, Tidied, Unrowed DEF Run
<1>7. CASE Surroundings \/ UNCHANGED distillVars
  <2>1. runner' = runner /\ files' = files /\ rows' = rows /\ torn' = torn
    BY <1>7 DEF Surroundings, Grow, RaiseCap, TimePasses, Stored, distillVars
  <2> QED BY <1>1, <1>2, <2>1, Quiet
<1> QED BY <1>4, <1>5, <1>6, <1>7 DEF DistillNext

LEMMA SummaryInit == DistillInit => SummaryInv
<1> SUFFICES ASSUME DistillInit PROVE SummaryInv
  OBVIOUS
<1>1. DistillTypeOK /\ \A p \in Writers : runner[p].pc \notin Writing
  BY TypeInit, RestTyped DEF DistillInit, Writing
<1>2. \A s \in Sessions, place \in Places :
        /\ files[s][place].id \in IdsOf(s) \cup {0} /\ files[s][place].snap = 0
        /\ files[s][place].id = 0 => files[s][place] = NoFile
  BY FilesAtFirst
<1>3. \A i \in MemoryIds, s \in Sessions, place \in Places : rows[i] = Leads(s, place) => files[s][place].id = i
  <2> SUFFICES ASSUME NEW i \in MemoryIds, NEW s \in Sessions, NEW place \in Places, rows[i] = Leads(s, place)
               PROVE  files[s][place].id = i
    OBVIOUS
  <2>1. NoRow.place = "none" /\ Leads(s, place).place = place /\ place # "none"
    BY DEF NoRow, Leads, Places
  <2>2. PICK t \in Sessions, x \in Places : rows[i] = Leads(t, x) /\ files[t][x].id = i
    BY <2>1, RowsAtFirst DEF Leads
  <2>3. Leads(s, place) = Leads(t, x)
    BY <2>2
  <2>4. s = t /\ place = x
    BY <2>3, LeadsApart
  <2> QED BY <2>2, <2>4
<1>4. OwnIds
  BY <1>2, <1>3 DEF OwnIds, MemoryIds
<1>5. ASSUME NEW s \in Sessions PROVE Kept(s)
  <2>1. "own" \in Places
    BY DEF Places
  <2> QED BY <1>1, <1>2, <1>3, <2>1 DEF Kept, Work, At, RowsLead, Alone
<1> QED BY <1>1, <1>4, <1>5 DEF SummaryInv

\* apply_distillations and _remove_displaced_distillations: whatever there was of a
\* session at first, and whichever of the loop and the command writes its summary, an
\* unbroken write leaves one file of the writer's and one row, that leads to it.
THEOREM SummaryHolds == DistillSpec => []OneSummary
<1>1. SummaryInv => OneSummary
  <2> SUFFICES ASSUME SummaryInv, NEW s \in Sessions, files[s]["own"].snap # 0, ~Busy(s), s \notin torn
               PROVE  /\ files[s]["other"] = NoFile \/ files[s]["other"].hand
                      /\ rows[files[s]["own"].id] = Leads(s, "own")
                      /\ \A i \in MemoryIds, place \in Places :
                           rows[i] = Leads(s, place) => files[s][place].id = i
    BY DEF OneSummary, Leads
  <2>1. RowsLead(s) /\ Alone(s)
    BY DEF SummaryInv, Kept
  <2>2. \A i : ~Displaced(s, i)
    BY DEF Displaced, At, Busy
  <2> QED BY <2>1, <2>2 DEF RowsLead, Alone
<1> QED BY <1>1, SummaryInit, SummaryStep, PTL DEF DistillSpec
-----------------------------------------------------------------------------
(* Calls *)

\* The sessions of a list, and those of them that were answered with nothing.
SessionsOf(list) == {list[i].session : i \in DOMAIN list}
Empty(list) == {list[i].session : i \in {j \in DOMAIN list : ~list[j].answered}}

Single(list) == \A i, j \in DOMAIN list : list[i].session = list[j].session => i = j

LEMMA RestOf ==
  ASSUME NEW list \in Seq(Candidate), list # << >>, Single(list)
  PROVE  /\ Tail(list) \in Seq(Candidate) /\ Head(list) \in Candidate /\ Single(Tail(list))
         /\ Head(list).session \in SessionsOf(list)
         /\ SessionsOf(Tail(list)) = SessionsOf(list) \ {Head(list).session}
         /\ Empty(Tail(list)) = Empty(list) \ {Head(list).session}
         /\ ~Head(list).answered => Head(list).session \in Empty(list)
<1> DEFINE rest == Tail(list)
           c == Head(list)
<1>1. /\ c \in Candidate /\ rest \in Seq(Candidate) /\ c = list[1]
      /\ DOMAIN list = 1..Len(list) /\ Len(list) \in Nat \ {0} /\ DOMAIN rest = 1..Len(list) - 1
      /\ \A i \in DOMAIN rest : i + 1 \in DOMAIN list /\ rest[i] = list[i + 1]
  BY TailOf
<1> HIDE DEF rest, c
<1>2. Single(rest)
  <2> SUFFICES ASSUME NEW i \in DOMAIN rest, NEW j \in DOMAIN rest, rest[i].session = rest[j].session
               PROVE  i = j
    BY DEF Single
  <2>1. i + 1 = j + 1
    BY <1>1 DEF Single
  <2> QED BY <1>1, <2>1
<1>3. \A i \in DOMAIN list : i = 1 \/ (i - 1 \in DOMAIN rest /\ rest[i - 1] = list[i])
  <2> SUFFICES ASSUME NEW i \in DOMAIN list, i # 1 PROVE i - 1 \in DOMAIN rest /\ rest[i - 1] = list[i]
    OBVIOUS
  <2>1. i - 1 \in DOMAIN rest /\ (i - 1) + 1 = i
    BY <1>1
  <2> QED BY <1>1, <2>1
<1>4. 1 \in DOMAIN list
  BY <1>1
<1>5. \A i \in DOMAIN rest : rest[i].session # c.session
  <2> SUFFICES ASSUME NEW i \in DOMAIN rest, rest[i].session = c.session PROVE FALSE
    OBVIOUS
  <2>1. i + 1 = 1 /\ i \in 1..Len(list) - 1
    BY <1>1, <1>4 DEF Single
  <2> QED BY <1>1, <2>1
<1>6. SessionsOf(rest) = SessionsOf(list) \ {c.session}
  <2>1. ASSUME NEW i \in DOMAIN rest PROVE rest[i].session \in SessionsOf(list) \ {c.session}
    BY <1>1, <1>5 DEF SessionsOf
  <2>2. ASSUME NEW i \in DOMAIN list, list[i].session # c.session PROVE list[i].session \in SessionsOf(rest)
    <3>1. i # 1
      BY <1>1, <2>2
    <3>2. i - 1 \in DOMAIN rest /\ rest[i - 1] = list[i]
      BY <1>3, <3>1
    <3> QED BY <3>2 DEF SessionsOf
  <2> QED BY <2>1, <2>2 DEF SessionsOf
<1>7. Empty(rest) = Empty(list) \ {c.session}
  BY <1>1, <1>3, <1>5 DEF Empty
<1>8. c.session \in SessionsOf(list) /\ (~c.answered => c.session \in Empty(list))
  BY <1>1, <1>4 DEF SessionsOf, Empty
<1> QED BY <1>1, <1>2, <1>6, <1>7, <1>8 DEF rest, c

LEMMA MoreOf ==
  ASSUME NEW list \in Seq(Candidate), NEW c \in Candidate, Single(list), c.session \notin SessionsOf(list)
  PROVE  /\ Append(list, c) \in Seq(Candidate) /\ Single(Append(list, c))
         /\ SessionsOf(Append(list, c)) = SessionsOf(list) \cup {c.session}
         /\ Empty(Append(list, c)) = Empty(list) \cup (IF c.answered THEN {} ELSE {c.session})
<1> DEFINE more == Append(list, c)
<1>1. /\ more \in Seq(Candidate) /\ Len(list) \in Nat /\ DOMAIN list = 1..Len(list)
      /\ DOMAIN more = 1..Len(list) + 1 /\ more[Len(list) + 1] = c
      /\ \A i \in 1..Len(list) : more[i] = list[i]
  BY AppendProperties
<1> HIDE DEF more
<1>2. \A i \in DOMAIN more : i = Len(list) + 1 \/ i \in DOMAIN list
  BY <1>1
<1>3. \A i \in DOMAIN list : i \in DOMAIN more /\ more[i] = list[i] /\ list[i].session # c.session
  BY <1>1 DEF SessionsOf
<1>4. Len(list) + 1 \in DOMAIN more
  BY <1>1
<1>5. Single(more)
  BY <1>1, <1>2, <1>3 DEF Single
<1>6. SessionsOf(more) = SessionsOf(list) \cup {c.session}
  BY <1>1, <1>2, <1>3, <1>4 DEF SessionsOf
<1>7. Empty(more) = Empty(list) \cup (IF c.answered THEN {} ELSE {c.session})
  <2>1. CASE c.answered
    BY <1>1, <1>2, <1>3, <1>4, <2>1 DEF Empty
  <2>2. CASE ~c.answered
    BY <1>1, <1>2, <1>3, <1>4, <2>2 DEF Empty
  <2> QED BY <2>1, <2>2
<1> QED BY <1>1, <1>5, <1>6, <1>7 DEF more

\* record_distill_failure has left the session free to be tried.
Free(s) == fails[s].count < MaxAttempts \/ fails[s].at + CoolDown <= now

\* The loop asks once for a session that is free, and counts what it gets before it
\* looks again.
Due ==
  LET todo == runner["loop"].todo  plan == runner["loop"].plan IN
  /\ Single(todo) /\ Single(plan) /\ SessionsOf(todo) \cap SessionsOf(plan) = {}
  /\ \A s \in SessionsOf(todo) \cup Empty(plan) : Free(s)
  /\ runner["loop"].pc = "rest" => plan = << >>

\* A call that was wasted, and has not been counted yet.
Pending(s) == IF s \in Empty(runner["loop"].plan) THEN 1 ELSE 0

Lost == MaxFaults - left.faults

\* Each wasted call has been counted, or is about to be, or was lost; and at the cap
\* each came after a cool-down of its own.
Paid(s) ==
  /\ fails[s].at <= now
  /\ fails[s].count < MaxAttempts => wasted[s] <= fails[s].count + Pending(s) + Lost
  /\ fails[s].count = MaxAttempts =>
       \E e \in Nat : /\ e * CoolDown <= fails[s].at
                      /\ wasted[s] <= MaxAttempts + e + Pending(s) + Lost

CallInv == DistillTypeOK /\ Due /\ \A s \in Sessions : Paid(s)

LEMMA Numbers ==
  ASSUME DistillTypeOK
  PROVE  /\ MaxAttempts \in Nat \ {0} /\ CoolDown \in Nat \ {0} /\ MaxFaults \in Nat
         /\ now \in Nat /\ left.faults \in 0..MaxFaults /\ Lost \in Nat
         /\ \A s \in Sessions : /\ fails[s].count \in 0..MaxAttempts /\ fails[s].at \in Nat
                                /\ wasted[s] \in Nat /\ Pending(s) \in 0..1
<1>1. /\ MaxAttempts \in Nat \ {0} /\ CoolDown \in Nat \ {0} /\ MaxFaults \in Nat
      /\ now \in Nat /\ left.faults \in 0..MaxFaults
  BY DistillAssumption DEF DistillTypeOK
<1>2. Lost \in Nat
  BY <1>1 DEF Lost
<1>3. \A s \in Sessions : /\ fails[s].count \in 0..MaxAttempts /\ fails[s].at \in Nat /\ wasted[s] \in Nat
  BY DEF DistillTypeOK
<1>4. \A s \in Sessions : Pending(s) \in 0..1
  BY DEF Pending
<1> QED BY <1>1, <1>2, <1>3, <1>4

\* A session stays within its calls if no more are wasted than are paid for.
LEMMA StillPaid ==
  ASSUME DistillTypeOK, DistillTypeOK', NEW s \in Sessions, Paid(s), fails'[s] = fails[s], now <= now',
         wasted'[s] + Pending(s) + Lost <= wasted[s] + Pending(s)' + Lost'
  PROVE  Paid(s)'
<1>1. /\ MaxAttempts \in Nat \ {0} /\ Lost \in Nat /\ fails[s].count \in 0..MaxAttempts /\ fails[s].at \in Nat
      /\ wasted[s] \in Nat /\ Pending(s) \in 0..1 /\ now \in Nat
  BY Numbers
<1>2. Lost' \in Nat /\ wasted'[s] \in Nat /\ Pending(s)' \in 0..1 /\ now' \in Nat
  <2>1. MaxFaults \in Nat /\ left'.faults \in 0..MaxFaults /\ now' \in Nat /\ wasted'[s] \in Nat
    BY DistillAssumption DEF DistillTypeOK
  <2>2. Lost' = MaxFaults - left'.faults
    BY DEF Lost
  <2>3. Pending(s)' \in 0..1
    BY DEF Pending
  <2> QED BY <2>1, <2>2, <2>3
<1>3. fails'[s].at <= now'
  BY <1>1, <1>2 DEF Paid
<1>4. ASSUME fails'[s].count < MaxAttempts PROVE wasted'[s] <= fails'[s].count + Pending(s)' + Lost'
  BY <1>1, <1>2, <1>4 DEF Paid
<1>5. ASSUME fails'[s].count = MaxAttempts
      PROVE  \E e \in Nat : /\ e * CoolDown <= fails'[s].at
                            /\ wasted'[s] <= MaxAttempts + e + Pending(s)' + Lost'
  <2>1. PICK e \in Nat : e * CoolDown <= fails[s].at /\ wasted[s] <= MaxAttempts + e + Pending(s) + Lost
    BY <1>5 DEF Paid
  <2>2. wasted'[s] <= MaxAttempts + e + Pending(s)' + Lost'
    BY <1>1, <1>2, <2>1
  <2> QED BY <2>1, <2>2
<1> QED BY <1>3, <1>4, <1>5 DEF Paid
LEMMA OfCandidates ==
  ASSUME NEW list \in Seq(Candidate)
  PROVE  SessionsOf(list) \subseteq Sessions /\ Empty(list) \subseteq SessionsOf(list)
<1>1. \A i \in DOMAIN list : list[i] \in Candidate
  OBVIOUS
<1>2. \A i \in DOMAIN list : list[i].session \in Sessions
  BY <1>1 DEF Candidate
<1> QED BY <1>2 DEF SessionsOf, Empty

LEMMA LoopLists ==
  ASSUME DistillTypeOK
  PROVE  /\ "loop" \in Writers /\ runner["loop"] \in Job
         /\ runner["loop"].todo \in Seq(Candidate) /\ runner["loop"].plan \in Seq(Candidate)
BY DEF DistillTypeOK, Job, Writers

\* A session that was free is free as long as no failure is recorded of it.
LEMMA StillFree ==
  ASSUME DistillTypeOK, NEW s \in Sessions, Free(s), fails'[s] = fails[s], now <= now', now' \in Nat
  PROVE  Free(s)'
<1>1. /\ MaxAttempts \in Nat /\ CoolDown \in Nat /\ fails[s].count \in Nat /\ fails[s].at \in Nat /\ now \in Nat
  BY Numbers
<1>2. CASE fails[s].count < MaxAttempts
  BY <1>2 DEF Free
<1>3. CASE fails[s].at + CoolDown <= now
  <2>1. fails[s].at + CoolDown <= now'
    BY <1>1, <1>3
  <2> QED BY <2>1 DEF Free
<1> QED BY <1>2, <1>3 DEF Free

\* A step that makes and counts no wasted call: what it drops from the loop's lists,
\* it drops with a fault.
LEMMA Dropped ==
  ASSUME CallInv, DistillTypeOK', fails' = fails, wasted' = wasted, now <= now', left'.faults <= left.faults,
         Single(runner'["loop"].todo), Single(runner'["loop"].plan),
         SessionsOf(runner'["loop"].todo) \subseteq SessionsOf(runner["loop"].todo),
         SessionsOf(runner'["loop"].plan) \subseteq SessionsOf(runner["loop"].plan),
         Empty(runner'["loop"].plan) \subseteq Empty(runner["loop"].plan),
         \/ Empty(runner'["loop"].plan) = Empty(runner["loop"].plan)
         \/ left'.faults < left.faults,
         runner'["loop"].pc = "rest" => runner'["loop"].plan = << >>
  PROVE  CallInv'
<1> DEFINE todo == runner["loop"].todo
           plan == runner["loop"].plan
<1>1. /\ todo \in Seq(Candidate) /\ plan \in Seq(Candidate) /\ now \in Nat /\ now' \in Nat
  BY LoopLists DEF CallInv, DistillTypeOK
<1>2. SessionsOf(todo) \subseteq Sessions /\ Empty(plan) \subseteq Sessions
  BY <1>1, OfCandidates
<1>3. /\ MaxFaults \in Nat /\ left.faults \in 0..MaxFaults /\ left'.faults \in 0..MaxFaults
  BY DistillAssumption DEF CallInv, DistillTypeOK
<1>4. Due'
  <2>1. \A s \in SessionsOf(todo) \cup Empty(plan) : Free(s)'
    BY <1>1, <1>2, StillFree DEF CallInv, Due
  <2> QED BY <2>1 DEF CallInv, Due
<1>5. ASSUME NEW s \in Sessions PROVE Paid(s)'
  <2>1. wasted[s] \in Nat /\ Pending(s) \in 0..1 /\ Lost \in Nat
    BY Numbers DEF CallInv
  <2>2. Lost = MaxFaults - left.faults /\ Lost' = MaxFaults - left'.faults
    BY DEF Lost
  <2>3. Lost <= Lost' /\ (left'.faults < left.faults => Lost + 1 <= Lost')
    BY <1>3, <2>2
  <2>4. Pending(s)' = Pending(s) \/ (Pending(s)' \in 0..1 /\ Lost + 1 <= Lost')
    BY <2>3 DEF Pending
  <2>5. Pending(s)' \in 0..1 /\ Lost' \in Nat
    BY <1>3, <2>2 DEF Pending
  <2>6. wasted'[s] + Pending(s) + Lost <= wasted[s] + Pending(s)' + Lost'
    BY <2>1, <2>3, <2>4, <2>5
  <2> QED BY <2>6, StillPaid DEF CallInv
<1> QED BY <1>4, <1>5 DEF CallInv

\* The loop takes up sessions that are free.
LEMMA LoopStarts ==
  ASSUME CallInv, DistillTypeOK', StartLoop
  PROVE  CallInv'
<1>1. PICK all \in Candidates(Window, FALSE, TRUE) :
        runner' = [runner EXCEPT !["loop"] = [AtRest EXCEPT !.pc = "call",
                     !.todo = SubSeq(all, 1, Least(PerCycle, Len(all)))]]
  BY DEF StartLoop
<1> DEFINE n == Least(PerCycle, Len(all))
           todo == SubSeq(all, 1, n)
<1>2. /\ all \in Seq(Candidate) /\ Single(all) /\ \A i \in DOMAIN all : ~Excluded(all[i].session)
  BY CandidatesAre, Zenon DEF CallInv, Single
<1>3. n \in Nat /\ n <= Len(all) /\ Len(all) \in Nat
  <2>1. PerCycle \in Nat
    BY DistillAssumption
  <2>2. Len(all) \in Nat
    BY <1>2
  <2> QED BY <2>1, <2>2, LeastOf
<1> HIDE DEF n
<1>4. todo \in Seq(Candidate) /\ DOMAIN todo = 1..n /\ \A i \in 1..n : i \in DOMAIN all /\ todo[i] = all[i]
  <2>1. DOMAIN all = 1..Len(all)
    BY <1>2
  <2>2. \A i \in 1..n : i \in 1..Len(all)
    BY <1>3
  <2>3. todo \in Seq(Candidate) /\ Len(todo) = n /\ \A i \in 1..n : todo[i] = all[i]
    BY <1>2, <1>3, SubSeqProperties
  <2> HIDE DEF todo
  <2>4. DOMAIN todo = 1..n
    BY <2>3
  <2> QED BY <2>1, <2>2, <2>3, <2>4
<1>5. /\ runner["loop"].pc = "rest" /\ runner["loop"] \in Job /\ runner \in [Writers -> Job] /\ "loop" \in Writers
      /\ fails' = fails /\ wasted' = wasted /\ now' = now /\ left' = left
  BY DEF StartLoop, CallInv, DistillTypeOK, Writers, Texts
<1>6. /\ runner'["loop"].pc = "call" /\ runner'["loop"].todo = todo /\ runner'["loop"].plan = << >>
  BY <1>1, <1>5 DEF AtRest, n
<1> HIDE DEF todo
<1>7. Single(todo)
  BY <1>2, <1>4 DEF Single
<1>8. SessionsOf(<< >>) = {} /\ Empty(<< >>) = {} /\ Single(<< >>)
  BY DEF SessionsOf, Empty, Single
<1>9. ASSUME NEW s \in SessionsOf(todo) PROVE Free(s)'
  <2>1. PICK i \in 1..n : s = all[i].session /\ ~Excluded(s)
    BY <1>2, <1>4 DEF SessionsOf
  <2>2. s \in Sessions
    BY <1>4, OfCandidates
  <2>3. /\ MaxAttempts \in Nat /\ CoolDown \in Nat /\ fails[s].count \in Nat /\ fails[s].at \in Nat /\ now \in Nat
    BY <2>2, Numbers DEF CallInv
  <2>4. fails[s].count < MaxAttempts \/ fails[s].at + CoolDown <= now
    BY <2>1, <2>3 DEF Excluded
  <2> QED BY <1>5, <2>4 DEF Free
<1>10. Due'
  BY <1>6, <1>7, <1>8, <1>9 DEF Due
<1>11. ASSUME NEW s \in Sessions PROVE Paid(s)'
  <2>1. Pending(s)' = Pending(s)
    BY <1>5, <1>6 DEF Pending, CallInv, Due
  <2>2. Lost' = Lost
    BY <1>5 DEF Lost
  <2>3. /\ wasted[s] \in Nat /\ Pending(s) \in 0..1 /\ Lost \in Nat /\ now \in Nat
    BY Numbers DEF CallInv
  <2>4. wasted'[s] + Pending(s) + Lost <= wasted[s] + Pending(s)' + Lost' /\ now <= now'
    BY <1>5, <2>1, <2>2, <2>3
  <2> QED BY <1>5, <2>4, StillPaid DEF CallInv
<1> QED BY <1>10, <1>11 DEF CallInv
\* The loop has its answer: a call that gave nothing is on the list of what is to be
\* counted.
LEMMA LoopAsks ==
  ASSUME CallInv, DistillTypeOK', Answer("loop")
  PROVE  CallInv'
<1> DEFINE todo == runner["loop"].todo
           plan == runner["loop"].plan
<1>1. /\ runner \in [Writers -> Job] /\ runner["loop"] \in Job /\ "loop" \in Writers
      /\ todo \in Seq(Candidate) /\ plan \in Seq(Candidate) /\ DistillTypeOK
      /\ runner["loop"].pc = "call" /\ todo # << >>
  BY LoopLists DEF CallInv, DistillTypeOK, Answer
<1>2. /\ Single(todo) /\ Single(plan) /\ SessionsOf(todo) \cap SessionsOf(plan) = {}
      /\ \A s \in SessionsOf(todo) \cup Empty(plan) : Free(s)
  BY DEF CallInv, Due
<1>3. PICK c \in Candidate : c = Head(todo)
  BY <1>1, RestOf, <1>2
<1>4. PICK answered \in BOOLEAN :
        /\ runner' = [runner EXCEPT !["loop"].todo = Tail(@),
                                    !["loop"].plan = Append(@, [c EXCEPT !.answered = answered])]
        /\ wasted' = IF ~answered THEN [wasted EXCEPT ![c.session] = Least(@ + 1, TooMany)] ELSE wasted
  BY <1>3 DEF Answer
<1>5. PICK d \in Candidate : d = [c EXCEPT !.answered = answered]
  BY DEF Candidate
<1>6. d.session = c.session /\ d.answered = answered
  BY <1>5 DEF Candidate
<1>7. /\ runner'["loop"].todo = Tail(todo) /\ runner'["loop"].plan = Append(plan, d)
      /\ runner'["loop"].pc = "call"
  BY <1>1, <1>4, <1>5 DEF Job
<1>8. fails' = fails /\ now' = now /\ left' = left
  BY DEF Answer, Texts
<1>9. /\ c.session \in SessionsOf(todo) /\ c.session \notin SessionsOf(plan)
      /\ Single(Tail(todo)) /\ SessionsOf(Tail(todo)) = SessionsOf(todo) \ {c.session}
  BY <1>1, <1>2, <1>3, RestOf
<1>10. /\ Single(Append(plan, d)) /\ SessionsOf(Append(plan, d)) = SessionsOf(plan) \cup {c.session}
       /\ Empty(Append(plan, d)) = Empty(plan) \cup (IF answered THEN {} ELSE {c.session})
  BY <1>1, <1>2, <1>6, <1>9, MoreOf
<1>11. /\ SessionsOf(todo) \subseteq Sessions /\ Empty(plan) \subseteq SessionsOf(plan) /\ c.session \in Sessions
  BY <1>1, <1>9, OfCandidates
<1>12. Due'
  <2>1. \A s : Free(s)' <=> Free(s)
    BY <1>8 DEF Free
  <2>2. \A s \in SessionsOf(Tail(todo)) \cup Empty(Append(plan, d)) : s \in SessionsOf(todo) \cup Empty(plan)
    BY <1>9, <1>10
  <2> QED BY <1>2, <1>7, <1>9, <1>10, <2>1, <2>2 DEF Due
<1>13. ASSUME NEW s \in Sessions PROVE Paid(s)'
  <2>1. /\ wasted[s] \in Nat /\ Pending(s) \in 0..1 /\ Lost \in Nat /\ now \in Nat /\ TooMany \in Nat
    BY <1>1, Numbers, Constants
  <2>2. Lost' = Lost
    BY <1>8 DEF Lost
  <2>3. CASE answered \/ s # c.session
    <3>1. wasted'[s] = wasted[s]
      BY <1>1, <1>4, <1>11, <2>3 DEF DistillTypeOK
    <3>2. Pending(s)' = Pending(s)
      BY <1>7, <1>10, <2>3 DEF Pending
    <3>3. wasted'[s] + Pending(s) + Lost <= wasted[s] + Pending(s)' + Lost' /\ now <= now'
      BY <1>8, <2>1, <2>2, <3>1, <3>2
    <3> QED BY <1>8, <3>3, StillPaid DEF CallInv
  <2>4. CASE ~answered /\ s = c.session
    <3>1. wasted'[s] = Least(wasted[s] + 1, TooMany)
      BY <1>1, <1>4, <1>11, <2>4 DEF DistillTypeOK
    <3>2. wasted'[s] \in Nat /\ wasted'[s] <= wasted[s] + 1
      BY <2>1, <3>1 DEF Least
    <3>3. Pending(s) = 0 /\ Pending(s)' = 1
      BY <1>7, <1>9, <1>10, <1>11, <2>4 DEF Pending
    <3>4. wasted'[s] + Pending(s) + Lost <= wasted[s] + Pending(s)' + Lost' /\ now <= now'
      BY <1>8, <2>1, <2>2, <3>2, <3>3
    <3> QED BY <1>8, <3>4, StillPaid DEF CallInv
  <2> QED BY <2>3, <2>4
<1> QED BY <1>12, <1>13 DEF CallInv

\* What the loop has of its plan when it has done with a proposal.
LEMMA LoopNext ==
  ASSUME CallInv, NextItem("loop"), runner["loop"].plan # << >>
  PROVE  /\ runner'["loop"].todo = runner["loop"].todo /\ runner'["loop"].plan = Tail(runner["loop"].plan)
         /\ runner'["loop"].pc = "apply" /\ Item("loop") \in Candidate /\ Item("loop").session \in Sessions
         /\ Single(Tail(runner["loop"].plan))
         /\ SessionsOf(Tail(runner["loop"].plan)) = SessionsOf(runner["loop"].plan) \ {Item("loop").session}
         /\ Empty(Tail(runner["loop"].plan)) = Empty(runner["loop"].plan) \ {Item("loop").session}
         /\ Item("loop").session \in SessionsOf(runner["loop"].plan)
         /\ ~Item("loop").answered => Item("loop").session \in Empty(runner["loop"].plan)
<1>1. /\ runner \in [Writers -> Job] /\ runner["loop"] \in Job /\ "loop" \in Writers /\ DistillTypeOK
      /\ runner["loop"].plan \in Seq(Candidate) /\ Single(runner["loop"].plan)
  BY LoopLists DEF CallInv, DistillTypeOK, Due
<1>2. /\ runner'["loop"].todo = runner["loop"].todo /\ runner'["loop"].plan = Tail(runner["loop"].plan)
      /\ runner'["loop"].pc = "apply"
  BY <1>1 DEF NextItem, Job
<1>3. Item("loop") \in Candidate /\ Item("loop").session \in Sessions
  BY <1>1, ItemTyped
<1> QED BY <1>1, <1>2, <1>3, RestOf DEF Item
\* The loop counts a wasted call: below the cap the count is the larger, and at the cap
\* another cool-down has passed.
LEMMA LoopPasses ==
  ASSUME CallInv, DistillTypeOK', PassOver("loop")
  PROVE  CallInv'
<1> DEFINE todo == runner["loop"].todo
           plan == runner["loop"].plan
<1>1. /\ runner["loop"].pc = "apply" /\ plan # << >> /\ ~Item("loop").answered /\ NextItem("loop")
      /\ RecordFailure(Item("loop").session) /\ wasted' = wasted /\ now' = now /\ left' = left
  BY DEF PassOver, Applies, Texts
<1>2. DistillTypeOK /\ todo \in Seq(Candidate) /\ plan \in Seq(Candidate)
  BY LoopLists DEF CallInv
<1>3. PICK c \in Sessions : c = Item("loop").session
  BY <1>1, LoopNext
<1>4. /\ runner'["loop"].todo = todo /\ runner'["loop"].plan = Tail(plan) /\ runner'["loop"].pc = "apply"
      /\ Single(Tail(plan)) /\ SessionsOf(Tail(plan)) = SessionsOf(plan) \ {c}
      /\ Empty(Tail(plan)) = Empty(plan) \ {c} /\ c \in SessionsOf(plan) /\ c \in Empty(plan)
  BY <1>1, <1>3, LoopNext
<1>5. /\ Single(todo) /\ SessionsOf(todo) \cap SessionsOf(plan) = {}
      /\ \A s \in SessionsOf(todo) \cup Empty(plan) : Free(s)
  BY DEF CallInv, Due
<1>6. /\ \A s \in Sessions \ {c} : fails'[s] = fails[s]
      /\ fails'[c].count = Least(fails[c].count + 1, MaxAttempts) /\ fails'[c].at = now
  BY <1>1, <1>2, <1>3 DEF RecordFailure, DistillTypeOK
<1>7. /\ MaxAttempts \in Nat \ {0} /\ CoolDown \in Nat \ {0} /\ Lost \in Nat /\ now \in Nat
      /\ \A s \in Sessions : /\ fails[s].count \in 0..MaxAttempts /\ fails[s].at \in Nat
                             /\ wasted[s] \in Nat /\ Pending(s) \in 0..1
  BY <1>2, Numbers
<1>8. Lost' = Lost
  BY <1>1 DEF Lost
<1>9. Due'
  <2>1. SessionsOf(todo) \subseteq Sessions /\ Empty(plan) \subseteq Sessions
    BY <1>2, OfCandidates
  <2>2. \A s \in SessionsOf(todo) \cup (Empty(plan) \ {c}) : s \in Sessions \ {c} /\ Free(s)
    BY <1>4, <1>5, <2>1
  <2>3. \A s \in SessionsOf(todo) \cup (Empty(plan) \ {c}) : Free(s)'
    BY <1>1, <1>6, <2>2 DEF Free
  <2> QED BY <1>4, <1>5, <2>3 DEF Due
<1>10. ASSUME NEW s \in Sessions, s # c PROVE Paid(s)'
  <2>1. Pending(s)' = Pending(s)
    BY <1>4, <1>10 DEF Pending
  <2>2. wasted'[s] + Pending(s) + Lost <= wasted[s] + Pending(s)' + Lost' /\ now <= now'
    BY <1>1, <1>7, <1>8, <2>1
  <2> QED BY <1>2, <1>6, <1>10, <2>2, StillPaid DEF CallInv
<1>11. Paid(c)'
  <2>1. Pending(c) = 1 /\ Pending(c)' = 0
    BY <1>4 DEF Pending
  <2>2. Free(c) /\ Paid(c)
    BY <1>4, <1>5 DEF CallInv
  <2>3. PICK e \in Nat : /\ e * CoolDown <= now
                         /\ fails[c].count + 1 < MaxAttempts => wasted[c] <= fails[c].count + 1 + Lost
                         /\ fails[c].count + 1 >= MaxAttempts => wasted[c] <= MaxAttempts + e + Lost
    <3>1. CASE fails[c].count < MaxAttempts
      <4>1. wasted[c] <= fails[c].count + 1 + Lost
        BY <1>7, <2>1, <2>2, <3>1 DEF Paid
      <4>2. 0 * CoolDown <= now /\ 0 \in Nat
        BY <1>7
      <4>3. fails[c].count + 1 >= MaxAttempts => wasted[c] <= MaxAttempts + 0 + Lost
        BY <1>7, <3>1, <4>1
      <4> QED BY <4>1, <4>2, <4>3
    <3>2. CASE fails[c].count = MaxAttempts
      <4>1. PICK d \in Nat : d * CoolDown <= fails[c].at /\ wasted[c] <= MaxAttempts + d + Pending(c) + Lost
        BY <2>2, <3>2 DEF Paid
      <4>2. fails[c].at + CoolDown <= now
        BY <1>7, <2>2, <3>2 DEF Free
      <4>3. (d + 1) * CoolDown = d * CoolDown + CoolDown /\ d * CoolDown \in Int
        BY <1>7
      <4>4. (d + 1) * CoolDown <= now
        BY <1>7, <4>1, <4>2, <4>3
      <4>5. wasted[c] <= MaxAttempts + (d + 1) + Lost
        BY <1>7, <2>1, <4>1
      <4>6. d + 1 \in Nat /\ ~ (fails[c].count + 1 < MaxAttempts)
        BY <1>7, <3>2
      <4> QED BY <4>4, <4>5, <4>6
    <3> QED BY <1>7, <3>1, <3>2
  <2>4. fails'[c].count = IF fails[c].count + 1 < MaxAttempts THEN fails[c].count + 1 ELSE MaxAttempts
    BY <1>6 DEF Least
  <2>5. fails'[c].at <= now'
    BY <1>1, <1>6, <1>7
  <2>6. ASSUME fails'[c].count < MaxAttempts
        PROVE  wasted'[c] <= fails'[c].count + Pending(c)' + Lost'
    BY <1>1, <1>7, <1>8, <2>1, <2>3, <2>4, <2>6
  <2>7. ASSUME fails'[c].count = MaxAttempts
        PROVE  e * CoolDown <= fails'[c].at /\ wasted'[c] <= MaxAttempts + e + Pending(c)' + Lost'
    <3>1. fails[c].count + 1 >= MaxAttempts
      BY <1>7, <2>4, <2>7
    <3>2. wasted[c] <= MaxAttempts + e + Lost
      BY <2>3, <3>1
    <3> QED BY <1>1, <1>6, <1>7, <1>8, <2>1, <2>3, <3>2
  <2> QED BY <2>5, <2>6, <2>7 DEF Paid
<1> QED BY <1>9, <1>10, <1>11 DEF CallInv

\* A summary wipes the count, and what was wasted.
LEMMA LoopClears ==
  ASSUME CallInv, DistillTypeOK', ClearFailure("loop")
  PROVE  CallInv'
<1> DEFINE todo == runner["loop"].todo
           plan == runner["loop"].plan
<1>1. /\ plan # << >> /\ NextItem("loop") /\ now' = now /\ left' = left
      /\ fails' = [fails EXCEPT ![Item("loop").session] = [count |-> 0, at |-> 0]]
      /\ wasted' = [wasted EXCEPT ![Item("loop").session] = 0]
  BY DEF ClearFailure, Applies, Texts
<1>2. DistillTypeOK /\ todo \in Seq(Candidate) /\ plan \in Seq(Candidate)
  BY LoopLists DEF CallInv
<1>3. PICK c \in Sessions : c = Item("loop").session
  BY <1>1, LoopNext
<1>4. /\ runner'["loop"].todo = todo /\ runner'["loop"].plan = Tail(plan) /\ runner'["loop"].pc = "apply"
      /\ Single(Tail(plan)) /\ SessionsOf(Tail(plan)) = SessionsOf(plan) \ {c}
      /\ Empty(Tail(plan)) = Empty(plan) \ {c} /\ c \in SessionsOf(plan)
  BY <1>1, <1>3, LoopNext
<1>5. /\ Single(todo) /\ SessionsOf(todo) \cap SessionsOf(plan) = {}
      /\ \A s \in SessionsOf(todo) \cup Empty(plan) : Free(s)
  BY DEF CallInv, Due
<1>6. /\ \A s \in Sessions \ {c} : fails'[s] = fails[s] /\ wasted'[s] = wasted[s]
      /\ fails'[c].count = 0 /\ fails'[c].at = 0 /\ wasted'[c] = 0
  BY <1>1, <1>2, <1>3 DEF DistillTypeOK
<1>7. /\ MaxAttempts \in Nat \ {0} /\ Lost \in Nat /\ now \in Nat
      /\ \A s \in Sessions : wasted[s] \in Nat /\ Pending(s) \in 0..1
  BY <1>2, Numbers
<1>8. Lost' = Lost /\ Pending(c)' \in 0..1
  BY <1>1 DEF Lost, Pending
<1>9. Due'
  <2>1. SessionsOf(todo) \subseteq Sessions /\ Empty(plan) \subseteq Sessions
    BY <1>2, OfCandidates
  <2>2. \A s \in SessionsOf(todo) \cup (Empty(plan) \ {c}) : s \in Sessions \ {c} /\ Free(s)
    BY <1>4, <1>5, <2>1
  <2>3. \A s \in SessionsOf(todo) \cup (Empty(plan) \ {c}) : Free(s)'
    BY <1>1, <1>6, <2>2 DEF Free
  <2> QED BY <1>4, <1>5, <2>3 DEF Due
<1>10. ASSUME NEW s \in Sessions, s # c PROVE Paid(s)'
  <2>1. Pending(s)' = Pending(s)
    BY <1>4, <1>10 DEF Pending
  <2>2. wasted'[s] + Pending(s) + Lost <= wasted[s] + Pending(s)' + Lost' /\ now <= now'
    BY <1>1, <1>6, <1>7, <1>8, <1>10, <2>1
  <2> QED BY <1>2, <1>6, <1>10, <2>2, StillPaid DEF CallInv
<1>11. Paid(c)'
  <2>1. fails'[c].at <= now' /\ fails'[c].count # MaxAttempts
    BY <1>1, <1>6, <1>7
  <2>2. wasted'[c] <= fails'[c].count + Pending(c)' + Lost'
    BY <1>6, <1>7, <1>8
  <2> QED BY <2>1, <2>2 DEF Paid
<1> QED BY <1>9, <1>10, <1>11 DEF CallInv
LEMMA CallStep == CallInv /\ [DistillNext]_distillVars => CallInv'
<1> SUFFICES ASSUME CallInv, [DistillNext]_distillVars PROVE CallInv'
  OBVIOUS
<1> DEFINE loop == runner["loop"]
<1>1. DistillTypeOK /\ DistillTypeOK' /\ Due
  BY TypeStep DEF CallInv
<1>2. /\ runner \in [Writers -> Job] /\ loop \in Job /\ "loop" \in Writers
      /\ loop.todo \in Seq(Candidate) /\ loop.plan \in Seq(Candidate)
  BY <1>1, LoopLists DEF DistillTypeOK
<1>3. Single(loop.todo) /\ Single(loop.plan) /\ (loop.pc = "rest" => loop.plan = << >>)
  BY <1>1 DEF Due
<1>4. now \in Nat /\ now' \in Nat /\ left.faults \in 0..MaxFaults /\ left'.faults \in 0..MaxFaults /\ MaxFaults \in Nat
  BY <1>1, DistillAssumption DEF DistillTypeOK
<1>5. /\ AtRest.todo = << >> /\ AtRest.plan = << >> /\ SessionsOf(<< >>) = {} /\ Empty(<< >>) = {} /\ Single(<< >>)
  BY DEF AtRest, SessionsOf, Empty, Single
<1>6. ASSUME left.faults > 0, left' = [left EXCEPT !.faults = @ - 1] PROVE left'.faults < left.faults
  BY <1>1, <1>4, <1>6, FaultTyped
<1>7. ASSUME fails' = fails, wasted' = wasted, now <= now', left'.faults <= left.faults,
             runner'["loop"].todo = loop.todo, runner'["loop"].plan = loop.plan,
             runner'["loop"].pc = "rest" => loop.plan = << >>
      PROVE  CallInv'
  <2>1. /\ Single(runner'["loop"].todo) /\ Single(runner'["loop"].plan)
        /\ SessionsOf(runner'["loop"].todo) \subseteq SessionsOf(runner["loop"].todo)
        /\ SessionsOf(runner'["loop"].plan) \subseteq SessionsOf(runner["loop"].plan)
        /\ Empty(runner'["loop"].plan) = Empty(runner["loop"].plan)
        /\ (runner'["loop"].pc = "rest" => runner'["loop"].plan = << >>)
    BY <1>3, <1>7
  <2> QED BY <1>1, <1>7, <2>1, Dropped
<1>8. ASSUME fails' = fails, wasted' = wasted, now' = now, runner' = [runner EXCEPT !["loop"] = AtRest],
             (left' = left /\ loop.plan = << >>) \/ left'.faults < left.faults
      PROVE  CallInv'
  <2>1. runner'["loop"].todo = << >> /\ runner'["loop"].plan = << >>
    BY <1>2, <1>5, <1>8
  <2>2. left'.faults <= left.faults /\ now <= now'
    BY <1>4, <1>8
  <2> QED BY <1>1, <1>5, <1>8, <2>1, <2>2, Dropped
<1>9. CASE \/ \E window \in {0, Window}, forced, refresh \in BOOLEAN : StartCommand(window, forced, refresh)
           \/ Surroundings \/ UNCHANGED distillVars
  <2>1. CASE \E window \in {0, Window}, forced, refresh \in BOOLEAN : StartCommand(window, forced, refresh)
    <3>1. /\ fails' = fails /\ wasted' = wasted /\ now' = now /\ left' = [left EXCEPT !.runs = @ - 1]
          /\ runner'["loop"] = loop
      BY <1>2, <2>1 DEF StartCommand, Texts
    <3>2. left'.faults = left.faults
      BY <1>1, <3>1 DEF DistillTypeOK
    <3> QED BY <1>3, <1>4, <1>7, <3>1, <3>2
  <2>2. CASE Surroundings \/ UNCHANGED distillVars
    <3>1. fails' = fails /\ wasted' = wasted /\ left' = left /\ runner' = runner
      BY <2>2 DEF Surroundings, Grow, RaiseCap, TimePasses, distillVars
    <3>2. now' = now \/ now' = now + 1
      BY <2>2 DEF Surroundings, Grow, RaiseCap, TimePasses, distillVars
    <3> QED BY <1>3, <1>4, <1>7, <3>1, <3>2
  <2> QED BY <1>9, <2>1, <2>2
<1>10. ASSUME Run("command") \/ NoAnswer("command") \/ ApplyError("command") \/ Die("command") PROVE CallInv'
  <2>1. "command" # "loop" /\ "command" \in Writers
    BY DEF Writers
  <2>2. /\ fails' = fails /\ wasted' = wasted /\ now' = now
        /\ left' = left \/ (left.faults > 0 /\ left' = [left EXCEPT !.faults = @ - 1])
    BY <1>10, <2>1 DEF Run, Answer, Planned, PassOver, WriteFile, UpsertRow, Tidy, Unrow, ClearFailure, Unlock,
                       NoAnswer, ApplyError, Die, Texts
  <2>3. runner'["loop"] = loop
    BY <1>2, <1>10, <2>1 DEF Run, Answer, Planned, PassOver, WriteFile, UpsertRow, Tidy, Unrow, ClearFailure,
                             Unlock, NoAnswer, ApplyError, Die, NextItem, GoesTo
  <2>4. left'.faults <= left.faults /\ now <= now'
    BY <1>4, <1>6, <2>2
  <2> QED BY <1>3, <1>7, <2>2, <2>3, <2>4
<1>11. CASE WriteFile("loop") \/ UpsertRow("loop") \/ Tidy("loop") \/ Unrow("loop") \/ Planned("loop")
  <2>1. fails' = fails /\ wasted' = wasted /\ now' = now /\ left' = left
    BY <1>11 DEF WriteFile, UpsertRow, Tidy, Unrow, Planned, Texts
  <2>2. /\ runner'["loop"].todo = loop.todo /\ runner'["loop"].plan = loop.plan
        /\ runner'["loop"].pc # "rest"
    <3>1. CASE WriteFile("loop") \/ UpsertRow("loop") \/ Unrow("loop") \/ Planned("loop")
      BY <1>2, <3>1 DEF WriteFile, UpsertRow, Unrow, Planned, GoesTo, Job
    <3>2. CASE Tidy("loop")
      BY <1>2, <3>2 DEF Tidy, GoesTo, Job
    <3> QED BY <1>11, <3>1, <3>2
  <2>3. now <= now' /\ left'.faults <= left.faults
    BY <1>4, <2>1
  <2> QED BY <1>7, <2>1, <2>2, <2>3
<1>12. CASE Unlock("loop")
  BY <1>8, <1>12 DEF Unlock, Texts
<1>13. CASE Die("loop")
  BY <1>6, <1>8, <1>13 DEF Die, Texts
<1>14. CASE NoAnswer("loop")
  <2>1. /\ loop.todo # << >> /\ runner'["loop"].todo = Tail(loop.todo) /\ runner'["loop"].plan = loop.plan
        /\ runner'["loop"].pc = "call"
        /\ fails' = fails /\ wasted' = wasted /\ now' = now
        /\ left.faults > 0 /\ left' = [left EXCEPT !.faults = @ - 1]
    BY <1>2, <1>14 DEF NoAnswer, Texts, Job
  <2>2. Single(Tail(loop.todo)) /\ SessionsOf(Tail(loop.todo)) \subseteq SessionsOf(loop.todo)
    BY <1>2, <1>3, <2>1, RestOf
  <2>3. left'.faults <= left.faults /\ now <= now'
    BY <1>4, <1>6, <2>1
  <2> QED BY <1>1, <1>3, <2>1, <2>2, <2>3, Dropped
<1>15. CASE ApplyError("loop")
  <2>1. /\ loop.plan # << >> /\ NextItem("loop") /\ fails' = fails /\ wasted' = wasted /\ now' = now
        /\ left.faults > 0 /\ left' = [left EXCEPT !.faults = @ - 1]
    BY <1>15 DEF ApplyError, Applies, Texts
  <2>2. /\ runner'["loop"].todo = loop.todo /\ runner'["loop"].plan = Tail(loop.plan)
        /\ runner'["loop"].pc = "apply" /\ Single(Tail(loop.plan))
        /\ SessionsOf(Tail(loop.plan)) \subseteq SessionsOf(loop.plan)
        /\ Empty(Tail(loop.plan)) \subseteq Empty(loop.plan)
    BY <2>1, LoopNext
  <2>3. left'.faults < left.faults
    BY <1>6, <2>1
  <2>4. left'.faults <= left.faults /\ now <= now'
    BY <1>4, <2>1, <2>3
  <2> QED BY <1>1, <1>3, <2>1, <2>2, <2>3, <2>4, Dropped
<1>16. ASSUME Run("loop") \/ NoAnswer("loop") \/ ApplyError("loop") \/ Die("loop") PROVE CallInv'
  BY <1>1, <1>11, <1>12, <1>13, <1>14, <1>15, <1>16, LoopAsks, LoopPasses, LoopClears DEF Run
<1>17. CASE StartLoop
  BY <1>1, <1>17, LoopStarts
<1> QED BY <1>9, <1>10, <1>16, <1>17 DEF DistillNext, Writers

LEMMA CallInit == DistillInit => CallInv
<1> SUFFICES ASSUME DistillInit PROVE CallInv
  OBVIOUS
<1>1. DistillTypeOK
  BY TypeInit
<1>2. runner["loop"].todo = << >> /\ runner["loop"].plan = << >>
  BY DEF DistillInit, AtRest, Writers
<1>3. SessionsOf(<< >>) = {} /\ Empty(<< >>) = {} /\ Single(<< >>)
  BY DEF SessionsOf, Empty, Single
<1>4. Due
  BY <1>2, <1>3 DEF Due
<1>5. \A s \in Sessions : fails[s].count = 0 /\ fails[s].at = 0 /\ wasted[s] = 0 /\ now = 0
  BY DEF DistillInit
<1>6. \A s \in Sessions : Pending(s) \in 0..1 /\ Lost \in Nat /\ MaxAttempts \in Nat \ {0}
  BY <1>1, Numbers
<1>7. \A s \in Sessions : Paid(s)
  BY <1>5, <1>6 DEF Paid
<1> QED BY <1>1, <1>4, <1>7 DEF CallInv

LEMMA CoolDowns ==
  ASSUME NEW c \in Nat \ {0}, NEW n \in Nat, NEW e \in Nat, e * c <= n
  PROVE  e <= n \div c
<1> DEFINE q == n \div c
<1>1. q \in Nat /\ n < (q + 1) * c
  OBVIOUS
<1> HIDE DEF q
<1>2. SUFFICES ASSUME e >= q + 1 PROVE FALSE
  BY <1>1 DEF q
<1>3. e * c >= (q + 1) * c /\ e * c \in Int /\ (q + 1) * c \in Int
  BY <1>1, <1>2
<1> QED BY <1>1, <1>3

\* record_distill_failure, clear_distill_failure and find_session_candidates: over any
\* number of runs, faults and cool-downs, the loop asks in vain no more often than the
\* cap, the cool-downs and the faults allow.
THEOREM CallsAreBounded == DistillSpec => []CallsAreCapped
<1>1. CallInv => CallsAreCapped
  <2> SUFFICES ASSUME CallInv, NEW s \in Sessions
               PROVE  wasted[s] <= MaxAttempts + now \div CoolDown + (MaxFaults - left.faults)
    BY DEF CallsAreCapped
  <2>1. /\ MaxAttempts \in Nat \ {0} /\ CoolDown \in Nat \ {0} /\ Lost \in Nat /\ now \in Nat
        /\ fails[s].count \in 0..MaxAttempts /\ fails[s].at \in Nat /\ wasted[s] \in Nat /\ Pending(s) \in 0..1
        /\ Paid(s) /\ MaxFaults - left.faults = Lost
    BY Numbers DEF CallInv, Lost
  <2>2. now \div CoolDown \in Nat
    BY <2>1
  <2>3. Pending(s) = 1 => Free(s)
    BY DEF CallInv, Due, Pending
  <2>4. CASE fails[s].count < MaxAttempts
    BY <2>1, <2>2, <2>4 DEF Paid
  <2>5. CASE fails[s].count = MaxAttempts
    <3>1. PICK e \in Nat : e * CoolDown <= fails[s].at /\ wasted[s] <= MaxAttempts + e + Pending(s) + Lost
      BY <2>1, <2>5 DEF Paid
    <3>2. fails[s].at <= now
      BY <2>1 DEF Paid
    <3>3. /\ (e + 1) * CoolDown = e * CoolDown + CoolDown
          /\ e * CoolDown \in Int /\ (e + 1) * CoolDown \in Int
      BY <2>1
    <3>4. CASE Pending(s) = 0
      <4>1. e * CoolDown <= now
        BY <2>1, <3>1, <3>2, <3>3
      <4>2. e <= now \div CoolDown
        BY <2>1, <4>1, CoolDowns
      <4> QED BY <2>1, <2>2, <3>1, <3>4, <4>2
    <3>5. CASE Pending(s) = 1
      <4>1. fails[s].at + CoolDown <= now
        BY <2>1, <2>3, <2>5, <3>5 DEF Free
      <4>2. (e + 1) * CoolDown <= now /\ e + 1 \in Nat
        BY <2>1, <3>1, <3>3, <4>1
      <4>3. e + 1 <= now \div CoolDown
        BY <2>1, <4>2, CoolDowns
      <4> QED BY <2>1, <2>2, <3>1, <3>5, <4>3
    <3> QED BY <2>1, <3>4, <3>5
  <2> QED BY <2>1, <2>4, <2>5
<1> QED BY <1>1, CallInit, CallStep, PTL DEF DistillSpec


-----------------------------------------------------------------------------
(* Under the lock *)

\* The runs that are under the lock of the stage.
Locking == {p \in Writers : \/ runner[p].pc \in {"apply"} \cup Writing
                            \/ p = "loop" /\ runner[p].pc # "rest"}

WriterTurns == INSTANCE StageTurns WITH Runners <- Writers, working <- Locking

LEMMA OneWriterMoves ==
  ASSUME DistillTypeOK, [DistillNext]_distillVars
  PROVE  \E p \in Writers : \A q \in Writers \ {p} : runner'[q] = runner[q]
<1>0. DOMAIN runner = Writers
  BY DEF DistillTypeOK
<1>1. ASSUME NEW p \in Writers, \E job : runner' = [runner EXCEPT ![p] = job]
      PROVE  \A q \in Writers \ {p} : runner'[q] = runner[q]
  <2>1. PICK job : runner' = [runner EXCEPT ![p] = job]
    BY <1>1
  <2> QED BY <1>0, <2>1
<1>2. CASE \/ StartLoop
          \/ \E window \in {0, Window}, forced, refresh \in BOOLEAN : StartCommand(window, forced, refresh)
  <2>1. "loop" \in Writers /\ "command" \in Writers
    BY DEF Writers
  <2>2. CASE StartLoop
    BY <1>1, <2>1, <2>2 DEF StartLoop
  <2>3. CASE \E window \in {0, Window}, forced, refresh \in BOOLEAN : StartCommand(window, forced, refresh)
    BY <1>1, <2>1, <2>3 DEF StartCommand
  <2> QED BY <1>2, <2>2, <2>3
<1>3. CASE \E p \in Writers : Run(p) \/ NoAnswer(p) \/ ApplyError(p) \/ Die(p)
  <2>1. PICK p \in Writers : Run(p) \/ NoAnswer(p) \/ ApplyError(p) \/ Die(p)
    BY <1>3
  <2> SUFFICES \A q \in Writers \ {p} : runner'[q] = runner[q]
    OBVIOUS
  <2>2. CASE Answer(p)
    BY <1>0, <2>2 DEF Answer
  <2>3. CASE Planned(p)
    BY <1>0, <2>3 DEF Planned
  <2>4. CASE PassOver(p)
    BY <1>0, <2>4 DEF PassOver, NextItem
  <2>5. CASE WriteFile(p)
    BY <1>0, <2>5 DEF WriteFile
  <2>6. CASE UpsertRow(p)
    BY <1>0, <2>6 DEF UpsertRow, GoesTo
  <2>7. CASE Tidy(p)
    BY <1>0, <2>7 DEF Tidy, GoesTo
  <2>8. CASE Unrow(p)
    BY <1>0, <2>8 DEF Unrow, GoesTo
  <2>9. CASE ClearFailure(p)
    BY <1>0, <2>9 DEF ClearFailure, NextItem
  <2>10. CASE Unlock(p)
    BY <1>0, <2>10 DEF Unlock
  <2>11. CASE NoAnswer(p)
    BY <1>0, <2>11 DEF NoAnswer
  <2>12. CASE ApplyError(p)
    BY <1>0, <2>12 DEF ApplyError, NextItem
  <2>13. CASE Die(p)
    BY <1>0, <2>13 DEF Die
  <2> QED BY <2>1, <2>2, <2>3, <2>4, <2>5, <2>6, <2>7, <2>8, <2>9, <2>10, <2>11, <2>12, <2>13 DEF Run
<1>4. CASE Surroundings \/ UNCHANGED distillVars
  <2>1. UNCHANGED runner /\ "loop" \in Writers
    BY <1>4 DEF Surroundings, Grow, RaiseCap, TimePasses, distillVars, Writers
  <2> QED BY <2>1
<1> QED BY <1>2, <1>3, <1>4 DEF DistillNext

\* What the lock promises when no run outlives it (LockImplementsTurns) is what the
\* summaries are written under: the loop from its start, and the command from the end of
\* its plan, take turns, whatever fails or is killed.
THEOREM SummariesTakeTurns == DistillSpec => WriterTurns!Spec
<1>1. DistillInit => WriterTurns!Init
  BY DEF DistillInit, AtRest, Locking, Writing, WriterTurns!Init
<1>2. DistillTypeOK /\ DistillTypeOK' /\ [DistillNext]_distillVars => [WriterTurns!Next]_Locking
  <2> SUFFICES ASSUME DistillTypeOK, DistillTypeOK', [DistillNext]_distillVars, Locking' # Locking
               PROVE  WriterTurns!Next
    OBVIOUS
  <2>1. Locking \subseteq {lock} \cap Writers /\ Locking' \subseteq {lock'} \cap Writers
    BY DEF DistillTypeOK, Locked, Locking
  <2>2. PICK p \in Writers : \A q \in Writers \ {p} : runner'[q] = runner[q]
    BY OneWriterMoves
  <2>3. \A q \in Writers \ {p} : q \in Locking' <=> q \in Locking
    BY <2>2 DEF Locking
  <2>4. \/ Locking = {} /\ Locking' = {p}
        \/ Locking = {p} /\ Locking' = {}
    BY <2>1, <2>3
  <2> QED BY <2>4 DEF WriterTurns!Next, WriterTurns!Start, WriterTurns!Stop
<1> QED BY <1>1, <1>2, DistillTypes, PTL DEF DistillSpec, WriterTurns!Spec
=============================================================================

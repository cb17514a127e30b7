--------------------------- MODULE SessionDistill ---------------------------
(***************************************************************************)
(* The writer of session summaries: the `distill_sessions` stage of the    *)
(* hygiene loop and the `hygiene distill-sessions` command.                *)
(*                                                                         *)
(* A run picks the sessions without a current summary, asks the summarizer *)
(* for each, which takes minutes, and then writes the answers.  The loop   *)
(* holds the stage lock from the start, the command takes it when it has   *)
(* the answers.  Sessions grow meanwhile.                                  *)
(*                                                                         *)
(* A text is as long as its words, turns and characters, taken as one.     *)
(***************************************************************************)
EXTENDS Integers, Sequences, Functions

CONSTANTS
  Order,        \* the sessions, in the order the vault is walked
  First,        \* First[s]: the length of session s at first
  Since,        \* Since[s]: when it last went on before the beginning, at time 0
  Found,        \* Found[s]: what distillations of s there may be at first
  Refused,      \* sessions the model may have no summary for
  MinWords,     \* the shortest session worth a summary
  MinNew,       \* what a session must have gained to be summarized again
  MinUnread,    \*   or what a raised cap must let the model read besides
  DefaultCap,   \* how much of a session the model reads, at first
  Window,       \* distill_recency_days: how long ago a session may have gone on
                \* last to be taken; 0 for any time
  MaxAttempts,  \* empty answers after which a session is left alone
  CoolDown,     \*   and for how long
  PerCycle,     \* sessions the loop takes in one run
  MaxWords,     \* bounds: the length of a session,
  MaxCap,       \*   the cap,
  MaxTime,      \*   the time,
  MaxRuns,      \*   commands,
  MaxFaults     \*   crashes, failed writes and answers that did not come

Sessions == Range(Order)

Writers == {"loop", "command"}

ASSUME DistillAssumption ==
  /\ Order \in Seq(Sessions) /\ IsInjective(Order)
  /\ {Window, MinWords, MaxWords, MaxCap, MaxTime, MaxRuns, MaxFaults} \subseteq Nat
  /\ First \in [Sessions -> 0..MaxWords] /\ DefaultCap \in 0..MaxCap
  /\ Since \in [Sessions -> Int]
  /\ Found \in [Sessions -> SUBSET STRING] /\ Refused \subseteq Sessions
  /\ {MinNew, MinUnread, MaxAttempts, CoolDown, PerCycle} \subseteq Nat \ {0}

VARIABLES
  words,    \* words[s]: the length of session s
  last,     \* last[s]: when it last went on, its `updated`
  cap,      \* summarizer_max_input_chars
  now,
  files,    \* files[s]: the distillations that link to s: at the path the
            \* writer uses, and elsewhere
  rows,     \* rows[i]: the row of memory i
  fails,    \* fails[s]: distill_fail and distill_fail_at
  cache,    \* summarizer_cache: prompts that have been answered
  lock,     \* who holds the lock of the stage
  runner,   \* runner[p]: what p does
  left,     \* left[k]: what is left of bound k
  wasted,   \* history: empty answers to the loop since s last had a summary
  torn      \* history: sessions whose write was broken off

distillVars == <<words, last, cap, now, files, rows, fails, cache, lock, runner, left, wasted, torn>>

Places == {"own", "other"}

\* Ids: two that may be there at first, and one more for every session.
MemoryIds == 1..(3 * Len(Order))

NoFile == [id |-> 0, hand |-> FALSE, snap |-> 0, read |-> 0, updated |-> 0, made |-> 0]

\* A file with no snapshot has snap 0; made is the length its text was made of.
File == [id : MemoryIds, hand : BOOLEAN, snap : 0..MaxWords, read : 0..MaxWords + MaxCap,
         updated : 0..2, made : 0..MaxWords]

NoRow == [session |-> Order[1], place |-> "none"]

Row == [session : Sessions, place : Places \cup {"none"}]

Candidate == [session : Sessions, len : 0..MaxWords, cap : 0..MaxCap, answered : BOOLEAN]

Writing == {"index", "tidy", "unrow", "clear"}

Job == [pc : {"rest", "call", "apply"} \cup Writing, todo : Seq(Candidate), plan : Seq(Candidate),
        id : MemoryIds \cup {0}, gone : MemoryIds \cup {0}]

AtRest == [pc |-> "rest", todo |-> << >>, plan |-> << >>, id |-> 0, gone |-> 0]

\* A count of wasted calls that CallsAreCapped never allows.
TooMany == MaxAttempts + MaxTime + MaxFaults + 1

Least(m, n) == IF m < n THEN m ELSE n

\* Who writes holds the lock; the loop has it from the start.
Locked ==
  \A p \in Writers :
    /\ runner[p].pc \in {"apply"} \cup Writing \/ (p = "loop" /\ runner[p].pc # "rest") => lock = p
    /\ runner[p].pc \in Writing => runner[p].plan # << >>

DistillTypeOK ==
  /\ words \in [Sessions -> 0..MaxWords] /\ cap \in 0..MaxCap /\ now \in 0..MaxTime
  /\ last \in [Sessions -> Int]
  /\ files \in [Sessions -> [Places -> File \cup {NoFile}]]
  /\ rows \in [MemoryIds -> Row]
  /\ fails \in [Sessions -> [count : 0..MaxAttempts, at : 0..MaxTime]]
  /\ runner \in [Writers -> Job]
  /\ lock \in Writers \cup {"free"}
  /\ left \in [runs : 0..MaxRuns, faults : 0..MaxFaults]
  /\ wasted \in [Sessions -> 0..TooMany]
  /\ Locked

-----------------------------------------------------------------------------
(* What a vault may hold at first *)

Place(s) == CHOOSE i \in DOMAIN Order : Order[i] = s

\* The k-th id of a session.
IdOf(s, k) == 3 * Place(s) + k - 3

Old(id, when, hand) ==
  [id |-> id, hand |-> hand, snap |-> 0, read |-> DefaultCap, updated |-> when, made |-> 0]

Placed(own, other) == [place \in Places |-> IF place = "own" THEN own ELSE other]

\* No distillation; one of an older scheme; one of each; two with one id; one
\* that the operator wrote.
OldFiles(s, found) ==
  CASE found = "none" -> Placed(NoFile, NoFile)
    [] found = "old"  -> Placed(NoFile, Old(IdOf(s, 1), 1, FALSE))
    [] found = "pair" -> Placed(Old(IdOf(s, 1), 0, FALSE), Old(IdOf(s, 2), 1, FALSE))
    [] found = "twin" -> Placed(Old(IdOf(s, 1), 1, FALSE), Old(IdOf(s, 1), 0, FALSE))
    [] found = "hand" -> Placed(NoFile, Old(IdOf(s, 1), 0, TRUE))

\* The row an id has; of two files with one id the last one walked has it.
RowFor(fs, i) ==
  LET places == {x \in Sessions \X Places : fs[x[1]][x[2]].id = i} IN
  IF places = {} THEN NoRow
  ELSE LET x == CHOOSE y \in places : y[2] = "other" \/ \A z \in places : z = y IN
       [session |-> x[1], place |-> x[2]]

DistillInit ==
  /\ words = First
  /\ last = Since
  /\ cap = DefaultCap
  /\ now = 0
  /\ \E found \in [Sessions -> {"none", "old", "pair", "twin", "hand"}] :
       /\ \A s \in Sessions : found[s] \in Found[s]
       /\ files = [s \in Sessions |-> OldFiles(s, found[s])]
  /\ rows = [i \in MemoryIds |-> RowFor(files, i)]
  /\ fails = [s \in Sessions |-> [count |-> 0, at |-> 0]]
  /\ cache = {}
  /\ lock = "free"
  /\ runner = [p \in Writers |-> AtRest]
  /\ left = [runs |-> MaxRuns, faults |-> MaxFaults]
  /\ wasted = [s \in Sessions |-> 0]
  /\ torn = {}

-----------------------------------------------------------------------------
(* Which sessions a run takes *)

\* The session's own `updated`: 1 until it grows.
Updated(s) == IF words[s] > First[s] THEN 2 ELSE 1

\* find_distillations_by_session: the latest that links to s.
Covering(s) ==
  LET own == files[s]["own"]  other == files[s]["other"] IN
  IF own = NoFile \/ (other # NoFile /\ other.updated > own.updated) THEN other ELSE own

\* is_distillation_stale: the cap lets the model read more, or the session has
\* grown; with no snapshot, the session is the newer.
Stale(s, file) ==
  \/ Least(words[s], cap) >= file.read + MinUnread
  \/ IF file.snap = 0 THEN Updated(s) > file.updated ELSE words[s] >= file.snap + MinNew

Meaningful(s) == words[s] >= MinWords

\* A session at the cap of attempts is left alone until it has cooled down.
Excluded(s) == fails[s].count >= MaxAttempts /\ now < fails[s].at + CoolDown

CandidateOf(s) == [session |-> s, len |-> words[s], cap |-> cap, answered |-> FALSE]

\* The session is in the recency window; window 0 is none.
Recent(s, window) == window = 0 \/ now <= last[s] + window

\* find_session_candidates: each recent session once, those that have no
\* distillation first, and in the order of the walk; a forced run takes those too
\* that have a current one or are left alone, and `refresh` those whose
\* distillation is stale.
Candidates(window, forced, refresh) ==
  LET open == {s \in Sessions : Recent(s, window) /\ Meaningful(s) /\ (forced \/ ~Excluded(s))}
      fresh == {s \in open : forced \/ Covering(s) = NoFile}
      stale == {s \in open : ~forced /\ refresh /\ Covering(s) # NoFile /\ Stale(s, Covering(s))}
      rank(s) == IF s \in fresh THEN Place(s) ELSE Len(Order) + Place(s)
      Lists == UNION {[1..n -> fresh \cup stale] : n \in 1..Len(Order)}
      chosen == {list \in Lists : /\ Range(list) = fresh \cup stale
                                  /\ \A i, j \in DOMAIN list : i < j => rank(list[i]) < rank(list[j])}
  IN {[i \in DOMAIN list |-> CandidateOf(list[i])] : list \in chosen}

-----------------------------------------------------------------------------
(* Planning *)

Texts == <<words, last, cap, now>>

Stored == <<files, rows>>

\* The loop has the lock, and takes the first few.
StartLoop ==
  /\ lock = "free" /\ runner["loop"].pc = "rest"
  /\ \E all \in Candidates(Window, FALSE, TRUE) :
       runner' = [runner EXCEPT !["loop"] = [AtRest EXCEPT !.pc = "call",
                    !.todo = SubSeq(all, 1, Least(PerCycle, Len(all)))]]
  /\ lock' = "loop"
  /\ UNCHANGED <<Texts, Stored, fails, cache, left, wasted, torn>>

\* The command takes them all, and has no lock yet; --backfill is window 0.
StartCommand(window, forced, refresh) ==
  /\ runner["command"].pc = "rest" /\ left.runs > 0
  /\ \E all \in Candidates(window, forced, refresh) :
       runner' = [runner EXCEPT !["command"] = [AtRest EXCEPT !.pc = "call", !.todo = all]]
  /\ left' = [left EXCEPT !.runs = @ - 1]
  /\ UNCHANGED <<Texts, Stored, fails, cache, lock, wasted, torn>>

Prompt(c) == <<c.session, c.len, c.cap>>

\* generate_cached answers the first candidate, with a text or with nothing; a
\* text is kept, and given again for the same prompt.
Answer(p) ==
  LET c == Head(runner[p].todo) IN
  /\ runner[p].pc = "call" /\ runner[p].todo # << >>
  /\ \E answered \in BOOLEAN :
       /\ ~answered => c.session \in Refused /\ Prompt(c) \notin cache
       /\ runner' = [runner EXCEPT ![p].todo = Tail(@),
                                   ![p].plan = Append(@, [c EXCEPT !.answered = answered])]
       /\ cache' = IF answered THEN cache \cup {Prompt(c)} ELSE cache
       /\ wasted' = IF p = "loop" /\ ~answered
                  THEN [wasted EXCEPT ![c.session] = Least(@ + 1, TooMany)] ELSE wasted
  /\ UNCHANGED <<Texts, Stored, fails, lock, left, torn>>

\* The backend is away: the candidate is passed over, without a proposal.
NoAnswer(p) ==
  /\ runner[p].pc = "call" /\ runner[p].todo # << >> /\ left.faults > 0
  /\ Prompt(Head(runner[p].todo)) \notin cache
  /\ runner' = [runner EXCEPT ![p].todo = Tail(@)]
  /\ left' = [left EXCEPT !.faults = @ - 1]
  /\ UNCHANGED <<Texts, Stored, fails, cache, lock, wasted, torn>>

\* The plan is made: the loop goes on, the command needs the lock, and gives up
\* when it cannot have it.
Planned(p) ==
  /\ runner[p].pc = "call" /\ runner[p].todo = << >>
  /\ IF p = "loop" \/ (lock = "free" /\ runner[p].plan # << >>)
     THEN /\ lock' = p
          /\ runner' = [runner EXCEPT ![p].pc = "apply"]
     ELSE /\ runner' = [runner EXCEPT ![p] = AtRest]
          /\ UNCHANGED lock
  /\ UNCHANGED <<Texts, Stored, fails, cache, left, wasted, torn>>

-----------------------------------------------------------------------------
(* apply_distillations *)

Item(p) == Head(runner[p].plan)

Applies(p, pc) == runner[p].pc = pc /\ runner[p].plan # << >>

GoesTo(p, pc) == runner' = [runner EXCEPT ![p].pc = pc]

NextItem(p) ==
  runner' = [runner EXCEPT ![p].pc = "apply", ![p].plan = Tail(@), ![p].id = 0, ![p].gone = 0]

\* Faulty variant: the attempts go up, but not the time of the last.
FailureUnstamped(s) ==
  fails' = [fails EXCEPT ![s] = [count |-> Least(@.count + 1, MaxAttempts), at |-> @.at]]

\* Faulty variant: only the time of the last attempt is kept.
FailureUncounted(s) == fails' = [fails EXCEPT ![s].at = now]

\* record_distill_failure; a count past the cap is as good as the cap.
RecordFailure(s) ==
  fails' = [fails EXCEPT ![s] = [count |-> Least(@.count + 1, MaxAttempts), at |-> now]]

\* No summary: the loop, and only the loop, counts it.
PassOver(p) ==
  /\ Applies(p, "apply") /\ ~Item(p).answered
  /\ NextItem(p)
  /\ IF p = "loop" THEN RecordFailure(Item(p).session) ELSE UNCHANGED fails
  /\ UNCHANGED <<Texts, Stored, cache, lock, left, wasted, torn>>

\* _existing_distillation_for_session: the one in place, or else another; or a
\* new id.
Existing(s) ==
  IF files[s]["own"] # NoFile THEN files[s]["own"].id
  ELSE IF files[s]["other"] # NoFile THEN files[s]["other"].id ELSE IdOf(s, 3)

\* Faulty variant: the snapshot is of the session as it is by now.
MaterializeNow(c, id) ==
  [id |-> id, hand |-> FALSE, snap |-> words[c.session], read |-> Least(c.len, c.cap),
   updated |-> 2, made |-> c.len]

\* materialize_distillation
Materialize(c, id) ==
  [id |-> id, hand |-> FALSE, snap |-> c.len, read |-> Least(c.len, c.cap),
   updated |-> 2, made |-> c.len]

WriteFile(p) ==
  LET c == Item(p) IN
  /\ Applies(p, "apply") /\ c.answered
  /\ files' = [files EXCEPT ![c.session]["own"] = Materialize(c, Existing(c.session))]
  /\ runner' = [runner EXCEPT ![p].pc = "index", ![p].id = Existing(c.session)]
  /\ UNCHANGED <<Texts, rows, fails, cache, lock, left, wasted, torn>>

\* Index.upsert, which also displaces another row of the path; enqueue_embed.
UpsertRow(p) ==
  LET s == Item(p).session IN
  /\ Applies(p, "index")
  /\ rows' = [i \in MemoryIds |->
                IF i = runner[p].id THEN [session |-> s, place |-> "own"]
                ELSE IF rows[i] = [session |-> s, place |-> "own"] THEN NoRow ELSE rows[i]]
  /\ GoesTo(p, "tidy")
  /\ UNCHANGED <<Texts, files, fails, cache, lock, left, wasted, torn>>

\* Faulty variant: a file with the new one's id is not looked for.
TidyById(p) ==
  LET s == Item(p).session  other == files[s]["other"] IN
  /\ Applies(p, "tidy")
  /\ IF other # NoFile /\ ~other.hand /\ other.id # runner[p].id
     THEN /\ files' = [files EXCEPT ![s]["other"] = NoFile]
          /\ runner' = [runner EXCEPT ![p].pc = "unrow", ![p].gone = other.id]
     ELSE UNCHANGED files /\ GoesTo(p, "clear")
  /\ UNCHANGED <<Texts, rows, fails, cache, lock, left, wasted, torn>>

\* _remove_displaced_distillations: the file goes, and the row unless it is the
\* new one's.
Tidy(p) ==
  LET s == Item(p).session  other == files[s]["other"] IN
  /\ Applies(p, "tidy")
  /\ IF other # NoFile /\ ~other.hand
     THEN /\ files' = [files EXCEPT ![s]["other"] = NoFile]
          /\ IF other.id = runner[p].id THEN GoesTo(p, "clear")
             ELSE runner' = [runner EXCEPT ![p].pc = "unrow", ![p].gone = other.id]
     ELSE UNCHANGED files /\ GoesTo(p, "clear")
  /\ UNCHANGED <<Texts, rows, fails, cache, lock, left, wasted, torn>>

\* Index.delete
Unrow(p) ==
  /\ Applies(p, "unrow")
  /\ rows' = [rows EXCEPT ![runner[p].gone] = NoRow]
  /\ GoesTo(p, "clear")
  /\ UNCHANGED <<Texts, files, fails, cache, lock, left, wasted, torn>>

\* clear_distill_failure, by the loop; the next proposal.
ClearFailure(p) ==
  LET s == Item(p).session IN
  /\ Applies(p, "clear")
  /\ IF p = "loop"
     THEN /\ fails' = [fails EXCEPT ![s] = [count |-> 0, at |-> 0]]
          /\ wasted' = [wasted EXCEPT ![s] = 0]
     ELSE UNCHANGED <<fails, wasted>>
  /\ NextItem(p)
  /\ UNCHANGED <<Texts, Stored, cache, lock, left, torn>>

\* A step of a proposal raises: the error is noted, and the next one taken.
ApplyError(p) ==
  /\ \E pc \in Writing : Applies(p, pc)
  /\ left.faults > 0 /\ left' = [left EXCEPT !.faults = @ - 1]
  /\ torn' = torn \cup {Item(p).session}
  /\ NextItem(p)
  /\ UNCHANGED <<Texts, Stored, fails, cache, lock, wasted>>

Unlock(p) ==
  /\ runner[p].pc = "apply" /\ runner[p].plan = << >>
  /\ runner' = [runner EXCEPT ![p] = AtRest]
  /\ lock' = "free"
  /\ UNCHANGED <<Texts, Stored, fails, cache, left, wasted, torn>>

\* The process is killed; its lock is taken back when it has grown old.
Die(p) ==
  /\ runner[p].pc # "rest"
  /\ left.faults > 0 /\ left' = [left EXCEPT !.faults = @ - 1]
  /\ torn' = IF runner[p].pc \in Writing THEN torn \cup {Item(p).session} ELSE torn
  /\ runner' = [runner EXCEPT ![p] = AtRest]
  /\ lock' = IF lock = p THEN "free" ELSE lock
  /\ UNCHANGED <<Texts, Stored, fails, cache, wasted>>

Run(p) == \/ Answer(p) \/ Planned(p) \/ PassOver(p) \/ WriteFile(p) \/ UpsertRow(p)
          \/ Tidy(p) \/ Unrow(p) \/ ClearFailure(p) \/ Unlock(p)

-----------------------------------------------------------------------------
(* Surroundings *)

\* A session goes on.
Grow(s) ==
  /\ words[s] < MaxWords
  /\ words' = [words EXCEPT ![s] = @ + 1]
  /\ last' = [last EXCEPT ![s] = now]
  /\ UNCHANGED <<cap, now, Stored, fails, cache, lock, runner, left, wasted, torn>>

\* The operator raises the cap, and restarts what uses it.
RaiseCap ==
  /\ cap < MaxCap /\ \A p \in Writers : runner[p].pc = "rest"
  /\ cap' = cap + 1
  /\ UNCHANGED <<words, last, now, Stored, fails, cache, lock, runner, left, wasted, torn>>

TimePasses ==
  /\ now < MaxTime
  /\ now' = now + 1
  /\ UNCHANGED <<words, last, cap, Stored, fails, cache, lock, runner, left, wasted, torn>>

Surroundings == (\E s \in Sessions : Grow(s)) \/ RaiseCap \/ TimePasses

DistillNext ==
  \/ StartLoop
  \/ \E window \in {0, Window}, forced, refresh \in BOOLEAN : StartCommand(window, forced, refresh)
  \/ \E p \in Writers : Run(p) \/ NoAnswer(p) \/ ApplyError(p) \/ Die(p)
  \/ Surroundings

\* The loop polls for ever, and a run that has begun goes on.
DistillFairness ==
  /\ WF_distillVars(StartLoop)
  /\ \A p \in Writers : WF_distillVars(Run(p))

DistillSpec == DistillInit /\ [][DistillNext]_distillVars /\ DistillFairness

-----------------------------------------------------------------------------
(* Properties *)

Busy(s) == \E p \in Writers : runner[p].pc \in Writing /\ Item(p).session = s

\* "Delete this session's other distillation files after a rewrite"
\* (session_distill.py:964): once a summary has been written, no other file of
\* the writer's links to the session, the summary has a row that leads to its
\* file, and no row leads to a file that was displaced, unless the write was
\* broken off.
OneSummary ==
  \A s \in Sessions :
    files[s]["own"].snap # 0 /\ ~Busy(s) /\ s \notin torn =>
      /\ files[s]["other"] = NoFile \/ files[s]["other"].hand
      /\ rows[files[s]["own"].id] = [session |-> s, place |-> "own"]
      /\ \A i \in MemoryIds, pl \in Places :
           rows[i] = [session |-> s, place |-> pl] => files[s][pl].id = i

\* "The gate is content growth" (session_distill.py:124): of a session whose
\* summary counts as current the model has seen all but a little, however the
\* session grew while the model was at work.
CurrentIsCurrent ==
  \A s \in Sessions :
    LET file == Covering(s) IN
    file.snap # 0 /\ ~Stale(s, file) =>
      words[s] < file.made + MinNew /\ Least(words[s], cap) < Least(file.made, file.read) + MinUnread

\* "After the cool-down the session is retried; another failure restarts the
\* cool-down" (session_distill.py:158): the loop wastes no more calls on a
\* session than the cap, one for each cool-down that has passed, and those whose
\* run was killed.
CallsAreCapped ==
  \A s \in Sessions :
    wasted[s] <= MaxAttempts + now \div CoolDown + (MaxFaults - left.faults)

\* Refusals and old sessions do not hold up the rest: with the loop polling,
\* every session that is still in the recency window when its growth is over, and
\* that the model has a summary for, comes to have a current one and keeps it.
\* Out of the window the loop leaves it as it is (config.py:374).
EverySessionIsDistilled ==
  \A s \in Sessions \ Refused :
    <>[](Meaningful(s) /\ Recent(s, Window) => Covering(s) # NoFile /\ ~Stale(s, Covering(s)))
=============================================================================

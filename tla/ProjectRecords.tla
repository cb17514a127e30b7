--------------------------- MODULE ProjectRecords ---------------------------
(***************************************************************************)
(* The writer of project records: the `project_records` stage of the loop  *)
(* and the `hygiene project-records` command.                              *)
(*                                                                         *)
(* For each project with enough sessions a run looks at the record there   *)
(* is, asks the summarizer unless the record is flagged `manual: true`,    *)
(* and when it has been through all of them writes what it has.  The       *)
(* operator may write, flag or remove a record at any time.                *)
(***************************************************************************)
EXTENDS Naturals, Sequences, SequencesExt, Functions

CONSTANTS
  Slugs,        \* the projects, in the order of their names
  Unreachable,  \* projects whose prompt the backend never answers in time
  MinSessions,  \* sessions that make a project
  MaxSessions,  \* bounds: the sessions of a project,
  MaxRuns,      \*   commands,
  MaxEdits,     \*   changes by the operator,
  MaxFaults     \*   crashes, failed writes and calls that failed

Projects == Range(Slugs)

Runners == {"loop", "command"}

ASSUME ProjectAssumption ==
  /\ Slugs \in Seq(Projects) /\ IsInjective(Slugs) /\ Unreachable \subseteq Projects
  /\ {MaxSessions, MaxRuns, MaxEdits, MaxFaults} \subseteq Nat
  /\ MinSessions \in 1..MaxSessions

VARIABLES
  sessions,    \* sessions[g]: how many sessions project g has
  records,     \* records[g]: the file memories/projects/<g>.md
  entries,     \* entries[g]: the id of the row with that path
  cache,       \* summarizer_cache
  lock,        \* who holds the lock of the stage
  runner,      \* runner[p]: what p does
  left,        \* left[k]: what is left of bound k
  ids,         \* ids given out
  overlooked,  \* history: records that were flagged after a run had looked at them
  torn         \* history: projects whose write was broken off

vars == <<sessions, records, entries, cache, lock, runner, left, ids, overlooked, torn>>

\* A text is the operator's, or made of so many sessions.
Record == [id : Nat \ {0}, manual : BOOLEAN, hand : BOOLEAN, of : 0..MaxSessions]

NoRecord == [id |-> 0, manual |-> FALSE, hand |-> FALSE, of |-> 0]

Proposal == [slug : Projects, of : 0..MaxSessions, keep : BOOLEAN, answered : BOOLEAN,
             seen : Record \cup {NoRecord}]

AtRest == [pc |-> "rest", forced |-> FALSE, todo |-> << >>, plan |-> << >>]

Runner == [pc : {"rest", "look", "call", "apply", "index"}, forced : BOOLEAN,
           todo : Seq(Proposal), plan : Seq(Proposal)]

Applying == {"apply", "index"}

TypeOK ==
  /\ sessions \in [Projects -> 0..MaxSessions]
  /\ records \in [Projects -> Record \cup {NoRecord}]
  /\ entries \in [Projects -> Nat]
  /\ cache \subseteq Projects \X (0..MaxSessions) \X BOOLEAN
  /\ lock \in Runners \cup {"free"}
  /\ runner \in [Runners -> Runner]
  /\ left \in [{"runs", "edits", "faults"} -> Nat]
  /\ ids \in Nat
  /\ overlooked \subseteq Projects /\ torn \subseteq Projects

Init ==
  /\ sessions \in [Projects -> {MinSessions - 1, MinSessions}]
  /\ records = [g \in Projects |-> NoRecord]
  /\ entries = [g \in Projects |-> 0]
  /\ cache = {}
  /\ lock = "free"
  /\ runner = [p \in Runners |-> AtRest]
  /\ left = [runs |-> MaxRuns, edits |-> MaxEdits, faults |-> MaxFaults]
  /\ ids = 0
  /\ overlooked = {} /\ torn = {}

Spend(k) == left[k] > 0 /\ left' = [left EXCEPT ![k] = @ - 1]

Stored == <<records, entries, ids>>

History == <<overlooked, torn>>

-----------------------------------------------------------------------------
(* Planning *)

\* find_project_candidates, and what there is of each.
Candidates ==
  LET Candidate(g) == [slug |-> g, of |-> sessions[g], keep |-> FALSE, answered |-> FALSE,
                       seen |-> NoRecord] IN
  {Candidate(g) : g \in {h \in Projects : sessions[h] >= MinSessions}}

\* The position of a project in the order of names.
Position(g) == CHOOSE i \in DOMAIN Slugs : Slugs[i] = g

\* The candidates are sorted by name.
Start(p, forced) ==
  /\ runner[p].pc = "rest" /\ Candidates # {}
  /\ \E todo \in SetToSeqs(Candidates) :
       /\ \A i, j \in DOMAIN todo : i < j => Position(todo[i].slug) < Position(todo[j].slug)
       /\ runner' = [runner EXCEPT ![p] = [AtRest EXCEPT !.pc = "look", !.forced = forced, !.todo = todo]]
  /\ UNCHANGED <<sessions, Stored, cache, History>>

\* The loop has the stage's lock from the start.
StartLoop == lock = "free" /\ lock' = "loop" /\ Start("loop", FALSE) /\ UNCHANGED left

StartCommand(forced) == Start("command", forced) /\ Spend("runs") /\ UNCHANGED lock

\* existing_project_record: a manual record needs no call.
Look(p) ==
  LET x == Head(runner[p].todo)  existing == records[x.slug]
      keep == existing.manual /\ ~runner[p].forced IN
  /\ runner[p].pc = "look" /\ runner[p].todo # << >>
  /\ IF keep
     THEN runner' = [runner EXCEPT ![p].todo = Tail(@),
                       ![p].plan = Append(@, [x EXCEPT !.keep = TRUE, !.seen = existing])]
     ELSE runner' = [runner EXCEPT ![p].pc = "call", ![p].todo[1] = [x EXCEPT !.seen = existing]]
  /\ UNCHANGED <<sessions, Stored, cache, lock, left, History>>

\* What the cache has for the prompt.
Cached(x) == {text \in BOOLEAN : <<x.slug, x.of, text>> \in cache}

\* Faulty variant: an empty answer is kept as well.
KeptAny(x, text) == cache \cup {<<x.slug, x.of, text>>}

\* Only a text is kept.
Kept(x, text) == IF text THEN cache \cup {<<x.slug, x.of, text>>} ELSE cache

\* generate_cached, with a text or with nothing.
Answer(p) ==
  LET x == Head(runner[p].todo) IN
  /\ runner[p].pc = "call"
  /\ \E text \in BOOLEAN :
       /\ \/ text \in Cached(x) /\ UNCHANGED <<cache, left>>
          \/ /\ Cached(x) = {} /\ x.slug \notin Unreachable
             /\ cache' = Kept(x, text)
             /\ IF text THEN UNCHANGED left ELSE Spend("faults")
       /\ runner' = [runner EXCEPT ![p].pc = "look", ![p].todo = Tail(@),
                       ![p].plan = Append(@, [x EXCEPT !.answered = text])]
  /\ UNCHANGED <<sessions, Stored, lock, History>>

End(p) ==
  /\ runner' = [runner EXCEPT ![p] = AtRest]
  /\ lock' = IF lock = p THEN "free" ELSE lock

\* The backend is away.  Nobody catches the error, and the run ends here.
NoAnswer(p) ==
  LET x == Head(runner[p].todo) IN
  /\ runner[p].pc = "call" /\ Cached(x) = {}
  /\ left.faults > 0 \/ x.slug \in Unreachable
  /\ left' = [left EXCEPT !.faults = IF x.slug \in Unreachable THEN @ ELSE @ - 1]
  /\ End(p)
  /\ UNCHANGED <<sessions, Stored, cache, History>>

\* The command takes the lock for what it writes, or gives up.
Planned(p) ==
  /\ runner[p].pc = "look" /\ runner[p].todo = << >>
  /\ IF lock \in {p, "free"}
     THEN /\ lock' = p
          /\ runner' = [runner EXCEPT ![p].pc = "apply"]
     ELSE End(p)
  /\ UNCHANGED <<sessions, Stored, cache, left, History>>

-----------------------------------------------------------------------------
(* apply_project_records *)

Item(p) == Head(runner[p].plan)

Applies(p, pc) == runner[p].pc = pc /\ runner[p].plan # << >>

NextItem(p) == runner' = [runner EXCEPT ![p].pc = "apply", ![p].plan = Tail(@)]

\* No summary for a record that is not manual.
PassOver(p) ==
  /\ Applies(p, "apply") /\ ~Item(p).answered /\ ~Item(p).keep
  /\ NextItem(p)
  /\ UNCHANGED <<sessions, Stored, cache, lock, left, History>>

\* Faulty variant: the body is kept, but not the flag.
MaterializeUnflagged(x, existing, id) ==
  IF x.keep /\ existing # NoRecord
  THEN [id |-> id, manual |-> FALSE, hand |-> existing.hand, of |-> existing.of]
  ELSE [id |-> id, manual |-> FALSE, hand |-> x.keep /\ x.seen.hand, of |-> x.of]

\* materialize_project_record: the body of a manual record stays, with its flag.
Materialize(x, existing, id) ==
  IF x.keep /\ existing # NoRecord
  THEN [id |-> id, manual |-> TRUE, hand |-> existing.hand, of |-> existing.of]
  ELSE [id |-> id, manual |-> FALSE, hand |-> x.keep /\ x.seen.hand, of |-> x.of]

\* Faulty variant: the id is the one there was when the plan was made.
IdForPlan(x) == IF x.seen = NoRecord THEN ids + 1 ELSE x.seen.id

\* The record's own id, or a new one.
IdFor(x) == IF records[x.slug] = NoRecord THEN ids + 1 ELSE records[x.slug].id

\* The record is read again, and written.
WriteRecord(p) ==
  LET x == Item(p) IN
  /\ Applies(p, "apply") /\ (x.answered \/ x.keep)
  /\ records' = [records EXCEPT ![x.slug] = Materialize(x, @, IdFor(x))]
  /\ ids' = IF IdFor(x) > ids THEN IdFor(x) ELSE ids
  /\ runner' = [runner EXCEPT ![p].pc = "index"]
  /\ UNCHANGED <<sessions, entries, cache, lock, left, History>>

\* Index.upsert, which displaces another row of the path; enqueue_embed.
UpsertRow(p) ==
  /\ Applies(p, "index")
  /\ entries' = [entries EXCEPT ![Item(p).slug] = records[Item(p).slug].id]
  /\ NextItem(p)
  /\ UNCHANGED <<sessions, records, ids, cache, lock, left, History>>

\* A step raises: the next proposal is taken.
ApplyError(p) ==
  /\ Applies(p, "apply") \/ Applies(p, "index")
  /\ Spend("faults")
  /\ torn' = torn \cup {Item(p).slug}
  /\ NextItem(p)
  /\ UNCHANGED <<sessions, Stored, cache, lock, overlooked>>

Release(p) ==
  /\ runner[p].pc = "apply" /\ runner[p].plan = << >>
  /\ End(p)
  /\ UNCHANGED <<sessions, Stored, cache, left, History>>

\* The process is killed; its lock is taken back when it has grown old.
Die(p) ==
  /\ runner[p].pc # "rest" /\ Spend("faults")
  /\ torn' = IF runner[p].pc = "index" THEN torn \cup {Item(p).slug} ELSE torn
  /\ End(p)
  /\ UNCHANGED <<sessions, Stored, cache, overlooked>>

Run(p) == \/ Look(p) \/ Answer(p) \/ NoAnswer(p) \/ Planned(p) \/ PassOver(p)
          \/ WriteRecord(p) \/ UpsertRow(p) \/ Release(p)

-----------------------------------------------------------------------------
(* Surroundings *)

NewSession(g) ==
  /\ sessions[g] < MaxSessions
  /\ sessions' = [sessions EXCEPT ![g] = @ + 1]
  /\ UNCHANGED <<Stored, cache, lock, runner, left, History>>

\* What p has seen the record of, or found none, and is not done with.
Looked(p) ==
  Range(runner[p].plan) \cup IF runner[p].pc = "call" THEN {Head(runner[p].todo)} ELSE {}

HasLooked(p, g) == \E x \in Looked(p) : x.slug = g

\* The operator writes a record and flags it.
TakeOver(g) ==
  /\ Spend("edits")
  /\ records' = [records EXCEPT ![g] =
       [id |-> IF @ = NoRecord THEN ids + 1 ELSE @.id, manual |-> TRUE, hand |-> TRUE, of |-> 0]]
  /\ ids' = IF records[g] = NoRecord THEN ids + 1 ELSE ids
  /\ entries' = [entries EXCEPT ![g] = records'[g].id]
  /\ overlooked' = IF \E p \in Runners : HasLooked(p, g) THEN overlooked \cup {g} ELSE overlooked
  /\ UNCHANGED <<sessions, cache, lock, runner, torn>>

\* The operator removes a record; prune takes its row.
Discard(g) ==
  /\ records[g] # NoRecord /\ Spend("edits")
  /\ records' = [records EXCEPT ![g] = NoRecord]
  /\ entries' = [entries EXCEPT ![g] = 0]
  /\ overlooked' = IF \E p \in Runners : HasLooked(p, g) THEN overlooked \cup {g} ELSE overlooked
  /\ UNCHANGED <<sessions, ids, cache, lock, runner, torn>>

Next ==
  \/ StartLoop \/ (\E forced \in BOOLEAN : StartCommand(forced))
  \/ \E p \in Runners : Run(p) \/ ApplyError(p) \/ Die(p)
  \/ \E g \in Projects : NewSession(g) \/ TakeOver(g) \/ Discard(g)

\* The loop polls for ever, and a run that has begun goes on.
Fairness == WF_vars(StartLoop) /\ \A p \in Runners : WF_vars(Run(p))

Spec == Init /\ [][Next]_vars /\ Fairness

-----------------------------------------------------------------------------
(* Properties *)

\* Records flagged manual "have only their links and updated fields refreshed,
\* preserving the hand-edited body. Pass --force to override" (cli.py:3144): a
\* run takes neither text nor flag from such a record, however many runs there
\* are, unless it is forced or the flag was set while the run was under way.
ManualIsKept ==
  [][\A g \in Projects :
       records[g].manual /\ records'[g] # records[g] /\ runner' # runner =>
         \/ records'[g].manual /\ records'[g].hand = records[g].hand
         \/ runner[lock].forced \/ g \in overlooked]_vars

\* A record is one memory for as long as it lives: two runs that both planned a
\* first record, or an operator who wrote one meanwhile, do not give it a second
\* id, and the row of its path has that id.
OneRecord ==
  /\ [][\A g \in Projects :
          records[g] # NoRecord /\ records'[g] # NoRecord => records'[g].id = records[g].id]_vars
  /\ [](\A g \in Projects :
          records[g] # NoRecord /\ g \notin torn
            /\ ~(\E p \in Runners : Applies(p, "index") /\ Item(p).slug = g)
            => entries[g] = records[g].id)

\* A project that the backend answers for comes to have a record.
EveryProjectHasRecord ==
  \A g \in Projects \ Unreachable :
    <>[](sessions[g] >= MinSessions => records[g] # NoRecord)
=============================================================================

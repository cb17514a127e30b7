---------------------------- MODULE ProjectProofs ----------------------------
(***************************************************************************)
(* What holds of ProjectRecords for any projects, runs and edits: the text *)
(* and the flag of a manual record are kept, and a record keeps its id and *)
(* its row.                                                                *)
(***************************************************************************)
EXTENDS ProjectRecords, FiniteSetTheorems, SequenceTheorems, TLAPS

\* The loop has the lock for as long as it runs, and whoever writes has it.
LockInv ==
  /\ runner["loop"].pc # "rest" => lock = "loop"
  /\ \A p \in Runners : runner[p].pc \in Applying => lock = p
  /\ ~runner["loop"].forced

\* Who is asked has a candidate, who writes a row has a proposal.
TodoInv ==
  \A p \in Runners :
    /\ \A x \in Range(runner[p].todo) : ~x.keep
    /\ runner[p].pc = "call" => runner[p].todo # << >>
    /\ runner[p].pc = "index" => runner[p].plan # << >>
    /\ runner[p].pc = "rest" => runner[p].plan = << >>

\* A run that is not forced knows whether a record is manual until the operator
\* takes it over or discards it.
LookInv ==
  \A p \in Runners : \A x \in Looked(p) :
    /\ x.keep => ~runner[p].forced
    /\ x.keep => records[x.slug].manual \/ x.slug \in overlooked
    /\ ~x.keep /\ ~runner[p].forced => ~records[x.slug].manual \/ x.slug \in overlooked

\* A record has its row, unless the row is still to come or the write was broken
\* off.
RowInv ==
  \A g \in Projects :
    records[g] # NoRecord /\ g \notin torn
      /\ ~(\E p \in Runners : Applies(p, "index") /\ Item(p).slug = g)
      => entries[g] = records[g].id

Inv == TypeOK /\ LockInv /\ TodoInv /\ LookInv /\ RowInv

-----------------------------------------------------------------------------
(* Sequences of proposals *)

LEMMA SequenceFacts ==
  ASSUME NEW S, NEW s \in Seq(S)
  PROVE  /\ Range(s) \subseteq S
         /\ s # << >> => /\ Head(s) \in S /\ Head(s) \in Range(s)
                         /\ Tail(s) \in Seq(S) /\ Range(Tail(s)) \subseteq Range(s)
         /\ \A e \in S : Append(s, e) \in Seq(S) /\ Range(Append(s, e)) = Range(s) \cup {e}
<1>1. Range(s) \subseteq S
  BY DEF Range
<1>2. ASSUME s # << >>
      PROVE  /\ Head(s) \in S /\ Head(s) \in Range(s)
             /\ Tail(s) \in Seq(S) /\ Range(Tail(s)) \subseteq Range(s)
  <2>1. Head(s) = s[1] /\ 1 \in DOMAIN s /\ Tail(s) \in Seq(S)
    BY <1>2
  <2>2. \A i \in DOMAIN Tail(s) : i + 1 \in DOMAIN s /\ Tail(s)[i] = s[i + 1]
    BY <1>2
  <2> QED BY <1>1, <2>1, <2>2 DEF Range
<1>3. ASSUME NEW e \in S
      PROVE  Append(s, e) \in Seq(S) /\ Range(Append(s, e)) = Range(s) \cup {e}
  <2>1. Append(s, e) \in Seq(S) /\ DOMAIN Append(s, e) = DOMAIN s \cup {Len(s) + 1}
    OBVIOUS
  <2>2. Append(s, e)[Len(s) + 1] = e /\ \A i \in DOMAIN s : Append(s, e)[i] = s[i]
    OBVIOUS
  <2> QED BY <2>1, <2>2 DEF Range
<1> QED BY <1>1, <1>2, <1>3

\* The first element is replaced.
LEMMA FirstReplaced ==
  ASSUME NEW S, NEW s \in Seq(S), s # << >>, NEW e \in S
  PROVE  /\ [s EXCEPT ![1] = e] \in Seq(S)
         /\ Head([s EXCEPT ![1] = e]) = e
         /\ [s EXCEPT ![1] = e] # << >>
         /\ Range([s EXCEPT ![1] = e]) \subseteq Range(s) \cup {e}
<1> DEFINE t == [s EXCEPT ![1] = e]
<1>1. 1 \in 1..Len(s)
  OBVIOUS
<1>2. t \in Seq(S) /\ Len(t) = Len(s) /\ \A i \in 1..Len(s) : t[i] = IF i = 1 THEN e ELSE s[i]
  BY <1>1, ExceptSeq
<1> HIDE DEF t
<1>3. Head(t) = t[1] /\ t # << >> /\ DOMAIN t = 1..Len(s) /\ DOMAIN s = 1..Len(s)
  BY <1>1, <1>2
<1>4. Range(t) \subseteq Range(s) \cup {e}
  BY <1>2, <1>3 DEF Range
<1> QED BY <1>1, <1>2, <1>3, <1>4 DEF t

LEMMA ProjectsAreFinite == IsFiniteSet(Projects)
<1>1. Slugs \in Seq(Projects)
  BY ProjectAssumption
<1>2. IsFiniteSet(1..Len(Slugs))
  BY <1>1, FS_Interval
<1>3. Projects = {Slugs[i] : i \in 1..Len(Slugs)}
  BY <1>1 DEF Projects, Range
<1>4. Slugs \in Surjection(1..Len(Slugs), Projects)
  BY <1>1, <1>3 DEF Surjection
<1> QED BY <1>2, <1>4, FS_Surjection

-----------------------------------------------------------------------------
(* Type correctness *)

LEMMA CandidatesTyped ==
  ASSUME TypeOK, NEW todo \in SetToSeqs(Candidates)
  PROVE  todo \in Seq(Proposal) /\ \A x \in Range(todo) : ~x.keep
<1> DEFINE Qualifying == {h \in Projects : sessions[h] >= MinSessions}
           Candidate(g) == [slug |-> g, of |-> sessions[g], keep |-> FALSE,
                            answered |-> FALSE, seen |-> NoRecord]
<1>1. Candidates = {Candidate(g) : g \in Qualifying}
  BY DEF Candidates
<1>2. \A g \in Qualifying : Candidate(g) \in Proposal /\ ~Candidate(g).keep
  BY DEF TypeOK, Proposal
<1>3. IsFiniteSet(Qualifying)
  BY ProjectsAreFinite, FS_Subset
<1> DEFINE f == [g \in Qualifying |-> Candidate(g)]
<1>4. f \in Surjection(Qualifying, Candidates)
  BY <1>1 DEF Surjection
<1>5. IsFiniteSet(Candidates)
  BY <1>3, <1>4, FS_Surjection
<1>6. Cardinality(Candidates) \in Nat
  BY <1>5, FS_CardinalityType
<1>7. todo \in [1..Cardinality(Candidates) -> Candidates]
  BY DEF SetToSeqs
<1>8. todo \in Seq(Candidates) /\ Range(todo) \subseteq Candidates
  BY <1>6, <1>7 DEF Range
<1> QED BY <1>1, <1>2, <1>8

\* What a run has in hand is typed.
LEMMA InHand ==
  ASSUME TypeOK, NEW p \in Runners
  PROVE  /\ runner[p] \in Runner
         /\ runner[p].todo \in Seq(Proposal) /\ runner[p].plan \in Seq(Proposal)
         /\ runner[p].todo # << >> => /\ Head(runner[p].todo) \in Proposal
                                      /\ Tail(runner[p].todo) \in Seq(Proposal)
         /\ runner[p].plan # << >> => Item(p) \in Proposal /\ Tail(runner[p].plan) \in Seq(Proposal)
<1>1. runner[p] \in Runner
  BY DEF TypeOK
<1>2. runner[p].todo \in Seq(Proposal) /\ runner[p].plan \in Seq(Proposal)
  BY <1>1 DEF Runner
<1> QED BY <1>1, <1>2, SequenceFacts DEF Item

LEMMA ProposalFacts ==
  ASSUME NEW x \in Proposal, NEW existing \in Record \cup {NoRecord}, NEW text \in BOOLEAN
  PROVE  /\ [x EXCEPT !.keep = TRUE, !.seen = existing] \in Proposal
         /\ [x EXCEPT !.seen = existing] \in Proposal
         /\ [x EXCEPT !.answered = text] \in Proposal
         /\ [x EXCEPT !.keep = TRUE, !.seen = existing].keep
         /\ [x EXCEPT !.keep = TRUE, !.seen = existing].slug = x.slug
         /\ [x EXCEPT !.seen = existing].keep = x.keep
         /\ [x EXCEPT !.seen = existing].slug = x.slug
         /\ [x EXCEPT !.answered = text].keep = x.keep
         /\ [x EXCEPT !.answered = text].slug = x.slug
BY DEF Proposal

\* How a step leaves runner p, whose run goes on.
Goes(p, pc, todo, plan) ==
  /\ runner' = [runner EXCEPT ![p] = [runner[p] EXCEPT !.pc = pc, !.todo = todo, !.plan = plan]]

LEMMA GoesFacts ==
  ASSUME TypeOK, NEW p \in Runners, NEW pc \in {"rest", "look", "call", "apply", "index"},
         NEW todo \in Seq(Proposal), NEW plan \in Seq(Proposal), Goes(p, pc, todo, plan)
  PROVE  /\ runner' \in [Runners -> Runner]
         /\ runner'[p].pc = pc /\ runner'[p].todo = todo /\ runner'[p].plan = plan
         /\ runner'[p].forced = runner[p].forced
         /\ \A q \in Runners : q # p => runner'[q] = runner[q]
<1>1. runner[p] \in Runner /\ runner \in [Runners -> Runner]
  BY DEF TypeOK
<1> DEFINE r == [runner[p] EXCEPT !.pc = pc, !.todo = todo, !.plan = plan]
<1>2. r \in Runner /\ r.pc = pc /\ r.todo = todo /\ r.plan = plan /\ r.forced = runner[p].forced
  BY <1>1 DEF Runner
<1> HIDE DEF r
<1>3. runner' = [runner EXCEPT ![p] = r]
  BY DEF Goes, r
<1> QED BY <1>1, <1>2, <1>3

LEMMA GoesOn ==
  ASSUME TypeOK, NEW p \in Runners, NEW pc, NEW todo, NEW plan, Goes(p, pc, todo, plan)
  PROVE  runner'[p].pc = pc /\ runner'[p].forced = runner[p].forced
<1>1. runner[p] \in Runner /\ runner \in [Runners -> Runner]
  BY DEF TypeOK
<1> QED BY <1>1 DEF Goes, Runner

LEMMA Goings ==
  ASSUME TypeOK, TodoInv, NEW p \in Runners
  PROVE  LET todo == runner[p].todo
             plan == runner[p].plan
             x == Head(todo)
         IN
         /\ Look(p) =>
              \/ Goes(p, "look", Tail(todo),
                      Append(plan, [x EXCEPT !.keep = TRUE, !.seen = records[x.slug]]))
              \/ Goes(p, "call", [todo EXCEPT ![1] = [x EXCEPT !.seen = records[x.slug]]], plan)
         /\ Answer(p) =>
              \E text \in BOOLEAN :
                Goes(p, "look", Tail(todo), Append(plan, [x EXCEPT !.answered = text]))
         /\ Planned(p) => Goes(p, "apply", todo, plan) \/ End(p)
         /\ WriteRecord(p) => Goes(p, "index", todo, plan)
         /\ PassOver(p) \/ UpsertRow(p) \/ ApplyError(p) => Goes(p, "apply", todo, Tail(plan))
<1> DEFINE todo == runner[p].todo
           plan == runner[p].plan
           x == Head(todo)
<1>1. runner[p] \in Runner /\ runner \in [Runners -> Runner]
  BY DEF TypeOK
<1>2. DOMAIN runner[p] = {"pc", "forced", "todo", "plan"}
  BY <1>1 DEF Runner
<1>4. ASSUME Look(p)
      PROVE  \/ Goes(p, "look", Tail(todo),
                     Append(plan, [x EXCEPT !.keep = TRUE, !.seen = records[x.slug]]))
             \/ Goes(p, "call", [todo EXCEPT ![1] = [x EXCEPT !.seen = records[x.slug]]], plan)
  <2>1. CASE records[x.slug].manual /\ ~runner[p].forced
    BY <1>1, <1>2, <1>4, <2>1 DEF Look, Goes, Runner
  <2>2. CASE ~(records[x.slug].manual /\ ~runner[p].forced)
    <3>1. runner' = [runner EXCEPT ![p].pc = "call", ![p].todo[1] = [x EXCEPT !.seen = records[x.slug]]]
      BY <1>4, <2>2 DEF Look
    <3> DEFINE y == [x EXCEPT !.seen = records[x.slug]]
    <3> HIDE DEF x, y
    <3>2. runner' = [runner EXCEPT ![p].pc = "call", ![p].todo[1] = y]
      BY <3>1 DEF y
    <3>3. [runner EXCEPT ![p].pc = "call", ![p].todo[1] = y]
            = [runner EXCEPT ![p] = [runner[p] EXCEPT !.pc = "call", !.todo = [runner[p].todo EXCEPT ![1] = y],
                                                      !.plan = runner[p].plan]]
      BY <1>1, <1>2 DEF Runner
    <3> QED BY <3>2, <3>3 DEF Goes, y
  <2> QED BY <2>1, <2>2
<1>5. ASSUME Answer(p)
      PROVE  \E text \in BOOLEAN :
               Goes(p, "look", Tail(todo), Append(plan, [x EXCEPT !.answered = text]))
  BY <1>1, <1>2, <1>5 DEF Answer, Goes, Runner
<1>6. Planned(p) => Goes(p, "apply", todo, plan) \/ End(p)
  BY <1>1, <1>2 DEF Planned, Goes, Runner
<1>7. WriteRecord(p) => Goes(p, "index", todo, plan)
  BY <1>1, <1>2 DEF WriteRecord, Goes, Runner
<1>8. PassOver(p) \/ UpsertRow(p) \/ ApplyError(p) => Goes(p, "apply", todo, Tail(plan))
  BY <1>1, <1>2 DEF PassOver, UpsertRow, ApplyError, NextItem, Goes, Runner
<1> QED BY <1>4, <1>5, <1>6, <1>7, <1>8

LEMMA EndFacts ==
  ASSUME TypeOK, NEW p \in Runners, End(p)
  PROVE  /\ runner' \in [Runners -> Runner] /\ runner'[p] = AtRest
         /\ \A q \in Runners : q # p => runner'[q] = runner[q]
         /\ lock' \in Runners \cup {"free"}
<1>1. AtRest \in Runner
  BY DEF AtRest, Runner
<1> QED BY <1>1 DEF End, TypeOK

LEMMA StartFacts ==
  ASSUME TypeOK, NEW p \in Runners, NEW forced \in BOOLEAN, Start(p, forced)
  PROVE  /\ runner' \in [Runners -> Runner]
         /\ runner'[p].pc = "look" /\ runner'[p].forced = forced /\ runner'[p].plan = << >>
         /\ \A x \in Range(runner'[p].todo) : ~x.keep
         /\ \A q \in Runners : q # p => runner'[q] = runner[q]
<1>1. AtRest \in Runner /\ AtRest.plan = << >> /\ runner \in [Runners -> Runner]
  BY DEF AtRest, Runner, TypeOK
<1>2. PICK todo \in SetToSeqs(Candidates) :
        runner' = [runner EXCEPT ![p] = [AtRest EXCEPT !.pc = "look", !.forced = forced, !.todo = todo]]
  BY DEF Start
<1>3. todo \in Seq(Proposal) /\ \A x \in Range(todo) : ~x.keep
  BY CandidatesTyped
<1> DEFINE r == [AtRest EXCEPT !.pc = "look", !.forced = forced, !.todo = todo]
<1>4. r \in Runner /\ r.pc = "look" /\ r.forced = forced /\ r.plan = << >> /\ r.todo = todo
  BY <1>1, <1>3 DEF Runner
<1> HIDE DEF r
<1>5. runner' = [runner EXCEPT ![p] = r]
  BY <1>2 DEF r
<1> QED BY <1>1, <1>3, <1>4, <1>5

LEMMA MaterializeTyped ==
  ASSUME NEW x \in Proposal, NEW existing \in Record \cup {NoRecord}, NEW id \in Nat \ {0}
  PROVE  /\ Materialize(x, existing, id) \in Record
         /\ Materialize(x, existing, id).id = id
         /\ Materialize(x, existing, id).manual <=> x.keep /\ existing # NoRecord
         /\ x.keep /\ existing # NoRecord => Materialize(x, existing, id).hand = existing.hand
<1>1. x.of \in 0..MaxSessions /\ x.keep \in BOOLEAN /\ x.seen \in Record \cup {NoRecord}
  BY DEF Proposal
<1>2. existing # NoRecord => existing.hand \in BOOLEAN /\ existing.of \in 0..MaxSessions
  BY DEF Record
<1>3. (x.keep /\ x.seen.hand) \in BOOLEAN
  OBVIOUS
<1> QED BY <1>1, <1>2, <1>3 DEF Materialize, Record

LEMMA WriteFacts ==
  ASSUME TypeOK, TodoInv, NEW p \in Runners, WriteRecord(p)
  PROVE  /\ Item(p) \in Proposal
         /\ IdFor(Item(p)) \in Nat \ {0} /\ ids' \in Nat
         /\ records[Item(p).slug] # NoRecord => IdFor(Item(p)) = records[Item(p).slug].id
         /\ records' = [records EXCEPT ![Item(p).slug]
                          = Materialize(Item(p), records[Item(p).slug], IdFor(Item(p)))]
         /\ records' \in [Projects -> Record \cup {NoRecord}]
<1>1. Item(p) \in Proposal
  BY InHand DEF WriteRecord, Applies
<1>2. Item(p).slug \in Projects
  BY <1>1 DEF Proposal
<1>3. records[Item(p).slug] \in Record \cup {NoRecord} /\ ids \in Nat
  BY <1>2 DEF TypeOK
<1>4. IdFor(Item(p)) \in Nat \ {0}
  BY <1>3 DEF IdFor, Record
<1>5. ids' \in Nat /\ records' = [records EXCEPT ![Item(p).slug]
                          = Materialize(Item(p), records[Item(p).slug], IdFor(Item(p)))]
  BY <1>3, <1>4 DEF WriteRecord
<1>6. Materialize(Item(p), records[Item(p).slug], IdFor(Item(p))) \in Record
  BY <1>1, <1>3, <1>4, MaterializeTyped
<1>7. records' \in [Projects -> Record \cup {NoRecord}]
  BY <1>5, <1>6 DEF TypeOK
<1> QED BY <1>1, <1>4, <1>5, <1>7 DEF IdFor

LEMMA TypeStep ==
  ASSUME TypeOK, TodoInv, [Next]_vars
  PROVE  TypeOK'
<1> USE DEF TypeOK
<1>1. CASE StartLoop
  <2>1. runner' \in [Runners -> Runner]
    BY <1>1, StartFacts DEF StartLoop, Runners
  <2> QED BY <1>1, <2>1 DEF StartLoop, Start, Stored, History, Runners
<1>2. ASSUME NEW forced \in BOOLEAN, StartCommand(forced) PROVE TypeOK'
  <2>1. runner' \in [Runners -> Runner]
    BY <1>2, StartFacts DEF StartCommand, Runners
  <2>2. left' \in [{"runs", "edits", "faults"} -> Nat]
    BY <1>2 DEF StartCommand, Spend
  <2> QED BY <1>2, <2>1, <2>2 DEF StartCommand, Start, Stored, History
<1>3. ASSUME NEW p \in Runners, Look(p) PROVE TypeOK'
  <2> DEFINE x == Head(runner[p].todo)
  <2>1. x \in Proposal /\ runner[p].plan \in Seq(Proposal) /\ Tail(runner[p].todo) \in Seq(Proposal)
        /\ runner[p].todo \in Seq(Proposal) /\ runner[p].todo # << >>
    BY <1>3, InHand DEF Look
  <2>2. x.slug \in Projects /\ records[x.slug] \in Record \cup {NoRecord}
    BY <2>1 DEF Proposal
  <2>3. [x EXCEPT !.keep = TRUE, !.seen = records[x.slug]] \in Proposal
        /\ [x EXCEPT !.seen = records[x.slug]] \in Proposal
    BY <2>1, <2>2, ProposalFacts
  <2>4. Append(runner[p].plan, [x EXCEPT !.keep = TRUE, !.seen = records[x.slug]]) \in Seq(Proposal)
    BY <2>1, <2>3, SequenceFacts
  <2>5. [runner[p].todo EXCEPT ![1] = [x EXCEPT !.seen = records[x.slug]]] \in Seq(Proposal)
    BY <2>1, <2>3, FirstReplaced
  <2>6. runner' \in [Runners -> Runner]
    BY <1>3, <2>1, <2>4, <2>5, Goings, GoesFacts
  <2> QED BY <1>3, <2>6 DEF Look, Stored, History
<1>4. ASSUME NEW p \in Runners, Answer(p) PROVE TypeOK'
  <2> DEFINE x == Head(runner[p].todo)
  <2>1. runner[p].todo # << >>
    BY <1>4 DEF Answer, TodoInv
  <2>2. x \in Proposal /\ runner[p].plan \in Seq(Proposal) /\ Tail(runner[p].todo) \in Seq(Proposal)
    BY <2>1, InHand
  <2>3. PICK text \in BOOLEAN : Goes(p, "look", Tail(runner[p].todo), Append(runner[p].plan, [x EXCEPT !.answered = text]))
    BY <1>4, Goings
  <2>4. [x EXCEPT !.answered = text] \in Proposal
    BY <2>2, ProposalFacts
  <2>5. runner' \in [Runners -> Runner]
    <3>1. Append(runner[p].plan, [x EXCEPT !.answered = text]) \in Seq(Proposal)
      BY <2>2, <2>4, SequenceFacts
    <3> QED BY <2>2, <2>3, <3>1, GoesFacts
  <2>6. cache' \subseteq Projects \X (0..MaxSessions) \X BOOLEAN
    <3>1. PICK answer \in BOOLEAN : cache' = cache \/ cache' = Kept(x, answer)
      BY <1>4 DEF Answer
    <3>2. x.slug \in Projects /\ x.of \in 0..MaxSessions
      BY <2>2 DEF Proposal
    <3>3. <<x.slug, x.of, answer>> \in Projects \X (0..MaxSessions) \X BOOLEAN
      BY <3>2
    <3> QED BY <3>1, <3>3 DEF Kept
  <2>7. left' \in [{"runs", "edits", "faults"} -> Nat]
    BY <1>4 DEF Answer, Spend
  <2> QED BY <1>4, <2>5, <2>6, <2>7 DEF Answer, Stored, History
<1>5. ASSUME NEW p \in Runners, NoAnswer(p) PROVE TypeOK'
  <2>1. left' \in [{"runs", "edits", "faults"} -> Nat]
    BY <1>5 DEF NoAnswer
  <2> QED BY <1>5, <2>1, EndFacts DEF NoAnswer, Stored, History
<1>6. ASSUME NEW p \in Runners, Planned(p) PROVE TypeOK'
  <2>1. runner' \in [Runners -> Runner]
    BY <1>6, InHand, Goings, GoesFacts, EndFacts
  <2>2. lock' \in Runners \cup {"free"}
    BY <1>6 DEF Planned, End
  <2> QED BY <1>6, <2>1, <2>2 DEF Planned, Stored, History
<1>7. ASSUME NEW p \in Runners, PassOver(p) \/ UpsertRow(p) \/ ApplyError(p) PROVE TypeOK'
  <2>1. runner[p].plan # << >> /\ Item(p) \in Proposal
    BY <1>7, InHand DEF PassOver, UpsertRow, ApplyError, Applies
  <2>2. Item(p).slug \in Projects
    BY <2>1 DEF Proposal
  <2>3. runner' \in [Runners -> Runner]
    BY <1>7, <2>1, InHand, Goings, GoesFacts, ZenonT(30)
  <2>4. records[Item(p).slug].id \in Nat
    BY <2>2 DEF Record, NoRecord
  <2>5. entries' \in [Projects -> Nat] /\ left' \in [{"runs", "edits", "faults"} -> Nat] /\ torn' \subseteq Projects
    BY <1>7, <2>2, <2>4 DEF PassOver, UpsertRow, ApplyError, Spend, Stored, History
  <2> QED BY <1>7, <2>3, <2>5 DEF PassOver, UpsertRow, ApplyError, Stored, History
<1>8. ASSUME NEW p \in Runners, WriteRecord(p) PROVE TypeOK'
  <2>1. runner' \in [Runners -> Runner]
    BY <1>8, InHand, Goings, GoesFacts
  <2> QED BY <1>8, <2>1, WriteFacts DEF WriteRecord, History
<1>9. ASSUME NEW p \in Runners, Release(p) PROVE TypeOK'
  BY <1>9, EndFacts DEF Release, Stored, History
<1>10. ASSUME NEW p \in Runners, Die(p) PROVE TypeOK'
  <2>1. left' \in [{"runs", "edits", "faults"} -> Nat]
    BY <1>10 DEF Die, Spend
  <2>2. runner[p].pc = "index" => Item(p) \in Proposal
    BY InHand DEF TodoInv
  <2>3. torn' \subseteq Projects
    BY <1>10, <2>2 DEF Die, Proposal
  <2> QED BY <1>10, <2>1, <2>3, EndFacts DEF Die, Stored
<1>11. ASSUME NEW g \in Projects, NewSession(g) PROVE TypeOK'
  BY <1>11, ProjectAssumption, SMTT(30) DEF NewSession, Stored, History
<1>12. ASSUME NEW g \in Projects, TakeOver(g) PROVE TypeOK'
  <2>1. records[g] \in Record \cup {NoRecord} /\ ids + 1 \in Nat \ {0}
    OBVIOUS
  <2> DEFINE new == [id |-> IF records[g] = NoRecord THEN ids + 1 ELSE records[g].id,
                     manual |-> TRUE, hand |-> TRUE, of |-> 0]
  <2>2. new \in Record /\ new.id \in Nat
    BY <2>1, ProjectAssumption DEF Record
  <2>3. records' = [records EXCEPT ![g] = new] /\ records'[g] = new
    BY <1>12 DEF TakeOver
  <2> HIDE DEF new
  <2>4. records' \in [Projects -> Record \cup {NoRecord}] /\ entries' \in [Projects -> Nat]
    BY <1>12, <2>2, <2>3 DEF TakeOver
  <2>5. left' \in [{"runs", "edits", "faults"} -> Nat] /\ ids' \in Nat /\ overlooked' \subseteq Projects
    BY <1>12 DEF TakeOver, Spend
  <2> QED BY <1>12, <2>4, <2>5 DEF TakeOver
<1>13. ASSUME NEW g \in Projects, Discard(g) PROVE TypeOK'
  BY <1>13 DEF Discard, Spend
<1>14. CASE UNCHANGED vars
  BY <1>14 DEF vars
<1> QED
  BY <1>1, <1>2, <1>3, <1>4, <1>5, <1>6, <1>7, <1>8, <1>9, <1>10, <1>11, <1>12, <1>13, <1>14
  DEF Next, Run

-----------------------------------------------------------------------------
(* The lock, and what is to be done *)

\* What a step of one runner leaves to the other.
LEMMA OthersRest ==
  ASSUME TypeOK, TodoInv, NEW p \in Runners,
         Run(p) \/ ApplyError(p) \/ Die(p) \/ (\E forced \in BOOLEAN : Start(p, forced))
  PROVE  \A q \in Runners : q # p => runner'[q] = runner[q]
<1>1. runner \in [Runners -> Runner]
  BY DEF TypeOK
<1> QED
  BY <1>1, EndFacts
  DEF Run, Start, Look, Answer, NoAnswer, Planned, End, PassOver, WriteRecord, UpsertRow, ApplyError, NextItem, Release, Die

LEMMA TodoStep ==
  ASSUME TypeOK, TodoInv, [Next]_vars
  PROVE  TodoInv'
<1> DEFINE Fine(p) == /\ \A x \in Range(runner[p].todo) : ~x.keep
                      /\ runner[p].pc = "call" => runner[p].todo # << >>
                      /\ runner[p].pc = "index" => runner[p].plan # << >>
                      /\ runner[p].pc = "rest" => runner[p].plan = << >>
<1>1. \A p \in Runners : Fine(p)
  BY DEF TodoInv
<1>2. ASSUME NEW p \in Runners, NEW q \in Runners, q # p,
             Run(p) \/ ApplyError(p) \/ Die(p) \/ (\E forced \in BOOLEAN : Start(p, forced))
      PROVE  Fine(q)'
  BY <1>1, <1>2, OthersRest
<1>3. ASSUME NEW p \in Runners, NEW forced \in BOOLEAN, Start(p, forced) PROVE Fine(p)'
  BY <1>3, StartFacts
<1>4. ASSUME NEW p \in Runners, Look(p) PROVE Fine(p)'
  <2> DEFINE todo == runner[p].todo
             x == Head(todo)
  <2>1. x \in Proposal /\ runner[p].plan \in Seq(Proposal) /\ Tail(todo) \in Seq(Proposal)
        /\ todo \in Seq(Proposal) /\ todo # << >> /\ x \in Range(todo)
        /\ Range(Tail(todo)) \subseteq Range(todo)
    BY <1>4, InHand, SequenceFacts DEF Look
  <2>2. x.slug \in Projects /\ records[x.slug] \in Record \cup {NoRecord}
    BY <2>1 DEF Proposal, TypeOK
  <2>3. [x EXCEPT !.keep = TRUE, !.seen = records[x.slug]] \in Proposal
        /\ [x EXCEPT !.seen = records[x.slug]] \in Proposal
        /\ ~[x EXCEPT !.seen = records[x.slug]].keep
    <3>1. ~x.keep /\ TRUE \in BOOLEAN
      BY <1>1, <2>1
    <3>2. x \in Proposal /\ records[x.slug] \in Record \cup {NoRecord}
      BY <2>1, <2>2
    <3> HIDE DEF x, Fine
    <3>3. [x EXCEPT !.keep = TRUE, !.seen = records[x.slug]] \in Proposal
      BY <3>1, <3>2, ProposalFacts
    <3>4. [x EXCEPT !.seen = records[x.slug]] \in Proposal /\ [x EXCEPT !.seen = records[x.slug]].keep = x.keep
      BY <3>1, <3>2, ProposalFacts
    <3> QED BY <3>1, <3>3, <3>4
  <2> DEFINE plan == Append(runner[p].plan, [x EXCEPT !.keep = TRUE, !.seen = records[x.slug]])
             y == [x EXCEPT !.seen = records[x.slug]]
  <2>4. plan \in Seq(Proposal)
    BY <2>1, <2>3, SequenceFacts
  <2>5. [todo EXCEPT ![1] = y] \in Seq(Proposal) /\ [todo EXCEPT ![1] = y] # << >>
        /\ Range([todo EXCEPT ![1] = y]) \subseteq Range(todo) \cup {y}
    BY <2>1, <2>3, FirstReplaced
  <2>6. Goes(p, "look", Tail(todo), plan) \/ Goes(p, "call", [todo EXCEPT ![1] = y], runner[p].plan)
    BY <1>4, Goings
  <2> HIDE DEF plan, y
  <2>7. CASE Goes(p, "look", Tail(todo), plan)
    <3>1. runner'[p].pc = "look" /\ runner'[p].todo = Tail(todo)
      BY <2>1, <2>4, <2>7, GoesFacts
    <3> QED BY <1>1, <2>1, <3>1
  <2>8. CASE Goes(p, "call", [todo EXCEPT ![1] = y], runner[p].plan)
    <3> DEFINE next == [todo EXCEPT ![1] = y]
    <3>1. next \in Seq(Proposal) /\ runner[p].plan \in Seq(Proposal) /\ Goes(p, "call", next, runner[p].plan)
      BY <2>1, <2>5, <2>8
    <3>2. next # << >> /\ Range(next) \subseteq Range(todo) \cup {y}
      BY <2>5
    <3> HIDE DEF next, todo, x, Fine
    <3>3. runner'[p].pc = "call" /\ runner'[p].todo = next
      BY <3>1, GoesFacts
    <3>4. ~y.keep
      BY <2>3 DEF y
    <3> QED BY <1>1, <3>2, <3>3, <3>4 DEF Fine, todo
  <2> QED BY <2>6, <2>7, <2>8
<1>5. ASSUME NEW p \in Runners, Answer(p) PROVE Fine(p)'
  <2> DEFINE x == Head(runner[p].todo)
  <2>1. runner[p].todo # << >>
    BY <1>5 DEF Answer, TodoInv
  <2>2. x \in Proposal /\ runner[p].plan \in Seq(Proposal) /\ Tail(runner[p].todo) \in Seq(Proposal)
        /\ Range(Tail(runner[p].todo)) \subseteq Range(runner[p].todo)
    BY <2>1, InHand, SequenceFacts
  <2>3. PICK text \in BOOLEAN : Goes(p, "look", Tail(runner[p].todo), Append(runner[p].plan, [x EXCEPT !.answered = text]))
    BY <1>5, Goings
  <2>4. [x EXCEPT !.answered = text] \in Proposal
    BY <2>2, ProposalFacts
  <2>5. Append(runner[p].plan, [x EXCEPT !.answered = text]) \in Seq(Proposal)
    BY <2>2, <2>4, SequenceFacts
  <2>6. runner'[p].pc = "look" /\ runner'[p].todo = Tail(runner[p].todo)
    BY <2>2, <2>3, <2>5, GoesFacts, ZenonT(30)
  <2> QED BY <1>1, <2>2, <2>6
<1>6. ASSUME NEW p \in Runners, End(p) PROVE Fine(p)'
  <2>1. runner'[p] = AtRest
    BY <1>6, EndFacts
  <2> QED BY <2>1 DEF AtRest, Range
<1>7. ASSUME NEW p \in Runners, Planned(p) PROVE Fine(p)'
  <2>1. CASE Goes(p, "apply", runner[p].todo, runner[p].plan)
    <3>1. runner'[p].pc = "apply" /\ runner'[p].todo = runner[p].todo
      BY <2>1, InHand, GoesFacts
    <3> QED BY <1>1, <3>1
  <2> QED BY <1>6, <1>7, <2>1, Goings
<1>8. ASSUME NEW p \in Runners, WriteRecord(p) PROVE Fine(p)'
  <2>1. runner'[p].pc = "index" /\ runner'[p].todo = runner[p].todo /\ runner'[p].plan = runner[p].plan
    <3>1. Goes(p, "index", runner[p].todo, runner[p].plan)
      BY <1>8, Goings
    <3> QED BY <3>1, InHand, GoesFacts
  <2> QED BY <1>1, <1>8, <2>1 DEF WriteRecord, Applies
<1>9. ASSUME NEW p \in Runners, PassOver(p) \/ UpsertRow(p) \/ ApplyError(p) PROVE Fine(p)'
  <2>1. runner[p].plan # << >>
    BY <1>9 DEF PassOver, UpsertRow, ApplyError, Applies
  <2>2. runner'[p].pc = "apply" /\ runner'[p].todo = runner[p].todo
    <3>1. Goes(p, "apply", runner[p].todo, Tail(runner[p].plan))
      BY <1>9, Goings
    <3> QED BY <2>1, <3>1, InHand, GoesFacts
  <2> QED BY <1>1, <2>2
<1>10. ASSUME NEW p \in Runners, NoAnswer(p) \/ Release(p) \/ Die(p) PROVE Fine(p)'
  BY <1>6, <1>10 DEF NoAnswer, Release, Die
<1>11. ASSUME UNCHANGED runner PROVE \A p \in Runners : Fine(p)'
  BY <1>1, <1>11
<1>12. ASSUME NEW p \in Runners, Run(p) \/ ApplyError(p) \/ Die(p) \/ (\E forced \in BOOLEAN : Start(p, forced))
       PROVE  \A q \in Runners : Fine(q)'
  <2>1. Fine(p)'
    BY <1>3, <1>4, <1>5, <1>7, <1>8, <1>9, <1>10, <1>12 DEF Run
  <2> QED BY <1>2, <1>12, <2>1
<1>13. CASE StartLoop \/ \E forced \in BOOLEAN : StartCommand(forced)
  <2>1. \E p \in Runners, forced \in BOOLEAN : Start(p, forced)
    BY <1>13 DEF StartLoop, StartCommand, Runners
  <2> HIDE DEF Fine
  <2>2. \A q \in Runners : Fine(q)'
    BY <1>12, <2>1
  <2> QED BY <2>2 DEF TodoInv, Fine
<1>14. CASE \E p \in Runners : Run(p) \/ ApplyError(p) \/ Die(p)
  <2> HIDE DEF Fine
  <2>1. \A q \in Runners : Fine(q)'
    BY <1>12, <1>14
  <2> QED BY <2>1 DEF TodoInv, Fine
<1>15. CASE (\E g \in Projects : NewSession(g) \/ TakeOver(g) \/ Discard(g)) \/ UNCHANGED vars
  <2>1. UNCHANGED runner
    BY <1>15 DEF NewSession, TakeOver, Discard, vars
  <2> HIDE DEF Fine
  <2>2. \A q \in Runners : Fine(q)'
    BY <1>11, <2>1
  <2> QED BY <2>2 DEF TodoInv, Fine
<1> QED BY <1>13, <1>14, <1>15 DEF Next

LEMMA LockStep ==
  ASSUME TypeOK, TodoInv, LockInv, [Next]_vars
  PROVE  LockInv'
<1> DEFINE Safe == /\ runner'["loop"].pc # "rest" => lock' = "loop"
                   /\ \A p \in Runners : runner'[p].pc \in Applying => lock' = p
                   /\ ~runner'["loop"].forced
<1> SUFFICES Safe
  BY DEF LockInv
<1>0. Runners = {"loop", "command"} /\ AtRest.pc = "rest" /\ ~AtRest.forced
  BY DEF Runners, AtRest
\* A step of p's run leaves its lock alone.
<1>1. ASSUME NEW p \in Runners, NEW pc \in {"look", "call", "apply", "index"},
             runner'[p].pc = pc, runner'[p].forced = runner[p].forced, runner[p].pc # "rest",
             lock' = lock, pc \in Applying => runner[p].pc \in Applying,
             \A q \in Runners : q # p => runner'[q] = runner[q]
      PROVE  Safe
  BY <1>0, <1>1 DEF LockInv
\* The end of p's run frees it.
<1>2. ASSUME NEW p \in Runners, End(p) PROVE Safe
  <2>1. runner'[p] = AtRest /\ \A q \in Runners : q # p => runner'[q] = runner[q]
    BY <1>2, EndFacts
  <2>2. lock' = IF lock = p THEN "free" ELSE lock
    BY <1>2 DEF End
  <2> QED BY <1>0, <2>1, <2>2 DEF LockInv, Applying
<1>3. ASSUME UNCHANGED <<runner, lock>> PROVE Safe
  BY <1>0, <1>3 DEF LockInv
<1>4. CASE StartLoop
  <2>1. runner'["loop"].pc = "look" /\ ~runner'["loop"].forced /\ lock = "free" /\ lock' = "loop"
        /\ runner'["command"] = runner["command"]
    BY <1>0, <1>4, StartFacts DEF StartLoop
  <2> QED BY <1>0, <2>1 DEF LockInv, Applying
<1>5. ASSUME NEW forced \in BOOLEAN, StartCommand(forced) PROVE Safe
  <2>1. runner'["command"].pc = "look" /\ lock' = lock /\ runner'["loop"] = runner["loop"]
    BY <1>0, <1>5, StartFacts DEF StartCommand
  <2> QED BY <1>0, <2>1 DEF LockInv, Applying
<1>6. ASSUME NEW p \in Runners, Planned(p) PROVE Safe
  <2>1. CASE lock \in {p, "free"}
    <3>1. Goes(p, "apply", runner[p].todo, runner[p].plan) /\ lock' = p
      <4>1. runner[p] \in Runner /\ runner \in [Runners -> Runner]
        BY DEF TypeOK
      <4>2. runner' = [runner EXCEPT ![p].pc = "apply"] /\ lock' = p
        BY <1>6, <2>1 DEF Planned
      <4> QED BY <4>1, <4>2 DEF Goes, Runner
    <3>2. runner'[p].pc = "apply" /\ runner'[p].forced = runner[p].forced
          /\ \A q \in Runners : q # p => runner'[q] = runner[q]
      BY <3>1, InHand, GoesFacts
    <3>3. p = "command" => runner["loop"].pc = "rest"
      BY <2>1, <1>0 DEF LockInv
    <3> QED BY <1>0, <2>1, <3>1, <3>2, <3>3 DEF LockInv, Applying
  <2>2. CASE lock \notin {p, "free"}
    BY <1>2, <1>6, <2>2 DEF Planned
  <2> QED BY <2>1, <2>2
<1>7. ASSUME NEW p \in Runners, Look(p) \/ Answer(p) PROVE Safe
  <2>1. /\ runner'[p].pc \in {"look", "call"} /\ runner'[p].forced = runner[p].forced
        /\ runner[p].pc # "rest" /\ lock' = lock
    <3>1. \E pc \in {"look", "call"} : \E todo, plan : Goes(p, pc, todo, plan)
      BY <1>7, Goings
    <3> QED BY <1>7, <3>1, GoesOn DEF Look, Answer
  <2>2. \A q \in Runners : q # p => runner'[q] = runner[q]
    BY <1>7, OthersRest DEF Run
  <2> QED BY <1>1, <2>1, <2>2 DEF Applying
<1>8. ASSUME NEW p \in Runners, WriteRecord(p) \/ PassOver(p) \/ UpsertRow(p) \/ ApplyError(p) PROVE Safe
  <2>1. /\ runner'[p].pc \in {"apply", "index"} /\ runner'[p].forced = runner[p].forced
        /\ runner[p].pc \in Applying /\ lock' = lock
    <3>1. runner[p] \in Runner /\ runner \in [Runners -> Runner]
      BY DEF TypeOK
    <3> QED BY <1>8, <3>1 DEF WriteRecord, PassOver, UpsertRow, ApplyError, Applies, NextItem, Applying, Runner
  <2>2. \A q \in Runners : q # p => runner'[q] = runner[q]
    BY <1>8, OthersRest DEF Run
  <2> QED BY <1>1, <2>1, <2>2 DEF Applying
<1>9. ASSUME NEW p \in Runners, NoAnswer(p) \/ Release(p) \/ Die(p) PROVE Safe
  BY <1>2, <1>9 DEF NoAnswer, Release, Die
<1>10. CASE (\E g \in Projects : NewSession(g) \/ TakeOver(g) \/ Discard(g)) \/ UNCHANGED vars
  BY <1>3, <1>10 DEF NewSession, TakeOver, Discard, vars
<1> HIDE DEF Safe
<1> QED BY <1>4, <1>5, <1>6, <1>7, <1>8, <1>9, <1>10 DEF Next, Run

-----------------------------------------------------------------------------
(* What a run knows of the records it has looked at *)

\* What LookInv says of a candidate x of a run.
Known(x, forced, manual) ==
  /\ x.keep => ~forced
  /\ x.keep => manual \/ x.slug \in overlooked
  /\ ~x.keep /\ ~forced => ~manual \/ x.slug \in overlooked

\* What a run has looked at after a step: what it had looked at before, but
\* for the record it looks at now.
LEMMA LookedNow ==
  ASSUME TypeOK, NEW p \in Runners, NEW pc \in {"look", "apply", "index"},
         NEW todo \in Seq(Proposal), NEW plan \in Seq(Proposal), Goes(p, pc, todo, plan)
  PROVE  Looked(p)' = Range(plan) /\ runner'[p].forced = runner[p].forced
BY GoesFacts DEF Looked

LEMMA LookedAsked ==
  ASSUME TypeOK, NEW p \in Runners,
         NEW todo \in Seq(Proposal), NEW plan \in Seq(Proposal), Goes(p, "call", todo, plan)
  PROVE  Looked(p)' = Range(plan) \cup {Head(todo)} /\ runner'[p].forced = runner[p].forced
BY GoesFacts DEF Looked

LEMMA LookedAfter ==
  ASSUME TypeOK, TodoInv, NEW p \in Runners, NEW q \in Runners,
         Run(p) \/ ApplyError(p) \/ Die(p) \/ (\E forced \in BOOLEAN : Start(p, forced))
  PROVE  \A x \in Looked(q)' :
           \/ \E y \in Looked(q) : /\ x.slug = y.slug /\ x.keep = y.keep
                                   /\ runner'[q].forced = runner[q].forced
           \/ /\ Look(p) /\ q = p /\ x.slug \in Projects
              /\ runner'[q].forced = runner[q].forced
              /\ x.keep = (records[x.slug].manual /\ ~runner[q].forced)
<1>1. CASE q # p
  <2>1. runner'[q] = runner[q]
    BY <1>1, OthersRest
  <2> QED BY <2>1 DEF Looked
<1>2. CASE q = p
  <2>1. ASSUME NEW forced \in BOOLEAN, Start(p, forced) PROVE Looked(p)' = {}
    BY <2>1, StartFacts DEF Looked, Range
  <2>2. ASSUME End(p) PROVE Looked(p)' = {}
    BY <2>2, EndFacts DEF Looked, Range, AtRest
  <2>3. CASE Look(p)
    <3> DEFINE todo == runner[p].todo
               keep == records[Head(todo).slug].manual /\ ~runner[p].forced
    <3>1. /\ Head(todo) \in Proposal /\ runner[p].plan \in Seq(Proposal)
          /\ Tail(todo) \in Seq(Proposal) /\ todo \in Seq(Proposal) /\ todo # << >>
          /\ Head(todo) \in Range(todo) /\ runner[p].pc = "look"
      BY <2>3, InHand, SequenceFacts DEF Look
    <3>2. Head(todo).slug \in Projects /\ records[Head(todo).slug] \in Record \cup {NoRecord}
          /\ ~Head(todo).keep /\ TRUE \in BOOLEAN
      BY <3>1 DEF Proposal, TypeOK, TodoInv
    <3>3. runner[p] \in Runner /\ runner \in [Runners -> Runner]
      BY DEF TypeOK
    <3>4. CASE keep
      <4>1. PICK kept \in Proposal :
              /\ kept.keep /\ kept.slug = Head(todo).slug
              /\ runner' = [runner EXCEPT ![p].todo = Tail(@), ![p].plan = Append(@, kept)]
        <5> DEFINE y == [Head(todo) EXCEPT !.keep = TRUE, !.seen = records[Head(todo).slug]]
        <5>1. y \in Proposal /\ y.keep /\ y.slug = Head(todo).slug
          BY <3>1, <3>2, ProposalFacts
        <5>2. runner' = [runner EXCEPT ![p].todo = Tail(@), ![p].plan = Append(@, y)]
          BY <2>3, <3>4 DEF Look
        <5> QED BY <5>1, <5>2
      <4>2. PICK plan \in Seq(Proposal) :
              plan = Append(runner[p].plan, kept) /\ Range(plan) = Range(runner[p].plan) \cup {kept}
        <5>1. Append(runner[p].plan, kept) \in Seq(Proposal)
              /\ Range(Append(runner[p].plan, kept)) = Range(runner[p].plan) \cup {kept}
          BY <3>1, SequenceFacts
        <5> QED BY <5>1
      <4>3. Goes(p, "look", Tail(todo), plan)
        BY <3>1, <3>3, <4>1, <4>2 DEF Goes, Runner
      <4>4. Looked(p)' = Range(plan) /\ runner'[p].forced = runner[p].forced
        BY <3>1, <4>3, LookedNow
      <4>5. Looked(p)' = Range(runner[p].plan) \cup {kept}
        BY <4>2, <4>4
      <4>6. Range(runner[p].plan) \subseteq Looked(p)
        BY DEF Looked
      <4>7. kept.slug \in Projects /\ kept.keep = (records[kept.slug].manual /\ ~runner[p].forced)
        BY <3>2, <3>4, <4>1 DEF Proposal
      <4> QED BY <1>2, <2>3, <4>4, <4>5, <4>6, <4>7
    <3>5. CASE ~keep
      <4>1. PICK asked \in Proposal :
              /\ ~asked.keep /\ asked.slug = Head(todo).slug
              /\ runner' = [runner EXCEPT ![p].pc = "call", ![p].todo[1] = asked]
        <5> DEFINE y == [Head(todo) EXCEPT !.seen = records[Head(todo).slug]]
        <5>1. y \in Proposal /\ y.keep = Head(todo).keep /\ y.slug = Head(todo).slug
          BY <3>1, <3>2, ProposalFacts
        <5>2. runner' = [runner EXCEPT ![p].pc = "call", ![p].todo[1] = y]
          BY <2>3, <3>5 DEF Look
        <5> QED BY <3>2, <5>1, <5>2
      <4>2. PICK rest \in Seq(Proposal) : rest = [todo EXCEPT ![1] = asked] /\ Head(rest) = asked
        <5>1. /\ [todo EXCEPT ![1] = asked] \in Seq(Proposal)
              /\ Head([todo EXCEPT ![1] = asked]) = asked
          BY <3>1, FirstReplaced
        <5> QED BY <5>1
      <4>3. Goes(p, "call", rest, runner[p].plan)
        BY <3>3, <4>1, <4>2 DEF Goes, Runner
      <4>4. Looked(p)' = Range(runner[p].plan) \cup {Head(rest)} /\ runner'[p].forced = runner[p].forced
        BY <3>1, <4>3, LookedAsked
      <4>5. Looked(p)' = Range(runner[p].plan) \cup {asked}
        BY <4>2, <4>4
      <4>6. Range(runner[p].plan) \subseteq Looked(p)
        BY DEF Looked
      <4>7. asked.slug \in Projects /\ asked.keep = (records[asked.slug].manual /\ ~runner[p].forced)
        BY <3>2, <3>5, <4>1 DEF Proposal
      <4> QED BY <1>2, <2>3, <4>4, <4>5, <4>6, <4>7
    <3> QED BY <3>4, <3>5
  <2>4. CASE Answer(p)
    <3>1. runner[p].pc = "call" /\ runner[p].todo # << >>
      BY <2>4 DEF Answer, TodoInv
    <3>2. /\ Head(runner[p].todo) \in Proposal /\ runner[p].plan \in Seq(Proposal)
          /\ Tail(runner[p].todo) \in Seq(Proposal)
      BY <3>1, InHand
    <3>3. PICK answer \in Proposal :
            /\ answer.keep = Head(runner[p].todo).keep /\ answer.slug = Head(runner[p].todo).slug
            /\ Goes(p, "look", Tail(runner[p].todo), Append(runner[p].plan, answer))
      <4>1. PICK text \in BOOLEAN :
              Goes(p, "look", Tail(runner[p].todo),
                   Append(runner[p].plan, [Head(runner[p].todo) EXCEPT !.answered = text]))
        BY <2>4, Goings
      <4> DEFINE y == [Head(runner[p].todo) EXCEPT !.answered = text]
      <4>2. y \in Proposal /\ y.keep = Head(runner[p].todo).keep /\ y.slug = Head(runner[p].todo).slug
        BY <3>2, ProposalFacts
      <4> QED BY <4>1, <4>2
    <3>4. PICK plan \in Seq(Proposal) :
            plan = Append(runner[p].plan, answer) /\ Range(plan) = Range(runner[p].plan) \cup {answer}
      <4>1. Append(runner[p].plan, answer) \in Seq(Proposal)
            /\ Range(Append(runner[p].plan, answer)) = Range(runner[p].plan) \cup {answer}
        BY <3>2, SequenceFacts
      <4> QED BY <4>1
    <3>5. Goes(p, "look", Tail(runner[p].todo), plan)
      BY <3>3, <3>4
    <3>6. Looked(p)' = Range(plan) /\ runner'[p].forced = runner[p].forced
      BY <3>2, <3>5, LookedNow
    <3>7. Looked(p)' = Range(runner[p].plan) \cup {answer}
          /\ Looked(p) = Range(runner[p].plan) \cup {Head(runner[p].todo)}
      BY <3>1, <3>4, <3>6 DEF Looked
    <3> QED BY <1>2, <3>3, <3>6, <3>7
  <2>5. CASE Planned(p) \/ WriteRecord(p) \/ PassOver(p) \/ UpsertRow(p) \/ ApplyError(p)
    <3>1. \/ End(p)
          \/ \E pc \in {"apply", "index"} : Goes(p, pc, runner[p].todo, runner[p].plan)
          \/ runner[p].plan # << >> /\ Goes(p, "apply", runner[p].todo, Tail(runner[p].plan))
      BY <2>5, Goings DEF PassOver, UpsertRow, ApplyError, Applies
    <3>2. ASSUME NEW pc \in {"apply", "index"}, NEW plan \in Seq(Proposal), Range(plan) \subseteq Range(runner[p].plan),
                 Goes(p, pc, runner[p].todo, plan)
          PROVE  Looked(p)' \subseteq Looked(p) /\ runner'[p].forced = runner[p].forced
      <4>1. Looked(p)' = Range(plan) /\ runner'[p].forced = runner[p].forced
        BY <3>2, InHand, LookedNow
      <4> QED BY <3>2, <4>1 DEF Looked
    <3>3. /\ runner[p].plan \in Seq(Proposal)
          /\ runner[p].plan # << >> => Tail(runner[p].plan) \in Seq(Proposal)
                                        /\ Range(Tail(runner[p].plan)) \subseteq Range(runner[p].plan)
      BY InHand, SequenceFacts
    <3>4. Looked(p)' = {} \/ (Looked(p)' \subseteq Looked(p) /\ runner'[p].forced = runner[p].forced)
      <4>1. CASE End(p)
        BY <2>2, <4>1
      <4>2. CASE \E pc \in {"apply", "index"} : Goes(p, pc, runner[p].todo, runner[p].plan)
        <5>1. PICK pc \in {"apply", "index"} : Goes(p, pc, runner[p].todo, runner[p].plan)
          BY <4>2
        <5> QED BY <3>2, <3>3, <5>1
      <4>3. CASE runner[p].plan # << >> /\ Goes(p, "apply", runner[p].todo, Tail(runner[p].plan))
        <5>1. Tail(runner[p].plan) \in Seq(Proposal) /\ Range(Tail(runner[p].plan)) \subseteq Range(runner[p].plan)
          BY <3>3, <4>3
        <5> QED BY <3>2, <4>3, <5>1
      <4> QED BY <3>1, <4>1, <4>2, <4>3
    <3> QED BY <1>2, <3>4
  <2>6. CASE NoAnswer(p) \/ Release(p) \/ Die(p)
    BY <1>2, <2>2, <2>6 DEF NoAnswer, Release, Die
  <2> QED BY <1>2, <2>1, <2>3, <2>4, <2>5, <2>6 DEF Run
<1> QED BY <1>1, <1>2

\* A record that no step touches is known as before.
LEMMA StillKnown ==
  ASSUME TypeOK, TodoInv, LookInv, NEW p \in Runners,
         Run(p) \/ ApplyError(p) \/ Die(p) \/ (\E forced \in BOOLEAN : Start(p, forced)),
         UNCHANGED <<records, overlooked>>
  PROVE  LookInv'
<1> SUFFICES ASSUME NEW q \in Runners, NEW x \in Looked(q)'
             PROVE  Known(x, runner'[q].forced, records[x.slug].manual)
  BY DEF LookInv, Known
<1>1. CASE \E y \in Looked(q) : /\ x.slug = y.slug /\ x.keep = y.keep
                                /\ runner'[q].forced = runner[q].forced
  <2>1. PICK y \in Looked(q) : /\ x.slug = y.slug /\ x.keep = y.keep
                               /\ runner'[q].forced = runner[q].forced
    BY <1>1
  <2>2. Known(y, runner[q].forced, records[y.slug].manual)
    BY DEF LookInv, Known
  <2> QED BY <2>1, <2>2 DEF Known
<1>2. CASE /\ Look(p) /\ q = p /\ x.slug \in Projects
           /\ runner'[q].forced = runner[q].forced
           /\ x.keep = (records[x.slug].manual /\ ~runner[q].forced)
  BY <1>2 DEF Known
<1> QED BY <1>1, <1>2, LookedAfter

LEMMA LookStep ==
  ASSUME TypeOK, TodoInv, LockInv, LookInv, [Next]_vars
  PROVE  LookInv'
<1>1. CASE StartLoop \/ \E forced \in BOOLEAN : StartCommand(forced)
  <2>1. (\E p \in Runners, forced \in BOOLEAN : Start(p, forced)) /\ UNCHANGED <<records, overlooked>>
    BY <1>1 DEF StartLoop, StartCommand, Start, Runners, Stored, History
  <2> QED BY <2>1, StillKnown
<1>2. ASSUME NEW p \in Runners, Run(p) \/ ApplyError(p) \/ Die(p), ~WriteRecord(p) PROVE LookInv'
  <2>1. UNCHANGED <<records, overlooked>>
    BY <1>2 DEF Run, Look, Answer, NoAnswer, Planned, PassOver, UpsertRow, ApplyError, Release, Die, Stored, History
  <2> QED BY <1>2, <2>1, StillKnown
<1>3. ASSUME NEW p \in Runners, WriteRecord(p) PROVE LookInv'
  <2> DEFINE w == Item(p)
             old == records[w.slug]
  <2>1. /\ w \in Proposal /\ w \in Looked(p) /\ w.slug \in Projects /\ old \in Record \cup {NoRecord}
        /\ runner[p].pc = "apply"
    <3>1. runner[p].plan \in Seq(Proposal) /\ runner[p].plan # << >> /\ runner[p].pc = "apply"
      BY <1>3, InHand DEF WriteRecord, Applies
    <3>2. w \in Proposal /\ w \in Range(runner[p].plan)
      BY <3>1, SequenceFacts DEF Item
    <3> QED BY <3>1, <3>2 DEF Looked, Proposal, TypeOK
  <2>2. Known(w, runner[p].forced, old.manual)
    BY <2>1 DEF LookInv, Known
  <2>3. /\ \A g \in Projects : g # w.slug => records'[g] = records[g]
        /\ records'[w.slug].manual <=> w.keep /\ old # NoRecord
        /\ {records'[w.slug].manual, old.manual, w.keep, runner[p].forced} \subseteq BOOLEAN
    <3>1. records' = [records EXCEPT ![w.slug] = Materialize(w, old, IdFor(w))] /\ IdFor(w) \in Nat \ {0}
      BY <1>3, WriteFacts
    <3>2. Materialize(w, old, IdFor(w)).manual <=> w.keep /\ old # NoRecord
      BY <2>1, <3>1, MaterializeTyped
    <3>3. {old.manual, w.keep} \subseteq BOOLEAN /\ Materialize(w, old, IdFor(w)).manual \in BOOLEAN
      <4>1. Materialize(w, old, IdFor(w)) \in Record
        BY <2>1, <3>1, MaterializeTyped
      <4>2. NoRecord.manual = FALSE
        BY DEF NoRecord
      <4> HIDE DEF w, old
      <4> QED BY <2>1, <4>1, <4>2 DEF Record, Proposal
    <3>4. runner[p].forced \in BOOLEAN
      BY InHand DEF Runner
    <3>5. \A g \in Projects : g # w.slug => records'[g] = records[g]
      BY <3>1 DEF TypeOK
    <3>6. records'[w.slug] = Materialize(w, old, IdFor(w))
      BY <2>1, <3>1 DEF TypeOK
    <3> QED BY <3>2, <3>3, <3>4, <3>5, <3>6
  <2>4. UNCHANGED overlooked
    BY <1>3 DEF WriteRecord, History
  \* Only an overlooked record changes its flag, but for a forced command.
  <2>5. records'[w.slug].manual # old.manual => w.slug \in overlooked \/ (old.manual /\ runner[p].forced /\ p = "command")
    <3>1. CASE w.keep
      <4>1. old = NoRecord => ~old.manual
        BY DEF NoRecord
      <4> QED BY <2>2, <2>3, <3>1, <4>1 DEF Known
    <3>2. CASE ~w.keep /\ ~runner[p].forced
      BY <2>2, <2>3, <3>2 DEF Known
    <3>3. CASE ~w.keep /\ runner[p].forced
      <4>1. p = "command"
        BY <3>3 DEF LockInv, Runners
      <4> QED BY <2>3, <3>3, <4>1
    <3> QED BY <2>3, <3>1, <3>2, <3>3
  <2> SUFFICES ASSUME NEW q \in Runners, NEW x \in Looked(q)'
               PROVE  Known(x, runner'[q].forced, records'[x.slug].manual)
    BY <2>4 DEF LookInv, Known
  <2>6. PICK y \in Looked(q) : x.slug = y.slug /\ x.keep = y.keep /\ runner'[q].forced = runner[q].forced
    <3>1. ~Look(p)
      BY <2>1 DEF Look
    <3> QED BY <1>3, <3>1, LookedAfter DEF Run
  <2>7. Known(y, runner[q].forced, records[y.slug].manual) /\ y.slug \in Projects
    <3>1. y \in Proposal
      <4>1. runner[q].todo \in Seq(Proposal) /\ runner[q].plan \in Seq(Proposal)
        BY InHand
      <4>2. Range(runner[q].plan) \subseteq Proposal
        BY <4>1, SequenceFacts
      <4>3. runner[q].pc = "call" => Head(runner[q].todo) \in Proposal
        BY <4>1, SequenceFacts DEF TodoInv
      <4> QED BY <4>2, <4>3 DEF Looked
    <3> QED BY <3>1 DEF LookInv, Known, Proposal
  <2>8. CASE y.slug # w.slug \/ records'[w.slug].manual = old.manual \/ w.slug \in overlooked
    <3>1. records'[x.slug].manual = records[y.slug].manual \/ y.slug \in overlooked
      BY <2>3, <2>6, <2>7, <2>8
    <3> QED BY <2>4, <2>6, <2>7, <3>1 DEF Known
  <2>9. CASE y.slug = w.slug /\ old.manual /\ ~records'[w.slug].manual /\ runner[p].forced /\ p = "command"
    <3>1. CASE q = p
      BY <2>4, <2>6, <2>7, <2>9, <3>1 DEF Known
    <3>2. CASE q = "loop"
      <4>1. lock = "command" /\ runner["loop"].pc = "rest"
        BY <2>1, <2>9 DEF LockInv, Applying, Runners
      <4>2. runner["loop"].plan = << >>
        BY <4>1 DEF TodoInv, Runners
      <4> QED BY <2>6, <3>2, <4>1, <4>2 DEF Looked, Range
    <3> QED BY <2>9, <3>1, <3>2 DEF Runners
  <2> QED BY <2>5, <2>8, <2>9
<1>4. ASSUME NEW g \in Projects, TakeOver(g) \/ Discard(g) PROVE LookInv'
  <2>1. UNCHANGED runner /\ \A q \in Runners : Looked(q)' = Looked(q)
    BY <1>4 DEF TakeOver, Discard, Looked
  <2>2. /\ overlooked \subseteq overlooked'
        /\ (\E q \in Runners : HasLooked(q, g)) => g \in overlooked'
        /\ \A h \in Projects : h # g => records'[h] = records[h]
    BY <1>4 DEF TakeOver, Discard, TypeOK
  <2> SUFFICES ASSUME NEW q \in Runners, NEW x \in Looked(q)
               PROVE  Known(x, runner[q].forced, records[x.slug].manual)'
    BY <2>1 DEF LookInv, Known
  <2>3. x.slug \in Projects
    <3>1. runner[q].todo \in Seq(Proposal) /\ runner[q].plan \in Seq(Proposal)
      BY InHand
    <3>2. Range(runner[q].plan) \subseteq Proposal
      BY <3>1, SequenceFacts
    <3>3. runner[q].pc = "call" => Head(runner[q].todo) \in Proposal
      BY <3>1, SequenceFacts DEF TodoInv
    <3>4. x \in Proposal
      BY <3>2, <3>3 DEF Looked
    <3> QED BY <3>4 DEF Proposal
  <2>4. Known(x, runner[q].forced, records[x.slug].manual)
    BY DEF LookInv, Known
  <2>5. x.slug = g => g \in overlooked'
    BY <2>2 DEF HasLooked
  <2>6. x.slug # g => records'[x.slug] = records[x.slug]
    BY <2>2, <2>3
  <2>7. x.slug \in overlooked => x.slug \in overlooked'
    BY <1>4 DEF TakeOver, Discard
  <2>8. CASE x.slug = g
    BY <2>1, <2>4, <2>5, <2>8 DEF Known
  <2>9. CASE x.slug # g
    <3>1. records'[x.slug].manual = records[x.slug].manual
      BY <2>6, <2>9
    <3> QED BY <2>1, <2>4, <2>7, <3>1 DEF Known
  <2> QED BY <2>8, <2>9
<1>5. CASE (\E g \in Projects : NewSession(g)) \/ UNCHANGED vars
  <2>1. UNCHANGED <<runner, records, overlooked>>
    BY <1>5 DEF NewSession, vars, Stored, History
  <2> QED BY <2>1 DEF LookInv, Looked
<1> QED BY <1>1, <1>2, <1>3, <1>4, <1>5 DEF Next, Run

-----------------------------------------------------------------------------
(* Rows *)

LEMMA RowStep ==
  ASSUME TypeOK, TodoInv, LockInv, RowInv, [Next]_vars
  PROVE  RowInv'
<1> DEFINE Indexing(p, g) == Applies(p, "index") /\ Item(p).slug = g
<1>1. \A g \in Projects :
        records[g] # NoRecord /\ g \notin torn /\ ~(\E p \in Runners : Indexing(p, g))
          => entries[g] = records[g].id
  BY DEF RowInv
<1> SUFFICES ASSUME NEW g \in Projects, records'[g] # NoRecord, g \notin torn',
                    \A p \in Runners : ~Indexing(p, g)'
             PROVE  entries'[g] = records'[g].id
  BY DEF RowInv
\* A step that writes no record and ends no writing.
<1>2. ASSUME UNCHANGED <<records, entries>>, torn \subseteq torn',
             \A p \in Runners : Indexing(p, g) => Indexing(p, g)' \/ g \in torn'
      PROVE  entries'[g] = records'[g].id
  BY <1>1, <1>2
<1>3. ASSUME NEW p \in Runners, runner[p].pc # "index", UNCHANGED <<records, entries, torn>>,
             \A q \in Runners : q # p => runner'[q] = runner[q]
      PROVE  entries'[g] = records'[g].id
  <2>1. \A q \in Runners : Indexing(q, g) => Indexing(q, g)'
    BY <1>3 DEF Applies, Item
  <2> HIDE DEF Indexing
  <2> QED BY <1>2, <1>3, <2>1
<1>4. CASE StartLoop \/ \E forced \in BOOLEAN : StartCommand(forced)
  <2>1. PICK p \in Runners, forced \in BOOLEAN : Start(p, forced)
    BY <1>4 DEF StartLoop, StartCommand, Runners
  <2>2. runner[p].pc # "index" /\ UNCHANGED <<records, entries, torn>>
    BY <2>1 DEF Start, Stored, History
  <2> QED BY <1>3, <2>1, <2>2, OthersRest
<1>5. ASSUME NEW p \in Runners, Look(p) \/ Answer(p) \/ NoAnswer(p) \/ Planned(p) \/ PassOver(p) \/ Release(p)
      PROVE  entries'[g] = records'[g].id
  <2>1. runner[p].pc # "index" /\ UNCHANGED <<records, entries, torn>>
    BY <1>5 DEF Look, Answer, NoAnswer, Planned, PassOver, Applies, Release, Stored, History
  <2>2. \A q \in Runners : q # p => runner'[q] = runner[q]
    BY <1>5, OthersRest DEF Run
  <2> QED BY <1>3, <2>1, <2>2
<1>6. ASSUME NEW p \in Runners, ApplyError(p) \/ Die(p) PROVE entries'[g] = records'[g].id
  <2>1. \A q \in Runners : q # p => runner'[q] = runner[q]
    BY <1>6, OthersRest
  <2>2. UNCHANGED <<records, entries>> /\ torn \subseteq torn'
        /\ (Indexing(p, g) => g \in torn')
    BY <1>6 DEF ApplyError, Die, Stored, Applies
  <2>3. \A q \in Runners : Indexing(q, g) => Indexing(q, g)' \/ g \in torn'
    BY <2>1, <2>2 DEF Applies, Item
  <2> HIDE DEF Indexing
  <2> QED BY <1>2, <2>2, <2>3
<1>7. ASSUME NEW p \in Runners, WriteRecord(p) PROVE entries'[g] = records'[g].id
  <2> DEFINE w == Item(p)
  <2>1. /\ w \in Proposal /\ IdFor(w) \in Nat \ {0}
        /\ records' = [records EXCEPT ![w.slug] = Materialize(w, records[w.slug], IdFor(w))]
    BY <1>7, WriteFacts
  <2>2. runner'[p].pc = "index" /\ runner'[p].plan = runner[p].plan /\ runner[p].plan # << >>
    <3>1. Goes(p, "index", runner[p].todo, runner[p].plan)
      BY <1>7, Goings
    <3> QED BY <1>7, <3>1, InHand, GoesFacts DEF WriteRecord, Applies
  <2>3. Item(p)' = w
    BY <2>2 DEF Item
  <2>4. w.slug # g
    BY <2>2, <2>3 DEF Applies
  <2>5. records'[g] = records[g]
    BY <2>1, <2>4 DEF TypeOK
  <2>6. \A q \in Runners : ~Indexing(q, g)
    <3>1. runner[p].pc = "apply"
      BY <1>7 DEF WriteRecord, Applies
    <3>2. \A q \in Runners : q # p => runner'[q] = runner[q]
      BY <1>7, OthersRest DEF Run
    <3> QED BY <3>1, <3>2 DEF Applies, Item
  <2>7. UNCHANGED <<entries, torn>>
    BY <1>7 DEF WriteRecord, History
  <2> QED BY <1>1, <2>5, <2>6, <2>7
<1>8. ASSUME NEW p \in Runners, UpsertRow(p) PROVE entries'[g] = records'[g].id
  <2>1. UNCHANGED <<records, torn>> /\ entries' = [entries EXCEPT ![Item(p).slug] = records[Item(p).slug].id]
    BY <1>8 DEF UpsertRow, History
  <2>2. CASE Item(p).slug = g
    BY <2>1, <2>2 DEF TypeOK
  <2>3. CASE Item(p).slug # g
    <3>1. entries'[g] = entries[g]
      BY <2>1, <2>3 DEF TypeOK
    <3>2. \A q \in Runners : q # p => runner'[q] = runner[q]
      BY <1>8, OthersRest DEF Run
    <3>3. \A q \in Runners : ~Indexing(q, g)
      BY <2>3, <3>2 DEF Applies, Item
    <3> QED BY <1>1, <2>1, <3>1, <3>3
  <2> QED BY <2>2, <2>3
<1>9. ASSUME NEW h \in Projects, TakeOver(h) \/ Discard(h) PROVE entries'[g] = records'[g].id
  <2>1. UNCHANGED <<runner, torn>>
    BY <1>9 DEF TakeOver, Discard
  <2>2. \A p \in Runners : ~Indexing(p, g)
    BY <2>1 DEF Applies, Item
  <2>3. CASE h = g
    <3>1. CASE TakeOver(h)
      BY <2>3, <3>1 DEF TakeOver, TypeOK
    <3>2. CASE Discard(h)
      BY <2>3, <3>2 DEF Discard, TypeOK
    <3> QED BY <1>9, <3>1, <3>2
  <2>4. CASE h # g
    <3>1. records'[g] = records[g] /\ entries'[g] = entries[g]
      BY <1>9, <2>4 DEF TakeOver, Discard, TypeOK
    <3> QED BY <1>1, <2>1, <2>2, <3>1
  <2> QED BY <2>3, <2>4
<1>10. CASE (\E h \in Projects : NewSession(h)) \/ UNCHANGED vars
  <2>1. UNCHANGED <<runner, records, entries, torn>>
    BY <1>10 DEF NewSession, vars, Stored, History
  <2>2. \A p \in Runners : Indexing(p, g) => Indexing(p, g)'
    BY <2>1 DEF Applies, Item
  <2> HIDE DEF Indexing
  <2> QED BY <1>2, <2>1, <2>2
<1> QED BY <1>4, <1>5, <1>6, <1>7, <1>8, <1>9, <1>10 DEF Next, Run

-----------------------------------------------------------------------------
(* The theorems *)

LEMMA InitInv == Init => Inv
<1> SUFFICES ASSUME Init PROVE Inv
  OBVIOUS
<1>1. AtRest \in Runner /\ AtRest.pc = "rest" /\ AtRest.todo = << >> /\ AtRest.plan = << >> /\ ~AtRest.forced
  BY DEF AtRest, Runner
<1>2. \A p \in Runners : runner[p] = AtRest
  BY DEF Init
<1>3. sessions \in [Projects -> 0..MaxSessions]
  BY ProjectAssumption DEF Init
<1>4. left \in [{"runs", "edits", "faults"} -> Nat]
  BY ProjectAssumption DEF Init
<1>5. TypeOK
  BY <1>1, <1>3, <1>4 DEF Init, TypeOK
<1>6. LockInv /\ TodoInv
  BY <1>1, <1>2 DEF LockInv, TodoInv, Runners, Applying, Range
<1>7. LookInv
  BY <1>1, <1>2 DEF LookInv, Looked, Range
<1>8. RowInv
  BY DEF RowInv, Init
<1> QED BY <1>5, <1>6, <1>7, <1>8 DEF Inv

LEMMA InvHolds == Spec => []Inv
<1>1. Inv /\ [Next]_vars => Inv'
  BY TypeStep, TodoStep, LockStep, LookStep, RowStep DEF Inv
<1> QED BY <1>1, InitInv, PTL DEF Spec

\* Whatever the projects, the runs and the operator's edits, every state is one
\* of the kind the code keeps, and who writes records has the stage's lock.
THEOREM ProjectTypes == Spec => []TypeOK
BY InvHolds, PTL DEF Inv

\* Only a step of WriteRecord changes a record and moves a runner.
LEMMA ManualStep ==
  ASSUME Inv, [Next]_vars,
         NEW g \in Projects, records[g].manual, records'[g] # records[g], runner' # runner
  PROVE  \/ records'[g].manual /\ records'[g].hand = records[g].hand
         \/ runner[lock].forced \/ g \in overlooked
<1> USE DEF Inv
<1>1. PICK p \in Runners : WriteRecord(p)
  BY DEF Next, StartLoop, StartCommand, Start, Run, Look, Answer, NoAnswer, Planned, PassOver, UpsertRow,
         ApplyError, Release, Die, NewSession, TakeOver, Discard, vars, Stored
<1> DEFINE w == Item(p)
<1>2. /\ w \in Proposal /\ IdFor(w) \in Nat \ {0}
      /\ records' = [records EXCEPT ![w.slug] = Materialize(w, records[w.slug], IdFor(w))]
  BY <1>1, WriteFacts
<1>3. w.slug = g /\ records'[g] = Materialize(w, records[g], IdFor(w))
  BY <1>2 DEF TypeOK
<1>4. lock = p /\ w \in Looked(p)
  <2>1. runner[p].plan # << >> /\ lock = p
    BY <1>1 DEF WriteRecord, Applies, LockInv, Applying
  <2>2. w \in Range(runner[p].plan)
    BY <2>1, InHand, SequenceFacts DEF Item
  <2> QED BY <2>1, <2>2 DEF Looked
<1>5. CASE w.keep
  <2>1. records[g] \in Record \cup {NoRecord} /\ records[g] # NoRecord
    BY DEF TypeOK, NoRecord
  <2> QED BY <1>2, <1>3, <1>5, <2>1, MaterializeTyped
<1>6. CASE ~w.keep
  BY <1>3, <1>4, <1>6 DEF LookInv
<1> QED BY <1>5, <1>6

\* A run takes neither text nor flag from a record that is flagged manual, with
\* any number of runs, unless it is forced or the flag was set while the run was
\* under way.
THEOREM ManualStays == Spec => ManualIsKept
<1>1. Inv /\ [Next]_vars =>
        [\A g \in Projects :
           records[g].manual /\ records'[g] # records[g] /\ runner' # runner =>
             \/ records'[g].manual /\ records'[g].hand = records[g].hand
             \/ runner[lock].forced \/ g \in overlooked]_vars
  BY ManualStep
<1> QED BY <1>1, InvHolds, PTL DEF Spec, ManualIsKept

\* A record has one id for as long as it lives, and the row of its path has
\* that id, unless the write was broken off.
THEOREM RecordsStayOne == Spec => OneRecord
<1>1. Inv => (\A g \in Projects :
          records[g] # NoRecord /\ g \notin torn
            /\ ~(\E p \in Runners : Applies(p, "index") /\ Item(p).slug = g)
            => entries[g] = records[g].id)
  BY DEF Inv, RowInv
<1>2. Inv /\ [Next]_vars =>
        [\A g \in Projects :
          records[g] # NoRecord /\ records'[g] # NoRecord => records'[g].id = records[g].id]_vars
  <2> SUFFICES ASSUME Inv, [Next]_vars, NEW g \in Projects, records[g] # NoRecord, records'[g] # NoRecord
               PROVE  records'[g].id = records[g].id
    OBVIOUS
  <2> USE DEF Inv
  <2>1. CASE UNCHANGED records
    BY <2>1
  <2>2. ASSUME NEW p \in Runners, WriteRecord(p) PROVE records'[g].id = records[g].id
    <3> DEFINE w == Item(p)
    <3>1. /\ w \in Proposal /\ IdFor(w) \in Nat \ {0}
          /\ records[w.slug] # NoRecord => IdFor(w) = records[w.slug].id
          /\ records' = [records EXCEPT ![w.slug] = Materialize(w, records[w.slug], IdFor(w))]
      BY <2>2, WriteFacts
    <3>2. CASE w.slug = g
      <4>1. records'[g] = Materialize(w, records[g], IdFor(w)) /\ records[g] \in Record \cup {NoRecord}
        BY <3>1, <3>2 DEF TypeOK
      <4>2. records'[g].id = IdFor(w)
        BY <3>1, <4>1, MaterializeTyped
      <4> QED BY <3>1, <3>2, <4>2
    <3>3. CASE w.slug # g
      BY <3>1, <3>3 DEF TypeOK
    <3> QED BY <3>2, <3>3
  <2>3. ASSUME NEW h \in Projects, TakeOver(h) \/ Discard(h) PROVE records'[g].id = records[g].id
    BY <2>3 DEF TakeOver, Discard, TypeOK
  <2> QED
    BY <2>1, <2>2, <2>3
    DEF Next, StartLoop, StartCommand, Start, Run, Look, Answer, NoAnswer, Planned, PassOver, UpsertRow,
        ApplyError, Release, Die, NewSession, vars, Stored
<1> QED BY <1>1, <1>2, InvHolds, PTL DEF Spec, OneRecord

-----------------------------------------------------------------------------
(* Under the lock *)

\* The runs that are under the lock of the stage.
Locking == {p \in Runners : runner[p].pc \in Applying \/ (p = "loop" /\ runner[p].pc # "rest")}

Turns == INSTANCE StageTurns WITH working <- Locking

LEMMA OneRunnerMoves ==
  ASSUME TypeOK, [Next]_vars
  PROVE  \E p \in Runners : \A q \in Runners \ {p} : runner'[q] = runner[q]
<1>0. DOMAIN runner = Runners
  BY DEF TypeOK
<1>1. ASSUME NEW p \in Runners, \E job : runner' = [runner EXCEPT ![p] = job]
      PROVE  \A q \in Runners \ {p} : runner'[q] = runner[q]
  <2>1. PICK job : runner' = [runner EXCEPT ![p] = job]
    BY <1>1
  <2> QED BY <1>0, <2>1
<1>2. CASE StartLoop \/ \E forced \in BOOLEAN : StartCommand(forced)
  <2>1. "loop" \in Runners /\ "command" \in Runners
    BY DEF Runners
  <2>2. CASE StartLoop
    BY <1>1, <2>1, <2>2 DEF StartLoop, Start
  <2>3. CASE \E forced \in BOOLEAN : StartCommand(forced)
    BY <1>1, <2>1, <2>3 DEF StartCommand, Start
  <2> QED BY <1>2, <2>2, <2>3
<1>3. CASE \E p \in Runners : Run(p) \/ ApplyError(p) \/ Die(p)
  <2>1. PICK p \in Runners : Run(p) \/ ApplyError(p) \/ Die(p)
    BY <1>3
  <2> SUFFICES \A q \in Runners \ {p} : runner'[q] = runner[q]
    OBVIOUS
  <2>2. CASE Look(p)
    BY <1>0, <2>2 DEF Look
  <2>3. CASE Answer(p)
    BY <1>0, <2>3 DEF Answer
  <2>4. CASE NoAnswer(p)
    BY <1>0, <2>4 DEF NoAnswer, End
  <2>5. CASE Planned(p)
    BY <1>0, <2>5 DEF Planned, End
  <2>6. CASE PassOver(p)
    BY <1>0, <2>6 DEF PassOver, NextItem
  <2>7. CASE WriteRecord(p)
    BY <1>0, <2>7 DEF WriteRecord
  <2>8. CASE UpsertRow(p)
    BY <1>0, <2>8 DEF UpsertRow, NextItem
  <2>9. CASE Release(p)
    BY <1>0, <2>9 DEF Release, End
  <2>10. CASE ApplyError(p)
    BY <1>0, <2>10 DEF ApplyError, NextItem
  <2>11. CASE Die(p)
    BY <1>0, <2>11 DEF Die, End
  <2> QED BY <2>1, <2>2, <2>3, <2>4, <2>5, <2>6, <2>7, <2>8, <2>9, <2>10, <2>11 DEF Run
<1>4. CASE (\E g \in Projects : NewSession(g) \/ TakeOver(g) \/ Discard(g)) \/ UNCHANGED vars
  <2>1. UNCHANGED runner /\ "loop" \in Runners
    BY <1>4 DEF NewSession, TakeOver, Discard, vars, Runners
  <2> QED BY <2>1
<1> QED BY <1>2, <1>3, <1>4 DEF Next

\* What the stage's lock promises when no run outlives it (StageLock) is what project
\* records are written under: the loop from its start, and the command from the end of
\* its plan, take turns, whatever fails or is killed.
THEOREM RecordsTakeTurns == Spec => Turns!Spec
<1>1. Init => Turns!Init
  BY DEF Init, AtRest, Locking, Applying, Turns!Init
<1>2. Inv /\ Inv' /\ [Next]_vars => [Turns!Next]_Locking
  <2> SUFFICES ASSUME Inv, Inv', [Next]_vars, Locking' # Locking
               PROVE  Turns!Next
    OBVIOUS
  <2>1. Locking \subseteq {lock} \cap Runners /\ Locking' \subseteq {lock'} \cap Runners
    BY DEF Inv, LockInv, Locking
  <2>2. PICK p \in Runners : \A q \in Runners \ {p} : runner'[q] = runner[q]
    BY OneRunnerMoves DEF Inv
  <2>3. \A q \in Runners \ {p} : q \in Locking' <=> q \in Locking
    BY <2>2 DEF Locking
  <2>4. \/ Locking = {} /\ Locking' = {p}
        \/ Locking = {p} /\ Locking' = {}
    BY <2>1, <2>3
  <2> QED BY <2>4 DEF Turns!Next, Turns!Start, Turns!Stop
<1> QED BY <1>1, <1>2, InvHolds, PTL DEF Spec, Turns!Spec
=============================================================================

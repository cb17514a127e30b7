---------------------------- MODULE CleanupProofs ----------------------------
(***************************************************************************)
(* What holds of Cleanup for any number of memories, sources and texts,    *)
(* any ranking and any number of clean-ups, edits and failures.            *)
(***************************************************************************)
EXTENDS Cleanup, FiniteSetTheorems, WellFoundedInduction, TLAPS

-----------------------------------------------------------------------------
(* Types *)

AnyBody == Bodies \cup {NoBody}

AnyFile == [body : AnyBody, by : Memories \cup {NoMemory}, until : 0..Never]

Entries == [winner : Memories, losers : SUBSET Memories, body : AnyBody]

AnyJob == [memory : Memories, winner : Memories \cup {NoMemory}, until : 0..Never,
           body : AnyBody, file : AnyFile]

Command == [pc : {"rest", "groups", "jobs", "write", "index", "log", "strip"},
            tool : {"none", "retro", "phase1", "noise", "strip"},
            groups : SUBSET (Entries \cup Memories), jobs : SUBSET AnyJob, job : AnyJob,
            overtaken : BOOLEAN]

Pipe == [pc : {"idle", "write", "index"}, ref : Refs \cup {NoPipe.ref}, memory : Memories,
         file : AnyFile]

StoreTyped ==
  /\ source \in [Refs -> Bodies] /\ map \in [Refs -> Memories \cup {NoMemory}]
  /\ files \in [Memories -> AnyFile] /\ rows \in [Memories -> AnyFile]
  /\ hash \in [Bodies -> Memories \cup {NoMemory}]
  /\ score \in [Memories -> 0..1]
  /\ vectors \in [Memories -> AnyBody] /\ state \in [Memories -> AnyBody]
  /\ queue \subseteq Memories /\ now \in 0..MaxTime

\* What a step needs to know of the tool it is part of.
ToolOK ==
  /\ command.pc = "strip" => command.tool = "strip"
  /\ command.pc = "groups" => command.tool \in {"retro", "phase1"}
  /\ command.pc \in {"jobs", "write", "index", "log"} => command.tool \in {"retro", "phase1", "noise"}
  /\ command.tool \in {"retro", "phase1"} => command.groups \subseteq Entries
  /\ command.tool = "noise" => command.groups = {}
  /\ command.tool = "strip" => command.groups \subseteq Memories

TypeInv ==
  /\ StoreTyped /\ pipe \in Pipe /\ command \in Command /\ manifest \subseteq Entries
  /\ ToolOK

LEMMA Constants ==
  /\ Ids[1] \in Memories /\ NoMemory \notin Memories /\ NoBody \notin Bodies
  /\ Never \in Nat /\ MaxTime \in Nat /\ Ttl \in Nat /\ MaxTime + Ttl < Never
  /\ \E b \in Bodies : Marks[b] = {}
  /\ Standing \in [Memories -> 0..1] /\ Live \subseteq Refs
  /\ NoFile \in AnyFile /\ NoFile.by = NoMemory /\ NoFile.body = NoBody /\ NoFile.until = Never
  /\ NoJob \in AnyJob /\ AtRest \in Command /\ NoPipe \in Pipe
<1>1. Ids[1] \in Memories
  BY CleanupAssumption
<1>2. NoFile \in AnyFile /\ NoFile.by = NoMemory /\ NoFile.body = NoBody /\ NoFile.until = Never
  BY CleanupAssumption DEF NoFile, AnyFile, AnyBody
<1>3. NoJob \in AnyJob
  BY <1>1, <1>2, CleanupAssumption DEF NoJob, AnyJob, AnyBody
<1>4. AtRest \in Command
  BY <1>3 DEF AtRest, Command
<1>5. NoPipe \in Pipe
  BY <1>1, <1>2 DEF NoPipe, Pipe
<1> QED BY <1>1, <1>2, <1>3, <1>4, <1>5, CleanupAssumption

LEMMA Ranks ==
  /\ \A m \in Memories : Rank(m) \in Nat /\ Ids[Rank(m)] = m
  /\ \A m, n \in Memories : Rank(m) = Rank(n) => m = n
<1>1. \A m \in Memories : Rank(m) \in DOMAIN Ids /\ Ids[Rank(m)] = m
  BY DEF Rank, Memories, Range
<1>2. DOMAIN Ids \subseteq Nat
  BY CleanupAssumption
<1> QED BY <1>1, <1>2

\* A group has a winner: of those that rank highest, the first.
LEMMA WinnerIsIn ==
  ASSUME StoreTyped, NEW group \in SUBSET Memories, group # {}
  PROVE  Winner(group) \in group
<1> DEFINE best == {m \in group : \A n \in group : score[n] <= score[m]}
           ranks == {Rank(m) : m \in best}
<1>1. best # {}
  <2>1. CASE \E m \in group : score[m] = 1
    BY <2>1 DEF StoreTyped
  <2>2. CASE \A m \in group : score[m] # 1
    <3>1. \A m \in group : score[m] = 0
      BY <2>2 DEF StoreTyped
    <3> QED BY <3>1
  <2> QED BY <2>1, <2>2
<1>2. ranks \subseteq Nat /\ ranks # {}
  BY <1>1, Ranks
<1>3. PICK d \in ranks : \A y \in ranks : d <= y
  <2> HIDE DEF ranks
  <2>1. IsWellFoundedOn({ss \in Nat \X Nat : ss[1] < ss[2]}, Nat)
    BY NatLessThanWellFounded DEF OpToRel
  <2>2. PICK d \in ranks : \A y \in ranks : ~ (<<y, d>> \in {ss \in Nat \X Nat : ss[1] < ss[2]})
    BY <1>2, <2>1, WFMin
  <2>3. \A y \in ranks : d <= y
    <3> SUFFICES ASSUME NEW y \in ranks, y < d PROVE FALSE
      BY <1>2, SMT
    <3>1. <<y, d>> \in {ss \in Nat \X Nat : ss[1] < ss[2]}
      BY <1>2, SMT
    <3> QED BY <2>2, <3>1
  <2> QED BY <2>3
<1>4. PICK m \in best : Rank(m) = d
  BY <1>3
<1>5. \A n \in group \ {m} : Beats(m, n)
  <2> TAKE n \in group \ {m}
  <2>1. score[n] \in Nat /\ score[m] \in Nat /\ score[n] <= score[m]
    BY <1>4 DEF StoreTyped
  <2>2. CASE n \in best
    <3>1. Rank(m) <= Rank(n) /\ Rank(m) # Rank(n) /\ Rank(m) \in Nat /\ Rank(n) \in Nat
      BY <1>3, <1>4, <2>2, Ranks
    <3> QED BY <2>1, <3>1 DEF Beats
  <2>3. CASE n \notin best
    <3>1. score[n] # score[m]
      BY <1>4, <2>3
    <3> QED BY <2>1, <3>1 DEF Beats
  <2> QED BY <2>2, <2>3
<1> QED BY <1>4, <1>5 DEF Winner

\* What is planned for a group: one of it wins, the others lose.
LEMMA EntryFacts ==
  ASSUME StoreTyped, NEW group \in SUBSET Memories, group # {}
  PROVE  /\ Entry(group) \in Entries /\ Entry(group).winner \in group
         /\ Entry(group).losers = group \ {Entry(group).winner}
         /\ Entry(group).body = files[Entry(group).winner].body
<1>1. Winner(group) \in group
  BY WinnerIsIn
<1>2. files[Winner(group)].body \in AnyBody
  BY <1>1 DEF StoreTyped, AnyFile
<1> QED BY <1>1, <1>2 DEF Entry, Entries

\* The groups of both planners are plannable, of one body, and there.
LEMMA GroupFacts ==
  ASSUME NEW group \in Collisions \cup SameSource
  PROVE  /\ group \subseteq Plannable /\ group \subseteq Memories /\ group # {}
         /\ \A m, n \in group : files[m].body = files[n].body
<1>1. group # {}
  BY FS_EmptySet DEF Collisions, SameSource
<1>2. \/ \E b \in Bodies : group = {m \in Plannable : files[m].body = b}
      \/ \E r \in Refs, b \in Bodies : group = {m \in Plannable : Origin[m] = r /\ files[m].body = b}
  BY DEF Collisions, SameSource
<1> QED BY <1>1, <1>2 DEF Plannable

\* A job takes its parts from the entry.
LEMMA JobFacts ==
  ASSUME NEW entry \in Entries, NEW m \in Memories, NEW file \in AnyFile
  PROVE  /\ JobOf(entry, m) \in AnyJob /\ [JobOf(entry, m) EXCEPT !.file = file] \in AnyJob
         /\ JobOf(entry, m).memory = m /\ JobOf(entry, m).winner = entry.winner
         /\ JobOf(entry, m).body = entry.body
<1>1. NoJob \in AnyJob
  BY Constants
<1>2. JobOf(entry, m) \in AnyJob /\ JobOf(entry, m).memory = m
      /\ JobOf(entry, m).winner = entry.winner /\ JobOf(entry, m).body = entry.body
  BY <1>1 DEF JobOf, AnyJob, Entries
<1> QED BY <1>2 DEF AnyJob

\* A rewritten file keeps its text.
LEMMA RewrittenFacts ==
  ASSUME NEW file \in AnyFile, NEW job \in AnyJob
  PROVE  /\ Rewritten(file, job) \in AnyFile /\ Rewritten(file, job).body = file.body
         /\ job.winner # NoMemory => Rewritten(file, job).by = job.winner
         /\ job.winner = NoMemory => Rewritten(file, job).by = file.by
BY DEF Rewritten, AnyFile, AnyJob

\* The days a verdict gives are within the calendar.
LEMMA UntilFacts ==
  ASSUME StoreTyped, NEW verdict
  PROVE  Until(verdict) \in 0..Never
BY Constants DEF StoreTyped, Until

\* What a step leaves of the command says what the rest of the types need.
LEMMA CommandTyped ==
  ASSUME command' \in Command, ToolOK', StoreTyped', pipe' \in Pipe, manifest' \subseteq Entries
  PROVE  TypeInv'
BY DEF TypeInv

LEMMA TypeStart ==
  ASSUME TypeInv, StartRetro \/ StartManifest \/ StartStrip
  PROVE  TypeInv'
<1> DEFINE entries == {Entry(group) : group \in Collisions}
<1>1. entries \subseteq Entries
  BY GroupFacts, EntryFacts DEF TypeInv
<1> HIDE DEF entries
<1>2. \E tool \in {"retro", "phase1", "strip"} :
        \E plan \in SUBSET (Entries \cup Memories) :
          \E pc \in {"groups", "strip"} :
             /\ Started(tool, plan, pc)
             /\ tool = "strip" => pc = "strip" /\ plan \subseteq Memories
             /\ tool # "strip" => pc = "groups" /\ plan \subseteq Entries
  <2>1. CASE StartRetro
    BY <1>1, <2>1 DEF StartRetro, entries
  <2>2. CASE StartManifest
    BY <2>2 DEF StartManifest, TypeInv
  <2>3. CASE StartStrip
    <3> DEFINE gone == {m \in Memories : rows[m] # NoFile /\ Expired(rows[m]) /\ vectors[m] # NoBody}
    <3>1. gone \subseteq Memories /\ Started("strip", gone, "strip")
      BY <2>3 DEF StartStrip
    <3> QED BY <3>1
  <2> QED BY <2>1, <2>2, <2>3
<1>3. PICK tool \in {"retro", "phase1", "strip"}, plan \in SUBSET (Entries \cup Memories),
           pc \in {"groups", "strip"} :
             /\ Started(tool, plan, pc)
             /\ tool = "strip" => pc = "strip" /\ plan \subseteq Memories
             /\ tool # "strip" => pc = "groups" /\ plan \subseteq Entries
  BY <1>2
<1>4. command' \in Command /\ ToolOK'
  <2>1. command' = [AtRest EXCEPT !.pc = pc, !.tool = tool, !.groups = plan]
    BY <1>3 DEF Started
  <2> QED BY <1>3, <2>1, Constants DEF Command, ToolOK
<1> QED BY <1>3, <1>4 DEF Started, Beside, Stores, TypeInv, StoreTyped

LEMMA TypePlan ==
  ASSUME TypeInv,
         MakeManifest \/ Ticket \/ OpenGroup \/ CheckGroup \/ PlanNoise \/ Finish \/ CloseGroup
  PROVE  TypeInv'
<1>1. StoreTyped' /\ pipe' \in Pipe
  BY DEF MakeManifest, Ticket, OpenGroup, CheckGroup, PlanNoise, Finish, CloseGroup, Beside,
         Stores, TypeInv, StoreTyped
<1>2. manifest' \subseteq Entries
  <2>1. Selected \subseteq Entries
    <3>1. \A g \in SameSource : Entry(g) \in Entries
      BY GroupFacts, EntryFacts DEF TypeInv
    <3> QED BY <3>1 DEF Selected
  <2> QED
    BY <2>1 DEF MakeManifest, Ticket, OpenGroup, CheckGroup, PlanNoise, Finish, CloseGroup,
                TypeInv
<1>3. command' \in Command /\ ToolOK'
  <2>1. CASE MakeManifest
    BY <2>1 DEF MakeManifest, TypeInv, ToolOK
  <2>2. CASE Ticket
    BY <2>2 DEF Ticket, TypeInv, Command, ToolOK
  <2>3. CASE OpenGroup
    <3>1. PICK entry \in command.groups :
            command' = [command EXCEPT !.pc = "jobs", !.groups = @ \ {entry},
                          !.jobs = {JobOf(entry, m) : m \in entry.losers}]
      BY <2>3 DEF OpenGroup
    <3> DEFINE jobs == {JobOf(entry, m) : m \in entry.losers}
    <3>2. entry \in Entries /\ command.tool = "retro"
      BY <2>3 DEF OpenGroup, TypeInv, ToolOK
    <3>3. jobs \subseteq AnyJob
      <4>0. NoFile \in AnyFile
        BY Constants
      <4>1. ASSUME NEW m \in entry.losers PROVE JobOf(entry, m) \in AnyJob
        BY <3>2, <4>0, JobFacts DEF Entries
      <4> QED BY <4>1
    <3>4. command' = [command EXCEPT !.pc = "jobs", !.groups = @ \ {entry}, !.jobs = jobs]
      BY <3>1
    <3> HIDE DEF jobs
    <3> QED BY <3>2, <3>3, <3>4 DEF TypeInv, Command, ToolOK
  <2>4. CASE CheckGroup
    <3>1. PICK entry \in command.groups :
            \/ command' = [command EXCEPT !.pc = "jobs", !.groups = @ \ {entry},
                  !.overtaken = FALSE,
                  !.jobs = {[JobOf(entry, m) EXCEPT !.file = files[m]] : m \in entry.losers}]
            \/ command' = [command EXCEPT !.groups = @ \ {entry}]
      BY <2>4 DEF CheckGroup
    <3> DEFINE jobs == {[JobOf(entry, m) EXCEPT !.file = files[m]] : m \in entry.losers}
    <3>2. entry \in Entries /\ command.tool = "phase1"
      BY <2>4 DEF CheckGroup, TypeInv, ToolOK
    <3>3. jobs \subseteq AnyJob
      <4>1. \A m \in entry.losers : m \in Memories /\ files[m] \in AnyFile
        BY <3>2 DEF Entries, TypeInv, StoreTyped
      <4> QED BY <3>2, <4>1, JobFacts
    <3>4. \/ command' = [command EXCEPT !.pc = "jobs", !.groups = @ \ {entry},
                !.overtaken = FALSE, !.jobs = jobs]
          \/ command' = [command EXCEPT !.groups = @ \ {entry}]
      BY <3>1
    <3> HIDE DEF jobs
    <3> QED BY <3>2, <3>3, <3>4 DEF TypeInv, Command, ToolOK
  <2>5. CASE PlanNoise
    <3> DEFINE Marked(m) == [NoJob EXCEPT !.memory = m,
                                          !.until = Until(Verdict(files[m].body, FALSE))]
               jobs == {Marked(m) : m \in NoiseHits}
    <3>1. jobs \subseteq AnyJob
      <4>1. \A m \in NoiseHits : m \in Memories
        BY DEF NoiseHits, Plannable
      <4>2. ASSUME NEW m \in Memories PROVE Marked(m) \in AnyJob
        <5>1. Until(Verdict(files[m].body, FALSE)) \in 0..Never
          BY UntilFacts DEF TypeInv
        <5> HIDE DEF Verdict
        <5> QED BY <5>1, Constants DEF AnyJob
      <4> QED BY <4>1, <4>2
    <3>2. command' = [AtRest EXCEPT !.pc = "jobs", !.tool = "noise", !.jobs = jobs]
      BY <2>5 DEF PlanNoise
    <3>3. AtRest.groups = {}
      BY DEF AtRest
    <3> HIDE DEF jobs
    <3> QED BY <3>1, <3>2, <3>3, Constants DEF Command, ToolOK
  <2>6. CASE Finish
    BY <2>6, Constants DEF Finish, AtRest, ToolOK
  <2>7. CASE CloseGroup
    BY <2>7 DEF CloseGroup, TypeInv, Command, ToolOK
  <2> QED BY <2>1, <2>2, <2>3, <2>4, <2>5, <2>6, <2>7
<1> QED BY <1>1, <1>2, <1>3, CommandTyped

LEMMA HashTyped ==
  ASSUME StoreTyped, NEW body, NEW m \in Memories
  PROVE  Recorded(body, m) \in [Bodies -> Memories \cup {NoMemory}]
BY DEF StoreTyped, Recorded

LEMMA TypeJob ==
  ASSUME TypeInv, Strip \/ TakeJob \/ WriteJob \/ IndexJob \/ LogJob \/ FailJob
  PROVE  TypeInv'
<1>1. command.job \in AnyJob /\ command.jobs \subseteq AnyJob
  BY DEF TypeInv, Command
<1>2. CASE Strip
  <2>1. PICK m \in command.groups :
          /\ vectors' = [vectors EXCEPT ![m] = NoBody]
          /\ queue' = queue \ {m}
          /\ command' = [command EXCEPT !.groups = @ \ {m}]
    BY <1>2 DEF Strip
  <2>2. StoreTyped' /\ pipe' \in Pipe /\ manifest' \subseteq Entries
    BY <1>2, <2>1 DEF Strip, Beside, TypeInv, StoreTyped, AnyBody
  <2> QED BY <2>1, <2>2, <1>2 DEF Strip, TypeInv, Command, ToolOK
<1>3. CASE TakeJob
  <2>1. PICK job \in command.jobs :
          LET file == IF command.tool = "phase1" THEN job.file ELSE files[job.memory] IN
          command' = [command EXCEPT !.pc = "write", !.jobs = @ \ {job},
                        !.job = [job EXCEPT !.file = Rewritten(file, job)]]
    BY <1>3 DEF TakeJob
  <2> DEFINE file == IF command.tool = "phase1" THEN job.file ELSE files[job.memory]
             next == [job EXCEPT !.file = Rewritten(file, job)]
  <2>2. file \in AnyFile
    BY <1>1 DEF AnyJob, TypeInv, StoreTyped
  <2>3. Rewritten(file, job) \in AnyFile
    BY <1>1, <2>2, RewrittenFacts
  <2>4. next \in AnyJob
    BY <1>1, <2>3 DEF AnyJob
  <2>5. command' = [command EXCEPT !.pc = "write", !.jobs = @ \ {job}, !.job = next]
    BY <2>1
  <2>6. StoreTyped' /\ pipe' \in Pipe /\ manifest' \subseteq Entries
    BY <1>3 DEF TakeJob, Beside, Stores, TypeInv, StoreTyped
  <2> HIDE DEF next, file
  <2>7. command.pc = "jobs"
    BY <1>3 DEF TakeJob
  <2> QED BY <2>4, <2>5, <2>6, <2>7 DEF TypeInv, Command, ToolOK
<1>4. CASE WriteJob
  <2>1. files' \in [Memories -> AnyFile]
    BY <1>1, <1>4 DEF WriteJob, TypeInv, StoreTyped, AnyJob
  <2> QED BY <1>4, <2>1 DEF WriteJob, Beside, TypeInv, StoreTyped, Command, ToolOK
<1>5. CASE IndexJob
  <2>1. rows' \in [Memories -> AnyFile]
    BY <1>1, <1>5 DEF IndexJob, TypeInv, StoreTyped, AnyJob
  <2> QED BY <1>5, <2>1 DEF IndexJob, Beside, TypeInv, StoreTyped, Command, ToolOK
<1>6. CASE LogJob
  <2>1. hash' \in [Bodies -> Memories \cup {NoMemory}]
    BY <1>6 DEF LogJob, TypeInv, StoreTyped, Recorded, AnyJob, Command
  <2> QED BY <1>6, <2>1 DEF LogJob, Beside, TypeInv, StoreTyped, Command, ToolOK
<1>7. CASE FailJob
  BY <1>7 DEF FailJob, Beside, Stores, TypeInv, StoreTyped, Command, ToolOK
<1> QED BY <1>2, <1>3, <1>4, <1>5, <1>6, <1>7

\* What the pipeline makes of a file: a source's text over what was there.
LEMMA CarriedFacts ==
  ASSUME StoreTyped, NEW old \in AnyFile, NEW body \in AnyBody, NEW verdict
  PROVE  /\ Carried(old, body, verdict) \in AnyFile
         /\ Carried(old, body, verdict).by = old.by /\ Carried(old, body, verdict).body = body
<1>1. Until(verdict) \in 0..Never
  BY UntilFacts
<1> QED BY <1>1 DEF Carried, AnyFile

\* What is left of the command when the pipeline writes.
LEMMA Overtaken ==
  ASSUME command \in Command, command' = [command EXCEPT !.overtaken = TRUE]
  PROVE  /\ command' \in Command /\ command'.overtaken /\ command'.pc = command.pc
         /\ command'.tool = command.tool /\ command'.groups = command.groups
         /\ command'.jobs = command.jobs /\ command'.job = command.job
BY DEF Command

LEMMA TypePipe ==
  ASSUME TypeInv,
         \/ \E r \in Live : Process(r) \/ \E b \in Bodies : Edit(r, b)
         \/ PipeWrite \/ PipeIndex \/ Tick
         \/ \E m \in Memories : Embed(m) \/ Bump(m)
  PROVE  TypeInv'
<1>1. CASE \E r \in Live : Process(r)
  <2>1. PICK r \in Live : Process(r)
    BY <1>1
  <2>2. r \in Refs /\ source[r] \in AnyBody
    BY Constants DEF TypeInv, StoreTyped, AnyBody
  <2>3. map' \in [Refs -> Memories \cup {NoMemory}]
    <3>1. map' = map \/ (hash[source[r]] # NoMemory /\ map' = [map EXCEPT ![r] = hash[source[r]]])
      BY <2>1 DEF Process
    <3> QED BY <2>2, <3>1 DEF TypeInv, StoreTyped
  <2>4. pipe' \in Pipe
    <3>1. CASE pipe' = pipe
      BY <3>1 DEF TypeInv
    <3>2. CASE pipe' # pipe
      <4>1. PICK m \in IdsFor(r) :
              pipe' = [pc |-> "write", ref |-> r, memory |-> m,
                       file |-> Carried(files[m], source[r], Verdict(source[r], TRUE))]
        BY <2>1, <3>2 DEF Process
      <4>2. m \in Memories
        BY <2>2, <4>1 DEF IdsFor, TypeInv, StoreTyped
      <4>3. Carried(files[m], source[r], Verdict(source[r], TRUE)) \in AnyFile
        BY <2>2, <4>2, CarriedFacts DEF TypeInv, StoreTyped
      <4> QED BY <2>2, <4>1, <4>2, <4>3 DEF Pipe
    <3> QED BY <3>1, <3>2
  <2> QED BY <2>1, <2>3, <2>4 DEF Process, Apart, TypeInv, StoreTyped, ToolOK
<1>2. CASE \E r \in Live, b \in Bodies : Edit(r, b)
  <2>1. PICK r \in Live, b \in Bodies : Edit(r, b)
    BY <1>2
  <2>2. source' \in [Refs -> Bodies]
    BY <2>1 DEF Edit, TypeInv, StoreTyped
  <2> QED BY <2>1, <2>2 DEF Edit, TypeInv, StoreTyped, ToolOK
<1>3. CASE PipeWrite
  <2>1. files' \in [Memories -> AnyFile] /\ pipe' \in Pipe
    BY <1>3 DEF PipeWrite, TypeInv, StoreTyped, Pipe
  <2>2. command' \in Command /\ ToolOK'
    BY <1>3, Overtaken DEF PipeWrite, TypeInv, ToolOK
  <2> QED BY <1>3, <2>1, <2>2 DEF PipeWrite, Apart, TypeInv, StoreTyped
<1>4. CASE PipeIndex
  <2>1. rows' \in [Memories -> AnyFile] /\ pipe' \in Pipe /\ queue' \subseteq Memories
    BY <1>4, Constants DEF PipeIndex, TypeInv, StoreTyped, Pipe
  <2>2. command' \in Command /\ ToolOK'
    BY <1>4, Overtaken DEF PipeIndex, TypeInv, ToolOK
  <2>3. hash' \in [Bodies -> Memories \cup {NoMemory}] /\ map' \in [Refs -> Memories \cup {NoMemory}]
    BY <1>4, HashTyped DEF PipeIndex, TypeInv, StoreTyped, Pipe
  <2> QED BY <1>4, <2>1, <2>2, <2>3 DEF PipeIndex, Apart, TypeInv, StoreTyped
<1>5. CASE Tick
  BY <1>5, Constants DEF Tick, TypeInv, StoreTyped, ToolOK
<1>6. CASE \E m \in Memories : Embed(m) \/ Bump(m)
  <2>1. PICK m \in Memories : Embed(m) \/ Bump(m)
    BY <1>6
  <2>2. files[m].body \in AnyBody
    BY DEF TypeInv, StoreTyped, AnyFile
  <2> QED BY <2>1, <2>2 DEF Embed, Bump, TypeInv, StoreTyped, ToolOK
<1> QED BY <1>1, <1>2, <1>3, <1>4, <1>5, <1>6

LEMMA TypeStep == TypeInv /\ [Next]_vars => TypeInv'
<1> SUFFICES ASSUME TypeInv, [Next]_vars PROVE TypeInv'
  OBVIOUS
<1>1. CASE UNCHANGED vars
  BY <1>1 DEF vars, TypeInv, StoreTyped, ToolOK
<1>2. CASE Next
  BY <1>2, TypeStart, TypePlan, TypeJob, TypePipe DEF Next, CommandStep
<1> QED BY <1>1, <1>2

LEMMA TypeInit == Init => TypeInv
<1> SUFFICES ASSUME Init PROVE TypeInv
  OBVIOUS
<1>1. files \in [Memories -> AnyFile] /\ rows = files
  <2>1. PICK text \in [Memories -> Bodies \cup {NoBody}] :
          files = [m \in Memories |-> IF text[m] = NoBody THEN NoFile
                      ELSE [body |-> text[m], by |-> NoMemory, until |-> Never]]
    BY DEF Init
  <2>2. \A m \in Memories : [body |-> text[m], by |-> NoMemory, until |-> Never] \in AnyFile
    BY Constants DEF AnyFile, AnyBody
  <2> QED BY <2>1, <2>2, Constants DEF Init
<1>2. map \in [Refs -> Memories \cup {NoMemory}] /\ score \in [Memories -> 0..1]
      /\ hash \in [Bodies -> Memories \cup {NoMemory}] /\ queue \subseteq Memories /\ now \in 0..MaxTime
  BY Constants DEF Init
<1>3. vectors \in [Memories -> AnyBody] /\ state = vectors
  BY <1>1 DEF Init, AnyFile
<1>4. source \in [Refs -> Bodies]
  <2>1. ASSUME NEW r \in Refs, map[r] # NoMemory PROVE files[map[r]].body \in Bodies
    <3>1. PICK text \in [Memories -> Bodies \cup {NoBody}] :
            files = [m \in Memories |-> IF text[m] = NoBody THEN NoFile
                        ELSE [body |-> text[m], by |-> NoMemory, until |-> Never]]
      BY DEF Init
    <3>2. map[r] \in Memories /\ files[map[r]] # NoFile
      BY <2>1 DEF Init
    <3> QED BY <3>1, <3>2
  <2>2. (CHOOSE b \in Bodies : Marks[b] = {}) \in Bodies
    BY Constants
  <2> QED BY <2>1, <2>2 DEF Init
<1>5. pipe \in Pipe /\ command \in Command /\ manifest \subseteq Entries /\ ToolOK
  BY Constants DEF Init, AtRest, ToolOK
<1> QED BY <1>1, <1>2, <1>3, <1>4, <1>5 DEF TypeInv, StoreTyped

LEMMA AlwaysTyped == Spec => []TypeInv
BY TypeInit, TypeStep, PTL DEF Spec

-----------------------------------------------------------------------------
(* What a step leaves alone *)

\* No memory is taken off the record again.
LEMMA RecordGrows ==
  ASSUME [Next]_vars
  PROVE  misled \subseteq misled' /\ failed \subseteq failed' /\ lost \subseteq lost' /\ renewed \subseteq renewed'
<1>1. CASE CommandStep
  BY <1>1 DEF CommandStep, Ticket, OpenGroup, CheckGroup, PlanNoise, Strip, Finish, CloseGroup,
              TakeJob, WriteJob, IndexJob, LogJob, Beside, Stores, Renewed
<1>2. CASE FailJob \/ StartRetro \/ MakeManifest \/ StartManifest \/ StartStrip
  BY <1>2 DEF FailJob, StartRetro, MakeManifest, StartManifest, StartStrip, Started, Beside, Stores
<1>3. CASE UNCHANGED vars \/ PipeWrite \/ PipeIndex \/ Tick
  BY <1>3 DEF vars, PipeWrite, PipeIndex, Tick, Apart, Renewed
<1>4. CASE (\E r \in Live : Process(r) \/ \E b \in Bodies : Edit(r, b))
             \/ \E m \in Memories : Embed(m) \/ Bump(m)
  BY <1>4 DEF Process, Edit, Embed, Bump, Apart
<1> QED BY <1>1, <1>2, <1>3, <1>4 DEF Next

\* The steps that write, and what the others leave.
LEMMA Writers ==
  ASSUME [Next]_vars
  PROVE  \/ WriteJob \/ IndexJob \/ LogJob \/ Strip \/ PipeWrite \/ PipeIndex \/ Tick
         \/ \E m \in Memories : Embed(m)
         \/ \E r \in Live : Process(r)
         \/ UNCHANGED <<files, rows, hash, vectors, state, queue, now, pipe>>
<1>1. CASE CommandStep
  BY <1>1 DEF CommandStep, Ticket, OpenGroup, CheckGroup, PlanNoise, Finish, CloseGroup,
              TakeJob, Beside, Stores
<1>2. CASE FailJob \/ StartRetro \/ MakeManifest \/ StartManifest \/ StartStrip
  BY <1>2 DEF FailJob, StartRetro, MakeManifest, StartManifest, StartStrip, Started, Beside, Stores
<1>3. CASE UNCHANGED vars
  BY <1>3 DEF vars
<1>4. CASE (\E r \in Live : Process(r) \/ \E b \in Bodies : Edit(r, b))
             \/ \E m \in Memories : Embed(m) \/ Bump(m)
  BY <1>4 DEF Edit, Bump
<1> QED BY <1>1, <1>2, <1>3, <1>4 DEF Next

\* The pipeline takes up a record while it has none.
LEMMA PipeStarts ==
  ASSUME NEW r \in Live, Process(r)
  PROVE  /\ UNCHANGED <<files, rows, hash, vectors, state, queue, now, command, lost>>
         /\ pipe.pc = "idle"
         /\ \/ pipe' = pipe
            \/ pipe'.pc = "write" /\ pipe'.file.by = files[pipe'.memory].by
<1>1. /\ UNCHANGED <<files, rows, hash, vectors, state, queue, now, command, lost>>
      /\ pipe.pc = "idle"
  BY DEF Process, Apart
<1>2. CASE pipe' # pipe
  <2>1. PICK m \in IdsFor(r) :
          pipe' = [pc |-> "write", ref |-> r, memory |-> m,
                   file |-> Carried(files[m], source[r], Verdict(source[r], TRUE))]
    BY <1>2 DEF Process
  <2>2. Carried(files[m], source[r], Verdict(source[r], TRUE)).by = files[m].by
    BY DEF Carried
  <2> QED BY <1>1, <2>1, <2>2
<1> QED BY <1>1, <1>2

-----------------------------------------------------------------------------
(* Hashes *)

LEMMA HashStep ==
  ASSUME TypeInv, HashIsStored, [Next]_vars
  PROVE  HashIsStored'
<1>0. lost \subseteq lost'
  BY RecordGrows
<1> SUFFICES ASSUME NEW b \in Bodies, hash'[b] # NoMemory
             PROVE  \/ files'[hash'[b]].body = b \/ hash'[b] \in lost'
                    \/ pipe'.pc = "index" /\ pipe'.memory = hash'[b]
  BY DEF HashIsStored
<1>1. CASE hash' = hash /\ pipe'.pc = "index" /\ pipe.pc = "index" /\ UNCHANGED <<files, pipe>>
  BY <1>0, <1>1 DEF HashIsStored
<1>2. CASE UNCHANGED <<files, hash, pipe>>
  BY <1>0, <1>2 DEF HashIsStored
<1>3. CASE WriteJob
  <2>1. hash' = hash /\ pipe' = pipe /\ command.job.memory \in Memories
        /\ files' = [files EXCEPT ![command.job.memory] = command.job.file]
        /\ (files[command.job.memory].body # command.job.file.body => command.job.memory \in lost')
    BY <1>3 DEF WriteJob, Beside, TypeInv, Command, AnyJob
  <2>2. hash[b] \in Memories
    BY <2>1 DEF TypeInv, StoreTyped
  <2>3. files \in [Memories -> AnyFile]
    BY DEF TypeInv, StoreTyped
  <2> QED BY <1>0, <2>1, <2>2, <2>3 DEF HashIsStored
<1>4. CASE LogJob
  <2>1. files' = files /\ pipe' = pipe
        /\ hash' = (IF command.tool = "retro" THEN Recorded(command.job.body, command.job.winner) ELSE hash)
        /\ (files[command.job.winner].body # command.job.body => command.job.winner \in lost')
    BY <1>4 DEF LogJob, Beside
  <2> QED BY <1>0, <2>1 DEF HashIsStored, Recorded
<1>5. CASE PipeWrite
  <2>1. hash' = hash /\ pipe' = [pipe EXCEPT !.pc = "index"] /\ pipe.pc = "write"
        /\ files' = [files EXCEPT ![pipe.memory] = pipe.file]
    BY <1>5 DEF PipeWrite, Apart
  <2>2. pipe'.pc = "index" /\ pipe'.memory = pipe.memory
    BY <2>1 DEF TypeInv, Pipe
  <2>3. hash[b] \in Memories /\ files \in [Memories -> AnyFile]
    BY <2>1 DEF TypeInv, StoreTyped
  <2> QED BY <1>0, <2>1, <2>2, <2>3 DEF HashIsStored
<1>6. CASE PipeIndex
  <2>1. files' = files /\ hash' = Recorded(pipe.file.body, pipe.memory) /\ pipe.pc = "index"
        /\ (files[pipe.memory] # pipe.file => pipe.memory \in lost')
    BY <1>6 DEF PipeIndex, Apart
  <2> QED BY <1>0, <2>1 DEF HashIsStored, Recorded
<1>7. CASE \E r \in Live : Process(r)
  BY <1>0, <1>7, PipeStarts DEF HashIsStored
<1>8. CASE IndexJob \/ Strip \/ Tick \/ \E m \in Memories : Embed(m)
  <2>1. UNCHANGED <<files, hash, pipe>>
    BY <1>8 DEF IndexJob, Strip, Tick, Embed, Beside
  <2> QED BY <1>2, <2>1
<1> QED BY <1>2, <1>3, <1>4, <1>5, <1>6, <1>7, <1>8, Writers

\* HashIsStored: what the hash index names is there, so that a text skipped as a
\* duplicate is the text of a memory (record_body_hash), but where a clean-up put
\* back or recorded what the pipeline had just replaced.
THEOREM HashesAreStored == Spec => []HashIsStored
<1>1. Init => HashIsStored
  BY DEF Init, HashIsStored
<1>2. TypeInv /\ HashIsStored /\ [Next]_vars => HashIsStored'
  BY HashStep
<1> QED BY <1>1, <1>2, AlwaysTyped, PTL DEF Spec

-----------------------------------------------------------------------------
(* Vectors *)

Indexing(m) == pipe.pc = "index" /\ pipe.memory = m

VectorInv ==
  /\ \A m \in Memories :
       /\ files[m].body = rows[m].body \/ m \in lost \/ Indexing(m)
       /\ vectors[m] = state[m] \/ Expired(rows[m]) \/ m \in renewed
       /\ Expired(rows[m]) \/ m \in queue \/ Indexing(m) \/ vectors[m] = rows[m].body
            \/ m \in renewed \cup lost
  /\ command.tool = "strip" => \A m \in command.groups : Expired(rows[m]) \/ m \in renewed

LEMMA NeverExpires ==
  ASSUME StoreTyped, NEW file \in AnyFile
  PROVE  now <= MaxTime /\ (Expired(file) <=> file.until <= now) /\ ~Expired(NoFile)
         /\ (Expired(file) => file # NoFile)
BY Constants DEF StoreTyped, Expired

\* A row that is indexed anew and not expired is the row of a memory that was not, or
\* that is renewed.
LEMMA RowRenewed ==
  ASSUME TypeInv, NEW m \in Memories, NEW file, Expired(rows[m]), ~Expired(file)
  PROVE  m \in Renewed(m, file)
<1>1. rows[m] # NoFile
  BY NeverExpires DEF TypeInv, StoreTyped
<1> QED BY <1>1 DEF Renewed

LEMMA VectorStrip ==
  ASSUME TypeInv, VectorInv, [Next]_vars, TypeInv',
         \A m \in Memories : Expired(rows[m]) \/ m \in renewed => Expired(rows[m])' \/ m \in renewed'
  PROVE  command'.tool = "strip" =>
           \A m \in command'.groups : Expired(rows[m])' \/ m \in renewed'
<1> SUFFICES ASSUME command'.tool = "strip" PROVE \A m \in command'.groups : Expired(rows[m])' \/ m \in renewed'
  OBVIOUS
<1>1. CASE command.tool = "strip" /\ command'.groups \subseteq command.groups
  <2>1. \A m \in command.groups : m \in Memories /\ (Expired(rows[m]) \/ m \in renewed)
    BY <1>1 DEF VectorInv, TypeInv, ToolOK
  <2> QED BY <1>1, <2>1
<1>2. CASE StartStrip
  <2>1. command' = [AtRest EXCEPT !.pc = "strip", !.tool = "strip",
          !.groups = {m \in Memories : rows[m] # NoFile /\ Expired(rows[m]) /\ vectors[m] # NoBody}]
    BY <1>2 DEF StartStrip, Started
  <2>2. command'.groups = {m \in Memories : rows[m] # NoFile /\ Expired(rows[m]) /\ vectors[m] # NoBody}
    BY <2>1, Constants DEF Command
  <2>3. \A m \in command'.groups : m \in Memories /\ Expired(rows[m])
    BY <2>2
  <2> QED BY <2>3
<1>3. (command.tool = "strip" /\ command'.groups \subseteq command.groups) \/ StartStrip
  <2>1. ~StartRetro /\ ~StartManifest /\ ~PlanNoise /\ ~Finish
    <3>1. AtRest \in Command /\ AtRest.tool = "none"
      BY Constants DEF AtRest
    <3>2. ASSUME NEW tool \in {"retro", "phase1"}, NEW plan, Started(tool, plan, "groups") PROVE FALSE
      <4>1. command' = [AtRest EXCEPT !.pc = "groups", !.tool = tool, !.groups = plan]
        BY <3>2 DEF Started
      <4> QED BY <3>1, <4>1 DEF Command
    <3>3. ~PlanNoise
      <4>1. ASSUME NEW jobs, command' = [AtRest EXCEPT !.pc = "jobs", !.tool = "noise", !.jobs = jobs]
            PROVE  FALSE
        BY <3>1, <4>1 DEF Command
      <4> QED BY <4>1 DEF PlanNoise
    <3>4. ~Finish
      BY <3>1 DEF Finish
    <3> QED BY <3>2, <3>3, <3>4 DEF StartRetro, StartManifest
  <2>2. command \in Command
    BY DEF TypeInv
  <2>3. CASE UNCHANGED command
    BY <2>3
  <2>4. CASE Ticket \/ OpenGroup \/ CheckGroup \/ Strip \/ CloseGroup
    BY <2>2, <2>4, ZenonT(30) DEF Ticket, OpenGroup, CheckGroup, Strip, CloseGroup, Command
  <2>5. CASE TakeJob \/ WriteJob \/ IndexJob \/ LogJob \/ FailJob
    BY <2>2, <2>5 DEF TakeJob, WriteJob, IndexJob, LogJob, FailJob, Command
  <2>6. CASE PipeWrite \/ PipeIndex
    BY <2>2, <2>6, Overtaken DEF PipeWrite, PipeIndex
  <2>7. CASE MakeManifest \/ Tick
    BY <2>3, <2>7 DEF MakeManifest, Tick
  <2>8. CASE (\E r \in Live : Process(r) \/ \E b \in Bodies : Edit(r, b))
             \/ \E m \in Memories : Embed(m) \/ Bump(m)
    BY <2>3, <2>8 DEF Process, Edit, Embed, Bump
  <2> QED BY <2>1, <2>3, <2>4, <2>5, <2>6, <2>7, <2>8 DEF Next, CommandStep, vars
<1> QED BY <1>1, <1>2, <1>3

LEMMA VectorStep ==
  ASSUME TypeInv, VectorInv, [Next]_vars, TypeInv'
  PROVE  VectorInv'
<1>0. lost \subseteq lost' /\ renewed \subseteq renewed'
  BY RecordGrows
<1> DEFINE OK(m) ==
             /\ files[m].body = rows[m].body \/ m \in lost \/ Indexing(m)
             /\ vectors[m] = state[m] \/ Expired(rows[m]) \/ m \in renewed
             /\ Expired(rows[m]) \/ m \in queue \/ Indexing(m) \/ vectors[m] = rows[m].body
                  \/ m \in renewed \cup lost
           Gone(m) == Expired(rows[m]) \/ m \in renewed
<1>1. \A m \in Memories : OK(m)
  BY DEF VectorInv
<1>2. \A m \in Memories : OK(m)' /\ (Gone(m) => Gone(m)')
  <2>1. CASE UNCHANGED <<files, rows, hash, vectors, state, queue, now, pipe>>
    BY <1>0, <1>1, <2>1 DEF Expired, Indexing
  <2>2. CASE WriteJob
    <3>1. UNCHANGED <<rows, vectors, state, queue, now, pipe>>
          /\ files' = [files EXCEPT ![command.job.memory] = command.job.file]
          /\ (files[command.job.memory].body # command.job.file.body => command.job.memory \in lost')
      BY <2>2 DEF WriteJob, Beside
    <3>2. files \in [Memories -> AnyFile]
      BY DEF TypeInv, StoreTyped
    <3> QED BY <1>0, <1>1, <3>1, <3>2 DEF Expired, Indexing
  <2>3. CASE IndexJob
    <3> DEFINE n == command.job.memory
               file == command.job.file
    <3>1. UNCHANGED <<files, vectors, state, queue, now, pipe>>
          /\ rows' = [rows EXCEPT ![n] = file]
          /\ renewed' = Renewed(n, file)
          /\ (files[n].body # file.body => n \in lost')
      BY <2>3 DEF IndexJob, Beside
    <3>2. n \in Memories /\ rows \in [Memories -> AnyFile]
      BY DEF TypeInv, StoreTyped, Command, AnyJob
    <3>3. Expired(rows[n]) /\ ~Expired(file) => n \in renewed'
      BY <3>1, <3>2, RowRenewed
    <3> HIDE DEF n, file
    <3> TAKE m \in Memories
    <3>4. CASE m # n
      <4>1. rows'[m] = rows[m]
        BY <3>1, <3>2, <3>4
      <4> QED BY <1>0, <1>1, <3>1, <4>1 DEF Expired, Indexing
    <3>5. CASE m = n
      <4>1. rows'[m] = file
        BY <3>1, <3>2, <3>5
      <4>2. (Expired(rows[m]) => Expired(rows[m])' \/ m \in renewed')
        BY <3>1, <3>3, <3>5, <4>1 DEF Expired
      <4>3. rows'[m].body = files[m].body \/ m \in lost'
        BY <3>1, <3>5, <4>1
      <4> QED BY <1>0, <1>1, <3>1, <4>2, <4>3 DEF Indexing
    <3> QED BY <3>4, <3>5
  <2>4. CASE LogJob
    BY <1>0, <1>1, <2>4 DEF LogJob, Beside, Expired, Indexing
  <2>5. CASE Strip
    <3>1. PICK n \in command.groups :
            /\ vectors' = [vectors EXCEPT ![n] = NoBody]
            /\ queue' = queue \ {n}
      BY <2>5 DEF Strip
    <3>2. UNCHANGED <<files, rows, state, now, pipe, lost, renewed>>
      BY <2>5 DEF Strip, Beside
    <3>3. n \in Memories /\ (Expired(rows[n]) \/ n \in renewed)
      BY <2>5 DEF Strip, TypeInv, ToolOK, VectorInv
    <3>4. vectors \in [Memories -> AnyBody]
      BY DEF TypeInv, StoreTyped
    <3> QED BY <1>1, <3>1, <3>2, <3>3, <3>4 DEF Expired, Indexing
  <2>6. CASE PipeWrite
    <3>1. UNCHANGED <<rows, vectors, state, queue, now>> /\ pipe.pc = "write"
          /\ files' = [files EXCEPT ![pipe.memory] = pipe.file]
          /\ pipe' = [pipe EXCEPT !.pc = "index"]
      BY <2>6 DEF PipeWrite, Apart
    <3>2. pipe'.pc = "index" /\ pipe'.memory = pipe.memory /\ files \in [Memories -> AnyFile]
      BY <3>1 DEF TypeInv, StoreTyped, Pipe
    <3> QED BY <1>0, <1>1, <3>1, <3>2 DEF Expired, Indexing
  <2>7. CASE PipeIndex
    <3> DEFINE n == pipe.memory
               file == pipe.file
    <3>1. UNCHANGED <<files, vectors, state, now>> /\ pipe.pc = "index"
          /\ rows' = [rows EXCEPT ![n] = file]
          /\ renewed' = Renewed(n, file)
          /\ (files[n] # file => n \in lost')
          /\ queue' = (IF ~Expired(file) /\ state[n] # file.body THEN queue \cup {n} ELSE queue)
          /\ pipe'.pc # "index"
      BY <2>7 DEF PipeIndex, Apart, NoPipe
    <3>2. n \in Memories /\ rows \in [Memories -> AnyFile]
      BY DEF TypeInv, StoreTyped, Pipe
    <3>3. Expired(rows[n]) /\ ~Expired(file) => n \in renewed'
      BY <3>1, <3>2, RowRenewed
    <3>6. \A m \in Memories : Indexing(m) => m = n
      BY DEF Indexing
    <3> HIDE DEF n, file
    <3> TAKE m \in Memories
    <3>4. CASE m # n
      <4>1. rows'[m] = rows[m] /\ (m \in queue => m \in queue')
        BY <3>1, <3>2, <3>4
      <4>2. ~Indexing(m)
        BY <3>4, <3>6
      <4> QED BY <1>0, <1>1, <3>1, <4>1, <4>2 DEF Expired
    <3>5. CASE m = n
      <4>1. rows'[m] = file
        BY <3>1, <3>2, <3>5
      <4>2. Expired(rows[m])' <=> Expired(file)
        BY <3>1, <4>1 DEF Expired
      <4>3. files[m] = file \/ m \in lost'
        BY <3>1, <3>5
      <4>4. Expired(rows[m]) => Expired(rows[m])' \/ m \in renewed'
        BY <3>3, <3>5, <4>2
      <4>5. Expired(file) \/ m \in queue' \/ state[m] = file.body
        BY <3>1, <3>5
      <4> QED BY <1>0, <1>1, <3>1, <4>1, <4>2, <4>3, <4>4, <4>5
    <3> QED BY <3>4, <3>5
  <2>8. CASE Tick
    <3>1. UNCHANGED <<files, rows, vectors, state, queue, pipe>> /\ now' = now + 1 /\ now \in Nat
      BY <2>8, Constants DEF Tick, TypeInv, StoreTyped
    <3>2. \A m \in Memories : Expired(rows[m]) => Expired(rows[m])'
      <4>1. \A m \in Memories : rows[m].until \in Nat
        BY Constants DEF TypeInv, StoreTyped, AnyFile
      <4> QED BY <3>1, <4>1 DEF Expired
    <3> QED BY <1>0, <1>1, <3>1, <3>2 DEF Indexing
  <2>9. CASE \E n \in Memories : Embed(n)
    <3>1. PICK n \in Memories : Embed(n)
      BY <2>9
    <3>2. UNCHANGED <<files, rows, now, pipe>> /\ queue' = queue \ {n}
          /\ vectors' = [vectors EXCEPT ![n] = files[n].body]
          /\ state' = [state EXCEPT ![n] = files[n].body]
      BY <3>1 DEF Embed
    <3>3. vectors \in [Memories -> AnyBody] /\ state \in [Memories -> AnyBody]
      BY DEF TypeInv, StoreTyped
    <3> QED BY <1>0, <1>1, <3>2, <3>3 DEF Expired, Indexing
  <2>10. CASE \E r \in Live : Process(r)
    <3>1. PICK r \in Live : Process(r)
      BY <2>10
    <3>2. UNCHANGED <<files, rows, vectors, state, queue, now>> /\ pipe.pc = "idle"
          /\ pipe'.pc # "index"
      BY <3>1, PipeStarts
    <3> QED BY <1>0, <1>1, <3>2 DEF Expired, Indexing
  <2> HIDE DEF OK, Gone
  <2> QED BY <2>1, <2>2, <2>3, <2>4, <2>5, <2>6, <2>7, <2>8, <2>9, <2>10, Writers
<1>3. command'.tool = "strip" => \A m \in command'.groups : Expired(rows[m])' \/ m \in renewed'
  BY <1>2, VectorStrip
<1> QED BY <1>2, <1>3 DEF VectorInv

\* VisibleIsEmbedded: what search shows and nothing is to be done for has the vectors
\* of its text, though find_expired_with_vectors is read before strip_vectors runs and
\* embed_state is left behind, but for a memory that a new verdict brought back.
THEOREM VisibleHasVectors == Spec => []VisibleIsEmbedded
<1>1. Init => VectorInv
  <2> SUFFICES ASSUME Init PROVE VectorInv
    OBVIOUS
  <2>1. rows = files /\ vectors = [m \in Memories |-> files[m].body] /\ state = vectors
        /\ command.tool = "none"
    BY DEF Init, AtRest
  <2> QED BY <2>1 DEF VectorInv
<1>2. TypeInv /\ VectorInv /\ [Next]_vars /\ TypeInv' => VectorInv'
  BY VectorStep
<1>3. VectorInv => VisibleIsEmbedded
  BY DEF VectorInv, VisibleIsEmbedded, Visible, Indexing
<1>4. Spec => []VectorInv
  BY <1>1, <1>2, AlwaysTyped, PTL DEF Spec
<1> QED BY <1>3, <1>4, PTL

-----------------------------------------------------------------------------
(* Plans *)

Members(entry) == entry.losers \cup {entry.winner}

\* A memory is in one entry, as a winner or as a loser.
Separate(entries) ==
  /\ \A e \in entries : e.winner \notin e.losers
  /\ \A e, f \in entries : e # f => Members(e) \cap Members(f) = {}

Duplicates == command.tool \in {"retro", "phase1"}

\* The job in hand, until it has written its file.
InHand == {j \in {command.job} : command.pc = "write"}

Pending == command.jobs \cup InHand

JobsOK ==
  /\ Duplicates /\ command.pc \in {"jobs", "write", "index", "log"} =>
       /\ \A j \in Pending : j.winner \in Memories /\ j.memory # j.winner
       /\ \A j \in Pending, e \in command.groups : Members(e) \cap {j.memory, j.winner} = {}
       /\ \A j, k \in Pending : j.winner = k.winner
       /\ \A j, k \in command.jobs : j.memory = k.memory => j = k
       /\ command.pc = "write" => \A j \in command.jobs : j.memory # command.job.memory
  /\ command.tool = "noise" => \A j \in Pending : j.winner = NoMemory
  /\ command.pc \in {"write", "index"} =>
       \/ Duplicates /\ command.job.winner \in Memories
                     /\ command.job.file.by = command.job.winner
       \/ command.tool = "noise" /\ command.job.winner = NoMemory

PlanInv ==
  /\ Separate(manifest)
  /\ Duplicates => Separate(command.groups)
  /\ command.pc \in {"rest", "groups"} => command.jobs = {}
  /\ JobsOK

\* The command but for overtaken.
SameCommand ==
  UNCHANGED <<command.pc, command.tool, command.groups, command.jobs, command.job>>

LEMMA CommandMoves ==
  ASSUME TypeInv, [Next]_vars
  PROVE  \/ StartRetro \/ StartManifest \/ StartStrip \/ CommandStep \/ FailJob
         \/ MakeManifest
         \/ SameCommand /\ UNCHANGED <<manifest, failed, misled>>
<1>1. CASE PipeWrite \/ PipeIndex
  BY <1>1, Overtaken DEF PipeWrite, PipeIndex, Apart, TypeInv, SameCommand
<1>2. CASE UNCHANGED vars \/ Tick
  BY <1>2 DEF vars, Tick, SameCommand
<1>3. CASE (\E r \in Live : Process(r) \/ \E b \in Bodies : Edit(r, b))
           \/ \E m \in Memories : Embed(m) \/ Bump(m)
  BY <1>3 DEF Process, Edit, Embed, Bump, Apart, SameCommand
<1> QED BY <1>1, <1>2, <1>3 DEF Next

\* Groups of one body, or of one source and body, have no memory in common.
LEMMA PlansSeparate ==
  ASSUME StoreTyped, NEW plan, plan \subseteq Collisions \/ plan \subseteq SameSource
  PROVE  Separate({Entry(group) : group \in plan})
<1>1. \A g \in plan : g \subseteq Memories /\ Members(Entry(g)) = g
                      /\ Entry(g).winner \notin Entry(g).losers
  <2> TAKE g \in plan
  <2>1. g \subseteq Memories /\ g # {}
    BY GroupFacts
  <2>2. Entry(g).winner \in g /\ Entry(g).losers = g \ {Entry(g).winner}
    BY <2>1, EntryFacts
  <2> QED BY <2>1, <2>2 DEF Members
<1>2. \A g, h \in plan : g \cap h # {} => g = h
  <2>1. CASE plan \subseteq Collisions
    BY <2>1 DEF Collisions
  <2>2. CASE plan \subseteq SameSource
    <3> TAKE g \in plan, h \in plan
    <3>1. PICK r \in Refs, b \in Bodies : g = {m \in Plannable : Origin[m] = r /\ files[m].body = b}
      BY <2>2 DEF SameSource
    <3>2. PICK q \in Refs, c \in Bodies : h = {m \in Plannable : Origin[m] = q /\ files[m].body = c}
      BY <2>2 DEF SameSource
    <3> QED BY <3>1, <3>2
  <2> QED BY <2>1, <2>2
<1>3. \A e \in {Entry(group) : group \in plan} : e.winner \notin e.losers
  BY <1>1
<1>4. ASSUME NEW e \in {Entry(group) : group \in plan},
             NEW f \in {Entry(group) : group \in plan}, e # f
      PROVE  Members(e) \cap Members(f) = {}
  <2>1. PICK g \in plan, h \in plan : e = Entry(g) /\ f = Entry(h)
    OBVIOUS
  <2>2. g # h
    BY <1>4, <2>1
  <2> QED BY <1>1, <1>2, <2>1, <2>2
<1> QED BY <1>3, <1>4 DEF Separate

\* What is left of a plan is a plan.
LEMMA PlanShrinks ==
  ASSUME NEW plan, Separate(plan), NEW rest \in SUBSET plan
  PROVE  Separate(rest)
BY DEF Separate

LEMMA PlanStarts ==
  ASSUME TypeInv, PlanInv, StartRetro \/ StartManifest \/ StartStrip
  PROVE  PlanInv'
<1>1. AtRest \in Command /\ AtRest.jobs = {} /\ AtRest.pc = "rest"
  BY Constants DEF AtRest
<1>2. CASE StartRetro \/ StartManifest
  <2>1. PICK tool \in {"retro", "phase1"}, plan \in SUBSET Entries :
               Started(tool, plan, "groups") /\ Separate(plan)
    <3>1. CASE StartRetro
      <4>1. Separate({Entry(group) : group \in Collisions})
        BY PlansSeparate DEF TypeInv
      <4>2. {Entry(group) : group \in Collisions} \subseteq Entries
        BY GroupFacts, EntryFacts DEF TypeInv
      <4> QED BY <3>1, <4>1, <4>2 DEF StartRetro
    <3>2. CASE StartManifest
      BY <3>2 DEF StartManifest, PlanInv, TypeInv
    <3> QED BY <1>2, <3>1, <3>2
  <2>2. command' = [AtRest EXCEPT !.pc = "groups", !.tool = tool, !.groups = plan] /\ manifest' = manifest
    BY <2>1 DEF Started
  <2>3. command'.pc = "groups" /\ command'.tool = tool /\ command'.groups = plan /\ command'.jobs = {}
    BY <1>1, <2>2 DEF Command
  <2> QED BY <2>1, <2>2, <2>3 DEF PlanInv, JobsOK, Pending, InHand, Duplicates
<1>3. CASE StartStrip
  <2>1. PICK plan : command' = [AtRest EXCEPT !.pc = "strip", !.tool = "strip", !.groups = plan]
                    /\ manifest' = manifest
    BY <1>3 DEF StartStrip, Started
  <2>2. command'.pc = "strip" /\ command'.tool = "strip" /\ command'.jobs = {}
    BY <1>1, <2>1 DEF Command
  <2> QED BY <2>1, <2>2 DEF PlanInv, JobsOK, Pending, InHand, Duplicates
<1> QED BY <1>2, <1>3

\* The jobs of an entry are those of its losers.
LEMMA EntryOpened ==
  ASSUME TypeInv, PlanInv, OpenGroup \/ (CheckGroup /\ command'.pc = "jobs")
  PROVE  \E entry \in command.groups :
           /\ command'.pc = "jobs" /\ command'.groups = command.groups \ {entry}
           /\ UNCHANGED <<command.tool, command.job>> /\ command'.overtaken \in {FALSE, command.overtaken}
           /\ entry \in Entries
           /\ \A j \in command'.jobs :
                j.memory \in entry.losers /\ j.winner = entry.winner /\ j.body = entry.body
           /\ \A j, k \in command'.jobs : j.memory = k.memory => j = k
           /\ OpenGroup => command.tool = "retro" /\ command'.overtaken = command.overtaken
           /\ CheckGroup => /\ command.tool = "phase1" /\ Checked(entry)
                            /\ files[entry.winner].by # NoMemory => entry.losers \subseteq misled'
                            /\ \A j \in command'.jobs : j.file = files[j.memory]
<1>0. command \in Command
  BY DEF TypeInv
<1>1. CASE OpenGroup
  <2>1. PICK entry \in command.groups :
          command' = [command EXCEPT !.pc = "jobs", !.groups = @ \ {entry},
                        !.jobs = {JobOf(entry, m) : m \in entry.losers}]
    BY <1>1 DEF OpenGroup
  <2> DEFINE jobs == {JobOf(entry, m) : m \in entry.losers}
  <2>2. entry \in Entries /\ command.tool = "retro"
    BY <1>1 DEF OpenGroup, TypeInv, ToolOK
  <2>3. ASSUME NEW m \in entry.losers
        PROVE  /\ JobOf(entry, m).memory = m /\ JobOf(entry, m).winner = entry.winner
               /\ JobOf(entry, m).body = entry.body
    <3>1. NoFile \in AnyFile /\ m \in Memories
      BY <2>2, Constants DEF Entries
    <3> QED BY <2>2, <3>1, JobFacts
  <2>4. command' = [command EXCEPT !.pc = "jobs", !.groups = @ \ {entry}, !.jobs = jobs]
    BY <2>1
  <2>5. /\ \A j \in jobs : j.memory \in entry.losers /\ j.winner = entry.winner /\ j.body = entry.body
        /\ \A j, k \in jobs : j.memory = k.memory => j = k
    BY <2>3
  <2>6. ~CheckGroup
    BY <2>2 DEF CheckGroup
  <2> HIDE DEF jobs
  <2>7. /\ command'.pc = "jobs" /\ command'.groups = command.groups \ {entry}
        /\ UNCHANGED <<command.tool, command.job>> /\ command'.overtaken = command.overtaken
        /\ command'.jobs = jobs
    BY <1>0, <2>4 DEF Command
  <2> QED BY <2>2, <2>5, <2>6, <2>7
<1>2. CASE CheckGroup /\ command'.pc = "jobs"
  <2>1. PICK entry \in command.groups :
          \/ /\ Checked(entry)
             /\ command' = [command EXCEPT !.pc = "jobs", !.groups = @ \ {entry},
                   !.overtaken = FALSE,
                   !.jobs = {[JobOf(entry, m) EXCEPT !.file = files[m]] : m \in entry.losers}]
             /\ misled' = IF files[entry.winner].by # NoMemory
                          THEN misled \cup entry.losers ELSE misled
          \/ command' = [command EXCEPT !.groups = @ \ {entry}]
    BY <1>2 DEF CheckGroup
  <2>2. entry \in Entries /\ command.tool = "phase1" /\ command.pc = "groups"
    BY <1>2 DEF CheckGroup, TypeInv, ToolOK
  <2>3. ~ (command' = [command EXCEPT !.groups = @ \ {entry}])
    BY <1>0, <1>2, <2>2 DEF Command
  <2> DEFINE Checks(m) == [JobOf(entry, m) EXCEPT !.file = files[m]]
             jobs == {Checks(m) : m \in entry.losers}
  <2>4. ASSUME NEW m \in entry.losers
        PROVE  /\ Checks(m).memory = m /\ Checks(m).winner = entry.winner
               /\ Checks(m).body = entry.body /\ Checks(m).file = files[m]
    <3>1. m \in Memories /\ files[m] \in AnyFile
      BY <2>2 DEF Entries, TypeInv, StoreTyped
    <3>2. entry \in Entries
      BY <2>2
    <3>3. /\ JobOf(entry, m) \in AnyJob /\ JobOf(entry, m).memory = m
          /\ JobOf(entry, m).winner = entry.winner /\ JobOf(entry, m).body = entry.body
      BY <3>1, <3>2, JobFacts
    <3> QED BY <3>1, <3>3 DEF AnyJob
  <2>5. command' = [command EXCEPT !.pc = "jobs", !.groups = @ \ {entry}, !.overtaken = FALSE, !.jobs = jobs]
    BY <2>1, <2>3
  <2>6. /\ \A j \in jobs : /\ j.memory \in entry.losers /\ j.winner = entry.winner /\ j.body = entry.body
                           /\ j.file = files[j.memory]
        /\ \A j, k \in jobs : j.memory = k.memory => j = k
    <3> HIDE DEF Checks
    <3> QED BY <2>4
  <2>7. ~OpenGroup
    BY <2>2 DEF OpenGroup
  <2>8. Checked(entry) /\ (files[entry.winner].by # NoMemory => entry.losers \subseteq misled')
    BY <2>1, <2>3
  <2> HIDE DEF jobs
  <2>9. /\ command'.pc = "jobs" /\ command'.groups = command.groups \ {entry}
        /\ UNCHANGED <<command.tool, command.job>> /\ command'.overtaken = FALSE
        /\ command'.jobs = jobs
    BY <1>0, <2>5 DEF Command
  <2> QED BY <2>2, <2>6, <2>7, <2>8, <2>9
<1> QED BY <1>1, <1>2

\* A job that is taken keeps its parts, and rewrites the file it has or reads.
LEMMA JobTaken ==
  ASSUME TypeInv, TakeJob
  PROVE  /\ command.pc = "jobs" /\ command'.pc = "write"
         /\ UNCHANGED <<command.tool, command.groups, command.overtaken>>
         /\ \E job \in command.jobs, file \in AnyFile :
              /\ command'.jobs = command.jobs \ {job}
              /\ file = IF command.tool = "phase1" THEN job.file ELSE files[job.memory]
              /\ command'.job.memory = job.memory /\ command'.job.winner = job.winner
              /\ command'.job.body = job.body /\ command'.job.file.body = file.body
              /\ job.winner # NoMemory => command'.job.file.by = job.winner
              /\ job.winner = NoMemory => command'.job.file.by = file.by
<1>1. PICK job \in command.jobs :
        LET file == IF command.tool = "phase1" THEN job.file ELSE files[job.memory] IN
        command' = [command EXCEPT !.pc = "write", !.jobs = @ \ {job},
                      !.job = [job EXCEPT !.file = Rewritten(file, job)]]
  BY DEF TakeJob
<1> DEFINE file == IF command.tool = "phase1" THEN job.file ELSE files[job.memory]
           next == [job EXCEPT !.file = Rewritten(file, job)]
<1>2. job \in AnyJob /\ command \in Command
  BY DEF TypeInv, Command
<1>3. file \in AnyFile
  BY <1>2 DEF AnyJob, TypeInv, StoreTyped
<1>4. /\ Rewritten(file, job) \in AnyFile /\ Rewritten(file, job).body = file.body
      /\ job.winner # NoMemory => Rewritten(file, job).by = job.winner
      /\ job.winner = NoMemory => Rewritten(file, job).by = file.by
  BY <1>2, <1>3, RewrittenFacts
<1>5. /\ next.memory = job.memory /\ next.winner = job.winner /\ next.body = job.body
      /\ next.file = Rewritten(file, job)
  BY <1>2, <1>4 DEF AnyJob
<1>6. command' = [command EXCEPT !.pc = "write", !.jobs = @ \ {job}, !.job = next]
  BY <1>1
<1>7. command.pc = "jobs"
  BY DEF TakeJob
<1>8. file = IF command.tool = "phase1" THEN job.file ELSE files[job.memory]
  OBVIOUS
<1> HIDE DEF next, file
<1>9. /\ command'.pc = "write" /\ command'.jobs = command.jobs \ {job} /\ command'.job = next
      /\ UNCHANGED <<command.tool, command.groups, command.overtaken>>
  BY <1>2, <1>6 DEF Command
<1> QED BY <1>3, <1>4, <1>5, <1>7, <1>8, <1>9

\* A job goes from its file to its row and its record, or fails.
LEMMA JobGoes ==
  ASSUME TypeInv, WriteJob \/ IndexJob \/ LogJob \/ FailJob
  PROVE  /\ UNCHANGED <<command.tool, command.groups, command.jobs, command.job, command.overtaken>>
         /\ WriteJob => command.pc = "write" /\ command'.pc = "index"
         /\ ~WriteJob => command'.pc \in {"jobs", "log"}
<1> command \in Command
  BY DEF TypeInv
<1>1. CASE WriteJob
  BY <1>1 DEF WriteJob, Command
<1>2. CASE IndexJob
  <2>1. \E pc \in {"jobs", "log"} : command' = [command EXCEPT !.pc = pc]
    BY <1>2 DEF IndexJob
  <2>2. ~WriteJob
    BY <1>2 DEF IndexJob, WriteJob
  <2> QED BY <2>1, <2>2 DEF Command
<1>3. CASE LogJob \/ FailJob
  <2>1. command' = [command EXCEPT !.pc = "jobs"]
    BY <1>3 DEF LogJob, FailJob
  <2>2. ~WriteJob
    BY <2>1 DEF WriteJob, Command
  <2> QED BY <2>1, <2>2 DEF Command
<1> QED BY <1>1, <1>2, <1>3

\* The clean-up of noise takes over with jobs of its own.
LEMMA NoisePlanned ==
  ASSUME TypeInv, PlanNoise
  PROVE  /\ command'.pc = "jobs" /\ command'.tool = "noise" /\ command'.groups = {}
         /\ \A j \in command'.jobs : j.memory \in NoiseHits /\ j.winner = NoMemory
<1> DEFINE Marked(m) == [NoJob EXCEPT !.memory = m,
                                      !.until = Until(Verdict(files[m].body, FALSE))]
           jobs == {Marked(m) : m \in NoiseHits}
<1>1. \A m \in NoiseHits : Marked(m).memory = m /\ Marked(m).winner = NoMemory
  BY DEF NoJob
<1>2. \A j \in jobs : j.memory \in NoiseHits /\ j.winner = NoMemory
  <2> HIDE DEF Marked
  <2> QED BY <1>1
<1>3. command' = [AtRest EXCEPT !.pc = "jobs", !.tool = "noise", !.jobs = jobs]
  BY DEF PlanNoise
<1>4. AtRest \in Command /\ AtRest.groups = {}
  BY Constants DEF AtRest
<1> HIDE DEF jobs
<1> QED BY <1>2, <1>3, <1>4 DEF Command

\* The rest of the command's steps.
LEMMA GroupGoes ==
  ASSUME TypeInv, Ticket \/ CloseGroup \/ Strip \/ Finish \/ (CheckGroup /\ command'.pc # "jobs")
  PROVE  /\ Finish => command'.pc = "rest" /\ command'.tool = "none" /\ command'.jobs = {}
         /\ ~Finish => /\ command'.groups \subseteq command.groups
                       /\ UNCHANGED <<command.tool, command.jobs, command.job, command.overtaken>>
                       /\ command'.pc \in {"groups", "strip"}
                       /\ command'.pc = "groups" => command.jobs = {} \/ command.pc = "groups"
                       /\ command'.pc = "strip" => command.pc = "strip"
<1>0. command \in Command /\ AtRest \in Command /\ AtRest.pc = "rest" /\ AtRest.tool = "none" /\ AtRest.jobs = {}
  BY Constants DEF TypeInv, AtRest
<1>1. CASE Ticket \/ Strip
  BY <1>0, <1>1 DEF Ticket, Strip, Finish, Command
<1>2. CASE CloseGroup
  BY <1>0, <1>2 DEF CloseGroup, Finish, Command
<1>3. CASE Finish
  BY <1>0, <1>3 DEF Finish
<1>4. CASE CheckGroup /\ command'.pc # "jobs"
  <2>1. PICK entry \in command.groups : \E jobs :
          \/ command' = [command EXCEPT !.pc = "jobs", !.groups = @ \ {entry},
                           !.overtaken = FALSE, !.jobs = jobs]
          \/ command' = [command EXCEPT !.groups = @ \ {entry}]
    BY <1>4 DEF CheckGroup
  <2>2. command' = [command EXCEPT !.groups = @ \ {entry}]
    BY <1>0, <1>4, <2>1 DEF Command
  <2>3. command.pc = "groups"
    BY <1>4 DEF CheckGroup
  <2> QED BY <1>0, <1>4, <2>2, <2>3 DEF Command, Finish
<1> QED BY <1>1, <1>2, <1>3, <1>4

LEMMA PlanStep ==
  ASSUME TypeInv, PlanInv, [Next]_vars
  PROVE  PlanInv'
<1>1. CASE SameCommand /\ UNCHANGED manifest
  BY <1>1 DEF SameCommand, PlanInv, JobsOK, Pending, InHand, Duplicates
<1>2. CASE MakeManifest
  <2>1. manifest' = Selected /\ UNCHANGED command
    BY <1>2 DEF MakeManifest
  <2>2. Separate(Selected)
    BY PlansSeparate DEF Selected, TypeInv
  <2> QED BY <2>1, <2>2 DEF PlanInv, JobsOK, Pending, InHand, Duplicates
<1>3. CASE StartRetro \/ StartManifest \/ StartStrip
  BY <1>3, PlanStarts
<1>4. CASE OpenGroup \/ (CheckGroup /\ command'.pc = "jobs")
  <2>1. PICK entry \in command.groups :
           /\ command'.pc = "jobs" /\ command'.groups = command.groups \ {entry}
           /\ UNCHANGED <<command.tool, command.job>>
           /\ entry \in Entries
           /\ \A j \in command'.jobs : j.memory \in entry.losers /\ j.winner = entry.winner
           /\ \A j, k \in command'.jobs : j.memory = k.memory => j = k
    BY <1>4, EntryOpened
  <2>2. Duplicates /\ manifest' = manifest
    BY <1>4 DEF OpenGroup, CheckGroup, Duplicates
  <2>3. Separate(command.groups) /\ Separate(command'.groups)
    BY <2>1, <2>2, PlanShrinks DEF PlanInv
  <2>4. \A j \in command'.jobs : j.winner \in Memories /\ j.memory # j.winner
                                  /\ {j.memory, j.winner} \subseteq Members(entry)
    BY <2>1, <2>3 DEF Separate, Members, Entries
  <2>5. \A e \in command'.groups : Members(e) \cap Members(entry) = {}
    BY <2>1, <2>3 DEF Separate
  <2>6. Pending' = command'.jobs
    BY <2>1 DEF Pending, InHand
  <2>7. command.tool # "noise" /\ Duplicates'
    BY <2>1, <2>2 DEF Duplicates
  <2>8. \A j \in command'.jobs, e \in command'.groups : Members(e) \cap {j.memory, j.winner} = {}
    BY <2>4, <2>5
  <2>9. JobsOK'
    BY <2>1, <2>4, <2>6, <2>7, <2>8 DEF JobsOK
  <2> QED BY <2>1, <2>2, <2>3, <2>7, <2>9 DEF PlanInv
<1>5. CASE PlanNoise
  <2>1. Pending' = command'.jobs /\ ~Duplicates'
    BY <1>5, NoisePlanned DEF Pending, InHand, Duplicates
  <2>2. manifest' = manifest
    BY <1>5 DEF PlanNoise
  <2> QED BY <1>5, <2>1, <2>2, NoisePlanned DEF PlanInv, JobsOK
<1>6. CASE TakeJob
  <2>1. PICK job \in command.jobs :
              /\ command'.jobs = command.jobs \ {job}
              /\ command'.job.memory = job.memory /\ command'.job.winner = job.winner
              /\ job.winner # NoMemory => command'.job.file.by = job.winner
    BY <1>6, JobTaken
  <2>2. command.pc = "jobs" /\ command'.pc = "write" /\ manifest' = manifest
        /\ UNCHANGED <<command.tool, command.groups>>
    BY <1>6, JobTaken DEF TakeJob
  <2>3. Pending = command.jobs /\ Pending' = command'.jobs \cup {command'.job}
    BY <2>2 DEF Pending, InHand
  <2>4. \A j \in Pending' : \E k \in Pending : j.memory = k.memory /\ j.winner = k.winner
    BY <2>1, <2>3
  <2>5. command.tool \in {"retro", "phase1", "noise"} /\ NoMemory \notin Memories
    BY <2>2, Constants DEF TypeInv, ToolOK
  <2>6. CASE Duplicates
    <3>1. /\ \A j \in Pending : j.winner \in Memories /\ j.memory # j.winner
          /\ \A j \in Pending, e \in command.groups : Members(e) \cap {j.memory, j.winner} = {}
          /\ \A j, k \in Pending : j.winner = k.winner
          /\ \A j, k \in command.jobs : j.memory = k.memory => j = k
      BY <2>2, <2>6 DEF PlanInv, JobsOK
    <3>2. /\ \A j \in Pending' : j.winner \in Memories /\ j.memory # j.winner
          /\ \A j \in Pending', e \in command'.groups : Members(e) \cap {j.memory, j.winner} = {}
          /\ \A j, k \in Pending' : j.winner = k.winner
      <4>1. command'.groups = command.groups
        BY <2>2
      <4>2. ASSUME NEW j \in Pending', NEW k \in Pending' PROVE j.winner = k.winner
        BY <2>4, <3>1
      <4>3. ASSUME NEW j \in Pending'
            PROVE  /\ j.winner \in Memories /\ j.memory # j.winner
                   /\ \A e \in command'.groups : Members(e) \cap {j.memory, j.winner} = {}
        <5>1. PICK k \in Pending : j.memory = k.memory /\ j.winner = k.winner
          BY <2>4
        <5> QED BY <3>1, <4>1, <5>1
      <4> QED BY <4>2, <4>3
    <3>3. /\ \A j, k \in command'.jobs : j.memory = k.memory => j = k
          /\ \A j \in command'.jobs : j.memory # command'.job.memory
      BY <2>1, <3>1
    <3>4. command'.job.winner \in Memories /\ command'.job.file.by = command'.job.winner
      BY <2>1, <2>3, <2>5, <3>1
    <3>5. command.tool # "noise" /\ Duplicates'
      BY <2>2, <2>6 DEF Duplicates
    <3> QED BY <2>2, <2>6, <3>2, <3>3, <3>4, <3>5 DEF PlanInv, JobsOK
  <2>7. CASE command.tool = "noise"
    <3>1. \A j \in Pending' : j.winner = NoMemory
      BY <2>4, <2>7 DEF PlanInv, JobsOK
    <3>2. command'.job.winner = NoMemory /\ ~Duplicates' /\ command'.tool = "noise"
      BY <2>2, <2>3, <2>7, <3>1 DEF Duplicates
    <3> QED BY <2>2, <3>1, <3>2 DEF PlanInv, JobsOK
  <2> QED BY <2>5, <2>6, <2>7 DEF Duplicates
<1>7. CASE WriteJob \/ IndexJob \/ LogJob \/ FailJob
  <2>1. Pending' \subseteq Pending /\ Pending' = command'.jobs
    BY <1>7, JobGoes DEF Pending, InHand
  <2>2. manifest' = manifest /\ command.pc \in {"write", "index", "log"}
    BY <1>7 DEF WriteJob, IndexJob, LogJob, FailJob
  <2>3. /\ UNCHANGED <<command.tool, command.groups, command.jobs, command.job>>
        /\ command'.pc \in {"index", "jobs", "log"} /\ (command'.pc = "index" => command.pc = "write")
    BY <1>7, JobGoes
  <2>4. Duplicates' = Duplicates
    BY <2>3 DEF Duplicates
  <2> QED BY <2>1, <2>2, <2>3, <2>4 DEF PlanInv, JobsOK
<1>8. CASE Ticket \/ CloseGroup \/ Strip \/ Finish \/ (CheckGroup /\ command'.pc # "jobs")
  <2>1. manifest' = manifest
    BY <1>8 DEF Ticket, CloseGroup, Strip, Finish, CheckGroup
  <2>2. CASE Finish
    <3>1. /\ Pending' = {} /\ ~Duplicates'
          /\ command'.pc = "rest" /\ command'.tool = "none" /\ command'.jobs = {}
      BY <2>2, GroupGoes DEF Pending, InHand, Duplicates
    <3> QED BY <2>1, <3>1 DEF PlanInv, JobsOK
  <2>3. CASE ~Finish
    <3>1. /\ command'.groups \subseteq command.groups
          /\ UNCHANGED <<command.tool, command.jobs, command.job>>
          /\ command'.pc \in {"groups", "strip"}
          /\ command'.pc = "groups" => command.jobs = {} \/ command.pc = "groups"
          /\ command'.pc = "strip" => command.pc = "strip"
      BY <1>8, <2>3, GroupGoes
    <3>2. Pending' \subseteq Pending
      BY <3>1 DEF Pending, InHand
    <3>3. (Duplicates => Separate(command'.groups)) /\ (Duplicates' <=> Duplicates)
      BY <3>1, PlanShrinks DEF PlanInv, Duplicates
    <3> QED BY <2>1, <3>1, <3>2, <3>3 DEF PlanInv, JobsOK
  <2> QED BY <2>2, <2>3
<1> QED
  BY <1>1, <1>2, <1>3, <1>4, <1>5, <1>6, <1>7, <1>8, CommandMoves DEF CommandStep

LEMMA PlanInit == Init => PlanInv
<1> SUFFICES ASSUME Init PROVE PlanInv
  OBVIOUS
<1>1. command = AtRest /\ manifest = {}
  BY DEF Init
<1>2. command.pc = "rest" /\ command.tool = "none" /\ command.jobs = {}
  BY <1>1 DEF AtRest
<1> QED BY <1>1, <1>2 DEF PlanInv, JobsOK, Pending, InHand, Duplicates, Separate

-----------------------------------------------------------------------------
(* A survivor remains *)

Excused == misled \cup failed \cup lost

Survives(m) == files[m].by = NoMemory \/ m \in Excused

SurvivorInv ==
  /\ \A m \in Memories :
       files[m].by # NoMemory =>
         \/ rows[m].by # NoMemory \/ m \in Excused
         \/ Duplicates /\ command.pc = "index" /\ command.job.memory = m
  /\ pipe.pc = "write" => \/ pipe.file.by \in {NoMemory, files[pipe.memory].by}
                          \/ pipe.memory \in Excused
  /\ command.tool = "retro" => \A e \in command.groups : \A m \in Members(e) : Survives(m)
  /\ Duplicates => \A j \in Pending : /\ Survives(j.memory)
                                      /\ Survives(j.winner) \/ j.memory \in misled
  /\ command.tool = "noise" =>
       /\ \A j \in Pending : Survives(j.memory)
       /\ command.pc = "write" =>
            command.job.file.by = NoMemory \/ command.job.memory \in Excused
       /\ command.pc = "index" => Survives(command.job.memory)
  /\ SurvivorRemains

\* The part of SurvivorInv a step has to keep beside SurvivorRemains.
RowHides(m) ==
  files[m].by # NoMemory =>
    \/ rows[m].by # NoMemory \/ m \in Excused
    \/ Duplicates /\ command.pc = "index" /\ command.job.memory = m

PipeHides ==
  pipe.pc = "write" => \/ pipe.file.by \in {NoMemory, files[pipe.memory].by}
                       \/ pipe.memory \in Excused

CommandHides ==
  /\ command.tool = "retro" => \A e \in command.groups : \A m \in Members(e) : Survives(m)
  /\ Duplicates => \A j \in Pending : /\ Survives(j.memory)
                                      /\ Survives(j.winner) \/ j.memory \in misled
  /\ command.tool = "noise" =>
       /\ \A j \in Pending : Survives(j.memory)
       /\ command.pc = "write" =>
            command.job.file.by = NoMemory \/ command.job.memory \in Excused
       /\ command.pc = "index" => Survives(command.job.memory)

LEMMA SurvivorParts ==
  SurvivorInv <=> (\A m \in Memories : RowHides(m)) /\ PipeHides /\ CommandHides /\ SurvivorRemains
BY DEF SurvivorInv, RowHides, PipeHides, CommandHides

\* What is hidden stays hidden for the same one, comes back, or is on record: then a
\* survivor remains.
LEMMA HiddenLess ==
  ASSUME SurvivorRemains, Excused \subseteq Excused',
         \A m \in Memories : \/ files'[m].by = files[m].by \/ files'[m].by = NoMemory
                             \/ m \in Excused'
  PROVE  SurvivorRemains'
<1> SUFFICES ASSUME NEW hidden \in (SUBSET Memories) \ {{}},
                    \A m \in hidden : files'[m].by \in hidden /\ m \notin Excused'
             PROVE  FALSE
  BY DEF SurvivorRemains, Excused
<1>1. \A m \in hidden : files[m].by \in hidden /\ m \notin Excused
  BY Constants
<1> QED BY <1>1 DEF SurvivorRemains, Excused

\* One more is hidden, for a memory that is not: a survivor remains.
LEMMA HiddenOneMore ==
  ASSUME SurvivorRemains, Excused \subseteq Excused', NEW n \in Memories, NEW w \in Memories, n # w,
         Survives(w) \/ n \in Excused,
         files'[n].by = w,
         \A m \in Memories \ {n} : files'[m].by = files[m].by
  PROVE  SurvivorRemains'
<1> SUFFICES ASSUME NEW hidden \in (SUBSET Memories) \ {{}},
                    \A m \in hidden : files'[m].by \in hidden /\ m \notin Excused'
             PROVE  FALSE
  BY DEF SurvivorRemains, Excused
<1>1. CASE n \notin hidden
  <2>1. \A m \in hidden : files[m].by \in hidden /\ m \notin Excused
    BY <1>1
  <2> QED BY <2>1 DEF SurvivorRemains, Excused
<1>2. CASE n \in hidden
  <2>1. w \in hidden /\ w \notin Excused /\ n \notin Excused
    BY <1>2
  <2>2. files[w].by \in hidden
    BY <2>1
  <2>3. files[w].by # NoMemory
    BY <2>2, Constants
  <2> QED BY <2>1, <2>3 DEF Survives
<1> QED BY <1>1, <1>2

\* A memory that is plannable while no job is under way is not hidden, or on record.
LEMMA PlannableSurvives ==
  ASSUME SurvivorInv, NEW m \in Plannable, command.pc # "index" \/ ~Duplicates
  PROVE  Survives(m)
BY DEF SurvivorInv, Plannable, Survives

\* A step that leaves the files keeps what survives.
LEMMA SurvivesStill ==
  ASSUME UNCHANGED files, Excused \subseteq Excused'
  PROVE  \A m : Survives(m) => (files'[m].by = NoMemory \/ m \in Excused')
BY DEF Survives

LEMMA ExcusedGrows ==
  ASSUME [Next]_vars
  PROVE  Excused \subseteq Excused' /\ misled \subseteq misled'
BY RecordGrows DEF Excused

LEMMA SurvivorStart ==
  ASSUME TypeInv, PlanInv, SurvivorInv, [Next]_vars, StartRetro \/ StartManifest \/ StartStrip
  PROVE  SurvivorInv'
<1>0. Excused \subseteq Excused' /\ misled \subseteq misled'
  BY ExcusedGrows
<1>1. UNCHANGED <<files, rows, pipe>> /\ command.pc = "rest"
  BY DEF StartRetro, StartManifest, StartStrip, Started, Beside, Stores
<1>2. SurvivorRemains'
  BY <1>0, <1>1, HiddenLess DEF SurvivorInv
<1>3. \A m \in Memories : RowHides(m)'
  BY <1>0, <1>1 DEF SurvivorInv, RowHides
<1>4. PipeHides'
  BY <1>0, <1>1 DEF SurvivorInv, PipeHides
<1>4a. PICK tool \in {"retro", "phase1", "strip"}, pc \in {"groups", "strip"} : \E plan :
        /\ command' = [AtRest EXCEPT !.pc = pc, !.tool = tool, !.groups = plan]
        /\ tool = "retro" => plan = {Entry(group) : group \in Collisions}
  <2>1. CASE StartRetro
    BY <2>1 DEF StartRetro, Started
  <2>2. CASE StartManifest
    BY <2>2 DEF StartManifest, Started
  <2>3. CASE StartStrip
    BY <2>3 DEF StartStrip, Started
  <2> QED BY <2>1, <2>2, <2>3
<1>5. PICK plan :
        /\ command' = [AtRest EXCEPT !.pc = pc, !.tool = tool, !.groups = plan]
        /\ tool = "retro" => plan = {Entry(group) : group \in Collisions}
  BY <1>4a
<1>6. AtRest \in Command /\ AtRest.jobs = {}
  BY Constants DEF AtRest
<1>7. command'.pc = pc /\ command'.tool = tool /\ command'.groups = plan /\ command'.jobs = {}
  BY <1>5, <1>6 DEF Command
<1>8. Pending' = {} /\ command'.tool # "noise"
  BY <1>7 DEF Pending, InHand
<1>9. command'.tool = "retro" => \A e \in command'.groups : \A m \in Members(e) : Survives(m)'
  <2> SUFFICES ASSUME tool = "retro" PROVE \A e \in plan : \A m \in Members(e) : Survives(m)'
    BY <1>7
  <2>1. ASSUME NEW group \in Collisions PROVE \A m \in Members(Entry(group)) : Survives(m)'
    <3>1. group \subseteq Plannable /\ group \subseteq Memories /\ group # {}
      BY GroupFacts
    <3>2. Members(Entry(group)) \subseteq group
      BY <3>1, EntryFacts DEF Members, TypeInv
    <3>3. \A m \in group : Survives(m)
      BY <1>1, <3>1, PlannableSurvives
    <3> QED BY <1>0, <1>1, <3>2, <3>3 DEF Survives
  <2> QED BY <1>5, <2>1
<1>10. CommandHides'
  BY <1>8, <1>9 DEF CommandHides
<1>11. (\A m \in Memories : RowHides(m)') /\ PipeHides' /\ CommandHides' /\ SurvivorRemains'
  BY <1>2, <1>3, <1>4, <1>10
<1> QED BY <1>11 DEF SurvivorInv, RowHides, PipeHides, CommandHides

LEMMA SurvivorPlans ==
  ASSUME TypeInv, PlanInv, SurvivorInv, [Next]_vars, Ticket \/ OpenGroup \/ CheckGroup
           \/ PlanNoise \/ Strip \/ Finish \/ CloseGroup \/ TakeJob
  PROVE  SurvivorInv'
<1>0. Excused \subseteq Excused' /\ misled \subseteq misled'
  BY ExcusedGrows
<1>1. UNCHANGED <<files, rows, pipe>> /\ command.pc # "index"
  BY DEF Ticket, OpenGroup, CheckGroup, PlanNoise, Strip, Finish, CloseGroup, TakeJob, Beside, Stores
<1>2. SurvivorRemains'
  BY <1>0, <1>1, HiddenLess DEF SurvivorInv
<1>3. \A m \in Memories : RowHides(m)'
  BY <1>0, <1>1 DEF SurvivorInv, RowHides
<1>4. PipeHides'
  BY <1>0, <1>1 DEF SurvivorInv, PipeHides
<1>5. \A m : Survives(m) => (files'[m].by = NoMemory \/ m \in Excused')
  BY <1>0, <1>1 DEF Survives
<1>6. CommandHides
  BY SurvivorParts
<1>7. CommandHides'
  <2>1. CASE OpenGroup
    <3>1. PICK entry \in command.groups :
             /\ command'.pc = "jobs" /\ command'.groups = command.groups \ {entry}
             /\ command'.tool = "retro" /\ command.tool = "retro"
             /\ entry \in Entries
             /\ \A j \in command'.jobs : j.memory \in entry.losers /\ j.winner = entry.winner
      BY <2>1, EntryOpened
    <3>2. Pending' = command'.jobs
      BY <3>1 DEF Pending, InHand
    <3>3. \A e \in command.groups : \A m \in Members(e) : Survives(m)
      BY <1>6, <3>1 DEF CommandHides
    <3>4. \A j \in command'.jobs : Survives(j.memory) /\ Survives(j.winner)
      BY <3>1, <3>3 DEF Members
    <3> QED BY <1>5, <3>1, <3>2, <3>3, <3>4 DEF CommandHides, Survives
  <2>2. CASE CheckGroup /\ command'.pc = "jobs"
    <3>1. PICK entry \in command.groups :
             /\ command'.pc = "jobs" /\ command'.tool = "phase1"
             /\ \A j \in command'.jobs : j.memory \in entry.losers /\ j.winner = entry.winner
             /\ Checked(entry)
             /\ files[entry.winner].by # NoMemory => entry.losers \subseteq misled'
      BY <2>2, EntryOpened
    <3>2. Pending' = command'.jobs
      BY <3>1 DEF Pending, InHand
    <3>3. \A j \in command'.jobs :
            /\ files[j.memory].by = NoMemory
            /\ files[j.winner].by = NoMemory \/ j.memory \in misled'
      BY <3>1 DEF Checked
    <3> QED BY <1>1, <3>1, <3>2, <3>3 DEF CommandHides, Survives
  <2>3. CASE PlanNoise
    <3>1. /\ command'.pc = "jobs" /\ command'.tool = "noise"
          /\ \A j \in command'.jobs : j.memory \in NoiseHits
      BY <2>3, NoisePlanned
    <3>2. Pending' = command'.jobs /\ ~Duplicates'
      BY <3>1 DEF Pending, InHand, Duplicates
    <3>3. \A j \in command'.jobs : Survives(j.memory)
      BY <1>1, <3>1, PlannableSurvives DEF NoiseHits
    <3> QED BY <1>5, <3>1, <3>2, <3>3 DEF CommandHides, Survives
  <2>4. CASE TakeJob
    <3>1. PICK job \in command.jobs, file \in AnyFile :
                /\ command'.jobs = command.jobs \ {job}
                /\ file = IF command.tool = "phase1" THEN job.file ELSE files[job.memory]
                /\ command'.job.memory = job.memory /\ command'.job.winner = job.winner
                /\ job.winner # NoMemory => command'.job.file.by = job.winner
                /\ job.winner = NoMemory => command'.job.file.by = file.by
      BY <2>4, JobTaken
    <3>2. command.pc = "jobs" /\ command'.pc = "write"
          /\ UNCHANGED <<command.tool, command.groups>>
      BY <2>4, JobTaken
    <3>3. Pending = command.jobs /\ Pending' = command'.jobs \cup {command'.job}
          /\ Duplicates' = Duplicates
      BY <3>2 DEF Pending, InHand, Duplicates
    <3>4. \A j \in Pending' : \E k \in Pending : j.memory = k.memory /\ j.winner = k.winner
      BY <3>1, <3>3
    <3>5. Duplicates' => \A j \in Pending' : /\ Survives(j.memory)
                                             /\ Survives(j.winner) \/ j.memory \in misled
      <4> SUFFICES ASSUME Duplicates', NEW j \in Pending'
                   PROVE  Survives(j.memory) /\ (Survives(j.winner) \/ j.memory \in misled)
        OBVIOUS
      <4>1. PICK k \in Pending : j.memory = k.memory /\ j.winner = k.winner
        BY <3>4
      <4> QED BY <1>6, <3>3, <4>1 DEF CommandHides
    <3>6. command'.tool = "noise" =>
            /\ \A j \in Pending' : Survives(j.memory)
            /\ command'.job.file.by = NoMemory \/ command'.job.memory \in Excused
      <4> SUFFICES ASSUME command.tool = "noise"
                   PROVE  /\ \A j \in Pending' : Survives(j.memory)
                          /\ command'.job.file.by = NoMemory \/ command'.job.memory \in Excused
        BY <3>2
      <4>1. \A k \in Pending : Survives(k.memory) /\ k.winner = NoMemory
        BY <1>6 DEF CommandHides, PlanInv, JobsOK
      <4>2. \A j \in Pending' : Survives(j.memory)
        BY <3>4, <4>1
      <4>3. job \in Pending
        BY <3>3
      <4>4. command'.job.file.by = files[job.memory].by
        BY <3>1, <4>1, <4>3
      <4>5. Survives(job.memory)
        BY <4>1, <4>3
      <4> QED BY <3>1, <4>2, <4>4, <4>5 DEF Survives
    <3>7. command'.tool = "retro" => \A e \in command'.groups : \A m \in Members(e) : Survives(m)
      BY <1>6, <3>2 DEF CommandHides
    <3> QED BY <1>0, <1>5, <3>2, <3>5, <3>6, <3>7 DEF CommandHides, Survives
  <2>5. CASE Ticket \/ CloseGroup \/ Strip \/ Finish \/ (CheckGroup /\ command'.pc # "jobs")
    <3>1. CASE Finish
      <4>1. Pending' = {} /\ ~Duplicates' /\ command'.tool = "none"
        BY <3>1, GroupGoes DEF Pending, InHand, Duplicates
      <4> QED BY <4>1 DEF CommandHides
    <3>2. CASE ~Finish
      <4>1. /\ command'.groups \subseteq command.groups
            /\ UNCHANGED <<command.tool, command.jobs, command.job>>
            /\ command'.pc \in {"groups", "strip"}
        BY <2>5, <3>2, GroupGoes
      <4>2. Pending' \subseteq Pending /\ Duplicates' = Duplicates
        BY <4>1 DEF Pending, InHand, Duplicates
      <4>3. command'.tool = "retro" => \A e \in command'.groups : \A m \in Members(e) : Survives(m)
        BY <1>6, <4>1 DEF CommandHides
      <4>4. Duplicates' => \A j \in Pending' : /\ Survives(j.memory)
                                               /\ Survives(j.winner) \/ j.memory \in misled
        BY <1>6, <4>2 DEF CommandHides
      <4>5. command'.tool = "noise" => \A j \in Pending' : Survives(j.memory)
        BY <1>6, <4>1, <4>2 DEF CommandHides
      <4> QED BY <1>0, <1>5, <4>1, <4>3, <4>4, <4>5 DEF CommandHides, Survives
    <3> QED BY <3>1, <3>2
  <2> QED BY <2>1, <2>2, <2>3, <2>4, <2>5
<1>8. (\A m \in Memories : RowHides(m)') /\ PipeHides' /\ CommandHides' /\ SurvivorRemains'
  BY <1>2, <1>3, <1>4, <1>7
<1> QED BY <1>8 DEF SurvivorInv, RowHides, PipeHides, CommandHides

LEMMA SurvivorWrite ==
  ASSUME TypeInv, PlanInv, SurvivorInv, [Next]_vars, WriteJob
  PROVE  SurvivorInv'
<1> DEFINE n == command.job.memory
           file == command.job.file
           w == command.job.winner
<1>0. Excused \subseteq Excused' /\ misled \subseteq misled' /\ misled \subseteq Excused
  BY ExcusedGrows DEF Excused
<1>1. /\ UNCHANGED <<rows, pipe>> /\ command.pc = "write"
      /\ files' = [files EXCEPT ![n] = file]
  BY DEF WriteJob, Beside
<1>2. /\ UNCHANGED <<command.tool, command.groups, command.jobs, command.job>>
      /\ command'.pc = "index"
  BY JobGoes
<1>3. n \in Memories /\ files \in [Memories -> AnyFile]
  BY DEF TypeInv, StoreTyped, Command, AnyJob
<1>4. files'[n] = file /\ \A m \in Memories \ {n} : files'[m] = files[m]
  BY <1>1, <1>3
<1>5. command.job \in Pending /\ Pending' = command.jobs /\ command.jobs \subseteq Pending
  BY <1>1, <1>2 DEF Pending, InHand
<1>6. CommandHides /\ PipeHides /\ \A m \in Memories : RowHides(m)
  BY SurvivorParts
<1>7. CASE Duplicates
  <2>1. w \in Memories /\ n # w /\ file.by = w /\ Duplicates'
    BY <1>1, <1>2, <1>5, <1>7 DEF PlanInv, JobsOK, Duplicates
  <2>2. Survives(n) /\ (Survives(w) \/ n \in misled)
    BY <1>5, <1>6, <1>7 DEF CommandHides
  <2>3. SurvivorRemains'
    <3>1. \A m \in Memories \ {n} : files'[m].by = files[m].by
      BY <1>4
    <3>2. files'[n].by = w /\ (Survives(w) \/ n \in Excused)
      BY <1>0, <1>4, <2>1, <2>2
    <3> HIDE DEF n, w
    <3> QED BY <1>0, <1>3, <2>1, <3>1, <3>2, HiddenOneMore DEF SurvivorInv
  <2>4. \A m \in Memories : RowHides(m)'
    <3> TAKE m \in Memories
    <3>1. CASE m = n
      BY <1>2, <2>1, <3>1 DEF RowHides
    <3>2. CASE m # n
      BY <1>0, <1>1, <1>4, <1>6, <3>2 DEF RowHides
    <3> QED BY <3>1, <3>2
  <2>5. PipeHides'
    <3>1. CASE pipe.memory = n
      BY <1>0, <1>1, <1>6, <2>2, <3>1 DEF PipeHides, Survives
    <3>2. CASE pipe.memory # n
      <4>1. pipe.memory \in Memories
        BY DEF TypeInv, Pipe
      <4> QED BY <1>0, <1>1, <1>4, <1>6, <3>2, <4>1 DEF PipeHides
    <3> QED BY <3>1, <3>2
  <2>6. CommandHides'
    <3>1. ASSUME NEW m \in Memories \ {n}, Survives(m) PROVE files'[m].by = NoMemory \/ m \in Excused'
      BY <1>0, <1>4, <3>1 DEF Survives
    <3>2. command.tool = "retro" => \A e \in command.groups : \A m \in Members(e) :
                                      m \in Memories \ {n} /\ Survives(m)
      <4> SUFFICES ASSUME command.tool = "retro", NEW e \in command.groups, NEW m \in Members(e)
                   PROVE  m \in Memories \ {n} /\ Survives(m)
        OBVIOUS
      <4>1. Members(e) \cap {n, w} = {}
        BY <1>1, <1>5, <1>7 DEF PlanInv, JobsOK
      <4>2. e \in Entries
        BY DEF TypeInv, ToolOK
      <4> QED BY <1>6, <4>1, <4>2 DEF CommandHides, Members, Entries
    <3>3. \A j \in command.jobs :
            /\ j.memory \in Memories \ {n} /\ j.winner \in Memories \ {n}
            /\ Survives(j.memory) /\ (Survives(j.winner) \/ j.memory \in misled)
      <4> TAKE j \in command.jobs
      <4>1. j.memory \in Memories /\ j \in Pending
        BY <1>5 DEF TypeInv, Command, AnyJob
      <4>2. j.winner = w /\ j.memory # n
        BY <1>1, <1>5, <1>7, <4>1 DEF PlanInv, JobsOK
      <4> QED BY <1>6, <1>7, <2>1, <4>1, <4>2 DEF CommandHides
    <3>4. command'.tool # "noise"
      BY <1>2, <1>7 DEF Duplicates
    <3> QED BY <1>0, <1>2, <1>5, <3>1, <3>2, <3>3, <3>4 DEF CommandHides, Survives
  <2>7. (\A m \in Memories : RowHides(m)') /\ PipeHides' /\ CommandHides' /\ SurvivorRemains'
    BY <2>3, <2>4, <2>5, <2>6
  <2> QED BY <2>7 DEF SurvivorInv, RowHides, PipeHides, CommandHides
<1>8. CASE ~Duplicates
  <2>1. command.tool = "noise"
    BY <1>1, <1>8 DEF TypeInv, ToolOK, Duplicates
  <2>2. Survives(n) /\ (file.by = NoMemory \/ n \in Excused)
    BY <1>1, <1>5, <1>6, <2>1 DEF CommandHides
  <2>3. \A m \in Memories : \/ files'[m].by = files[m].by \/ files'[m].by = NoMemory
                            \/ m \in Excused'
    BY <1>0, <1>4, <2>2
  <2>4. SurvivorRemains'
    BY <1>0, <2>3, HiddenLess DEF SurvivorInv
  <2>5. \A m \in Memories : RowHides(m)'
    BY <1>0, <1>1, <1>6, <2>3 DEF RowHides
  <2>6. PipeHides'
    <3>1. CASE pipe.memory = n
      BY <1>0, <1>1, <1>6, <2>2, <3>1 DEF PipeHides, Survives
    <3>2. CASE pipe.memory # n
      <4>1. pipe.memory \in Memories
        BY DEF TypeInv, Pipe
      <4> QED BY <1>0, <1>1, <1>4, <1>6, <3>2, <4>1 DEF PipeHides
    <3> QED BY <3>1, <3>2
  <2>7. CommandHides'
    <3>1. \A m \in Memories : Survives(m) => (files'[m].by = NoMemory \/ m \in Excused')
      BY <1>0, <2>3 DEF Survives
    <3>2. \A j \in command.jobs : j.memory \in Memories /\ Survives(j.memory)
      BY <1>5, <1>6, <2>1 DEF CommandHides, TypeInv, Command, AnyJob
    <3>3. command'.tool = "noise" /\ ~Duplicates'
      BY <1>2, <2>1 DEF Duplicates
    <3> QED BY <1>2, <1>3, <1>5, <2>2, <3>1, <3>2, <3>3 DEF CommandHides, Survives
  <2>8. (\A m \in Memories : RowHides(m)') /\ PipeHides' /\ CommandHides' /\ SurvivorRemains'
    BY <2>4, <2>5, <2>6, <2>7
  <2> QED BY <2>8 DEF SurvivorInv, RowHides, PipeHides, CommandHides
<1> QED BY <1>7, <1>8

LEMMA SurvivorJob ==
  ASSUME TypeInv, PlanInv, SurvivorInv, [Next]_vars, IndexJob \/ LogJob \/ FailJob
  PROVE  SurvivorInv'
<1> DEFINE n == command.job.memory
<1>0. Excused \subseteq Excused' /\ misled \subseteq misled'
  BY ExcusedGrows
<1>1. /\ UNCHANGED <<files, pipe>>
      /\ IndexJob => command.pc = "index" /\ rows' = [rows EXCEPT ![n] = command.job.file]
      /\ ~IndexJob => rows' = rows /\ (command.pc = "index" => n \in Excused')
  BY DEF IndexJob, LogJob, FailJob, Beside, Stores, Excused
<1>2. /\ UNCHANGED <<command.tool, command.groups, command.jobs, command.job>>
      /\ command'.pc \in {"jobs", "log"}
  <2>1. ~WriteJob
    <3>1. CASE LogJob \/ IndexJob
      BY <3>1 DEF WriteJob, LogJob, IndexJob
    <3>2. CASE FailJob
      BY <3>2 DEF WriteJob, FailJob, TypeInv, Command
    <3> QED BY <3>1, <3>2
  <2> QED BY <2>1, JobGoes
<1>3. Pending' \subseteq Pending /\ Duplicates' = Duplicates
  BY <1>2 DEF Pending, InHand, Duplicates
<1>4. CommandHides /\ PipeHides /\ \A m \in Memories : RowHides(m)
  BY SurvivorParts
<1>5. \A m : Survives(m) => (files'[m].by = NoMemory \/ m \in Excused')
  BY <1>0, <1>1 DEF Survives
<1>6. SurvivorRemains'
  BY <1>0, <1>1, HiddenLess DEF SurvivorInv
<1>7. \A m \in Memories : RowHides(m)'
  <2> TAKE m \in Memories
  <2>1. CASE IndexJob /\ m = n
    <3>1. rows'[m] = command.job.file
      BY <1>1, <2>1 DEF TypeInv, StoreTyped
    <3>2. CASE Duplicates
      BY <1>1, <2>1, <3>1, <3>2, Constants DEF RowHides, PlanInv, JobsOK, Duplicates
    <3>3. CASE ~Duplicates
      <4>1. Survives(m)
        BY <1>1, <1>4, <2>1, <3>3 DEF CommandHides, TypeInv, ToolOK, Duplicates
      <4> QED BY <1>5, <4>1 DEF RowHides
    <3> QED BY <3>2, <3>3
  <2>2. CASE IndexJob /\ m # n
    <3>1. rows'[m] = rows[m]
      BY <1>1, <2>2 DEF TypeInv, StoreTyped
    <3> QED BY <1>0, <1>1, <1>4, <2>2, <3>1 DEF RowHides
  <2>3. CASE ~IndexJob
    BY <1>0, <1>1, <1>4, <2>3 DEF RowHides
  <2> QED BY <2>1, <2>2, <2>3
<1>8. PipeHides'
  BY <1>0, <1>1, <1>4 DEF PipeHides
<1>9. CommandHides'
  <2>1. command'.tool = "retro" => \A e \in command'.groups : \A m \in Members(e) : Survives(m)
    BY <1>2, <1>4 DEF CommandHides
  <2>2. Duplicates' => \A j \in Pending' : /\ Survives(j.memory)
                                           /\ Survives(j.winner) \/ j.memory \in misled
    BY <1>3, <1>4 DEF CommandHides
  <2>3. command'.tool = "noise" => \A j \in Pending' : Survives(j.memory)
    BY <1>2, <1>3, <1>4 DEF CommandHides
  <2> QED BY <1>0, <1>2, <1>5, <2>1, <2>2, <2>3 DEF CommandHides, Survives
<1>10. (\A m \in Memories : RowHides(m)') /\ PipeHides' /\ CommandHides' /\ SurvivorRemains'
  BY <1>6, <1>7, <1>8, <1>9
<1> QED BY <1>10 DEF SurvivorInv, RowHides, PipeHides, CommandHides

LEMMA SurvivorRest ==
  ASSUME TypeInv, PlanInv, SurvivorInv, [Next]_vars, SameCommand, misled' = misled
  PROVE  SurvivorInv'
<1>0. Excused \subseteq Excused'
  BY ExcusedGrows
<1>1. CommandHides /\ PipeHides /\ \A m \in Memories : RowHides(m)
  BY SurvivorParts
<1>2. \/ PipeWrite \/ PipeIndex \/ UNCHANGED <<files, rows, pipe>>
      \/ \E r \in Live : Process(r)
  <2>1. CASE WriteJob \/ IndexJob \/ LogJob \/ Strip
    <3>1. CASE WriteJob
      BY <3>1, JobGoes DEF SameCommand
    <3>2. CASE IndexJob \/ LogJob
      <4>1. command.pc \in {"index", "log"}
        BY <3>2 DEF IndexJob, LogJob
      <4>2. CASE IndexJob
        <5>1. command'.pc \in {"jobs", "log"}
          BY <4>2, JobGoes DEF IndexJob, WriteJob
        <5> QED BY <4>2, <5>1 DEF IndexJob, SameCommand
      <4>3. CASE LogJob
        BY <4>3 DEF LogJob, Beside
      <4> QED BY <3>2, <4>2, <4>3
    <3>3. CASE Strip
      BY <3>3 DEF Strip, Beside
    <3> QED BY <2>1, <3>1, <3>2, <3>3
  <2>2. CASE Tick \/ \E m \in Memories : Embed(m)
    BY <2>2 DEF Tick, Embed
  <2> QED BY <2>1, <2>2, Writers
<1>3. \A m \in Memories : \/ files'[m].by = files[m].by \/ files'[m].by = NoMemory
                          \/ m \in Excused'
  <2>1. CASE PipeWrite
    <3>1. files' = [files EXCEPT ![pipe.memory] = pipe.file] /\ pipe.pc = "write"
      BY <2>1 DEF PipeWrite
    <3>2. files \in [Memories -> AnyFile]
      BY DEF TypeInv, StoreTyped
    <3> QED BY <1>0, <1>1, <3>1, <3>2 DEF PipeHides
  <2>2. CASE PipeIndex \/ UNCHANGED <<files, rows, pipe>> \/ \E r \in Live : Process(r)
    BY <2>2, PipeStarts DEF PipeIndex, Apart
  <2> QED BY <1>2, <2>1, <2>2
<1>4. SurvivorRemains'
  BY <1>0, <1>3, HiddenLess DEF SurvivorInv
<1>5. \A m \in Memories : RowHides(m)'
  <2> TAKE m \in Memories
  <2>1. CASE rows'[m] = rows[m]
    BY <1>0, <1>1, <1>3, <2>1 DEF RowHides, SameCommand, Duplicates
  <2>2. CASE rows'[m] # rows[m]
    <3>1. PipeIndex
      BY <1>2, <2>2, PipeStarts DEF PipeWrite, Apart
    <3>2. rows' = [rows EXCEPT ![pipe.memory] = pipe.file] /\ files' = files
          /\ (files[pipe.memory] # pipe.file => pipe.memory \in lost')
      BY <3>1 DEF PipeIndex, Apart
    <3>3. rows \in [Memories -> AnyFile]
      BY DEF TypeInv, StoreTyped
    <3>4. m = pipe.memory /\ rows'[m] = pipe.file
      BY <2>2, <3>2, <3>3
    <3> QED BY <3>2, <3>4 DEF RowHides, Excused
  <2> QED BY <2>1, <2>2
<1>6. PipeHides'
  <2>1. CASE PipeWrite \/ PipeIndex
    <3>1. pipe'.pc # "write"
      BY <2>1 DEF PipeWrite, PipeIndex, NoPipe, TypeInv, Pipe
    <3> QED BY <3>1 DEF PipeHides
  <2>2. CASE UNCHANGED <<files, rows, pipe>>
    BY <1>0, <1>1, <2>2 DEF PipeHides
  <2>3. CASE \E r \in Live : Process(r)
    <3>1. UNCHANGED files /\ pipe.pc = "idle"
          /\ (pipe' = pipe \/ pipe'.file.by = files[pipe'.memory].by)
      BY <2>3, PipeStarts
    <3> QED BY <3>1 DEF PipeHides
  <2> QED BY <1>2, <2>1, <2>2, <2>3
<1>7. CommandHides'
  <2>1. \A m \in Memories : Survives(m) => (files'[m].by = NoMemory \/ m \in Excused')
    BY <1>0, <1>3 DEF Survives
  <2>2. Pending' = Pending /\ Duplicates' = Duplicates
    BY DEF SameCommand, Pending, InHand, Duplicates
  <2>3. /\ command.job.memory \in Memories
        /\ \A j \in Pending : j.memory \in Memories
    BY DEF Pending, InHand, TypeInv, Command, AnyJob
  <2>4. Duplicates => \A j \in Pending : j.winner \in Memories
    <3>1. ASSUME NEW j \in Pending, Duplicates PROVE j.winner \in Memories
      <4>1. CASE command.pc \in {"jobs", "write", "index", "log"}
        BY <3>1, <4>1 DEF PlanInv, JobsOK
      <4>2. CASE command.pc \in {"rest", "groups"}
        BY <3>1, <4>2 DEF PlanInv, Pending, InHand
      <4>3. command.pc # "strip"
        BY <3>1 DEF TypeInv, ToolOK, Duplicates
      <4> QED BY <4>1, <4>2, <4>3 DEF TypeInv, Command
    <3> QED BY <3>1
  <2>5. command.tool = "retro" => \A e \in command.groups : Members(e) \subseteq Memories
    BY DEF TypeInv, ToolOK, Entries, Members
  <2>6. command'.tool = "retro" => \A e \in command'.groups : \A m \in Members(e) : m \in Memories /\ Survives(m)
    BY <1>1, <2>5 DEF CommandHides, SameCommand
  <2>7. Duplicates' => \A j \in Pending' : /\ j.memory \in Memories /\ Survives(j.memory)
                                           /\ \/ j.winner \in Memories /\ Survives(j.winner)
                                              \/ j.memory \in misled'
    BY <1>1, <2>2, <2>3, <2>4 DEF CommandHides
  <2>8. command'.tool = "noise" =>
          /\ \A j \in Pending' : j.memory \in Memories /\ Survives(j.memory)
          /\ command'.pc = "write" =>
               command'.job.file.by = NoMemory \/ command'.job.memory \in Excused
          /\ command'.pc = "index" => command'.job.memory \in Memories /\ Survives(command'.job.memory)
    BY <1>1, <2>2, <2>3 DEF CommandHides, SameCommand
  <2> QED BY <1>0, <2>1, <2>6, <2>7, <2>8 DEF CommandHides, Survives
<1>8. (\A m \in Memories : RowHides(m)') /\ PipeHides' /\ CommandHides' /\ SurvivorRemains'
  BY <1>4, <1>5, <1>6, <1>7
<1> QED BY <1>8 DEF SurvivorInv, RowHides, PipeHides, CommandHides

LEMMA SurvivorStep ==
  ASSUME TypeInv, PlanInv, SurvivorInv, [Next]_vars
  PROVE  SurvivorInv'
<1>1. CASE MakeManifest
  <2>1. UNCHANGED command /\ misled' = misled
    BY <1>1 DEF MakeManifest
  <2> QED BY <2>1, SurvivorRest DEF SameCommand
<1>2. CASE SameCommand /\ UNCHANGED <<manifest, failed, misled>>
  BY <1>2, SurvivorRest
<1> QED
  BY <1>1, <1>2, CommandMoves, SurvivorStart, SurvivorPlans, SurvivorWrite, SurvivorJob
  DEF CommandStep

\* SurvivorRemains: a memory hidden as a duplicate leads to one that is not; the losers
\* and winners of apply_dedup_collisions and of the phase-1 manifest never hide each
\* other, whatever the pipeline writes meanwhile, but where the manifest's winner was
\* hidden before it was applied.
THEOREM SurvivorStays == Spec => []SurvivorRemains
<1>1. Init => SurvivorInv
  <2> SUFFICES ASSUME Init PROVE SurvivorInv
    OBVIOUS
  <2>1. \A m \in Memories : files[m].by = NoMemory
    <3>1. PICK text \in [Memories -> Bodies \cup {NoBody}] :
            files = [m \in Memories |-> IF text[m] = NoBody THEN NoFile
                        ELSE [body |-> text[m], by |-> NoMemory, until |-> Never]]
      BY DEF Init
    <3> QED BY <3>1, Constants
  <2>2. command.tool = "none" /\ pipe.pc = "idle"
    BY DEF Init, AtRest, NoPipe
  <2>3. SurvivorRemains
    <3> SUFFICES ASSUME NEW hidden \in (SUBSET Memories) \ {{}}
                 PROVE  \E m \in hidden : files[m].by \notin hidden
      BY DEF SurvivorRemains
    <3>1. PICK m \in hidden : m \in Memories
      OBVIOUS
    <3>2. files[m].by \notin Memories
      BY <2>1, <3>1, Constants
    <3> QED BY <3>1, <3>2
  <2> QED BY <2>1, <2>2, <2>3 DEF SurvivorInv, Duplicates
<1>2. SurvivorInv => SurvivorRemains
  BY DEF SurvivorInv
<1>3. TypeInv /\ PlanInv /\ SurvivorInv /\ [Next]_vars => PlanInv' /\ SurvivorInv'
  BY PlanStep, SurvivorStep
<1>4. Spec => [](PlanInv /\ SurvivorInv)
  BY <1>1, <1>3, PlanInit, AlwaysTyped, PTL DEF Spec
<1> QED BY <1>2, <1>4, PTL

-----------------------------------------------------------------------------
(* A hidden memory has a copy *)

CopyInv ==
  ~command.overtaken =>
    /\ command.tool = "retro" =>
         \A e \in command.groups : \A m \in Members(e) : files[m].body = e.body
    /\ Duplicates =>
         \A j \in Pending : files[j.memory].body = j.body /\ files[j.winner].body = j.body
    /\ command.tool = "phase1" => \A j \in command.jobs : j.file = files[j.memory]
    /\ command.pc = "write" =>
         /\ command.job.file.body = files[command.job.memory].body
         /\ command.tool = "noise" => command.job.file.by = files[command.job.memory].by

LEMMA FileWriters ==
  ASSUME TypeInv, [Next]_vars
  PROVE  \/ WriteJob \/ command'.overtaken
         \/ UNCHANGED files /\ (CommandStep \/ FailJob \/ StartRetro \/ StartManifest \/ StartStrip)
         \/ UNCHANGED <<files, command>>
<1>1. CASE CommandStep \/ FailJob \/ StartRetro \/ StartManifest \/ StartStrip
  BY <1>1 DEF CommandStep, Ticket, OpenGroup, CheckGroup, PlanNoise, Strip, Finish, CloseGroup,
              TakeJob, IndexJob, LogJob, FailJob, StartRetro, StartManifest, StartStrip, Started,
              Beside, Stores
<1>2. CASE PipeWrite \/ PipeIndex
  BY <1>2, Overtaken DEF PipeWrite, PipeIndex, TypeInv
<1>3. CASE UNCHANGED vars \/ Tick \/ MakeManifest
  BY <1>3 DEF vars, Tick, MakeManifest, Stores
<1>4. CASE (\E r \in Live : Process(r) \/ \E b \in Bodies : Edit(r, b))
             \/ \E m \in Memories : Embed(m) \/ Bump(m)
  BY <1>4 DEF Process, Edit, Embed, Bump, Apart
<1> QED BY <1>1, <1>2, <1>3, <1>4 DEF Next

\* What a command has read of texts is so still, until the pipeline writes.
LEMMA CopyStep ==
  ASSUME TypeInv, PlanInv, CopyInv, [Next]_vars
  PROVE  CopyInv'
<1> SUFFICES ASSUME ~command'.overtaken PROVE CopyInv'
  BY DEF CopyInv
<1>1. CASE UNCHANGED <<files, command>>
  BY <1>1 DEF CopyInv, Duplicates, Pending, InHand
<1>2. CASE StartRetro \/ StartManifest \/ StartStrip
  <2>0. PICK tool \in {"retro", "phase1", "strip"}, pc \in {"groups", "strip"} : \E plan :
          /\ command' = [AtRest EXCEPT !.pc = pc, !.tool = tool, !.groups = plan]
          /\ tool = "retro" => plan = {Entry(group) : group \in Collisions}
    <3>1. CASE StartRetro
      BY <3>1 DEF StartRetro, Started
    <3>2. CASE StartManifest
      BY <3>2 DEF StartManifest, Started
    <3>3. CASE StartStrip
      BY <3>3 DEF StartStrip, Started
    <3> QED BY <1>2, <3>1, <3>2, <3>3
  <2>1. PICK plan :
          /\ command' = [AtRest EXCEPT !.pc = pc, !.tool = tool, !.groups = plan]
          /\ tool = "retro" => plan = {Entry(group) : group \in Collisions}
    BY <2>0
  <2>2. AtRest \in Command /\ AtRest.jobs = {}
    BY Constants DEF AtRest
  <2>3. command'.pc = pc /\ command'.tool = tool /\ command'.groups = plan /\ command'.jobs = {}
    BY <2>1, <2>2 DEF Command
  <2>4. Pending' = {} /\ files' = files
    BY <1>2, <2>3 DEF Pending, InHand, StartRetro, StartManifest, StartStrip, Started, Stores
  <2>5. ASSUME NEW group \in Collisions
        PROVE  \A m \in Members(Entry(group)) : files[m].body = Entry(group).body
    <3>1. group \subseteq Memories /\ group # {} /\ \A m, k \in group : files[m].body = files[k].body
      BY GroupFacts
    <3>2. Entry(group).winner \in group /\ Members(Entry(group)) \subseteq group
          /\ Entry(group).body = files[Entry(group).winner].body
      BY <3>1, EntryFacts DEF Members, TypeInv
    <3> QED BY <3>1, <3>2
  <2> QED BY <2>1, <2>3, <2>4, <2>5 DEF CopyInv
<1>3. CASE OpenGroup \/ (CheckGroup /\ command'.pc = "jobs")
  <2>1. PICK entry \in command.groups :
           /\ command'.pc = "jobs" /\ command'.groups = command.groups \ {entry}
           /\ UNCHANGED <<command.tool, command.job>>
           /\ entry \in Entries
           /\ \A j \in command'.jobs :
                j.memory \in entry.losers /\ j.winner = entry.winner /\ j.body = entry.body
           /\ OpenGroup => command.tool = "retro" /\ command'.overtaken = command.overtaken
           /\ CheckGroup => /\ command.tool = "phase1" /\ Checked(entry)
                            /\ \A j \in command'.jobs : j.file = files[j.memory]
    BY <1>3, EntryOpened
  <2>2. files' = files /\ Pending' = command'.jobs
    BY <1>3, <2>1 DEF OpenGroup, CheckGroup, Stores, Pending, InHand
  <2>3. CASE OpenGroup
    <3>1. \A e \in command.groups : \A m \in Members(e) : files[m].body = e.body
      BY <2>1, <2>3 DEF CopyInv
    <3>2. \A j \in command'.jobs : files[j.memory].body = j.body /\ files[j.winner].body = j.body
      BY <2>1, <3>1 DEF Members
    <3> QED BY <2>1, <2>2, <2>3, <3>1, <3>2 DEF CopyInv
  <2>4. CASE CheckGroup
    <3>1. \A j \in command'.jobs : files[j.memory].body = j.body /\ files[j.winner].body = j.body
      BY <2>1, <2>4 DEF Checked
    <3> QED BY <2>1, <2>2, <2>4, <3>1 DEF CopyInv
  <2> QED BY <1>3, <2>3, <2>4
<1>4. CASE PlanNoise
  <2>1. command'.pc = "jobs" /\ command'.tool = "noise" /\ ~Duplicates'
    BY <1>4, NoisePlanned DEF Duplicates
  <2> QED BY <2>1 DEF CopyInv
<1>5. CASE TakeJob
  <2>1. PICK job \in command.jobs, file \in AnyFile :
              /\ command'.jobs = command.jobs \ {job}
              /\ file = IF command.tool = "phase1" THEN job.file ELSE files[job.memory]
              /\ command'.job.memory = job.memory /\ command'.job.winner = job.winner
              /\ command'.job.body = job.body /\ command'.job.file.body = file.body
              /\ job.winner = NoMemory => command'.job.file.by = file.by
    BY <1>5, JobTaken
  <2>2. command.pc = "jobs" /\ command'.pc = "write" /\ files' = files
        /\ UNCHANGED <<command.tool, command.groups, command.overtaken>>
    BY <1>5, JobTaken DEF TakeJob, Stores
  <2>3. Pending = command.jobs /\ Pending' = command'.jobs \cup {command'.job}
        /\ Duplicates' = Duplicates
    BY <2>2 DEF Pending, InHand, Duplicates
  <2>4. file.body = files[job.memory].body /\ (command.tool = "noise" => file.by = files[job.memory].by)
    BY <2>1, <2>2 DEF CopyInv
  <2>5. command.tool = "noise" => job.winner = NoMemory
    BY <2>1, <2>3 DEF PlanInv, JobsOK
  <2>6. /\ command'.job.file.body = files[command'.job.memory].body
        /\ command.tool = "noise" => command'.job.file.by = files[command'.job.memory].by
    BY <2>1, <2>4, <2>5
  <2>7. Duplicates => \A j \in Pending' : files[j.memory].body = j.body /\ files[j.winner].body = j.body
    <3> SUFFICES ASSUME Duplicates, NEW j \in Pending'
                 PROVE  files[j.memory].body = j.body /\ files[j.winner].body = j.body
      OBVIOUS
    <3>1. PICK k \in Pending : j.memory = k.memory /\ j.winner = k.winner /\ j.body = k.body
      BY <2>1, <2>3
    <3> QED BY <2>2, <3>1 DEF CopyInv
  <2>8. command.tool = "phase1" => \A j \in command'.jobs : j.file = files[j.memory]
    BY <2>1, <2>2 DEF CopyInv
  <2>9. command.tool = "retro" => \A e \in command.groups : \A m \in Members(e) : files[m].body = e.body
    BY <2>2 DEF CopyInv
  <2> QED BY <2>2, <2>3, <2>6, <2>7, <2>8, <2>9 DEF CopyInv
<1>6. CASE WriteJob
  <2> DEFINE n == command.job.memory
  <2>1. command.pc = "write" /\ files' = [files EXCEPT ![n] = command.job.file]
    BY <1>6 DEF WriteJob
  <2>2. /\ UNCHANGED <<command.tool, command.groups, command.jobs, command.job, command.overtaken>>
        /\ command'.pc = "index"
    BY <1>6, JobGoes
  <2>3. n \in Memories /\ files \in [Memories -> AnyFile]
    BY DEF TypeInv, StoreTyped, Command, AnyJob
  <2>4. files[n].body = command.job.file.body
    BY <2>1, <2>2 DEF CopyInv
  <2>5. (\A m \in Memories : files'[m].body = files[m].body) /\ \A m \in Memories \ {n} : files'[m] = files[m]
    BY <2>1, <2>3, <2>4
  <2>6. Pending' = command.jobs /\ command.jobs \subseteq Pending /\ Duplicates' = Duplicates
    BY <2>2 DEF Pending, InHand, Duplicates
  <2>7. command.tool = "retro" => \A e \in command.groups : \A m \in Members(e) : files'[m].body = e.body
    <3> SUFFICES ASSUME command.tool = "retro", NEW e \in command.groups, NEW m \in Members(e)
                 PROVE  files'[m].body = e.body
      OBVIOUS
    <3>1. m \in Memories
      BY DEF TypeInv, ToolOK, Entries, Members
    <3> QED BY <2>2, <2>5, <3>1 DEF CopyInv
  <2>8. Duplicates => \A j \in command.jobs :
          /\ files'[j.memory].body = j.body /\ files'[j.winner].body = j.body
          /\ command.tool = "phase1" => j.file = files'[j.memory]
    <3> SUFFICES ASSUME Duplicates, NEW j \in command.jobs
                 PROVE  /\ files'[j.memory].body = j.body /\ files'[j.winner].body = j.body
                        /\ command.tool = "phase1" => j.file = files'[j.memory]
      OBVIOUS
    <3>1. j.memory \in Memories /\ j.winner \in Memories /\ j.memory # n
      BY <2>1, <2>6 DEF PlanInv, JobsOK, TypeInv, Command, AnyJob
    <3>2. files[j.memory].body = j.body /\ files[j.winner].body = j.body
      BY <2>2, <2>6 DEF CopyInv
    <3>3. command.tool = "phase1" => j.file = files[j.memory]
      BY <2>2 DEF CopyInv
    <3> QED BY <2>5, <3>1, <3>2, <3>3
  <2>9. command.tool = "phase1" => Duplicates
    BY DEF Duplicates
  <2> QED BY <2>2, <2>6, <2>7, <2>8, <2>9 DEF CopyInv
<1>7. CASE IndexJob \/ LogJob \/ FailJob
  <2>1. files' = files
    BY <1>7 DEF IndexJob, LogJob, FailJob, Stores
  <2>2. CASE WriteJob
    BY <1>6, <2>2
  <2>3. CASE ~WriteJob
    <3>1. /\ UNCHANGED <<command.tool, command.groups, command.jobs, command.job, command.overtaken>>
          /\ command'.pc \in {"jobs", "log"}
      BY <1>7, <2>3, JobGoes
    <3>2. Pending' \subseteq Pending /\ Duplicates' = Duplicates
      BY <3>1 DEF Pending, InHand, Duplicates
    <3> QED BY <2>1, <3>1, <3>2 DEF CopyInv
  <2> QED BY <2>2, <2>3
<1>8. CASE Ticket \/ CloseGroup \/ Strip \/ Finish \/ (CheckGroup /\ command'.pc # "jobs")
  <2>1. files' = files
    BY <1>8 DEF Ticket, CloseGroup, Strip, Finish, CheckGroup, Stores
  <2>2. CASE Finish
    <3>1. ~Duplicates' /\ command'.pc = "rest" /\ command'.tool = "none"
      BY <2>2, GroupGoes DEF Duplicates
    <3> QED BY <3>1 DEF CopyInv
  <2>3. CASE ~Finish
    <3>1. /\ command'.groups \subseteq command.groups
          /\ UNCHANGED <<command.tool, command.jobs, command.job, command.overtaken>>
          /\ command'.pc \in {"groups", "strip"}
      BY <1>8, <2>3, GroupGoes
    <3>2. Pending' \subseteq Pending /\ Duplicates' = Duplicates
      BY <3>1 DEF Pending, InHand, Duplicates
    <3> QED BY <2>1, <3>1, <3>2 DEF CopyInv
  <2> QED BY <2>2, <2>3
<1> QED
  BY <1>1, <1>2, <1>3, <1>4, <1>5, <1>6, <1>7, <1>8, FileWriters DEF CommandStep

\* HiddenHasCopy: a memory is hidden for one that holds the same text when it is hidden,
\* for a plan of cleanup-retro and an entry the phase-1 script has checked, unless the
\* pipeline has written since.
THEOREM HiddenHasACopy == Spec => HiddenHasCopy
<1> DEFINE Copies ==
      \A m \in Memories :
        files'[m].by # files[m].by /\ files'[m].by # NoMemory =>
          \/ files[files'[m].by].body = files'[m].body /\ files[m].body = files'[m].body
          \/ command'.overtaken
<1>1. ASSUME TypeInv, PlanInv, CopyInv, [Next]_vars PROVE Copies
  <2> SUFFICES ASSUME NEW m \in Memories, files'[m].by # files[m].by, files'[m].by # NoMemory,
                      ~command'.overtaken
               PROVE  files[files'[m].by].body = files'[m].body /\ files[m].body = files'[m].body
    OBVIOUS
  <2>1. WriteJob
    BY <1>1, FileWriters
  <2>2. command.pc = "write" /\ files' = [files EXCEPT ![command.job.memory] = command.job.file]
    BY <2>1 DEF WriteJob
  <2>3. ~command.overtaken
    BY <1>1, <2>1, JobGoes
  <2>4. m = command.job.memory /\ files'[m] = command.job.file
    BY <1>1, <2>2 DEF TypeInv, StoreTyped
  <2>5. command.job.file.body = files[m].body
    BY <1>1, <2>2, <2>3, <2>4 DEF CopyInv
  <2>6. command.tool # "noise"
    BY <1>1, <2>2, <2>3, <2>4 DEF CopyInv
  <2>7. Duplicates /\ command.job.file.by = command.job.winner /\ command.job \in Pending
    BY <1>1, <2>2, <2>6 DEF PlanInv, JobsOK, Pending, InHand
  <2>8. files[m].body = command.job.body /\ files[command.job.winner].body = command.job.body
    BY <1>1, <2>3, <2>4, <2>7 DEF CopyInv
  <2> QED BY <2>4, <2>5, <2>7, <2>8
<1>2. Init => CopyInv
  <2> SUFFICES ASSUME Init PROVE CopyInv
    OBVIOUS
  <2>1. command.tool = "none" /\ command.pc = "rest"
    BY DEF Init, AtRest
  <2> QED BY <2>1 DEF CopyInv, Duplicates
<1>3. TypeInv /\ PlanInv /\ CopyInv /\ [Next]_vars => PlanInv' /\ CopyInv'
  BY PlanStep, CopyStep
<1>4. Spec => [](TypeInv /\ PlanInv /\ CopyInv)
  BY <1>2, <1>3, PlanInit, AlwaysTyped, PTL DEF Spec
<1>5. TypeInv /\ PlanInv /\ CopyInv /\ [Next]_vars => [Copies]_vars
  BY <1>1
<1> HIDE DEF Copies
<1>6. Spec => [][Copies]_vars
  BY <1>4, <1>5, PTL DEF Spec
<1> QED BY <1>6 DEF HiddenHasCopy, Copies
=============================================================================

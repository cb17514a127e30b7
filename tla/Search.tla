------------------------------- MODULE Search -------------------------------
(***************************************************************************)
(* Searches in the daemon.                                                 *)
(*                                                                         *)
(* A search counts itself in flight and borrows a read connection.  Its    *)
(* semantic leg (expansion of the query, its embedding behind the circuit  *)
(* breaker, the vector scan on a connection of its own) runs in a pool of  *)
(* threads beside the keyword query, and is given up when its time is over *)
(* (ADR 0048).  What both found is fused, read from the vault, reranked    *)
(* and cut.  Bulk ingest goes slow while searches are in flight, and       *)
(* changes the vault under them.  Where no read connection can be opened   *)
(* the shared one is read under Index._lock, which the reranker's cache    *)
(* and ingest need too.                                                    *)
(***************************************************************************)
EXTENDS Ranking

CONSTANTS
  Callers,          \* slots for a search and its leg: a caller that does not wait for
                    \*   a leg it has given up is a slot of its own
  Asks,             \* Asks[s]: what s asks for: rerank (how many), mmr, historical, jev
  FtsLists,         \* what the keyword query may find: lists of records
  VecLists,         \* what the scan may find: lists of records, one for each chunk
  Limit, Overfetch, \* results wanted, and OVERFETCH_MULTIPLIER
  SemanticWorkers,  \* threads for semantic legs
  PoolMax,          \* READER_POOL_MAX
  MaxLull,          \* ticks that ingest waits for searches
  NBodies,          \* bodies of a record
  Judge,            \* Judge[m][b]: what the reranker may answer about body b of m: numbers, or
                    \*   None for a text without one
  Shared,           \* the shared connection, when no read connection can be opened
  PoolSize,         \* jev_shadow.pool_size
  JevScores,        \* what the Jev judge may say: functions from records to scores
  Plans             \* bound: which slots search, and which events happen how often:
                    \*   "change" of a record; "open" of a connection, a "read" of the index
                    \*   or a call of the "judge" fails; "keywords": the keyword query may fail

ASSUME SearchAssumption ==
  /\ {Limit, Overfetch, SemanticWorkers, PoolMax, PoolSize, NBodies} \subseteq Nat \ {0}
  /\ MaxLull \in Nat
  /\ \A s \in Callers : Asks[s] \in [rerank : Nat, mmr : BOOLEAN, historical : BOOLEAN, jev : BOOLEAN]
  /\ FtsLists \cup VecLists \subseteq Seq(Memories)
  /\ Judge \in [Memories -> [1..NBodies -> SUBSET (Nat \cup {None}) \ {{}}]]
  /\ \A p \in Plans : p.slots \subseteq Callers /\ p.left \in Nat
  /\ IsFiniteSet(Callers)
  /\ Shared \notin Nat /\ None \notin Nat /\ Shared # None

VARIABLES
  search,    \* search[s]: the search of s
  leg,       \* leg[s]: its semantic leg
  inflight,  \* searches in flight
  pool,      \* read connections in the pool
  judged,    \* rerank_cache, for one query and one model: rows [mem, body, score]
  vault,     \* vault[m]: the body of m and how it stands with it
  ingest,    \* the reconcile: ticks waited before the record in hand
  plan,      \* the plan, with the events that are left
  shown,     \* history: records that could be shown at some time of the search of s
  steady     \* history: records that could be shown at all times of it

vars == <<search, leg, inflight, pool, judged, vault, ingest, plan, shown, steady>>

world == <<vault, ingest, plan, shown, steady>>

\* How a record stands: to be shown; hidden (deprecated, expired or tombstoned, or its
\* row or its file is gone); its file does not parse.
Standings == {"shown", "hidden", "broken"}

Conns == 1..2 * Cardinality(Callers)

Pair == Memories \X (1..NBodies)

Quiet == [pc |-> "idle", rdb |-> None, bm25 |-> << >>, vec |-> << >>,
          embedded |-> FALSE, ahead |-> << >>, found |-> << >>, scores |-> << >>,
          pool |-> << >>, served |-> << >>]

NoLeg == [pc |-> "none", conn |-> None, attached |-> None, abandoned |-> FALSE, hits |-> << >>]

Stages == {"idle", "keywords", "await", "abandon", "read", "rerank", "ask", "ranked", "judged"}

InCode == {"keywords", "await", "abandon", "read", "rerank", "ask"}

Running == {"call", "attach", "wait", "scan", "return"}

TypeOK ==
  /\ \A s \in Callers :
       /\ search[s].pc \in Stages
       /\ search[s].rdb \in Conns \cup {Shared, None}
       /\ search[s].rdb # None <=> search[s].pc \in InCode
       /\ Range(search[s].served) \subseteq Pair /\ Len(search[s].served) <= Limit
       /\ leg[s].pc \in {"none", "queued", "ok", "err"} \cup Running
       /\ leg[s].conn # None <=> leg[s].pc \in {"attach", "wait", "scan", "return"}
  /\ Cardinality({s \in Callers : leg[s].pc \in Running}) <= SemanticWorkers
  /\ inflight \in Nat /\ pool \subseteq Conns
  /\ judged \subseteq [mem : Memories, body : 1..NBodies, score : Nat]
  /\ vault \in [Memories -> [body : 1..NBodies, is : Standings]]
  /\ ingest \in 0..MaxLull
  /\ plan.left \in Nat

Event(kind) ==
  kind \in plan.events /\ plan.left > 0 /\ plan' = [plan EXCEPT !.left = @ - 1]

-----------------------------------------------------------------------------
(* Read connections *)

Holders(c) == {<<s, "search">> : s \in {t \in Callers : search[t].rdb = c}}
              \cup {<<s, "leg">> : s \in {t \in Callers : leg[t].conn = c}}

InUse == {c \in Conns : Holders(c) # {}}

\* A connection from the pool, or a new one; the shared one when none can be opened.
Borrow(c) ==
  \/ c \in pool /\ pool' = pool \ {c} /\ UNCHANGED plan
  \/ pool = {} /\ c = Min(Conns \ InUse) /\ UNCHANGED <<pool, plan>>
  \/ pool = {} /\ c = Shared /\ Event("open") /\ pool' = pool

\* At a clean end the connection goes back unless the pool is full; after an error
\* it is closed.
GiveBack(c) ==
  pool' = IF c \in Conns /\ Cardinality(pool) < PoolMax THEN pool \cup {c} ELSE pool

\* A scan on the shared connection holds Index._lock to its end.
IndexLocked == \E s \in Callers : leg[s].pc = "scan" /\ leg[s].conn = Shared

\* A search that reads on the shared connection takes the lock for each of its reads.
Unblocked(s) == search[s].rdb = Shared => ~ IndexLocked

-----------------------------------------------------------------------------
(* The search *)

At(s, stage) == search[s].pc = stage

Showable == {m \in Memories : vault[m].is = "shown"}

SearchStarted == inflight' = inflight + 1

SearchFinished == inflight' = Max({0, inflight - 1})

\* What the keyword query finds, and the scan.
QueryFts == {Take(list, Limit * Overfetch) : list \in FtsLists}

QueryVec == {Take(list, Limit * Overfetch) : list \in VecLists}

\* A keyword query that fails, or has no word to look for, finds nothing.
QueryBm25 == QueryFts \cup IF "keywords" \in plan.events THEN {<< >>} ELSE {}

Forget(s) ==
  shown' = [shown EXCEPT ![s] = {}] /\ steady' = [steady EXCEPT ![s] = {}]

\* search_started, the reader, and the leg handed to the executor.
Start(s) ==
  /\ s \in plan.slots /\ At(s, "idle") /\ leg[s].pc = "none"
  /\ \E c \in Conns \cup {Shared} :
       Borrow(c) /\ search' = [search EXCEPT ![s] = [Quiet EXCEPT !.pc = "keywords", !.rdb = c]]
  /\ leg' = [leg EXCEPT ![s] = [NoLeg EXCEPT !.pc = "queued"]]
  /\ SearchStarted
  /\ shown' = [shown EXCEPT ![s] = Showable] /\ steady' = [steady EXCEPT ![s] = Showable]
  /\ UNCHANGED <<judged, vault, ingest>>

\* The keyword query, beside the leg.
Keywords(s) ==
  /\ At(s, "keywords") /\ Unblocked(s)
  /\ \E found \in QueryBm25 :
       search' = [search EXCEPT ![s].pc = "await", ![s].bm25 = found]
  /\ UNCHANGED <<leg, inflight, pool, judged, world>>

\* What each pair of lists fuses to, and the final scores it gives the records.
FusedLists ==
  [bm25 \in QueryFts \cup {<< >>} |-> [vec \in QueryVec \cup {<< >>} |-> Fused(bm25, vec)]]

FinalScores ==
  [bm25 \in QueryFts \cup {<< >>} |-> [vec \in QueryVec \cup {<< >>} |->
    [historical \in BOOLEAN |-> [m \in Memories |-> FinalScore(bm25, vec, m, historical)]]]]

WithHits(job, vec, embedded) ==
  [job EXCEPT !.pc = "read", !.vec = vec, !.embedded = embedded,
              !.ahead = FusedLists[job.bm25][vec]]

\* The leg is done, well or with an error.
TakeLeg(s) ==
  /\ At(s, "await") /\ leg[s].pc \in {"ok", "err"}
  /\ search' = [search EXCEPT ![s] = IF leg[s].pc = "ok" THEN WithHits(@, leg[s].hits, TRUE)
                                     ELSE WithHits(@, << >>, FALSE)]
  /\ leg' = [leg EXCEPT ![s] = NoLeg]
  /\ UNCHANGED <<inflight, pool, judged, world>>

\* Variant: only a leg that has not started is given up.
TimeOutUnstarted(s) ==
  /\ At(s, "await") /\ leg[s].pc = "queued"
  /\ search' = [search EXCEPT ![s].pc = "abandon"]
  /\ UNCHANGED <<leg, inflight, pool, judged, world>>

\* The deadline passes first.
TimeOut(s) ==
  /\ At(s, "await") /\ leg[s].pc \notin {"ok", "err"}
  /\ search' = [search EXCEPT ![s].pc = "abandon"]
  /\ UNCHANGED <<leg, inflight, pool, judged, world>>

\* The scan is interrupted if it runs; an interrupt without a statement running
\* does nothing.
Abandon(s) ==
  /\ At(s, "abandon")
  /\ search' = [search EXCEPT ![s] = WithHits(@, << >>, FALSE)]
  /\ leg' = [leg EXCEPT ![s] = IF @.pc \in {"ok", "err"} THEN NoLeg
                                ELSE [@ EXCEPT !.abandoned = TRUE]]
  /\ UNCHANGED <<inflight, pool, judged, world>>

\* MMR needs the query's embedding.
Diversifies(s) == Asks[s].mmr /\ search[s].embedded

\* How many records are read: more than wanted, when they are put in another order.
Wanted(s) ==
  Max({Limit, Asks[s].rerank, IF Diversifies(s) THEN Limit * Overfetch ELSE Limit})

Reading(s) ==
  /\ At(s, "read") /\ Unblocked(s)
  /\ search[s].ahead # << >> /\ Len(search[s].found) < Wanted(s) * Overfetch

Names(found) == [i \in DOMAIN found |-> found[i][1]]

Bodied(found, list) == [i \in DOMAIN list |-> CHOOSE r \in Range(found) : r[1] = list[i]]

InOrder(s, found) ==
  LET scores == FinalScores[search[s].bm25][search[s].vec][Asks[s].historical]
  IN Take(SortedBy(found, [r \in Range(found) |-> scores[r[1]]]), Wanted(s))

\* Variant: hidden records are not passed over.
ReadHitAny(s) ==
  /\ Reading(s)
  /\ LET m == Head(search[s].ahead)
     IN search' = [search EXCEPT ![s].ahead = Tail(@), ![s].found = Append(@, <<m, vault[m].body>>)]
  /\ UNCHANGED <<leg, inflight, pool, judged, world>>

\* The next hit, passed over when it is hidden.
ReadHit(s) ==
  /\ Reading(s)
  /\ LET m == Head(search[s].ahead)
     IN /\ vault[m].is # "broken"
        /\ search' = [search EXCEPT ![s].ahead = Tail(@),
                        ![s].found = IF vault[m].is = "shown" THEN Append(@, <<m, vault[m].body>>)
                                     ELSE @]
  /\ UNCHANGED <<leg, inflight, pool, judged, world>>

Collect(s) ==
  /\ At(s, "read")
  /\ search[s].ahead = << >> \/ Len(search[s].found) >= Wanted(s) * Overfetch
  /\ search' = [search EXCEPT ![s].pc = "rerank", ![s].ahead = << >>,
                              ![s].found = InOrder(s, @)]
  /\ UNCHANGED <<leg, inflight, pool, judged, world>>

Head1(s) == Min({Asks[s].rerank, Len(search[s].found)})

\* Variant: the score of any body of the record.
CachedScoresAny(r) == {row.score : row \in {x \in judged : x.mem = r[1]}}

Unscored(s) == Len(search[s].scores) < Head1(s)

CachedScores(r) == {row.score : row \in {x \in judged : x.mem = r[1] /\ x.body = r[2]}}

WriteScore(r, score) ==
  judged' = {row \in judged : row.mem # r[1] \/ row.body # r[2]}
              \cup {[mem |-> r[1], body |-> r[2], score |-> score]}

\* A text without a number is worth 0.
Parsed(answer) == IF answer = None THEN 0 ELSE answer

ScoresOf(r) == {Parsed(answer) : answer \in Judge[r[1]][r[2]]}

\* The model cannot be reached, or the call ends in an error.
JudgeFails == Event("judge")

Candidate(s) == search[s].found[Len(search[s].scores) + 1]

Scored(s, score) ==
  search' = [search EXCEPT ![s].pc = "rerank", ![s].scores = Append(@, score)]

\* The next candidate is looked up in the cache, under the lock of the index.
LookUp(s) ==
  /\ At(s, "rerank") /\ Unscored(s) /\ ~ IndexLocked
  /\ LET cached == CachedScores(Candidate(s))
     IN \/ \E score \in cached : Scored(s, score)
        \/ cached = {} /\ search' = [search EXCEPT ![s].pc = "ask"]
  /\ UNCHANGED <<leg, inflight, pool, judged, world>>

\* A missing one is asked about without the lock; any answer is cached, under the
\* lock.  A call that fails is worth 0 and leaves no row.
Score(s) ==
  /\ At(s, "ask")
  /\ \/ /\ ~ IndexLocked
        /\ \E score \in ScoresOf(Candidate(s)) :
             Scored(s, score) /\ WriteScore(Candidate(s), score)
        /\ UNCHANGED plan
     \/ Scored(s, 0) /\ JudgeFails /\ UNCHANGED judged
  /\ UNCHANGED <<leg, inflight, pool, vault, ingest, shown, steady>>

\* MMR reads the first vector of each record.
Diversifying(s) == At(s, "rerank") /\ ~ Unscored(s) /\ Diversifies(s) /\ Unblocked(s)

\* Variant: the count of searches in flight is lowered only at a clean end.
RaiseUncounted(s) ==
  /\ Reading(s)
  /\ vault[Head(search[s].ahead)].is = "broken"
  /\ search' = [search EXCEPT ![s] = Quiet]
  /\ Forget(s)
  /\ UNCHANGED <<leg, inflight, pool, judged, vault, ingest, plan>>

\* A file that no longer parses, or a read of the index that fails, ends the search with
\* the error, and its connection is closed.
Raise(s) ==
  /\ \/ Reading(s) /\ vault[Head(search[s].ahead)].is = "broken" /\ UNCHANGED plan
     \/ (Reading(s) \/ Diversifying(s)) /\ Event("read")
  /\ search' = [search EXCEPT ![s] = Quiet]
  /\ SearchFinished
  /\ Forget(s)
  /\ UNCHANGED <<leg, pool, judged, vault, ingest>>

\* The lists of records, each in it once, and what each is diversified to.
Lists == UNION {{list \in [1..n -> Memories] : IsInjective(list)} : n \in 0..Cardinality(Memories)}

DiverseOrders == {[of |-> list, order |-> Diversified(list, Limit)] : list \in Lists}

Diverse(list) == (CHOOSE row \in DiverseOrders : row.of = list).order

\* The order is final: the pool for the Jev judge is put by, the results are cut.
Finish(s) ==
  /\ At(s, "rerank") /\ ~ Unscored(s)
  /\ Diversifies(s) => Unblocked(s)
  /\ LET ranked == IF search[s].scores = << >> THEN search[s].found
                   ELSE Reranked(search[s].found, search[s].scores)
     IN search' = [search EXCEPT ![s] =
          [@ EXCEPT !.pc = "ranked", !.rdb = None, !.found = << >>, !.scores = << >>,
             !.pool = ranked,
             !.served = IF Diversifies(s)
                        THEN Bodied(ranked, Diverse(Names(ranked)))
                        ELSE Take(ranked, Limit)]]
  /\ GiveBack(search[s].rdb)
  /\ SearchFinished
  /\ UNCHANGED <<leg, judged, world>>

\* An answer that scores every record, from 0 to 3; any other is not valid.
ValidScores == JevScores \cap [Memories -> 0..3]

\* A request that fails, an answer that is not valid, or a budget that is spent.
JevFails(s) == search' = [search EXCEPT ![s].pc = "judged"]

\* The Jev judge in serve mode: its order, or the normal one.
Judged(s) ==
  /\ At(s, "ranked") /\ Asks[s].jev
  /\ \/ JevFails(s)
     \/ /\ search[s].served # << >>
        /\ \E scores \in ValidScores :
             search' = [search EXCEPT ![s].pc = "judged",
                          ![s].served = Bodied(search[s].pool,
                              JevOrdered(Names(@), Names(search[s].pool), PoolSize, Limit, scores))]
  /\ UNCHANGED <<leg, inflight, pool, judged, world>>

Return(s) ==
  /\ At(s, IF Asks[s].jev THEN "judged" ELSE "ranked")
  /\ search' = [search EXCEPT ![s] = Quiet]
  /\ Forget(s)
  /\ UNCHANGED <<leg, inflight, pool, judged, vault, ingest, plan>>

-----------------------------------------------------------------------------
(* The semantic leg *)

LegAt(s, stage) == leg[s].pc = stage

LegGoes(s, stage) == leg' = [leg EXCEPT ![s].pc = stage]

\* The future is done, with hits or with an error; nobody takes one that is given up.
Ended(job, how) == IF job.abandoned THEN NoLeg ELSE [job EXCEPT !.pc = how, !.conn = None]

LegEnds(s, how) == leg' = [leg EXCEPT ![s] = Ended(@, how)]

\* Whether the leg may still be in time: not when the search has given up.
InTime(s) == ~ leg[s].abandoned /\ ~ At(s, "abandon")

\* The circuit breaker of the embedder, which the embed worker trips too, may be open
\* and fail the call at once.
BreakerOpen(s) == InTime(s) /\ LegEnds(s, "err")

\* A request that fails, whether for the moment or for good.
EmbedFails(s) == LegEnds(s, "err") /\ UNCHANGED <<pool, plan>>

\* A thread takes the leg up.  One that is given up by then does nothing.
LegStart(s) ==
  /\ LegAt(s, "queued")
  /\ Cardinality({t \in Callers : leg[t].pc \in Running}) < SemanticWorkers
  /\ LegEnds(s, "err") \/ (InTime(s) /\ LegGoes(s, "call")) \/ BreakerOpen(s)
  /\ UNCHANGED <<search, inflight, pool, judged, world>>

\* The query is expanded, or, when that fails, left as it is, and embedded: the leg takes
\* a connection for the scan.  Or the embedder fails.
Answer(s) ==
  /\ LegAt(s, "call")
  /\ \/ /\ InTime(s)
        /\ \E c \in Conns \cup {Shared} :
             Borrow(c) /\ leg' = [leg EXCEPT ![s].pc = "attach", ![s].conn = c]
     \/ EmbedFails(s)
  /\ UNCHANGED <<search, inflight, judged, vault, ingest, shown, steady>>

\* The connection is made known to the search, unless that has given up: then it
\* is closed.  The shared one is not made known, and has to be waited for.
Attach(s) ==
  /\ LegAt(s, "attach")
  /\ IF leg[s].abandoned THEN LegEnds(s, "err")
     ELSE IF leg[s].conn = Shared THEN LegGoes(s, "wait")
     ELSE leg' = [leg EXCEPT ![s].pc = "scan", ![s].attached = leg[s].conn]
  /\ UNCHANGED <<search, inflight, pool, judged, world>>

\* The shared connection is scanned under the lock, by a leg that is given up too.
TakeIndexLock(s) ==
  /\ LegAt(s, "wait") /\ ~ IndexLocked
  /\ LegGoes(s, "scan")
  /\ UNCHANGED <<search, inflight, pool, judged, world>>

\* Variant: the connection stays the search's to interrupt.
ScanKept(s) ==
  /\ LegAt(s, "scan")
  /\ \E hits \in QueryVec :
       leg' = [leg EXCEPT ![s].pc = "return", ![s].hits = hits]
  /\ UNCHANGED <<search, inflight, pool, judged, world>>

\* The scan ends, and the connection is no longer the search's to interrupt.
Scan(s) ==
  /\ LegAt(s, "scan")
  /\ \E hits \in QueryVec :
       leg' = [leg EXCEPT ![s].pc = "return", ![s].attached = None, ![s].hits = hits]
  /\ UNCHANGED <<search, inflight, pool, judged, world>>

\* Interrupted, or failed: the connection is closed.
ScanFails(s) ==
  /\ LegAt(s, "scan")
  /\ leg' = [leg EXCEPT ![s] = Ended([@ EXCEPT !.attached = None], "err")]
  /\ UNCHANGED <<search, inflight, pool, judged, world>>

LegReturn(s) ==
  /\ LegAt(s, "return")
  /\ GiveBack(leg[s].conn)
  /\ LegEnds(s, "ok")
  /\ UNCHANGED <<search, inflight, judged, world>>

-----------------------------------------------------------------------------
(* Bulk ingest *)

\* Variant: ingest waits for as long as searches are in flight.
ProcessInLull ==
  /\ inflight = 0 /\ ~ IndexLocked
  /\ ingest' = 0
  /\ UNCHANGED <<search, leg, inflight, pool, judged, vault, plan, shown, steady>>

\* Before each record: go slow while searches are in flight, for so long at most.
Lull ==
  /\ inflight > 0 /\ ingest < MaxLull
  /\ ingest' = ingest + 1
  /\ UNCHANGED <<search, leg, inflight, pool, judged, vault, plan, shown, steady>>

Process ==
  /\ inflight = 0 \/ ingest >= MaxLull
  /\ ~ IndexLocked
  /\ ingest' = 0
  /\ UNCHANGED <<search, leg, inflight, pool, judged, vault, plan, shown, steady>>

\* A record changes: by ingest, by a stage, by the sweeps or by hand.
Change(m) ==
  /\ Event("change")
  /\ \/ \E b \in 1..NBodies \ {vault[m].body} : vault' = [vault EXCEPT ![m].body = b]
     \/ \E is \in Standings \ {vault[m].is} : vault' = [vault EXCEPT ![m].is = is]
  /\ shown' = [s \in Callers |-> IF At(s, "idle") THEN {} ELSE shown[s] \cup Showable']
  /\ steady' = [s \in Callers |-> steady[s] \cap Showable']
  /\ UNCHANGED <<search, leg, inflight, pool, judged, ingest>>

-----------------------------------------------------------------------------

Init ==
  /\ search = [s \in Callers |-> Quiet] /\ leg = [s \in Callers |-> NoLeg]
  /\ inflight = 0 /\ pool = {} /\ judged = {}
  /\ vault = [m \in Memories |-> [body |-> 1, is |-> "shown"]]
  /\ ingest = 0 /\ plan \in Plans
  /\ shown = [s \in Callers |-> {}] /\ steady = [s \in Callers |-> {}]

SearchStep(s) ==
  \/ Keywords(s) \/ TakeLeg(s) \/ TimeOut(s) \/ Abandon(s) \/ ReadHit(s) \/ Raise(s)
  \/ Collect(s) \/ LookUp(s) \/ Score(s) \/ Finish(s) \/ Judged(s) \/ Return(s)

LegStep(s) ==
  \/ LegStart(s) \/ Answer(s) \/ Attach(s) \/ TakeIndexLock(s)
  \/ Scan(s) \/ ScanFails(s) \/ LegReturn(s)

Ingest == Lull \/ Process

Next ==
  \/ \E s \in Callers : Start(s) \/ SearchStep(s) \/ LegStep(s)
  \/ Ingest
  \/ \E m \in Memories : Change(m)

\* Time passes, and the threads of searches and of ingest get their turn; a leg need
\* not.
Fairness ==
  /\ \A s \in Callers : WF_vars(SearchStep(s))
  /\ WF_vars(Ingest)

Spec == Init /\ [][Next]_vars /\ Fairness

-----------------------------------------------------------------------------
(* Properties *)

\* Whatever way searches end, the count of searches in flight is that of the searches
\* under way, the pool keeps its size, and no connection is lent to two or lent and in
\* the pool at once.
NothingLeaks ==
  /\ inflight = Cardinality({s \in Callers : search[s].pc \in InCode})
  /\ Cardinality(pool) <= PoolMax /\ pool \cap InUse = {}
  /\ \A c \in Conns : Cardinality(Holders(c)) <= 1

\* What a search interrupts when its time is over is the connection its own leg holds:
\* never one that has gone back to the pool, nor the shared one that ingest writes on.
InterruptsOwnScan ==
  \A s \in Callers :
    leg[s].attached # None => leg[s].attached = leg[s].conn /\ leg[s].conn # Shared

\* However the vault changes under a search, and whatever reorders its results, each
\* record is in them once, and could be shown at some time of the search; and when
\* there is room, every match that could be shown all along is in them.
ServedMatchesVault ==
  \A s \in Callers : search[s].pc \in {"ranked", "judged"} =>
    LET served == search[s].served
        matched == Range(search[s].bm25) \cup Range(search[s].vec)
    IN /\ Range(Names(served)) \subseteq shown[s] /\ IsInjective(Names(served))
       /\ Len(served) < Limit => matched \cap steady[s] \subseteq Range(Names(served))

\* The reranker's cache holds one score of a body of a record, which the model gave for
\* that very body: none of another body, and none made up for a call that failed.  A
\* search uses only such scores of the bodies it has read, or 0.
ScoresFitBodies ==
  /\ \A row \in judged : row.score \in ScoresOf(<<row.mem, row.body>>)
  /\ \A row, other \in judged : row.mem = other.mem /\ row.body = other.body => row = other
  /\ \A s \in Callers : \A i \in DOMAIN search[s].scores :
       search[s].scores[i] \in {0} \cup ScoresOf(search[s].found[i])

\* A search ends, though the expander, the embedder or the scan of its leg, or of one
\* that keeps the only thread, never does: unless the scan that never ends is on the
\* shared connection, and so keeps the lock of the index.
SearchAnswers == \A s \in Callers : []<>At(s, "idle") \/ <>[]IndexLocked

\* Ingest goes on to the next record, though there may always be a search in flight,
\* with the same exception.
IngestProceeds == []<>(ingest = 0) \/ <>[]IndexLocked

=============================================================================

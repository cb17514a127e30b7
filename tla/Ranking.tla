------------------------------ MODULE Ranking -------------------------------
(***************************************************************************)
(* How a search orders what it has found: reciprocal rank fusion, the      *)
(* multipliers of a record, the reranker, maximal marginal relevance and   *)
(* the order of the Jev judge.  Scores are integers in a common unit.      *)
(***************************************************************************)
EXTENDS Integers, Sequences, FiniteSets, FiniteSetsExt, Functions, TLC

CONSTANTS
  Memories,
  RrfK,         \* the k of reciprocal rank fusion
  Unit,         \* a score of 1 in fusion: a common multiple of k + rank
  Traits,       \* Traits[m]: importance in tenths, weight of its type in tenths,
                \*   half-lives since its content date, and whether it is timeless
  RecencyTenths,\* the weight of recency, in tenths
  QuerySim,     \* QuerySim[m]: how like the query the first chunk of m is, or None
  PairSim,      \* PairSim[m][n]: how like each other two are, in the same unit
  LambdaTenths, \* the lambda of MMR, in tenths
  None          \* no vector

ASSUME RankingAssumption ==
  /\ IsFiniteSet(Memories) /\ None \notin Int
  /\ RrfK \in Nat /\ Unit \in Nat \ {0}
  /\ \A rank \in 1..Cardinality(Memories) : Unit % (RrfK + rank) = 0
  /\ Traits \in [Memories -> [importance : Nat, bias : Nat, age : Nat, timeless : BOOLEAN]]
  /\ {RecencyTenths, LambdaTenths} \subseteq Nat
  /\ QuerySim \in [Memories -> Int \cup {None}]
  /\ PairSim \in [Memories -> [Memories -> Int]]

-----------------------------------------------------------------------------
(* Lists *)

\* What a list holds at some of its places.
Extract(list, places) ==
  [i \in 1..Cardinality(places) |->
     list[CHOOSE j \in places : Cardinality({k \in places : k < j}) = i - 1]]

Firsts(list) == Extract(list, {i \in DOMAIN list : \A j \in 1..i - 1 : list[j] # list[i]})

Only(list, S) == Extract(list, {i \in DOMAIN list : list[i] \in S})

Take(list, n) == SubSeq(list, 1, Min({n, Len(list)}))

\* Highest key first; equal keys stay in their order.
SortedBy(list, key) ==
  LET before(j, k) == key[list[j]] > key[list[k]] \/ (key[list[j]] = key[list[k]] /\ j < k)
  IN [i \in DOMAIN list |->
       list[CHOOSE j \in DOMAIN list : Cardinality({k \in DOMAIN list : before(k, j)}) = i - 1]]

-----------------------------------------------------------------------------
(* Fusion *)

\* 1 / (k + rank); a record that a list has not got adds nothing.
Share(list, m) ==
  IF m \in Range(list) THEN Unit \div (RrfK + CHOOSE i \in DOMAIN list : list[i] = m) ELSE 0

FusedScore(bm25, vec, m) == Share(bm25, m) + Share(Firsts(vec), m)

\* The chunks of a record count once, at the best of their ranks.
Fused(bm25, vec) ==
  SortedBy(Firsts(bm25 \o vec), [m \in Memories |-> FusedScore(bm25, vec, m)])

(* The multipliers of a record, each in a unit of its own *)

\* 1 + 0.2 * importance.
ImportanceBoost(m) == 50 + Traits[m].importance

TypeBias(m) == Traits[m].bias

\* 16 / 2^halves
Decayed(halves) == IF halves > 4 THEN 0 ELSE <<16, 8, 4, 2, 1>>[halves + 1]

\* 1 + weight / 2^age; a query about an earlier time takes no account of recency.
RecencyBoost(m, historical) ==
  LET halves == IF Traits[m].timeless THEN 0 ELSE Traits[m].age
  IN 160 + IF historical THEN 0 ELSE RecencyTenths * Decayed(halves)

FinalScore(bm25, vec, m, historical) ==
  FusedScore(bm25, vec, m) * ImportanceBoost(m) * TypeBias(m) * RecencyBoost(m, historical)

-----------------------------------------------------------------------------
(* Reranking *)

\* The first n by score, ties by the score they came with; the rest behind them.
Reranked(list, scores) ==
  LET n == Len(scores)
      order == SortedBy([i \in 1..n |-> i], scores)
  IN [i \in 1..n |-> list[order[i]]] \o SubSeq(list, n + 1, Len(list))

\* Those whose first chunk has a vector.
Vectored == {m \in Memories : QuerySim[m] # None}

\* The next record MMR picks: the most relevant, less what it shares with one
\* already picked.
Pick(picked, remaining) ==
  LET redundancy(m) == IF picked = {} THEN 0 ELSE Max({PairSim[m][n] : n \in picked})
      value == [m \in Vectored |->
                  LambdaTenths * QuerySim[m] - (10 - LambdaTenths) * redundancy(m)]
  IN SortedBy(remaining, value)[1]

\* The first n it picks, one after the other.
Picks(list, n) ==
  CHOOSE picked \in [1..n -> Range(list)] :
    \A i \in 1..n : LET before == {picked[j] : j \in 1..i - 1}
                    IN picked[i] = Pick(before, Only(list, Vectored \ before))

\* Records without a vector come after all that have one.
Diversified(list, k) ==
  LET with == Only(list, Vectored)
      without == Only(list, Memories \ Vectored)
  IN IF with = << >> THEN Take(list, k)
     ELSE Take(Picks(with, Min({k, Len(with)})) \o without, k)

-----------------------------------------------------------------------------
(* The Jev judge *)

\* What it is asked about: the served hits, then the next best of the search.
JevPool(served, candidates, size) == Take(Firsts(served \o candidates), size)

\* Its order: ties keep the order they came in.
JevRanked(pool, scores) == SortedBy(pool, scores)

\* What is served when it has answered, with the rest of the normal order when
\* the caller wants more than it was asked about.
JevOrdered(served, candidates, size, limit, scores) ==
  LET pool == JevPool(served, candidates, size)
      order == Take(JevRanked(pool, scores), limit)
      rest == Only(served, Memories \ Range(pool))
  IN order \o Take(rest, limit - Len(order))

=============================================================================

------------------------------ MODULE MCSearch ------------------------------
EXTENDS Search
Ms == {"m1", "m2", "m3"}
\* One search is reranked, the other is diversified and judged.
MCAsks ==
  "s1" :> [rerank |-> 2, mmr |-> FALSE, historical |-> TRUE, jev |-> FALSE]
  @@ "s2" :> [rerank |-> 0, mmr |-> TRUE, historical |-> FALSE, jev |-> TRUE]
MCFts == {<<"m1", "m3">>}
\* Two chunks of one record come first.
MCVec == {<<"m2", "m2", "m1">>}
\* The one without a vector is timeless; a boost turns the order of fusion around.
MCTraits == [m \in Ms |->
  [importance |-> IF m = "m1" THEN 0 ELSE 10, bias |-> IF m = "m3" THEN 10 ELSE 9,
   age |-> 1, timeless |-> m = "m3"]]
MCUnit == 61 * 62 * 63
MCQuerySim == "m1" :> 9 @@ "m2" :> 8 @@ "m3" :> None
MCPairSim == [m \in Ms |-> [n \in Ms |-> IF m = n THEN 10 ELSE 7]]
\* Of one record the model may say nothing that is a number.
MCJudge == [m \in Ms |-> IF m = "m1" THEN <<{1}, {3}>> ELSE <<{2, None}, {2, None}>>]
\* The last is not valid.
MCJevScores == {[m \in Ms |-> 1], [m \in Ms |-> IF m = "m3" THEN 3 ELSE 0], [m \in Ms |-> 4]}
\* Two searches at a time, or one while the vault changes under it.
MCPlans == {[slots |-> {"s1", "s2"}, events |-> {"open", "read"}, left |-> 1],
            [slots |-> {"s1"}, events |-> {"change", "judge"}, left |-> 2],
            [slots |-> {"s2"}, events |-> {"change", "keywords"}, left |-> 2]}
=============================================================================

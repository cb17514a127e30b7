----------------------------- MODULE StageTurns -----------------------------
(* What a stage's lock promises: its runners take turns.                   *)
CONSTANT Runners

VARIABLE working   \* the runners whose stage function is running

Init == working = {}

Start(r) == working = {} /\ working' = {r}

Stop(r) == working = {r} /\ working' = {}

Next == \E r \in Runners : Start(r) \/ Stop(r)

Spec == Init /\ [][Next]_working
=============================================================================

----------------------------- MODULE MCCleanup -----------------------------
EXTENDS Cleanup, TLC

\* Two notes that one source left behind, a skill, and a note yet to come.
MCIds    == <<"copy", "note1", "note2", "skill">>
MCOrigin == ("copy" :> "copies") @@ ("note1" :> "notes") @@ ("note2" :> "notes") @@ ("skill" :> "skills")
MCKind   == ("copies" :> "memory") @@ ("notes" :> "memory") @@ ("skills" :> "skill")
MCMarks  == ("a" :> {}) @@ ("task" :> {"task"}) @@ ("beat" :> {"heartbeat"})
MCLegacy == ("copy" :> {}) @@ ("note1" :> {"a"}) @@ ("note2" :> {"a"}) @@ ("skill" :> {"a", "beat"})
\* The later of the notes is the one that was used.
MCStanding == [m \in Memories |-> IF m = "note2" THEN 1 ELSE 0]
=============================================================================

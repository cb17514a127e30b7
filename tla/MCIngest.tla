------------------------------ MODULE MCIngest ------------------------------
EXTENDS Ingest, TLC

\* A watched transcript that turns into noise and back into a text, and an
\* authored note that comes and goes.
PlainTexts == ("log" :> <<"a", "boot", "b">>) @@ ("note" :> <<"c", "d">>)

\* Two notes and a transcript that come to hold one text; the transcript takes an
\* earlier text of its own up again before.
SharedTexts ==
  ("note" :> <<"a">>) @@ ("copy" :> <<"b", "a">>) @@ ("log" :> <<"c", "d", "c", "a">>)

PlainSlots == [r \in Refs |-> IF r \in Sessions THEN MaxIds + 1 ELSE 0]
=============================================================================

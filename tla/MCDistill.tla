----------------------------- MODULE MCDistill ------------------------------
EXTENDS SessionDistill, TLC
\* The session the model may refuse is walked first.
MCOrder == <<"s1", "s2">>
MCFirst == ("s1" :> 3) @@ ("s2" :> 1)
\* The other one leaves the window unless it goes on.
MCSince == ("s1" :> 0) @@ ("s2" :> -1)
MCFound == ("s1" :> {"none"}) @@ ("s2" :> {"hand", "pair", "twin"})
=============================================================================

----------------------------- MODULE MCCompact -----------------------------
EXTENDS VecCompact
MCBodies == {<<"a">>, <<"b">>, <<"b", "c">>}
=============================================================================

----------------------------- MODULE MCProjects -----------------------------
EXTENDS ProjectRecords
MCSlugs == <<"g1", "g2">>
=============================================================================

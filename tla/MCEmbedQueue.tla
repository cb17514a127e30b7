---------------------------- MODULE MCEmbedQueue ----------------------------
(* Small instances of EmbedQueue. *)
EXTENDS EmbedQueue, TLC

CONSTANTS m1, m2, w1, w2

\* Every version has a text of its own.
DistinctScript == {<<"a", "b", "c">>, <<"a", Empty, "c">>}
\* The refused text first or last.
PoisonScript == {<<"b", "c">>, <<"a", "b">>}
\* A text followed by the same text, another, no text, or a broken file.
AnyScript == {<<"a", x>> : x \in {"a", "b", Empty, Broken}}

WorkerSymmetry == Permutations({w1, w2})
=============================================================================

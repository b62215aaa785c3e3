------------------------------- MODULE MCYard -------------------------------
(* Instances of Yard for TLC. *)
EXTENDS Yard, TLC

CONSTANTS v1, v2, s1, s2

\* v2 is never cleared by customs.
OneCleared == {v1}
BothCleared == {v1, v2}

\* As an action constraint it makes Spec the ApartSpec of Yard, and TLC still
\* counts its actions one by one.
StaysApart == Apart'

Interchangeable == Permutations(Spots) \cup Permutations(References) \cup Permutations(Workers)
=============================================================================

------------------------------ MODULE MCDeploy ------------------------------
(* Two places for scripts and three process identifiers.                   *)
EXTENDS Deploy, TLC
CONSTANTS s1, s2, p1, p2, p3
SomeScripts == {s1, s2}
SomePids == {p1, p2, p3}
Interchangeable == Permutations(SomeScripts) \cup Permutations(SomePids)
=============================================================================

---------------------------- MODULE MCHotReload ----------------------------
(* Instances of HotReload for TLC. *)
EXTENDS HotReload, TLC

CONSTANTS r1, r2, s1, s2

MCRequest == {r1, r2}
MCSecret == {s1, s2}

Symmetric == Permutations(MCRequest)
=============================================================================

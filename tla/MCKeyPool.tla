----------------------------- MODULE MCKeyPool -----------------------------
(* Instances of KeyPool for TLC. *)
EXTENDS KeyPool, TLC

CONSTANTS r1, r2

MCRequest == {r1, r2}
NoValidation == {}
ValidateFirst == {0}
ValidateAll == Keys
=============================================================================

---------------------------- MODULE MCKeyLimits ----------------------------
(* Instances of KeyLimits for TLC: no headers, headers that report a lower  *)
(* limit that is used up and, for the window alone, a higher one that is    *)
(* not.                                                                     *)
EXTENDS KeyLimits

MCHeader == {[limit |-> 0, used |-> 0], [limit |-> 2, used |-> 2]}

WindowHeader == MCHeader \cup {[limit |-> 5, used |-> 3]}
=============================================================================

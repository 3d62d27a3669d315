--------------------------- MODULE MCProxyRequest ---------------------------
(* Instances of ProxyRequest for TLC. *)
EXTENDS ProxyRequest, TLC

CONSTANTS r1, r2, r3, r4

MCRequest   == {r1, r2}
FourRequest == {r1, r2, r3, r4}
Symmetric   == Permutations(Request)
=============================================================================

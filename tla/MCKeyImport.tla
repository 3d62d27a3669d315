---------------------------- MODULE MCKeyImport ----------------------------
(* Instance of KeyImport for TLC: two pages of either version and one that  *)
(* does not decrypt; the pages of version 1 have a token each, one of them  *)
(* brings only a key that the environment already has.                      *)
EXTENDS KeyImport, TLC

CONSTANTS p1, p2, q1, q2, bad, k1, k2, k3, env, t1, t2, r1, r2

MCPage == {p1, p2, q1, q2, bad}
MCKey == {k1, k2, k3, env}
MCToken == {t1, t2}
MCRequest == {r1, r2}
Version2(keys, ahead) == [version |-> 2, token |-> NoToken, keys |-> keys, ahead |-> ahead]
Version1(keys, token) == [version |-> 1, token |-> token, keys |-> keys, ahead |-> 0]
MCContent ==
  p1 :> Version2({k1}, 0) @@ p2 :> Version2({k1, k2}, 1) @@ bad :> Version2({k2}, 0)
  @@ q1 :> Version1({k2, k3}, t1) @@ q2 :> Version1({env}, t2)
MCReadable == MCPage \ {bad}
MCBadKey == {k3}
MCEnvKeys == {env}
=============================================================================

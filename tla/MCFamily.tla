------------------------------ MODULE MCFamily ------------------------------
(* Instances of FamilyProxy for TLC: two members with opposite policies, one *)
(* of them too small for the second request; and, for the counts, three      *)
(* requests that are not retried.                                            *)
EXTENDS FamilyProxy, TLC

CONSTANTS r1, r2, r3, m1, m2

MCRequest == {r1, r2}
MCMember == {m1, m2}
MCMaxRetries ==
  m1 :> [f \in Failures |-> IF f = "429" THEN 2 ELSE IF f \in {"5xx", "net"} THEN 1 ELSE 0]
  @@ m2 :> [f \in Failures |-> IF f = "429" THEN 1 ELSE IF f = "5xx" THEN 2 ELSE 0]
MCTooLarge == {<<r2, m2>>}

ThreeRequest == {r1, r2, r3}
NoRetry == [m \in MCMember |-> [f \in Failures |-> 0]]
Symmetric == Permutations(ThreeRequest)
=============================================================================

----------------------------- MODULE MCCatalog -----------------------------
(* Instance of Catalog for TLC: two providers that are only discovered; a   *)
(* first provider that cannot be asked, with static models, one of which no *)
(* listing would pass on; and that provider alone, with an alias.  Models   *)
(* do not affect one another, so one that is discovered will do.  The       *)
(* second provider goes by a name that is also that of a model.             *)
EXTENDS Catalog, TLC

CONSTANTS a, n, x, j1, j2

MCModel == {a, n, x}
MCNameOf == <<x, n>>
MCNonChat == {n, x}
MCWeak == {a}
MCRefresh == {j1, j2}
Plain == [models |-> {}, aliases |-> {}, askable |-> TRUE]
Static == [models |-> {a, n}, aliases |-> {}, askable |-> FALSE]
Alias == [models |-> {n}, aliases |-> {a}, askable |-> FALSE]
MCConfigs == {<<Plain, Plain>>, <<Static, Plain>>, <<Alias>>}
MCSymmetry == Permutations(MCRefresh)
=============================================================================

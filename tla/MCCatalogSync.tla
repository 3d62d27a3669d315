--------------------------- MODULE MCCatalogSync ---------------------------
(* Instance of CatalogSync for TLC: two runs at a time, in the same gateway *)
(* or in two; or, for Hermes, two commands.                                 *)
EXTENDS CatalogSync
=============================================================================

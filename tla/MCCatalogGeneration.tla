------------------------- MODULE MCCatalogGeneration -------------------------
(* Instances of CatalogGeneration for TLC. *)
EXTENDS CatalogGeneration

CONSTANTS r1, r2, r3

Plan(k1, k2, k3) == [r \in Requests |-> CASE r = r1 -> k1 [] r = r2 -> k2 [] OTHER -> k3]

MixedPlans == {Plan("refresh", "forced", "forced"), Plan("query", "forced", "query"),
               Plan("query", "refresh", "forced")}
=============================================================================

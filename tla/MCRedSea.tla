------------------------------ MODULE MCRedSea ------------------------------
(* RedSea on volumes of a few clusters and directory slots.                 *)
EXTENDS RedSea, TLC

CONSTANTS n1, n2, n3, f1, f2

\* f1 has one cluster, f2 two.
OneAndTwo == f1 :> 1 @@ f2 :> 2

\* n1 is in the catalog, n2 may be evicted, n3 is the user's.
CatalogN1 == <<n1>>
LegacyN2 == <<n2>>
AllBuiltIn == [n \in Names |-> f2]
=============================================================================

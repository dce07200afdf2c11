--------------------------- MODULE MCCatalogStore ---------------------------
(***************************************************************************)
(* TLC instance of CatalogStore: two targets whose manifests share a shard *)
(* and keep others of their own; the name of c is published again with     *)
(* another size, as d.                                                     *)
(***************************************************************************)
EXTENDS CatalogStore

CONSTANTS a, b, c, d, e, t1, t2

MCPacks == {a, b, c, d, e}
MCNameOf == [p \in MCPacks |-> IF p = d THEN c ELSE p]
MCTargets == {t1, t2}
MCManifest == [t \in MCTargets |-> IF t = t1 THEN <<a, b, c>> ELSE <<b, d, e>>]

=============================================================================

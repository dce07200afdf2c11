------------------------------ MODULE Catalog ------------------------------
(***************************************************************************)
(* What a reader of the regional catalog may observe through               *)
(* ShardStore.readActive: nothing, or the first shards of one manifest,    *)
(* which only grow, until a finished selection replaces them in one step.  *)
(***************************************************************************)
EXTENDS Naturals, Sequences

CONSTANTS
    Targets,   \* pairs of a build and a country
    Manifest   \* the shards of each target, in the order of its manifest

VARIABLE catalog

None == [target |-> "none", packs |-> <<>>, complete |-> FALSE]

Selection(t, k) == SubSeq(Manifest[t], 1, k)

Catalogs ==
    UNION {[target : {t}, packs : {Selection(t, k) : k \in 0..Len(Manifest[t])},
            complete : BOOLEAN] : t \in Targets}

Init == catalog = None

\* Shards become usable one download at a time.
Grow ==
    /\ catalog # None
    /\ \E c \in Catalogs :
          /\ c.target = catalog.target
          /\ Len(c.packs) = Len(catalog.packs) + 1
          /\ catalog' = c

\* Another build or country, or another storage cap, is taken over whole.
Switch == \E c \in Catalogs : c.complete /\ catalog' = c

\* From nothing the first shards may appear.
Appear == catalog = None /\ catalog' \in Catalogs

Lose == catalog' = None

Next == Grow \/ Switch \/ Appear \/ Lose

Spec == Init /\ [][Next]_catalog

=============================================================================

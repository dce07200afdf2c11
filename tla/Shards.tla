------------------------------- MODULE Shards -------------------------------
(***************************************************************************)
(* The lookups of one shard over its three families of records: metadata   *)
(* (M), the partitions of a track's seconds (R) and the leaves that hold   *)
(* the codes of a partition (T).                                           *)
(*                                                                         *)
(* A family is a function from the record numbers that the table has to    *)
(* what the record decodes to: {value}, or {} when decoding it fails.      *)
(* Lookups return {} for an error, {{}} for no record, {{value}} for one.  *)
(***************************************************************************)
EXTENDS Integers, Sequences, FiniteSets, Loops

Record(family, number) == IF number \in DOMAIN family THEN
                             IF family[number] = {} THEN {} ELSE {family[number]}
                          ELSE {{}}

Track(shard, track) == Record(shard.M, track)
Partitions(shard, track) == Record(shard.R, track)
Leaf(shard, partition) == Record(shard.T, partition)

\* A partition that the reverse index names must have its leaf.
NamedLeaf(shard, partition) == UNION Leaf(shard, partition)

\* How many of the seconds before this one are in the same partition.
Ordinal(partitions, second) ==
    Cardinality({i \in 1 .. second - 1 : partitions[i] = partitions[second]})

\* The code of a track's occurrence in a leaf, which holds its tracks in
\* ascending order.
CodeIn(leaf, track, ordinal) ==
    LET first == Cardinality({i \in DOMAIN leaf.ids : leaf.ids[i] < track})
        place == first + ordinal + 1
    IN  IF place \in DOMAIN leaf.ids /\ leaf.ids[place] = track THEN {leaf.codes[place]} ELSE {}

CodeOf(shard, track, partitions, second) ==
    UNION {CodeIn(leaf, track, Ordinal(partitions, second)) :
             leaf \in NamedLeaf(shard, partitions[second])}

Stored(partition, code) == [partition |-> partition, code |-> code]

\* The code of one second of a track.
TrackCode(shard, track, second) ==
    LET InRange(partitions) ==
            IF second \notin DOMAIN partitions THEN {{}}
            ELSE {{Stored(partitions[second], c)} :
                    c \in CodeOf(shard, track, partitions, second)}
        Found(result) == IF result = {} THEN {{}} ELSE UNION {InRange(p) : p \in result}
    IN  UNION {Found(result) : result \in Partitions(shard, track)}

\* Mutant: every occurrence is taken for the first.
OnlyFirst(ordinals, p) == [q \in DOMAIN ordinals \cup {p} |-> 0]

\* How many occurrences of each partition have passed.
Counted(ordinals, p) ==
    [q \in DOMAIN ordinals \cup {p} |->
       IF q \notin DOMAIN ordinals THEN 1 ELSE ordinals[q] + IF q = p THEN 1 ELSE 0]

\* The next second of a track: its code, and its partition counted.
NextCode(shard, track, partitions, s) ==
    LET p == partitions[Len(s.codes) + 1]
        ordinal == IF p \in DOMAIN s.ordinals THEN s.ordinals[p] ELSE 0
    IN  {[codes |-> Append(s.codes, Stored(p, c)), ordinals |-> Counted(s.ordinals, p)] :
           c \in UNION {CodeIn(leaf, track, ordinal) : leaf \in NamedLeaf(shard, p)}}

\* The codes of all its seconds, the occurrences counted as they pass.
TrackCodes(shard, track) ==
    LET Start == [codes |-> <<>>, ordinals |-> [p \in {} |-> 0]]
        All(partitions) ==
            {{s.codes} : s \in Try(Start, LAMBDA s : NextCode(shard, track, partitions, s),
                                   Len(partitions))}
        Found(result) == IF result = {} THEN {{}} ELSE UNION {All(p) : p \in result}
    IN  UNION {Found(result) : result \in Partitions(shard, track)}

\* The partitions of many tracks at once, of those that have a record.
PartitionsBatch(shard, tracks) ==
    IF \E t \in tracks : Partitions(shard, t) = {} THEN {}
    ELSE {[t \in tracks \cap DOMAIN shard.R |-> CHOOSE p \in shard.R[t] : TRUE]}

\* Every metadata record of the shard.
Tracks(shard) ==
    IF \E t \in DOMAIN shard.M : shard.M[t] = {} THEN {}
    ELSE {{<<t, CHOOSE m \in shard.M[t] : TRUE>> : t \in DOMAIN shard.M}}

\* Every record decodes. That the records agree is not looked at.
Valid(shard) ==
    /\ \A t \in DOMAIN shard.M : shard.M[t] # {}
    /\ \A t \in DOMAIN shard.R : shard.R[t] # {}
    /\ \A p \in DOMAIN shard.T : shard.T[p] # {}
=============================================================================

----------------------------- MODULE Quantizer -----------------------------
(***************************************************************************)
(* The distances of the matcher: a stored code names one codeword per      *)
(* subspace, a query is compared with it through a table of the squared    *)
(* distances between its subspaces and all codewords. Numbers are          *)
(* integers: the rounding of floats is left out, the layout of the flat    *)
(* arrays, the lanes of the sums and the order of ties are not.            *)
(*                                                                         *)
(* A configuration is the record of Records!NewConfig; flat arrays are     *)
(* sequences, indices count from 0 as in the code.                         *)
(***************************************************************************)
EXTENDS Records, FiniteSets

LOCAL INSTANCE SequencesExt
LOCAL INSTANCE FiniteSetsExt
LOCAL INSTANCE Shards

\* The sums are written out for this size of a subspace.
ASSUME EightLanes == SubspaceSize = 8

Slice(flat, at, size) == SubSeq(flat, at + 1, at + size)
Total(terms) == FoldLeft(LAMBDA sum, x : sum + x, 0, terms)

\* Where a codeword of a subspace begins in the codebook.
CodewordStart(subspace, codeword) == (subspace * Codewords + codeword) * SubspaceSize

Codeword(config, subspace, codeword) ==
    Slice(config.codebook, CodewordStart(subspace, codeword), SubspaceSize)

\* The point that a code stands for.
ReconstructCode(config, code) ==
    [dimension \in 1 .. EmbeddingSize |->
       LET subspace == (dimension - 1) \div SubspaceSize
       IN  config.codebook[CodewordStart(subspace, code[subspace + 1])
                             + ((dimension - 1) % SubspaceSize) + 1]]

\* The norms, summed in the order of the lanes that the code keeps.
QueryNorm(v) ==
    LET Lane(i) == v[i] * v[i] + v[i + 4] * v[i + 4]
    IN  (Lane(1) + Lane(2)) + (Lane(3) + Lane(4))

CenterNorm(v) ==
    v[1] * v[1] + ((v[2] * v[2] + v[3] * v[3]) + (v[4] * v[4] + v[5] * v[5]))
      + v[6] * v[6] + v[7] * v[7] + v[8] * v[8]

Dot(u, v) == Total([i \in DOMAIN u |-> u[i] * v[i]])

\* The table: the squared distances of a query's subspaces to all codewords.
AsymmetricLookup(config, query) ==
    LET Part(subspace) == Slice(query, subspace * SubspaceSize, SubspaceSize)
        Cell(part, center) == QueryNorm(part) + CenterNorm(center) - 2 * Dot(part, center)
    IN  IF Len(query) # EmbeddingSize THEN {}
        ELSE {[i \in 1 .. Subquantizers * Codewords |->
                 LET subspace == (i - 1) \div Codewords
                 IN  Cell(Part(subspace), Codeword(config, subspace, (i - 1) % Codewords))]}

\* Mutant: the rows of the table are taken to be as long as a code.
LookupDistanceShort(lookup, code) ==
    Total([i \in 1 .. Subquantizers |-> lookup[(i - 1) * Subquantizers + code[i] + 1]])

LookupDistance(lookup, code) ==
    Total([i \in 1 .. Subquantizers |-> lookup[(i - 1) * Codewords + code[i] + 1]])

\* The code nearest to a query: the first of the nearest codewords, subspace
\* by subspace.
QuantizeQuery(config, query) ==
    LET Nearest(lookup, subspace) ==
            LET At(codeword) == lookup[subspace * Codewords + codeword + 1]
            IN  Min({c \in 0 .. Codewords - 1 :
                       \A d \in 0 .. Codewords - 1 : At(c) <= At(d)})
        Code(lookup) == [i \in 1 .. Subquantizers |-> Nearest(lookup, i - 1)]
    IN  {[code |-> Code(lookup), distance |-> LookupDistance(lookup, Code(lookup))] :
           lookup \in AsymmetricLookup(config, query)}

\* The partitions to search, nearest first, ties by number.
NearestPartitions(config, query) ==
    LET Far(p) == Total([i \in 1 .. EmbeddingSize |->
                     LET difference == query[i] - config.centroids[p * EmbeddingSize + i]
                     IN  difference * difference])
        Before(x, y) == x[2] < y[2] \/ (x[2] = y[2] /\ x[1] < y[1])
    IN  IF Len(query) # EmbeddingSize THEN {}
        ELSE {SubSeq(Ordered({<<p, Far(p)>> : p \in 0 .. config.partitions - 1}, Before),
                     1, config.probes)}

\* The distance of one stored code; the partition is only checked.
AsymmetricDistance(config, query, partition, code) ==
    IF Len(query) # EmbeddingSize \/ partition >= config.partitions THEN {}
    ELSE {LookupDistance(lookup, code) : lookup \in AsymmetricLookup(config, query)}

\* The tracks of the leaves that a query probes, each at its least distance.
SearchCandidates(shards, config, query) ==
    LET Occurrences(leaf, lookup) ==
            {<<leaf.ids[i], LookupDistance(lookup, leaf.codes[i])>> : i \in DOMAIN leaf.ids}
        Leaves(s, partitions) == [i \in DOMAIN partitions |-> Leaf(shards[s], partitions[i][1])]
        Candidate(s, t, seen) ==
            [shard |-> s, track |-> t, distance |-> Min({x[2] : x \in {y \in seen : y[1] = t}})]
        OfShard(s, leaves, lookup) ==
            LET seen == UNION {Occurrences(leaf, lookup) : leaf \in UNION UNION Range(leaves)}
            IN  {Candidate(s, t, seen) : t \in {x[1] : x \in seen}}
        Before(x, y) ==
            \/ x.distance < y.distance
            \/ /\ x.distance = y.distance
               /\ x.shard < y.shard \/ (x.shard = y.shard /\ x.track < y.track)
        Ranked(partitions, lookup) ==
            IF \E s \in DOMAIN shards : {} \in Range(Leaves(s, partitions)) THEN {}
            ELSE {Ordered(UNION {OfShard(s, Leaves(s, partitions), lookup) : s \in DOMAIN shards},
                          Before)}
    IN  UNION {Ranked(partitions, lookup) : partitions \in NearestPartitions(config, query),
                                            lookup \in AsymmetricLookup(config, query)}

\* The best candidates with metadata, which is looked up after the cut.
Search(shards, config, query, limit) ==
    LET Metadata(x) == Track(shards[x.shard], x.track)
        Cut(ranked) == SubSeq(ranked, 1, Min({Len(ranked), limit}))
    IN  UNION {IF \E i \in DOMAIN cut : Metadata(cut[i]) = {} THEN {}
               ELSE {SelectSeq(cut, LAMBDA x : Metadata(x) # {{}})} :
                 cut \in {Cut(ranked) : ranked \in SearchCandidates(shards, config, query)}}
=============================================================================

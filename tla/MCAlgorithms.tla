---------------------------- MODULE MCAlgorithms ----------------------------
(***************************************************************************)
(* The inputs on which the algorithms are checked, at a small scale.       *)
(***************************************************************************)
EXTENDS Algorithms

LOCAL INSTANCE SequencesExt
LOCAL INSTANCE FiniteSetsExt

MCRates == 1 .. 8
MCLengths == 0 .. 60

-------------------------------- (* Selection *) -----------------------------

Arrays(n, distances) == {[i \in 0 .. n - 1 |-> <<f[i], i>>] : f \in [0 .. n - 1 -> 1 .. distances]}

\* Longer ones, in waves.
Waves == {[i \in 0 .. n - 1 |-> <<(a * i + b * i * i) % m, i>>] :
            n \in {11, 17}, a \in 0 .. 4, b \in 0 .. 2, m \in {2, 5, 7, 13}}

SelectCases ==
    {[kind |-> "select", array |-> v, nth |-> n] : v \in Arrays(8, 3), n \in {0, 2, 4, 7}}
    \cup {[kind |-> "select", array |-> v, nth |-> n] :
            v \in UNION {Arrays(n, 3) : n \in 4 .. 5}, n \in {0, 1, 3}}
    \cup {[kind |-> "select", array |-> v, nth |-> n] : v \in Waves, n \in {0, 3, 8, 10}}

GatherCases ==
    {[kind |-> "gather", limit |-> limit, stream |-> [i \in 1 .. 6 |-> <<f[i], i>>]] :
       limit \in 1 .. 2, f \in [1 .. 6 -> 1 .. 3]}

---------------------------------- (* Tables *) ------------------------------

Keys == {<<0>>, <<0, 1>>, <<0, 1, 0>>, <<1>>, <<1, 1>>, <<2>>}
SortedKeys == Ordered(Keys, Sst!KeyLess)

SharedPrefix(a, b) ==
    Max({0} \cup {n \in 1 .. Min({Len(a), Len(b)}) : SubSeq(a, 1, n) = SubSeq(b, 1, n)})

\* A block: its entries, one restart at 0, the number of restarts.
BlockOfEntries(entries) ==
    FlattenSeq([i \in DOMAIN entries |->
        LET key == entries[i][1]
            shared == IF i = 1 THEN 0 ELSE SharedPrefix(entries[i - 1][1], key)
        IN  <<shared, Len(key) - shared, Len(entries[i][2])>>
              \o SubSeq(key, shared + 1, Len(key)) \o entries[i][2]]) \o <<0, 1>>

Sealed(block) == block \o <<0, Sst!Checksum(block, 0)>>

\* A file of two blocks and the index; the keys of the second are above the
\* last key of the first, which separates them.
TableOf(first, second) ==
    LET one == BlockOfEntries(first)
        two == BlockOfEntries(second)
        start == Len(one) + 2
        index == BlockOfEntries(<<<<Last(first)[1], <<0, Len(one)>>>>,
                                  <<Last(second)[1], <<start, Len(two)>>>>>>)
        at == start + Len(two) + 2
    IN  [data |-> Sealed(one) \o Sealed(two) \o Sealed(index)
                    \o <<0, 0, at, Len(index), 0, Sst!Magic>>,
         blocks |-> <<<<0, Len(one)>>, <<start, Len(two)>>>>, footer |-> at + Len(index) + 2]

Valued(keys) == [i \in DOMAIN keys |-> <<keys[i], [j \in 1 .. i % 3 |-> i]>>]

Contents == {<<<<1, 2, 3>>, <<5, 6>>>>, <<<<1, 3>>, <<4, 5, 6>>>>, <<<<2>>, <<3, 4>>>>,
             <<<<1, 2, 4>>, <<6>>>>}

TableCases ==
    LET Rows(places) == Valued([i \in DOMAIN places |-> SortedKeys[places[i]]])
        Case(c, data, damaged, rewritten) ==
            [kind |-> "table", data |-> data, damaged |-> damaged, rewritten |-> rewritten,
             entries |-> Rows(c[1]) \o Rows(c[2]), keys |-> Keys,
             batches |-> {Reverse(SortedKeys) \o SortedKeys} \cup {<<k, l>> : k, l \in Keys}]
        Broken(c, table) ==
            {Case(c, [table.data EXCEPT ![at] = v], TRUE, FALSE) :
               at \in 1 .. table.footer, v \in {0, 1, 2, 9}}
        Resealed(table, block, at, v) ==
            LET end == block[1] + block[2]
                data == [table.data EXCEPT ![at] = v]
            IN  [data EXCEPT ![end + 2] = Sst!Checksum(SubSeq(data, block[1] + 1, end), 0)]
        Malformed(c, table) ==
            {Case(c, Resealed(table, table.blocks[x[1]], x[2], v), TRUE, TRUE) :
               v \in {0, 1, 2, 3}, x \in {y \in {1, 2} \X (1 .. table.footer) :
                      y[2] \in table.blocks[y[1]][1] + 1 .. table.blocks[y[1]][1] + table.blocks[y[1]][2]}}
    IN  UNION {{Case(c, table.data, FALSE, FALSE)} \cup Malformed(c, table)
                 \cup {x \in Broken(c, table) : x.data # table.data} :
                 <<c, table>> \in {<<d, TableOf(Rows(d[1]), Rows(d[2]))>> : d \in Contents}}

---------------------------------- (* Formats *) -----------------------------

MCFast == [i \in 0 .. 3 |-> <<0, 1, 0, 8>>[i + 1]]
MCPrimary == [symbol \in {0, 1} |-> symbol + 1]
MCLongCodes == <<[width |-> 3, code |-> 3, symbol |-> 2], [width |-> 3, code |-> 7, symbol |-> 9]>>

\* A varint, least significant part first.
VarintOf(value) ==
    LET Parts == Max({1} \cup {n \in 1 .. 3 : value >= 4 ^ (n - 1)})
    IN  [i \in 1 .. Parts |-> ((value \div 4 ^ (i - 1)) % 4) + IF i < Parts THEN 4 ELSE 0]

VarintCases ==
    {[kind |-> "varint", data |-> VarintOf(v) \o tail, expected |-> {[value |-> v, end |-> Len(VarintOf(v))]}] :
       v \in 0 .. 31, tail \in {<<>>, <<7>>}}
    \cup {[kind |-> "varint", data |-> SubSeq(VarintOf(v), 1, Len(VarintOf(v)) - 1), expected |-> {}] :
            v \in 0 .. 31}
    \cup {[kind |-> "varint", data |-> <<a, b, c>> \o tail, expected |-> {}] :
            a \in 4 .. 7, b \in 4 .. 7, c \in 2 .. 7, tail \in {<<>>, <<0>>}}

\* Fields: a varint, a fixed32, a fixed64 and bytes.
TagOf(number, wire) == number * 8 + wire
BytesOf(cells) == <<Len(cells)>> \o cells
Messages ==
    LET Item(number, wire, value) == [number |-> number, wire |-> wire, value |-> value]
        Items == {Item(n, Varint, <<v>>) : n \in {1, 3}, v \in {0, 7}}
                 \cup {Item(1, Fixed32, <<5>>), Item(2, Fixed64, <<1, 2>>)}
                 \cup {Item(2, Bytes, cells) : cells \in {<<>>, <<4>>, <<8, 16, 24>>}}
    IN  UNION {[1 .. n -> Items] : n \in 0 .. 2}

MessageOf(items) ==
    FlattenSeq([i \in DOMAIN items |->
        <<TagOf(items[i].number, items[i].wire)>>
          \o IF items[i].wire = Bytes THEN BytesOf(items[i].value) ELSE items[i].value])

FieldCases ==
    LET Case(data, expected) == [kind |-> "fields", data |-> data, expected |-> expected]
        \* Cut inside its last item.
        Cut(items) == {SubSeq(MessageOf(items), 1, n) :
                         n \in Len(MessageOf(Front(items))) + 1 .. Len(MessageOf(items)) - 1}
    IN  {Case(MessageOf(m), {m}) : m \in Messages}
        \cup UNION {{Case(data, {}) : data \in Cut(m)} : m \in Messages \ {<<>>}}
        \cup {Case(MessageOf(m) \o bad, {}) : m \in Messages, bad \in {<<1>>, <<0, 0>>, <<11, 1>>}}

\* Ascending track numbers, their deltas coded as short as they can be.
BitsOf(value, width) == [i \in 1 .. width |-> (value \div 2 ^ (i - 1)) % 2]
DeltaBits(delta) ==
    CASE delta = 0 -> <<0>> [] delta = 1 -> <<1, 0>> [] delta = 2 -> <<1, 1, 0>>
      [] delta = 3 -> <<1, 1, 1, 0>> \o BitsOf(3, 2)
      [] delta > 3 -> <<1, 1, 1, 1, 0>> \o BitsOf(delta - 4, 4)
EndBits == <<1, 1, 1, 0, 0, 0>>
StreamOf(deltas) ==
    LET bits == FlattenSeq([i \in DOMAIN deltas |-> DeltaBits(deltas[i])]) \o EndBits
        Bit(i) == IF i <= Len(bits) THEN bits[i] ELSE 0
    IN  [i \in 1 .. (Len(bits) + 2) \div 3 |->
           Bit(3 * i - 2) + 2 * Bit(3 * i - 1) + 4 * Bit(3 * i)]

IdsOf(deltas) == [i \in DOMAIN deltas |-> Total(SubSeq(deltas, 1, i))]
IdCases ==
    LET Deltas == UNION {[1 .. n -> {0, 1, 2, 3, 4, 9, 15}] : n \in 0 .. 3}
        Case(data, expected) == [kind |-> "ids", data |-> data, expected |-> expected]
        Fit(d) == \A i \in DOMAIN d : IdsOf(d)[i] < 16
    IN  {Case(StreamOf(d) \o tail, IF Fit(d) THEN {IdsOf(d)} ELSE {}) :
           d \in Deltas, tail \in {<<>>, <<5>>}}
        \cup {Case(SubSeq(StreamOf(d), 1, n), {}) : n \in 0 .. 1, d \in Deltas}
        \cup {Case(Front(StreamOf(d)), {}) : d \in Deltas}

LeafCases ==
    LET Case(stream, codes, expected) ==
            [kind |-> "leaf", expected |-> expected,
             data |-> <<TagOf(1, Bytes)>> \o BytesOf(codes) \o <<TagOf(3, Bytes)>> \o BytesOf(stream)]
        Pairs(codes) == [i \in 1 .. Len(codes) \div 2 |-> <<codes[2 * i - 1], codes[2 * i]>>]
        Some(n) == [i \in 1 .. n |-> (5 * i) % 7]
    IN  {Case(StreamOf(d), Some(n),
              IF n = 2 * Len(d) THEN {[ids |-> IdsOf(d), codes |-> Pairs(Some(n))]} ELSE {}) :
           d \in UNION {[1 .. m -> {0, 1, 4}] : m \in 0 .. 3}, n \in 0 .. 7}

PackedPartitions(parts) ==
    LET At(i) == IF i <= Len(parts) THEN parts[i] ELSE 1023
        Group(g) == [place \in 1 .. 4 |-> At(4 * (g - 1) + place) % 256]
                      \o <<Total([place \in 1 .. 4 |->
                             (At(4 * (g - 1) + place) \div 256) * 4 ^ (place - 1)])>>
    IN  FlattenSeq([g \in 1 .. (Len(parts) + 3) \div 4 |-> Group(g)])

PartitionCases ==
    LET Case(data, expected) == [kind |-> "partitions", data |-> data, expected |-> expected]
        Lists == UNION {[1 .. n -> {0, 257, 999, 1000}] : n \in 0 .. 5}
    IN  {Case(PackedPartitions(p), IF 1000 \in Range(p) THEN {} ELSE {p}) : p \in Lists}
        \cup {Case(PackedPartitions(<<7, 1023, 8>>), {}), Case(<<1, 2, 3>>, {})}

----------------------------- (* The configuration *) ------------------------

Infinite == 99
MCFinite(x) == x # Infinite

Number(n, v) == <<TagOf(n, Varint), v>>
Float(n, v) == <<TagOf(n, Fixed32), v>>
Message(n, cells) == <<TagOf(n, Bytes)>> \o BytesOf(cells)
Repeated(n, entries) == FlattenSeq([i \in DOMAIN entries |-> Message(n, entries[i])])

Noise(n, seed) == [i \in 1 .. n |-> ((seed * i + i * i) % 7) - 3]
TestCodebook(seed) == Noise(Subquantizers * Codewords * SubspaceSize, seed)
TestCentroids(seed, count) == Noise(count * EmbeddingSize, seed + 1)
Config(seed, partitions, probes) ==
    [partitions |-> partitions, probes |-> probes, codebook |-> TestCodebook(seed),
     centroids |-> TestCentroids(seed, partitions), neighbors |-> 20, threshold |-> 4]

\* A configuration file, with a mistake if any.
FileOf(c, mistake) ==
    LET Is(m, yes, no) == IF mistake = m THEN yes ELSE no
        Vector(flat, at, size) == Message(1, SubSeq(flat, at + 1, at + size))
        Words(s) == [w \in 1 .. Codewords - Is("codeword", s, 0) |->
                       Vector(c.codebook, (s * Codewords + w - 1) * SubspaceSize,
                              SubspaceSize - Is("float", s, 0))]
        hashing == Repeated(1, [s \in 1 .. Subquantizers - Is("subspace", 1, 0) |->
                                  Repeated(1, Words(s - 1))])
                     \o Number(2, Is("distance", 1, 0))
        partitioner == Repeated(1, [p \in 1 .. c.partitions |->
                                      Vector(c.centroids, (p - 1) * EmbeddingSize, EmbeddingSize)])
                         \o Number(3, 0) \o Is("twice", Number(3, 0), <<>>)
        Weights == FlattenSeq([i \in 1 .. 9 - Is("weights", 1, 0) |-> Float(i + 7, i)])
        matcher == Number(1, c.partitions) \o Number(2, 2 * c.probes + Is("odd", 1, 0))
                     \o Message(3, hashing) \o Message(4, partitioner)
                     \o Message(6, Number(7, Is("neighbors", 0, c.neighbors)) \o Weights)
        Threshold == CASE mistake = "absent" -> <<>>
                       [] mistake = "infinite" -> Float(19, Infinite)
                       [] OTHER -> Float(19, c.threshold)
    IN  Is("matcher", <<>>, Message(13, matcher)) \o Threshold
          \o Is("thresholds", Float(19, 4), <<>>)

Mistakes == {"codeword", "float", "subspace", "distance", "twice", "neighbors", "weights",
             "odd", "infinite", "matcher", "thresholds"}

ConfigCases ==
    LET Case(c, mistake, expected) ==
            [kind |-> "config", data |-> FileOf(c, mistake), expected |-> expected]
    IN  {Case(Config(1, 2, n), "none", {Config(1, 2, n)}) : n \in {1, 2}}
        \cup {Case(Config(1, 2, n), "none", {}) : n \in {0, 3}}
        \cup {Case(Config(1, 2, 1), "absent", {[Config(1, 2, 1) EXCEPT !.threshold = 0]})}
        \cup {Case(Config(1, 2, 1), m, {}) : m \in Mistakes}

\* A metadata record with some of its fields; a text that holds Broken is no
\* UTF-8.
Broken == 77
MCUtf8(text) == Broken \notin Range(text)

TrackCases ==
    LET Some(present, cells) == IF present THEN cells ELSE <<>>
        Case(id, title, album, timed, twice) ==
            [kind |-> "track",
             data |-> Some(title # <<>>, Message(3, title)) \o Message(1, id)
                        \o Some(timed, <<TagOf(6, Fixed64), 5, 6>> \o Number(14, 9))
                        \o Message(13, album) \o Some(twice, Message(1, <<8>>)),
             expected |-> IF Broken \in Range(id \o title \o album) THEN {}
                          ELSE {[id |-> id, title |-> title, artist |-> <<>>,
                                 duration |-> Some(timed, <<5, 6>>), year |-> Some(timed, <<9>>)]}]
        Texts == {<<>>, <<3>>, <<3, Broken>>}
    IN  {Case(id, title, album, timed, twice) : id \in Texts, title \in Texts, album \in Texts,
                                               timed \in BOOLEAN, twice \in BOOLEAN}

---------------------------- (* Numbers and shapes *) ------------------------

TransformCases ==
    {[kind |-> "transform", size |-> size, at |-> at] : size \in {512, 1024},
       at \in {0, 1, 2, 3, 6, 15, 63, 128, 255, 256, 257, 300, 510, 511}}
    \cup {[kind |-> "transform", size |-> 1024, at |-> at] : at \in {512, 513, 768, 1023}}

\* Three tracks in three partitions, a track without metadata among them.
TestShard ==
    LET L(ids, codes) == {[ids |-> ids, codes |-> codes]}
    IN  [M |-> [t \in {1, 2} |-> {t}], R |-> <<>>,
         T |-> [p \in 0 .. 2 |->
                  CASE p = 0 -> L(<<1, 1, 2>>, <<<<0, 1>>, <<1, 1>>, <<1, 0>>>>)
                    [] p = 1 -> L(<<2, 3>>, <<<<0, 0>>, <<1, 1>>>>)
                    [] p = 2 -> L(<<1, 3>>, <<<<0, 0>>, <<0, 1>>>>)]]

DistanceCases ==
    {[kind |-> "distance", config |-> Config(seed, 3, probes), limit |-> limit,
      query |-> Noise(EmbeddingSize, other), shard |-> TestShard] :
       seed \in 1 .. 6, other \in 1 .. 6, probes \in 1 .. 2, limit \in {1, 3}}

Cells3(height, width, channels, seed) ==
    [height |-> height, width |-> width, channels |-> channels,
     values |-> [i \in 0 .. height * width * channels - 1 |-> (i * i + seed * i) % 7]]

LayerCases ==
    {[kind |-> "layer", given |-> Cells3(h, w, 2, 3), shape |-> <<k[1], k[2], 2, 2>>, stride |-> s,
      bias |-> [o \in 0 .. 1 |-> 3 * o - 2],
      kernel |-> [i \in 0 .. k[1] * k[2] * 4 - 1 |-> ((i * i + 1) % 5) - 2]] :
       h \in {3, 4}, w \in {4, 5}, k \in {<<1, 4>>, <<4, 1>>, <<3, 3>>, <<2, 2>>},
       s \in {<<1, 1>>, <<1, 2>>, <<2, 1>>}}

OtherLayerCases ==
    {[kind |-> "dense", vector |-> [i \in 0 .. n - 1 |-> i + 2], bias |-> [o \in 0 .. m - 1 |-> 7 * o],
      rows |-> [i \in 0 .. n - 1 |-> [o \in 0 .. m - 1 |-> ((3 * i + o * o) % 5) - 3]]] :
       n \in 1 .. 4, m \in 1 .. 3}
    \cup {[kind |-> "head", head |-> [values |-> [i \in 0 .. 5 |-> i + 1], channels |-> 2,
            dimensions |-> 3, hidden |-> h, kernel |-> [i \in 0 .. 6 * h - 1 |-> (i * i) % 5],
            out |-> [i \in 0 .. 3 * h - 1 |-> (i * i + i) % 7], bias |-> [d \in 0 .. 2 |-> d]]] :
            h \in 1 .. 3}

WindowCases ==
    {[kind |-> "windows", music |-> music, samples |-> n] : music \in BOOLEAN,
       n \in {0, 1} \cup UNION {{k * 11025 - 1, k * 11025, k * 11025 + 1} : k \in 1 .. 20}}

\* Matches and misses at a few times, two of them equal; the clock falls back to
\* 30 seconds at a reboot. Rows of misses of the length that counts, or less.
Miss(at) == [at |-> at, matched |-> FALSE, offsets |-> {}, duration |-> {}]
Match(at, offset, duration) ==
    [at |-> at, matched |-> TRUE, offsets |-> {offset}, duration |-> duration]

TimesOfEvents == {29000, 700000, 720001, 1200001}
EventsAt(at) ==
    {[entry |-> e, now |-> at + 9000] :
       e \in {Miss(at), Match(at, 999, {}), Match(at, 60999, {110000}), Match(at, 61000, {180000})}}
ShortEvents == UNION {EventsAt(at) : at \in TimesOfEvents}

MissesEvery(n, gap) == [i \in 1 .. n |-> [entry |-> Miss(i * gap), now |-> i * gap + 9000]]
LongEvents ==
    UNION {UNION {{MissesEvery(n, gap), MissesEvery(n, gap) \o <<e>>, <<e>> \o MissesEvery(n, gap)} :
              e \in EventsAt(29000)} : n \in {9, 10}, gap \in {50000, 80000, 80001}}

MemoryCases ==
    {[kind |-> "memory", events |-> events, now |-> now] :
       events \in {<<>>} \cup LongEvents \cup
                   UNION {[1 .. n -> ShortEvents] : n \in 1 .. 3},
       now \in {30000, 45000, 712345, 1200000, 1920002}}

\* Listings of a few pages and of as many as are allowed, or one more.
Listings ==
    UNION {[1 .. n -> {{}, {0}, {1, 0}, {2}, {3, 1}}] : n \in 1 .. 3}
    \cup {[i \in 1 .. n |-> {(7 * i) % 32}] : n \in {31, 32, 33}}

ListingCases ==
    {[kind |-> "listing", pages |-> pages, back |-> back, odd |-> odd, redirects |-> n, fault |-> f] :
       pages \in Listings, back \in {{}, {2}}, odd \in 1 .. 2, n \in {0, 1, 5, 6},
       f \in {"none", "insecure", "status", "declared", "length"}}

RegularListingCases ==
    {c \in ListingCases : (c.back = {} \/ Len(c.pages) > 1) /\ c.odd \in DOMAIN c.pages}

Entries ==
    {[type |-> "other"]}
    \cup {[type |-> "shard", name |-> name, wellNamed |-> TRUE, size |-> size, compressed |-> 1,
           secureUrls |-> <<TRUE>>, codes |-> codes] :
            name \in {"a", "b", "c"}, size \in {1, 3}, codes \in {{"US"}, {" us", "ca"}, {"ca", " "}}}
    \cup {[type |-> "shard", name |-> "d", wellNamed |-> named, size |-> size, compressed |-> most,
           secureUrls |-> urls, codes |-> codes] :
            named \in BOOLEAN, size \in {0, 2}, most \in {1, Client!MaxPackBytes + 1},
            urls \in {<<>>, <<TRUE, FALSE>>, <<TRUE>>}, codes \in {{"us"}, {" "}, {"us", "usa"}}}

\* Sound are those of good entries with names of their own.
ManifestCases ==
    LET Good == {e \in Entries : e.type = "other" \/ e.name # "d"}
        Shards(f) == {i \in DOMAIN f : f[i].type = "shard"}
        Sound(f) == /\ \A i \in DOMAIN f : f[i] \in Good
                    /\ Cardinality({f[i].name : i \in Shards(f)}) = Cardinality(Shards(f))
    IN  {[kind |-> "manifest", entries |-> f, sound |-> Sound(f)] :
           f \in UNION {[1 .. n -> Good] : n \in 0 .. 3} \cup [1 .. 2 -> Entries]}

-----------------------------------------------------------------------------

MCKinds == {"select", "gather", "table", "formats", "transform", "distance", "networks", "memory",
            "listing", "manifest"}

MCCases(kind) ==
    CASE kind = "select" -> SelectCases
      [] kind = "gather" -> GatherCases
      [] kind = "table" -> TableCases
      [] kind = "formats" -> VarintCases \cup FieldCases \cup IdCases \cup LeafCases
                                \cup PartitionCases \cup ConfigCases \cup TrackCases
      [] kind = "transform" -> TransformCases
      [] kind = "distance" -> DistanceCases
      [] kind = "networks" -> {[kind |-> "networks"]} \cup WindowCases \cup LayerCases
                                \cup OtherLayerCases
      [] kind = "memory" -> MemoryCases
      [] kind = "listing" -> RegularListingCases
      [] kind = "manifest" -> ManifestCases
=============================================================================

----------------------------- MODULE Algorithms -----------------------------
(***************************************************************************)
(* The pure algorithms of the recognizer against what they are for. Each   *)
(* case is one input of one of them; a behavior picks one. The resampler,  *)
(* which has states, runs beside them.                                     *)
(*                                                                         *)
(* The definitions under "What the ... is for" are the references that the *)
(* properties compare the code with; they are written from the purpose.    *)
(***************************************************************************)
EXTENDS Probes, Quantizer

LOCAL INSTANCE SequencesExt
LOCAL INSTANCE FiniteSetsExt

\* Stands for the decoders that the validation of a shard runs.
ShortValue(entry) == Len(entry[2]) < 3

Sst == INSTANCE Tables WITH Accepts <- ShortValue
Fft == INSTANCE Fourier
Net == INSTANCE Networks
Index == INSTANCE Shards
Client == INSTANCE CatalogSource WITH
            CountryCodes <- {"us", "ca"},
            Trimmed <- [code \in {"us", "US", " us", "ca", "usa", "", " "} |->
                          IF code \in {"US", " us"} THEN "us" ELSE IF code = " " THEN "" ELSE code]

------------------------ (* What a table is for *) --------------------------

\* The keys of every block of a table that can be decoded ascend.
Ascending(entries) == \A i \in 2 .. Len(entries) : Sst!KeyLess(entries[i - 1][1], entries[i][1])
WellOrdered(table) == \A i \in DOMAIN table.index :
                         \A entries \in Sst!BlockEntries(table, i) : Ascending(entries)

\* A batch lookup, in whatever order and however often it is given its keys,
\* finds what the lookups of its keys find one by one, also in a table one of
\* whose blocks is malformed; in a sound table, each finds
\* what was written. A batch may get by without what the malformed block
\* holds after the last of its keys.
LookupsAgree ==
    LET Agrees(keys, single, many) ==
            /\ (\A k \in keys : single[k] # {}) => many # {}
            /\ \A found \in many, k \in keys : \A one \in single[k] :
                  one = {x \in found : x[1] = k}
        Check(table, single) ==
            /\ \A keys \in probe.batches :
                  \A many \in {Sst!GetMany(table, keys)} : Agrees(Range(keys), single, many)
            /\ ~probe.damaged => \A k \in DOMAIN single :
                  single[k] = {{x \in Range(probe.entries) : x[1] = k}}
    IN  probe.kind = "table" =>
          \A table \in {x \in Sst!Open(probe.data) : WellOrdered(x)} :
             \A single \in {[k \in probe.keys |-> Sst!Get(table, k)]} : Check(table, single)

\* In a table that passed the validation no lookup fails; a table with one
\* damaged cell does not pass, or is the same for every reader. Without
\* damage it passes, and the sizes of its ranges add up.
ValidatedIsReadable ==
    LET Readable(table) ==
            /\ \A k \in probe.keys : Sst!Get(table, k) # {}
            /\ \A keys \in probe.batches : Sst!GetMany(table, keys) # {}
        Measured(table) ==
            \A k \in probe.keys, l \in probe.keys : Sst!KeyLess(k, l) =>
               Sst!ApproximateOffset(table, k) <= Sst!ApproximateOffset(table, l)
        Passes(table) == Sst!Validate(table)
    IN  probe.kind = "table" =>
          /\ \A table \in {x \in Sst!Open(probe.data) : Passes(x)} :
                /\ Readable(table)
                /\ ~probe.rewritten => Sst!Entries(table) = {probe.entries} /\ Measured(table)
          /\ ~probe.damaged => \E table \in Sst!Open(probe.data) : Passes(table)

---------------------- (* What the formats are for *) -----------------------

\* Every format gives back what was encoded in it, and nothing of an input
\* that is cut short or has one of its parts out of range.
Decodes ==
    LET Decoded == CASE probe.kind = "varint" -> ReadVarint(probe.data, 0)
                     [] probe.kind = "fields" -> Fields(probe.data)
                     [] probe.kind = "ids" -> DecodeIds(probe.data)
                     [] probe.kind = "leaf" -> DecodeLeaf(probe.data)
                     [] probe.kind = "partitions" -> DecodePartitions(probe.data)
                     [] probe.kind = "config" -> ParseConfig(probe.data)
                     [] probe.kind = "track" -> DecodeTrack(probe.data)
    IN  probe.kind \in {"varint", "fields", "ids", "leaf", "partitions", "config", "track"} =>
           Decoded = probe.expected

--------------------- (* What the transform is for *) -----------------------

\* The bins are those of the discrete Fourier transform of the samples, with
\* the sign of the code's imaginary parts. The transform is linear: it is
\* enough that impulses are transformed right.
MatchesTransform ==
    LET Right(bins, at, turn) ==
            \A b \in DOMAIN bins :
               /\ (bins[b][1] - Fft!Cos(at * (b - 1) * turn)) % Fft!Prime = 0
               /\ (bins[b][2] + Fft!Sin(at * (b - 1) * turn)) % Fft!Prime = 0
        Impulse == [i \in 1 .. probe.size |-> IF i - 1 = probe.at THEN 1 ELSE 0] \o <<>>
    IN  probe.kind = "transform" =>
          \A bins \in {IF probe.size = 512 THEN Fft!Transform512(Impulse)
                       ELSE Fft!Transform1024(Impulse)} :
             /\ Len(bins) = probe.size \div 2 + 1
             /\ Right(bins, probe.at, 1024 \div probe.size)

--------------------- (* What the quantizer is for *) -----------------------

SquaredDistance(u, v) == Total([i \in DOMAIN u |-> (u[i] - v[i]) * (u[i] - v[i])])

Codes == [1 .. Subquantizers -> 0 .. Codewords - 1]

\* The distance that is looked up is that of the query to the point the code
\* stands for; the code of a query is the nearest there is, the partitions
\* probed are the nearest, and a search ranks the tracks in them by the
\* nearest of their codes.
DistanceIsExact ==
    LET Far(config, query, code) == SquaredDistance(query, ReconstructCode(config, code))
        Exact(config, query, far) ==
            /\ \A code \in Codes :
                  AsymmetricDistance(config, query, config.partitions - 1, code) = {far[code]}
            /\ \A q \in QuantizeQuery(config, query) :
                  q.distance = far[q.code] /\ \A code \in Codes : q.distance <= far[code]
        Centroid(config, p) == Slice(config.centroids, p * EmbeddingSize, EmbeddingSize)
        Probed(config, query, probes) ==
            LET reached == {probes[i][1] : i \in DOMAIN probes}
            IN  /\ Cardinality(reached) = config.probes
                /\ \A x \in reached, y \in (0 .. config.partitions - 1) \ reached :
                      SquaredDistance(query, Centroid(config, x))
                         <= SquaredDistance(query, Centroid(config, y))
        Seen(shard, probes, far) ==
            UNION {UNION {{<<leaf.ids[i], far[leaf.codes[i]]>> : i \in DOMAIN leaf.ids} :
                             leaf \in UNION Index!Leaf(shard, probes[n][1])} : n \in DOMAIN probes}
        Best(seen) == {<<x[1], Min({y[2] : y \in {z \in seen : z[1] = x[1]}})>> : x \in seen}
        Ranked(found, best) ==
            /\ Len(found) <= probe.limit
            /\ \A i \in DOMAIN found :
                  /\ <<found[i].track, found[i].distance>> \in best
                  /\ i > 1 => found[i - 1].distance <= found[i].distance
                  /\ Cardinality({x \in best : x[2] < found[i].distance}) < probe.limit
    IN  probe.kind = "distance" =>
          \A far \in {[code \in Codes |-> Far(probe.config, probe.query, code)]} :
             /\ Exact(probe.config, probe.query, far)
             /\ \A probes \in NearestPartitions(probe.config, probe.query) :
                   /\ Probed(probe.config, probe.query, probes)
                   /\ \A found \in Search(<<probe.shard>>, probe.config, probe.query, probe.limit) :
                         Ranked(found, Best(Seen(probe.shard, probes, far)))
             /\ Search(<<probe.shard>>, probe.config, probe.query, probe.limit) # {}

---------------------- (* What the networks are for *) ----------------------

Product(shape) == FoldLeft(LAMBDA product, n : product * n, 1, shape)
FloatsOf(range) == CHOOSE n \in Net!Floats(range, range[2]) : TRUE

\* EMBEDDING_SIZE of the code.
EmbedderOutput == 96

\* The ranges of the file are as large as the shapes say.
SizesFit ==
    /\ \A i \in DOMAIN Net!Layers : LET layer == Net!Layers[i] IN
          /\ FloatsOf(layer.kernel) = Product(layer.shape)
          /\ FloatsOf(layer.scale) = layer.shape[4] /\ FloatsOf(layer.bias) = layer.shape[4]
    /\ \A i \in DOMAIN Net!Convolutions : LET layer == Net!Convolutions[i] IN
          /\ FloatsOf(layer.kernel) = Product(layer.shape)
          /\ FloatsOf(layer.bias) = layer.shape[4]
    /\ LET head == Net!EmbedderHead IN
          /\ FloatsOf(head.kernel) = 128 * EmbedderOutput * 16
          /\ {FloatsOf(head.scale), FloatsOf(head.bias), FloatsOf(head.outKernel)} = {16 * EmbedderOutput}
          /\ FloatsOf(head.outBias) = EmbedderOutput
    /\ <<FloatsOf(Net!Dense[1].kernel), FloatsOf(Net!Dense[2].kernel), FloatsOf(Net!Dense[3].kernel)>>
          = <<3 * 4 * 32 * 8, 8 * 8, 8>>
    /\ <<FloatsOf(Net!Dense[1].bias), FloatsOf(Net!Dense[2].bias), FloatsOf(Net!Dense[3].bias)>>
          = <<8, 8, 1>>

\* No two parts of the file overlap, and a file that is long enough for a
\* network has all of its ranges, one byte less is refused.
FileFits ==
    LET all == Net!Ranges(Net!Layers) \cup Net!Ranges(<<Net!EmbedderHead>>)
                 \cup Net!Ranges(Net!Convolutions) \cup Net!Ranges(Net!Dense)
                 \cup Net!Ranges(<<Net!DecoderTables>>)
        End(ranges) == Max({r[2] : r \in ranges})
        Ends(Load(_)) == \A ranges \in Load(2 ^ 30) :
                            Load(End(ranges)) = {ranges} /\ Load(End(ranges) - 1) = {}
    IN  /\ \A r \in all, s \in all : r = s \/ r[2] <= s[1] \/ s[2] <= r[1]
        /\ Ends(Net!LoadEmbedder) /\ Ends(Net!LoadDetector) /\ Ends(Net!LoadDecoder)

\* A stream has the windows that fit into it, and a window the frames.
WindowsFit(f, samples) ==
    LET starts == Net!WindowStarts(f, samples)
    IN  /\ Net!WindowCount(f, samples) = Cardinality(starts)
        /\ \A s \in starts : s + f.window <= samples
        /\ samples - f.step * Cardinality(starts) < f.window
        /\ \A s \in Net!FrameStarts(f) : s + f.size <= f.window
        /\ Cardinality(Net!FrameStarts(f)) = f.frames

\* A convolution of the code and what it is of, cell by cell; zeros surround
\* the input so that the output has the input's size over the stride.
SameConvolution(given, kernel, shape, stride, made) ==
    LET In(y, x, c) == IF y \in 0 .. given.height - 1 /\ x \in 0 .. given.width - 1
                       THEN given.values[(y * given.width + x) * given.channels + c] ELSE 0
        Weight(ky, kx, c, o) == kernel[((ky * shape[2] + kx) * shape[3] + c) * shape[4] + o]
        Before(n, across) == Max({0, ((n - 1) \div across[2]) * across[2] + across[1] - n}) \div 2
        top == Before(given.height, <<shape[1], stride[1]>>)
        left == Before(given.width, <<shape[2], stride[2]>>)
        taps == (0 .. shape[1] - 1) \X (0 .. shape[2] - 1) \X (0 .. shape[3] - 1)
        At(y, x, o) == FoldSet(LAMBDA t, sum : sum + Weight(t[1], t[2], t[3], o) *
                                  In(y * stride[1] + t[1] - top, x * stride[2] + t[2] - left, t[3]),
                               0, taps)
    IN  \A y \in 0 .. made.height - 1, x \in 0 .. made.width - 1, o \in 0 .. made.channels - 1 :
           made.values[(y * made.width + x) * made.channels + o] = At(y, x, o)

\* Every second place of both sides, the largest of four, none negative.
SamePool(convolved, bias, made) ==
    LET In(y, x, c) == convolved.values[(y * convolved.width + x) * convolved.channels + c]
    IN  \A y \in 0 .. convolved.height \div 2 - 1, x \in 0 .. convolved.width \div 2 - 1,
           c \in 0 .. convolved.channels - 1 :
              made.values[(y * made.width + x) * made.channels + c] =
                 Max({0} \cup {In(2 * y + i, 2 * x + j, c) + bias[c] : i \in {0, 1}, j \in {0, 1}})

\* A matrix with a row for every input, and the two products of the head: one
\* matrix of channels and hidden channels for every dimension, then the hidden
\* values, one dimension after the other, read back in rows of dimensions.
SameDense(vector, rows, bias) ==
    LET wide == Cardinality(DOMAIN bias)
        Times(o) == FoldSet(LAMBDA i, sum : sum + vector[i] * rows[i][o], bias[o], DOMAIN vector)
        Flat == [k \in 0 .. Cardinality(DOMAIN rows) * wide - 1 |-> rows[k \div wide][k % wide]]
    IN  Net!DenseRelu(vector, Flat, bias) = [o \in DOMAIN bias |-> Max({0, Times(o)})]

SameHead(h) ==
    LET Of(d, k) == FoldSet(LAMBDA c, sum : sum + h.values[c * h.dimensions + d] *
                               h.kernel[(c * h.dimensions + d) * h.hidden + k],
                            0, 0 .. h.channels - 1)
        Place(k, d) == k * h.dimensions + d
        Read(k, d) == Of(Place(k, d) \div h.hidden, Place(k, d) % h.hidden)
    IN  \A hidden \in {Net!HeadHidden(h.values, h.kernel, h.channels, h.dimensions, h.hidden)} :
           Net!HeadOutput(hidden, h.out, h.bias, h.dimensions, h.hidden) =
              [d \in 0 .. h.dimensions - 1 |->
                 FoldSet(LAMBDA k, sum : sum + Read(k, d) * h.out[Place(k, d)], h.bias[d],
                         0 .. h.hidden - 1)]

\* Weights, layers and frontends fit together: the ranges of the file, the
\* shapes from one layer to the next, the windows of a stream, and the flat
\* index arithmetic of a layer with the shape it stands for.
ShapesFit ==
    /\ probe.kind = "networks" =>
          /\ Net!ShapesFrom(Net!Layers, <<Net!Fingerprint.frames, Net!Fingerprint.bins, 1>>)
                = {<<3, 32, 128>>}
          /\ Net!ShapesFrom(Net!Convolutions, <<Net!Music.frames, Net!Music.bins, 1>>)
                = {<<3, 4, 32>>}
          /\ Product(<<3, 32, 128>>) = 128 * EmbedderOutput
          /\ SizesFit /\ FileFits
    /\ probe.kind = "windows" =>
          WindowsFit(IF probe.music THEN Net!Music ELSE Net!Fingerprint, probe.samples)
    /\ probe.kind = "layer" =>
          /\ \A made \in {Net!ConvSame(probe.given, probe.kernel, probe.shape, probe.stride)} :
                SameConvolution(probe.given, probe.kernel, probe.shape, probe.stride, made)
          /\ probe.stride = <<1, 1>> =>
                \A made \in {Net!ConvSame(probe.given, probe.kernel, probe.shape, <<1, 1>>)} :
                   /\ made = Net!ConvSameDetector(probe.given, probe.kernel, probe.shape)
                   /\ SamePool(made, probe.bias,
                        Net!DetectorLayer(probe.given, probe.kernel, probe.shape, probe.bias, TRUE))
    /\ probe.kind = "dense" => SameDense(probe.vector, probe.rows, probe.bias)
    /\ probe.kind = "head" => SameHead(probe.head)

----------------- (* What the client of the catalog is for *) ---------------

\* A response of the service, reached through so many redirects, which may be
\* insecure, refused, or longer than it may be, as it says or in fact.
Behind(url, redirects, fault, text) ==
    LET At(n) == IF n = 0 THEN url ELSE <<"moved", url, n>>
        Response(n) ==
            [secure |-> ~(fault = "insecure" /\ n = redirects),
             status |-> IF n < redirects THEN "redirect" ELSE IF fault = "status" THEN "error" ELSE "ok",
             location |-> IF n < redirects THEN {At(n + 1)} ELSE {},
             declared |-> IF fault = "declared" THEN Client!MaxListingBytes + 1 ELSE -1,
             length |-> Client!MaxListingBytes + IF fault = "length" THEN 1 ELSE 0,
             text |-> text]
    IN  [u \in {At(n) : n \in 0 .. redirects} |->
           Response(CHOOSE n \in 0 .. redirects : At(n) = u)]

\* A listing of pages, the last of which ends it or leads back to another;
\* one page has the given redirects and fault, the others none.
Service(case) ==
    LET Url(i) == Client!Listing(IF i = 1 THEN {} ELSE {i})
        After(i) == IF i < Len(case.pages) THEN {i + 1} ELSE case.back
        Part(i) == Behind(Url(i), IF i = case.odd THEN case.redirects ELSE 0,
                          IF i = case.odd THEN case.fault ELSE "none",
                          [builds |-> case.pages[i], next |-> After(i)])
    IN  FoldLeft(LAMBDA f, i : f @@ Part(i), Part(1), [i \in DOMAIN case.pages |-> i])

\* The newest build of all pages, if every page can be read within the limits
\* and the listing ends.
ListsNewest(case, latest) ==
    LET builds == UNION {case.pages[i] : i \in DOMAIN case.pages} \ {0}
        readable == /\ Len(case.pages) <= 32 /\ case.back = {}
                    /\ case.fault = "none" /\ case.redirects <= 5
    IN  latest = IF readable /\ builds # {} THEN {Max(builds)} ELSE {}

\* What a country gets: its shards from the first on, no two of one name, as
\* many as fit; a larger cap only adds to them, and entries that are no shards
\* make no difference. The store relies on this to go on with what it has.
SelectsFirstPart(entries, packs) ==
    LET Chosen(country, cap) == Client!Select(packs, country, cap)
        Names(chosen) == [i \in DOMAIN chosen |-> chosen[i].name]
        SizeOf(chosen) == FoldLeft(LAMBDA sum, pack : sum + pack.size, 0, chosen)
        Spelled(country) == {code \in {"us", "US", " us", "ca"} :
                               country = IF code = "ca" THEN "ca" ELSE "us"}
        Listed(country) == SelectSeq(entries, LAMBDA e : e.type = "shard"
                                                     /\ e.codes \cap Spelled(country) # {})
    IN  \A country \in {"us", "ca"} :
           /\ Names(Chosen(country, {})) = Names(Listed(country))
           /\ Cardinality({pack.name : pack \in Range(Chosen(country, {}))})
                 = Len(Chosen(country, {}))
           /\ \A cap \in 0 .. 7 :
                 LET some == Chosen(country, {cap})
                     all == Chosen(country, {})
                 IN  /\ IsPrefix(some, Chosen(country, {cap + 1})) /\ IsPrefix(some, all)
                     /\ SizeOf(some) <= cap
                     /\ Len(some) < Len(all) => SizeOf(some) + all[Len(some) + 1].size > cap

\* What one synchronization asks for is the newest build that is listed, and
\* of its manifest a first part of the country's shards; no redirect, limit or
\* faulty entry turns into another answer than none.
AsksForTheRightCatalog ==
    /\ probe.kind = "listing" => ListsNewest(probe, Client!LatestBuild(Service(probe)))
    /\ probe.kind = "manifest" =>
         LET Read(entries) ==
                 Client!Manifest(Behind(Client!ManifestOf(1), 0, "none", entries), 1)
             shards == SelectSeq(probe.entries, LAMBDA e : e.type = "shard")
         IN  /\ Read(probe.entries) = Read(shards)
             /\ probe.sound => Read(probe.entries) # {}
             /\ \A packs \in Read(probe.entries) : SelectsFirstPart(probe.entries, packs)
=============================================================================

------------------------------ MODULE Records ------------------------------
(***************************************************************************)
(* The formats inside the tables and the matcher configuration: varints,   *)
(* protobuf fields, the delta-Huffman stream of track numbers, the packed  *)
(* partitions of the reverse index, and the checks of the configuration.   *)
(*                                                                         *)
(* Varints and the bit stream are modelled bit by bit at a scale that the  *)
(* constants give. Messages are sequences of cells as in Tables: a tag, a  *)
(* varint, a fixed32 or a byte is one cell, a fixed64 two.                 *)
(***************************************************************************)
EXTENDS Integers, Sequences, Loops

LOCAL INSTANCE SequencesExt
LOCAL INSTANCE FiniteSetsExt

CONSTANTS
    Payload,        \* payload bits of a varint byte (7)
    ValueBits,      \* bits of a varint's value (64)
    ByteBits,       \* bits of a stream byte (8)
    FastBits,       \* bits that index the fast table (10)
    ProbeBits,      \* bits looked at to find a long code (24)
    GroupBits,      \* bits per group of an extended number (4)
    MaxGroups,      \* the most groups of an extended number (8)
    IdLimit,        \* track numbers are below this (2^32)
    Fast,           \* the symbol of the next FastBits bits
    Primary,        \* the width of each symbol's code in the fast table
    LongCodes,      \* sequence of [width, code, symbol]
    Escape,         \* the symbol that sends to the long codes (45)
    Extended,       \* the symbol of an extended number (255)
    Subquantizers, Codewords, SubspaceSize,     \* 12, 256 and 8
    PartitionCount, \* 1000
    Finite(_),      \* of a float
    Utf8(_)         \* of the bytes of a text

ASSUME ScalesFit ==
    /\ {Payload, ValueBits, ByteBits, FastBits, ProbeBits, GroupBits, MaxGroups,
        IdLimit, Subquantizers, Codewords, SubspaceSize, PartitionCount}
          \subseteq Nat \ {0}
    /\ (ValueBits - 1) % Payload = 0
    /\ IdLimit = 2 ^ (GroupBits * MaxGroups)

------------------------------- (* Varints *) -------------------------------

\* The value of a varint and where it ends.
ReadVarint(data, offset) ==
    LET continues(b) == b >= 2 ^ Payload
        Start == [at |-> offset, value |-> 0, shift |-> 0, done |-> FALSE]
        Step(s) ==
            LET byte == data[s.at + 1]
            IN  IF s.done THEN {s}
                ELSE IF s.at >= Len(data) \/ s.shift > ValueBits - 1 THEN {}
                ELSE IF s.shift = ValueBits - 1 /\ byte > 1 THEN {}
                ELSE {[at |-> s.at + 1,
                       value |-> s.value + (byte % 2 ^ Payload) * 2 ^ s.shift,
                       shift |-> s.shift + Payload,
                       done |-> ~continues(byte)]}
    IN  {[value |-> s.value, end |-> s.at] : s \in Try(Start, Step, Len(data) + 1)}

-------------------------------- (* Fields *) -------------------------------

Varint == 0
Fixed64 == 1
Bytes == 2
Fixed32 == 5

\* The fields of a message, in order. A bytes field begins with its size.
Fields(data) ==
    LET Step(s) ==
            LET tag == data[s.at + 1]
                wire == tag % 8
                start == s.at + IF wire = Bytes THEN 2 ELSE 1
                end == start + CASE wire = Varint -> 1 [] wire = Fixed64 -> 2
                                 [] wire = Fixed32 -> 1 [] wire = Bytes -> data[s.at + 2]
            IN  IF s.at >= Len(data) THEN {s}
                ELSE IF \/ tag \div 8 = 0 \/ wire \notin {Varint, Fixed64, Bytes, Fixed32}
                        \/ start > Len(data) \/ end > Len(data)
                THEN {}
                ELSE {[at |-> end, fields |->
                        Append(s.fields, [number |-> tag \div 8, wire |-> wire,
                                          value |-> SubSeq(data, start + 1, end)])]}
    IN  {s.fields : s \in Try([at |-> 0, fields |-> <<>>], Step, Len(data))}

\* The values of one field of one wire type.
Values(fields, number, wire) ==
    LET chosen == SelectSeq(fields, LAMBDA f : f.number = number /\ f.wire = wire)
    IN  [i \in DOMAIN chosen |-> chosen[i].value]

\* Mutant: of several values the first is taken.
FirstOf(fields, number, wire) ==
    LET values == Values(fields, number, wire)
    IN  IF values = <<>> THEN {} ELSE {values[1]}

\* The only value of a required field.
One(fields, number, wire) ==
    LET values == Values(fields, number, wire)
    IN  IF Len(values) = 1 THEN {values[1]} ELSE {}

OneNumber(fields, number) == {v[1] : v \in One(fields, number, Varint)}
OneFloat(fields, number) == {v[1] : v \in One(fields, number, Fixed32)}
OneMessage(fields, number) == UNION {Fields(v) : v \in One(fields, number, Bytes)}

\* The value of an optional float: more than one is an error.
OptionalFloat(fields, number, default) ==
    LET values == Values(fields, number, Fixed32)
    IN  CASE values = <<>> -> {default} [] Len(values) = 1 -> {values[1][1]} [] OTHER -> {}

\* The first value of an optional field, whatever follows.
Optional(fields, number, wire) ==
    LET values == Values(fields, number, wire)
    IN  IF values = <<>> THEN <<>> ELSE values[1]

------------------------------ (* Track numbers *) --------------------------

\* The bits still to come of a reader: those of the bytes it has not
\* fetched, above those it has.
Remaining(reader) == (Len(reader.data) - reader.byte) * ByteBits + reader.buffered

\* Fetches bytes until "count" bits are buffered.
Fetch(reader, count) ==
    LET Step(r) ==
            IF r.buffered >= count THEN r
            ELSE [r EXCEPT !.buffer = @ + r.data[r.byte + 1] * 2 ^ r.buffered,
                           !.byte = @ + 1, !.buffered = @ + ByteBits]
    IN  IF count > Remaining(reader) THEN {} ELSE {Loop(reader, Step, count)}

Advance(reader, count) ==
    [reader EXCEPT !.buffer = @ \div 2 ^ count, !.buffered = @ - count]

\* The next bits and the reader after them.
ReadBits(reader, count) ==
    {[value |-> r.buffer % 2 ^ count, reader |-> Advance(r, count)] : r \in Fetch(reader, count)}

\* A run of ones, a zero and as many groups as that are long: a number, with
\* every shorter one numbered before it.
DecodeExtended(reader) ==
    LET Ones(s) ==
            LET bit == CHOOSE b \in ReadBits(s.reader, 1) : TRUE
            IN  IF s.stopped \/ Remaining(s.reader) = 0 THEN s
                ELSE [reader |-> bit.reader, stopped |-> bit.value = 0, ones |-> s.ones + bit.value]
        run == Loop([reader |-> reader, stopped |-> FALSE, ones |-> 0], Ones, Remaining(reader))
        groups == run.ones + 1
        prefix == FoldLeft(LAMBDA sum, i : sum + 2 ^ (GroupBits * i), 0, [i \in 1 .. groups - 1 |-> i])
    IN  IF groups > MaxGroups THEN {}
        ELSE {[value |-> raw.value + prefix, reader |-> raw.reader] :
                raw \in {x \in ReadBits(run.reader, groups * GroupBits) :
                           x.value + prefix < IdLimit}}

\* The next symbol with the width of its code: a short code through the fast
\* table, which the end of the stream fills with zeros, or the first long
\* code that agrees with the bits that are there.
SymbolAt(probe, available) ==
    LET symbol == Fast[probe % 2 ^ FastBits]
        long == SelectSeq(LongCodes, LAMBDA c :
                            c.width <= available /\ (probe - c.code) % 2 ^ c.width = 0)
    IN  IF symbol # Escape THEN {[symbol |-> symbol, width |-> Primary[symbol]]}
        ELSE IF long = <<>> THEN {}
        ELSE {[symbol |-> Head(long).symbol, width |-> Head(long).width]}

\* The running sums of the deltas up to the extended zero.
DecodeIds(data) ==
    LET Start == [reader |-> [data |-> data, byte |-> 0, buffer |-> 0, buffered |-> 0],
                  ids |-> <<>>, total |-> 0, done |-> FALSE]
        Add(s, reader, delta) ==
            IF s.total + delta >= IdLimit THEN {}
            ELSE {[reader |-> reader, ids |-> Append(s.ids, s.total + delta),
                   total |-> s.total + delta, done |-> FALSE]}
        Take(s, reader, symbol) ==
            IF symbol # Extended THEN Add(s, reader, symbol)
            ELSE UNION {IF x.value = 0 THEN {[s EXCEPT !.done = TRUE]}
                        ELSE Add(s, x.reader, x.value) : x \in DecodeExtended(reader)}
        Step(s) ==
            LET available == Min({Remaining(s.reader), ProbeBits})
                Next(r) ==
                    LET codes == SymbolAt(r.buffer % 2 ^ available, available)
                    IN  UNION {IF c.width = 0 \/ c.width > available THEN {}
                               ELSE Take(s, Advance(r, c.width), c.symbol) : c \in codes}
            IN  IF s.done THEN {s}
                ELSE IF available = 0 THEN {}
                ELSE UNION {Next(r) : r \in Fetch(s.reader, available)}
    IN  {s.ids : s \in Try(Start, Step, Len(data) * ByteBits + 1)}

------------------------------ (* Records *) --------------------------------

\* A leaf: one code per track number, both in stored order.
DecodeLeaf(data) ==
    LET Leaf(codes, stream) ==
            {[ids |-> ids, codes |-> [i \in DOMAIN ids |->
                SubSeq(codes, (i - 1) * Subquantizers + 1, i * Subquantizers)]] :
               ids \in {x \in DecodeIds(stream) : Len(codes) = Len(x) * Subquantizers}}
    IN  UNION {UNION {Leaf(codes, stream) : codes \in One(f, 1, Bytes), stream \in One(f, 3, Bytes)} :
                 f \in Fields(data)}

\* Four partitions of ten bits in five bytes; the 1023s at the end are padding.
DecodePartitions(data) ==
    LET all == [i \in 1 .. (Len(data) \div 5) * 4 |->
                  LET group == 5 * ((i - 1) \div 4)
                      place == (i - 1) % 4
                  IN  data[group + place + 1] + ((data[group + 5] \div 4 ^ place) % 4) * 256]
        used == Max({0} \cup {i \in DOMAIN all : all[i] # 1023})
    IN  IF Len(data) % 5 # 0 \/ \E i \in 1 .. used : all[i] >= PartitionCount
        THEN {} ELSE {SubSeq(all, 1, used)}

\* The metadata of a track that the results are made of; its texts are UTF-8.
DecodeTrack(data) ==
    {[id |-> Optional(f, 1, Bytes), title |-> Optional(f, 3, Bytes),
      artist |-> Optional(f, 4, Bytes), duration |-> Optional(f, 6, Fixed64),
      year |-> Optional(f, 14, Varint)] :
        f \in {g \in Fields(data) :
                 \A text \in {1, 2, 3, 4, 8, 13} : Utf8(Optional(g, text, Bytes))}}

\* The key of a record: the family, then the number in three bytes.
RecordKey(family, number) ==
    IF number > 2 ^ 24 - 1 THEN {}
    ELSE {<<family, number % 256, (number \div 256) % 256, number \div 65536>>}

------------------------------ (* Configuration *) --------------------------

EmbeddingSize == Subquantizers * SubspaceSize

\* The configuration of these parts, unless its shapes disagree.
NewConfig(partitions, probes, codebook, centroids, neighbors, threshold) ==
    IF \/ partitions = 0 \/ probes = 0 \/ probes > partitions
       \/ Len(codebook) # Subquantizers * Codewords * SubspaceSize
       \/ Len(centroids) # partitions * EmbeddingSize
       \/ neighbors = 0 \/ ~Finite(threshold)
    THEN {}
    ELSE {[partitions |-> partitions, probes |-> probes, codebook |-> codebook,
           centroids |-> centroids, neighbors |-> neighbors, threshold |-> threshold]}

\* The floats of the entries of a repeated message, each of a given size.
Packed(messages, size) ==
    LET Entry(m) == UNION {{v \in One(f, 1, Bytes) : Len(v) = size} : f \in Fields(m)}
    IN  IF \E i \in DOMAIN messages : Entry(messages[i]) = {} THEN {}
        ELSE {FlattenSeq([i \in DOMAIN messages |-> CHOOSE v \in Entry(messages[i]) : TRUE])}

\* The codebook: every subspace has the same number of codewords.
Codebook(hashing) ==
    LET subspaces == Values(hashing, 1, Bytes)
        Floats(s) == UNION {Packed(entries, SubspaceSize) : entries \in
                       {e \in {Values(f, 1, Bytes) : f \in Fields(s)} : Len(e) = Codewords}}
    IN  IF \E i \in DOMAIN subspaces : Floats(subspaces[i]) = {} THEN {}
        ELSE {FlattenSeq([i \in DOMAIN subspaces |->
                            CHOOSE floats \in Floats(subspaces[i]) : TRUE])}

\* The matcher's configuration file. It stores twice the number of partitions
\* to search. Both distances must be the squared one, number 0.
ParseConfig(data) ==
    LET Config(outer, matcher) ==
          UNION {NewConfig(partitions, stored \div 2, codebook, centroids, neighbors, threshold) :
            partitions \in OneNumber(matcher, 1),
            stored \in {n \in OneNumber(matcher, 2) : n % 2 = 0},
            neighbors \in UNION {{n \in OneNumber(scorer, 7) :
                                    \A number \in 8 .. 16 : OneFloat(scorer, number) # {}} :
                                   scorer \in OneMessage(matcher, 6)},
            threshold \in OptionalFloat(outer, 19, 0),
            codebook \in UNION {Codebook(h) : h \in
                           {x \in OneMessage(matcher, 3) : OneNumber(x, 2) = {0}}},
            centroids \in UNION {Packed(Values(p, 1, Bytes), EmbeddingSize) : p \in
                           {x \in OneMessage(matcher, 4) : OneNumber(x, 3) = {0}}}}
    IN  UNION {UNION {Config(outer, matcher) : matcher \in OneMessage(outer, 13)} :
                 outer \in Fields(data)}
=============================================================================

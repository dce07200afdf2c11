------------------------------- MODULE Tables -------------------------------
(***************************************************************************)
(* The reader of the matcher tables: footer, index block, checked data     *)
(* blocks with prefix-compressed keys, the single lookup, the batch lookup *)
(* and the validation.                                                     *)
(*                                                                         *)
(* A file is a sequence of cells. A cell stands for a varint, for a fixed  *)
(* number or for one byte of a key or a value; offsets count cells from 0, *)
(* as the code's count bytes.                                              *)
(***************************************************************************)
EXTENDS Integers, Sequences, Loops

LOCAL INSTANCE SequencesExt
LOCAL INSTANCE FiniteSetsExt
LOCAL INSTANCE TLC

CONSTANT Accepts(_)     \* what the validation asks of every record

FooterSize == 6     \* two handles, padding and the magic number
Magic == 7
TrailerSize == 2    \* the compression type and the checksum

From(data, first, last) == SubSeq(data, first + 1, last)

\* Unsigned comparison of keys, a prefix before what it begins.
KeyLess(a, b) ==
    LET differ == {i \in 1 .. Min({Len(a), Len(b)}) : a[i] # b[i]}
    IN  IF differ = {} THEN Len(a) < Len(b) ELSE a[Min(differ)] < b[Min(differ)]

\* The checksum, an abstraction of the masked CRC32C: it differs when one
\* cell does.
Checksum(contents, compression) ==
    FoldLeft(LAMBDA sum, cell : 3 * sum + cell, compression, contents)

\* A handle, unless its encoding is cut short.
ReadHandle(data, at) ==
    IF at + 2 > Len(data) THEN {} ELSE {[offset |-> data[at + 1], size |-> data[at + 2]]}

\* Mutant: the checksum is not verified.
ReadBlockUnchecked(data, handle) ==
    LET end == handle.offset + handle.size
    IN  IF end + TrailerSize > Len(data) \/ data[end + 1] # 0 THEN {}
        ELSE {From(data, handle.offset, end)}

ReadBlock(data, handle) ==
    LET end == handle.offset + handle.size
        contents == From(data, handle.offset, end)
    IN  IF \/ end + TrailerSize > Len(data)
           \/ data[end + 1] # 0
           \/ data[end + 2] # Checksum(contents, data[end + 1])
        THEN {} ELSE {contents}

\* Where the restart array begins, unless that is before the block.
RestartStart(contents) ==
    IF contents = <<>> \/ Last(contents) + 1 > Len(contents) THEN {}
    ELSE {Len(contents) - (Last(contents) + 1)}

\* The entry at an offset of a block, its key completed from the one before.
EntryAt(contents, at, previous, restart) ==
    LET shared == contents[at + 1]
        keyEnd == at + 3 + contents[at + 2]
        valueEnd == keyEnd + contents[at + 3]
    IN  IF at + 3 > Len(contents) \/ shared > Len(previous) \/ valueEnd > restart THEN {}
        ELSE {[end |-> valueEnd,
               key |-> SubSeq(previous, 1, shared) \o From(contents, at + 3, keyEnd),
               value |-> From(contents, keyEnd, valueEnd)]}

\* Every entry of a block, in the order of the block.
DecodeEntries(contents) ==
    LET Step(restart, s) ==
            IF s.at >= restart THEN {s}
            ELSE {[at |-> e.end, previous |-> e.key,
                   entries |-> Append(s.entries, <<e.key, e.value>>)] :
                    e \in EntryAt(contents, s.at, s.previous, restart)}
        Scan(restart) ==
            Try([at |-> 0, previous |-> <<>>, entries |-> <<>>],
                LAMBDA s : Step(restart, s), Len(contents))
    IN  UNION {{s.entries : s \in {t \in Scan(r) : t.at = r}} : r \in RestartStart(contents)}

\* The targets, in ascending order, that a scan of a block comes across; the
\* scan stops after the last of them. A target given twice is passed over at
\* the next entry.
FindEntries(contents, targets) ==
    LET Match(s, e) ==
            LET rest == SelectSeq(s.targets, LAMBDA t : ~KeyLess(t, e.key))
                found == rest # <<>> /\ Head(rest) = e.key
            IN  [at |-> e.end, previous |-> e.key,
                 targets |-> IF found THEN Tail(rest) ELSE rest,
                 values |-> IF found THEN s.values \cup {<<e.key, e.value>>} ELSE s.values]
        Step(restart, s) ==
            IF s.at >= restart \/ s.targets = <<>> THEN {s}
            ELSE {Match(s, e) : e \in EntryAt(contents, s.at, s.previous, restart)}
        Scan(restart) ==
            Try([at |-> 0, previous |-> <<>>, targets |-> targets, values |-> {}],
                LAMBDA s : Step(restart, s), Len(contents))
    IN  UNION {{s.values : s \in {t \in Scan(r) : t.at <= r}} : r \in RestartStart(contents)}

\* A table: the file, and the separators and handles of its index.
Open(data) ==
    LET footer == From(data, Len(data) - FooterSize, Len(data) - 1)
        Index(entries) ==
            IF \E i \in DOMAIN entries : Len(entries[i][2]) # 2 THEN {}
            ELSE {[i \in DOMAIN entries |->
                     <<entries[i][1], CHOOSE h \in ReadHandle(entries[i][2], 0) : TRUE>>]}
    IN  IF Len(data) < FooterSize \/ Last(data) # Magic THEN {}
        ELSE {[data |-> data, index |-> index] :
                index \in UNION {Index(e) : e \in
                          UNION {DecodeEntries(c) : c \in
                          UNION {ReadBlock(data, h) : h \in ReadHandle(footer, 2)}}}}

\* Mutant: a key that is its block's separator is sought in the next one.
BlockAfter(table, key) ==
    Min({i \in DOMAIN table.index : KeyLess(key, table.index[i][1])}
          \cup {Len(table.index) + 1})

\* The block that holds a key if any does, or the number after the last.
BlockOf(table, key) ==
    Min({i \in DOMAIN table.index : ~KeyLess(table.index[i][1], key)}
          \cup {Len(table.index) + 1})

BlockEntries(table, i) ==
    UNION {DecodeEntries(c) : c \in ReadBlock(table.data, table.index[i][2])}

\* The lookup of one key: at most one pair of the key and its value.
Get(table, key) ==
    LET i == BlockOf(table, key)
        First(entries) ==
            LET matches == SelectSeq(entries, LAMBDA e : e[1] = key)
            IN  IF matches = <<>> THEN {} ELSE {Head(matches)}
    IN  IF i > Len(table.index) THEN {{}}
        ELSE {First(entries) : entries \in BlockEntries(table, i)}

\* The lookup of many keys at once, in any order and some of them several
\* times, block by block.
GetMany(table, keys) ==
    LET blocks == {BlockOf(table, keys[n]) : n \in DOMAIN keys} \ {Len(table.index) + 1}
        Targets(i) == SortSeq(SelectSeq(keys, LAMBDA k : BlockOf(table, k) = i), KeyLess)
        Found(i) == UNION {FindEntries(c, Targets(i)) :
                             c \in ReadBlock(table.data, table.index[i][2])}
    IN  IF \E i \in blocks : Found(i) = {} THEN {}
        ELSE {UNION {UNION Found(i) : i \in blocks}}

\* Every entry of the table, in table order.
Entries(table) ==
    IF \E i \in DOMAIN table.index : BlockEntries(table, i) = {} THEN {}
    ELSE {FlattenSeq([i \in DOMAIN table.index |->
                        CHOOSE entries \in BlockEntries(table, i) : TRUE])}

\* Every block is read and decoded, and "Accepts" every record.
Validate(table) ==
    \E entries \in Entries(table) : \A i \in DOMAIN entries : Accepts(entries[i])

\* The bytes between the blocks of two keys.
ApproximateOffset(table, key) ==
    LET i == BlockOf(table, key)
    IN  IF i > Len(table.index) THEN Len(table.data) ELSE table.index[i][2].offset
=============================================================================

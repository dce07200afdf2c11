------------------------------ MODULE MCSearch ------------------------------
(***************************************************************************)
(* Two shards of up to three short songs, as the shard builder would lay   *)
(* them out, and a few ways in which a shard that validates disagrees with *)
(* itself. Codes and queries are 0 .. 3, two to a partition.               *)
(***************************************************************************)
EXTENDS Search

LOCAL INSTANCE SequencesExt

MCDistance(q, c) == IF q > c THEN q - c ELSE c - q
MCProbed(q) == IF q = 1 THEN {0, 1} ELSE {q \div 2}

Song(codes) == [i \in DOMAIN codes |-> [partition |-> codes[i] \div 2, code |-> codes[i]]]

\* The seconds of a shard's songs in one partition, by track.
Leaf0(songs, p) ==
    LET OfTrack(t) == SelectSeq([i \in DOMAIN songs[t] |-> <<t, songs[t][i]>>],
                                LAMBDA x : x[2].partition = p)
        tracks == Ordered(DOMAIN songs, LAMBDA x, y : x < y)
        all == FlattenSeq([k \in DOMAIN tracks |-> OfTrack(tracks[k])])
    IN  [ids |-> [i \in DOMAIN all |-> all[i][1]], codes |-> [i \in DOMAIN all |-> all[i][2].code]]

Shard(songs) ==
    LET used == {p \in {0, 1} : Leaf0(songs, p).ids # <<>>}
    IN  [M |-> [t \in DOMAIN songs |-> {t}],
         R |-> [t \in DOMAIN songs |-> {[i \in DOMAIN songs[t] |-> songs[t][i].partition]}],
         T |-> [p \in used |-> {Leaf0(songs, p)}]]

\* A shard whose records decode but do not agree, or do not decode.
Damaged(shard) ==
    {[shard EXCEPT !.T = [p \in DOMAIN @ \ {0} |-> @[p]]],
     [shard EXCEPT !.R = [t \in DOMAIN @ |-> {Append(r, 0) : r \in @[t]}]],
     [shard EXCEPT !.R = [t \in DOMAIN @ |-> {}]],
     [shard EXCEPT !.M = [t \in DOMAIN @ \ {1} |-> @[t]]],
     [shard EXCEPT !.M = [t \in DOMAIN @ |-> {}]]}

SongSet == {<<0, 0, 1>>, <<0, 2, 0>>, <<1, 3>>}
MoreSongs == SongSet \cup {<<1, 2, 1>>, <<3>>}
Catalogs == {<<[t \in {1, 2} |-> Song(f[t])], [t \in {1} |-> Song(f[3])]>> :
               f \in [1 .. 3 -> SongSet]}

TwoSongs == {<<[t \in {1} |-> Song(f[1])], [t \in {1} |-> Song(f[2])]>> :
               f \in [1 .. 2 -> MoreSongs]}

World(songs, shards, queries, music, enabled, previous) ==
    [songs |-> songs, shards |-> shards, queries |-> queries, music |-> music,
     enabled |-> enabled, previous |-> previous,
     damaged |-> shards = <<>> \/ \E s \in DOMAIN shards : shards[s] # Shard(songs[s])]

Sound(songs) == [s \in DOMAIN songs |-> Shard(songs[s])]
NoPrevious == [shard |-> 0, track |-> 0, predicted |-> {}]
Queries == {<<0, 1>>, <<1, 1>>, <<3, 0>>, <<0, 0, 1>>, <<0, 2, 0>>, <<3, 1, 3>>}
OneCatalog == <<[t \in {1, 2} |-> Song(IF t = 1 THEN <<0, 2, 0>> ELSE <<1, 3>>)],
                [t \in {1} |-> Song(<<0, 0, 1>>)]>>

\* Two songs fit the shortlist and the raw candidates, three do not.
MCWorlds ==
    {World(songs, Sound(songs), q, <<0, 1>>, TRUE, NoPrevious) :
       songs \in TwoSongs, q \in Queries}
    \cup {World(songs, Sound(songs), q, <<0, 1>>, TRUE, NoPrevious) :
            songs \in Catalogs, q \in {<<0, 1>>, <<0, 2, 0>>, <<1, 1>>}}
    \cup {World(OneCatalog, Sound(OneCatalog), q, music, enabled, NoPrevious) :
            q \in {<<>>, <<0>>}, music \in {<<>>, <<0>>, <<1>>, <<0, 0, 0>>}, enabled \in BOOLEAN}
    \cup {World(OneCatalog, Sound(OneCatalog), <<0, 3, 0>>, <<1>>, TRUE,
                [shard |-> s, track |-> t, predicted |-> p]) :
            s \in {1, 2}, t \in {1, 3}, p \in {{0}, {-2, 4}, {9}}}
    \cup {World(OneCatalog, [Sound(OneCatalog) EXCEPT ![s] = d], q, <<1>>, TRUE, NoPrevious) :
            s \in {1}, d \in Damaged(Shard(OneCatalog[1])), q \in {<<0, 3>>, <<1, 1>>}}
    \cup {World(<<>>, <<>>, <<0>>, <<1>>, TRUE, NoPrevious)}
=============================================================================

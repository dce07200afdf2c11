------------------------------- MODULE Search -------------------------------
(***************************************************************************)
(* One recognition: the music gate, the embeddings, the search of every    *)
(* shard and the scoring of the shortlist. Each stage runs on a few scoped *)
(* threads. A worker of the first three stages takes every n-th item, one  *)
(* of the last claims shards from a shared counter. The caller joins the   *)
(* workers in order, stops joining at the first failure, and leaves the    *)
(* stage when all of them have ended; a panic it did not join is its own.  *)
(*                                                                         *)
(* Embeddings and codes are numbers with a distance between them. A score  *)
(* is the sum of what each query's distance gains, which decreases with    *)
(* the distance as the code's softplus does.                               *)
(***************************************************************************)
EXTENDS Integers, Sequences, FiniteSets, FiniteSetsExt, Shards

CONSTANTS
    Worlds,             \* the audio, shards and context a call may meet
    Distance(_, _),     \* of a query to a code
    Probed(_),          \* the partitions nearest to a query
    Metric,             \* above every distance; the distance of no hit
    RawLimit, ShortlistLimit, ResultLimit,      \* 1001, 40 and 10
    MusicThreshold, Threshold,                  \* both must be exceeded
    MaxWorkers,         \* 4
    Panics              \* whether a worker may panic

ASSUME LimitsPositive ==
    {RawLimit, ShortlistLimit, ResultLimit, MaxWorkers, Metric} \subseteq Nat \ {0}

VARIABLES
    world,
    stage,      \* of the call, or how it ended
    worker,     \* what each worker is doing
    output,     \* what it has put out: pairs of an item and its result
    next,       \* the counter that the scoring workers claim shards from
    joined,     \* workers joined so far
    failed,     \* whether one of them had failed
    faults,     \* history: the workers that failed
    shortlist,  \* the tracks to score, each with its hits
    outcome     \* the results, best first, and the continuity

vars == <<world, stage, worker, output, next, joined, failed, faults, shortlist, outcome>>

Stages == {"gate", "embed", "query", "score"}
Workers == 1 .. MaxWorkers
NoOutcome == [results |-> <<>>, continuity |-> {}]

--------------------------- (* The query of a shard *) ----------------------

\* The codes of a leaf, each with its ordinal among the codes of its track.
LeafHits(s, partition, leaf, index) ==
    {[shard |-> s, track |-> leaf.ids[i], query |-> index, partition |-> partition,
      ordinal |-> Ordinal(leaf.ids, i),
      distance |-> Distance(world.queries[index], leaf.codes[i])] : i \in DOMAIN leaf.ids}

\* What the selection of NthElement may keep of a set of hits: the nearest,
\* of those equally near any.
NearestSets(all) ==
    IF Cardinality(all) <= RawLimit THEN {all}
    ELSE {kept \in SUBSET all :
            /\ Cardinality(kept) = RawLimit
            /\ \A x \in kept, y \in all \ kept : x.distance <= y.distance}

\* The raw candidates of a query, from the probed leaves of every shard.
SearchQuery(index) ==
    LET places == (DOMAIN world.shards) \X Probed(world.queries[index])
        Found(x) == Leaf(world.shards[x[1]], x[2])
        HitsAt(x) == UNION {LeafHits(x[1], x[2], leaf, index) : leaf \in UNION Found(x)}
    IN  IF \E x \in places : Found(x) = {} THEN {}
        ELSE NearestSets(UNION {HitsAt(x) : x \in places})

----------------------------- (* The shortlist *) ---------------------------

\* What the distances of a sequence of queries add up to.
Score(distances) ==
    LET sum[k \in 0 .. Len(distances)] == IF k = 0 THEN 0 ELSE sum[k - 1] + Metric - distances[k]
    IN  sum[Len(distances)]

\* Each track's nearest hit for every query, wherever in the track.
FirstPass(found) ==
    Score([i \in DOMAIN world.queries |->
             Min({Metric} \cup {h.distance : h \in {x \in found : x.query = i}})])

\* Higher scores first, then the order of shards and tracks.
Better(x, y) ==
    \/ x.score > y.score
    \/ /\ x.score = y.score
       /\ x.shard < y.shard \/ (x.shard = y.shard /\ x.track < y.track)

\* The best tracks of the first pass over the raw candidates.
Shortlisted(raw) ==
    LET HitsOf(s, t) == {h \in raw : h.shard = s /\ h.track = t}
        tracks == {[shard |-> x[1], track |-> x[2], hits |-> HitsOf(x[1], x[2]),
                    score |-> FirstPass(HitsOf(x[1], x[2]))] :
                     x \in {<<h.shard, h.track>> : h \in raw}}
        ranked == Ordered(tracks, Better)
    IN  {ranked[i] : i \in 1 .. Min({Len(ranked), ShortlistLimit})}

------------------------------ (* The scoring *) ----------------------------

\* Mutant: the occurrences are counted from one.
SecondFromOne(partitions, hit) ==
    {i \in DOMAIN partitions : /\ partitions[i] = hit.partition
                               /\ Ordinal(partitions, i) + 1 = hit.ordinal}

\* The second of a track that a hit is: the occurrence of its partition with
\* its ordinal.
SecondOf(partitions, hit) ==
    {i \in DOMAIN partitions : /\ partitions[i] = hit.partition
                               /\ Ordinal(partitions, i) = hit.ordinal}

\* The offsets, in seconds, at which some hit puts the queries.
Offsets(partitions, found) ==
    UNION {{i - hit.query : i \in SecondOf(partitions, hit)} : hit \in found}

\* The score of a track at an offset: every query against the code of its
\* second, whether or not the code was among the candidates.
AlignedScore(s, t, partitions, offset) ==
    LET Code(i) == CodeOf(world.shards[s], t, partitions, offset + i)
        inside == {i \in DOMAIN world.queries : offset + i \in DOMAIN partitions}
        Far(i) == IF i \in inside
                  THEN Distance(world.queries[i], CHOOSE c \in Code(i) : TRUE) ELSE Metric
    IN  IF \E i \in inside : Code(i) = {} THEN {}
        ELSE {Score([i \in DOMAIN world.queries |-> Far(i)])}

\* The alignments of a shortlisted track that the code may settle on: of two
\* with the same score, the one that the hash map comes to first.
BestAlignments(s, t, partitions, offsets) ==
    LET ScoreAt(o) == CHOOSE x \in AlignedScore(s, t, partitions, o) : TRUE
        scored == {[shard |-> s, track |-> t, score |-> ScoreAt(o), offset |-> o] : o \in offsets}
    IN  {a \in scored : \A b \in scored : a.score >= b.score}

\* The outputs of a worker for a shard: one alignment of every track of the
\* shortlist with a reverse index and an occurrence for some hit.
ScoreShard(s) ==
    LET mine == {x \in shortlist : x.shard = s}
        Of(batch) == [t \in DOMAIN batch |->
                        Offsets(batch[t], (CHOOSE x \in mine : x.track = t).hits)]
        Broken(batch, offsets) ==
            \E t \in DOMAIN batch : \E o \in offsets[t] : AlignedScore(s, t, batch[t], o) = {}
        Picks(batch, offsets) ==
            LET aligned == {t \in DOMAIN batch : offsets[t] # {}}
                best == [t \in aligned |-> BestAlignments(s, t, batch[t], offsets[t])]
            IN  {{pick[t] : t \in aligned} :
                   pick \in {f \in [aligned -> UNION {best[t] : t \in aligned}] :
                               \A t \in aligned : f[t] \in best[t]}}
    IN  UNION {LET offsets == Of(batch)
               IN  IF Broken(batch, offsets) THEN {} ELSE Picks(batch, offsets) :
                 batch \in PartitionsBatch(world.shards[s], {x.track : x \in mine})}

\* The results: the best of the scored with metadata, which is looked up
\* after the list is cut.
Results(scored) ==
    LET ranked == Ordered(scored, Better)
        best == {ranked[i] : i \in 1 .. Min({Len(ranked), ResultLimit})}
        Metadata(x) == Track(world.shards[x.shard], x.track)
    IN  IF \E x \in best : Metadata(x) = {} THEN {}
        ELSE {Ordered({x \in best : Metadata(x) # {{}}}, Better)}

\* How well the first query continues the previous match, at the predicted
\* offsets and two seconds around them. Several equally good ones are open.
Continuity ==
    LET previous == world.previous
        Near(codes) == {o \in UNION {p - 2 .. p + 2 : p \in previous.predicted} :
                          o + 1 \in DOMAIN codes}
        Scored(codes) == {[score |-> 2 - Distance(world.queries[1], codes[o + 1].code),
                           offset |-> o] : o \in Near(codes)}
        Best(codes) == {x \in Scored(codes) : \A y \in Scored(codes) : x.score >= y.score}
        Open(found) == IF found = {} THEN {{}}
                       ELSE UNION {IF Best(c) = {} THEN {{}} ELSE {{x} : x \in Best(c)} :
                                     c \in found}
    IN  IF previous.shard \notin DOMAIN world.shards THEN {{}}
        ELSE UNION {Open(found) : found \in
                      TrackCodes(world.shards[previous.shard], previous.track)}

\* The scorer's bias needs the logarithm of the catalog's mass, which the
\* reverse indices make up.
HasMass == \E s \in DOMAIN world.shards : DOMAIN world.shards[s].R # {}

------------------------------ (* The workers *) ----------------------------

Items(s) == CASE s = "gate" -> Len(world.music)
              [] s \in {"embed", "query"} -> Len(world.queries)
              [] s = "score" -> Len(world.shards)

WorkerCount(s) == Min({Max({Items(s), 1}), MaxWorkers})

\* The item that a worker takes next, if there is one.
NextItem(w) ==
    LET item == IF stage = "score" THEN next ELSE w + Len(output[w]) * WorkerCount(stage)
    IN  IF item <= Items(stage) THEN {item} ELSE {}

ResultsOf(item) ==
    CASE stage = "gate" -> {world.music[item]}
      [] stage = "embed" -> {world.queries[item]}
      [] stage = "query" -> SearchQuery(item)
      [] stage = "score" -> ScoreShard(item)

Begin(s) ==
    /\ stage' = s
    /\ worker' = [w \in Workers |-> IF w <= WorkerCount(s) THEN "running" ELSE "none"]
    /\ output' = [w \in Workers |-> <<>>]
    /\ next' = 1 /\ joined' = 0 /\ failed' = FALSE

End(s) ==
    /\ stage' = s
    /\ worker' = [w \in Workers |-> "none"]
    /\ output' = [w \in Workers |-> <<>>]
    /\ next' = 1 /\ joined' = 0 /\ failed' = FALSE

Init ==
    /\ world \in Worlds /\ stage = "gate"
    /\ worker = [w \in Workers |-> IF w <= WorkerCount("gate") THEN "running" ELSE "none"]
    /\ output = [w \in Workers |-> <<>>]
    /\ next = 1 /\ joined = 0 /\ failed = FALSE
    /\ faults = 0 /\ shortlist = {} /\ outcome = NoOutcome

Become(w, state) == worker' = [worker EXCEPT ![w] = state]

\* A worker takes an item and puts out its result, or stops at an error.
Process(w) ==
    /\ worker[w] = "running"
    /\ \E item \in NextItem(w) :
          /\ next' = IF stage = "score" THEN next + 1 ELSE next
          /\ LET results == ResultsOf(item) IN
             \/ /\ results = {}
                /\ Become(w, "err") /\ faults' = faults + 1 /\ UNCHANGED output
             \/ \E result \in results :
                   /\ output' = [output EXCEPT ![w] = Append(@, <<item, result>>)]
                   /\ UNCHANGED <<worker, faults>>
    /\ UNCHANGED <<world, stage, joined, failed, shortlist, outcome>>

Finish(w) ==
    /\ worker[w] = "running" /\ NextItem(w) = {}
    /\ Become(w, "ok")
    /\ UNCHANGED <<world, stage, output, next, joined, failed, faults, shortlist, outcome>>

\* A worker panics over an item.
Panic(w) ==
    /\ Panics /\ worker[w] = "running" /\ NextItem(w) # {}
    /\ Become(w, "panicked")
    /\ faults' = faults + 1
    /\ next' = IF stage = "score" THEN next + 1 ELSE next
    /\ UNCHANGED <<world, stage, output, joined, failed, shortlist, outcome>>

Ended(w) == worker[w] \in {"none", "ok", "err", "panicked"}

\* Mutant: a worker that failed is not counted as joined.
JoinCountingSuccess ==
    /\ stage \in Stages /\ ~failed /\ joined < WorkerCount(stage)
    /\ Ended(joined + 1)
    /\ failed' = (worker[joined + 1] # "ok")
    /\ joined' = IF failed' THEN joined ELSE joined + 1
    /\ UNCHANGED <<world, stage, worker, output, next, faults, shortlist, outcome>>

Join ==
    /\ stage \in Stages /\ ~failed /\ joined < WorkerCount(stage)
    /\ Ended(joined + 1)
    /\ joined' = joined + 1
    /\ failed' = (worker[joined + 1] # "ok")
    /\ UNCHANGED <<world, stage, worker, output, next, faults, shortlist, outcome>>

\* The outputs of all workers; their items give the order they are put in.
Collected == UNION {Range(output[w]) : w \in Workers}

AfterGate ==
    /\ IF world.enabled /\ \E x \in Collected : x[2] > MusicThreshold
       THEN Begin("embed") ELSE End("done")
    /\ UNCHANGED <<shortlist, outcome>>

AfterEmbed ==
    /\ IF world.queries = <<>> THEN End("done") ELSE Begin("query")
    /\ UNCHANGED <<shortlist, outcome>>

AfterQuery ==
    \/ /\ HasMass
       /\ \E continuity \in Continuity :
             outcome' = [outcome EXCEPT !.continuity = continuity]
       /\ shortlist' = Shortlisted(UNION {x[2] : x \in Collected})
       /\ Begin("score")
    \/ /\ ~HasMass \/ Continuity = {}
       /\ End("error") /\ UNCHANGED <<shortlist, outcome>>

AfterScore ==
    LET results == Results(UNION {x[2] : x \in Collected})
    IN  \/ /\ \E r \in results : outcome' = [outcome EXCEPT !.results = r]
           /\ End("done") /\ UNCHANGED shortlist
        \/ /\ results = {}
           /\ End("error") /\ UNCHANGED <<shortlist, outcome>>

\* The scope ends with its last worker.
Leave ==
    /\ stage \in Stages /\ \A w \in Workers : Ended(w)
    /\ failed \/ joined = WorkerCount(stage)
    /\ UNCHANGED <<world, faults>>
    /\ \/ /\ \E w \in Workers : w > joined /\ worker[w] = "panicked"
          /\ End("panicked") /\ UNCHANGED <<shortlist, outcome>>
       \/ /\ \A w \in Workers : w > joined => worker[w] # "panicked"
          /\ \/ failed /\ End("error") /\ UNCHANGED <<shortlist, outcome>>
             \/ ~failed /\ CASE stage = "gate" -> AfterGate [] stage = "embed" -> AfterEmbed
                             [] stage = "query" -> AfterQuery [] stage = "score" -> AfterScore

Next == Join \/ Leave \/ \E w \in Workers : Process(w) \/ Finish(w) \/ Panic(w)

Spec == Init /\ [][Next]_vars

\* The first result above the threshold.
Recognized ==
    LET above == {i \in DOMAIN outcome.results : outcome.results[i].score > Threshold}
    IN  IF above = {} THEN {} ELSE {outcome.results[Min(above)]}

-------------------------------- (* Worlds *) -------------------------------

IsSeq(s) == s \in Seq(Range(s))

PartitionsOf(song) == [k \in DOMAIN song |-> song[k].partition]

\* The i-th entry of a leaf is the k-th second of its track.
Entry(leaf, i, song, k, p) ==
    /\ song[k] = Stored(p, leaf.codes[i])
    /\ Ordinal(PartitionsOf(song), k) = Ordinal(leaf.ids, i)

\* A leaf has the seconds of its partition: by track, those of a track in order.
Lays(leaf, songs, p) ==
    /\ IsSeq(leaf.ids) /\ DOMAIN leaf.codes = DOMAIN leaf.ids
    /\ Range(leaf.ids) \subseteq DOMAIN songs
    /\ \A i, j \in DOMAIN leaf.ids : i < j => leaf.ids[i] <= leaf.ids[j]
    /\ \A i \in DOMAIN leaf.ids :
          \E k \in DOMAIN songs[leaf.ids[i]] : Entry(leaf, i, songs[leaf.ids[i]], k, p)
    /\ \A t \in DOMAIN songs : \A k \in DOMAIN songs[t] :
          songs[t][k].partition = p =>
             \E i \in DOMAIN leaf.ids : leaf.ids[i] = t /\ Entry(leaf, i, songs[t], k, p)

\* A shard built from songs: all three families tell of the same seconds.
Builds(shard, songs) ==
    /\ IsFiniteSet(DOMAIN songs) /\ DOMAIN songs \subseteq Int
    /\ \A t \in DOMAIN songs : IsSeq(songs[t])
    /\ DOMAIN shard.M = DOMAIN songs /\ \A t \in DOMAIN songs : shard.M[t] # {}
    /\ shard.R = [t \in DOMAIN songs |-> {PartitionsOf(songs[t])}]
    /\ \A t \in DOMAIN songs : Range(PartitionsOf(songs[t])) \subseteq DOMAIN shard.T
    /\ \A p \in DOMAIN shard.T :
          \E leaf \in shard.T[p] : shard.T[p] = {leaf} /\ Lays(leaf, songs, p)

Measures(q, songs) ==
    /\ IsFiniteSet(Probed(q))
    /\ \A s \in DOMAIN songs : \A t \in DOMAIN songs[s] : \A k \in DOMAIN songs[s][t] :
          Distance(q, songs[s][t][k].code) \in Int

\* A catalog that is not damaged holds a song and was built from its songs.
Whole(w) ==
    /\ IsSeq(w.songs) /\ DOMAIN w.shards = DOMAIN w.songs
    /\ \E s \in DOMAIN w.songs : DOMAIN w.songs[s] # {}
    /\ \A s \in DOMAIN w.songs : Builds(w.shards[s], w.songs[s])
    /\ \A q \in Range(w.queries) : Measures(q, w.songs)
    /\ w.previous.predicted \subseteq Int

ASSUME WorldsAssumption ==
    \A w \in Worlds : /\ IsSeq(w.music) /\ IsSeq(w.shards) /\ IsSeq(w.queries)
                      /\ w.damaged \in BOOLEAN /\ (~w.damaged => Whole(w))

------------------------------- (* Properties *) ----------------------------

\* What the songs themselves say: world.songs[s][t] are the seconds of a track.
Songs == {<<s, t>> : s \in DOMAIN world.songs, t \in UNION {DOMAIN world.songs[i] : i \in DOMAIN world.songs}}
Seconds(s, t) == IF t \in DOMAIN world.songs[s] THEN world.songs[s][t] ELSE <<>>

TrueScore(s, t, offset) ==
    Score([i \in DOMAIN world.queries |->
             IF offset + i \in DOMAIN Seconds(s, t)
             THEN Distance(world.queries[i], Seconds(s, t)[offset + i].code) ELSE Metric])

\* The offsets at which a query meets a second that it would be compared with.
Meeting(s, t, i) == {j - i : j \in {k \in DOMAIN Seconds(s, t) :
                                     Seconds(s, t)[k].partition \in Probed(world.queries[i])}}
MeetingAny(s, t) == UNION {Meeting(s, t, i) : i \in DOMAIN world.queries}

RightOrder ==
    LET met == {x \in Songs : MeetingAny(x[1], x[2]) # {}}
    IN  Ordered({[shard |-> x[1], track |-> x[2],
                  score |-> Max({TrueScore(x[1], x[2], o) : o \in MeetingAny(x[1], x[2])})] :
                   x \in met}, Better)

WithinLimits ==
    /\ Len(RightOrder) <= ShortlistLimit
    /\ \A i \in DOMAIN world.queries :
          Cardinality(UNION {{<<x, o>> : o \in Meeting(x[1], x[2], i)} : x \in Songs})
             <= RawLimit

\* Whatever the workers' schedule, a result has the score of its song at its
\* offset, results are in order, and when neither the raw candidates nor the
\* shortlist were cut, they are the best songs there are. Without music there
\* is no result.
Passes == world.enabled /\ world.queries # <<>>
            /\ \E i \in DOMAIN world.music : world.music[i] > MusicThreshold

AnswerIsRight ==
    LET Best(results, best) ==
            /\ Len(results) = Min({ResultLimit, Len(best)})
            /\ \A i \in DOMAIN results :
                  [shard |-> results[i].shard, track |-> results[i].track,
                   score |-> results[i].score] = best[i]
        Right(results) ==
            /\ \A i \in DOMAIN results :
                  results[i].score = TrueScore(results[i].shard, results[i].track, results[i].offset)
            /\ \A i \in 2 .. Len(results) : Better(results[i - 1], results[i])
            /\ WithinLimits /\ ~world.damaged => Best(results, RightOrder)
    IN  stage = "done" => IF Passes THEN Right(outcome.results) ELSE outcome = NoOutcome

\* The continuity is the true one of an offset near a predicted one, and none
\* near is better.
ContinuityIsRight ==
    \A c \in outcome.continuity :
       LET seconds == Seconds(world.previous.shard, world.previous.track)
           near == {o \in UNION {p - 2 .. p + 2 : p \in world.previous.predicted} :
                      o + 1 \in DOMAIN seconds}
           At(o) == 2 - Distance(world.queries[1], seconds[o + 1].code)
       IN  c.offset \in near /\ c.score = At(c.offset) /\ \A o \in near : At(o) <= c.score

\* A call fails only over a damaged catalog or a worker that failed, a worker
\* fails by itself only over a damaged catalog, and one worker's panic is an
\* error of the call, never a panic of it.
OneFailureIsContained ==
    /\ stage = "error" => faults > 0 \/ world.damaged
    /\ \A w \in Workers : worker[w] = "err" => world.damaged
    /\ stage = "panicked" => faults > 1
=============================================================================

------------------------------- MODULE Probes -------------------------------
(***************************************************************************)
(* The runs of the pure algorithms: each case is one input of one of them, *)
(* a behavior picks one. The resampler, which has states, runs beside      *)
(* them. Here is what the selection and the memory of the recognitions are *)
(* for; Algorithms has the others.                                         *)
(***************************************************************************)
EXTENDS Resampler, NthElement, RecognitionState

CONSTANTS
    Kinds,          \* the kinds of cases
    Cases(_)        \* the cases of a kind

VARIABLE probe      \* the case under test

NoCase == [kind |-> "none"]

\* What is selected from is an array with distances, and what is gathered a
\* sequence of different candidates at a distance; a place is sought that the
\* array has, and at least one candidate is kept.
ASSUME SelectionCases ==
    LET At(x) == x[1] \in Int
        Array(v) == IsFiniteSet(DOMAIN v) /\ DOMAIN v = 0 .. Size(v) - 1
                       /\ v \in [DOMAIN v -> {v[i] : i \in DOMAIN v}]
    IN  \A kind \in Kinds : \A case \in Cases(kind) :
           /\ case.kind # "pick"
           /\ case.kind = "select" =>
                 /\ Array(case.array) /\ case.nth \in DOMAIN case.array
                 /\ \A i \in DOMAIN case.array : At(case.array[i])
           /\ case.kind = "gather" =>
                 /\ case.limit \in Nat \ {0}
                 /\ case.stream \in Seq({case.stream[i] : i \in DOMAIN case.stream})
                 /\ \A i \in DOMAIN case.stream :
                       /\ At(case.stream[i]) /\ case.stream[i][1] < Unbounded
                       /\ \A j \in DOMAIN case.stream : case.stream[i] = case.stream[j] => i = j

\* Events are recognitions, each recorded at a time; one that matched has
\* offsets in its track.
ASSUME EventCases ==
    \A kind \in Kinds : \A case \in Cases(kind) : case.kind = "memory" =>
       /\ case.now \in Int
       /\ case.events \in Seq({case.events[i] : i \in DOMAIN case.events})
       /\ \A i \in DOMAIN case.events :
             LET entry == case.events[i].entry
             IN  /\ case.events[i].now \in Int /\ entry.at \in Nat /\ entry.matched \in BOOLEAN
                 /\ IsFiniteSet(entry.offsets) /\ entry.offsets \subseteq Int
                 /\ IsFiniteSet(entry.duration) /\ entry.duration \subseteq Int
                 /\ entry.matched => entry.offsets # {}

\* A recording is resampled, or a case of a kind is picked.
Start ==
    \/ Init /\ probe = NoCase
    \/ /\ probe \in {[kind |-> "pick", of |-> kind] : kind \in Kinds}
       /\ rate = 0 /\ length = 0 /\ input = <<>> /\ inputRead = 0 /\ inputUsed = 0
       /\ time = 0 /\ endTime = 0 /\ step = "off" /\ base = 0 /\ due = 0

Resample == Next /\ UNCHANGED probe

Pick ==
    /\ probe.kind = "pick"
    /\ probe' \in Cases(probe.of)
    /\ UNCHANGED vars

TestSpec == Start /\ [][Resample \/ Pick]_<<vars, probe>>

--------------------- (* What the selection is for *) -----------------------

Elements(v) == {v[i] : i \in DOMAIN v}

Placed(v, w, nth) ==
    /\ DOMAIN w = DOMAIN v /\ Elements(w) = Elements(v)
    /\ \A i \in DOMAIN w : IF i < nth THEN w[i][1] <= w[nth][1] ELSE w[nth][1] <= w[i][1]

NearestKept(all, kept, limit) ==
    /\ Cardinality(kept) = IF limit <= Cardinality(all) THEN limit ELSE Cardinality(all)
    /\ kept \subseteq all
    /\ \A x \in kept, y \in all \ kept : x[1] <= y[1]

\* The element sought is in its place, and nothing before it is further nor
\* after it nearer; of a stream, the nearest are kept.
SelectsNearest ==
    /\ probe.kind = "select" =>
          \A w \in {NthElement(probe.array, probe.nth)} :
             Placed(probe.array, w, probe.nth)
    /\ probe.kind = "gather" =>
          \A w \in {Nearest(Gather(probe.stream, probe.limit), probe.limit)} :
             NearestKept(Elements(probe.stream), Elements(w), probe.limit)

------------- (* What the memory of the recognitions is for *) -------------

Seconds(n) == n * 1000
Minutes(n) == 60 * Seconds(n)

\* What is stored after these recognitions, each recorded at a time of its own.
Stored(events) ==
    Loop([stored |-> NothingStored, at |-> 0],
         LAMBDA s : [stored |-> Record(s.stored, events[s.at + 1].entry, events[s.at + 1].now),
                     at |-> s.at + 1],
         Len(events)).stored

\* The recognitions whose trigger was never in the future nor longer ago than
\* 20 minutes when one was recorded.
Recalled(events) ==
    {i \in DOMAIN events :
       \A j \in i .. Len(events) : events[j].now - events[i].entry.at \in 0 .. Minutes(20)}

\* Exactly the recent recognitions are remembered, in the order of their
\* triggers.
Remembers(events, history) ==
    /\ Len(history) = Cardinality(Recalled(events))
    /\ {history[i] : i \in DOMAIN history} = {events[i].entry : i \in Recalled(events)}
    /\ \A i \in 2 .. Len(history) : history[i - 1].at <= history[i].at

\* What is remembered of the last 20 minutes, and the first of the latest of it.
Heard(history, now) == {i \in DOMAIN history : now - history[i].at \in 0 .. Minutes(20)}

Latest(history, now) ==
    CHOOSE i \in Heard(history, now) :
       \A j \in Heard(history, now) : /\ history[j].at <= history[i].at
                                      /\ history[j].at = history[i].at => i <= j

\* What is left of a track that matched.
TimeLeft(entry, now) ==
    Max(entry.duration) - Seconds(8) - Max(entry.offsets) - (now - entry.at)

\* The DSP sleeps for 20 to 90 seconds whatever is remembered, also of an
\* earlier boot. It sleeps for longer than the usual 55 seconds only after ten
\* misses within 12 minutes, and until 5 seconds after a track that
\* ends soon, to the second that the offset is rounded by.
SleepsRight(history, now, squelch) ==
    LET last == history[Latest(history, now)]
        near == {i \in Heard(history, now) : last.at - history[i].at <= Minutes(12)}
        endsSoon == /\ last.matched /\ last.duration # {}
                    /\ TimeLeft(last, now) \in Seconds(16) .. Seconds(48)
    IN  /\ squelch \in Seconds(20) .. Seconds(90)
        /\ squelch > Seconds(55) <=> /\ Cardinality(near) >= 10
                                     /\ \A i \in near : ~ history[i].matched
        /\ Heard(history, now) # {} /\ endsSoon =>
              squelch - (TimeLeft(last, now) + Seconds(5)) \in -Seconds(1) .. Seconds(1)

\* The previous match is the last one recorded; it is projected by its age
\* while that is no more than 20 minutes, and forgotten with the first look
\* that finds it older, or in the future.
Projects(events, stored, now) ==
    LET matches == {i \in DOMAIN events : events[i].entry.matched}
        last == events[Max(matches)].entry
        projected == ProjectedPreviousMatch(stored, now)
        after == AfterProjection(stored, now)
    IN  IF matches # {} /\ now - last.at \in 0 .. Minutes(20)
        THEN /\ \A p \in projected : p.entry = last
                                    /\ p.offsets = {o + now - last.at : o \in last.offsets}
             /\ projected # {} /\ after = stored
        ELSE projected = {} /\ after.previous = {} /\ after.history = stored.history

\* A memory of recognitions, some of an earlier boot, tells how long to sleep
\* and what the next recognition should expect.
SquelchFollowsSong ==
    probe.kind = "memory" =>
       \A stored \in {Stored(probe.events)} :
          /\ Remembers(probe.events, stored.history)
          /\ SleepsRight(stored.history, probe.now, CurrentSquelch(stored, probe.now).squelch)
          /\ Projects(probe.events, stored, probe.now)
          /\ LET decision == CurrentSquelch(stored, probe.now)
             IN  decision.delay - decision.squelch = PositivePreEvent
=============================================================================

-------------------------- MODULE RecognitionState --------------------------
(***************************************************************************)
(* What the detection service remembers of its recognitions, and how long  *)
(* it lets the DSP sleep after one. Times are milliseconds since the boot; *)
(* what was stored before a reboot is read after it as it stands.          *)
(*                                                                         *)
(* An entry has the time of its trigger and, when it is a match, a set of  *)
(* offsets in the track and at most one duration. The encoding is left     *)
(* out: the program reads what it wrote itself.                            *)
(***************************************************************************)
EXTENDS Integers, Sequences, FiniteSetsExt, Loops

PositivePreEvent == 4000
Fallback == 55000
HistoryExpiration == 1200000
AdaptationWindow == 720000
RepeatedMissCount == 10
RepeatedMiss == 90000
HeuristicPadding == 5000
HeuristicThreshold == 50000
RecognitionInput == 8000
CandidateMin == 20000
CandidateMax == 90000
LeastSquelch == 15000
MostSquelch == 180000

CoerceIn(value, least, most) == Max({least, Min({value, most})})

Retained(history, now) ==
    Subsequence(history, {i \in DOMAIN history : now - history[i].at \in 0 .. HistoryExpiration})

\* The first of the latest entries.
Newest(history) ==
    history[Min({i \in DOMAIN history : \A j \in DOMAIN history : history[j].at <= history[i].at})]

Recent(retained) ==
    Subsequence(retained, {i \in DOMAIN retained :
                             Newest(retained).at - retained[i].at \in 0 .. AdaptationWindow})

\* To the next 2 seconds, halves up.
Rounded(offset) == ((offset + 1000) \div 2000) * 2000

\* Mutant: the time that has passed since the match is forgotten.
MatchedSquelchOfTrigger(entry, now) ==
    IF entry.duration = {} \/ entry.offsets = {} THEN Fallback
    ELSE LET remaining == Max(entry.duration) - RecognitionInput - Rounded(Max(entry.offsets))
         IN  IF remaining >= HeuristicThreshold THEN Fallback
             ELSE CoerceIn(remaining + HeuristicPadding, CandidateMin, CandidateMax)

\* Until the matched track ends and a little longer, if that is soon.
MatchedSquelch(entry, now) ==
    IF entry.duration = {} \/ entry.offsets = {} THEN Fallback
    ELSE LET remaining == Max(entry.duration) - RecognitionInput - Rounded(Max(entry.offsets))
                            - Max({now - entry.at, 0})
         IN  IF remaining >= HeuristicThreshold THEN Fallback
             ELSE CoerceIn(remaining + HeuristicPadding, CandidateMin, CandidateMax)

Candidate(retained, now) ==
    IF \A i \in DOMAIN Recent(retained) : ~ Recent(retained)[i].matched
    THEN IF Len(Recent(retained)) >= RepeatedMissCount THEN RepeatedMiss ELSE Fallback
    ELSE IF ~ Newest(retained).matched THEN Fallback
    ELSE MatchedSquelch(Newest(retained), now)

Decide(history, now) ==
    LET squelch == CoerceIn(Candidate(Retained(history, now), now), LeastSquelch, MostSquelch)
    IN  [squelch |-> squelch, delay |-> squelch + PositivePreEvent]

-----------------------------------------------------------------------------

NothingStored == [history |-> <<>>, previous |-> {}]

\* The stored history ascends in time; the sort puts an entry after those of
\* its own time. The previous match is kept until there is another.
Record(stored, entry, now) ==
    LET upTo == {i \in DOMAIN stored.history : stored.history[i].at <= entry.at}
        history == Subsequence(stored.history, upTo) \o <<entry>>
                     \o Subsequence(stored.history, DOMAIN stored.history \ upTo)
    IN  [history |-> Retained(history, now),
         previous |-> IF entry.matched THEN {entry} ELSE stored.previous]

CurrentSquelch(stored, now) == Decide(stored.history, now)

Outdated(match, now) == match.at \notin 0 .. now \/ now - match.at > HistoryExpiration

\* Where the previous match should be by now.
ProjectedPreviousMatch(stored, now) ==
    {[entry |-> m, offsets |-> {o + (now - m.at) : o \in m.offsets}] :
       m \in {x \in stored.previous : ~ Outdated(x, now)}}

\* Reading the previous match removes one that is outdated.
AfterProjection(stored, now) ==
    [stored EXCEPT !.previous = {m \in @ : ~ Outdated(m, now)}]
=============================================================================

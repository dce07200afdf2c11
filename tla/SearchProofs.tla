---------------------------- MODULE SearchProofs ----------------------------
(***************************************************************************)
(* The search for any number of shards, songs, queries and workers: over a *)
(* catalog built from its songs, whatever the workers' schedule and the    *)
(* order in which a sort leaves equals, a call returns the songs' true     *)
(* scores in order, and the best songs there are when nothing was cut; and *)
(* one worker's failure is an error of the call, never a panic.            *)
(*                                                                         *)
(* The argument has three parts.  The protocol says which workers there    *)
(* are and what the caller has joined.  The pure part says what the        *)
(* lookups, the scores and the ranking are in terms of the songs: where a  *)
(* loop of the code is a recursive function, a first second or entry at    *)
(* which it would go wrong is ruled out (LeastOf).  The progress joins     *)
(* them: every item of a stage is done once, so that what the caller       *)
(* collects is what the pure part speaks of.                               *)
(***************************************************************************)
EXTENDS Search, FiniteSetTheorems, FunctionTheorems, TLAPS

\* How a call ends, what a worker may be, and the workers that failed.
Outcomes == {"done", "error", "panicked"}
States == {"none", "running", "ok", "err", "panicked"}
IsFailed(w) == worker[w] \in {"err", "panicked"}

\* The variables' types, for calls with any number of items.
Kinds ==
    /\ world \in Worlds
    /\ stage \in Stages \cup Outcomes
    /\ worker \in [Workers -> States]
    /\ DOMAIN output = Workers /\ \A w \in Workers : IsSeq(output[w])
    /\ next \in Nat \ {0} /\ joined \in Nat /\ failed \in BOOLEAN /\ faults \in Nat

\* A stage has the workers it needs, and between stages there are none.
Started ==
    \A w \in Workers : worker[w] = "none" <=> stage \notin Stages \/ w > WorkerCount(stage)

\* The caller has joined the workers up to the first that failed.
JoinedInOrder ==
    stage \in Stages =>
       /\ joined <= WorkerCount(stage)
       /\ \A w \in 1 .. joined : Ended(w)
       /\ failed => joined > 0 /\ IsFailed(joined)
       /\ ~failed => \A w \in 1 .. joined : worker[w] = "ok"

\* Every worker that failed is a fault of its own.
FaultsCounted ==
    /\ \A w \in Workers : IsFailed(w) => faults > 0
    /\ \A v, w \in Workers : v # w /\ IsFailed(v) /\ IsFailed(w) => faults > 1

\* The caller panics only while a first failure is being handled.
PanicsAreTwo == stage = "panicked" => faults > 1

Protocol == Kinds /\ Started /\ JoinedInOrder /\ FaultsCounted /\ PanicsAreTwo

-------------------- (* The protocol of the workers *) ---------------------

\* Min and Max of two numbers.
LEMMA Extrema ==
  ASSUME NEW a \in Int, NEW b \in Int
  PROVE  /\ Min({a, b}) = IF a <= b THEN a ELSE b
         /\ Max({a, b}) = IF a >= b THEN a ELSE b
BY DEF Min, Max

\* A stage has at least one worker and at most MaxWorkers.
LEMMA WorkersBounded ==
  ASSUME Kinds, NEW s \in Stages
  PROVE  Items(s) \in Nat /\ WorkerCount(s) \in 1 .. MaxWorkers
<1>1. /\ Len(world.music) \in Nat /\ Len(world.shards) \in Nat /\ Len(world.queries) \in Nat
      /\ MaxWorkers \in Nat \ {0}
  BY WorldsAssumption, LimitsPositive DEF Kinds, IsSeq
<1>2. Items(s) \in Nat
  BY <1>1 DEF Items, Stages
<1> DEFINE m == Max({Items(s), 1})
<1>3. m \in Nat \ {0}
  <2>1. \A i \in Nat : Max({i, 1}) \in Nat \ {0}
    BY Extrema
  <2> QED
    BY <2>1, <1>2, Zenon
<1>4. WorkerCount(s) = Min({m, MaxWorkers})
  BY DEF WorkerCount
<1> HIDE DEF m
<1>5. WorkerCount(s) = IF m <= MaxWorkers THEN m ELSE MaxWorkers
  BY <1>1, <1>3, <1>4, Extrema
<1> QED
  BY <1>1, <1>2, <1>3, <1>5

\* What each stage goes through.
LEMMA StageItems ==
  /\ Items("gate") = Len(world.music) /\ Items("embed") = Len(world.queries)
  /\ Items("query") = Len(world.queries) /\ Items("score") = Len(world.shards)
BY Zenon DEF Items

\* Append, for the sequences of any length that IsSeq describes.
LEMMA SeqAppend ==
  ASSUME NEW s, IsSeq(s), NEW e
  PROVE  /\ IsSeq(Append(s, e)) /\ Len(Append(s, e)) = Len(s) + 1
         /\ Len(s) \in Nat /\ DOMAIN s = 1 .. Len(s)
         /\ DOMAIN Append(s, e) = 1 .. Len(s) + 1
         /\ \A i \in 1 .. Len(s) : Append(s, e)[i] = s[i]
         /\ Append(s, e)[Len(s) + 1] = e
<1>1. /\ s \in Seq(Range(s)) /\ Range(s) \subseteq Range(s) \cup {e}
  BY DEF IsSeq
<1>2. s \in Seq(Range(s) \cup {e})
  BY <1>1
<1>3. /\ Append(s, e) \in Seq(Range(s) \cup {e}) /\ Len(Append(s, e)) = Len(s) + 1
      /\ Len(s) \in Nat /\ DOMAIN s = 1 .. Len(s)
      /\ DOMAIN Append(s, e) = 1 .. Len(s) + 1
      /\ \A i \in 1 .. Len(s) : Append(s, e)[i] = s[i]
      /\ Append(s, e)[Len(s) + 1] = e
  BY <1>2
<1>4. Append(s, e) \in Seq(Range(Append(s, e)))
  BY <1>3 DEF Range
<1> QED
  BY <1>3, <1>4 DEF IsSeq

\* The sequence a stage starts with.
LEMMA EmptyIsSeq == IsSeq(<<>>) /\ Len(<<>>) = 0
BY DEF IsSeq, Range

\* How a stage begins, and how a call ends.
LEMMA BeginProtocol ==
  ASSUME Kinds, NEW s \in Stages, Begin(s), UNCHANGED <<world, faults>>
  PROVE  Kinds' /\ Started' /\ JoinedInOrder' /\ FaultsCounted' /\ PanicsAreTwo'
<1>1. /\ stage' = s /\ next' = 1 /\ joined' = 0 /\ failed' = FALSE
      /\ world' = world /\ faults' = faults
      /\ worker' = [w \in Workers |-> IF w <= WorkerCount(s) THEN "running" ELSE "none"]
      /\ output' = [w \in Workers |-> <<>>]
  BY DEF Begin
<1>2. WorkerCount(s)' = WorkerCount(s)
  BY <1>1 DEF WorkerCount, Items
<1>3. WorkerCount(s) \in 1 .. MaxWorkers /\ MaxWorkers \in Nat
  BY WorkersBounded, LimitsPositive
<1>4. Kinds'
  <2>1. worker' \in [Workers -> States]
    BY <1>1 DEF States
  <2>2. DOMAIN output' = Workers /\ \A w \in Workers : IsSeq(output'[w])
    BY <1>1, EmptyIsSeq
  <2>3. world' \in Worlds /\ stage' \in Stages \cup Outcomes
    BY <1>1 DEF Kinds
  <2>5. failed' \in BOOLEAN
    BY <1>1, Zenon
  <2>4. next' \in Nat \ {0} /\ joined' \in Nat /\ faults' \in Nat
    BY <1>1 DEF Kinds
  <2> QED
    BY <2>1, <2>2, <2>3, <2>4, <2>5 DEF Kinds
<1>5. \A w \in Workers : worker'[w] \in {"running", "none"}
                         /\ (worker'[w] = "none" <=> ~(w <= WorkerCount(s)))
  BY <1>1
<1>6. Started'
  BY <1>1, <1>2, <1>3, <1>5 DEF Started, Workers
<1>7. JoinedInOrder'
  BY <1>1, <1>2, <1>3 DEF JoinedInOrder
<1>8. FaultsCounted' /\ PanicsAreTwo'
  BY <1>1, <1>5 DEF FaultsCounted, IsFailed, PanicsAreTwo, Stages
<1> QED
  BY <1>4, <1>6, <1>7, <1>8

\* A call that ends has no workers.
LEMMA EndProtocol ==
  ASSUME Kinds, NEW s \in Outcomes, End(s), UNCHANGED <<world, faults>>,
         s = "panicked" => faults > 1
  PROVE  Kinds' /\ Started' /\ JoinedInOrder' /\ FaultsCounted' /\ PanicsAreTwo'
<1>1. /\ stage' = s /\ next' = 1 /\ joined' = 0 /\ failed' = FALSE
      /\ world' = world /\ faults' = faults
      /\ worker' = [w \in Workers |-> "none"]
      /\ output' = [w \in Workers |-> <<>>]
  BY DEF End
<1>2. s \notin Stages
  BY DEF Stages, Outcomes
<1>3. Kinds'
  <2>1. worker' \in [Workers -> States]
    BY <1>1 DEF States
  <2>2. DOMAIN output' = Workers /\ \A w \in Workers : IsSeq(output'[w])
    BY <1>1, EmptyIsSeq
  <2>3. world' \in Worlds /\ stage' \in Stages \cup Outcomes
    BY <1>1 DEF Kinds
  <2>5. failed' \in BOOLEAN
    BY <1>1, Zenon
  <2>4. next' \in Nat \ {0} /\ joined' \in Nat /\ faults' \in Nat
    BY <1>1 DEF Kinds
  <2> QED
    BY <2>1, <2>2, <2>3, <2>4, <2>5 DEF Kinds
<1>4. Started' /\ JoinedInOrder' /\ FaultsCounted' /\ PanicsAreTwo'
  BY <1>1, <1>2 DEF Started, JoinedInOrder, FaultsCounted, IsFailed, PanicsAreTwo
<1> QED
  BY <1>3, <1>4

\* The call starts with the workers of its gate.
LEMMA InitProtocol == Init => Protocol
<1> SUFFICES ASSUME Init PROVE Protocol
  OBVIOUS
<1>1. /\ world \in Worlds /\ stage = "gate" /\ next = 1 /\ joined = 0 /\ failed = FALSE
      /\ faults = 0
      /\ worker = [w \in Workers |-> IF w <= WorkerCount("gate") THEN "running" ELSE "none"]
      /\ output = [w \in Workers |-> <<>>]
  BY DEF Init
<1>2. Kinds
  <2>1. worker \in [Workers -> States]
    BY <1>1 DEF States
  <2>2. DOMAIN output = Workers /\ \A w \in Workers : IsSeq(output[w])
    BY <1>1, EmptyIsSeq
  <2>3. world \in Worlds /\ stage \in Stages \cup Outcomes
    BY <1>1 DEF Stages
  <2>5. failed \in BOOLEAN
    BY <1>1, Zenon
  <2>4. next \in Nat \ {0} /\ joined \in Nat /\ faults \in Nat
    BY <1>1
  <2> QED
    BY <2>1, <2>2, <2>3, <2>4, <2>5 DEF Kinds
<1>3. WorkerCount("gate") \in 1 .. MaxWorkers /\ MaxWorkers \in Nat
  BY <1>2, WorkersBounded, LimitsPositive DEF Stages
<1>4. \A w \in Workers : worker[w] \in {"running", "none"}
                         /\ (worker[w] = "none" <=> ~(w <= WorkerCount("gate")))
  BY <1>1
<1>5. Started
  BY <1>1, <1>3, <1>4 DEF Started, Workers, Stages
<1>6. JoinedInOrder /\ FaultsCounted /\ PanicsAreTwo
  BY <1>1, <1>3, <1>4 DEF JoinedInOrder, FaultsCounted, IsFailed, PanicsAreTwo
<1> QED
  BY <1>2, <1>5, <1>6 DEF Protocol

\* What a step of a worker does to the others' view of it.
LEMMA BecomeProtocol ==
  ASSUME Protocol, stage \in Stages, NEW v \in Workers, worker[v] = "running",
         NEW state \in {"running", "ok", "err", "panicked"},
         worker' = [worker EXCEPT ![v] = state],
         UNCHANGED <<world, stage, joined, failed>>,
         faults' = IF state \in {"err", "panicked"} THEN faults + 1 ELSE faults
  PROVE  /\ worker' \in [Workers -> States] /\ faults' \in Nat
         /\ Started' /\ JoinedInOrder' /\ FaultsCounted' /\ PanicsAreTwo'
<1>1. /\ Kinds /\ Started /\ JoinedInOrder /\ FaultsCounted
      /\ worker \in [Workers -> States] /\ faults \in Nat /\ joined \in Nat
      /\ stage' = stage /\ joined' = joined /\ failed' = failed /\ world' = world
  BY DEF Protocol, Kinds
<1>2. /\ worker' \in [Workers -> States] /\ worker'[v] = state
      /\ \A w \in Workers \ {v} : worker'[w] = worker[w]
  BY <1>1 DEF States
<1>3. faults' \in Nat /\ faults' >= faults
      /\ (state \in {"err", "panicked"} => faults' = faults + 1)
  BY <1>1
<1>4. WorkerCount(stage)' = WorkerCount(stage)
  BY <1>1 DEF WorkerCount, Items
<1>5. Started'
  <2>1. \A w \in Workers : worker'[w] = "none" <=> worker[w] = "none"
    BY <1>2
  <2> QED
    BY <2>1, <1>1, <1>4 DEF Started
<1>6. WorkerCount(stage) \in 1 .. MaxWorkers /\ MaxWorkers \in Nat
  BY <1>1, WorkersBounded, LimitsPositive
<1>7. \A w \in 1 .. joined : w \in Workers /\ w # v
  <2>1. \A w \in 1 .. joined : w \in Workers
    BY <1>1, <1>6 DEF JoinedInOrder, Workers
  <2> QED
    BY <2>1, <1>1 DEF JoinedInOrder, Ended
<1>8. JoinedInOrder'
  <2>1. \A w \in 1 .. joined : worker'[w] = worker[w]
    BY <1>2, <1>7
  <2>2. joined > 0 => worker'[joined] = worker[joined]
    BY <2>1, <1>1
  <2> QED
    BY <2>1, <2>2, <1>1, <1>4 DEF JoinedInOrder, Ended, IsFailed
<1>9. FaultsCounted'
  <2>1. \A w \in Workers : IsFailed(w)' => IsFailed(w) \/ (w = v /\ faults' = faults + 1)
    BY <1>2, <1>3 DEF IsFailed
  <2>2. \A w \in Workers : IsFailed(w)' => faults' > 0
    BY <2>1, <1>1, <1>3 DEF FaultsCounted
  <2>3. \A u, w \in Workers : u # w /\ IsFailed(u)' /\ IsFailed(w)' => faults' > 1
    BY <2>1, <1>1, <1>3 DEF FaultsCounted
  <2> QED
    BY <2>2, <2>3 DEF FaultsCounted
<1>10. PanicsAreTwo'
  BY <1>1 DEF PanicsAreTwo, Stages
<1> QED
  BY <1>2, <1>3, <1>5, <1>8, <1>9, <1>10

\* Only a stage has workers that run.
LEMMA RunningInStage ==
  ASSUME Protocol, NEW w \in Workers, worker[w] = "running"
  PROVE  stage \in Stages
BY DEF Protocol, Started

\* A worker that processes an item is still running.
LEMMA ProcessProtocol ==
  ASSUME Protocol, NEW w \in Workers, Process(w)
  PROVE  Protocol'
<1>1. PICK item \in NextItem(w) :
        /\ next' = IF stage = "score" THEN next + 1 ELSE next
        /\ \/ /\ worker' = [worker EXCEPT ![w] = "err"] /\ faults' = faults + 1
              /\ output' = output
           \/ /\ \E result \in ResultsOf(item) :
                    output' = [output EXCEPT ![w] = Append(@, <<item, result>>)]
              /\ worker' = worker /\ faults' = faults
  BY DEF Process, Become
<1>2. /\ worker[w] = "running" /\ world' = world /\ stage' = stage /\ joined' = joined
      /\ failed' = failed
  BY DEF Process
<1>3. /\ Kinds /\ worker \in [Workers -> States] /\ faults \in Nat /\ next \in Nat \ {0}
      /\ DOMAIN output = Workers /\ \A v \in Workers : IsSeq(output[v])
      /\ stage \in Stages
  BY RunningInStage, <1>2 DEF Protocol, Kinds
<1>4. /\ worker' \in [Workers -> States] /\ faults' \in Nat
      /\ Started' /\ JoinedInOrder' /\ FaultsCounted' /\ PanicsAreTwo'
  <2>1. CASE worker' = [worker EXCEPT ![w] = "err"] /\ faults' = faults + 1
    BY <2>1, <1>2, <1>3, BecomeProtocol
  <2>2. CASE worker' = worker /\ faults' = faults
    <3>1. worker' = [worker EXCEPT ![w] = "running"]
      BY <2>2, <1>2, <1>3
    <3> QED
      BY <3>1, <2>2, <1>2, <1>3, BecomeProtocol
  <2> QED
    BY <1>1, <2>1, <2>2
<1>5. DOMAIN output' = Workers /\ \A v \in Workers : IsSeq(output'[v])
  <2>1. CASE output' = output
    BY <2>1, <1>3
  <2>2. ASSUME NEW result \in ResultsOf(item),
               output' = [output EXCEPT ![w] = Append(@, <<item, result>>)]
        PROVE  DOMAIN output' = Workers /\ \A v \in Workers : IsSeq(output'[v])
    <3>1. IsSeq(Append(output[w], <<item, result>>))
      BY <1>3, SeqAppend
    <3> QED
      BY <3>1, <2>2, <1>3
  <2> QED
    BY <1>1, <2>1, <2>2
<1>6. next' \in Nat \ {0}
  BY <1>1, <1>3
<1>7. world' \in Worlds /\ stage' \in Stages \cup Outcomes /\ joined' \in Nat /\ failed' \in BOOLEAN
  BY <1>2, <1>3, Zenon DEF Protocol, Kinds
<1>8. Kinds'
  BY <1>4, <1>5, <1>6, <1>7 DEF Kinds
<1> QED
  BY <1>4, <1>8 DEF Protocol

\* A worker that returns has failed only over a fault.
LEMMA FinishProtocol ==
  ASSUME Protocol, NEW w \in Workers, Finish(w)
  PROVE  Protocol'
<1>1. /\ worker[w] = "running" /\ world' = world /\ stage' = stage /\ joined' = joined
      /\ failed' = failed /\ output' = output /\ next' = next /\ faults' = faults
      /\ worker' = [worker EXCEPT ![w] = "ok"]
  BY DEF Finish, Become
<1>2. Kinds /\ stage \in Stages
  BY RunningInStage, <1>1 DEF Protocol
<1>3. /\ worker' \in [Workers -> States] /\ faults' \in Nat
      /\ Started' /\ JoinedInOrder' /\ FaultsCounted' /\ PanicsAreTwo'
  BY <1>1, <1>2, BecomeProtocol
<1>4. Kinds'
  BY <1>1, <1>2, <1>3 DEF Kinds
<1> QED
  BY <1>3, <1>4 DEF Protocol

\* A panic is one fault more.
LEMMA PanicProtocol ==
  ASSUME Protocol, NEW w \in Workers, Panic(w)
  PROVE  Protocol'
<1>1. /\ worker[w] = "running" /\ world' = world /\ stage' = stage /\ joined' = joined
      /\ failed' = failed /\ output' = output /\ faults' = faults + 1
      /\ next' = IF stage = "score" THEN next + 1 ELSE next
      /\ worker' = [worker EXCEPT ![w] = "panicked"]
  BY DEF Panic, Become
<1>2. Kinds /\ stage \in Stages
  BY RunningInStage, <1>1 DEF Protocol
<1>3. /\ worker' \in [Workers -> States] /\ faults' \in Nat
      /\ Started' /\ JoinedInOrder' /\ FaultsCounted' /\ PanicsAreTwo'
  BY <1>1, <1>2, BecomeProtocol
<1>4. next' \in Nat \ {0}
  BY <1>1, <1>2 DEF Kinds
<1>5. Kinds'
  BY <1>1, <1>2, <1>3, <1>4 DEF Kinds
<1> QED
  BY <1>3, <1>5 DEF Protocol

\* The caller joins the workers in the order it started them, to the first
\* that failed.
LEMMA JoinProtocol ==
  ASSUME Protocol, Join
  PROVE  Protocol'
<1>1. /\ stage \in Stages /\ failed = FALSE /\ joined < WorkerCount(stage)
      /\ Ended(joined + 1) /\ joined' = joined + 1
      /\ failed' = (worker[joined + 1] # "ok")
      /\ world' = world /\ stage' = stage /\ worker' = worker /\ output' = output
      /\ next' = next /\ faults' = faults
  BY DEF Join, Protocol, Kinds
<1>2. Kinds /\ Started /\ JoinedInOrder /\ joined \in Nat
  BY DEF Protocol, Kinds
<1>3. WorkerCount(stage) \in 1 .. MaxWorkers /\ MaxWorkers \in Nat
  BY <1>1, <1>2, WorkersBounded, LimitsPositive
<1>4. joined + 1 \in Workers /\ joined + 1 <= WorkerCount(stage)
  BY <1>1, <1>2, <1>3 DEF Workers
<1>5. worker[joined + 1] \in {"ok", "err", "panicked"}
  <2>1. worker[joined + 1] # "none"
    BY <1>1, <1>2, <1>3, <1>4 DEF Started
  <2> QED
    BY <2>1, <1>1 DEF Ended
<1>6. WorkerCount(stage)' = WorkerCount(stage)
  BY <1>1 DEF WorkerCount, Items
<1>7. \A w \in 1 .. joined + 1 : w \in 1 .. joined \/ w = joined + 1
  BY <1>2
<1>8. \A w \in 1 .. joined : worker[w] = "ok"
  BY <1>1, <1>2 DEF JoinedInOrder
<1>9. JoinedInOrder'
  <2>1. joined' <= WorkerCount(stage)'
    BY <1>1, <1>4, <1>6
  <2>2. \A w \in 1 .. joined' : Ended(w)'
    BY <1>1, <1>5, <1>7, <1>8 DEF Ended
  <2>3. failed' => joined' > 0 /\ IsFailed(joined)'
    <3>1. failed' => worker[joined + 1] \in {"err", "panicked"}
      BY <1>1, <1>5, Zenon
    <3>2. joined' > 0 /\ worker'[joined'] = worker[joined + 1]
      BY <1>1, <1>2
    <3> QED
      BY <3>1, <3>2, Zenon DEF IsFailed
  <2>4. ~failed' => \A w \in 1 .. joined' : worker'[w] = "ok"
    BY <1>1, <1>5, <1>7, <1>8
  <2> QED
    BY <2>1, <2>2, <2>3, <2>4 DEF JoinedInOrder
<1>10. failed' \in BOOLEAN /\ joined' \in Nat
  BY <1>1, <1>2
<1>11. Kinds'
  BY <1>1, <1>2, <1>10 DEF Kinds
<1>12. Started' /\ FaultsCounted' /\ PanicsAreTwo'
  BY <1>1, <1>6 DEF Protocol, Started, FaultsCounted, IsFailed, PanicsAreTwo
<1> QED
  BY <1>9, <1>11, <1>12 DEF Protocol

\* The ways a stage may end.
LEMMA LeaveWays ==
  ASSUME Leave
  PROVE  /\ stage \in Stages /\ \A w \in Workers : Ended(w)
         /\ failed \/ joined = WorkerCount(stage)
         /\ world' = world /\ faults' = faults
         /\ \/ /\ \E w \in Workers : w > joined /\ worker[w] = "panicked"
               /\ End("panicked") /\ UNCHANGED <<shortlist, outcome>>
            \/ failed /\ End("error") /\ UNCHANGED <<shortlist, outcome>>
            \/ ~failed /\ stage = "gate" /\ AfterGate
            \/ ~failed /\ stage = "embed" /\ AfterEmbed
            \/ ~failed /\ stage = "query" /\ AfterQuery
            \/ ~failed /\ stage = "score" /\ AfterScore
<1>1. stage \in Stages => stage = "gate" \/ stage = "embed" \/ stage = "query" \/ stage = "score"
  BY DEF Stages
<1>2. ASSUME stage \in Stages,
             CASE stage = "gate" -> AfterGate [] stage = "embed" -> AfterEmbed
               [] stage = "query" -> AfterQuery [] stage = "score" -> AfterScore
      PROVE  \/ stage = "gate" /\ AfterGate
             \/ stage = "embed" /\ AfterEmbed
             \/ stage = "query" /\ AfterQuery
             \/ stage = "score" /\ AfterScore
  BY <1>1, <1>2, Zenon
<1> QED
  BY <1>2, Zenon DEF Leave

\* The next stage starts with workers of its own.
LEMMA LeaveProtocol ==
  ASSUME Protocol, Leave
  PROVE  Protocol'
<1>1. /\ Kinds /\ Started /\ JoinedInOrder /\ FaultsCounted
      /\ stage \in Stages /\ world' = world /\ faults' = faults
      /\ failed \/ joined = WorkerCount(stage)
      /\ joined \in Nat
  BY LeaveWays DEF Protocol, Kinds
<1>2. WorkerCount(stage) \in 1 .. MaxWorkers /\ MaxWorkers \in Nat
  BY <1>1, WorkersBounded, LimitsPositive
<1>3. ASSUME NEW w \in Workers, w > joined, worker[w] = "panicked"
      PROVE  faults > 1
  <2>1. w <= WorkerCount(stage)
    BY <1>1, <1>2, <1>3 DEF Started, Workers
  <2>2. failed
    BY <2>1, <1>1, <1>2, <1>3 DEF Workers
  <2>3. joined > 0 /\ IsFailed(joined) /\ joined \in Workers /\ joined # w
    BY <2>2, <1>1, <1>2, <1>3 DEF JoinedInOrder, Workers
  <2>4. IsFailed(w)
    BY <1>3 DEF IsFailed
  <2> QED
    BY <2>3, <2>4, <1>1 DEF FaultsCounted
<1>4. ASSUME NEW s \in Stages, Begin(s) PROVE Protocol'
  BY <1>1, <1>4, BeginProtocol DEF Protocol
<1>5. ASSUME NEW s \in Outcomes, End(s), s = "panicked" => faults > 1 PROVE Protocol'
  BY <1>1, <1>5, EndProtocol DEF Protocol
<1>6. /\ "embed" \in Stages /\ "query" \in Stages /\ "score" \in Stages
      /\ "done" \in Outcomes /\ "error" \in Outcomes /\ "panicked" \in Outcomes
      /\ "done" # "panicked" /\ "error" # "panicked"
  BY DEF Stages, Outcomes
<1>7. CASE \E w \in Workers : w > joined /\ worker[w] = "panicked" /\ End("panicked")
  BY <1>3, <1>5, <1>6, <1>7
<1>8. CASE End("error")
  BY <1>5, <1>6, <1>8
<1>9. CASE AfterGate
  BY <1>4, <1>5, <1>6, <1>9 DEF AfterGate
<1>10. CASE AfterEmbed
  BY <1>4, <1>5, <1>6, <1>10 DEF AfterEmbed
<1>11. CASE AfterQuery
  BY <1>4, <1>5, <1>6, <1>11 DEF AfterQuery
<1>12. CASE AfterScore
  BY <1>4, <1>5, <1>6, <1>12 DEF AfterScore
<1> QED
  BY <1>7, <1>8, <1>9, <1>10, <1>11, <1>12, LeaveWays

\* Every step keeps the protocol.
LEMMA ProtocolStep == Protocol /\ [Next]_vars => Protocol'
<1> SUFFICES ASSUME Protocol, [Next]_vars PROVE Protocol'
  OBVIOUS
<1>1. CASE Join
  BY <1>1, JoinProtocol
<1>2. CASE Leave
  BY <1>2, LeaveProtocol
<1>3. CASE \E w \in Workers : Process(w) \/ Finish(w) \/ Panic(w)
  BY <1>3, ProcessProtocol, FinishProtocol, PanicProtocol
<1>4. CASE UNCHANGED vars
  BY <1>4 DEF vars, Protocol, Kinds, Started, WorkerCount, Items, JoinedInOrder, Ended,
              FaultsCounted, IsFailed, PanicsAreTwo
<1> QED
  BY <1>1, <1>2, <1>3, <1>4 DEF Next

\* The protocol of the workers and the caller that joins them: a panic that
\* reaches the caller is the second fault of the call.
THEOREM ProtocolHolds == Spec => []Protocol
<1> QED
  BY InitProtocol, ProtocolStep, PTL DEF Spec

------- (* Lookups: the code of a second, found again in its leaf *) -------

\* The indices of a sequence.
LEMMA SeqDomain == ASSUME NEW s, IsSeq(s) PROVE Len(s) \in Nat /\ DOMAIN s = 1 .. Len(s)
BY DEF IsSeq

\* The positions of a sequence, one by one.
LEMMA UpTo ==
  ASSUME NEW n \in Nat \ {0}
  PROVE  IsFiniteSet(1 .. n - 1) /\ Cardinality(1 .. n - 1) = n - 1
<1>1. \A m \in Int : IsFiniteSet(1 .. m) /\ Cardinality(1 .. m) = IF 1 > m THEN 0 ELSE m - 1 + 1
  BY FS_Interval
<1>2. n - 1 \in Int /\ n - 1 >= 0
  OBVIOUS
<1> DEFINE m == n - 1
<1> HIDE DEF m
<1>3. m \in Int /\ m >= 0
  BY <1>2 DEF m
<1>4. IsFiniteSet(1 .. m) /\ Cardinality(1 .. m) = m
  BY <1>1, <1>3
<1> QED
  BY <1>4 DEF m

\* The place of an entry in a leaf: after the smaller tracks and after the
\* entries of its own track before it.
LEMMA LeafPlace ==
  ASSUME NEW leaf, NEW songs, NEW p, Lays(leaf, songs, p), DOMAIN songs \subseteq Int,
         NEW i \in DOMAIN leaf.ids
  PROVE  /\ i \in Nat \ {0} /\ Ordinal(leaf.ids, i) \in Nat
         /\ i = Cardinality({j \in DOMAIN leaf.ids : leaf.ids[j] < leaf.ids[i]})
                  + Ordinal(leaf.ids, i) + 1
<1> DEFINE A == {j \in DOMAIN leaf.ids : leaf.ids[j] < leaf.ids[i]}
           B == {j \in 1 .. i - 1 : leaf.ids[j] = leaf.ids[i]}
<1>1. Len(leaf.ids) \in Nat /\ DOMAIN leaf.ids = 1 .. Len(leaf.ids) /\ i \in Nat \ {0}
      /\ i <= Len(leaf.ids)
  BY SeqDomain DEF Lays
<1>2. \A j \in DOMAIN leaf.ids : leaf.ids[j] \in Int
  BY DEF Lays, Range
<1>3. \A j, k \in DOMAIN leaf.ids : j < k => leaf.ids[j] <= leaf.ids[k]
  BY DEF Lays
<1>4. A \cup B = 1 .. i - 1
  <2>1. \A j \in A : j \in 1 .. i - 1
    <3> SUFFICES ASSUME NEW j \in A PROVE j < i
      BY <1>1
    <3>1. ~(i < j) /\ i # j
      BY <1>1, <1>2, <1>3
    <3> QED
      BY <3>1, <1>1
  <2>2. \A j \in 1 .. i - 1 : j \in DOMAIN leaf.ids /\ leaf.ids[j] <= leaf.ids[i]
    BY <1>1, <1>3
  <2>3. \A j \in 1 .. i - 1 : j \in A \cup B
    BY <2>2, <1>1, <1>2
  <2> QED
    BY <2>1, <2>3
<1>5. A \cap B = {}
  BY <1>1, <1>2
<1>6. IsFiniteSet(1 .. i - 1) /\ Cardinality(1 .. i - 1) = i - 1
  BY <1>1, UpTo
<1>7. IsFiniteSet(A) /\ IsFiniteSet(B)
  <2>1. A \subseteq 1 .. i - 1 /\ B \subseteq 1 .. i - 1
    BY <1>4
  <2> QED
    BY <2>1, <1>6, FS_Subset
<1>8. Cardinality(A) \in Nat /\ Cardinality(B) \in Nat /\ Cardinality({}) = 0
  BY <1>7, FS_CardinalityType, FS_EmptySet
<1>9. Cardinality(A \cup B) = Cardinality(A) + Cardinality(B) - Cardinality(A \cap B)
  BY <1>7, FS_Union
<1>10. Ordinal(leaf.ids, i) = Cardinality(B)
  BY DEF Ordinal
<1> HIDE DEF A, B
<1>11. i = Cardinality(A) + Ordinal(leaf.ids, i) + 1
  <2>1. Cardinality(A \cup B) = i - 1 /\ Cardinality(A \cap B) = 0
    BY <1>4, <1>5, <1>6, <1>8, Zenon
  <2> QED
    BY <2>1, <1>1, <1>8, <1>9, <1>10
<1> QED
  BY <1>1, <1>8, <1>10, <1>11 DEF A

\* The lookup of one second in a shard that was built from the song.
LEMMA CodeFound ==
  ASSUME NEW shard, NEW songs, Builds(shard, songs), NEW t \in DOMAIN songs,
         NEW k \in DOMAIN songs[t]
  PROVE  LET parts == PartitionsOf(songs[t])
             p == songs[t][k].partition
         IN  /\ parts[k] = p /\ DOMAIN parts = DOMAIN songs[t]
             /\ songs[t][k] = Stored(p, songs[t][k].code)
             /\ UNION {CodeIn(leaf, t, Ordinal(parts, k)) : leaf \in NamedLeaf(shard, p)}
                  = {songs[t][k].code}
             /\ CodeOf(shard, t, parts, k) = {songs[t][k].code}
<1> DEFINE parts == PartitionsOf(songs[t])
           p == songs[t][k].partition
<1>1. parts[k] = p /\ DOMAIN parts = DOMAIN songs[t] /\ p \in Range(parts)
  BY DEF PartitionsOf, Range
<1>2. p \in DOMAIN shard.T
  BY <1>1 DEF Builds
<1>3. PICK leaf \in shard.T[p] : shard.T[p] = {leaf} /\ Lays(leaf, songs, p)
  BY <1>2 DEF Builds
<1>4. PICK i \in DOMAIN leaf.ids : leaf.ids[i] = t /\ Entry(leaf, i, songs[t], k, p)
  BY <1>3 DEF Lays
<1>5. NamedLeaf(shard, p) = {leaf}
  BY <1>2, <1>3 DEF NamedLeaf, Leaf, Record
<1>6. songs[t][k] = Stored(p, leaf.codes[i]) /\ Ordinal(parts, k) = Ordinal(leaf.ids, i)
  BY <1>4 DEF Entry
<1>7. songs[t][k].code = leaf.codes[i]
  BY <1>6 DEF Stored
<1>8. DOMAIN songs \subseteq Int
  BY DEF Builds
<1>9. i = Cardinality({j \in DOMAIN leaf.ids : leaf.ids[j] < t}) + Ordinal(leaf.ids, i) + 1
  <2>1. i = Cardinality({j \in DOMAIN leaf.ids : leaf.ids[j] < leaf.ids[i]})
              + Ordinal(leaf.ids, i) + 1
    BY <1>3, <1>8, LeafPlace
  <2>2. leaf.ids[i] = t
    BY <1>4
  <2>3. {j \in DOMAIN leaf.ids : leaf.ids[j] < leaf.ids[i]}
          = {j \in DOMAIN leaf.ids : leaf.ids[j] < t}
    BY <2>2
  <2> QED
    BY ONLY <2>1, <2>3
<1>10. CodeIn(leaf, t, Ordinal(parts, k)) = {leaf.codes[i]}
  BY <1>4, <1>6, <1>9 DEF CodeIn
<1> HIDE DEF parts, p
<1>11. UNION {CodeIn(l, t, Ordinal(parts, k)) : l \in NamedLeaf(shard, p)} = {songs[t][k].code}
  BY <1>5, <1>7, <1>10
<1>12. CodeOf(shard, t, parts, k) = {songs[t][k].code}
  BY <1>1, <1>11 DEF CodeOf
<1> QED
  BY <1>1, <1>6, <1>7, <1>11, <1>12 DEF parts, p

\* A function into the parts of a finite set takes a value that no other
\* value is strictly within.
LEMMA SmallestSet ==
  ASSUME NEW all, IsFiniteSet(all), NEW T, T # {}, NEW f \in [T -> SUBSET all]
  PROVE  \E x \in T : \A y \in T : ~(f[y] \subseteq f[x] /\ f[y] # f[x])
<1> DEFINE sets == {f[x] : x \in T}
<1>1. IsWellFoundedOn(StrictSubsetOrdering(all), FiniteSubsetsOf(all))
  BY FS_StrictSubsetOrderingWellFounded
<1>2. FiniteSubsetsOf(all) = SUBSET all
  BY FS_FiniteSubsetsOfFinite
<1>3. sets \subseteq FiniteSubsetsOf(all) /\ sets # {}
  BY <1>2
<1>4. PICK m \in sets : \A s \in sets : <<s, m>> \notin StrictSubsetOrdering(all)
  BY <1>1, <1>3, WFMin
<1>5. PICK x \in T : m = f[x]
  BY <1>4
<1>6. ASSUME NEW y \in T, f[y] \subseteq f[x], f[y] # f[x]
      PROVE  FALSE
  <2>1. <<f[y], f[x]>> \in StrictSubsetOrdering(all)
    BY <1>6 DEF StrictSubsetOrdering
  <2> QED
    BY <1>4, <1>5, <2>1
<1> QED
  BY <1>6

\* A set of numbers has a least one. It stands for induction below.
LEMMA LeastOf ==
  ASSUME NEW T, T \subseteq Nat, T # {}
  PROVE  \E x \in T : \A y \in T : x <= y
<1>1. PICK n \in T : TRUE
  OBVIOUS
<1> DEFINE low == {x \in T : x <= n}
           f == [x \in low |-> 1 .. x]
<1>2. low # {} /\ n \in Nat /\ low \subseteq Nat
  <2>1. n \in Nat /\ n <= n
    OBVIOUS
  <2> QED
    BY <2>1
<1>3. f \in [low -> SUBSET (1 .. n)]
  BY <1>2
<1>4. PICK x \in low : \A y \in low : ~(f[y] \subseteq f[x] /\ f[y] # f[x])
  <2>1. \A m \in Int : IsFiniteSet(1 .. m)
    BY FS_Interval
  <2>2. IsFiniteSet(1 .. n)
    BY <2>1, <1>2
  <2> DEFINE all == 1 .. n
  <2> HIDE DEF f, low, all
  <2>3. IsFiniteSet(all) /\ f \in [low -> SUBSET all] /\ low # {}
    BY <2>2, <1>2, <1>3 DEF all
  <2> QED
    BY ONLY <2>3, SmallestSet
<1>5. ASSUME NEW y \in low, y < x PROVE FALSE
  <2>1. f[y] \subseteq f[x] /\ x \in f[x] /\ x \notin f[y]
    BY <1>2, <1>5
  <2> QED
    BY <2>1, <1>4
<1>6. \A y \in T : x <= y
  BY <1>1, <1>2, <1>5
<1> QED
  BY <1>6

\* A finite set has an element with the least value.
LEMMA LeastValue ==
  ASSUME NEW S, IsFiniteSet(S), S # {}, NEW v \in [S -> Int]
  PROVE  \E x \in S : \A y \in S : v[x] <= v[y]
<1> DEFINE f == [x \in S |-> {y \in S : v[y] < v[x]}]
<1>1. f \in [S -> SUBSET S]
  OBVIOUS
<1>2. PICK x \in S : \A y \in S : ~(f[y] \subseteq f[x] /\ f[y] # f[x])
  <2> HIDE DEF f
  <2> QED
    BY <1>1, SmallestSet
<1>3. ASSUME NEW y \in S, v[y] < v[x] PROVE FALSE
  <2>1. f[y] \subseteq f[x] /\ y \in f[x] /\ y \notin f[y]
    BY <1>3
  <2> QED
    BY <2>1, <1>2
<1>4. \A y \in S : v[x] <= v[y]
  BY <1>3
<1> QED
  BY <1>4

\* How many of the first k are equal to q.
Count(seq, k, q) == Cardinality({j \in 1 .. k : seq[j] = q})

\* Counting one position more.
LEMMA CountNext ==
  ASSUME NEW seq, NEW k \in Nat, NEW q
  PROVE  /\ Count(seq, k, q) \in Nat /\ Count(seq, 0, q) = 0
         /\ seq[k + 1] = q => Count(seq, k + 1, q) = Count(seq, k, q) + 1
         /\ seq[k + 1] # q => Count(seq, k + 1, q) = Count(seq, k, q)
         /\ IsFiniteSet({j \in 1 .. k : seq[j] = q})
<1> DEFINE S == {j \in 1 .. k : seq[j] = q}
           S1 == {j \in 1 .. k + 1 : seq[j] = q}
<1>1. IsFiniteSet(S) /\ Cardinality(S) \in Nat
  <2>1. IsFiniteSet(1 .. k) /\ S \subseteq 1 .. k
    BY FS_Interval
  <2> QED
    BY <2>1, FS_Subset, FS_CardinalityType
<1>2. {j \in 1 .. 0 : seq[j] = q} = {} /\ Cardinality({}) = 0
  BY FS_EmptySet
<1>3. CASE seq[k + 1] = q
  <2>1. S1 = S \cup {k + 1} /\ k + 1 \notin S
    BY <1>3
  <2>2. Cardinality(S \cup {k + 1}) = Cardinality(S) + 1
    <3> HIDE DEF S
    <3> QED
      BY <2>1, <1>1, FS_AddElement
  <2> QED
    BY <2>1, <2>2, <1>1, <1>2, <1>3 DEF Count
<1>4. CASE seq[k + 1] # q
  <2>1. S1 = S
    BY <1>4
  <2> QED
    BY <2>1, <1>1, <1>2, <1>4 DEF Count
<1> QED
  BY <1>3, <1>4

\* What TrackCodes has gathered after k seconds.
Gathered(song, k) ==
    LET parts == PartitionsOf(song)
    IN  [codes |-> [j \in 1 .. k |-> song[j]],
         ordinals |-> [q \in {parts[j] : j \in 1 .. k} |-> Count(parts, k, q)]]

\* What TrackCodes counts of a partition after one second more.
LEMMA CountedNext ==
  ASSUME NEW parts, NEW k \in Nat
  PROVE  LET ordinals(i) == [q \in {parts[j] : j \in 1 .. i} |-> Count(parts, i, q)]
             p == parts[k + 1]
         IN  /\ Counted(ordinals(k), p) = ordinals(k + 1)
             /\ Count(parts, k, p) = IF p \in DOMAIN ordinals(k) THEN ordinals(k)[p] ELSE 0
<1>0. ASSUME NEW q
      PROVE  /\ Count(parts, k, q) \in Nat
             /\ parts[k + 1] = q => Count(parts, k + 1, q) = Count(parts, k, q) + 1
             /\ parts[k + 1] # q => Count(parts, k + 1, q) = Count(parts, k, q)
  BY CountNext
<1> DEFINE dom(i) == {parts[j] : j \in 1 .. i}
           ordinals(i) == [q \in dom(i) |-> Count(parts, i, q)]
           p == parts[k + 1]
<1>1. dom(k + 1) = dom(k) \cup {p}
  OBVIOUS
<1>2. \A q : /\ Count(parts, k, q) \in Nat
             /\ p = q => Count(parts, k + 1, q) = Count(parts, k, q) + 1
             /\ p # q => Count(parts, k + 1, q) = Count(parts, k, q)
  BY <1>0
<1>3. \A q : q \notin dom(k) => Count(parts, k, q) = 0
  <2> SUFFICES ASSUME NEW q, q \notin dom(k) PROVE Count(parts, k, q) = 0
    OBVIOUS
  <2>1. {j \in 1 .. k : parts[j] = q} = {}
    OBVIOUS
  <2> QED
    BY <2>1, FS_EmptySet DEF Count
<1>4. DOMAIN ordinals(k) = dom(k)
  OBVIOUS
<1> HIDE DEF dom, p
<1>5. \A q \in dom(k + 1) :
        Count(parts, k + 1, q) = IF q \notin DOMAIN ordinals(k) THEN 1
                                 ELSE ordinals(k)[q] + IF q = p THEN 1 ELSE 0
  BY <1>1, <1>2, <1>3
<1>6. Counted(ordinals(k), p) = ordinals(k + 1)
  BY <1>1, <1>4, <1>5 DEF Counted
<1>7. Count(parts, k, p) = IF p \in DOMAIN ordinals(k) THEN ordinals(k)[p] ELSE 0
  BY <1>3, <1>4
<1> QED
  BY <1>6, <1>7 DEF dom, p

\* One second more.
LEMMA NextGathered ==
  ASSUME NEW shard, NEW songs, Builds(shard, songs), NEW t \in DOMAIN songs,
         NEW k \in Nat, k + 1 \in DOMAIN songs[t]
  PROVE  NextCode(shard, t, PartitionsOf(songs[t]), Gathered(songs[t], k))
           = {Gathered(songs[t], k + 1)}
<1> DEFINE song == songs[t]
           parts == PartitionsOf(song)
           s == Gathered(song, k)
           p == parts[k + 1]
           ordinal == IF p \in DOMAIN s.ordinals THEN s.ordinals[p] ELSE 0
           found == UNION {CodeIn(leaf, t, ordinal) : leaf \in NamedLeaf(shard, p)}
           c == song[k + 1].code
<1>1. s.codes = [j \in 1 .. k |-> song[j]] /\ Len(s.codes) = k
  BY DEF Gathered
<1>2. /\ s.ordinals = [q \in {parts[j] : j \in 1 .. k} |-> Count(parts, k, q)]
      /\ Gathered(song, k + 1).ordinals
           = [q \in {parts[j] : j \in 1 .. k + 1} |-> Count(parts, k + 1, q)]
  BY DEF Gathered
<1>3. Counted(s.ordinals, p) = Gathered(song, k + 1).ordinals /\ ordinal = Count(parts, k, p)
  <2> DEFINE ordinals(i) == [q \in {parts[j] : j \in 1 .. i} |-> Count(parts, i, q)]
  <2> HIDE DEF parts
  <2>1. /\ Counted(ordinals(k), p) = ordinals(k + 1)
        /\ Count(parts, k, p) = IF p \in DOMAIN ordinals(k) THEN ordinals(k)[p] ELSE 0
    BY CountedNext
  <2>2. s.ordinals = ordinals(k) /\ Gathered(song, k + 1).ordinals = ordinals(k + 1)
    BY <1>2
  <2> HIDE DEF ordinals, s, p
  <2> QED
    BY <2>1, <2>2
<1>4. Ordinal(parts, k + 1) = Count(parts, k, p)
  <2>1. k + 1 - 1 = k
    OBVIOUS
  <2> QED
    BY <2>1 DEF Ordinal, Count
<1>5. p = song[k + 1].partition /\ song[k + 1] = Stored(p, c)
      /\ UNION {CodeIn(leaf, t, Ordinal(parts, k + 1)) : leaf \in NamedLeaf(shard, p)} = {c}
  BY CodeFound
<1>6. found = {c}
  <2> HIDE DEF parts, p, c, ordinal
  <2> QED
    BY <1>3, <1>4, <1>5
<1>7. NextCode(shard, t, parts, s)
        = {[codes |-> Append(s.codes, Stored(p, x)), ordinals |-> Counted(s.ordinals, p)] : x \in found}
  <2>1. parts[Len(s.codes) + 1] = p
    BY <1>1
  <2> HIDE DEF s, parts
  <2> QED
    BY <2>1 DEF NextCode
<1>8. Append(s.codes, song[k + 1]) = [j \in 1 .. k + 1 |-> song[j]]
  <2> HIDE DEF s, song
  <2>1. \A j \in 1 .. k + 1 : j \in 1 .. k \/ j = k + 1
    OBVIOUS
  <2>2. s.codes \in Seq({song[j] : j \in 1 .. k})
    BY <1>1
  <2> QED
    BY <1>1, <2>1, <2>2
<1>9. Gathered(song, k + 1) = [codes |-> [j \in 1 .. k + 1 |-> song[j]],
                               ordinals |-> Gathered(song, k + 1).ordinals]
  BY DEF Gathered
<1> HIDE DEF s, p, found, c, ordinal, parts, song
<1> QED
  <2>1. NextCode(shard, t, parts, s)
          = {[codes |-> Append(s.codes, song[k + 1]), ordinals |-> Counted(s.ordinals, p)]}
    BY <1>5, <1>6, <1>7
  <2>2. NextCode(shard, t, parts, s) = {Gathered(song, k + 1)}
    BY <2>1, <1>3, <1>8, <1>9
  <2> QED
    BY <2>2 DEF s, parts, song

\* The loop of TrackCodes.
Walked(shard, t, parts) ==
    Try([codes |-> <<>>, ordinals |-> [p \in {} |-> 0]],
        LAMBDA s : NextCode(shard, t, parts, s), Len(parts))

\* It passes through what is gathered after each second.
LEMMA WalkGathers ==
  ASSUME NEW shard, NEW songs, Builds(shard, songs), NEW t \in DOMAIN songs
  PROVE  Walked(shard, t, PartitionsOf(songs[t]))
           = {Gathered(songs[t], Len(PartitionsOf(songs[t])))}
<1> DEFINE song == songs[t]
           parts == PartitionsOf(song)
           n == Len(parts)
           Start == [codes |-> <<>>, ordinals |-> [p \in {} |-> 0]]
           Step(S) == UNION {NextCode(shard, t, parts, s) : s \in S}
           Rounds(f) == f = [k \in 0 .. n |-> IF k = 0 THEN {Start} ELSE Step(f[k - 1])]
           g == [k \in 0 .. n |-> {Gathered(song, k)}]
<1>1. n \in Nat /\ DOMAIN song = 1 .. n
  <2>1. IsSeq(song)
    BY DEF Builds
  <2>2. DOMAIN parts = DOMAIN song /\ DOMAIN song = 1 .. Len(song) /\ Len(song) \in Nat
    BY <2>1, SeqDomain DEF PartitionsOf
  <2> QED
    BY <2>2
<1>2. Gathered(song, 0) = Start
  <2>1. \A f : 1 .. 0 = {} /\ {f[j] : j \in 1 .. 0} = {}
    OBVIOUS
  <2>2. [j \in 1 .. 0 |-> song[j]] = <<>>
    OBVIOUS
  <2>3. {parts[j] : j \in 1 .. 0} = {}
    OBVIOUS
  <2>4. [q \in {parts[j] : j \in 1 .. 0} |-> Count(parts, 0, q)] = [p \in {} |-> 0]
    BY <2>3
  <2> QED
    BY <2>2, <2>4 DEF Gathered
<1>3. \A k \in 1 .. n : Step({Gathered(song, k - 1)}) = {Gathered(song, k)}
  <2> SUFFICES ASSUME NEW k \in 1 .. n PROVE Step({Gathered(song, k - 1)}) = {Gathered(song, k)}
    OBVIOUS
  <2>1. k - 1 \in Nat /\ (k - 1) + 1 = k /\ k \in DOMAIN song
    BY <1>1
  <2>2. NextCode(shard, t, parts, Gathered(song, k - 1)) = {Gathered(song, k)}
    BY <2>1, NextGathered
  <2> HIDE DEF song, parts
  <2> QED
    BY <2>2
<1>4. Rounds(g)
  <2> HIDE DEF Step, Start, n, song
  <2>1. \A k \in 0 .. n : k # 0 => k \in 1 .. n /\ k - 1 \in 0 .. n
    BY <1>1
  <2> QED
    BY <1>2, <1>3, <2>1
<1>5. \E f : Rounds(f) /\ Walked(shard, t, parts) = f[n]
  <2> HIDE DEF g, parts
  <2> QED
    BY <1>4 DEF Walked, Try, Loop
<1>6. PICK f : Rounds(f) /\ Walked(shard, t, parts) = f[n]
  BY <1>5
<1>7. \A k \in 0 .. n : f[k] = {Gathered(song, k)}
  <2> DEFINE Bad == {k \in 0 .. n : f[k] # {Gathered(song, k)}}
  <2> HIDE DEF Step, Start, song, n
  <2>1. SUFFICES ASSUME Bad # {} PROVE FALSE
    OBVIOUS
  <2>2. PICK m \in Bad : \A y \in Bad : m <= y
    <3>1. Bad \subseteq Nat
      BY <1>1
    <3> HIDE DEF Bad
    <3> QED
      BY <2>1, <3>1, LeastOf
  <2>3. m \in 0 .. n /\ f[m] = IF m = 0 THEN {Start} ELSE Step(f[m - 1])
    BY <1>6
  <2>4. m # 0
    BY <2>2, <2>3, <1>2
  <2>5. m - 1 \in 0 .. n /\ m - 1 \notin Bad /\ m \in 1 .. n
    BY <2>2, <2>3, <2>4, <1>1
  <2>6. f[m - 1] = {Gathered(song, m - 1)}
    BY <2>5
  <2>7. f[m] = {Gathered(song, m)}
    BY <2>3, <2>4, <2>5, <2>6, <1>3
  <2> QED
    BY <2>2, <2>7
<1>8. n \in 0 .. n
  BY <1>1
<1> QED
  BY <1>6, <1>7, <1>8

\* The codes of a track in a shard that was built from its songs are the song.
LEMMA TrackCodesRight ==
  ASSUME NEW shard, NEW songs, Builds(shard, songs), NEW t
  PROVE  TrackCodes(shard, t) = IF t \in DOMAIN songs THEN {{songs[t]}} ELSE {{}}
<1> DEFINE Start == [codes |-> <<>>, ordinals |-> [p \in {} |-> 0]]
           All(partitions) ==
             {{s.codes} : s \in Try(Start, LAMBDA s : NextCode(shard, t, partitions, s),
                                    Len(partitions))}
           Found(result) == IF result = {} THEN {{}} ELSE UNION {All(p) : p \in result}
<1>1. TrackCodes(shard, t) = UNION {Found(result) : result \in Partitions(shard, t)}
  BY DEF TrackCodes
<1>2. CASE t \notin DOMAIN songs
  <2>1. Partitions(shard, t) = {{}}
    BY <1>2 DEF Partitions, Record, Builds
  <2>2. Found({}) = {{}}
    OBVIOUS
  <2> HIDE DEF Found
  <2> QED
    BY <1>1, <1>2, <2>1, <2>2
<1>3. CASE t \in DOMAIN songs
  <2> DEFINE parts == PartitionsOf(songs[t])
  <2>1. Partitions(shard, t) = {{parts}}
    BY <1>3 DEF Partitions, Record, Builds
  <2>2. All(parts) = {{Gathered(songs[t], Len(parts)).codes}}
    <3> DEFINE walked == Walked(shard, t, parts)
    <3>1. walked = {Gathered(songs[t], Len(parts))}
      BY <1>3, WalkGathers
    <3>2. All(parts) = {{s.codes} : s \in walked}
      BY DEF Walked
    <3> HIDE DEF walked, All, parts
    <3> QED
      BY <3>1, <3>2
  <2>3. Gathered(songs[t], Len(parts)).codes = songs[t]
    <3>1. IsSeq(songs[t])
      BY <1>3 DEF Builds
    <3>2. DOMAIN parts = DOMAIN songs[t] /\ DOMAIN songs[t] = 1 .. Len(songs[t])
          /\ Len(songs[t]) \in Nat /\ parts = [k \in DOMAIN songs[t] |-> songs[t][k].partition]
      BY <3>1, SeqDomain DEF PartitionsOf
    <3>3. Len(parts) = Len(songs[t])
      BY <3>2
    <3>4. Gathered(songs[t], Len(parts)).codes = [j \in 1 .. Len(parts) |-> songs[t][j]]
      BY DEF Gathered
    <3>5. songs[t] = [j \in 1 .. Len(songs[t]) |-> songs[t][j]]
      BY <3>1, <3>2 DEF IsSeq
    <3> QED
      BY <3>3, <3>4, <3>5
  <2> HIDE DEF All, parts
  <2>4. Found({parts}) = {{songs[t]}}
    BY <2>2, <2>3
  <2> HIDE DEF Found
  <2> QED
    <3>1. TrackCodes(shard, t) = UNION {Found(result) : result \in {{parts}}}
      BY <1>1, <2>1, Zenon
    <3>2. UNION {Found(result) : result \in {{parts}}} = Found({parts})
      OBVIOUS
    <3> QED
      BY <3>1, <3>2, <1>3, <2>4
<1> QED
  BY <1>2, <1>3

----------------------------- (* Continuity *) -----------------------------

\* The continuity that ContinuityIsRight allows.
TrueContinuity(continuity) ==
    \A c \in continuity :
       LET seconds == Seconds(world.previous.shard, world.previous.track)
           near == {o \in UNION {p - 2 .. p + 2 : p \in world.previous.predicted} :
                      o + 1 \in DOMAIN seconds}
           At(o) == 2 - Distance(world.queries[1], seconds[o + 1].code)
       IN  c.offset \in near /\ c.score = At(c.offset) /\ \A o \in near : At(o) <= c.score

\* An undamaged world is built from its songs.
LEMMA WholeWorld ==
  ASSUME world \in Worlds, world.damaged = FALSE
  PROVE  Whole(world)
BY WorldsAssumption

\* A call that searches has a first query.
LEMMA FirstQuery ==
  ASSUME world \in Worlds, world.queries # <<>>
  PROVE  world.queries[1] \in Range(world.queries)
<1>1. IsSeq(world.queries)
  BY WorldsAssumption
<1> DEFINE q == world.queries
<1> HIDE DEF q
<1>2. q \in Seq(Range(q)) /\ q # <<>>
  BY <1>1 DEF IsSeq, q
<1>3. 1 \in DOMAIN q
  BY ONLY <1>2
<1>4. q[1] \in Range(q)
  BY ONLY <1>3 DEF Range
<1> QED
  BY <1>4 DEF q

\* The continuity of the previous song is the true one.
LEMMA ContinuityFound ==
  ASSUME world \in Worlds, world.damaged = FALSE, world.queries # <<>>
  PROVE  Continuity # {} /\ \A continuity \in Continuity : TrueContinuity(continuity)
<1> DEFINE previous == world.previous
           s == previous.shard
           t == previous.track
           query == world.queries[1]
           Near(codes) == {o \in UNION {p - 2 .. p + 2 : p \in previous.predicted} :
                             o + 1 \in DOMAIN codes}
           Scored(codes) == {[score |-> 2 - Distance(query, codes[o + 1].code), offset |-> o] :
                               o \in Near(codes)}
           Best(codes) == {x \in Scored(codes) : \A y \in Scored(codes) : x.score >= y.score}
           Open(found) == IF found = {} THEN {{}}
                          ELSE UNION {IF Best(c) = {} THEN {{}} ELSE {{x} : x \in Best(c)} :
                                        c \in found}
<1>1. Continuity = IF s \notin DOMAIN world.shards THEN {{}}
                   ELSE UNION {Open(found) : found \in TrackCodes(world.shards[s], t)}
  BY DEF Continuity
<1>2. TrueContinuity({})
  BY DEF TrueContinuity
<1>3. Open({}) = {{}}
  OBVIOUS
<1>4. CASE s \notin DOMAIN world.shards
  BY <1>1, <1>2, <1>4
<1>5. CASE s \in DOMAIN world.shards
  <2> DEFINE songs == world.songs[s]
             song == songs[t]
  <2>1. Whole(world) /\ s \in DOMAIN world.songs /\ Builds(world.shards[s], songs)
    BY <1>5, WholeWorld DEF Whole
  <2>2. TrackCodes(world.shards[s], t) = IF t \in DOMAIN songs THEN {{song}} ELSE {{}}
    <3> HIDE DEF s, t
    <3> QED
      BY <2>1, TrackCodesRight
  <2>3. CASE t \notin DOMAIN songs
    <3> HIDE DEF Open, s, t
    <3>1. Continuity = {{}}
      BY <1>1, <1>3, <1>5, <2>2, <2>3
    <3> QED
      BY <3>1, <1>2
  <2>4. CASE t \in DOMAIN songs
    <3>1. Continuity = Open({song})
      <4>1. TrackCodes(world.shards[s], t) = {{song}}
        BY <2>2, <2>4
      <4> HIDE DEF Open, s, t, song
      <4>2. UNION {Open(found) : found \in {{song}}} = Open({song})
        OBVIOUS
      <4> QED
        BY <1>1, <1>5, <4>1, <4>2
    <3>2. Open({song}) = IF Best(song) = {} THEN {{}} ELSE {{x} : x \in Best(song)}
      <4> HIDE DEF Best, song
      <4> QED
        OBVIOUS
    <3>3. Continuity # {}
      <4> HIDE DEF Open, song, Best
      <4> QED
        BY <3>1, <3>2
    <3>4. ASSUME NEW x \in Best(song)
          PROVE  TrueContinuity({x})
      <4>1. Seconds(s, t) = song
        BY <2>4 DEF Seconds
      <4>2. \A o \in Near(song) : Distance(query, song[o + 1].code) \in Int
        <5>1. query \in Range(world.queries)
          <6>1. world.queries[1] \in Range(world.queries)
            BY FirstQuery
          <6>2. query = world.queries[1]
            OBVIOUS
          <6> QED
            BY ONLY <6>1, <6>2
        <5>2. Measures(query, world.songs)
          BY <5>1, <2>1 DEF Whole
        <5> QED
          BY <5>2, <2>1, <2>4 DEF Measures
      <4>3. PICK o \in Near(song) :
              x = [score |-> 2 - Distance(query, song[o + 1].code), offset |-> o]
        OBVIOUS
      <4>4. \A y \in Near(song) : x.score >= 2 - Distance(query, song[y + 1].code)
        <5> HIDE DEF Near, song
        <5> SUFFICES ASSUME NEW y \in Near(song)
                     PROVE  x.score >= 2 - Distance(query, song[y + 1].code)
          OBVIOUS
        <5> DEFINE z == [score |-> 2 - Distance(query, song[y + 1].code), offset |-> y]
        <5>1. z \in Scored(song) /\ z.score = 2 - Distance(query, song[y + 1].code)
          OBVIOUS
        <5>2. x.score >= z.score
          <6> HIDE DEF Scored, z
          <6> QED
            BY <5>1
        <5> QED
          BY <5>1, <5>2, Zenon
      <4>5. x.offset \in Near(song) /\ x.score = 2 - Distance(query, song[x.offset + 1].code)
        BY <4>3
      <4>6. \A y \in Near(song) : 2 - Distance(query, song[y + 1].code) <= x.score
        BY <4>2, <4>3, <4>4
      <4>7. Near(song) = {z \in UNION {p - 2 .. p + 2 : p \in world.previous.predicted} :
                            z + 1 \in DOMAIN Seconds(s, t)}
        BY <4>1
      <4> QED
        BY <4>1, <4>5, <4>6, <4>7 DEF TrueContinuity
    <3>5. ASSUME NEW continuity \in Continuity
          PROVE  TrueContinuity(continuity)
      <4> HIDE DEF Open, Best, song
      <4>1. continuity \in IF Best(song) = {} THEN {{}} ELSE {{x} : x \in Best(song)}
        BY <3>1, <3>2
      <4>2. continuity = {} \/ \E x \in Best(song) : continuity = {x}
        BY <4>1
      <4> QED
        BY <4>2, <3>4, <1>2
    <3> QED
      BY <3>3, <3>5
  <2> QED
    BY <2>3, <2>4
<1> QED
  BY <1>4, <1>5

---------------- (* Ranking: Ordered lists a total order *) ----------------

\* A sum of whole numbers is one.
LEMMA ScoreWhole ==
  ASSUME NEW d, Len(d) \in Nat, \A k \in 1 .. Len(d) : d[k] \in Int
  PROVE  Score(d) \in Int
<1> DEFINE n == Len(d)
           Sums(f, m) == f = [k \in 0 .. m |-> IF k = 0 THEN 0 ELSE f[k - 1] + Metric - d[k]]
           Has(m) == \E f : Sums(f, m)
           Bad == {m \in 0 .. n : ~Has(m)}
<1>1. n \in Nat /\ Metric \in Int
  BY LimitsPositive
<1>2. Bad = {}
  <2>1. SUFFICES ASSUME Bad # {} PROVE FALSE
    OBVIOUS
  <2>2. PICK m \in Bad : \A y \in Bad : m <= y
    <3>1. Bad \subseteq Nat
      BY <1>1
    <3> HIDE DEF Bad
    <3> QED
      BY <2>1, <3>1, LeastOf
  <2>3. m \in 0 .. n /\ ~Has(m)
    OBVIOUS
  <2>4. CASE m = 0
    <3> DEFINE f == [k \in 0 .. 0 |-> 0]
    <3>1. Sums(f, 0)
      OBVIOUS
    <3> HIDE DEF Sums, f
    <3> QED
      BY <3>1, <2>3, <2>4
  <2>5. CASE m # 0
    <3>1. m - 1 \in 0 .. n /\ m - 1 \notin Bad
      <4> HIDE DEF Has, n
      <4> QED
        BY <2>2, <2>3, <2>5, <1>1
    <3>2. Has(m - 1)
      <4> HIDE DEF Has
      <4> QED
        BY <3>1
    <3>3. PICK g : Sums(g, m - 1)
      BY <3>2
    <3> DEFINE f == [k \in 0 .. m |-> IF k = m THEN g[m - 1] + Metric - d[m] ELSE g[k]]
    <3>4. \A k \in 0 .. m : f[k] = IF k = 0 THEN 0 ELSE f[k - 1] + Metric - d[k]
      BY <3>3, <2>3, <2>5, <1>1
    <3>5. Sums(f, m)
      BY <3>4
    <3> HIDE DEF Sums, f
    <3> QED
      BY <3>5, <2>3
  <2> QED
    BY <2>4, <2>5
<1>3. n \in 0 .. n /\ Has(n)
  <2>1. n \in 0 .. n
    BY <1>1
  <2> HIDE DEF Has
  <2> QED
    BY <2>1, <1>2
<1>4. \E f : Sums(f, n) /\ Score(d) = f[n]
  BY <1>3 DEF Score
<1>5. PICK f : Sums(f, n) /\ Score(d) = f[n]
  BY <1>4
<1> DEFINE Wrong == {m \in 0 .. n : f[m] \notin Int}
<1>6. Wrong = {}
  <2>1. SUFFICES ASSUME Wrong # {} PROVE FALSE
    OBVIOUS
  <2>2. PICK m \in Wrong : \A y \in Wrong : m <= y
    <3>1. Wrong \subseteq Nat
      BY <1>1
    <3> HIDE DEF Wrong
    <3> QED
      BY <2>1, <3>1, LeastOf
  <2>3. m \in 0 .. n /\ f[m] \notin Int /\ f[m] = IF m = 0 THEN 0 ELSE f[m - 1] + Metric - d[m]
    BY <1>5
  <2>4. m # 0 /\ m - 1 \in 0 .. n /\ m - 1 \notin Wrong /\ m \in 1 .. n
    BY <2>2, <2>3, <1>1
  <2>5. f[m - 1] \in Int /\ d[m] \in Int
    BY <2>4
  <2> QED
    BY <2>3, <2>4, <2>5, <1>1
<1>7. f[n] \in Int
  <2> HIDE DEF n, Sums
  <2> QED
    BY <1>3, <1>6
<1> QED
  BY <1>5, <1>7, Zenon

\* Results or tracks that Better puts in a total order.
Rankable(S) ==
    /\ IsFiniteSet(S)
    /\ \A x \in S : x.score \in Int /\ x.shard \in Int /\ x.track \in Int
    /\ \A x, y \in S : x.shard = y.shard /\ x.track = y.track => x = y

\* What is better than x.
Ahead(S, x) == {y \in S : Better(y, x)}

\* Better is a strict total order of what it ranks.
LEMMA BetterOrders ==
  ASSUME NEW S, Rankable(S), NEW x \in S, NEW y \in S, NEW z \in S
  PROVE  /\ ~Better(x, x) /\ (x # y => Better(x, y) \/ Better(y, x))
         /\ Better(x, y) /\ Better(y, z) => Better(x, z)
<1>1. /\ x.score \in Int /\ x.shard \in Int /\ x.track \in Int
      /\ y.score \in Int /\ y.shard \in Int /\ y.track \in Int
      /\ z.score \in Int /\ z.shard \in Int /\ z.track \in Int
      /\ x.shard = y.shard /\ x.track = y.track => x = y
  BY DEF Rankable
<1> QED
  BY <1>1 DEF Better

\* Every place of the order is taken once.
LEMMA RanksDiffer ==
  ASSUME NEW S, Rankable(S), NEW x \in S, NEW y \in S, Better(x, y)
  PROVE  /\ Cardinality(Ahead(S, x)) \in Nat /\ Cardinality(Ahead(S, y)) \in Nat
         /\ Cardinality(Ahead(S, x)) < Cardinality(Ahead(S, y))
         /\ Cardinality(Ahead(S, y)) < Cardinality(S)
<1>1. IsFiniteSet(S) /\ Ahead(S, x) \subseteq S /\ Ahead(S, y) \subseteq S
  BY DEF Rankable, Ahead
<1>2. Ahead(S, x) \subseteq Ahead(S, y) /\ x \in Ahead(S, y) /\ x \notin Ahead(S, x)
      /\ y \notin Ahead(S, y)
  BY BetterOrders DEF Ahead
<1>3. IsFiniteSet(Ahead(S, x)) /\ IsFiniteSet(Ahead(S, y))
  BY <1>1, FS_Subset
<1>4. /\ Cardinality(Ahead(S, x)) \in Nat /\ Cardinality(Ahead(S, y)) \in Nat
      /\ Cardinality(S) \in Nat
  BY <1>1, <1>3, FS_CardinalityType
<1>5. Cardinality(Ahead(S, x)) < Cardinality(Ahead(S, y))
  BY <1>2, <1>3, <1>4, FS_Subset
<1>6. Cardinality(Ahead(S, y)) < Cardinality(S)
  BY <1>1, <1>2, <1>3, <1>4, FS_Subset
<1> QED
  BY <1>4, <1>5, <1>6

\* A rank is between 1 and the number of the ranked.
LEMMA RankBelow ==
  ASSUME NEW S, Rankable(S), NEW x \in S
  PROVE  Cardinality(Ahead(S, x)) \in 0 .. Cardinality(S) - 1
<1>1. IsFiniteSet(S) /\ Ahead(S, x) \subseteq S /\ x \notin Ahead(S, x)
  BY BetterOrders DEF Rankable, Ahead
<1>2. IsFiniteSet(Ahead(S, x))
  BY <1>1, FS_Subset
<1>3. Cardinality(Ahead(S, x)) \in Nat /\ Cardinality(S) \in Nat
  BY <1>1, <1>2, FS_CardinalityType
<1>4. Cardinality(Ahead(S, x)) < Cardinality(S)
  BY <1>1, <1>2, <1>3, FS_Subset
<1> QED
  BY <1>3, <1>4

\* Each rank is taken, since ranks are as many as the ranked.
LEMMA EveryRank ==
  ASSUME NEW S, Rankable(S), NEW r \in 0 .. Cardinality(S) - 1
  PROVE  \E x \in S : Cardinality(Ahead(S, x)) = r
<1> DEFINE n == Cardinality(S)
           f == [x \in S |-> Cardinality(Ahead(S, x))]
<1>1. IsFiniteSet(S) /\ n \in Nat
  BY FS_CardinalityType DEF Rankable
<1>2. \A x \in S : f[x] \in 0 .. n - 1
  BY RankBelow
<1>3. \A x, y \in S : x # y => f[x] # f[y]
  <2> SUFFICES ASSUME NEW x \in S, NEW y \in S, x # y PROVE f[x] # f[y]
    OBVIOUS
  <2>1. Better(x, y) \/ Better(y, x)
    BY BetterOrders
  <2>2. CASE Better(x, y)
    BY <2>2, RanksDiffer
  <2>3. CASE Better(y, x)
    BY <2>3, RanksDiffer
  <2> QED
    BY <2>1, <2>2, <2>3
<1>6. IsFiniteSet(0 .. n - 1) /\ Cardinality(0 .. n - 1) = n
  <2>1. \A m \in Int : IsFiniteSet(0 .. m) /\ Cardinality(0 .. m) = IF 0 > m THEN 0 ELSE m + 1
    BY FS_Interval
  <2> DEFINE m == n - 1
  <2>2. m \in Int /\ (0 > m => n = 0) /\ m + 1 = n
    BY <1>1
  <2> HIDE DEF m, n
  <2>3. IsFiniteSet(0 .. m) /\ Cardinality(0 .. m) = n
    BY <2>1, <2>2
  <2> QED
    BY <2>3 DEF m
<1>7. f \in Surjection(S, 0 .. n - 1)
  <2> DEFINE all == 0 .. n - 1
  <2>1. f \in [S -> all]
    BY <1>2
  <2> HIDE DEF f, all
  <2>2. f \in Injection(S, all)
    BY <2>1, <1>3 DEF Injection, IsInjective
  <2>3. IsFiniteSet(all) /\ Cardinality(S) = Cardinality(all)
    BY <1>6 DEF all
  <2>4. f \in Surjection(S, all)
    BY ONLY <2>2, <2>3, FS_Injection
  <2> QED
    BY <2>4 DEF all
<1>8. \E x \in S : f[x] = r
  <2> HIDE DEF f
  <2> QED
    BY <1>7 DEF Surjection
<1> QED
  BY <1>8

\* Ordered lists every element once, the better ones first.
LEMMA OrderedRight ==
  ASSUME NEW S, Rankable(S)
  PROVE  LET ranked == Ordered(S, Better)
             n == Cardinality(S)
         IN  /\ n \in Nat /\ DOMAIN ranked = 1 .. n /\ Len(ranked) = n
             /\ \A i \in 1 .. n : ranked[i] \in S /\ Cardinality(Ahead(S, ranked[i])) = i - 1
             /\ \A i, j \in 1 .. n : i < j => Better(ranked[i], ranked[j])
             /\ \A x \in S : \E i \in 1 .. n : ranked[i] = x
<1> DEFINE ranked == Ordered(S, Better)
           n == Cardinality(S)
<1>1. n \in Nat
  BY FS_CardinalityType DEF Rankable
<1>2. ranked = [i \in 1 .. n |-> CHOOSE x \in S : Cardinality(Ahead(S, x)) = i - 1]
  BY DEF Ordered, Ahead
<1> HIDE DEF ranked
<1>3. DOMAIN ranked = 1 .. n /\ Len(ranked) = n
  BY <1>1, <1>2
<1>4. ASSUME NEW i \in 1 .. n
      PROVE  ranked[i] \in S /\ Cardinality(Ahead(S, ranked[i])) = i - 1
  <2>1. i - 1 \in 0 .. n - 1
    BY <1>1
  <2>2. \E x \in S : Cardinality(Ahead(S, x)) = i - 1
    BY <2>1, EveryRank
  <2>3. ranked[i] = CHOOSE x \in S : Cardinality(Ahead(S, x)) = i - 1
    BY <1>2
  <2> QED
    BY <2>2, <2>3
<1>5. ASSUME NEW i \in 1 .. n, NEW j \in 1 .. n, i < j
      PROVE  Better(ranked[i], ranked[j])
  <2>1. /\ ranked[i] \in S /\ Cardinality(Ahead(S, ranked[i])) = i - 1
        /\ ranked[j] \in S /\ Cardinality(Ahead(S, ranked[j])) = j - 1
    BY <1>4
  <2>2. i - 1 # j - 1 /\ ~(j - 1 < i - 1)
    BY <1>1, <1>5
  <2>3. ranked[i] # ranked[j]
    BY <2>1, <2>2
  <2>4. ~Better(ranked[j], ranked[i])
    BY <2>1, <2>2, RanksDiffer
  <2> QED
    BY <2>1, <2>3, <2>4, BetterOrders
<1>6. ASSUME NEW x \in S
      PROVE  \E i \in 1 .. n : ranked[i] = x
  <2> DEFINE i == Cardinality(Ahead(S, x)) + 1
  <2>1. Cardinality(Ahead(S, x)) \in 0 .. n - 1
    BY RankBelow
  <2>2. i \in 1 .. n /\ i - 1 = Cardinality(Ahead(S, x))
    BY <2>1, <1>1
  <2>3. ranked[i] \in S /\ Cardinality(Ahead(S, ranked[i])) = Cardinality(Ahead(S, x))
    BY <2>2, <1>4
  <2>4. /\ ~(Cardinality(Ahead(S, ranked[i])) < Cardinality(Ahead(S, x)))
        /\ ~(Cardinality(Ahead(S, x)) < Cardinality(Ahead(S, ranked[i])))
    BY <2>1, <2>3
  <2>5. ~Better(ranked[i], x) /\ ~Better(x, ranked[i])
    BY <2>3, <2>4, RanksDiffer
  <2>6. ranked[i] = x
    BY <2>3, <2>5, BetterOrders
  <2> QED
    BY <2>2, <2>6
<1> QED
  BY <1>1, <1>3, <1>4, <1>5, <1>6 DEF ranked

\* A result without its offset, as RightOrder lists it.
Bare(x) == [shard |-> x.shard, track |-> x.track, score |-> x.score]

\* Without their offsets, the ranked are as many.
LEMMA BareCount ==
  ASSUME NEW S, Rankable(S), NEW C, C \subseteq S
  PROVE  IsFiniteSet({Bare(x) : x \in C}) /\ Cardinality({Bare(x) : x \in C}) = Cardinality(C)
<1> DEFINE D == {Bare(x) : x \in C}
           f == [x \in C |-> Bare(x)]
<1>1. \A x, y \in C : Bare(x) = Bare(y) => x = y
  BY DEF Rankable, Bare
<1>2. f \in Bijection(C, D)
  <2>1. f \in [C -> D]
    OBVIOUS
  <2>2. \A x, y \in C : f[x] = f[y] => x = y
    BY <1>1
  <2>3. \A y \in D : \E x \in C : f[x] = y
    OBVIOUS
  <2> HIDE DEF f, D
  <2> QED
    BY <2>1, <2>2, <2>3 DEF Bijection, Injection, Surjection, IsInjective
<1>3. IsFiniteSet(C)
  BY FS_Subset DEF Rankable
<1> HIDE DEF f, D
<1>4. ExistsBijection(C, D)
  BY <1>2 DEF ExistsBijection
<1>5. IsFiniteSet(D) /\ Cardinality(D) = Cardinality(C)
  BY <1>3, <1>4, FS_Bijection
<1> QED
  BY <1>5 DEF D

\* Without their offsets, the ranked have the same order.
LEMMA BareOrder ==
  ASSUME NEW S, Rankable(S)
  PROVE  LET B == {Bare(x) : x \in S}
         IN  /\ Rankable(B) /\ Cardinality(B) = Cardinality(S)
             /\ \A i \in 1 .. Cardinality(S) :
                   Ordered(B, Better)[i] = Bare(Ordered(S, Better)[i])
<1> DEFINE B == {Bare(x) : x \in S}
           n == Cardinality(S)
<1>1. IsFiniteSet(B) /\ Cardinality(B) = n
  BY BareCount
<1>2. Rankable(B)
  <2>1. \A x \in S : /\ Bare(x).score = x.score /\ Bare(x).shard = x.shard
                     /\ Bare(x).track = x.track
    BY DEF Bare
  <2>2. \A b \in B : \E x \in S : b = Bare(x)
    OBVIOUS
  <2> HIDE DEF B
  <2>3. \A b \in B : b.score \in Int /\ b.shard \in Int /\ b.track \in Int
    BY <2>1, <2>2 DEF Rankable
  <2>4. \A b, c \in B : b.shard = c.shard /\ b.track = c.track => b = c
    BY <2>1, <2>2 DEF Rankable
  <2> QED
    BY <1>1, <2>3, <2>4 DEF Rankable
<1>3. ASSUME NEW x \in S
      PROVE  Cardinality(Ahead(B, Bare(x))) = Cardinality(Ahead(S, x))
  <2>1. \A y \in S : Better(Bare(y), Bare(x)) <=> Better(y, x)
    BY DEF Better, Bare
  <2>2. Ahead(B, Bare(x)) = {Bare(y) : y \in Ahead(S, x)}
    BY <2>1 DEF Ahead
  <2>3. Ahead(S, x) \subseteq S
    BY DEF Ahead
  <2> QED
    BY <2>2, <2>3, BareCount
<1>4. ASSUME NEW i \in 1 .. n
      PROVE  Ordered(B, Better)[i] = Bare(Ordered(S, Better)[i])
  <2> DEFINE x == Ordered(S, Better)[i]
             b == Ordered(B, Better)[i]
  <2>1. x \in S /\ Cardinality(Ahead(S, x)) = i - 1 /\ n \in Nat
    BY OrderedRight
  <2>2. i \in 1 .. Cardinality(B)
    BY <1>1
  <2>3. b \in B /\ Cardinality(Ahead(B, b)) = i - 1
    <3> HIDE DEF B
    <3> QED
      BY <1>2, <2>2, OrderedRight
  <2> HIDE DEF x, b, B
  <2>4. Bare(x) \in B
    BY <2>1 DEF B
  <2>5. Cardinality(Ahead(B, Bare(x))) = i - 1
    BY <2>1, <1>3
  <2>6. ~Better(b, Bare(x)) /\ ~Better(Bare(x), b)
    <3>1. ~(i - 1 < i - 1)
      BY <2>1
    <3> QED
      BY <3>1, <2>3, <2>4, <2>5, <1>2, RanksDiffer
  <2> QED
    BY <2>3, <2>4, <2>6, <1>2, BetterOrders DEF x, b
<1> QED
  BY <1>1, <1>2, <1>4

\* The first of a total order, in the same order.
LEMMA FirstOfOrder ==
  ASSUME NEW S, Rankable(S), NEW m \in Nat, m <= Cardinality(S)
  PROVE  LET best == {Ordered(S, Better)[i] : i \in 1 .. m}
         IN  /\ Rankable(best) /\ Cardinality(best) = m /\ best \subseteq S
             /\ \A i \in 1 .. m : Ordered(best, Better)[i] = Ordered(S, Better)[i]
<1> DEFINE ranked == Ordered(S, Better)
           best == {ranked[i] : i \in 1 .. m}
           n == Cardinality(S)
<1>1. /\ n \in Nat /\ \A i \in 1 .. n : ranked[i] \in S
      /\ \A i, j \in 1 .. n : i < j => Better(ranked[i], ranked[j])
      /\ \A x \in S : \E i \in 1 .. n : ranked[i] = x
      /\ \A i \in 1 .. n : Cardinality(Ahead(S, ranked[i])) = i - 1
  BY OrderedRight
<1> HIDE DEF ranked
<1>2. \A i \in 1 .. m : i \in 1 .. n
  BY <1>1
<1>3. best \subseteq S
  BY <1>1, <1>2
<1>4. Rankable(best)
  <2>1. IsFiniteSet(best)
    BY <1>3, FS_Subset DEF Rankable
  <2> HIDE DEF best
  <2> QED
    BY <1>3, <2>1 DEF Rankable
<1>5. ASSUME NEW i \in 1 .. m
      PROVE  ranked[i] \in best /\ Cardinality(Ahead(best, ranked[i])) = i - 1
  <2>1. ranked[i] \in best /\ ranked[i] \in S /\ i \in 1 .. n
    BY <1>2, <1>1
  <2>2. ASSUME NEW y \in Ahead(S, ranked[i]) PROVE y \in Ahead(best, ranked[i])
    <3>1. y \in S /\ Better(y, ranked[i])
      BY DEF Ahead
    <3>2. PICK j \in 1 .. n : ranked[j] = y
      BY <3>1, <1>1
    <3>3. ~(i < j) /\ i # j
      <4>1. ~Better(ranked[i], y) /\ ranked[i] # y
        BY <2>1, <3>1, BetterOrders
      <4> QED
        BY <4>1, <3>2, <2>1, <1>1
    <3>4. j \in 1 .. m
      BY <3>3, <1>1
    <3>5. y \in best
      BY <3>2, <3>4
    <3> QED
      BY <3>1, <3>5 DEF Ahead
  <2>3. Ahead(best, ranked[i]) \subseteq Ahead(S, ranked[i])
    BY <1>3 DEF Ahead
  <2>4. Ahead(best, ranked[i]) = Ahead(S, ranked[i])
    BY <2>2, <2>3
  <2> QED
    BY <2>1, <2>4, <1>1
<1>6. Cardinality(best) = m
  <2> DEFINE f == [i \in 1 .. m |-> ranked[i]]
  <2>1. f \in [1 .. m -> best]
    OBVIOUS
  <2>2. \A i, j \in 1 .. m : f[i] = f[j] => i = j
    <3> SUFFICES ASSUME NEW i \in 1 .. m, NEW j \in 1 .. m, ranked[i] = ranked[j] PROVE i = j
      OBVIOUS
    <3>1. i - 1 = j - 1
      BY <1>1, <1>2
    <3> QED
      BY <3>1
  <2>3. \A y \in best : \E i \in 1 .. m : f[i] = y
    OBVIOUS
  <2> DEFINE places == 1 .. m
  <2>4. IsFiniteSet(places) /\ Cardinality(places) = m
    <3>1. m + 1 \in Nat \ {0} /\ (m + 1) - 1 = m
      OBVIOUS
    <3> QED
      BY <3>1, UpTo
  <2>5. f \in [places -> best] /\ (\A i, j \in places : f[i] = f[j] => i = j)
        /\ \A y \in best : \E i \in places : f[i] = y
    BY <2>1, <2>2, <2>3
  <2> HIDE DEF f, best, places
  <2>6. f \in Bijection(places, best)
    BY <2>5 DEF Bijection, Injection, Surjection, IsInjective
  <2>7. ExistsBijection(places, best)
    BY <2>6 DEF ExistsBijection
  <2>8. Cardinality(best) = Cardinality(places)
    BY <2>4, <2>7, FS_Bijection
  <2> QED
    BY <2>4, <2>8
<1>7. ASSUME NEW i \in 1 .. m
      PROVE  Ordered(best, Better)[i] = ranked[i]
  <2> HIDE DEF best
  <2> DEFINE b == Ordered(best, Better)[i]
  <2>1. i \in 1 .. Cardinality(best)
    BY <1>6
  <2>2. b \in best /\ Cardinality(Ahead(best, b)) = i - 1
    BY <1>4, <2>1, OrderedRight
  <2> HIDE DEF b
  <2>3. ranked[i] \in best /\ Cardinality(Ahead(best, ranked[i])) = i - 1
    BY <1>5
  <2>4. ~Better(b, ranked[i]) /\ ~Better(ranked[i], b)
    <3>1. ~(i - 1 < i - 1)
      OBVIOUS
    <3> QED
      BY <3>1, <2>2, <2>3, <1>4, RanksDiffer
  <2>5. b = ranked[i]
    BY <2>2, <2>3, <2>4, <1>4, BetterOrders
  <2> QED
    BY <2>5 DEF b
<1> QED
  BY <1>3, <1>4, <1>6, <1>7 DEF ranked

\* A finite set of numbers has a least one.
LEMMA LeastWhole ==
  ASSUME NEW S, IsFiniteSet(S), S \subseteq Int, S # {}
  PROVE  Min(S) \in S
<1> DEFINE f == [x \in S |-> {y \in S : y < x}]
<1>1. f \in [S -> SUBSET S] /\ IsFiniteSet(S) /\ S # {}
  OBVIOUS
<1>2. PICK x \in S : \A y \in S : ~(f[y] \subseteq f[x] /\ f[y] # f[x])
  <2> HIDE DEF f
  <2> QED
    BY ONLY <1>1, SmallestSet
<1>3. ASSUME NEW y \in S, y < x PROVE FALSE
  <2>1. x \in Int /\ y \in Int /\ ~(y < y)
    OBVIOUS
  <2>2. \A z \in S : z < y => z < x
    BY <1>3, <2>1
  <2>3. f[y] \subseteq f[x]
    BY <2>2
  <2>4. y \in f[x] /\ y \notin f[y]
    BY <1>3, <2>1
  <2> QED
    BY <1>2, <2>3, <2>4
<1>4. \A y \in S : x <= y
  BY <1>3
<1> QED
  BY <1>4 DEF Min

-------------------------- (* Scoring a shard *) ---------------------------

\* The parts of an undamaged world that the stages rely on.
LEMMA WorldFacts ==
  ASSUME world \in Worlds, world.damaged = FALSE
  PROVE  /\ Len(world.shards) \in Nat /\ DOMAIN world.shards = 1 .. Len(world.shards)
         /\ DOMAIN world.songs = DOMAIN world.shards
         /\ Len(world.queries) \in Nat /\ DOMAIN world.queries = 1 .. Len(world.queries)
         /\ \A s \in DOMAIN world.shards : Builds(world.shards[s], world.songs[s])
         /\ \A i \in DOMAIN world.queries : Measures(world.queries[i], world.songs)
<1>1. IsSeq(world.shards) /\ IsSeq(world.queries) /\ Whole(world)
  BY WorldsAssumption
<1>2. \A i \in DOMAIN world.queries : world.queries[i] \in Range(world.queries)
  BY DEF Range
<1> QED
  BY <1>1, <1>2, SeqDomain DEF Whole

\* The score of a track at an offset is the song's.
LEMMA AlignedRight ==
  ASSUME world \in Worlds, world.damaged = FALSE,
         NEW s \in DOMAIN world.shards, NEW t \in DOMAIN world.songs[s], NEW offset
  PROVE  /\ AlignedScore(s, t, PartitionsOf(world.songs[s][t]), offset)
              = {TrueScore(s, t, offset)}
         /\ TrueScore(s, t, offset) \in Int
<1> DEFINE song == world.songs[s][t]
           parts == PartitionsOf(song)
           Code(i) == CodeOf(world.shards[s], t, parts, offset + i)
           inside == {i \in DOMAIN world.queries : offset + i \in DOMAIN parts}
           Far(i) == IF i \in inside
                     THEN Distance(world.queries[i], CHOOSE c \in Code(i) : TRUE) ELSE Metric
           Near(i) == IF offset + i \in DOMAIN song
                      THEN Distance(world.queries[i], song[offset + i].code) ELSE Metric
<1>1. Builds(world.shards[s], world.songs[s]) /\ Seconds(s, t) = song
      /\ DOMAIN parts = DOMAIN song
  BY WorldFacts DEF Seconds, PartitionsOf
<1>2. \A i \in inside : Code(i) = {song[offset + i].code}
  <2> SUFFICES ASSUME NEW i \in inside PROVE Code(i) = {song[offset + i].code}
    OBVIOUS
  <2>1. offset + i \in DOMAIN song
    BY <1>1
  <2> QED
    BY <1>1, <2>1, CodeFound
<1>3. \A i \in DOMAIN world.queries : Far(i) = Near(i)
  <2> SUFFICES ASSUME NEW i \in DOMAIN world.queries PROVE Far(i) = Near(i)
    OBVIOUS
  <2>1. CASE i \in inside
    <3>1. Code(i) = {song[offset + i].code} /\ offset + i \in DOMAIN song
      BY <2>1, <1>1, <1>2
    <3> HIDE DEF Code, inside, song
    <3>2. (CHOOSE c \in Code(i) : TRUE) = song[offset + i].code
      BY <3>1
    <3> QED
      BY <2>1, <3>1, <3>2
  <2>2. CASE i \notin inside
    BY <2>2, <1>1
  <2> QED
    BY <2>1, <2>2
<1>4. AlignedScore(s, t, parts, offset) = IF \E i \in inside : Code(i) = {} THEN {}
                                          ELSE {Score([i \in DOMAIN world.queries |-> Far(i)])}
  BY DEF AlignedScore
<1>5. ~\E i \in inside : Code(i) = {}
  BY <1>2
<1>6. TrueScore(s, t, offset) = Score([i \in DOMAIN world.queries |-> Near(i)])
  BY <1>1 DEF TrueScore
<1>7. [i \in DOMAIN world.queries |-> Far(i)] = [i \in DOMAIN world.queries |-> Near(i)]
  BY <1>3
<1>8. TrueScore(s, t, offset) \in Int
  <2> DEFINE d == [i \in DOMAIN world.queries |-> Near(i)]
             n == Len(world.queries)
  <2>1. n \in Nat /\ DOMAIN world.queries = 1 .. n
    BY WorldFacts
  <2>2. Len(d) = n
    BY <2>1
  <2>3. \A i \in 1 .. n : d[i] \in Int
    <3> SUFFICES ASSUME NEW i \in 1 .. n PROVE Near(i) \in Int
      BY <2>1
    <3>1. Measures(world.queries[i], world.songs) /\ s \in DOMAIN world.songs
      BY <2>1, WorldFacts
    <3>2. offset + i \in DOMAIN song => Distance(world.queries[i], song[offset + i].code) \in Int
      BY <3>1 DEF Measures
    <3> QED
      BY <3>2, LimitsPositive
  <2> HIDE DEF d, n
  <2>4. Score(d) \in Int
    BY <2>1, <2>2, <2>3, ScoreWhole
  <2> QED
    BY <2>4, <1>6 DEF d
<1> HIDE DEF Far, Near, Code, inside, parts
<1>9. AlignedScore(s, t, parts, offset) = {TrueScore(s, t, offset)}
  BY <1>4, <1>5, <1>6, <1>7
<1> QED
  BY <1>8, <1>9 DEF parts

\* The offsets that ScoreShard tries for a track of its shortlist.
Tried(s, t) ==
    LET mine == {x \in shortlist : x.shard = s}
    IN  Offsets(PartitionsOf(world.songs[s][t]), (CHOOSE x \in mine : x.track = t).hits)

\* The tracks of a shard that ScoreShard puts out.
TriedTracks(s) ==
    {t \in DOMAIN world.songs[s] :
       (\E x \in shortlist : x.shard = s /\ x.track = t) /\ Tried(s, t) # {}}

\* An alignment of a track with its true score, the best of the tried.
Aligned(s, t, x) ==
    /\ x.shard = s /\ x.track = t
    /\ x.offset \in Tried(s, t) /\ x.score = TrueScore(s, t, x.offset)
    /\ \A o \in Tried(s, t) : x.score >= TrueScore(s, t, o)

\* A result for each track that was tried, and no other.
ShardScored(s, result) ==
    /\ IsFiniteSet(result)
    /\ \A x \in result : x.track \in TriedTracks(s) /\ Aligned(s, x.track, x)
    /\ \A x, y \in result : x.track = y.track => x = y
    /\ \A t \in TriedTracks(s) : \E x \in result : x.track = t

\* The best alignment of a track has its true score.
LEMMA BestAligned ==
  ASSUME world \in Worlds, world.damaged = FALSE,
         NEW s \in DOMAIN world.shards, NEW t \in DOMAIN world.songs[s],
         NEW x \in BestAlignments(s, t, PartitionsOf(world.songs[s][t]), Tried(s, t))
  PROVE  Aligned(s, t, x)
<1> DEFINE parts == PartitionsOf(world.songs[s][t])
           ScoreAt(o) == CHOOSE y \in AlignedScore(s, t, parts, o) : TRUE
           scored == {[shard |-> s, track |-> t, score |-> ScoreAt(o), offset |-> o] :
                        o \in Tried(s, t)}
<1>1. \A o : ScoreAt(o) = TrueScore(s, t, o)
  <2> SUFFICES ASSUME NEW o PROVE ScoreAt(o) = TrueScore(s, t, o)
    OBVIOUS
  <2>1. AlignedScore(s, t, parts, o) = {TrueScore(s, t, o)}
    BY AlignedRight
  <2> HIDE DEF parts
  <2> QED
    BY <2>1
<1>2. x \in scored /\ \A y \in scored : x.score >= y.score
  BY DEF BestAlignments
<1> HIDE DEF ScoreAt
<1>3. PICK o \in Tried(s, t) :
        x = [shard |-> s, track |-> t, score |-> ScoreAt(o), offset |-> o]
  BY <1>2
<1>4. ASSUME NEW p \in Tried(s, t) PROVE x.score >= TrueScore(s, t, p)
  <2> DEFINE y == [shard |-> s, track |-> t, score |-> ScoreAt(p), offset |-> p]
  <2>1. y \in scored /\ y.score = ScoreAt(p)
    OBVIOUS
  <2> HIDE DEF y, scored
  <2>2. x.score >= y.score
    BY <1>2, <2>1
  <2> QED
    BY <2>1, <2>2, <1>1
<1>5. x.shard = s /\ x.track = t /\ x.offset = o /\ x.score = ScoreAt(o)
  BY <1>3
<1> QED
  BY <1>1, <1>4, <1>5 DEF Aligned

\* The reverse indices of a few tracks.
LEMMA BatchIs ==
  ASSUME world \in Worlds, world.damaged = FALSE, NEW s \in DOMAIN world.shards, NEW tracks
  PROVE  PartitionsBatch(world.shards[s], tracks)
           = {[t \in tracks \cap DOMAIN world.songs[s] |-> PartitionsOf(world.songs[s][t])]}
<1> DEFINE shard == world.shards[s]
           songs == world.songs[s]
<1>1. shard.R = [t \in DOMAIN songs |-> {PartitionsOf(songs[t])}]
  BY WorldFacts DEF Builds
<1> HIDE DEF shard, songs
<1>2. \A t \in tracks : Partitions(shard, t) # {}
  BY <1>1 DEF Partitions, Record
<1>3. tracks \cap DOMAIN shard.R = tracks \cap DOMAIN songs
  BY <1>1
<1>4. \A t \in DOMAIN songs : (CHOOSE p \in shard.R[t] : TRUE) = PartitionsOf(songs[t])
  BY <1>1
<1>5. [t \in tracks \cap DOMAIN shard.R |-> CHOOSE p \in shard.R[t] : TRUE]
        = [t \in tracks \cap DOMAIN songs |-> PartitionsOf(songs[t])]
  BY <1>3, <1>4
<1>6. PartitionsBatch(shard, tracks)
        = {[t \in tracks \cap DOMAIN songs |-> PartitionsOf(songs[t])]}
  BY <1>2, <1>5 DEF PartitionsBatch
<1> QED
  BY <1>6 DEF shard, songs

\* What a worker puts out for a shard.
LEMMA ShardRight ==
  ASSUME world \in Worlds, world.damaged = FALSE, NEW s \in DOMAIN world.shards,
         NEW result \in ScoreShard(s)
  PROVE  ShardScored(s, result)
<1> DEFINE songs == world.songs[s]
           mine == {x \in shortlist : x.shard = s}
           wanted == {x.track : x \in mine} \cap DOMAIN songs
           batch0 == [t \in wanted |-> PartitionsOf(songs[t])]
           Of(batch) == [t \in DOMAIN batch |->
                           Offsets(batch[t], (CHOOSE x \in mine : x.track = t).hits)]
           Broken(batch, offsets) ==
             \E t \in DOMAIN batch : \E o \in offsets[t] : AlignedScore(s, t, batch[t], o) = {}
           Picks(batch, offsets) ==
             LET aligned == {t \in DOMAIN batch : offsets[t] # {}}
                 best == [t \in aligned |-> BestAlignments(s, t, batch[t], offsets[t])]
             IN  {{pick[t] : t \in aligned} :
                    pick \in {f \in [aligned -> UNION {best[t] : t \in aligned}] :
                                \A t \in aligned : f[t] \in best[t]}}
           Whole0(batch) == LET offsets == Of(batch)
                            IN  IF Broken(batch, offsets) THEN {} ELSE Picks(batch, offsets)
           offsets0 == Of(batch0)
<1>1. Builds(world.shards[s], songs)
  BY WorldFacts
<1>2. PartitionsBatch(world.shards[s], {x.track : x \in mine}) = {batch0}
  BY BatchIs
<1>3. ScoreShard(s) = UNION {Whole0(batch) :
                               batch \in PartitionsBatch(world.shards[s], {x.track : x \in mine})}
  BY DEF ScoreShard
<1>4. result \in Picks(batch0, offsets0)
  <2> HIDE DEF Broken, Picks, batch0, mine, Of
  <2>1. result \in Whole0(batch0)
    BY <1>2, <1>3
  <2> QED
    BY <2>1
<1> DEFINE aligned == {t \in wanted : offsets0[t] # {}}
<1>5. \A t \in wanted : batch0[t] = PartitionsOf(songs[t]) /\ offsets0[t] = Tried(s, t)
  BY DEF Tried
<1>6. DOMAIN batch0 = wanted
  OBVIOUS
<1>7. aligned = TriedTracks(s)
  <2>1. \A t : t \in wanted <=> t \in DOMAIN songs /\ \E x \in shortlist : x.shard = s /\ x.track = t
    OBVIOUS
  <2> HIDE DEF offsets0, wanted
  <2> QED
    BY <2>1, <1>5 DEF TriedTracks
<1> DEFINE best0 == [t \in aligned |-> BestAlignments(s, t, batch0[t], offsets0[t])]
<1>8. PICK pick \in [aligned -> UNION {best0[t] : t \in aligned}] :
        /\ \A t \in aligned : pick[t] \in best0[t]
        /\ result = {pick[t] : t \in aligned}
  <2>1. Picks(batch0, offsets0)
          = {{pick[t] : t \in aligned} :
               pick \in {f \in [aligned -> UNION {best0[t] : t \in aligned}] :
                           \A t \in aligned : f[t] \in best0[t]}}
    <3> HIDE DEF batch0, offsets0, wanted
    <3> QED
      BY <1>6
  <2> HIDE DEF best0, aligned, Picks
  <2> QED
    BY <1>4, <2>1
<1>9. \A t \in aligned : Aligned(s, t, pick[t])
  <2> SUFFICES ASSUME NEW t \in aligned PROVE Aligned(s, t, pick[t])
    OBVIOUS
  <2>1. t \in wanted /\ t \in DOMAIN songs
    OBVIOUS
  <2>2. pick[t] \in BestAlignments(s, t, PartitionsOf(songs[t]), Tried(s, t))
    BY <1>5, <1>8, <2>1
  <2> QED
    BY <2>1, <2>2, BestAligned
<1> HIDE DEF aligned, batch0, offsets0, wanted, best0
<1>10. IsFiniteSet(result)
  <2>1. IsFiniteSet(aligned)
    <3>1. IsFiniteSet(DOMAIN songs) /\ aligned \subseteq DOMAIN songs
      BY <1>1 DEF Builds, aligned, wanted
    <3> QED
      BY <3>1, FS_Subset
  <2>2. pick \in Surjection(aligned, result)
    <3>1. pick = [t \in aligned |-> pick[t]]
      BY <1>8
    <3> QED
      BY <3>1, <1>8 DEF Surjection
  <2> QED
    BY <2>1, <2>2, FS_Surjection
<1>11. \A x \in result : x.track \in TriedTracks(s) /\ Aligned(s, x.track, x)
  BY <1>7, <1>8, <1>9 DEF Aligned
<1>12. \A x, y \in result : x.track = y.track => x = y
  BY <1>8, <1>9 DEF Aligned
<1>13. \A t \in TriedTracks(s) : \E x \in result : x.track = t
  BY <1>7, <1>8, <1>9 DEF Aligned
<1> QED
  BY <1>10, <1>11, <1>12, <1>13 DEF ShardScored

------------------------ (* The hits of a query *) -------------------------

\* A function has finitely many values on a finite set.
LEMMA ImageFinite ==
  ASSUME NEW S, IsFiniteSet(S), NEW f, DOMAIN f = S, f = [x \in S |-> f[x]]
  PROVE  IsFiniteSet({f[x] : x \in S})
<1> DEFINE T == {f[x] : x \in S}
<1>1. f \in Surjection(S, T)
  BY DEF Surjection
<1> HIDE DEF T
<1>2. IsFiniteSet(T)
  BY <1>1, FS_Surjection
<1> QED
  BY <1>2 DEF T

\* The numbers up to n are finitely many.
LEMMA IntervalFinite == \A n \in Nat : IsFiniteSet(1 .. n)
<1>1. \A n \in Int : IsFiniteSet(1 .. n)
  BY FS_Interval
<1> QED
  BY <1>1

\* Of the seconds in one partition no two have the same ordinal.
LEMMA OrdinalTells ==
  ASSUME NEW parts, NEW n \in Nat, DOMAIN parts = 1 .. n, NEW j \in 1 .. n, NEW k \in 1 .. n,
         parts[j] = parts[k], Ordinal(parts, j) = Ordinal(parts, k)
  PROVE  j = k
<1>1. ASSUME NEW a \in 1 .. n, NEW b \in 1 .. n, a < b, parts[a] = parts[b]
      PROVE  Ordinal(parts, a) # Ordinal(parts, b)
  <2> DEFINE A == {i \in 1 .. a - 1 : parts[i] = parts[a]}
             B == {i \in 1 .. b - 1 : parts[i] = parts[b]}
  <2>1. A \subseteq B /\ a \in B /\ a \notin A
    BY <1>1
  <2>2. IsFiniteSet(B)
    <3>1. b - 1 \in Nat /\ B \subseteq 1 .. b - 1
      OBVIOUS
    <3>2. IsFiniteSet(1 .. b - 1)
      BY <3>1, IntervalFinite
    <3> QED
      BY <3>1, <3>2, FS_Subset
  <2>3. Ordinal(parts, a) = Cardinality(A) /\ Ordinal(parts, b) = Cardinality(B)
    BY DEF Ordinal
  <2> HIDE DEF A, B
  <2> QED
    BY <2>1, <2>2, <2>3, FS_Subset
<1> QED
  BY <1>1

\* The hit of a query on a second of a song.
HitOf(i, s, t, k) ==
    [shard |-> s, track |-> t, query |-> i, partition |-> world.songs[s][t][k].partition,
     ordinal |-> Ordinal(PartitionsOf(world.songs[s][t]), k),
     distance |-> Distance(world.queries[i], world.songs[s][t][k].code)]

IsHit(h, i) ==
    \E s \in DOMAIN world.songs : \E t \in DOMAIN world.songs[s] :
       \E k \in DOMAIN world.songs[s][t] :
          /\ world.songs[s][t][k].partition \in Probed(world.queries[i])
          /\ h = HitOf(i, s, t, k)

\* The hits of the probed leaves of every shard, as SearchQuery gathers them.
HitsAt(i, x) ==
    UNION {LeafHits(x[1], x[2], leaf, i) : leaf \in UNION Leaf(world.shards[x[1]], x[2])}
AllHits(i) == UNION {HitsAt(i, x) : x \in (DOMAIN world.shards) \X Probed(world.queries[i])}

\* A probed leaf holds the records of its partition.
LEMMA LeavesFound ==
  ASSUME world \in Worlds, world.damaged = FALSE, NEW s \in DOMAIN world.shards, NEW p
  PROVE  /\ Leaf(world.shards[s], p) # {}
         /\ \A leaf \in UNION Leaf(world.shards[s], p) :
               p \in DOMAIN world.shards[s].T /\ Lays(leaf, world.songs[s], p)
         /\ p \in DOMAIN world.shards[s].T =>
               \E leaf \in UNION Leaf(world.shards[s], p) : Lays(leaf, world.songs[s], p)
         /\ IsFiniteSet(UNION Leaf(world.shards[s], p))
<1> DEFINE shard == world.shards[s]
<1>1. Builds(shard, world.songs[s])
  BY WorldFacts
<1>2. CASE p \notin DOMAIN shard.T
  <2>1. Leaf(shard, p) = {{}} /\ UNION {{}} = {}
    BY <1>2 DEF Leaf, Record
  <2> QED
    BY <2>1, <1>2, FS_EmptySet
<1>3. CASE p \in DOMAIN shard.T
  <2>1. PICK leaf \in shard.T[p] : shard.T[p] = {leaf} /\ Lays(leaf, world.songs[s], p)
    BY <1>1, <1>3 DEF Builds
  <2>2. Leaf(shard, p) = {{leaf}}
    BY <1>3, <2>1 DEF Leaf, Record
  <2>3. UNION Leaf(shard, p) = {leaf}
    BY <2>2
  <2>4. IsFiniteSet({leaf})
    BY FS_Singleton
  <2> HIDE DEF shard
  <2>5. /\ Leaf(shard, p) # {} /\ IsFiniteSet(UNION Leaf(shard, p))
        /\ \A x \in UNION Leaf(shard, p) : p \in DOMAIN shard.T /\ Lays(x, world.songs[s], p)
        /\ \E x \in UNION Leaf(shard, p) : Lays(x, world.songs[s], p)
    BY <2>1, <2>2, <2>3, <2>4, <1>3
  <2> QED
    BY <2>5, Zenon DEF shard
<1> QED
  BY <1>2, <1>3

\* What a query's worker puts out.
LEMMA SearchQueryIs ==
  ASSUME world \in Worlds, world.damaged = FALSE, NEW i
  PROVE  SearchQuery(i) = NearestSets(AllHits(i))
<1> DEFINE places == (DOMAIN world.shards) \X Probed(world.queries[i])
           Found(x) == Leaf(world.shards[x[1]], x[2])
           At(x) == UNION {LeafHits(x[1], x[2], leaf, i) : leaf \in UNION Found(x)}
<1>1. SearchQuery(i) = IF \E x \in places : Found(x) = {} THEN {}
                       ELSE NearestSets(UNION {At(x) : x \in places})
  BY DEF SearchQuery
<1>2. \A x \in places : Found(x) # {}
  BY LeavesFound
<1>3. AllHits(i) = UNION {At(x) : x \in places}
  BY DEF AllHits, HitsAt
<1> HIDE DEF places, Found, At
<1> QED
  BY <1>1, <1>2, <1>3

\* The hits of a query are the seconds of the songs in the probed partitions.
LEMMA HitsAreSeconds ==
  ASSUME world \in Worlds, world.damaged = FALSE, NEW i \in DOMAIN world.queries, NEW h
  PROVE  h \in AllHits(i) <=> IsHit(h, i)
<1>1. ASSUME h \in AllHits(i) PROVE IsHit(h, i)
  <2>1. PICK s \in DOMAIN world.shards, p \in Probed(world.queries[i]) : h \in HitsAt(i, <<s, p>>)
    BY <1>1 DEF AllHits
  <2>2. PICK leaf \in UNION Leaf(world.shards[s], p) : h \in LeafHits(s, p, leaf, i)
    BY <2>1 DEF HitsAt
  <2>3. Lays(leaf, world.songs[s], p) /\ s \in DOMAIN world.songs
    BY LeavesFound, WorldFacts
  <2>4. PICK j \in DOMAIN leaf.ids :
          h = [shard |-> s, track |-> leaf.ids[j], query |-> i, partition |-> p,
               ordinal |-> Ordinal(leaf.ids, j),
               distance |-> Distance(world.queries[i], leaf.codes[j])]
    BY <2>2 DEF LeafHits
  <2> DEFINE t == leaf.ids[j]
  <2>5. t \in DOMAIN world.songs[s]
    BY <2>3 DEF Lays, Range
  <2>6. PICK k \in DOMAIN world.songs[s][t] : Entry(leaf, j, world.songs[s][t], k, p)
    BY <2>3 DEF Lays
  <2>7. /\ world.songs[s][t][k] = Stored(p, leaf.codes[j])
        /\ Ordinal(PartitionsOf(world.songs[s][t]), k) = Ordinal(leaf.ids, j)
    BY <2>6 DEF Entry
  <2>8. world.songs[s][t][k].partition = p /\ world.songs[s][t][k].code = leaf.codes[j]
    BY <2>7 DEF Stored
  <2>9. h = HitOf(i, s, t, k)
    BY <2>4, <2>7, <2>8 DEF HitOf
  <2> QED
    BY <2>1, <2>3, <2>5, <2>8, <2>9 DEF IsHit
<1>2. ASSUME IsHit(h, i) PROVE h \in AllHits(i)
  <2>1. PICK s \in DOMAIN world.songs : \E t \in DOMAIN world.songs[s] :
          \E k \in DOMAIN world.songs[s][t] :
             /\ world.songs[s][t][k].partition \in Probed(world.queries[i])
             /\ h = HitOf(i, s, t, k)
    BY <1>2 DEF IsHit
  <2>12. PICK t \in DOMAIN world.songs[s] : \E k \in DOMAIN world.songs[s][t] :
             /\ world.songs[s][t][k].partition \in Probed(world.queries[i])
             /\ h = HitOf(i, s, t, k)
    BY <2>1
  <2>13. PICK k \in DOMAIN world.songs[s][t] :
             /\ world.songs[s][t][k].partition \in Probed(world.queries[i])
             /\ h = HitOf(i, s, t, k)
    BY <2>12
  <2> DEFINE song == world.songs[s][t]
             p == song[k].partition
  <2>2. s \in DOMAIN world.shards /\ Builds(world.shards[s], world.songs[s])
    BY WorldFacts
  <2>3. p \in DOMAIN world.shards[s].T
    <3>1. p \in Range(PartitionsOf(song))
      BY DEF PartitionsOf, Range
    <3> QED
      BY <2>2, <3>1 DEF Builds
  <2>4. PICK leaf \in UNION Leaf(world.shards[s], p) : Lays(leaf, world.songs[s], p)
    BY <2>2, <2>3, LeavesFound
  <2>5. PICK j \in DOMAIN leaf.ids : leaf.ids[j] = t /\ Entry(leaf, j, song, k, p)
    BY <2>4 DEF Lays
  <2>6. song[k] = Stored(p, leaf.codes[j]) /\ Ordinal(PartitionsOf(song), k) = Ordinal(leaf.ids, j)
    BY <2>5 DEF Entry
  <2>7. song[k].code = leaf.codes[j]
    BY <2>6 DEF Stored
  <2>8. h = [shard |-> s, track |-> leaf.ids[j], query |-> i, partition |-> p,
             ordinal |-> Ordinal(leaf.ids, j),
             distance |-> Distance(world.queries[i], leaf.codes[j])]
    BY <2>13, <2>5, <2>6, <2>7 DEF HitOf
  <2>9. h \in LeafHits(s, p, leaf, i)
    BY <2>8 DEF LeafHits
  <2>10. h \in HitsAt(i, <<s, p>>)
    BY <2>9 DEF HitsAt
  <2>11. <<s, p>> \in (DOMAIN world.shards) \X Probed(world.queries[i])
    BY <2>13, <2>2
  <2> QED
    BY <2>10, <2>11 DEF AllHits
<1> QED
  BY <1>1, <1>2

\* A query has finitely many hits.
LEMMA HitsFinite ==
  ASSUME world \in Worlds, world.damaged = FALSE, NEW i \in DOMAIN world.queries
  PROVE  IsFiniteSet(AllHits(i))
<1> DEFINE places == (DOMAIN world.shards) \X Probed(world.queries[i])
           f == [x \in places |-> HitsAt(i, x)]
<1>1. IsFiniteSet(places)
  <2>1. IsFiniteSet(DOMAIN world.shards)
    BY WorldFacts, IntervalFinite
  <2>2. IsFiniteSet(Probed(world.queries[i]))
    BY WorldFacts DEF Measures
  <2> QED
    BY <2>1, <2>2, FS_Product
<1>2. IsFiniteSet({f[x] : x \in places})
  <2> HIDE DEF places
  <2> QED
    BY <1>1, ImageFinite
<1>3. ASSUME NEW x \in places PROVE IsFiniteSet(HitsAt(i, x))
  <2> DEFINE leaves == UNION Leaf(world.shards[x[1]], x[2])
             g == [leaf \in leaves |-> LeafHits(x[1], x[2], leaf, i)]
  <2>1. /\ IsFiniteSet(leaves)
        /\ \A leaf \in leaves : Lays(leaf, world.songs[x[1]], x[2])
    BY LeavesFound
  <2>2. ASSUME NEW leaf \in leaves PROVE IsFiniteSet(LeafHits(x[1], x[2], leaf, i))
    <3> DEFINE hit == [j \in DOMAIN leaf.ids |->
                         [shard |-> x[1], track |-> leaf.ids[j], query |-> i, partition |-> x[2],
                          ordinal |-> Ordinal(leaf.ids, j),
                          distance |-> Distance(world.queries[i], leaf.codes[j])]]
    <3>1. IsFiniteSet(DOMAIN leaf.ids)
      BY <2>1, SeqDomain, IntervalFinite DEF Lays
    <3>2. LeafHits(x[1], x[2], leaf, i) = {hit[j] : j \in DOMAIN leaf.ids}
      BY DEF LeafHits
    <3>3. DOMAIN hit = DOMAIN leaf.ids /\ hit = [j \in DOMAIN leaf.ids |-> hit[j]]
      OBVIOUS
    <3> HIDE DEF hit
    <3> QED
      BY <3>1, <3>2, <3>3, ImageFinite
  <2>3. IsFiniteSet({g[leaf] : leaf \in leaves})
    <3> HIDE DEF leaves
    <3> QED
      BY <2>1, ImageFinite
  <2>4. \A hits \in {g[leaf] : leaf \in leaves} : IsFiniteSet(hits)
    BY <2>2
  <2>5. HitsAt(i, x) = UNION {g[leaf] : leaf \in leaves}
    BY DEF HitsAt
  <2> HIDE DEF g, leaves
  <2> QED
    BY <2>3, <2>4, <2>5, FS_UNION
<1>4. \A hits \in {f[x] : x \in places} : IsFiniteSet(hits)
  BY <1>3
<1>5. AllHits(i) = UNION {f[x] : x \in places}
  BY DEF AllHits
<1> HIDE DEF f, places
<1> QED
  BY <1>2, <1>4, <1>5, FS_UNION

------------- (* Alignments: hits and the songs they are on *) -------------

\* A second of a song in a partition that a query probes.
Meets(i, s, t, k) == world.songs[s][t][k].partition \in Probed(world.queries[i])

\* A song is a sequence of seconds.
LEMMA SongFacts ==
  ASSUME world \in Worlds, world.damaged = FALSE,
         NEW s \in DOMAIN world.songs, NEW t \in DOMAIN world.songs[s]
  PROVE  /\ s \in DOMAIN world.shards /\ s \in Int /\ t \in Int
         /\ Len(world.songs[s][t]) \in Nat
         /\ DOMAIN world.songs[s][t] = 1 .. Len(world.songs[s][t])
         /\ Seconds(s, t) = world.songs[s][t] /\ <<s, t>> \in Songs
<1>1. s \in DOMAIN world.shards /\ s \in Int /\ Builds(world.shards[s], world.songs[s])
  <2> DEFINE n == Len(world.shards)
  <2>1. n \in Nat /\ s \in 1 .. n /\ s \in DOMAIN world.shards
    BY WorldFacts
  <2> HIDE DEF n
  <2>2. s \in Int
    BY <2>1
  <2> QED
    BY <2>1, <2>2, WorldFacts
<1>2. IsSeq(world.songs[s][t]) /\ t \in Int
  BY <1>1 DEF Builds
<1>3. Seconds(s, t) = world.songs[s][t] /\ <<s, t>> \in Songs
  BY DEF Seconds, Songs
<1> QED
  BY <1>1, <1>2, <1>3, SeqDomain

\* An alignment at which a query meets a second of a song.
MetAt(o, s, t, i) ==
    t \in DOMAIN world.songs[s] /\ \E k \in DOMAIN world.songs[s][t] : Meets(i, s, t, k) /\ o = k - i

\* The alignments at which a query meets a song.
LEMMA MeetingIs ==
  ASSUME world \in Worlds, world.damaged = FALSE, NEW i, NEW s \in DOMAIN world.songs, NEW t,
         NEW o
  PROVE  o \in Meeting(s, t, i) <=> MetAt(o, s, t, i)
<1>1. CASE t \in DOMAIN world.songs[s]
  BY <1>1 DEF Meeting, Seconds, Meets, MetAt
<1>2. CASE t \notin DOMAIN world.songs[s]
  <2>1. Seconds(s, t) = <<>>
    BY <1>2 DEF Seconds
  <2> QED
    BY <1>2, <2>1 DEF Meeting, MetAt
<1> QED
  BY <1>1, <1>2

\* A hit on a track tells its second.
LEMMA HitTells ==
  ASSUME world \in Worlds, world.damaged = FALSE, NEW i,
         NEW s \in DOMAIN world.songs, NEW t \in DOMAIN world.songs[s],
         NEW j \in DOMAIN world.songs[s][t], NEW k \in DOMAIN world.songs[s][t],
         HitOf(i, s, t, j) = HitOf(i, s, t, k)
  PROVE  j = k
<1> DEFINE song == world.songs[s][t]
           parts == PartitionsOf(song)
           n == Len(song)
<1>1. n \in Nat /\ DOMAIN parts = 1 .. n /\ j \in 1 .. n /\ k \in 1 .. n
  BY SongFacts DEF PartitionsOf
<1>2. /\ HitOf(i, s, t, j).partition = parts[j] /\ HitOf(i, s, t, k).partition = parts[k]
      /\ HitOf(i, s, t, j).ordinal = Ordinal(parts, j)
      /\ HitOf(i, s, t, k).ordinal = Ordinal(parts, k)
  BY DEF HitOf, PartitionsOf
<1>3. parts[j] = parts[k] /\ Ordinal(parts, j) = Ordinal(parts, k)
  BY <1>2, Zenon
<1> HIDE DEF parts, n
<1> QED
  BY <1>1, <1>3, OrdinalTells

\* The offsets of the hits of a track are where the queries that they are for
\* meet it.
LEMMA HitOffsets ==
  ASSUME world \in Worlds, world.damaged = FALSE,
         NEW s \in DOMAIN world.songs, NEW t \in DOMAIN world.songs[s], NEW found,
         \A h \in found : \E i \in DOMAIN world.queries : \E k \in DOMAIN world.songs[s][t] :
            Meets(i, s, t, k) /\ h = HitOf(i, s, t, k),
         \A i \in DOMAIN world.queries : \A k \in DOMAIN world.songs[s][t] :
            Meets(i, s, t, k) => HitOf(i, s, t, k) \in found
  PROVE  Offsets(PartitionsOf(world.songs[s][t]), found) = MeetingAny(s, t)
<1> DEFINE song == world.songs[s][t]
           parts == PartitionsOf(song)
           n == Len(song)
<1>1. n \in Nat /\ DOMAIN parts = 1 .. n /\ DOMAIN song = 1 .. n
  BY SongFacts DEF PartitionsOf
<1>2. ASSUME NEW i, NEW k \in DOMAIN song
      PROVE  /\ SecondOf(parts, HitOf(i, s, t, k)) = {k}
             /\ HitOf(i, s, t, k).query = i
  <2> DEFINE h == HitOf(i, s, t, k)
  <2>1. h.partition = parts[k] /\ h.ordinal = Ordinal(parts, k) /\ h.query = i
    BY DEF HitOf, PartitionsOf
  <2> HIDE DEF h, parts, n
  <2>2. \A j \in DOMAIN parts : parts[j] = h.partition /\ Ordinal(parts, j) = h.ordinal <=> j = k
    BY <2>1, <1>1, OrdinalTells
  <2>3. SecondOf(parts, h) = {k}
    BY <2>2, <1>1 DEF SecondOf
  <2> QED
    BY <2>1, <2>3 DEF h
<1>3. ASSUME NEW o
      PROVE  o \in Offsets(parts, found) <=>
               \E i \in DOMAIN world.queries : \E k \in DOMAIN song : Meets(i, s, t, k) /\ o = k - i
  <2>1. ASSUME o \in Offsets(parts, found)
        PROVE  \E i \in DOMAIN world.queries : \E k \in DOMAIN song : Meets(i, s, t, k) /\ o = k - i
    <3>1. PICK h \in found : \E k \in SecondOf(parts, h) : o = k - h.query
      BY <2>1 DEF Offsets
    <3>2. PICK i \in DOMAIN world.queries : \E k \in DOMAIN song :
             Meets(i, s, t, k) /\ h = HitOf(i, s, t, k)
      BY <3>1
    <3>3. PICK k \in DOMAIN song : Meets(i, s, t, k) /\ h = HitOf(i, s, t, k)
      BY <3>2
    <3>4. SecondOf(parts, h) = {k} /\ h.query = i
      BY <1>2, <3>3
    <3>5. o = k - i
      BY <3>1, <3>4
    <3> QED
      BY <3>3, <3>5
  <2>2. ASSUME NEW i \in DOMAIN world.queries, NEW k \in DOMAIN song, Meets(i, s, t, k), o = k - i
        PROVE  o \in Offsets(parts, found)
    <3> DEFINE h == HitOf(i, s, t, k)
    <3>1. h \in found /\ SecondOf(parts, h) = {k} /\ h.query = i
      BY <2>2, <1>2
    <3> HIDE DEF h
    <3>2. o \in {j - h.query : j \in SecondOf(parts, h)}
      BY <2>2, <3>1
    <3> QED
      BY <3>1, <3>2 DEF Offsets
  <2> QED
    BY <2>1, <2>2
<1>4. ASSUME NEW o
      PROVE  o \in MeetingAny(s, t) <=>
               \E i \in DOMAIN world.queries : \E k \in DOMAIN song : Meets(i, s, t, k) /\ o = k - i
  <2>1. o \in MeetingAny(s, t) <=> \E i \in DOMAIN world.queries : o \in Meeting(s, t, i)
    BY DEF MeetingAny
  <2>2. ASSUME NEW i
        PROVE  o \in Meeting(s, t, i) <=> \E k \in DOMAIN song : Meets(i, s, t, k) /\ o = k - i
    <3>1. o \in Meeting(s, t, i) <=> MetAt(o, s, t, i)
      BY MeetingIs
    <3> QED
      BY <3>1 DEF MetAt
  <2> QED
    BY <2>1, <2>2
<1> QED
  BY <1>3, <1>4

\* What WithinLimits counts: the seconds that a query meets.
Met(i) == UNION {{<<x, o>> : o \in Meeting(x[1], x[2], i)} : x \in Songs}

IsMet(e, i) ==
    \E s \in DOMAIN world.songs : \E t \in DOMAIN world.songs[s] :
       \E k \in DOMAIN world.songs[s][t] : Meets(i, s, t, k) /\ e = <<<<s, t>>, k - i>>

\* The seconds that a query meets, one by one.
LEMMA MetIs ==
  ASSUME world \in Worlds, world.damaged = FALSE, NEW i, NEW e
  PROVE  e \in Met(i) <=> IsMet(e, i)
<1>1. ASSUME e \in Met(i)
      PROVE  IsMet(e, i)
  <2>1. PICK x \in Songs : \E o \in Meeting(x[1], x[2], i) : e = <<x, o>>
    BY <1>1 DEF Met
  <2>2. PICK o \in Meeting(x[1], x[2], i) : e = <<x, o>>
    BY <2>1
  <2>3. PICK s \in DOMAIN world.songs, t \in UNION {DOMAIN world.songs[j] : j \in DOMAIN world.songs} :
          x = <<s, t>>
    BY DEF Songs
  <2>4. o \in Meeting(s, t, i)
    BY <2>2, <2>3
  <2>5. MetAt(o, s, t, i)
    BY <2>4, MeetingIs
  <2> QED
    BY <2>2, <2>3, <2>5 DEF MetAt, IsMet
<1>2. ASSUME NEW s \in DOMAIN world.songs, NEW t \in DOMAIN world.songs[s],
             NEW k \in DOMAIN world.songs[s][t], Meets(i, s, t, k), e = <<<<s, t>>, k - i>>
      PROVE  e \in Met(i)
  <2>1. <<s, t>> \in Songs
    BY SongFacts
  <2>2. (k - i) \in Meeting(s, t, i)
    BY <1>2, MeetingIs DEF MetAt
  <2> DEFINE x == <<s, t>>
  <2>3. x[1] = s /\ x[2] = t
    OBVIOUS
  <2> HIDE DEF x
  <2>4. (k - i) \in Meeting(x[1], x[2], i)
    BY <2>2, <2>3
  <2> QED
    BY <1>2, <2>1, <2>4 DEF Met, x
<1> QED
  BY <1>1, <1>2 DEF IsMet

\* There are as many as the query has hits.
LEMMA HitsCounted ==
  ASSUME world \in Worlds, world.damaged = FALSE, NEW i \in DOMAIN world.queries
  PROVE  Cardinality(AllHits(i)) = Cardinality(Met(i))
<1> DEFINE Second(h, s, t, k) == Meets(i, s, t, k) /\ h = HitOf(i, s, t, k)
           g == [e \in Met(i) |-> HitOf(i, e[1][1], e[1][2], e[2] + i)]
<1>1. ASSUME NEW s \in DOMAIN world.songs, NEW t \in DOMAIN world.songs[s],
             NEW k \in DOMAIN world.songs[s][t], Meets(i, s, t, k)
      PROVE  /\ <<<<s, t>>, k - i>> \in Met(i)
             /\ g[<<<<s, t>>, k - i>>] = HitOf(i, s, t, k)
  <2> DEFINE e == <<<<s, t>>, k - i>>
  <2>1. e \in Met(i)
    BY <1>1, MetIs DEF IsMet
  <2>2. e[1][1] = s /\ e[1][2] = t /\ e[2] + i = k
    <3>1. k \in Int /\ i \in Int
      <4> DEFINE m == Len(world.songs[s][t])
                 n == Len(world.queries)
      <4>1. m \in Nat /\ k \in 1 .. m /\ n \in Nat /\ i \in 1 .. n
        BY SongFacts, WorldFacts
      <4> HIDE DEF m, n
      <4> QED
        BY <4>1
    <3> QED
      BY <3>1
  <2>3. g[e] = HitOf(i, e[1][1], e[1][2], e[2] + i)
    BY <2>1
  <2> HIDE DEF g, e
  <2>4. g[e] = HitOf(i, s, t, k)
    BY <2>2, <2>3
  <2> QED
    BY <2>1, <2>4 DEF e
<1>2. \A e \in Met(i) : g[e] \in AllHits(i)
  <2> SUFFICES ASSUME NEW e \in Met(i) PROVE g[e] \in AllHits(i)
    OBVIOUS
  <2> HIDE DEF g
  <2>1. PICK s \in DOMAIN world.songs : \E t \in DOMAIN world.songs[s] :
           \E k \in DOMAIN world.songs[s][t] : Meets(i, s, t, k) /\ e = <<<<s, t>>, k - i>>
    <3>1. IsMet(e, i)
      BY MetIs
    <3> QED
      BY <3>1 DEF IsMet
  <2>2. PICK t \in DOMAIN world.songs[s] :
           \E k \in DOMAIN world.songs[s][t] : Meets(i, s, t, k) /\ e = <<<<s, t>>, k - i>>
    BY <2>1
  <2>3. PICK k \in DOMAIN world.songs[s][t] : Meets(i, s, t, k) /\ e = <<<<s, t>>, k - i>>
    BY <2>2
  <2>4. g[e] = HitOf(i, s, t, k)
    BY <2>3, <1>1
  <2>5. IsHit(g[e], i)
    BY <2>3, <2>4 DEF IsHit, Meets
  <2> QED
    BY <2>5, HitsAreSeconds
<1>3. \A e, f \in Met(i) : g[e] = g[f] => e = f
  <2> SUFFICES ASSUME NEW e \in Met(i), NEW f \in Met(i), g[e] = g[f] PROVE e = f
    OBVIOUS
  <2> HIDE DEF g
  <2>1. PICK s \in DOMAIN world.songs : \E t \in DOMAIN world.songs[s] :
           \E k \in DOMAIN world.songs[s][t] : Meets(i, s, t, k) /\ e = <<<<s, t>>, k - i>>
    <3>1. IsMet(e, i)
      BY MetIs
    <3> QED
      BY <3>1 DEF IsMet
  <2>2. PICK t \in DOMAIN world.songs[s] :
           \E k \in DOMAIN world.songs[s][t] : Meets(i, s, t, k) /\ e = <<<<s, t>>, k - i>>
    BY <2>1
  <2>3. PICK k \in DOMAIN world.songs[s][t] : Meets(i, s, t, k) /\ e = <<<<s, t>>, k - i>>
    BY <2>2
  <2>4. PICK s2 \in DOMAIN world.songs : \E t2 \in DOMAIN world.songs[s2] :
           \E k2 \in DOMAIN world.songs[s2][t2] : Meets(i, s2, t2, k2) /\ f = <<<<s2, t2>>, k2 - i>>
    <3>1. IsMet(f, i)
      BY MetIs
    <3> QED
      BY <3>1 DEF IsMet
  <2>5. PICK t2 \in DOMAIN world.songs[s2] :
           \E k2 \in DOMAIN world.songs[s2][t2] : Meets(i, s2, t2, k2) /\ f = <<<<s2, t2>>, k2 - i>>
    BY <2>4
  <2>6. PICK k2 \in DOMAIN world.songs[s2][t2] : Meets(i, s2, t2, k2) /\ f = <<<<s2, t2>>, k2 - i>>
    BY <2>5
  <2>7. HitOf(i, s, t, k) = HitOf(i, s2, t2, k2)
    BY <2>3, <2>6, <1>1
  <2>8. s = s2 /\ t = t2
    BY <2>7 DEF HitOf
  <2>9. k = k2
    <3>1. k2 \in DOMAIN world.songs[s][t] /\ HitOf(i, s, t, k) = HitOf(i, s, t, k2)
      BY <2>7, <2>8
    <3> QED
      BY <3>1, HitTells
  <2> QED
    BY <2>3, <2>6, <2>8, <2>9
<1>4. \A h \in AllHits(i) : \E e \in Met(i) : g[e] = h
  <2> SUFFICES ASSUME NEW h \in AllHits(i) PROVE \E e \in Met(i) : g[e] = h
    OBVIOUS
  <2> HIDE DEF g
  <2>1. IsHit(h, i)
    BY HitsAreSeconds
  <2>2. PICK s \in DOMAIN world.songs : \E t \in DOMAIN world.songs[s] :
           \E k \in DOMAIN world.songs[s][t] : Meets(i, s, t, k) /\ h = HitOf(i, s, t, k)
    BY <2>1 DEF IsHit, Meets
  <2>3. PICK t \in DOMAIN world.songs[s] :
           \E k \in DOMAIN world.songs[s][t] : Meets(i, s, t, k) /\ h = HitOf(i, s, t, k)
    BY <2>2
  <2>4. PICK k \in DOMAIN world.songs[s][t] : Meets(i, s, t, k) /\ h = HitOf(i, s, t, k)
    BY <2>3
  <2> QED
    BY <2>4, <1>1
<1>5. g \in [Met(i) -> AllHits(i)]
  BY <1>2
<1> HIDE DEF g
<1>6. g \in Bijection(Met(i), AllHits(i))
  BY <1>3, <1>4, <1>5 DEF Bijection, Injection, Surjection, IsInjective
<1>7. ExistsBijection(Met(i), AllHits(i))
  BY <1>6 DEF ExistsBijection
<1>8. ExistsBijection(AllHits(i), Met(i))
  BY <1>7, Fun_ExistsBijSymmetric
<1>9. IsFiniteSet(AllHits(i))
  BY HitsFinite
<1> QED
  BY <1>8, <1>9, FS_Bijection

------------------ (* Raw candidates and the shortlist *) ------------------

\* Raw candidates: hits only, and all of a query's unless they had to be cut.
RawRight(raw) ==
    /\ \A h \in raw : \E i \in DOMAIN world.queries : h \in AllHits(i)
    /\ \A i \in DOMAIN world.queries :
          Cardinality(AllHits(i)) <= RawLimit => AllHits(i) \subseteq raw

\* The raw candidates of one song, and the tracks they tell of.
RawHitsOf(raw, s, t) == {h \in raw : h.shard = s /\ h.track = t}
RawTracks(raw) ==
    {[shard |-> x[1], track |-> x[2], hits |-> RawHitsOf(raw, x[1], x[2]),
      score |-> FirstPass(RawHitsOf(raw, x[1], x[2]))] : x \in {<<h.shard, h.track>> : h \in raw}}

\* Of a raw candidate.
LEMMA RawHit ==
  ASSUME world \in Worlds, world.damaged = FALSE, NEW raw, RawRight(raw), NEW h \in raw
  PROVE  \E i \in DOMAIN world.queries : \E s \in DOMAIN world.songs :
            \E t \in DOMAIN world.songs[s] : \E k \in DOMAIN world.songs[s][t] :
               Meets(i, s, t, k) /\ h = HitOf(i, s, t, k)
<1>1. PICK i \in DOMAIN world.queries : h \in AllHits(i)
  BY DEF RawRight
<1>2. IsHit(h, i)
  BY <1>1, HitsAreSeconds
<1> QED
  BY <1>2 DEF IsHit, Meets

\* What a raw candidate is made of.
LEMMA RawHitKinds ==
  ASSUME world \in Worlds, world.damaged = FALSE, NEW raw, RawRight(raw), NEW h \in raw
  PROVE  /\ h.shard \in DOMAIN world.songs /\ h.track \in DOMAIN world.songs[h.shard]
         /\ h.shard \in Int /\ h.track \in Int /\ h.distance \in Int
<1>1. PICK i \in DOMAIN world.queries : \E s \in DOMAIN world.songs :
            \E t \in DOMAIN world.songs[s] : \E k \in DOMAIN world.songs[s][t] :
               Meets(i, s, t, k) /\ h = HitOf(i, s, t, k)
  BY RawHit
<1>2. PICK s \in DOMAIN world.songs :
            \E t \in DOMAIN world.songs[s] : \E k \in DOMAIN world.songs[s][t] :
               Meets(i, s, t, k) /\ h = HitOf(i, s, t, k)
  BY <1>1
<1>3. PICK t \in DOMAIN world.songs[s] : \E k \in DOMAIN world.songs[s][t] :
               Meets(i, s, t, k) /\ h = HitOf(i, s, t, k)
  BY <1>2
<1>4. PICK k \in DOMAIN world.songs[s][t] : h = HitOf(i, s, t, k)
  BY <1>3
<1>5. h.shard = s /\ h.track = t
      /\ h.distance = Distance(world.queries[i], world.songs[s][t][k].code)
  BY <1>4 DEF HitOf
<1>6. Measures(world.queries[i], world.songs)
  BY WorldFacts
<1>7. h.distance \in Int
  BY <1>5, <1>6 DEF Measures
<1>8. s \in Int /\ t \in Int
  BY SongFacts
<1> QED
  BY <1>5, <1>7, <1>8

\* The raw candidates are finitely many.
LEMMA RawFinite ==
  ASSUME world \in Worlds, world.damaged = FALSE, NEW raw, RawRight(raw)
  PROVE  IsFiniteSet(raw)
<1> DEFINE f == [i \in DOMAIN world.queries |-> AllHits(i)]
           all == {f[i] : i \in DOMAIN world.queries}
<1>1. IsFiniteSet(DOMAIN world.queries)
  BY WorldFacts, IntervalFinite
<1>2. IsFiniteSet(all)
  <2> DEFINE S == DOMAIN world.queries
  <2>1. DOMAIN f = S /\ f = [i \in S |-> f[i]] /\ IsFiniteSet(S)
    BY <1>1
  <2> HIDE DEF f, S
  <2>2. IsFiniteSet({f[i] : i \in S})
    BY <2>1, ImageFinite
  <2> QED
    BY <2>2 DEF S
<1>3. \A hits \in all : IsFiniteSet(hits)
  BY HitsFinite
<1>4. raw \subseteq UNION all
  <2> SUFFICES ASSUME NEW h \in raw PROVE h \in UNION all
    OBVIOUS
  <2>1. PICK i \in DOMAIN world.queries : h \in AllHits(i)
    BY DEF RawRight
  <2>2. f[i] \in all /\ f[i] = AllHits(i)
    OBVIOUS
  <2> QED
    BY <2>1, <2>2
<1> HIDE DEF all
<1>5. IsFiniteSet(UNION all)
  BY <1>2, <1>3, FS_UNION
<1> QED
  BY <1>4, <1>5, FS_Subset

\* The first pass over some of the raw candidates is a whole number.
LEMMA FirstPassWhole ==
  ASSUME world \in Worlds, world.damaged = FALSE, NEW raw, RawRight(raw),
         NEW found, found \subseteq raw
  PROVE  FirstPass(found) \in Int
<1> DEFINE near(i) == {Metric} \cup {h.distance : h \in {x \in found : x.query = i}}
           d == [i \in DOMAIN world.queries |-> Min(near(i))]
           n == Len(world.queries)
<1>1. n \in Nat /\ DOMAIN world.queries = 1 .. n
  BY WorldFacts
<1>2. ASSUME NEW i PROVE Min(near(i)) \in Int
  <2> DEFINE of == {x \in found : x.query = i}
             f == [h \in of |-> h.distance]
  <2>1. IsFiniteSet(of)
    <3>1. IsFiniteSet(raw) /\ of \subseteq raw
      BY RawFinite
    <3> QED
      BY <3>1, FS_Subset
  <2>2. IsFiniteSet({h.distance : h \in of})
    <3>1. {h.distance : h \in of} = {f[h] : h \in of} /\ DOMAIN f = of /\ f = [h \in of |-> f[h]]
      OBVIOUS
    <3> HIDE DEF f, of
    <3> QED
      BY <2>1, <3>1, ImageFinite
  <2>3. ASSUME NEW h \in of
        PROVE  h.distance \in Int
    <3>1. h \in raw
      OBVIOUS
    <3> HIDE DEF of
    <3> QED
      BY <3>1, RawHitKinds
  <2>4. near(i) = {h.distance : h \in of} \cup {Metric}
    OBVIOUS
  <2>5. near(i) \subseteq Int /\ near(i) # {}
    BY <2>3, LimitsPositive
  <2> HIDE DEF near, of
  <2>6. IsFiniteSet(near(i))
    BY <2>2, <2>4, FS_AddElement
  <2>7. Min(near(i)) \in near(i)
    BY <2>5, <2>6, LeastWhole
  <2> QED
    BY <2>5, <2>7
<1>3. Len(d) = n /\ \A i \in 1 .. n : d[i] \in Int
  <2> HIDE DEF near, n
  <2> QED
    BY <1>1, <1>2
<1>4. FirstPass(found) = Score(d)
  BY DEF FirstPass
<1> HIDE DEF d, n
<1> QED
  BY <1>1, <1>3, <1>4, ScoreWhole

\* The tracks of the raw candidates can be ranked.
LEMMA RawRankable ==
  ASSUME world \in Worlds, world.damaged = FALSE, NEW raw, RawRight(raw)
  PROVE  Rankable(RawTracks(raw))
<1> DEFINE keys == {<<h.shard, h.track>> : h \in raw}
           f == [x \in keys |-> [shard |-> x[1], track |-> x[2], hits |-> RawHitsOf(raw, x[1], x[2]),
                                 score |-> FirstPass(RawHitsOf(raw, x[1], x[2]))]]
           k == [h \in raw |-> <<h.shard, h.track>>]
<1>1. IsFiniteSet(keys)
  <2>1. keys = {k[h] : h \in raw} /\ DOMAIN k = raw /\ k = [h \in raw |-> k[h]]
    OBVIOUS
  <2>2. IsFiniteSet(raw)
    BY RawFinite
  <2> HIDE DEF k, keys
  <2>3. IsFiniteSet({k[h] : h \in raw})
    BY <2>1, <2>2, ImageFinite
  <2> QED
    BY <2>1, <2>3
<1>2. RawTracks(raw) = {f[x] : x \in keys}
  BY DEF RawTracks
<1>3. IsFiniteSet(RawTracks(raw))
  <2>1. DOMAIN f = keys /\ f = [x \in keys |-> f[x]]
    OBVIOUS
  <2> HIDE DEF f, keys
  <2> QED
    BY <2>1, <1>1, <1>2, ImageFinite
<1>4. \A x \in keys : /\ f[x].shard = x[1] /\ f[x].track = x[2] /\ x = <<x[1], x[2]>>
                      /\ f[x].score \in Int /\ x[1] \in Int /\ x[2] \in Int
  <2> SUFFICES ASSUME NEW x \in keys
               PROVE  /\ f[x].shard = x[1] /\ f[x].track = x[2] /\ x = <<x[1], x[2]>>
                      /\ f[x].score \in Int /\ x[1] \in Int /\ x[2] \in Int
    OBVIOUS
  <2>1. PICK h \in raw : x = <<h.shard, h.track>>
    OBVIOUS
  <2>2. h.shard \in Int /\ h.track \in Int
    BY RawHitKinds
  <2>3. RawHitsOf(raw, x[1], x[2]) \subseteq raw
    BY DEF RawHitsOf
  <2>4. FirstPass(RawHitsOf(raw, x[1], x[2])) \in Int
    BY <2>3, FirstPassWhole
  <2> QED
    BY <2>1, <2>2, <2>4
<1> HIDE DEF f, keys
<1>5. \A x, y \in RawTracks(raw) : x.shard = y.shard /\ x.track = y.track => x = y
  BY <1>2, <1>4
<1>6. \A x \in RawTracks(raw) : x.score \in Int /\ x.shard \in Int /\ x.track \in Int
  BY <1>2, <1>4
<1> QED
  BY <1>3, <1>5, <1>6 DEF Rankable

-------------------------- (* The right order *) ---------------------------

\* The songs that RightOrder ranks, as its entries.
RightEntries ==
    {[shard |-> x[1], track |-> x[2],
      score |-> Max({TrueScore(x[1], x[2], o) : o \in MeetingAny(x[1], x[2])})] :
       x \in {y \in Songs : MeetingAny(y[1], y[2]) # {}}}

\* A finite set of numbers has a greatest one.
LEMMA GreatestWhole ==
  ASSUME NEW S, IsFiniteSet(S), S \subseteq Int, S # {}
  PROVE  Max(S) \in S /\ \A x \in S : x <= Max(S)
<1> DEFINE f == [x \in S |-> {y \in S : y > x}]
<1>1. f \in [S -> SUBSET S] /\ IsFiniteSet(S) /\ S # {}
  OBVIOUS
<1>2. PICK x \in S : \A y \in S : ~(f[y] \subseteq f[x] /\ f[y] # f[x])
  <2> HIDE DEF f
  <2> QED
    BY ONLY <1>1, SmallestSet
<1>3. ASSUME NEW y \in S, y > x PROVE FALSE
  <2>1. x \in Int /\ y \in Int /\ ~(y > y)
    OBVIOUS
  <2>2. \A z \in S : z > y => z > x
    BY <1>3, <2>1
  <2>3. f[y] \subseteq f[x]
    BY <2>2
  <2>4. y \in f[x] /\ y \notin f[y]
    BY <1>3, <2>1
  <2> QED
    BY <1>2, <2>3, <2>4
<1>4. \A y \in S : x >= y
  BY <1>3
<1>5. Max(S) \in S /\ \A y \in S : Max(S) >= y
  BY <1>4 DEF Max
<1> QED
  BY <1>5

\* A song is met at finitely many alignments.
LEMMA MeetingsFinite ==
  ASSUME world \in Worlds, world.damaged = FALSE,
         NEW s \in DOMAIN world.songs, NEW t \in DOMAIN world.songs[s]
  PROVE  IsFiniteSet(MeetingAny(s, t))
<1> DEFINE song == world.songs[s][t]
           seconds(i) == {k \in DOMAIN song : Meets(i, s, t, k)}
           f == [i \in DOMAIN world.queries |-> Meeting(s, t, i)]
<1>1. IsFiniteSet(DOMAIN world.queries)
  BY WorldFacts, IntervalFinite
<1>2. IsFiniteSet({f[i] : i \in DOMAIN world.queries})
  <2> DEFINE S == DOMAIN world.queries
  <2>1. DOMAIN f = S /\ f = [i \in S |-> f[i]] /\ IsFiniteSet(S)
    BY <1>1
  <2> HIDE DEF f, S
  <2>2. IsFiniteSet({f[i] : i \in S})
    BY <2>1, ImageFinite
  <2> QED
    BY <2>2 DEF S
<1>3. ASSUME NEW i PROVE IsFiniteSet(Meeting(s, t, i))
  <2> DEFINE g == [k \in seconds(i) |-> k - i]
             S == seconds(i)
  <2>1. IsFiniteSet(S)
    <3>1. IsFiniteSet(DOMAIN song) /\ S \subseteq DOMAIN song
      BY SongFacts, IntervalFinite
    <3> QED
      BY <3>1, FS_Subset
  <2>2. DOMAIN g = S /\ g = [k \in S |-> g[k]]
    OBVIOUS
  <2>3. Meeting(s, t, i) = {g[k] : k \in S}
    BY SongFacts DEF Meeting, Meets
  <2> HIDE DEF g, S
  <2> QED
    BY <2>1, <2>2, <2>3, ImageFinite
<1>4. \A x \in {f[i] : i \in DOMAIN world.queries} : IsFiniteSet(x)
  BY <1>3
<1>5. MeetingAny(s, t) = UNION {f[i] : i \in DOMAIN world.queries}
  BY DEF MeetingAny
<1> HIDE DEF f
<1> QED
  BY <1>2, <1>4, <1>5, FS_UNION

\* The songs that are met, and no others.
IsEntry(e) ==
    \E s \in DOMAIN world.songs : \E t \in DOMAIN world.songs[s] :
       /\ MeetingAny(s, t) # {}
       /\ e = [shard |-> s, track |-> t,
               score |-> Max({TrueScore(s, t, o) : o \in MeetingAny(s, t)})]

\* RightEntries are the songs that are met.
LEMMA EntriesAre ==
  ASSUME world \in Worlds, world.damaged = FALSE, NEW e
  PROVE  e \in RightEntries <=> IsEntry(e)
<1>1. ASSUME e \in RightEntries PROVE IsEntry(e)
  <2>1. PICK x \in Songs : /\ MeetingAny(x[1], x[2]) # {}
                           /\ e = [shard |-> x[1], track |-> x[2],
                                   score |-> Max({TrueScore(x[1], x[2], o) :
                                                    o \in MeetingAny(x[1], x[2])})]
    BY <1>1 DEF RightEntries
  <2>2. PICK s \in DOMAIN world.songs, t \in UNION {DOMAIN world.songs[j] : j \in DOMAIN world.songs} :
          x = <<s, t>>
    BY DEF Songs
  <2>3. x[1] = s /\ x[2] = t
    BY <2>2
  <2>4. PICK i \in DOMAIN world.queries : Meeting(s, t, i) # {}
    BY <2>1, <2>3 DEF MeetingAny
  <2>5. PICK o : o \in Meeting(s, t, i)
    BY <2>4
  <2>6. MetAt(o, s, t, i)
    BY <2>5, MeetingIs
  <2>7. t \in DOMAIN world.songs[s]
    BY <2>6 DEF MetAt
  <2> QED
    BY <2>1, <2>3, <2>7 DEF IsEntry
<1>2. ASSUME NEW s \in DOMAIN world.songs, NEW t \in DOMAIN world.songs[s],
             MeetingAny(s, t) # {},
             e = [shard |-> s, track |-> t,
                  score |-> Max({TrueScore(s, t, o) : o \in MeetingAny(s, t)})]
      PROVE  e \in RightEntries
  <2> DEFINE x == <<s, t>>
  <2>1. x \in Songs /\ x[1] = s /\ x[2] = t
    BY SongFacts
  <2> HIDE DEF x
  <2> QED
    BY <1>2, <2>1 DEF RightEntries
<1> QED
  BY <1>1, <1>2 DEF IsEntry

\* The score of an entry is the best at an alignment where it is met.
LEMMA BestScore ==
  ASSUME world \in Worlds, world.damaged = FALSE,
         NEW s \in DOMAIN world.songs, NEW t \in DOMAIN world.songs[s], MeetingAny(s, t) # {}
  PROVE  LET scores == {TrueScore(s, t, o) : o \in MeetingAny(s, t)}
         IN  /\ Max(scores) \in Int
             /\ \E o \in MeetingAny(s, t) : Max(scores) = TrueScore(s, t, o)
             /\ \A o \in MeetingAny(s, t) : TrueScore(s, t, o) <= Max(scores)
<1> DEFINE met == MeetingAny(s, t)
           f == [o \in met |-> TrueScore(s, t, o)]
           scores == {f[o] : o \in met}
<1>1. IsFiniteSet(met)
  BY MeetingsFinite
<1>2. \A o \in met : f[o] \in Int
  BY AlignedRight, SongFacts
<1>3. DOMAIN f = met /\ f = [o \in met |-> f[o]] /\ \A o \in met : f[o] = TrueScore(s, t, o)
  OBVIOUS
<1> HIDE DEF f, met
<1>4. IsFiniteSet(scores)
  BY <1>1, <1>3, ImageFinite
<1>5. scores # {} /\ scores \subseteq Int
  BY <1>2 DEF met
<1>6. Max(scores) \in scores /\ \A x \in scores : x <= Max(scores)
  BY <1>4, <1>5, GreatestWhole
<1>7. scores = {TrueScore(s, t, o) : o \in met}
  BY <1>3
<1> QED
  BY <1>5, <1>6, <1>7 DEF met

\* The songs that are met can be ranked.
LEMMA EntriesRankable ==
  ASSUME world \in Worlds, world.damaged = FALSE
  PROVE  Rankable(RightEntries)
<1> DEFINE A == DOMAIN world.songs
           f == [s \in A |-> DOMAIN world.songs[s]]
           B == UNION {f[s] : s \in A}
           met == {y \in A \X B : MeetingAny(y[1], y[2]) # {}}
           g == [x \in met |-> [shard |-> x[1], track |-> x[2],
                   score |-> Max({TrueScore(x[1], x[2], o) : o \in MeetingAny(x[1], x[2])})]]
<1>1. IsFiniteSet(A)
  BY WorldFacts, IntervalFinite
<1>2. IsFiniteSet(B)
  <2>1. DOMAIN f = A /\ f = [s \in A |-> f[s]]
    OBVIOUS
  <2>2. \A s \in A : IsFiniteSet(f[s])
    <3> SUFFICES ASSUME NEW s \in A PROVE IsFiniteSet(f[s])
      OBVIOUS
    <3>1. Builds(world.shards[s], world.songs[s])
      BY WorldFacts
    <3> QED
      BY <3>1 DEF Builds
  <2> DEFINE all == {f[s] : s \in A}
  <2> HIDE DEF f, A
  <2>3. IsFiniteSet(all)
    BY <1>1, <2>1, ImageFinite
  <2>4. \A x \in all : IsFiniteSet(x)
    BY <2>2
  <2> HIDE DEF all
  <2>5. IsFiniteSet(UNION all)
    BY <2>3, <2>4, FS_UNION
  <2> QED
    BY <2>5 DEF all
<1>3. IsFiniteSet(met)
  <2>1. met \subseteq A \X B
    OBVIOUS
  <2> HIDE DEF A, B, met
  <2>2. IsFiniteSet(A \X B)
    BY <1>1, <1>2, FS_Product
  <2> QED
    BY <2>1, <2>2, FS_Subset
<1>4. RightEntries = {g[x] : x \in met}
  <2>1. B = UNION {DOMAIN world.songs[s] : s \in A}
    OBVIOUS
  <2>2. Songs = A \X B
    <3> HIDE DEF B
    <3>1. Songs = {<<s, t>> : s \in A, t \in B}
      BY <2>1 DEF Songs
    <3> HIDE DEF A
    <3> QED
      BY <3>1
  <2> HIDE DEF A, B, f
  <2> QED
    BY <2>2 DEF RightEntries
<1>5. IsFiniteSet(RightEntries)
  <2>1. DOMAIN g = met /\ g = [x \in met |-> g[x]]
    OBVIOUS
  <2> HIDE DEF g, met
  <2> QED
    BY <1>3, <1>4, <2>1, ImageFinite
<1> HIDE DEF A, f, B, met, g
<1>6. ASSUME NEW e \in RightEntries
      PROVE  /\ e.score \in Int /\ e.shard \in Int /\ e.track \in Int
             /\ e = [shard |-> e.shard, track |-> e.track,
                     score |-> Max({TrueScore(e.shard, e.track, o) :
                                      o \in MeetingAny(e.shard, e.track)})]
  <2>1. IsEntry(e)
    BY EntriesAre
  <2>2. PICK s \in DOMAIN world.songs : \E t \in DOMAIN world.songs[s] :
           /\ MeetingAny(s, t) # {}
           /\ e = [shard |-> s, track |-> t,
                   score |-> Max({TrueScore(s, t, o) : o \in MeetingAny(s, t)})]
    BY <2>1 DEF IsEntry
  <2>3. PICK t \in DOMAIN world.songs[s] :
           /\ MeetingAny(s, t) # {}
           /\ e = [shard |-> s, track |-> t,
                   score |-> Max({TrueScore(s, t, o) : o \in MeetingAny(s, t)})]
    BY <2>2
  <2>4. Max({TrueScore(s, t, o) : o \in MeetingAny(s, t)}) \in Int
    BY <2>3, BestScore
  <2>5. s \in Int /\ t \in Int
    BY SongFacts
  <2> DEFINE best(x, y) == Max({TrueScore(x, y, o) : o \in MeetingAny(x, y)})
  <2>6. best(s, t) \in Int /\ e = [shard |-> s, track |-> t, score |-> best(s, t)]
    BY <2>3, <2>4
  <2> HIDE DEF best
  <2>7. /\ e.shard = s /\ e.track = t /\ e.score = best(s, t)
        /\ e = [shard |-> e.shard, track |-> e.track, score |-> best(e.shard, e.track)]
    BY <2>6
  <2> QED
    BY <2>5, <2>6, <2>7 DEF best
<1>7. \A x, y \in RightEntries : x.shard = y.shard /\ x.track = y.track => x = y
  <2> SUFFICES ASSUME NEW x \in RightEntries, NEW y \in RightEntries,
                      x.shard = y.shard, x.track = y.track
               PROVE  x = y
    OBVIOUS
  <2> DEFINE best(s, t) == Max({TrueScore(s, t, o) : o \in MeetingAny(s, t)})
  <2>1. /\ x = [shard |-> x.shard, track |-> x.track, score |-> best(x.shard, x.track)]
        /\ y = [shard |-> y.shard, track |-> y.track, score |-> best(y.shard, y.track)]
    BY <1>6
  <2> HIDE DEF best
  <2>2. best(x.shard, x.track) = best(y.shard, y.track)
    BY Zenon
  <2> QED
    BY <2>1, <2>2, Zenon
<1> QED
  BY <1>5, <1>6, <1>7 DEF Rankable

\* A short enough list is not cut.
LEMMA ShortlistWhole ==
  ASSUME world \in Worlds, world.damaged = FALSE, NEW raw, RawRight(raw),
         Cardinality(RawTracks(raw)) <= ShortlistLimit
  PROVE  Shortlisted(raw) = RawTracks(raw)
<1> DEFINE tracks == RawTracks(raw)
           ranked == Ordered(tracks, Better)
           n == Cardinality(tracks)
<1>1. Rankable(tracks)
  BY RawRankable
<1>2. Shortlisted(raw) = {ranked[i] : i \in 1 .. Min({Len(ranked), ShortlistLimit})}
  BY DEF Shortlisted, RawTracks, RawHitsOf
<1> HIDE DEF tracks
<1>3. /\ n \in Nat /\ Len(ranked) = n
      /\ \A i \in 1 .. n : ranked[i] \in tracks
      /\ \A x \in tracks : \E i \in 1 .. n : ranked[i] = x
  BY <1>1, OrderedRight
<1>4. n <= ShortlistLimit
  BY DEF tracks
<1> HIDE DEF ranked, n
<1>5. ShortlistLimit \in Int
  BY LimitsPositive
<1>6. Min({n, ShortlistLimit}) = n
  BY <1>3, <1>4, <1>5, Extrema
<1>7. Shortlisted(raw) = {ranked[i] : i \in 1 .. n}
  BY <1>2, <1>3, <1>6
<1>8. Shortlisted(raw) = tracks
  BY <1>3, <1>7
<1> QED
  BY <1>8 DEF tracks

\* The raw candidates tell of the songs that are met.
Keyed(raw, s, t) == \E h \in raw : h.shard = s /\ h.track = t
SongMet(s, t) == s \in DOMAIN world.songs /\ t \in DOMAIN world.songs[s] /\ MeetingAny(s, t) # {}

\* The tracks among the raw candidates, one by one.
LEMMA RawKeys ==
  ASSUME world \in Worlds, world.damaged = FALSE, NEW raw, RawRight(raw),
         \A i \in DOMAIN world.queries : AllHits(i) \subseteq raw,
         NEW s, NEW t
  PROVE  Keyed(raw, s, t) <=> SongMet(s, t)
<1>1. ASSUME NEW h \in raw, h.shard = s, h.track = t
      PROVE  s \in DOMAIN world.songs /\ t \in DOMAIN world.songs[s] /\ MeetingAny(s, t) # {}
  <2>1. s \in DOMAIN world.songs /\ t \in DOMAIN world.songs[s]
    BY <1>1, RawHitKinds
  <2>2. PICK i \in DOMAIN world.queries : \E s2 \in DOMAIN world.songs :
            \E t2 \in DOMAIN world.songs[s2] : \E k \in DOMAIN world.songs[s2][t2] :
               Meets(i, s2, t2, k) /\ h = HitOf(i, s2, t2, k)
    BY RawHit
  <2>3. PICK s2 \in DOMAIN world.songs :
            \E t2 \in DOMAIN world.songs[s2] : \E k \in DOMAIN world.songs[s2][t2] :
               Meets(i, s2, t2, k) /\ h = HitOf(i, s2, t2, k)
    BY <2>2
  <2>4. PICK t2 \in DOMAIN world.songs[s2] : \E k \in DOMAIN world.songs[s2][t2] :
               Meets(i, s2, t2, k) /\ h = HitOf(i, s2, t2, k)
    BY <2>3
  <2>5. PICK k \in DOMAIN world.songs[s2][t2] : Meets(i, s2, t2, k) /\ h = HitOf(i, s2, t2, k)
    BY <2>4
  <2>6. s2 = s /\ t2 = t
    BY <2>5, <1>1 DEF HitOf
  <2>7. MetAt(k - i, s, t, i)
    BY <2>1, <2>5, <2>6 DEF MetAt
  <2>8. k - i \in Meeting(s, t, i)
    BY <2>1, <2>7, MeetingIs
  <2> QED
    BY <2>1, <2>8 DEF MeetingAny
<1>2. ASSUME s \in DOMAIN world.songs, t \in DOMAIN world.songs[s], MeetingAny(s, t) # {}
      PROVE  \E h \in raw : h.shard = s /\ h.track = t
  <2>1. PICK i \in DOMAIN world.queries : Meeting(s, t, i) # {}
    BY <1>2 DEF MeetingAny
  <2>2. PICK o : o \in Meeting(s, t, i)
    BY <2>1
  <2>3. MetAt(o, s, t, i)
    BY <2>2, <1>2, MeetingIs
  <2>4. PICK k \in DOMAIN world.songs[s][t] : Meets(i, s, t, k)
    BY <2>3 DEF MetAt
  <2> DEFINE h == HitOf(i, s, t, k)
  <2>5. IsHit(h, i)
    BY <1>2, <2>4 DEF IsHit, Meets
  <2>6. h \in AllHits(i)
    <3> HIDE DEF h
    <3> QED
      BY <2>5, HitsAreSeconds
  <2>7. h.shard = s /\ h.track = t
    BY DEF HitOf
  <2> QED
    BY <2>6, <2>7
<1> QED
  BY <1>1, <1>2 DEF Keyed, SongMet

\* What a list of tracks with their hits lets the scoring try, and what the
\* shortlist does when it was not cut.
TriedOf(list, s, t) ==
    LET mine == {x \in list : x.shard = s}
    IN  Offsets(PartitionsOf(world.songs[s][t]), (CHOOSE x \in mine : x.track = t).hits)

TriesAllOf(list) ==
    \A s \in DOMAIN world.songs : \A t \in DOMAIN world.songs[s] :
       LET tried == (\E x \in list : x.shard = s /\ x.track = t) /\ TriedOf(list, s, t) # {}
       IN  /\ tried <=> MeetingAny(s, t) # {}
           /\ tried => TriedOf(list, s, t) = MeetingAny(s, t)

TriesAll == TriesAllOf(shortlist)

\* The shortlist that tries all, spelled out.
LEMMA TriesAllIs ==
  ASSUME TriesAll, NEW s \in DOMAIN world.songs, NEW t \in DOMAIN world.songs[s]
  PROVE  /\ t \in TriedTracks(s) <=> MeetingAny(s, t) # {}
         /\ t \in TriedTracks(s) => Tried(s, t) = MeetingAny(s, t)
BY DEF TriesAll, TriesAllOf, TriedOf, TriedTracks, Tried

\* Within the limits, the raw candidates of a query are all kept.
LEMMA WithinAll ==
  ASSUME world \in Worlds, world.damaged = FALSE, NEW raw, RawRight(raw), WithinLimits,
         NEW i \in DOMAIN world.queries
  PROVE  AllHits(i) \subseteq raw
<1>1. Cardinality(Met(i)) <= RawLimit
  BY DEF WithinLimits, Met
<1>2. Cardinality(AllHits(i)) = Cardinality(Met(i))
  BY HitsCounted
<1>3. Cardinality(AllHits(i)) <= RawLimit
  BY <1>1, <1>2
<1> QED
  BY <1>3 DEF RawRight

\* RightOrder ranks RightEntries.
LEMMA RightOrderIs == RightOrder = Ordered(RightEntries, Better)
BY DEF RightOrder, RightEntries

\* Within the limits, every track of the raw candidates is shortlisted.
LEMMA WithinShortlist ==
  ASSUME world \in Worlds, world.damaged = FALSE, NEW raw, RawRight(raw), WithinLimits
  PROVE  Shortlisted(raw) = RawTracks(raw)
<1> DEFINE track(s, t) == [shard |-> s, track |-> t, hits |-> RawHitsOf(raw, s, t),
                           score |-> FirstPass(RawHitsOf(raw, s, t))]
           f == [e \in RightEntries |-> track(e.shard, e.track)]
           tracks == RawTracks(raw)
<1>1. \A i \in DOMAIN world.queries : AllHits(i) \subseteq raw
  BY WithinAll
<1>2. Rankable(RightEntries) /\ Rankable(tracks)
  BY EntriesRankable, RawRankable
<1>3. tracks = {track(x[1], x[2]) : x \in {<<h.shard, h.track>> : h \in raw}}
  BY DEF RawTracks
<1> HIDE DEF tracks
<1>4. ASSUME NEW x \in tracks
      PROVE  \E e \in RightEntries : f[e] = x
  <2>1. PICK h \in raw : x = track(h.shard, h.track)
    <3> HIDE DEF track
    <3>1. PICK y \in {<<h.shard, h.track>> : h \in raw} : x = track(y[1], y[2])
      BY <1>3
    <3>2. PICK h \in raw : y = <<h.shard, h.track>>
      BY <3>1
    <3> QED
      BY <3>1, <3>2
  <2> DEFINE s == h.shard
             t == h.track
             e == [shard |-> s, track |-> t,
                   score |-> Max({TrueScore(s, t, o) : o \in MeetingAny(s, t)})]
  <2>2. s \in DOMAIN world.songs /\ t \in DOMAIN world.songs[s] /\ MeetingAny(s, t) # {}
    <3>1. Keyed(raw, s, t)
      BY DEF Keyed
    <3>2. SongMet(s, t)
      BY <3>1, <1>1, RawKeys
    <3> QED
      BY <3>2 DEF SongMet
  <2>3. IsEntry(e)
    BY <2>2 DEF IsEntry
  <2>4. e \in RightEntries
    <3> HIDE DEF e
    <3> QED
      BY <2>3, EntriesAre
  <2>5. e.shard = s /\ e.track = t
    OBVIOUS
  <2> HIDE DEF e, track
  <2>6. f[e] = track(s, t)
    BY <2>4, <2>5
  <2> QED
    BY <2>1, <2>4, <2>6
<1>5. ASSUME NEW e \in RightEntries
      PROVE  f[e] \in tracks
  <2>1. IsEntry(e)
    BY EntriesAre
  <2>2. PICK s \in DOMAIN world.songs : \E t \in DOMAIN world.songs[s] :
           MeetingAny(s, t) # {} /\ e.shard = s /\ e.track = t
    BY <2>1 DEF IsEntry
  <2>3. PICK t \in DOMAIN world.songs[s] : MeetingAny(s, t) # {} /\ e.shard = s /\ e.track = t
    BY <2>2
  <2>4. \E h \in raw : h.shard = s /\ h.track = t
    <3>1. SongMet(s, t)
      BY <2>3 DEF SongMet
    <3>2. Keyed(raw, s, t)
      BY <3>1, <1>1, RawKeys
    <3> QED
      BY <3>2 DEF Keyed
  <2>5. PICK h \in raw : h.shard = s /\ h.track = t
    BY <2>4
  <2> DEFINE x == <<h.shard, h.track>>
  <2>6. x[1] = s /\ x[2] = t /\ x \in {<<g.shard, g.track>> : g \in raw}
    BY <2>5
  <2> HIDE DEF x, track
  <2>7. track(s, t) \in tracks
    BY <1>3, <2>6
  <2>8. f[e] = track(s, t)
    BY <2>3
  <2> QED
    BY <2>7, <2>8
<1> HIDE DEF f
<1>6. f \in Surjection(RightEntries, tracks)
  <2>1. f \in [RightEntries -> tracks]
    BY <1>5 DEF f
  <2> QED
    BY <1>4, <2>1 DEF Surjection
<1>7. Cardinality(tracks) <= Cardinality(RightEntries)
  BY <1>2, <1>6, FS_Surjection DEF Rankable
<1>8. Len(RightOrder) = Cardinality(RightEntries) /\ Cardinality(RightEntries) \in Nat
  BY <1>2, OrderedRight, RightOrderIs
<1>9. Cardinality(RightEntries) <= ShortlistLimit
  BY <1>8 DEF WithinLimits
<1>10. Cardinality(tracks) \in Nat /\ ShortlistLimit \in Nat
  BY <1>2, FS_CardinalityType, LimitsPositive DEF Rankable
<1>11. Cardinality(tracks) <= ShortlistLimit
  BY <1>7, <1>8, <1>9, <1>10
<1> QED
  BY <1>11, ShortlistWhole DEF tracks

\* Within the limits, the shortlist tries every alignment of every song that
\* is met.
LEMMA ShortlistComplete ==
  ASSUME world \in Worlds, world.damaged = FALSE, NEW raw, RawRight(raw), WithinLimits,
         NEW list, list = Shortlisted(raw)
  PROVE  TriesAllOf(list)
<1>1. list = RawTracks(raw)
  BY WithinShortlist
<1>2. \A i \in DOMAIN world.queries : AllHits(i) \subseteq raw
  BY WithinAll
<1> SUFFICES ASSUME NEW s \in DOMAIN world.songs, NEW t \in DOMAIN world.songs[s]
             PROVE  LET tried == (\E x \in list : x.shard = s /\ x.track = t)
                                 /\ TriedOf(list, s, t) # {}
                    IN  /\ tried <=> MeetingAny(s, t) # {}
                        /\ tried => TriedOf(list, s, t) = MeetingAny(s, t)
  BY DEF TriesAllOf
<1>3. \A x \in list : x.hits = RawHitsOf(raw, x.shard, x.track)
                           /\ \E h \in raw : h.shard = x.shard /\ h.track = x.track
  BY <1>1 DEF RawTracks
<1>4. \A h \in raw : \E x \in list : x.shard = h.shard /\ x.track = h.track
  <2> SUFFICES ASSUME NEW h \in raw PROVE \E x \in list : x.shard = h.shard /\ x.track = h.track
    OBVIOUS
  <2> DEFINE y == <<h.shard, h.track>>
             x == [shard |-> y[1], track |-> y[2], hits |-> RawHitsOf(raw, y[1], y[2]),
                   score |-> FirstPass(RawHitsOf(raw, y[1], y[2]))]
  <2>1. y \in {<<g.shard, g.track>> : g \in raw} /\ y[1] = h.shard /\ y[2] = h.track
    OBVIOUS
  <2> HIDE DEF y
  <2>2. x \in list
    BY <1>1, <2>1 DEF RawTracks
  <2> QED
    BY <2>1, <2>2
<1>5. (\E x \in list : x.shard = s /\ x.track = t) <=> MeetingAny(s, t) # {}
  <2>1. (\E h \in raw : h.shard = s /\ h.track = t) <=> MeetingAny(s, t) # {}
    <3>1. Keyed(raw, s, t) <=> SongMet(s, t)
      BY <1>2, RawKeys
    <3> QED
      BY <3>1 DEF Keyed, SongMet
  <2>2. (\E x \in list : x.shard = s /\ x.track = t)
          <=> (\E h \in raw : h.shard = s /\ h.track = t)
    BY <1>3, <1>4
  <2> QED
    BY <2>1, <2>2
<1>6. ASSUME NEW x \in list, x.shard = s, x.track = t
      PROVE  TriedOf(list, s, t) = MeetingAny(s, t)
  <2> DEFINE mine == {y \in list : y.shard = s}
             z == CHOOSE y \in mine : y.track = t
             found == RawHitsOf(raw, s, t)
  <2>1. z \in mine /\ z.track = t
    BY <1>6
  <2>2. z.hits = found
    BY <2>1, <1>3
  <2>3. TriedOf(list, s, t) = Offsets(PartitionsOf(world.songs[s][t]), found)
    BY <2>2 DEF TriedOf
  <2>4. ASSUME NEW h \in found
        PROVE  \E i \in DOMAIN world.queries : \E k \in DOMAIN world.songs[s][t] :
                  Meets(i, s, t, k) /\ h = HitOf(i, s, t, k)
    <3>1. h \in raw /\ h.shard = s /\ h.track = t
      BY DEF RawHitsOf
    <3>2. PICK i \in DOMAIN world.queries : \E s2 \in DOMAIN world.songs :
              \E t2 \in DOMAIN world.songs[s2] : \E k \in DOMAIN world.songs[s2][t2] :
                 Meets(i, s2, t2, k) /\ h = HitOf(i, s2, t2, k)
      BY <3>1, RawHit
    <3>3. PICK s2 \in DOMAIN world.songs :
              \E t2 \in DOMAIN world.songs[s2] : \E k \in DOMAIN world.songs[s2][t2] :
                 Meets(i, s2, t2, k) /\ h = HitOf(i, s2, t2, k)
      BY <3>2
    <3>4. PICK t2 \in DOMAIN world.songs[s2] : \E k \in DOMAIN world.songs[s2][t2] :
                 Meets(i, s2, t2, k) /\ h = HitOf(i, s2, t2, k)
      BY <3>3
    <3>5. s2 = s /\ t2 = t
      BY <3>4, <3>1 DEF HitOf
    <3> QED
      BY <3>4, <3>5
  <2>5. ASSUME NEW i \in DOMAIN world.queries, NEW k \in DOMAIN world.songs[s][t],
               Meets(i, s, t, k)
        PROVE  HitOf(i, s, t, k) \in found
    <3> DEFINE h == HitOf(i, s, t, k)
    <3>1. IsHit(h, i)
      BY <2>5 DEF IsHit, Meets
    <3>2. h \in AllHits(i)
      <4> HIDE DEF h
      <4> QED
        BY <3>1, HitsAreSeconds
    <3>3. h.shard = s /\ h.track = t
      BY DEF HitOf
    <3> HIDE DEF h
    <3>4. h \in found
      BY <3>2, <3>3, <1>2 DEF RawHitsOf
    <3> QED
      BY <3>4 DEF h
  <2> HIDE DEF found
  <2>6. Offsets(PartitionsOf(world.songs[s][t]), found) = MeetingAny(s, t)
    BY <2>4, <2>5, HitOffsets
  <2> QED
    BY <2>3, <2>6
<1> QED
  BY <1>5, <1>6

------------------------------ (* Results *) -------------------------------

\* What the workers put out for all shards together.
ScoredRight(scored) ==
    /\ \A x \in scored : x.shard \in DOMAIN world.shards
    /\ \A s \in DOMAIN world.shards : ShardScored(s, {x \in scored : x.shard = s})

\* What one of the scored is.
LEMMA ScoredFacts ==
  ASSUME world \in Worlds, world.damaged = FALSE, NEW scored, ScoredRight(scored),
         NEW x \in scored
  PROVE  /\ x.shard \in DOMAIN world.songs /\ x.track \in DOMAIN world.songs[x.shard]
         /\ x.track \in TriedTracks(x.shard) /\ Aligned(x.shard, x.track, x)
         /\ x.score = TrueScore(x.shard, x.track, x.offset)
         /\ x.score \in Int /\ x.shard \in Int /\ x.track \in Int
<1> DEFINE s == x.shard
           t == x.track
           mine == {y \in scored : y.shard = s}
<1>1. s \in DOMAIN world.shards /\ s \in DOMAIN world.songs
  BY WorldFacts DEF ScoredRight
<1>2. ShardScored(s, mine) /\ x \in mine
  BY <1>1 DEF ScoredRight
<1>3. t \in TriedTracks(s) /\ Aligned(s, t, x)
  <2> HIDE DEF mine, s
  <2> QED
    BY <1>2 DEF ShardScored
<1>4. t \in DOMAIN world.songs[s] /\ x.score = TrueScore(s, t, x.offset)
  BY <1>3 DEF TriedTracks, Aligned
<1>5. TrueScore(s, t, x.offset) \in Int
  BY <1>1, <1>4, AlignedRight
<1>6. s \in Int /\ t \in Int
  BY <1>1, <1>4, SongFacts
<1> QED
  BY <1>1, <1>3, <1>4, <1>5, <1>6

\* The scored can be ranked.
LEMMA ScoredRankable ==
  ASSUME world \in Worlds, world.damaged = FALSE, NEW scored, ScoredRight(scored)
  PROVE  Rankable(scored)
<1> DEFINE S == DOMAIN world.shards
           f == [s \in S |-> {x \in scored : x.shard = s}]
           all == {f[s] : s \in S}
<1>1. IsFiniteSet(S)
  BY WorldFacts, IntervalFinite
<1>2. IsFiniteSet(all)
  <2>1. DOMAIN f = S /\ f = [s \in S |-> f[s]]
    OBVIOUS
  <2> HIDE DEF f, S
  <2> QED
    BY <1>1, <2>1, ImageFinite
<1>3. \A s \in S : ShardScored(s, f[s])
  BY DEF ScoredRight
<1>4. \A x \in scored : x.shard \in S /\ x \in f[x.shard]
  BY DEF ScoredRight
<1> HIDE DEF S
<1>5. \A y \in all : IsFiniteSet(y)
  <2> HIDE DEF f
  <2> QED
    BY <1>3 DEF ShardScored
<1>6. scored = UNION all
  BY <1>4
<1>7. IsFiniteSet(scored)
  <2> HIDE DEF all
  <2> QED
    BY <1>2, <1>5, <1>6, FS_UNION
<1>8. \A x \in scored : x.score \in Int /\ x.shard \in Int /\ x.track \in Int
  BY ScoredFacts
<1>9. \A x, y \in scored : x.shard = y.shard /\ x.track = y.track => x = y
  <2> SUFFICES ASSUME NEW x \in scored, NEW y \in scored, x.shard = y.shard, x.track = y.track
               PROVE  x = y
    OBVIOUS
  <2>1. x \in f[x.shard] /\ y \in f[x.shard] /\ ShardScored(x.shard, f[x.shard])
    BY <1>3, <1>4
  <2> HIDE DEF f
  <2> QED
    BY <2>1 DEF ShardScored
<1> QED
  BY <1>7, <1>8, <1>9 DEF Rankable

\* The results are the best of the scored, in order.
ResultsOfScored(results, scored) ==
    LET m == Min({Cardinality(scored), ResultLimit})
    IN  /\ m \in Nat /\ m <= Cardinality(scored) /\ Len(results) = m /\ DOMAIN results = 1 .. m
        /\ \A i \in 1 .. m : results[i] = Ordered(scored, Better)[i]

\* Whatever equals the cut left in, the results are the best of the scored,
\* in order.
LEMMA ResultsRight ==
  ASSUME world \in Worlds, world.damaged = FALSE, NEW scored, ScoredRight(scored)
  PROVE  /\ Results(scored) # {}
         /\ \A results \in Results(scored) : ResultsOfScored(results, scored)
<1> DEFINE ranked == Ordered(scored, Better)
           n == Cardinality(scored)
           m == Min({n, ResultLimit})
           best == {ranked[i] : i \in 1 .. m}
           Metadata(x) == Track(world.shards[x.shard], x.track)
           results == Ordered(best, Better)
<1>1. Rankable(scored)
  BY ScoredRankable
<1>2. n \in Nat /\ Len(ranked) = n
  BY <1>1, OrderedRight
<1>3. m \in Nat /\ m <= n
  <2>1. ResultLimit \in Nat
    BY LimitsPositive
  <2> HIDE DEF n
  <2>2. Min({n, ResultLimit}) = IF n <= ResultLimit THEN n ELSE ResultLimit
    BY <1>2, <2>1, Extrema
  <2>3. m = IF n <= ResultLimit THEN n ELSE ResultLimit
    BY <2>2
  <2> HIDE DEF m
  <2> QED
    BY <1>2, <2>1, <2>3
<1> HIDE DEF m
<1>4. /\ Rankable(best) /\ Cardinality(best) = m /\ best \subseteq scored
      /\ \A i \in 1 .. m : Ordered(best, Better)[i] = ranked[i]
  BY <1>1, <1>3, FirstOfOrder
<1>5. \A x \in scored : Metadata(x) # {} /\ Metadata(x) # {{}}
  <2> SUFFICES ASSUME NEW x \in scored PROVE Metadata(x) # {} /\ Metadata(x) # {{}}
    OBVIOUS
  <2>1. x.shard \in DOMAIN world.songs /\ x.track \in DOMAIN world.songs[x.shard]
    BY ScoredFacts
  <2> DEFINE shard == world.shards[x.shard]
             songs == world.songs[x.shard]
  <2>2. Builds(shard, songs)
    BY <2>1, WorldFacts
  <2> HIDE DEF shard, songs
  <2>3. x.track \in DOMAIN shard.M /\ shard.M[x.track] # {}
    BY <2>1, <2>2 DEF Builds, songs
  <2>4. Track(shard, x.track) = {shard.M[x.track]}
    BY <2>3 DEF Track, Record
  <2>5. Track(shard, x.track) # {} /\ Track(shard, x.track) # {{}}
    BY <2>3, <2>4
  <2> QED
    BY <2>5 DEF shard
<1>6. Results(scored) = IF \E x \in best : Metadata(x) = {} THEN {}
                        ELSE {Ordered({x \in best : Metadata(x) # {{}}}, Better)}
  <2>1. Len(ranked) = n
    BY <1>2
  <2>2. best = {ranked[i] : i \in 1 .. Min({Len(ranked), ResultLimit})}
    BY <2>1 DEF m
  <2> HIDE DEF best
  <2> QED
    BY <2>2 DEF Results
<1> HIDE DEF Metadata, best, ranked
<1>7. {x \in best : Metadata(x) # {{}}} = best /\ ~\E x \in best : Metadata(x) = {}
  BY <1>4, <1>5
<1>8. Results(scored) = {results}
  BY <1>6, <1>7
<1>9. Len(results) = m /\ DOMAIN results = 1 .. m
  <2>1. Len(results) = Cardinality(best) /\ DOMAIN results = 1 .. Cardinality(best)
    BY <1>4, OrderedRight
  <2> HIDE DEF results
  <2> QED
    BY <2>1, <1>4
<1>10. \A i \in 1 .. m : results[i] = ranked[i]
  BY <1>4
<1> HIDE DEF results
<1>11. ResultsOfScored(results, scored)
  BY <1>3, <1>9, <1>10 DEF ResultsOfScored, m, ranked
<1> QED
  BY <1>8, <1>11

\* A scored track that has the best score of the alignments at which its
\* song is met.
BestOf(s, t, x) ==
    /\ x.score = Max({TrueScore(s, t, o) : o \in MeetingAny(s, t)})
    /\ x.shard = s /\ x.track = t

\* With every track tried at every alignment, they are the entries that
\* RightOrder ranks.
LEMMA ScoredEntries ==
  ASSUME world \in Worlds, world.damaged = FALSE, NEW scored, ScoredRight(scored), TriesAll
  PROVE  {Bare(x) : x \in scored} = RightEntries
<1>1. ASSUME NEW s \in DOMAIN world.songs, NEW t \in DOMAIN world.songs[s],
             MeetingAny(s, t) # {}, NEW x, Aligned(s, t, x)
      PROVE  BestOf(s, t, x)
  <2> DEFINE scores == {TrueScore(s, t, o) : o \in MeetingAny(s, t)}
  <2>1. Tried(s, t) = MeetingAny(s, t)
    BY <1>1, TriesAllIs
  <2>2. /\ x.shard = s /\ x.track = t /\ x.offset \in MeetingAny(s, t)
        /\ x.score = TrueScore(s, t, x.offset)
        /\ \A o \in MeetingAny(s, t) : x.score >= TrueScore(s, t, o)
    BY <1>1, <2>1 DEF Aligned
  <2>3. /\ Max(scores) \in Int
        /\ \E o \in MeetingAny(s, t) : Max(scores) = TrueScore(s, t, o)
        /\ \A o \in MeetingAny(s, t) : TrueScore(s, t, o) <= Max(scores)
    BY <1>1, BestScore
  <2>4. TrueScore(s, t, x.offset) \in Int
    BY SongFacts, AlignedRight
  <2> HIDE DEF scores
  <2>5. x.score = Max(scores)
    BY <2>2, <2>3, <2>4
  <2> QED
    BY <2>2, <2>5 DEF scores, BestOf
<1>2. ASSUME NEW x \in scored PROVE Bare(x) \in RightEntries
  <2> DEFINE s == x.shard
             t == x.track
  <2>1. s \in DOMAIN world.songs /\ t \in DOMAIN world.songs[s] /\ t \in TriedTracks(s)
        /\ Aligned(s, t, x)
    BY ScoredFacts
  <2> HIDE DEF s, t
  <2>2. MeetingAny(s, t) # {}
    BY <2>1, TriesAllIs
  <2>3. BestOf(s, t, x)
    BY <1>1, <2>1, <2>2, Zenon
  <2>4. IsEntry(Bare(x))
    BY <2>1, <2>2, <2>3 DEF IsEntry, Bare, BestOf
  <2> QED
    BY <2>4, EntriesAre
<1>3. ASSUME NEW e \in RightEntries PROVE \E x \in scored : Bare(x) = e
  <2>1. IsEntry(e)
    BY EntriesAre
  <2>2. PICK s \in DOMAIN world.songs : \E t \in DOMAIN world.songs[s] :
           /\ MeetingAny(s, t) # {}
           /\ e = [shard |-> s, track |-> t,
                   score |-> Max({TrueScore(s, t, o) : o \in MeetingAny(s, t)})]
    BY <2>1 DEF IsEntry
  <2>3. PICK t \in DOMAIN world.songs[s] :
           /\ MeetingAny(s, t) # {}
           /\ e = [shard |-> s, track |-> t,
                   score |-> Max({TrueScore(s, t, o) : o \in MeetingAny(s, t)})]
    BY <2>2
  <2>4. t \in TriedTracks(s)
    BY <2>3, TriesAllIs
  <2>5. s \in DOMAIN world.shards
    BY SongFacts
  <2> DEFINE mine == {x \in scored : x.shard = s}
  <2>6. ShardScored(s, mine)
    BY <2>5 DEF ScoredRight
  <2>7. \E x \in mine : x.track = t /\ Aligned(s, t, x)
    <3> HIDE DEF mine
    <3> QED
      BY <2>4, <2>6 DEF ShardScored
  <2>8. PICK x \in scored : x.track = t /\ Aligned(s, t, x)
    BY <2>7
  <2>9. BestOf(s, t, x)
    BY <1>1, <2>3, <2>8, Zenon
  <2>10. Bare(x) = e
    BY <2>3, <2>9 DEF Bare, BestOf
  <2> QED
    BY <2>10
<1> QED
  BY <1>2, <1>3

\* What AnswerIsRight asks of the results of a call that passed.
RightResults(results) ==
    /\ \A i \in DOMAIN results :
          results[i].score = TrueScore(results[i].shard, results[i].track, results[i].offset)
    /\ \A i \in 2 .. Len(results) : Better(results[i - 1], results[i])
    /\ WithinLimits /\ ~world.damaged =>
          /\ Len(results) = Min({ResultLimit, Len(RightOrder)})
          /\ \A i \in DOMAIN results :
                [shard |-> results[i].shard, track |-> results[i].track,
                 score |-> results[i].score] = RightOrder[i]

\* From right scores, what Results returns is what AnswerIsRight asks for.
LEMMA ResultsAreRight ==
  ASSUME world \in Worlds, world.damaged = FALSE, NEW scored, ScoredRight(scored),
         WithinLimits => TriesAll, NEW results \in Results(scored)
  PROVE  RightResults(results)
<1> DEFINE ranked == Ordered(scored, Better)
           n == Cardinality(scored)
           m == Min({n, ResultLimit})
<1>1. /\ m \in Nat /\ m <= n /\ Len(results) = m /\ DOMAIN results = 1 .. m
      /\ \A i \in 1 .. m : results[i] = ranked[i]
  BY ResultsRight DEF ResultsOfScored
<1>2. Rankable(scored)
  BY ScoredRankable
<1>3. /\ n \in Nat /\ \A i \in 1 .. n : ranked[i] \in scored
      /\ \A i, j \in 1 .. n : i < j => Better(ranked[i], ranked[j])
  BY <1>2, OrderedRight
<1>4. ASSUME WithinLimits
      PROVE  /\ Len(RightOrder) = n
             /\ \A i \in 1 .. n : RightOrder[i] = Bare(ranked[i])
  <2> DEFINE B == {Bare(x) : x \in scored}
  <2>1. B = RightEntries
    BY <1>4, ScoredEntries
  <2>2. /\ Rankable(B) /\ Cardinality(B) = n
        /\ \A i \in 1 .. n : Ordered(B, Better)[i] = Bare(ranked[i])
    BY <1>2, BareOrder
  <2> HIDE DEF B, n, ranked
  <2>3. Len(Ordered(B, Better)) = Cardinality(B)
    BY <2>2, OrderedRight
  <2> QED
    BY <2>1, <2>2, <2>3, RightOrderIs
<1>5. ResultLimit \in Nat
  BY LimitsPositive
<1>6. {n, ResultLimit} = {ResultLimit, n}
  OBVIOUS
<1>7. m = Min({ResultLimit, n})
  BY <1>6
<1> HIDE DEF m, n, ranked
<1>8. \A i \in 1 .. m : i \in 1 .. n /\ results[i] = ranked[i] /\ results[i] \in scored
  BY <1>1, <1>3
<1>9. \A i \in DOMAIN results :
         results[i].score = TrueScore(results[i].shard, results[i].track, results[i].offset)
  BY <1>1, <1>8, ScoredFacts
<1>10. \A i \in 2 .. Len(results) : Better(results[i - 1], results[i])
  <2> SUFFICES ASSUME NEW i \in 2 .. m PROVE Better(results[i - 1], results[i])
    BY <1>1
  <2>1. i - 1 \in 1 .. m /\ i \in 1 .. m /\ i - 1 < i
    BY <1>1
  <2> QED
    BY <2>1, <1>3, <1>8
<1>11. ASSUME WithinLimits
       PROVE  /\ Len(results) = Min({ResultLimit, Len(RightOrder)})
              /\ \A i \in DOMAIN results :
                    [shard |-> results[i].shard, track |-> results[i].track,
                     score |-> results[i].score] = RightOrder[i]
  <2>1. Len(results) = Min({ResultLimit, Len(RightOrder)})
    BY <1>1, <1>4, <1>7, <1>11
  <2>2. \A i \in 1 .. m : RightOrder[i] = Bare(results[i])
    BY <1>4, <1>8, <1>11
  <2> QED
    BY <2>1, <2>2, <1>1 DEF Bare
<1> QED
  BY <1>9, <1>10, <1>11 DEF RightResults

---------------------- (* A result for every item *) -----------------------

\* The hits that a shortlisted track keeps are raw candidates.
LEMMA ShortlistHits ==
  ASSUME world \in Worlds, world.damaged = FALSE, NEW raw, RawRight(raw),
         NEW x \in Shortlisted(raw)
  PROVE  IsFiniteSet(x.hits)
<1> DEFINE ranked == Ordered(RawTracks(raw), Better)
           n == Min({Len(ranked), ShortlistLimit})
<1>1. Shortlisted(raw) = {ranked[i] : i \in 1 .. n}
  BY DEF Shortlisted, RawTracks, RawHitsOf
<1>2. x \in RawTracks(raw)
  <2> HIDE DEF n, ranked
  <2>1. PICK i \in 1 .. n : x = ranked[i]
    BY <1>1
  <2>2. /\ Cardinality(RawTracks(raw)) \in Nat /\ Len(ranked) = Cardinality(RawTracks(raw))
        /\ \A j \in 1 .. Cardinality(RawTracks(raw)) : ranked[j] \in RawTracks(raw)
    BY RawRankable, OrderedRight DEF ranked
  <2>3. n <= Len(ranked)
    BY <2>2, LimitsPositive, Extrema DEF n
  <2>4. n \in Int
    BY <2>2, LimitsPositive, Extrema DEF n
  <2> QED
    BY <2>1, <2>2, <2>3, <2>4
<1>3. PICK h \in raw : x.hits = RawHitsOf(raw, h.shard, h.track)
  BY <1>2 DEF RawTracks
<1>4. x.hits \subseteq raw
  BY <1>3 DEF RawHitsOf
<1> QED
  BY <1>4, RawFinite, FS_Subset

\* Of finitely many hits the nearest can be kept.
LEMMA NearestExist ==
  ASSUME NEW all, IsFiniteSet(all), \A h \in all : h.distance \in Int
  PROVE  NearestSets(all) # {}
<1> DEFINE Nearest(kept) == \A x \in kept, y \in all \ kept : x.distance <= y.distance
           parts == {kept \in SUBSET all : Cardinality(kept) <= RawLimit /\ Nearest(kept)}
           f == [kept \in parts |-> all \ kept]
<1>1. CASE Cardinality(all) <= RawLimit
  BY <1>1 DEF NearestSets
<1>2. CASE ~(Cardinality(all) <= RawLimit)
  <2>1. Cardinality(all) \in Nat /\ RawLimit \in Nat \ {0}
    BY FS_CardinalityType, LimitsPositive
  <2>2. {} \in parts
    <3>1. Cardinality({}) = 0
      BY FS_EmptySet
    <3> QED
      BY <2>1, <3>1
  <2>3. f \in [parts -> SUBSET all]
    OBVIOUS
  <2>4. PICK m \in parts : \A k \in parts : ~(f[k] \subseteq f[m] /\ f[k] # f[m])
    <3> HIDE DEF f, parts
    <3> QED
      BY <2>2, <2>3, SmallestSet
  <2>5. m \subseteq all /\ Cardinality(m) <= RawLimit /\ Nearest(m)
    OBVIOUS
  <2>6. IsFiniteSet(m) /\ Cardinality(m) \in Nat
    <3>1. IsFiniteSet(m)
      BY <2>5, FS_Subset
    <3> QED
      BY <3>1, FS_CardinalityType
  <2>7. ASSUME Cardinality(m) # RawLimit PROVE FALSE
    <3> DEFINE rest == all \ m
               v == [h \in rest |-> h.distance]
    <3>1. rest # {}
      <4>1. m # all
        BY <1>2, <2>1, <2>5, <2>6
      <4> QED
        BY <4>1, <2>5
    <3>2. IsFiniteSet(rest) /\ v \in [rest -> Int]
      <4>1. IsFiniteSet(rest)
        BY FS_Subset
      <4> QED
        BY <4>1
    <3>3. PICK x \in rest : \A y \in rest : v[x] <= v[y]
      <4> HIDE DEF rest, v
      <4> QED
        BY <3>1, <3>2, LeastValue
    <3>4. x \in all /\ x \notin m /\ \A y \in all \ m : x.distance <= y.distance
      BY <3>3
    <3> DEFINE k == m \cup {x}
    <3>5. Cardinality(k) <= RawLimit
      <4>1. Cardinality(k) = Cardinality(m) + 1
        BY <2>6, <3>4, FS_AddElement
      <4> HIDE DEF k
      <4> QED
        BY <4>1, <2>1, <2>5, <2>6, <2>7
    <3>6. k \in SUBSET all /\ Nearest(k)
      BY <2>5, <3>4
    <3>7. k \in parts
      BY <3>5, <3>6
    <3>8. f[k] \subseteq f[m] /\ f[k] # f[m]
      BY <3>4, <3>7
    <3> QED
      BY <2>4, <3>7, <3>8
  <2>8. m \in NearestSets(all)
    BY <1>2, <2>5, <2>7 DEF NearestSets
  <2> QED
    BY <2>8
<1> QED
  BY <1>1, <1>2

\* A track is tried at finitely many offsets.
LEMMA TriedFinite ==
  ASSUME world \in Worlds, world.damaged = FALSE,
         NEW s \in DOMAIN world.shards, NEW t \in DOMAIN world.songs[s],
         \A x \in shortlist : IsFiniteSet(x.hits),
         \E x \in shortlist : x.shard = s /\ x.track = t
  PROVE  IsFiniteSet(Tried(s, t))
<1> DEFINE mine == {x \in shortlist : x.shard = s}
           hits == (CHOOSE x \in mine : x.track = t).hits
           parts == PartitionsOf(world.songs[s][t])
           f == [h \in hits |-> {i - h.query : i \in SecondOf(parts, h)}]
<1>1. IsFiniteSet(hits)
  <2>1. \E x \in mine : x.track = t
    OBVIOUS
  <2>2. (CHOOSE x \in mine : x.track = t) \in shortlist
    BY <2>1
  <2> QED
    BY <2>2
<1>2. IsFiniteSet(DOMAIN parts)
  <2>1. Len(world.songs[s][t]) \in Nat /\ DOMAIN world.songs[s][t] = 1 .. Len(world.songs[s][t])
    BY SongFacts
  <2> QED
    BY <2>1, IntervalFinite DEF PartitionsOf
<1> HIDE DEF hits, parts
<1>3. ASSUME NEW h \in hits PROVE IsFiniteSet(f[h])
  <2> DEFINE S == SecondOf(parts, h)
             g == [i \in S |-> i - h.query]
  <2>1. IsFiniteSet(S)
    <3>1. S \subseteq DOMAIN parts
      BY DEF SecondOf
    <3> QED
      BY <3>1, <1>2, FS_Subset
  <2>2. IsFiniteSet({g[i] : i \in S})
    <3>1. DOMAIN g = S /\ g = [i \in S |-> g[i]]
      OBVIOUS
    <3> HIDE DEF g, S
    <3> QED
      BY <2>1, <3>1, ImageFinite
  <2>3. f[h] = {g[i] : i \in S}
    OBVIOUS
  <2> QED
    BY ONLY <2>2, <2>3
<1>4. IsFiniteSet({f[h] : h \in hits})
  <2>1. DOMAIN f = hits /\ f = [h \in hits |-> f[h]]
    OBVIOUS
  <2> HIDE DEF f
  <2> QED
    BY <2>1, <1>1, ImageFinite
<1>5. IsFiniteSet(UNION {f[h] : h \in hits})
  <2>1. \A x \in {f[h] : h \in hits} : IsFiniteSet(x)
    BY <1>3
  <2> HIDE DEF f
  <2> QED
    BY <2>1, <1>4, FS_UNION
<1>6. Tried(s, t) = UNION {f[h] : h \in hits}
  <2>1. Tried(s, t) = Offsets(parts, hits)
    BY DEF Tried, hits, parts
  <2>2. {f[h] : h \in hits} = {{i - h.query : i \in SecondOf(parts, h)} : h \in hits}
    OBVIOUS
  <2> QED
    BY ONLY <2>1, <2>2 DEF Offsets
<1> QED
  BY <1>5, <1>6

\* One of them is the best.
LEMMA BestExist ==
  ASSUME world \in Worlds, world.damaged = FALSE,
         NEW s \in DOMAIN world.shards, NEW t \in DOMAIN world.songs[s],
         IsFiniteSet(Tried(s, t)), Tried(s, t) # {}
  PROVE  BestAlignments(s, t, PartitionsOf(world.songs[s][t]), Tried(s, t)) # {}
<1> DEFINE parts == PartitionsOf(world.songs[s][t])
           ScoreAt(o) == CHOOSE y \in AlignedScore(s, t, parts, o) : TRUE
           Result(o) == [shard |-> s, track |-> t, score |-> ScoreAt(o), offset |-> o]
           S == Tried(s, t)
           v == [o \in S |-> -ScoreAt(o)]
<1>1. ASSUME NEW o PROVE ScoreAt(o) \in Int
  <2>1. AlignedScore(s, t, parts, o) = {TrueScore(s, t, o)} /\ TrueScore(s, t, o) \in Int
    BY AlignedRight
  <2> HIDE DEF parts
  <2> QED
    BY <2>1
<1> HIDE DEF ScoreAt, S
<1>2. v \in [S -> Int]
  BY <1>1
<1>3. PICK o \in S : \A p \in S : v[o] <= v[p]
  <2> HIDE DEF v
  <2> QED
    BY <1>2, LeastValue DEF S
<1>4. \A p \in S : ScoreAt(o) >= ScoreAt(p)
  BY <1>1, <1>3
<1>5. \A p \in S : Result(o).score >= Result(p).score
  BY <1>4
<1>6. BestAlignments(s, t, parts, S)
        = {a \in {Result(p) : p \in S} : \A b \in {Result(p) : p \in S} : a.score >= b.score}
  BY DEF BestAlignments, ScoreAt
<1> HIDE DEF Result, parts
<1>7. Result(o) \in BestAlignments(s, t, parts, S)
  BY <1>5, <1>6
<1> QED
  BY <1>7 DEF parts, S

\* So a worker has something to put out for every shard.
LEMMA ShardPutsOut ==
  ASSUME world \in Worlds, world.damaged = FALSE, NEW s \in DOMAIN world.shards,
         \A x \in shortlist : IsFiniteSet(x.hits)
  PROVE  ScoreShard(s) # {}
<1> DEFINE songs == world.songs[s]
           mine == {x \in shortlist : x.shard = s}
           tracks == {x.track : x \in mine}
           wanted == tracks \cap DOMAIN songs
           batch0 == [t \in wanted |-> PartitionsOf(songs[t])]
           Of(batch) == [t \in DOMAIN batch |->
                           Offsets(batch[t], (CHOOSE x \in mine : x.track = t).hits)]
           Broken(batch, offsets) ==
             \E t \in DOMAIN batch : \E o \in offsets[t] : AlignedScore(s, t, batch[t], o) = {}
           Picks(batch, offsets) ==
             LET aligned == {t \in DOMAIN batch : offsets[t] # {}}
                 best == [t \in aligned |-> BestAlignments(s, t, batch[t], offsets[t])]
             IN  {{pick[t] : t \in aligned} :
                    pick \in {f \in [aligned -> UNION {best[t] : t \in aligned}] :
                                \A t \in aligned : f[t] \in best[t]}}
           Whole0(batch) == LET offsets == Of(batch)
                            IN  IF Broken(batch, offsets) THEN {} ELSE Picks(batch, offsets)
           offsets0 == Of(batch0)
           aligned0 == {t \in DOMAIN batch0 : offsets0[t] # {}}
           best0 == [t \in aligned0 |-> BestAlignments(s, t, batch0[t], offsets0[t])]
<1>1. PartitionsBatch(world.shards[s], tracks) = {batch0}
  BY BatchIs
<1>2. ScoreShard(s) = UNION {Whole0(batch) : batch \in PartitionsBatch(world.shards[s], tracks)}
  BY DEF ScoreShard
<1>3. /\ DOMAIN batch0 = wanted
      /\ \A t \in wanted : batch0[t] = PartitionsOf(songs[t]) /\ offsets0[t] = Tried(s, t)
  BY DEF Tried
<1>4. ~Broken(batch0, offsets0)
  <2> SUFFICES ASSUME NEW t \in wanted, NEW o \in offsets0[t]
               PROVE  AlignedScore(s, t, PartitionsOf(songs[t]), o) # {}
    BY <1>3
  <2>1. AlignedScore(s, t, PartitionsOf(songs[t]), o) = {TrueScore(s, t, o)}
    BY AlignedRight
  <2> QED
    BY ONLY <2>1
<1>5. ASSUME NEW t \in aligned0 PROVE best0[t] # {}
  <2>1. t \in wanted /\ t \in DOMAIN songs /\ Tried(s, t) # {}
    BY <1>3
  <2>2. \E x \in shortlist : x.shard = s /\ x.track = t
    BY <2>1
  <2>3. IsFiniteSet(Tried(s, t))
    BY <2>1, <2>2, TriedFinite
  <2>4. BestAlignments(s, t, PartitionsOf(songs[t]), Tried(s, t)) # {}
    BY <2>1, <2>3, BestExist
  <2>5. best0[t] = BestAlignments(s, t, PartitionsOf(songs[t]), Tried(s, t))
    <3> HIDE DEF batch0, offsets0, wanted
    <3> QED
      BY <1>3, <2>1
  <2> QED
    BY ONLY <2>4, <2>5
<1>6. Picks(batch0, offsets0)
        = {{pick[t] : t \in aligned0} :
             pick \in {f \in [aligned0 -> UNION {best0[t] : t \in aligned0}] :
                         \A t \in aligned0 : f[t] \in best0[t]}}
  <2> HIDE DEF batch0, offsets0
  <2> QED
    OBVIOUS
<1>7. Picks(batch0, offsets0) # {}
  <2> DEFINE p == [t \in aligned0 |-> CHOOSE a : a \in best0[t]]
  <2> HIDE DEF aligned0, best0
  <2>1. \A t \in aligned0 : p[t] \in best0[t]
    BY <1>5
  <2>2. p \in [aligned0 -> UNION {best0[t] : t \in aligned0}]
    BY <2>1
  <2>3. p \in {f \in [aligned0 -> UNION {best0[t] : t \in aligned0}] :
                   \A t \in aligned0 : f[t] \in best0[t]}
    BY <2>1, <2>2
  <2> HIDE DEF p, Picks
  <2> QED
    <3>1. {p[t] : t \in aligned0}
            \in {{pick[t] : t \in aligned0} :
                   pick \in {f \in [aligned0 -> UNION {best0[t] : t \in aligned0}] :
                               \A t \in aligned0 : f[t] \in best0[t]}}
      BY ONLY <2>3
    <3> QED
      BY ONLY <1>6, <3>1
<1>8. ScoreShard(s) = Whole0(batch0)
  <2> HIDE DEF Whole0, batch0, tracks
  <2> QED
    BY <1>1, <1>2
<1>9. Whole0(batch0) = Picks(batch0, offsets0)
  <2> HIDE DEF Broken, Picks, batch0, Of
  <2> QED
    BY <1>4
<1> HIDE DEF Picks, batch0, offsets0, Whole0
<1> QED
  BY <1>7, <1>8, <1>9

\* Over an undamaged catalog no item is an error.
LEMMA SomeResult ==
  ASSUME world \in Worlds, world.damaged = FALSE, stage \in Stages,
         NEW item \in 1 .. Items(stage),
         stage = "score" => \A x \in shortlist : IsFiniteSet(x.hits)
  PROVE  ResultsOf(item) # {}
<1>1. CASE stage = "gate"
  <2>1. ResultsOf(item) = {world.music[item]}
    BY <1>1, Zenon DEF ResultsOf
  <2> QED
    BY <2>1
<1>2. CASE stage = "embed"
  <2>1. ResultsOf(item) = {world.queries[item]}
    BY <1>2, Zenon DEF ResultsOf
  <2> QED
    BY <2>1
<1>3. CASE stage = "query"
  <2>1. ResultsOf(item) = SearchQuery(item)
    BY <1>3, Zenon DEF ResultsOf
  <2>2. item \in DOMAIN world.queries
    BY <1>3, WorldFacts, StageItems
  <2>3. IsFiniteSet(AllHits(item))
    BY <2>2, HitsFinite
  <2>4. \A h \in AllHits(item) : h.distance \in Int
    <3> SUFFICES ASSUME NEW h \in AllHits(item) PROVE h.distance \in Int
      OBVIOUS
    <3>1. IsHit(h, item)
      BY <2>2, HitsAreSeconds
    <3>2. PICK s2 \in DOMAIN world.songs : \E t \in DOMAIN world.songs[s2] :
             \E k \in DOMAIN world.songs[s2][t] : h = HitOf(item, s2, t, k)
      BY <3>1 DEF IsHit
    <3>3. PICK t \in DOMAIN world.songs[s2] :
             \E k \in DOMAIN world.songs[s2][t] : h = HitOf(item, s2, t, k)
      BY <3>2
    <3>4. PICK k \in DOMAIN world.songs[s2][t] : h = HitOf(item, s2, t, k)
      BY <3>3
    <3>5. Measures(world.queries[item], world.songs)
      BY <2>2, WorldFacts
    <3>6. Distance(world.queries[item], world.songs[s2][t][k].code) \in Int
      BY <3>5 DEF Measures
    <3> QED
      BY <3>4, <3>6 DEF HitOf
  <2>5. NearestSets(AllHits(item)) # {}
    BY <2>3, <2>4, NearestExist
  <2> QED
    BY <2>1, <2>5, SearchQueryIs
<1>4. CASE stage = "score"
  <2>1. ResultsOf(item) = ScoreShard(item)
    BY <1>4, Zenon DEF ResultsOf
  <2>2. item \in DOMAIN world.shards
    BY <1>4, WorldFacts, StageItems
  <2> QED
    BY <1>4, <2>1, <2>2, ShardPutsOut
<1> QED
  BY <1>1, <1>2, <1>3, <1>4 DEF Stages

----------------------- (* The workers' progress *) ------------------------

\* An item that a worker has put out.
Done(item) == \E w \in Workers : \E k \in DOMAIN output[w] : output[w][k][1] = item

\* Every output is a result of its item.
Claims ==
    stage \in Stages => \A w \in Workers : \A k \in DOMAIN output[w] :
       /\ output[w][k][1] \in 1 .. Items(stage)
       /\ output[w][k][2] \in ResultsOf(output[w][k][1])

\* The workers that take every n-th item.
Strided ==
    stage \in Stages \ {"score"} => \A w \in Workers :
       /\ \A k \in DOMAIN output[w] : output[w][k][1] = w + (k - 1) * WorkerCount(stage)
       /\ worker[w] = "ok" => w + Len(output[w]) * WorkerCount(stage) > Items(stage)

\* The workers that claim items from the counter.
Counter ==
    stage = "score" =>
       /\ \A w \in Workers : \A k \in DOMAIN output[w] : output[w][k][1] < next
       /\ \A v, w \in Workers : \A j \in DOMAIN output[v] : \A k \in DOMAIN output[w] :
             output[v][j][1] = output[w][k][1] => v = w /\ j = k
       /\ \A item \in 1 .. next - 1 : Done(item) \/ \E w \in Workers : IsFailed(w)
       /\ \A w \in Workers : worker[w] = "ok" => next > Items("score")

\* What the workers of a stage have done, however they interleave.
Work == Claims /\ Strided /\ Counter

\* What the gate looks for.
Music == world.enabled /\ \E i \in DOMAIN world.music : world.music[i] > MusicThreshold

\* What a call over a world that is not damaged has come to.
Facts ==
    /\ stage \in {"gate", "embed", "query"} => outcome = NoOutcome
    /\ stage \in {"embed", "query", "score"} => Music
    /\ stage \in {"query", "score"} => world.queries # <<>>
    /\ stage = "score" =>
          /\ WithinLimits => TriesAll
          /\ \A x \in shortlist : IsFiniteSet(x.hits)
          /\ outcome = [results |-> <<>>, continuity |-> outcome.continuity]
    /\ stage = "error" => faults > 0
    /\ stage = "done" => AnswerIsRight
    /\ TrueContinuity(outcome.continuity)

\* No worker has failed by itself.
Errorless == \A w \in Workers : worker[w] # "err"

Progress == Work /\ (world.damaged = FALSE => Facts /\ Errorless)

\* The results of an item, while the stage lasts.
LEMMA ResultsSame ==
  ASSUME stage \in Stages, UNCHANGED <<world, stage, shortlist>>, NEW item
  PROVE  ResultsOf(item)' = ResultsOf(item)
<1>1. SearchQuery(item)' = SearchQuery(item)
  BY DEF SearchQuery, LeafHits
<1>2. ScoreShard(item)' = ScoreShard(item)
  BY DEF ScoreShard, BestAlignments, AlignedScore
<1>3. stage = "gate" \/ stage = "embed" \/ stage = "query" \/ stage = "score"
  BY DEF Stages
<1>4. CASE stage = "gate"
  BY <1>4, Zenon DEF ResultsOf
<1>5. CASE stage = "embed"
  BY <1>5, Zenon DEF ResultsOf
<1>6. CASE stage = "query"
  BY <1>1, <1>6, Zenon DEF ResultsOf
<1>7. CASE stage = "score"
  BY <1>2, <1>7, Zenon DEF ResultsOf
<1> QED
  BY <1>3, <1>4, <1>5, <1>6, <1>7

\* A stage has as many items and workers in every state of it.
LEMMA CountsSame ==
  ASSUME UNCHANGED world, NEW s
  PROVE  Items(s)' = Items(s) /\ WorkerCount(s)' = WorkerCount(s)
BY DEF Items, WorkerCount

\* The item a worker takes next.
LEMMA NextItemIs ==
  ASSUME Protocol, NEW w \in Workers, worker[w] = "running"
  PROVE  LET item == IF stage = "score" THEN next ELSE w + Len(output[w]) * WorkerCount(stage)
         IN  /\ NextItem(w) = IF item <= Items(stage) THEN {item} ELSE {}
             /\ item \in Nat \ {0} /\ Items(stage) \in Nat
<1>1. stage \in Stages /\ Kinds
  BY RunningInStage DEF Protocol
<1>2. Items(stage) \in Nat /\ WorkerCount(stage) \in 1 .. MaxWorkers /\ MaxWorkers \in Nat
  BY <1>1, WorkersBounded, LimitsPositive
<1>3. Len(output[w]) \in Nat /\ w \in Nat \ {0} /\ next \in Nat \ {0}
  BY <1>1, <1>2, SeqDomain DEF Kinds, Workers
<1>4. Len(output[w]) * WorkerCount(stage) \in Nat
  BY <1>2, <1>3
<1> QED
  BY <1>2, <1>3, <1>4 DEF NextItem

\* A step of a worker that puts nothing out.
LEMMA SilentWork ==
  ASSUME Protocol, Work, NEW w \in Workers, worker[w] = "running",
         NEW state \in {"ok", "err", "panicked"}, worker' = [worker EXCEPT ![w] = state],
         state = "ok" => NextItem(w) = {} /\ next' = next,
         state # "ok" => next' = IF stage = "score" THEN next + 1 ELSE next,
         UNCHANGED <<world, stage, output, shortlist>>
  PROVE  Work'
<1>1. stage \in Stages /\ worker \in [Workers -> States] /\ next \in Nat \ {0}
  BY RunningInStage DEF Protocol, Kinds
<1>2. worker'[w] = state /\ \A v \in Workers \ {w} : worker'[v] = worker[v]
  BY <1>1
<1>3. Claims'
  BY ResultsSame, CountsSame, <1>1 DEF Work, Claims
<1>4. state = "ok" => /\ stage = "score" => next > Items("score")
                      /\ stage # "score" => w + Len(output[w]) * WorkerCount(stage) > Items(stage)
  <2> DEFINE item == IF stage = "score" THEN next ELSE w + Len(output[w]) * WorkerCount(stage)
  <2>1. /\ NextItem(w) = IF item <= Items(stage) THEN {item} ELSE {}
        /\ item \in Nat \ {0} /\ Items(stage) \in Nat
    BY NextItemIs
  <2>2. state = "ok" => item > Items(stage)
    <3> HIDE DEF item
    <3> QED
      BY <2>1
  <2> QED
    BY <2>2
<1>5. Strided'
  BY <1>2, <1>4, CountsSame DEF Work, Strided
<1>6. Counter'
  <2> SUFFICES ASSUME stage = "score" PROVE Counter'
    BY DEF Counter
  <2>1. /\ \A v \in Workers : \A k \in DOMAIN output[v] : output[v][k][1] < next
        /\ \A u, v \in Workers : \A j \in DOMAIN output[u] : \A k \in DOMAIN output[v] :
              output[u][j][1] = output[v][k][1] => u = v /\ j = k
        /\ \A item \in 1 .. next - 1 : Done(item) \/ \E v \in Workers : IsFailed(v)
        /\ \A v \in Workers : worker[v] = "ok" => next > Items("score")
    BY DEF Work, Counter
  <2>2. next' >= next /\ next' \in Nat \ {0} /\ (state = "ok" => next' = next)
    BY <1>1
  <2>3. \A v \in Workers : \A k \in DOMAIN output[v] : output[v][k][1] \in Int
    <3>1. Items("score") \in Nat
      BY WorkersBounded DEF Protocol, Stages
    <3> QED
      BY <3>1, <1>1 DEF Work, Claims
  <2>4. \A v \in Workers : \A k \in DOMAIN output[v] : output[v][k][1] < next'
    BY <2>1, <2>2, <2>3, <1>1
  <2>5. \A v \in Workers : worker'[v] = "ok" => next' > Items("score")
    <3>1. Items("score") \in Nat
      BY WorkersBounded DEF Protocol, Stages
    <3> QED
      BY <3>1, <1>1, <1>2, <1>4, <2>1, <2>2
  <2>6. \A item \in 1 .. next' - 1 : Done(item)' \/ \E v \in Workers : IsFailed(v)'
    <3>1. \A item : Done(item)' <=> Done(item)
      BY DEF Done
    <3>2. \A v \in Workers : IsFailed(v) => IsFailed(v)'
      BY <1>2 DEF IsFailed
    <3>3. state # "ok" => IsFailed(w)'
      BY <1>2 DEF IsFailed
    <3> QED
      BY <2>1, <2>2, <3>1, <3>2, <3>3
  <2>7. Items("score")' = Items("score")
    BY CountsSame
  <2> QED
    BY <2>1, <2>4, <2>5, <2>6, <2>7 DEF Counter
<1> QED
  BY <1>3, <1>5, <1>6 DEF Work

\* A worker puts out the result of its next item.
LEMMA OutputGrows ==
  ASSUME Protocol, NEW w \in Workers, NEW e, output' = [output EXCEPT ![w] = Append(@, e)]
  PROVE  /\ Len(output[w]) \in Nat /\ DOMAIN output[w] = 1 .. Len(output[w])
         /\ Len(output'[w]) = Len(output[w]) + 1
         /\ \A v \in Workers \ {w} : output'[v] = output[v]
         /\ DOMAIN output'[w] = 1 .. Len(output[w]) + 1
         /\ \A k \in DOMAIN output[w] : output'[w][k] = output[w][k]
         /\ output'[w][Len(output[w]) + 1] = e
<1>1. DOMAIN output = Workers /\ IsSeq(output[w])
  BY DEF Protocol, Kinds
<1>2. output'[w] = Append(output[w], e) /\ \A v \in Workers \ {w} : output'[v] = output[v]
  BY <1>1
<1> QED
  BY <1>1, <1>2, SeqAppend

\* An output of a worker's next item keeps the work in order.
LEMMA OutputWork ==
  ASSUME Protocol, Work, NEW w \in Workers, worker[w] = "running",
         NEW item \in NextItem(w), NEW result \in ResultsOf(item),
         output' = [output EXCEPT ![w] = Append(@, <<item, result>>)],
         next' = IF stage = "score" THEN next + 1 ELSE next,
         UNCHANGED <<world, stage, worker, shortlist>>
  PROVE  Work'
<1> DEFINE n == Len(output[w])
           old(v, k) == v \in Workers /\ k \in DOMAIN output[v]
           new(v, k) == v = w /\ k = n + 1
<1>1. stage \in Stages /\ next \in Nat \ {0} /\ w \in Int /\ Workers \subseteq Int
  BY RunningInStage, LimitsPositive DEF Protocol, Kinds, Workers
<1>2. n \in Nat /\ DOMAIN output[w] = 1 .. n /\ Len(output'[w]) = n + 1
      /\ \A v \in Workers \ {w} : output'[v] = output[v]
  BY OutputGrows
<1>3. \A v \in Workers : \A k \in DOMAIN output'[v] :
         \/ old(v, k) /\ output'[v][k] = output[v][k]
         \/ new(v, k) /\ output'[v][k] = <<item, result>>
  <2>1. /\ DOMAIN output'[w] = 1 .. n + 1
        /\ \A k \in 1 .. n : output'[w][k] = output[w][k]
        /\ output'[w][n + 1] = <<item, result>>
    BY <1>2, OutputGrows
  <2> HIDE DEF n
  <2>2. \A k \in 1 .. n + 1 : k \in 1 .. n \/ k = n + 1
    BY <1>2
  <2> QED
    BY <2>1, <2>2, <1>2
<1>4. \A v \in Workers : \A k \in DOMAIN output[v] :
         k \in DOMAIN output'[v] /\ output'[v][k] = output[v][k]
  <2>1. /\ DOMAIN output'[w] = 1 .. n + 1
        /\ \A k \in 1 .. n : output'[w][k] = output[w][k]
    BY <1>2, OutputGrows
  <2> HIDE DEF n
  <2>2. 1 .. n \subseteq 1 .. n + 1
    BY <1>2
  <2> QED
    BY <2>1, <2>2, <1>2
<1>5. n + 1 \in DOMAIN output'[w] /\ output'[w][n + 1] = <<item, result>>
  BY <1>2, OutputGrows
<1> DEFINE taken == IF stage = "score" THEN next ELSE w + n * WorkerCount(stage)
<1>6. item = taken /\ item \in 1 .. Items(stage) /\ Items(stage) \in Nat
  <2>1. /\ NextItem(w) = IF taken <= Items(stage) THEN {taken} ELSE {}
        /\ taken \in Nat \ {0} /\ Items(stage) \in Nat
    BY NextItemIs
  <2> HIDE DEF taken
  <2> QED
    BY <2>1
<1>7. <<item, result>>[1] = item /\ <<item, result>>[2] = result
  OBVIOUS
<1>8. Items(stage)' = Items(stage) /\ WorkerCount(stage)' = WorkerCount(stage)
      /\ Items("score")' = Items("score")
  BY CountsSame
<1> HIDE DEF n
<1>9. Claims'
  <2>1. \A i : ResultsOf(i)' = ResultsOf(i)
    BY <1>1, ResultsSame
  <2>2. \A v \in Workers : \A k \in DOMAIN output'[v] :
           output'[v][k][1] \in 1 .. Items(stage) /\ output'[v][k][2] \in ResultsOf(output'[v][k][1])
    BY <1>1, <1>3, <1>6, <1>7 DEF Work, Claims
  <2> QED
    BY <2>1, <2>2, <1>8 DEF Claims
<1>10. Strided'
  <2> SUFFICES ASSUME stage # "score" PROVE Strided'
    BY DEF Strided
  <2> DEFINE c == WorkerCount(stage)
  <2>1. /\ \A v \in Workers : \A k \in DOMAIN output[v] : output[v][k][1] = v + (k - 1) * c
        /\ \A v \in Workers : worker[v] = "ok" => v + Len(output[v]) * c > Items(stage)
    BY <1>1 DEF Work, Strided
  <2>2. item = w + n * c /\ (n + 1) - 1 = n
    BY <1>2, <1>6
  <2>3. \A v \in Workers : \A k \in DOMAIN output'[v] : output'[v][k][1] = v + (k - 1) * c
    <3> HIDE DEF c
    <3> QED
      BY <2>1, <2>2, <1>3, <1>7
  <2>4. \A v \in Workers : worker'[v] = "ok" => v + Len(output'[v]) * c > Items(stage)
    <3> HIDE DEF c
    <3> QED
      BY <2>1, <1>2
  <2> QED
    BY <2>3, <2>4, <1>8 DEF Strided
<1>11. Counter'
  <2> SUFFICES ASSUME stage = "score" PROVE Counter'
    BY DEF Counter
  <2>1. /\ \A v \in Workers : \A k \in DOMAIN output[v] :
              output[v][k][1] < next /\ output[v][k][1] \in Int
        /\ \A u, v \in Workers : \A j \in DOMAIN output[u] : \A k \in DOMAIN output[v] :
              output[u][j][1] = output[v][k][1] => u = v /\ j = k
        /\ \A i \in 1 .. next - 1 : Done(i) \/ \E v \in Workers : IsFailed(v)
        /\ \A v \in Workers : worker[v] = "ok" => next > Items("score")
    BY <1>1, <1>6 DEF Work, Counter, Claims
  <2>2. item = next /\ next' = next + 1
    BY <1>6
  <2>3. \A v \in Workers : \A k \in DOMAIN output'[v] : output'[v][k][1] < next'
    BY <2>1, <2>2, <1>1, <1>3, <1>7
  <2>4. \A u, v \in Workers : \A j \in DOMAIN output'[u] : \A k \in DOMAIN output'[v] :
           output'[u][j][1] = output'[v][k][1] => u = v /\ j = k
    <3> SUFFICES ASSUME NEW u \in Workers, NEW v \in Workers, NEW j \in DOMAIN output'[u],
                        NEW k \in DOMAIN output'[v], output'[u][j][1] = output'[v][k][1]
                 PROVE  u = v /\ j = k
      OBVIOUS
    <3>1. CASE old(u, j) /\ output'[u][j] = output[u][j] /\ old(v, k) /\ output'[v][k] = output[v][k]
      BY <3>1, <2>1
    <3>2. CASE old(u, j) /\ output'[u][j] = output[u][j] /\ new(v, k) /\ output'[v][k] = <<item, result>>
      BY <3>2, <2>1, <2>2, <1>1, <1>7
    <3>3. CASE new(u, j) /\ output'[u][j] = <<item, result>> /\ old(v, k) /\ output'[v][k] = output[v][k]
      BY <3>3, <2>1, <2>2, <1>1, <1>7
    <3>4. CASE new(u, j) /\ new(v, k)
      BY <3>4
    <3> HIDE DEF old, new
    <3> QED
      BY <3>1, <3>2, <3>3, <3>4, <1>3
  <2>5. \A i \in 1 .. next' - 1 : Done(i)' \/ \E v \in Workers : IsFailed(v)'
    <3>1. \A i : Done(i) => Done(i)'
      BY <1>4 DEF Done
    <3>2. Done(item)'
      BY <1>5, <1>7 DEF Done
    <3>3. \A v \in Workers : IsFailed(v) => IsFailed(v)'
      BY DEF IsFailed
    <3>4. \A i \in 1 .. next' - 1 : i \in 1 .. next - 1 \/ i = item
      BY <2>2, <1>1
    <3> QED
      BY <2>1, <3>1, <3>2, <3>3, <3>4
  <2>6. \A v \in Workers : worker'[v] = "ok" => next' > Items("score")
    BY <2>1, <2>2, <1>1, <1>6
  <2> QED
    BY <2>3, <2>4, <2>5, <2>6, <1>8 DEF Counter
<1> QED
  BY <1>9, <1>10, <1>11 DEF Work

\* Nothing is put out at the beginning of a stage.
LEMMA FreshWork ==
  ASSUME output' = [w \in Workers |-> <<>>], next' = 1, \A w \in Workers : worker'[w] # "ok"
  PROVE  Work'
<1>1. \A w \in Workers : DOMAIN output'[w] = {}
  OBVIOUS
<1>2. 1 .. next' - 1 = {}
  OBVIOUS
<1>3. Claims'
  BY <1>1 DEF Claims
<1>4. Strided'
  BY <1>1 DEF Strided
<1>5. Counter'
  BY <1>1, <1>2 DEF Counter
<1> QED
  BY <1>3, <1>4, <1>5 DEF Work

\* Every item has its worker and its turn.
LEMMA Strides ==
  ASSUME NEW n \in Nat \ {0}, NEW item \in Nat \ {0}
  PROVE  \E w \in 1 .. n : \E k \in Nat : item = w + k * n
<1> DEFINE Reached(i) == \E w \in 1 .. n : \E k \in Nat : i = w + k * n
           Bad == {i \in Nat \ {0} : ~Reached(i)}
<1>1. Bad = {}
  <2>1. SUFFICES ASSUME Bad # {} PROVE FALSE
    OBVIOUS
  <2>2. PICK m \in Bad : \A y \in Bad : m <= y
    <3>1. Bad \subseteq Nat
      OBVIOUS
    <3> HIDE DEF Bad
    <3> QED
      BY <2>1, <3>1, LeastOf
  <2>3. m \in Nat \ {0} /\ ~Reached(m)
    OBVIOUS
  <2>4. CASE m <= n
    <3>1. m \in 1 .. n /\ m = m + 0 * n
      BY <2>3, <2>4
    <3> QED
      BY <3>1, <2>3
  <2>5. CASE m > n
    <3>1. m - n \in Nat \ {0} /\ ~(m <= m - n)
      BY <2>3, <2>5
    <3>2. Reached(m - n)
      <4> HIDE DEF Reached
      <4> QED
        BY <3>1, <2>2
    <3>3. PICK w \in 1 .. n : \E k \in Nat : m - n = w + k * n
      BY <3>2
    <3>4. PICK k \in Nat : m - n = w + k * n
      BY <3>3
    <3>5. k + 1 \in Nat /\ m = w + (k + 1) * n
      BY <3>4, <2>3
    <3> QED
      BY <3>5, <2>3
  <2> QED
    BY <2>3, <2>4, <2>5
<1> HIDE DEF Reached
<1>2. Reached(item)
  BY <1>1
<1> QED
  BY <1>2 DEF Reached

\* A step of n is a step of at least 1.
LEMMA TimesGrows ==
  ASSUME NEW a \in Nat, NEW b \in Nat, NEW n \in Nat, a <= b
  PROVE  a * n <= b * n
<1>1. b - a \in Nat /\ b = a + (b - a)
  OBVIOUS
<1>2. b * n = a * n + (b - a) * n /\ (b - a) * n \in Nat /\ a * n \in Nat /\ b * n \in Nat
  BY <1>1
<1> QED
  BY <1>2

\* A stage whose workers all ended well has the results of all its items.
LEMMA AllDone ==
  ASSUME Protocol, Work, stage \in Stages, ~failed, joined = WorkerCount(stage),
         \A w \in Workers : Ended(w)
  PROVE  \A item \in 1 .. Items(stage) : Done(item)
<1> DEFINE c == WorkerCount(stage)
<1>1. Kinds /\ Started /\ JoinedInOrder
  BY DEF Protocol
<1>2. c \in 1 .. MaxWorkers /\ MaxWorkers \in Nat /\ Items(stage) \in Nat
  BY <1>1, WorkersBounded, LimitsPositive
<1>3. \A w \in 1 .. c : w \in Workers /\ worker[w] = "ok"
  BY <1>1, <1>2 DEF JoinedInOrder, Workers
<1>4. \A w \in Workers : worker[w] = "ok" \/ worker[w] = "none"
  <2> SUFFICES ASSUME NEW w \in Workers PROVE worker[w] = "ok" \/ worker[w] = "none"
    OBVIOUS
  <2>1. w \in 1 .. c \/ w > c
    BY <1>2 DEF Workers
  <2>2. w > c => worker[w] = "none"
    BY <1>1 DEF Started
  <2> QED
    BY <2>1, <2>2, <1>3
<1>5. CASE stage = "score"
  <2>1. 1 \in 1 .. c
    BY <1>2
  <2>2. next > Items("score") /\ next \in Nat
    BY <2>1, <1>1, <1>3, <1>5 DEF Work, Counter, Kinds
  <2>3. \A item \in 1 .. next - 1 : Done(item)
    BY <1>4, <1>5 DEF Work, Counter, IsFailed
  <2> QED
    BY <2>2, <2>3, <1>2, <1>5
<1>6. CASE stage # "score"
  <2> SUFFICES ASSUME NEW item \in 1 .. Items(stage) PROVE Done(item)
    OBVIOUS
  <2> HIDE DEF c
  <2>9. item \in Nat \ {0} /\ c \in Nat \ {0}
    BY <1>2
  <2>1. PICK w \in 1 .. c : \E k \in Nat : item = w + k * c
    BY <2>9, Strides
  <2>2. PICK k \in Nat : item = w + k * c
    BY <2>1
  <2> DEFINE n == Len(output[w])
  <2>3. w \in Workers /\ worker[w] = "ok"
    BY <1>3
  <2>4. n \in Nat /\ DOMAIN output[w] = 1 .. n
    BY <2>3, <1>1, SeqDomain DEF Kinds
  <2>5. w + n * c > Items(stage) /\ \A j \in DOMAIN output[w] : output[w][j][1] = w + (j - 1) * c
    BY <2>3, <1>6 DEF Work, Strided, c
  <2> HIDE DEF n
  <2>6. k < n
    <3> SUFFICES ASSUME n <= k PROVE FALSE
      BY <2>4
    <3>1. n * c <= k * c
      BY <2>4, <1>2, TimesGrows
    <3>2. n * c \in Nat /\ k * c \in Nat /\ w \in Nat /\ item \in Nat
      BY <2>4, <1>2
    <3> QED
      BY <3>1, <3>2, <2>2, <2>5, <1>2
  <2>7. k + 1 \in DOMAIN output[w] /\ (k + 1) - 1 = k
    BY <2>4, <2>6
  <2>8. output[w][k + 1][1] = item
    BY <2>2, <2>5, <2>7
  <2> QED
    BY <2>3, <2>7, <2>8 DEF Done
<1> QED
  BY <1>5, <1>6

\* What was collected is what some worker put out.
LEMMA CollectedIs ==
  ASSUME Work, stage \in Stages, NEW x \in Collected
  PROVE  /\ x[1] \in 1 .. Items(stage) /\ x[2] \in ResultsOf(x[1])
         /\ \E w \in Workers : \E k \in DOMAIN output[w] : x = output[w][k]
<1>1. PICK w \in Workers : x \in Range(output[w])
  BY DEF Collected
<1>2. PICK k \in DOMAIN output[w] : x = output[w][k]
  BY <1>1 DEF Range
<1> QED
  BY <1>2 DEF Work, Claims

\* The outputs of a stage whose items are all done.
LEMMA DoneCollected ==
  ASSUME NEW item, Done(item)
  PROVE  \E x \in Collected : x[1] = item
BY DEF Done, Collected, Range

\* The queries' outputs together are raw candidates.
LEMMA RawCollected ==
  ASSUME world \in Worlds, world.damaged = FALSE, Work, stage = "query",
         \A item \in 1 .. Items(stage) : Done(item)
  PROVE  RawRight(UNION {x[2] : x \in Collected})
<1> DEFINE raw == UNION {x[2] : x \in Collected}
<1>1. DOMAIN world.queries = 1 .. Items(stage)
  BY WorldFacts, StageItems
<1>2. ASSUME NEW x \in Collected
      PROVE  x[1] \in DOMAIN world.queries /\ x[2] \in NearestSets(AllHits(x[1]))
  <2>1. x[1] \in DOMAIN world.queries /\ x[2] \in ResultsOf(x[1])
    BY <1>1, CollectedIs DEF Stages
  <2>2. ResultsOf(x[1]) = SearchQuery(x[1])
    BY Zenon DEF ResultsOf
  <2> QED
    BY <2>1, <2>2, SearchQueryIs
<1>3. ASSUME NEW h \in raw PROVE \E i \in DOMAIN world.queries : h \in AllHits(i)
  <2>1. PICK x \in Collected : h \in x[2]
    OBVIOUS
  <2>2. x[2] \subseteq AllHits(x[1])
    BY <1>2 DEF NearestSets
  <2> QED
    BY <2>1, <2>2, <1>2
<1>4. ASSUME NEW i \in DOMAIN world.queries, Cardinality(AllHits(i)) <= RawLimit
      PROVE  AllHits(i) \subseteq raw
  <2>1. PICK x \in Collected : x[1] = i
    BY <1>1, DoneCollected
  <2>2. x[2] = AllHits(i)
    BY <2>1, <1>2, <1>4 DEF NearestSets
  <2> QED
    BY <2>1, <2>2
<1> QED
  BY <1>3, <1>4 DEF RawRight

\* The shards' outputs together are the scored.
LEMMA ScoredCollected ==
  ASSUME world \in Worlds, world.damaged = FALSE, Work, stage = "score",
         \A item \in 1 .. Items(stage) : Done(item)
  PROVE  ScoredRight(UNION {x[2] : x \in Collected})
<1> DEFINE scored == UNION {x[2] : x \in Collected}
<1>1. DOMAIN world.shards = 1 .. Items(stage)
  BY WorldFacts, StageItems
<1>2. ASSUME NEW x \in Collected
      PROVE  x[1] \in DOMAIN world.shards /\ ShardScored(x[1], x[2])
  <2>1. x[1] \in DOMAIN world.shards /\ x[2] \in ResultsOf(x[1])
    BY <1>1, CollectedIs DEF Stages
  <2>2. ResultsOf(x[1]) = ScoreShard(x[1])
    BY Zenon DEF ResultsOf
  <2> QED
    BY <2>1, <2>2, ShardRight
<1>3. \A x \in Collected : \A y \in x[2] : y.shard = x[1]
  BY <1>2 DEF ShardScored, Aligned
<1>4. \A x, y \in Collected : x[1] = y[1] => x = y
  <2> SUFFICES ASSUME NEW x \in Collected, NEW y \in Collected, x[1] = y[1] PROVE x = y
    OBVIOUS
  <2>1. PICK v \in Workers : \E j \in DOMAIN output[v] : x = output[v][j]
    BY CollectedIs DEF Stages
  <2>2. PICK j \in DOMAIN output[v] : x = output[v][j]
    BY <2>1
  <2>3. PICK w \in Workers : \E k \in DOMAIN output[w] : y = output[w][k]
    BY CollectedIs DEF Stages
  <2>4. PICK k \in DOMAIN output[w] : y = output[w][k]
    BY <2>3
  <2>5. v = w /\ j = k
    BY <2>2, <2>4 DEF Work, Counter
  <2> QED
    BY <2>2, <2>4, <2>5
<1>5. ASSUME NEW y \in scored PROVE y.shard \in DOMAIN world.shards
  BY <1>2, <1>3
<1>6. ASSUME NEW s \in DOMAIN world.shards
      PROVE  ShardScored(s, {y \in scored : y.shard = s})
  <2>1. PICK x \in Collected : x[1] = s
    BY <1>1, DoneCollected
  <2>2. {y \in scored : y.shard = s} = x[2]
    <3>1. \A y \in x[2] : y \in scored /\ y.shard = s
      BY <2>1, <1>3
    <3>2. ASSUME NEW y \in scored, y.shard = s PROVE y \in x[2]
      <4>1. PICK z \in Collected : y \in z[2]
        OBVIOUS
      <4>2. z[1] = s
        BY <4>1, <1>3, <3>2
      <4>3. z = x
        BY <4>2, <2>1, <1>4
      <4> QED
        BY <4>1, <4>3
    <3> HIDE DEF scored
    <3> QED
      BY <3>1, <3>2
  <2>3. ShardScored(s, x[2])
    BY <2>1, <1>2
  <2> QED
    BY <2>2, <2>3
<1> QED
  BY <1>5, <1>6 DEF ScoredRight

------------------------ (* The facts of a call *) -------------------------

\* Within a stage, every step keeps the work in order.
LEMMA WorkStep ==
  ASSUME Protocol, Work, stage \in Stages,
         Join \/ \E w \in Workers : Process(w) \/ Finish(w) \/ Panic(w)
  PROVE  Work'
<1>1. CASE Join
  <2>1. UNCHANGED <<world, stage, worker, output, next, shortlist>>
    BY <1>1 DEF Join
  <2>2. Claims'
    BY <2>1, ResultsSame, CountsSame DEF Work, Claims
  <2>3. Strided' /\ Counter'
    BY <2>1, CountsSame DEF Work, Strided, Counter, Done, IsFailed
  <2> QED
    BY <2>2, <2>3 DEF Work
<1>2. ASSUME NEW w \in Workers, Process(w) PROVE Work'
  <2>1. /\ worker[w] = "running"
        /\ UNCHANGED <<world, stage, shortlist>>
        /\ \E item \in NextItem(w) :
              /\ next' = IF stage = "score" THEN next + 1 ELSE next
              /\ \/ worker' = [worker EXCEPT ![w] = "err"] /\ output' = output
                 \/ \E result \in ResultsOf(item) :
                       /\ output' = [output EXCEPT ![w] = Append(@, <<item, result>>)]
                       /\ worker' = worker
    BY <1>2 DEF Process, Become
  <2>2. PICK item \in NextItem(w) :
              /\ next' = IF stage = "score" THEN next + 1 ELSE next
              /\ \/ worker' = [worker EXCEPT ![w] = "err"] /\ output' = output
                 \/ \E result \in ResultsOf(item) :
                       /\ output' = [output EXCEPT ![w] = Append(@, <<item, result>>)]
                       /\ worker' = worker
    BY <2>1
  <2>3. CASE worker' = [worker EXCEPT ![w] = "err"] /\ output' = output
    BY <2>1, <2>2, <2>3, SilentWork
  <2>4. ASSUME NEW result \in ResultsOf(item), worker' = worker,
               output' = [output EXCEPT ![w] = Append(@, <<item, result>>)]
        PROVE  Work'
    BY <2>1, <2>2, <2>4, OutputWork
  <2> QED
    BY <2>2, <2>3, <2>4
<1>3. ASSUME NEW w \in Workers, Finish(w) PROVE Work'
  <2>1. /\ worker[w] = "running" /\ worker' = [worker EXCEPT ![w] = "ok"] /\ NextItem(w) = {}
        /\ next' = next /\ UNCHANGED <<world, stage, output, shortlist>>
    BY <1>3 DEF Finish, Become
  <2> QED
    BY <2>1, SilentWork
<1>4. ASSUME NEW w \in Workers, Panic(w) PROVE Work'
  <2>1. /\ worker[w] = "running" /\ worker' = [worker EXCEPT ![w] = "panicked"]
        /\ next' = IF stage = "score" THEN next + 1 ELSE next
        /\ UNCHANGED <<world, stage, output, shortlist>>
    BY <1>4 DEF Panic, Become
  <2> QED
    BY <2>1, SilentWork
<1> QED
  BY <1>1, <1>2, <1>3, <1>4

\* A stage starts without outputs.
LEMMA LeaveWork ==
  ASSUME Leave
  PROVE  Work'
<1>1. ASSUME NEW s, Begin(s) PROVE Work'
  <2>1. /\ output' = [w \in Workers |-> <<>>] /\ next' = 1
        /\ worker' = [w \in Workers |-> IF w <= WorkerCount(s) THEN "running" ELSE "none"]
    BY <1>1 DEF Begin
  <2>2. \A w \in Workers : worker'[w] # "ok"
    BY <2>1
  <2> QED
    BY <2>1, <2>2, FreshWork
<1>2. ASSUME NEW s, End(s) PROVE Work'
  <2>1. /\ output' = [w \in Workers |-> <<>>] /\ next' = 1
        /\ worker' = [w \in Workers |-> "none"]
    BY <1>2 DEF End
  <2>2. \A w \in Workers : worker'[w] # "ok"
    BY <2>1
  <2> QED
    BY <2>1, <2>2, FreshWork
<1> QED
  BY <1>1, <1>2, LeaveWays DEF AfterGate, AfterEmbed, AfterQuery, AfterScore

\* So does the first.
LEMMA InitWork == Init => Work
<1> SUFFICES ASSUME Init PROVE Work
  OBVIOUS
<1>1. /\ output = [w \in Workers |-> <<>>] /\ next = 1 /\ stage = "gate"
      /\ worker = [w \in Workers |-> IF w <= WorkerCount("gate") THEN "running" ELSE "none"]
  BY DEF Init
<1>2. \A w \in Workers : worker[w] # "ok" /\ DOMAIN output[w] = {}
  BY <1>1
<1>3. Claims
  BY <1>2 DEF Claims
<1>4. Strided /\ Counter
  BY <1>1, <1>2 DEF Strided, Counter
<1> QED
  BY <1>3, <1>4 DEF Work

\* What was found stays so while nothing else happens.
LEMMA SameLimits ==
  ASSUME UNCHANGED world
  PROVE  WithinLimits' = WithinLimits
BY DEF WithinLimits, RightOrder, TrueScore, Seconds, MeetingAny, Meeting, Songs

\* A call does not change its world, so that what the world says stays.
LEMMA SameTries ==
  ASSUME UNCHANGED world
  PROVE  TriesAll' = TriesAllOf(shortlist')
BY DEF TriesAll, TriesAllOf, TriedOf, MeetingAny, Meeting, Seconds

\* The same of the true continuity,
LEMMA SameContinuity ==
  ASSUME UNCHANGED world
  PROVE  TrueContinuity(outcome.continuity)' = TrueContinuity(outcome'.continuity)
BY DEF TrueContinuity, Seconds

\* of the right answer,
LEMMA SameAnswer ==
  ASSUME UNCHANGED <<world, stage, outcome>>
  PROVE  AnswerIsRight' = AnswerIsRight
BY DEF AnswerIsRight, Passes, WithinLimits, RightOrder, TrueScore, Seconds, MeetingAny, Meeting, Songs

\* and of all the facts.
LEMMA SameFacts ==
  ASSUME Protocol, Facts, UNCHANGED <<world, stage, shortlist, outcome>>,
         faults' = faults \/ faults' = faults + 1
  PROVE  Facts'
<1>1. faults > 0 => faults' > 0
  BY DEF Protocol, Kinds
<1>2. TriesAll' = TriesAll /\ WithinLimits' = WithinLimits /\ AnswerIsRight' = AnswerIsRight
      /\ TrueContinuity(outcome.continuity)' = TrueContinuity(outcome.continuity)
  BY SameTries, SameLimits, SameAnswer, SameContinuity DEF TriesAll
<1>3. Music' = Music
  BY DEF Music
<1> QED
  BY <1>1, <1>2, <1>3 DEF Facts

\* An undamaged catalog has a song.
LEMMA MassThere ==
  ASSUME world \in Worlds, world.damaged = FALSE
  PROVE  HasMass
<1>1. PICK s \in DOMAIN world.songs : DOMAIN world.songs[s] # {}
  BY WholeWorld DEF Whole
<1>2. s \in DOMAIN world.shards /\ Builds(world.shards[s], world.songs[s])
  BY WorldFacts
<1>3. DOMAIN world.shards[s].R = DOMAIN world.songs[s]
  BY <1>2 DEF Builds
<1> QED
  BY <1>1, <1>2, <1>3 DEF HasMass

\* A call that found no music, or has no query, has no result.
LEMMA EndsWithNothing ==
  ASSUME world' = world, stage' = "done", outcome' = outcome, outcome = NoOutcome,
         ~(Music /\ world.queries # <<>>)
  PROVE  AnswerIsRight'
<1>1. ~Passes
  BY Zenon DEF Passes, Music
<1>2. Passes' = Passes
  BY DEF Passes
<1>3. ~Passes'
  BY <1>1, <1>2
<1>4. outcome' = NoOutcome'
  BY DEF NoOutcome
<1> QED
  BY <1>3, <1>4, Zenon DEF AnswerIsRight

\* Results that are right in a state are right in the next.
LEMMA SameResults ==
  ASSUME UNCHANGED world, RightResults(outcome'.results)
  PROVE  RightResults(outcome.results)'
<1>1. RightOrder' = RightOrder
  BY DEF RightOrder, TrueScore, Seconds, MeetingAny, Meeting, Songs
<1>2. WithinLimits' = WithinLimits /\ world.damaged' = world.damaged
  BY SameLimits
<1>3. ASSUME NEW s, NEW t, NEW o
      PROVE  TrueScore(s, t, o)' = TrueScore(s, t, o)
  BY DEF TrueScore, Seconds
<1>4. ASSUME NEW i \in DOMAIN outcome'.results
      PROVE  outcome'.results[i].score
               = TrueScore(outcome.results[i].shard, outcome.results[i].track,
                           outcome.results[i].offset)'
  <2>1. outcome'.results[i].score
          = TrueScore(outcome'.results[i].shard, outcome'.results[i].track,
                      outcome'.results[i].offset)
    BY Zenon DEF RightResults
  <2> QED
    BY ONLY <2>1, <1>3
<1>5. \A i \in 2 .. Len(outcome'.results) : Better(outcome'.results[i - 1], outcome'.results[i])
  BY Zenon DEF RightResults
<1>6. WithinLimits /\ ~world.damaged =>
        /\ Len(outcome'.results) = Min({ResultLimit, Len(RightOrder)})
        /\ \A i \in DOMAIN outcome'.results :
              [shard |-> outcome'.results[i].shard, track |-> outcome'.results[i].track,
               score |-> outcome'.results[i].score] = RightOrder[i]
  BY Zenon DEF RightResults
<1>7. (\A i \in DOMAIN outcome.results :
         outcome.results[i].score
           = TrueScore(outcome.results[i].shard, outcome.results[i].track,
                       outcome.results[i].offset))'
  BY <1>4
<1>8. (\A i \in 2 .. Len(outcome.results) : Better(outcome.results[i - 1], outcome.results[i]))'
  BY <1>5 DEF Better
<1>9. (WithinLimits /\ ~world.damaged =>
        /\ Len(outcome.results) = Min({ResultLimit, Len(RightOrder)})
        /\ \A i \in DOMAIN outcome.results :
              [shard |-> outcome.results[i].shard, track |-> outcome.results[i].track,
               score |-> outcome.results[i].score] = RightOrder[i])'
  BY <1>1, <1>2, <1>6
<1> QED
  BY <1>7, <1>8, <1>9, Zenon DEF RightResults

\* A call that passed ends with the right results.
LEMMA EndsWithResults ==
  ASSUME world' = world, Music, world.queries # <<>>, RightResults(outcome'.results)
  PROVE  AnswerIsRight'
<1>1. Passes
  BY Zenon DEF Passes, Music
<1>2. Passes' = Passes
  BY DEF Passes
<1>3. Passes'
  BY <1>1, <1>2
<1>4. RightResults(outcome.results)'
  BY SameResults
<1> QED
  BY <1>3, <1>4, Zenon DEF AnswerIsRight, RightResults

\* The facts at the end of each stage.
LEMMA FailedFacts ==
  ASSUME Protocol, Facts, stage \in Stages, failed, End("error"),
         UNCHANGED <<world, faults, shortlist, outcome>>
  PROVE  Facts'
<1>1. WorkerCount(stage) \in 1 .. MaxWorkers /\ MaxWorkers \in Nat /\ joined \in Nat
  BY WorkersBounded, LimitsPositive DEF Protocol, Kinds
<1>2. joined > 0 /\ IsFailed(joined) /\ joined <= WorkerCount(stage)
  BY DEF Protocol, JoinedInOrder
<1>3. faults > 0
  BY <1>1, <1>2 DEF Protocol, FaultsCounted, Workers
<1>4. TrueContinuity(outcome.continuity)'
  BY SameContinuity DEF Facts
<1>5. stage' = "error"
  BY DEF End
<1> QED
  BY <1>3, <1>4, <1>5 DEF Facts

\* A panic tells nothing of the music.
LEMMA PanickedFacts ==
  ASSUME Facts, End("panicked"), UNCHANGED <<world, faults, shortlist, outcome>>
  PROVE  Facts'
<1>1. TrueContinuity(outcome.continuity)'
  BY SameContinuity DEF Facts
<1>2. stage' = "panicked"
  BY DEF End
<1> QED
  BY <1>1, <1>2 DEF Facts

\* The gate passes only music.
LEMMA GateFacts ==
  ASSUME world \in Worlds, Work, Facts, stage = "gate",
         \A item \in 1 .. Items(stage) : Done(item),
         AfterGate, UNCHANGED <<world, faults>>
  PROVE  Facts'
<1>1. outcome' = outcome /\ outcome = NoOutcome
  BY DEF AfterGate, Facts
<1>2. TrueContinuity(outcome.continuity)'
  BY <1>1, SameContinuity DEF Facts
<1>3. \A x \in Collected : x[1] \in DOMAIN world.music /\ x[2] = world.music[x[1]]
  <2> SUFFICES ASSUME NEW x \in Collected
               PROVE  x[1] \in DOMAIN world.music /\ x[2] = world.music[x[1]]
    OBVIOUS
  <2>1. x[1] \in 1 .. Items(stage) /\ x[2] \in ResultsOf(x[1])
    BY CollectedIs DEF Stages
  <2>2. ResultsOf(x[1]) = {world.music[x[1]]}
    BY Zenon DEF ResultsOf
  <2>3. IsSeq(world.music)
    BY WorldsAssumption
  <2> QED
    BY <2>1, <2>2, <2>3, SeqDomain, StageItems
<1>4. \A i \in DOMAIN world.music : \E x \in Collected : x[1] = i
  <2>1. DOMAIN world.music = 1 .. Items(stage)
    BY SeqDomain, StageItems, WorldsAssumption
  <2> QED
    BY <2>1, DoneCollected
<1> DEFINE heard == \E x \in Collected : x[2] > MusicThreshold
<1>5. heard <=> \E i \in DOMAIN world.music : world.music[i] > MusicThreshold
  <2>1. ASSUME heard PROVE \E i \in DOMAIN world.music : world.music[i] > MusicThreshold
    BY <1>3, <2>1
  <2>2. ASSUME NEW i \in DOMAIN world.music, world.music[i] > MusicThreshold PROVE heard
    BY <1>3, <1>4, <2>2
  <2> QED
    BY <2>1, <2>2
<1>6. CASE world.enabled /\ heard /\ Begin("embed")
  <2>1. Music'
    BY <1>5, <1>6, Zenon DEF Music
  <2>2. stage' = "embed"
    BY <1>6 DEF Begin
  <2> QED
    BY <1>1, <1>2, <2>1, <2>2 DEF Facts, NoOutcome
<1>7. CASE ~(world.enabled /\ heard) /\ End("done")
  <2>1. ~Music
    BY <1>5, <1>7, Zenon DEF Music
  <2>2. stage' = "done"
    BY <1>7 DEF End
  <2>3. AnswerIsRight'
    BY <1>1, <2>1, <2>2, EndsWithNothing
  <2> QED
    BY <1>2, <2>2, <2>3 DEF Facts
<1>8. (world.enabled /\ heard /\ Begin("embed")) \/ (~(world.enabled /\ heard) /\ End("done"))
  BY Zenon DEF AfterGate
<1> QED
  BY <1>6, <1>7, <1>8

\* A call without queries ends there, and others go on.
LEMMA EmbedFacts ==
  ASSUME Facts, stage = "embed", AfterEmbed, UNCHANGED <<world, faults>>
  PROVE  Facts'
<1>1. outcome' = outcome /\ outcome = NoOutcome /\ Music
  BY DEF AfterEmbed, Facts
<1>2. TrueContinuity(outcome.continuity)' /\ Music' = Music
  BY <1>1, SameContinuity DEF Facts, Music
<1>3. CASE world.queries = <<>> /\ End("done")
  <2>1. stage' = "done"
    BY <1>3 DEF End
  <2>2. AnswerIsRight'
    BY <1>1, <1>3, <2>1, EndsWithNothing
  <2> QED
    BY <1>2, <2>1, <2>2 DEF Facts
<1>4. CASE world.queries # <<>> /\ Begin("query")
  <2>1. stage' = "query"
    BY <1>4 DEF Begin
  <2> QED
    BY <1>1, <1>2, <1>4, <2>1 DEF Facts, NoOutcome
<1> QED
  BY <1>3, <1>4 DEF AfterEmbed

\* The shortlist tries every alignment unless something was cut.
LEMMA QueryFacts ==
  ASSUME world \in Worlds, world.damaged = FALSE, Work, Facts, stage = "query",
         \A item \in 1 .. Items(stage) : Done(item),
         AfterQuery, UNCHANGED <<world, faults>>
  PROVE  Facts'
<1> DEFINE raw == UNION {x[2] : x \in Collected}
<1>1. outcome = NoOutcome /\ Music /\ world.queries # <<>>
  BY DEF Facts
<1>2. HasMass /\ Continuity # {} /\ \A continuity \in Continuity : TrueContinuity(continuity)
  BY <1>1, MassThere, ContinuityFound
<1>3. PICK continuity \in Continuity :
         /\ outcome' = [outcome EXCEPT !.continuity = continuity]
         /\ shortlist' = Shortlisted(raw) /\ Begin("score")
  BY <1>2 DEF AfterQuery
<1>4. outcome' = [results |-> <<>>, continuity |-> continuity]
  BY <1>1, <1>3 DEF NoOutcome
<1>5. TrueContinuity(outcome.continuity)'
  <2>1. outcome'.continuity = continuity
    BY <1>4
  <2> QED
    BY <2>1, <1>2, SameContinuity
<1>6. RawRight(raw)
  BY RawCollected
<1>7. WithinLimits' => TriesAll'
  <2> HIDE DEF raw
  <2>1. WithinLimits => TriesAllOf(shortlist')
    BY <1>3, <1>6, ShortlistComplete
  <2> QED
    BY <2>1, SameLimits, SameTries
<1>8. stage' = "score" /\ Music'
  BY <1>1, <1>3 DEF Begin, Music
<1>9. outcome' = [results |-> <<>>, continuity |-> outcome'.continuity]
  BY <1>4
<1>10. \A x \in shortlist' : IsFiniteSet(x.hits)
  <2> HIDE DEF raw
  <2> QED
    BY <1>3, <1>6, ShortlistHits
<1> QED
  BY <1>1, <1>5, <1>7, <1>8, <1>9, <1>10 DEF Facts

\* The call ends with the right results.
LEMMA ScoreFacts ==
  ASSUME world \in Worlds, world.damaged = FALSE, Work, Facts, stage = "score",
         \A item \in 1 .. Items(stage) : Done(item),
         AfterScore, UNCHANGED <<world, faults>>
  PROVE  Facts'
<1> DEFINE scored == UNION {x[2] : x \in Collected}
<1>1. /\ outcome = [results |-> <<>>, continuity |-> outcome.continuity]
      /\ Music /\ world.queries # <<>> /\ (WithinLimits => TriesAll)
  BY DEF Facts
<1>2. ScoredRight(scored)
  BY ScoredCollected
<1>3. Results(scored) # {} /\ \A r \in Results(scored) : RightResults(r)
  <2> HIDE DEF scored
  <2> QED
    BY <1>1, <1>2, ResultsRight, ResultsAreRight
<1>4. PICK r \in Results(scored) : outcome' = [outcome EXCEPT !.results = r] /\ End("done")
  BY <1>3 DEF AfterScore
<1>5. outcome'.results = r /\ outcome'.continuity = outcome.continuity
  BY <1>1, <1>4
<1>6. stage' = "done"
  BY <1>4 DEF End
<1>7. AnswerIsRight'
  BY <1>1, <1>3, <1>5, EndsWithResults
<1>8. TrueContinuity(outcome.continuity)'
  BY <1>5, SameContinuity DEF Facts
<1> QED
  BY <1>6, <1>7, <1>8 DEF Facts

\* Every way out of a stage keeps the facts.
LEMMA LeaveFacts ==
  ASSUME Protocol, Work, Facts, world.damaged = FALSE, Leave
  PROVE  Facts'
<1>1. /\ stage \in Stages /\ \A w \in Workers : Ended(w)
      /\ failed \/ joined = WorkerCount(stage)
      /\ UNCHANGED <<world, faults>> /\ world \in Worlds
  BY LeaveWays DEF Protocol, Kinds
<1>2. ~failed => \A item \in 1 .. Items(stage) : Done(item)
  BY <1>1, AllDone
<1>3. CASE End("panicked") /\ UNCHANGED <<shortlist, outcome>>
  BY <1>1, <1>3, PanickedFacts
<1>4. CASE failed /\ End("error") /\ UNCHANGED <<shortlist, outcome>>
  BY <1>1, <1>4, FailedFacts
<1>5. CASE ~failed /\ stage = "gate" /\ AfterGate
  BY <1>1, <1>2, <1>5, GateFacts
<1>6. CASE ~failed /\ stage = "embed" /\ AfterEmbed
  BY <1>1, <1>6, EmbedFacts
<1>7. CASE ~failed /\ stage = "query" /\ AfterQuery
  BY <1>1, <1>2, <1>7, QueryFacts
<1>8. CASE ~failed /\ stage = "score" /\ AfterScore
  BY <1>1, <1>2, <1>8, ScoreFacts
<1> QED
  BY <1>3, <1>4, <1>5, <1>6, <1>7, <1>8, LeaveWays

\* A call starts with nothing done.
LEMMA InitProgress == Init => Progress
<1> SUFFICES ASSUME Init PROVE Progress
  OBVIOUS
<1>1. Work /\ stage = "gate" /\ outcome = NoOutcome
  BY InitWork DEF Init
<1>2. TrueContinuity(outcome.continuity)
  BY <1>1 DEF NoOutcome, TrueContinuity
<1>3. Facts
  BY <1>1, <1>2 DEF Facts
<1>4. Errorless
  BY DEF Init, Errorless
<1> QED
  BY <1>1, <1>3, <1>4 DEF Progress

\* A stage starts with workers that run.
LEMMA LeaveErrorless ==
  ASSUME Leave
  PROVE  Errorless'
<1>1. ASSUME NEW s, Begin(s) \/ End(s) PROVE Errorless'
  <2>1. \A w \in Workers : worker'[w] \in {"running", "none"}
    BY <1>1 DEF Begin, End
  <2> QED
    BY <2>1 DEF Errorless
<1> QED
  BY <1>1, LeaveWays DEF AfterGate, AfterEmbed, AfterQuery, AfterScore

\* A worker that runs goes on, over an undamaged catalog.
LEMMA StaysErrorless ==
  ASSUME Protocol, Facts, Errorless, world.damaged = FALSE,
         Join \/ \E w \in Workers : Process(w) \/ Finish(w) \/ Panic(w)
  PROVE  Errorless'
<1>1. CASE Join
  BY <1>1 DEF Join, Errorless
<1>2. ASSUME NEW w \in Workers, Process(w) PROVE Errorless'
  <2>1. world \in Worlds /\ stage \in Stages
    BY <1>2, RunningInStage DEF Process, Protocol, Kinds
  <2>2. stage = "score" => \A x \in shortlist : IsFiniteSet(x.hits)
    BY DEF Facts
  <2>3. \A item \in NextItem(w) : ResultsOf(item) # {}
    <3> SUFFICES ASSUME NEW item \in NextItem(w) PROVE ResultsOf(item) # {}
      OBVIOUS
    <3>1. item \in 1 .. Items(stage)
      BY <1>2, <2>1, NextItemIs DEF Process
    <3> QED
      BY <2>1, <2>2, <3>1, SomeResult
  <2>4. worker' = worker
    BY <1>2, <2>3 DEF Process
  <2> QED
    BY <2>4 DEF Errorless
<1>3. ASSUME NEW w \in Workers, Finish(w) \/ Panic(w) PROVE Errorless'
  <2>1. worker' = [worker EXCEPT ![w] = "ok"] \/ worker' = [worker EXCEPT ![w] = "panicked"]
    BY <1>3 DEF Finish, Panic, Become
  <2>2. worker \in [Workers -> States]
    BY DEF Protocol, Kinds
  <2> QED
    BY <2>1, <2>2 DEF Errorless
<1> QED
  BY <1>1, <1>2, <1>3

\* Every step keeps the work and the facts.
LEMMA ProgressStep == Protocol /\ Progress /\ [Next]_vars => Progress'
<1> SUFFICES ASSUME Protocol, Progress, [Next]_vars PROVE Progress'
  OBVIOUS
<1>1. CASE Leave
  <2>1. Work' /\ world' = world
    BY <1>1, LeaveWork, LeaveWays
  <2>2. ASSUME world.damaged = FALSE PROVE Facts' /\ Errorless'
    BY <1>1, <2>2, LeaveFacts, LeaveErrorless DEF Progress
  <2> QED
    BY <2>1, <2>2 DEF Progress
<1>2. CASE Join \/ \E w \in Workers : Process(w) \/ Finish(w) \/ Panic(w)
  <2>1. stage \in Stages
    BY <1>2, RunningInStage DEF Join, Process, Finish, Panic
  <2>2. Work'
    BY <1>2, <2>1, WorkStep DEF Progress
  <2>3. UNCHANGED <<world, stage, shortlist, outcome>> /\ (faults' = faults \/ faults' = faults + 1)
    BY <1>2 DEF Join, Process, Finish, Panic
  <2>4. ASSUME world.damaged = FALSE PROVE Facts' /\ Errorless'
    BY <1>2, <2>3, <2>4, SameFacts, StaysErrorless DEF Progress
  <2> QED
    BY <2>2, <2>3, <2>4 DEF Progress
<1>3. CASE UNCHANGED vars
  <2>1. UNCHANGED <<world, stage, worker, output, next, shortlist, outcome, faults>>
    BY <1>3 DEF vars
  <2>2. Claims'
    <3>1. CASE stage \in Stages
      BY <2>1, <3>1, ResultsSame, CountsSame DEF Progress, Work, Claims
    <3>2. CASE stage \notin Stages
      BY <2>1, <3>2 DEF Claims
    <3> QED
      BY <3>1, <3>2
  <2>3. Strided' /\ Counter'
    BY <2>1, CountsSame DEF Progress, Work, Strided, Counter, Done, IsFailed
  <2>4. ASSUME world.damaged = FALSE PROVE Facts' /\ Errorless'
    BY <2>1, <2>4, SameFacts DEF Progress, Errorless
  <2> QED
    BY <2>1, <2>2, <2>3, <2>4 DEF Progress, Work
<1> QED
  BY <1>1, <1>2, <1>3 DEF Next

\* What every call has come to, whatever the schedule of its workers: each
\* output is a result of an item that no one else took, and the facts of its
\* stage hold in a world that is not damaged.
THEOREM ProgressHolds == Spec => [](Protocol /\ Progress)
<1>1. Init => Protocol /\ Progress
  BY InitProtocol, InitProgress
<1>2. Protocol /\ Progress /\ [Next]_vars => (Protocol /\ Progress)'
  BY ProtocolStep, ProgressStep
<1> QED
  BY <1>1, <1>2, PTL DEF Spec

\* A call fails only over a damaged catalog or a worker that failed, a worker
\* fails by itself only over a damaged catalog, and a call panics only over a
\* second worker that failed.
THEOREM FailuresAreContained == Spec => []OneFailureIsContained
<1>1. Protocol /\ Progress => OneFailureIsContained
  <2> SUFFICES ASSUME Protocol, Progress PROVE OneFailureIsContained
    OBVIOUS
  <2>1. world.damaged \in BOOLEAN
    BY WorldsAssumption DEF Protocol, Kinds
  <2>2. world.damaged \/ world.damaged = FALSE
    BY <2>1, Zenon
  <2>3. stage = "error" => faults > 0 \/ world.damaged
    BY <2>2 DEF Progress, Facts
  <2>4. stage = "panicked" => faults > 1
    BY DEF Protocol, PanicsAreTwo
  <2>5. \A w \in Workers : worker[w] = "err" => world.damaged
    BY <2>2 DEF Progress, Errorless
  <2> QED
    BY <2>3, <2>4, <2>5 DEF OneFailureIsContained
<1> QED
  BY <1>1, ProgressHolds, PTL

\* Over a catalog built from its songs, a continuity is the true one of an
\* offset near a predicted one, and none near is better.
THEOREM ContinuityHolds == Spec => [](~world.damaged => ContinuityIsRight)
<1>1. Protocol /\ Progress => (~world.damaged => ContinuityIsRight)
  <2> SUFFICES ASSUME Protocol, Progress, ~world.damaged PROVE ContinuityIsRight
    OBVIOUS
  <2>1. world.damaged \in BOOLEAN
    BY WorldsAssumption DEF Protocol, Kinds
  <2>2. world.damaged = FALSE
    BY <2>1, Zenon
  <2>3. TrueContinuity(outcome.continuity)
    BY <2>2 DEF Progress, Facts
  <2> QED
    BY <2>3, Zenon DEF TrueContinuity, ContinuityIsRight
<1> QED
  BY <1>1, ProgressHolds, PTL

\* Over a catalog built from its songs, for every schedule of the workers and
\* every choice among equals, the results are the songs' true scores in order,
\* and the best songs there are when nothing had to be cut.
THEOREM AnswerHolds == Spec => [](~world.damaged => AnswerIsRight)
<1>1. Protocol /\ Progress => (~world.damaged => AnswerIsRight)
  <2> SUFFICES ASSUME Protocol, Progress, ~world.damaged PROVE AnswerIsRight
    OBVIOUS
  <2>1. world.damaged \in BOOLEAN
    BY WorldsAssumption DEF Protocol, Kinds
  <2>2. world.damaged = FALSE
    BY <2>1, Zenon
  <2>3. stage = "done" => AnswerIsRight
    BY <2>2 DEF Progress, Facts
  <2>4. CASE stage = "done"
    BY <2>3, <2>4
  <2>5. CASE stage # "done"
    BY <2>5, Zenon DEF AnswerIsRight
  <2> QED
    BY <2>4, <2>5
<1> QED
  BY <1>1, ProgressHolds, PTL
=============================================================================

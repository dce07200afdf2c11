------------------------- MODULE NativeEngineProofs -------------------------
(***************************************************************************)
(* The native recognizer for any threads, shard sets and number of calls:  *)
(* it serves what it was asked for, and a recognition leaves no trace.     *)
(***************************************************************************)
EXTENDS NativeEngine, TLAPS

Calls == [op : Ops, at : Phases, set : Sets, fallback : BOOLEAN]

Typed ==
    /\ monitor \in Threads \cup {NoThread} /\ mutex \in Threads \cup {NoThread}
    /\ initialized \in BOOLEAN
    /\ affinity \in [Threads -> {"all", "small", "left"}]
    /\ call \in [Threads -> {Idle} \cup Calls]

Busy(t) == call[t] # Idle

\* Validations keep to phases of their own and never hold the monitor.
OwnPhases(t) ==
    Busy(t) => (call[t].op = "validate" <=> call[t].at \in {"peek", "validating"})
               \/ call[t].at \in {"ok", "error"}

\* Whoever is past the entrance of a synchronized method holds its monitor.
Inside(t) ==
    Busy(t) /\ call[t].op # "validate" /\ call[t].at # "enter" => monitor = t

\* An initialization that is under way found none before it.
NotYet(t) ==
    Busy(t) /\ call[t].at \in {"check", "build", "install"} => ~initialized

Guarded(t) == mutex = t <=> Busy(t) /\ call[t].at \in {"pin", "running", "publish"}

\* A recognition is pinned to the small cores after it has the mutex.
Pinned(t) == affinity[t] = "small" => mutex = t /\ call[t].at # "pin"

OwnTimings(t) ==
    Busy(t) /\ call[t].at \in {"publish", "timings"} => timings = t

ThreadOK(t) ==
    /\ OwnPhases(t) /\ Inside(t) /\ NotYet(t)
    /\ Guarded(t) /\ Pinned(t) /\ OwnTimings(t)

\* The two sides agree at every moment, not only between two methods.
Agree == (initialized <=> slot # Empty) /\ slot = asked

IInv == Typed /\ Agree /\ \A t \in Threads : ThreadOK(t)

------------------------------- (* The calls *) -----------------------------

LEMMA BusyCall ==
    ASSUME Typed, NEW t \in Threads
    PROVE  /\ Busy(t) <=> call[t].op # "none"
           /\ Busy(t) => call[t] \in Calls
<1>1. call[t] \in {Idle} \cup Calls
  BY DEF Typed
<1>2. CASE call[t] = Idle
  BY <1>2 DEF Busy, Idle
<1>3. CASE call[t] \in Calls
  <2>1. call[t].op \in Ops
    BY <1>3 DEF Calls
  <2>2. call[t].op # "none"
    BY <2>1 DEF Ops
  <2>3. call[t] # Idle
    BY <2>2 DEF Idle
  <2> QED BY <1>3, <2>2, <2>3 DEF Busy
<1> QED BY <1>1, <1>2, <1>3

\* A step of a call to another phase.
LEMMA PhaseStep ==
    ASSUME Typed, NEW t \in Threads, Busy(t), NEW phase \in Phases, To(t, phase)
    PROVE  /\ call' \in [Threads -> {Idle} \cup Calls]
           /\ Busy(t)' /\ call'[t].at = phase
           /\ call'[t].op = call[t].op /\ call'[t].set = call[t].set
           /\ \A u \in Threads \ {t} : call'[u] = call[u]
<1>1. call[t] \in Calls
  BY BusyCall
<1>2. call' = [call EXCEPT ![t] = [call[t] EXCEPT !.at = phase]]
  BY DEF To, Typed
<1>3. call'[t] = [call[t] EXCEPT !.at = phase] /\ \A u \in Threads \ {t} : call'[u] = call[u]
  BY <1>2 DEF Typed
<1>4. /\ [call[t] EXCEPT !.at = phase] \in Calls
      /\ [call[t] EXCEPT !.at = phase].at = phase
      /\ [call[t] EXCEPT !.at = phase].op = call[t].op
      /\ [call[t] EXCEPT !.at = phase].set = call[t].set
  BY <1>1 DEF Calls
<1>5. call' \in [Threads -> {Idle} \cup Calls]
  BY <1>2, <1>4 DEF Typed
<1>6. call'[t].op \in Ops
  BY <1>1, <1>3, <1>4 DEF Calls
<1>7. Busy(t)'
  BY <1>6 DEF Busy, Idle, Ops
<1> QED BY <1>3, <1>4, <1>5, <1>7

\* nativeInitialize threw: the call goes back to the start, or to an error.
LEMMA ThrewStep ==
    ASSUME Typed, NEW t \in Threads, Busy(t), InitializeThrew(t), Core \in Sets
    PROVE  /\ call' \in [Threads -> {Idle} \cup Calls]
           /\ Busy(t)' /\ call'[t].at \in {"check", "error"}
           /\ call'[t].op = call[t].op
           /\ \A u \in Threads \ {t} : call'[u] = call[u]
<1>1. CASE call[t].op # "replace" /\ ~call[t].fallback
  <2> DEFINE again == [[[call[t] EXCEPT !.at = "check"] EXCEPT !.set = Core]
                          EXCEPT !.fallback = TRUE]
  <2>1. call[t] \in Calls
    BY BusyCall
  <2>2. call' = [call EXCEPT ![t].at = "check", ![t].set = Core, ![t].fallback = TRUE]
    BY <1>1 DEF InitializeThrew
  <2>3. again \in Calls /\ again.at = "check" /\ again.op = call[t].op
    BY <2>1 DEF Calls, Phases
  <2>4. call'[t] = again /\ \A u \in Threads \ {t} : call'[u] = call[u]
    BY <2>1, <2>2 DEF Typed, Calls
  <2> HIDE DEF again
  <2>6. DOMAIN call' = Threads /\ call' = [u \in Threads |-> call'[u]]
    BY <2>2 DEF Typed
  <2>7. call' \in [Threads -> {Idle} \cup Calls]
    BY <2>3, <2>4, <2>6 DEF Typed
  <2>8. Busy(t)'
    BY <2>3, <2>4 DEF Busy, Idle, Calls, Ops
  <2> QED BY <2>3, <2>4, <2>7, <2>8
<1>2. CASE ~(call[t].op # "replace" /\ ~call[t].fallback)
  <2>1. To(t, "error") /\ "error" \in Phases
    BY <1>2 DEF InitializeThrew, Phases
  <2> QED BY <2>1, PhaseStep
<1> QED BY <1>1, <1>2

\* What a step of one thread means for another: while one is in the monitor,
\* no other looks at what the recognizer was or at the timings.
LEMMA Others ==
    ASSUME IInv, NEW t \in Threads, NEW u \in Threads \ {t},
           call'[u] = call[u], affinity'[u] = affinity[u],
           monitor = u => monitor' = u, mutex = u <=> mutex' = u,
           monitor = t \/ UNCHANGED <<initialized, timings>>
    PROVE  ThreadOK(u)'
<1>1. ThreadOK(u) /\ Busy(u)' = Busy(u) /\ u \in Threads
  BY DEF IInv, Busy
<1>2. OwnPhases(u)' /\ Inside(u)' /\ Guarded(u)' /\ Pinned(u)'
  BY <1>1 DEF ThreadOK, OwnPhases, Inside, Guarded, Pinned
<1>3. NotYet(u)' /\ OwnTimings(u)'
  <2>1. CASE UNCHANGED <<initialized, timings>>
    BY <1>1, <2>1 DEF ThreadOK, NotYet, OwnTimings
  <2>2. CASE monitor = t
    BY <1>1, <2>2 DEF ThreadOK, OwnPhases, Inside, NotYet, OwnTimings
  <2> QED BY <2>1, <2>2
<1> QED BY <1>2, <1>3 DEF ThreadOK

\* A step that changes nothing but the phase of its call.
LEMMA Moves ==
    ASSUME IInv, NEW t \in Threads, Busy(t), NEW phase \in Phases, To(t, phase),
           UNCHANGED <<monitor, initialized, mutex, slot, timings, affinity, asked>>,
           \/ (call[t].op = "validate" <=> phase \in {"peek", "validating"})
           \/ phase \in {"ok", "error"},
           call[t].op # "validate" => monitor = t,
           phase \in {"check", "build", "install"} => ~initialized,
           mutex = t <=> phase \in {"pin", "running", "publish"},
           phase \in {"publish", "timings"} => timings = t, phase # "pin"
    PROVE  IInv'
<1>1. /\ call' \in [Threads -> {Idle} \cup Calls]
      /\ Busy(t)' /\ call'[t].at = phase /\ call'[t].op = call[t].op
      /\ \A u \in Threads \ {t} : call'[u] = call[u]
  BY PhaseStep DEF IInv
<1>2. Typed' /\ Agree'
  BY <1>1 DEF IInv, Typed, Agree
<1>3. ThreadOK(t)'
  BY <1>1 DEF IInv, ThreadOK, OwnPhases, Inside, NotYet, Guarded, Pinned, OwnTimings
<1>4. \A u \in Threads \ {t} : ThreadOK(u)'
  BY <1>1, Others
<1> QED BY <1>2, <1>3, <1>4 DEF IInv

----------------------------- (* The first state *) -------------------------

LEMMA InitIsRight == Init => IInv
<1> SUFFICES ASSUME Init PROVE IInv
  OBVIOUS
<1>1. Typed /\ Agree
  BY DEF Init, Typed, Agree
<1>2. \A t \in Threads : ThreadOK(t)
  BY EngineConstants DEF Init, ThreadOK, OwnPhases, Inside, NotYet, Guarded, Pinned,
     OwnTimings, Busy
<1> QED BY <1>1, <1>2 DEF IInv

---------------------------- (* The Kotlin side *) ---------------------------

LEMMA BeginIsRight ==
    ASSUME IInv, NEW t \in Threads, NEW op \in Ops, NEW set \in Sets, Begin(t, op, set)
    PROVE  IInv'
<1> DEFINE new == [op |-> op, at |-> IF op = "validate" THEN "peek" ELSE "enter",
                   set |-> set, fallback |-> FALSE]
<1>1. call' = [call EXCEPT ![t] = new] /\ call[t] = Idle
      /\ UNCHANGED <<monitor, initialized, mutex, slot, poisoned, timings, affinity, asked>>
  BY DEF Begin
<1>2. new \in Calls /\ new # Idle /\ new.op = op
      /\ new.at = IF op = "validate" THEN "peek" ELSE "enter"
  BY DEF Calls, Ops, Phases, Idle
<1> HIDE DEF new
<1>3. /\ call' \in [Threads -> {Idle} \cup Calls] /\ call'[t] = new
      /\ \A u \in Threads \ {t} : call'[u] = call[u]
  BY <1>1, <1>2 DEF IInv, Typed
<1>4. Typed' /\ Agree'
  BY <1>1, <1>3 DEF IInv, Typed, Agree
<1>5. ThreadOK(t)'
  BY <1>1, <1>2, <1>3 DEF IInv, ThreadOK, OwnPhases, Inside, NotYet, Guarded, Pinned,
     OwnTimings, Busy
<1>6. \A u \in Threads \ {t} : ThreadOK(u)'
  BY <1>1, <1>3, Others
<1> QED BY <1>4, <1>5, <1>6 DEF IInv

LEMMA EnterIsRight == ASSUME IInv, NEW t \in Threads, Enter(t) PROVE IInv'
<1> DEFINE phase == FirstPhase(call[t].op)
<1>1. Busy(t) /\ call[t].at = "enter" /\ call[t] \in Calls
  BY BusyCall DEF IInv, Enter, At
<1>2. monitor = NoThread /\ monitor' = t /\ To(t, phase)
      /\ UNCHANGED <<initialized, mutex, slot, timings, affinity, asked>>
  BY DEF Enter
<1>3. call[t].op \in {"initialize", "recognize", "replace", "drop"}
  BY <1>1 DEF IInv, ThreadOK, OwnPhases, Calls, Ops
<1>4. /\ phase \in {"acquire", "ok", "check", "read"} /\ phase \in Phases
      /\ phase = "check" => ~initialized
  BY <1>3 DEF FirstPhase, Phases
<1> HIDE DEF phase
<1>5. /\ call' \in [Threads -> {Idle} \cup Calls]
      /\ Busy(t)' /\ call'[t].at = phase /\ call'[t].op = call[t].op
      /\ \A u \in Threads \ {t} : call'[u] = call[u]
  BY <1>1, <1>2, <1>4, PhaseStep DEF IInv
<1>6. Typed' /\ Agree'
  BY <1>2, <1>5 DEF IInv, Typed, Agree
<1>7. ThreadOK(t)'
  BY <1>1, <1>2, <1>3, <1>4, <1>5
     DEF IInv, ThreadOK, OwnPhases, Inside, NotYet, Guarded, Pinned, OwnTimings
<1>8. \A u \in Threads \ {t} : ThreadOK(u)'
  BY <1>2, <1>5, Others, EngineConstants
<1> QED BY <1>6, <1>7, <1>8 DEF IInv

LEMMA ReturnIsRight == ASSUME IInv, NEW t \in Threads, Return(t) PROVE IInv'
<1>1. Busy(t) /\ call[t].at \in {"ok", "error"}
  BY BusyCall DEF IInv, Return, At
<1>2. /\ monitor' = IF monitor = t THEN NoThread ELSE monitor
      /\ call' = [call EXCEPT ![t] = Idle]
      /\ UNCHANGED <<initialized, mutex, slot, timings, affinity, asked>>
  BY DEF Return
<1>3. /\ call' \in [Threads -> {Idle} \cup Calls] /\ call'[t] = Idle
      /\ \A u \in Threads \ {t} : call'[u] = call[u]
  BY <1>2 DEF IInv, Typed
<1>4. Typed' /\ Agree'
  BY <1>2, <1>3 DEF IInv, Typed, Agree
<1>5. ThreadOK(t)'
  BY <1>1, <1>2, <1>3 DEF IInv, ThreadOK, OwnPhases, Inside, NotYet, Guarded, Pinned,
     OwnTimings, Busy
<1>6. \A u \in Threads \ {t} : ThreadOK(u)'
  BY <1>2, <1>3, Others
<1> QED BY <1>4, <1>5, <1>6 DEF IInv

---------------------------- (* The native side *) ---------------------------

\* What a call in one of these phases means.
LEMMA InPhase ==
    ASSUME IInv, NEW t \in Threads, NEW phase \in Phases, At(t, phase)
    PROVE  /\ Busy(t) /\ call[t] \in Calls /\ call[t].at = phase
           /\ phase \in {"peek", "validating"} => call[t].op = "validate"
           /\ phase \notin {"peek", "validating", "ok", "error", "enter"} =>
                 call[t].op # "validate" /\ monitor = t
           /\ mutex = t <=> phase \in {"pin", "running", "publish"}
           /\ phase \in {"check", "build", "install"} => ~initialized
           /\ phase \in {"publish", "timings"} => timings = t
<1>1. Busy(t) /\ call[t] \in Calls /\ call[t].at = phase
  BY BusyCall DEF IInv, At
<1> QED BY <1>1 DEF IInv, ThreadOK, OwnPhases, Inside, Guarded, NotYet, OwnTimings

\* The initialization throws.
LEMMA Throws ==
    ASSUME IInv, NEW t \in Threads, Busy(t), call[t].at \in {"check", "build", "install"},
           InitializeThrew(t),
           UNCHANGED <<monitor, initialized, mutex, slot, timings, affinity, asked>>
    PROVE  IInv'
<1>1. /\ call' \in [Threads -> {Idle} \cup Calls]
      /\ Busy(t)' /\ call'[t].at \in {"check", "error"} /\ call'[t].op = call[t].op
      /\ \A u \in Threads \ {t} : call'[u] = call[u]
  BY ThrewStep, EngineConstants DEF IInv
<1>2. Typed' /\ Agree'
  BY <1>1 DEF IInv, Typed, Agree
<1>3. ThreadOK(t)'
  BY <1>1 DEF IInv, ThreadOK, OwnPhases, Inside, NotYet, Guarded, Pinned, OwnTimings
<1>4. \A u \in Threads \ {t} : ThreadOK(u)'
  BY <1>1, Others
<1> QED BY <1>2, <1>3, <1>4 DEF IInv

\* A change of the recognizer that ends its call, or leads to the recognition.
LEMMA Changes ==
    ASSUME IInv, NEW t \in Threads, Busy(t), NEW phase \in {"ok", "acquire"}, To(t, phase),
           monitor = t, mutex # t, call[t].op # "validate", Agree', initialized' \in BOOLEAN,
           UNCHANGED <<monitor, mutex, timings, affinity>>
    PROVE  IInv'
<1>1. /\ call' \in [Threads -> {Idle} \cup Calls]
      /\ Busy(t)' /\ call'[t].at = phase /\ call'[t].op = call[t].op
      /\ \A u \in Threads \ {t} : call'[u] = call[u]
  <2>1. phase \in Phases
    BY DEF Phases
  <2> QED BY <2>1, PhaseStep DEF IInv
<1>2. Typed'
  BY <1>1 DEF IInv, Typed
<1>3. ThreadOK(t)'
  BY <1>1 DEF IInv, ThreadOK, OwnPhases, Inside, NotYet, Guarded, Pinned, OwnTimings
<1>4. \A u \in Threads \ {t} : ThreadOK(u)'
  BY <1>1, Others
<1> QED BY <1>2, <1>3, <1>4 DEF IInv

LEMMA CheckIsRight == ASSUME IInv, NEW t \in Threads, Check(t) PROVE IInv'
<1>1. Busy(t) /\ call[t].at = "check" /\ monitor = t /\ mutex # t /\ ~initialized
      /\ call[t].op # "validate"
  BY InPhase DEF Check, Phases
<1>2. slot = Empty
  BY <1>1 DEF IInv, Agree
<1>3. UNCHANGED <<monitor, mutex, slot, timings, affinity>>
  BY DEF Check, Frozen
<1>4. CASE poisoned
  BY <1>1, <1>3, <1>4, Throws DEF Check
<1>5. CASE ~poisoned
  <2>1. To(t, "build") /\ UNCHANGED <<initialized, asked>>
    BY <1>2, <1>5 DEF Check
  <2>2. "build" \in Phases
    BY DEF Phases
  <2> QED BY <1>1, <1>3, <2>1, <2>2, Moves
<1> QED BY <1>4, <1>5

LEMMA BuildIsRight == ASSUME IInv, NEW t \in Threads, Build(t) PROVE IInv'
<1>1. Busy(t) /\ call[t].at = "build" /\ monitor = t /\ mutex # t /\ ~initialized
      /\ call[t].op # "validate"
  BY InPhase DEF Build, Phases
<1>2. UNCHANGED <<monitor, initialized, mutex, slot, timings, affinity, asked>>
  BY DEF Build, Frozen
<1>3. CASE To(t, "install")
  <2>1. "install" \in Phases
    BY DEF Phases
  <2> QED BY <1>1, <1>2, <1>3, <2>1, Moves
<1>4. CASE InitializeThrew(t)
  BY <1>1, <1>2, <1>4, Throws
<1> QED BY <1>3, <1>4 DEF Build

LEMMA InstallIsRight == ASSUME IInv, NEW t \in Threads, Install(t) PROVE IInv'
<1>1. Busy(t) /\ call[t].at = "install" /\ monitor = t /\ mutex # t /\ ~initialized
      /\ call[t].op # "validate" /\ call[t].set \in Sets
  BY InPhase DEF Install, Phases, Calls
<1>2. slot = Empty
  BY <1>1 DEF IInv, Agree
<1>3. UNCHANGED <<monitor, mutex, timings, affinity>>
  BY DEF Install, Frozen
<1>4. CASE poisoned
  BY <1>1, <1>3, <1>4, Throws DEF Install
<1>5. CASE ~poisoned
  <2>1. initialized' = TRUE /\ asked' = call[t].set /\ slot' = call[t].set
    BY <1>2, <1>5 DEF Install, Initialized
  <2>2. Agree'
    BY <1>1, <2>1, EngineConstants DEF Agree
  <2>3. PICK phase \in {"ok", "acquire"} : To(t, phase)
    BY <1>5 DEF Install, Initialized
  <2> QED BY <1>1, <1>3, <2>1, <2>2, <2>3, Changes
<1> QED BY <1>4, <1>5

LEMMA SwapIsRight == ASSUME IInv, NEW t \in Threads, Swap(t) PROVE IInv'
<1>1. Busy(t) /\ call[t].at = "swap" /\ monitor = t /\ mutex # t
      /\ call[t].op # "validate" /\ call[t].set \in Sets
  BY InPhase DEF Swap, Phases, Calls
<1>2. UNCHANGED <<monitor, initialized, mutex, timings, affinity>>
  BY DEF Swap, Frozen
<1>3. CASE poisoned \/ slot = Empty
  <2>1. To(t, "error") /\ UNCHANGED <<slot, asked>> /\ "error" \in Phases
    BY <1>3 DEF Swap, Phases
  <2> QED BY <1>1, <1>2, <2>1, Moves
<1>4. CASE ~(poisoned \/ slot = Empty)
  <2>1. To(t, "ok") /\ slot' = call[t].set /\ asked' = call[t].set
    BY <1>4 DEF Swap
  <2>2. Agree' /\ initialized' \in BOOLEAN
    BY <1>1, <1>2, <1>4, <2>1, EngineConstants DEF Agree, IInv, Typed
  <2> QED BY <1>1, <1>2, <2>1, <2>2, Changes
<1> QED BY <1>3, <1>4

\* The steps that only lead to another phase.
LEMMA PlainIsRight ==
    ASSUME IInv, NEW t \in Threads,
           Read(t) \/ OpenShards(t) \/ Peek(t) \/ Validate(t) \/ Refuse(t) \/ NativeTimings(t)
    PROVE  IInv'
<1>1. UNCHANGED <<monitor, initialized, mutex, slot, timings, affinity, asked>>
  BY DEF Read, OpenShards, Peek, Validate, Refuse, NativeTimings, Frozen
<1>2. CASE Read(t) \/ OpenShards(t) \/ Refuse(t) \/ NativeTimings(t)
  <2>1. Busy(t) /\ monitor = t /\ mutex # t /\ call[t].op # "validate"
    BY <1>2, InPhase DEF Read, OpenShards, Refuse, NativeTimings, Phases
  <2>2. PICK phase \in {"error", "open", "swap", "ok"} : To(t, phase)
    BY <1>2 DEF Read, OpenShards, Refuse, NativeTimings
  <2>3. phase \in Phases
    BY DEF Phases
  <2> QED BY <1>1, <2>1, <2>2, <2>3, Moves
<1>3. CASE Peek(t) \/ Validate(t)
  <2>1. Busy(t) /\ mutex # t /\ call[t].op = "validate"
    BY <1>3, InPhase DEF Peek, Validate, Phases
  <2>2. PICK phase \in {"error", "validating", "ok"} : To(t, phase)
    BY <1>3 DEF Peek, Validate
  <2>3. phase \in Phases
    BY DEF Phases
  <2> QED BY <1>1, <2>1, <2>2, <2>3, Moves
<1> QED BY <1>2, <1>3

\* A step of a recognition: it holds the monitor, and the mutex from the step
\* that takes it to the one that drops its guards.
LEMMA RecognitionMoves ==
    ASSUME IInv, NEW t \in Threads, Busy(t), monitor = t, call[t].op # "validate",
           NEW phase \in {"error", "pin", "running", "publish", "timings"}, To(t, phase),
           UNCHANGED <<monitor, initialized, slot, asked>>,
           mutex \in {t, NoThread} \/ mutex' = mutex,
           mutex' \in {t, NoThread} \/ mutex' = mutex,
           mutex' = t <=> phase \in {"pin", "running", "publish"},
           NEW cores \in {"all", "small", "left"}, affinity' = [affinity EXCEPT ![t] = cores],
           cores = "small" => mutex' = t /\ phase # "pin",
           phase \in {"publish", "timings"} => timings' = t
    PROVE  IInv'
<1>1. /\ call' \in [Threads -> {Idle} \cup Calls]
      /\ Busy(t)' /\ call'[t].at = phase /\ call'[t].op = call[t].op
      /\ \A u \in Threads \ {t} : call'[u] = call[u]
  <2>1. phase \in Phases
    BY DEF Phases
  <2> QED BY <2>1, PhaseStep DEF IInv
<1>2. /\ affinity' \in [Threads -> {"all", "small", "left"}] /\ affinity'[t] = cores
      /\ \A u \in Threads \ {t} : affinity'[u] = affinity[u]
  BY DEF IInv, Typed
<1>3. Typed' /\ Agree'
  BY <1>1, <1>2 DEF IInv, Typed, Agree
<1>4. ThreadOK(t)'
  BY <1>1, <1>2 DEF ThreadOK, OwnPhases, Inside, NotYet, Guarded, Pinned, OwnTimings
<1>5. ASSUME NEW u \in Threads \ {t} PROVE ThreadOK(u)'
  <2>1. mutex = u <=> mutex' = u
    BY EngineConstants
  <2> QED BY <1>1, <1>2, <2>1, Others
<1> QED BY <1>3, <1>4, <1>5 DEF IInv

LEMMA AcquireIsRight == ASSUME IInv, NEW t \in Threads, Acquire(t) PROVE IInv'
<1>1. Busy(t) /\ monitor = t /\ call[t].op # "validate" /\ mutex # t /\ mutex = NoThread
  BY InPhase DEF Acquire, Phases, Locks
<1>2. affinity[t] \in {"all", "left"} /\ affinity \in [Threads -> {"all", "small", "left"}]
  BY <1>1 DEF IInv, Typed, ThreadOK, Pinned
<1>3. PICK cores \in {"all", "left"} : affinity' = [affinity EXCEPT ![t] = cores]
  BY <1>2 DEF Acquire
<1>4. UNCHANGED <<monitor, initialized, slot, asked>>
  BY DEF Acquire
<1>5. CASE To(t, "error") /\ UNCHANGED mutex
  BY <1>1, <1>3, <1>4, <1>5, RecognitionMoves
<1>6. CASE To(t, "pin") /\ mutex' = t
  BY <1>1, <1>3, <1>4, <1>6, RecognitionMoves
<1> QED BY <1>5, <1>6 DEF Acquire

LEMMA PinIsRight == ASSUME IInv, NEW t \in Threads, Pin(t) PROVE IInv'
<1>1. Busy(t) /\ monitor = t /\ call[t].op # "validate" /\ mutex = t /\ call[t].at = "pin"
  BY InPhase DEF Pin, Phases
<1>2. affinity \in [Threads -> {"all", "small", "left"}] /\ affinity[t] \in {"all", "left"}
  BY <1>1 DEF IInv, Typed, ThreadOK, Pinned
<1>3. UNCHANGED <<monitor, initialized, slot, asked>>
  BY DEF Pin
<1>4. CASE To(t, "running") /\ UNCHANGED mutex
           /\ affinity' = [affinity EXCEPT ![t] = IF SmallCores /\ @ = "all" THEN "small" ELSE @]
  <2>1. PICK cores \in {"all", "small", "left"} : affinity' = [affinity EXCEPT ![t] = cores]
    BY <1>2, <1>4
  <2> QED BY <1>1, <1>3, <1>4, <2>1, RecognitionMoves
<1>5. CASE To(t, "error") /\ mutex' = NoThread /\ UNCHANGED affinity
  <2>1. PICK cores \in {"all", "left"} : affinity' = [affinity EXCEPT ![t] = cores]
    BY <1>2, <1>5
  <2> QED BY <1>1, <1>3, <1>5, <2>1, EngineConstants, RecognitionMoves
<1> QED BY <1>4, <1>5 DEF Pin

LEMMA RecognizeIsRight == ASSUME IInv, NEW t \in Threads, Recognize(t) PROVE IInv'
<1>1. Busy(t) /\ monitor = t /\ call[t].op # "validate" /\ mutex = t
  BY InPhase DEF Recognize, Phases
<1>2. To(t, "publish") /\ timings' = t /\ UNCHANGED <<monitor, initialized, slot, asked, mutex>>
  BY DEF Recognize
<1>3. PICK cores \in {"all", "small", "left"} : affinity' = [affinity EXCEPT ![t] = cores]
  <2>1. affinity \in [Threads -> {"all", "small", "left"}] /\ affinity' = affinity
    BY DEF IInv, Typed, Recognize
  <2> QED BY <2>1
<1> QED BY <1>1, <1>2, <1>3, RecognitionMoves

\* However it ends, the guards of the recognition are dropped.
LEMMA UnwindIsRight ==
    ASSUME IInv, NEW t \in Threads, Respond(t) \/ RecognizeFails(t) \/ RecognizePanics(t)
    PROVE  IInv'
<1>1. /\ Busy(t) /\ monitor = t /\ call[t].op # "validate" /\ mutex = t
      /\ call[t].at = "publish" => timings = t
  BY InPhase DEF Respond, RecognizeFails, RecognizePanics, Phases
<1>2. /\ Restore(t) /\ mutex' = NoThread
      /\ UNCHANGED <<monitor, initialized, slot, asked, timings>>
  BY DEF Respond, RecognizeFails, RecognizePanics, Unwind
<1>3. PICK cores \in {"all", "left"} : affinity' = [affinity EXCEPT ![t] = cores]
  BY <1>2 DEF Restore
<1>4. PICK phase \in {"error", "timings"} :
         To(t, phase) /\ (phase = "timings" => call[t].at = "publish")
  BY DEF Respond, RecognizeFails, RecognizePanics, At
<1> QED BY <1>1, <1>2, <1>3, <1>4, EngineConstants, RecognitionMoves

----------------------------- (* What follows *) ----------------------------

LEMMA NextIsRight == IInv /\ [Next]_vars => IInv'
<1> SUFFICES ASSUME IInv, [Next]_vars PROVE IInv'
  OBVIOUS
<1>1. ASSUME NEW t \in Threads, Step(t) PROVE IInv'
  BY <1>1, EnterIsRight, CheckIsRight, BuildIsRight, InstallIsRight, PlainIsRight, SwapIsRight,
     AcquireIsRight, PinIsRight, RecognizeIsRight, UnwindIsRight, ReturnIsRight DEF Step
<1>2. ASSUME NEW t \in Threads, NEW op \in Ops, NEW set \in Sets, Begin(t, op, set) PROVE IInv'
  BY <1>2, BeginIsRight
<1>3. CASE Crash
  <2>1. Typed' /\ Agree'
    BY <1>3 DEF Crash, Typed, Agree
  <2>2. \A t \in Threads : ThreadOK(t)'
    BY <1>3, EngineConstants DEF Crash, ThreadOK, OwnPhases, Inside, NotYet, Guarded, Pinned,
       OwnTimings, Busy
  <2> QED BY <2>1, <2>2 DEF IInv
<1>4. CASE UNCHANGED vars
  BY <1>4 DEF vars, IInv, Typed, Agree, ThreadOK, OwnPhases, Inside, NotYet, Guarded, Pinned,
     OwnTimings, Busy
<1> QED BY <1>1, <1>2, <1>3, <1>4 DEF Next

\* The whole invariant: who is where, and that the two sides agree.
THEOREM Invariance == Spec => []IInv
BY InitIsRight, NextIsRight, PTL DEF Spec

\* The recognizer serves the set of shards that the last accepted change asked
\* for, for any number of threads that initialize, recognize, replace and drop,
\* failures and panics included.
THEOREM Serves == Spec => []ServesWhatWasAsked
<1>1. IInv => ServesWhatWasAsked
  BY DEF IInv, Agree, ServesWhatWasAsked
<1> QED BY <1>1, Invariance, PTL

\* No pin of a recognition outlives it, though restoring the cores may fail,
\* and the timings that a recognition logs are its own.
THEOREM NoTrace == Spec => []LeavesNoTrace
<1>1. IInv => LeavesNoTrace
  <2> SUFFICES ASSUME IInv, NEW t \in Threads
               PROVE  /\ mutex # t => affinity[t] # "small"
                      /\ At(t, "timings") => timings = t
    BY DEF LeavesNoTrace
  <2>1. mutex # t => affinity[t] # "small"
    BY DEF IInv, ThreadOK, Pinned
  <2>2. At(t, "timings") => timings = t
    BY InPhase DEF Phases
  <2> QED BY <2>1, <2>2
<1> QED BY <1>1, Invariance, PTL
=============================================================================

---------------------------- MODULE NativeEngine ----------------------------
(***************************************************************************)
(* The native recognizer of the process: the Kotlin object with its        *)
(* monitor, and the Rust side with one mutex around the recognizer, which  *)
(* a panic poisons for as long as the process lives.                       *)
(*                                                                         *)
(* Recognitions, catalog changes and validations come from different       *)
(* threads. All but validations hold the monitor for the whole call. The   *)
(* models and shards are opened while the mutex is free.                   *)
(***************************************************************************)
EXTENDS Naturals, FiniteSets

CONSTANTS
    Threads,        \* the threads that call
    Sets,           \* sets of shard files
    Core,           \* the set with the preinstalled shard only
    SmallCores,     \* RUN_ON_SMALL_CORES; as shipped it is FALSE, and no thread
                    \* is ever pinned
    MaxCalls,       \* bound: calls per process
    NoThread, Empty

ASSUME EngineConstants ==
    Core \in Sets /\ NoThread \notin Threads /\ Empty \notin Sets /\ MaxCalls \in Nat

VARIABLES
    monitor,        \* the thread in a synchronized method
    initialized,    \* NativeRecognizer.initialized
    mutex,          \* the thread that holds RECOGNIZER
    slot,           \* the shard set of the recognizer in RECOGNIZER
    poisoned,       \* RECOGNIZER is poisoned
    timings,        \* LAST_TIMINGS: the thread whose recognition wrote it
    affinity,       \* the cores that a thread may run on: "all", "small" while
                    \* a guard pins it, "left" on the small ones where the
                    \* guard failed to restore the others
    call,           \* what each thread is doing
    calls,          \* calls made so far
    asked           \* the set that the last accepted change asked for

vars == <<monitor, initialized, mutex, slot, poisoned, timings, affinity, call, calls, asked>>

Ops == {"initialize", "recognize", "replace", "drop", "validate"}
Phases == {"enter", "check", "build", "install", "read", "open", "swap", "peek",
           "validating", "acquire", "pin", "running", "publish", "timings", "ok", "error"}
Idle == [op |-> "none"]

TypeOK ==
    /\ {monitor, mutex} \subseteq Threads \cup {NoThread}
    /\ {initialized, poisoned} \subseteq BOOLEAN
    /\ {slot, asked} \subseteq Sets \cup {Empty}
    /\ timings \in Threads \cup {NoThread}
    /\ affinity \in [Threads -> {"all", "small", "left"}]
    /\ \A t \in Threads :
          call[t] = Idle \/ call[t] \in [op : Ops, at : Phases, set : Sets, fallback : BOOLEAN]

Init ==
    /\ monitor = NoThread /\ initialized = FALSE
    /\ mutex = NoThread /\ slot = Empty /\ poisoned = FALSE /\ timings = NoThread
    /\ affinity = [t \in Threads |-> "all"]
    /\ call = [t \in Threads |-> Idle] /\ calls = 0
    /\ asked = Empty

At(t, phase) == call[t].op # "none" /\ call[t].at = phase
To(t, phase) == call' = [call EXCEPT ![t].at = phase]

---------------------------- (* The Kotlin side *) ---------------------------

Begin(t, op, set) ==
    /\ call[t] = Idle /\ calls < MaxCalls
    /\ op \in {"drop", "validate"} => set = Core
    /\ calls' = calls + 1
    /\ call' = [call EXCEPT ![t] =
          [op |-> op, at |-> IF op = "validate" THEN "peek" ELSE "enter",
           set |-> set, fallback |-> FALSE]]
    /\ UNCHANGED <<monitor, initialized, mutex, slot, poisoned, timings, affinity, asked>>

\* The native call that a method makes once it has the monitor.
FirstPhase(op) ==
    CASE op \in {"initialize", "recognize"} ->
            IF initialized THEN IF op = "recognize" THEN "acquire" ELSE "ok" ELSE "check"
      [] op = "replace" -> IF initialized THEN "read" ELSE "check"
      [] op = "drop" -> IF initialized THEN "read" ELSE "ok"

\* Mutant: the methods are not synchronized.
EnterUnguarded(t) ==
    /\ At(t, "enter")
    /\ monitor' = t
    /\ To(t, FirstPhase(call[t].op))
    /\ UNCHANGED <<initialized, mutex, slot, poisoned, timings, affinity, calls, asked>>

Enter(t) ==
    /\ At(t, "enter") /\ monitor = NoThread
    /\ monitor' = t
    /\ To(t, FirstPhase(call[t].op))
    /\ UNCHANGED <<initialized, mutex, slot, poisoned, timings, affinity, calls, asked>>

\* nativeInitialize returned: a recognition goes on to its own call.
Initialized(t, set) ==
    /\ initialized' = TRUE /\ asked' = set
    /\ To(t, IF call[t].op = "recognize" THEN "acquire" ELSE "ok")

\* nativeInitialize threw: "initialize" tries once more with the core shard.
InitializeThrew(t) ==
    IF call[t].op # "replace" /\ ~call[t].fallback
    THEN call' = [call EXCEPT ![t].at = "check", ![t].set = Core, ![t].fallback = TRUE]
    ELSE To(t, "error")

Return(t) ==
    /\ At(t, "ok") \/ At(t, "error")
    /\ monitor' = IF monitor = t THEN NoThread ELSE monitor
    /\ call' = [call EXCEPT ![t] = Idle]
    /\ UNCHANGED <<initialized, mutex, slot, poisoned, timings, affinity, calls, asked>>

---------------------------- (* The native side *) ---------------------------

Locks == mutex = NoThread
Frozen == UNCHANGED <<monitor, mutex, poisoned, timings, affinity, calls>>

\* nativeInitialize: is there a recognizer already?
Check(t) ==
    /\ At(t, "check") /\ Locks
    /\ IF poisoned THEN InitializeThrew(t) /\ UNCHANGED <<initialized, asked>>
       ELSE IF slot # Empty THEN Initialized(t, call[t].set)
       ELSE To(t, "build") /\ UNCHANGED <<initialized, asked>>
    /\ UNCHANGED slot /\ Frozen

\* The models and shards are opened without the mutex. A file may be missing
\* or malformed; an error and a panic both end as an exception.
Build(t) ==
    /\ At(t, "build")
    /\ To(t, "install") \/ InitializeThrew(t)
    /\ UNCHANGED <<initialized, slot, asked>> /\ Frozen

Install(t) ==
    /\ At(t, "install") /\ Locks
    /\ IF poisoned THEN InitializeThrew(t) /\ UNCHANGED <<initialized, slot, asked>>
       ELSE Initialized(t, call[t].set) /\ slot' = IF slot = Empty THEN call[t].set ELSE slot
    /\ Frozen

\* nativeReload: the configuration and the decoder, the new shards, the swap.
Read(t) ==
    /\ At(t, "read") /\ Locks
    /\ To(t, IF poisoned \/ slot = Empty THEN "error" ELSE "open")
    /\ UNCHANGED <<initialized, slot, asked>> /\ Frozen

OpenShards(t) ==
    /\ At(t, "open")
    /\ To(t, "swap") \/ To(t, "error")
    /\ UNCHANGED <<initialized, slot, asked>> /\ Frozen

Swap(t) ==
    /\ At(t, "swap") /\ Locks
    /\ IF poisoned \/ slot = Empty THEN To(t, "error") /\ UNCHANGED <<slot, asked>>
       ELSE To(t, "ok") /\ slot' = call[t].set /\ asked' = call[t].set
    /\ UNCHANGED initialized /\ Frozen

\* nativeValidateShard: the decoder, from the recognizer or read anew, then
\* the whole shard.
Peek(t) ==
    /\ At(t, "peek") /\ Locks
    /\ To(t, IF poisoned THEN "error" ELSE "validating")
    /\ UNCHANGED <<initialized, slot, asked>> /\ Frozen

Validate(t) ==
    /\ At(t, "validating")
    /\ To(t, "ok") \/ To(t, "error")
    /\ UNCHANGED <<initialized, slot, asked>> /\ Frozen

\* nativeRecognize refuses its arguments: a negative rate or track number.
Refuse(t) ==
    /\ At(t, "acquire")
    /\ To(t, "error")
    /\ UNCHANGED <<initialized, slot, asked>> /\ Frozen

\* It takes the mutex for the whole recognition.
Acquire(t) ==
    /\ At(t, "acquire") /\ Locks
    /\ IF poisoned \/ slot = Empty THEN To(t, "error") /\ UNCHANGED mutex
       ELSE To(t, "pin") /\ mutex' = t
    /\ UNCHANGED <<monitor, initialized, slot, poisoned, timings, affinity, calls, asked>>

Pin(t) ==
    /\ At(t, "pin")
    /\ \/ To(t, "running") /\ UNCHANGED mutex
          /\ affinity' = [affinity EXCEPT ![t] = IF SmallCores /\ @ = "all" THEN "small" ELSE @]
       \/ SmallCores /\ To(t, "error") /\ mutex' = NoThread /\ UNCHANGED affinity
    /\ UNCHANGED <<monitor, initialized, slot, poisoned, timings, calls, asked>>

\* The affinity guard restores the cores it found, and ignores a failure.
Restore(t) ==
    \E cores \in {"all"} \cup IF SmallCores THEN {"left"} ELSE {} :
       affinity' = [affinity EXCEPT ![t] = IF @ = "left" THEN @ ELSE cores]

\* The guards of a recognition are dropped: affinity first, then the mutex.
Unwind(t) == Restore(t) /\ mutex' = NoThread

Recognize(t) ==
    /\ At(t, "running")
    /\ To(t, "publish") /\ timings' = t
    /\ UNCHANGED <<monitor, initialized, mutex, slot, poisoned, affinity, calls, asked>>

Respond(t) ==
    /\ At(t, "publish")
    /\ Unwind(t) /\ To(t, "timings")
    /\ UNCHANGED <<monitor, initialized, slot, poisoned, timings, calls, asked>>

\* Mutant: an error leaves the mutex locked.
RecognizeFailsLocked(t) ==
    /\ At(t, "running")
    /\ Restore(t) /\ To(t, "error")
    /\ UNCHANGED <<monitor, initialized, mutex, slot, poisoned, timings, calls, asked>>

RecognizeFails(t) ==
    /\ At(t, "running")
    /\ Unwind(t) /\ To(t, "error")
    /\ UNCHANGED <<monitor, initialized, slot, poisoned, timings, calls, asked>>

\* Mutant: a panic leaves the thread on the small cores.
RecognizePanicsPinned(t) ==
    /\ At(t, "running")
    /\ mutex' = NoThread /\ poisoned' = TRUE /\ To(t, "error")
    /\ UNCHANGED <<monitor, initialized, slot, timings, affinity, calls, asked>>

\* The panic drops the guards on its way to catch_native; dropping the mutex
\* in a panic poisons it.
RecognizePanics(t) ==
    /\ At(t, "running")
    /\ Unwind(t) /\ poisoned' = TRUE /\ To(t, "error")
    /\ UNCHANGED <<monitor, initialized, slot, timings, calls, asked>>

\* The recognition logs the timings with a second native call.
NativeTimings(t) ==
    /\ At(t, "timings")
    /\ To(t, "ok")
    /\ UNCHANGED <<monitor, initialized, mutex, slot, poisoned, timings, affinity, calls, asked>>

\* The process dies; the next one starts over.
Crash ==
    /\ calls > 0
    /\ monitor' = NoThread /\ initialized' = FALSE
    /\ mutex' = NoThread /\ slot' = Empty /\ poisoned' = FALSE /\ timings' = NoThread
    /\ affinity' = [t \in Threads |-> "all"]
    /\ call' = [t \in Threads |-> Idle] /\ calls' = 0
    /\ asked' = Empty

Step(t) ==
    \/ Enter(t) \/ Check(t) \/ Build(t) \/ Install(t)
    \/ Read(t) \/ OpenShards(t) \/ Swap(t) \/ Peek(t) \/ Validate(t)
    \/ Refuse(t) \/ Acquire(t) \/ Pin(t) \/ Recognize(t) \/ Respond(t)
    \/ RecognizeFails(t) \/ RecognizePanics(t) \/ NativeTimings(t) \/ Return(t)

Next ==
    \/ \E t \in Threads : Step(t)
    \/ \E t \in Threads, op \in Ops, set \in Sets : Begin(t, op, set)
    \/ Crash

Spec == Init /\ [][Next]_vars

\* A thread that can go on does.
FairSpec == Spec /\ \A t \in Threads : WF_vars(Step(t))

------------------------------- (* Properties *) ----------------------------

\* While no method runs, the two sides agree on whether there is a recognizer,
\* and it serves what the last accepted change asked for: no change is lost
\* between "initialized" and an initialization that leaves a filled slot alone.
ServesWhatWasAsked ==
    monitor = NoThread => /\ initialized <=> slot # Empty
                          /\ slot = asked

\* However a recognition ends, no guard's pin outlives it: its thread has its
\* cores back when its method returns, unless restoring them failed; and the
\* timings that it logs are its own.
LeavesNoTrace ==
    \A t \in Threads :
       /\ mutex # t => affinity[t] # "small"
       /\ At(t, "timings") => timings = t

\* No call waits forever for the monitor or the mutex, panics included.
EveryCallReturns == \A t \in Threads : call[t] # Idle ~> call[t] = Idle
=============================================================================

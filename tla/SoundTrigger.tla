---------------------------- MODULE SoundTrigger ----------------------------
(***************************************************************************)
(* The one-shot recognition cycle: the DSP fires once, the detection       *)
(* service recognizes, a JobScheduler job arms the DSP again.  Modelled    *)
(* from SoundTriggerController, NowPlayingDetectionService,                *)
(* SoundTriggerRearmJob, the rearm half of ShardDownloadJobService, and    *)
(* the callers of applyEnabled (BootReceiver, SettingsProvider).           *)
(*                                                                         *)
(* The monitor of SoundTriggerController is explicit: arm and armAfter,    *)
(* which read the world and then change it, take two steps under it, so    *)
(* that every other thread may move in between.                            *)
(***************************************************************************)
EXTENDS Naturals, Sequences

CONSTANTS
    Ops,         \* identifiers of detection operations (opId), reused
    SystemUser,  \* UserManager.isSystemUser of the app's user
    Faults,      \* whether calls may fail and the process may die
    QueueBound   \* longest executor queue explored (the code has no bound)

ASSUME ConstantsOK ==
    /\ SystemUser \in BOOLEAN
    /\ Faults \in BOOLEAN
    /\ QueueBound \in Nat \ {0}
    /\ {"free", "executor"} \cap Ops = {}

VARIABLES
    enabled,     \* Settings.Global now_playing_enabled
    foreground,  \* UserManager.isUserForeground
    due,         \* deliveries on their way that will call applyEnabled
    alive,       \* whether the app process exists
    armed,       \* SoundTriggerController.armed
    loaded,      \* SoundTriggerController.loaded
    lock,        \* holder of the controller's monitor
    queue,       \* the controller's single-thread executor, head executing
    rearm,       \* the rearm job in JobScheduler
    hw,          \* what the DSP does with the model
    phase,       \* each detection operation
    calls,       \* armAfter calls each operation still has to make
    applied,     \* history: applyEnabled ran since the flags last changed
    excused      \* history: a fault may have left recognition off

flags == <<enabled, foreground>>
memory == <<armed, loaded>>
operations == <<phase, calls>>
vars == <<enabled, foreground, due, alive, armed, loaded, lock, queue, rearm,
          hw, phase, calls, applied, excused>>

(***************************************************************************)
(* "foreground" is a USER_FOREGROUND or USER_BACKGROUND broadcast to the   *)
(* receiver NowPlayingApplication registers while the process lives;       *)
(* "apply" a boot broadcast or an apply_enabled call, which start the      *)
(* process.  A "stale" task is a rearm task whose job was cancelled,       *)
(* replaced or stopped: it still arms, but finishes no job.                *)
(***************************************************************************)
Deliveries == {"foreground", "apply"}
Tasks == {"apply", "rearm", "stale"}
Phases == {"none", "fired", "failed", "queued", "finishing"}

TypeOK ==
    /\ enabled \in BOOLEAN /\ foreground \in BOOLEAN
    /\ due \subseteq Deliveries
    /\ alive \in BOOLEAN /\ armed \in BOOLEAN /\ loaded \in BOOLEAN
    /\ lock \in {"free", "executor"} \cup Ops
    /\ queue \in Seq(Tasks)
    /\ rearm \in {"none", "pending", "running"}
    /\ hw \in {"unloaded", "loaded", "listening"}
    /\ phase \in [Ops -> Phases]
    /\ calls \in [Ops -> 0..2]
    /\ applied \in BOOLEAN /\ excused \in BOOLEAN

CanArm == SystemUser /\ foreground /\ enabled

Init ==
    /\ enabled \in BOOLEAN /\ foreground \in BOOLEAN
    /\ due = {"apply"}
    /\ alive = FALSE /\ armed = FALSE /\ loaded = FALSE
    /\ lock = "free" /\ queue = <<>>
    /\ rearm = "none" /\ hw = "unloaded"
    /\ phase = [o \in Ops |-> "none"] /\ calls = [o \in Ops |-> 0]
    /\ applied = FALSE /\ excused = FALSE

-----------------------------------------------------------------------------
(* The world: settings, user switches, broadcasts.                         *)

\* Settings writes the flag and then calls apply_enabled.
SetEnabled ==
    /\ enabled' = ~enabled
    /\ due' = due \cup {"apply"}
    /\ applied' = FALSE
    /\ UNCHANGED <<foreground, alive, memory, lock, queue, rearm, hw,
                   operations, excused>>

\* Only a live process has registered for the user-switch broadcasts.
SwitchUser ==
    /\ foreground' = ~foreground
    /\ due' = IF alive THEN due \cup {"foreground"} ELSE due
    /\ excused' = (excused \/ (~alive /\ due = {}))
    /\ applied' = FALSE
    /\ UNCHANGED <<enabled, alive, memory, lock, queue, rearm, hw, operations>>

\* BootReceiver.onReceive, SettingsProvider.call: an applyEnabled task.
Deliver(d) ==
    /\ d \in due
    /\ Len(queue) < QueueBound
    /\ due' = due \ {d}
    /\ queue' = Append(queue, "apply")
    /\ alive' = TRUE
    /\ UNCHANGED <<flags, memory, lock, rearm, hw, operations, applied, excused>>

-----------------------------------------------------------------------------
(* JobScheduler and the rearm half of ShardDownloadJobService.             *)

\* The tasks of a rearm job that is cancelled, replaced or stopped.
Orphaned(q) == [i \in 1..Len(q) |-> IF q[i] = "rearm" THEN "stale" ELSE q[i]]

StartRearmJob ==
    /\ rearm = "pending"
    /\ Len(queue) < QueueBound
    /\ rearm' = "running"
    /\ queue' = Append(queue, "rearm")
    /\ alive' = TRUE
    /\ UNCHANGED <<flags, due, memory, lock, hw, operations, applied, excused>>

\* Mutant: onStopJob only asks for another run, its task stays in charge.
StopRearmJobUnorphaned ==
    /\ rearm = "running"
    /\ rearm' = "pending"
    /\ UNCHANGED <<flags, due, alive, memory, lock, queue, hw, operations,
                   applied, excused>>

\* onStopJob forgets the operation and asks for the job to be rescheduled.
StopRearmJob ==
    /\ rearm = "running"
    /\ rearm' = "pending"
    /\ queue' = Orphaned(queue)
    /\ UNCHANGED <<flags, due, alive, memory, lock, hw, operations, applied,
                   excused>>

-----------------------------------------------------------------------------
(* The executor: arm, applyEnabled and disarm.  An apply task cancels the  *)
(* pending rearm job, a rearm task does not cancel the job it serves.      *)

Turn == lock = "free" /\ queue # <<>>

\* Mutant: applyEnabled does not cancel the rearm job.
NeverCancels == FALSE

CancelsRearm == Head(queue) = "apply"
RearmKept == IF CancelsRearm THEN "none" ELSE rearm
QueueKept == IF CancelsRearm THEN Orphaned(queue) ELSE queue

\* The head task returns: the completion of a rearm task finishes its job.
Complete(r, q) ==
    /\ rearm' = IF Head(q) = "rearm" THEN "none" ELSE r
    /\ queue' = Tail(q)

AppliedNow == applied' = (applied \/ Head(queue) = "apply")

ArmAlready ==
    /\ Turn /\ CanArm /\ armed
    /\ Complete(RearmKept, QueueKept)
    /\ AppliedNow
    /\ excused' = FALSE
    /\ UNCHANGED <<flags, due, alive, memory, lock, hw, operations>>

\* loadModel replaces whatever model the DSP holds; a start that fails
\* reloads and starts once more, so that a DSP that lost the model recovers.
ArmStart ==
    /\ Turn /\ CanArm /\ ~armed
    /\ rearm' = RearmKept
    /\ queue' = QueueKept
    /\ loaded' = TRUE
    /\ hw' = "listening"
    /\ lock' = "executor"
    /\ AppliedNow
    /\ excused' = FALSE
    /\ UNCHANGED <<flags, due, alive, armed, operations>>

ArmEnd ==
    /\ lock = "executor"
    /\ armed' = TRUE
    /\ lock' = "free"
    /\ Complete(rearm, queue)
    /\ UNCHANGED <<flags, due, alive, loaded, hw, operations, applied, excused>>

\* The load or both starts fail: the exception is logged, nothing retries.
ArmFails ==
    /\ Faults /\ Turn /\ CanArm /\ ~armed
    /\ Complete(RearmKept, QueueKept)
    /\ \/ loaded' = FALSE /\ hw' \in {hw, "unloaded"}
       \/ loaded' = TRUE /\ hw' = "loaded"
    /\ AppliedNow
    /\ excused' = TRUE
    /\ UNCHANGED <<flags, due, alive, armed, lock, operations>>

\* Mutant: a model is unloaded only when it is believed to be armed.
DisarmIfArmed ==
    /\ Turn /\ ~CanArm
    /\ Complete(RearmKept, QueueKept)
    /\ armed' = FALSE /\ loaded' = FALSE
    /\ hw' = IF loaded /\ armed THEN "unloaded" ELSE hw
    /\ AppliedNow
    /\ UNCHANGED <<flags, due, alive, lock, operations, excused>>

\* Stopping and unloading may fail too: armed and loaded are reset anyway.
Disarm ==
    /\ Turn /\ ~CanArm
    /\ Complete(RearmKept, QueueKept)
    /\ armed' = FALSE /\ loaded' = FALSE
    /\ hw' \in IF ~loaded THEN {hw}
               ELSE {"unloaded"} \cup (IF Faults THEN {hw} ELSE {})
    /\ AppliedNow
    /\ UNCHANGED <<flags, due, alive, lock, operations, excused>>

-----------------------------------------------------------------------------
(* The DSP and SoundTriggerService.                                        *)

Idle(o) == phase[o] = "none" /\ calls[o] = 0

\* Recognition is one-shot: firing ends it and starts an operation.
Trigger(o) ==
    /\ hw = "listening" /\ Idle(o)
    /\ hw' = "loaded"
    /\ phase' = [phase EXCEPT ![o] = "fired"]
    /\ UNCHANGED <<flags, due, alive, memory, lock, queue, rearm, calls,
                   applied, excused>>

\* Recognition is aborted, with or without losing the model.
HardwareError(o) ==
    /\ hw = "listening" /\ Idle(o)
    /\ hw' \in {"loaded", "unloaded"}
    /\ phase' = [phase EXCEPT ![o] = "failed"]
    /\ UNCHANGED <<flags, due, alive, memory, lock, queue, rearm, calls,
                   applied, excused>>

-----------------------------------------------------------------------------
(* NowPlayingDetectionService.                                             *)

\* Mutant: markTriggered is not synchronized.
OnRecognitionEventUnlocked(o) ==
    /\ phase[o] = "fired"
    /\ armed' = FALSE
    /\ phase' = [phase EXCEPT ![o] = "queued"]
    /\ alive' = TRUE
    /\ UNCHANGED <<flags, due, loaded, lock, queue, rearm, hw, calls, applied,
                   excused>>

\* markTriggered, then the recognition task is submitted.
OnRecognitionEvent(o) ==
    /\ phase[o] = "fired" /\ lock = "free"
    /\ armed' = FALSE
    /\ phase' = [phase EXCEPT ![o] = "queued"]
    /\ alive' = TRUE
    /\ UNCHANGED <<flags, due, loaded, lock, queue, rearm, hw, calls, applied,
                   excused>>

\* markTriggered, then armAfter on the same thread.
OnError(o) ==
    /\ phase[o] = "failed" /\ lock = "free"
    /\ armed' = FALSE
    /\ phase' = [phase EXCEPT ![o] = "finishing"]
    /\ calls' = [calls EXCEPT ![o] = 1]
    /\ alive' = TRUE
    /\ UNCHANGED <<flags, due, loaded, lock, queue, rearm, hw, applied, excused>>

\* Mutant: the finally block reports the operation finished, and no more.
FinishWithoutRearm(o) ==
    /\ phase[o] = "queued"
    /\ phase' = [phase EXCEPT ![o] = "none"]
    /\ UNCHANGED <<flags, due, alive, memory, lock, queue, rearm, hw, calls,
                   applied, excused>>

\* handleRecognition returned or threw: the finally block forgets the
\* operation, finds it not stopped, and goes on to armAfter.
FinishRecognition(o) ==
    /\ phase[o] = "queued"
    /\ phase' = [phase EXCEPT ![o] = "finishing"]
    /\ calls' = [calls EXCEPT ![o] = 1]
    /\ UNCHANGED <<flags, due, alive, memory, lock, queue, rearm, hw, applied,
                   excused>>

\* Mutant: an operation can be stopped again after it was stopped.
RepeatedStop(o) ==
    /\ phase' = [phase EXCEPT ![o] = "none"]
    /\ calls' = [calls EXCEPT ![o] = @ + 1]
    /\ UNCHANGED <<flags, due, alive, memory, lock, queue, rearm, hw, applied,
                   excused>>

\* Mutant: a stopped operation leaves rearming to its recognition task.
StopWithoutRearm(o) ==
    /\ phase[o] \in {"queued", "finishing"}
    /\ phase' = [phase EXCEPT ![o] = "none"]
    /\ UNCHANGED <<flags, due, alive, memory, lock, queue, rearm, hw, calls,
                   applied, excused>>

\* The operation timed out.  Its task, stopped or cancelled, will not call
\* armAfter any more, unless it already got past that check.
OnStopOperation(o) ==
    /\ phase[o] \in {"queued", "finishing"}
    /\ phase' = [phase EXCEPT ![o] = "none"]
    /\ calls' = [calls EXCEPT ![o] = @ + 1]
    /\ UNCHANGED <<flags, due, alive, memory, lock, queue, rearm, hw, applied,
                   excused>>

\* The end of an armAfter call: a finishing operation reports itself finished.
Returned(o) ==
    /\ calls' = [calls EXCEPT ![o] = @ - 1]
    /\ phase' = [phase EXCEPT ![o] = IF @ = "finishing" THEN "none" ELSE @]

ArmAfterSkip(o) ==
    /\ calls[o] > 0 /\ lock = "free" /\ ~CanArm
    /\ Returned(o)
    /\ UNCHANGED <<flags, due, alive, memory, lock, queue, rearm, hw, applied,
                   excused>>

ArmAfterEnter(o) ==
    /\ calls[o] > 0 /\ lock = "free" /\ CanArm
    /\ lock' = o
    /\ UNCHANGED <<flags, due, alive, memory, queue, rearm, hw, operations,
                   applied, excused>>

\* schedule replaces a pending or running rearm job; its failure is ignored.
ArmAfterSchedule(o) ==
    /\ lock = o
    /\ lock' = "free"
    /\ Returned(o)
    /\ \/ /\ rearm' = "pending" /\ queue' = Orphaned(queue)
          /\ UNCHANGED excused
       \/ /\ Faults /\ excused' = TRUE
          /\ UNCHANGED <<queue, rearm>>
    /\ UNCHANGED <<flags, due, alive, memory, hw, applied>>

-----------------------------------------------------------------------------
(* The death of the process and of the device.                             *)

HasApply(q) == \E i \in 1..Len(q) : q[i] = "apply"

\* What dies with the process and nobody repeats.
Irretrievable ==
    \/ \E o \in Ops : phase[o] \in {"queued", "finishing"} \/ calls[o] > 0
    \/ HasApply(queue)
    \/ "foreground" \in due

ProcessGone ==
    /\ alive' = FALSE /\ armed' = FALSE /\ loaded' = FALSE
    /\ lock' = "free" /\ queue' = <<>>
    /\ calls' = [o \in Ops |-> 0]

\* The DSP, events not yet delivered and the job survive the process.
Kill ==
    /\ Faults /\ alive
    /\ ProcessGone
    /\ phase' = [o \in Ops |-> IF phase[o] \in {"fired", "failed"}
                               THEN phase[o] ELSE "none"]
    /\ due' = due \ {"foreground"}
    /\ rearm' = IF rearm = "running" THEN "pending" ELSE rearm
    /\ excused' = (excused \/ Irretrievable)
    /\ UNCHANGED <<flags, hw, applied>>

\* The rearm job is not persisted; the boot broadcasts follow.
Reboot ==
    /\ Faults
    /\ ProcessGone
    /\ phase' = [o \in Ops |-> "none"]
    /\ due' = {"apply"}
    /\ rearm' = "none" /\ hw' = "unloaded"
    /\ applied' = FALSE
    /\ UNCHANGED <<flags, excused>>

-----------------------------------------------------------------------------
Next ==
    \/ SetEnabled \/ SwitchUser
    \/ \E d \in Deliveries : Deliver(d)
    \/ StartRearmJob \/ StopRearmJob
    \/ ArmAlready \/ ArmStart \/ ArmEnd \/ ArmFails \/ Disarm
    \/ \E o \in Ops :
          \/ Trigger(o) \/ HardwareError(o)
          \/ OnRecognitionEvent(o) \/ OnError(o)
          \/ FinishRecognition(o) \/ OnStopOperation(o)
          \/ ArmAfterSkip(o) \/ ArmAfterEnter(o) \/ ArmAfterSchedule(o)
    \/ Kill \/ Reboot

Spec == Init /\ [][Next]_vars

(***************************************************************************)
(* Threads that can run do, the framework delivers what it was given, and  *)
(* it stops an operation that does not finish.  Delivery is strongly fair  *)
(* because QueueBound is not in the code.  Nothing makes the DSP fire.     *)
(***************************************************************************)
Fairness ==
    /\ \A d \in Deliveries : SF_vars(Deliver(d))
    /\ SF_vars(StartRearmJob)
    /\ WF_vars(ArmAlready \/ ArmStart \/ ArmEnd \/ Disarm)
    /\ \A o \in Ops :
          /\ WF_vars(OnRecognitionEvent(o) \/ OnError(o))
          /\ WF_vars(FinishRecognition(o) \/ OnStopOperation(o))
          /\ WF_vars(ArmAfterSkip(o) \/ ArmAfterEnter(o) \/ ArmAfterSchedule(o))

FairSpec == Spec /\ Fairness

-----------------------------------------------------------------------------
(* Properties.                                                             *)

\* When the controller believes the DSP is armed, it is, or the event that
\* ended recognition is still on its way to the service (the monitor keeps
\* markTriggered from running between startRecognition and armed = true).
EventInFlight == \E o \in Ops : phase[o] \in {"fired", "failed"}
ArmedIsTrue == armed => hw = "listening" \/ EventInFlight

\* Once applyEnabled has run for flags that forbid recognition, no operation
\* that was under way leaves the DSP armed or a rearm job behind.
OffStaysOff == applied /\ ~CanArm => ~armed /\ rearm = "none"

\* Recognition is never forgotten: while it is allowed and no fault is to
\* blame, the DSP listens or something under way will arm it again.
UnderWay ==
    \/ EventInFlight
    \/ \E o \in Ops : phase[o] # "none" \/ calls[o] > 0
    \/ rearm # "none"
    \/ due # {}
    \/ HasApply(queue)
NeverForgotten == CanArm /\ ~excused => hw = "listening" \/ UnderWay

\* A running rearm job always has exactly one task that will finish it, and
\* no other task finishes it.
RearmTasks(q) == {i \in 1..Len(q) : q[i] = "rearm"}
OneTask(r, q) ==
    /\ r = "running" <=> RearmTasks(q) # {}
    /\ \A i, j \in RearmTasks(q) : i = j
OneTaskPerJob == OneTask(rearm, queue)

\* Without faults, flags that forbid recognition end up with a silent DSP.
OffSilencesDSP == ~Faults /\ applied /\ ~CanArm => hw # "listening"

\* Whenever recognition is allowed and stays so, the DSP listens again.
ListensAgain == CanArm ~> (hw = "listening" \/ ~CanArm)

\* Whenever recognition is forbidden and stays so, everything ends.
ComesToRest == ~CanArm ~> (CanArm \/ (hw # "listening" /\ rearm = "none"))

=============================================================================

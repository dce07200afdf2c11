------------------------- MODULE SoundTriggerProofs -------------------------
(***************************************************************************)
(* The safety of the recognition cycle, for every set of operations, every *)
(* queue bound, with and without faults.                                   *)
(*                                                                         *)
(* None of the properties is inductive alone.  What carries them is what   *)
(* holds inside the controller's monitor (Inside): while the executor is   *)
(* between startRecognition and armed = true its task is still the head of *)
(* its queue, and the DSP listens or has an event for the service, which   *)
(* markTriggered cannot consume yet; and whoever is inside decided so      *)
(* under flags that no applyEnabled has overruled.                         *)
(***************************************************************************)
EXTENDS SoundTrigger, SequenceTheorems, TLAPS

\* What operations owe: none before a stop or the end of their task.
CallsOwed ==
    \A o \in Ops :
        /\ phase[o] \in {"fired", "failed", "queued"} => calls[o] = 0
        /\ phase[o] = "finishing" => calls[o] = 1
        /\ lock = o => calls[o] > 0

Inside ==
    /\ lock = "executor" => queue # <<>> /\ (hw = "listening" \/ EventInFlight)
    /\ lock # "free" /\ applied => CanArm

\* Without faults a DSP that listens holds a model the controller knows of.
ModelKnown == ~Faults /\ hw = "listening" => loaded

IInv ==
    /\ TypeOK /\ CallsOwed /\ Inside
    /\ OneTaskPerJob /\ ArmedIsTrue /\ OffStaysOff /\ NeverForgotten
    /\ ModelKnown /\ OffSilencesDSP

-----------------------------------------------------------------------------
(* The executor's queue.                                                   *)

\* Orphaning a queue keeps its length and order, and leaves no rearm task.
LEMMA OrphanedQueue ==
    ASSUME NEW q \in Seq(Tasks)
    PROVE  /\ Orphaned(q) \in Seq(Tasks)
           /\ Len(Orphaned(q)) = Len(q)
           /\ RearmTasks(Orphaned(q)) = {}
           /\ q # <<>> => /\ Orphaned(q) # <<>>
                          /\ Head(q) = "apply" => Head(Orphaned(q)) = "apply"
<1>1. /\ Len(q) \in Nat
      /\ \A i \in 1..Len(q) : q[i] \in Tasks
  BY LenProperties, ElementOfSeq
<1>2. Orphaned(q) \in [1..Len(q) -> Tasks]
  BY <1>1 DEF Orphaned, Tasks
<1>3. Orphaned(q) \in Seq(Tasks) /\ Len(Orphaned(q)) = Len(q)
  BY <1>1, <1>2
<1>4. RearmTasks(Orphaned(q)) = {}
  BY <1>1, <1>3 DEF RearmTasks, Orphaned
<1>5. ASSUME q # <<>>
      PROVE  /\ Orphaned(q) # <<>>
             /\ Head(q) = "apply" => Head(Orphaned(q)) = "apply"
  <2>1. Len(q) > 0
    BY <1>1, <1>5, EmptySeq
  <2>2. Head(q) = q[1] /\ Head(Orphaned(q)) = Orphaned(q)[1]
    BY <2>1, <1>3
  <2>3. 1 \in 1..Len(q)
    BY <2>1, <1>1
  <2>. QED
    BY <2>1, <2>2, <2>3, <1>3 DEF Orphaned
<1>. QED
  BY <1>3, <1>4, <1>5

\* A job that does not run owns no task of an orphaned queue.
LEMMA OrphanedOneTask ==
    ASSUME NEW q \in Seq(Tasks), NEW r, r # "running"
    PROVE  OneTask(r, Orphaned(q))
BY OrphanedQueue DEF OneTask

LEMMA AppendApply ==
    ASSUME NEW q \in Seq(Tasks), NEW r, OneTask(r, q)
    PROVE  /\ Append(q, "apply") \in Seq(Tasks)
           /\ Append(q, "apply") # <<>>
           /\ OneTask(r, Append(q, "apply"))
           /\ HasApply(Append(q, "apply"))
<1>1. /\ Append(q, "apply") \in Seq(Tasks)
      /\ Len(Append(q, "apply")) = Len(q) + 1
      /\ \A i \in 1..Len(q) : Append(q, "apply")[i] = q[i]
      /\ Append(q, "apply")[Len(q) + 1] = "apply"
      /\ Len(q) \in Nat
  BY DEF Tasks
<1>2. RearmTasks(Append(q, "apply")) = RearmTasks(q)
  BY <1>1 DEF RearmTasks
<1>. QED
  BY <1>1, <1>2 DEF OneTask, HasApply

LEMMA AppendRearm ==
    ASSUME NEW q \in Seq(Tasks), NEW r, OneTask(r, q), r # "running"
    PROVE  /\ Append(q, "rearm") \in Seq(Tasks)
           /\ Append(q, "rearm") # <<>>
           /\ OneTask("running", Append(q, "rearm"))
<1>1. /\ Append(q, "rearm") \in Seq(Tasks)
      /\ Len(Append(q, "rearm")) = Len(q) + 1
      /\ \A i \in 1..Len(q) : Append(q, "rearm")[i] = q[i]
      /\ Append(q, "rearm")[Len(q) + 1] = "rearm"
      /\ Len(q) \in Nat
  BY DEF Tasks
<1>2. RearmTasks(Append(q, "rearm")) = {Len(q) + 1}
  <2>1. RearmTasks(q) = {}
    BY DEF OneTask
  <2>. QED
    BY <1>1, <2>1 DEF RearmTasks
<1>3. OneTask("running", Append(q, "rearm"))
  BY <1>2 DEF OneTask
<1>. QED
  BY <1>1, <1>3

\* Completing the head task of a rearm job finishes the job, and completing
\* any other leaves the job with the task it has.
LEMMA TailOneTask ==
    ASSUME NEW q \in Seq(Tasks), NEW r, OneTask(r, q), q # <<>>
    PROVE  /\ Tail(q) \in Seq(Tasks)
           /\ OneTask(IF Head(q) = "rearm" THEN "none" ELSE r, Tail(q))
<1>1. /\ Len(q) \in Nat /\ Len(q) > 0
      /\ Head(q) = q[1]
      /\ Tail(q) \in Seq(Tasks)
      /\ Len(Tail(q)) = Len(q) - 1
      /\ \A i \in 1..Len(Tail(q)) : Tail(q)[i] = q[i + 1]
  BY HeadTailProperties, EmptySeq, LenProperties
<1>2. \A i \in RearmTasks(Tail(q)) : i \in Nat /\ i > 0 /\ i + 1 \in RearmTasks(q)
  BY <1>1 DEF RearmTasks
<1>3. CASE Head(q) = "rearm"
  <2>1. 1 \in RearmTasks(q)
    BY <1>1, <1>3 DEF RearmTasks
  <2>2. RearmTasks(Tail(q)) = {}
    BY <1>2, <2>1 DEF OneTask
  <2>. QED
    BY <1>1, <1>3, <2>2 DEF OneTask
<1>4. CASE Head(q) # "rearm"
  <2>1. \A i \in RearmTasks(q) : i \in Nat /\ i > 1 /\ i - 1 \in RearmTasks(Tail(q))
    BY <1>1, <1>4 DEF RearmTasks
  <2>2. RearmTasks(Tail(q)) # {} <=> RearmTasks(q) # {}
    BY <1>2, <2>1
  <2>3. \A i, j \in RearmTasks(Tail(q)) : i = j
    BY <1>2 DEF OneTask
  <2>. QED
    BY <1>1, <1>4, <2>2, <2>3 DEF OneTask
<1>. QED
  BY <1>3, <1>4

\* What an executor task keeps of the rearm job and of the queue.
LEMMA KeptByTask ==
    ASSUME TypeOK, OneTaskPerJob, queue # <<>>
    PROVE  /\ QueueKept \in Seq(Tasks) /\ QueueKept # <<>>
           /\ RearmKept \in {"none", "pending", "running"}
           /\ OneTask(RearmKept, QueueKept)
           /\ Head(queue) = "apply" \/ rearm = "none" => RearmKept = "none"
<1>1. queue \in Seq(Tasks) /\ rearm \in {"none", "pending", "running"}
  BY DEF TypeOK
<1>2. CASE CancelsRearm
  BY <1>1, <1>2, OrphanedQueue, OrphanedOneTask DEF CancelsRearm, RearmKept, QueueKept
<1>3. CASE ~CancelsRearm
  BY <1>1, <1>3 DEF CancelsRearm, RearmKept, QueueKept, OneTaskPerJob
<1>. QED
  BY <1>2, <1>3

LEMMA CompletedByTask ==
    ASSUME TypeOK, OneTaskPerJob, queue # <<>>, Complete(RearmKept, QueueKept)
    PROVE  /\ queue' \in Seq(Tasks)
           /\ rearm' \in {"none", "pending", "running"}
           /\ OneTaskPerJob'
           /\ Head(queue) = "apply" \/ rearm = "none" => rearm' = "none"
<1>1. /\ QueueKept \in Seq(Tasks) /\ QueueKept # <<>>
      /\ RearmKept \in {"none", "pending", "running"}
      /\ OneTask(RearmKept, QueueKept)
      /\ Head(queue) = "apply" \/ rearm = "none" => RearmKept = "none"
  BY KeptByTask
<1>2. queue' = Tail(QueueKept)
      /\ rearm' = IF Head(QueueKept) = "rearm" THEN "none" ELSE RearmKept
  BY DEF Complete
<1>3. Tail(QueueKept) \in Seq(Tasks) /\ OneTask(rearm', queue')
  BY <1>1, <1>2, TailOneTask
<1>. QED
  BY <1>1, <1>2, <1>3 DEF OneTaskPerJob

LEMMA CompletedByArmEnd ==
    ASSUME TypeOK, OneTaskPerJob, queue # <<>>, Complete(rearm, queue)
    PROVE  /\ queue' \in Seq(Tasks)
           /\ rearm' \in {"none", "pending", "running"}
           /\ OneTaskPerJob'
           /\ rearm = "none" => rearm' = "none"
BY TailOneTask DEF Complete, OneTaskPerJob, TypeOK

-----------------------------------------------------------------------------
(* The parts of the inductive invariant, each kept by every step.          *)

\* Every variable keeps its type, and a rearm job its one task.
LEMMA TypeStep ==
    ASSUME TypeOK, OneTaskPerJob, CallsOwed, Inside, [Next]_vars
    PROVE  TypeOK' /\ OneTaskPerJob'
<1>. USE DEF flags, memory, operations
<1>1. CASE SetEnabled
  BY <1>1 DEF SetEnabled, TypeOK, OneTaskPerJob, Deliveries
<1>2. CASE SwitchUser
  BY <1>2 DEF SwitchUser, TypeOK, OneTaskPerJob, Deliveries
<1>3. ASSUME NEW d \in Deliveries, Deliver(d)
      PROVE  TypeOK' /\ OneTaskPerJob'
  BY <1>3, AppendApply DEF Deliver, TypeOK, OneTaskPerJob, Deliveries
<1>4. CASE StartRearmJob
  BY <1>4, AppendRearm DEF StartRearmJob, TypeOK, OneTaskPerJob
<1>5. CASE StopRearmJob
  BY <1>5, OrphanedQueue, OrphanedOneTask DEF StopRearmJob, TypeOK, OneTaskPerJob
<1>6. CASE ArmAlready
  BY <1>6, CompletedByTask DEF ArmAlready, Turn, AppliedNow, TypeOK
<1>7. CASE ArmStart
  BY <1>7, KeptByTask DEF ArmStart, Turn, AppliedNow, TypeOK, OneTaskPerJob
<1>8. CASE ArmEnd
  BY <1>8, CompletedByArmEnd DEF ArmEnd, Inside, TypeOK
<1>9. CASE ArmFails
  <2>1. hw' \in {"unloaded", "loaded", "listening"} /\ loaded' \in BOOLEAN
    BY <1>9 DEF ArmFails, TypeOK
  <2>. QED
    BY <1>9, <2>1, CompletedByTask DEF ArmFails, Turn, AppliedNow, TypeOK
<1>10. CASE Disarm
  <2>1. hw' \in {"unloaded", "loaded", "listening"}
    BY <1>10 DEF Disarm, TypeOK
  <2>. QED
    BY <1>10, <2>1, CompletedByTask DEF Disarm, Turn, AppliedNow, TypeOK
<1>11. ASSUME NEW o \in Ops, Trigger(o) \/ HardwareError(o)
       PROVE  TypeOK' /\ OneTaskPerJob'
  BY <1>11 DEF Trigger, HardwareError, TypeOK, OneTaskPerJob, Phases
<1>12. ASSUME NEW o \in Ops,
              OnRecognitionEvent(o) \/ OnError(o) \/ FinishRecognition(o)
       PROVE  TypeOK' /\ OneTaskPerJob'
  <2>1. phase' \in [Ops -> Phases]
    BY <1>12 DEF OnRecognitionEvent, OnError, FinishRecognition, TypeOK, Phases
  <2>2. calls' \in [Ops -> 0..2]
    BY <1>12 DEF OnRecognitionEvent, OnError, FinishRecognition, TypeOK
  <2>3. CASE OnRecognitionEvent(o)
    BY <2>1, <2>2, <2>3 DEF OnRecognitionEvent, TypeOK, OneTaskPerJob
  <2>4. CASE OnError(o)
    BY <2>1, <2>2, <2>4 DEF OnError, TypeOK, OneTaskPerJob
  <2>5. CASE FinishRecognition(o)
    BY <2>1, <2>2, <2>5 DEF FinishRecognition, TypeOK, OneTaskPerJob
  <2>. QED
    BY <1>12, <2>3, <2>4, <2>5
<1>13. ASSUME NEW o \in Ops, OnStopOperation(o)
       PROVE  TypeOK' /\ OneTaskPerJob'
  BY <1>13 DEF OnStopOperation, CallsOwed, TypeOK, OneTaskPerJob, Phases
<1>14. ASSUME NEW o \in Ops, calls[o] > 0, Returned(o)
       PROVE  phase' \in [Ops -> Phases] /\ calls' \in [Ops -> 0..2]
  BY <1>14 DEF Returned, TypeOK, Phases
<1>15. ASSUME NEW o \in Ops, ArmAfterSkip(o) \/ ArmAfterEnter(o)
       PROVE  TypeOK' /\ OneTaskPerJob'
  BY <1>14, <1>15 DEF ArmAfterSkip, ArmAfterEnter, TypeOK, OneTaskPerJob
<1>16. ASSUME NEW o \in Ops, ArmAfterSchedule(o)
       PROVE  TypeOK' /\ OneTaskPerJob'
  <2>1. calls[o] > 0
    BY <1>16 DEF ArmAfterSchedule, CallsOwed
  <2>2. queue' \in Seq(Tasks) /\ rearm' \in {"none", "pending", "running"}
        /\ OneTaskPerJob'
    BY <1>16, OrphanedQueue, OrphanedOneTask
       DEF ArmAfterSchedule, TypeOK, OneTaskPerJob
  <2>. QED
    BY <1>14, <1>16, <2>1, <2>2 DEF ArmAfterSchedule, TypeOK
<1>17. CASE Kill \/ Reboot
  <2>1. <<>> \in Seq(Tasks) /\ RearmTasks(<<>>) = {}
    BY DEF RearmTasks
  <2>2. calls' \in [Ops -> 0..2] /\ phase' \in [Ops -> Phases]
    BY <1>17 DEF Kill, Reboot, ProcessGone, TypeOK, Phases
  <2>. QED
    BY <1>17, <2>1, <2>2
       DEF Kill, Reboot, ProcessGone, TypeOK, OneTaskPerJob, OneTask, Deliveries
<1>18. CASE UNCHANGED vars
  BY <1>18 DEF vars, TypeOK, OneTaskPerJob
<1>. QED
  BY <1>1, <1>2, <1>3, <1>4, <1>5, <1>6, <1>7, <1>8, <1>9, <1>10, <1>11,
     <1>12, <1>13, <1>15, <1>16, <1>17, <1>18 DEF Next

\* Operations keep owing what their phase says.
LEMMA CallsStep ==
    ASSUME TypeOK, CallsOwed, [Next]_vars
    PROVE  CallsOwed'
<1>. USE DEF flags, memory, operations
<1>1. ASSUME UNCHANGED operations, lock' \in {lock, "free", "executor"}
      PROVE  CallsOwed'
  BY <1>1, ConstantsOK DEF CallsOwed
<1>2. ASSUME NEW o \in Ops, Trigger(o) \/ HardwareError(o)
      PROVE  CallsOwed'
  BY <1>2 DEF Trigger, HardwareError, Idle, CallsOwed, TypeOK
<1>3. ASSUME NEW o \in Ops,
             OnRecognitionEvent(o) \/ OnError(o) \/ FinishRecognition(o)
      PROVE  CallsOwed'
  BY <1>3 DEF OnRecognitionEvent, OnError, FinishRecognition, CallsOwed, TypeOK
<1>4. ASSUME NEW o \in Ops, OnStopOperation(o)
      PROVE  CallsOwed'
  BY <1>4 DEF OnStopOperation, CallsOwed, TypeOK
<1>5. ASSUME NEW o \in Ops, lock' = "free", calls[o] > 0, Returned(o)
      PROVE  CallsOwed'
  BY <1>5, ConstantsOK DEF Returned, CallsOwed, TypeOK
<1>6. ASSUME NEW o \in Ops, ArmAfterSkip(o) \/ ArmAfterSchedule(o)
      PROVE  CallsOwed'
  BY <1>5, <1>6 DEF ArmAfterSkip, ArmAfterSchedule, CallsOwed
<1>7. ASSUME NEW o \in Ops, ArmAfterEnter(o)
      PROVE  CallsOwed'
  BY <1>7 DEF ArmAfterEnter, CallsOwed
<1>8. CASE Kill \/ Reboot
  BY <1>8, ConstantsOK DEF Kill, Reboot, ProcessGone, CallsOwed, TypeOK
<1>9. CASE UNCHANGED vars
  BY <1>1, <1>9 DEF vars
<1>. QED
  BY <1>1, <1>2, <1>3, <1>4, <1>6, <1>7, <1>8, <1>9
     DEF Next, SetEnabled, SwitchUser, Deliver, StartRearmJob, StopRearmJob,
         ArmAlready, ArmStart, ArmEnd, ArmFails, Disarm

\* Inside the monitor the DSP cannot escape, nor can the decision be overruled.
LEMMA InsideStep ==
    ASSUME TypeOK, OneTaskPerJob, Inside, [Next]_vars
    PROVE  Inside'
<1>. USE DEF flags, memory, operations
<1>1. CASE SetEnabled \/ SwitchUser
  BY <1>1 DEF SetEnabled, SwitchUser, Inside, EventInFlight
<1>2. ASSUME NEW d \in Deliveries, Deliver(d)
      PROVE  Inside'
  BY <1>2, AppendApply DEF Deliver, Inside, EventInFlight, CanArm, TypeOK, OneTaskPerJob
<1>3. CASE StartRearmJob
  BY <1>3, AppendRearm DEF StartRearmJob, Inside, EventInFlight, CanArm, TypeOK, OneTaskPerJob
<1>4. CASE StopRearmJob
  BY <1>4, OrphanedQueue DEF StopRearmJob, Inside, EventInFlight, CanArm, TypeOK
<1>5. CASE ArmStart
  BY <1>5, KeptByTask DEF ArmStart, Turn, Inside, CanArm
<1>6. CASE ArmAlready \/ ArmEnd \/ ArmFails \/ Disarm
  BY <1>6 DEF ArmAlready, ArmEnd, ArmFails, Disarm, Turn, Inside
<1>7. ASSUME NEW o \in Ops, Trigger(o) \/ HardwareError(o)
      PROVE  Inside'
  <2>1. EventInFlight'
    BY <1>7 DEF Trigger, HardwareError, EventInFlight, TypeOK
  <2>. QED
    BY <1>7, <2>1 DEF Trigger, HardwareError, Inside, CanArm
<1>8. ASSUME NEW o \in Ops, OnRecognitionEvent(o) \/ OnError(o)
      PROVE  Inside'
  BY <1>8 DEF OnRecognitionEvent, OnError, Inside
<1>9. ASSUME NEW o \in Ops, FinishRecognition(o) \/ OnStopOperation(o)
      PROVE  Inside'
  <2>1. EventInFlight => EventInFlight'
    BY <1>9 DEF FinishRecognition, OnStopOperation, EventInFlight, TypeOK
  <2>. QED
    BY <1>9, <2>1 DEF FinishRecognition, OnStopOperation, Inside, CanArm
<1>10. ASSUME NEW o \in Ops, ArmAfterSkip(o) \/ ArmAfterSchedule(o)
       PROVE  Inside'
  BY <1>10 DEF ArmAfterSkip, ArmAfterSchedule, Inside
<1>11. ASSUME NEW o \in Ops, ArmAfterEnter(o)
       PROVE  Inside'
  BY <1>11, ConstantsOK DEF ArmAfterEnter, Inside, CanArm
<1>12. CASE Kill \/ Reboot
  BY <1>12 DEF Kill, Reboot, ProcessGone, Inside
<1>13. CASE UNCHANGED vars
  BY <1>13 DEF vars, Inside, EventInFlight, CanArm
<1>. QED
  BY <1>1, <1>2, <1>3, <1>4, <1>5, <1>6, <1>7, <1>8, <1>9, <1>10, <1>11,
     <1>12, <1>13 DEF Next

\* What a step does to events on their way to the service.
LEMMA EventsStep ==
    ASSUME TypeOK, NEW o \in Ops
    PROVE  /\ Trigger(o) \/ HardwareError(o) => EventInFlight'
           /\ FinishRecognition(o) \/ OnStopOperation(o)
                => (EventInFlight => EventInFlight')
           /\ ArmAfterSkip(o) \/ ArmAfterSchedule(o)
                => (EventInFlight => EventInFlight')
<1>1. Trigger(o) \/ HardwareError(o) => EventInFlight'
  BY DEF Trigger, HardwareError, EventInFlight, TypeOK
<1>2. FinishRecognition(o) \/ OnStopOperation(o) => (EventInFlight => EventInFlight')
  BY DEF FinishRecognition, OnStopOperation, EventInFlight, TypeOK
<1>3. Returned(o) => (EventInFlight => EventInFlight')
  BY DEF Returned, EventInFlight, TypeOK
<1>. QED
  BY <1>1, <1>2, <1>3 DEF ArmAfterSkip, ArmAfterSchedule

LEMMA ArmedStep ==
    ASSUME TypeOK, Inside, ArmedIsTrue, [Next]_vars
    PROVE  ArmedIsTrue'
<1>. USE DEF flags, memory, operations
<1>1. ASSUME UNCHANGED <<armed, hw, phase>>
      PROVE  ArmedIsTrue'
  BY <1>1 DEF ArmedIsTrue, EventInFlight
<1>2. CASE ArmStart \/ ArmEnd \/ ArmFails \/ Disarm
  BY <1>2 DEF ArmStart, ArmEnd, ArmFails, Disarm, Inside, ArmedIsTrue, EventInFlight
<1>3. ASSUME NEW o \in Ops, Trigger(o) \/ HardwareError(o)
      PROVE  ArmedIsTrue'
  BY <1>3, EventsStep DEF ArmedIsTrue
<1>4. ASSUME NEW o \in Ops, OnRecognitionEvent(o) \/ OnError(o)
      PROVE  ArmedIsTrue'
  BY <1>4 DEF OnRecognitionEvent, OnError, ArmedIsTrue
<1>5. ASSUME NEW o \in Ops,
             \/ FinishRecognition(o) \/ OnStopOperation(o)
             \/ ArmAfterSkip(o) \/ ArmAfterSchedule(o)
      PROVE  ArmedIsTrue'
  BY <1>5, EventsStep DEF FinishRecognition, OnStopOperation, ArmAfterSkip,
                          ArmAfterSchedule, ArmedIsTrue
<1>6. CASE Kill \/ Reboot
  BY <1>6 DEF Kill, Reboot, ProcessGone, ArmedIsTrue
<1>. QED
  BY <1>1, <1>2, <1>3, <1>4, <1>5, <1>6
     DEF Next, vars, SetEnabled, SwitchUser, Deliver, StartRearmJob, StopRearmJob,
         ArmAlready, ArmAfterEnter

LEMMA OffStep ==
    ASSUME TypeOK, OneTaskPerJob, CallsOwed, Inside, OffStaysOff, [Next]_vars
    PROVE  OffStaysOff'
<1>. USE DEF flags, memory, operations, CanArm
<1>1. CASE SetEnabled \/ SwitchUser \/ Reboot
  BY <1>1 DEF SetEnabled, SwitchUser, Reboot, OffStaysOff
<1>2. ASSUME UNCHANGED <<flags, applied>>, armed' \in {armed, FALSE},
             rearm' = rearm
      PROVE  OffStaysOff'
  BY <1>2 DEF OffStaysOff
<1>3. CASE StartRearmJob \/ StopRearmJob
  BY <1>3 DEF StartRearmJob, StopRearmJob, OffStaysOff
<1>4. CASE ArmAlready \/ ArmStart \/ ArmFails
  BY <1>4 DEF ArmAlready, ArmStart, ArmFails, OffStaysOff
<1>5. CASE ArmEnd
  <2>1. applied => CanArm
    BY <1>5, ConstantsOK DEF ArmEnd, Inside
  <2>. QED
    BY <1>5, <2>1 DEF ArmEnd, OffStaysOff
<1>6. CASE Disarm
  <2>1. Head(queue) = "apply" \/ rearm = "none" => rearm' = "none"
    BY <1>6, CompletedByTask DEF Disarm, Turn
  <2>2. applied' = (applied \/ Head(queue) = "apply") /\ ~armed'
    BY <1>6 DEF Disarm, AppliedNow
  <2>3. applied' /\ ~CanArm' => rearm' = "none"
    BY <1>6, <2>1, <2>2 DEF Disarm, OffStaysOff
  <2>. QED
    BY <2>2, <2>3 DEF OffStaysOff
<1>7. ASSUME NEW o \in Ops, ArmAfterSchedule(o)
      PROVE  OffStaysOff'
  <2>1. applied => CanArm
    BY <1>7, ConstantsOK DEF ArmAfterSchedule, Inside
  <2>. QED
    BY <1>7, <2>1 DEF ArmAfterSchedule, OffStaysOff
<1>8. CASE Kill
  BY <1>8 DEF Kill, ProcessGone, OffStaysOff
<1>. QED
  BY <1>1, <1>2, <1>3, <1>4, <1>5, <1>6, <1>7, <1>8
     DEF Next, vars, Deliver, Trigger, HardwareError, OnRecognitionEvent, OnError,
         FinishRecognition, OnStopOperation, ArmAfterSkip, ArmAfterEnter

\* Every step that takes away what would arm the DSP again leaves something
\* else that will, or is a fault, or happens while recognition is forbidden.
LEMMA ForgottenStep ==
    ASSUME TypeOK, OneTaskPerJob, CallsOwed, Inside, ArmedIsTrue, NeverForgotten,
           [Next]_vars
    PROVE  NeverForgotten'
<1>. USE DEF flags, memory, operations
<1>1. ASSUME hw' = "listening" \/ UnderWay' \/ ~CanArm' \/ excused'
      PROVE  NeverForgotten'
  BY <1>1 DEF NeverForgotten
<1>2. CASE SetEnabled
  <2>. UnderWay'
    BY <1>2 DEF SetEnabled, UnderWay
  <2>. QED
    BY <1>1
<1>3. CASE SwitchUser
  <2>1. excused' \/ due' # {}
    BY <1>3 DEF SwitchUser
  <2>. QED
    BY <1>1, <2>1 DEF UnderWay
<1>4. ASSUME NEW d \in Deliveries, Deliver(d)
      PROVE  NeverForgotten'
  <2>1. HasApply(queue)'
    BY <1>4, AppendApply DEF Deliver, TypeOK, OneTaskPerJob, HasApply
  <2>. QED
    BY <1>1, <2>1 DEF UnderWay
<1>5. CASE StartRearmJob \/ StopRearmJob
  <2>1. UnderWay'
    BY <1>5 DEF StartRearmJob, StopRearmJob, UnderWay
  <2>. QED
    BY <1>1, <2>1
<1>6. CASE ArmAlready
  <2>1. hw = "listening" \/ EventInFlight
    BY <1>6 DEF ArmAlready, ArmedIsTrue
  <2>2. hw' = "listening" \/ EventInFlight'
    BY <1>6, <2>1 DEF ArmAlready, EventInFlight
  <2>. QED
    BY <1>1, <2>2 DEF UnderWay
<1>7. CASE ArmStart
  BY <1>1, <1>7 DEF ArmStart
<1>8. CASE ArmEnd
  <2>1. hw' = "listening" \/ EventInFlight'
    BY <1>8 DEF ArmEnd, Inside, EventInFlight
  <2>. QED
    BY <1>1, <2>1 DEF UnderWay
<1>9. CASE ArmFails
  BY <1>1, <1>9 DEF ArmFails
<1>10. CASE Disarm
  <2>1. ~CanArm'
    BY <1>10 DEF Disarm, CanArm
  <2>. QED
    BY <1>1, <2>1
<1>11. ASSUME NEW o \in Ops, phase'[o] # "none" \/ calls'[o] > 0
       PROVE  NeverForgotten'
  BY <1>1, <1>11 DEF UnderWay
<1>12. ASSUME NEW o \in Ops, Trigger(o) \/ HardwareError(o)
       PROVE  NeverForgotten'
  BY <1>11, <1>12 DEF Trigger, HardwareError, TypeOK
<1>13. ASSUME NEW o \in Ops,
              OnRecognitionEvent(o) \/ OnError(o) \/ FinishRecognition(o)
       PROVE  NeverForgotten'
  BY <1>11, <1>13 DEF OnRecognitionEvent, OnError, FinishRecognition, TypeOK
<1>14. ASSUME NEW o \in Ops, OnStopOperation(o)
       PROVE  NeverForgotten'
  BY <1>11, <1>14 DEF OnStopOperation, TypeOK
<1>15. ASSUME NEW o \in Ops, ArmAfterSkip(o)
       PROVE  NeverForgotten'
  <2>1. ~CanArm'
    BY <1>15 DEF ArmAfterSkip, CanArm
  <2>. QED
    BY <1>1, <2>1
<1>16. ASSUME NEW o \in Ops, ArmAfterEnter(o)
       PROVE  NeverForgotten'
  BY <1>16, <1>11 DEF ArmAfterEnter
<1>17. ASSUME NEW o \in Ops, ArmAfterSchedule(o)
       PROVE  NeverForgotten'
  <2>1. rearm' = "pending" \/ excused'
    BY <1>17 DEF ArmAfterSchedule
  <2>. QED
    BY <1>1, <2>1 DEF UnderWay
<1>18. CASE Kill
  <2>1. ASSUME ~excused', CanArm'
        PROVE  hw' = "listening" \/ UnderWay'
    <3>1. ~excused /\ ~Irretrievable /\ CanArm
      BY <1>18, <2>1 DEF Kill, CanArm
    <3>2. CASE hw = "listening"
      BY <1>18, <3>2 DEF Kill
    <3>3. ASSUME NEW o \in Ops, phase[o] # "none"
          PROVE  phase'[o] # "none"
      <4>1. phase[o] \in {"fired", "failed"}
        BY <3>1, <3>3 DEF Irretrievable, TypeOK, Phases
      <4>. QED
        BY <1>18, <4>1 DEF Kill
    <3>4. EventInFlight => \E o \in Ops : phase[o] # "none"
      BY DEF EventInFlight
    <3>5. CASE rearm # "none"
      BY <1>18, <3>5 DEF Kill, UnderWay
    <3>6. CASE due # {}
      <4>1. due' # {}
        BY <1>18, <3>1, <3>6 DEF Kill, Irretrievable
      <4>. QED
        BY <4>1 DEF UnderWay
    <3>7. /\ \A o \in Ops : ~(calls[o] > 0)
          /\ ~HasApply(queue)
      BY <3>1 DEF Irretrievable
    <3>8. hw = "listening" \/ UnderWay
      BY <3>1 DEF NeverForgotten
    <3>. QED
      BY <3>2, <3>3, <3>4, <3>5, <3>6, <3>7, <3>8 DEF UnderWay
  <2>. QED
    BY <1>1, <2>1
<1>19. CASE Reboot
  <2>1. UnderWay'
    BY <1>19 DEF Reboot, UnderWay
  <2>. QED
    BY <1>1, <2>1
<1>20. CASE UNCHANGED vars
  BY <1>20 DEF vars, NeverForgotten, UnderWay, CanArm, EventInFlight
<1>. QED
  BY <1>2, <1>3, <1>4, <1>5, <1>6, <1>7, <1>8, <1>9, <1>10, <1>12, <1>13,
     <1>14, <1>15, <1>16, <1>17, <1>18, <1>19, <1>20 DEF Next

\* Without faults the controller knows of every model that listens, so that
\* disarming leaves none.
LEMMA SilenceStep ==
    ASSUME TypeOK, ModelKnown, OffSilencesDSP, [Next]_vars
    PROVE  ModelKnown' /\ OffSilencesDSP'
<1>. USE DEF flags, memory, operations, CanArm
<1>1. CASE Faults
  BY <1>1 DEF ModelKnown, OffSilencesDSP
<1>2. CASE ~Faults
  <2>1. CASE SetEnabled \/ SwitchUser
    BY <2>1 DEF SetEnabled, SwitchUser, ModelKnown, OffSilencesDSP
  <2>2. CASE ArmAlready \/ ArmStart
    BY <2>2 DEF ArmAlready, ArmStart, ModelKnown, OffSilencesDSP
  <2>3. CASE Disarm
    BY <1>2, <2>3 DEF Disarm, ModelKnown, OffSilencesDSP
  <2>4. ASSUME NEW o \in Ops, Trigger(o) \/ HardwareError(o)
        PROVE  ModelKnown' /\ OffSilencesDSP'
    BY <2>4 DEF Trigger, HardwareError, ModelKnown, OffSilencesDSP
  <2>5. ASSUME UNCHANGED <<flags, applied, hw, loaded>>
        PROVE  ModelKnown' /\ OffSilencesDSP'
    BY <2>5 DEF ModelKnown, OffSilencesDSP
  <2>. QED
    BY <1>2, <2>1, <2>2, <2>3, <2>4, <2>5
       DEF Next, vars, Deliver, StartRearmJob, StopRearmJob, ArmEnd, ArmFails,
           OnRecognitionEvent, OnError, FinishRecognition, OnStopOperation,
           ArmAfterSkip, ArmAfterEnter, ArmAfterSchedule, Kill, Reboot
<1>. QED
  BY <1>1, <1>2

-----------------------------------------------------------------------------
(* The theorems.                                                           *)

LEMMA InitEstablishes == Init => IInv
<1>. SUFFICES ASSUME Init PROVE IInv
  OBVIOUS
<1>1. TypeOK
  <2>1. queue \in Seq(Tasks) /\ due \subseteq Deliveries
    BY DEF Init, Deliveries
  <2>2. phase \in [Ops -> Phases] /\ calls \in [Ops -> 0..2]
    BY DEF Init, Phases
  <2>. QED
    BY <2>1, <2>2 DEF Init, TypeOK
<1>2. CallsOwed /\ Inside
  BY ConstantsOK DEF Init, CallsOwed, Inside
<1>3. OneTaskPerJob
  <2>1. RearmTasks(<<>>) = {}
    BY DEF RearmTasks
  <2>. QED
    BY <2>1 DEF Init, OneTaskPerJob, OneTask
<1>4. ArmedIsTrue /\ OffStaysOff /\ ModelKnown /\ OffSilencesDSP
  BY DEF Init, ArmedIsTrue, OffStaysOff, ModelKnown, OffSilencesDSP
<1>5. NeverForgotten
  BY DEF Init, NeverForgotten, UnderWay
<1>. QED
  BY <1>1, <1>2, <1>3, <1>4, <1>5 DEF IInv

\* The inductive invariant holds in every reachable state.
THEOREM Invariance == Spec => []IInv
<1>1. Init => IInv
  BY InitEstablishes
<1>2. IInv /\ [Next]_vars => IInv'
  BY TypeStep, CallsStep, InsideStep, ArmedStep, OffStep, ForgottenStep, SilenceStep
     DEF IInv
<1>. QED
  BY <1>1, <1>2, PTL DEF Spec

\* Type correctness: an operation never owes more than two armAfter calls.
THEOREM TypeCorrect == Spec => []TypeOK
<1>1. IInv => TypeOK
  BY DEF IInv
<1>. QED
  BY <1>1, Invariance, PTL

\* What the controller remembers as armed is true of the DSP, or its event is
\* on its way (SoundTriggerController.armed).
THEOREM ArmedCorrect == Spec => []ArmedIsTrue
<1>1. IInv => ArmedIsTrue
  BY DEF IInv
<1>. QED
  BY <1>1, Invariance, PTL

\* No event, stop, error or rearm job under way overrules an applyEnabled that
\* found recognition forbidden.
THEOREM OffCorrect == Spec => []OffStaysOff
<1>1. IInv => OffStaysOff
  BY DEF IInv
<1>. QED
  BY <1>1, Invariance, PTL

\* In whatever order operations finish, stop and fail and jobs run, something
\* is left that arms the DSP again.
THEOREM Remembered == Spec => []NeverForgotten
<1>1. IInv => NeverForgotten
  BY DEF IInv
<1>. QED
  BY <1>1, Invariance, PTL

\* A running rearm job is finished by exactly one task of the executor.
THEOREM JobsFinishOnce == Spec => []OneTaskPerJob
<1>1. IInv => OneTaskPerJob
  BY DEF IInv
<1>. QED
  BY <1>1, Invariance, PTL

\* Without faults the DSP is silent once a disabling was applied.
THEOREM Silenced == Spec => []OffSilencesDSP
<1>1. IInv => OffSilencesDSP
  BY DEF IInv
<1>. QED
  BY <1>1, Invariance, PTL

=============================================================================

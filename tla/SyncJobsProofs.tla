--------------------------- MODULE SyncJobsProofs ---------------------------
(***************************************************************************)
(* The jobs of the catalog for any selections, whatever happens around the *)
(* service: who owns the flag, who finishes a running job, and that the    *)
(* periodic job follows the setting.                                       *)
(*                                                                         *)
(* The last one is not inductive: a call that is still to act, or an       *)
(* event still to be received, is what brings the job and the setting      *)
(* together again.                                                         *)
(***************************************************************************)
EXTENDS SyncJobs, TLAPS

\* A synchronization under way has the flag, also where it can lose its owner.
TaskHasFlag == task # NoTask => flag

\* What will make the job follow the setting; a user switch is not among it,
\* since it is lost with the process.
SchedulingPlans == {"reschedule", "schedule", "scheduleNow", "scheduling", "schedulingNow"}
Owed ==
    \/ due \ {"user"} # {}
    \/ \E c \in Threads :
          IF enabled THEN call[c] \in SchedulingPlans ELSE call[c] = "cancel"

Follows == lapsed \/ (stored["periodic"] <=> enabled) \/ Owed

IInv == TypeOK /\ TaskHasFlag /\ RunningJobEnds /\ Follows

----------------------------- (* Types *) -----------------------------------

\* A task that is there belongs to a job.
LEMMA SomeTask ==
    ASSUME task \in Tasks
    PROVE  /\ task # NoTask <=> task.at \in {"waiting", "syncing", "leaving"}
           /\ task # NoTask <=> task.job \in Jobs
           /\ task.job \in Jobs \cup {"none"}
BY DEF Tasks, NoTask, Jobs

LEMMA InitIsRight == Init => IInv
<1>1. NoTask \in Tasks
  BY DEF Tasks
<1> QED BY <1>1 DEF Init, IInv, TypeOK, TaskHasFlag, RunningJobEnds, Follows, Owed, Plans

\* A step of a calling thread leaves the service alone but for stopping jobs.
LEMMA CancelKeeps ==
    ASSUME TypeOK, RunningJobEnds, NEW js \in SUBSET Jobs, CancelJobs(js), UNCHANGED service
    PROVE  /\ stored' \in [Jobs -> BOOLEAN]
           /\ ctx' \in [Jobs -> {"idle", "running", "stopping"}]
           /\ \A j \in Jobs : ctx'[j] = "running" => stored'[j]
           /\ \A j \in Jobs : finishing'[j] # "no" => ctx'[j] # "idle"
           /\ RunningJobEnds'
           /\ "periodic" \in js => ~stored'["periodic"]
           /\ "periodic" \notin js => stored'["periodic"] = stored["periodic"]
BY DEF CancelJobs, TypeOK, RunningJobEnds, service, Jobs

------------------------- (* What happens around *) ------------------------

LEMMA WorldIsRight ==
    ASSUME IInv, SetEnabled \/ SetRegion \/ SwitchUser
    PROVE  IInv'
<1>1. /\ UNCHANGED <<call, stored, ctx, flag, task, finishing, synced, lapsed>>
      /\ due' \subseteq {"boot", "user", "locale", "apply"} /\ due \subseteq due'
      /\ enabled' \in BOOLEAN /\ region' \in Regions
      /\ enabled' = enabled \/ "apply" \in due'
  BY DEF SetEnabled, SetRegion, SwitchUser, settings, service, IInv, TypeOK
<1>2. TypeOK' /\ TaskHasFlag' /\ RunningJobEnds'
  BY <1>1 DEF IInv, TypeOK, TaskHasFlag, RunningJobEnds
<1>3. Follows'
  <2>1. CASE "apply" \in due'
    BY <2>1 DEF Follows, Owed
  <2>2. CASE enabled' = enabled
    BY <1>1, <2>2 DEF IInv, Follows, Owed
  <2> QED BY <1>1, <2>1, <2>2
<1> QED BY <1>2, <1>3 DEF IInv

LEMMA ReceiveIsRight ==
    ASSUME IInv, NEW d \in {"boot", "user", "locale", "apply"}, Receive(d)
    PROVE  IInv'
<1> DEFINE c == IF d = "apply" THEN "provider" ELSE "receiver"
<1>1. /\ c \in Threads /\ call[c] = "idle" /\ d \in due /\ due' = due \ {d}
      /\ call' = [call EXCEPT ![c] = PlanFor(d)]
      /\ UNCHANGED <<enabled, region, stored, ctx, flag, task, finishing, synced, lapsed>>
  BY DEF Receive, Threads, settings, service
<1>2. PlanFor(d) \in Plans /\ IF enabled THEN PlanFor(d) \in SchedulingPlans
                              ELSE PlanFor(d) = "cancel"
  BY DEF PlanFor, Plans, SchedulingPlans
<1>3. TypeOK' /\ TaskHasFlag' /\ RunningJobEnds'
  BY <1>1, <1>2 DEF IInv, TypeOK, TaskHasFlag, RunningJobEnds
<1>4. Follows'
  <2>1. call'[c] = PlanFor(d)
    BY <1>1 DEF IInv, TypeOK
  <2> QED BY <1>1, <1>2, <2>1 DEF Follows, Owed
<1> QED BY <1>3, <1>4 DEF IInv

LEMMA ProviderIsRight ==
    ASSUME IInv, RefreshCatalog \/ DeleteCatalog
    PROVE  IInv'
<1>1. PICK plan \in {"refreshing", "dropping"} :
         /\ call["provider"] = "idle" /\ call' = [call EXCEPT !["provider"] = plan]
         /\ UNCHANGED <<enabled, region, due, stored, ctx, flag, task, finishing, synced, lapsed>>
  BY DEF RefreshCatalog, DeleteCatalog, settings, service
<1>2. TypeOK' /\ TaskHasFlag' /\ RunningJobEnds'
  BY <1>1 DEF IInv, TypeOK, TaskHasFlag, RunningJobEnds, Plans
<1>3. Follows'
  <2>1. \A c \in Threads : call[c] \in SchedulingPlans \cup {"cancel"} => call'[c] = call[c]
    BY <1>1 DEF IInv, TypeOK, SchedulingPlans
  <2> QED BY <1>1, <2>1 DEF IInv, Follows, Owed
<1> QED BY <1>2, <1>3 DEF IInv

------------------------------ (* The callers *) ----------------------------

LEMMA CancelIsRight == ASSUME IInv, NEW c \in Threads, Cancel(c) PROVE IInv'
<1>1. /\ call' = [call EXCEPT ![c] = "idle"] /\ CancelJobs(Jobs) /\ lapsed' = enabled
      /\ UNCHANGED <<enabled, region, due, flag, task, finishing, synced>>
  BY DEF Cancel, Proceed, settings, service
<1>2. /\ stored' \in [Jobs -> BOOLEAN] /\ ctx' \in [Jobs -> {"idle", "running", "stopping"}]
      /\ \A j \in Jobs : ctx'[j] = "running" => stored'[j]
      /\ \A j \in Jobs : finishing'[j] # "no" => ctx'[j] # "idle"
      /\ RunningJobEnds' /\ ~stored'["periodic"]
  BY <1>1, CancelKeeps, Jobs \in SUBSET Jobs, "periodic" \in Jobs DEF IInv, Jobs, service
<1> QED BY <1>1, <1>2 DEF IInv, TypeOK, TaskHasFlag, Follows, Plans

LEMMA RescheduleIsRight == ASSUME IInv, NEW c \in Threads, Reschedule(c) PROVE IInv'
<1>1. /\ call' = [call EXCEPT ![c] = "schedule"] /\ CancelJobs({"periodic"})
      /\ UNCHANGED <<enabled, region, due, flag, task, finishing, synced, lapsed>>
  BY DEF Reschedule, Proceed, settings, service
<1>2. /\ stored' \in [Jobs -> BOOLEAN] /\ ctx' \in [Jobs -> {"idle", "running", "stopping"}]
      /\ \A j \in Jobs : ctx'[j] = "running" => stored'[j]
      /\ \A j \in Jobs : finishing'[j] # "no" => ctx'[j] # "idle"
      /\ RunningJobEnds' /\ ~stored'["periodic"]
  BY <1>1, CancelKeeps, {"periodic"} \in SUBSET Jobs DEF IInv, Jobs, service
<1>3. Follows'
  BY <1>1, <1>2 DEF IInv, TypeOK, Follows, Owed, SchedulingPlans
<1> QED BY <1>1, <1>2, <1>3 DEF IInv, TypeOK, TaskHasFlag, Plans

LEMMA RecheckIsRight == ASSUME IInv, NEW c \in Threads, Recheck(c) PROVE IInv'
<1>1. UNCHANGED <<enabled, region, due, stored, ctx, flag, task, finishing, synced, lapsed>>
  BY DEF Recheck, settings, service
<1>2. PICK plan \in {"idle", "scheduling", "schedulingNow"} :
         /\ call' = [call EXCEPT ![c] = plan]
         /\ IF enabled THEN plan # "idle" ELSE call[c] # "cancel"
  BY DEF Recheck, Proceed
<1>3. Follows'
  <2>1. call'[c] = plan /\ \A u \in Threads \ {c} : call'[u] = call[u]
    BY <1>2 DEF IInv, TypeOK
  <2>2. CASE enabled
    BY <1>1, <1>2, <2>1, <2>2 DEF Follows, Owed, SchedulingPlans
  <2>3. CASE ~enabled
    BY <1>1, <1>2, <2>1, <2>3 DEF IInv, Follows, Owed
  <2> QED BY <2>2, <2>3
<1> QED BY <1>1, <1>2, <1>3 DEF IInv, TypeOK, TaskHasFlag, RunningJobEnds, Plans

LEMMA ScheduleIsRight == ASSUME IInv, NEW c \in Threads, Schedule(c) PROVE IInv'
<1>1. /\ stored' = [stored EXCEPT !["periodic"] = TRUE] /\ lapsed' = ~enabled
      /\ UNCHANGED <<enabled, region, due, ctx, flag, task, finishing, synced>>
  BY DEF Schedule, settings, service
<1>2. PICK plan \in {"idle", "refreshing"} : call' = [call EXCEPT ![c] = plan]
  BY DEF Schedule, Proceed
<1>3. "periodic" \in Jobs
  BY DEF Jobs
<1> QED BY <1>1, <1>2, <1>3 DEF IInv, TypeOK, TaskHasFlag, RunningJobEnds, Follows, Plans

\* The calls that leave the periodic job alone.
LEMMA OtherCallIsRight ==
    ASSUME IInv, NEW c \in Threads, Refresh(c) \/ Drop(c) \/ Delete(c)
    PROVE  IInv'
<1>1. /\ UNCHANGED <<enabled, region, due, flag, task, finishing, lapsed>>
      /\ synced' \in {synced, "none"}
  BY DEF Refresh, Drop, Delete, settings, service
<1>2. PICK plan \in {"idle", "deleting"} :
         /\ call' = [call EXCEPT ![c] = plan]
         /\ call[c] \in {"refreshing", "dropping", "deleting"}
  BY DEF Refresh, Drop, Delete, Proceed
<1>3. /\ stored' \in [Jobs -> BOOLEAN] /\ ctx' \in [Jobs -> {"idle", "running", "stopping"}]
      /\ \A j \in Jobs : ctx'[j] = "running" => stored'[j]
      /\ \A j \in Jobs : finishing'[j] # "no" => ctx'[j] # "idle"
      /\ RunningJobEnds' /\ stored'["periodic"] = stored["periodic"]
  <2>1. CASE Refresh(c)
    BY <2>1, <1>1 DEF Refresh, IInv, TypeOK, RunningJobEnds, Jobs
  <2>2. CASE Drop(c)
    BY <2>2, <1>1, CancelKeeps, {"refresh"} \in SUBSET Jobs DEF Drop, IInv, Jobs, service
  <2>3. CASE Delete(c)
    BY <2>3, <1>1 DEF Delete, IInv, TypeOK, RunningJobEnds
  <2> QED BY <2>1, <2>2, <2>3
<1>4. Follows'
  <2>1. \A u \in Threads : call[u] \in SchedulingPlans \cup {"cancel"} => call'[u] = call[u]
    BY <1>2 DEF IInv, TypeOK, SchedulingPlans
  <2> QED BY <1>1, <1>3, <2>1 DEF IInv, Follows, Owed
<1> QED BY <1>1, <1>2, <1>3, <1>4 DEF IInv, TypeOK, TaskHasFlag, Plans

------------------------------ (* The service *) ----------------------------

\* What a step of the service must show; it touches no caller and no setting.
LEMMA ServiceMoves ==
    ASSUME IInv, UNCHANGED <<enabled, region, due, call, lapsed>>,
           stored' \in [Jobs -> BOOLEAN], stored'["periodic"] = stored["periodic"],
           ctx' \in [Jobs -> {"idle", "running", "stopping"}],
           \A j \in Jobs : ctx'[j] = "running" => stored'[j],
           finishing' \in [Jobs -> {"no", "done", "retry"}],
           \A j \in Jobs : finishing'[j] # "no" => ctx'[j] # "idle",
           flag' \in BOOLEAN, task' \in Tasks, synced' \in Regions \cup {"none"},
           TaskHasFlag', RunningJobEnds'
    PROVE  IInv'
BY DEF IInv, TypeOK, Follows, Owed

LEMMA StartJobIsRight == ASSUME IInv, NEW j \in Jobs, StartJob(j) PROVE IInv'
<1>1. task = NoTask
  BY DEF StartJob, IInv, TaskHasFlag
<1>2. /\ flag' = TRUE /\ ctx' = [ctx EXCEPT ![j] = "running"] /\ stored[j]
      /\ task' = Waiting(j)
      /\ UNCHANGED <<enabled, region, due, call, stored, finishing, synced, lapsed>>
  BY DEF StartJob, Ready, settings
<1>3. task' \in Tasks /\ task'.job = j /\ ~task'.stopped
  BY <1>2 DEF Tasks, Waiting, NoTask
<1>4. \A i \in Jobs : ctx[i] = "running" => finishing[i] # "no"
  BY <1>1 DEF IInv, RunningJobEnds, NoTask, Jobs
<1> QED BY <1>2, <1>3, <1>4, ServiceMoves DEF IInv, TypeOK, TaskHasFlag, RunningJobEnds

LEMMA RefuseJobIsRight == ASSUME IInv, NEW j \in Jobs, RefuseJob(j) PROVE IInv'
<1>1. /\ stored[j] /\ ctx[j] = "idle" /\ stored' = [stored EXCEPT ![j] = (j = "periodic")]
      /\ UNCHANGED <<enabled, region, due, call, ctx, flag, task, finishing, synced, lapsed>>
  BY DEF RefuseJob, Ready, settings, service
<1>2. stored'["periodic"] = stored["periodic"] /\ \A i \in Jobs \ {j} : stored'[i] = stored[i]
  BY <1>1 DEF IInv, TypeOK, Jobs
<1>3. TaskHasFlag' /\ RunningJobEnds'
  BY <1>1 DEF IInv, TaskHasFlag, RunningJobEnds
<1>4. \A i \in Jobs : ctx'[i] = "running" => stored'[i]
  BY <1>1, <1>2 DEF IInv, TypeOK
<1> QED BY <1>1, <1>2, <1>3, <1>4, ServiceMoves DEF IInv, TypeOK

LEMMA ConstrainIsRight == ASSUME IInv, NEW j \in Jobs, Constrain(j) PROVE IInv'
<1>1. /\ ctx' = [ctx EXCEPT ![j] = "stopping"]
      /\ UNCHANGED <<enabled, region, due, call, stored, flag, task, finishing, synced, lapsed>>
  BY DEF Constrain, settings, service
<1> QED BY <1>1, ServiceMoves DEF IInv, TypeOK, TaskHasFlag, RunningJobEnds

\* A job that stops is not the one whose task or jobFinished goes on.
LEMMA StopJobIsRight == ASSUME IInv, NEW j \in Jobs, StopJob(j) PROVE IInv'
<1>1. /\ ctx[j] = "stopping" /\ ctx' = [ctx EXCEPT ![j] = "idle"]
      /\ finishing' = [finishing EXCEPT ![j] = "no"]
      /\ UNCHANGED <<enabled, region, due, call, stored, flag, synced, lapsed>>
  BY DEF StopJob, settings
<1>2. task \in Tasks
  BY DEF IInv, TypeOK
<1>3. /\ finishing' \in [Jobs -> {"no", "done", "retry"}]
      /\ ctx' \in [Jobs -> {"idle", "running", "stopping"}]
      /\ \A i \in Jobs : finishing'[i] # "no" => ctx'[i] # "idle"
      /\ \A i \in Jobs : ctx'[i] = "running" =>
            i # j /\ ctx[i] = "running" /\ stored[i] /\ finishing'[i] = finishing[i]
  BY <1>1 DEF IInv, TypeOK
<1>4. CASE task.job = j
  <2>1. task # NoTask
    BY <1>2, <1>4, SomeTask
  <2>2. task' \in {NoTask, task, [task EXCEPT !.stopped = TRUE]}
    BY <1>4 DEF StopJob
  <2>3. task' \in Tasks
    BY <1>2, <2>1, <2>2 DEF Tasks
  <2>4. RunningJobEnds'
    BY <1>3, <1>4 DEF IInv, RunningJobEnds
  <2> QED BY <1>1, <1>3, <2>1, <2>3, <2>4, ServiceMoves DEF IInv, TypeOK, TaskHasFlag
<1>5. CASE task.job # j
  <2>1. task' = task
    BY <1>5 DEF StopJob
  <2> QED BY <1>1, <1>3, <2>1, ServiceMoves DEF IInv, TypeOK, TaskHasFlag, RunningJobEnds
<1> QED BY <1>4, <1>5

\* What the task does until its finally block clears the flag concerns nobody else.
LEMMA TaskIsRight == ASSUME IInv, BeginSync \/ SkipSync \/ EndSync \/ FailSync PROVE IInv'
<1>1. /\ UNCHANGED <<enabled, region, due, call, stored, ctx, flag, finishing, lapsed>>
      /\ synced' \in {synced, task.region} /\ task.at \in {"waiting", "syncing"}
  BY DEF BeginSync, SkipSync, EndSync, FailSync, settings
<1>2. task \in Tasks /\ task # NoTask
  BY <1>1, SomeTask DEF IInv, TypeOK
<1>3. task.region \in Regions \cup {"none"} /\ task.stopped \in BOOLEAN /\ region \in Regions
  BY <1>2 DEF Tasks, IInv, TypeOK
<1>4. \/ task' = [task EXCEPT !.at = "syncing", !.region = region]
      \/ \E retry \in BOOLEAN : Leave(retry)
  BY <1>3 DEF BeginSync, SkipSync, EndSync, FailSync
<1>5. task' \in Tasks /\ task'.job = task.job /\ task'.stopped = task.stopped
  <2>1. CASE task' = [task EXCEPT !.at = "syncing", !.region = region]
    BY <1>2, <1>3, <2>1 DEF Tasks
  <2>2. ASSUME NEW retry \in BOOLEAN, Leave(retry)
        PROVE  task' \in Tasks /\ task'.job = task.job /\ task'.stopped = task.stopped
    BY <1>2, <2>2 DEF Tasks, Leave
  <2> QED BY <1>4, <2>1, <2>2
<1>6. TaskHasFlag' /\ RunningJobEnds'
  BY <1>1, <1>2, <1>5 DEF IInv, TaskHasFlag, RunningJobEnds
<1> QED BY <1>1, <1>3, <1>5, <1>6, ServiceMoves DEF IInv, TypeOK

\* What the one task there is leaves behind is its job's jobFinished.
LEMMA FinallyIsRight == ASSUME IInv, Finally PROVE IInv'
<1>1. /\ UNCHANGED <<enabled, region, due, call, stored, ctx, synced, lapsed>>
      /\ flag' = FALSE /\ task' = NoTask
      /\ \A j \in Jobs : j # task.job \/ ~Finishes => finishing'[j] = finishing[j]
      /\ \A j \in Jobs : j = task.job /\ Finishes => finishing'[j] \in {"done", "retry"}
  BY DEF Finally, settings
<1>2. finishing' \in [Jobs -> {"no", "done", "retry"}]
  BY DEF Finally, IInv, TypeOK
<1>3. \A j \in Jobs : finishing'[j] # "no" => ctx'[j] # "idle"
  BY <1>1 DEF Finishes, IInv, TypeOK
<1>4. TaskHasFlag' /\ RunningJobEnds'
  BY <1>1 DEF Finishes, IInv, TypeOK, TaskHasFlag, RunningJobEnds
<1>5. NoTask \in Tasks
  BY DEF Tasks
<1> QED BY <1>1, <1>2, <1>3, <1>4, <1>5, ServiceMoves DEF IInv, TypeOK

LEMMA JobFinishedIsRight == ASSUME IInv, NEW j \in Jobs, JobFinished(j) PROVE IInv'
<1>1. /\ finishing' = [finishing EXCEPT ![j] = "no"] /\ ctx' = [ctx EXCEPT ![j] = "idle"]
      /\ stored' = [stored EXCEPT ![j] = @ /\ (j = "periodic" \/ finishing[j] = "retry")]
      /\ UNCHANGED <<enabled, region, due, call, flag, task, synced, lapsed>>
  BY DEF JobFinished, settings
<1>2. /\ finishing' \in [Jobs -> {"no", "done", "retry"}] /\ stored' \in [Jobs -> BOOLEAN]
      /\ ctx' \in [Jobs -> {"idle", "running", "stopping"}]
      /\ stored'["periodic"] = stored["periodic"]
  BY <1>1 DEF IInv, TypeOK, Jobs
<1>3. \A i \in Jobs : i # j => UNCHANGED <<ctx[i], finishing[i], stored[i]>>
  BY <1>1 DEF IInv, TypeOK
<1>4. ctx'[j] = "idle" /\ finishing'[j] = "no"
  BY <1>1 DEF IInv, TypeOK
<1>5. TaskHasFlag' /\ RunningJobEnds'
  BY <1>1, <1>3, <1>4 DEF IInv, TaskHasFlag, RunningJobEnds
<1>6. \A i \in Jobs : /\ ctx'[i] = "running" => stored'[i]
                      /\ finishing'[i] # "no" => ctx'[i] # "idle"
  BY <1>3, <1>4 DEF IInv, TypeOK
<1> QED BY <1>1, <1>2, <1>5, <1>6, ServiceMoves DEF IInv, TypeOK

\* What the process loses with its death is excused; the rest is still owed.
LEMMA GoneIsRight == ASSUME IInv, Kill \/ Reboot PROVE IInv'
<1>1. /\ call' = [c \in Threads |-> "idle"] /\ ctx' = [j \in Jobs |-> "idle"]
      /\ flag' = FALSE /\ task' = NoTask /\ finishing' = [j \in Jobs |-> "no"]
      /\ UNCHANGED <<enabled, region, synced>>
      /\ stored' \in {stored, [stored EXCEPT !["refresh"] = FALSE]}
      /\ lapsed' \in BOOLEAN /\ due' \subseteq {"boot", "user", "locale", "apply"}
  BY DEF Kill, Reboot, ProcessGone, settings, IInv, TypeOK
<1>2. stored' \in [Jobs -> BOOLEAN] /\ stored'["periodic"] = stored["periodic"]
  BY <1>1 DEF IInv, TypeOK, Jobs
<1>3. NoTask \in Tasks
  BY DEF Tasks
<1>4. TypeOK' /\ TaskHasFlag' /\ RunningJobEnds'
  BY <1>1, <1>2, <1>3 DEF IInv, TypeOK, TaskHasFlag, RunningJobEnds, Plans
<1>5. Follows'
  <2>1. CASE Kill
    <3>1. lapsed' \/ (UNCHANGED lapsed /\ \A c \in Threads : call[c] = "idle")
      BY <2>1 DEF Kill, IInv, TypeOK
    <3>2. due' = due \ {"user"}
      BY <2>1 DEF Kill
    <3> QED BY <1>1, <1>2, <3>1, <3>2 DEF IInv, Follows, Owed, SchedulingPlans
  <2>2. CASE Reboot
    BY <2>2 DEF Reboot, Follows, Owed
  <2> QED BY <2>1, <2>2
<1> QED BY <1>4, <1>5 DEF IInv

----------------------------- (* What follows *) ----------------------------

LEMMA NextIsRight == IInv /\ [Next]_vars => IInv'
<1> SUFFICES ASSUME IInv, [Next]_vars PROVE IInv'
  OBVIOUS
<1>1. ASSUME NEW c \in Threads, CallStep(c) PROVE IInv'
  BY <1>1, CancelIsRight, RescheduleIsRight, RecheckIsRight, ScheduleIsRight, OtherCallIsRight
     DEF CallStep
<1>2. ASSUME NEW j \in Jobs,
             StartJob(j) \/ RefuseJob(j) \/ Constrain(j) \/ StopJob(j) \/ JobFinished(j)
      PROVE IInv'
  BY <1>2, StartJobIsRight, RefuseJobIsRight, ConstrainIsRight, StopJobIsRight,
     JobFinishedIsRight
<1>3. CASE UNCHANGED vars
  BY <1>3 DEF vars, IInv, TypeOK, TaskHasFlag, RunningJobEnds, Follows, Owed
<1> QED BY <1>1, <1>2, <1>3, WorldIsRight, ReceiveIsRight, ProviderIsRight, TaskIsRight,
           FinallyIsRight, GoneIsRight DEF Next

\* The whole invariant of the jobs, whatever happens around the service.
THEOREM Invariance == Spec => []IInv
BY InitIsRight, NextIsRight, PTL DEF Spec

\* Every job JobScheduler believes to run has a task that was not stopped and will
\* finish it, or its jobFinished on the way, with early stops too.
THEOREM RunningJobsEnd == Spec => []RunningJobEnds
BY Invariance, PTL DEF IInv

\* Once every broadcast and provider call is answered, the periodic job is
\* scheduled exactly when the feature is enabled.
THEOREM FollowsSetting == Spec => []JobsFollowSetting
<1>1. IInv => JobsFollowSetting
  BY DEF IInv, Follows, Owed, JobsFollowSetting, Settled, SchedulingPlans
<1> QED BY <1>1, Invariance, PTL

----------------------- (* The owner of the flag *) -------------------------

\* Only a job stopped before its task started leaves the flag without owner.
LEMMA FlagIsRight ==
    ~EarlyStop /\ IInv /\ FlagHasOwner /\ [Next]_vars => FlagHasOwner'
<1> SUFFICES ASSUME ~EarlyStop, IInv, FlagHasOwner, [Next]_vars PROVE FlagHasOwner'
  OBVIOUS
<1>0. task \in Tasks
  BY DEF IInv, TypeOK
<1>1. CASE UNCHANGED <<flag, task>>
  BY <1>1 DEF FlagHasOwner
<1>2. ASSUME NEW j \in Jobs, StartJob(j) PROVE FlagHasOwner'
  BY <1>2 DEF StartJob, FlagHasOwner, NoTask, Waiting
<1>3. ASSUME NEW j \in Jobs, StopJob(j) PROVE FlagHasOwner'
  <2>1. flag' = flag /\ task' \in {task, [task EXCEPT !.stopped = TRUE]}
        /\ (task' # task => task.job = j)
    BY <1>3 DEF StopJob
  <2>2. task' # task => task # NoTask /\ task' # NoTask
    BY <1>0, <2>1, SomeTask DEF Tasks, NoTask, Jobs
  <2> QED BY <2>1, <2>2 DEF FlagHasOwner
<1>4. CASE BeginSync \/ SkipSync \/ EndSync \/ FailSync
  <2>1. task.at \in {"waiting", "syncing"} /\ task'.at \in {"syncing", "leaving"} /\ flag' = flag
    BY <1>0, <1>4 DEF BeginSync, SkipSync, EndSync, FailSync, Leave, Tasks, NoTask
  <2>2. task # NoTask /\ task' # NoTask
    BY <2>1 DEF NoTask
  <2> QED BY <2>1, <2>2 DEF FlagHasOwner
<1>5. CASE Finally
  BY <1>5 DEF Finally, FlagHasOwner
<1>6. CASE Kill \/ Reboot
  BY <1>6 DEF Kill, Reboot, ProcessGone, FlagHasOwner
<1>7. ASSUME NEW c \in Threads, CallStep(c) PROVE FlagHasOwner'
  BY <1>1, <1>7 DEF CallStep, Cancel, Reschedule, Recheck, Schedule, Refresh, Drop, Delete, service
<1>8. ASSUME NEW j \in Jobs, RefuseJob(j) \/ Constrain(j) \/ JobFinished(j)
      PROVE FlagHasOwner'
  BY <1>1, <1>8 DEF RefuseJob, Constrain, JobFinished, service
<1>9. CASE SetEnabled \/ SetRegion \/ SwitchUser \/ RefreshCatalog \/ DeleteCatalog
  BY <1>1, <1>9 DEF SetEnabled, SetRegion, SwitchUser, RefreshCatalog, DeleteCatalog, service
<1>10. ASSUME NEW d \in {"boot", "user", "locale", "apply"}, Receive(d) PROVE FlagHasOwner'
  BY <1>1, <1>10 DEF Receive, service
<1>11. CASE UNCHANGED vars
  BY <1>1, <1>11 DEF vars
<1> QED BY <1>2, <1>3, <1>4, <1>5, <1>6, <1>7, <1>8, <1>9, <1>10, <1>11 DEF Next

\* SYNC_IN_PROGRESS is set exactly while there is a task that will clear it,
\* provided no job is stopped before its task starts.
THEOREM FlagOwned == Spec => [](EarlyStop \/ FlagHasOwner)
<1>1. Init => FlagHasOwner
  BY DEF Init, FlagHasOwner
<1> DEFINE Owned == EarlyStop \/ FlagHasOwner
<1>2. Init => Owned
  BY <1>1
<1>3. IInv /\ Owned /\ [Next]_vars => Owned'
  BY FlagIsRight
<1> HIDE DEF Owned
<1>4. Spec => []Owned
  BY <1>2, <1>3, Invariance, PTL DEF Spec
<1> QED BY <1>4 DEF Owned
=============================================================================

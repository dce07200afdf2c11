------------------------------ MODULE SyncJobs ------------------------------
(***************************************************************************)
(* When the catalog is synchronized: the periodic job and the refresh job  *)
(* of ShardDownloadJobService, its SYNC_IN_PROGRESS flag, and the callers  *)
(* that schedule and cancel them, BootReceiver on the main thread and      *)
(* SettingsProvider on a binder thread.  The callers read the setting and  *)
(* act on it in separate steps, and so are the end of a task, the flag and *)
(* jobFinished.                                                            *)
(***************************************************************************)
CONSTANTS
    Regions,    \* what the country and the storage cap select
    EarlyStop,  \* whether a job may stop before its task has started
    World       \* what happens around the service, a subset of Happenings

Happenings == {"enable", "region", "user", "refresh", "delete", "kill", "reboot"}

ASSUME ConstantsOK ==
    /\ "none" \notin Regions
    /\ EarlyStop \in BOOLEAN
    /\ World \subseteq Happenings

VARIABLES
    enabled,    \* Settings.Global now_playing_enabled
    region,     \* the selection now desired
    due,        \* broadcasts and provider calls on their way
    call,       \* what each calling thread does next
    stored,     \* whether JobScheduler holds each job
    ctx,        \* each job's context in JobScheduler
    flag,       \* SYNC_IN_PROGRESS
    task,       \* the synchronization task of the service's executor
    finishing,  \* each job's call of jobFinished on its way to JobScheduler
    synced,     \* the selection whose catalog is complete, or "none"
    lapsed      \* history: the last call acted on a stale setting, or died

settings == <<enabled, region>>
service == <<flag, task, finishing>>
vars == <<enabled, region, due, call, stored, ctx, flag, task, finishing,
          synced, lapsed>>

Jobs == {"periodic", "refresh"}
Threads == {"receiver", "provider"}
Plans == {"idle", "cancel", "reschedule", "schedule", "scheduleNow",
          "scheduling", "schedulingNow", "refreshing", "dropping", "deleting"}

NoTask == [at |-> "none", job |-> "none", stopped |-> FALSE, region |-> "none",
           retry |-> FALSE]
Waiting(j) == [NoTask EXCEPT !.at = "waiting", !.job = j]
Tasks == [at : {"waiting", "syncing", "leaving"}, job : Jobs, stopped : BOOLEAN,
          region : Regions \cup {"none"}, retry : BOOLEAN] \cup {NoTask}

\* The types of the variables; a job that runs is one JobScheduler still holds,
\* and what is finishing is a job's present start.
TypeOK ==
    /\ enabled \in BOOLEAN /\ region \in Regions
    /\ due \subseteq {"boot", "user", "locale", "apply"}
    /\ call \in [Threads -> Plans]
    /\ stored \in [Jobs -> BOOLEAN]
    /\ ctx \in [Jobs -> {"idle", "running", "stopping"}]
    /\ \A j \in Jobs : ctx[j] = "running" => stored[j]
    /\ flag \in BOOLEAN /\ task \in Tasks
    /\ finishing \in [Jobs -> {"no", "done", "retry"}]
    /\ \A j \in Jobs : finishing[j] # "no" => ctx[j] # "idle"
    /\ synced \in Regions \cup {"none"}
    /\ lapsed \in BOOLEAN

Init ==
    /\ enabled \in BOOLEAN /\ region \in Regions
    /\ due = {"boot"}
    /\ call = [c \in Threads |-> "idle"]
    /\ stored = [j \in Jobs |-> FALSE] /\ ctx = [j \in Jobs |-> "idle"]
    /\ flag = FALSE /\ task = NoTask /\ finishing = [j \in Jobs |-> "no"]
    /\ synced = "none" /\ lapsed = FALSE

-----------------------------------------------------------------------------
(* The world.                                                              *)

SetEnabled ==
    /\ "enable" \in World
    /\ enabled' = ~enabled
    /\ due' = due \cup {"apply"}
    /\ UNCHANGED <<region, call, stored, ctx, service, synced, lapsed>>

SetRegion ==
    /\ "region" \in World
    /\ region' \in Regions \ {region}
    /\ due' = due \cup {"locale"}
    /\ UNCHANGED <<enabled, call, stored, ctx, service, synced, lapsed>>

SwitchUser ==
    /\ "user" \in World
    /\ due' = due \cup {"user"}
    /\ UNCHANGED <<settings, call, stored, ctx, service, synced, lapsed>>

-----------------------------------------------------------------------------
(* The callers.                                                            *)

\* BootReceiver.onReceive and the first half of the provider's apply_enabled.
PlanFor(d) ==
    IF ~enabled THEN "cancel"
    ELSE IF d = "locale" THEN "reschedule"
    ELSE IF d = "apply" \/ (d = "boot" /\ synced = "none") THEN "scheduleNow"
    ELSE "schedule"

Receive(d) ==
    LET c == IF d = "apply" THEN "provider" ELSE "receiver"
    IN /\ d \in due /\ call[c] = "idle"
       /\ due' = due \ {d}
       /\ call' = [call EXCEPT ![c] = PlanFor(d)]
       /\ UNCHANGED <<settings, stored, ctx, service, synced, lapsed>>

RefreshCatalog ==
    /\ "refresh" \in World
    /\ call["provider"] = "idle"
    /\ call' = [call EXCEPT !["provider"] = "refreshing"]
    /\ UNCHANGED <<settings, due, stored, ctx, service, synced, lapsed>>

DeleteCatalog ==
    /\ "delete" \in World
    /\ call["provider"] = "idle"
    /\ call' = [call EXCEPT !["provider"] = "dropping"]
    /\ UNCHANGED <<settings, due, stored, ctx, service, synced, lapsed>>

\* Mutant: a cancelled job that runs is left to finish.
CancelOnlyPending(js) ==
    /\ stored' = [j \in Jobs |-> stored[j] /\ j \notin js]
    /\ ctx' = ctx

\* JobScheduler forgets the jobs and stops those that run.
CancelJobs(js) ==
    /\ stored' = [j \in Jobs |-> stored[j] /\ j \notin js]
    /\ ctx' = [j \in Jobs |-> IF j \in js /\ ctx[j] = "running" THEN "stopping"
                              ELSE ctx[j]]

Proceed(c, from, to) == call[c] = from /\ call' = [call EXCEPT ![c] = to]

Cancel(c) ==
    /\ Proceed(c, "cancel", "idle")
    /\ CancelJobs(Jobs)
    /\ lapsed' = enabled
    /\ UNCHANGED <<settings, due, service, synced>>

\* Mutant: a job scheduled for the old locale is only cancelled.
RescheduleOnlyCancels(c) ==
    /\ Proceed(c, "reschedule", "idle")
    /\ CancelJobs({"periodic"})
    /\ UNCHANGED <<settings, due, service, synced, lapsed>>

Reschedule(c) ==
    /\ Proceed(c, "reschedule", "schedule")
    /\ CancelJobs({"periodic"})
    /\ UNCHANGED <<settings, due, service, synced, lapsed>>

\* schedule looks at the setting again before it schedules.
Recheck(c) ==
    /\ \/ ~enabled /\ call[c] \in {"schedule", "scheduleNow"}
          /\ call' = [call EXCEPT ![c] = "idle"]
       \/ enabled /\ Proceed(c, "schedule", "scheduling")
       \/ enabled /\ Proceed(c, "scheduleNow", "schedulingNow")
    /\ UNCHANGED <<settings, due, stored, ctx, service, synced, lapsed>>

Schedule(c) ==
    /\ \/ Proceed(c, "scheduling", "idle")
       \/ Proceed(c, "schedulingNow", "refreshing")
    /\ stored' = [stored EXCEPT !["periodic"] = TRUE]
    /\ lapsed' = ~enabled
    /\ UNCHANGED <<settings, due, ctx, service, synced>>

Refresh(c) ==
    /\ Proceed(c, "refreshing", "idle")
    /\ stored' = [stored EXCEPT !["refresh"] = TRUE]
    /\ UNCHANGED <<settings, due, ctx, service, synced, lapsed>>

Drop(c) ==
    /\ Proceed(c, "dropping", "deleting")
    /\ CancelJobs({"refresh"})
    /\ UNCHANGED <<settings, due, service, synced, lapsed>>

\* deleteDownloaded waits for the STORE_LOCK of a synchronization.
Delete(c) ==
    /\ Proceed(c, "deleting", "idle")
    /\ task.at # "syncing"
    /\ synced' = "none"
    /\ UNCHANGED <<settings, due, stored, ctx, service, lapsed>>

CallStep(c) ==
    \/ Cancel(c) \/ Reschedule(c) \/ Recheck(c) \/ Schedule(c)
    \/ Refresh(c) \/ Drop(c) \/ Delete(c)

-----------------------------------------------------------------------------
(* The service.  Its callbacks run on the main thread, as the receiver.    *)

MainFree == call["receiver"] = "idle"
Ready(j) == MainFree /\ stored[j] /\ ctx[j] = "idle"

StartJob(j) ==
    /\ Ready(j) /\ ~flag
    /\ flag' = TRUE
    /\ task' = Waiting(j)
    /\ ctx' = [ctx EXCEPT ![j] = "running"]
    /\ UNCHANGED <<settings, due, call, stored, finishing, synced, lapsed>>

\* Mutant: onStartJob reports work under way where another task does it.
RefuseAsRunning(j) ==
    /\ Ready(j) /\ flag
    /\ ctx' = [ctx EXCEPT ![j] = "running"]
    /\ UNCHANGED <<settings, due, call, stored, service, synced, lapsed>>

\* A job that finds the flag set is over: the periodic one until its next
\* period, the refresh for good.
RefuseJob(j) ==
    /\ Ready(j) /\ flag
    /\ stored' = [stored EXCEPT ![j] = (j = "periodic")]
    /\ UNCHANGED <<settings, due, call, ctx, service, synced, lapsed>>

\* The network is lost, or JobScheduler's time limit is reached.
Constrain(j) ==
    /\ ctx[j] = "running"
    /\ ctx' = [ctx EXCEPT ![j] = "stopping"]
    /\ UNCHANGED <<settings, due, call, stored, service, synced, lapsed>>

\* onStopJob.  A future cancelled before it starts never runs, its finally
\* block neither; one whose finally block has begun is no longer in `running`.
\* JobScheduler ignores the jobFinished of a start that is over.
StopJob(j) ==
    /\ MainFree /\ ctx[j] = "stopping"
    /\ ctx' = [ctx EXCEPT ![j] = "idle"]
    /\ finishing' = [finishing EXCEPT ![j] = "no"]
    /\ IF task.job = j /\ task.at = "waiting"
       THEN EarlyStop /\ task' = NoTask
       ELSE task' = IF task.job = j /\ task.at = "syncing"
                    THEN [task EXCEPT !.stopped = TRUE] ELSE task
    /\ UNCHANGED <<settings, due, call, stored, flag, synced, lapsed>>

\* The try or catch block ends, and the finally block takes the operation out
\* of `running`: a stop does not reach it any more.
Leave(retry) ==
    task' = [task EXCEPT !.at = "leaving", !.retry = retry, !.region = "none"]

\* The periodic job does nothing once the feature is disabled.
SkipSync ==
    /\ task.at = "waiting" /\ task.job = "periodic" /\ ~enabled
    /\ Leave(FALSE)
    /\ UNCHANGED <<settings, due, call, stored, ctx, flag, finishing, synced, lapsed>>

BeginSync ==
    /\ task.at = "waiting" /\ (task.job = "periodic" => enabled)
    /\ task' = [task EXCEPT !.at = "syncing", !.region = region]
    /\ UNCHANGED <<settings, due, call, stored, ctx, flag, finishing, synced, lapsed>>

EndSync ==
    /\ task.at = "syncing"
    /\ synced' = task.region
    /\ Leave(FALSE)
    /\ UNCHANGED <<settings, due, call, stored, ctx, flag, finishing, lapsed>>

FailSync ==
    /\ task.at = "syncing"
    /\ Leave(~task.stopped)
    /\ UNCHANGED <<settings, due, call, stored, ctx, flag, finishing, synced, lapsed>>

\* What the check of `stopped` leads to.
Finishes == ~task.stopped /\ ctx[task.job] # "idle"

\* Mutant: a task that was stopped leaves the flag to whoever stopped it.
FinallyUnlessStopped ==
    /\ task.at = "leaving"
    /\ flag' = (flag /\ task.stopped) /\ task' = NoTask
    /\ finishing' = [j \in Jobs |->
                       IF j # task.job \/ ~Finishes THEN finishing[j]
                       ELSE IF task.retry THEN "retry" ELSE "done"]
    /\ UNCHANGED <<settings, due, call, stored, ctx, synced, lapsed>>

\* The flag is cleared, and unless the operation was stopped jobFinished is
\* on its way.  Between the two nothing can stop the operation.
Finally ==
    /\ task.at = "leaving"
    /\ flag' = FALSE /\ task' = NoTask
    /\ finishing' = [j \in Jobs |->
                       IF j # task.job \/ ~Finishes THEN finishing[j]
                       ELSE IF task.retry THEN "retry" ELSE "done"]
    /\ UNCHANGED <<settings, due, call, stored, ctx, synced, lapsed>>

\* jobFinished arrives, perhaps while JobScheduler is stopping the job.
JobFinished(j) ==
    /\ finishing[j] # "no"
    /\ finishing' = [finishing EXCEPT ![j] = "no"]
    /\ ctx' = [ctx EXCEPT ![j] = "idle"]
    /\ stored' = [stored EXCEPT ![j] = @ /\ (j = "periodic" \/ finishing[j] = "retry")]
    /\ UNCHANGED <<settings, due, call, flag, task, synced, lapsed>>

ProcessGone ==
    /\ call' = [c \in Threads |-> "idle"]
    /\ ctx' = [j \in Jobs |-> "idle"]
    /\ flag' = FALSE /\ task' = NoTask /\ finishing' = [j \in Jobs |-> "no"]

\* The jobs survive the process; calls and the user-switch receiver do not.
Kill ==
    /\ "kill" \in World
    /\ ProcessGone
    /\ due' = due \ {"user"}
    /\ lapsed' = (lapsed \/ \E c \in Threads : call[c] # "idle")
    /\ UNCHANGED <<settings, stored, synced>>

\* Only the periodic job is persisted.
Reboot ==
    /\ "reboot" \in World
    /\ ProcessGone
    /\ due' = {"boot"}
    /\ stored' = [stored EXCEPT !["refresh"] = FALSE]
    /\ UNCHANGED <<settings, synced, lapsed>>

-----------------------------------------------------------------------------
Next ==
    \/ SetEnabled \/ SetRegion \/ SwitchUser
    \/ \E d \in {"boot", "user", "locale", "apply"} : Receive(d)
    \/ RefreshCatalog \/ DeleteCatalog
    \/ \E c \in Threads : CallStep(c)
    \/ \E j \in Jobs : StartJob(j) \/ RefuseJob(j) \/ Constrain(j) \/ StopJob(j)
    \/ SkipSync \/ BeginSync \/ EndSync \/ FailSync \/ Finally
    \/ \E j \in Jobs : JobFinished(j)
    \/ Kill \/ Reboot

Spec == Init /\ [][Next]_vars

(***************************************************************************)
(* The framework delivers what it was given and runs each stored job again *)
(* and again (a periodic job every period); a synchronization that runs    *)
(* again and again is neither stopped nor fails every time.                *)
(***************************************************************************)
Fairness ==
    /\ \A d \in {"boot", "user", "locale", "apply"} : SF_vars(Receive(d))
    /\ \A c \in Threads : SF_vars(CallStep(c))
    /\ \A j \in Jobs : SF_vars(StartJob(j)) /\ WF_vars(StopJob(j))
    /\ SF_vars(SkipSync \/ BeginSync)
    /\ SF_vars(EndSync)
    /\ WF_vars(Finally \/ \E j \in Jobs : JobFinished(j))

FairSpec == Spec /\ Fairness

-----------------------------------------------------------------------------
(* Properties.                                                             *)

\* The flag is set exactly while there is a task that will clear it.
FlagHasOwner == flag <=> task # NoTask

\* Every job JobScheduler believes to run has a task that will finish it, or a
\* jobFinished of its own on the way, whatever stops it or starts meanwhile.
RunningJobEnds ==
    \A j \in Jobs : ctx[j] = "running" =>
        (task.job = j /\ ~task.stopped) \/ finishing[j] # "no"

\* Once every call is answered the periodic job is scheduled exactly when
\* the feature is enabled, unless a call acted on a stale setting or died.
Settled == due = {} /\ \A c \in Threads : call[c] = "idle"
JobsFollowSetting == Settled /\ ~lapsed => (stored["periodic"] <=> enabled)

\* While the feature is enabled and the selection stays, its catalog is
\* downloaded, however often jobs are stopped, refused or restarted.
Obliged(r) == enabled /\ region = r /\ ~lapsed
CatchesUp == \A r \in Regions : Obliged(r) ~> (synced = r \/ ~Obliged(r))

=============================================================================

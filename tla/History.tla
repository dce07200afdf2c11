------------------------------ MODULE History ------------------------------
(***************************************************************************)
(* The recognition history: one table, which the detection service adds    *)
(* to, and the activity that shows it and deletes from it.  The activity   *)
(* has a single-thread executor for the table and shows on the main thread *)
(* what its executor posts there.  A task that runs when its activity is   *)
(* destroyed runs on beside the next activity.                             *)
(***************************************************************************)
EXTENDS Naturals, Sequences, SequencesExt, FiniteSets

CONSTANTS
    MaxEntries, Retention,
    IdBound, ClockBound, TaskBound, PostBound, OrphanBound

ASSUME ConstantsOK ==
    /\ MaxEntries \in Nat \ {0} /\ Retention \in Nat
    /\ {IdBound, ClockBound, OrphanBound} \subseteq Nat
    /\ {TaskBound, PostBound} \subseteq Nat \ {0}

VARIABLES
    now,        \* currentTimeMillis, which the user may set
    table,
    sequence,   \* the last id given, kept by AUTOINCREMENT
    life,       \* the life cycle of the activity
    tasks,      \* its executor: the head may be running
    posts,      \* what it will show, in the queue of the main thread
    shown,      \* what it shows
    seen,       \* every row it has shown; with none, clearButton is disabled
    erased,     \* history: the rows it deleted
    orphans     \* running tasks of activities that are destroyed

store == <<table, sequence>>
screen == <<life, tasks, posts, shown, seen, erased>>
vars == <<now, table, sequence, life, tasks, posts, shown, seen, erased, orphans>>

Rows == [id : 1..IdBound, at : 0..ClockBound]
Load == [kind |-> "load"]
Clear == [kind |-> "clear"]
Delete(row) == [kind |-> "delete", row |-> row]
Tasks == {Load, Clear} \cup {Delete(row) : row \in Rows}

\* The types, the bound of the table and the uniqueness of its key.
TypeOK ==
    /\ now \in 0..ClockBound /\ sequence \in 0..IdBound
    /\ table \subseteq Rows /\ Cardinality(table) <= MaxEntries
    /\ \A r, s \in table : r.id = s.id => r = s
    /\ life \in {"none", "paused", "resumed"}
    /\ Len(tasks) <= TaskBound /\ Range(tasks) \subseteq Tasks
    /\ Len(posts) <= PostBound /\ UNION Range(posts) \subseteq Rows
    /\ shown \cup seen \cup erased \subseteq Rows
    /\ orphans \subseteq Tasks

NoActivity ==
    /\ life = "none"
    /\ tasks = <<>> /\ posts = <<>>
    /\ shown = {} /\ seen = {} /\ erased = {}

\* A new activity starts from there too.
EndActivity ==
    /\ life' = "none"
    /\ tasks' = <<>> /\ posts' = <<>>
    /\ shown' = {} /\ seen' = {} /\ erased' = {}

Init ==
    /\ now \in 0..ClockBound /\ table = {} /\ sequence = 0
    /\ NoActivity /\ orphans = {}

-----------------------------------------------------------------------------
(* RecognitionHistoryStore.                                                *)

\* Mutant: of two rows of one time the older goes first.
AheadOldestId(r, s) == r.at > s.at \/ (r.at = s.at /\ r.id < s.id)

\* ORDER BY recognized_at_ms DESC, id DESC
Ahead(r, s) == r.at > s.at \/ (r.at = s.at /\ r.id > s.id)

\* Mutant: the rows added last, whatever the clock said.
NewestById(rows) ==
    {r \in rows : Cardinality({s \in rows : s.id > r.id}) < MaxEntries}

\* The first MaxEntries rows of that order.
Newest(rows) ==
    {r \in rows : Cardinality({s \in rows : Ahead(s, r)}) < MaxEntries}

\* Mutant: the number of rows is not limited.
PruneOnlyOld(rows, time) == {r \in rows : r.at + Retention >= time}

Prune(rows, time) == Newest({r \in rows : r.at + Retention >= time})

\* Mutant: the key is INTEGER PRIMARY KEY without AUTOINCREMENT.
NextIdOfTable ==
    IF table = {} THEN 1
    ELSE 1 + CHOOSE i \in {r.id : r \in table} : \A r \in table : r.id <= i

NextId == sequence + 1

\* record, in one transaction.
Record ==
    /\ sequence < IdBound
    /\ sequence' = NextId
    /\ table' = Prune(table \cup {[id |-> NextId, at |-> now]}, now)
    /\ UNCHANGED <<now, screen, orphans>>

NewestFirst == Newest(table)

SetClock == \E t \in 0..ClockBound : now' = t /\ UNCHANGED <<store, screen, orphans>>

-----------------------------------------------------------------------------
(* HistoryActivity, on the main thread.                                    *)

Execute(task) == Len(tasks) < TaskBound /\ tasks' = Append(tasks, task)

OnCreate ==
    /\ life = "none" /\ life' = "paused"
    /\ UNCHANGED <<now, store, tasks, posts, shown, seen, erased, orphans>>

OnResume ==
    /\ life = "paused" /\ life' = "resumed"
    /\ Execute(Load)
    /\ UNCHANGED <<now, store, posts, shown, seen, erased, orphans>>

OnPause ==
    /\ life = "resumed" /\ life' = "paused"
    /\ UNCHANGED <<now, store, tasks, posts, shown, seen, erased, orphans>>

\* shutdownNow drops what is queued; a task that runs ends as it would have,
\* but nothing renders its list.
OnDestroy ==
    /\ life = "paused"
    /\ EndActivity
    /\ \/ UNCHANGED orphans
       \/ /\ tasks # <<>> /\ Head(tasks) # Load
          /\ Cardinality(orphans) < OrphanBound
          /\ orphans' = orphans \cup {Head(tasks)}
    /\ UNCHANGED <<now, store>>

TapDelete ==
    /\ life = "resumed"
    /\ \E r \in shown : Execute(Delete(r))
    /\ UNCHANGED <<now, store, life, posts, shown, seen, erased, orphans>>

\* The dialog opens while something is shown and may be confirmed later.
ConfirmClear ==
    /\ life = "resumed" /\ seen # {}
    /\ Execute(Clear)
    /\ UNCHANGED <<now, store, life, posts, shown, seen, erased, orphans>>

\* Mutant: lists are posted by threads that overtake one another.
RenderAny ==
    /\ posts # <<>>
    /\ \E i \in 1..Len(posts) :
          /\ posts' = RemoveAt(posts, i)
          /\ shown' = posts[i] /\ seen' = seen \cup posts[i]
    /\ UNCHANGED <<now, store, life, tasks, erased, orphans>>

Render ==
    /\ posts # <<>>
    /\ posts' = Tail(posts)
    /\ shown' = Head(posts) /\ seen' = seen \cup Head(posts)
    /\ UNCHANGED <<now, store, life, tasks, erased, orphans>>

-----------------------------------------------------------------------------
(* HistoryActivity, on its executor.                                       *)

Running(kind) == tasks # <<>> /\ Head(tasks).kind = kind
Post(rows) == Len(posts) < PostBound /\ posts' = Append(posts, rows)
Without(row) == {r \in table : r.id # row.id}

\* loadEntries, and the second half of a deletion.
DoLoad ==
    /\ Running("load")
    /\ Post(NewestFirst)
    /\ tasks' = Tail(tasks)
    /\ UNCHANGED <<now, store, life, shown, seen, erased, orphans>>

\* Mutant: the list is read before the row is deleted.
DoDeleteLast ==
    /\ Running("delete")
    /\ Post(NewestFirst)
    /\ table' = Without(Head(tasks).row)
    /\ erased' = erased \cup {Head(tasks).row}
    /\ tasks' = Tail(tasks)
    /\ UNCHANGED <<now, sequence, life, shown, seen, orphans>>

\* The first half of a deletion.
DoDelete ==
    /\ Running("delete")
    /\ table' = Without(Head(tasks).row)
    /\ erased' = erased \cup {Head(tasks).row}
    /\ tasks' = <<Load>> \o Tail(tasks)
    /\ UNCHANGED <<now, sequence, life, posts, shown, seen, orphans>>

DoClear ==
    /\ Running("clear")
    /\ Post({})
    /\ table' = {}
    /\ erased' = erased \cup table
    /\ tasks' = Tail(tasks)
    /\ UNCHANGED <<now, sequence, life, shown, seen, orphans>>

\* A task of a destroyed activity.
DoOrphan ==
    /\ \E task \in orphans :
          /\ table' = IF task = Clear THEN {} ELSE Without(task.row)
          /\ orphans' = orphans \ {task}
    /\ UNCHANGED <<now, sequence, screen>>

ProcessDies ==
    /\ EndActivity /\ orphans' = {}
    /\ UNCHANGED <<now, store>>

Next ==
    \/ Record \/ SetClock \/ ProcessDies
    \/ OnCreate \/ OnResume \/ OnPause \/ OnDestroy
    \/ TapDelete \/ ConfirmClear \/ Render
    \/ DoLoad \/ DoDelete \/ DoClear \/ DoOrphan

Spec == Init /\ [][Next]_vars

-----------------------------------------------------------------------------
(* Properties.                                                             *)

\* A deletion under way finds the row that was tapped or none: an id is never
\* given again, not even after its row is gone or the process has died.
DeletesWhatWasTapped ==
    \A task \in Range(tasks) \cup orphans :
        task.kind = "delete" =>
            \A r \in table : r.id = task.row.id => r = task.row

\* Once everything the activity started is done, no row it deleted is shown.
DeletedNotShown == tasks = <<>> /\ posts = <<>> => shown \cap erased = {}

\* A row that the activity ceased to show never comes back to it.
NoReturn == (seen \ shown) \cap (table \cup UNION Range(posts)) = {}

Asked(r) ==
    \/ tasks' # tasks /\ tasks # <<>> /\ Head(tasks) \in {Clear, Delete(r)}
    \/ orphans \ orphans' \in {{Clear}, {Delete(r)}}

\* A row leaves the table because the user asked for it, because it is too
\* old, or because so many newer ones stay.
LeavesForAReason ==
    [][\A r \in table \ table' :
          \/ Asked(r)
          \/ r.at + Retention < now
          \/ Cardinality({s \in table' : Ahead(s, r)}) >= MaxEntries]_vars

\* What was just recognized is in the history, unless the clock was set back
\* behind what is recorded there.
RecognizedIsKept ==
    [][sequence' > sequence /\ (\A r \in table : r.at <= now)
          => [id |-> sequence', at |-> now] \in table']_vars

\* README.md:44 says of the history that it keeps at most 30 days.
KeptAtMostRetention == \A r \in table : r.at + Retention >= now

=============================================================================

---------------------------- MODULE CatalogStore ----------------------------
(***************************************************************************)
(* ShardStore: synchronization of the shard catalog with the server and    *)
(* its deletion, both under STORE_LOCK, with CatalogSource.download and    *)
(* the NativeRecognizer they drive.  The process may die between any two   *)
(* steps: the disk survives, the recognizer does not.                      *)
(*                                                                         *)
(* A pack is a shard's name with its size.  `files` tells of each pack      *)
(* whether the file of its name is there with its size: "absent", or its   *)
(* contents pass validateShard ("good") or not ("bad").  A name that is    *)
(* published again with another size is another pack.                      *)
(***************************************************************************)
EXTENDS Naturals, Sequences, FiniteSets

CONSTANTS
    Packs,      \* shards: a name and a size
    NameOf,     \* the name of each pack
    Targets,    \* pairs of a build and a country
    Manifest,   \* the shards of each target, in manifest order
    Faults      \* what may go wrong, a subset of FaultKinds

FaultKinds == {"crash", "network", "contents", "reload", "write", "open"}

ASSUME ConstantsOK ==
    /\ "none" \notin Targets
    /\ Manifest \in [Targets -> Seq(Packs)]
    /\ \A t \in Targets : \A i, j \in 1..Len(Manifest[t]) :
          NameOf[Manifest[t][i]] = NameOf[Manifest[t][j]] => i = j
    /\ Faults \subseteq FaultKinds

VARIABLES
    \* the disk
    files,       \* catalog/objects: each shard's file
    partial,     \* names with a .partial file left in objects
    active,      \* active.json
    \* NativeRecognizer
    ready,       \* initialized
    shards,      \* downloaded shards the recognizer has open
    clean,       \* whether all of them were good when opened
    opener,      \* who is inside initialize, holding its monitor
    opening,     \* the shards that initialize is about to open
    \* sync and delete
    sync,        \* where the synchronization is
    goal,        \* the desired selection
    work,        \* its variable `active`
    next,        \* position in the goal it is at
    growing,     \* its variable `incremental`
    deleting,    \* whether deleteDownloaded is under way
    \* history
    cutShort,    \* a deletion, or a synchronization that replaces a file,
                 \* died leaving active.json with a missing file, and this is
                 \* not made good yet
    adrift       \* the open shards may differ from the active catalog

disk == <<files, partial, active>>
recognizer == <<ready, shards, clean, opener, opening>>
progress == <<goal, work, next, growing>>
vars == <<files, partial, active, ready, shards, clean, opener, opening, sync,
          goal, work, next, growing, deleting, cutShort, adrift>>

None == [target |-> "none", packs |-> <<>>, complete |-> FALSE]

Elements(s) == {s[i] : i \in 1..Len(s)}
Take(s, k) == SubSeq(s, 1, IF k < Len(s) THEN k ELSE Len(s))
AllGood(s) == \A n \in Elements(s) : files[n] = "good"
Present == {n \in Packs : files[n] # "absent"}
NamesIn(ps) == {NameOf[p] : p \in ps}

\* The same name with another size.
Namesakes(p) == {q \in Packs \ {p} : NameOf[q] = NameOf[p]}

\* parseActive, allFilesMatch: a catalog with a missing file reads as none.
ReadActive == IF Elements(active.packs) \subseteq Present THEN active ELSE None

SyncSteps == {"idle", "opening", "fetching", "ensuring", "downloading",
              "validating", "ensured", "activating", "writing", "pruning", "done"}

EnsuringSteps == {"ensuring", "downloading", "validating", "ensured"}

Catalogs == [target : Targets \cup {"none"}, packs : Seq(Packs), complete : BOOLEAN]

TypeOK ==
    /\ files \in [Packs -> {"absent", "good", "bad"}]
    /\ partial \subseteq Packs
    /\ active \in Catalogs
    /\ ready \in BOOLEAN /\ clean \in BOOLEAN
    /\ shards \in Seq(Packs)
    /\ opener \in {"none", "sync", "recognition"}
    /\ opening \in Seq(Packs)
    /\ sync \in SyncSteps
    /\ goal \in Catalogs /\ work \in Catalogs
    /\ next \in 1..(Len(goal.packs) + 1)
    /\ sync \in EnsuringSteps => next <= Len(goal.packs)
    /\ growing \in BOOLEAN /\ deleting \in BOOLEAN
    /\ cutShort \in BOOLEAN /\ adrift \in BOOLEAN

Init ==
    /\ files = [n \in Packs |-> "absent"] /\ partial = {} /\ active = None
    /\ ready = FALSE /\ shards = <<>> /\ clean = TRUE
    /\ opener = "none" /\ opening = <<>>
    /\ sync = "idle" /\ goal = None /\ work = None
    /\ next = 1 /\ growing = FALSE
    /\ deleting = FALSE
    /\ cutShort = FALSE /\ adrift = FALSE

StoreFree == sync = "idle" /\ ~deleting

-----------------------------------------------------------------------------
(* NativeRecognizer.initialize, by the synchronization or by a recognition *)
(* that does not hold STORE_LOCK.                                          *)

OpenBegin(who) ==
    /\ ~ready /\ opener = "none"
    /\ opener' = who
    /\ opening' = ReadActive.packs
    /\ UNCHANGED <<ready, shards, clean>>

\* A missing shard, or a bad one that its open rejects, leaves the core
\* shard alone; when that fails too, initialize throws.  Files read while a
\* deletion removes them stay open although they are gone.
OpenEnd(who) ==
    /\ opener = who
    /\ opener' = "none" /\ opening' = <<>>
    /\ \/ /\ Elements(opening) \subseteq Present
          /\ ready' = TRUE
          /\ shards' = opening /\ clean' = AllGood(opening)
          /\ adrift' = (deleting /\ opening # <<>>)
       \/ /\ ~AllGood(opening) \/ "open" \in Faults
          /\ ready' = TRUE
          /\ shards' = <<>> /\ clean' = TRUE
          /\ adrift' = (opening # <<>>)
       \/ /\ "open" \in Faults
          /\ UNCHANGED <<ready, shards, clean, adrift>>

RecognitionOpenBegin ==
    /\ OpenBegin("recognition")
    /\ UNCHANGED <<disk, sync, progress, deleting, cutShort, adrift>>

\* Mutant: initialize takes STORE_LOCK under the recognizer's monitor.
RecognitionOpenEndLocked ==
    /\ StoreFree
    /\ OpenEnd("recognition")
    /\ UNCHANGED <<disk, sync, progress, deleting, cutShort>>

RecognitionOpenEnd ==
    /\ OpenEnd("recognition")
    /\ UNCHANGED <<disk, sync, progress, deleting, cutShort>>

-----------------------------------------------------------------------------
(* syncLocked.                                                             *)

SyncBegin ==
    /\ StoreFree
    /\ partial' = {}
    /\ sync' = "opening"
    /\ UNCHANGED <<files, active, recognizer, progress, deleting, cutShort, adrift>>

SyncOpenBegin ==
    /\ sync = "opening"
    /\ OpenBegin("sync")
    /\ UNCHANGED <<disk, sync, progress, deleting, cutShort, adrift>>

SyncOpenEnd ==
    /\ OpenEnd("sync")
    /\ sync' = IF ready' THEN "fetching" ELSE "idle"
    /\ UNCHANGED <<disk, progress, deleting, cutShort>>

SyncOpened ==
    /\ sync = "opening" /\ ready
    /\ sync' = "fetching"
    /\ UNCHANGED <<disk, recognizer, progress, deleting, cutShort, adrift>>

\* Mutant: what is active is compared by build and country only.
SameTarget(now, t, packs) == now.target = t

\* Mutant: any catalog whose shards the selection begins with can grow.
PrefixOfAny(now, t, packs) == Take(packs, Len(now.packs)) = now.packs

Same(now, t, packs) == now.target = t /\ now.packs = packs
Prefix(now, t, packs) ==
    now.target = t /\ Take(packs, Len(now.packs)) = now.packs

\* latestBuild, manifest and select: the storage cap keeps a first part of
\* the target's shards.  What is active then decides how to get there.
Fetch(t, k) ==
    LET packs == Take(Manifest[t], k)
        whole == [target |-> t, packs |-> packs, complete |-> TRUE]
        now == ReadActive
    IN /\ sync = "fetching"
       /\ goal' = whole
       /\ growing' = (now = None \/ Prefix(now, t, packs))
       /\ IF Same(now, t, packs)
          THEN /\ work' = whole
               /\ next' = k + 1
               /\ sync' = IF now.complete THEN "pruning" ELSE "activating"
          ELSE /\ next' = IF growing' THEN Len(now.packs) + 1 ELSE 1
               /\ work' = IF k = 0 THEN whole ELSE now
               /\ sync' = IF k = 0 THEN "activating" ELSE "ensuring"
       /\ UNCHANGED <<disk, recognizer, deleting, cutShort, adrift>>

\* ensureObject.  A file already in the active catalog is not validated
\* again; a cached one that is rejected is downloaded afresh.
Wanted == goal.packs[next]
AlreadyActive == Wanted \in Elements(work.packs)

\* Mutant: a cached file is taken as it is.
EnsurePresent ==
    /\ sync = "ensuring"
    /\ files[Wanted] # "absent"
    /\ sync' = "ensured"
    /\ UNCHANGED <<disk, recognizer, progress, deleting, cutShort, adrift>>

EnsureCached ==
    /\ sync = "ensuring"
    /\ files[Wanted] = "good" \/ (files[Wanted] = "bad" /\ AlreadyActive)
    /\ sync' = "ensured"
    /\ UNCHANGED <<disk, recognizer, progress, deleting, cutShort, adrift>>

RejectCached ==
    /\ sync = "ensuring"
    /\ files[Wanted] = "bad" /\ ~AlreadyActive
    /\ files' = [files EXCEPT ![Wanted] = "absent"]
    /\ UNCHANGED <<partial, active, recognizer, sync, progress, deleting,
                   cutShort, adrift>>

\* A file of that name with another size is deleted, whoever uses it.
DeleteOtherSize ==
    /\ sync = "ensuring"
    /\ files[Wanted] = "absent"
    /\ Namesakes(Wanted) \cap Present # {}
    /\ files' = [p \in Packs |-> IF p \in Namesakes(Wanted) THEN "absent" ELSE files[p]]
    /\ UNCHANGED <<partial, active, recognizer, sync, progress, deleting,
                   cutShort, adrift>>

\* The bytes go to a .partial file, which a rename makes the shard's file.
DownloadBegin ==
    /\ sync = "ensuring"
    /\ files[Wanted] = "absent"
    /\ Namesakes(Wanted) \cap Present = {}
    /\ partial' = partial \cup {Wanted}
    /\ sync' = "downloading"
    /\ UNCHANGED <<files, active, recognizer, progress, deleting, cutShort, adrift>>

DownloadEnd ==
    /\ sync = "downloading"
    /\ \E q \in {"good"} \cup IF "contents" \in Faults THEN {"bad"} ELSE {} :
          files' = [files EXCEPT ![Wanted] = q]
    /\ partial' = partial \ {Wanted}
    /\ sync' = "validating"
    /\ UNCHANGED <<active, recognizer, progress, deleting, cutShort, adrift>>

Validated ==
    /\ sync = "validating"
    /\ files[Wanted] = "good"
    /\ sync' = "ensured"
    /\ UNCHANGED <<disk, recognizer, progress, deleting, cutShort, adrift>>

\* What ends halfway may leave active.json naming a file it removed.
CutShort == cutShort' = (cutShort \/ (~StoreFree /\ ReadActive # active))

\* An exception, or its propagation, ends the synchronization.
Idle ==
    /\ sync' = "idle"
    /\ goal' = None /\ work' = None /\ next' = 1 /\ growing' = FALSE

RejectDownloaded ==
    /\ sync = "validating"
    /\ files[Wanted] = "bad"
    /\ files' = [files EXCEPT ![Wanted] = "absent"]
    /\ Idle
    /\ CutShort
    /\ UNCHANGED <<partial, active, recognizer, deleting, adrift>>

\* Growing, every shard is activated as it comes; otherwise all at once.
Ensured ==
    /\ sync = "ensured"
    /\ IF growing
       THEN /\ work' = [target |-> goal.target,
                        packs |-> Take(goal.packs, next),
                        complete |-> next = Len(goal.packs)]
            /\ sync' = "activating"
            /\ UNCHANGED next
       ELSE IF next < Len(goal.packs)
            THEN next' = next + 1 /\ sync' = "ensuring" /\ UNCHANGED work
            ELSE work' = goal /\ sync' = "activating" /\ UNCHANGED next
    /\ UNCHANGED <<disk, recognizer, goal, growing, deleting, cutShort, adrift>>

\* activate: the files are checked, the recognizer takes them over (under
\* its monitor), and only then is active.json replaced.
Reload ==
    /\ sync = "activating" /\ opener = "none"
    /\ Elements(work.packs) \subseteq Present
    /\ shards' = work.packs /\ clean' = AllGood(work.packs)
    /\ ready' = TRUE
    /\ adrift' = TRUE
    /\ sync' = "writing"
    /\ UNCHANGED <<disk, opener, opening, progress, deleting, cutShort>>

\* Mutant: growing, the loop runs once more.
WriteActiveAndGoOn ==
    /\ sync = "writing"
    /\ active' = work
    /\ adrift' = FALSE
    /\ cutShort' = (cutShort /\ ~AllGood(work.packs))
    /\ IF growing
       THEN next' = next + 1 /\ sync' = "ensuring"
       ELSE sync' = "pruning" /\ UNCHANGED next
    /\ UNCHANGED <<files, partial, recognizer, goal, work, growing, deleting>>

WriteActive ==
    /\ sync = "writing"
    /\ active' = work
    /\ adrift' = FALSE
    /\ cutShort' = (cutShort /\ ~AllGood(work.packs))
    /\ IF growing /\ next < Len(goal.packs)
       THEN next' = next + 1 /\ sync' = "ensuring"
       ELSE sync' = "pruning" /\ UNCHANGED next
    /\ UNCHANGED <<files, partial, recognizer, goal, work, growing, deleting>>

\* Mutant: pruning does not wait for active.json to be replaced.
PruneEarly(n) ==
    /\ sync \in {"writing", "pruning"}
    /\ n \in Present /\ NameOf[n] \notin NamesIn(Elements(work.packs))
    /\ files' = [files EXCEPT ![n] = "absent"]
    /\ UNCHANGED <<partial, active, recognizer, sync, progress, deleting,
                   cutShort, adrift>>

PruneFile(n) ==
    /\ sync = "pruning"
    /\ n \in Present /\ NameOf[n] \notin NamesIn(Elements(work.packs))
    /\ files' = [files EXCEPT ![n] = "absent"]
    /\ UNCHANGED <<partial, active, recognizer, sync, progress, deleting,
                   cutShort, adrift>>

PruneEnd ==
    /\ sync = "pruning"
    /\ NamesIn(Present) \subseteq NamesIn(Elements(work.packs))
    /\ sync' = "done"
    /\ UNCHANGED <<disk, recognizer, progress, deleting, cutShort, adrift>>

SyncReturn ==
    /\ sync = "done"
    /\ Idle
    /\ UNCHANGED <<disk, recognizer, deleting, cutShort, adrift>>

\* The server does not answer, the download is interrupted or has another
\* length, the recognizer refuses a file, the disk is full.
SyncFails ==
    /\ \/ sync \in {"fetching", "downloading"} /\ "network" \in Faults
       \/ /\ sync = "activating" /\ opener = "none"
          /\ ~AllGood(work.packs) \/ "reload" \in Faults
       \/ sync \in {"writing", "pruning"} /\ "write" \in Faults
    /\ partial' = IF sync = "downloading" THEN partial \ {Wanted} ELSE partial
    /\ Idle
    /\ CutShort
    /\ UNCHANGED <<files, active, recognizer, deleting, adrift>>

-----------------------------------------------------------------------------
(* deleteDownloaded.                                                       *)

\* Mutant: the recognizer keeps its shards.
DeleteBeginKeepingOpen ==
    /\ StoreFree /\ opener = "none"
    /\ deleting' = TRUE
    /\ UNCHANGED <<disk, recognizer, sync, progress, cutShort, adrift>>

\* dropDownloadedShards does nothing when the recognizer is not initialized.
DeleteBegin ==
    /\ StoreFree /\ opener = "none"
    /\ deleting' = TRUE
    /\ IF ready
       THEN shards' = <<>> /\ clean' = TRUE /\ adrift' = FALSE
       ELSE UNCHANGED <<shards, clean, adrift>>
    /\ UNCHANGED <<disk, ready, opener, opening, sync, progress, cutShort>>

DeleteFile(n) ==
    /\ deleting /\ n \in Present
    /\ files' = [files EXCEPT ![n] = "absent"]
    /\ UNCHANGED <<partial, active, recognizer, sync, progress, deleting,
                   cutShort, adrift>>

DeleteEnd ==
    /\ deleting /\ Present = {}
    /\ partial' = {} /\ active' = None
    /\ deleting' = FALSE
    /\ cutShort' = (cutShort /\ ~clean)
    /\ UNCHANGED <<files, recognizer, sync, progress, adrift>>

DeleteFails ==
    /\ deleting /\ "write" \in Faults
    /\ deleting' = FALSE
    /\ CutShort
    /\ adrift' = (adrift \/ (ready /\ ReadActive # None))
    /\ UNCHANGED <<disk, recognizer, sync, progress>>

Crash ==
    /\ "crash" \in Faults
    /\ ready' = FALSE /\ shards' = <<>> /\ clean' = TRUE
    /\ opener' = "none" /\ opening' = <<>>
    /\ Idle
    /\ deleting' = FALSE
    /\ CutShort
    /\ adrift' = FALSE
    /\ UNCHANGED disk

-----------------------------------------------------------------------------
SyncStep ==
    \/ SyncBegin \/ SyncOpenBegin \/ SyncOpenEnd \/ SyncOpened
    \/ \E t \in Targets : \E k \in 0..Len(Manifest[t]) : Fetch(t, k)
    \/ EnsureCached \/ RejectCached \/ DeleteOtherSize
    \/ DownloadBegin \/ DownloadEnd \/ Validated \/ RejectDownloaded \/ Ensured \/ Reload \/ WriteActive
    \/ \E n \in Packs : PruneFile(n)
    \/ PruneEnd \/ SyncReturn

Deletion ==
    \/ DeleteBegin
    \/ \E n \in Packs : DeleteFile(n)
    \/ DeleteEnd

Next ==
    \/ RecognitionOpenBegin \/ RecognitionOpenEnd
    \/ SyncStep \/ SyncFails
    \/ Deletion \/ DeleteFails
    \/ Crash

Spec == Init /\ [][Next]_vars

\* A synchronization that has begun goes on, as its thread does, and so does
\* a recognition inside initialize.
FairSpec ==
    /\ Spec
    /\ WF_vars(sync # "idle" /\ SyncStep)
    /\ WF_vars(RecognitionOpenEnd)

-----------------------------------------------------------------------------
(* Properties.                                                             *)

\* Whenever the catalog can be read, and whatever the recognizer has open,
\* has passed validation: a crash between a download's rename and its
\* validation, or a rejected reload, never lets a bad shard in.
ValidatedOnly == ~cutShort => AllGood(ReadActive.packs) /\ clean

\* A synchronization that returns has made the selection active and complete
\* on disk, removed every other shard, and has the recognizer serve it.
SyncDelivers ==
    sync = "done" =>
        /\ active = goal
        /\ Present = Elements(goal.packs) /\ partial = {}
        /\ ready
        /\ ~adrift /\ ~cutShort => shards = goal.packs

\* Between operations the recognizer serves what active.json says, except
\* after a failed write, a fallback to the core shard, a deletion that failed
\* or one that raced with initialize.
RecognizerFollowsDisk ==
    StoreFree /\ ready /\ ~adrift /\ ~cutShort => shards = ReadActive.packs

\* Only a deletion takes a readable catalog away: no failed or interrupted
\* synchronization does, unless its selection has a name of that catalog with
\* another size, whose old file it deletes before it has the new one.
Replacing == sync = "ensuring" /\ Elements(active.packs) \cap Namesakes(Wanted) # {}

OnlyDeletionLoses ==
    [][~cutShort /\ ReadActive # None /\ ReadActive' = None
           => deleting \/ Replacing]_vars

\* Every observable change is one the abstract catalog allows; a catalog one
\* of whose files was removed for good counts as gone.
Abstract == INSTANCE Catalog WITH
    catalog <- IF cutShort THEN None ELSE ReadActive
ImplementsCatalog == Abstract!Spec

\* A synchronization ends: it holds STORE_LOCK while it waits for the
\* recognizer's monitor, and nothing inside that monitor waits for it. Only
\* recognitions whose opening fails over and over may keep it out for ever.
KeepsRetrying == []<>(opener = "recognition") /\ []<>(opener = "none")
SyncEnds == KeepsRetrying \/ ((sync # "idle") ~> (sync = "idle"))

=============================================================================

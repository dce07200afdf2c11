------------------------- MODULE CatalogStoreProofs -------------------------
(***************************************************************************)
(* The catalog on disk and in the recognizer, for any shards, manifests    *)
(* and faults: what can be read and what is open has been validated, a     *)
(* synchronization delivers its selection, the recognizer follows the      *)
(* disk, only a deletion or the replacement of a file of another size      *)
(* loses a catalog, and the store implements the abstract Catalog.         *)
(*                                                                         *)
(* None of these is inductive.  What a bad file, an unfinished deletion or *)
(* replacement, or an initialize under way may do later depends on where   *)
(* the synchronization is, so that the invariant follows it step by step.  *)
(***************************************************************************)
EXTENDS CatalogStore, SequenceTheorems, TLAPS

-------------------- (* The inductive invariant *) -------------------------

\* The first shards of a target's manifest, all of them once activated.
IsSelection(s) ==
    /\ s.target \in Targets
    /\ \E k \in 0..Len(Manifest[s.target]) : s.packs = Take(Manifest[s.target], k)

FetchedSteps == EnsuringSteps \cup {"activating", "writing", "pruning", "done"}

\* Where files of another size may be gone and active.json not yet replaced.
ReplacingSteps == EnsuringSteps \cup {"activating", "writing"}

\* Who excludes whom: STORE_LOCK, the recognizer's monitor, and that a
\* synchronization goes on from its opening with an initialized recognizer.
Exclusion ==
    /\ deleting => sync = "idle"
    /\ opener = "sync" => sync = "opening"
    /\ opener # "none" => ~ready
    /\ sync \notin {"idle", "opening"} => ready

\* The .partial files of a crash are gone once a synchronization has begun.
Partials ==
    sync # "idle" => partial = IF sync = "downloading" THEN {Wanted} ELSE {}

\* A name is one file, of one size.
OneFilePerName == \A p, q \in Present : NameOf[p] = NameOf[q] => p = q

\* What active.json names is there and good, but for what a synchronization
\* has removed to replace it: never a shard of its own selection.
ActiveIsGood ==
    ~cutShort =>
        /\ \A n \in Elements(active.packs) : files[n] # "bad"
        /\ ~deleting => \A n \in Elements(active.packs) :
                          n \in Present \/ (sync \in ReplacingSteps /\ n \notin Elements(goal.packs))

\* An initialize under way is about to open the active catalog, unless a file
\* of one of the two has gone since.
OpeningIsRight ==
    opener # "none" =>
        /\ ~cutShort => \A n \in Elements(opening) : files[n] # "bad"
        /\ Elements(opening) \subseteq Present /\ Elements(active.packs) \subseteq Present
              => opening = active.packs

OpenIsClean == ~cutShort => clean

GoalIsSelection ==
    sync \in FetchedSteps => IsSelection(goal) /\ goal.complete

\* The shards the loop has passed are good; one being downloaded belongs to
\* no catalog that can be read.
PassedIsGood ==
    sync \in EnsuringSteps =>
        /\ ~cutShort => work = active
        /\ ~cutShort => \A i \in 1..(next - 1) : files[goal.packs[i]] = "good"
        /\ ~cutShort /\ sync = "ensured" => files[Wanted] = "good"
        /\ ~cutShort /\ sync \in {"downloading", "validating"}
              => Wanted \notin Elements(active.packs)
        /\ sync = "downloading" => files[Wanted] = "absent" /\ Namesakes(Wanted) \cap Present = {}

\* A growing catalog is the part of the goal the loop has passed.
GrowsInOrder ==
    sync \in FetchedSteps /\ sync \notin {"pruning", "done"} /\ growing /\ ~cutShort =>
        \/ active = None
        \/ active.target = goal.target /\ active.packs = Take(goal.packs, next - 1)

\* What is being activated.
ActivatesGoal ==
    sync \in {"activating", "writing"} =>
        /\ work = [target |-> goal.target, packs |-> Take(goal.packs, next),
                   complete |-> next >= Len(goal.packs)]
        /\ ~growing => next >= Len(goal.packs)
        /\ ~cutShort => AllGood(work.packs)

\* Between the reload and active.json the recognizer is ahead of the disk.
ReloadedAhead ==
    sync = "writing" =>
        /\ shards = work.packs /\ (clean <=> AllGood(work.packs)) /\ adrift
        /\ Elements(work.packs) \subseteq Present

Delivered ==
    sync \in {"pruning", "done"} =>
        /\ active = goal /\ work = goal
        /\ Elements(goal.packs) \subseteq Present
        /\ sync = "done" => Present \subseteq Elements(goal.packs)

\* What the recognizer has open, outside a reload.
Serves ==
    ready /\ ~adrift =>
        /\ deleting => shards = <<>>
        /\ ~deleting /\ ~cutShort => shards = active.packs

IInv ==
    /\ TypeOK /\ Exclusion /\ Partials /\ OneFilePerName
    /\ ActiveIsGood /\ OpeningIsRight /\ OpenIsClean
    /\ GoalIsSelection /\ PassedIsGood /\ GrowsInOrder /\ ActivatesGoal
    /\ ReloadedAhead /\ Delivered /\ Serves

------------------------- (* First parts of a sequence *) ------------------

LEMMA TakeFacts ==
    ASSUME NEW S, NEW s \in Seq(S), NEW k \in Nat
    PROVE  /\ Take(s, k) \in Seq(S)
           /\ Len(Take(s, k)) = IF k < Len(s) THEN k ELSE Len(s)
           /\ \A i \in 1..Len(Take(s, k)) : Take(s, k)[i] = s[i]
<1> DEFINE n == IF k < Len(s) THEN k ELSE Len(s)
<1>1. n \in Int /\ n \in 0..Len(s) /\ \A i \in 1..n : s[i] \in S
  BY LenProperties, ElementOfSeq
<1> QED BY <1>1, SubSeqProperties DEF Take

\* A part as long as the sequence is all of it.
LEMMA TakeAll ==
    ASSUME NEW S, NEW s \in Seq(S), NEW k \in Nat, k >= Len(s)
    PROVE  Take(s, k) = s
BY SubSeqFull, LenProperties DEF Take

LEMMA TakeZero ==
    ASSUME NEW S, NEW s \in Seq(S)
    PROVE  Take(s, 0) = <<>>
BY TakeFacts, EmptySeq

\* The first part of a first part.
LEMMA TakeOfTake ==
    ASSUME NEW S, NEW s \in Seq(S), NEW j \in Nat, NEW k \in 0..Len(s)
    PROVE  \E m \in 0..Len(s) : Take(Take(s, k), j) = Take(s, m)
<1> DEFINE m == IF j < k THEN j ELSE k
<1>1. m \in 0..Len(s) /\ k \in Nat
  BY LenProperties
<1>2. /\ Take(s, k) \in Seq(S) /\ Len(Take(s, k)) = k
      /\ \A i \in 1..k : Take(s, k)[i] = s[i]
  BY <1>1, TakeFacts, LenProperties
<1>3. /\ Take(s, m) \in Seq(S) /\ Len(Take(s, m)) = m
      /\ \A i \in 1..m : Take(s, m)[i] = s[i]
  BY <1>1, TakeFacts, LenProperties
<1>4. /\ Take(Take(s, k), j) \in Seq(S) /\ Len(Take(Take(s, k), j)) = m
      /\ \A i \in 1..m : Take(Take(s, k), j)[i] = Take(s, k)[i]
  BY <1>1, <1>2, TakeFacts, LenProperties
<1>5. Take(Take(s, k), j) = Take(s, m)
  BY <1>1, <1>2, <1>3, <1>4, SeqEqual
<1> QED BY <1>1, <1>5

LEMMA ElementsFacts ==
    ASSUME NEW S, NEW s \in Seq(S)
    PROVE  /\ Elements(s) \subseteq S
           /\ Elements(s) = {} <=> s = <<>>
           /\ \A i \in 1..Len(s) : s[i] \in Elements(s)
<1>1. Elements(s) \subseteq S /\ \A i \in 1..Len(s) : s[i] \in Elements(s)
  BY ElementOfSeq DEF Elements
<1>2. CASE s = <<>>
  BY <1>1, <1>2, EmptySeq DEF Elements
<1>3. CASE s # <<>>
  <2>1. Len(s) \in Nat \ {0}
    BY <1>3, EmptySeq
  <2> QED BY <1>1, <1>3, <2>1
<1> QED BY <1>1, <1>2, <1>3

\* One element more.
LEMMA ElementsOfTake ==
    ASSUME NEW S, NEW s \in Seq(S), NEW k \in 1..Len(s), NEW e \in Elements(Take(s, k))
    PROVE  e = s[k] \/ \E i \in 1..(k - 1) : e = s[i]
BY TakeFacts, LenProperties DEF Elements

LEMMA NoPacks == Elements(None.packs) = {} /\ None.packs = <<>> /\ None.target \notin Targets
BY ConstantsOK DEF Elements, None

LEMMA InitIsRight == Init => IInv
<1> SUFFICES ASSUME Init PROVE IInv
  OBVIOUS
<1>1. None \in Catalogs /\ <<>> \in Seq(Packs) /\ Elements(None.packs) = {}
      /\ None.packs = <<>> /\ Len(None.packs) = 0
  BY NoPacks, EmptySeq DEF None, Catalogs
<1>2. TypeOK
  <2>1. files \in [Packs -> {"absent", "good", "bad"}]
    BY DEF Init
  <2>2. next \in 1..(Len(goal.packs) + 1)
    BY <1>1 DEF Init
  <2> QED BY <1>1, <2>1, <2>2 DEF Init, TypeOK, SyncSteps, EnsuringSteps
<1>3. /\ Exclusion /\ Partials /\ ActiveIsGood /\ OpeningIsRight /\ OpenIsClean
      /\ ReloadedAhead /\ Delivered /\ Serves
  BY <1>1 DEF Init, Exclusion, Partials, ActiveIsGood, OpeningIsRight, OpenIsClean,
     ReloadedAhead, Delivered, Serves
<1>4. GoalIsSelection /\ PassedIsGood /\ GrowsInOrder /\ ActivatesGoal
      /\ OneFilePerName
  BY DEF Init, OneFilePerName, Present, GoalIsSelection, PassedIsGood, GrowsInOrder, ActivatesGoal,
     FetchedSteps, EnsuringSteps
<1> QED BY <1>2, <1>3, <1>4 DEF IInv

\* What a reader finds is the active catalog or none.
LEMMA ReadActiveFacts ==
    ASSUME TypeOK
    PROVE  /\ ReadActive \in Catalogs /\ Elements(ReadActive.packs) \subseteq Present
           /\ Elements(active.packs) \subseteq Present => ReadActive = active
           /\ ~(Elements(active.packs) \subseteq Present) => ReadActive = None
           /\ ReadActive \in {active, None}
<1>1. active \in Catalogs /\ None \in Catalogs
  BY EmptySeq DEF TypeOK, None, Catalogs
<1> QED BY <1>1, NoPacks DEF ReadActive

---------------------- (* NativeRecognizer.initialize *) -------------------

LEMMA OpenBeginIsRight ==
    ASSUME IInv, NEW who \in {"sync", "recognition"}, OpenBegin(who),
           who = "sync" => sync = "opening",
           UNCHANGED <<disk, sync, progress, deleting, cutShort, adrift>>
    PROVE  IInv'
<1>1. /\ ~ready /\ opener = "none" /\ opener' = who /\ opening' = ReadActive.packs
      /\ UNCHANGED <<files, partial, active, ready, shards, clean, sync, goal, work, next,
                     growing, deleting, cutShort, adrift>>
  BY DEF OpenBegin, disk, progress
<1>2. opening' \in Seq(Packs)
  BY <1>1, ReadActiveFacts DEF IInv, Catalogs
<1>3. TypeOK'
  BY <1>1, <1>2 DEF IInv, TypeOK
<1>4. Exclusion'
  BY <1>1 DEF IInv, Exclusion
<1>5. OpeningIsRight'
  <2>1. ~cutShort => \A n \in Elements(ReadActive.packs) : files[n] # "bad"
    BY ReadActiveFacts, NoPacks DEF IInv, ActiveIsGood
  <2>2. Present' = Present
    BY <1>1 DEF Present
  <2> QED BY <1>1, <2>1, <2>2, ReadActiveFacts DEF IInv, OpeningIsRight
<1>6. /\ Partials' /\ ActiveIsGood' /\ OpenIsClean' /\ ReloadedAhead' /\ Delivered' /\ Serves'
      /\ GoalIsSelection' /\ PassedIsGood' /\ GrowsInOrder' /\ ActivatesGoal'
  BY <1>1 DEF IInv, Partials, ActiveIsGood, OpenIsClean, ReloadedAhead, Delivered, Serves,
     GoalIsSelection, PassedIsGood, GrowsInOrder, ActivatesGoal, Wanted, Namesakes, AllGood, Present
<1>7. OneFilePerName'
  BY <1>1 DEF IInv, OneFilePerName, Present
<1> QED BY <1>3, <1>4, <1>5, <1>6, <1>7 DEF IInv

LEMMA OpenEndIsRight ==
    ASSUME IInv, NEW who \in {"sync", "recognition"}, OpenEnd(who),
           sync' = IF who = "sync" THEN IF ready' THEN "fetching" ELSE "idle" ELSE sync,
           UNCHANGED <<disk, progress, deleting, cutShort>>
    PROVE  IInv'
<1>1. /\ opener = who /\ opener' = "none" /\ opening' = <<>>
      /\ UNCHANGED <<files, partial, active, goal, work, next, growing, deleting, cutShort>>
      /\ \/ /\ Elements(opening) \subseteq Present
            /\ ready' = TRUE /\ shards' = opening /\ clean' = AllGood(opening)
            /\ adrift' = (deleting /\ opening # <<>>)
         \/ /\ ready' = TRUE /\ shards' = <<>> /\ clean' = TRUE
            /\ adrift' = (opening # <<>>)
         \/ UNCHANGED <<ready, shards, clean, adrift>>
  BY DEF OpenEnd, disk, progress
<1>2. sync \in {"idle", "opening"} /\ sync' \in {"idle", "opening", "fetching"}
      /\ (sync' = "fetching" => ready' \/ sync = "fetching") /\ ~ready
      /\ deleting \in BOOLEAN /\ clean \in BOOLEAN /\ cutShort \in BOOLEAN
  BY <1>1 DEF IInv, Exclusion, TypeOK
<1>3. TypeOK'
  BY <1>1, <1>2, EmptySeq DEF IInv, TypeOK, SyncSteps, EnsuringSteps, AllGood
<1>4. Exclusion' /\ Partials' /\ OpeningIsRight'
  BY <1>1, <1>2 DEF IInv, Exclusion, Partials, OpeningIsRight
<1>5. ActiveIsGood' /\ OneFilePerName'
  BY <1>1, <1>2 DEF IInv, ActiveIsGood, OneFilePerName, ReplacingSteps, EnsuringSteps, Present
<1>6. OpenIsClean'
  <2>1. CASE clean' = AllGood(opening) /\ Elements(opening) \subseteq Present
    BY <1>1, <2>1 DEF IInv, TypeOK, OpeningIsRight, OpenIsClean, AllGood, Present
  <2>2. CASE clean' = TRUE
    BY <2>2 DEF OpenIsClean
  <2>3. CASE clean' = clean
    BY <1>1, <1>2, <2>3 DEF IInv, OpenIsClean
  <2> QED BY <1>1, <2>1, <2>2, <2>3
<1>7. Serves'
  <2>1. CASE shards' = opening /\ Elements(opening) \subseteq Present
             /\ adrift' = (deleting /\ opening # <<>>)
    <3>1. ~deleting /\ ~cutShort => opening = active.packs
      BY <1>1, <1>2, <2>1 DEF IInv, ActiveIsGood, OpeningIsRight, ReplacingSteps, EnsuringSteps
    <3> QED BY <1>1, <1>2, <2>1, <3>1 DEF Serves
  <2>2. CASE shards' = <<>> /\ adrift' = (opening # <<>>)
    <3>1. opening = <<>> /\ ~deleting /\ ~cutShort => active.packs = <<>>
      BY <1>1, <1>2, NoPacks DEF IInv, ActiveIsGood, OpeningIsRight, ReplacingSteps, EnsuringSteps,
         None
    <3>2. ~adrift' => opening = <<>>
      BY <2>2
    <3> QED BY <1>1, <1>2, <2>2, <3>1, <3>2 DEF Serves
  <2>3. CASE ready' = ready
    BY <1>2, <2>3 DEF Serves
  <2> QED BY <1>1, <2>1, <2>2, <2>3
<1>8. /\ GoalIsSelection' /\ PassedIsGood' /\ GrowsInOrder' /\ ActivatesGoal'
      /\ ReloadedAhead' /\ Delivered'
  BY <1>2 DEF GoalIsSelection, PassedIsGood, GrowsInOrder, ActivatesGoal, ReloadedAhead,
     Delivered, FetchedSteps, EnsuringSteps
<1> QED BY <1>3, <1>4, <1>5, <1>6, <1>7, <1>8 DEF IInv

-------------------------- (* syncLocked begins *) -------------------------

\* Once past its opening a synchronization has the recognizer to itself, and
\* unless one was cut short the active catalog is there and good, where none
\* of it is being replaced.
LEMMA PastOpening ==
    ASSUME IInv, sync \notin {"idle", "opening"}
    PROVE  /\ ready /\ opener = "none" /\ deleting = FALSE
           /\ active \in Catalogs /\ goal \in Catalogs /\ work \in Catalogs
           /\ active.packs \in Seq(Packs) /\ goal.packs \in Seq(Packs) /\ work.packs \in Seq(Packs)
           /\ next \in Nat /\ growing \in BOOLEAN /\ cutShort \in BOOLEAN
           /\ ~cutShort /\ (sync \in ReplacingSteps =>
                               Elements(active.packs) \subseteq Elements(goal.packs))
                 => /\ Elements(active.packs) \subseteq Present
                    /\ AllGood(active.packs) /\ ReadActive = active
<1>1. /\ ready /\ opener = "none" /\ deleting = FALSE
      /\ active \in Catalogs /\ goal \in Catalogs /\ work \in Catalogs
      /\ next \in Nat /\ growing \in BOOLEAN /\ cutShort \in BOOLEAN
  BY DEF IInv, Exclusion, TypeOK
<1>2. active.packs \in Seq(Packs) /\ goal.packs \in Seq(Packs) /\ work.packs \in Seq(Packs)
  BY <1>1 DEF Catalogs
<1>3. ASSUME ~cutShort, sync \in ReplacingSteps =>
                             Elements(active.packs) \subseteq Elements(goal.packs)
      PROVE  Elements(active.packs) \subseteq Present /\ AllGood(active.packs) /\ ReadActive = active
  <2>1. Elements(active.packs) \subseteq Present
    BY <1>1, <1>3 DEF IInv, ActiveIsGood
  <2>2. AllGood(active.packs)
    BY <1>2, <1>3, <2>1, ElementsFacts DEF IInv, ActiveIsGood, TypeOK, AllGood, Present
  <2> QED BY <2>1, <2>2, ReadActiveFacts DEF IInv
<1> QED BY <1>1, <1>2, <1>3

LEMMA SyncStartsIsRight ==
    ASSUME IInv, SyncBegin \/ SyncOpened
    PROVE  IInv'
<1>1. /\ sync' \in {"opening", "fetching"} /\ (sync' = "fetching" => ready)
      /\ deleting = FALSE /\ partial' = {} /\ (opener # "sync" \/ sync' = "opening")
      /\ UNCHANGED <<files, active, ready, shards, clean, opener, opening, goal, work, next,
                     growing, deleting, cutShort, adrift>>
  BY DEF SyncBegin, SyncOpened, StoreFree, IInv, TypeOK, Exclusion, Partials, disk, recognizer,
     progress
<1>2. TypeOK'
  BY <1>1 DEF IInv, TypeOK, SyncSteps, EnsuringSteps
<1>3. Exclusion' /\ Partials'
  BY <1>1 DEF IInv, Exclusion, Partials
<1>4. ActiveIsGood' /\ OneFilePerName' /\ OpeningIsRight' /\ OpenIsClean' /\ Serves'
  <2>1. sync \notin ReplacingSteps
    BY DEF SyncBegin, SyncOpened, StoreFree, ReplacingSteps, EnsuringSteps
  <2> QED BY <1>1, <2>1 DEF IInv, ActiveIsGood, OneFilePerName, OpeningIsRight, OpenIsClean, Serves,
         Present
<1>5. /\ GoalIsSelection' /\ PassedIsGood' /\ GrowsInOrder' /\ ActivatesGoal'
      /\ ReloadedAhead' /\ Delivered'
  BY <1>1 DEF GoalIsSelection, PassedIsGood, GrowsInOrder, ActivatesGoal, ReloadedAhead,
     Delivered, FetchedSteps, EnsuringSteps
<1> QED BY <1>2, <1>3, <1>4, <1>5 DEF IInv

\* The selected shards, and how the active catalog relates to them.
LEMMA SelectionFacts ==
    ASSUME TypeOK, NEW t \in Targets, NEW k \in 0..Len(Manifest[t]),
           NEW packs, packs = Take(Manifest[t], k)
    PROVE  /\ packs \in Seq(Packs) /\ Len(packs) = k /\ k \in Nat
           /\ ReadActive \in Catalogs /\ ReadActive.packs \in Seq(Packs)
           /\ Len(ReadActive.packs) \in Nat
           /\ ReadActive # None /\ Prefix(ReadActive, t, packs)
                 => Len(ReadActive.packs) <= k
           /\ ReadActive # None /\ Prefix(ReadActive, t, packs) /\ ~Same(ReadActive, t, packs)
                 => Len(ReadActive.packs) < k
           /\ Same(ReadActive, t, packs) => Prefix(ReadActive, t, packs) /\ ReadActive = active
           /\ k = 0 /\ Prefix(ReadActive, t, packs) => Same(ReadActive, t, packs)
<1> DEFINE now == ReadActive
<1>1. Manifest[t] \in Seq(Packs) /\ Len(Manifest[t]) \in Nat
  BY ConstantsOK, LenProperties
<1>2. packs \in Seq(Packs) /\ Len(packs) = k /\ k \in Nat
  BY <1>1, TakeFacts
<1>3. now \in Catalogs /\ now.packs \in Seq(Packs) /\ Len(now.packs) \in Nat
      /\ (now.target = t => now = active)
  BY ReadActiveFacts, NoPacks, LenProperties DEF Catalogs
<1>4. Take(packs, Len(now.packs)) = now.packs
         => Len(now.packs) <= k /\ (now.packs # packs => Len(now.packs) < k)
  <2> SUFFICES ASSUME Take(packs, Len(now.packs)) = now.packs
               PROVE  Len(now.packs) <= k /\ (now.packs # packs => Len(now.packs) < k)
    OBVIOUS
  <2>1. Len(now.packs) = IF Len(now.packs) < k THEN Len(now.packs) ELSE k
    BY <1>2, <1>3, TakeFacts
  <2>2. Len(now.packs) >= k => now.packs = packs
    BY <1>2, <1>3, TakeAll
  <2> QED BY <1>2, <1>3, <2>1, <2>2
<1>5. now.packs = packs => Take(packs, Len(now.packs)) = now.packs
  BY <1>2, <1>3, TakeAll
<1>6. k = 0 /\ Take(packs, Len(now.packs)) = now.packs => now.packs = packs
  BY <1>2, <1>3, <1>4
<1> QED BY <1>2, <1>3, <1>4, <1>5, <1>6 DEF Prefix, Same

LEMMA FetchIsRight ==
    ASSUME IInv, NEW t \in Targets, NEW k \in 0..Len(Manifest[t]), Fetch(t, k)
    PROVE  IInv'
<1> DEFINE packs == Take(Manifest[t], k)
           whole == [target |-> t, packs |-> packs, complete |-> TRUE]
           now == ReadActive
<1>1. /\ sync = "fetching" /\ goal' = whole
      /\ growing' = (now = None \/ Prefix(now, t, packs))
      /\ IF Same(now, t, packs)
         THEN /\ work' = whole /\ next' = k + 1
              /\ sync' = IF now.complete THEN "pruning" ELSE "activating"
         ELSE /\ next' = IF growing' THEN Len(now.packs) + 1 ELSE 1
              /\ work' = IF k = 0 THEN whole ELSE now
              /\ sync' = IF k = 0 THEN "activating" ELSE "ensuring"
      /\ UNCHANGED <<files, partial, active, ready, shards, clean, opener, opening, deleting,
                     cutShort, adrift>>
  BY DEF Fetch, disk, recognizer
<1>2. /\ packs \in Seq(Packs) /\ Len(packs) = k /\ k \in Nat
      /\ now \in Catalogs /\ now.packs \in Seq(Packs) /\ Len(now.packs) \in Nat
      /\ now # None /\ Prefix(now, t, packs) => Len(now.packs) <= k
      /\ now # None /\ Prefix(now, t, packs) /\ ~Same(now, t, packs) => Len(now.packs) < k
      /\ Same(now, t, packs) => Prefix(now, t, packs) /\ now = active
      /\ k = 0 /\ Prefix(now, t, packs) => Same(now, t, packs)
  BY SelectionFacts DEF IInv
<1>3. /\ ready /\ opener = "none" /\ deleting = FALSE /\ partial = {}
      /\ ~cutShort => now = active /\ AllGood(active.packs) /\ Elements(active.packs) \subseteq Present
  BY <1>1, PastOpening DEF IInv, Partials, ReplacingSteps, EnsuringSteps
<1>4. /\ whole \in Catalogs /\ goal' \in Catalogs /\ work' \in Catalogs /\ growing' \in BOOLEAN
      /\ sync' \in {"pruning", "activating", "ensuring"} /\ goal'.packs = packs
      /\ goal'.target = t /\ goal'.complete = TRUE
  <2>1. whole \in Catalogs
    BY <1>2 DEF Catalogs
  <2> QED BY <1>1, <1>2, <2>1
<1>5. /\ next' \in 1..(k + 1) /\ (sync' = "ensuring" => next' <= k)
      /\ (sync' = "activating" => next' = k + 1 /\ work' = whole)
      /\ (sync' = "ensuring" => work' = now)
  <2>1. CASE Same(now, t, packs)
    BY <1>1, <1>2, <2>1
  <2>2. CASE ~Same(now, t, packs) /\ now = None
    BY <1>1, <1>2, <2>2, NoPacks, EmptySeq
  <2>3. CASE ~Same(now, t, packs) /\ now # None
    <3>1. k # 0 /\ Prefix(now, t, packs) => next' = Len(now.packs) + 1 /\ sync' = "ensuring"
      BY <1>1, <2>3
    <3>2. ~Prefix(now, t, packs) => next' = 1
      BY <1>1, <2>3
    <3>3. sync' = IF k = 0 THEN "activating" ELSE "ensuring"
      BY <1>1, <2>3
    <3>4. work' = IF k = 0 THEN whole ELSE now
      BY <1>1, <2>3
    <3> HIDE DEF now, packs
    <3> QED BY <1>2, <2>3, <3>1, <3>2, <3>3, <3>4
  <2> QED BY <2>1, <2>2, <2>3
<1>6. TypeOK'
  BY <1>1, <1>2, <1>4, <1>5 DEF IInv, TypeOK, SyncSteps, EnsuringSteps
<1>7. Exclusion' /\ Partials'
  BY <1>1, <1>3, <1>4 DEF IInv, Exclusion, Partials
<1>8. ActiveIsGood' /\ OneFilePerName' /\ OpeningIsRight' /\ OpenIsClean' /\ Serves' /\ ReloadedAhead'
  BY <1>1, <1>3, <1>4 DEF IInv, ActiveIsGood, OneFilePerName, OpeningIsRight, OpenIsClean, Serves,
     ReloadedAhead, Present
<1>9. GoalIsSelection'
  BY <1>4 DEF GoalIsSelection, IsSelection
<1>10. PassedIsGood'
  <2> SUFFICES ASSUME sync' = "ensuring"
               PROVE  /\ ~cutShort => work' = active
                      /\ ~cutShort => \A i \in 1..(next' - 1) : files[packs[i]] = "good"
    BY <1>1, <1>4 DEF PassedIsGood, EnsuringSteps
  <2>1. ~Same(now, t, packs) /\ work' = now
    BY <1>1, <1>2, <1>5
  <2>2. ASSUME ~cutShort, NEW i \in 1..(next' - 1)
        PROVE  files[packs[i]] = "good"
    <3>1. now # None /\ Prefix(now, t, packs) /\ next' = Len(now.packs) + 1
      <4>1. growing' /\ next' = Len(now.packs) + 1
        BY <1>1, <2>1, <2>2
      <4>2. Len(<<>>) = 0 /\ None.packs = <<>>
        BY NoPacks
      <4>3. now # None
        BY <2>2, <4>1, <4>2
      <4>4. growing' = (now = None \/ Prefix(now, t, packs))
        BY <1>1
      <4> HIDE DEF now, packs
      <4> QED BY ONLY <4>1, <4>3, <4>4, Zenon
    <3>2. i \in 1..Len(now.packs) /\ now.packs[i] = packs[i]
      BY <1>2, <3>1, TakeFacts DEF Prefix
    <3>3. packs[i] \in Elements(now.packs)
      BY <1>2, <3>2, ElementsFacts
    <3> QED BY <1>3, <2>2, <3>3 DEF AllGood
  <2> QED BY <1>3, <2>1, <2>2
<1>11. GrowsInOrder'
  <2> SUFFICES ASSUME growing', ~cutShort, sync' # "pruning", active # None
               PROVE  active.target = t /\ active.packs = Take(packs, next' - 1)
    BY <1>1, <1>4 DEF GrowsInOrder
  <2>1. now = active /\ Prefix(now, t, packs)
    BY <1>1, <1>3
  <2>2. CASE Same(now, t, packs)
    BY <1>1, <1>2, <2>1, <2>2, TakeAll DEF Same
  <2>3. CASE ~Same(now, t, packs)
    BY <1>1, <1>2, <2>1, <2>3 DEF Prefix
  <2> QED BY <2>2, <2>3
<1>12. ActivatesGoal'
  <2> SUFFICES ASSUME sync' = "activating"
               PROVE  /\ work' = [target |-> t, packs |-> Take(packs, next'),
                                  complete |-> next' >= Len(packs)]
                      /\ next' >= Len(packs)
                      /\ ~cutShort => \A n \in Elements(packs) : files[n] = "good"
    BY <1>1, <1>4, <1>5 DEF ActivatesGoal, AllGood
  <2>1. next' = k + 1 /\ work' = whole /\ Take(packs, next') = packs
    BY <1>2, <1>5, TakeAll
  <2>2. Same(now, t, packs) \/ k = 0
    BY <1>1
  <2>3. ~cutShort => \A n \in Elements(packs) : files[n] = "good"
    <3>1. CASE Same(now, t, packs)
      BY <1>3, <3>1 DEF Same, AllGood
    <3>2. CASE k = 0
      BY <1>2, <3>2 DEF Elements
    <3> QED BY <2>2, <3>1, <3>2
  <2>4. next' >= Len(packs) /\ (next' >= Len(packs)) = TRUE
    BY <1>2, <2>1
  <2> QED BY <2>1, <2>3, <2>4
<1>13. Delivered'
  <2> SUFFICES ASSUME sync' = "pruning"
               PROVE  active = whole /\ work' = whole /\ Elements(packs) \subseteq Present
    BY <1>1, <1>4 DEF Delivered, Present
  <2>1. Same(now, t, packs) /\ now.complete /\ work' = whole
    BY <1>1
  <2>2. now = active /\ now.target = t /\ now.packs = packs /\ now.complete = TRUE
    BY <1>2, <2>1 DEF Same, Catalogs
  <2>3. active = whole
    BY <1>2, <2>2 DEF Catalogs
  <2> QED BY <2>1, <2>2, <2>3, ReadActiveFacts DEF IInv
<1> QED BY <1>6, <1>7, <1>8, <1>9, <1>10, <1>11, <1>12, <1>13 DEF IInv

----------------------------- (* ensureObject *) ---------------------------

LEMMA WantedFacts ==
    ASSUME IInv, sync \in EnsuringSteps
    PROVE  /\ sync \notin {"idle", "opening"} /\ next \in 1..Len(goal.packs) /\ next \in Nat
           /\ Wanted \in Packs /\ goal.packs \in Seq(Packs) /\ Len(goal.packs) \in Nat
           /\ files[Wanted] \in {"absent", "good", "bad"}
<1>1. sync \notin {"idle", "opening"}
  BY DEF EnsuringSteps
<1>2. goal.packs \in Seq(Packs) /\ Len(goal.packs) \in Nat
  BY <1>1, PastOpening, LenProperties
<1>3. next \in 1..Len(goal.packs)
  BY <1>2 DEF IInv, TypeOK
<1>4. Wanted \in Packs
  BY <1>2, <1>3, ElementOfSeq DEF Wanted
<1> QED BY <1>1, <1>2, <1>3, <1>4 DEF IInv, TypeOK

\* A selection has every name once, so that no shard of it has the name of
\* the wanted one with another size.
LEMMA GoalNames ==
    ASSUME IInv, sync \in EnsuringSteps
    PROVE  /\ Wanted \in Elements(goal.packs)
           /\ Elements(goal.packs) \cap Namesakes(Wanted) = {}
<1>1. IsSelection(goal) /\ next \in 1..Len(goal.packs)
  BY WantedFacts DEF IInv, GoalIsSelection, FetchedSteps
<1> DEFINE m == Manifest[goal.target]
<1>2. PICK k \in 0..Len(m) : goal.packs = Take(m, k)
  BY <1>1 DEF IsSelection
<1>3. goal.target \in Targets /\ m \in Seq(Packs) /\ Len(m) \in Nat
  BY <1>1, ConstantsOK, LenProperties DEF IsSelection
<1>4. Len(goal.packs) = k /\ k \in Nat /\ \A i \in 1..k : goal.packs[i] = m[i]
  BY <1>2, <1>3, TakeFacts
<1>5. \A i, j \in 1..Len(m) : NameOf[m[i]] = NameOf[m[j]] => i = j
  BY <1>3, ConstantsOK
<1>6. ASSUME NEW p \in Elements(goal.packs), p \in Namesakes(Wanted)
      PROVE  FALSE
  <2>1. PICK i \in 1..k : p = m[i]
    BY <1>4, <1>6 DEF Elements
  <2>2. Wanted = m[next] /\ next \in 1..k
    BY <1>1, <1>4 DEF Wanted
  <2>3. i = next
    BY <1>3, <1>4, <1>5, <1>6, <2>1, <2>2 DEF Namesakes
  <2> QED BY <1>6, <2>1, <2>2, <2>3 DEF Namesakes
<1> QED BY <1>1, <1>6 DEF Wanted, Elements

\* A step of the loop that touches no file.
LEMMA EnsuringGoesOn ==
    ASSUME IInv, sync \in EnsuringSteps, sync' \in EnsuringSteps,
           partial' = IF sync' = "downloading" THEN {Wanted} ELSE {},
           sync' = "ensured" /\ ~cutShort => files[Wanted] = "good",
           sync' = "downloading" =>
               files[Wanted] = "absent" /\ Namesakes(Wanted) \cap Present = {},
           sync' # "validating",
           UNCHANGED <<files, active, recognizer, progress, deleting, cutShort, adrift>>
    PROVE  IInv'
<1>1. UNCHANGED <<files, active, ready, shards, clean, opener, opening, goal, work, next,
                  growing, deleting, cutShort, adrift>>
  BY DEF recognizer, progress
<1>2. ready /\ opener = "none" /\ deleting = FALSE
  BY WantedFacts, PastOpening
<1>3. Wanted' = Wanted /\ Wanted \in Packs
  BY <1>1, WantedFacts DEF Wanted
<1>4. sync \in SyncSteps /\ sync' \in SyncSteps
  BY DEF EnsuringSteps, SyncSteps
<1>5. TypeOK'
  BY <1>1, <1>3, <1>4 DEF IInv, TypeOK
<1>6. Exclusion' /\ Partials'
  BY <1>1, <1>2, <1>3 DEF IInv, Exclusion, Partials
<1>7. ActiveIsGood' /\ OneFilePerName' /\ OpeningIsRight' /\ OpenIsClean' /\ Serves'
  BY <1>1 DEF IInv, ActiveIsGood, OneFilePerName, OpeningIsRight, OpenIsClean, Serves, Present,
     ReplacingSteps
<1>8. PassedIsGood'
  <2>1. ~cutShort /\ sync' = "downloading" => Wanted \notin Elements(active.packs)
    BY <1>2, GoalNames DEF IInv, ActiveIsGood, Present
  <2>2. Present' = Present /\ Namesakes(Wanted)' = Namesakes(Wanted)
    BY <1>1, <1>3 DEF Present, Namesakes
  <2> QED BY <1>1, <1>3, <2>1, <2>2 DEF IInv, PassedIsGood
<1>9. GoalIsSelection' /\ GrowsInOrder' /\ ActivatesGoal' /\ ReloadedAhead' /\ Delivered'
  BY <1>1 DEF IInv, GoalIsSelection, GrowsInOrder, ActivatesGoal, ReloadedAhead, Delivered,
     FetchedSteps, EnsuringSteps, IsSelection
<1> QED BY <1>5, <1>6, <1>7, <1>8, <1>9 DEF IInv

LEMMA EnsureCachedIsRight == ASSUME IInv, EnsureCached PROVE IInv'
<1>1. sync = "ensuring" /\ sync' = "ensured" /\ partial = {}
      /\ (files[Wanted] = "good" \/ (files[Wanted] = "bad" /\ AlreadyActive))
      /\ UNCHANGED <<files, partial, active, recognizer, progress, deleting, cutShort, adrift>>
  BY DEF EnsureCached, IInv, Partials, disk
<1>2. ~cutShort => files[Wanted] = "good"
  <2>1. ~cutShort => work = active
    BY <1>1 DEF IInv, PassedIsGood, EnsuringSteps
  <2> QED BY <1>1, <2>1 DEF IInv, ActiveIsGood, AlreadyActive
<1> QED BY <1>1, <1>2, EnsuringGoesOn DEF EnsuringSteps

LEMMA ValidatedIsRight == ASSUME IInv, Validated PROVE IInv'
<1>1. sync = "validating" /\ sync' = "ensured" /\ partial = {} /\ files[Wanted] = "good"
      /\ UNCHANGED <<files, partial, active, recognizer, progress, deleting, cutShort, adrift>>
  BY DEF Validated, IInv, Partials, disk
<1> QED BY <1>1, EnsuringGoesOn DEF EnsuringSteps

LEMMA DownloadBeginIsRight == ASSUME IInv, DownloadBegin PROVE IInv'
<1>1. sync = "ensuring" /\ sync' = "downloading" /\ files[Wanted] = "absent"
      /\ Namesakes(Wanted) \cap Present = {} /\ partial' = {Wanted}
      /\ UNCHANGED <<files, active, recognizer, progress, deleting, cutShort, adrift>>
  BY DEF DownloadBegin, IInv, Partials
<1> QED BY <1>1, EnsuringGoesOn DEF EnsuringSteps

\* A file that does not belong to a catalog that can be read changes nothing
\* about it.
LEMMA OtherFileChanges ==
    ASSUME IInv, sync \notin {"idle", "opening"}, NEW n \in Packs, NEW q \in {"absent", "good", "bad"},
           q = "absent" \/ Namesakes(n) \cap Present = {},
           ~cutShort => n \notin Elements(active.packs),
           sync \in ReplacingSteps => sync' \in ReplacingSteps,
           files' = [files EXCEPT ![n] = q], UNCHANGED <<active, goal, deleting, cutShort>>
    PROVE  /\ \A m \in Packs \ {n} : files'[m] = files[m]
           /\ files'[n] = q /\ files' \in [Packs -> {"absent", "good", "bad"}]
           /\ ActiveIsGood' /\ OneFilePerName'
<1>1. /\ \A m \in Packs \ {n} : files'[m] = files[m]
      /\ files'[n] = q /\ files' \in [Packs -> {"absent", "good", "bad"}]
  BY DEF IInv, TypeOK
<1>2. active.packs \in Seq(Packs) /\ Elements(active.packs) \subseteq Packs
  BY PastOpening, ElementsFacts
<1>3. ActiveIsGood'
  BY <1>1, <1>2 DEF IInv, ActiveIsGood, Present
<1>4. OneFilePerName'
  <2>1. Present' \subseteq Present \cup {n} /\ (q = "absent" => Present' \subseteq Present)
    BY <1>1 DEF Present
  <2>2. \A p \in Present : NameOf[p] = NameOf[n] => p = n \/ q = "absent"
    BY DEF Namesakes, Present
  <2> QED BY <2>1, <2>2 DEF IInv, OneFilePerName
<1> QED BY <1>1, <1>3, <1>4

LEMMA RejectCachedIsRight == ASSUME IInv, RejectCached PROVE IInv'
<1>1. /\ sync = "ensuring" /\ files[Wanted] = "bad" /\ ~AlreadyActive
      /\ files' = [files EXCEPT ![Wanted] = "absent"]
      /\ UNCHANGED <<partial, active, ready, shards, clean, opener, opening, sync, goal, work,
                     next, growing, deleting, cutShort, adrift>>
  BY DEF RejectCached, recognizer, progress
<1>2. sync \in EnsuringSteps /\ sync \notin {"idle", "opening"} /\ Wanted \in Packs
      /\ next \in 1..Len(goal.packs) /\ Wanted' = Wanted /\ goal.packs \in Seq(Packs)
  BY <1>1, WantedFacts DEF EnsuringSteps, Wanted
<1>3. ~cutShort => Wanted \notin Elements(active.packs)
  BY <1>1, <1>2 DEF IInv, PassedIsGood, AlreadyActive
<1>4. /\ \A m \in Packs \ {Wanted} : files'[m] = files[m]
      /\ files' \in [Packs -> {"absent", "good", "bad"}]
      /\ ActiveIsGood' /\ OneFilePerName'
  BY <1>1, <1>2, <1>3, OtherFileChanges
<1>5. TypeOK'
  BY <1>1, <1>4 DEF IInv, TypeOK
<1>6. Exclusion' /\ Partials' /\ OpenIsClean' /\ Serves'
  BY <1>1 DEF IInv, Exclusion, Partials, OpenIsClean, Serves
<1>7. OpeningIsRight'
  BY <1>1, <1>2, PastOpening DEF OpeningIsRight
<1>8. PassedIsGood'
  <2>1. \A i \in 1..(next - 1) : goal.packs[i] \in Packs
    BY <1>2, ElementOfSeq
  <2>2. \A i \in 1..(next - 1) : files[goal.packs[i]] = "good" => files'[goal.packs[i]] = "good"
    BY <1>1, <1>4, <2>1
  <2> QED BY <1>1, <1>2, <2>2 DEF IInv, PassedIsGood
<1>9. GoalIsSelection' /\ GrowsInOrder' /\ ActivatesGoal' /\ ReloadedAhead' /\ Delivered'
  BY <1>1 DEF IInv, GoalIsSelection, GrowsInOrder, ActivatesGoal, ReloadedAhead, Delivered
<1> QED BY <1>4, <1>5, <1>6, <1>7, <1>8, <1>9 DEF IInv

\* What is removed is a file of another size: of no shard of the selection,
\* though perhaps of the active catalog.
LEMMA DeleteOtherSizeIsRight == ASSUME IInv, DeleteOtherSize PROVE IInv'
<1> DEFINE others == Namesakes(Wanted)
<1>1. /\ sync = "ensuring"
      /\ files' = [p \in Packs |-> IF p \in others THEN "absent" ELSE files[p]]
      /\ UNCHANGED <<partial, active, ready, shards, clean, opener, opening, sync, goal, work,
                     next, growing, deleting, cutShort, adrift>>
  BY DEF DeleteOtherSize, recognizer, progress
<1>2. /\ sync \in EnsuringSteps /\ sync \notin {"idle", "opening"}
      /\ next \in 1..Len(goal.packs) /\ Wanted' = Wanted /\ goal.packs \in Seq(Packs)
      /\ opener = "none" /\ active.packs \in Seq(Packs)
      /\ Elements(goal.packs) \cap others = {}
  BY <1>1, WantedFacts, GoalNames, PastOpening DEF EnsuringSteps, Wanted
<1>3. /\ \A p \in Packs : files'[p] = IF p \in others THEN "absent" ELSE files[p]
      /\ files' \in [Packs -> {"absent", "good", "bad"}]
      /\ Present' \subseteq Present
  BY <1>1 DEF IInv, TypeOK, Present
<1>4. TypeOK'
  BY <1>1, <1>3 DEF IInv, TypeOK
<1>5. Exclusion' /\ Partials' /\ OneFilePerName' /\ OpenIsClean' /\ Serves'
  BY <1>1, <1>3 DEF IInv, Exclusion, Partials, OneFilePerName, OpenIsClean, Serves
<1>6. OpeningIsRight'
  BY <1>1, <1>2 DEF OpeningIsRight
<1>7. ActiveIsGood'
  <2>1. Elements(active.packs) \subseteq Packs
    BY <1>2, ElementsFacts
  <2> QED BY <1>1, <1>2, <1>3, <2>1 DEF IInv, ActiveIsGood, ReplacingSteps, Present
<1>8. PassedIsGood'
  <2>1. \A i \in 1..(next - 1) : goal.packs[i] \in Packs /\ goal.packs[i] \notin others
    BY <1>2, ElementsFacts
  <2> QED BY <1>1, <1>2, <1>3, <2>1 DEF IInv, PassedIsGood
<1>9. GoalIsSelection' /\ GrowsInOrder' /\ ActivatesGoal' /\ ReloadedAhead' /\ Delivered'
  BY <1>1 DEF IInv, GoalIsSelection, GrowsInOrder, ActivatesGoal, ReloadedAhead, Delivered
<1> QED BY <1>4, <1>5, <1>6, <1>7, <1>8, <1>9 DEF IInv

LEMMA DownloadEndIsRight == ASSUME IInv, DownloadEnd PROVE IInv'
<1>1. PICK q \in {"good", "bad"} : files' = [files EXCEPT ![Wanted] = q]
  BY DEF DownloadEnd
<1>2. /\ sync = "downloading" /\ sync' = "validating" /\ partial' = partial \ {Wanted}
      /\ UNCHANGED <<active, ready, shards, clean, opener, opening, goal, work, next, growing,
                     deleting, cutShort, adrift>>
  BY DEF DownloadEnd, recognizer, progress
<1>3. sync \in EnsuringSteps /\ sync \notin {"idle", "opening"} /\ Wanted \in Packs
      /\ next \in 1..Len(goal.packs) /\ Wanted' = Wanted /\ goal.packs \in Seq(Packs)
  BY <1>2, WantedFacts DEF EnsuringSteps, Wanted
<1>4. files[Wanted] = "absent" /\ partial' = {} /\ Namesakes(Wanted) \cap Present = {}
      /\ (~cutShort => Wanted \notin Elements(active.packs))
  BY <1>2, <1>3 DEF IInv, PassedIsGood, Partials
<1>5. /\ \A m \in Packs \ {Wanted} : files'[m] = files[m]
      /\ files' \in [Packs -> {"absent", "good", "bad"}]
      /\ ActiveIsGood' /\ OneFilePerName'
  BY <1>1, <1>2, <1>3, <1>4, OtherFileChanges DEF ReplacingSteps, EnsuringSteps
<1>6. TypeOK'
  BY <1>2, <1>3, <1>4, <1>5 DEF IInv, TypeOK, SyncSteps, EnsuringSteps
<1>7. Exclusion' /\ Partials' /\ OpenIsClean' /\ Serves'
  BY <1>2, <1>4 DEF IInv, Exclusion, Partials, OpenIsClean, Serves
<1>8. OpeningIsRight'
  BY <1>2, <1>3, PastOpening DEF OpeningIsRight
<1>9. PassedIsGood'
  <2>1. \A i \in 1..(next - 1) : goal.packs[i] \in Packs
    BY <1>3, ElementOfSeq
  <2>2. \A i \in 1..(next - 1) : files[goal.packs[i]] = "good" => files'[goal.packs[i]] = "good"
    BY <1>4, <1>5, <2>1
  <2> QED BY <1>2, <1>3, <1>4, <2>2 DEF IInv, PassedIsGood
<1>10. GoalIsSelection' /\ GrowsInOrder' /\ ActivatesGoal' /\ ReloadedAhead' /\ Delivered'
  BY <1>2 DEF IInv, GoalIsSelection, GrowsInOrder, ActivatesGoal, ReloadedAhead, Delivered,
     FetchedSteps, EnsuringSteps, IsSelection
<1> QED BY <1>5, <1>6, <1>7, <1>8, <1>9, <1>10 DEF IInv

-------------------- (* The end of a synchronization *) --------------------

\* Unless the catalog was cut short, it is there when an operation stops.
LEMMA CutShortFacts ==
    ASSUME IInv, CutShort
    PROVE  /\ cutShort' \in BOOLEAN
           /\ ~cutShort' => ~cutShort /\ Elements(active.packs) \subseteq Present
                            /\ ReadActive = active
           /\ cutShort' => cutShort \/ ReadActive = None
<1>1. cutShort \in BOOLEAN /\ deleting \in BOOLEAN
  BY DEF IInv, TypeOK
<1>2. /\ cutShort' \in BOOLEAN
      /\ ~cutShort' => ~cutShort /\ (StoreFree \/ ReadActive = active)
      /\ cutShort' => cutShort \/ ReadActive # active
  BY <1>1 DEF CutShort
<1>3. ~cutShort /\ StoreFree => Elements(active.packs) \subseteq Present
  BY DEF IInv, ActiveIsGood, StoreFree, ReplacingSteps, EnsuringSteps
<1> QED BY <1>1, <1>2, <1>3, ReadActiveFacts DEF IInv

\* Whatever ends a synchronization leaves what is active as it was.
LEMMA EndingIsRight ==
    ASSUME IInv, sync \notin {"idle", "opening"}, Idle, partial' \subseteq Packs,
           files' \in [Packs -> {"absent", "good", "bad"}], ActiveIsGood', OneFilePerName',
           cutShort' \in BOOLEAN, ~cutShort' => ~cutShort,
           UNCHANGED <<active, recognizer, deleting, adrift>>
    PROVE  IInv'
<1>1. /\ sync' = "idle" /\ goal' = None /\ work' = None /\ next' = 1 /\ growing' = FALSE
      /\ UNCHANGED <<active, ready, shards, clean, opener, opening, deleting, adrift>>
      /\ opener = "none" /\ deleting = FALSE
  BY PastOpening DEF Idle, recognizer
<1>2. None \in Catalogs /\ Len(None.packs) = 0 /\ next' \in 1..(Len(goal'.packs) + 1)
  <2>1. None \in Catalogs /\ Len(None.packs) = 0
    BY EmptySeq DEF None, Catalogs
  <2> QED BY <1>1, <2>1
<1>3. TypeOK'
  BY <1>1, <1>2 DEF IInv, TypeOK, SyncSteps, EnsuringSteps
<1>4. Exclusion' /\ Partials' /\ OpeningIsRight' /\ OpenIsClean' /\ Serves'
  BY <1>1 DEF IInv, Exclusion, Partials, OpeningIsRight, OpenIsClean, Serves
<1>5. /\ GoalIsSelection' /\ PassedIsGood' /\ GrowsInOrder' /\ ActivatesGoal'
      /\ ReloadedAhead' /\ Delivered'
  BY <1>1 DEF GoalIsSelection, PassedIsGood, GrowsInOrder, ActivatesGoal, ReloadedAhead,
     Delivered, FetchedSteps, EnsuringSteps
<1> QED BY <1>3, <1>4, <1>5 DEF IInv

LEMMA RejectDownloadedIsRight == ASSUME IInv, RejectDownloaded PROVE IInv'
<1>1. /\ sync = "validating" /\ files' = [files EXCEPT ![Wanted] = "absent"] /\ Idle
      /\ CutShort /\ UNCHANGED <<partial, active, recognizer, deleting, adrift>>
  BY DEF RejectDownloaded
<1>2. sync \notin {"idle", "opening"} /\ Wanted \in Packs
  BY <1>1, WantedFacts DEF EnsuringSteps
<1>3. ~cutShort => Wanted \notin Elements(active.packs)
  BY <1>1 DEF IInv, PassedIsGood, EnsuringSteps
<1>4. /\ \A m \in Packs \ {Wanted} : files'[m] = files[m]
      /\ files' \in [Packs -> {"absent", "good", "bad"}] /\ files'[Wanted] = "absent"
      /\ partial' \subseteq Packs
  BY <1>1, <1>2 DEF IInv, TypeOK
<1>5. /\ cutShort' \in BOOLEAN
      /\ ~cutShort' => ~cutShort /\ Elements(active.packs) \subseteq Present
  BY <1>1, CutShortFacts
<1>6. active.packs \in Seq(Packs) /\ Elements(active.packs) \subseteq Packs
  BY <1>2, PastOpening, ElementsFacts
<1>7. ActiveIsGood' /\ OneFilePerName'
  BY <1>1, <1>3, <1>4, <1>5, <1>6 DEF IInv, ActiveIsGood, OneFilePerName, Present
<1> QED BY <1>1, <1>2, <1>4, <1>5, <1>7, EndingIsRight

LEMMA SyncEndsIsRight == ASSUME IInv, SyncReturn \/ SyncFails PROVE IInv'
<1>1. /\ sync \notin {"idle", "opening"} /\ Idle /\ partial' \subseteq partial
      /\ UNCHANGED <<files, active, recognizer, deleting, adrift>>
      /\ CutShort \/ (sync = "done" /\ cutShort' = cutShort)
  BY DEF SyncReturn, SyncFails, disk
<1>2. files' \in [Packs -> {"absent", "good", "bad"}] /\ partial' \subseteq Packs
  BY <1>1 DEF IInv, TypeOK
<1>3. /\ cutShort' \in BOOLEAN
      /\ ~cutShort' => ~cutShort /\ Elements(active.packs) \subseteq Present
  BY <1>1, CutShortFacts, PastOpening DEF ReplacingSteps, EnsuringSteps
<1>4. ActiveIsGood' /\ OneFilePerName'
  BY <1>1, <1>3 DEF IInv, ActiveIsGood, OneFilePerName, Present
<1> QED BY <1>1, <1>2, <1>3, <1>4, EndingIsRight

-------------------------- (* Activating a catalog *) ----------------------

\* Every shard of what is about to be activated is good.
LEMMA EnsuredIsRight == ASSUME IInv, Ensured PROVE IInv'
<1> DEFINE part == [target |-> goal.target, packs |-> Take(goal.packs, next),
                    complete |-> next = Len(goal.packs)]
<1>1. /\ sync = "ensured"
      /\ IF growing
         THEN work' = part /\ sync' = "activating" /\ next' = next
         ELSE IF next < Len(goal.packs)
              THEN next' = next + 1 /\ sync' = "ensuring" /\ work' = work
              ELSE work' = goal /\ sync' = "activating" /\ next' = next
      /\ UNCHANGED <<files, partial, active, ready, shards, clean, opener, opening, goal,
                     growing, deleting, cutShort, adrift>>
  BY DEF Ensured, disk, recognizer
<1>2. sync \in EnsuringSteps /\ sync \notin {"idle", "opening"} /\ next \in 1..Len(goal.packs)
      /\ next \in Nat /\ Len(goal.packs) \in Nat
      /\ goal.packs \in Seq(Packs) /\ goal \in Catalogs /\ work \in Catalogs
      /\ growing \in BOOLEAN /\ cutShort \in BOOLEAN /\ ready /\ opener = "none" /\ deleting = FALSE
  BY <1>1, WantedFacts, PastOpening DEF EnsuringSteps
<1>3. ~cutShort => \A i \in 1..next : files[goal.packs[i]] = "good"
  BY <1>1, <1>2 DEF IInv, PassedIsGood, Wanted
<1>4. Take(goal.packs, next) \in Seq(Packs)
      /\ (next = Len(goal.packs) => Take(goal.packs, next) = goal.packs)
  BY <1>2, TakeFacts, TakeAll
<1>5. part \in Catalogs
  BY <1>2, <1>4 DEF Catalogs
<1>6. TypeOK'
  <2>1. work' \in Catalogs /\ next' \in 1..(Len(goal.packs) + 1)
        /\ sync' \in {"ensuring", "activating"}
        /\ (sync' = "ensuring" => next' <= Len(goal.packs))
    BY <1>1, <1>2, <1>5
  <2> QED BY <1>1, <2>1 DEF IInv, TypeOK, SyncSteps, EnsuringSteps
<1>7. Exclusion' /\ Partials'
  BY <1>1, <1>2 DEF IInv, Exclusion, Partials
<1>8. ActiveIsGood' /\ OneFilePerName' /\ OpeningIsRight' /\ OpenIsClean' /\ Serves'
  BY <1>1 DEF IInv, ActiveIsGood, OneFilePerName, OpeningIsRight, OpenIsClean, Serves, Present,
     ReplacingSteps, EnsuringSteps
<1>9. GoalIsSelection' /\ ReloadedAhead' /\ Delivered'
  BY <1>1 DEF IInv, GoalIsSelection, ReloadedAhead, Delivered, FetchedSteps, EnsuringSteps,
     IsSelection
<1>10. GrowsInOrder'
  BY <1>1, <1>2 DEF IInv, GrowsInOrder, FetchedSteps, EnsuringSteps
<1>11. PassedIsGood'
  BY <1>1, <1>2, <1>3 DEF IInv, PassedIsGood, EnsuringSteps
<1>12. ActivatesGoal'
  <2> SUFFICES ASSUME sync' = "activating"
               PROVE  /\ work' = [target |-> goal.target, packs |-> Take(goal.packs, next),
                                  complete |-> next >= Len(goal.packs)]
                      /\ ~growing => next >= Len(goal.packs)
                      /\ ~cutShort => \A n \in Elements(Take(goal.packs, next)) : files[n] = "good"
    BY <1>1 DEF ActivatesGoal, AllGood
  <2>1. ~cutShort => \A n \in Elements(Take(goal.packs, next)) : files[n] = "good"
    <3> SUFFICES ASSUME ~cutShort, NEW n \in Elements(Take(goal.packs, next))
                 PROVE  files[n] = "good"
      OBVIOUS
    <3>1. n = goal.packs[next] \/ \E i \in 1..(next - 1) : n = goal.packs[i]
      BY <1>2, ElementsOfTake
    <3> QED BY <1>2, <1>3, <3>1
  <2>2. CASE growing
    <3>1. (next = Len(goal.packs)) = (next >= Len(goal.packs))
      BY <1>2
    <3> QED BY <1>1, <2>1, <2>2, <3>1
  <2>3. CASE ~growing
    <3>1. work' = goal /\ next = Len(goal.packs) /\ Take(goal.packs, next) = goal.packs
      BY <1>1, <1>2, <1>4, <2>3
    <3>2. goal.complete = TRUE
      BY <1>2 DEF IInv, GoalIsSelection, FetchedSteps, Catalogs
    <3>3. goal = [target |-> goal.target, packs |-> goal.packs, complete |-> TRUE]
      BY <1>2, <3>2 DEF Catalogs
    <3>4. next >= Len(goal.packs) /\ (next >= Len(goal.packs)) = TRUE
      BY <1>2, <3>1
    <3> QED BY <2>1, <2>3, <3>1, <3>3, <3>4
  <2> QED BY <1>2, <2>2, <2>3
<1> QED BY <1>6, <1>7, <1>8, <1>9, <1>10, <1>11, <1>12 DEF IInv

LEMMA ReloadIsRight == ASSUME IInv, Reload PROVE IInv'
<1>1. /\ sync = "activating" /\ sync' = "writing" /\ Elements(work.packs) \subseteq Present
      /\ shards' = work.packs /\ clean' = AllGood(work.packs)
      /\ ready' = TRUE /\ adrift' = TRUE
      /\ UNCHANGED <<files, partial, active, opener, opening, goal, work, next, growing, deleting,
                     cutShort>>
  BY DEF Reload, disk, progress
<1>2. /\ opener = "none" /\ deleting = FALSE /\ work.packs \in Seq(Packs)
      /\ AllGood(work.packs) \in BOOLEAN /\ cutShort \in BOOLEAN
  BY <1>1, PastOpening DEF AllGood
<1>3. TypeOK'
  BY <1>1, <1>2 DEF IInv, TypeOK, SyncSteps, EnsuringSteps
<1>4. Exclusion' /\ Partials' /\ OpeningIsRight' /\ Serves'
  BY <1>1, <1>2 DEF IInv, Exclusion, Partials, OpeningIsRight, Serves
<1>5. ActiveIsGood' /\ OneFilePerName'
  BY <1>1 DEF IInv, ActiveIsGood, OneFilePerName, ReplacingSteps, Present
<1>6. OpenIsClean'
  BY <1>1, <1>2 DEF IInv, OpenIsClean, ActivatesGoal
<1>7. ActivatesGoal' /\ ReloadedAhead'
  BY <1>1 DEF IInv, ActivatesGoal, ReloadedAhead, AllGood, Present
<1>8. GoalIsSelection' /\ PassedIsGood' /\ GrowsInOrder' /\ Delivered'
  BY <1>1 DEF IInv, GoalIsSelection, PassedIsGood, GrowsInOrder, Delivered, FetchedSteps,
     EnsuringSteps, IsSelection
<1> QED BY <1>3, <1>4, <1>5, <1>6, <1>7, <1>8 DEF IInv

\* What is being activated, and that it is the goal once the loop ends.
LEMMA ActivatedFacts ==
    ASSUME IInv, sync = "writing"
    PROVE  /\ work \in Catalogs /\ work.packs \in Seq(Packs) /\ goal.packs \in Seq(Packs)
           /\ next \in 1..(Len(goal.packs) + 1) /\ Len(goal.packs) \in Nat /\ next \in Nat
           /\ IsSelection(goal)
           /\ work.target = goal.target /\ work.packs = Take(goal.packs, next)
           /\ Elements(work.packs) \subseteq Present /\ shards = work.packs
           /\ next >= Len(goal.packs) => work = goal
           /\ ~growing => next >= Len(goal.packs)
<1>1. /\ work \in Catalogs /\ goal \in Catalogs /\ work.packs \in Seq(Packs)
      /\ goal.packs \in Seq(Packs)
      /\ next \in 1..(Len(goal.packs) + 1) /\ Len(goal.packs) \in Nat /\ next \in Nat
  BY PastOpening, LenProperties DEF IInv, TypeOK
<1>2. /\ IsSelection(goal) /\ goal.complete = TRUE
      /\ work = [target |-> goal.target, packs |-> Take(goal.packs, next),
                 complete |-> next >= Len(goal.packs)]
      /\ ~growing => next >= Len(goal.packs)
      /\ Elements(work.packs) \subseteq Present /\ shards = work.packs
  BY <1>1 DEF IInv, GoalIsSelection, FetchedSteps, ActivatesGoal, ReloadedAhead, Catalogs
<1>3. next >= Len(goal.packs) => work = goal
  <2> SUFFICES ASSUME next >= Len(goal.packs) PROVE work = goal
    OBVIOUS
  <2>1. Take(goal.packs, next) = goal.packs /\ (next >= Len(goal.packs)) = TRUE
    BY <1>1, TakeAll
  <2> QED BY <1>1, <1>2, <2>1 DEF Catalogs
<1> QED BY <1>1, <1>2, <1>3

LEMMA WriteActiveIsRight == ASSUME IInv, WriteActive PROVE IInv'
<1>1. /\ sync = "writing" /\ active' = work /\ adrift' = FALSE
      /\ cutShort' = (cutShort /\ ~AllGood(work.packs))
      /\ IF growing /\ next < Len(goal.packs)
         THEN next' = next + 1 /\ sync' = "ensuring"
         ELSE sync' = "pruning" /\ next' = next
      /\ UNCHANGED <<files, partial, ready, shards, clean, opener, opening, goal, work, growing,
                     deleting>>
  BY DEF WriteActive, recognizer
<1>2. /\ work \in Catalogs /\ goal.packs \in Seq(Packs)
      /\ next \in 1..(Len(goal.packs) + 1) /\ Len(goal.packs) \in Nat /\ next \in Nat
      /\ work.target = goal.target /\ work.packs = Take(goal.packs, next)
      /\ Elements(work.packs) \subseteq Present /\ shards = work.packs
      /\ next >= Len(goal.packs) => work = goal
      /\ ~growing => next >= Len(goal.packs)
  BY <1>1, ActivatedFacts
<1>3. /\ ready /\ opener = "none" /\ deleting = FALSE /\ growing \in BOOLEAN
      /\ AllGood(work.packs) \in BOOLEAN /\ cutShort \in BOOLEAN /\ partial = {}
  BY <1>1, PastOpening DEF AllGood, IInv, Partials
<1>4. cutShort' \in BOOLEAN /\ (~cutShort' => AllGood(work.packs))
  <2>1. ~cutShort => AllGood(work.packs)
    BY <1>1 DEF IInv, ActivatesGoal
  <2> QED BY <1>1, <1>3, <2>1
<1>5. sync' = "ensuring" => growing /\ next < Len(goal.packs) /\ next' = next + 1
  BY <1>1
<1>6. sync' \in {"ensuring", "pruning"} /\ (sync' = "pruning" => work = goal /\ next' = next)
  BY <1>1, <1>2, <1>3
<1>7. TypeOK'
  <2>1. next' \in 1..(Len(goal.packs) + 1) /\ (sync' = "ensuring" => next' <= Len(goal.packs))
    BY <1>2, <1>5, <1>6
  <2> QED BY <1>1, <1>2, <1>4, <1>6, <2>1 DEF IInv, TypeOK, SyncSteps, EnsuringSteps
<1>8. Exclusion' /\ Partials' /\ OpeningIsRight' /\ Serves'
  BY <1>1, <1>2, <1>3, <1>6 DEF IInv, Exclusion, Partials, OpeningIsRight, Serves
<1>9. ActiveIsGood' /\ OneFilePerName'
  BY <1>1, <1>2, <1>4 DEF IInv, ActiveIsGood, OneFilePerName, AllGood, Present
<1>10. OpenIsClean'
  BY <1>1, <1>4 DEF IInv, OpenIsClean, ReloadedAhead
<1>11. GoalIsSelection'
  BY <1>1 DEF IInv, GoalIsSelection, FetchedSteps, IsSelection
<1>12. PassedIsGood'
  <2> SUFFICES ASSUME sync' = "ensuring", ~cutShort', NEW i \in 1..next
               PROVE  files[goal.packs[i]] = "good"
    <3>1. sync' = "ensuring" => next' - 1 = next
      BY <1>2, <1>5
    <3> QED BY <1>1, <1>6, <3>1 DEF PassedIsGood, EnsuringSteps
  <2>1. i \in 1..Len(work.packs) /\ work.packs[i] = goal.packs[i]
    <3>1. Len(work.packs) = next
      BY <1>2, <1>5, TakeFacts
    <3>2. \A j \in 1..Len(work.packs) : work.packs[j] = goal.packs[j]
      <4>1. \A j \in 1..Len(Take(goal.packs, next)) : Take(goal.packs, next)[j] = goal.packs[j]
        BY <1>2, TakeFacts
      <4> QED BY ONLY <4>1, <1>2
    <3>3. next \in Nat
      BY <1>2
    <3> QED BY ONLY <3>1, <3>2, <3>3, i \in 1..next
  <2>2. work.packs[i] \in Elements(work.packs)
    BY <2>1 DEF Elements
  <2> QED BY <1>4, <2>1, <2>2 DEF AllGood
<1>13. GrowsInOrder'
  BY <1>1, <1>2, <1>5, <1>6 DEF GrowsInOrder
<1>14. ActivatesGoal' /\ ReloadedAhead'
  BY <1>6 DEF ActivatesGoal, ReloadedAhead
<1>15. Delivered'
  BY <1>1, <1>2, <1>6 DEF Delivered, Present
<1> QED BY <1>7, <1>8, <1>9, <1>10, <1>11, <1>12, <1>13, <1>14, <1>15 DEF IInv

------------------------------ (* Pruning *) -------------------------------

LEMMA PruneFileIsRight == ASSUME IInv, NEW n \in Packs, PruneFile(n) PROVE IInv'
<1>1. /\ sync = "pruning" /\ n \in Present /\ n \notin Elements(work.packs)
      /\ files' = [files EXCEPT ![n] = "absent"]
      /\ UNCHANGED <<partial, active, ready, shards, clean, opener, opening, sync, goal, work,
                     next, growing, deleting, cutShort, adrift>>
  BY DEF PruneFile, NamesIn, recognizer, progress
<1>2. active = goal /\ work = goal /\ Elements(goal.packs) \subseteq Present
  BY <1>1 DEF IInv, Delivered
<1>3. /\ \A m \in Packs \ {n} : files'[m] = files[m]
      /\ files' \in [Packs -> {"absent", "good", "bad"}] /\ ActiveIsGood' /\ OneFilePerName'
  BY <1>1, <1>2, OtherFileChanges
<1>4. TypeOK'
  BY <1>1, <1>3 DEF IInv, TypeOK, EnsuringSteps
<1>5. Exclusion' /\ Partials' /\ OpenIsClean' /\ Serves'
  BY <1>1 DEF IInv, Exclusion, Partials, OpenIsClean, Serves
<1>6. OpeningIsRight'
  BY <1>1, PastOpening DEF OpeningIsRight
<1>7. Delivered'
  BY <1>1, <1>2, <1>3 DEF Delivered, Present
<1>8. GoalIsSelection' /\ PassedIsGood' /\ GrowsInOrder' /\ ActivatesGoal' /\ ReloadedAhead'
  BY <1>1 DEF IInv, GoalIsSelection, PassedIsGood, GrowsInOrder, ActivatesGoal, ReloadedAhead,
     FetchedSteps, EnsuringSteps, IsSelection
<1> QED BY <1>3, <1>4, <1>5, <1>6, <1>7, <1>8 DEF IInv

LEMMA PruneEndIsRight == ASSUME IInv, PruneEnd PROVE IInv'
<1>1. /\ sync = "pruning" /\ sync' = "done"
      /\ NamesIn(Present) \subseteq NamesIn(Elements(work.packs))
      /\ UNCHANGED <<files, partial, active, ready, shards, clean, opener, opening, goal, work,
                     next, growing, deleting, cutShort, adrift>>
  BY DEF PruneEnd, disk, recognizer, progress
<1>2. TypeOK'
  BY <1>1 DEF IInv, TypeOK, SyncSteps, EnsuringSteps
<1>3. Exclusion' /\ Partials' /\ OpenIsClean' /\ Serves'
  BY <1>1, PastOpening DEF IInv, Exclusion, Partials, OpenIsClean, Serves
<1>4. ActiveIsGood' /\ OneFilePerName' /\ OpeningIsRight' /\ Delivered'
  <2>1. work = goal /\ Elements(goal.packs) \subseteq Present
    BY <1>1 DEF IInv, Delivered
  <2>2. Present \subseteq Elements(goal.packs)
    BY <1>1, <2>1 DEF IInv, OneFilePerName, NamesIn
  <2>3. sync \notin ReplacingSteps
    BY <1>1 DEF ReplacingSteps, EnsuringSteps
  <2> QED BY <1>1, <2>2, <2>3 DEF IInv, ActiveIsGood, OneFilePerName, OpeningIsRight, Delivered, Present
<1>5. GoalIsSelection' /\ PassedIsGood' /\ GrowsInOrder' /\ ActivatesGoal' /\ ReloadedAhead'
  BY <1>1 DEF IInv, GoalIsSelection, PassedIsGood, GrowsInOrder, ActivatesGoal, ReloadedAhead,
     FetchedSteps, EnsuringSteps, IsSelection
<1> QED BY <1>2, <1>3, <1>4, <1>5 DEF IInv

--------------------------- (* deleteDownloaded *) -------------------------

\* Nothing is said of a synchronization while there is none.
LEMMA NoSync ==
    ASSUME sync' = "idle"
    PROVE  /\ Partials' /\ GoalIsSelection' /\ PassedIsGood' /\ GrowsInOrder' /\ ActivatesGoal'
           /\ ReloadedAhead' /\ Delivered'
BY DEF Partials, GoalIsSelection, PassedIsGood, GrowsInOrder, ActivatesGoal, ReloadedAhead,
   Delivered, FetchedSteps, EnsuringSteps

LEMMA DeleteBeginIsRight == ASSUME IInv, DeleteBegin PROVE IInv'
<1>1. /\ sync = "idle" /\ deleting = FALSE /\ opener = "none" /\ deleting' = TRUE
      /\ \/ ready /\ shards' = <<>> /\ clean' = TRUE /\ adrift' = FALSE
         \/ ~ready /\ UNCHANGED <<shards, clean, adrift>>
      /\ UNCHANGED <<files, partial, active, ready, opener, opening, sync, goal, work, next,
                     growing, cutShort>>
  BY DEF DeleteBegin, StoreFree, disk, progress, IInv, TypeOK
<1>2. TypeOK'
  BY <1>1, EmptySeq DEF IInv, TypeOK, EnsuringSteps
<1>3. Exclusion' /\ OpeningIsRight' /\ Serves'
  BY <1>1 DEF IInv, Exclusion, OpeningIsRight, Serves
<1>4. ActiveIsGood' /\ OneFilePerName'
  BY <1>1 DEF IInv, ActiveIsGood, OneFilePerName, Present
<1>5. OpenIsClean'
  BY <1>1 DEF IInv, OpenIsClean
<1> QED BY <1>1, <1>2, <1>3, <1>4, <1>5, NoSync DEF IInv

LEMMA DeleteFileIsRight == ASSUME IInv, NEW n \in Packs, DeleteFile(n) PROVE IInv'
<1>1. /\ deleting /\ files' = [files EXCEPT ![n] = "absent"]
      /\ UNCHANGED <<partial, active, ready, shards, clean, opener, opening, sync, goal, work,
                     next, growing, deleting, cutShort, adrift>>
  BY DEF DeleteFile, recognizer, progress
<1>2. sync = "idle" /\ sync' = "idle"
  BY <1>1 DEF IInv, Exclusion
<1>3. /\ \A m \in Packs \ {n} : files'[m] = files[m]
      /\ files'[n] = "absent" /\ files' \in [Packs -> {"absent", "good", "bad"}]
  BY <1>1 DEF IInv, TypeOK
<1>4. Present' \subseteq Present
  BY <1>3 DEF Present
<1>5. /\ active.packs \in Seq(Packs) /\ Elements(active.packs) \subseteq Packs
      /\ opening \in Seq(Packs) /\ Elements(opening) \subseteq Packs
  BY ElementsFacts DEF IInv, TypeOK, Catalogs
<1>6. TypeOK'
  BY <1>1, <1>3 DEF IInv, TypeOK, EnsuringSteps
<1>7. Exclusion' /\ OpenIsClean' /\ Serves'
  BY <1>1 DEF IInv, Exclusion, OpenIsClean, Serves
<1>8. ActiveIsGood' /\ OneFilePerName'
  BY <1>1, <1>3, <1>4, <1>5 DEF IInv, ActiveIsGood, OneFilePerName
<1>9. OpeningIsRight'
  BY <1>1, <1>3, <1>4, <1>5 DEF IInv, OpeningIsRight
<1> QED BY <1>2, <1>6, <1>7, <1>8, <1>9, NoSync DEF IInv

LEMMA DeleteEndIsRight == ASSUME IInv, DeleteEnd PROVE IInv'
<1>1. /\ deleting /\ Present = {} /\ partial' = {} /\ active' = None /\ deleting' = FALSE
      /\ cutShort' = (cutShort /\ ~clean)
      /\ UNCHANGED <<files, ready, shards, clean, opener, opening, sync, goal, work, next, growing,
                     adrift>>
  BY DEF DeleteEnd, recognizer, progress
<1>2. sync = "idle" /\ sync' = "idle"
  BY <1>1 DEF IInv, Exclusion
<1>3. None \in Catalogs /\ opening \in Seq(Packs) /\ Elements(opening) \subseteq Packs
      /\ clean \in BOOLEAN /\ cutShort \in BOOLEAN
  BY EmptySeq, ElementsFacts DEF IInv, TypeOK, None, Catalogs
<1>4. TypeOK'
  BY <1>1, <1>3 DEF IInv, TypeOK, EnsuringSteps
<1>5. Exclusion' /\ Serves'
  BY <1>1, NoPacks DEF IInv, Exclusion, Serves
<1>6. ActiveIsGood' /\ OneFilePerName'
  BY <1>1, NoPacks DEF IInv, ActiveIsGood, OneFilePerName, Present
<1>7. OpenIsClean'
  BY <1>1, <1>3 DEF IInv, OpenIsClean
<1>8. OpeningIsRight'
  <2>1. \A m \in Packs : files[m] = "absent"
    BY <1>1 DEF Present
  <2>2. Present' = {}
    BY <1>1 DEF Present
  <2>3. Elements(opening) \subseteq {} => opening = <<>>
    BY <1>3, ElementsFacts
  <2> QED BY <1>1, <1>3, <2>1, <2>2, <2>3, NoPacks DEF OpeningIsRight
<1> QED BY <1>2, <1>4, <1>5, <1>6, <1>7, <1>8, NoSync DEF IInv

LEMMA DeleteFailsIsRight == ASSUME IInv, DeleteFails PROVE IInv'
<1>1. /\ deleting /\ deleting' = FALSE /\ CutShort
      /\ adrift' = (adrift \/ (ready /\ ReadActive # None))
      /\ UNCHANGED <<files, partial, active, ready, shards, clean, opener, opening, sync, goal,
                     work, next, growing>>
  BY DEF DeleteFails, disk, recognizer, progress
<1>2. sync = "idle" /\ sync' = "idle"
  BY <1>1 DEF IInv, Exclusion
<1>3. /\ cutShort' \in BOOLEAN /\ ready \in BOOLEAN /\ adrift \in BOOLEAN
      /\ ~cutShort' => ~cutShort /\ Elements(active.packs) \subseteq Present
                       /\ ReadActive = active
  BY <1>1, CutShortFacts DEF IInv, TypeOK
<1>4. adrift' \in BOOLEAN /\ (ready /\ ~adrift' => ~adrift /\ ReadActive = None)
  BY <1>1, <1>3
<1>5. TypeOK'
  BY <1>1, <1>3, <1>4 DEF IInv, TypeOK, EnsuringSteps
<1>6. Exclusion' /\ OpenIsClean'
  BY <1>1, <1>3 DEF IInv, Exclusion, OpenIsClean
<1>7. ActiveIsGood' /\ OneFilePerName' /\ OpeningIsRight'
  BY <1>1, <1>3 DEF IInv, ActiveIsGood, OneFilePerName, OpeningIsRight, Present
<1>8. Serves'
  BY <1>1, <1>3, <1>4, NoPacks DEF IInv, Serves
<1> QED BY <1>2, <1>5, <1>6, <1>7, <1>8, NoSync DEF IInv

LEMMA CrashIsRight == ASSUME IInv, Crash PROVE IInv'
<1>1. /\ ready' = FALSE /\ shards' = <<>> /\ clean' = TRUE /\ opener' = "none" /\ opening' = <<>>
      /\ sync' = "idle" /\ goal' = None /\ work' = None /\ next' = 1 /\ growing' = FALSE
      /\ deleting' = FALSE /\ CutShort /\ adrift' = FALSE
      /\ UNCHANGED <<files, partial, active>>
  BY DEF Crash, Idle, disk
<1>2. None \in Catalogs /\ Len(None.packs) = 0 /\ <<>> \in Seq(Packs)
  BY EmptySeq DEF None, Catalogs
<1>3. next' \in 1..(Len(goal'.packs) + 1)
  BY <1>1, <1>2
<1>4. /\ cutShort' \in BOOLEAN
      /\ ~cutShort' => ~cutShort /\ Elements(active.packs) \subseteq Present
  BY <1>1, CutShortFacts
<1>5. TypeOK'
  BY <1>1, <1>2, <1>3, <1>4 DEF IInv, TypeOK, SyncSteps, EnsuringSteps
<1>6. Exclusion' /\ OpeningIsRight' /\ OpenIsClean' /\ Serves'
  BY <1>1 DEF Exclusion, OpeningIsRight, OpenIsClean, Serves
<1>7. ActiveIsGood' /\ OneFilePerName'
  BY <1>1, <1>4 DEF IInv, ActiveIsGood, OneFilePerName, Present
<1> QED BY <1>1, <1>5, <1>6, <1>7, NoSync DEF IInv

------------------------- (* The invariant, and after *) -------------------

LEMMA StepIsRight == IInv /\ [Next]_vars => IInv'
<1> SUFFICES ASSUME IInv, [Next]_vars PROVE IInv'
  OBVIOUS
<1>1. CASE RecognitionOpenBegin
  BY <1>1, OpenBeginIsRight DEF RecognitionOpenBegin
<1>2. CASE RecognitionOpenEnd
  BY <1>2, OpenEndIsRight DEF RecognitionOpenEnd
<1>3. CASE SyncBegin \/ SyncOpened
  BY <1>3, SyncStartsIsRight
<1>4. CASE SyncOpenBegin
  BY <1>4, OpenBeginIsRight DEF SyncOpenBegin
<1>5. CASE SyncOpenEnd
  BY <1>5, OpenEndIsRight DEF SyncOpenEnd
<1>6. CASE \E t \in Targets : \E k \in 0..Len(Manifest[t]) : Fetch(t, k)
  BY <1>6, FetchIsRight
<1>7. CASE EnsureCached \/ RejectCached \/ DeleteOtherSize \/ DownloadBegin \/ DownloadEnd
           \/ Validated
  BY <1>7, EnsureCachedIsRight, RejectCachedIsRight, DeleteOtherSizeIsRight, DownloadBeginIsRight,
     DownloadEndIsRight, ValidatedIsRight
<1>8. CASE RejectDownloaded \/ Ensured \/ Reload \/ WriteActive
  BY <1>8, RejectDownloadedIsRight, EnsuredIsRight, ReloadIsRight, WriteActiveIsRight
<1>9. CASE \E n \in Packs : PruneFile(n)
  BY <1>9, PruneFileIsRight
<1>10. CASE PruneEnd \/ SyncReturn \/ SyncFails
  BY <1>10, PruneEndIsRight, SyncEndsIsRight
<1>11. CASE Deletion
  BY <1>11, DeleteBeginIsRight, DeleteFileIsRight, DeleteEndIsRight DEF Deletion
<1>12. CASE DeleteFails \/ Crash
  BY <1>12, DeleteFailsIsRight, CrashIsRight
<1>13. CASE UNCHANGED vars
  <2>1. UNCHANGED <<files, partial, active, ready, shards, clean, opener, opening, sync, goal, work,
                    next, growing, deleting, cutShort, adrift>>
    BY <1>13 DEF vars
  <2>2. TypeOK'
    BY <2>1 DEF IInv, TypeOK
  <2>3. Exclusion' /\ Partials' /\ OpenIsClean' /\ Serves' /\ GrowsInOrder'
    BY <2>1 DEF IInv, Exclusion, Partials, OpenIsClean, Serves, GrowsInOrder, Wanted
  <2>4. ActiveIsGood' /\ OneFilePerName' /\ OpeningIsRight' /\ GoalIsSelection' /\ Delivered'
    BY <2>1 DEF IInv, ActiveIsGood, OneFilePerName, OpeningIsRight, GoalIsSelection, Delivered,
       IsSelection, Present
  <2>5. PassedIsGood' /\ ActivatesGoal' /\ ReloadedAhead'
    BY <2>1 DEF IInv, PassedIsGood, ActivatesGoal, ReloadedAhead, AllGood, Wanted, Namesakes, Present
  <2> QED BY <2>2, <2>3, <2>4, <2>5 DEF IInv
<1> QED
  BY <1>1, <1>2, <1>3, <1>4, <1>5, <1>6, <1>7, <1>8, <1>9, <1>10, <1>11, <1>12, <1>13
  DEF Next, SyncStep

\* The store keeps its invariant through every download, activation, pruning,
\* deletion, reload, failure and crash.
THEOREM StoreInvariant == Spec => []IInv
<1>1. Init => IInv
  BY InitIsRight
<1>2. IInv /\ [Next]_vars => IInv'
  BY StepIsRight
<1> QED BY <1>1, <1>2, PTL DEF Spec

\* Every variable keeps its type, and a synchronization never goes past the end
\* of its selection.
THEOREM TypesHold == Spec => []TypeOK
<1>1. IInv => TypeOK
  BY DEF IInv
<1> QED BY <1>1, StoreInvariant, PTL

\* Unless a deletion or a replacement was cut short, the catalog that can be
\* read and the shards that are open have passed validateShard, whatever a crash, a bad
\* download or a rejected reload left behind.
THEOREM ReadableIsValidated == Spec => []ValidatedOnly
<1>1. IInv => ValidatedOnly
  <2> SUFFICES ASSUME IInv, ~cutShort PROVE AllGood(ReadActive.packs) /\ clean
    BY DEF ValidatedOnly
  <2>1. clean
    BY DEF IInv, OpenIsClean
  <2>2. /\ ReadActive \in {active, None} /\ Elements(ReadActive.packs) \subseteq Present
        /\ files \in [Packs -> {"absent", "good", "bad"}]
    BY ReadActiveFacts DEF IInv, TypeOK
  <2>3. AllGood(ReadActive.packs)
    BY <2>2, NoPacks DEF IInv, ActiveIsGood, AllGood, Present
  <2> QED BY <2>1, <2>3
<1> QED BY <1>1, StoreInvariant, PTL

\* A synchronization that returns has its selection active and complete on
\* disk, nothing else beside it, and the recognizer serving it.
THEOREM SyncDeliversSelection == Spec => []SyncDelivers
<1>1. IInv => SyncDelivers
  <2> SUFFICES ASSUME IInv, sync = "done"
               PROVE  /\ active = goal
                      /\ Present = Elements(goal.packs) /\ partial = {}
                      /\ ready
                      /\ ~adrift /\ ~cutShort => shards = goal.packs
    BY DEF SyncDelivers
  <2>1. active = goal /\ Present = Elements(goal.packs) /\ partial = {}
    BY DEF IInv, Delivered, Partials
  <2>2. ready /\ deleting = FALSE
    BY PastOpening
  <2> QED BY <2>1, <2>2 DEF IInv, Serves
<1> QED BY <1>1, StoreInvariant, PTL

\* Between operations the recognizer has the shards open that active.json
\* names.
THEOREM RecognizerFollows == Spec => []RecognizerFollowsDisk
<1>1. IInv => RecognizerFollowsDisk
  <2> SUFFICES ASSUME IInv, StoreFree, ready, ~adrift, ~cutShort
               PROVE  shards = ReadActive.packs
    BY DEF RecognizerFollowsDisk
  <2>1. ~deleting /\ shards = active.packs
    BY DEF IInv, Serves, StoreFree
  <2>2. ReadActive = active
    BY <2>1, ReadActiveFacts DEF IInv, ActiveIsGood, StoreFree, ReplacingSteps, EnsuringSteps
  <2> QED BY <2>1, <2>2
<1> QED BY <1>1, StoreInvariant, PTL

-------------------- (* What a reader of the catalog sees *) ---------------

\* The abstract catalog: one that was cut short counts as gone.
Seen == IF cutShort THEN None ELSE ReadActive

\* A file outside a catalog that can be read makes no difference to it.
LEMMA OtherFileUnseen ==
    ASSUME IInv, NEW n \in Packs, NEW q \in {"absent", "good", "bad"},
           n \notin Elements(active.packs),
           files' = [files EXCEPT ![n] = q], active' = active
    PROVE  ReadActive' = ReadActive
<1>1. \A m \in Packs \ {n} : files'[m] = files[m]
  BY DEF IInv, TypeOK
<1>2. active.packs \in Seq(Packs) /\ Elements(active.packs) \subseteq Packs
  BY ElementsFacts DEF IInv, TypeOK, Catalogs
<1>3. Elements(active.packs) \subseteq Present' <=> Elements(active.packs) \subseteq Present
  BY <1>1, <1>2 DEF Present
<1> QED BY <1>3 DEF ReadActive

\* What ends where the catalog cannot be read makes that last.
LEMMA CutShortUnseen ==
    ASSUME IInv, CutShort, cutShort \/ ReadActive' = ReadActive
    PROVE  Seen' = Seen
BY CutShortFacts DEF Seen

LEMMA DeletionSeen ==
    ASSUME IInv, Deletion \/ DeleteFails \/ Crash
    PROVE  Seen' = Seen \/ (deleting /\ Seen' = None)
<1>1. CASE DeleteBegin
  <2>1. UNCHANGED <<files, active, cutShort>>
    BY <1>1 DEF DeleteBegin, disk
  <2> QED BY <2>1 DEF Seen, ReadActive, Present
<1>2. ASSUME NEW n \in Packs, DeleteFile(n)
      PROVE  Seen' = Seen \/ (deleting /\ Seen' = None)
  <2>1. deleting /\ files' = [files EXCEPT ![n] = "absent"] /\ UNCHANGED <<active, cutShort>>
    BY <1>2 DEF DeleteFile
  <2>2. Present' \subseteq Present
    BY <2>1 DEF IInv, TypeOK, Present
  <2> QED BY <2>1, <2>2 DEF Seen, ReadActive
<1>3. CASE DeleteEnd
  <2>1. deleting /\ active' = None
    BY <1>3 DEF DeleteEnd
  <2> QED BY <2>1 DEF Seen, ReadActive
<1>4. CASE DeleteFails \/ Crash
  <2>1. CutShort /\ UNCHANGED <<files, active>>
    BY <1>4 DEF DeleteFails, Crash, disk
  <2>2. ReadActive' = ReadActive
    BY <2>1 DEF ReadActive, Present
  <2> QED BY <2>1, <2>2, CutShortUnseen
<1> QED BY <1>1, <1>2, <1>3, <1>4 DEF Deletion

\* A file of another size is missed by those who read a catalog with it.
LEMMA DeleteOtherSizeSeen ==
    ASSUME IInv, DeleteOtherSize
    PROVE  Seen' = Seen \/ (Replacing /\ Seen' = None)
<1>1. /\ sync = "ensuring" /\ UNCHANGED <<active, cutShort>>
      /\ files' = [p \in Packs |-> IF p \in Namesakes(Wanted) THEN "absent" ELSE files[p]]
  BY DEF DeleteOtherSize
<1>2. \A p \in Packs : files'[p] = IF p \in Namesakes(Wanted) THEN "absent" ELSE files[p]
  BY <1>1
<1>3. active.packs \in Seq(Packs) /\ Elements(active.packs) \subseteq Packs
  BY ElementsFacts DEF IInv, TypeOK, Catalogs
<1>4. CASE Elements(active.packs) \cap Namesakes(Wanted) = {}
  <2>1. Elements(active.packs) \subseteq Present' <=> Elements(active.packs) \subseteq Present
    BY <1>2, <1>3, <1>4 DEF Present
  <2> QED BY <1>1, <2>1 DEF Seen, ReadActive
<1>5. CASE Elements(active.packs) \cap Namesakes(Wanted) # {}
  <2>1. ~(Elements(active.packs) \subseteq Present')
    BY <1>2, <1>3, <1>5 DEF Present
  <2> QED BY <1>1, <1>5, <2>1 DEF Seen, ReadActive, Replacing
<1> QED BY <1>4, <1>5

\* Only replacing active.json, removing a file to replace it and a deletion
\* change what a reader sees.
LEMMA StepSeen ==
    ASSUME IInv, [Next]_vars
    PROVE  Seen' = Seen \/ ((deleting \/ Replacing) /\ Seen' = None) \/ WriteActive
<1>1. CASE UNCHANGED <<files, active, cutShort>>
  BY <1>1 DEF Seen, ReadActive, Present
<1>2. CASE RejectCached
  <2>1. /\ sync = "ensuring" /\ files[Wanted] = "bad" /\ ~AlreadyActive
        /\ files' = [files EXCEPT ![Wanted] = "absent"] /\ UNCHANGED <<active, cutShort>>
    BY <1>2 DEF RejectCached
  <2>2. Wanted \in Packs /\ (~cutShort => Wanted \notin Elements(active.packs))
    BY <2>1, WantedFacts DEF IInv, PassedIsGood, AlreadyActive, EnsuringSteps
  <2> QED BY <2>1, <2>2, OtherFileUnseen DEF Seen
<1>3. CASE DownloadEnd \/ RejectDownloaded
  <2>1. PICK q \in {"absent", "good", "bad"} : files' = [files EXCEPT ![Wanted] = q]
    BY <1>3 DEF DownloadEnd, RejectDownloaded
  <2>2. sync \in {"downloading", "validating"} /\ active' = active
    BY <1>3 DEF DownloadEnd, RejectDownloaded
  <2>3. Wanted \in Packs /\ (~cutShort => Wanted \notin Elements(active.packs))
    BY <2>2, WantedFacts DEF IInv, PassedIsGood, EnsuringSteps
  <2>4. cutShort \/ ReadActive' = ReadActive
    BY <2>1, <2>2, <2>3, OtherFileUnseen
  <2>5. cutShort' = cutShort \/ CutShort
    BY <1>3 DEF DownloadEnd, RejectDownloaded
  <2> QED BY <2>4, <2>5, CutShortUnseen DEF Seen
<1>4. ASSUME NEW n \in Packs, PruneFile(n)
      PROVE  Seen' = Seen
  <2>1. /\ sync = "pruning" /\ n \notin Elements(work.packs)
        /\ files' = [files EXCEPT ![n] = "absent"] /\ UNCHANGED <<active, cutShort>>
    BY <1>4 DEF PruneFile, NamesIn
  <2>2. n \notin Elements(active.packs)
    BY <2>1 DEF IInv, Delivered
  <2> QED BY <2>1, <2>2, OtherFileUnseen DEF Seen
<1>5. CASE Deletion \/ DeleteFails \/ Crash
  BY <1>5, DeletionSeen
<1>6. CASE RecognitionOpenBegin \/ RecognitionOpenEnd \/ SyncBegin \/ SyncOpenBegin \/ SyncOpenEnd
           \/ SyncOpened \/ UNCHANGED vars
  BY <1>1, <1>6 DEF RecognitionOpenBegin, RecognitionOpenEnd, SyncBegin, SyncOpenBegin, SyncOpenEnd,
     SyncOpened, vars, disk
<1>7. CASE \E t \in Targets : \E k \in 0..Len(Manifest[t]) : Fetch(t, k)
  BY <1>1, <1>7 DEF Fetch, disk
<1>8. CASE EnsureCached \/ DownloadBegin \/ Validated \/ Ensured \/ Reload \/ PruneEnd \/ SyncReturn
  BY <1>1, <1>8 DEF EnsureCached, DownloadBegin, Validated, Ensured, Reload, PruneEnd, SyncReturn,
     disk
<1>9. CASE SyncFails
  <2>1. CutShort /\ UNCHANGED <<files, active>>
    BY <1>9 DEF SyncFails
  <2>2. ReadActive' = ReadActive
    BY <2>1 DEF ReadActive, Present
  <2> QED BY <2>1, <2>2, CutShortUnseen
<1>10. CASE DeleteOtherSize
  BY <1>10, DeleteOtherSizeSeen
<1> QED BY <1>2, <1>3, <1>4, <1>5, <1>6, <1>7, <1>8, <1>9, <1>10 DEF Next, SyncStep

\* What replacing active.json brings.
LEMMA WriteActiveSeen ==
    ASSUME IInv, WriteActive
    PROVE  /\ ReadActive' = work /\ work # None
           /\ cutShort' => cutShort
<1>1. /\ sync = "writing" /\ active' = work /\ UNCHANGED files
      /\ cutShort' = (cutShort /\ ~AllGood(work.packs))
  BY DEF WriteActive
<1>2. Elements(work.packs) \subseteq Present /\ work.target \in Targets
  BY <1>1, ActivatedFacts DEF IsSelection
<1>3. ReadActive' = work
  BY <1>1, <1>2 DEF ReadActive, Present
<1> QED BY <1>1, <1>2, <1>3, NoPacks

\* Only a deletion takes a readable catalog away, or a synchronization that
\* removes a file of it to replace it with one of another size: no other step
\* of a synchronization does, failed or interrupted.
THEOREM OnlyDeletionTakesAway == Spec => OnlyDeletionLoses
<1>1. IInv /\ [Next]_vars =>
         [~cutShort /\ ReadActive # None /\ ReadActive' = None
            => deleting \/ Replacing]_vars
  <2> SUFFICES ASSUME IInv, [Next]_vars, ~cutShort, ReadActive # None, ReadActive' = None
               PROVE  deleting \/ Replacing
    OBVIOUS
  <2>1. ~WriteActive
    BY WriteActiveSeen
  <2>2. Seen = ReadActive /\ Seen' = None
    BY DEF Seen
  <2> QED BY <2>1, <2>2, StepSeen
<1> QED BY <1>1, StoreInvariant, PTL DEF Spec, OnlyDeletionLoses

----------------------------- (* The refinement *) -------------------------

\* What is activated is the first shards of its target's manifest.
LEMMA ActivatesPart ==
    ASSUME IInv, sync = "writing"
    PROVE  work \in Abstract!Catalogs
<1>1. /\ work \in Catalogs /\ work.target = goal.target /\ next \in Nat
      /\ work.packs = Take(goal.packs, next) /\ IsSelection(goal)
  BY ActivatedFacts
<1> DEFINE t == goal.target
<1>2. PICK k \in 0..Len(Manifest[t]) : t \in Targets /\ goal.packs = Take(Manifest[t], k)
  BY <1>1 DEF IsSelection
<1>3. Manifest[t] \in Seq(Packs) /\ Len(Manifest[t]) \in Nat
  BY <1>2, ConstantsOK, LenProperties
<1>4. PICK m \in 0..Len(Manifest[t]) : work.packs = Take(Manifest[t], m)
  <2>1. \E m \in 0..Len(Manifest[t]) : Take(Take(Manifest[t], k), next) = Take(Manifest[t], m)
    BY <1>1, <1>3, TakeOfTake
  <2> QED BY <1>1, <1>2, <2>1
<1>5. Take(Manifest[t], m) = SubSeq(Manifest[t], 1, m)
  BY <1>3, <1>4 DEF Take
<1>6. work = [target |-> t, packs |-> SubSeq(Manifest[t], 1, m), complete |-> work.complete]
      /\ work.complete \in BOOLEAN
  BY <1>1, <1>4, <1>5 DEF Catalogs
<1>7. work \in [target : {t}, packs : {SubSeq(Manifest[t], 1, i) : i \in 0..Len(Manifest[t])},
               complete : BOOLEAN]
  BY <1>4, <1>6
<1> QED BY <1>2, <1>7, Zenon DEF Abstract!Catalogs, Abstract!Selection

\* A catalog grows by one shard; any other change activates a whole selection
\* or brings the first shards where nothing could be read.
LEMMA WriteActiveMaps ==
    ASSUME IInv, WriteActive
    PROVE  Seen' = Seen \/ Abstract!Next
<1>1. sync = "writing" /\ work \in Abstract!Catalogs
  BY ActivatesPart DEF WriteActive
<1>2. /\ ReadActive' = work /\ (cutShort' => cutShort) /\ cutShort \in BOOLEAN
      /\ active \in Catalogs
  BY <1>1, WriteActiveSeen DEF IInv, TypeOK
<1>3. CASE cutShort
  BY <1>1, <1>2, <1>3 DEF Seen, None, Abstract!Next, Abstract!Appear, Abstract!None
<1>4. CASE ~cutShort /\ active = None
  <2>1. ReadActive = None
    BY <1>4, ReadActiveFacts DEF IInv
  <2> QED BY <1>1, <1>2, <1>4, <2>1 DEF Seen, None, Abstract!Next, Abstract!Appear, Abstract!None
<1>5. CASE ~cutShort /\ active # None /\ ~(growing /\ next < Len(goal.packs))
  <2>1. work.complete
    BY <1>1, <1>5, ActivatedFacts DEF IInv, GoalIsSelection, FetchedSteps
  <2> QED BY <1>1, <1>2, <1>5, <2>1 DEF Seen, Abstract!Next, Abstract!Switch
<1>6. CASE ~cutShort /\ active # None /\ growing /\ next < Len(goal.packs)
  <2>1. /\ goal.packs \in Seq(Packs) /\ next \in 1..(Len(goal.packs) + 1) /\ Len(goal.packs) \in Nat
        /\ work.target = goal.target /\ work.packs = Take(goal.packs, next)
    BY <1>1, ActivatedFacts
  <2>2. active.target = goal.target /\ active.packs = Take(goal.packs, next - 1)
    BY <1>1, <1>6 DEF IInv, GrowsInOrder, FetchedSteps
  <2>0. ReadActive = active
    <3>1. next - 1 \in Nat /\ \A i \in 1..Len(active.packs) :
                                i \in 1..Len(goal.packs) /\ active.packs[i] = goal.packs[i]
      BY <2>1, <2>2, TakeFacts
    <3>2. Elements(active.packs) \subseteq Elements(goal.packs)
      BY <3>1 DEF Elements
    <3> QED BY <1>1, <1>6, <3>2, PastOpening
  <2>3. Len(work.packs) = Len(active.packs) + 1
    <3>1. Len(work.packs) = next
      BY <1>6, <2>1, TakeFacts
    <3>2. next - 1 \in Nat
      BY <2>1
    <3>3. Len(active.packs) = next - 1
      BY <1>6, <2>1, <2>2, <3>2, TakeFacts
    <3> QED BY <2>1, <3>1, <3>3
  <2> QED BY <1>1, <1>2, <1>6, <2>0, <2>1, <2>2, <2>3 DEF Seen, None, Abstract!Next, Abstract!Grow,
         Abstract!None
<1> QED BY <1>2, <1>3, <1>4, <1>5, <1>6

\* The store implements the abstract catalog: every observable change is one
\* of Grow, Switch, Appear and Lose.
THEOREM StoreImplementsCatalog == Spec => ImplementsCatalog
<1>1. Init => Abstract!Init
  BY NoPacks DEF Init, ReadActive, None, Abstract!Init, Abstract!None
<1>2. IInv /\ [Next]_vars => [Abstract!Next]_(IF cutShort THEN None ELSE ReadActive)
  <2> SUFFICES ASSUME IInv, [Next]_vars
               PROVE  Abstract!Next \/ Seen' = Seen
    BY DEF Seen
  <2>1. CASE Seen' = None
    BY <2>1 DEF Seen, None, Abstract!Next, Abstract!Lose, Abstract!None
  <2> QED BY <2>1, StepSeen, WriteActiveMaps
<1> QED BY <1>1, <1>2, StoreInvariant, PTL DEF Spec, ImplementsCatalog, Abstract!Spec

SeenIsSelection == Seen \in Abstract!Catalogs \cup {None}

\* Whatever a reader finds is the first shards of one manifest, never a mixture
\* of two and never with a gap.
THEOREM ReadableIsSelection == Spec => []SeenIsSelection
<1>1. Init => SeenIsSelection
  BY NoPacks DEF Init, ReadActive, Seen, SeenIsSelection
<1>2. SeenIsSelection /\ IInv /\ [Next]_vars => SeenIsSelection'
  <2> SUFFICES ASSUME SeenIsSelection, IInv, [Next]_vars
               PROVE  Seen' \in Abstract!Catalogs \cup {None}
    BY DEF SeenIsSelection
  <2>1. CASE WriteActive
    <3>1. ReadActive' = work /\ work \in Abstract!Catalogs
      BY <2>1, WriteActiveSeen, ActivatesPart DEF WriteActive
    <3> QED BY <3>1 DEF Seen
  <2>2. CASE ~WriteActive
    BY <2>2, StepSeen DEF SeenIsSelection
  <2> QED BY <2>1, <2>2
<1> QED BY <1>1, <1>2, StoreInvariant, PTL DEF Spec

=============================================================================

--------------------------- MODULE HistoryProofs ---------------------------
(***************************************************************************)
(* The history for any bounds, whatever the clock and the activities do: a *)
(* tap on "delete" removes the recognition that was tapped or none, what   *)
(* was deleted or left out is not shown again, a row leaves the table only *)
(* for a reason, and what was just recognized is kept.                     *)
(*                                                                         *)
(* The argument: only Record brings a row into sight of the program, with  *)
(* an id that no row in its sight has had; every other step keeps or       *)
(* forgets rows that are known.  The lists on their way to the screen      *)
(* follow the table in the order it changed, since one thread makes them   *)
(* and one queue brings them.                                              *)
(***************************************************************************)
EXTENDS History, SequenceTheorems, FiniteSetTheorems, TLAPS

Tapped == {task.row : task \in {t \in Range(tasks) \cup orphans : t.kind = "delete"}}

\* Every row that the table, the screen, a queue or a task holds.
Known == table \cup shown \cup Tapped \cup UNION Range(posts)

Typed ==
    /\ now \in 0..ClockBound /\ sequence \in Nat
    /\ table \subseteq Rows /\ shown \subseteq Rows
    /\ tasks \in Seq(Tasks) /\ posts \in Seq(SUBSET Rows)
    /\ orphans \subseteq Tasks

OneRowPerId ==
    /\ \A r, s \in Known : r.id = s.id => r = s
    /\ \A r \in Known : r.id <= sequence

IInv == Typed /\ OneRowPerId

-----------------------------------------------------------------------------
LEMMA RangeOfAppend ==
    ASSUME NEW S, NEW q \in Seq(S), NEW x \in S
    PROVE  Append(q, x) \in Seq(S) /\ Range(Append(q, x)) = Range(q) \cup {x}
<1>1. /\ Append(q, x) \in Seq(S)
      /\ Len(Append(q, x)) = Len(q) + 1 /\ Len(q) \in Nat
      /\ \A i \in 1..Len(q) : Append(q, x)[i] = q[i]
      /\ Append(q, x)[Len(q) + 1] = x
      /\ DOMAIN q = 1..Len(q) /\ DOMAIN Append(q, x) = 1..Len(Append(q, x))
  BY AppendProperties
<1>2. DOMAIN Append(q, x) = DOMAIN q \cup {Len(q) + 1}
  BY <1>1
<1>3. Range(Append(q, x)) = Range(q) \cup {x}
  BY <1>1, <1>2, ZenonT(60) DEF Range
<1>. QED
  BY <1>1, <1>3

LEMMA RangeOfPrepend ==
    ASSUME NEW S, NEW x \in S, NEW q \in Seq(S)
    PROVE  <<x>> \o q \in Seq(S) /\ Range(<<x>> \o q) = {x} \cup Range(q)
<1>. DEFINE p == <<x>>
<1>1. p \in Seq(S) /\ Range(p) = {x}
  BY DEF Range
<1>. HIDE DEF p
<1>2. p \o q \in Seq(S) /\ Range(p \o q) = {x} \cup Range(q)
  BY <1>1, ConcatProperties, RangeConcatenation
<1>. QED
  BY <1>2 DEF p

LEMMA RangeOfTail ==
    ASSUME NEW S, NEW q \in Seq(S), q # <<>>
    PROVE  /\ Tail(q) \in Seq(S)
           /\ Head(q) \in Range(q) /\ Head(q) \in S
           /\ Range(Tail(q)) \subseteq Range(q)
           /\ Range(q) \subseteq S
<1>1. /\ Len(q) \in Nat /\ Len(q) > 0
      /\ Head(q) = q[1] /\ Tail(q) \in Seq(S)
      /\ Len(Tail(q)) = Len(q) - 1
      /\ \A i \in 1..Len(Tail(q)) : Tail(q)[i] = q[i + 1]
      /\ DOMAIN q = 1..Len(q) /\ DOMAIN Tail(q) = 1..Len(Tail(q))
      /\ \A i \in 1..Len(q) : q[i] \in S
  BY HeadTailProperties, EmptySeq, LenProperties, ElementOfSeq
<1>. QED
  BY <1>1 DEF Range

-----------------------------------------------------------------------------
(* What a step may know.                                                   *)

\* Nothing new is known.
Keeps == Typed' /\ Known' \subseteq Known /\ sequence' = sequence

LEMMA KeepsInvariant == IInv /\ Keeps => IInv'
BY DEF IInv, Keeps, OneRowPerId

\* A new row has an id no known row has.
LEMMA RecordKeeps == IInv /\ Record => IInv'
<1>. SUFFICES ASSUME IInv, Record PROVE IInv'
  OBVIOUS
<1>. DEFINE new == [id |-> sequence + 1, at |-> now]
<1>1. /\ sequence' = sequence + 1 /\ sequence \in Nat
      /\ sequence < IdBound /\ now \in 0..ClockBound
      /\ table' \subseteq table \cup {new}
      /\ UNCHANGED <<now, shown, tasks, posts, orphans>>
  BY DEF IInv, Typed, Record, NextId, Prune, Newest, screen
<1>2. new \in Rows
  BY <1>1, ConstantsOK DEF Rows
<1>3. Typed'
  BY <1>1, <1>2 DEF IInv, Typed
<1>4. Known' \subseteq Known \cup {new}
  BY <1>1 DEF Known, Tapped
<1>5. \A r \in Known : r.id <= sequence /\ r.id \in Nat
  <2>1. Known \subseteq Rows
    <3>1. Range(posts) \subseteq SUBSET Rows /\ Range(tasks) \subseteq Tasks
      BY LenProperties, ElementOfSeq DEF IInv, Typed, Range
    <3>2. Tapped \subseteq Rows
      BY <3>1 DEF Tapped, Tasks, Load, Clear, Delete, IInv, Typed
    <3>. QED
      BY <3>1, <3>2 DEF Known, IInv, Typed
  <2>. QED
    BY <2>1, ConstantsOK DEF Rows, IInv, OneRowPerId
<1>6. OneRowPerId'
  BY <1>1, <1>4, <1>5 DEF IInv, OneRowPerId
<1>. QED
  BY <1>3, <1>6 DEF IInv

\* The main thread queues tasks for rows it shows, and shows what was posted.
LEMMA MainThreadKeeps ==
    ASSUME IInv,
           OnCreate \/ OnResume \/ OnPause \/ OnDestroy \/ TapDelete
              \/ ConfirmClear \/ Render
    PROVE  Keeps
<1>. USE DEF IInv, Typed, Keeps
<1>1. ASSUME OnCreate \/ OnPause
      PROVE  Keeps
  BY <1>1 DEF OnCreate, OnPause, Known, Tapped, store
<1>2. ASSUME NEW task \in Tasks, Execute(task),
             UNCHANGED <<now, store, posts, shown, orphans>>,
             task.kind = "delete" => task.row \in shown
      PROVE  Keeps
  <2>1. tasks' \in Seq(Tasks) /\ Range(tasks') = Range(tasks) \cup {task}
    BY <1>2, RangeOfAppend DEF Execute
  <2>2. Tapped' \subseteq Tapped \cup shown
    BY <1>2, <2>1 DEF Tapped
  <2>. QED
    BY <1>2, <2>1, <2>2 DEF Known, store
<1>3. ASSUME OnResume \/ ConfirmClear
      PROVE  Keeps
  <2>1. Load \in Tasks /\ Clear \in Tasks
        /\ Load.kind # "delete" /\ Clear.kind # "delete"
    BY DEF Tasks, Load, Clear
  <2>. QED
    BY <1>2, <1>3, <2>1 DEF OnResume, ConfirmClear
<1>4. ASSUME TapDelete
      PROVE  Keeps
  <2>1. PICK r \in shown : Execute(Delete(r))
    BY <1>4 DEF TapDelete
  <2>2. Delete(r) \in Tasks /\ Delete(r).row = r
    BY <2>1 DEF Tasks, Delete
  <2>. QED
    BY <1>2, <1>4, <2>1, <2>2 DEF TapDelete
<1>5. ASSUME Render
      PROVE  Keeps
  <2>1. /\ posts' \in Seq(SUBSET Rows) /\ Range(posts') \subseteq Range(posts)
        /\ shown' \in Range(posts) /\ shown' \in SUBSET Rows
    BY <1>5, RangeOfTail DEF Render
  <2>. QED
    BY <1>5, <2>1 DEF Render, Known, Tapped, store
<1>6. ASSUME OnDestroy
      PROVE  Keeps
  <2>1. /\ tasks' = <<>> /\ posts' = <<>> /\ shown' = {}
        /\ UNCHANGED <<now, table, sequence>>
        /\ orphans' \subseteq orphans \cup Range(tasks)
        /\ orphans' \subseteq Tasks
    BY <1>6, RangeOfTail DEF OnDestroy, EndActivity, store
  <2>2. Range(<<>>) = {}
    BY DEF Range
  <2>. QED
    BY <2>1, <2>2 DEF Known, Tapped
<1>. QED
  BY <1>1, <1>3, <1>4, <1>5, <1>6

\* Executors take rows from the table and lists of rows out of it.
LEMMA ExecutorKeeps ==
    ASSUME IInv, DoLoad \/ DoDelete \/ DoClear \/ DoOrphan
    PROVE  Keeps
<1>. USE DEF IInv, Typed, Keeps
<1>1. ASSUME DoLoad \/ DoClear
      PROVE  Keeps
  <2>1. PICK rows \in SUBSET table : Post(rows)
    BY <1>1 DEF DoLoad, DoClear, NewestFirst, Newest
  <2>2. posts' \in Seq(SUBSET Rows) /\ Range(posts') = Range(posts) \cup {rows}
    BY <2>1, RangeOfAppend DEF Post
  <2>3. /\ tasks # <<>> /\ tasks' = Tail(tasks)
        /\ table' \subseteq table
        /\ UNCHANGED <<now, sequence, shown, orphans>>
    BY <1>1 DEF DoLoad, DoClear, Running, store
  <2>4. tasks' \in Seq(Tasks) /\ Range(tasks') \subseteq Range(tasks)
    BY <2>3, RangeOfTail
  <2>5. Tapped' \subseteq Tapped
    BY <2>3, <2>4 DEF Tapped
  <2>6. UNION Range(posts') \subseteq table \cup UNION Range(posts)
    BY <2>1, <2>2
  <2>. QED
    BY <2>2, <2>3, <2>4, <2>5, <2>6 DEF Known
<1>2. ASSUME DoDelete
      PROVE  Keeps
  <2>1. /\ Tail(tasks) \in Seq(Tasks) /\ Range(Tail(tasks)) \subseteq Range(tasks)
        /\ table' \subseteq table
        /\ UNCHANGED <<now, sequence, posts, shown, orphans>>
        /\ tasks' = <<Load>> \o Tail(tasks)
    BY <1>2, RangeOfTail DEF DoDelete, Running, Without
  <2>2. Load \in Tasks /\ Load.kind # "delete"
    BY DEF Tasks, Load
  <2>3. /\ tasks' \in Seq(Tasks)
        /\ Range(tasks') = {Load} \cup Range(Tail(tasks))
    <3>1. ASSUME NEW q \in Seq(Tasks)
          PROVE  /\ <<Load>> \o q \in Seq(Tasks)
                 /\ Range(<<Load>> \o q) = {Load} \cup Range(q)
      BY <2>2, RangeOfPrepend
    <3>. QED
      BY <2>1, <3>1, Zenon
  <2>4. Tapped' \subseteq Tapped
    <3>. SUFFICES ASSUME NEW task \in Range(tasks') \cup orphans, task.kind = "delete"
                  PROVE  task \in Range(tasks) \cup orphans
      BY <2>1 DEF Tapped
    <3>. QED
      BY <2>1, <2>2, <2>3
  <2>. QED
    BY <2>1, <2>3, <2>4 DEF Known
<1>3. ASSUME DoOrphan
      PROVE  Keeps
  BY <1>3 DEF DoOrphan, Without, Known, Tapped, screen
<1>. QED
  BY <1>1, <1>2, <1>3

LEMMA RestKeeps ==
    ASSUME IInv, SetClock \/ ProcessDies \/ UNCHANGED vars
    PROVE  Keeps
<1>. USE DEF IInv, Typed, Keeps
<1>1. Range(<<>>) = {}
  BY DEF Range
<1>2. CASE SetClock \/ UNCHANGED vars
  BY <1>2 DEF SetClock, vars, store, screen, Known, Tapped
<1>3. CASE ProcessDies
  BY <1>1, <1>3 DEF ProcessDies, EndActivity, store, Known, Tapped
<1>. QED
  BY <1>2, <1>3

\* A row in sight of the program is told by its id, and ids only grow.
THEOREM Invariance == Spec => []IInv
<1>1. Init => IInv
  <2>. SUFFICES ASSUME Init PROVE IInv
    OBVIOUS
  <2>1. Range(<<>>) = {}
    BY DEF Range
  <2>2. Known = {}
    BY <2>1 DEF Init, NoActivity, Known, Tapped
  <2>. QED
    BY <2>2 DEF Init, NoActivity, IInv, Typed, OneRowPerId
<1>2. IInv /\ [Next]_vars => IInv'
  BY RecordKeeps, MainThreadKeeps, ExecutorKeeps, RestKeeps, KeepsInvariant DEF Next
<1>. QED
  BY <1>1, <1>2, PTL DEF Spec

\* A deletion under way in HistoryActivity finds the row that was tapped or
\* none, across clears, evictions, settings of the clock and process death.
THEOREM DeletesCorrectly == Spec => []DeletesWhatWasTapped
<1>1. IInv => DeletesWhatWasTapped
  BY DEF IInv, OneRowPerId, Known, Tapped, DeletesWhatWasTapped
<1>. QED
  BY <1>1, Invariance, PTL

--------------------- (* Rows shown, deleted and kept *) --------------------

\* The rows of the activity's history are of the table, before or now.
Remembered ==
    /\ shown \subseteq seen /\ seen \cup erased \subseteq Rows
    /\ \A r \in seen \cup erased : r.id <= sequence
    /\ erased \cap table = {}

TableIsBounded == IsFiniteSet(table) /\ Cardinality(table) <= MaxEntries

\* OnDestroy leaves no load behind.
OrphansDelete == Load \notin orphans

\* What the activity will show in the end of what is posted.
LastPosted == IF posts = <<>> THEN shown ELSE posts[Len(posts)]

\* A deleted row is not in it, or another list is on its way.
DeletedLeaves == Running("load") \/ LastPosted \cap erased = {}

\* The lists of the activity's queue follow the table: what one of them no
\* longer has, neither a later one nor the table has.
PostedInOrder ==
    \A i \in 1..Len(posts) : \A r \in seen \cup UNION {posts[k] : k \in 1..i} :
        r \notin posts[i] =>
            r \notin table /\ \A j \in (i + 1)..Len(posts) : r \notin posts[j]

ScreenInv ==
    /\ Remembered /\ TableIsBounded /\ OrphansDelete
    /\ DeletedLeaves /\ PostedInOrder /\ NoReturn

--------------------------- (* The order of the rows *) --------------------

LEMMA AheadFacts ==
    /\ \A r, s \in Rows : r = s \/ Ahead(r, s) \/ Ahead(s, r)
    /\ \A r, s \in Rows : ~(Ahead(r, s) /\ Ahead(s, r))
    /\ \A r, s, t \in Rows : Ahead(r, s) /\ Ahead(s, t) => Ahead(r, t)
<1>1. \A r \in Rows : /\ r.id \in Nat /\ r.at \in Nat
                      /\ r = [id |-> r.id, at |-> r.at]
  BY ConstantsOK DEF Rows
<1>2. \A r, s \in Rows : r = s \/ Ahead(r, s) \/ Ahead(s, r)
  <2> SUFFICES ASSUME NEW r \in Rows, NEW s \in Rows, ~Ahead(r, s), ~Ahead(s, r)
               PROVE  r = s
    OBVIOUS
  <2>1. r.at = s.at /\ r.id = s.id
    BY <1>1 DEF Ahead
  <2> QED BY <1>1, <2>1
<1>3. \A r, s \in Rows : ~(Ahead(r, s) /\ Ahead(s, r))
  BY <1>1 DEF Ahead
<1>4. \A r, s, t \in Rows : Ahead(r, s) /\ Ahead(s, t) => Ahead(r, t)
  BY <1>1 DEF Ahead
<1> QED BY <1>2, <1>3, <1>4

\* Among finite sets of rows that grow with their row, one is the smallest.
LEMMA SmallestSet ==
    ASSUME NEW rows, IsFiniteSet(rows), NEW T, T # {}, NEW f \in [T -> SUBSET rows]
    PROVE  \E x \in T : \A y \in T : ~(f[y] \subseteq f[x] /\ f[y] # f[x])
<1> DEFINE sets == {f[x] : x \in T}
<1>1. IsWellFoundedOn(StrictSubsetOrdering(rows), FiniteSubsetsOf(rows))
  BY FS_StrictSubsetOrderingWellFounded
<1>2. FiniteSubsetsOf(rows) = SUBSET rows
  BY FS_FiniteSubsetsOfFinite
<1>3. sets \subseteq FiniteSubsetsOf(rows) /\ sets # {}
  BY <1>2
<1>4. PICK m \in sets : \A s \in sets : <<s, m>> \notin StrictSubsetOrdering(rows)
  BY <1>1, <1>3, WFMin
<1>5. PICK x \in T : m = f[x]
  BY <1>4
<1>6. ASSUME NEW y \in T, f[y] \subseteq f[x], f[y] # f[x]
      PROVE  FALSE
  <2>1. f[y] \in SUBSET rows /\ f[x] \in SUBSET rows
    OBVIOUS
  <2>2. <<f[y], f[x]>> \in StrictSubsetOrdering(rows)
    BY <1>6, <2>1 DEF StrictSubsetOrdering
  <2> QED BY <1>4, <1>5, <2>2
<1> QED BY <1>6

\* Of some rows one comes first, and one last.
LEMMA FirstRow ==
    ASSUME NEW rows \in SUBSET Rows, IsFiniteSet(rows), rows # {}
    PROVE  \E x \in rows : \A y \in rows : ~Ahead(y, x)
<1> DEFINE f == [x \in rows |-> {s \in rows : Ahead(s, x)}]
<1>1. f \in [rows -> SUBSET rows]
  OBVIOUS
<1>2. PICK x \in rows : \A y \in rows : ~(f[y] \subseteq f[x] /\ f[y] # f[x])
  <2> HIDE DEF f
  <2> QED BY <1>1, SmallestSet
<1>3. ASSUME NEW y \in rows, Ahead(y, x)
      PROVE  FALSE
  <2>1. y \in f[x] /\ y \notin f[y]
    BY <1>3, AheadFacts
  <2>2. f[y] \subseteq f[x]
    BY <1>3, AheadFacts
  <2> QED BY <1>2, <2>1, <2>2
<1> QED BY <1>3

LEMMA LastRow ==
    ASSUME NEW rows \in SUBSET Rows, IsFiniteSet(rows), rows # {}
    PROVE  \E x \in rows : \A y \in rows : ~Ahead(x, y)
<1> DEFINE f == [x \in rows |-> {s \in rows : Ahead(x, s)}]
<1>1. f \in [rows -> SUBSET rows]
  OBVIOUS
<1>2. PICK x \in rows : \A y \in rows : ~(f[y] \subseteq f[x] /\ f[y] # f[x])
  <2> HIDE DEF f
  <2> QED BY <1>1, SmallestSet
<1>3. ASSUME NEW y \in rows, Ahead(x, y)
      PROVE  FALSE
  <2>1. y \in f[x] /\ y \notin f[y]
    BY <1>3, AheadFacts
  <2>2. f[y] \subseteq f[x]
    BY <1>3, AheadFacts
  <2> QED BY <1>2, <2>1, <2>2
<1> QED BY <1>3

\* At most MaxEntries rows stay: all but the last are ahead of it.
LEMMA NewestSize ==
    ASSUME NEW rows \in SUBSET Rows, IsFiniteSet(rows)
    PROVE  /\ Newest(rows) \subseteq rows /\ IsFiniteSet(Newest(rows))
           /\ Cardinality(Newest(rows)) <= MaxEntries
<1> DEFINE kept == Newest(rows)
<1>1. kept \subseteq rows /\ IsFiniteSet(kept)
  BY FS_Subset DEF Newest
<1>2. CASE kept = {}
  BY <1>1, <1>2, FS_EmptySet, ConstantsOK
<1>3. CASE kept # {}
  <2>1. PICK x \in kept : \A y \in kept : ~Ahead(x, y)
    BY <1>1, <1>3, LastRow
  <2> DEFINE ahead == {s \in rows : Ahead(s, x)}
  <2>2. Cardinality(ahead) < MaxEntries /\ IsFiniteSet(ahead) /\ Cardinality(ahead) \in Nat
    BY <2>1, FS_Subset, FS_CardinalityType DEF Newest
  <2>3. kept \ {x} \subseteq ahead
    BY <1>1, <2>1, AheadFacts
  <2>4. Cardinality(kept \ {x}) <= Cardinality(ahead)
    BY <2>2, <2>3, FS_Subset
  <2>5. Cardinality(kept \ {x}) = Cardinality(kept) - 1 /\ Cardinality(kept) \in Nat
    BY <1>1, <2>1, FS_RemoveElement, FS_CardinalityType
  <2> QED BY <1>1, <2>2, <2>4, <2>5, ConstantsOK
<1> QED BY <1>2, <1>3

\* No row of a small table is left out.
LEMMA NewestAll ==
    ASSUME NEW rows \in SUBSET Rows, IsFiniteSet(rows), Cardinality(rows) <= MaxEntries
    PROVE  Newest(rows) = rows
<1> SUFFICES ASSUME NEW r \in rows
             PROVE  Cardinality({s \in rows : Ahead(s, r)}) < MaxEntries
  BY DEF Newest
<1>1. {s \in rows : Ahead(s, r)} \subseteq rows \ {r}
  BY AheadFacts
<1>2. /\ IsFiniteSet(rows \ {r}) /\ Cardinality(rows \ {r}) = Cardinality(rows) - 1
      /\ Cardinality(rows) \in Nat
  BY FS_RemoveElement, FS_CardinalityType
<1>3. /\ IsFiniteSet({s \in rows : Ahead(s, r)})
      /\ Cardinality({s \in rows : Ahead(s, r)}) <= Cardinality(rows \ {r})
  BY <1>1, <1>2, FS_Subset
<1>4. Cardinality({s \in rows : Ahead(s, r)}) \in Nat
  BY <1>3, FS_CardinalityType
<1> QED BY <1>2, <1>3, <1>4, ConstantsOK

\* Where a row is left out, MaxEntries others stay ahead of it.
LEMMA NewestRest ==
    ASSUME NEW rows \in SUBSET Rows, IsFiniteSet(rows), NEW r \in rows \ Newest(rows)
    PROVE  Cardinality({s \in Newest(rows) : Ahead(s, r)}) >= MaxEntries
<1> DEFINE kept == Newest(rows)
           aheadOf(x) == {s \in rows : Ahead(s, x)}
<1>1. kept \subseteq rows /\ IsFiniteSet(kept) /\ Cardinality(kept) \in Nat
  BY NewestSize, FS_CardinalityType
<1>2. \A x \in rows : x \in kept <=> Cardinality(aheadOf(x)) < MaxEntries
  BY DEF Newest
<1>3. \A x \in rows : IsFiniteSet(aheadOf(x)) /\ Cardinality(aheadOf(x)) \in Nat
  BY FS_Subset, FS_CardinalityType
<1>4. ASSUME NEW s \in kept
      PROVE  Ahead(s, r)
  <2>1. CASE Ahead(r, s)
    <3>1. aheadOf(r) \subseteq aheadOf(s)
      BY <1>1, <2>1, AheadFacts
    <3>2. Cardinality(aheadOf(r)) <= Cardinality(aheadOf(s))
      BY <1>1, <1>3, <3>1, FS_Subset
    <3>3. Cardinality(aheadOf(s)) < MaxEntries /\ ~(Cardinality(aheadOf(r)) < MaxEntries)
      BY <1>1, <1>2
    <3>4. Cardinality(aheadOf(r)) \in Nat /\ Cardinality(aheadOf(s)) \in Nat /\ MaxEntries \in Nat
      BY <1>1, <1>3, ConstantsOK
    <3> HIDE DEF aheadOf
    <3> QED BY <3>2, <3>3, <3>4
  <2> QED BY <1>1, <2>1, AheadFacts
<1>5. Cardinality(kept) >= MaxEntries
  <2>1. PICK x \in rows \ kept : \A y \in rows \ kept : ~Ahead(y, x)
    BY FirstRow, FS_Subset
  <2>2. aheadOf(x) \subseteq kept
    BY <2>1
  <2>3. Cardinality(aheadOf(x)) <= Cardinality(kept)
    BY <1>1, <2>2, FS_Subset
  <2>4. ~(Cardinality(aheadOf(x)) < MaxEntries)
    BY <1>2, <2>1
  <2>5. Cardinality(aheadOf(x)) \in Nat /\ MaxEntries \in Nat
    BY <1>3, <2>1, ConstantsOK
  <2> HIDE DEF aheadOf, kept
  <2> QED BY <1>1, <2>3, <2>4, <2>5
<1>6. {s \in kept : Ahead(s, r)} = kept
  BY <1>4
<1> QED BY <1>5, <1>6

------------------------ (* Steps of the activity *) -----------------------

LEMMA QueueFacts ==
    ASSUME IInv
    PROVE  /\ posts \in Seq(SUBSET Rows) /\ Len(posts) \in Nat
           /\ Range(posts) = {posts[i] : i \in 1..Len(posts)}
           /\ \A i \in 1..Len(posts) : posts[i] \in Range(posts) /\ posts[i] \subseteq Rows
           /\ \A i \in 1..Len(posts) : \A r \in posts[i] : r.id <= sequence
           /\ posts = <<>> <=> Len(posts) = 0
<1>1. /\ posts \in Seq(SUBSET Rows) /\ Len(posts) \in Nat /\ DOMAIN posts = 1..Len(posts)
      /\ \A i \in 1..Len(posts) : posts[i] \in SUBSET Rows
      /\ posts = <<>> <=> Len(posts) = 0
  BY LenProperties, ElementOfSeq, EmptySeq DEF IInv, Typed
<1>2. Range(posts) = {posts[i] : i \in 1..Len(posts)}
  BY <1>1, Zenon DEF Range
<1>3. \A i \in 1..Len(posts) : \A r \in posts[i] : r.id <= sequence
  BY <1>2 DEF IInv, OneRowPerId, Known
<1> QED BY <1>1, <1>2, <1>3

\* The table may lose rows and get new ones; the screen stays as it is.
LEMMA QuietStep ==
    ASSUME IInv, ScreenInv, UNCHANGED <<posts, shown, seen, erased>>,
           sequence' \in Nat, sequence' >= sequence,
           Running("load") => Running("load")',
           table' \subseteq Rows, \A r \in table' \ table : r.id > sequence,
           IsFiniteSet(table'), Cardinality(table') <= MaxEntries, orphans' \subseteq orphans
    PROVE  ScreenInv'
<1>1. sequence \in Nat /\ seen \cup erased \subseteq Rows /\ \A r \in Rows : r.id \in Nat
  BY ConstantsOK DEF IInv, Typed, ScreenInv, Remembered, Rows
<1>2. \A r \in seen \cup erased : r \in table' => r \in table
  BY <1>1 DEF ScreenInv, Remembered
<1>3. \A i \in 1..Len(posts) : \A r \in posts[i] : r \in table' => r \in table
  BY <1>1, QueueFacts
<1>4. Remembered'
  BY <1>1, <1>2 DEF ScreenInv, Remembered
<1>5. TableIsBounded' /\ OrphansDelete' /\ DeletedLeaves'
  BY DEF ScreenInv, TableIsBounded, OrphansDelete, DeletedLeaves, LastPosted
<1>6. PostedInOrder'
  <2> SUFFICES ASSUME NEW i \in 1..Len(posts),
                      NEW r \in seen \cup UNION {posts[k] : k \in 1..i}, r \notin posts[i]
               PROVE  r \notin table' /\ \A j \in (i + 1)..Len(posts) : r \notin posts[j]
    BY DEF PostedInOrder
  <2>1. r \notin table /\ \A j \in (i + 1)..Len(posts) : r \notin posts[j]
    BY DEF ScreenInv, PostedInOrder
  <2>2. r \in seen \/ \E k \in 1..Len(posts) : r \in posts[k]
    BY QueueFacts
  <2> QED BY <1>2, <1>3, <2>1, <2>2
<1>7. NoReturn'
  BY <1>2 DEF ScreenInv, NoReturn
<1> QED BY <1>4, <1>5, <1>6, <1>7 DEF ScreenInv

LEMMA TaskQueued ==
    ASSUME IInv, NEW task \in Tasks, Execute(task)
    PROVE  Running("load") => Running("load")'
<1> SUFFICES ASSUME tasks # <<>>
             PROVE  tasks' # <<>> /\ Head(tasks') = Head(tasks)
  BY DEF Running
<1>1. tasks \in Seq(Tasks) /\ Len(tasks) \in Nat \ {0} /\ tasks' = Append(tasks, task)
  BY EmptySeq DEF IInv, Typed, Execute
<1>2. /\ tasks' \in Seq(Tasks) /\ Len(tasks') = Len(tasks) + 1
      /\ tasks'[1] = tasks[1]
  BY <1>1, AppendProperties
<1>3. tasks' # <<>>
  BY <1>1, <1>2, EmptySeq
<1> QED BY <1>1, <1>2, <1>3, HeadTailProperties

LEMMA TablePart ==
    ASSUME IInv, ScreenInv, table' \subseteq table
    PROVE  /\ table' \subseteq Rows /\ IsFiniteSet(table') /\ Cardinality(table') <= MaxEntries
<1>1. IsFiniteSet(table') /\ Cardinality(table') <= Cardinality(table) /\ Cardinality(table) \in Nat
      /\ Cardinality(table') \in Nat
  BY FS_Subset, FS_CardinalityType DEF ScreenInv, TableIsBounded
<1> QED BY <1>1, ConstantsOK DEF IInv, Typed, ScreenInv, TableIsBounded

\* What record adds has a new id, and Prune bounds what it leaves.
LEMMA RecordFacts ==
    ASSUME IInv, ScreenInv, Record
    PROVE  LET new == [id |-> sequence + 1, at |-> now]
               rows == {r \in table \cup {new} : r.at + Retention >= now}
           IN  /\ new \in Rows /\ sequence' = sequence + 1 /\ sequence \in Nat /\ now \in Nat
               /\ rows \in SUBSET Rows /\ IsFiniteSet(rows)
               /\ table' = Newest(rows) /\ table' \subseteq table \cup {new}
               /\ IsFiniteSet(table') /\ Cardinality(table') <= MaxEntries
<1> DEFINE new == [id |-> sequence + 1, at |-> now]
           rows == {r \in table \cup {new} : r.at + Retention >= now}
<1>1. /\ sequence' = sequence + 1 /\ sequence \in Nat /\ sequence < IdBound /\ now \in 0..ClockBound
      /\ table' = Newest(rows) /\ now \in Nat
  BY ConstantsOK DEF IInv, Typed, Record, NextId, Prune
<1>2. new \in Rows
  BY <1>1, ConstantsOK DEF Rows
<1>3. IsFiniteSet(table \cup {new})
  BY FS_AddElement DEF ScreenInv, TableIsBounded
<1>4. rows \in SUBSET Rows /\ IsFiniteSet(rows)
  <2>1. rows \in SUBSET (table \cup {new})
    OBVIOUS
  <2>2. IsFiniteSet(rows)
    BY <1>3, <2>1, FS_Subset
  <2> QED BY <1>2, <2>2 DEF IInv, Typed
<1>5. table' \subseteq rows /\ IsFiniteSet(table') /\ Cardinality(table') <= MaxEntries
  BY <1>1, <1>4, NewestSize
<1> QED BY <1>1, <1>2, <1>4, <1>5

LEMMA RecordScreen == ASSUME IInv, ScreenInv, Record PROVE ScreenInv'
<1> DEFINE new == [id |-> sequence + 1, at |-> now]
<1>1. /\ new \in Rows /\ sequence' = sequence + 1 /\ sequence \in Nat
      /\ table' \subseteq table \cup {new}
      /\ IsFiniteSet(table') /\ Cardinality(table') <= MaxEntries
  BY RecordFacts
<1>2. UNCHANGED <<tasks, posts, shown, seen, erased, orphans>>
  BY DEF Record, screen
<1>3. table' \subseteq Rows /\ \A r \in table' \ table : r.id > sequence
  BY <1>1 DEF IInv, Typed
<1>4. Running("load") => Running("load")'
  BY <1>2 DEF Running
<1> QED BY <1>1, <1>2, <1>3, <1>4, QuietStep

LEMMA QuietScreen ==
    ASSUME IInv, ScreenInv,
           \/ SetClock \/ OnCreate \/ OnResume \/ OnPause \/ TapDelete \/ ConfirmClear \/ DoOrphan
           \/ UNCHANGED vars
    PROVE  ScreenInv'
<1>1. /\ UNCHANGED <<posts, shown, seen, erased, sequence>> /\ table' \subseteq table
      /\ orphans' \subseteq orphans /\ sequence \in Nat
  BY DEF SetClock, OnCreate, OnResume, OnPause, TapDelete, ConfirmClear, DoOrphan, vars, store,
     screen, Without, IInv, Typed
<1>2. Running("load") => Running("load")'
  <2>1. CASE UNCHANGED tasks
    BY <2>1 DEF Running
  <2>2. ASSUME NEW task \in {Load, Clear} \cup {Delete(r) : r \in shown}, Execute(task)
        PROVE  Running("load") => Running("load")'
    BY <2>2, TaskQueued DEF Tasks, IInv, Typed
  <2> QED BY <2>1, <2>2 DEF SetClock, OnCreate, OnResume, OnPause, TapDelete, ConfirmClear, DoOrphan,
         vars, screen
<1> QED BY <1>1, <1>2, TablePart, QuietStep

\* The next list that was posted is shown.
LEMMA RenderScreen == ASSUME IInv, ScreenInv, Render PROVE ScreenInv'
<1>1. /\ posts # <<>> /\ shown' = posts[1] /\ seen' = seen \cup posts[1]
      /\ posts' \in Seq(SUBSET Rows) /\ Len(posts') = Len(posts) - 1 /\ Len(posts) \in Nat \ {0}
      /\ \A i \in 1..Len(posts') : posts'[i] = posts[i + 1]
      /\ UNCHANGED <<now, table, sequence, tasks, erased, orphans>>
  BY QueueFacts, HeadTailProperties DEF Render, store
<1>2. posts[1] \subseteq Rows /\ \A r \in posts[1] : r.id <= sequence
  BY <1>1, QueueFacts
<1>3. Remembered' /\ TableIsBounded' /\ OrphansDelete'
  BY <1>1, <1>2 DEF ScreenInv, Remembered, TableIsBounded, OrphansDelete
<1>4. LastPosted' = LastPosted
  <2>1. posts' = <<>> <=> Len(posts) = 1
    BY <1>1, EmptySeq
  <2>2. CASE Len(posts) = 1
    BY <1>1, <2>1, <2>2 DEF LastPosted
  <2>3. CASE Len(posts) # 1
    <3>1. posts'[Len(posts')] = posts[Len(posts)]
      BY <1>1, <2>3
    <3> QED BY <1>1, <2>1, <2>3, <3>1 DEF LastPosted
  <2> QED BY <2>2, <2>3
<1>5. DeletedLeaves'
  BY <1>1, <1>4 DEF ScreenInv, DeletedLeaves, Running
<1>6. PostedInOrder'
  <2> SUFFICES ASSUME NEW i \in 1..Len(posts'),
                      NEW r \in seen' \cup UNION {posts'[k] : k \in 1..i}, r \notin posts'[i]
               PROVE  r \notin table /\ \A j \in (i + 1)..Len(posts') : r \notin posts'[j]
    BY <1>1 DEF PostedInOrder
  <2>1. i + 1 \in 1..Len(posts) /\ r \notin posts[i + 1]
    BY <1>1
  <2>2. r \in seen \cup UNION {posts[k] : k \in 1..(i + 1)}
    <3>1. CASE r \in seen \/ r \in posts[1]
      BY <1>1, <2>1, <3>1
    <3>2. CASE \E k \in 1..i : r \in posts'[k]
      <4>1. PICK k \in 1..i : r \in posts'[k]
        BY <3>2
      <4>2. k + 1 \in 1..(i + 1) /\ posts'[k] = posts[k + 1]
        BY <1>1
      <4> QED BY <4>1, <4>2
    <3> QED BY <1>1, <3>1, <3>2
  <2>3. r \notin table /\ \A j \in (i + 2)..Len(posts) : r \notin posts[j]
    BY <2>1, <2>2 DEF ScreenInv, PostedInOrder
  <2> QED BY <1>1, <2>3
<1>7. NoReturn'
  <2> SUFFICES ASSUME NEW r \in seen \cup posts[1], r \notin posts[1]
               PROVE  r \notin table /\ \A j \in 1..Len(posts') : r \notin posts'[j]
    <3>1. Range(posts') = {posts'[i] : i \in 1..Len(posts')}
      BY <1>1, LenProperties, Zenon DEF Range
    <3> QED BY <1>1, <3>1 DEF NoReturn
  <2>1. 1 \in 1..Len(posts) /\ r \in seen \cup UNION {posts[k] : k \in 1..1}
    BY <1>1
  <2>2. r \notin table /\ \A j \in 2..Len(posts) : r \notin posts[j]
    BY <2>1 DEF ScreenInv, PostedInOrder
  <2> QED BY <1>1, <2>2
<1> QED BY <1>3, <1>5, <1>6, <1>7 DEF ScreenInv

\* A task ends by posting the table as it then is.
LEMMA PostScreen == ASSUME IInv, ScreenInv, DoLoad \/ DoClear PROVE ScreenInv'
<1>1. Post(table') /\ table' \subseteq table /\ erased' \cap table' = {}
      /\ erased' \subseteq erased \cup table
      /\ UNCHANGED <<sequence, shown, seen, orphans>>
  <2>1. CASE DoLoad
    <3>1. Newest(table) = table
      BY NewestAll DEF IInv, Typed, ScreenInv, TableIsBounded
    <3> QED BY <2>1, <3>1 DEF DoLoad, NewestFirst, store, ScreenInv, Remembered
  <2>2. CASE DoClear
    BY <2>2 DEF DoClear, store
  <2> QED BY <2>1, <2>2
<1>2. /\ posts' \in Seq(SUBSET Rows) /\ Len(posts') = Len(posts) + 1 /\ Len(posts) \in Nat
      /\ \A i \in 1..Len(posts) : posts'[i] = posts[i]
      /\ posts'[Len(posts) + 1] = table'
  <2>1. table' \in SUBSET Rows
    BY <1>1 DEF IInv, Typed
  <2> QED BY <1>1, <2>1, QueueFacts, AppendProperties DEF Post
<1>3. \A r \in table : r \in Rows /\ r.id <= sequence
  BY DEF IInv, Typed, OneRowPerId, Known
<1>4. Remembered'
  BY <1>1, <1>3 DEF ScreenInv, Remembered
<1>5. TableIsBounded' /\ OrphansDelete'
  BY <1>1, TablePart DEF ScreenInv, TableIsBounded, OrphansDelete
<1>6. DeletedLeaves'
  <2>1. posts' # <<>> /\ LastPosted' = table'
    BY <1>2, EmptySeq DEF LastPosted
  <2> QED BY <1>1, <2>1 DEF DeletedLeaves
<1>7. PostedInOrder'
  <2> SUFFICES ASSUME NEW i \in 1..Len(posts'),
                      NEW r \in seen \cup UNION {posts'[k] : k \in 1..i}, r \notin posts'[i]
               PROVE  r \notin table' /\ \A j \in (i + 1)..Len(posts') : r \notin posts'[j]
    BY <1>1 DEF PostedInOrder
  <2>1. CASE i = Len(posts) + 1
    BY <1>2, <2>1
  <2>2. CASE i # Len(posts) + 1
    <3>1. i \in 1..Len(posts) /\ r \notin posts[i]
      BY <1>2, <2>2
    <3>2. r \in seen \cup UNION {posts[k] : k \in 1..i}
      BY <1>2, <3>1
    <3>3. r \notin table /\ \A j \in (i + 1)..Len(posts) : r \notin posts[j]
      BY <3>1, <3>2 DEF ScreenInv, PostedInOrder
    <3> QED BY <1>1, <1>2, <3>1, <3>3
  <2> QED BY <2>1, <2>2
<1>8. NoReturn'
  <2>1. Range(posts') = Range(posts) \cup {table'}
    BY <1>1, QueueFacts, RangeOfAppend DEF Post, IInv, Typed
  <2> QED BY <1>1, <2>1 DEF ScreenInv, NoReturn
<1> QED BY <1>4, <1>5, <1>6, <1>7, <1>8 DEF ScreenInv

LEMMA LoadInFront ==
    ASSUME NEW q \in Seq(Tasks)
    PROVE  <<Load>> \o q # <<>> /\ Head(<<Load>> \o q) = Load
<1> DEFINE p == <<Load>>
<1>1. p \in Seq(Tasks) /\ Len(p) = 1 /\ p[1] = Load
  BY DEF Tasks
<1> HIDE DEF p
<1>2. p \o q \in Seq(Tasks) /\ Len(p \o q) = 1 + Len(q) /\ (p \o q)[1] = Load /\ Len(q) \in Nat
  BY <1>1, ConcatProperties, LenProperties
<1>3. p \o q # <<>>
  <2>1. Len(p \o q) # 0
    BY <1>2
  <2> QED BY ONLY <2>1, EmptySeq
<1> QED BY <1>2, <1>3, HeadTailProperties DEF p

LEMMA DeleteScreen == ASSUME IInv, ScreenInv, DoDelete PROVE ScreenInv'
<1> DEFINE row == Head(tasks).row
<1>1. /\ tasks # <<>> /\ Head(tasks).kind = "delete"
      /\ table' = {r \in table : r.id # row.id} /\ erased' = erased \cup {row}
      /\ tasks' = <<Load>> \o Tail(tasks)
      /\ UNCHANGED <<sequence, posts, shown, seen, orphans>>
  BY DEF DoDelete, Running, Without
<1>2. Head(tasks) \in Range(tasks) /\ Head(tasks) \in Tasks /\ Tail(tasks) \in Seq(Tasks)
  BY <1>1, RangeOfTail DEF IInv, Typed
<1>3. row \in Rows /\ row.id <= sequence
  <2>1. row \in Tapped
    BY <1>1, <1>2 DEF Tapped
  <2>2. row \in Rows
    BY <1>1, <1>2 DEF Tasks, Load, Clear, Delete
  <2> QED BY <2>1, <2>2 DEF IInv, OneRowPerId, Known
<1>4. Running("load")'
  <2>1. tasks' # <<>> /\ Head(tasks') = Load
    BY <1>1, <1>2, LoadInFront, Zenon
  <2> QED BY <2>1 DEF Running, Load
<1>5. Remembered'
  BY <1>1, <1>3 DEF ScreenInv, Remembered
<1>6. TableIsBounded' /\ OrphansDelete' /\ DeletedLeaves'
  BY <1>1, <1>4, TablePart DEF ScreenInv, TableIsBounded, OrphansDelete, DeletedLeaves
<1>7. PostedInOrder' /\ NoReturn'
  BY <1>1 DEF ScreenInv, PostedInOrder, NoReturn
<1> QED BY <1>5, <1>6, <1>7 DEF ScreenInv

\* A destroyed activity shows nothing; its task that runs is not a load.
LEMMA EndScreen == ASSUME IInv, ScreenInv, OnDestroy \/ ProcessDies PROVE ScreenInv'
<1>1. /\ tasks' = <<>> /\ posts' = <<>> /\ shown' = {} /\ seen' = {} /\ erased' = {}
      /\ UNCHANGED <<table, sequence>>
      /\ Load \notin orphans'
  BY DEF OnDestroy, ProcessDies, EndActivity, store, ScreenInv, OrphansDelete
<1>2. Remembered' /\ TableIsBounded' /\ OrphansDelete' /\ DeletedLeaves' /\ NoReturn'
  BY <1>1 DEF ScreenInv, Remembered, TableIsBounded, OrphansDelete, DeletedLeaves, LastPosted,
     NoReturn
<1>3. PostedInOrder'
  BY <1>1, EmptySeq DEF PostedInOrder
<1> QED BY <1>2, <1>3 DEF ScreenInv

\* The lists on their way to the screen follow the table, whatever the
\* activities, the executor and process death do.
THEOREM ScreenInvariance == Spec => []ScreenInv
<1>1. Init => ScreenInv
  <2> SUFFICES ASSUME Init PROVE ScreenInv
    OBVIOUS
  <2>1. IsFiniteSet(table) /\ Cardinality(table) = 0
    BY FS_EmptySet DEF Init
  <2>2. Remembered /\ TableIsBounded /\ OrphansDelete /\ DeletedLeaves /\ NoReturn
    BY <2>1, ConstantsOK DEF Init, NoActivity, Remembered, TableIsBounded, OrphansDelete,
       DeletedLeaves, LastPosted, NoReturn
  <2>3. PostedInOrder
    BY EmptySeq DEF Init, NoActivity, PostedInOrder
  <2> QED BY <2>2, <2>3 DEF ScreenInv
<1>2. IInv /\ ScreenInv /\ [Next]_vars => ScreenInv'
  BY RecordScreen, QuietScreen, RenderScreen, PostScreen, DeleteScreen, EndScreen DEF Next
<1> QED BY <1>1, <1>2, Invariance, PTL DEF Spec

\* Once everything the activity started is done, no row it deleted is shown.
THEOREM DeletedStaysAway == Spec => []DeletedNotShown
<1>1. ScreenInv => DeletedNotShown
  BY DEF ScreenInv, DeletedLeaves, LastPosted, Running, DeletedNotShown
<1> QED BY <1>1, ScreenInvariance, PTL

\* A row that the activity ceased to show never comes back to it: no load
\* that was posted late shows an older table.
THEOREM GoneStaysGone == Spec => []NoReturn
<1>1. ScreenInv => NoReturn
  BY DEF ScreenInv
<1> QED BY <1>1, ScreenInvariance, PTL

------------------------- (* What leaves the table *) ----------------------

\* What a task deletes, the user asked for.
LEMMA TasksAreAsked ==
    ASSUME IInv, ScreenInv, DoDelete \/ DoClear \/ DoOrphan, NEW r \in table \ table'
    PROVE  Asked(r)
<1>1. CASE DoDelete
  <2>1. /\ tasks # <<>> /\ Head(tasks).kind = "delete" /\ r.id = Head(tasks).row.id
        /\ tasks' = <<Load>> \o Tail(tasks)
    BY <1>1 DEF DoDelete, Running, Without
  <2>2. Head(tasks) \in Range(tasks) /\ Head(tasks) \in Tasks /\ Tail(tasks) \in Seq(Tasks)
    BY <2>1, RangeOfTail DEF IInv, Typed
  <2>3. Head(tasks).row = r
    BY <2>1, <2>2 DEF IInv, OneRowPerId, Known, Tapped
  <2>4. Head(tasks) = Delete(r)
    BY <2>1, <2>2, <2>3 DEF Tasks, Load, Clear, Delete
  <2>5. Head(tasks') = Load
    BY <2>1, <2>2, LoadInFront, Zenon
  <2>6. tasks' # tasks
    BY <2>1, <2>5 DEF Load
  <2> QED BY <2>1, <2>4, <2>6 DEF Asked
<1>2. CASE DoClear
  <2>1. tasks # <<>> /\ Head(tasks).kind = "clear" /\ tasks' = Tail(tasks)
    BY <1>2 DEF DoClear, Running
  <2>2. Head(tasks) \in Tasks /\ tasks \in Seq(Tasks) /\ Len(tasks) \in Nat \ {0}
        /\ Len(Tail(tasks)) = Len(tasks) - 1
    BY <2>1, RangeOfTail, HeadTailProperties, EmptySeq DEF IInv, Typed
  <2>3. Head(tasks) = Clear
    BY <2>1, <2>2 DEF Tasks, Load, Clear, Delete
  <2>4. tasks' # tasks
    <3> DEFINE rest == Tail(tasks)
    <3>1. Len(rest) = Len(tasks) - 1 /\ Len(tasks) \in Nat /\ tasks' = rest
      BY <2>1, <2>2
    <3> HIDE DEF rest
    <3> QED BY <3>1
  <2> QED BY <2>1, <2>3, <2>4 DEF Asked
<1>3. CASE DoOrphan
  <2>1. PICK task \in orphans : /\ table' = IF task = Clear THEN {} ELSE Without(task.row)
                                /\ orphans' = orphans \ {task}
    BY <1>3 DEF DoOrphan
  <2>2. task \in Tasks /\ task # Load /\ orphans \ orphans' = {task}
    BY <2>1 DEF IInv, Typed, ScreenInv, OrphansDelete
  <2>3. CASE task = Clear
    BY <2>2, <2>3 DEF Asked
  <2>4. CASE task # Clear
    <3>1. PICK row \in Rows : task = Delete(row)
      BY <2>2, <2>4 DEF Tasks
    <3>2. r.id = row.id /\ row \in Tapped
      BY <2>1, <2>4, <3>1 DEF Without, Delete, Tapped
    <3>3. row = r
      BY <3>2 DEF IInv, OneRowPerId, Known
    <3> QED BY <2>2, <3>1, <3>3 DEF Asked
  <2> QED BY <2>3, <2>4
<1> QED BY <1>1, <1>2, <1>3

\* A row leaves the table because the user asked for it, because it is too
\* old, or because so many newer ones stay.
THEOREM LeavesOnlyForAReason == Spec => LeavesForAReason
<1> DEFINE Reason(r) == \/ Asked(r)
                        \/ r.at + Retention < now
                        \/ Cardinality({s \in table' : Ahead(s, r)}) >= MaxEntries
<1>1. IInv /\ ScreenInv /\ [Next]_vars => [\A r \in table \ table' : Reason(r)]_vars
  <2> SUFFICES ASSUME IInv, ScreenInv, [Next]_vars, NEW r \in table \ table'
               PROVE  Reason(r)
    OBVIOUS
  <2>1. CASE Record
    <3> DEFINE rows == {s \in table \cup {[id |-> sequence + 1, at |-> now]} : s.at + Retention >= now}
    <3>1. /\ rows \in SUBSET Rows /\ IsFiniteSet(rows) /\ now \in Nat
          /\ table' = Newest(rows)
      BY <2>1, RecordFacts
    <3>2. r.at \in Nat /\ Retention \in Nat
      BY ConstantsOK DEF IInv, Typed, Rows
    <3>3. CASE r \in rows
      <4>1. r \in rows \ Newest(rows)
        BY <3>1, <3>3
      <4> HIDE DEF rows
      <4>2. Cardinality({s \in Newest(rows) : Ahead(s, r)}) >= MaxEntries
        BY <3>1, <4>1, NewestRest
      <4> QED BY <3>1, <4>2
    <3>4. CASE r \notin rows
      BY <3>1, <3>2, <3>4
    <3> QED BY <3>3, <3>4
  <2>2. CASE DoDelete \/ DoClear \/ DoOrphan
    BY <2>2, TasksAreAsked
  <2>3. ~(UNCHANGED table)
    OBVIOUS
  <2> QED BY <2>1, <2>2, <2>3 DEF Next, SetClock, ProcessDies, OnCreate, OnResume, OnPause, OnDestroy,
         TapDelete, ConfirmClear, Render, DoLoad, vars, store
<1> QED BY <1>1, Invariance, ScreenInvariance, PTL DEF Spec, LeavesForAReason

\* What was just recognized is in the history, unless the clock was set back
\* behind what is recorded there.
THEOREM RecognizedStays == Spec => RecognizedIsKept
<1>1. IInv /\ ScreenInv /\ [Next]_vars =>
         [sequence' > sequence /\ (\A r \in table : r.at <= now)
             => [id |-> sequence', at |-> now] \in table']_vars
  <2> SUFFICES ASSUME IInv, ScreenInv, [Next]_vars, sequence' > sequence,
                      \A r \in table : r.at <= now
               PROVE  [id |-> sequence', at |-> now] \in table'
    OBVIOUS
  <2>1. Record
    <3>1. sequence' # sequence
      BY DEF IInv, Typed
    <3> QED BY <3>1 DEF Next, SetClock, ProcessDies, OnCreate, OnResume, OnPause, OnDestroy, TapDelete,
           ConfirmClear, Render, DoLoad, DoDelete, DoClear, DoOrphan, vars, store
  <2> DEFINE new == [id |-> sequence + 1, at |-> now]
             rows == {r \in table \cup {new} : r.at + Retention >= now}
  <2>2. /\ new \in Rows /\ sequence' = sequence + 1 /\ sequence \in Nat /\ now \in Nat
        /\ table' = Newest(rows)
    BY <2>1, RecordFacts
  <2>3. new \in rows
    BY <2>2, ConstantsOK
  <2>4. {s \in rows : Ahead(s, new)} = {}
    <3> SUFFICES ASSUME NEW s \in rows, Ahead(s, new) PROVE FALSE
      OBVIOUS
    <3>1. s # new
      BY <2>2 DEF Ahead, Rows
    <3>2. s \in table /\ s.id <= sequence /\ s.at <= now /\ s.id \in Nat /\ s.at \in Nat
      BY <3>1, ConstantsOK DEF IInv, Typed, OneRowPerId, Known, Rows
    <3> QED BY <2>2, <3>2 DEF Ahead
  <2>5. new \in Newest(rows)
    BY <2>3, <2>4, FS_EmptySet, ConstantsOK DEF Newest
  <2> QED BY <2>2, <2>5
<1> QED BY <1>1, Invariance, ScreenInvariance, PTL DEF Spec, RecognizedIsKept

------------------------------ (* The bounds *) ----------------------------

Stage == life \in {"none", "paused", "resumed"}
Fits == sequence <= IdBound /\ Len(tasks) <= TaskBound /\ Len(posts) <= PostBound

\* The table has at most MaxEntries rows, each with a key of its own, and
\* nothing exceeds the bounds of the model.
THEOREM TypesHold == Spec => []TypeOK
<1>1. Init => Fits
  BY EmptySeq, ConstantsOK DEF Init, NoActivity, Fits
<1>2. IInv /\ Fits /\ [Next]_vars => Fits'
  <2> SUFFICES ASSUME IInv, Fits, [Next]_vars PROVE Fits'
    OBVIOUS
  <2>1. /\ tasks \in Seq(Tasks) /\ posts \in Seq(SUBSET Rows)
        /\ Len(tasks) \in Nat /\ Len(posts) \in Nat
        /\ {TaskBound, PostBound, IdBound} \subseteq Nat /\ sequence \in Nat
    BY LenProperties, ConstantsOK DEF IInv, Typed
  <2>2. /\ tasks # <<>> => Len(Tail(tasks)) = Len(tasks) - 1 /\ Tail(tasks) \in Seq(Tasks)
        /\ posts # <<>> => Len(Tail(posts)) = Len(posts) - 1
    BY <2>1, HeadTailProperties
  <2>3. \A s \in Seq(Tasks), t \in Tasks : Len(Append(s, t)) = Len(s) + 1
    BY AppendProperties
  <2>4. \A s \in Seq(SUBSET Rows), rows \in SUBSET Rows : Len(Append(s, rows)) = Len(s) + 1
    BY AppendProperties
  <2>5. CASE Record \/ SetClock \/ OnCreate \/ OnPause \/ DoOrphan \/ UNCHANGED vars
    BY <2>1, <2>5 DEF Record, NextId, SetClock, OnCreate, OnPause, DoOrphan, vars, store, screen, Fits
  <2>6. CASE ProcessDies \/ OnDestroy
    BY <2>1, <2>6, EmptySeq DEF ProcessDies, OnDestroy, EndActivity, store, Fits
  <2>7. CASE OnResume \/ TapDelete \/ ConfirmClear
    <3>1. PICK task \in Tasks : Execute(task)
      BY <2>7 DEF OnResume, TapDelete, ConfirmClear, Tasks, IInv, Typed
    <3>2. UNCHANGED <<sequence, posts>>
      BY <2>7 DEF OnResume, TapDelete, ConfirmClear, store
    <3> QED BY <2>1, <2>3, <3>1, <3>2 DEF Execute, Fits
  <2>8. CASE Render
    BY <2>1, <2>2, <2>8 DEF Render, store, Fits
  <2>9. CASE DoLoad \/ DoClear
    <3>1. PICK rows \in SUBSET Rows : Post(rows)
      BY <2>9 DEF DoLoad, DoClear, NewestFirst, Newest, IInv, Typed
    <3>2. tasks # <<>> /\ tasks' = Tail(tasks) /\ UNCHANGED sequence
      BY <2>9 DEF DoLoad, DoClear, Running, store
    <3> QED BY <2>1, <2>2, <2>4, <3>1, <3>2 DEF Post, Fits
  <2>10. CASE DoDelete
    <3>1. \A s \in Seq(Tasks) : Len(<<Load>> \o s) = 1 + Len(s)
      BY ConcatProperties DEF Tasks
    <3>2. tasks # <<>> /\ tasks' = <<Load>> \o Tail(tasks) /\ UNCHANGED <<sequence, posts>>
      BY <2>10 DEF DoDelete, Running
    <3> QED BY <2>1, <2>2, <3>1, <3>2 DEF Fits
  <2> QED BY <2>5, <2>6, <2>7, <2>8, <2>9, <2>10 DEF Next
<1>3. Init => Stage
  BY DEF Init, NoActivity, Stage
<1>4. Stage /\ [Next]_vars => Stage'
  BY DEF Stage, Next, Record, SetClock, ProcessDies, OnCreate, OnResume, OnPause, OnDestroy, EndActivity,
     TapDelete, ConfirmClear, Render, DoLoad, DoDelete, DoClear, DoOrphan, vars, store, screen
<1>5. IInv /\ ScreenInv /\ Fits /\ Stage => TypeOK
  <2> SUFFICES ASSUME IInv, ScreenInv, Fits, Stage PROVE TypeOK
    OBVIOUS
  <2>1. sequence \in 0..IdBound
    BY ConstantsOK DEF IInv, Typed, Fits
  <2>2. Range(tasks) \subseteq Tasks /\ UNION Range(posts) \subseteq Rows
    BY QueueFacts, LenProperties, ElementOfSeq DEF IInv, Typed, Range
  <2>3. \A r, s \in table : r.id = s.id => r = s
    BY DEF IInv, OneRowPerId, Known
  <2> QED BY <2>1, <2>2, <2>3 DEF TypeOK, IInv, Typed, ScreenInv, Remembered, TableIsBounded, Fits, Stage
<1> QED BY <1>1, <1>2, <1>3, <1>4, <1>5, Invariance, ScreenInvariance, PTL DEF Spec

=============================================================================

------------------------- MODULE DecodedCacheProofs -------------------------
(***************************************************************************)
(* The bookkeeping of the decoded cache, for any number of threads, any    *)
(* keys with any charges, and any limit.                                   *)
(*                                                                         *)
(* A thread that is making room decided so in two steps: its key fits the  *)
(* limit alone (found in insert's first section) and is not cached (found  *)
(* in the second, whose mutex it still holds).  Without these two facts    *)
(* neither the counter nor the recency index would be kept by Store.       *)
(***************************************************************************)
EXTENDS DecodedCache, TLAPS

Inserting ==
    /\ \A t \in Threads :
          at[t] \in {"inserting", "evicting"} => Charge[want[t]] <= Limit
    /\ \A t \in Threads : at[t] = "evicting" => want[t] \notin cached

\* The clock of an entry is the time of its last use.
Recency == \A k \in cached : lastUse[k] = touched[k]

IInv == TypeOK /\ Inserting /\ Recency /\ LruAgrees /\ Accounted /\ WithinLimit

-----------------------------------------------------------------------------
\* Taking a key out of a set takes its charge out of the total.
LEMMA TotalWithout ==
    ASSUME NEW S \in SUBSET Keys, NEW k \in S
    PROVE  /\ Total[S] \in Nat /\ Charge[k] \in Nat
           /\ Total[S \ {k}] \in Nat
           /\ Total[S \ {k}] = Total[S] - Charge[k]
<1>1. /\ S \ {k} \in SUBSET Keys
      /\ k \in Keys /\ k \notin S \ {k}
      /\ (S \ {k}) \cup {k} = S
  OBVIOUS
<1>2. Total[(S \ {k}) \cup {k}] = Total[S \ {k}] + Charge[k]
  BY <1>1, ConstantsOK
<1>3. Total[S] = Total[S \ {k}] + Charge[k]
  BY <1>1, <1>2
<1>4. /\ Total[S] \in Nat /\ Total[S \ {k}] \in Nat
      /\ Charge[k] \in Nat
  BY <1>1, ConstantsOK
<1>. QED
  BY <1>3, <1>4

LEMMA TotalWith ==
    ASSUME NEW S \in SUBSET Keys, NEW k \in Keys, k \notin S
    PROVE  /\ Total[S] \in Nat /\ Charge[k] \in Nat
           /\ Total[S \cup {k}] = Total[S] + Charge[k]
BY ConstantsOK

\* A hit moves one entry to the front of the index, and nothing else.
LEMMA HitKeeps ==
    ASSUME IInv, NEW k \in Keys, Hit(k)
    PROVE  /\ LruAgrees' /\ Recency'
           /\ cached' = cached /\ used' = used
           /\ lru' \subseteq Nat \X Keys /\ clock' \in Nat
           /\ touched' \in [Keys -> Nat] /\ lastUse' \in [Keys -> Nat]
           /\ value' = value
<1>. USE DEF IInv, TypeOK, Hit, entries
<1>1. \A l \in cached \ {k} : touched'[l] = touched[l] /\ touched[l] < clock + 1
  BY DEF LruAgrees
<1>2. touched'[k] = clock + 1 /\ k \in cached
  OBVIOUS
<1>3. lru' = {<<touched'[l], l>> : l \in cached}
  <2>1. ASSUME NEW l \in cached
        PROVE  <<touched'[l], l>> \in lru'
    <3>1. CASE l = k
      BY <1>2, <3>1
    <3>2. CASE l # k
      BY <1>1, <3>2 DEF LruAgrees
    <3>. QED
      BY <3>1, <3>2
  <2>2. ASSUME NEW p \in lru'
        PROVE  p \in {<<touched'[l], l>> : l \in cached}
    <3>1. CASE p = <<clock + 1, k>>
      BY <1>2, <3>1
    <3>2. CASE p \in lru \ {<<touched[k], k>>}
      <4>1. PICK l \in cached : p = <<touched[l], l>>
        BY <3>2 DEF LruAgrees
      <4>2. l # k
        BY <3>2, <4>1
      <4>. QED
        BY <1>1, <4>1, <4>2
    <3>. QED
      BY <3>1, <3>2
  <2>. QED
    BY <2>1, <2>2
<1>4. LruAgrees'
  BY <1>1, <1>2, <1>3 DEF LruAgrees
<1>. QED
  BY <1>1, <1>2, <1>4 DEF Recency, LruAgrees

LEMMA MissKeeps ==
    ASSUME IInv, NEW k \in Keys, Miss(k)
    PROVE  /\ LruAgrees' /\ Recency'
           /\ UNCHANGED <<entries, lru, used, lastUse>>
           /\ clock' \in Nat
BY DEF IInv, TypeOK, Miss, entries, LruAgrees, Recency

-----------------------------------------------------------------------------
\* Making room removes the entry the index names first, and its charge.
LEMMA EvictKeeps ==
    ASSUME IInv, NEW t \in Threads, Evict(t)
    PROVE  IInv'
<1>. USE DEF IInv, TypeOK
<1>1. PICK oldest \in lru :
          LET k == oldest[2]
          IN /\ \A other \in lru : oldest[1] <= other[1]
             /\ lru' = lru \ {oldest}
             /\ cached' = cached \ {k}
             /\ value' = [value EXCEPT ![k] = "none"]
             /\ touched' = [touched EXCEPT ![k] = 0]
             /\ used' = IF k \notin cached THEN used
                        ELSE IF used < Charge[k] THEN 0 ELSE used - Charge[k]
  BY DEF Evict
<1>2. PICK k \in cached : oldest = <<touched[k], k>>
  BY <1>1 DEF LruAgrees
<1>3. /\ lru' = lru \ {<<touched[k], k>>}
      /\ cached' = cached \ {k}
      /\ value' = [value EXCEPT ![k] = "none"]
      /\ touched' = [touched EXCEPT ![k] = 0]
      /\ used' = IF used < Charge[k] THEN 0 ELSE used - Charge[k]
      /\ UNCHANGED <<clock, mutex, at, want, lastUse>>
  BY <1>1, <1>2 DEF Evict
<1>4. /\ Total[cached] \in Nat /\ Charge[k] \in Nat
      /\ Total[cached \ {k}] \in Nat
      /\ Total[cached \ {k}] = Total[cached] - Charge[k]
  BY TotalWithout
<1>5. Accounted' /\ WithinLimit'
  BY <1>3, <1>4, ConstantsOK DEF Accounted, WithinLimit
<1>6. TypeOK'
  BY <1>3, <1>4 DEF Accounted
<1>7. Inserting' /\ Recency'
  BY <1>3 DEF Inserting, Recency
<1>8. \A l \in cached' : touched'[l] = touched[l]
  BY <1>3
<1>9. lru' = {<<touched'[l], l>> : l \in cached'}
  BY <1>3, <1>8 DEF LruAgrees
<1>10. LruAgrees'
  BY <1>3, <1>8, <1>9 DEF LruAgrees
<1>. QED
  BY <1>5, <1>6, <1>7, <1>10

\* A store adds one entry that fits, younger than every other.
LEMMA StoreKeeps ==
    ASSUME IInv, NEW t \in Threads, Store(t)
    PROVE  IInv'
<1>. DEFINE k == want[t]
<1>. USE DEF IInv, TypeOK
<1>1. /\ k \in Keys /\ k \notin cached /\ Charge[k] <= Limit
      /\ at[t] = "evicting"
  BY DEF Store, Inserting
<1>2. /\ Total[cached] \in Nat /\ Charge[k] \in Nat
      /\ Total[cached \cup {k}] = Total[cached] + Charge[k]
  BY <1>1, TotalWith
<1>3. used + Charge[k] <= Limit
  <2>1. CASE ~NoRoom(t)
    BY <1>1, <1>2, <2>1, ConstantsOK DEF NoRoom, Accounted
  <2>2. CASE NoRoom(t)
    <3>1. lru = {}
      BY <2>2 DEF Store
    <3>2. cached = {}
      <4>1. ASSUME NEW l \in cached
            PROVE  <<touched[l], l>> \in lru
        BY DEF LruAgrees
      <4>. QED
        BY <3>1, <4>1
    <3>. QED
      BY <1>1, <1>2, <3>2, ConstantsOK DEF Accounted
  <2>. QED
    BY <2>1, <2>2
<1>4. /\ clock' = clock + 1
      /\ cached' = cached \cup {k}
      /\ value' = [value EXCEPT ![k] = t]
      /\ touched' = [touched EXCEPT ![k] = clock + 1]
      /\ lastUse' = [lastUse EXCEPT ![k] = clock + 1]
      /\ lru' = lru \cup {<<clock + 1, k>>}
      /\ used' = used + Charge[k]
      /\ mutex' = "none" /\ at' = [at EXCEPT ![t] = "idle"]
      /\ want' = want
  BY DEF Store, Go
<1>5. Accounted' /\ WithinLimit'
  BY <1>2, <1>3, <1>4 DEF Accounted, WithinLimit
<1>6. TypeOK'
  <2>1. \A u \in Threads : at'[u] = "evicting" <=> mutex' = u
    BY <1>4, ConstantsOK DEF Store
  <2>. QED
    BY <1>1, <1>2, <1>4, <2>1 DEF Steps
<1>7. Inserting'
  BY <1>4, ConstantsOK DEF Inserting, Store
<1>8. /\ \A l \in cached : touched'[l] = touched[l] /\ touched[l] < clock + 1
      /\ touched'[k] = clock + 1
  BY <1>1, <1>4 DEF LruAgrees
<1>9. Recency'
  BY <1>1, <1>4, <1>8 DEF Recency
<1>10. lru' = {<<touched'[l], l>> : l \in cached'}
  BY <1>4, <1>8 DEF LruAgrees
<1>11. LruAgrees'
  BY <1>4, <1>8, <1>10 DEF LruAgrees
<1>. QED
  BY <1>5, <1>6, <1>7, <1>9, <1>11

LEMMA InitEstablishes == Init => IInv
<1>. SUFFICES ASSUME Init PROVE IInv
  OBVIOUS
<1>1. TypeOK
  BY ConstantsOK DEF Init, TypeOK, Steps
<1>2. Inserting /\ Recency
  BY DEF Init, Inserting, Recency
<1>3. LruAgrees
  BY DEF Init, LruAgrees
<1>4. Accounted /\ WithinLimit
  BY ConstantsOK DEF Init, Accounted, WithinLimit
<1>. QED
  BY <1>1, <1>2, <1>3, <1>4 DEF IInv

LEMMA Step == IInv /\ [Next]_vars => IInv'
<1>. SUFFICES ASSUME IInv, [Next]_vars PROVE IInv'
  OBVIOUS
<1>. USE DEF IInv
<1>1. ASSUME NEW t \in Threads, NEW k \in Keys, Lookup(t, k)
      PROVE  IInv'
  <2>1. CASE Hit(k) /\ UNCHANGED at
    <3>1. Inserting'
      BY <1>1, <2>1, HitKeeps DEF Lookup, Inserting, TypeOK
    <3>2. TypeOK'
      BY <1>1, <2>1, HitKeeps DEF Lookup, TypeOK
    <3>3. Accounted' /\ WithinLimit'
      BY <2>1, HitKeeps DEF Accounted, WithinLimit
    <3>. QED
      BY <2>1, <3>1, <3>2, <3>3, HitKeeps
  <2>2. CASE Miss(k) /\ Go(t, "decoding")
    <3>1. Inserting'
      BY <1>1, <2>2, MissKeeps DEF Lookup, Inserting, TypeOK, Go, entries
    <3>2. TypeOK'
      BY <1>1, <2>2, MissKeeps, ConstantsOK DEF Lookup, TypeOK, Go, entries, Free, Steps
    <3>3. Accounted' /\ WithinLimit'
      BY <2>2, MissKeeps DEF Accounted, WithinLimit, entries
    <3>. QED
      BY <2>2, <3>1, <3>2, <3>3, MissKeeps
  <2>. QED
    BY <1>1, <2>1, <2>2 DEF Lookup
<1>2. ASSUME NEW t \in Threads, DecodeFails(t)
      PROVE  IInv'
  <2>1. /\ UNCHANGED <<cached, value, touched, lru, used, clock, mutex, want, lastUse>>
        /\ at' = [at EXCEPT ![t] = "idle"] /\ at[t] = "decoding"
    BY <1>2 DEF DecodeFails, Go, state
  <2>2. TypeOK' /\ Inserting'
    BY <2>1 DEF TypeOK, Inserting, Steps
  <2>. QED
    BY <2>1, <2>2 DEF Recency, LruAgrees, Accounted, WithinLimit
<1>3. ASSUME NEW t \in Threads, LookAgain(t)
      PROVE  IInv'
  <2>1. want[t] \in Keys
    BY DEF TypeOK
  <2>2. CASE Hit(want[t]) /\ Go(t, "idle")
    <3>1. Inserting'
      BY <1>3, <2>1, <2>2, HitKeeps DEF LookAgain, Inserting, TypeOK, Go
    <3>2. TypeOK'
      BY <1>3, <2>1, <2>2, HitKeeps, ConstantsOK DEF LookAgain, TypeOK, Go, Free, Steps
    <3>3. Accounted' /\ WithinLimit'
      BY <2>1, <2>2, HitKeeps DEF Accounted, WithinLimit
    <3>. QED
      BY <2>1, <2>2, <3>1, <3>2, <3>3, HitKeeps
  <2>3. CASE /\ Miss(want[t])
             /\ Go(t, IF Charge[want[t]] > Limit THEN "idle" ELSE "inserting")
    <3>1. Inserting'
      BY <1>3, <2>1, <2>3, MissKeeps, ConstantsOK DEF LookAgain, Inserting, TypeOK, Go, entries
    <3>2. TypeOK'
      BY <1>3, <2>1, <2>3, MissKeeps, ConstantsOK DEF LookAgain, TypeOK, Go, entries, Free, Steps
    <3>3. Accounted' /\ WithinLimit'
      BY <2>1, <2>3, MissKeeps DEF Accounted, WithinLimit, entries
    <3>. QED
      BY <2>1, <2>3, <3>1, <3>2, <3>3, MissKeeps
  <2>. QED
    BY <1>3, <2>2, <2>3 DEF LookAgain
<1>4. ASSUME NEW t \in Threads, Enter(t)
      PROVE  IInv'
  <2>1. UNCHANGED <<cached, value, touched, lru, used, clock, want, lastUse>>
    BY <1>4 DEF Enter, state
  <2>2. TypeOK' /\ Inserting'
    <3>1. CASE want[t] \in cached
      BY <1>4, <2>1, <3>1 DEF Enter, Go, TypeOK, Inserting, Steps
    <3>2. CASE want[t] \notin cached
      BY <1>4, <2>1, <3>2, ConstantsOK DEF Enter, Go, TypeOK, Inserting, Steps, Free
    <3>. QED
      BY <3>1, <3>2
  <2>. QED
    BY <2>1, <2>2 DEF Recency, LruAgrees, Accounted, WithinLimit
<1>5. ASSUME NEW t \in Threads, Evict(t)
      PROVE  IInv'
  BY <1>5, EvictKeeps
<1>6. ASSUME NEW t \in Threads, Store(t)
      PROVE  IInv'
  BY <1>6, StoreKeeps
<1>7. CASE UNCHANGED vars
  BY <1>7 DEF vars, TypeOK, Inserting, Recency, LruAgrees, Accounted, WithinLimit
<1>. QED
  BY <1>1, <1>2, <1>3, <1>4, <1>5, <1>6, <1>7 DEF Next, Rest

\* The inductive invariant of the cache.
THEOREM Invariance == Spec => []IInv
<1>. QED
  BY InitEstablishes, Step, PTL DEF Spec

\* The counter of DecodedCache is what its entries are charged with.
THEOREM AccountedFor == Spec => []Accounted
<1>1. IInv => Accounted
  BY DEF IInv
<1>. QED
  BY <1>1, Invariance, PTL

\* What the cache holds never exceeds its limit.
THEOREM Limited == Spec => []WithinLimit
<1>1. IInv => WithinLimit
  BY DEF IInv
<1>. QED
  BY <1>1, Invariance, PTL

\* The recency index and the entries agree.
THEOREM IndexAgrees == Spec => []LruAgrees
<1>1. IInv => LruAgrees
  BY DEF IInv
<1>. QED
  BY <1>1, Invariance, PTL

\* Eviction takes the entry that was used longest ago.
THEOREM EvictsOldest == Spec => OldestFirst
<1>. DEFINE Older == \A k \in cached \ cached' : \A l \in cached : lastUse[k] <= lastUse[l]
<1>1. IInv /\ [Next]_vars => [Older]_vars
  <2>. SUFFICES ASSUME IInv, Next, NEW k \in cached \ cached', NEW l \in cached
                PROVE  lastUse[k] <= lastUse[l]
    OBVIOUS
  <2>1. PICK t \in Threads : Evict(t)
    BY DEF Next, Lookup, Hit, Miss, DecodeFails, LookAgain, Enter, Store, Rest,
           vars, state, entries
  <2>2. PICK oldest \in lru : /\ \A other \in lru : oldest[1] <= other[1]
                              /\ cached' = cached \ {oldest[2]}
    BY <2>1 DEF Evict
  <2>3. <<touched[k], k>> \in lru /\ <<touched[l], l>> \in lru /\ oldest[2] = k
    BY <2>2 DEF IInv, LruAgrees
  <2>4. oldest = <<touched[k], k>>
    BY <2>2, <2>3 DEF IInv, LruAgrees
  <2>5. touched[k] <= touched[l]
    BY <2>2, <2>3, <2>4
  <2>. QED
    BY <2>5 DEF IInv, Recency
<1>. QED
  BY <1>1, Invariance, PTL DEF Spec, OldestFirst

\* While an entry stays, every thread shares the value it was stored with.
THEOREM ValuesStay == Spec => ValueStays
<1>. DEFINE Same == \A k \in cached \cap cached' : value'[k] = value[k]
<1>1. IInv /\ [Next]_vars => [Same]_vars
  <2>. SUFFICES ASSUME IInv, Next, NEW k \in cached \cap cached'
                PROVE  value'[k] = value[k]
    OBVIOUS
  <2>1. ASSUME NEW t \in Threads, Store(t)
        PROVE  value'[k] = value[k]
    <3>1. want[t] \notin cached
      BY <2>1 DEF Store, IInv, TypeOK, Inserting
    <3>. QED
      BY <2>1, <3>1 DEF Store, IInv, TypeOK
  <2>2. ASSUME NEW t \in Threads, Evict(t)
        PROVE  value'[k] = value[k]
    BY <2>2 DEF Evict, IInv, TypeOK
  <2>3. CASE value' = value
    BY <2>3
  <2>. QED
    BY <2>1, <2>2, <2>3 DEF Next, Lookup, Hit, Miss, DecodeFails, LookAgain, Enter,
       Rest, vars, state, entries
<1>. QED
  BY <1>1, Invariance, PTL DEF Spec, ValueStays

=============================================================================

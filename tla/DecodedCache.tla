---------------------------- MODULE DecodedCache ----------------------------
(***************************************************************************)
(* The cache of decoded blocks and records that the search threads of one  *)
(* ShardSet share.  A lookup that misses decodes outside the mutex and     *)
(* then inserts, which takes the mutex twice: other threads may decode and *)
(* insert the same key, or evict it again, in between.                     *)
(***************************************************************************)
EXTENDS Naturals

CONSTANTS
    Threads,    \* a lookup inside another one counts as a thread of its own
    Keys,       \* the blocks, leaves, partitions and codes of the tables
    Charge,     \* the bytes a key's decoded value is charged with
    Total,      \* the charges of a set of keys together
    Limit,      \* the limit of the cache
    ClockBound  \* lookups begin up to this clock (the code's has 64 bits)

ASSUME ConstantsOK ==
    /\ "none" \notin Threads
    /\ Charge \in [Keys -> Nat] /\ Limit \in Nat /\ ClockBound \in Nat
    /\ Total \in [SUBSET Keys -> Nat] /\ Total[{}] = 0
    /\ \A S \in SUBSET Keys, k \in Keys :
          k \notin S => Total[S \cup {k}] = Total[S] + Charge[k]

VARIABLES
    cached,     \* the keys of `entries`
    value,      \* whose decoding an entry shares
    touched,    \* the clock an entry was last touched at
    lru,        \* pairs of a clock and a key
    used, clock,
    mutex,      \* the thread that is inside insert's second section
    at, want,   \* where each thread is, and the key it looks up
    lastUse     \* history: the clock a key was last returned or stored at

entries == <<cached, value, touched>>
state == <<cached, value, touched, lru, used, clock>>
vars == <<cached, value, touched, lru, used, clock, mutex, at, want, lastUse>>

Steps == {"idle", "decoding", "inserting", "evicting"}

\* The types of the variables; whoever makes room holds the mutex.
TypeOK ==
    /\ cached \subseteq Keys
    /\ value \in [Keys -> Threads \cup {"none"}]
    /\ touched \in [Keys -> Nat] /\ lastUse \in [Keys -> Nat]
    /\ lru \subseteq Nat \X Keys
    /\ used \in Nat /\ clock \in Nat
    /\ mutex \in Threads \cup {"none"}
    /\ at \in [Threads -> Steps] /\ want \in [Threads -> Keys]
    /\ \A t \in Threads : at[t] = "evicting" <=> mutex = t

Init ==
    /\ cached = {} /\ value = [k \in Keys |-> "none"]
    /\ touched = [k \in Keys |-> 0] /\ lastUse = [k \in Keys |-> 0]
    /\ lru = {} /\ used = 0 /\ clock = 0
    /\ mutex = "none"
    /\ at = [t \in Threads |-> "idle"] /\ want \in [Threads -> Keys]

Free == mutex = "none"
Go(t, step) == at' = [at EXCEPT ![t] = step]

-----------------------------------------------------------------------------
\* Mutant: a hit leaves the entry as old as it was.
HitUntouched(k) ==
    /\ k \in cached
    /\ clock' = clock + 1
    /\ lastUse' = [lastUse EXCEPT ![k] = clock + 1]
    /\ UNCHANGED <<entries, lru, used>>

\* get, on a hit: the entry becomes the youngest.
Hit(k) ==
    /\ k \in cached
    /\ clock' = clock + 1
    /\ touched' = [touched EXCEPT ![k] = clock + 1]
    /\ lastUse' = [lastUse EXCEPT ![k] = clock + 1]
    /\ lru' = (lru \ {<<touched[k], k>>}) \cup {<<clock + 1, k>>}
    /\ UNCHANGED <<cached, value, used>>

\* get, on a miss: only the clock moves.
Miss(k) ==
    /\ k \notin cached
    /\ clock' = clock + 1
    /\ UNCHANGED <<entries, lru, used, lastUse>>

Lookup(t, k) ==
    /\ at[t] = "idle" /\ Free /\ clock < ClockBound
    /\ want' = [want EXCEPT ![t] = k]
    /\ \/ Hit(k) /\ UNCHANGED at
       \/ Miss(k) /\ Go(t, "decoding")
    /\ UNCHANGED mutex

\* The record is missing or malformed: nothing is inserted.
DecodeFails(t) ==
    /\ at[t] = "decoding"
    /\ Go(t, "idle")
    /\ UNCHANGED <<state, mutex, want, lastUse>>

\* insert looks again, and leaves alone what can never fit.
LookAgain(t) ==
    /\ at[t] = "decoding" /\ Free
    /\ \/ Hit(want[t]) /\ Go(t, "idle")
       \/ /\ Miss(want[t])
          /\ Go(t, IF Charge[want[t]] > Limit THEN "idle" ELSE "inserting")
    /\ UNCHANGED <<mutex, want>>

\* Mutant: the second section trusts the look before it.
EnterUnchecked(t) ==
    /\ at[t] = "inserting" /\ Free
    /\ mutex' = t /\ Go(t, "evicting")
    /\ UNCHANGED <<state, want, lastUse>>

\* Mutant: the second section gives the mutex back before it makes room.
EnterUnlocked(t) ==
    /\ at[t] = "inserting" /\ Free
    /\ want[t] \notin cached
    /\ Go(t, "evicting")
    /\ UNCHANGED <<state, mutex, want, lastUse>>

\* insert's second section: another thread's value wins.
Enter(t) ==
    /\ at[t] = "inserting" /\ Free
    /\ IF want[t] \in cached
       THEN Go(t, "idle") /\ UNCHANGED mutex
       ELSE mutex' = t /\ Go(t, "evicting")
    /\ UNCHANGED <<state, want, lastUse>>

\* Mutant: room is made for the entries there are, not for the one to come.
NoRoomNow(t) == used > Limit

NoRoom(t) == used + Charge[want[t]] > Limit

Evict(t) ==
    /\ mutex = t /\ NoRoom(t)
    /\ \E oldest \in lru :
          LET k == oldest[2]
          IN /\ \A other \in lru : oldest[1] <= other[1]
             /\ lru' = lru \ {oldest}
             /\ cached' = cached \ {k}
             /\ value' = [value EXCEPT ![k] = "none"]
             /\ touched' = [touched EXCEPT ![k] = 0]
             /\ used' = IF k \notin cached THEN used
                        ELSE IF used < Charge[k] THEN 0 ELSE used - Charge[k]
    /\ UNCHANGED <<clock, mutex, at, want, lastUse>>

Store(t) ==
    LET k == want[t]
    IN /\ mutex = t /\ (NoRoom(t) => lru = {})
       /\ clock' = clock + 1
       /\ cached' = cached \cup {k}
       /\ value' = [value EXCEPT ![k] = t]
       /\ touched' = [touched EXCEPT ![k] = clock + 1]
       /\ lastUse' = [lastUse EXCEPT ![k] = clock + 1]
       /\ lru' = lru \cup {<<clock + 1, k>>}
       /\ used' = used + Charge[k]
       /\ mutex' = "none" /\ Go(t, "idle")
       /\ UNCHANGED want

\* The search is over, or every thread of it waits for others to be joined.
Rest == (\A t \in Threads : at[t] = "idle") /\ UNCHANGED vars

Next ==
    \/ \E t \in Threads :
          \/ \E k \in Keys : Lookup(t, k)
          \/ DecodeFails(t) \/ LookAgain(t) \/ Enter(t) \/ Evict(t) \/ Store(t)
    \/ Rest

Spec == Init /\ [][Next]_vars

-----------------------------------------------------------------------------
(* Properties.                                                             *)

\* The recency index names every entry once, under its own clock, and no two
\* entries share one, so that the first pair is the oldest entry.
LruAgrees ==
    /\ lru = {<<touched[k], k>> : k \in cached}
    /\ \A k, l \in cached : touched[k] = touched[l] => k = l
    /\ \A k \in cached : touched[k] <= clock

\* The counter is what the entries are charged with, however inserts race.
Accounted == used = Total[cached]

\* What the cache holds fits its limit, even halfway through an insert.
WithinLimit == Total[cached] <= Limit

\* What is evicted was used no later than anything that stays.
OldestFirst ==
    [][\A k \in cached \ cached' : \A l \in cached : lastUse[k] <= lastUse[l]]_vars

\* Threads that looked a key up share one value for as long as it stays.
ValueStays ==
    [][\A k \in cached \cap cached' : value'[k] = value[k]]_vars

=============================================================================

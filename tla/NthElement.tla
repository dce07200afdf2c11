---------------------------- MODULE NthElement ----------------------------
(***************************************************************************)
(* The selection of the nearest candidates: a port of the nth_element of   *)
(* libc++ whose order is part of parity with the native recognizer, and    *)
(* the bounded buffer that uses it.                                        *)
(*                                                                         *)
(* An array is a function on 0 .. n-1 of pairs <<distance, identity>>;     *)
(* only distances are compared. An index that leaves the array, a panic    *)
(* in the code, is a CHOOSE from the empty set here, which TLC reports.    *)
(***************************************************************************)
EXTENDS Integers, Sequences, FiniteSets, FiniteSetsExt, Loops

Size(v) == Cardinality(DOMAIN v)

Less(x, y) == x[1] < y[1]

Swap(v, i, j) == [v EXCEPT ![i] = v[j], ![j] = v[i]]

\* Mutant: what the swap brings to the middle is not compared.
SortThreeHalf(v, left, middle, right) ==
    IF Less(v[middle], v[left]) THEN [v |-> Swap(v, left, middle), swaps |-> 1]
    ELSE IF Less(v[right], v[middle]) THEN [v |-> Swap(v, middle, right), swaps |-> 1]
    ELSE [v |-> v, swaps |-> 0]

\* The array and the number of swaps that ordered the three places.
SortThree(v, left, middle, right) ==
    IF ~Less(v[middle], v[left])
    THEN IF ~Less(v[right], v[middle]) THEN [v |-> v, swaps |-> 0]
         ELSE LET w == Swap(v, middle, right) IN
              IF Less(w[middle], w[left])
              THEN [v |-> Swap(w, left, middle), swaps |-> 2]
              ELSE [v |-> w, swaps |-> 1]
    ELSE IF Less(v[right], v[middle]) THEN [v |-> Swap(v, left, right), swaps |-> 1]
         ELSE LET w == Swap(v, left, middle) IN
              IF Less(w[right], w[middle])
              THEN [v |-> Swap(w, middle, right), swaps |-> 2]
              ELSE [v |-> w, swaps |-> 1]

\* The first of the smallest elements goes to the front, place by place.
SelectionSort(v, first, last) ==
    LET Smallest(w, p) == Min({i \in p .. last - 1 :
                                 \A j \in p .. last - 1 : ~Less(w[j], w[i])})
        Place(s) == [v |-> Swap(s.v, s.at, Smallest(s.v, s.at)), at |-> s.at + 1]
    IN  Loop([v |-> v, at |-> first], Place, last - 1 - first).v

\* The two scans, each from its first place to try: neither stops at the
\* window, both rely on a guard.
ScanUp(v, from, Stop(_)) == Min({i \in from .. Size(v) - 1 : Stop(v[i])})
ScanDown(v, from, Stop(_)) == Max({i \in 0 .. from : Stop(v[i])})

\* One exchange of the unguarded partition around the element at s.middle,
\* which may move, once the scans have stopped at l and r.
Exchange(s, l, r) ==
    IF l >= r THEN [s EXCEPT !.left = l, !.met = TRUE]
    ELSE [s EXCEPT !.v = Swap(s.v, l, r), !.left = l + 1, !.right = r,
                   !.middle = IF @ = l THEN r ELSE @, !.swaps = @ + 1]

Cross(start, n) ==
    Loop(start,
         LAMBDA s : IF s.met THEN s
                    ELSE Exchange(s, ScanUp(s.v, s.left, LAMBDA x : ~Less(x, s.v[s.middle])),
                                  ScanDown(s.v, s.right - 1, LAMBDA x : Less(x, s.v[s.middle]))),
         n)

\* The same around the element at "first", equal elements going left.
CrossEqual(start, first, n) ==
    Loop(start,
         LAMBDA s : IF s.met THEN s
                    ELSE Exchange(s, ScanUp(s.v, s.left, LAMBDA x : Less(s.v[first], x)),
                                  ScanDown(s.v, s.right - 1, LAMBDA x : ~Less(s.v[first], x))),
         n)

Window(v, left, right, middle, swaps) ==
    [v |-> v, left |-> left, right |-> right, middle |-> middle, swaps |-> swaps,
     met |-> left >= right]

\* The loop returns: what is left to search is empty.
Done(v) == [v |-> v, first |-> 0, last |-> 0]

AfterEqual(c, last, nth) ==
    IF nth < c.left THEN Done(c.v) ELSE [v |-> c.v, first |-> c.left, last |-> last]

SplitEqual(v, first, left, last, nth) ==
    IF left = last - 1 THEN Done(v)
    ELSE AfterEqual(CrossEqual(Window(v, left, last - 1, first, 0), first, last - first),
                    last, nth)

\* Nothing of the window is below its first element: elements equal to it go
\* to the left, a larger one to the end.
EqualRun(v, first, last, nth, larger) ==
    IF Less(v[first], v[last - 1]) THEN SplitEqual(v, first, first + 1, last, nth)
    ELSE IF larger = {} THEN Done(v)
    ELSE SplitEqual(Swap(v, Min(larger), last - 1), first, Min(larger) + 1, last, nth)

InOrder(v, from, to) == \A i \in from .. to - 2 : ~Less(v[i + 1], v[i])

\* The side of the pivot that holds the place sought, unless nothing had to
\* be moved and that side is in order.
Narrow(c, first, last, nth) ==
    IF nth = c.left THEN Done(c.v)
    ELSE IF nth < c.left
    THEN IF c.swaps = 0 /\ InOrder(c.v, first, c.left) THEN Done(c.v)
         ELSE [v |-> c.v, first |-> first, last |-> c.left]
    ELSE IF c.swaps = 0 /\ InOrder(c.v, c.left, last) THEN Done(c.v)
         ELSE [v |-> c.v, first |-> c.left + 1, last |-> last]

\* The pivot goes between the two sides.
Settle(c, first, last, nth) ==
    Narrow(IF c.left # c.middle /\ Less(c.v[c.middle], c.v[c.left])
           THEN [c EXCEPT !.v = Swap(c.v, c.left, c.middle), !.swaps = @ + 1] ELSE c,
           first, last, nth)

Split(window, first, last, nth) == Settle(Cross(window, last - first), first, last, nth)

\* The scans need an element below the pivot on the left as a guard.
Guard(s, first, middle, last, nth, below) ==
    IF Less(s.v[first], s.v[middle])
    THEN Split(Window(s.v, first + 1, last - 1, middle, s.swaps), first, last, nth)
    ELSE IF below = {}
    THEN EqualRun(s.v, first, last, nth, {i \in first + 1 .. last - 2 : Less(s.v[first], s.v[i])})
    ELSE Split(Window(Swap(s.v, first, Max(below)), first + 1, Max(below), middle, s.swaps + 1),
               first, last, nth)

Round(s, first, middle, last, nth) ==
    Guard(s, first, middle, last, nth,
          {j \in first + 1 .. last - 2 : Less(s.v[j], s.v[middle])})

\* The window [first, last) to search next.
Select(v, first, last, nth) ==
    IF nth = last \/ last - first \in {0, 1} THEN Done(v)
    ELSE IF last - first = 2
    THEN Done(IF Less(v[last - 1], v[first]) THEN Swap(v, first, last - 1) ELSE v)
    ELSE IF last - first = 3 THEN Done(SortThree(v, first, first + 1, last - 1).v)
    ELSE IF last - first < 8 THEN Done(SelectionSort(v, first, last))
    ELSE Round(SortThree(v, first, first + (last - first) \div 2, last - 1),
               first, first + (last - first) \div 2, last, nth)

NthElement(v, nth) ==
    Loop([v |-> v, first |-> 0, last |-> Size(v)],
         LAMBDA s : Select(s.v, s.first, s.last, nth), Size(v)).v

Truncate(v, limit) == [i \in 0 .. limit - 1 |-> v[i]]

Prune(v, limit) == Truncate(NthElement(v, limit - 1), limit)

(***************************************************************************)
(* A buffer of at most 2 * limit candidates, pruned to "limit" when full;  *)
(* from then on a candidate must be nearer than the furthest kept one.     *)
(***************************************************************************)
Unbounded == 1000000

Extend(v, x) == [i \in 0 .. Size(v) |-> IF i = Size(v) THEN x ELSE v[i]]

Kept(v, threshold) == [kept |-> v, threshold |-> threshold]
Pruned(v, limit) == Kept(v, v[limit - 1][1])

Offer(buffer, x, limit) ==
    IF x[1] >= buffer.threshold THEN buffer
    ELSE IF Size(buffer.kept) + 1 >= 2 * limit
    THEN Pruned(Prune(Extend(buffer.kept, x), limit), limit)
    ELSE Kept(Extend(buffer.kept, x), buffer.threshold)

\* What a sequence of candidates leaves in the buffer.
Gather(candidates, limit) ==
    Loop([buffer |-> Kept(<<>>, Unbounded), at |-> 0],
         LAMBDA s : [buffer |-> Offer(s.buffer, candidates[s.at + 1], limit), at |-> s.at + 1],
         Len(candidates)).buffer.kept

\* The candidates that a query keeps of what it gathered.
Nearest(gathered, limit) ==
    IF Size(gathered) > limit THEN Prune(gathered, limit) ELSE gathered
=============================================================================

------------------------------- MODULE Loops -------------------------------
(***************************************************************************)
(* The loops of the pure code, as the states they pass through.            *)
(*                                                                         *)
(* Code that may return an error is an operator whose value is the set of  *)
(* its results: {x} is Ok(x) and {} is Err. A set comprehension over such  *)
(* sets is then a chain of calls that stops at the first error.            *)
(***************************************************************************)
EXTENDS Integers, FiniteSets

\* The state of a loop after n rounds; a step that has nothing left to do
\* leaves the state alone.
Loop(start, Step(_), n) ==
    LET after[k \in 0 .. n] == IF k = 0 THEN start ELSE Step(after[k - 1])
    IN  after[n]

\* A loop whose step may fail, which ends it.
Try(start, Step(_), n) ==
    Loop({start}, LAMBDA results : UNION {Step(s) : s \in results}, n)

\* The elements of a set in the total order Before.
Ordered(S, Before(_, _)) ==
    [i \in 1 .. Cardinality(S) |->
       CHOOSE x \in S : Cardinality({y \in S : Before(y, x)}) = i - 1]

\* What a sequence has at some of its places, in their order.
Subsequence(s, places) ==
    LET order == Ordered(places, LAMBDA i, j : i < j)
    IN  [k \in DOMAIN order |-> s[order[k]]]
=============================================================================

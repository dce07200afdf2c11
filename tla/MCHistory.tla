----------------------------- MODULE MCHistory -----------------------------
(***************************************************************************)
(* TLC instance of History: a table of two rows, three recognitions, and   *)
(* a clock with two values, a tick of which is more than a row is kept.    *)
(***************************************************************************)
EXTENDS History

=============================================================================

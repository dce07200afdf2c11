--------------------------- MODULE MCSoundTrigger ---------------------------
(* TLC instance of SoundTrigger, with the inductive invariant of its proofs. *)
(* Operation identifiers are interchangeable.                                *)
EXTENDS SoundTriggerProofs, TLC

OpSymmetry == Permutations(Ops)

=============================================================================

--------------------------- MODULE MCDecodedCache ---------------------------
(***************************************************************************)
(* TLC instance of DecodedCache: two threads, two small keys that fit the  *)
(* cache together, one that fills it and one that never fits.              *)
(***************************************************************************)
EXTENDS DecodedCache, FiniteSetsExt

CONSTANTS small, other, full, huge

MCKeys == {small, other, full, huge}
MCCharge == [k \in MCKeys |-> IF k = full THEN 2 ELSE IF k = huge THEN 3 ELSE 1]
MCTotal == [S \in SUBSET MCKeys |-> MapThenSumSet(LAMBDA k : MCCharge[k], S)]

=============================================================================

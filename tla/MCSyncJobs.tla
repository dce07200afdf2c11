----------------------------- MODULE MCSyncJobs -----------------------------
(* TLC instance of SyncJobs: two selections to move between.               *)
EXTENDS SyncJobs

CONSTANTS r1, r2

MCRegions == {r1, r2}

=============================================================================

--------------------------- MODULE MCSyncSession ---------------------------
(* Small instances of SyncSession for TLC. *)
EXTENDS SyncSession, TLC

\* Goroutines are interchangeable, and so are pull requests.
Symmetry == Permutations(Worker) \cup Permutations(PR)

\* Leaves out rate limits and suspended accounts, to spend the states on walks.
Quiet == syncProgress.retryAt = 0 /\ authorizationError = ""
=============================================================================

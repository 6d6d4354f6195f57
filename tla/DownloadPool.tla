---------------------------- MODULE DownloadPool ----------------------------
(* The worker threads that fastdl's download_files and the updater's       *)
(* update_files start: each takes the next index of the vector, and stops  *)
(* when the vector is exhausted or a worker has stored an exception.  The  *)
(* caller joins them all and rethrows.  No property depends on the order   *)
(* of the vector, so the files left are a set.  The kinds of contents a    *)
(* file has and the budget of faults are here too: the users share them.   *)
EXTENDS FiniteSets, Naturals

CONSTANTS
    Cores,        \* two thirds of hardware_concurrency
    Absent,       \* no such file
    Partial,      \* a file that was not written to its end
    MaxReleases,  \* releases published
    MaxFaults     \* kills, failed downloads, full disks

ASSUME PoolAssumption ==
    /\ Cores \in Nat /\ MaxReleases \in Nat /\ MaxFaults \in Nat
    /\ Absent # Partial /\ {Absent, Partial} \intersect Nat = {}

VARIABLE faults

Release == 0 .. MaxReleases

Complete(f) == f \in Release

Fault ==
    /\ faults < MaxFaults
    /\ faults' = faults + 1

(* get_optimal_concurrent_download_count.                                  *)
Threads(p) == IF Cores = 0 THEN 1 ELSE Cores

Pools(File) == [left : SUBSET File, busy : SUBSET File, failed : BOOLEAN]

NoPool == [left |-> {}, busy |-> {}, failed |-> FALSE]

StartPool(files) == [left |-> files, busy |-> {}, failed |-> FALSE]

(* The flag is read before the index is taken.                             *)
MayTake(p) == ~p.failed /\ Cardinality(p.busy) < Threads(p)

Take(p, f) == [p EXCEPT !.left = @ \ {f}, !.busy = @ \union {f}]

(* A worker that has begun f ends it, or stores what was thrown.           *)
End(p, f) == [p EXCEPT !.busy = @ \ {f}]

Throw(p, f) == [p EXCEPT !.busy = @ \ {f}, !.failed = TRUE]

Joined(p) == p.busy = {} /\ (p.failed \/ p.left = {})
=============================================================================

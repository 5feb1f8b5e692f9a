--------------------------- MODULE MCDbLifecycle ---------------------------
(***************************************************************************)
(* Instances of DbLifecycle for TLC: the calls each run makes, and the     *)
(* symmetry of threads and children, which safety does not tell apart.     *)
(***************************************************************************)
EXTENDS DbLifecycleInv, TLC

AllCalls == AllOps
(* A closer racing the creation, use and destruction of children, with
   calls that take both locks and a column family dropped in between *)
RaceCalls == {"close", "iterator", "snapshot", "snap_iter_cf", "next", "drop_cf"}
(* Children of every kind, for the liveness properties *)
LiveCalls == {"close", "iterator_cf", "snapshot", "snap_iter", "next"}
(* Handles on one path *)
PathCalls == {"close", "data", "iterator", "snapshot"}

Symmetry == Permutations(Threads) \cup Permutations(Iters) \cup Permutations(Snaps)
=============================================================================

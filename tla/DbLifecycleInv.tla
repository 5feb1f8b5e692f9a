-------------------------- MODULE DbLifecycleInv --------------------------
(***************************************************************************)
(* The inductive invariant of DbLifecycle: who holds which lock, what a    *)
(* call in progress refers to, what a child has in each phase of its life, *)
(* and why each native handle keeps its DB open.                           *)
(***************************************************************************)
EXTENDS DbLifecycle

(* Which NIFs can be at which point, and what they were called with. *)
CallShape ==
  \A t \in Threads :
    /\ pc[t] = "idle" => op[t] = "none"
    /\ op[t] = "none" => db[t] = None /\ on[t] = None /\ made[t] = None
    /\ pc[t] \in {"wantRead", "reading", "cfHandle"} => op[t] \in ReadOps \cup SnapCfOps
    /\ pc[t] = "cfHandle" => op[t] \in CfOps
    /\ pc[t] \in {"wantWrite", "writing", "closing"} => op[t] \in WriteOps
    /\ pc[t] = "closing" => op[t] = "close"
    /\ pc[t] = "made" => op[t] \in SpawnOps
    /\ pc[t] = "built" => op[t] \in SpawnOps \cup DeriveOps
    /\ pc[t] = "wantMutex" => op[t] \in {"snap_get", "snap_iter", "next"}
    /\ pc[t] = "using" => op[t] \in SnapOps \cup {"next"}
    /\ op[t] \in ReadOps \cup WriteOps => db[t] \in Dbs /\ on[t] = None
    /\ op[t] \in SnapOps => on[t] \in Snaps /\ db[t] = of[on[t]]
    /\ op[t] = "next" => on[t] \in Iters
    /\ made[t] # None <=> op[t] \in SpawnOps \cup DeriveOps
    /\ made[t] \in Snaps => op[t] = "snapshot"
    /\ res[t] # "none" <=> pc[t] = "done"

(* Has the call in t created its native handle? *)
Created(t) == pc[t] \in {"made", "built"} \/ (pc[t] = "done" /\ res[t] = "ok")

(* A child being made belongs to one call, which will complete it. *)
Making ==
  /\ \A t, u \in Threads : made[t] = made[u] /\ made[t] # None => t = u
  /\ \A t \in Threads : made[t] # None =>
       /\ phase[made[t]] = IF Created(t) THEN "made" ELSE "none"
       /\ Created(t) => of[made[t]] = db[t]
       /\ pc[t] = "made" => ~lease[made[t]]
       /\ Created(t) /\ pc[t] # "made" =>
            /\ owner[made[t]] = db[t]
            /\ lease[made[t]] \/ snapOwner[made[t]] # None
            /\ made[t] \in Snaps => lease[made[t]]

(* What a child has in each phase *)
ChildShape ==
  \A c \in Children :
    /\ phase[c] = "none" => /\ ~native[c] /\ ~lease[c] /\ of[c] = None
                            /\ owner[c] = None /\ snapOwner[c] = None
    /\ phase[c] # "none" => of[c] \in Dbs
    /\ phase[c] \in {"made", "live"} => native[c]
    /\ phase[c] = "live" => owner[c] = of[c]
    /\ phase[c] = "live" /\ c \in Snaps => lease[c]
    /\ phase[c] = "dropping" /\ owner[c] = None => ~native[c]
    /\ held[c] => phase[c] = "live"

(* References keep what they refer to. *)
References ==
  /\ \A t \in Threads : on[t] # None => phase[on[t]] = "live"
  /\ \A i \in Children : snapOwner[i] # None =>
       phase[snapOwner[i]] = "live" /\ of[snapOwner[i]] = of[i]
  /\ \A d \in Dbs : term[d] => dbState[d] # "none"
  /\ \A c \in Children : owner[c] # None => dbState[owner[c]] # "none"
  /\ \A t \in Threads : db[t] # None => dbState[db[t]] # "none"

(* Why a native handle's DB stays open: a lease of its own, that of its
   snapshot, or the read guard of the call that is making it *)
Anchored ==
  \A c \in Children : native[c] =>
    \/ lease[c] \/ snapOwner[c] # None
    \/ \E t \in Threads : pc[t] = "made" /\ made[t] = c

HoldsRead(t) ==
  \/ pc[t] \in {"reading", "cfHandle", "made"}
  \/ pc[t] = "built" /\ op[t] \in SpawnOps
  \/ pc[t] \in {"using", "built"} /\ op[t] \in SnapCfOps

HoldsWrite(t) == pc[t] \in {"writing", "closing"}
HoldsMutex(t) == pc[t] = "using" \/ (pc[t] = "built" /\ op[t] \in DeriveOps)

(* The guards are with the calls whose code holds them. *)
Guards ==
  /\ \A d \in Dbs, t \in Threads : t \in readers[d] <=> HoldsRead(t) /\ db[t] = d
  /\ \A d \in Dbs, t \in Threads : writer[d] = t <=> HoldsWrite(t) /\ db[t] = d
  /\ \A d \in Dbs : writer[d] # None => readers[d] = {}
  /\ \A c \in Children, t \in Threads : mutex[c] = t <=> HoldsMutex(t) /\ on[t] = c

(* What the locks and the leases protect *)
Protected ==
  /\ \A t \in Threads : HoldsRead(t) => dbState[db[t]] = "open"
  /\ \A t \in Threads : UsesCf(t) => hasCf[db[t]]
  /\ \A t \in Threads : pc[t] = "writing" /\ op[t] # "close" => dbState[db[t]] = "open"
  /\ \A c \in Children : lease[c] => of[c] \in Dbs /\ dbState[of[c]] = "open"

(* Only the closer that took the DB leaves it half closed, and the LOCK is
   with a DB that is not fully closed. *)
Closing ==
  /\ \A d \in Dbs : dbState[d] = "closing" =>
       \E t \in Threads : pc[t] = "closing" /\ db[t] = d
  /\ \A t \in Threads : pc[t] = "closing" => dbState[db[t]] = "closing"
  /\ pathLock # None => dbState[pathLock] \in {"open", "closing"}
  /\ \A t \in Threads : op[t] = "close" /\ res[t] = "ok" => dbState[db[t]] = "closed"

(* The inductive invariant: the runs check it on small instances, and
   DbLifecycleProofs that every step preserves it. *)
IInv ==
  /\ TypeOK /\ LeaseCount
  /\ CallShape /\ Making /\ ChildShape /\ References
  /\ Anchored /\ Guards /\ Protected /\ Closing
=============================================================================

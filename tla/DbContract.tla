----------------------------- MODULE DbContract -----------------------------
(***************************************************************************)
(* What the NIFs promise about the life of a DB, as ADR002 and             *)
(* test/close_test.exs state it and nothing about how: each call takes     *)
(* effect at one instant between its invocation and its return, close      *)
(* succeeds only when no child exists, and a child keeps its DB open.      *)
(***************************************************************************)
CONSTANTS Dbs, Children, Threads, None

VARIABLES
  status,   \* a DB is "none" (not allocated), "open" or "closed"
  kids,     \* the DB each existing child belongs to, or None
  call,     \* "idle", "invoked" or "answered"
  kind,     \* "use", "spawn", "derive", "child", "meta" or "close"
  db,       \* the DB a call is about, directly or through a child
  on,       \* the child a call is about
  new,      \* the child a call is to create
  answer    \* what the call returns, "none" before it took effect

vars == <<status, kids, call, kind, db, on, new, answer>>

HasKids(d) == \E c \in Children : kids[c] = d

Init ==
  /\ status = [d \in Dbs |-> "none"]
  /\ kids = [c \in Children |-> None]
  /\ call = [t \in Threads |-> "idle"]
  /\ kind = [t \in Threads |-> "none"]
  /\ db = [t \in Threads |-> None]
  /\ on = [t \in Threads |-> None]
  /\ new = [t \in Threads |-> None]
  /\ answer = [t \in Threads |-> "none"]

Invoke(t, k, d, c, n) ==
  /\ call[t] = "idle"
  /\ IF c = None THEN status[d] # "none" ELSE kids[c] # None
  /\ n # None => kids[n] = None /\ \A u \in Threads : new[u] # n
  /\ call' = [call EXCEPT ![t] = "invoked"]
  /\ kind' = [kind EXCEPT ![t] = k]
  /\ db' = [db EXCEPT ![t] = d]
  /\ on' = [on EXCEPT ![t] = c]
  /\ new' = [new EXCEPT ![t] = n]
  /\ UNCHANGED <<status, kids, answer>>

(* The instant a call takes effect *)
Effect(t, r) ==
  /\ call[t] = "invoked"
  /\ call' = [call EXCEPT ![t] = "answered"]
  /\ answer' = [answer EXCEPT ![t] = r]
  /\ UNCHANGED <<kind, db, on, new>>

Rejected(t) ==
  /\ kind[t] \in {"use", "spawn", "meta"} /\ status[db[t]] = "closed"
  /\ Effect(t, "closed") /\ UNCHANGED <<status, kids>>

Refused(t) ==
  /\ kind[t] \in {"use", "spawn", "meta", "child", "derive"}
  /\ status[db[t]] = "open"
  /\ \E r \in {"unknown_cf", "error"} : Effect(t, r)
  /\ UNCHANGED <<status, kids>>

Use(t) ==
  /\ kind[t] \in {"use", "meta"} /\ status[db[t]] = "open"
  /\ Effect(t, "ok") /\ UNCHANGED <<status, kids>>

UseChild(t) ==
  /\ kind[t] = "child" /\ kids[on[t]] = db[t] /\ status[db[t]] = "open"
  /\ Effect(t, "ok") /\ UNCHANGED <<status, kids>>

Spawn(t) ==
  /\ kind[t] \in {"spawn", "derive"} /\ status[db[t]] = "open"
  /\ kind[t] = "derive" => kids[on[t]] = db[t]
  /\ kids' = [kids EXCEPT ![new[t]] = db[t]]
  /\ Effect(t, "ok") /\ UNCHANGED status

Close(t) ==
  /\ kind[t] = "close" /\ ~HasKids(db[t])
  /\ status' = [status EXCEPT ![db[t]] = "closed"]
  /\ Effect(t, "ok") /\ UNCHANGED kids

Busy(t) ==
  /\ kind[t] = "close" /\ HasKids(db[t])
  /\ Effect(t, "resource_busy") /\ UNCHANGED <<status, kids>>

Return(t) ==
  /\ call[t] = "answered"
  /\ call' = [call EXCEPT ![t] = "idle"]
  /\ kind' = [kind EXCEPT ![t] = "none"]
  /\ db' = [db EXCEPT ![t] = None]
  /\ on' = [on EXCEPT ![t] = None]
  /\ new' = [new EXCEPT ![t] = None]
  /\ answer' = [answer EXCEPT ![t] = "none"]
  /\ UNCHANGED <<status, kids>>

Open(d) ==
  /\ status[d] = "none"
  /\ status' = [status EXCEPT ![d] = "open"]
  /\ UNCHANGED <<kids, call, kind, db, on, new, answer>>

(* A child goes when nothing uses it, a DbResource when it has no child
   left and no call is about it. *)
Drop(c) ==
  /\ kids[c] # None /\ \A t \in Threads : on[t] # c
  /\ kids' = [kids EXCEPT ![c] = None]
  /\ UNCHANGED <<status, call, kind, db, on, new, answer>>

Free(d) ==
  /\ status[d] # "none" /\ ~HasKids(d) /\ \A t \in Threads : db[t] # d
  /\ status' = [status EXCEPT ![d] = "none"]
  /\ UNCHANGED <<kids, call, kind, db, on, new, answer>>

Next ==
  \/ \E t \in Threads :
       \/ \E k \in {"use", "meta", "close"}, d \in Dbs : Invoke(t, k, d, None, None)
       \/ \E d \in Dbs, n \in Children : Invoke(t, "spawn", d, None, n)
       \/ \E c \in Children, d \in Dbs : Invoke(t, "child", d, c, None)
       \/ \E d \in Dbs, c, n \in Children : Invoke(t, "derive", d, c, n)
       \/ Rejected(t) \/ Refused(t) \/ Use(t) \/ UseChild(t)
       \/ Spawn(t) \/ Close(t) \/ Busy(t) \/ Return(t)
  \/ \E d \in Dbs : Open(d) \/ Free(d)
  \/ \E c \in Children : Drop(c)

Spec == Init /\ [][Next]_vars
=============================================================================

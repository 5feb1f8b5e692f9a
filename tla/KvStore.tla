-------------------------------- MODULE KvStore --------------------------------
(***************************************************************************)
(* What a caller sees of a store with column families: a map from names to *)
(* maps from keys to values, changed by one call at a time, each with an   *)
(* answer.  No sequence numbers, no family ids, no handles, no files.      *)
(***************************************************************************)
EXTENDS Naturals, Sequences

CONSTANTS Names,     \* of column families, "default" included
          Keys,      \* 1 .. n, in the order of the store
          Calls      \* the sequences of operations a call may ask for

VARIABLES map,       \* name -> key -> value; empty without a DB
          said       \* the answer to the last call

vars == <<map, said>>

\* A value is the last put and the operands merged since; <<>> is no value.
Effect(op, old) == CASE op.kind = "put"   -> <<op.value>>
                     [] op.kind = "merge" -> Append(old, op.value)
                     [] OTHER             -> <<>>

\* delete_range deletes from its first key up to, not including, its second.
Touched(op) == IF op.kind = "delete_range" THEN {k \in Keys : op.from <= k /\ k < op.to}
               ELSE {op.key}

Step(m, op) == [m EXCEPT ![op.family] =
                  [k \in Keys |-> IF k \in Touched(op) THEN Effect(op, @[k]) ELSE @[k]]]

After(ops) ==
  LET done[i \in 0 .. Len(ops)] == IF i = 0 THEN map ELSE Step(done[i - 1], ops[i])
  IN  done[Len(ops)]

Ok(n) == [tag |-> "ok", n |-> n]

-----------------------------------------------------------------------------
Init == map = [f \in {} |-> <<>>] /\ said = Ok(0)

\* All operations of a call or none, and a count only for all.
Apply == \E ops \in Calls :
           /\ \A i \in DOMAIN ops : ops[i].family \in DOMAIN map
           /\ said' = Ok(Len(ops))
           /\ map' = After(ops)

Refuse == said'.tag # "ok" /\ map' = map

NoKeys == [k \in Keys |-> <<>>]

\* Opening adds families without rows, and the DB itself if there is none.
Add(names) == map' = [f \in DOMAIN map \cup names |->
                        IF f \in DOMAIN map THEN map[f] ELSE NoKeys]

Open == /\ said' = Ok(0)
        /\ \E names \in SUBSET Names : Add(names)
        /\ "default" \in DOMAIN map'

\* An open that fails over a missing family may have made the DB itself.
OpenHalfway == DOMAIN map = {} /\ said'.tag # "ok" /\ Add({"default"})

CreateFamily == /\ DOMAIN map # {}
                /\ said' = Ok(0)
                /\ \E f \in Names \ DOMAIN map : Add({f})

DropFamily == /\ said' = Ok(0)
              /\ \E f \in DOMAIN map \ {"default"} :
                   map' = [g \in DOMAIN map \ {f} |-> map[g]]

Destroy == said' = Ok(0) /\ DOMAIN map' = {}

Quiet == said' = Ok(0) /\ map' = map   \* snapshots, close, handles that only read

Next == Refuse \/ Quiet \/ Apply \/ Open \/ OpenHalfway \/ CreateFamily
        \/ DropFamily \/ Destroy

Spec == Init /\ [][Next]_vars
===============================================================================

------------------------------ MODULE CrashStore ------------------------------
(***************************************************************************)
(* What a caller may rely on when a DB stops and is opened again: writes   *)
(* are numbered in the order of their acknowledgement, and each stop       *)
(* guarantees a set of them.  No log, no memtable, no file.                *)
(***************************************************************************)
EXTENDS Naturals

CONSTANT Ids    \* the numbers of the writes

VARIABLES phase,     \* "open", or how it stopped: "closed", "halted", "lost"
          contents,  \* the writes a reader finds (while open; else found last)
          logged,    \* the writes made with the write-ahead log
          handed,    \* survive the end of the process
          durable,   \* survive the loss of power
          strict     \* the last recovery was one that stops at damage

vars == <<phase, contents, logged, handed, durable, strict>>

Phases == {"open", "closed", "halted", "lost"}

Init == /\ phase = "open"
        /\ contents = {} /\ logged = {} /\ handed = {} /\ durable = {}
        /\ strict \in BOOLEAN

\* The guarantees only grow, and only cover what is there.
Promise == /\ handed \subseteq handed' /\ handed' \subseteq contents'
           /\ durable \subseteq durable' /\ durable' \subseteq handed'

Write == /\ phase = "open" /\ phase' = "open"
         /\ \E n \in Ids :
              /\ \A i \in contents : i < n
              /\ contents' = contents \cup {n}
              /\ logged' \in {logged, logged \cup {n}}
         /\ Promise

Persist == /\ phase = "open" /\ phase' = "open"
           /\ UNCHANGED <<contents, logged>>
           /\ Promise

Stop == /\ phase \in {"open", "closed", "halted"}
        /\ phase' \in Phases \ {"open"}
        /\ phase # "open" => phase' = "lost"
        /\ UNCHANGED <<contents, logged, handed, durable>>

Guaranteed == CASE phase = "closed" -> contents
                [] phase = "halted" -> handed
                [] phase = "lost"   -> durable

\* Logged writes are found up to some point and not beyond it.
NoHole(found) == \A i \in found \cap logged, j \in contents \cap logged :
                   j < i => j \in found

Recover == /\ phase # "open" /\ phase' = "open"
           /\ contents' \subseteq contents
           /\ Guaranteed \subseteq contents'
           /\ strict' => NoHole(contents')
           /\ handed' = contents' /\ durable' = contents'
           /\ UNCHANGED logged

\* Another tool puts a different DB in its place, or none.
Replace == /\ phase # "open" /\ phase' = "closed"
           /\ contents' \subseteq Ids
           /\ handed' = contents' /\ durable' = contents'
           /\ UNCHANGED logged

Mark == UNCHANGED <<phase, contents, logged, handed, durable>>  \* only strict

Next == Write \/ Persist \/ Stop \/ Recover \/ Replace \/ Mark

Spec == Init /\ [][Next]_vars
===============================================================================

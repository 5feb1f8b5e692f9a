----------------------------- MODULE DurabilityInv -----------------------------
(***************************************************************************)
(* Why Durability keeps its contract: the inductive invariant that the     *)
(* proofs of DurabilityProofs rest on.                                     *)
(***************************************************************************)
EXTENDS Durability

InFiles == Joined(files)

\* What a recovery that stops at damage replays.
Readable == {i \in wal : \A g \in torn : i < g}

\* What a flush of memtables does, if there is something to flush or not.
Flushed(some, k) ==
  /\ files' = [f \in Families |-> IF f \in some THEN files[f] \cup {i \in mem[f] : i <= k}
                                  ELSE files[f]]
  /\ mem' = [f \in Families |-> IF f \in some THEN mem[f] \ {i \in mem[f] : i <= k}
                                ELSE mem[f]]
  /\ IF Several
     THEN /\ buffered' = buffered \ {i \in buffered : i <= k}
          /\ unsynced' = unsynced \ {i \in unsynced : i <= k}
     ELSE UNCHANGED <<buffered, unsynced>>
  /\ UNCHANGED <<phase, opts, hist, wal, torn, salvaged, told>>

\* The files have the batch for one of its families and not for another.
Half(dirFiles, i) == \E f, g \in hist[i].families : i \in dirFiles[f] /\ i \notin dirFiles[g]

\* Memtables and files have of a family what was written to it.
InItsFamilies ==
  \A f \in Families : \A i \in mem[f] \cup files[f] : f \in hist[i].families

\* A DB that is not open is files and a log; only a loss of power garbles it.
AtRest ==
  /\ phase # "open" => mem = Empty /\ buffered = {}
  /\ phase # "lost" => torn = {}
  /\ phase = "lost" => unsynced = {}

\* Nothing is found that was not acknowledged.
Known == /\ InFiles \cup wal \subseteq acked
         /\ StoreShowsAcked

\* A memtable's writes are in the log, or made without; those without are
\* whole only under atomic_flush.
MemLogged ==
  \A f \in Families : \A i \in mem[f] :
    /\ hist[i].logged => i \in wal
    /\ hist[i].whole => hist[i].logged \/ opts.atomic

\* What is not synced, or not handed over, is the end of the log, ...
Tails ==
  /\ \A i \in wal \ buffered, j \in buffered : i < j
  /\ \A i \in wal \ unsynced, j \in unsynced : i < j

\* ... and a file has no logged write beyond one that could still be lost.
FilesCovered ==
  \A i \in InFiles, j \in unsynced : hist[i].logged /\ j < i => j \in InFiles

\* What a stop guarantees is where that stop leaves it.
Kept ==
  /\ phase # "lost"   => durable \subseteq InFiles \cup (wal \ unsynced)
  /\ phase = "open"   => handed \subseteq InFiles \cup (wal \ buffered)
  /\ phase = "closed" => acked \subseteq InFiles \cup wal
  /\ phase = "halted" => handed \subseteq InFiles \cup wal
  /\ phase = "lost"   => durable \subseteq InFiles \cup Readable

\* A stop lost logged writes from some point on only.
StoppedNoHole ==
  phase # "open" /\ ~salvaged =>
    \A i \in InFiles \cup Readable, j \in acked :
      hist[i].logged /\ hist[j].logged /\ j < i => j \in InFiles \cup Readable

\* Half of a whole batch is in files only if the log has it safely.
HalfLogged ==
  \A i \in Writes : hist[i].whole /\ Half(files, i) => i \in Readable \ unsynced

DurabilityIInv ==
  /\ DurabilityTypeOK
  /\ InItsFamilies
  /\ AtRest
  /\ Known
  /\ MemLogged
  /\ Tails
  /\ FilesCovered
  /\ Kept
  /\ StoppedNoHole
  /\ HalfLogged
  /\ BatchWhole
===============================================================================

----------------------------- MODULE MCDirtyClean -----------------------------
(* An instance of DirtyClean: rows in two families, three settings. *)
EXTENDS DirtyClean

CONSTANTS f1, f2

mcShapes == {{f1}, {f2}}
mcRowFamily == <<f1, f2>>

\* What the writer itself gives; the other maps are in MCBackup.
mcTerms == {Sync, Default}

mcOptions == {[manual |-> TRUE, atomic |-> FALSE, mode |-> "pointintime"],
              [manual |-> TRUE, atomic |-> FALSE, mode |-> "skipanycorruptedrecord"],
              [manual |-> FALSE, atomic |-> FALSE, mode |-> "absoluteconsistency"]}
===============================================================================

------------------------------- MODULE MCBackup -------------------------------
(* An instance of Backup: batches over one or both families, every kind of *)
(* option map for write_batch.                                             *)
EXTENDS Backup

CONSTANTS f1, f2

mcShapes == {{f1}, {f1, f2}}

One(key, value) == [k \in {key} |-> value]

mcTerms == {NotMap, [k \in {} |-> TRUE], One("sync", TRUE), One("disable_wal", TRUE),
            [sync |-> TRUE, disable_wal |-> TRUE], One("sync", Junk), One("other", TRUE)}

mcOptions == {[manual |-> TRUE, atomic |-> FALSE, mode |-> "pointintime"],
              [manual |-> FALSE, atomic |-> TRUE, mode |-> "skipanycorruptedrecord"],
              [manual |-> FALSE, atomic |-> FALSE, mode |-> "toleratecorruptedtailrecords"]}
===============================================================================

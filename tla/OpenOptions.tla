------------------------------ MODULE OpenOptions ------------------------------
(***************************************************************************)
(* The option map of open, open_cf, create_cf and the tools on a path:     *)
(* RockerOptions::decode, validate and the conversion to RocksDB's         *)
(* Options.  An option map is a function from keys to values.              *)
(*                                                                         *)
(* Of a text only the word it spells matters (Spelling), of a list of      *)
(* numbers what each part parses to.                                       *)
(***************************************************************************)
EXTENDS Integers, Sequences

CONSTANTS PlainKeys,     \* keys whose value is passed on as it is
          FamilyPlain,   \* those that RocksDB keeps for each family
          Spelling,      \* texts -> the word left of them, trimmed and in lower case
          NotMap,        \* a term that is no map
          NoAtom,        \* a key that is no atom
          Junk,          \* a value of the wrong type, or a part that is no number
          Number, Wide,  \* parts that fit an i32, or only an i64
          DefaultType,   \* RocksDB's compression type when none is set
          PresetType     \* the one the level preset chooses for the lower levels

ASSUME OpenOptionsAssumption ==
  /\ {"create_if_missing", "create_missing_column_families", "set_error_if_exists"}
       \subseteq PlainKeys \ FamilyPlain
  /\ "compression_per_level" \notin PlainKeys   \* RocksDB's field, no key of a map
  /\ NotMap # [k \in {} |-> TRUE]

Compression == {"none", "snappy", "zlib", "bz2", "lz4", "lz4hc", "zstd"}

\* The words each choice accepts.
Choices ==
  [set_compression_type |-> Compression,
   set_bottommost_compression_type |-> Compression,
   set_blob_compression_type |-> Compression,
   set_log_level |-> {"debug", "info", "warn", "error", "fatal", "header"},
   set_compaction_style |-> {"level", "universal", "fifo"},
   set_wal_recovery_mode |-> {"toleratecorruptedtailrecords", "absoluteconsistency",
                              "pointintime", "skipanycorruptedrecord"},
   merge_operator |-> {"counter_merge_operator", "erlang_merge_operator",
                       "bitset_merge_operator"}]

ListKeys   == {"set_max_bytes_for_level_multiplier_additional", "set_ratelimiter"}
PresetKeys == {"increase_parallelism", "optimize_level_style_compaction",
               "optimize_universal_style_compaction"}
MinLevel   == "set_min_level_to_compress"
AllKeys    == PlainKeys \cup ListKeys \cup PresetKeys \cup {MinLevel} \cup DOMAIN Choices

-----------------------------------------------------------------------------
(* Refusals, as pairs of a kind and a key.  decode goes through the map in  *)
(* no order a caller can rely on and stops at the first entry it refuses.   *)
DecodeErrors(term) ==
  IF term = NotMap THEN {<<"invalid", "options">>}
  ELSE {<<"invalid", "options">> : k \in DOMAIN term \cap {NoAtom}}
       \cup {<<"unknown", k>> : k \in DOMAIN term \ (AllKeys \cup {NoAtom})}
       \cup {<<"invalid", k>> : k \in {key \in DOMAIN term \cap AllKeys : term[key] = Junk}}

WellFormed(key, parts) ==
  IF key = "set_ratelimiter"
  THEN Len(parts) = 3 /\ (\A i \in 1 .. 3 : parts[i] # Junk) /\ parts[3] # Wide
  ELSE parts # <<>> /\ \A i \in DOMAIN parts : parts[i] = Number

\* validate looks at these, in this order.
Validated == <<"set_compression_type", "set_bottommost_compression_type",
               "set_blob_compression_type", "set_log_level", "set_compaction_style",
               "set_wal_recovery_mode", "merge_operator",
               "set_max_bytes_for_level_multiplier_additional", "set_ratelimiter">>

Valid(key, value) == IF key \in ListKeys THEN WellFormed(key, value)
                     ELSE Spelling[value] \in Choices[key]

ValidationErrors(term) ==
  LET bad == {i \in DOMAIN Validated : LET k == Validated[i] IN
                                       k \in DOMAIN term /\ ~Valid(k, term[k])}
  IN  {<<"invalid", Validated[i]>> : i \in {first \in bad : \A j \in bad : first <= j}}

\* The answers a map may be refused with; none if it is taken.
Refusals(term) == IF DecodeErrors(term) # {} THEN DecodeErrors(term)
                  ELSE ValidationErrors(term)

-----------------------------------------------------------------------------
(* Options::from: what is set, over RocksDB's own defaults. *)

NothingSet == [k \in {} |-> TRUE]
\* What f sets, and what g sets of the rest.
Over(f, g) == [k \in DOMAIN f \cup DOMAIN g |-> IF k \in DOMAIN f THEN f[k] ELSE g[k]]
Given(term, key) == key \in DOMAIN term

Parallelism(term) ==
  IF Given(term, "increase_parallelism")
  THEN [set_max_background_jobs |-> term["increase_parallelism"]] ELSE NothingSet

\* Both compaction presets divide up a budget for memtables.  That for levels
\* gives each level a compression type of its own.
Depths == 0 .. 6   \* the levels a DB has by default; set_num_levels comes later

LevelStyle(term) ==
  IF Given(term, "optimize_level_style_compaction")
  THEN LET budget == term["optimize_level_style_compaction"]
       IN  [set_write_buffer_size |-> budget \div 4,
            set_min_write_buffer_number_to_merge |-> 2,
            set_max_write_buffer_number |-> 6,
            set_level_zero_file_num_compaction_trigger |-> 2,
            set_target_file_size_base |-> budget \div 8,
            set_max_bytes_for_level_base |-> budget,
            set_compaction_style |-> "level",
            compression_per_level |-> [d \in Depths |-> IF d < 2 THEN "none" ELSE PresetType]]
  ELSE NothingSet

UniversalStyle(term) ==
  IF Given(term, "optimize_universal_style_compaction")
  THEN [set_write_buffer_size |-> term["optimize_universal_style_compaction"] \div 4,
        set_min_write_buffer_number_to_merge |-> 2,
        set_max_write_buffer_number |-> 6,
        set_compaction_style |-> "universal",
        compression_size_percent |-> 80]
  ELSE NothingSet

\* Later presets win over earlier ones.
Presets(term) == Over(UniversalStyle(term), Over(LevelStyle(term), Parallelism(term)))

\* Choices become values by a second match on the word, with a default arm.
Converted(key, value) ==
  IF key \in DOMAIN Choices /\ Spelling[value] \in Choices[key] THEN Spelling[value]
  ELSE value

Explicit(term) == [k \in DOMAIN term \ (PresetKeys \cup {MinLevel}) |-> Converted(k, term[k])]

Default == [create_if_missing |-> TRUE]

TypeOf(settings) == IF "set_compression_type" \in DOMAIN settings
                    THEN settings["set_compression_type"] ELSE DefaultType

\* set_min_level_to_compress fills in the types of all levels, with the type
\* that is set by then; a negative level is passed over.
Levelled(term, settings) ==
  IF Given(term, MinLevel) /\ term[MinLevel] >= 0
  THEN Over([compression_per_level |->
               [d \in Depths |-> IF d < term[MinLevel] THEN "none" ELSE TypeOf(settings)]],
            settings)
  ELSE settings

\* Flaw: the levels are filled in before the type is set.
Applied_LevelsFirst(term) ==
  Over(Explicit(term), Levelled(term, Over(Presets(term), Default)))

Applied(term) == Levelled(term, Over(Explicit(term), Over(Presets(term), Default)))

\* What RocksDB keeps for each family; the rest is the DB's.
FamilyFields ==
  FamilyPlain \cup
  {"set_max_bytes_for_level_multiplier_additional", "merge_operator",
   "set_compression_type", "set_bottommost_compression_type", "set_blob_compression_type",
   "set_compaction_style", "set_write_buffer_size", "set_min_write_buffer_number_to_merge",
   "set_max_write_buffer_number", "set_level_zero_file_num_compaction_trigger",
   "set_target_file_size_base", "set_max_bytes_for_level_base",
   "compression_per_level", "compression_size_percent"}
Part(settings, keys) == [k \in DOMAIN settings \cap keys |-> settings[k]]

\* What RocksDB goes by at a depth below the first level, the bottom aside: types
\* of levels, if there are any, before the type for all.
CompressionAt(settings, depth) ==
  IF "compression_per_level" \in DOMAIN settings
  THEN settings["compression_per_level"][depth] ELSE TypeOf(settings)

IsOn(settings, key) == key \in DOMAIN settings /\ settings[key] = TRUE
===============================================================================

------------------------------- MODULE MCStore -------------------------------
(* An instance of Store: two families, two keys, two spellings of a word. *)
EXTENDS Store

mcNames == {"default", "a"}
mcPlainKeys == {"create_if_missing", "create_missing_column_families",
                "set_error_if_exists", "set_write_buffer_size"}
mcFamilyPlain == {"set_write_buffer_size"}
mcSpelling == [t \in {" Level", "fifo ", "Zstd", "tiered"} |->
                 CASE t = " Level" -> "level" [] t = "fifo " -> "fifo"
                   [] t = "Zstd" -> "zstd" [] OTHER -> "tiered"]

One(key, value) == [k \in {key} |-> value]

mcTerms ==
  {NotMap,
   [create_if_missing |-> FALSE, create_missing_column_families |-> TRUE,
    optimize_level_style_compaction |-> 16, optimize_universal_style_compaction |-> 8,
    set_compression_type |-> "Zstd", set_min_level_to_compress |-> 1,
    set_compaction_style |-> " Level", increase_parallelism |-> 3,
    set_write_buffer_size |-> 1],
   [set_error_if_exists |-> TRUE, optimize_level_style_compaction |-> 16,
    optimize_universal_style_compaction |-> 8, set_compaction_style |-> "fifo ",
    set_compression_type |-> "Zstd", set_min_level_to_compress |-> -1,
    set_ratelimiter |-> <<Wide, Number, Number>>],
   [set_compaction_style |-> "tiered", set_ratelimiter |-> <<Number, Number, Wide>>],
   One("set_ratelimiter", <<Number, Junk, Number>>),
   One("set_max_bytes_for_level_multiplier_additional", <<Number, Wide>>),
   [max_open_files |-> 1, set_write_buffer_size |-> Junk],
   [k \in {NoAtom} |-> 1]}

Put(f, k, v)    == [kind |-> "put", family |-> f, key |-> k, value |-> v]
Merge(f, k, v)  == [kind |-> "merge", family |-> f, key |-> k, value |-> v]
Delete(f, k)    == [kind |-> "delete", family |-> f, key |-> k]
DeleteRange(f, from, to) == [kind |-> "delete_range", family |-> f, from |-> from, to |-> to]

mcWrites == {Put("default", 1, 1), Merge("a", 2, 2), Delete("a", 1),
             DeleteRange("a", 1, 2)}

mcBatches == {
              <<Put("default", 1, 2), Put("a", 1, 2)>>,
              <<Put("a", 1, 1), Delete("a", 1), Merge("a", 1, 2)>>,
              <<Put("default", 1, 1), Put("a", 2, 1), Junk>>}
===============================================================================

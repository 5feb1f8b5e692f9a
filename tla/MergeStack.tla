----------------------------- MODULE MergeStack -----------------------------
(***************************************************************************)
(* One key of a DB opened with a merge operator: put, delete and merge add *)
(* to the memtable, a flush writes what the memtable holds for the key to  *)
(* a file, a compaction joins the files, and get applies the operator to   *)
(* all operands above the youngest full value.  Flush and compaction are   *)
(* RocksDB's; they call the operator, without an existing value when they  *)
(* meet none, and a reopened DB is flushed before it is read.              *)
(***************************************************************************)
EXTENDS MergeOperators

CONSTANTS
  Kinds,      \* the merge operators a DB may be opened with
  Values,     \* for each kind, the values put writes
  Operands,   \* for each kind, the operands merge writes
  MaxWrites   \* bound: writes in a behaviour

IsList(s) == s \in Seq({s[i] : i \in DOMAIN s})

(* Arguments are lists, numbers integers; positions are those of an i32, or
   of a usize in a bitset. *)
ASSUME StackAssumption ==
  /\ MaxWrites \in Nat /\ Kinds \subseteq {"counter", "erlang", "bitset"}
  /\ \A k \in Kinds : \A t \in Values[k] \cup Operands[k] :
       /\ IsList(t.v)
       /\ t.type = "text" => t.v[1] \in Int
       /\ t.type = "list_set" => Len(t.v) = 1
       /\ t.type \in {"bit_set", "bit_clear"} => t.pos \in Nat
       /\ t.type \notin {"bit_set", "bit_clear"} =>
            {t.pos, t.n} \subseteq -I32Half .. I32Half - 1
  /\ \A k \in Kinds : \A t \in Values[k] :
       t.type \in {"text", "bytes", "int", "list", "bin"}

VARIABLES
  kind,       \* the merge operator of the DB
  mem,        \* what the memtable holds for the key
  files,      \* what the files hold for it, oldest first
  written,    \* history: the value and the operands written since
  writes,     \* history: the number of writes
  collapsed   \* history: two operands were merged without their value

vars == <<kind, mem, files, written, writes, collapsed>>

(* A layer replaces what is below it by a value, or leaves it (over), and
   adds operands. *)
Layer(over, value, operands) == [over |-> over, value |-> value, operands |-> operands]
Empty == Layer(FALSE, None, <<>>)

Above(low, high) ==
  IF high.over THEN high ELSE Layer(low.over, low.value, low.operands \o high.operands)

(* get: one call of the operator with all operands above the value *)
Applied(layer) ==
  IF layer.operands = <<>> THEN layer.value ELSE Merge(kind, layer.value, layer.operands)
Stacked(layers) ==
  LET below[i \in 0..Len(layers)] ==
        IF i = 0 THEN Empty ELSE Above(below[i - 1], layers[i])
  IN below[Len(layers)]
Read == Applied(Above(Stacked(files), mem))

(* MergeUntil: a value below the operands, or the bottom of the tree, makes
   a full merge; two operands or more make a partial one. *)
Written(layer, bottom) ==
  IF layer.over \/ bottom THEN Layer(TRUE, Applied(layer), <<>>)
  ELSE IF Len(layer.operands) < 2 THEN layer
  ELSE Layer(FALSE, None, <<PartialMerge(kind, layer.operands)>>)

Collapses(layer, bottom) == ~layer.over /\ ~bottom /\ Len(layer.operands) >= 2

----------------------------------------------------------------------------
Init ==
  /\ kind \in Kinds
  /\ mem = Empty /\ files = <<>> /\ written = Empty
  /\ writes = 0 /\ collapsed = FALSE

WriteOp(layer) ==
  /\ writes < MaxWrites /\ writes' = writes + 1
  /\ mem' = Above(mem, layer) /\ written' = Above(written, layer)
  /\ UNCHANGED <<kind, files, collapsed>>

Put == \E v \in Values[kind] : WriteOp(Layer(TRUE, v, <<>>))
Delete == WriteOp(Layer(TRUE, None, <<>>))
MergeOp == \E o \in Operands[kind] : WriteOp(Layer(FALSE, None, <<o>>))

(* A full memtable, a close, or the recovery of the write-ahead log *)
Flush ==
  /\ mem # Empty /\ mem' = Empty
  /\ files' = Append(files, Written(mem, FALSE))
  /\ collapsed' = (collapsed \/ Collapses(mem, FALSE))
  /\ UNCHANGED <<kind, written, writes>>

(* Two neighbouring files become one; below the oldest there is nothing. *)
Compact ==
  /\ Len(files) >= 2
  /\ \E i \in 1..(Len(files) - 1) :
       LET both == Above(files[i], files[i + 1]) IN
       /\ files' = SubSeq(files, 1, i - 1) \o <<Written(both, i = 1)>>
                     \o SubSeq(files, i + 2, Len(files))
       /\ collapsed' = (collapsed \/ Collapses(both, i = 1))
  /\ UNCHANGED <<kind, mem, written, writes>>

Next == Put \/ Delete \/ MergeOp \/ Flush \/ Compact

Spec == Init /\ [][Next]_vars

----------------------------------------------------------------------------
Lasting(t) == t.type \in {"none", "text", "bytes", "int", "list", "bin", "abort"}

(* Every variable has its type; what a layer replaces the rest by is a
   value, never an operation. *)
TypeOK ==
  /\ kind \in Kinds /\ writes \in 0..MaxWrites /\ collapsed \in BOOLEAN
  /\ \A l \in {mem, written} \cup {files[i] : i \in DOMAIN files} :
       /\ l.over \in BOOLEAN /\ Lasting(l.value)
       /\ ~l.over => l.value = None
       /\ Len(l.operands) <= MaxWrites
  /\ Len(files) <= MaxWrites

(* A read returns what the writes since the last put say, wherever RocksDB
   has put them in the meantime. *)
FlushInvisible == Read = Applied(written)

(* The erlang operator takes external terms and numbers as text; a key that
   holds both has no meaning a flush could keep. *)
Unmixed ==
  LET ops == written.operands
      terms == {IsEtf(ops[i]) : i \in DOMAIN ops}
                 \cup IF written.value = None THEN {} ELSE {IsEtf(written.value)}
  IN terms # BOOLEAN

(* A read can be wrong only for an operator other than the counter, and
   only after operands were merged without the value below them. *)
LossNeedsCollapse ==
  /\ kind = "counter" \/ ~collapsed
  /\ kind = "erlang" => Unmixed
  => FlushInvisible

----------------------------------------------------------------------------
(* What the cheatsheet says of a bitset: a bit is the last thing that was
   written about it since the bitset was cleared or put. *)
LastSays(p) ==
  LET ops == written.operands
      About(i) == (ops[i].type \in {"bit_set", "bit_clear"} /\ ops[i].pos = p) \/ Blank(ops[i])
      said == {i \in DOMAIN ops : About(i)}
  IN IF said = {} THEN BitOf(written.value.v, p)
     ELSE ops[CHOOSE i \in said : \A j \in said : j <= i].type = "bit_set"

(* While nothing is collapsed a bitset reads as its last writes say, also
   beyond its end. *)
BitsReadAsWritten ==
  kind = "bitset" /\ ~collapsed =>
    \A p \in 0..(3 * ByteBits) : BitOf(Read.v, p) = LastSays(p)

(* The edits of lists and binaries, said as a splice: the elements up to
   one position, the new ones, the elements from another position on. *)
Splice(s, from, new, to) == SubSeq(s, 1, from) \o new \o SubSeq(s, to + 1, Len(s))

OnBinaries == {"binary_append", "binary_erase", "binary_insert", "binary_replace"}
Edits == OnBinaries \cup
         {"list_append", "list_prepend", "list_set", "list_delete", "list_delete_range",
          "list_insert"}

(* The elements from o.pos up to, not including, end are inside s. *)
Inside(s, o, end) == 0 <= o.pos /\ o.pos <= end /\ end <= Len(s)

SpliceOf(s, o) ==
  CASE o.type \in {"list_append", "binary_append"}
         -> Splice(s, Len(s), o.v, Len(s))
    [] o.type = "list_prepend" -> Splice(s, 0, o.v, 0)
    [] o.type = "list_set" /\ Inside(s, o, o.pos + 1)
         -> Splice(s, o.pos, o.v, o.pos + 1)
    [] o.type = "list_delete" /\ Inside(s, o, o.pos + 1)
         -> Splice(s, o.pos, <<>>, o.pos + 1)
    [] o.type = "list_delete_range" /\ Inside(s, o, o.n) /\ o.pos < Len(s)
         -> Splice(s, o.pos, <<>>, o.n)
    [] o.type \in {"list_insert", "binary_insert"} /\ Inside(s, o, o.pos)
         -> Splice(s, o.pos, o.v, o.pos)
    [] o.type = "binary_erase" /\ Inside(s, o, o.pos + o.n)
         -> Splice(s, o.pos, <<>>, o.pos + o.n)
    [] o.type = "binary_replace" /\ Inside(s, o, o.pos + o.n)
         -> Splice(s, o.pos, o.v, o.pos + o.n)
    [] OTHER -> s

(* A range that ends before it starts, with both ends inside s; a negative
   count makes one when the sum wraps. *)
Reversed(s, o) ==
  \/ o.type = "list_delete_range" /\ 0 <= o.n /\ o.n < o.pos /\ o.pos < Len(s)
  \/ o.type \in {"binary_erase", "binary_replace"}
       /\ o.n < 0 /\ 0 <= o.pos + o.n /\ o.pos <= Len(s)

(* Whatever is stored, reading it through one more edit is the splice the
   edit stands for, or the value itself when a position is out of bounds,
   negative ones and sums that wrap included; a range is drained in the
   wrong direction exactly if it is reversed. *)
EditsAreSplices ==
  kind = "erlang" /\ Read # Aborted =>
    \A o \in {e \in Operands[kind] : e.type \in Edits} :
      LET bin == o.type \in OnBinaries
          s == IF bin THEN BinOf(Read) ELSE ListOf(Read)
      IN ErlangStep(Read, o) =
           IF Reversed(s, o) THEN Aborted
           ELSE Term(IF bin THEN "bin" ELSE "list", SpliceOf(s, o))

(* MERGE_OPERATOR.md: "Proper bounds checking and error handling": no
   operand makes the operator panic. *)
BoundsChecked == Read # Aborted
=============================================================================

--------------------------- MODULE MergeOperators ---------------------------
(***************************************************************************)
(* The three merge operators of merge.rs as functions of an existing value *)
(* and the operands RocksDB hands over, oldest first.                      *)
(*                                                                         *)
(* A stored value or an operand is a term [type, v, pos, n].  Values are   *)
(* "none" (no value), "text" (a decimal number; v holds it), "bytes" (any  *)
(* other byte string; v lists the bytes) and the external terms "int",     *)
(* "list" and "bin".                                                       *)
(* Other types name an operation: v is its argument, pos and n its         *)
(* position and its count or end.  "other" is an external term that is no  *)
(* value and no operation these operators know.                            *)
(***************************************************************************)
EXTENDS Integers, Sequences, SequencesExt

CONSTANTS
  I64Half,     \* the integers of an i64 are -I64Half .. I64Half - 1
  I32Half,     \* the same for an i32
  UsizeWords,  \* the integers of a usize are 0 .. UsizeWords - 1
  ByteBits     \* the bits of a byte of a bitset

ASSUME WidthAssumption ==
  /\ {I64Half, I32Half, UsizeWords, ByteBits} \subseteq Nat \ {0}
  /\ I32Half <= I64Half

Term(type, v) == [type |-> type, v |-> v, pos |-> 0, n |-> 0]
None == Term("none", <<>>)
(* drain(start..end) with start > end panics, which ends the VM when it
   happens below a callback from C++. *)
Aborted == Term("abort", <<>>)

Wrap(n, half) == ((n + half) % (2 * half)) - half
Usize(n) == n % UsizeWords

(* str::parse::<i64>, with 0 for what is no number *)
Number(t) == IF t.type = "text" THEN t.v[1] ELSE 0

----------------------------------------------------------------------------
(* "counter_merge_operator": text that is no number counts for nothing *)

CounterStep(t, o) == Term("text", <<Wrap(Number(t) + Number(o), I64Half)>>)

----------------------------------------------------------------------------
(* "bitset_merge_operator": "+pos", "-pos" and the empty string.  A byte is
   the set of its bits that are 1, bit 0 the lowest. *)

BitOf(bytes, p) ==
  p \div ByteBits < Len(bytes) /\ p % ByteBits \in bytes[p \div ByteBits + 1]

Resized(bytes, len) == bytes \o [i \in 1..(len - Len(bytes)) |-> {}]

SetBit_NoResize(bytes, p) ==
  IF p \div ByteBits >= Len(bytes) THEN bytes
  ELSE [bytes EXCEPT ![p \div ByteBits + 1] = @ \cup {p % ByteBits}]
SetBit(bytes, p) ==
  LET wide == IF p \div ByteBits >= Len(bytes) THEN Resized(bytes, p \div ByteBits + 1)
              ELSE bytes
  IN [wide EXCEPT ![p \div ByteBits + 1] = @ \cup {p % ByteBits}]

ClearBit(bytes, p) ==
  IF p \div ByteBits < Len(bytes)
  THEN [bytes EXCEPT ![p \div ByteBits + 1] = @ \ {p % ByteBits}]
  ELSE bytes

(* The characters that str::trim takes for white space, in UTF-8; a byte is the
   set of its bits. *)
Coded(code) == {i \in 0..7 : (code \div 2^i) % 2 = 1}
WhiteSpace ==
  {<<Coded(c)>> : c \in 9..13 \cup {32}}
    \cup {<<Coded(194), Coded(c)>> : c \in {133, 160}}
    \cup {<<Coded(225), Coded(154), Coded(128)>>, <<Coded(227), Coded(128), Coded(128)>>,
          <<Coded(226), Coded(129), Coded(159)>>}
    \cup {<<Coded(226), Coded(128), Coded(c)>> : c \in 128..138 \cup {168, 169, 175}}

(* A byte string that trims to nothing clears the bitset, whether a caller
   wrote "" or a bitset happens to consist of white space. *)
Blank(t) ==
  /\ t.type = "bytes"
  /\ LET blank[i \in 0..Len(t.v)] ==
           i = 0 \/ \E space \in WhiteSpace :
                      /\ Len(space) <= i /\ SubSeq(t.v, i - Len(space) + 1, i) = space
                      /\ blank[i - Len(space)]
     IN  blank[Len(t.v)]

BitStep(t, o) ==
  CASE o.type = "bit_set"   -> Term("bytes", SetBit(t.v, o.pos))
    [] o.type = "bit_clear" -> Term("bytes", ClearBit(t.v, o.pos))
    [] Blank(o)             -> Term("bytes", <<>>)
    [] OTHER                -> t

----------------------------------------------------------------------------
(* "erlang_merge_operator": the operation tuples on external terms.  A value
   of another type than the operation's is taken for an empty one. *)

ListOf(t) == IF t.type = "list" THEN t.v ELSE <<>>
BinOf(t) == IF t.type = "bin" THEN t.v ELSE <<>>

IntAdd(t, o) ==
  Term("int", <<Wrap((IF t.type = "int" THEN t.v[1] ELSE 0) + o.v[1], I32Half)>>)

ListAppend(t, o) == Term("list", ListOf(t) \o o.v)

(* elements.insert(at + i, elem) for each element in turn *)
InsertAll_Backwards(s, at, elems) ==
  LET done[i \in 0..Len(elems)] ==
        IF i = 0 THEN s ELSE InsertAt(done[i - 1], at + 1, elems[i])
  IN done[Len(elems)]
InsertAll(s, at, elems) ==
  LET done[i \in 0..Len(elems)] ==
        IF i = 0 THEN s ELSE InsertAt(done[i - 1], at + i, elems[i])
  IN done[Len(elems)]

ListPrepend(t, o) == Term("list", InsertAll(ListOf(t), 0, o.v))

(* elements.retain: each element that is not among elems stays *)
Retained(s, elems) ==
  LET kept[i \in 0..Len(s)] ==
        IF i = 0 THEN <<>>
        ELSE IF Contains(elems, s[i]) THEN kept[i - 1] ELSE Append(kept[i - 1], s[i])
  IN kept[Len(s)]

ListSubtract(t, o) == Term("list", Retained(ListOf(t), o.v))

ListSet(t, o) ==
  LET at == Usize(o.pos) IN
  Term("list", IF at < Len(ListOf(t)) THEN [ListOf(t) EXCEPT ![at + 1] = o.v[1]] ELSE ListOf(t))

(* Vec::drain of the elements from start up to, not including, end *)
Drain(s, start, end) == SubSeq(s, 1, start) \o SubSeq(s, end + 1, Len(s))

ListDelete(t, o) ==
  LET at == Usize(o.pos) IN
  Term("list", IF at < Len(ListOf(t)) THEN RemoveAt(ListOf(t), at + 1) ELSE ListOf(t))

ListDeleteRange(t, o) ==
  LET start == Usize(o.pos)  end == Usize(o.n)  list == ListOf(t) IN
  IF ~(start < Len(list) /\ end <= Len(list)) THEN Term("list", list)
  ELSE IF start > end THEN Aborted
  ELSE Term("list", Drain(list, start, end))

ListInsert(t, o) ==
  LET at == Usize(o.pos) IN
  Term("list", IF at <= Len(ListOf(t)) THEN InsertAll(ListOf(t), at, o.v) ELSE ListOf(t))

BinAppend(t, o) == Term("bin", BinOf(t) \o o.v)

(* The end of the range is computed with the wrapping addition of a build
   without overflow checks. *)
BinErase(t, o) ==
  LET start == Usize(o.pos)  end == Usize(start + Usize(o.n))  bin == BinOf(t) IN
  IF ~(start <= Len(bin) /\ end <= Len(bin)) THEN Term("bin", bin)
  ELSE IF start > end THEN Aborted
  ELSE Term("bin", Drain(bin, start, end))

BinInsert(t, o) ==
  LET at == Usize(o.pos) IN
  Term("bin", IF at <= Len(BinOf(t)) THEN InsertAll(BinOf(t), at, o.v) ELSE BinOf(t))

BinReplace(t, o) ==
  LET start == Usize(o.pos)  end == Usize(start + Usize(o.n))  bin == BinOf(t) IN
  IF ~(start <= Len(bin) /\ end <= Len(bin)) THEN Term("bin", bin)
  ELSE IF start > end THEN Aborted
  ELSE Term("bin", InsertAll(Drain(bin, start, end), start, o.v))

(* process_eetf_merge_operation: a term that is no operation changes nothing *)
ErlangStep(t, o) ==
  CASE t = Aborted                   -> Aborted
    [] o.type = "int_add"            -> IntAdd(t, o)
    [] o.type = "list_append"        -> ListAppend(t, o)
    [] o.type = "list_prepend"       -> ListPrepend(t, o)
    [] o.type = "list_subtract"      -> ListSubtract(t, o)
    [] o.type = "list_set"           -> ListSet(t, o)
    [] o.type = "list_delete"        -> ListDelete(t, o)
    [] o.type = "list_delete_range"  -> ListDeleteRange(t, o)
    [] o.type = "list_insert"        -> ListInsert(t, o)
    [] o.type = "binary_append"      -> BinAppend(t, o)
    [] o.type = "binary_erase"       -> BinErase(t, o)
    [] o.type = "binary_insert"      -> BinInsert(t, o)
    [] o.type = "binary_replace"     -> BinReplace(t, o)
    [] OTHER                         -> t

(* EetfTerm::decode succeeds on all but plain byte strings. *)
IsEtf(t) == t.type \notin {"none", "text", "bytes"}

----------------------------------------------------------------------------
(* The loops over the operands *)

Step(kind, t, o) ==
  CASE kind = "counter" -> CounterStep(t, o)
    [] kind = "erlang"  -> IF IsEtf(o) THEN ErlangStep(t, o) ELSE t
    [] kind = "bitset"  -> BitStep(t, o)

InTurn(kind, start, operands) ==
  LET t[i \in 0..Len(operands)] ==
        IF i = 0 THEN start ELSE Step(kind, t[i - 1], operands[i])
  IN t[Len(operands)]

CounterMerge_ForgetsOne(existing, operands) ==
  InTurn("counter", Term("text", <<Number(existing)>>), Tail(operands))
CounterMerge(existing, operands) ==
  InTurn("counter", Term("text", <<Number(existing)>>), operands)

BitsetMerge(existing, operands) == InTurn("bitset", Term("bytes", existing.v), operands)

(* Operands that are no external terms count only when none of them is, or
   when no value came of those that are: then the counter takes over. *)
ErlangMerge_TakesLast(existing, operands) == Last(operands)
ErlangMerge(existing, operands) ==
  LET result == InTurn("erlang", IF IsEtf(existing) THEN existing ELSE None, operands)
  IN IF (\E i \in DOMAIN operands : IsEtf(operands[i])) /\ result # None
     THEN result ELSE CounterMerge(existing, operands)

----------------------------------------------------------------------------
(* Options::from: the operator a name selects, and set_merge_operator_
   associative, which makes one function serve full and partial merges: a
   partial merge has operands but no existing value. *)
Merge(kind, existing, operands) ==
  CASE kind = "counter" -> CounterMerge(existing, operands)
    [] kind = "erlang"  -> ErlangMerge(existing, operands)
    [] kind = "bitset"  -> BitsetMerge(existing, operands)

PartialMerge(kind, operands) == Merge(kind, None, operands)
=============================================================================

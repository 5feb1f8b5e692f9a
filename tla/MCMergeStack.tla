---------------------------- MODULE MCMergeStack ----------------------------
(***************************************************************************)
(* Values and operands of each merge operator.  The widths are scaled      *)
(* down: i64 sums wrap at 8, i32 sums at 4, a usize at 64; a byte of a     *)
(* bitset has its 8 bits.  The bits of one byte are written, so a bitset   *)
(* that is read as an operand is blank or says nothing.                    *)
(***************************************************************************)
EXTENDS MergeStack

AllKinds == {"counter", "erlang", "bitset"}
LossyKinds == {"erlang", "bitset"}
OnlyErlang == {"erlang"}

Op(type, v, pos, n) == [type |-> type, v |-> v, pos |-> pos, n |-> n]
Text(n) == Term("text", <<n>>)
Junk == Term("bytes", <<{0, 5}>>)

SomeValues ==
  [counter |-> {Text(5), Junk},
   bitset  |-> {Term("bytes", <<>>), Term("bytes", <<{1}, {0}>>)},
   erlang  |-> {Term("list", <<1, 2, 3>>), Term("bin", <<1, 2>>), Term("int", <<3>>), Text(2)}]

(* Operands within their bounds and beyond them on either side; ranges that
   are reversed *)
ErlangOperands ==
  {Op("int_add", <<2>>, 0, 0), Op("list_append", <<4>>, 0, 0),
   Op("list_prepend", <<5, 6>>, 0, 0), Op("list_subtract", <<1, 4>>, 0, 0),
   Op("list_set", <<7>>, -1, 0), Op("list_set", <<7>>, 2, 0),
   Op("list_delete", <<>>, 0, 0), Op("list_delete_range", <<>>, 1, 3),
   Op("list_delete_range", <<>>, 2, 1), Op("list_insert", <<8, 9>>, 1, 0),
   Op("binary_append", <<3>>, 0, 0), Op("binary_erase", <<>>, 1, 1),
   Op("binary_erase", <<>>, -1, 2), Op("binary_erase", <<>>, 2, -1),
   Op("binary_insert", <<4, 5>>, 1, 0), Op("binary_replace", <<6, 7>>, 0, 1),
   Text(1), Term("other", <<>>)}

SomeOperands ==
  [counter |-> {Text(1), Text(-3), Text(7), Junk},
   bitset  |-> {Op("bit_set", <<>>, p, 0) : p \in {1, 3, 5}}
                 \cup {Op("bit_set", <<>>, 9, 0), Op("bit_clear", <<>>, 3, 0), Term("bytes", <<>>)},
   erlang  |-> ErlangOperands]

(* A range whose end is before its start, both inside the list *)
ReversedOperands ==
  [SomeOperands EXCEPT !.erlang = {Op("list_append", <<1, 2, 3>>, 0, 0), Op("list_delete_range", <<>>, 2, 1)}]
=============================================================================

-------------------------- MODULE MCIteratorPaging --------------------------
(***************************************************************************)
(* Three keys whose entries are smaller than, as large as and larger than  *)
(* the byte bounds in use.                                                 *)
(***************************************************************************)
EXTENDS IteratorPaging

ThreeKeys == 1..3
EntrySizes == <<1, 3, 2>>

\* The first two keys share a prefix.
KeyPrefixes == <<1, 1, 2>>

\* Every from and to without options; options for a part of the keys with
\* every way to give from and to beside them.
BoundsAsked ==
  [from : Bound, to : Bound, lower : {None}, upper : {None}]
    \cup [from : {None, 1}, to : {None, 2}, lower : {2}, upper : {3}]
=============================================================================

--------------------------- MODULE IteratorPaging ---------------------------
(***************************************************************************)
(* An IteratorResource being read: where iterator, iterator_range,         *)
(* prefix_iterator and the _cf variants position the native DBIterator,    *)
(* between which bounds, the loop of iterator_take                         *)
(* that fills a page under the max_entries and max_bytes bounds, the row   *)
(* it carries over in "pending", and next.  The mutex around the state     *)
(* makes calls follow one another; the view of the store is fixed when the *)
(* native iterator is made.  A native read may fail, and so may the        *)
(* allocation of a binary for the reply.                                   *)
(***************************************************************************)
EXTENDS Integers, Sequences, FiniteSetsExt

CONSTANTS
  Keys,          \* the keys, naturals, in the order of RocksDB's comparator
  Size,          \* the bytes of a key and its value, a function on Keys
  PrefixOf,      \* what the prefix extractor finds in a key, a function on Keys
  EntryLimits,   \* the values of max_entries used
  ByteLimits,    \* the values of max_bytes used
  Requests,      \* the bounds callers ask for
  MaxFaults,     \* bound: native and allocation failures in a behaviour
  None,          \* no bound, no pending row, no max_bytes
  End, Failed    \* the native iterator ran out of rows, or hit an error

Bound == Keys \cup {None}
NoRequest == [from |-> None, to |-> None, lower |-> None, upper |-> None]

ASSUME PagingAssumption ==
  /\ Keys \subseteq Nat /\ IsFiniteSet(Keys)
  /\ Size \in [Keys -> Nat] /\ DOMAIN PrefixOf = Keys
  /\ EntryLimits \subseteq Nat \ {0} /\ ByteLimits \subseteq Nat \ {0}
  /\ NoRequest \in Requests
  /\ Requests \subseteq [from : Bound, to : Bound, lower : Bound, upper : Bound]
  /\ MaxFaults \in Nat /\ {None, End, Failed} \cap Nat = {} /\ End # Failed

VARIABLES
  store,      \* the keys of the iterator's view
  asked,      \* from and to of iterator_range, and the bounds in its options
  from, to,   \* the bounds the native iterator was made with
  mode,       \* the name, key and direction iterator_mode decoded
  extractor,  \* whether the DB, or the family, has a prefix extractor
  cursor,     \* the native iterator: on a key, End or Failed
  done,       \* DBIterator.done
  pending,    \* the row an earlier page had no room for
  call,       \* "idle", "take" or "next"
  limits,     \* the options of the current take
  rows,       \* the rows of the current or last reply
  bytes,      \* payload_bytes
  reply,      \* the status of the last reply
  delivered,  \* history: every row a caller got, in order
  faults      \* history: how many failures there were

view == <<store, asked, from, to, mode, extractor>>
vars == <<view, cursor, done, pending, call, limits, rows, bytes, reply, delivered, faults>>

----------------------------------------------------------------------------
(* The native iterator: bounded, in one direction *)

(* iterator_range: bounds from the options first; set_iterate_range then sets
   both ends, and so takes back the one it is not given. *)
Bounds(req) == IF req.from = None /\ req.to = None
               THEN [lower |-> req.lower, upper |-> req.upper]
               ELSE [lower |-> req.from, upper |-> req.to]

InRange(k) == (from # None => k >= from) /\ (to # None => k < to)

(* prefix_iterator asks for the prefix of its key; RocksDB heeds that only
   with an extractor. *)
SamePrefix(k) == mode.name = "prefix" /\ extractor => PrefixOf[k] = PrefixOf[mode.key]

Visible == {k \in store : InRange(k) /\ SamePrefix(k)}

(* The direction counts only in the mode "from"; "end" walks backwards. *)
Backwards == mode.name = "end" \/ (mode.name = "from" /\ mode.dir = "reverse")

First(S) == IF S = {} THEN End ELSE IF Backwards THEN Max(S) ELSE Min(S)

(* SeekToFirst, SeekToLast, Seek and SeekForPrev, inside the bounds *)
Seek ==
  First(IF mode.key = None THEN Visible
        ELSE {k \in Visible : IF Backwards THEN k <= mode.key ELSE k >= mode.key})

Successor(k) == First({j \in Visible : IF Backwards THEN j < k ELSE j > k})

(* state.pending.take(), or else state.iter.next() *)
OnRow == pending # None \/ (~done /\ cursor \in Keys)
Row == IF pending # None THEN pending ELSE cursor

(* A row that was not pending moves the native iterator on.  An error on the
   way shows only when the next row is asked for. *)
Advance ==
  /\ UNCHANGED done
  /\ IF pending # None THEN UNCHANGED <<cursor, faults>>
     ELSE \/ cursor' = Successor(cursor) /\ UNCHANGED faults
          \/ faults < MaxFaults /\ faults' = faults + 1 /\ cursor' = Failed

Moved_KeepsPending == Advance /\ UNCHANGED pending
Moved == Advance /\ pending' = None

(* The row is taken, but a binary for it cannot be allocated. *)
Lost ==
  /\ faults < MaxFaults /\ faults' = faults + 1
  /\ cursor' = (IF pending # None THEN cursor ELSE Successor(cursor))
  /\ pending' = None /\ UNCHANGED done

(* DBIterator answers None once it is done, whatever ended it. *)
Exhausted == pending = None /\ (done \/ cursor = End)
Broken == pending = None /\ ~done /\ cursor = Failed

----------------------------------------------------------------------------
Answer(status, page) ==
  /\ call' = "idle" /\ reply' = status
  /\ rows' = page /\ delivered' = delivered \o page
  /\ bytes' = 0 /\ UNCHANGED <<view, limits>>

Stay == UNCHANGED <<cursor, done, pending, faults>>

(* iterator_take: options are decoded before the lock is taken. *)
StartTake_OneLess(entries, max) ==
  /\ call = "idle" /\ call' = "take"
  /\ limits' = [entries |-> entries - 1, bytes |-> max]
  /\ rows' = <<>> /\ bytes' = 0
  /\ UNCHANGED <<view, reply, delivered>> /\ Stay
StartTake(entries, max) ==
  /\ call = "idle" /\ call' = "take"
  /\ limits' = [entries |-> entries, bytes |-> max]
  /\ rows' = <<>> /\ bytes' = 0
  /\ UNCHANGED <<view, reply, delivered>> /\ Stay

(* Options that are no map of the two keys, without max_entries, or with a
   bound that is 0 or too large *)
RefuseTake == call = "idle" /\ Stay /\ Answer("refused", <<>>)

Room == Len(rows) < limits.entries
(* The first row of a page is returned however large it is. *)
Fits_EvenFirst == limits.bytes # None => bytes + Size[Row] <= limits.bytes
Fits_LooksBack == limits.bytes # None /\ rows # <<>> => bytes <= limits.bytes
Fits == limits.bytes # None /\ rows # <<>> => bytes + Size[Row] <= limits.bytes
ByteBoundReached == limits.bytes # None /\ bytes >= limits.bytes
Continues == call = "take" /\ Room /\ (rows = <<>> \/ ~ByteBoundReached)

TakeRow ==
  /\ Continues /\ OnRow /\ Fits
  /\ rows' = Append(rows, Row) /\ bytes' = bytes + Size[Row]
  /\ Moved
  /\ UNCHANGED <<view, call, limits, reply, delivered>>

(* The row that does not fit waits for the next call. *)
TakeCarry_Forgets ==
  /\ Continues /\ OnRow /\ ~Fits
  /\ Moved /\ Answer("more", rows)
TakeCarry ==
  /\ Continues /\ OnRow /\ ~Fits
  /\ Advance /\ pending' = Row
  /\ Answer("more", rows)

TakeFull_SaysEnd ==
  /\ call = "take" /\ ~Continues
  /\ Stay /\ Answer("end_of_iterator", rows)
TakeFull ==
  /\ call = "take" /\ ~Continues
  /\ Stay /\ Answer("more", rows)

TakeEnd ==
  /\ Continues /\ Exhausted
  /\ done' = TRUE /\ UNCHANGED <<cursor, pending, faults>>
  /\ Answer("end_of_iterator", rows)

(* An error drops the page read so far: the reply has the reason alone. *)
TakeError ==
  /\ Continues /\ Broken
  /\ done' = TRUE /\ UNCHANGED <<cursor, pending, faults>>
  /\ Answer("error", <<>>)

(* OwnedBinary::new fails: BadArg, after the row was taken. *)
TakeBadArg ==
  /\ Continues /\ OnRow /\ Fits
  /\ Lost /\ Answer("badarg", <<>>)

----------------------------------------------------------------------------
StartNext ==
  /\ call = "idle" /\ call' = "next"
  /\ rows' = <<>>
  /\ UNCHANGED <<view, limits, bytes, reply, delivered>> /\ Stay

NextRow ==
  /\ call = "next" /\ OnRow
  /\ Moved /\ Answer("row", <<Row>>)

NextEnd ==
  /\ call = "next" /\ Exhausted
  /\ done' = TRUE /\ UNCHANGED <<cursor, pending, faults>>
  /\ Answer("end_of_iterator", <<>>)

NextError ==
  /\ call = "next" /\ Broken
  /\ done' = TRUE /\ UNCHANGED <<cursor, pending, faults>>
  /\ Answer("error", <<>>)

NextBadArg ==
  /\ call = "next" /\ OnRow
  /\ Lost /\ Answer("badarg", <<>>)

----------------------------------------------------------------------------
(* The modes: {:start}, {:end}, {:from, key}, {:from, key, direction}, and the
   forward scan of prefix_iterator; only iterator_range sets bounds. *)
Modes == [name : {"start", "end"}, key : {None}, dir : {"forward", "reverse"}]
           \cup [name : {"from"}, key : Keys, dir : {"forward", "reverse"}]
           \cup [name : {"prefix"}, key : Keys, dir : {"forward"}]

Init ==
  /\ store \in SUBSET Keys
  /\ mode \in Modes /\ extractor \in BOOLEAN
  /\ asked \in Requests
  /\ IF mode.name = "prefix" THEN asked = NoRequest ELSE ~extractor
  /\ from = Bounds(asked).lower /\ to = Bounds(asked).upper
  /\ cursor = Seek
  /\ done = FALSE /\ pending = None
  /\ call = "idle" /\ limits = [entries |-> 1, bytes |-> None]
  /\ rows = <<>> /\ bytes = 0 /\ reply = "none"
  /\ delivered = <<>> /\ faults = 0

Take == TakeRow \/ TakeCarry \/ TakeFull \/ TakeEnd \/ TakeError \/ TakeBadArg
NextOne == NextRow \/ NextEnd \/ NextError \/ NextBadArg

Start == StartNext \/ \E e \in EntryLimits, b \in ByteLimits \cup {None} : StartTake(e, b)

Next == Start \/ RefuseTake \/ Take \/ NextOne

Spec == Init /\ [][Next]_vars

(* A caller that keeps asking, and calls that run *)
FairSpec == Spec /\ WF_vars(Start) /\ WF_vars(Take) /\ WF_vars(NextOne)

----------------------------------------------------------------------------
(* Every variable has its type. *)
TypeOK ==
  /\ store \subseteq Keys /\ asked \in Requests /\ from \in Bound /\ to \in Bound
  /\ mode \in Modes /\ extractor \in BOOLEAN
  /\ cursor \in Keys \cup {End, Failed} /\ done \in BOOLEAN
  /\ pending \in Keys \cup {None}
  /\ call \in {"idle", "take", "next"}
  /\ limits \in [entries : Nat \ {0}, bytes : (Nat \ {0}) \cup {None}]
  /\ rows \in Seq(Keys) /\ delivered \in Seq(Keys) /\ bytes \in Nat
  /\ reply \in {"none", "row", "more", "end_of_iterator", "error", "badarg", "refused"}
  /\ faults \in 0..MaxFaults

(* The rows a scan is about, in order, said without a cursor: from and to
   delimit it if one of them is given, the bounds of the options if not. *)
Wanted ==
  {k \in store :
     /\ IF asked.from = None /\ asked.to = None
        THEN (asked.lower = None \/ asked.lower <= k) /\ (asked.upper = None \/ k < asked.upper)
        ELSE (asked.from = None \/ asked.from <= k) /\ (asked.to = None \/ k < asked.to)
     /\ CASE mode.name = "from" -> IF mode.dir = "forward" THEN mode.key <= k ELSE k <= mode.key
          [] mode.name = "prefix" -> mode.key <= k /\ (extractor => PrefixOf[k] = PrefixOf[mode.key])
          [] OTHER -> TRUE}
Precedes(j, k) ==
  IF mode.name = "end" \/ (mode.dir = "reverse" /\ mode.name = "from") THEN j > k ELSE j < k

InFlight == IF call = "take" THEN rows ELSE <<>>
Carried == IF pending = None THEN <<>> ELSE <<pending>>
Out == delivered \o InFlight \o Carried

(* Pages and single rows, mixed in any way, deliver every row exactly once
   and in order while nothing fails: of what was delivered, what the call in
   progress has and what is carried over, each row comes after the wanted
   rows that precede it and after no others. *)
NoGapNoRepeat ==
  faults = 0 =>
    \A i \in DOMAIN Out :
      Out[i] \in Wanted /\ {Out[j] : j \in 1..(i - 1)} = {k \in Wanted : Precedes(k, Out[i])}

(* Failures may lose rows but never deliver one twice or out of order. *)
NeverTwice == \A i, j \in DOMAIN Out : i < j => Precedes(Out[i], Out[j])

Total(s) ==
  LET sum[i \in 0..Len(s)] == IF i = 0 THEN 0 ELSE sum[i - 1] + Size[s[i]] IN sum[Len(s)]

(* A page keeps both bounds, but for a single row that is too large. *)
PageWithinBounds ==
  call = "idle" /\ reply \in {"more", "end_of_iterator"} =>
    /\ Len(rows) <= limits.entries
    /\ limits.bytes # None => (Total(rows) <= limits.bytes \/ Len(rows) = 1)

(* A page that promises more has a row: the caller is never sent round. *)
MoreHasRows == call = "idle" /\ reply = "more" => rows # <<>>

(* Unless something failed, the end is announced when every row is out. *)
EndIsComplete ==
  call = "idle" /\ reply = "end_of_iterator" /\ faults = 0 =>
    {delivered[i] : i \in DOMAIN delivered} = Wanted

(* A scan that goes on asking comes to its end, whatever the bounds. *)
ScanEnds == <>(reply = "end_of_iterator")

(* ADR002: ":end_of_iterator means exhaustion was observed during the call".
   After a native error the crate's iterator is done, and the following
   calls answer end_of_iterator although the scan stopped half way. *)
EndMeansExhaustion ==
  call = "idle" /\ reply = "end_of_iterator" => cursor = End
=============================================================================

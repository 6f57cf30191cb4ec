------------------------------- MODULE BufOps -------------------------------
(***************************************************************************)
(* The ring buffers of src/buf.c as operators on a descriptor (buf_desc):  *)
(*   size   number of elements, 0 for BUF_SIZE_NONE (no buffer)            *)
(*   room   elements the memory block really holds                         *)
(*   wptr   where the next element is written, as an element index         *)
(*   rptr   where the next element is read                                 *)
(*   count  elements written and not read                                  *)
(*   data   the elements; what realloc leaves uninitialized is NoData      *)
(***************************************************************************)
EXTENDS Integers

CONSTANTS
  MaxSize,  \* bound: the largest size used
  NoData    \* content of memory never written

ASSUME BufAssumption == MaxSize \in Nat \ {0}

NoBuffer ==
  [size |-> 0, room |-> 0, wptr |-> 0, rptr |-> 0, count |-> 0,
   data |-> [i \in 0 .. MaxSize - 1 |-> NoData]]

\* Slip: the index not wrapped.
ModIncrNoWrap(b, p) == p + 1

\* BUF_MOD_INCR, size being a power of two.
ModIncr(b, p) == (p + 1) % b.size

Rejects(b) == b.size = 0 \/ b.count > b.size

BufWrite(b, v) ==
  IF Rejects(b) THEN b
  ELSE [b EXCEPT !.data[b.wptr] = v, !.wptr = ModIncr(b, @), !.count = @ + 1]

BufGetCount(b) == b.count

BufEmpty(b) == b.size = 0 \/ b.count = 0

\* realloc to n elements: the block keeps what fits of its old content.
Resized(b, n) ==
  [b EXCEPT !.room = n,
            !.data = [i \in 0 .. MaxSize - 1 |-> IF i < b.room /\ i < n THEN @[i] ELSE NoData]]

\* Slip: the size kept when there is no memory for it.
LostKeepsSize(b) == [b EXCEPT !.room = 0, !.count = 0, !.wptr = 0, !.rptr = 0]

\* realloc fails.
Lost(b) == [NoBuffer EXCEPT !.data = b.data]
=============================================================================

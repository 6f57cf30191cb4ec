------------------------------ MODULE RingBuf ------------------------------
(***************************************************************************)
(* The buffers of src/buf.c between an interrupt handler that writes them  *)
(* and the main program that sets them up and reads them (emptying them in *)
(* use is in Adc).                                                         *)
(*                                                                         *)
(* A write is one step, since interrupts do not nest.  A call of the main  *)
(* program is a list of steps, `todo', on the buffer `on', a write         *)
(* possibly between any two.  buf_read masks interrupts around the         *)
(* decrement of count alone, which makes that decrement one step.          *)
(***************************************************************************)
EXTENDS Sequences, FiniteSets, BufOps

CONSTANTS
  Bufs,     \* the buffers
  Sizes     \* the sizes buf_set is called with

ASSUME RingBufAssumption == Sizes \subseteq 1 .. MaxSize

VARIABLES
  buf,      \* the descriptors
  on, todo, \* the buffer and the steps left of the call in progress
  reg,      \* the element buf_read has copied out
  taken     \* history, for each buffer: the element buf_read returned last

ringVars == <<buf, on, todo, reg, taken>>

Doing(op) == todo # <<>> /\ Head(todo) = op
Done == todo' = Tail(todo) /\ UNCHANGED on

\* buf_set at start-up, on descriptors that are all zeros.
RingInit ==
  /\ \E n \in Sizes : buf = [b \in Bufs |-> [NoBuffer EXCEPT !.size = n, !.room = n]]
  /\ on \in Bufs /\ todo = <<>> /\ reg = NoData /\ taken = [b \in Bufs |-> <<>>]

-----------------------------------------------------------------------------
\* buf_write by the device's interrupt handler, the device being silent while the
\* buffer is set up.
Write(b, v) ==
  /\ ~(on = b /\ Doing("realloc"))
  /\ buf' = [buf EXCEPT ![b] = BufWrite(@, v)]
  /\ UNCHANGED <<on, todo, reg, taken>>

-----------------------------------------------------------------------------
\* Slip: the slot handed back to the writer before it is copied.
ReadStepsEarlyRelease == <<"decrement", "copy", "advance">>

ReadSteps == <<"copy", "decrement", "advance">>

Call(b, steps) == todo = <<>> /\ todo' = steps /\ on' = b /\ UNCHANGED <<buf, reg, taken>>

\* PLATFORM_UNDERFLOW on an empty buffer; otherwise the copy and the counters.
BufRead(b) == ~BufEmpty(buf[b]) /\ Call(b, ReadSteps)

\* buf_set as platform_uart_set_buffer uses it, on a buffer that was not used yet:
\* the size is stored, then the memory block replaced.
BufSet(b, n) ==
  /\ todo = <<>> /\ buf[b].count = 0 /\ buf[b].rptr = 0 /\ buf[b].wptr = 0 /\ buf[b].size # 0
  /\ buf' = [buf EXCEPT ![b].size = n]
  /\ on' = b /\ todo' = <<"realloc">>
  /\ UNCHANGED <<reg, taken>>

-----------------------------------------------------------------------------
Copy ==
  /\ Doing("copy") /\ Done
  /\ reg' = buf[on].data[buf[on].rptr]
  /\ UNCHANGED <<buf, taken>>

Decrement ==
  /\ Doing("decrement") /\ Done
  /\ buf' = [buf EXCEPT ![on].count = @ - 1]
  /\ taken' = [taken EXCEPT ![on] = <<reg>>]
  /\ UNCHANGED reg

Advance ==
  /\ Doing("advance") /\ Done
  /\ buf' = [buf EXCEPT ![on].rptr = ModIncr(buf[on], @)]
  /\ reg' = NoData  \* the caller has it
  /\ UNCHANGED taken

Realloc ==
  /\ Doing("realloc")
  /\ \/ Done /\ buf' = [buf EXCEPT ![on] = Resized(@, @.size)]
     \/ todo' = <<>> /\ UNCHANGED on /\ buf' = [buf EXCEPT ![on] = Lost(@)]  \* PLATFORM_ERR
  /\ UNCHANGED <<reg, taken>>

Step == Copy \/ Decrement \/ Advance \/ Realloc

\* The calls of the main program.
Start == \E b \in Bufs : BufRead(b) \/ \E n \in Sizes : BufSet(b, n)

-----------------------------------------------------------------------------
\* Outside calls the indices lie in the memory block and differ by the number
\* of unread elements, which is at most one more than the size (buf.c:135 lets the
\* handler write to a full buffer): buf_write never writes past the block (buf.c:141).
Coherent ==
  \A b \in Bufs :
    /\ buf[b].size \in 0 .. MaxSize /\ buf[b].wptr \in 0 .. MaxSize - 1
    /\ (todo = <<>> \/ on # b) /\ buf[b].size # 0 =>
         /\ buf[b].room = buf[b].size /\ buf[b].count <= buf[b].size + 1
         /\ buf[b].wptr < buf[b].size /\ buf[b].rptr < buf[b].size
         /\ buf[b].wptr = (buf[b].rptr + buf[b].count) % buf[b].size

\* buf_read has copied the oldest element, and not counted it.
Copied(b) == on = b /\ todo = <<"decrement", "advance">>

\* The elements written and not read, oldest first.  A buffer with one more than
\* its size holds one of them twice.
Unread(b) ==
  IF buf[b].size = 0 THEN <<>>
  ELSE LET first == IF on = b /\ Doing("advance") THEN buf[b].rptr + 1 ELSE buf[b].rptr
       IN [k \in 1 .. buf[b].count |->
             IF k = 1 /\ Copied(b) THEN reg ELSE buf[b].data[(first + k - 1) % buf[b].size]]
=============================================================================

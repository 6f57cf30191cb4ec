---------------------------- MODULE RingBufProofs ----------------------------
(***************************************************************************)
(* The indices of a ring buffer stay coherent, and the buffer is a queue,  *)
(* for any sizes, any number of buffers and any order of the handler's     *)
(* writes, those to a full buffer too, and the steps of the main program;  *)
(* and the multiplexer that fills these buffers gives every service the    *)
(* characters sent to it.                                                  *)
(***************************************************************************)
EXTENDS UartMux, SequenceTheorems, TLAPS

\* An index that has been moved on by at most the size of its buffer and one.
Wrap(x, n) == IF x < n THEN x ELSE IF x < 2 * n THEN x - n ELSE x - 2 * n

LEMMA WrapIsMod ==
  ASSUME NEW n \in Nat \ {0}, NEW x \in 0 .. 3 * n - 1
  PROVE  x % n = Wrap(x, n) /\ Wrap(x, n) \in 0 .. n - 1
BY DEF Wrap

-----------------------------------------------------------------------------
(***************************************************************************)
(* A descriptor d on which the call in progress is about to take the step  *)
(* m, "idle" if the call is not on this buffer.                            *)
(***************************************************************************)
Modes == {"idle", "copy", "decrement", "advance", "realloc"}

Fields(d) ==
  /\ d = [size |-> d.size, room |-> d.room, wptr |-> d.wptr, rptr |-> d.rptr, count |-> d.count,
          data |-> d.data]
  /\ d.size \in 0 .. MaxSize /\ d.count \in 0 .. MaxSize + 1
  /\ d.wptr \in 0 .. MaxSize - 1 /\ d.rptr \in 0 .. MaxSize - 1

\* The index of the oldest element that was not counted as read.
Oldest(d, m) == IF m = "advance" THEN Wrap(d.rptr + 1, d.size) ELSE d.rptr

Fits(d, m) ==
  /\ d.room = d.size /\ d.count <= d.size + 1
  /\ d.wptr < d.size /\ d.rptr < d.size
  /\ d.wptr = Wrap(Oldest(d, m) + d.count, d.size)

Good(d, m) ==
  /\ Fields(d)
  /\ m = "realloc" => d.size # 0 /\ d.wptr = 0 /\ d.rptr = 0 /\ d.count = 0
  /\ m \in {"copy", "decrement"} => d.count > 0
  /\ m \in {"copy", "decrement", "advance"} => d.size # 0
  /\ m # "realloc" /\ d.size # 0 => Fits(d, m)

\* A write.
LEMMA WriteFact ==
  ASSUME NEW d, NEW m \in Modes \ {"realloc"}, NEW v, Good(d, m)
  PROVE  Good(BufWrite(d, v), m)
<1>1. CASE Rejects(d)
  BY <1>1 DEF BufWrite
<1>2. CASE ~Rejects(d)
  <2> DEFINE n == d.size
             w == Wrap(d.wptr + 1, n)
             r == [size |-> n, room |-> d.room, wptr |-> w, rptr |-> d.rptr, count |-> d.count + 1,
                   data |-> [d.data EXCEPT ![d.wptr] = v]]
  <2>1. Fields(d) /\ Fits(d, m) /\ n \in 1 .. MaxSize /\ d.count \in 0 .. n
        /\ d.wptr \in 0 .. n - 1 /\ d.rptr \in 0 .. n - 1
    BY <1>2 DEF Good, Fields, Fits, Rejects
  <2>2. ModIncr(d, d.wptr) = w /\ w \in 0 .. n - 1
    <3>1. n \in Nat \ {0} /\ d.wptr + 1 \in 0 .. 3 * n - 1
      BY <2>1
    <3>2. (d.wptr + 1) % n = w /\ w \in 0 .. n - 1
      BY <3>1, WrapIsMod
    <3> QED BY <3>2 DEF ModIncr
  <2>3. BufWrite(d, v) = r
    <3>1. d = [size |-> d.size, room |-> d.room, wptr |-> d.wptr, rptr |-> d.rptr,
               count |-> d.count, data |-> d.data]
      BY <2>1 DEF Fields
    <3>2. ~Rejects(d)
      BY <1>2
    <3> HIDE DEF w
    <3>3. BufWrite(d, v) = [d EXCEPT !.data[d.wptr] = v, !.wptr = w, !.count = d.count + 1]
      BY <2>2, <3>2 DEF BufWrite
    <3> QED BY <3>1, <3>3
  <2>4. /\ r.size = n /\ r.room = d.room /\ r.wptr = w /\ r.rptr = d.rptr /\ r.count = d.count + 1
        /\ r = [size |-> r.size, room |-> r.room, wptr |-> r.wptr, rptr |-> r.rptr,
                count |-> r.count, data |-> r.data]
    OBVIOUS
  <2>5. Oldest(d, m) \in 0 .. n - 1 /\ d.wptr = Wrap(Oldest(d, m) + d.count, n) /\ d.room = n
    BY <2>1 DEF Fits, Oldest, Wrap
  <2>6. w = Wrap(Oldest(d, m) + d.count + 1, n)
    BY <2>1, <2>5 DEF Wrap
  <2> HIDE DEF r, w
  <2>7. Oldest(r, m) = Oldest(d, m)
    BY <2>4 DEF Oldest
  <2>8. Fits(r, m)
    BY <2>1, <2>2, <2>4, <2>5, <2>6, <2>7 DEF Fits
  <2>9. Fields(r)
    BY <2>1, <2>2, <2>4, BufAssumption DEF Fields
  <2>10. Good(r, m)
    BY <2>1, <2>4, <2>8, <2>9 DEF Good, Modes
  <2> QED BY <2>3, <2>10
<1> QED BY <1>1, <1>2

\* The steps of buf_read.
LEMMA ReadFact ==
  ASSUME NEW d
  PROVE  /\ Good(d, "idle") /\ ~BufEmpty(d) => Good(d, "copy")
         /\ Good(d, "copy") => Good(d, "decrement")
         /\ Good(d, "decrement") => Good([d EXCEPT !.count = @ - 1], "advance")
         /\ Good(d, "advance") => Good([d EXCEPT !.rptr = ModIncr(d, @)], "idle")
<1>1. Good(d, "idle") /\ ~BufEmpty(d) => Good(d, "copy")
  BY DEF Good, BufEmpty, Fields, Fits, Oldest
<1>2. Good(d, "copy") => Good(d, "decrement")
  BY DEF Good, Fields, Fits, Oldest
<1>3. ASSUME Good(d, "decrement") PROVE Good([d EXCEPT !.count = @ - 1], "advance")
  <2> DEFINE r == [d EXCEPT !.count = @ - 1]
  <2>1. Fields(d) /\ Fits(d, "decrement") /\ d.size \in 1 .. MaxSize /\ d.count \in 1 .. d.size + 1
        /\ d.rptr \in 0 .. d.size - 1
    BY <1>3 DEF Good, Fields, Fits
  <2>2. r = [size |-> d.size, room |-> d.room, wptr |-> d.wptr, rptr |-> d.rptr,
             count |-> d.count - 1, data |-> d.data]
    BY <2>1 DEF Fields
  <2>3. /\ r.size = d.size /\ r.room = d.room /\ r.wptr = d.wptr /\ r.rptr = d.rptr
        /\ r.count = d.count - 1
        /\ r = [size |-> r.size, room |-> r.room, wptr |-> r.wptr, rptr |-> r.rptr,
                count |-> r.count, data |-> r.data]
    BY <2>2
  <2> HIDE DEF r
  <2>4. d.wptr = Wrap(d.rptr + d.count, d.size)
    BY <2>1 DEF Fits, Oldest
  <2>5. d.wptr = Wrap(Wrap(d.rptr + 1, d.size) + (d.count - 1), d.size)
    <3>1. CASE d.rptr + 1 < d.size
      <4>1. Wrap(d.rptr + 1, d.size) + (d.count - 1) = d.rptr + d.count
        BY <2>1, <3>1 DEF Wrap, Fields
      <4> QED BY <2>4, <4>1
    <3>2. CASE d.rptr + 1 = d.size
      <4>1. Wrap(d.rptr + 1, d.size) = 0 /\ d.rptr + d.count = d.size + (d.count - 1)
        BY <2>1, <3>2, BufAssumption DEF Wrap
      <4>2. Wrap(d.size + (d.count - 1), d.size) = Wrap(d.count - 1, d.size)
        BY <2>1, BufAssumption DEF Wrap
      <4>3. 0 + (d.count - 1) = d.count - 1
        BY <2>1
      <4> QED BY <2>4, <4>1, <4>2, <4>3
    <3> QED BY <2>1, <3>1, <3>2, BufAssumption
  <2>6. Fits(r, "advance")
    BY <2>1, <2>3, <2>5 DEF Fits, Oldest
  <2>7. Fields(r)
    BY <2>1, <2>3, BufAssumption DEF Fields
  <2>8. Good(r, "advance")
    BY <2>1, <2>3, <2>6, <2>7 DEF Good
  <2> QED BY <2>8 DEF r
<1>4. ASSUME Good(d, "advance") PROVE Good([d EXCEPT !.rptr = ModIncr(d, @)], "idle")
  <2> DEFINE p == Wrap(d.rptr + 1, d.size)
             r == [d EXCEPT !.rptr = ModIncr(d, @)]
  <2>1. Fields(d) /\ Fits(d, "advance") /\ d.size \in 1 .. MaxSize /\ d.rptr \in 0 .. d.size - 1
    BY <1>4 DEF Good, Fields, Fits
  <2>2. ModIncr(d, d.rptr) = p /\ p \in 0 .. d.size - 1
    <3>1. d.size \in Nat \ {0} /\ d.rptr + 1 \in 0 .. 3 * d.size - 1
      BY <2>1
    <3>2. (d.rptr + 1) % d.size = p /\ p \in 0 .. d.size - 1
      BY <3>1, WrapIsMod
    <3> QED BY <3>2 DEF ModIncr
  <2> HIDE DEF p
  <2>3. r = [size |-> d.size, room |-> d.room, wptr |-> d.wptr, rptr |-> p, count |-> d.count,
             data |-> d.data]
    BY <2>1, <2>2 DEF Fields
  <2>4. /\ r.size = d.size /\ r.room = d.room /\ r.wptr = d.wptr /\ r.rptr = p /\ r.count = d.count
        /\ r = [size |-> r.size, room |-> r.room, wptr |-> r.wptr, rptr |-> r.rptr,
                count |-> r.count, data |-> r.data]
    BY <2>3
  <2> HIDE DEF r
  <2>5. d.wptr = Wrap(p + d.count, d.size)
    BY <2>1 DEF Fits, Oldest, p
  <2>6. Fits(r, "idle")
    BY <2>1, <2>2, <2>4, <2>5 DEF Fits, Oldest
  <2>7. Fields(r)
    BY <2>1, <2>2, <2>4, BufAssumption DEF Fields
  <2>8. Good(r, "idle")
    BY <2>6, <2>7 DEF Good
  <2> QED BY <2>8 DEF r
<1> QED BY <1>1, <1>2, <1>3, <1>4

\* The steps of buf_set.
LEMMA SetFact ==
  ASSUME NEW d
  PROVE  /\ \A n \in Sizes : Good(d, "idle") /\ d.count = 0 /\ d.rptr = 0 /\ d.wptr = 0 =>
              Good([d EXCEPT !.size = n], "realloc")
         /\ Good(d, "realloc") => Good(Resized(d, d.size), "idle") /\ Good(Lost(d), "idle")
<1>1. ASSUME NEW n \in Sizes, Good(d, "idle"), d.count = 0, d.rptr = 0, d.wptr = 0
      PROVE  Good([d EXCEPT !.size = n], "realloc")
  <2> DEFINE r == [d EXCEPT !.size = n]
  <2>1. Fields(d) /\ n \in 1 .. MaxSize
    BY <1>1, BufAssumption, RingBufAssumption DEF Good
  <2>2. r = [size |-> n, room |-> d.room, wptr |-> d.wptr, rptr |-> d.rptr, count |-> d.count,
             data |-> d.data]
    BY <2>1 DEF Fields
  <2>3. /\ r.size = n /\ r.wptr = 0 /\ r.rptr = 0 /\ r.count = 0
        /\ r = [size |-> r.size, room |-> r.room, wptr |-> r.wptr, rptr |-> r.rptr,
                count |-> r.count, data |-> r.data]
    BY <1>1, <2>2
  <2> HIDE DEF r
  <2>4. Good(r, "realloc")
    BY <2>1, <2>3, BufAssumption DEF Good, Fields
  <2> QED BY <2>4 DEF r
<1>2. ASSUME Good(d, "realloc") PROVE Good(Resized(d, d.size), "idle")
  <2> DEFINE kept == [i \in 0 .. MaxSize - 1 |-> IF i < d.room /\ i < d.size THEN d.data[i] ELSE NoData]
             r == Resized(d, d.size)
  <2>1. Fields(d) /\ d.size # 0 /\ d.wptr = 0 /\ d.rptr = 0 /\ d.count = 0
    BY <1>2 DEF Good
  <2>2. r = [d EXCEPT !.room = d.size, !.data = kept]
    BY DEF Resized
  <2> HIDE DEF kept
  <2>3. r = [size |-> d.size, room |-> d.size, wptr |-> 0, rptr |-> 0, count |-> 0, data |-> kept]
    BY <2>1, <2>2 DEF Fields
  <2>4. /\ r.size = d.size /\ r.room = d.size /\ r.wptr = 0 /\ r.rptr = 0 /\ r.count = 0
        /\ r = [size |-> r.size, room |-> r.room, wptr |-> r.wptr, rptr |-> r.rptr,
                count |-> r.count, data |-> r.data]
    BY <2>3
  <2> HIDE DEF r
  <2>5. Good(r, "idle")
    BY <2>1, <2>4 DEF Good, Fields, Fits, Oldest, Wrap
  <2> QED BY <2>5 DEF r
<1>3. ASSUME Good(d, "realloc") PROVE Good(Lost(d), "idle")
  <2> DEFINE r == Lost(d)
  <2>1. r = [size |-> 0, room |-> 0, wptr |-> 0, rptr |-> 0, count |-> 0, data |-> d.data]
    BY DEF Lost, NoBuffer
  <2>2. /\ r.size = 0 /\ r.wptr = 0 /\ r.rptr = 0 /\ r.count = 0
        /\ r = [size |-> r.size, room |-> r.room, wptr |-> r.wptr, rptr |-> r.rptr,
                count |-> r.count, data |-> r.data]
    BY <2>1
  <2> HIDE DEF r
  <2>3. Good(r, "idle")
    BY <2>2, BufAssumption DEF Good, Fields
  <2> QED BY <2>3 DEF r
<1> QED BY <1>1, <1>2, <1>3

\* buf_set at start-up.
LEMMA NewFact ==
  ASSUME NEW n \in Sizes
  PROVE  Good([NoBuffer EXCEPT !.size = n, !.room = n], "idle")
<1> DEFINE r == [NoBuffer EXCEPT !.size = n, !.room = n]
           nothing == [i \in 0 .. MaxSize - 1 |-> NoData]
<1>0. NoBuffer = [size |-> 0, room |-> 0, wptr |-> 0, rptr |-> 0, count |-> 0, data |-> nothing]
  BY DEF NoBuffer
<1> HIDE DEF nothing
<1>1. r = [size |-> n, room |-> n, wptr |-> 0, rptr |-> 0, count |-> 0, data |-> nothing]
  <2> DEFINE a == [NoBuffer EXCEPT !.size = n]
  <2>1. a = [size |-> n, room |-> 0, wptr |-> 0, rptr |-> 0, count |-> 0, data |-> nothing]
    BY <1>0
  <2>2. r = [a EXCEPT !.room = n]
    OBVIOUS
  <2> HIDE DEF a
  <2> QED BY <2>1, <2>2
<1>2. /\ r.size = n /\ r.room = n /\ r.wptr = 0 /\ r.rptr = 0 /\ r.count = 0
      /\ r = [size |-> r.size, room |-> r.room, wptr |-> r.wptr, rptr |-> r.rptr,
              count |-> r.count, data |-> r.data]
  BY <1>1
<1> HIDE DEF r
<1>3. n \in 1 .. MaxSize
  BY BufAssumption, RingBufAssumption
<1>4. Good(r, "idle")
  BY <1>2, <1>3, BufAssumption DEF Good, Fields, Fits, Oldest, Wrap
<1> QED BY <1>4 DEF r

-----------------------------------------------------------------------------
(***************************************************************************)
(* The inductive invariant.                                                *)
(***************************************************************************)
Calls == {<<>>, <<"realloc">>, ReadSteps, <<"decrement", "advance">>, <<"advance">>}

Mode(b) == IF on = b /\ todo # <<>> THEN Head(todo) ELSE "idle"

IInv ==
  /\ todo \in Calls
  /\ buf = [b \in Bufs |-> buf[b]]
  /\ \A b \in Bufs : Good(buf[b], Mode(b))

LEMMA CallsFact ==
  /\ <<>> \in Calls /\ <<"realloc">> \in Calls /\ ReadSteps \in Calls
  /\ Head(ReadSteps) = "copy" /\ Tail(ReadSteps) = <<"decrement", "advance">>
  /\ Head(<<"decrement", "advance">>) = "decrement" /\ Tail(<<"decrement", "advance">>) = <<"advance">>
  /\ Head(<<"advance">>) = "advance" /\ Tail(<<"advance">>) = <<>>
  /\ Head(<<"realloc">>) = "realloc" /\ Tail(<<"realloc">>) = <<>>
  /\ ReadSteps # <<>> /\ <<"realloc">> # <<>> /\ <<"advance">> # <<>>
  /\ <<"decrement", "advance">> # <<>>
  /\ \A b : Mode(b) \in Modes \/ todo \notin Calls
BY DEF Calls, ReadSteps, Mode, Modes

\* The descriptor of the buffer in use changes and the call goes on.
LEMMA OneStep ==
  ASSUME IInv, NEW b \in Bufs, NEW d, buf' = [buf EXCEPT ![b] = d], todo' \in Calls,
         \A c \in Bufs : c # b => Mode(c)' = Mode(c), Good(d, Mode(b)')
  PROVE  IInv'
<1>1. \A c \in Bufs : buf'[c] = IF c = b THEN d ELSE buf[c]
  BY DEF IInv
<1>2. buf' = [c \in Bufs |-> buf'[c]]
  BY DEF IInv
<1>3. ASSUME NEW c \in Bufs PROVE Good(buf'[c], Mode(c)')
  BY <1>1 DEF IInv
<1> QED BY <1>2, <1>3 DEF IInv

LEMMA WriteStep == ASSUME IInv, NEW b, NEW v, Write(b, v) PROVE IInv'
<1>1. UNCHANGED <<on, todo>> /\ ~(on = b /\ Doing("realloc"))
      /\ buf' = [buf EXCEPT ![b] = BufWrite(buf[b], v)]
  BY DEF Write
<1>2. \A c : Mode(c)' = Mode(c)
  BY <1>1 DEF Mode
<1>3. CASE b \in Bufs
  <2>1. Mode(b) \in Modes \ {"realloc"}
    BY <1>1, CallsFact DEF Mode, Doing, IInv
  <2>2. Good(BufWrite(buf[b], v), Mode(b))
    BY <1>1, <1>3, <2>1, WriteFact DEF IInv
  <2> QED BY <1>1, <1>2, <1>3, <2>2, OneStep DEF IInv
<1>4. CASE b \notin Bufs
  <2>1. buf' = buf
    BY <1>1, <1>4 DEF IInv
  <2> QED BY <1>1, <1>2, <2>1 DEF IInv
<1> QED BY <1>3, <1>4

LEMMA StartStep == ASSUME IInv, Start PROVE IInv'
<1>1. CASE \E b \in Bufs : BufRead(b)
  <2>1. PICK b \in Bufs : BufRead(b)
    BY <1>1
  <2>2. todo = <<>> /\ todo' = ReadSteps /\ on' = b /\ UNCHANGED buf /\ ~BufEmpty(buf[b])
    BY <2>1 DEF BufRead, Call
  <2>3. Mode(b)' = "copy" /\ Mode(b) = "idle"
    BY <2>2, CallsFact DEF Mode
  <2>4. \A c \in Bufs : c # b => Mode(c)' = "idle" /\ Mode(c) = "idle"
    BY <2>2 DEF Mode
  <2>5. Good(buf[b], "copy")
    BY <2>2, <2>3, ReadFact DEF IInv
  <2>6. \A c \in Bufs : Good(buf'[c], Mode(c)')
    BY <2>2, <2>3, <2>4, <2>5 DEF IInv
  <2>7. todo' \in Calls
    BY <2>2, CallsFact
  <2> QED BY <2>2, <2>6, <2>7 DEF IInv
<1>2. CASE \E b \in Bufs, n \in Sizes : BufSet(b, n)
  <2>1. PICK b \in Bufs, n \in Sizes : BufSet(b, n)
    BY <1>2
  <2> DEFINE d == [buf[b] EXCEPT !.size = n]
  <2>2. todo = <<>> /\ todo' = <<"realloc">> /\ on' = b /\ buf' = [buf EXCEPT ![b] = d]
        /\ buf[b].count = 0 /\ buf[b].rptr = 0 /\ buf[b].wptr = 0
    BY <2>1 DEF BufSet
  <2>3. Mode(b)' = "realloc" /\ Mode(b) = "idle"
    BY <2>2, CallsFact DEF Mode
  <2>4. \A c \in Bufs : c # b => Mode(c)' = Mode(c)
    BY <2>2 DEF Mode
  <2>5. Good(d, "realloc")
    BY <2>2, <2>3, SetFact DEF IInv
  <2>6. todo' \in Calls
    BY <2>2, CallsFact
  <2> HIDE DEF d
  <2> QED BY <2>2, <2>3, <2>4, <2>5, <2>6, OneStep
<1> QED BY <1>1, <1>2 DEF Start

LEMMA StepStep == ASSUME IInv, NEW b \in Bufs, on = b, Step PROVE IInv'
<1> DEFINE d == buf[b]
<1>1. todo \in Calls /\ Good(d, Mode(b))
  BY DEF IInv
<1>2. CASE Copy
  <2>1. todo = ReadSteps /\ todo' = Tail(todo) /\ on' = b /\ UNCHANGED buf
    BY <1>1, <1>2, CallsFact DEF Copy, Doing, Done, Calls
  <2>2. Mode(b) = "copy" /\ Mode(b)' = "decrement" /\ todo' \in Calls
    BY <2>1, CallsFact DEF Mode, Calls
  <2>3. \A c \in Bufs : c # b => Mode(c)' = Mode(c)
    BY <2>1 DEF Mode
  <2>4. Good(d, "decrement")
    BY <1>1, <2>2, ReadFact
  <2>5. buf' = [buf EXCEPT ![b] = d]
    BY <2>1 DEF IInv
  <2> HIDE DEF d
  <2> QED BY <2>2, <2>3, <2>4, <2>5, OneStep
<1>3. CASE Decrement
  <2> DEFINE e == [d EXCEPT !.count = @ - 1]
  <2>1. todo = <<"decrement", "advance">> /\ todo' = Tail(todo) /\ on' = b
        /\ buf' = [buf EXCEPT ![b] = e]
    BY <1>1, <1>3, CallsFact DEF Decrement, Doing, Done, Calls
  <2>2. Mode(b) = "decrement" /\ Mode(b)' = "advance" /\ todo' \in Calls
    BY <2>1, CallsFact DEF Mode, Calls
  <2>3. \A c \in Bufs : c # b => Mode(c)' = Mode(c)
    BY <2>1 DEF Mode
  <2>4. Good(e, "advance")
    BY <1>1, <2>2, ReadFact
  <2> HIDE DEF e
  <2> QED BY <2>1, <2>2, <2>3, <2>4, OneStep
<1>4. CASE Advance
  <2> DEFINE e == [d EXCEPT !.rptr = ModIncr(d, @)]
  <2>1. todo = <<"advance">> /\ todo' = Tail(todo) /\ on' = b /\ buf' = [buf EXCEPT ![b] = e]
    BY <1>1, <1>4, CallsFact DEF Advance, Doing, Done, Calls
  <2>2. Mode(b) = "advance" /\ Mode(b)' = "idle" /\ todo' \in Calls
    BY <2>1, CallsFact DEF Mode, Calls
  <2>3. \A c \in Bufs : c # b => Mode(c)' = Mode(c)
    BY <2>1 DEF Mode
  <2>4. Good(e, "idle")
    BY <1>1, <2>2, ReadFact
  <2> HIDE DEF e
  <2> QED BY <2>1, <2>2, <2>3, <2>4, OneStep
<1>5. CASE Realloc
  <2> DEFINE e == Resized(d, d.size)
             f == Lost(d)
  <2>1. todo = <<"realloc">> /\ todo' = <<>> /\ on' = b
        /\ (buf' = [buf EXCEPT ![b] = e] \/ buf' = [buf EXCEPT ![b] = f])
    BY <1>1, <1>5, CallsFact DEF Realloc, Doing, Done, Calls
  <2>2. Mode(b) = "realloc" /\ Mode(b)' = "idle" /\ todo' \in Calls
    BY <2>1, CallsFact DEF Mode
  <2>3. \A c \in Bufs : c # b => Mode(c)' = Mode(c)
    BY <2>1 DEF Mode
  <2>4. Good(e, "idle") /\ Good(f, "idle")
    BY <1>1, <2>2, SetFact
  <2> HIDE DEF e, f
  <2>5. CASE buf' = [buf EXCEPT ![b] = e]
    BY <2>2, <2>3, <2>4, <2>5, OneStep
  <2>6. CASE buf' = [buf EXCEPT ![b] = f]
    BY <2>2, <2>3, <2>4, <2>6, OneStep
  <2> QED BY <2>1, <2>5, <2>6
<1> QED BY <1>2, <1>3, <1>4, <1>5 DEF Step

\* Buffers set up at the start, all of one size.
LEMMA FreshFact ==
  ASSUME NEW n \in Sizes
  PROVE  LET fresh == [b \in Bufs |-> [NoBuffer EXCEPT !.size = n, !.room = n]]
         IN  fresh = [b \in Bufs |-> fresh[b]] /\ \A b \in Bufs : Good(fresh[b], "idle")
BY NewFact

LEMMA Inductive == Spec => [](IInv /\ on \in Bufs)
<1>1. Init => IInv /\ on \in Bufs
  <2> SUFFICES ASSUME Init PROVE IInv /\ on \in Bufs
    OBVIOUS
  <2>1. on \in Bufs /\ todo = <<>>
    BY DEF Init, RingInit
  <2>2. PICK n \in Sizes : buf = [b \in Bufs |-> [NoBuffer EXCEPT !.size = n, !.room = n]]
    BY DEF Init, RingInit
  <2>3. buf = [b \in Bufs |-> buf[b]] /\ \A b \in Bufs : Good(buf[b], "idle")
    BY <2>2, FreshFact
  <2>4. todo \in Calls /\ \A b \in Bufs : Mode(b) = "idle"
    BY <2>1, CallsFact DEF Mode
  <2> QED BY <2>1, <2>3, <2>4 DEF IInv
<1>2. IInv /\ on \in Bufs /\ [Next]_vars => IInv' /\ (on \in Bufs)'
  <2> SUFFICES ASSUME IInv, on \in Bufs, [Next]_vars PROVE IInv' /\ on' \in Bufs
    OBVIOUS
  <2>1. ASSUME UNCHANGED ringVars PROVE IInv' /\ on' \in Bufs
    <3>1. \A b : Mode(b)' = Mode(b)
      BY <2>1 DEF ringVars, Mode
    <3> QED BY <2>1, <3>1 DEF ringVars, IInv
  <2>2. CASE DevReceive
    <3>1. UNCHANGED ringVars \/ \E v : Write(dev.in, v)
      BY <2>2 DEF DevReceive
    <3>2. ASSUME NEW v, Write(dev.in, v) PROVE IInv' /\ on' \in Bufs
      BY <3>2, WriteStep DEF Write
    <3> QED BY <2>1, <3>1, <3>2
  <2>3. CASE Buffers
    <3>1. CASE Start
      <4>1. on' \in Bufs
        BY <3>1 DEF Start, BufRead, BufSet, Call
      <4> QED BY <3>1, <4>1, StartStep
    <3>2. CASE Step
      <4>1. on' \in Bufs
        BY <3>2 DEF Step, Copy, Decrement, Advance, Realloc, Done
      <4> QED BY <3>2, <4>1, StepStep
    <3> QED BY <2>3, <3>1, <3>2 DEF Buffers
  <2>4. CASE DevRestart
    <3>1. PICK n \in Sizes : buf' = [b \in Bufs |-> [NoBuffer EXCEPT !.size = n, !.room = n]]
      BY <2>4 DEF DevRestart
    <3>2. todo' = <<>> /\ on' = on
      BY <2>4 DEF DevRestart
    <3>3. buf' = [b \in Bufs |-> buf'[b]] /\ \A b \in Bufs : Good(buf'[b], "idle")
      BY <3>1, FreshFact
    <3>4. todo' \in Calls /\ \A b \in Bufs : Mode(b)' = "idle"
      BY <3>2, CallsFact DEF Mode
    <3> QED BY <3>2, <3>3, <3>4 DEF IInv
  <2>5. CASE PeerReceive \/ PeerRestart \/ SendStep \/ UNCHANGED vars
             \/ \E s \in Services, kind \in Kinds : DevSend(s, kind) \/ PeerSend(s, kind)
    <3>1. UNCHANGED ringVars
      BY <2>5 DEF PeerReceive, PeerRestart, SendStep, DevSend, PeerSend, vars
    <3> QED BY <2>1, <3>1
  <2> QED BY <2>2, <2>3, <2>4, <2>5 DEF Next
<1> QED BY <1>1, <1>2, PTL DEF Spec

\* Outside calls the indices of a buffer lie in its memory and differ by the
\* number of unread elements, so that buf_write never writes past the memory, also
\* when the device delivers to a full buffer (buf.c:135, 141).
THEOREM IndicesCoherent == Spec => []Coherent
<1>1. IInv => Coherent
  <2> SUFFICES ASSUME IInv, NEW b \in Bufs
               PROVE  /\ buf[b].size \in 0 .. MaxSize /\ buf[b].wptr \in 0 .. MaxSize - 1
                      /\ (todo = <<>> \/ on # b) /\ buf[b].size # 0 =>
                           /\ buf[b].room = buf[b].size /\ buf[b].count <= buf[b].size + 1
                           /\ buf[b].wptr < buf[b].size /\ buf[b].rptr < buf[b].size
                           /\ buf[b].wptr = (buf[b].rptr + buf[b].count) % buf[b].size
    BY DEF Coherent
  <2> DEFINE d == buf[b]
  <2>1. Good(d, Mode(b))
    BY DEF IInv
  <2>2. d.size \in 0 .. MaxSize /\ d.wptr \in 0 .. MaxSize - 1 /\ d.rptr \in 0 .. MaxSize - 1
        /\ d.count \in 0 .. MaxSize + 1
    BY <2>1 DEF Good, Fields
  <2>3. ASSUME todo = <<>> \/ on # b, d.size # 0
        PROVE  /\ d.room = d.size /\ d.count <= d.size + 1 /\ d.wptr < d.size /\ d.rptr < d.size
               /\ d.wptr = (d.rptr + d.count) % d.size
    <3>1. Mode(b) = "idle"
      BY <2>3 DEF Mode
    <3>2. /\ d.room = d.size /\ d.count <= d.size + 1 /\ d.wptr < d.size /\ d.rptr < d.size
          /\ d.wptr = Wrap(d.rptr + d.count, d.size)
      BY <2>1, <2>3, <3>1 DEF Good, Fits, Oldest
    <3> HIDE DEF d
    <3>3. d.size \in Nat \ {0} /\ d.rptr + d.count \in 0 .. 3 * d.size - 1
      BY <2>2, <2>3, <3>2
    <3> QED BY <3>2, <3>3, WrapIsMod
  <2> QED BY <2>2, <2>3
<1> QED BY <1>1, Inductive, PTL

-----------------------------------------------------------------------------
(***************************************************************************)
(* The elements of a descriptor, oldest first.  The one buf_read has       *)
(* copied, g, cannot be written over any more.                             *)
(***************************************************************************)
Window(d, m, g) ==
  [k \in 1 .. d.count |->
     IF k = 1 /\ m = "decrement" THEN g ELSE d.data[Wrap(Oldest(d, m) + (k - 1), d.size)]]

Memory(d) == d.data = [i \in 0 .. MaxSize - 1 |-> d.data[i]]

LEMMA AsSeq ==
  ASSUME NEW S, NEW n \in Nat, NEW f \in [1 .. n -> S]
  PROVE  f \in Seq(S) /\ Len(f) = n
<1>1. f \in Seq(S)
  BY SeqDef
<1>2. DOMAIN f = 1 .. n /\ DOMAIN f = 1 .. Len(f) /\ Len(f) \in Nat
  BY <1>1, LenProperties
<1> QED BY <1>1, <1>2

\* Where an element lies.
LEMMA WindowFact ==
  ASSUME NEW d, NEW m \in Modes \ {"realloc"}, Good(d, m), d.size # 0,
         NEW S, \A i \in 0 .. MaxSize - 1 : d.data[i] \in S, NEW g \in S
  PROVE  /\ Window(d, m, g) \in Seq(S) /\ Len(Window(d, m, g)) = d.count
         /\ \A k \in 1 .. d.count :
              /\ Wrap(Oldest(d, m) + (k - 1), d.size) \in 0 .. d.size - 1
              /\ Window(d, m, g)[k] = IF k = 1 /\ m = "decrement" THEN g
                                      ELSE d.data[Wrap(Oldest(d, m) + (k - 1), d.size)]
<1> DEFINE n == d.size
<1>1. /\ n \in 1 .. MaxSize /\ d.count \in 0 .. n + 1 /\ Oldest(d, m) \in 0 .. n - 1
      /\ MaxSize \in Nat
  <2>1. Fields(d) /\ Fits(d, m) /\ MaxSize \in Nat \ {0}
    BY BufAssumption DEF Good, Modes
  <2> QED BY <2>1 DEF Fields, Fits, Oldest, Wrap
<1>2. ASSUME NEW k \in 1 .. d.count PROVE Wrap(Oldest(d, m) + (k - 1), n) \in 0 .. n - 1
  BY <1>1 DEF Wrap
<1>3. Window(d, m, g) \in [1 .. d.count -> S]
  <2>1. \A k \in 1 .. d.count : d.data[Wrap(Oldest(d, m) + (k - 1), n)] \in S
    BY <1>1, <1>2
  <2> QED BY <2>1 DEF Window
<1>4. d.count \in Nat
  BY <1>1
<1>5. \A k \in 1 .. d.count : Window(d, m, g)[k] = IF k = 1 /\ m = "decrement" THEN g
                                                   ELSE d.data[Wrap(Oldest(d, m) + (k - 1), n)]
  BY DEF Window
<1> QED BY <1>2, <1>3, <1>4, <1>5, AsSeq

\* buf_write puts the element behind the others.  In a full buffer that is where
\* the oldest lies, which is lost unless it was copied.
LEMMA WriteWindow ==
  ASSUME NEW d, NEW m \in Modes \ {"realloc"}, NEW v, NEW g, Good(d, m), Memory(d), ~Rejects(d)
  PROVE  /\ Len(Window(d, m, g)) = d.count
         /\ Window(BufWrite(d, v), m, g) =
              IF d.count = d.size /\ m # "decrement" THEN [Append(Window(d, m, g), v) EXCEPT ![1] = v]
              ELSE Append(Window(d, m, g), v)
         /\ Memory(BufWrite(d, v)) /\ BufWrite(d, v).size = d.size
<1> DEFINE n == d.size
           r == BufWrite(d, v)
           e == [d.data EXCEPT ![d.wptr] = v]
           S == {d.data[i] : i \in 0 .. MaxSize - 1} \union {v, g}
           o == Oldest(d, m)
<1>1. /\ Fields(d) /\ Fits(d, m) /\ n \in 1 .. MaxSize /\ d.count \in 0 .. n
      /\ d.wptr \in 0 .. n - 1 /\ d.rptr \in 0 .. n - 1 /\ MaxSize \in Nat
  <2>1. Fields(d) /\ Fits(d, m) /\ MaxSize \in Nat \ {0} /\ d.size # 0 /\ ~(d.count > d.size)
    BY BufAssumption DEF Good, Modes, Rejects
  <2> QED BY <2>1 DEF Fields, Fits
<1>2. r.size = n /\ r.rptr = d.rptr /\ r.count = d.count + 1 /\ r.data = e
  <2>1. d = [size |-> d.size, room |-> d.room, wptr |-> d.wptr, rptr |-> d.rptr,
             count |-> d.count, data |-> d.data]
    BY <1>1 DEF Fields
  <2> DEFINE w == ModIncr(d, d.wptr)
  <2> HIDE DEF w
  <2>2. BufWrite(d, v) = [d EXCEPT !.data[d.wptr] = v, !.wptr = w, !.count = d.count + 1]
    BY DEF BufWrite, w
  <2> QED BY <2>1, <2>2
<1>3. \A i \in 0 .. MaxSize - 1 : e[i] = IF i = d.wptr THEN v ELSE d.data[i]
  BY <1>1 DEF Memory
<1>4. e = [i \in 0 .. MaxSize - 1 |-> e[i]]
  BY DEF Memory
<1>5. Good(r, m)
  BY WriteFact
<1>6. o \in 0 .. n - 1 /\ d.wptr = Wrap(o + d.count, n)
  BY <1>1 DEF Fits, Oldest, Wrap
<1>7. Oldest(r, m) = o
  BY <1>2 DEF Oldest
<1> HIDE DEF r
<1>8. /\ Window(d, m, g) \in Seq(S) /\ Len(Window(d, m, g)) = d.count
      /\ \A k \in 1 .. d.count :
           /\ Wrap(o + (k - 1), n) \in 0 .. n - 1
           /\ Window(d, m, g)[k] = IF k = 1 /\ m = "decrement" THEN g ELSE d.data[Wrap(o + (k - 1), n)]
  <2>1. (\A i \in 0 .. MaxSize - 1 : d.data[i] \in S) /\ g \in S /\ d.size # 0
    BY <1>1
  <2> HIDE DEF S, n, o, e
  <2>2. /\ Window(d, m, g) \in Seq(S) /\ Len(Window(d, m, g)) = d.count
        /\ \A k \in 1 .. d.count :
             /\ Wrap(Oldest(d, m) + (k - 1), d.size) \in 0 .. d.size - 1
             /\ Window(d, m, g)[k] = IF k = 1 /\ m = "decrement" THEN g
                                     ELSE d.data[Wrap(Oldest(d, m) + (k - 1), d.size)]
    BY <2>1, WindowFact, Z3
  <2> QED BY <2>2 DEF n, o
<1>9. /\ Window(r, m, g) \in Seq(S) /\ Len(Window(r, m, g)) = d.count + 1
      /\ \A k \in 1 .. d.count + 1 :
           /\ Wrap(o + (k - 1), n) \in 0 .. n - 1
           /\ Window(r, m, g)[k] = IF k = 1 /\ m = "decrement" THEN g ELSE e[Wrap(o + (k - 1), n)]
  <2>1. (\A i \in 0 .. MaxSize - 1 : r.data[i] \in S) /\ g \in S
    BY <1>2, <1>3
  <2>2. r.size # 0
    BY <1>1, <1>2
  <2> HIDE DEF S, e
  <2>3. /\ Window(r, m, g) \in Seq(S) /\ Len(Window(r, m, g)) = r.count
        /\ \A k \in 1 .. r.count :
             /\ Wrap(Oldest(r, m) + (k - 1), r.size) \in 0 .. r.size - 1
             /\ Window(r, m, g)[k] = IF k = 1 /\ m = "decrement" THEN g
                                     ELSE r.data[Wrap(Oldest(r, m) + (k - 1), r.size)]
    BY <1>5, <2>1, <2>2, WindowFact
  <2> HIDE DEF o
  <2> QED BY <1>2, <1>7, <2>3
<1>10. v \in S
  OBVIOUS
<1> HIDE DEF e, S, o
<1> DEFINE a == Append(Window(d, m, g), v)
<1>11. /\ a \in Seq(S) /\ Len(a) = d.count + 1
       /\ \A k \in 1 .. d.count : a[k] = Window(d, m, g)[k]
       /\ a[d.count + 1] = v
  BY <1>8, <1>10, AppendProperties
<1>12. ASSUME NEW k \in 1 .. d.count + 1
       PROVE  Window(r, m, g)[k] = IF k = 1 /\ d.count = n /\ m # "decrement" THEN v ELSE a[k]
  <2> DEFINE p == Wrap(o + (k - 1), n)
  <2> HIDE DEF a
  <2>1. p \in 0 .. n - 1 /\ Window(r, m, g)[k] = IF k = 1 /\ m = "decrement" THEN g ELSE e[p]
    BY <1>9
  <2>2. CASE k = d.count + 1
    <3>1. p = d.wptr
      BY <1>1, <1>6, <2>2
    <3>2. e[p] = v
      BY <1>1, <1>3, <3>1
    <3>3. m = "decrement" => k # 1
      BY <1>1, <2>2 DEF Good
    <3> HIDE DEF p
    <3> QED BY <1>11, <2>1, <2>2, <3>2, <3>3
  <2>3. CASE k # d.count + 1 /\ ~(k = 1 /\ d.count = n)
    <3>0. k \in 1 .. d.count
      BY <1>1, <2>3
    <3>1. p # d.wptr
      BY <1>1, <1>6, <2>3, <3>0 DEF Wrap
    <3> HIDE DEF p
    <3>2. e[p] = d.data[p]
      BY <1>1, <1>3, <2>1, <3>1
    <3>3. Window(d, m, g)[k] = IF k = 1 /\ m = "decrement" THEN g ELSE d.data[p]
      BY <1>8, <3>0 DEF p
    <3> QED BY <1>11, <2>1, <2>3, <3>0, <3>2, <3>3
  <2>4. CASE k # d.count + 1 /\ k = 1 /\ d.count = n
    <3>1. p = d.wptr
      BY <1>1, <1>6, <2>4 DEF Wrap
    <3>2. e[p] = v
      BY <1>1, <1>3, <3>1
    <3>3. m = "decrement" => Window(d, m, g)[k] = g /\ k \in 1 .. d.count
      BY <1>1, <1>8, <2>4
    <3> HIDE DEF p
    <3> QED BY <1>11, <2>1, <2>4, <3>2, <3>3
  <2> QED BY <2>2, <2>3, <2>4
<1>13. Window(r, m, g) = IF d.count = n /\ m # "decrement" THEN [a EXCEPT ![1] = v] ELSE a
  <2> HIDE DEF a
  <2>1. CASE d.count = n /\ m # "decrement"
    <3> DEFINE c == [a EXCEPT ![1] = v]
    <3>1. c \in Seq(S) /\ Len(c) = Len(a) /\ \A k \in 1 .. Len(a) : c[k] = IF k = 1 THEN v ELSE a[k]
      BY <1>1, <1>10, <1>11, ExceptSeq
    <3> HIDE DEF c
    <3>2. \A k \in 1 .. d.count + 1 : Window(r, m, g)[k] = c[k]
      BY <1>11, <1>12, <2>1, <3>1
    <3>3. Window(r, m, g) = c
      BY <1>9, <1>11, <3>1, <3>2, SeqEqual
    <3> QED BY <2>1, <3>3 DEF c
  <2>2. CASE ~(d.count = n /\ m # "decrement")
    <3>1. Window(r, m, g) = a
      BY <1>9, <1>11, <1>12, <2>2, SeqEqual
    <3> QED BY <2>2, <3>1
  <2> QED BY <2>1, <2>2
<1>14. Memory(r)
  BY <1>2, <1>4 DEF Memory
<1> QED BY <1>2, <1>8, <1>13, <1>14 DEF r

\* What buf_read copied is the oldest element; without it the others are left.
LEMMA ReadWindow ==
  ASSUME NEW d, NEW g, Good(d, "decrement"), Memory(d)
  PROVE  LET r == [d EXCEPT !.count = @ - 1]
         IN  /\ Window(d, "decrement", g) # <<>>
             /\ Head(Window(d, "decrement", g)) = g
             /\ Tail(Window(d, "decrement", g)) = Window(r, "advance", g)
             /\ r.size = d.size /\ Memory(r)
<1> DEFINE n == d.size
           r == [d EXCEPT !.count = @ - 1]
           S == {d.data[i] : i \in 0 .. MaxSize - 1} \union {g}
           w == Window(d, "decrement", g)
<1>1. /\ Fields(d) /\ Fits(d, "decrement") /\ n \in 1 .. MaxSize /\ d.count \in 1 .. n + 1
      /\ d.rptr \in 0 .. n - 1 /\ MaxSize \in Nat
  <2>1. Fields(d) /\ Fits(d, "decrement") /\ MaxSize \in Nat \ {0} /\ d.count > 0 /\ d.size # 0
    BY BufAssumption DEF Good, Modes
  <2> QED BY <2>1 DEF Fields, Fits
<1>2. r.size = n /\ r.rptr = d.rptr /\ r.count = d.count - 1 /\ r.data = d.data
  BY <1>1 DEF Fields
<1>3. Good(r, "advance")
  BY ReadFact
<1>4. Oldest(d, "decrement") = d.rptr /\ Oldest(r, "advance") = Wrap(d.rptr + 1, n)
  BY <1>2 DEF Oldest
<1>5. (\A i \in 0 .. MaxSize - 1 : d.data[i] \in S) /\ g \in S
  OBVIOUS
<1> HIDE DEF r, S
<1>6. /\ w \in Seq(S) /\ Len(w) = d.count
      /\ \A k \in 1 .. d.count : w[k] = IF k = 1 THEN g ELSE d.data[Wrap(d.rptr + (k - 1), n)]
  <2>1. "decrement" \in Modes \ {"realloc"} /\ d.size # 0
    BY <1>1 DEF Modes
  <2> QED BY <1>4, <1>5, <2>1, WindowFact
<1>7. /\ Window(r, "advance", g) \in Seq(S) /\ Len(Window(r, "advance", g)) = d.count - 1
      /\ \A k \in 1 .. d.count - 1 :
           Window(r, "advance", g)[k] = d.data[Wrap(Wrap(d.rptr + 1, n) + (k - 1), n)]
  <2>1. "advance" \in Modes \ {"realloc"} /\ r.size # 0
    BY <1>1, <1>2 DEF Modes
  <2>2. \A i \in 0 .. MaxSize - 1 : r.data[i] \in S
    BY <1>2, <1>5
  <2>3. /\ Window(r, "advance", g) \in Seq(S) /\ Len(Window(r, "advance", g)) = r.count
        /\ \A k \in 1 .. r.count :
             Window(r, "advance", g)[k] = r.data[Wrap(Oldest(r, "advance") + (k - 1), r.size)]
    BY <1>3, <1>5, <2>1, <2>2, WindowFact
  <2> QED BY <1>2, <1>4, <2>3
<1> HIDE DEF w
<1>8. w # <<>>
  BY <1>1, <1>6
<1>9. /\ Head(w) = w[1] /\ Tail(w) \in Seq(S) /\ Len(Tail(w)) = d.count - 1
      /\ \A k \in 1 .. d.count - 1 : Tail(w)[k] = w[k + 1]
  BY <1>6, <1>8, HeadTailProperties
<1>10. Head(w) = g
  BY <1>1, <1>6, <1>9
<1>11. ASSUME NEW k \in 1 .. d.count - 1 PROVE Tail(w)[k] = Window(r, "advance", g)[k]
  <2>1. Wrap(d.rptr + ((k + 1) - 1), n) = Wrap(Wrap(d.rptr + 1, n) + (k - 1), n)
    BY <1>1 DEF Wrap
  <2>2. k + 1 \in 1 .. d.count /\ k + 1 # 1
    BY <1>1
  <2>3. w[k + 1] = d.data[Wrap(d.rptr + ((k + 1) - 1), n)]
    BY <1>6, <2>2
  <2> QED BY <1>7, <1>9, <2>1, <2>3
<1>12. Tail(w) = Window(r, "advance", g)
  BY <1>1, <1>7, <1>9, <1>11, SeqEqual
<1>13. Memory(r)
  BY <1>2 DEF Memory
<1> QED BY <1>2, <1>8, <1>10, <1>12, <1>13 DEF r, w

\* Moving the index on loses nothing.
LEMMA AdvanceWindow ==
  ASSUME NEW d, NEW g, NEW h, Good(d, "advance"), Memory(d)
  PROVE  LET r == [d EXCEPT !.rptr = ModIncr(d, @)]
         IN  /\ Window(r, "idle", h) = Window(d, "advance", g)
             /\ r.size = d.size /\ Memory(r)
<1> DEFINE p == Wrap(d.rptr + 1, d.size)
           r == [d EXCEPT !.rptr = ModIncr(d, @)]
<1>1. Fields(d) /\ d.size \in 1 .. MaxSize /\ d.rptr \in 0 .. d.size - 1
  BY DEF Good, Fields, Fits
<1>2. ModIncr(d, d.rptr) = p
  <2>1. d.size \in Nat \ {0} /\ d.rptr + 1 \in 0 .. 3 * d.size - 1
    BY <1>1
  <2> QED BY <2>1, WrapIsMod DEF ModIncr
<1> HIDE DEF p
<1>3. r.size = d.size /\ r.rptr = p /\ r.count = d.count /\ r.data = d.data
  BY <1>1, <1>2 DEF Fields
<1> HIDE DEF r
<1>4. Oldest(r, "idle") = p /\ Oldest(d, "advance") = p
  BY <1>3 DEF Oldest, p
<1>5. Window(r, "idle", h) = Window(d, "advance", g)
  BY <1>3, <1>4 DEF Window
<1>6. Memory(r)
  BY <1>3 DEF Memory
<1> QED BY <1>3, <1>5, <1>6 DEF r

-----------------------------------------------------------------------------
(***************************************************************************)
(* What a buffer holds, and what may be written to it.                     *)
(***************************************************************************)
Contents(b) == IF buf[b].size = 0 THEN <<>> ELSE Window(buf[b], Mode(b), reg)

Held ==
  /\ taken = [b \in Bufs |-> taken[b]]
  /\ \A b \in Bufs : Memory(buf[b])

Byte == [c : Kinds \union {"plain", "FORCE", "ESC"} \union Services, n : 0 .. MaxSent, x : BOOLEAN]

End == [in : Services \union {None}, esc : BOOLEAN, last : Seq(Byte), out : Services \union {None}]

SendOp == [op : {"put"}, byte : Byte] \union [op : {"last"}, bytes : Seq(Byte)]
          \union [op : {"out"}, id : Services]

Message == [to : Services, c : Kinds]

\* The bytes on the line are those the protocol knows.
Line ==
  /\ dev \in End /\ peer \in End
  /\ toDev \in Seq(Byte) /\ toPeer \in Seq(Byte)
  /\ sending \in Seq(SendOp)
  /\ sent \in [dev : Seq(Message), peer : Seq(Message)]
  /\ Len(sent.dev) + Len(sent.peer) <= MaxSent

Shown == \A b \in Bufs : Unread(b) = Contents(b)

LEMMA ByteFact ==
  /\ \A c \in {"plain", "FORCE", "ESC"} \union Services : Code(c) \in Byte
  /\ \A b \in Byte : Xored(b) \in Byte
  /\ \A id \in Services \union {None} : IdByte(id) \in Byte
<1>1. \A c \in {"plain", "FORCE", "ESC"} \union Services : Code(c) \in Byte
  BY UartMuxAssumption DEF Code, Byte
<1>2. \A b \in Byte : Xored(b) \in Byte
  BY DEF Xored, Byte
<1>3. \A id \in Services \union {None} : IdByte(id) \in Byte
  BY <1>1 DEF IdByte
<1> QED BY <1>1, <1>2, <1>3

LEMMA EndFact ==
  /\ Fresh \in End
  /\ \A e \in End : /\ Unescaped(e) \in End /\ [e EXCEPT !.esc = TRUE] \in End
                    /\ \A s \in Services : [e EXCEPT !.in = s] \in End /\ [e EXCEPT !.out = s] \in End
                    /\ \A q \in Seq(Byte) : [e EXCEPT !.last = q] \in End
<1>1. <<>> \in Seq(Byte)
  BY EmptySeq
<1> QED BY <1>1 DEF Fresh, End, Unescaped

LEMMA HandleFact ==
  ASSUME NEW end \in End, NEW b \in Byte
  PROVE  /\ Handle(end, b).end \in End /\ Handle(end, b).say \in Seq(Byte)
         /\ Handle(end, b).data = <<>> \/ (Handle(end, b).data[1] \in Byte /\ end.in \in Services)
<1>0. <<>> \in Seq(Byte)
  BY EmptySeq
<1>1. CASE IsCode(b, "ESC")
  <2>1. Handle(end, b) = Result([end EXCEPT !.esc = TRUE], <<>>, <<>>)
    BY <1>1 DEF Handle
  <2> QED BY <1>0, <2>1, EndFact DEF Result
<1>2. CASE ~IsCode(b, "ESC") /\ \E s \in Services : IsCode(b, s)
  <2>1. Handle(end, b) = Result([end EXCEPT !.in = b.c], <<>>, <<>>)
    BY <1>2 DEF Handle
  <2>2. b.c \in Services
    BY <1>2 DEF IsCode
  <2>3. [end EXCEPT !.in = b.c] \in End
    BY <2>2, EndFact
  <2> QED BY <1>0, <2>1, <2>3 DEF Result
<1>3. CASE /\ ~IsCode(b, "ESC") /\ ~(\E s \in Services : IsCode(b, s))
           /\ IsCode(b, "FORCE") /\ end.last # <<>>
  <2> DEFINE say == <<IdByte(end.out)>> \o end.last
  <2>1. Handle(end, b) = Result([end EXCEPT !.last = <<>>], say, <<>>)
    BY <1>3 DEF Handle
  <2>2. <<IdByte(end.out)>> \in Seq(Byte) /\ end.last \in Seq(Byte)
    BY ByteFact DEF End
  <2>3. say \in Seq(Byte)
    BY <2>2, ConcatProperties
  <2>4. [end EXCEPT !.last = <<>>] \in End
    BY <1>0, EndFact
  <2> HIDE DEF say
  <2> QED BY <2>1, <2>3, <2>4 DEF Result
<1>4. CASE /\ ~IsCode(b, "ESC") /\ ~(\E s \in Services : IsCode(b, s))
           /\ ~(IsCode(b, "FORCE") /\ end.last # <<>>)
  <2> DEFINE v == IF end.esc THEN Xored(b) ELSE b
             after == Unescaped(end)
  <2>1. Handle(end, b) = IF end.in = None THEN Result(after, <<Code("FORCE")>>, <<>>)
                         ELSE Result(after, <<>>, <<v>>)
    BY <1>4 DEF Handle
  <2>2. v \in Byte
    BY ByteFact
  <2>3. after \in End
    BY EndFact
  <2>4. <<Code("FORCE")>> \in Seq(Byte)
    BY ByteFact
  <2>5. end.in \in Services \union {None}
    BY DEF End
  <2> HIDE DEF v, after
  <2>6. CASE end.in = None
    <3>1. Handle(end, b) = Result(after, <<Code("FORCE")>>, <<>>)
      BY <2>1, <2>6
    <3> QED BY <2>3, <2>4, <3>1 DEF Result
  <2>7. CASE end.in # None
    <3>1. Handle(end, b) = Result(after, <<>>, <<v>>)
      BY <2>1, <2>7
    <3>2. <<v>>[1] = v
      OBVIOUS
    <3> QED BY <1>0, <2>2, <2>3, <2>5, <2>7, <3>1, <3>2 DEF Result
  <2> QED BY <2>6, <2>7
<1> QED BY <1>1, <1>2, <1>3, <1>4

LEMMA EscapedFact == \A b \in Byte : Escaped(b) \in Seq(Byte)
<1> SUFFICES ASSUME NEW b \in Byte PROVE Escaped(b) \in Seq(Byte)
  OBVIOUS
<1>1. Code("ESC") \in Byte /\ Xored(b) \in Byte
  BY ByteFact
<1>2. <<Code("ESC"), Xored(b)>> \in Seq(Byte) /\ <<b>> \in Seq(Byte)
  BY <1>1
<1> QED BY <1>2 DEF Escaped

LEMMA SendStepsFact ==
  ASSUME NEW end, NEW s \in Services, NEW b \in Byte
  PROVE  SendSteps(end, s, b) \in Seq(SendOp)
<1>1. \A x \in Byte : Put(x) \in SendOp
  BY DEF Put, SendOp
<1>2. \A q \in Seq(Byte) : Last(q) \in SendOp
  BY DEF Last, SendOp
<1>3. Out(s) \in SendOp
  BY DEF Out, SendOp
<1>4. <<b>> \in Seq(Byte) /\ Escaped(b) \in Seq(Byte)
  BY EscapedFact
<1>5. Code("ESC") \in Byte /\ Xored(b) \in Byte /\ Code(s) \in Byte
  BY ByteFact
<1> DEFINE p == IF IdNotNeeded(end, s) THEN <<>> ELSE <<Put(Code(s))>>
           l == <<Last(<<b>>)>>
           q == IF NeedsEscape(b) THEN <<Put(Code("ESC")), Put(Xored(b)), Last(Escaped(b))>>
                ELSE <<Put(b)>>
           o == <<Out(s)>>
<1>6. p \in Seq(SendOp)
  <2>1. <<Put(Code(s))>> \in Seq(SendOp) /\ <<>> \in Seq(SendOp)
    BY <1>1, <1>5
  <2> QED BY <2>1
<1>7. l \in Seq(SendOp) /\ o \in Seq(SendOp)
  <2>1. Last(<<b>>) \in SendOp
    BY <1>2, <1>4
  <2> QED BY <1>3, <2>1
<1>8. q \in Seq(SendOp)
  <2>1. Put(Code("ESC")) \in SendOp /\ Put(Xored(b)) \in SendOp /\ Last(Escaped(b)) \in SendOp
        /\ Put(b) \in SendOp
    BY <1>1, <1>2, <1>4, <1>5
  <2>2. <<Put(Code("ESC")), Put(Xored(b)), Last(Escaped(b))>> \in Seq(SendOp)
        /\ <<Put(b)>> \in Seq(SendOp)
    BY <2>1
  <2> QED BY <2>2
<1>9. SendSteps(end, s, b) = p \o l \o q \o o
  BY DEF SendSteps
<1> HIDE DEF p, l, q, o
<1> QED BY <1>6, <1>7, <1>8, <1>9

LEMMA BoundFact ==
  ASSUME NEW a \in Nat, NEW b \in Nat, NEW m \in Nat, a + b < m
  PROVE  (a + 1) + b <= m /\ a + (b + 1) <= m
OBVIOUS

\* The character a call sends is within the bound.
LEMMA RecordFact ==
  ASSUME Line, NEW who \in {"dev", "peer"}, NEW s \in Services, NEW kind \in Kinds,
         Record(who, s, kind)
  PROVE  /\ Character(who, kind) \in Byte
         /\ sent' \in [dev : Seq(Message), peer : Seq(Message)]
         /\ Len(sent'.dev) + Len(sent'.peer) <= MaxSent
<1> DEFINE m == [to |-> s, c |-> kind]
<1>1. m \in Message
  BY DEF Message
<1>2. /\ sent \in [dev : Seq(Message), peer : Seq(Message)]
      /\ Len(sent.dev) + Len(sent.peer) < MaxSent
      /\ sent' = [sent EXCEPT ![who] = Append(@, m)]
  BY DEF Line, Record
<1>3. Len(sent.dev) \in Nat /\ Len(sent.peer) \in Nat /\ MaxSent \in Nat
  BY <1>2, UartMuxAssumption
<1> HIDE DEF m
<1>4. CASE who = "dev"
  <2>1. sent' = [sent EXCEPT !.dev = Append(sent.dev, m)]
    BY <1>2, <1>4
  <2>2. Append(sent.dev, m) \in Seq(Message) /\ Len(Append(sent.dev, m)) = Len(sent.dev) + 1
    BY <1>1, <1>2, AppendProperties
  <2>3. sent'.dev = Append(sent.dev, m) /\ sent'.peer = sent.peer
        /\ sent' \in [dev : Seq(Message), peer : Seq(Message)]
    BY <1>2, <2>1, <2>2
  <2>4. Len(sent'.dev) + Len(sent'.peer) <= MaxSent
    <3>1. Len(sent'.dev) = Len(sent.dev) + 1
      BY <2>2, <2>3
    <3>2. Len(sent'.peer) = Len(sent.peer)
      BY <2>3
    <3>3. Len(sent.dev) + Len(sent.peer) < MaxSent
      BY <1>2
    <3>4. /\ (Len(sent.dev) + 1) + Len(sent.peer) <= MaxSent
          /\ Len(sent.dev) + (Len(sent.peer) + 1) <= MaxSent
      BY <1>3, <3>3, BoundFact
    <3> QED BY <3>1, <3>2, <3>4, Zenon
  <2>5. Character(who, kind) \in Byte
    <3>1. Len(sent[who]) + 1 \in 0 .. MaxSent
      BY <1>2, <1>3, <1>4
    <3> QED BY <3>1 DEF Character, Byte
  <2> QED BY <2>3, <2>4, <2>5
<1>5. CASE who = "peer"
  <2>1. sent' = [sent EXCEPT !.peer = Append(sent.peer, m)]
    BY <1>2, <1>5
  <2>2. Append(sent.peer, m) \in Seq(Message) /\ Len(Append(sent.peer, m)) = Len(sent.peer) + 1
    BY <1>1, <1>2, AppendProperties
  <2>3. sent'.peer = Append(sent.peer, m) /\ sent'.dev = sent.dev
        /\ sent' \in [dev : Seq(Message), peer : Seq(Message)]
    BY <1>2, <2>1, <2>2
  <2>4. Len(sent'.dev) + Len(sent'.peer) <= MaxSent
    <3>1. Len(sent'.peer) = Len(sent.peer) + 1
      BY <2>2, <2>3
    <3>2. Len(sent'.dev) = Len(sent.dev)
      BY <2>3
    <3>3. Len(sent.dev) + Len(sent.peer) < MaxSent
      BY <1>2
    <3>4. /\ (Len(sent.dev) + 1) + Len(sent.peer) <= MaxSent
          /\ Len(sent.dev) + (Len(sent.peer) + 1) <= MaxSent
      BY <1>3, <3>3, BoundFact
    <3> QED BY <3>1, <3>2, <3>4, Zenon
  <2>5. Character(who, kind) \in Byte
    <3>1. Len(sent[who]) + 1 \in 0 .. MaxSent
      BY <1>2, <1>3, <1>5
    <3> QED BY <3>1 DEF Character, Byte
  <2> QED BY <2>3, <2>4, <2>5
<1> QED BY <1>4, <1>5

LEMMA LineInit == Init => Line
<1> SUFFICES ASSUME Init PROVE Line
  OBVIOUS
<1>1. <<>> \in Seq(Byte) /\ <<>> \in Seq(SendOp) /\ <<>> \in Seq(Message) /\ Len(<<>>) = 0
  BY EmptySeq
<1> QED BY <1>1, EndFact, UartMuxAssumption DEF Init, Line

LEMMA LineStep == ASSUME Line, [Next]_vars PROVE Line'
<1>0. /\ dev \in End /\ peer \in End /\ toDev \in Seq(Byte) /\ toPeer \in Seq(Byte)
      /\ sending \in Seq(SendOp)
      /\ sent \in [dev : Seq(Message), peer : Seq(Message)] /\ Len(sent.dev) + Len(sent.peer) <= MaxSent
  BY DEF Line
<1>1. CASE DevReceive
  <2> DEFINE b == Head(toDev)
  <2>1. toDev # <<>> /\ toDev' = Tail(toDev) /\ dev' = Handle(dev, b).end
        /\ toPeer' = toPeer \o Handle(dev, b).say /\ UNCHANGED <<peer, sending, sent>>
    BY <1>1 DEF DevReceive
  <2>2. b \in Byte /\ toDev' \in Seq(Byte)
    BY <1>0, <2>1, HeadTailProperties
  <2>3. dev' \in End /\ Handle(dev, b).say \in Seq(Byte)
    BY <1>0, <2>1, <2>2, HandleFact
  <2> HIDE DEF b
  <2>4. toPeer' \in Seq(Byte)
    BY <1>0, <2>1, <2>3, ConcatProperties
  <2> QED BY <1>0, <2>1, <2>2, <2>3, <2>4 DEF Line
<1>2. CASE PeerReceive
  <2> DEFINE b == Head(toPeer)
  <2>1. toPeer # <<>> /\ toPeer' = Tail(toPeer) /\ peer' = Handle(peer, b).end
        /\ toDev' = toDev \o Handle(peer, b).say /\ UNCHANGED <<dev, sending, sent>>
    BY <1>2 DEF PeerReceive
  <2>2. b \in Byte /\ toPeer' \in Seq(Byte)
    BY <1>0, <2>1, HeadTailProperties
  <2>3. peer' \in End /\ Handle(peer, b).say \in Seq(Byte)
    BY <1>0, <2>1, <2>2, HandleFact
  <2> HIDE DEF b
  <2>4. toDev' \in Seq(Byte)
    BY <1>0, <2>1, <2>3, ConcatProperties
  <2> QED BY <1>0, <2>1, <2>2, <2>3, <2>4 DEF Line
<1>3. ASSUME NEW s \in Services, NEW kind \in Kinds, DevSend(s, kind) PROVE Line'
  <2>1. Record("dev", s, kind) /\ sending' = SendSteps(dev, s, Character("dev", kind))
        /\ UNCHANGED <<dev, peer, toDev, toPeer>>
    BY <1>3 DEF DevSend
  <2>2. /\ Character("dev", kind) \in Byte /\ sent' \in [dev : Seq(Message), peer : Seq(Message)]
        /\ Len(sent'.dev) + Len(sent'.peer) <= MaxSent
    BY <2>1, RecordFact
  <2>3. sending' \in Seq(SendOp)
    BY <2>1, <2>2, SendStepsFact
  <2> QED BY <1>0, <2>1, <2>2, <2>3 DEF Line
<1>4. ASSUME NEW s \in Services, NEW kind \in Kinds, PeerSend(s, kind) PROVE Line'
  <2> DEFINE b == Character("peer", kind)
             id == IF s = peer.out THEN <<>> ELSE <<Code(s)>>
  <2>1. Record("peer", s, kind) /\ toDev' = toDev \o id \o Escaped(b)
        /\ peer' = [peer EXCEPT !.last = Escaped(b), !.out = s] /\ UNCHANGED <<dev, sending, toPeer>>
    BY <1>4 DEF PeerSend
  <2>2. /\ b \in Byte /\ sent' \in [dev : Seq(Message), peer : Seq(Message)]
        /\ Len(sent'.dev) + Len(sent'.peer) <= MaxSent
    BY <2>1, RecordFact
  <2> HIDE DEF b
  <2>3. Escaped(b) \in Seq(Byte)
    BY <2>2, EscapedFact
  <2>4. id \in Seq(Byte)
    <3>1. Code(s) \in Byte
      BY ByteFact
    <3>2. <<Code(s)>> \in Seq(Byte) /\ <<>> \in Seq(Byte)
      BY <3>1
    <3> QED BY <3>2
  <2> HIDE DEF id
  <2>5. toDev' \in Seq(Byte)
    BY <1>0, <2>1, <2>3, <2>4
  <2>6. peer' \in End
    BY <1>0, <2>1, <2>3 DEF End
  <2> QED BY <1>0, <2>1, <2>2, <2>5, <2>6 DEF Line
<1>5. CASE SendStep
  <2> DEFINE op == Head(sending)
  <2>1. sending # <<>> /\ sending' = Tail(sending) /\ UNCHANGED <<peer, toDev, sent>>
        /\ \/ op.op = "put" /\ toPeer' = Append(toPeer, op.byte) /\ UNCHANGED dev
           \/ op.op = "last" /\ dev' = [dev EXCEPT !.last = op.bytes] /\ UNCHANGED toPeer
           \/ op.op = "out" /\ dev' = [dev EXCEPT !.out = op.id] /\ UNCHANGED toPeer
    BY <1>5 DEF SendStep
  <2>2. op \in SendOp /\ sending' \in Seq(SendOp)
    BY <1>0, <2>1, HeadTailProperties
  <2> HIDE DEF op
  <2>3. toPeer' \in Seq(Byte) /\ dev' \in End
    <3>1. CASE op.op = "put"
      <4>1. op.byte \in Byte /\ toPeer' = Append(toPeer, op.byte) /\ UNCHANGED dev
        BY <2>1, <2>2, <3>1 DEF SendOp
      <4> QED BY <1>0, <4>1
    <3>2. CASE op.op = "last"
      <4>1. op.bytes \in Seq(Byte) /\ dev' = [dev EXCEPT !.last = op.bytes] /\ UNCHANGED toPeer
        BY <2>1, <2>2, <3>2 DEF SendOp
      <4> QED BY <1>0, <4>1, EndFact
    <3>3. CASE op.op = "out"
      <4>1. op.id \in Services /\ dev' = [dev EXCEPT !.out = op.id] /\ UNCHANGED toPeer
        BY <2>1, <2>2, <3>3 DEF SendOp
      <4> QED BY <1>0, <4>1, EndFact
    <3> QED BY <2>1, <3>1, <3>2, <3>3
  <2> QED BY <1>0, <2>1, <2>2, <2>3 DEF Line
<1>6. CASE Buffers \/ UNCHANGED vars
  BY <1>0, <1>6 DEF Buffers, vars, muxVars, Line
<1>7. CASE DevRestart
  <2>1. <<>> \in Seq(SendOp)
    BY EmptySeq
  <2> QED BY <1>0, <1>7, <2>1, EndFact DEF DevRestart, Line
<1>8. CASE PeerRestart
  BY <1>0, <1>8, EndFact DEF PeerRestart, ringVars, Line
<1> QED BY <1>1, <1>2, <1>3, <1>4, <1>5, <1>6, <1>7, <1>8 DEF Next

LEMMA EmptyWindow == ASSUME NEW d, NEW m, NEW g, d.count = 0 PROVE Window(d, m, g) = <<>>
<1>1. 1 .. d.count = {}
  OBVIOUS
<1>2. Window(d, m, g) \in [1 .. 0 -> {}]
  BY <1>1 DEF Window
<1>3. Window(d, m, g) \in Seq({}) /\ Len(Window(d, m, g)) = 0
  BY <1>2, AsSeq
<1> QED BY <1>3, EmptySeq

\* What the steps of buf_set leave of a buffer that was never used.
LEMMA SetMemory ==
  ASSUME NEW d, Memory(d), Fields(d)
  PROVE  /\ \A n : Memory([d EXCEPT !.size = n]) /\ [d EXCEPT !.size = n].count = d.count
                   /\ [d EXCEPT !.size = n].size = n
         /\ Memory(Resized(d, d.size)) /\ Resized(d, d.size).size = d.size
         /\ Resized(d, d.size).count = d.count
         /\ Memory(Lost(d)) /\ Lost(d).size = 0
<1>0. d = [size |-> d.size, room |-> d.room, wptr |-> d.wptr, rptr |-> d.rptr,
           count |-> d.count, data |-> d.data]
  BY DEF Fields
<1>1. \A n : Memory([d EXCEPT !.size = n]) /\ [d EXCEPT !.size = n].count = d.count
             /\ [d EXCEPT !.size = n].size = n
  BY <1>0 DEF Memory
<1>2. Memory(Resized(d, d.size)) /\ Resized(d, d.size).size = d.size
      /\ Resized(d, d.size).count = d.count
  <2> DEFINE kept == [i \in 0 .. MaxSize - 1 |-> IF i < d.room /\ i < d.size THEN d.data[i] ELSE NoData]
  <2>1. kept = [i \in 0 .. MaxSize - 1 |-> kept[i]]
    OBVIOUS
  <2>2. Resized(d, d.size) = [d EXCEPT !.room = d.size, !.data = kept]
    BY DEF Resized
  <2> HIDE DEF kept
  <2>3. Resized(d, d.size) = [size |-> d.size, room |-> d.size, wptr |-> d.wptr, rptr |-> d.rptr,
                              count |-> d.count, data |-> kept]
    BY <1>0, <2>2
  <2> QED BY <2>1, <2>3 DEF Memory
<1>3. Memory(Lost(d)) /\ Lost(d).size = 0
  <2>1. Lost(d) = [size |-> 0, room |-> 0, wptr |-> 0, rptr |-> 0, count |-> 0, data |-> d.data]
    BY DEF Lost, NoBuffer
  <2> QED BY <2>1 DEF Memory
<1> QED BY <1>1, <1>2, <1>3

LEMMA NewMemory ==
  ASSUME NEW n \in Sizes
  PROVE  LET r == [NoBuffer EXCEPT !.size = n, !.room = n]
         IN  Memory(r) /\ r.size = n /\ r.count = 0
<1> DEFINE nothing == [i \in 0 .. MaxSize - 1 |-> NoData]
           a == [NoBuffer EXCEPT !.size = n]
           r == [NoBuffer EXCEPT !.size = n, !.room = n]
<1>1. NoBuffer = [size |-> 0, room |-> 0, wptr |-> 0, rptr |-> 0, count |-> 0, data |-> nothing]
  BY DEF NoBuffer
<1>2. nothing = [i \in 0 .. MaxSize - 1 |-> nothing[i]]
  OBVIOUS
<1> HIDE DEF nothing
<1>3. a = [size |-> n, room |-> 0, wptr |-> 0, rptr |-> 0, count |-> 0, data |-> nothing]
  BY <1>1
<1>4. r = [a EXCEPT !.room = n]
  OBVIOUS
<1> HIDE DEF a
<1>5. r = [size |-> n, room |-> n, wptr |-> 0, rptr |-> 0, count |-> 0, data |-> nothing]
  BY <1>3, <1>4
<1> QED BY <1>2, <1>5 DEF Memory

\* A buffer shows what it holds.
LEMMA ShownFact == ASSUME IInv, NEW b \in Bufs PROVE Unread(b) = Contents(b)
<1> DEFINE d == buf[b]
           m == Mode(b)
           n == d.size
           first == IF on = b /\ Doing("advance") THEN d.rptr + 1 ELSE d.rptr
<1>1. Good(d, m) /\ m \in Modes
  BY CallsFact DEF IInv
<1>2. Fields(d) /\ MaxSize \in Nat \ {0}
  BY <1>1, BufAssumption DEF Good
<1>3. Unread(b) = IF n = 0 THEN <<>>
                  ELSE [k \in 1 .. d.count |->
                          IF k = 1 /\ Copied(b) THEN reg ELSE d.data[(first + k - 1) % n]]
  BY DEF Unread
<1>4. Contents(b) = IF n = 0 THEN <<>> ELSE Window(d, m, reg)
  BY DEF Contents
<1>5. CASE n = 0
  BY <1>3, <1>4, <1>5
<1>6. CASE n # 0 /\ m = "realloc"
  <2>1. d.count = 0
    BY <1>1, <1>6 DEF Good
  <2>2. 1 .. d.count = {}
    BY <2>1
  <2> QED BY <1>3, <1>4, <1>6, <2>2 DEF Window
<1>7. CASE n # 0 /\ m # "realloc"
  <2>1. Fits(d, m) /\ n \in 1 .. MaxSize
    BY <1>1, <1>2, <1>7 DEF Good, Fields
  <2>2. d.count \in 0 .. n + 1 /\ d.rptr \in 0 .. n - 1
    BY <1>2, <2>1 DEF Fields, Fits
  <2>3. first = IF m = "advance" THEN d.rptr + 1 ELSE d.rptr
    BY DEF Doing, Mode
  <2>0. Copied(b) <=> m = "decrement"
    BY CallsFact DEF Copied, Mode, IInv, Calls
  <2> HIDE DEF first, m
  <2>4. ASSUME NEW k \in 1 .. d.count PROVE (first + k - 1) % n = Wrap(Oldest(d, m) + (k - 1), n)
    <3> DEFINE x == first + k - 1
    <3>1. x = first + (k - 1) /\ x \in 0 .. 3 * n - 1 /\ n \in Nat \ {0}
      BY <1>2, <2>1, <2>2, <2>3
    <3>2. Wrap(x, n) = Wrap(Oldest(d, m) + (k - 1), n)
      BY <1>2, <2>1, <2>2, <2>3 DEF Oldest, Wrap
    <3> HIDE DEF x
    <3>3. x % n = Wrap(x, n)
      BY <3>1, WrapIsMod
    <3> QED BY <3>2, <3>3 DEF x
  <2>5. [k \in 1 .. d.count |-> IF k = 1 /\ Copied(b) THEN reg ELSE d.data[(first + k - 1) % n]]
        = Window(d, m, reg)
    BY <2>0, <2>4 DEF Window
  <2> QED BY <1>3, <1>4, <1>7, <2>5
<1> QED BY <1>5, <1>6, <1>7

-----------------------------------------------------------------------------
(***************************************************************************)
(* What a step does to a buffer.                                           *)
(***************************************************************************)
SameSize(b) == buf'[b].size = buf[b].size
SameTaken(b) == taken'[b] = taken[b]

Idles(b) == Contents(b)' = Contents(b) /\ SameSize(b) /\ SameTaken(b)

Moves(b) ==
  \/ \E v \in Byte : /\ Len(Contents(b)) < buf[b].size /\ Contents(b)' = Append(Contents(b), v)
                     /\ SameSize(b) /\ SameTaken(b)
  \/ \E v \in Byte : /\ Len(Contents(b)) = buf[b].size /\ buf[b].size > 0
                     /\ \/ Contents(b)' = [Append(Contents(b), v) EXCEPT ![1] = v]
                        \/ Contents(b)' = Append(Contents(b), v)
                     /\ SameSize(b) /\ SameTaken(b)
  \/ /\ Contents(b) # <<>> /\ taken'[b] = <<Head(Contents(b))>>
     /\ Contents(b)' = Tail(Contents(b)) /\ SameSize(b)
  \/ \E n \in Sizes : /\ Len(Contents(b)) <= n /\ buf'[b].size = n
                      /\ Contents(b)' = Contents(b) /\ SameTaken(b)
  \/ \E n \in Sizes : Contents(b)' = <<>> /\ buf'[b].size = n /\ taken'[b] = <<>>
  \/ Contents(b)' = <<>> /\ buf'[b].size = 0 /\ SameTaken(b)
  \/ Idles(b)

Strong == IInv /\ on \in Bufs /\ Held

LEMMA IdleFact ==
  ASSUME NEW b, buf'[b] = buf[b], taken'[b] = taken[b], Mode(b)' = Mode(b),
         Mode(b) = "decrement" => reg' = reg
  PROVE  Idles(b)
<1>1. Window(buf[b], Mode(b), reg') = Window(buf[b], Mode(b), reg)
  BY DEF Window
<1> QED BY <1>1 DEF Idles, Contents, SameSize, SameTaken

\* One buffer changes.
LEMMA OneMoves ==
  ASSUME Strong, NEW b \in Bufs, NEW d, buf' = [buf EXCEPT ![b] = d], Memory(d),
         NEW t, taken' = [taken EXCEPT ![b] = t],
         \A c \in Bufs : c # b => Mode(c)' = Mode(c) /\ (Mode(c) = "decrement" => reg' = reg),
         Moves(b)
  PROVE  Held' /\ \A c \in Bufs : Moves(c)
<1>1. \A c \in Bufs : buf'[c] = IF c = b THEN d ELSE buf[c]
  BY DEF Strong, IInv
<1>2. taken' = [c \in Bufs |-> taken'[c]] /\ \A c \in Bufs : c # b => taken'[c] = taken[c]
  BY DEF Strong, Held
<1>3. ASSUME NEW c \in Bufs PROVE Moves(c)
  <2>1. CASE c # b
    <3>1. Idles(c)
      BY <1>1, <1>2, <2>1, IdleFact
    <3> QED BY <3>1 DEF Moves
  <2> QED BY <2>1
<1>4. ASSUME NEW c \in Bufs PROVE Memory(buf'[c])
  BY <1>1 DEF Strong, Held
<1> QED BY <1>2, <1>3, <1>4 DEF Held

LEMMA RingIdle ==
  ASSUME Strong, UNCHANGED ringVars
  PROVE  Held' /\ \A b \in Bufs : Moves(b)
<1>1. UNCHANGED <<buf, on, todo, reg, taken>>
  BY DEF ringVars
<1>2. \A b : Mode(b)' = Mode(b)
  BY <1>1 DEF Mode
<1>3. \A b \in Bufs : Idles(b)
  BY <1>1, <1>2, IdleFact
<1>4. Held'
  BY <1>1 DEF Strong, Held
<1> QED BY <1>3, <1>4 DEF Moves

LEMMA WriteMoves ==
  ASSUME Strong, NEW b \in Bufs, NEW v \in Byte, Write(b, v)
  PROVE  Held' /\ \A c \in Bufs : Moves(c)
<1> DEFINE d == buf[b]
           r == BufWrite(d, v)
           m == Mode(b)
<1>1. /\ UNCHANGED <<on, todo, reg, taken>> /\ ~(on = b /\ Doing("realloc"))
      /\ buf' = [buf EXCEPT ![b] = r]
  BY DEF Write
<1>2. m \in Modes \ {"realloc"} /\ Good(d, m) /\ Memory(d)
  BY <1>1, CallsFact DEF Mode, Doing, IInv, Strong, Held
<1>3. \A c : Mode(c)' = Mode(c)
  BY <1>1 DEF Mode
<1>4. CASE Rejects(d)
  <2>1. r = d
    BY <1>4 DEF BufWrite
  <2>2. buf' = buf
    BY <1>1, <2>1 DEF Strong, IInv
  <2> QED BY <1>1, <2>2, RingIdle DEF ringVars
<1>5. CASE ~Rejects(d)
  <2>1. d.size \in 1 .. MaxSize /\ d.size # 0 /\ d.count \in 0 .. d.size
    BY <1>2, <1>5, BufAssumption DEF Rejects, Good, Fields
  <2> DEFINE w == Window(d, m, reg)
             x == Window(r, m, reg)
  <2>2. /\ x = IF d.count = d.size /\ m # "decrement" THEN [Append(w, v) EXCEPT ![1] = v]
               ELSE Append(w, v)
        /\ Memory(r) /\ r.size = d.size /\ Len(w) = d.count
    <3> HIDE DEF d, m
    <3> QED BY <1>2, <1>5, WriteWindow
  <2>3. buf'[b] = r /\ \A c \in Bufs : c # b => buf'[c] = buf[c]
    BY <1>1 DEF Strong, IInv
  <2> HIDE DEF r
  <2>4. Moves(b)
    <3>1. Contents(b) = w /\ Contents(b)' = x
      <4>1. Contents(b) = w
        BY <2>1 DEF Contents
      <4>2. buf[b]' = r /\ reg' = reg /\ Mode(b)' = m /\ r.size # 0
        BY <1>1, <1>3, <2>1, <2>2, <2>3
      <4> HIDE DEF m
      <4>3. Contents(b)' = x
        BY <4>2 DEF Contents
      <4> QED BY <4>1, <4>3
    <3>2. SameSize(b) /\ SameTaken(b)
      BY <1>1, <2>2, <2>3 DEF SameSize, SameTaken
    <3> HIDE DEF w, x, m
    <3>3. CASE d.count = d.size
      <4>1. Len(Contents(b)) = buf[b].size /\ buf[b].size > 0
        BY <2>1, <2>2, <3>1, <3>3
      <4>2. \/ Contents(b)' = [Append(Contents(b), v) EXCEPT ![1] = v]
            \/ Contents(b)' = Append(Contents(b), v)
        BY <2>2, <3>1
      <4> QED BY <3>2, <4>1, <4>2 DEF Moves
    <3>4. CASE d.count # d.size
      <4>1. Len(Contents(b)) < buf[b].size
        BY <2>1, <2>2, <3>1, <3>4
      <4>2. Contents(b)' = Append(Contents(b), v)
        BY <2>2, <3>1, <3>4
      <4> QED BY <3>2, <4>1, <4>2 DEF Moves
    <3> QED BY <3>3, <3>4
  <2>6. taken' = [taken EXCEPT ![b] = taken[b]]
    BY <1>1 DEF Strong, Held
  <2> HIDE DEF d, m
  <2> QED BY <1>1, <1>3, <2>2, <2>4, <2>6, OneMoves
<1> QED BY <1>4, <1>5

LEMMA StartMoves == ASSUME Strong, Start PROVE Held' /\ \A b \in Bufs : Moves(b)
<1>1. CASE \E b \in Bufs : BufRead(b)
  <2>1. PICK b \in Bufs : BufRead(b)
    BY <1>1
  <2>2. todo = <<>> /\ todo' = ReadSteps /\ on' = b /\ UNCHANGED <<buf, reg, taken>>
    BY <2>1 DEF BufRead, Call
  <2>3. Mode(b)' = "copy" /\ Mode(b) = "idle"
    BY <2>2, CallsFact DEF Mode
  <2>4. \A c \in Bufs : c # b => Mode(c)' = Mode(c)
    BY <2>2 DEF Mode
  <2>5. Moves(b)
    <3>1. Window(buf[b], "copy", reg) = Window(buf[b], "idle", reg)
      BY DEF Window, Oldest
    <3>2. Contents(b)' = Contents(b)
      BY <2>2, <2>3, <3>1 DEF Contents
    <3> QED BY <2>2, <3>2 DEF Moves, Idles, SameSize, SameTaken
  <2>6. buf' = [buf EXCEPT ![b] = buf[b]] /\ taken' = [taken EXCEPT ![b] = taken[b]] /\ Memory(buf[b])
    BY <2>2 DEF Strong, IInv, Held
  <2> QED BY <2>2, <2>4, <2>5, <2>6, OneMoves
<1>2. CASE \E b \in Bufs, n \in Sizes : BufSet(b, n)
  <2>1. PICK b \in Bufs, n \in Sizes : BufSet(b, n)
    BY <1>2
  <2> DEFINE d == buf[b]
             r == [d EXCEPT !.size = n]
  <2>2. /\ todo = <<>> /\ todo' = <<"realloc">> /\ on' = b /\ buf' = [buf EXCEPT ![b] = r]
        /\ d.count = 0 /\ UNCHANGED <<reg, taken>>
    BY <2>1 DEF BufSet
  <2>3. Good(d, Mode(b)) /\ Memory(d)
    BY DEF Strong, IInv, Held
  <2>4. Memory(r) /\ r.count = 0 /\ r.size = n
    BY <2>2, <2>3, SetMemory DEF Good
  <2>5. \A c \in Bufs : c # b => Mode(c)' = Mode(c)
    BY <2>2 DEF Mode
  <2>6. buf'[b] = r
    BY <2>2 DEF Strong, IInv
  <2> HIDE DEF r
  <2>7. Moves(b)
    <3>1. Contents(b) = <<>> /\ Contents(b)' = <<>>
      BY <2>2, <2>4, <2>6, EmptyWindow DEF Contents
    <3>2. Len(Contents(b)) <= n
      <4>1. Len(<<>>) = 0
        BY EmptySeq
      <4>2. n \in Nat
        BY BufAssumption, RingBufAssumption
      <4> QED BY <3>1, <4>1, <4>2
    <3>3. Contents(b)' = Contents(b) /\ buf'[b].size = n /\ SameTaken(b)
      BY <2>2, <2>4, <2>6, <3>1 DEF SameTaken
    <3> QED BY <3>2, <3>3 DEF Moves
  <2>8. taken' = [taken EXCEPT ![b] = taken[b]]
    BY <2>2 DEF Strong, Held
  <2> HIDE DEF d
  <2> QED BY <2>2, <2>4, <2>5, <2>7, <2>8, OneMoves
<1> QED BY <1>1, <1>2 DEF Start

LEMMA StepMoves == ASSUME Strong, NEW b \in Bufs, on = b, Step PROVE Held' /\ \A c \in Bufs : Moves(c)
<1> DEFINE d == buf[b]
<1>1. todo \in Calls /\ Good(d, Mode(b)) /\ Memory(d)
  BY DEF Strong, IInv, Held
<1>2. taken = [c \in Bufs |-> taken[c]] /\ buf = [c \in Bufs |-> buf[c]]
  BY DEF Strong, IInv, Held
<1>3. CASE Copy
  <2>1. /\ todo = ReadSteps /\ todo' = <<"decrement", "advance">> /\ on' = b
        /\ reg' = d.data[d.rptr] /\ UNCHANGED <<buf, taken>>
    BY <1>1, <1>3, CallsFact DEF Copy, Doing, Done, Calls
  <2>2. Mode(b) = "copy" /\ Mode(b)' = "decrement"
    BY <2>1, CallsFact DEF Mode
  <2>3. \A c \in Bufs : c # b => Mode(c)' = Mode(c) /\ Mode(c) = "idle"
    BY <2>1 DEF Mode
  <2>4. Moves(b)
    <3>0. Fields(d) /\ Fits(d, "copy") /\ d.size \in 1 .. MaxSize
      BY <1>1, <2>2, BufAssumption DEF Good, Fields
    <3>1. Window(d, "decrement", reg') = Window(d, "copy", reg)
      <4>1. Wrap(d.rptr + (1 - 1), d.size) = d.rptr
        BY <3>0 DEF Fields, Fits, Wrap
      <4> QED BY <2>1, <4>1 DEF Window, Oldest
    <3>2. Contents(b)' = Contents(b)
      BY <2>1, <2>2, <3>1 DEF Contents
    <3> QED BY <2>1, <3>2 DEF Moves, Idles, SameSize, SameTaken
  <2>6. buf' = [buf EXCEPT ![b] = d] /\ taken' = [taken EXCEPT ![b] = taken[b]]
    BY <1>2, <2>1
  <2> HIDE DEF d
  <2> QED BY <1>1, <2>3, <2>4, <2>6, OneMoves
<1>4. CASE Decrement
  <2> DEFINE e == [d EXCEPT !.count = @ - 1]
  <2>1. /\ todo = <<"decrement", "advance">> /\ todo' = <<"advance">> /\ on' = b
        /\ buf' = [buf EXCEPT ![b] = e] /\ taken' = [taken EXCEPT ![b] = <<reg>>] /\ UNCHANGED reg
    BY <1>1, <1>4, CallsFact DEF Decrement, Doing, Done, Calls
  <2>2. Mode(b) = "decrement" /\ Mode(b)' = "advance"
    BY <2>1, CallsFact DEF Mode
  <2>3. \A c \in Bufs : c # b => Mode(c)' = Mode(c)
    BY <2>1 DEF Mode
  <2>5. /\ Window(d, "decrement", reg) # <<>> /\ Head(Window(d, "decrement", reg)) = reg
        /\ Tail(Window(d, "decrement", reg)) = Window(e, "advance", reg)
        /\ e.size = d.size /\ Memory(e)
    BY <1>1, <2>2, ReadWindow
  <2>6. buf'[b] = e /\ taken'[b] = <<reg>>
    BY <1>2, <2>1
  <2>7. d.size # 0
    BY <1>1, <2>2 DEF Good
  <2> HIDE DEF e
  <2>8. Moves(b)
    <3>1. Contents(b) = Window(d, "decrement", reg) /\ Contents(b)' = Window(e, "advance", reg)
      BY <2>1, <2>2, <2>5, <2>6, <2>7 DEF Contents
    <3>2. SameSize(b)
      BY <2>5, <2>6 DEF SameSize
    <3> QED BY <2>5, <2>6, <3>1, <3>2 DEF Moves
  <2> HIDE DEF d
  <2> QED BY <2>1, <2>3, <2>5, <2>8, OneMoves
<1>5. CASE Advance
  <2> DEFINE e == [d EXCEPT !.rptr = ModIncr(d, @)]
  <2>1. /\ todo = <<"advance">> /\ todo' = <<>> /\ on' = b /\ buf' = [buf EXCEPT ![b] = e]
        /\ UNCHANGED taken
    BY <1>1, <1>5, CallsFact DEF Advance, Doing, Done, Calls
  <2>2. Mode(b) = "advance" /\ Mode(b)' = "idle"
    BY <2>1, CallsFact DEF Mode
  <2>3. \A c \in Bufs : c # b => Mode(c)' = Mode(c) /\ Mode(c) = "idle"
    BY <2>1 DEF Mode
  <2>4. Window(e, "idle", reg') = Window(d, "advance", reg) /\ e.size = d.size /\ Memory(e)
    BY <1>1, <2>2, AdvanceWindow
  <2>5. buf'[b] = e
    BY <1>2, <2>1
  <2> HIDE DEF e
  <2>6. Moves(b)
    <3>1. Contents(b)' = Contents(b)
      BY <2>2, <2>4, <2>5 DEF Contents
    <3> QED BY <2>1, <2>4, <2>5, <3>1 DEF Moves, Idles, SameSize, SameTaken
  <2>8. taken' = [taken EXCEPT ![b] = taken[b]]
    BY <1>2, <2>1
  <2> HIDE DEF d
  <2> QED BY <2>1, <2>3, <2>4, <2>6, <2>8, OneMoves
<1>6. CASE Realloc
  <2>1. /\ todo = <<"realloc">> /\ todo' = <<>> /\ on' = b /\ UNCHANGED taken
        /\ (buf' = [buf EXCEPT ![b] = Resized(d, d.size)] \/ buf' = [buf EXCEPT ![b] = Lost(d)])
    BY <1>1, <1>6, CallsFact DEF Realloc, Doing, Done, Calls
  <2>2. Mode(b) = "realloc"
    BY <2>1, CallsFact DEF Mode
  <2>3. \A c \in Bufs : c # b => Mode(c)' = Mode(c) /\ Mode(c) = "idle"
    BY <2>1 DEF Mode
  <2>4. d.count = 0 /\ Fields(d) /\ d.size # 0
    BY <1>1, <2>2 DEF Good
  <2>5. Contents(b) = <<>>
    BY <2>4, EmptyWindow DEF Contents
  <2>7. taken' = [taken EXCEPT ![b] = taken[b]]
    BY <1>2, <2>1
  <2>8. CASE buf' = [buf EXCEPT ![b] = Resized(d, d.size)]
    <3> DEFINE e == Resized(d, d.size)
    <3>1. Memory(e) /\ e.size = d.size /\ e.count = 0
      BY <1>1, <2>4, SetMemory
    <3>2. buf'[b] = e
      BY <1>2, <2>8
    <3> HIDE DEF e
    <3>3. Moves(b)
      <4>1. Contents(b)' = <<>>
        BY <3>1, <3>2, EmptyWindow DEF Contents
      <4> QED BY <2>1, <2>5, <3>1, <3>2, <4>1 DEF Moves, Idles, SameSize, SameTaken
    <3>4. buf' = [buf EXCEPT ![b] = e]
      BY <2>8 DEF e
    <3> HIDE DEF d
    <3> QED BY <2>3, <2>7, <3>1, <3>3, <3>4, OneMoves
  <2>9. CASE buf' = [buf EXCEPT ![b] = Lost(d)]
    <3> DEFINE e == Lost(d)
    <3>1. Memory(e) /\ e.size = 0
      BY <1>1, <2>4, SetMemory
    <3>2. buf'[b] = e
      BY <1>2, <2>9
    <3> HIDE DEF e
    <3>3. Moves(b)
      <4>1. Contents(b)' = <<>>
        BY <3>1, <3>2 DEF Contents
      <4> QED BY <2>1, <3>1, <3>2, <4>1 DEF Moves, SameTaken
    <3>4. buf' = [buf EXCEPT ![b] = e]
      BY <2>9 DEF e
    <3> HIDE DEF d
    <3> QED BY <2>3, <2>7, <3>1, <3>3, <3>4, OneMoves
  <2> QED BY <2>1, <2>8, <2>9
<1> QED BY <1>3, <1>4, <1>5, <1>6 DEF Step

LEMMA RestartMoves == ASSUME Strong, DevRestart PROVE Held' /\ \A b \in Bufs : Moves(b)
<1>1. PICK n \in Sizes : buf' = [b \in Bufs |-> [NoBuffer EXCEPT !.size = n, !.room = n]]
  BY DEF DevRestart
<1>2. todo' = <<>> /\ taken' = [b \in Bufs |-> <<>>]
  BY DEF DevRestart
<1>3. ASSUME NEW b \in Bufs PROVE Memory(buf'[b]) /\ Moves(b)
  <2>1. Memory(buf'[b]) /\ buf'[b].size = n /\ buf'[b].count = 0
    BY <1>1, NewMemory
  <2>2. Contents(b)' = <<>>
    BY <2>1, EmptyWindow DEF Contents
  <2>3. taken'[b] = <<>>
    BY <1>2
  <2> QED BY <2>1, <2>2, <2>3 DEF Moves
<1>5. taken' = [b \in Bufs |-> taken'[b]]
  BY <1>2
<1> QED BY <1>3, <1>5 DEF Held

LEMMA NextMoves ==
  ASSUME Strong, Line, [Next]_vars
  PROVE  Held' /\ \A b \in Bufs : Moves(b)
<1>1. CASE DevReceive
  <2> DEFINE b == Head(toDev)
             r == Handle(dev, b)
  <2>1. UNCHANGED ringVars \/ (r.data # <<>> /\ Write(dev.in, r.data[1]))
    BY <1>1 DEF DevReceive
  <2>2. b \in Byte /\ dev \in End
    BY <1>1, HeadTailProperties DEF DevReceive, Line
  <2> HIDE DEF b
  <2>3. r.data = <<>> \/ (r.data[1] \in Byte /\ dev.in \in Bufs)
    BY <2>2, HandleFact DEF Services
  <2> HIDE DEF r
  <2> QED BY <2>1, <2>3, RingIdle, WriteMoves
<1>2. CASE Buffers
  BY <1>2, StartMoves, StepMoves DEF Buffers, Strong
<1>3. CASE DevRestart
  BY <1>3, RestartMoves
<1>4. CASE PeerReceive \/ PeerRestart \/ SendStep \/ UNCHANGED vars
           \/ \E s \in Services, kind \in Kinds : DevSend(s, kind) \/ PeerSend(s, kind)
  <2>1. UNCHANGED ringVars
    BY <1>4 DEF PeerReceive, PeerRestart, SendStep, DevSend, PeerSend, vars
  <2> QED BY <2>1, RingIdle
<1> QED BY <1>1, <1>2, <1>3, <1>4 DEF Next

-----------------------------------------------------------------------------
LEMMA HeldInit ==
  ASSUME Init
  PROVE  Held /\ \A b \in Bufs : Contents(b) = <<>> /\ buf[b].size \in Sizes /\ taken[b] = <<>>
<1>1. PICK n \in Sizes : buf = [b \in Bufs |-> [NoBuffer EXCEPT !.size = n, !.room = n]]
  BY DEF Init, RingInit
<1>2. todo = <<>> /\ taken = [b \in Bufs |-> <<>>]
  BY DEF Init, RingInit
<1>3. ASSUME NEW b \in Bufs PROVE Memory(buf[b]) /\ Contents(b) = <<>> /\ buf[b].size \in Sizes
  <2>1. Memory(buf[b]) /\ buf[b].size = n /\ buf[b].count = 0
    BY <1>1, NewMemory
  <2>2. Contents(b) = <<>>
    BY <2>1, EmptyWindow DEF Contents
  <2> QED BY <2>1, <2>2
<1>5. taken = [b \in Bufs |-> taken[b]] /\ \A b \in Bufs : taken[b] = <<>>
  BY <1>2
<1> QED BY <1>3, <1>5 DEF Held

\* A move of a buffer is a step of the queue.
LEMMA MovesFact ==
  ASSUME NEW b \in Bufs, Moves(b), Unread(b) = Contents(b), Unread(b)' = Contents(b)'
  PROVE  Fifo(b)!Next \/ UNCHANGED Fifo(b)!vars
BY DEF Moves, Idles, SameSize, SameTaken, Byte, Fifo!Next, Fifo!vars, Fifo!Put, Fifo!PutFull, Fifo!Take, Fifo!Resize,
       Fifo!SetUp, Fifo!Lose

\* A buffer is a queue of its size: what is read is what was written and not read
\* before, oldest first, whatever the order in which the receive interrupt and the
\* steps of the calls run.  An element that finds it full takes the place of the
\* oldest, unless that was just copied, and is read twice; the next is refused.
THEOREM BufferIsQueue == Spec => ImplementsBuffer
<1>1. Init => Held /\ Line
  BY HeldInit, LineInit
<1>2. Init /\ IInv => \A b \in Bufs : Fifo(b)!Init
  BY HeldInit, ShownFact DEF Fifo!Init
<1>3. IInv => Shown
  BY ShownFact DEF Shown
<1>4. IInv /\ on \in Bufs /\ Held /\ Line /\ [Next]_vars => Held' /\ Line' /\ \A b \in Bufs : Moves(b)
  BY NextMoves, LineStep DEF Strong
<1>5. (\A b \in Bufs : Moves(b)) /\ Shown /\ Shown'
      => \A b \in Bufs : Fifo(b)!Next \/ UNCHANGED Fifo(b)!vars
  BY MovesFact DEF Shown
<1> QED BY <1>1, <1>2, <1>3, <1>4, <1>5, Inductive, PTL DEF Spec, ImplementsBuffer

-----------------------------------------------------------------------------
(***************************************************************************)
(* The multiplexer.  What one end has sent and the other has yet to read   *)
(* is a sequence q of bytes; h is the history of the characters sent.  A   *)
(* forecast w says what the receiver's service and escape will be when it  *)
(* comes to each byte, and after the last.                                 *)
(***************************************************************************)
State == [in : Services \union {None}, esc : {0, 1}]

IsData(b) == b.n # 0
IsId(b) == b.n = 0 /\ b.c \in Services
IsEsc(b) == b.n = 0 /\ b.c = "ESC"
IsForce(b) == b.n = 0 /\ b.c = "FORCE"

Codes == {Code(c) : c \in {"ESC", "FORCE"} \union Services}
Char(h, n) == [c |-> h[n].c, n |-> n, x |-> FALSE]
OnLine(h, n) == [c |-> h[n].c, n |-> n, x |-> (h[n].c # "plain")]

Hears(w, b) ==
  [in |-> IF IsId(b) THEN b.c ELSE w.in,
   esc |-> IF IsData(b) THEN 0 ELSE IF IsEsc(b) THEN 1 ELSE w.esc]

\* What comes is a code or a character of the history, which the receiver finds for
\* the right service, escaped if it is, unless it does not know the service.
Right(h, w, b) ==
  /\ b \in Codes \/ (b.n \in DOMAIN h /\ b = OnLine(h, b.n))
  /\ IsData(b) => w.in = None \/ (w.in = h[b.n].to /\ (w.esc = 1 <=> b.x))
  /\ IsId(b) => w.esc = 0

\* Without a restart (r = 0) no character comes twice.
Upto(m, n, r) == m <= n /\ (r = 0 => m # n)

Body(h, q, w, r) ==
  /\ w \in [1 .. Len(q) + 1 -> State]
  /\ \A i \in 1 .. Len(q) : Right(h, w[i], q[i]) /\ w[i + 1] = Hears(w[i], q[i])
  /\ \A k \in 1 .. Len(q), i \in 1 .. Len(q) + 1 :
       k < i /\ IsId(q[k]) /\ w[i].esc = 1 => \E j \in k + 1 .. i - 1 : IsEsc(q[j])
  /\ \A i, j \in 1 .. Len(q) : i < j /\ IsData(q[i]) /\ IsData(q[j]) => Upto(q[i].n, q[j].n, r)
  /\ r = 0 => \A i \in 1 .. Len(q) : ~IsForce(q[i]) /\ (IsData(q[i]) => w[i].in # None)

Ends(w, out, r) ==
  /\ w.esc = 0
  /\ out # None => w.in \in {None, out} /\ (r = 0 => w.in # None)

-----------------------------------------------------------------------------
\* A byte is taken off the front.
Later(w, n) == [i \in 1 .. n |-> w[i + 1]]

LEMMA TakeBody ==
  ASSUME NEW h, NEW q \in Seq(Byte), NEW w, NEW r, q # <<>>, Body(h, q, w, r)
  PROVE  /\ Body(h, Tail(q), Later(w, Len(q)), r)
         /\ Later(w, Len(q))[1] = Hears(w[1], Head(q))
         /\ Later(w, Len(q))[Len(Tail(q)) + 1] = w[Len(q) + 1]
<1> DEFINE t == Tail(q)
           v == Later(w, Len(q))
<1>1. Len(q) \in Nat \ {0} /\ Len(t) = Len(q) - 1 /\ Head(q) = q[1] /\ \A i \in 1 .. Len(t) : t[i] = q[i + 1]
  BY HeadTailProperties
<1>2. v \in [1 .. Len(t) + 1 -> State] /\ \A i \in 1 .. Len(t) + 1 : v[i] = w[i + 1]
  BY <1>1 DEF Body, Later
<1> HIDE DEF t, v
<1>3. \A i \in 1 .. Len(t) : Right(h, v[i], t[i]) /\ v[i + 1] = Hears(v[i], t[i])
  BY <1>1, <1>2 DEF Body
<1>4. ASSUME NEW k \in 1 .. Len(t), NEW i \in 1 .. Len(t) + 1, k < i, IsId(t[k]), v[i].esc = 1
      PROVE  \E j \in k + 1 .. i - 1 : IsEsc(t[j])
  <2>1. /\ k + 1 \in 1 .. Len(q) /\ i + 1 \in 1 .. Len(q) + 1 /\ k + 1 < i + 1
        /\ IsId(q[k + 1]) /\ w[i + 1].esc = 1
    BY <1>1, <1>2, <1>4
  <2>2. PICK j \in (k + 1) + 1 .. (i + 1) - 1 : IsEsc(q[j])
    BY <2>1 DEF Body
  <2>3. j - 1 \in k + 1 .. i - 1 /\ j - 1 \in 1 .. Len(t) /\ (j - 1) + 1 = j
    BY <1>1, <2>1
  <2>4. t[j - 1] = q[j]
    BY <1>1, <2>3
  <2> QED BY <2>2, <2>3, <2>4
<1>5. ASSUME NEW i \in 1 .. Len(t), NEW j \in 1 .. Len(t), i < j, IsData(t[i]), IsData(t[j])
      PROVE  Upto(t[i].n, t[j].n, r)
  <2>1. i + 1 \in 1 .. Len(q) /\ j + 1 \in 1 .. Len(q) /\ i + 1 < j + 1
    BY <1>1, <1>5
  <2>2. t[i] = q[i + 1] /\ t[j] = q[j + 1]
    BY <1>1
  <2> QED BY <1>5, <2>1, <2>2 DEF Body
<1>6. ASSUME r = 0, NEW i \in 1 .. Len(t) PROVE ~IsForce(t[i]) /\ (IsData(t[i]) => v[i].in # None)
  <2>1. i + 1 \in 1 .. Len(q) /\ t[i] = q[i + 1] /\ v[i] = w[i + 1]
    BY <1>1, <1>2
  <2> QED BY <1>6, <2>1 DEF Body
<1>7. Body(h, t, v, r)
  BY <1>2, <1>3, <1>4, <1>5, <1>6 DEF Body
<1>8. v[1] = Hears(w[1], Head(q)) /\ v[Len(t) + 1] = w[Len(q) + 1]
  BY <1>1, <1>2 DEF Body
<1> QED BY <1>7, <1>8 DEF t, v

\* A byte is added at the end.
Longer(w, n, x) == [i \in 1 .. n + 2 |-> IF i = n + 2 THEN x ELSE w[i]]

LEMMA AddBody ==
  ASSUME NEW h, NEW q \in Seq(Byte), NEW w, NEW r, Body(h, q, w, r), NEW b \in Byte,
         Right(h, w[Len(q) + 1], b),
         \A i \in 1 .. Len(q) : IsData(q[i]) /\ IsData(b) => Upto(q[i].n, b.n, r),
         r = 0 => ~IsForce(b) /\ (IsData(b) => w[Len(q) + 1].in # None)
  PROVE  LET v == Longer(w, Len(q), Hears(w[Len(q) + 1], b))
         IN  /\ Body(h, Append(q, b), v, r)
             /\ v[1] = w[1] /\ v[Len(Append(q, b)) + 1] = Hears(w[Len(q) + 1], b)
<1> DEFINE n == Len(q)
           t == Append(q, b)
           x == Hears(w[n + 1], b)
           v == Longer(w, n, x)
<1>1. n \in Nat /\ Len(t) = n + 1 /\ t[n + 1] = b /\ \A i \in 1 .. n : t[i] = q[i]
  BY AppendProperties
<1>2. x \in State
  <2>1. w[n + 1] \in State
    BY <1>1 DEF Body
  <2> QED BY <2>1 DEF Hears, State, IsId
<1> HIDE DEF x
<1>3. /\ v \in [1 .. Len(t) + 1 -> State] /\ v[n + 2] = x
      /\ \A i \in 1 .. n + 1 : v[i] = w[i]
  BY <1>1, <1>2 DEF Body, Longer
<1> HIDE DEF t, v
<1>4. ASSUME NEW i \in 1 .. Len(t) PROVE Right(h, v[i], t[i]) /\ v[i + 1] = Hears(v[i], t[i])
  <2>1. CASE i = n + 1
    BY <1>1, <1>3, <2>1 DEF x
  <2>2. CASE i # n + 1
    BY <1>1, <1>3, <2>2 DEF Body
  <2> QED BY <2>1, <2>2
<1>5. ASSUME NEW k \in 1 .. Len(t), NEW i \in 1 .. Len(t) + 1, k < i, IsId(t[k]), v[i].esc = 1
      PROVE  \E j \in k + 1 .. i - 1 : IsEsc(t[j])
  <2>1. CASE i <= n + 1
    <3>1. k \in 1 .. n /\ i \in 1 .. n + 1 /\ IsId(q[k]) /\ w[i].esc = 1
      BY <1>1, <1>3, <1>5, <2>1
    <3>2. PICK j \in k + 1 .. i - 1 : IsEsc(q[j])
      BY <1>5, <3>1 DEF Body
    <3> QED BY <1>1, <3>1, <3>2
  <2>2. CASE i = n + 2
    <3>1. x.esc = 1
      BY <1>3, <1>5, <2>2
    <3>2. CASE k = n + 1
      <4>1. IsId(b) /\ w[n + 1].esc = 0
        BY <1>1, <1>5, <3>2 DEF Right
      <4> QED BY <3>1, <4>1, UartMuxAssumption DEF x, Hears, IsId, IsEsc, IsData
    <3>3. CASE k # n + 1 /\ IsEsc(b)
      BY <1>1, <2>2, <3>3
    <3>4. CASE k # n + 1 /\ ~IsEsc(b)
      <4>1. w[n + 1].esc = 1 /\ k \in 1 .. n /\ IsId(q[k])
        BY <1>1, <1>5, <3>1, <3>4 DEF x, Hears
      <4>2. PICK j \in k + 1 .. (n + 1) - 1 : IsEsc(q[j])
        BY <1>1, <4>1 DEF Body
      <4> QED BY <1>1, <2>2, <4>1, <4>2
    <3> QED BY <3>2, <3>3, <3>4
  <2> QED BY <1>1, <2>1, <2>2
<1>6. ASSUME NEW i \in 1 .. Len(t), NEW j \in 1 .. Len(t), i < j, IsData(t[i]), IsData(t[j])
      PROVE  Upto(t[i].n, t[j].n, r)
  <2>1. i \in 1 .. n /\ t[i] = q[i]
    BY <1>1, <1>6
  <2>2. CASE j = n + 1
    BY <1>1, <1>6, <2>1, <2>2
  <2>3. CASE j # n + 1
    <3>1. j \in 1 .. n /\ t[j] = q[j]
      BY <1>1, <2>3
    <3> QED BY <1>6, <2>1, <3>1 DEF Body
  <2> QED BY <2>2, <2>3
<1>7. r = 0 => \A i \in 1 .. Len(t) : ~IsForce(t[i]) /\ (IsData(t[i]) => v[i].in # None)
  BY <1>1, <1>3 DEF Body
<1>8. Body(h, t, v, r)
  BY <1>3, <1>4, <1>5, <1>6, <1>7 DEF Body
<1>9. v[1] = w[1] /\ v[Len(t) + 1] = x
  BY <1>1, <1>3
<1> QED BY <1>8, <1>9 DEF t, v, x

\* A request of the interrupt handler comes between two bytes of a send.
Between(w, p, n) == [i \in 1 .. n + 2 |-> IF i <= p THEN w[i] ELSE w[i - 1]]

LEMMA ForceFact ==
  LET f == Code("FORCE")
  IN f \in Byte /\ f \in Codes /\ IsForce(f) /\ ~IsData(f) /\ ~IsId(f) /\ ~IsEsc(f)
BY ByteFact, UartMuxAssumption DEF Code, Codes, IsForce, IsData, IsId, IsEsc

LEMMA ForceBody ==
  ASSUME NEW h, NEW q \in Seq(Byte), NEW u \in Seq(Byte), NEW w, NEW r, r # 0, Body(h, q \o u, w, r)
  PROVE  LET t == Append(q, Code("FORCE")) \o u
         IN  \E v : Body(h, t, v, r) /\ v[1] = w[1] /\ v[Len(t) + 1] = w[Len(q \o u) + 1]
<1> DEFINE p == Len(q) + 1
           z == q \o u
           n == Len(z)
           v == Between(w, p, n)
           t == Append(q, Code("FORCE")) \o u
<1>1. /\ n \in Nat /\ p \in 1 .. n + 1 /\ Len(t) = n + 1 /\ t[p] = Code("FORCE")
      /\ \A i \in 1 .. n + 1 : (i < p => t[i] = z[i]) /\ (i > p => t[i] = z[i - 1])
  <2>1. Code("FORCE") \in Byte
    BY ForceFact
  <2>2. Append(q, Code("FORCE")) \in Seq(Byte) /\ Len(Append(q, Code("FORCE"))) = p
    BY <2>1, AppendProperties
  <2>3. n = Len(q) + Len(u) /\ Len(t) = p + Len(u) /\ Len(q) \in Nat /\ Len(u) \in Nat
    BY <2>2, ConcatProperties
  <2>4. \A i \in 1 .. n + 1 : t[i] = IF i <= p THEN Append(q, Code("FORCE"))[i] ELSE u[i - p]
    BY <2>2, <2>3, ConcatProperties
  <2>5. \A i \in 1 .. n : z[i] = IF i <= Len(q) THEN q[i] ELSE u[i - Len(q)]
    BY <2>3, ConcatProperties
  <2>6. \A i \in 1 .. Len(q) : Append(q, Code("FORCE"))[i] = q[i]
    BY <2>1, AppendProperties
  <2>7. Append(q, Code("FORCE"))[p] = Code("FORCE")
    BY <2>1, AppendProperties
  <2> QED BY <2>3, <2>4, <2>5, <2>6, <2>7
<1>2. /\ v \in [1 .. n + 2 -> State]
      /\ \A i \in 1 .. n + 2 : (i <= p => v[i] = w[i]) /\ (i > p => v[i] = w[i - 1])
      /\ w \in [1 .. n + 1 -> State]
  BY <1>1 DEF Body, Between
<1>3. Body(h, z, w, r)
  OBVIOUS
<1> HIDE DEF p, z, n, v, t
<1>a. n = Len(z)
  BY DEF n
<1>4. ASSUME NEW i \in 1 .. n + 1 PROVE Right(h, v[i], t[i]) /\ v[i + 1] = Hears(v[i], t[i])
  <2>1. CASE i < p
    <3>1. i \in 1 .. n /\ v[i] = w[i] /\ v[i + 1] = w[i + 1] /\ t[i] = z[i]
      BY <1>1, <1>2, <2>1
    <3> QED BY <1>3, <1>a, <3>1 DEF Body
  <2>2. CASE i = p
    <3>1. v[i] \in State /\ v[i] = w[p] /\ v[i + 1] = w[p] /\ t[i] = Code("FORCE")
      BY <1>1, <1>2, <2>2
    <3>2. Hears(v[i], Code("FORCE")) = v[i]
      BY <3>1, ForceFact DEF Hears, State
    <3> QED BY <3>1, <3>2, ForceFact DEF Right
  <2>3. CASE i > p
    <3>0. n \in Nat /\ p \in 1 .. n + 1
      BY <1>1
    <3>a. i - 1 \in 1 .. n /\ i + 1 \in 1 .. n + 2 /\ i \in 1 .. n + 2 /\ i + 1 > p /\ (i + 1) - 1 = (i - 1) + 1
      BY <2>3, <3>0
    <3>b. v[i] = w[i - 1] /\ v[i + 1] = w[(i + 1) - 1]
      BY <1>2, <2>3, <3>a
    <3>c. t[i] = z[i - 1]
      BY <1>1, <2>3
    <3>1. i - 1 \in 1 .. n /\ v[i] = w[i - 1] /\ v[i + 1] = w[(i - 1) + 1] /\ t[i] = z[i - 1]
      BY <3>a, <3>b, <3>c
    <3> QED BY <1>3, <1>a, <3>1 DEF Body
  <2> QED BY <1>1, <2>1, <2>2, <2>3
<1>5. ASSUME NEW k \in 1 .. n + 1, NEW i \in 1 .. n + 2, k < i, IsId(t[k]), v[i].esc = 1
      PROVE  \E j \in k + 1 .. i - 1 : IsEsc(t[j])
  <2> DEFINE kk == IF k < p THEN k ELSE k - 1
             ii == IF i <= p THEN i ELSE i - 1
  <2>1. k # p
    BY <1>1, <1>5, ForceFact
  <2>2. kk \in 1 .. n /\ ii \in 1 .. n + 1 /\ kk < ii /\ IsId(z[kk]) /\ w[ii].esc = 1
    <3>0. n \in Nat /\ p \in 1 .. n + 1
      BY <1>1
    <3>1. kk \in 1 .. n /\ ii \in 1 .. n + 1 /\ kk < ii
      BY <1>5, <2>1, <3>0
    <3>2. t[k] = z[kk]
      <4>1. CASE k < p
        BY <1>1, <4>1
      <4>2. CASE k > p
        BY <1>1, <3>0, <4>2
      <4> QED BY <2>1, <3>0, <4>1, <4>2
    <3>3. v[i] = w[ii]
      <4>1. CASE i <= p
        BY <1>2, <4>1
      <4>2. CASE i > p
        BY <1>2, <3>0, <4>2
      <4> QED BY <3>0, <4>1, <4>2
    <3> QED BY <1>5, <3>1, <3>2, <3>3
  <2>3. PICK j \in kk + 1 .. ii - 1 : IsEsc(z[j])
    BY <1>3, <1>a, <2>2 DEF Body
  <2> DEFINE jj == IF j < p THEN j ELSE j + 1
  <2>4. jj \in k + 1 .. i - 1 /\ jj \in 1 .. n + 1 /\ t[jj] = z[j]
    <3>0. n \in Nat /\ p \in 1 .. n + 1
      BY <1>1
    <3>a. j \in Int /\ kk + 1 <= j /\ j <= ii - 1
      BY <2>2
    <3>1. jj \in k + 1 .. i - 1 /\ jj \in 1 .. n + 1
      <4>1. CASE j < p
        <5>1. j \in 1 .. n + 1 /\ k < p
          BY <1>5, <2>1, <3>0, <3>a, <4>1
        <5>2. j \in k + 1 .. i - 1
          BY <1>5, <3>0, <3>a, <4>1, <5>1
        <5> QED BY <4>1, <5>1, <5>2
      <4>2. CASE j >= p
        <5>1. i > p
          BY <3>0, <3>a, <4>2
        <5>2. j + 1 \in k + 1 .. i - 1 /\ j + 1 \in 1 .. n + 1
          BY <1>5, <3>0, <3>a, <4>2, <5>1
        <5> QED BY <3>a, <3>0, <4>2, <5>2
      <4> QED BY <3>0, <3>a, <4>1, <4>2
    <3>2. CASE j < p
      BY <1>1, <3>1, <3>2
    <3>3. CASE j >= p
      <4>1. jj = j + 1 /\ jj > p /\ jj - 1 = j
        BY <2>2, <3>0, <3>3
      <4>2. t[jj] = z[jj - 1]
        BY <1>1, <3>1, <4>1
      <4> QED BY <3>1, <4>1, <4>2
    <3> QED BY <3>0, <3>2, <3>3
  <2> QED BY <2>3, <2>4
<1>6. ASSUME NEW i \in 1 .. n + 1, NEW j \in 1 .. n + 1, i < j, IsData(t[i]), IsData(t[j])
      PROVE  Upto(t[i].n, t[j].n, r)
  <2> DEFINE ii == IF i < p THEN i ELSE i - 1
             jj == IF j < p THEN j ELSE j - 1
  <2>1. i # p /\ j # p
    BY <1>1, <1>6, ForceFact
  <2>2. ii \in 1 .. n /\ jj \in 1 .. n /\ ii < jj /\ t[i] = z[ii] /\ t[j] = z[jj]
    <3>1. n \in Nat /\ p \in 1 .. n + 1
      BY <1>1
    <3>2. ii \in 1 .. n /\ jj \in 1 .. n /\ ii < jj
      BY <1>6, <2>1, <3>1
    <3>3. \A y \in 1 .. n + 1 : y # p => t[y] = z[IF y < p THEN y ELSE y - 1]
      BY <1>1
    <3> QED BY <2>1, <3>2, <3>3
  <2> QED BY <1>3, <1>6, <1>a, <2>2 DEF Body
<1>7. Body(h, t, v, r)
  <2>1. Len(t) + 1 = n + 2
    BY <1>1
  <2> QED BY <1>1, <1>2, <1>4, <1>5, <1>6, <2>1 DEF Body
<1>8. v[1] = w[1] /\ v[Len(t) + 1] = w[n + 1]
  <2>1. n \in Nat /\ p \in 1 .. n + 1 /\ Len(t) = n + 1
    BY <1>1
  <2>2. /\ 1 \in 1 .. n + 2 /\ 1 <= p /\ n + 2 \in 1 .. n + 2 /\ n + 2 > p
        /\ (n + 2) - 1 = n + 1 /\ Len(t) + 1 = n + 2
    BY <2>1
  <2> QED BY <1>2, <2>2
<1> QED BY <1>7, <1>8 DEF t, n, z

\* The receiver restarts: it knows no service until it is told one, and no escape.
Deaf(w, q) ==
  [i \in 1 .. Len(q) + 1 |->
     [in |-> IF \E k \in 1 .. i - 1 : IsId(q[k]) THEN w[i].in ELSE None,
      esc |-> IF \E k \in 1 .. i - 1 : IsEsc(q[k]) \/ IsData(q[k]) THEN w[i].esc ELSE 0]]

LEMMA DeafBody ==
  ASSUME NEW h, NEW q \in Seq(Byte), NEW w, NEW r, NEW s \in Nat \ {0}, Body(h, q, w, r)
  PROVE  LET v == Deaf(w, q)
         IN  /\ Body(h, q, v, s) /\ v[1] = [in |-> None, esc |-> 0]
             /\ v[Len(q) + 1].in \in {None, w[Len(q) + 1].in}
             /\ v[Len(q) + 1].esc \in {0, w[Len(q) + 1].esc}
<1> DEFINE n == Len(q)
           v == Deaf(w, q)
           id(i) == \E k \in 1 .. i - 1 : IsId(q[k])
           mark(i) == \E k \in 1 .. i - 1 : IsEsc(q[k]) \/ IsData(q[k])
<1>1. n \in Nat
  OBVIOUS
<1>2. /\ w \in [1 .. n + 1 -> State] /\ DOMAIN v = 1 .. n + 1
      /\ \A i \in 1 .. n + 1 : v[i] = [in |-> IF id(i) THEN w[i].in ELSE None,
                                       esc |-> IF mark(i) THEN w[i].esc ELSE 0]
  BY DEF Body, Deaf
<1>3. /\ \A i \in 1 .. n : id(i + 1) <=> id(i) \/ IsId(q[i])
      /\ \A i \in 1 .. n : mark(i + 1) <=> mark(i) \/ IsEsc(q[i]) \/ IsData(q[i])
      /\ ~id(1) /\ ~mark(1)
  BY <1>1
<1>4. \A i \in 1 .. n + 1 : w[i].esc = 1 /\ id(i) => mark(i)
  <2> SUFFICES ASSUME NEW i \in 1 .. n + 1, w[i].esc = 1, id(i) PROVE mark(i)
    OBVIOUS
  <2>1. PICK k \in 1 .. i - 1 : IsId(q[k])
    OBVIOUS
  <2>2. PICK j \in k + 1 .. i - 1 : IsEsc(q[j])
    BY <1>1, <2>1 DEF Body
  <2> QED BY <2>1, <2>2
<1> HIDE DEF id, mark, v
<1>5. v \in [1 .. n + 1 -> State]
  <2>1. \A i \in 1 .. n + 1 : v[i] \in State
    BY <1>2 DEF State
  <2>2. v = [i \in 1 .. n + 1 |-> v[i]]
    BY DEF v, Deaf
  <2> QED BY <2>1, <2>2
<1>6. ASSUME NEW i \in 1 .. n PROVE Right(h, v[i], q[i]) /\ v[i + 1] = Hears(v[i], q[i])
  <2>1. Right(h, w[i], q[i]) /\ w[i + 1] = Hears(w[i], q[i])
    BY DEF Body
  <2>2. i \in 1 .. n + 1 /\ i + 1 \in 1 .. n + 1
    BY <1>1
  <2>3. Right(h, v[i], q[i])
    <3>1. v[i].in = IF id(i) THEN w[i].in ELSE None
      BY <1>2, <2>2
    <3>2. v[i].esc = IF mark(i) THEN w[i].esc ELSE 0
      BY <1>2, <2>2
    <3>3. w[i].esc = 1 /\ id(i) => mark(i)
      BY <1>4, <2>2
    <3>4. w[i].esc \in {0, 1}
      BY <1>2, <2>2 DEF State
    <3> QED BY <2>1, <3>1, <3>2, <3>3, <3>4 DEF Right
  <2>4. v[i + 1] = [in |-> IF id(i + 1) THEN w[i + 1].in ELSE None,
                    esc |-> IF mark(i + 1) THEN w[i + 1].esc ELSE 0]
    BY <1>2, <2>2
  <2>5. (IF id(i + 1) THEN w[i + 1].in ELSE None) = IF IsId(q[i]) THEN q[i].c ELSE v[i].in
    BY <1>2, <1>3, <2>1, <2>2 DEF Hears
  <2>6. (IF mark(i + 1) THEN w[i + 1].esc ELSE 0)
        = IF IsData(q[i]) THEN 0 ELSE IF IsEsc(q[i]) THEN 1 ELSE v[i].esc
    <3>1. v[i].esc = IF mark(i) THEN w[i].esc ELSE 0
      BY <1>2, <2>2
    <3>2. mark(i + 1) <=> mark(i) \/ IsEsc(q[i]) \/ IsData(q[i])
      BY <1>3
    <3>3. w[i + 1].esc = IF IsData(q[i]) THEN 0 ELSE IF IsEsc(q[i]) THEN 1 ELSE w[i].esc
      BY <2>1 DEF Hears
    <3> QED BY <3>1, <3>2, <3>3
  <2> QED BY <2>3, <2>4, <2>5, <2>6 DEF Hears
<1>7. ASSUME NEW k \in 1 .. n, NEW i \in 1 .. n + 1, k < i, IsId(q[k]), v[i].esc = 1
      PROVE  \E j \in k + 1 .. i - 1 : IsEsc(q[j])
  <2>1. w[i].esc = 1
    BY <1>2, <1>7
  <2> QED BY <1>7, <2>1 DEF Body
<1>8. \A i, j \in 1 .. n : i < j /\ IsData(q[i]) /\ IsData(q[j]) => Upto(q[i].n, q[j].n, s)
  BY DEF Body, Upto
<1>9. Body(h, q, v, s)
  BY <1>5, <1>6, <1>7, <1>8 DEF Body
<1>10. v[1] = [in |-> None, esc |-> 0]
  <2>1. 1 \in 1 .. n + 1
    BY <1>1
  <2> QED BY <1>2, <1>3, <2>1
<1>11. v[n + 1].in \in {None, w[n + 1].in} /\ v[n + 1].esc \in {0, w[n + 1].esc}
  <2>1. n + 1 \in 1 .. n + 1
    BY <1>1
  <2> QED BY <1>2, <2>1
<1> QED BY <1>9, <1>10, <1>11 DEF v

\* Another character is sent.
LEMMA MoreBody ==
  ASSUME NEW h \in Seq(Message), NEW m \in Message, NEW q \in Seq(Byte), NEW w, NEW r, Body(h, q, w, r)
  PROVE  Body(Append(h, m), q, w, r)
<1>1. DOMAIN h = 1 .. Len(h) /\ Len(h) \in Nat /\ DOMAIN Append(h, m) = 1 .. Len(h) + 1
      /\ \A i \in 1 .. Len(h) : Append(h, m)[i] = h[i]
  BY AppendProperties
<1>2. ASSUME NEW i \in 1 .. Len(q) PROVE Right(Append(h, m), w[i], q[i])
  <2>1. Right(h, w[i], q[i])
    BY DEF Body
  <2>2. q[i] \notin Codes => q[i].n \in DOMAIN h
    BY <2>1 DEF Right
  <2>3. q[i] \in Codes => ~IsData(q[i])
    BY DEF Codes, Code, IsData
  <2> QED BY <1>1, <2>1, <2>2, <2>3 DEF Right, OnLine
<1> QED BY <1>2 DEF Body

-----------------------------------------------------------------------------
\* What the receiver has read (g, by service) and what it has yet to read.
Delivered(h, g, q, r) ==
  /\ \A s \in Services, k \in Nat : k \in 1 .. Len(g[s]) =>
       g[s][k].n \in DOMAIN h /\ g[s][k] = Char(h, g[s][k].n) /\ h[g[s][k].n].to = s
  /\ \A s \in Services, k, j \in Nat : k \in 1 .. Len(g[s]) /\ j \in 1 .. Len(g[s]) /\ k < j =>
       Upto(g[s][k].n, g[s][j].n, r)
  /\ \A s \in Services, k \in Nat, i \in 1 .. Len(q) :
       k \in 1 .. Len(g[s]) /\ IsData(q[i]) => Upto(g[s][k].n, q[i].n, r)
  /\ r = 0 => \A n \in DOMAIN h : \/ \E k \in 1 .. Len(g[h[n].to]) : g[h[n].to][k].n = n
                                  \/ \E i \in 1 .. Len(q) : q[i].n = n

Got == [Services -> Seq(Byte)]

LEMMA MessageTo ==
  ASSUME NEW h \in Seq(Message)
  PROVE  DOMAIN h = 1 .. Len(h) /\ Len(h) \in Nat /\ \A i \in 1 .. Len(h) : h[i].to \in Services
<1>1. DOMAIN h = 1 .. Len(h) /\ Len(h) \in Nat
  OBVIOUS
<1>2. \A i \in 1 .. Len(h) : h[i] \in Message
  BY <1>1, ElementOfSeq
<1> QED BY <1>1, <1>2 DEF Message

LEMMA TakeDelivered ==
  ASSUME NEW h \in Seq(Message), NEW g, NEW q \in Seq(Byte), NEW r, q # <<>>, Delivered(h, g, q, r),
         ~IsData(Head(q)) \/ r # 0
  PROVE  Delivered(h, g, Tail(q), r)
<1> DEFINE t == Tail(q)
<1>1. Len(q) \in Nat \ {0} /\ Len(t) = Len(q) - 1 /\ Head(q) = q[1] /\ \A i \in 1 .. Len(t) : t[i] = q[i + 1]
  BY HeadTailProperties
<1> HIDE DEF t
<1>2. ASSUME NEW s \in Services, NEW k \in Nat, NEW i \in 1 .. Len(t), k \in 1 .. Len(g[s]), IsData(t[i])
      PROVE  Upto(g[s][k].n, t[i].n, r)
  <2>1. i + 1 \in 1 .. Len(q) /\ t[i] = q[i + 1]
    BY <1>1
  <2> QED BY <1>2, <2>1 DEF Delivered
<1>3. ASSUME r = 0, NEW n \in DOMAIN h
      PROVE  \/ \E k \in 1 .. Len(g[h[n].to]) : g[h[n].to][k].n = n
             \/ \E i \in 1 .. Len(t) : t[i].n = n
  <2>1. CASE \E i \in 1 .. Len(q) : q[i].n = n
    <3>1. PICK i \in 1 .. Len(q) : q[i].n = n
      BY <2>1
    <3>2. n # 0 /\ i # 1
      BY <1>1, <1>3, <3>1 DEF IsData
    <3>3. i - 1 \in 1 .. Len(t) /\ t[i - 1] = q[i]
      BY <1>1, <3>2
    <3> QED BY <3>1, <3>3
  <2> QED BY <1>3, <2>1 DEF Delivered
<1>4. Delivered(h, g, t, r)
  BY <1>2, <1>3 DEF Delivered
<1> QED BY <1>4 DEF t

LEMMA CharDelivered ==
  ASSUME NEW h \in Seq(Message), NEW g \in Got, NEW q \in Seq(Byte), NEW w, NEW r, q # <<>>,
         Delivered(h, g, q, r), Body(h, q, w, r), IsData(Head(q)), Head(q).n \in DOMAIN h
  PROVE  LET s == h[Head(q).n].to
         IN  Delivered(h, [g EXCEPT ![s] = Append(@, Char(h, Head(q).n))], Tail(q), r)
<1> DEFINE b == Head(q)
           t == Tail(q)
           s == h[b.n].to
           v == Char(h, b.n)
           f == [g EXCEPT ![s] = Append(g[s], v)]
<1>1. Len(q) \in Nat \ {0} /\ Len(t) = Len(q) - 1 /\ b = q[1] /\ \A i \in 1 .. Len(t) : t[i] = q[i + 1]
  BY HeadTailProperties
<1>0. DOMAIN h = 1 .. Len(h) /\ Len(h) \in Nat /\ \A i \in 1 .. Len(h) : h[i].to \in Services
  BY MessageTo
<1>2. s \in Services /\ DOMAIN h = 1 .. Len(h) /\ Len(h) \in Nat
  BY <1>0
<1>3. /\ Len(g[s]) \in Nat /\ Len(f[s]) = Len(g[s]) + 1 /\ f[s][Len(g[s]) + 1] = v
      /\ \A k \in 1 .. Len(g[s]) : f[s][k] = g[s][k]
  <2>1. g[s] \in Seq(Byte) /\ f[s] = Append(g[s], v)
    BY <1>2 DEF Got
  <2> HIDE DEF v, f, s
  <2> QED BY <2>1
<1>4. \A x \in Services : x # s => f[x] = g[x]
  BY <1>2 DEF Got
<1>5. v.n = b.n /\ v = Char(h, v.n) /\ b.n \in DOMAIN h
  BY DEF Char
<1> HIDE DEF b, t, s, v, f
<1>6. ASSUME NEW x \in Services, NEW k \in Nat, k \in 1 .. Len(f[x])
      PROVE  f[x][k].n \in DOMAIN h /\ f[x][k] = Char(h, f[x][k].n) /\ h[f[x][k].n].to = x
  <2>1. CASE x = s /\ k = Len(g[s]) + 1
    BY <1>3, <1>5, <2>1 DEF s
  <2>2. CASE ~(x = s /\ k = Len(g[s]) + 1)
    <3>1. f[x][k] = g[x][k] /\ k \in 1 .. Len(g[x])
      BY <1>3, <1>4, <1>6, <2>2
    <3> QED BY <3>1 DEF Delivered
  <2> QED BY <2>1, <2>2
<1>7. ASSUME NEW x \in Services, NEW k \in Nat, NEW j \in Nat, k \in 1 .. Len(f[x]), j \in 1 .. Len(f[x]), k < j
      PROVE  Upto(f[x][k].n, f[x][j].n, r)
  <2>1. f[x][k] = g[x][k] /\ k \in 1 .. Len(g[x])
    BY <1>3, <1>4, <1>7
  <2>2. CASE x = s /\ j = Len(g[s]) + 1
    <3>1. 1 \in 1 .. Len(q) /\ IsData(q[1]) /\ f[x][j].n = q[1].n
      BY <1>1, <1>3, <1>5, <2>2 DEF b
    <3> QED BY <2>1, <3>1 DEF Delivered
  <2>3. CASE ~(x = s /\ j = Len(g[s]) + 1)
    <3>1. f[x][j] = g[x][j] /\ j \in 1 .. Len(g[x])
      BY <1>3, <1>4, <1>7, <2>3
    <3> QED BY <1>7, <2>1, <3>1 DEF Delivered
  <2> QED BY <2>2, <2>3
<1>8. ASSUME NEW x \in Services, NEW k \in Nat, NEW i \in 1 .. Len(t), k \in 1 .. Len(f[x]), IsData(t[i])
      PROVE  Upto(f[x][k].n, t[i].n, r)
  <2>1. i + 1 \in 1 .. Len(q) /\ t[i] = q[i + 1] /\ 1 \in 1 .. Len(q) /\ 1 < i + 1
    BY <1>1
  <2>2. CASE x = s /\ k = Len(g[s]) + 1
    <3>1. f[x][k].n = q[1].n /\ IsData(q[1])
      BY <1>1, <1>3, <1>5, <2>2 DEF b
    <3> QED BY <1>8, <2>1, <3>1 DEF Body
  <2>3. CASE ~(x = s /\ k = Len(g[s]) + 1)
    <3>1. f[x][k] = g[x][k] /\ k \in 1 .. Len(g[x])
      BY <1>3, <1>4, <1>8, <2>3
    <3> QED BY <1>8, <2>1, <3>1 DEF Delivered
  <2> QED BY <2>2, <2>3
<1>9. ASSUME r = 0, NEW n \in DOMAIN h
      PROVE  \/ \E k \in 1 .. Len(f[h[n].to]) : f[h[n].to][k].n = n
             \/ \E i \in 1 .. Len(t) : t[i].n = n
  <2>0. h[n].to \in Services
    BY <1>0
  <2>1. CASE \E k \in 1 .. Len(g[h[n].to]) : g[h[n].to][k].n = n
    <3>1. PICK k \in 1 .. Len(g[h[n].to]) : g[h[n].to][k].n = n
      BY <2>1
    <3>2. CASE h[n].to = s
      <4>1. k \in 1 .. Len(g[s]) /\ g[s][k].n = n
        BY <3>1, <3>2
      <4>2. k \in 1 .. Len(f[s]) /\ f[s][k] = g[s][k]
        BY <1>3, <4>1
      <4>3. f[s][k].n = n
        BY <4>1, <4>2
      <4> QED BY <3>2, <4>2, <4>3
    <3>3. CASE h[n].to # s
      <4>1. f[h[n].to] = g[h[n].to]
        BY <1>4, <2>0, <3>3
      <4> QED BY <3>1, <4>1
    <3> QED BY <3>2, <3>3
  <2>2. CASE \E i \in 1 .. Len(q) : q[i].n = n
    <3>1. PICK i \in 1 .. Len(q) : q[i].n = n
      BY <2>2
    <3>2. CASE i = 1
      <4>1. n = b.n /\ s = h[n].to
        BY <1>1, <3>1, <3>2 DEF s
      <4>2. Len(g[s]) + 1 \in 1 .. Len(f[s]) /\ f[s][Len(g[s]) + 1].n = n
        BY <1>3, <1>5, <4>1
      <4> QED BY <4>1, <4>2
    <3>3. CASE i # 1
      <4>1. i - 1 \in 1 .. Len(t) /\ t[i - 1] = q[i]
        BY <1>1, <3>3
      <4> QED BY <3>1, <4>1
    <3> QED BY <3>2, <3>3
  <2> QED BY <1>9, <2>1, <2>2 DEF Delivered
<1>10. Delivered(h, f, t, r)
  BY <1>6, <1>7, <1>8, <1>9 DEF Delivered
<1> QED BY <1>10 DEF f, t, s, v, b

LEMMA AddDelivered ==
  ASSUME NEW h, NEW g, NEW q \in Seq(Byte), NEW r, Delivered(h, g, q, r), NEW b \in Byte, ~IsData(b)
  PROVE  Delivered(h, g, Append(q, b), r)
<1> DEFINE t == Append(q, b)
<1>1. Len(q) \in Nat /\ Len(t) = Len(q) + 1 /\ t[Len(q) + 1] = b /\ \A i \in 1 .. Len(q) : t[i] = q[i]
  BY AppendProperties
<1> HIDE DEF t
<1>2. ASSUME NEW i \in 1 .. Len(t), IsData(t[i]) PROVE i \in 1 .. Len(q) /\ t[i] = q[i]
  BY <1>1, <1>2
<1>3. \A n : (\E i \in 1 .. Len(q) : q[i].n = n) => \E i \in 1 .. Len(t) : t[i].n = n
  BY <1>1
<1>4. Delivered(h, g, t, r)
  BY <1>2, <1>3 DEF Delivered
<1> QED BY <1>4 DEF t

\* The latest character is sent, for the first time (f is h and that character) or again.
LEMMA LastDelivered ==
  ASSUME NEW h \in Seq(Message), NEW g, NEW q \in Seq(Byte), NEW w, NEW r,
         Delivered(h, g, q, r), Body(h, q, w, r),
         NEW f \in Seq(Message), (f = h /\ r # 0) \/ (\E m \in Message : f = Append(h, m)),
         NEW b \in Byte, b.n = Len(f)
  PROVE  /\ Delivered(f, g, Append(q, b), r)
         /\ \A i \in 1 .. Len(q) : IsData(q[i]) => Upto(q[i].n, b.n, r)
<1> DEFINE t == Append(q, b)
<1>1. Len(q) \in Nat /\ Len(t) = Len(q) + 1 /\ t[Len(q) + 1] = b /\ \A i \in 1 .. Len(q) : t[i] = q[i]
  BY AppendProperties
<1> DEFINE a == Len(h)
           c == Len(f)
<1>2. DOMAIN h = 1 .. a /\ a \in Nat /\ DOMAIN f = 1 .. c /\ c \in Nat /\ b.n = c
  OBVIOUS
<1>3. /\ (r # 0 /\ c = a) \/ c = a + 1
      /\ \A n \in 1 .. a : f[n] = h[n]
  BY AppendProperties
<1> HIDE DEF t, a, c
<1>4. \A i \in 1 .. Len(q) : IsData(q[i]) => q[i].n \in DOMAIN h
  BY DEF Body, Right, Codes, Code, IsData
<1>5. ASSUME NEW n \in DOMAIN h
      PROVE  n \in DOMAIN f /\ f[n] = h[n] /\ Upto(n, b.n, r) /\ Char(f, n) = Char(h, n)
  <2>1. n \in 1 .. a
    BY <1>2
  <2>2. n \in 1 .. c /\ n <= c /\ (r = 0 => n # c)
    BY <1>2, <1>3, <2>1
  <2>3. n \in DOMAIN f /\ f[n] = h[n]
    BY <1>2, <1>3, <2>1, <2>2
  <2>4. Upto(n, b.n, r)
    BY <1>2, <2>2 DEF Upto
  <2> QED BY <2>3, <2>4 DEF Char
<1>6. ASSUME NEW s \in Services, NEW k \in Nat, NEW i \in 1 .. Len(t), k \in 1 .. Len(g[s]), IsData(t[i])
      PROVE  Upto(g[s][k].n, t[i].n, r)
  <2>1. CASE i = Len(q) + 1
    <3>1. g[s][k].n \in DOMAIN h
      BY <1>6 DEF Delivered
    <3> QED BY <1>1, <1>5, <2>1, <3>1
  <2>2. CASE i # Len(q) + 1
    <3>1. i \in 1 .. Len(q) /\ t[i] = q[i]
      BY <1>1, <2>2
    <3> QED BY <1>6, <3>1 DEF Delivered
  <2> QED BY <2>1, <2>2
<1>7. ASSUME r = 0, NEW n \in DOMAIN f
      PROVE  \/ \E k \in 1 .. Len(g[f[n].to]) : g[f[n].to][k].n = n
             \/ \E i \in 1 .. Len(t) : t[i].n = n
  <2>1. CASE n = c
    BY <1>1, <1>2, <2>1
  <2>2. CASE n # c
    <3>0. c = a + 1
      BY <1>3, <1>7
    <3>1. n \in DOMAIN h /\ f[n] = h[n]
      BY <1>2, <1>3, <2>2, <3>0
    <3>2. \/ \E k \in 1 .. Len(g[h[n].to]) : g[h[n].to][k].n = n
          \/ \E i \in 1 .. Len(q) : q[i].n = n
      BY <1>7, <3>1 DEF Delivered
    <3> QED BY <1>1, <3>1, <3>2
  <2> QED BY <2>1, <2>2
<1>8. ASSUME NEW s \in Services, NEW k \in Nat, k \in 1 .. Len(g[s])
      PROVE  g[s][k].n \in DOMAIN f /\ g[s][k] = Char(f, g[s][k].n) /\ f[g[s][k].n].to = s
  BY <1>5, <1>8 DEF Delivered
<1>9. \A s \in Services, k, j \in Nat : k \in 1 .. Len(g[s]) /\ j \in 1 .. Len(g[s]) /\ k < j =>
        Upto(g[s][k].n, g[s][j].n, r)
  BY DEF Delivered
<1>10. Delivered(f, g, t, r)
  BY <1>6, <1>7, <1>8, <1>9 DEF Delivered
<1> QED BY <1>4, <1>5, <1>10 DEF t

LEMMA ForceDelivered ==
  ASSUME NEW h, NEW g, NEW q \in Seq(Byte), NEW u \in Seq(Byte), NEW r, r # 0, Delivered(h, g, q \o u, r)
  PROVE  Delivered(h, g, Append(q, Code("FORCE")) \o u, r)
<1> DEFINE z == q \o u
           a == Append(q, Code("FORCE"))
           t == a \o u
<1>1. a \in Seq(Byte) /\ Len(a) = Len(q) + 1 /\ a[Len(q) + 1] = Code("FORCE") /\ \A i \in 1 .. Len(q) : a[i] = q[i]
  BY ForceFact, AppendProperties
<1>2. /\ Len(z) = Len(q) + Len(u) /\ Len(q) \in Nat /\ Len(u) \in Nat
      /\ \A i \in 1 .. Len(z) : z[i] = IF i <= Len(q) THEN q[i] ELSE u[i - Len(q)]
  BY ConcatProperties
<1> HIDE DEF a
<1>3. /\ Len(t) = Len(a) + Len(u)
      /\ \A i \in 1 .. Len(t) : t[i] = IF i <= Len(a) THEN a[i] ELSE u[i - Len(a)]
  <2>1. a \in Seq(Byte)
    BY <1>1
  <2> QED BY <2>1, ConcatProperties
<1> HIDE DEF t, z
<1>4. ASSUME NEW i \in 1 .. Len(t), IsData(t[i]) PROVE \E j \in 1 .. Len(z) : z[j] = t[i]
  <2>1. i # Len(q) + 1
    BY <1>1, <1>2, <1>3, <1>4, ForceFact
  <2>2. CASE i <= Len(q)
    BY <1>1, <1>2, <1>3, <2>2
  <2>3. CASE i > Len(q) + 1
    <3>1. i - 1 \in 1 .. Len(z) /\ ~(i - 1 <= Len(q)) /\ ~(i <= Len(a)) /\ i - Len(a) = (i - 1) - Len(q)
      BY <1>1, <1>2, <1>3, <2>3
    <3>2. z[i - 1] = u[(i - 1) - Len(q)] /\ t[i] = u[i - Len(a)]
      BY <1>2, <1>3, <3>1
    <3> QED BY <3>1, <3>2
  <2> QED BY <1>1, <1>2, <1>3, <2>1, <2>2, <2>3
<1>5. Delivered(h, g, z, r)
  BY DEF z
<1>6. Delivered(h, g, t, r)
  BY <1>4, <1>5 DEF Delivered
<1> QED BY <1>6 DEF t, a

LEMMA AnewDelivered ==
  ASSUME NEW h, NEW g, NEW q, NEW r, NEW s \in Nat \ {0}, Delivered(h, g, q, r)
  PROVE  Delivered(h, [x \in Services |-> <<>>], q, s) /\ Delivered(h, g, q, s)
BY DEF Delivered, Upto

-----------------------------------------------------------------------------
\* The way of one direction: h is what the sender has sent, g what the receiver has
\* read, q what is on the line, (in, e) what the receiver knows and out what the sender
\* believes it knows.
Way(h, g, q, in, e, out, r) ==
  /\ \E w : Body(h, q, w, r) /\ w[1] = [in |-> in, esc |-> e] /\ Ends(w[Len(q) + 1], out, r)
  /\ Delivered(h, g, q, r)

Bit(x) == IF x THEN 1 ELSE 0

\* What the handler takes a byte for is what it is.
LEMMA TellFact ==
  ASSUME NEW h \in Seq(Message), NEW w, NEW b \in Byte, Right(h, w, b)
  PROVE  /\ IsCode(b, "ESC") <=> IsEsc(b)
         /\ (\E s \in Services : IsCode(b, s)) <=> IsId(b)
         /\ IsCode(b, "FORCE") <=> IsForce(b)
         /\ IsEsc(b) \/ IsId(b) \/ IsForce(b) \/ IsData(b)
         /\ ~IsEsc(b) \/ ~IsId(b)
         /\ IsData(b) => b.n \in DOMAIN h /\ b = OnLine(h, b.n)
<1>1. CASE b \in Codes
  <2>1. PICK c \in {"ESC", "FORCE"} \union Services : b = Code(c)
    BY <1>1 DEF Codes
  <2> QED BY <2>1, UartMuxAssumption DEF Code, IsCode, IsEsc, IsId, IsForce, IsData
<1>2. CASE b.n \in DOMAIN h /\ b = OnLine(h, b.n)
  <2>1. b.n # 0 /\ IsData(b) /\ b.c = h[b.n].c /\ b.x = (h[b.n].c # "plain")
    BY <1>2 DEF OnLine, IsData
  <2> QED BY <1>2, <2>1, UartMuxAssumption DEF IsCode, IsEsc, IsId, IsForce, IsData
<1> QED BY <1>1, <1>2 DEF Right

LEMMA XoredFact ==
  ASSUME NEW c, NEW n
  PROVE  /\ Xored([c |-> c, n |-> n, x |-> TRUE]) = [c |-> c, n |-> n, x |-> FALSE]
         /\ Xored([c |-> c, n |-> n, x |-> FALSE]) = [c |-> c, n |-> n, x |-> TRUE]
<1> DEFINE p == [c |-> c, n |-> n, x |-> TRUE]
           q == [c |-> c, n |-> n, x |-> FALSE]
<1>1. (~p.x) = FALSE /\ (~q.x) = TRUE
  OBVIOUS
<1>2. [p EXCEPT !.x = FALSE] = q /\ [q EXCEPT !.x = TRUE] = p
  <2>1. ASSUME NEW z, NEW y, NEW x, z = [c |-> c, n |-> n, x |-> y]
        PROVE  [z EXCEPT !.x = x] = [c |-> c, n |-> n, x |-> x]
    BY <2>1
  <2> QED BY <2>1
<1>3. Xored(p) = [p EXCEPT !.x = ~p.x] /\ Xored(q) = [q EXCEPT !.x = ~q.x]
  BY DEF Xored
<1> HIDE DEF p, q
<1>4. Xored(p) = q /\ Xored(q) = p
  BY <1>1, <1>2, <1>3
<1> QED BY <1>4 DEF p, q

\* The receiver, whose variables are e, reads the first byte of the line.
Reads(h, g, q, e, out, r) ==
  LET x == Handle(e, Head(q))
  IN  /\ \/ x.data = <<>> /\ Way(h, g, Tail(q), x.end.in, Bit(x.end.esc), out, r)
         \/ /\ e.in \in Services /\ x.data = <<x.data[1]>> /\ x.data # <<>>
            /\ Way(h, [g EXCEPT ![e.in] = Append(@, x.data[1])], Tail(q), x.end.in, Bit(x.end.esc), out, r)
      /\ x.end.out = e.out /\ x.end.esc \in BOOLEAN
      /\ \/ x.say = <<>> /\ x.end.last = e.last
         \/ r # 0 /\ x.say = <<Code("FORCE")>> /\ x.end.last = e.last /\ ~IsForce(Head(q))
         \/ r # 0 /\ IsCode(Head(q), "FORCE") /\ e.last # <<>> /\ x.end.last = <<>>
            /\ x.say = <<IdByte(e.out)>> \o e.last

LEMMA TakeWay ==
  ASSUME NEW h \in Seq(Message), NEW g \in Got, NEW q \in Seq(Byte), NEW e \in End, NEW out, NEW r,
         e.esc \in BOOLEAN, q # <<>>, Way(h, g, q, e.in, Bit(e.esc), out, r),
         ~(IsCode(Head(q), "FORCE") /\ e.last = <<>>)
  PROVE  Reads(h, g, q, e, out, r)
<1> USE DEF Reads
<1> DEFINE b == Head(q)
           t == Tail(q)
<1>1. b \in Byte /\ Len(q) \in Nat \ {0} /\ b = q[1] /\ t \in Seq(Byte) /\ 1 \in 1 .. Len(q)
  BY HeadTailProperties
<1>2. PICK w : /\ Body(h, q, w, r) /\ w[1] = [in |-> e.in, esc |-> Bit(e.esc)]
               /\ Ends(w[Len(q) + 1], out, r)
  BY DEF Way
<1>3. Delivered(h, g, q, r)
  BY DEF Way
<1> DEFINE v == Later(w, Len(q))
<1>4. Body(h, t, v, r) /\ v[1] = Hears(w[1], b) /\ v[Len(t) + 1] = w[Len(q) + 1]
  BY <1>2, TakeBody
<1> HIDE DEF b, t, v
<1>5. Right(h, w[1], b) /\ (r = 0 => ~IsForce(b) /\ (IsData(b) => e.in # None))
  <2>1. Right(h, w[1], q[1]) /\ (r = 0 => ~IsForce(q[1]) /\ (IsData(q[1]) => w[1].in # None))
    BY <1>1, <1>2 DEF Body
  <2> QED BY <1>1, <1>2, <2>1
<1>6. /\ IsCode(b, "ESC") <=> IsEsc(b)
      /\ (\E s \in Services : IsCode(b, s)) <=> IsId(b)
      /\ IsCode(b, "FORCE") <=> IsForce(b)
      /\ IsEsc(b) \/ IsId(b) \/ IsForce(b) \/ IsData(b)
      /\ ~IsEsc(b) \/ ~IsId(b)
      /\ IsData(b) => b.n \in DOMAIN h /\ b = OnLine(h, b.n)
  BY <1>1, <1>5, TellFact
<1>7. ASSUME NEW f, NEW in, NEW bit, Delivered(h, f, t, r), v[1] = [in |-> in, esc |-> bit]
      PROVE  Way(h, f, t, in, bit, out, r)
  BY <1>2, <1>4, <1>7 DEF Way
<1>8. ~IsData(b) \/ r # 0 => Delivered(h, g, t, r)
  BY <1>3, TakeDelivered DEF b, t
<1> DEFINE x == Handle(e, b)
<1>9. CASE IsEsc(b)
  <2>1. x = Result([e EXCEPT !.esc = TRUE], <<>>, <<>>)
    BY <1>6, <1>9 DEF Handle
  <2>2. ~IsData(b) /\ ~IsId(b)
    BY <1>6, <1>9 DEF IsEsc, IsData
  <2>3. v[1] = [in |-> e.in, esc |-> 1]
    BY <1>2, <1>4, <1>9, <2>2 DEF Hears
  <2>4. x.data = <<>> /\ x.say = <<>> /\ x.end.in = e.in /\ x.end.esc = TRUE /\ x.end.last = e.last
        /\ x.end.out = e.out
    BY <2>1 DEF Result, End
  <2>5. Way(h, g, t, x.end.in, Bit(x.end.esc), out, r)
    BY <1>7, <1>8, <2>2, <2>3, <2>4 DEF Bit
  <2> QED BY <2>4, <2>5 DEF b, t
<1>10. CASE IsId(b)
  <2>1. x = Result([e EXCEPT !.in = b.c], <<>>, <<>>)
    BY <1>6, <1>10 DEF Handle
  <2>2. ~IsData(b) /\ ~IsEsc(b)
    BY <1>6, <1>10 DEF IsId, IsData
  <2>3. v[1] = [in |-> b.c, esc |-> Bit(e.esc)]
    BY <1>2, <1>4, <1>10, <2>2 DEF Hears
  <2> DEFINE y == [e EXCEPT !.in = b.c]
  <2>a. y.in = b.c /\ y.esc = e.esc /\ y.last = e.last /\ y.out = e.out
    BY DEF End
  <2> HIDE DEF y
  <2>b. x = Result(y, <<>>, <<>>)
    BY <2>1 DEF y
  <2>4. x.data = <<>> /\ x.say = <<>> /\ x.end.in = b.c /\ x.end.esc = e.esc /\ x.end.last = e.last
        /\ x.end.out = e.out
    BY <2>a, <2>b DEF Result
  <2>5. Way(h, g, t, x.end.in, Bit(x.end.esc), out, r)
    BY <1>7, <1>8, <2>2, <2>3, <2>4
  <2> QED BY <2>4, <2>5 DEF b, t
<1>11. CASE IsForce(b)
  <2>0. e.last # <<>> /\ r # 0
    BY <1>5, <1>6, <1>11 DEF b
  <2>1. ~IsData(b) /\ ~IsEsc(b) /\ ~IsId(b)
    BY <1>11, UartMuxAssumption DEF IsForce, IsEsc, IsId, IsData
  <2>2. x = Result([e EXCEPT !.last = <<>>], <<IdByte(e.out)>> \o e.last, <<>>)
    BY <1>6, <1>11, <2>0, <2>1 DEF Handle
  <2>3. v[1] = [in |-> e.in, esc |-> Bit(e.esc)]
    BY <1>2, <1>4, <2>1 DEF Hears
  <2>4. x.data = <<>> /\ x.say = <<IdByte(e.out)>> \o e.last /\ x.end.in = e.in /\ x.end.esc = e.esc
        /\ x.end.last = <<>> /\ x.end.out = e.out
    BY <2>2 DEF Result, End
  <2>5. Way(h, g, t, x.end.in, Bit(x.end.esc), out, r)
    BY <1>7, <1>8, <2>1, <2>3, <2>4
  <2> QED BY <1>6, <1>11, <2>0, <2>4, <2>5 DEF b, t
<1>12. CASE IsData(b)
  <2> DEFINE z == IF e.esc THEN Xored(b) ELSE b
  <2>1. ~IsForce(b) /\ ~IsEsc(b) /\ ~IsId(b)
    BY <1>12 DEF IsForce, IsEsc, IsId, IsData
  <2>2. x = IF e.in = None THEN Result(Unescaped(e), <<Code("FORCE")>>, <<>>)
            ELSE Result(Unescaped(e), <<>>, <<z>>)
    BY <1>6, <2>1 DEF Handle
  <2>3. v[1] = [in |-> e.in, esc |-> 0]
    BY <1>2, <1>4, <1>12, <2>1 DEF Hears
  <2>4. x.end = Unescaped(e)
    BY <2>2 DEF Result
  <2>5. x.end.in = e.in /\ x.end.esc = FALSE /\ x.end.last = e.last /\ x.end.out = e.out
    BY <2>4 DEF Unescaped, End
  <2>6. ASSUME NEW f, Delivered(h, f, t, r) PROVE Way(h, f, t, x.end.in, Bit(x.end.esc), out, r)
    BY <1>7, <2>3, <2>5, <2>6 DEF Bit
  <2>7. CASE e.in = None
    <3>1. x.data = <<>> /\ x.say = <<Code("FORCE")>> /\ r # 0
      BY <1>5, <1>12, <2>2, <2>7 DEF Result
    <3> QED BY <1>8, <2>1, <2>5, <2>6, <3>1 DEF b, t
  <2>8. CASE e.in # None
    <3>1. x.data = <<z>> /\ x.say = <<>> /\ x.data[1] = z /\ x.data # <<>>
      BY <2>2, <2>8 DEF Result
    <3>2. e.in = h[b.n].to /\ (Bit(e.esc) = 1 <=> b.x)
      BY <1>2, <1>5, <1>12, <2>8 DEF Right
    <3>3. z = Char(h, b.n)
      <4>1. b = [c |-> h[b.n].c, n |-> b.n, x |-> b.x] /\ b.x \in BOOLEAN
        BY <1>1, <1>6, <1>12 DEF OnLine, Byte
      <4>2. CASE e.esc
        <5>1. b.x = TRUE
          BY <3>2, <4>1, <4>2 DEF Bit
        <5>2. Xored(b) = [c |-> h[b.n].c, n |-> b.n, x |-> FALSE]
          <6>1. b = [c |-> h[b.n].c, n |-> b.n, x |-> TRUE]
            BY <4>1, <5>1
          <6> DEFINE d == h[b.n].c
                     m == b.n
          <6>2. b = [c |-> d, n |-> m, x |-> TRUE]
            BY <6>1
          <6> HIDE DEF d, m
          <6>3. Xored(b) = [c |-> d, n |-> m, x |-> FALSE]
            BY <6>2, XoredFact
          <6> QED BY <6>3 DEF d, m
        <5> QED BY <4>2, <5>2 DEF Char
      <4>3. CASE ~e.esc
        <5>1. b.x = FALSE
          BY <3>2, <4>1, <4>3 DEF Bit
        <5> QED BY <4>1, <4>3, <5>1 DEF Char
      <4> QED BY <4>2, <4>3
    <3>4. Delivered(h, [g EXCEPT ![e.in] = Append(@, x.data[1])], t, r)
      BY <1>2, <1>3, <1>6, <1>12, <3>1, <3>2, <3>3, CharDelivered DEF b, t
    <3>5. e.in \in Services
      BY <2>8 DEF End
    <3> QED BY <2>5, <2>6, <3>1, <3>4, <3>5 DEF b, t
  <2> QED BY <2>7, <2>8
<1> QED BY <1>6, <1>9, <1>10, <1>11, <1>12

LEMMA ForceWay ==
  ASSUME NEW h, NEW g, NEW q \in Seq(Byte), NEW u \in Seq(Byte), NEW in, NEW e, NEW out, NEW r, r # 0,
         Way(h, g, q \o u, in, e, out, r)
  PROVE  Way(h, g, Append(q, Code("FORCE")) \o u, in, e, out, r)
<1> DEFINE z == q \o u
           t == Append(q, Code("FORCE")) \o u
<1>1. PICK w : /\ Body(h, z, w, r) /\ w[1] = [in |-> in, esc |-> e]
               /\ Ends(w[Len(z) + 1], out, r)
  BY DEF Way
<1>3. Delivered(h, g, t, r)
  BY ForceDelivered DEF Way
<1>2. PICK v : Body(h, t, v, r) /\ v[1] = w[1] /\ v[Len(t) + 1] = w[Len(z) + 1]
  <2>1. Body(h, q \o u, w, r)
    BY <1>1
  <2> QED BY <2>1, ForceBody
<1> HIDE DEF z, t
<1>4. Way(h, g, t, in, e, out, r)
  BY <1>1, <1>2, <1>3 DEF Way
<1> QED BY <1>4 DEF t

LEMMA OneTwo ==
  ASSUME NEW S, NEW q \in Seq(S), NEW x \in S, NEW y \in S
  PROVE  q \o <<x>> = Append(q, x) /\ q \o <<x, y>> = Append(Append(q, x), y)
         /\ Append(q, x) \in Seq(S) /\ Append(Append(q, x), y) \in Seq(S)
         /\ \A u \in Seq(S) : Append(q, x) \o u = q \o (<<x>> \o u)
OBVIOUS

\* How a character goes on the line.
LEMMA CharFact ==
  ASSUME NEW h \in Seq(Message), NEW n \in 1 .. Len(h), Len(h) <= MaxSent
  PROVE  LET b == Char(h, n)
             v == OnLine(h, n)
         IN  /\ b \in Byte /\ v \in Byte /\ n \in DOMAIN h /\ v.n = n /\ IsData(v)
             /\ \/ ~NeedsEscape(b) /\ b = v /\ ~v.x
                \/ NeedsEscape(b) /\ Xored(b) = v /\ v.x
<1>1. DOMAIN h = 1 .. Len(h) /\ Len(h) \in Nat /\ h[n] \in Message /\ n \in 0 .. MaxSent /\ n # 0
  BY ElementOfSeq, UartMuxAssumption
<1> DEFINE c == h[n].c
<1>2. c \in Kinds
  BY <1>1 DEF Message
<1>3. Char(h, n) = [c |-> c, n |-> n, x |-> FALSE] /\ OnLine(h, n) = [c |-> c, n |-> n, x |-> (c # "plain")]
  BY DEF Char, OnLine
<1> HIDE DEF c
<1>4. Char(h, n) \in Byte /\ OnLine(h, n) \in Byte
  BY <1>1, <1>2, <1>3 DEF Byte
<1>5. OnLine(h, n).n = n /\ OnLine(h, n).x = (c # "plain") /\ IsData(OnLine(h, n))
  BY <1>1, <1>3 DEF IsData
<1>6. NeedsEscape(Char(h, n)) <=> c # "plain"
  <2> DEFINE b == Char(h, n)
  <2>0. b.c = c /\ b.x = FALSE
    BY <1>3
  <2> HIDE DEF b
  <2>a. \A k : IsCode(b, k) <=> k = c
    BY <2>0 DEF IsCode
  <2>1. NeedsEscape(b) <=> c \in {"ESC", "FORCE"} \union Services
    BY <2>a DEF NeedsEscape
  <2> USE DEF b
  <2> QED BY <1>2, <2>1, UartMuxAssumption
<1>7. CASE c = "plain"
  BY <1>1, <1>3, <1>4, <1>5, <1>6, <1>7
<1>8. CASE c # "plain"
  <2>1. Xored(Char(h, n)) = OnLine(h, n)
    BY <1>3, <1>8, XoredFact
  <2> QED BY <1>1, <1>4, <1>5, <1>6, <1>8, <2>1
<1> QED BY <1>7, <1>8

\* The sender puts the id of a service on the line.
LEMMA IdWay ==
  ASSUME NEW h, NEW g, NEW q \in Seq(Byte), NEW in, NEW e, NEW out, NEW r, NEW s \in Services,
         Way(h, g, q, in, e, out, r)
  PROVE  Way(h, g, Append(q, Code(s)), in, e, s, r)
<1> DEFINE b == Code(s)
           t == Append(q, b)
<1>1. PICK w : /\ Body(h, q, w, r) /\ w[1] = [in |-> in, esc |-> e] /\ Ends(w[Len(q) + 1], out, r)
  BY DEF Way
<1>2. b \in Byte /\ IsId(b) /\ ~IsData(b) /\ ~IsForce(b) /\ ~IsEsc(b) /\ b \in Codes /\ b.c = s
  BY ByteFact, UartMuxAssumption DEF Code, Codes, IsId, IsData, IsForce, IsEsc
<1>3. Delivered(h, g, t, r)
  BY <1>2, AddDelivered DEF Way
<1> DEFINE y == w[Len(q) + 1]
           x == Hears(y, b)
<1>4. Right(h, y, b) /\ x = [in |-> s, esc |-> 0] /\ Ends(x, s, r)
  BY <1>1, <1>2, UartMuxAssumption DEF Right, Ends, Hears
<1> HIDE DEF b
<1>5. PICK v : Body(h, t, v, r) /\ v[1] = w[1] /\ v[Len(t) + 1] = x
  BY <1>1, <1>2, <1>4, AddBody
<1>6. Way(h, g, t, in, e, s, r)
  BY <1>1, <1>3, <1>4, <1>5 DEF Way
<1> QED BY <1>6 DEF b

\* The sender puts its latest character on the line.
LEMMA CharWay ==
  ASSUME NEW h \in Seq(Message), NEW g, NEW q \in Seq(Byte), NEW in, NEW e, NEW out \in Services, NEW r,
         Way(h, g, q, in, e, out, r),
         NEW f \in Seq(Message), (f = h /\ r # 0) \/ (\E m \in Message : f = Append(h, m)),
         Len(f) \in 1 .. MaxSent, out = f[Len(f)].to
  PROVE  Way(f, g, q \o Escaped(Char(f, Len(f))), in, e, out, r)
<1> DEFINE n == Len(f)
           b == Char(f, n)
           v == OnLine(f, n)
<1>1. PICK w : /\ Body(h, q, w, r) /\ w[1] = [in |-> in, esc |-> e] /\ Ends(w[Len(q) + 1], out, r)
  BY DEF Way
<1>2. Delivered(h, g, q, r)
  BY DEF Way
<1>3. /\ b \in Byte /\ v \in Byte /\ n \in DOMAIN f /\ v.n = n /\ IsData(v)
      /\ \/ ~NeedsEscape(b) /\ b = v /\ ~v.x
         \/ NeedsEscape(b) /\ Xored(b) = v /\ v.x
  BY CharFact
<1>4. v = OnLine(f, v.n) /\ f[v.n].to = out /\ v.n = Len(f) /\ v.n \in DOMAIN f /\ ~IsForce(v) /\ out # None
  BY <1>3, UartMuxAssumption DEF IsForce, IsData
<1> HIDE DEF n, b, v
<1>5. ASSUME NEW k \in Seq(Byte), NEW u, Body(h, k, u, r), u[1] = w[1], Delivered(h, g, k, r),
             LET z == u[Len(k) + 1] IN /\ z.in \in {None, out} /\ (r = 0 => z.in # None) /\ (z.esc = 1 <=> v.x)
      PROVE  Way(f, g, Append(k, v), in, e, out, r)
  <2> DEFINE z == u[Len(k) + 1]
             x == Hears(z, v)
  <2>1. Body(f, k, u, r)
    BY <1>5, MoreBody
  <2>2. Delivered(f, g, Append(k, v), r) /\ \A i \in 1 .. Len(k) : IsData(k[i]) => Upto(k[i].n, v.n, r)
    BY <1>3, <1>4, <1>5, LastDelivered
  <2>3. Right(f, z, v) /\ (r = 0 => z.in # None)
    BY <1>3, <1>4, <1>5 DEF Right, IsId, IsData
  <2>4. x.in = z.in /\ x.esc = 0
    BY <1>3 DEF Hears, IsId, IsData
  <2>5. Ends(x, out, r)
    BY <1>5, <2>4 DEF Ends
  <2> HIDE DEF z
  <2>6. PICK y : Body(f, Append(k, v), y, r) /\ y[1] = u[1] /\ y[Len(Append(k, v)) + 1] = x
    BY <1>3, <1>4, <2>1, <2>2, <2>3, AddBody DEF z
  <2> QED BY <1>1, <1>5, <2>2, <2>5, <2>6 DEF Way
<1>6. CASE ~NeedsEscape(b)
  <2>1. Escaped(b) = <<v>>
    BY <1>3, <1>6 DEF Escaped
  <2>2. q \o <<v>> = Append(q, v)
    BY <1>3, OneTwo
  <2>3. Way(f, g, Append(q, v), in, e, out, r)
    BY <1>1, <1>2, <1>3, <1>4, <1>5, <1>6 DEF Ends
  <2> QED BY <2>1, <2>2, <2>3 DEF b, n
<1>7. CASE NeedsEscape(b)
  <2> DEFINE d == Code("ESC")
             k == Append(q, d)
             z == w[Len(q) + 1]
             x == Hears(z, d)
  <2>0. d \in Byte /\ d \in Codes /\ IsEsc(d) /\ ~IsData(d) /\ ~IsForce(d) /\ ~IsId(d)
    BY ByteFact, UartMuxAssumption DEF Code, Codes, IsId, IsData, IsForce, IsEsc
  <2> HIDE DEF d
  <2>1. Escaped(b) = <<d, v>>
    BY <1>3, <1>7 DEF Escaped, d
  <2>2. q \o <<d, v>> = Append(k, v) /\ k \in Seq(Byte)
    BY <1>3, <2>0, OneTwo
  <2>3. Right(h, z, d) /\ x.in = z.in /\ x.esc = 1
    BY <2>0 DEF Right, Hears
  <2>4. PICK u : Body(h, k, u, r) /\ u[1] = w[1] /\ u[Len(k) + 1] = x
    BY <1>1, <2>0, <2>3, AddBody
  <2>5. Delivered(h, g, k, r)
    BY <1>2, <2>0, AddDelivered
  <2> HIDE DEF k, x
  <2>6. Way(f, g, Append(k, v), in, e, out, r)
    BY <1>1, <1>3, <1>4, <1>5, <1>7, <2>2, <2>3, <2>4, <2>5 DEF Ends
  <2> QED BY <2>1, <2>2, <2>6 DEF b, n
<1> QED BY <1>6, <1>7

\* The sender sends a character, for the first time or again: the id of the service
\* if need be, an escape if need be, and the character.
LEMMA SayWay ==
  ASSUME NEW h \in Seq(Message), NEW g, NEW q \in Seq(Byte), NEW in, NEW e, NEW out, NEW r,
         Way(h, g, q, in, e, out, r),
         NEW f \in Seq(Message), (f = h /\ r # 0) \/ (\E m \in Message : f = Append(h, m)),
         Len(f) \in 1 .. MaxSent, NEW s \in Services, s = f[Len(f)].to
  PROVE  /\ out = s => Way(f, g, q \o Escaped(Char(f, Len(f))), in, e, s, r)
         /\ Way(f, g, q \o (<<Code(s)>> \o Escaped(Char(f, Len(f)))), in, e, s, r)
<1> DEFINE x == Escaped(Char(f, Len(f)))
           k == Append(q, Code(s))
<1>1. out = s => Way(f, g, q \o x, in, e, s, r)
  BY CharWay
<1>2. Code(s) \in Byte
  BY ByteFact
<1>3. x \in Seq(Byte)
  <2>1. Char(f, Len(f)) \in Byte
    BY CharFact
  <2> QED BY <2>1, EscapedFact
<1>4. Way(h, g, k, in, e, s, r) /\ k \in Seq(Byte)
  BY <1>2, IdWay
<1> HIDE DEF k, x
<1>5. Way(f, g, k \o x, in, e, s, r)
  BY <1>4, CharWay DEF x
<1>6. k \o x = q \o (<<Code(s)>> \o x)
  BY <1>2, <1>3, OneTwo DEF k
<1> QED BY <1>1, <1>5, <1>6 DEF x

\* The receiver restarts.
LEMMA DeafWay ==
  ASSUME NEW h, NEW g, NEW q \in Seq(Byte), NEW in, NEW e, NEW out, NEW r, Way(h, g, q, in, e, out, r),
         NEW s \in Nat \ {0}
  PROVE  Way(h, [x \in Services |-> <<>>], q, None, 0, out, s)
<1>1. PICK w : /\ Body(h, q, w, r) /\ w[1] = [in |-> in, esc |-> e] /\ Ends(w[Len(q) + 1], out, r)
  BY DEF Way
<1> DEFINE v == Deaf(w, q)
<1>2. /\ Body(h, q, v, s) /\ v[1] = [in |-> None, esc |-> 0]
      /\ v[Len(q) + 1].in \in {None, w[Len(q) + 1].in}
      /\ v[Len(q) + 1].esc \in {0, w[Len(q) + 1].esc}
  BY <1>1, DeafBody
<1>3. Delivered(h, [x \in Services |-> <<>>], q, s)
  BY AnewDelivered DEF Way
<1> HIDE DEF v
<1>4. Ends(v[Len(q) + 1], out, s)
  BY <1>1, <1>2 DEF Ends
<1> QED BY <1>2, <1>3, <1>4 DEF Way

\* The sender restarts.
LEMMA DumbWay ==
  ASSUME NEW h, NEW g, NEW q \in Seq(Byte), NEW in, NEW e, NEW out, NEW r, Way(h, g, q, in, e, out, r),
         NEW s \in Nat \ {0}
  PROVE  Way(h, g, q, in, e, None, s)
<1>1. PICK w : /\ Body(h, q, w, r) /\ w[1] = [in |-> in, esc |-> e] /\ Ends(w[Len(q) + 1], out, r)
  BY DEF Way
<1>2. Body(h, q, w, s)
  BY <1>1 DEF Body, Upto
<1>3. Delivered(h, g, q, s)
  BY AnewDelivered DEF Way
<1>4. Ends(w[Len(q) + 1], None, s)
  BY <1>1 DEF Ends
<1> QED BY <1>1, <1>2, <1>3, <1>4 DEF Way

\* Nothing has been sent yet.
LEMMA NoWay ==
  Way(<<>>, [x \in Services |-> <<>>], <<>>, None, 0, None, 0)
<1> DEFINE w == [i \in 1 .. 1 |-> [in |-> None, esc |-> 0]]
<1>1. Len(<<>>) = 0 /\ DOMAIN <<>> = {}
  OBVIOUS
<1>2. w \in [1 .. Len(<<>>) + 1 -> State]
  BY <1>1 DEF State
<1>3. 1 .. 0 = {} /\ w[1] = [in |-> None, esc |-> 0] /\ Len(<<>>) + 1 = 1
  BY <1>1
<1> HIDE DEF w
<1>4. Body(<<>>, <<>>, w, 0)
  BY <1>1, <1>2, <1>3 DEF Body
<1>5. Delivered(<<>>, [x \in Services |-> <<>>], <<>>, 0)
  BY <1>1, <1>3 DEF Delivered
<1>6. Ends(w[1], None, 0)
  BY <1>3 DEF Ends
<1> QED BY <1>3, <1>4, <1>5, <1>6 DEF Way


-----------------------------------------------------------------------------
(***************************************************************************)
(* A send in progress: the steps left, the bytes they will put on the      *)
(* line, and whether the character is already known for a repetition.      *)
(***************************************************************************)
Then(x, q) == <<x>> \o q

LEMMA ThenFact ==
  ASSUME NEW S, NEW x \in S, NEW q \in Seq(S)
  PROVE  /\ Then(x, q) \in Seq(S) /\ Then(x, q) # <<>> /\ Len(Then(x, q)) = Len(q) + 1
         /\ Head(Then(x, q)) = x /\ Tail(Then(x, q)) = q
         /\ Then(x, q)[1] = x /\ \A i \in 1 .. Len(q) : Then(x, q)[i + 1] = q[i]
<1> DEFINE t == <<x>> \o q
<1>1. <<x>> \in Seq(S) /\ Len(<<x>>) = 1 /\ <<x>>[1] = x
  OBVIOUS
<1>2. t \in Seq(S) /\ Len(t) = 1 + Len(q) /\ Len(q) \in Nat
      /\ \A i \in 1 .. Len(t) : t[i] = IF i <= 1 THEN <<x>>[i] ELSE q[i - 1]
  BY <1>1, ConcatProperties
<1> HIDE DEF t
<1>3. t[1] = x /\ \A i \in 1 .. Len(q) : t[i + 1] = q[i]
  BY <1>1, <1>2
<1>4. t # <<>> /\ Head(t) = t[1]
  BY <1>2
<1>5. Tail(t) = q
  <2>1. /\ Tail(t) \in Seq(S) /\ Len(Tail(t)) = Len(t) - 1
        /\ \A i \in 1 .. Len(Tail(t)) : Tail(t)[i] = t[i + 1]
    BY <1>2, <1>4, HeadTailProperties
  <2>2. Len(Tail(t)) = Len(q) /\ \A i \in 1 .. Len(q) : Tail(t)[i] = q[i]
    BY <1>2, <1>3, <2>1
  <2> QED BY <2>1, <2>2, SeqEqual
<1>6. Len(t) = Len(q) + 1
  BY <1>2
<1> QED BY <1>2, <1>3, <1>4, <1>5, <1>6 DEF t, Then

LEMMA PairIsThen == ASSUME NEW S, NEW x \in S, NEW y \in S PROVE <<x, y>> = Then(x, <<y>>)
<1> DEFINE p == <<y>>
           t == Then(x, p)
<1>1. p \in Seq(S) /\ Len(p) = 1 /\ p[1] = y
  OBVIOUS
<1> HIDE DEF p
<1>c. p \in Seq(S)
  BY <1>1
<1>2. t \in Seq(S) /\ t[1] = x
  BY <1>c, ThenFact
<1>a. Len(t) = Len(p) + 1
  BY <1>c, ThenFact
<1>b. \A i \in 1 .. Len(p) : t[i + 1] = p[i]
  BY <1>c, ThenFact
<1> HIDE DEF t
<1>3. t[2] = y
  BY <1>1, <1>b
<1>4. t = <<x, y>>
  BY <1>1, <1>2, <1>a, <1>3
<1> QED BY <1>4 DEF t, p

LEMMA TripleThen ==
  ASSUME NEW S, NEW x \in S, NEW y \in S, NEW z \in S, NEW q \in Seq(S)
  PROVE  <<x, y, z>> \o q = Then(x, Then(y, Then(z, q)))
<1>4. <<x, y, z>> = Then(x, Then(y, <<z>>))
  <2> DEFINE u == <<y, z>>
             t == Then(x, u)
  <2>1. u \in Seq(S) /\ Len(u) = 2 /\ u[1] = y /\ u[2] = z
    OBVIOUS
  <2> HIDE DEF u
  <2>c. u \in Seq(S)
    BY <2>1
  <2>2. t \in Seq(S) /\ t[1] = x
    BY <2>c, ThenFact
  <2>a. Len(t) = Len(u) + 1
    BY <2>c, ThenFact
  <2>b. \A i \in 1 .. Len(u) : t[i + 1] = u[i]
    BY <2>c, ThenFact
  <2> HIDE DEF t
  <2>3. t[2] = y /\ t[3] = z
    BY <2>1, <2>b
  <2>4. t = <<x, y, z>>
    BY <2>1, <2>2, <2>a, <2>3
  <2>5. <<y, z>> = Then(y, <<z>>)
    BY PairIsThen
  <2> QED BY <2>4, <2>5 DEF t, u
<1>5. <<x, y, z>> \o q = Then(x, Then(y, Then(z, q)))
  <2>1. <<x>> \in Seq(S) /\ <<y>> \in Seq(S) /\ <<z>> \in Seq(S)
    OBVIOUS
  <2> DEFINE a == <<x>>
             b == <<y>>
             c == <<z>>
  <2>2. <<x, y, z>> = a \o (b \o c)
    BY <1>4 DEF Then
  <2> HIDE DEF a, b, c
  <2>3. a \in Seq(S) /\ b \in Seq(S) /\ c \in Seq(S)
    BY <2>1 DEF a, b, c
  <2>4. (a \o (b \o c)) \o q = a \o (b \o (c \o q))
    BY <2>3
  <2> QED BY <2>2, <2>4 DEF a, b, c, Then
<1> QED BY <1>5

Rem(steps, rest, known) == [steps |-> steps, rest |-> rest, known |-> known]

Remaining(s, b) ==
  LET i == Put(Code(s))
      l == Last(<<b>>)
      o == Then(Out(s), <<>>)
      esc == Code("ESC")
      v == Xored(b)
      plain == Then(Put(b), o)
      heard == Then(Last(<<esc, v>>), o)
      xored == Then(Put(v), heard)
      escaped == Then(Put(esc), xored)
  IN {Rem(o, <<>>, 1)} \union
     IF NeedsEscape(b)
     THEN {Rem(Then(i, Then(l, escaped)), Then(Code(s), Then(esc, <<v>>)), 0),
           Rem(Then(l, escaped), Then(esc, <<v>>), 0), Rem(escaped, Then(esc, <<v>>), 0),
           Rem(xored, Then(v, <<>>), 0), Rem(heard, <<>>, 0)}
     ELSE {Rem(Then(i, Then(l, plain)), Then(Code(s), Then(b, <<>>)), 0),
           Rem(Then(l, plain), Then(b, <<>>), 0), Rem(plain, Then(b, <<>>), 1)}

\* The send is at a step that puts a byte, or remembers the character.
PutFirst(rem, new, byte) ==
  rem.steps = Then(Put(byte), new.steps) /\ rem.rest = Then(byte, new.rest) /\ new.known = rem.known

LastFirst(rem, new, bytes, b) ==
  /\ rem.steps = Then(Last(bytes), new.steps) /\ rem.rest = new.rest
  /\ new.known = 1 => bytes = Escaped(b)

LEMMA FirstFact ==
  ASSUME NEW x, NEW y, NEW k, NEW byte, NEW b, NEW bytes
  PROVE  /\ PutFirst(Rem(Then(Put(byte), x), Then(byte, y), k), Rem(x, y, k), byte)
         /\ LastFirst(Rem(Then(Last(bytes), x), y, 0), Rem(x, y, 0), bytes, b)
         /\ bytes = Escaped(b) => LastFirst(Rem(Then(Last(bytes), x), y, 0), Rem(x, y, 1), bytes, b)
<1>1. \A u, v, w : Rem(u, v, w).steps = u /\ Rem(u, v, w).rest = v /\ Rem(u, v, w).known = w
  BY DEF Rem
<1>2. PutFirst(Rem(Then(Put(byte), x), Then(byte, y), k), Rem(x, y, k), byte)
  BY <1>1 DEF PutFirst
<1>3. \A m : (m = 1 => bytes = Escaped(b)) =>
        LastFirst(Rem(Then(Last(bytes), x), y, 0), Rem(x, y, m), bytes, b)
  BY <1>1 DEF LastFirst
<1> QED BY <1>2, <1>3

\* A step of the send.
LEMMA RemFact ==
  ASSUME NEW s, NEW b, NEW rem \in Remaining(s, b)
  PROVE  \/ \E byte : \E new \in Remaining(s, b) : PutFirst(rem, new, byte)
         \/ \E bytes : \E new \in Remaining(s, b) : LastFirst(rem, new, bytes, b)
         \/ rem = Rem(Then(Out(s), <<>>), <<>>, 1)
<1> DEFINE i == Put(Code(s))
           l == Last(<<b>>)
           o == Then(Out(s), <<>>)
           esc == Code("ESC")
           v == Xored(b)
           plain == Then(Put(b), o)
           heard == Then(Last(<<esc, v>>), o)
           xored == Then(Put(v), heard)
           escaped == Then(Put(esc), xored)
           z == Then(v, <<>>)
           r == Then(esc, <<v>>)
           w == Then(b, <<>>)
           puts == \E byte : \E new \in Remaining(s, b) : PutFirst(rem, new, byte)
           lasts == \E bytes : \E new \in Remaining(s, b) : LastFirst(rem, new, bytes, b)
<1>1. <<v>> = z
  BY DEF Then
<1>2. CASE NeedsEscape(b)
  <2>1. Escaped(b) = <<esc, v>>
    BY <1>2 DEF Escaped
  <2> DEFINE a1 == Rem(o, <<>>, 1)
             a2 == Rem(heard, <<>>, 0)
             a3 == Rem(xored, z, 0)
             a4 == Rem(escaped, r, 0)
             a5 == Rem(Then(l, escaped), r, 0)
             a6 == Rem(Then(i, Then(l, escaped)), Then(Code(s), r), 0)
  <2>2. Remaining(s, b) = {a1} \union {a6, a5, a4, a3, a2}
    BY <1>2 DEF Remaining
  <2>3. LastFirst(a2, a1, <<esc, v>>, b)
    BY <2>1, FirstFact
  <2>4. PutFirst(a3, a2, v)
    BY FirstFact
  <2>5. PutFirst(a4, a3, esc)
    BY <1>1, FirstFact
  <2>6. LastFirst(a5, a4, <<b>>, b)
    BY FirstFact
  <2>7. PutFirst(a6, a5, Code(s))
    BY FirstFact
  <2>8. a1 = Rem(Then(Out(s), <<>>), <<>>, 1)
    OBVIOUS
  <2> HIDE DEF a1, a2, a3, a4, a5, a6
  <2>9. CASE rem = a1
    BY <2>8, <2>9
  <2>10. CASE rem \in {a2, a5}
    BY <2>2, <2>3, <2>6, <2>10
  <2>11. CASE rem \in {a3, a4, a6}
    BY <2>2, <2>4, <2>5, <2>7, <2>11
  <2> QED BY <2>2, <2>9, <2>10, <2>11
<1>3. CASE ~NeedsEscape(b)
  <2>1. Escaped(b) = <<b>>
    BY <1>3 DEF Escaped
  <2> DEFINE a1 == Rem(o, <<>>, 1)
             a2 == Rem(plain, w, 1)
             a3 == Rem(Then(l, plain), w, 0)
             a4 == Rem(Then(i, Then(l, plain)), Then(Code(s), w), 0)
  <2>2. Remaining(s, b) = {a1} \union {a4, a3, a2}
    BY <1>3 DEF Remaining
  <2>3. PutFirst(a2, a1, b)
    BY FirstFact
  <2>4. LastFirst(a3, a2, <<b>>, b)
    BY <2>1, FirstFact
  <2>5. PutFirst(a4, a3, Code(s))
    BY FirstFact
  <2>6. a1 = Rem(Then(Out(s), <<>>), <<>>, 1)
    OBVIOUS
  <2> HIDE DEF a1, a2, a3, a4
  <2>7. CASE rem = a1
    BY <2>6, <2>7
  <2>8. CASE rem = a3
    BY <2>2, <2>4, <2>8
  <2>9. CASE rem \in {a2, a4}
    BY <2>2, <2>3, <2>5, <2>9
  <2> QED BY <2>2, <2>7, <2>8, <2>9
<1> QED BY <1>2, <1>3

LEMMA RemType ==
  ASSUME NEW s \in Services, NEW b \in Byte, NEW rem \in Remaining(s, b)
  PROVE  rem.steps \in Seq(SendOp) /\ rem.rest \in Seq(Byte) /\ rem.steps # <<>>
<1> DEFINE i == Put(Code(s))
           l == Last(<<b>>)
           o == Then(Out(s), <<>>)
           esc == Code("ESC")
           v == Xored(b)
           plain == Then(Put(b), o)
           heard == Then(Last(<<esc, v>>), o)
           xored == Then(Put(v), heard)
           escaped == Then(Put(esc), xored)
           z == Then(v, <<>>)
           r == Then(esc, <<v>>)
           w == Then(b, <<>>)
<1>1. esc \in Byte /\ v \in Byte /\ Code(s) \in Byte
  BY ByteFact
<1>2. <<>> \in Seq(Byte) /\ <<>> \in Seq(SendOp) /\ <<b>> \in Seq(Byte) /\ <<v>> \in Seq(Byte)
      /\ <<esc, v>> \in Seq(Byte)
  BY <1>1
<1>3. /\ \A x \in Byte : Put(x) \in SendOp
      /\ \A q \in Seq(Byte) : Last(q) \in SendOp
      /\ Out(s) \in SendOp
  BY DEF Put, Last, Out, SendOp
<1>4. \A x \in SendOp, q \in Seq(SendOp) : Then(x, q) \in Seq(SendOp) /\ Then(x, q) # <<>>
  BY ThenFact
<1>5. \A x \in Byte, q \in Seq(Byte) : Then(x, q) \in Seq(Byte)
  BY ThenFact
<1> DEFINE Sound(x) == x.steps \in Seq(SendOp) /\ x.rest \in Seq(Byte) /\ x.steps # <<>>
<1>6. \A x \in Seq(SendOp), y \in Seq(Byte) : \A k : x # <<>> => Sound(Rem(x, y, k))
  BY DEF Rem
<1> HIDE DEF Sound
<1>7. i \in SendOp /\ l \in SendOp /\ Put(b) \in SendOp /\ Put(v) \in SendOp /\ Put(esc) \in SendOp
      /\ Last(<<esc, v>>) \in SendOp
  BY <1>1, <1>2, <1>3
<1>8. w \in Seq(Byte) /\ z \in Seq(Byte) /\ r \in Seq(Byte) /\ Then(Code(s), r) \in Seq(Byte)
      /\ Then(Code(s), w) \in Seq(Byte)
  BY <1>1, <1>2, <1>5
<1> HIDE DEF i, l, w, z, r
<1>9. o \in Seq(SendOp) /\ o # <<>>
  BY <1>2, <1>3, <1>4
<1> HIDE DEF o
<1>10. /\ plain \in Seq(SendOp) /\ plain # <<>> /\ heard \in Seq(SendOp) /\ heard # <<>>
  BY <1>4, <1>7, <1>9
<1> HIDE DEF plain, heard
<1>11. xored \in Seq(SendOp) /\ xored # <<>>
  BY <1>4, <1>7, <1>10
<1> HIDE DEF xored
<1>12. escaped \in Seq(SendOp) /\ escaped # <<>>
  BY <1>4, <1>7, <1>11
<1> HIDE DEF escaped
<1>13. /\ Then(l, plain) \in Seq(SendOp) /\ Then(l, plain) # <<>>
       /\ Then(l, escaped) \in Seq(SendOp) /\ Then(l, escaped) # <<>>
  BY <1>4, <1>7, <1>10, <1>12
<1>14. /\ Then(i, Then(l, plain)) \in Seq(SendOp) /\ Then(i, Then(l, plain)) # <<>>
       /\ Then(i, Then(l, escaped)) \in Seq(SendOp) /\ Then(i, Then(l, escaped)) # <<>>
  BY <1>4, <1>7, <1>13
<1>15. rem \in {Rem(o, <<>>, 1), Rem(plain, w, 1), Rem(Then(l, plain), w, 0),
                Rem(Then(i, Then(l, plain)), Then(Code(s), w), 0), Rem(heard, <<>>, 0),
                Rem(xored, z, 0), Rem(escaped, r, 0), Rem(Then(l, escaped), r, 0),
                Rem(Then(i, Then(l, escaped)), Then(Code(s), r), 0)}
  BY DEF Remaining, o, plain, w, l, i, heard, xored, z, escaped, r
<1>16. /\ Sound(Rem(o, <<>>, 1)) /\ Sound(Rem(plain, w, 1)) /\ Sound(Rem(Then(l, plain), w, 0))
       /\ Sound(Rem(Then(i, Then(l, plain)), Then(Code(s), w), 0))
  BY <1>2, <1>6, <1>8, <1>9, <1>10, <1>13, <1>14
<1>17. /\ Sound(Rem(heard, <<>>, 0)) /\ Sound(Rem(xored, z, 0)) /\ Sound(Rem(escaped, r, 0))
       /\ Sound(Rem(Then(l, escaped), r, 0))
       /\ Sound(Rem(Then(i, Then(l, escaped)), Then(Code(s), r), 0))
  BY <1>2, <1>6, <1>8, <1>10, <1>11, <1>12, <1>13, <1>14
<1>18. Sound(rem)
  BY <1>15, <1>16, <1>17
<1> QED BY <1>18 DEF Sound

\* A send has at most six steps and remembers at most two bytes.
Short(n, steps) ==
  Len(steps) <= n /\ \A i \in 1 .. Len(steps) : steps[i].op = "last" => Len(steps[i].bytes) <= 2

LEMMA ShortThen ==
  ASSUME NEW q \in Seq(SendOp), NEW x \in SendOp, NEW n \in Nat, Short(n, q),
         x.op = "last" => Len(x.bytes) <= 2
  PROVE  Then(x, q) \in Seq(SendOp) /\ Short(n + 1, Then(x, q))
<1> DEFINE t == Then(x, q)
<1>1. t \in Seq(SendOp) /\ Len(t) = Len(q) + 1 /\ t[1] = x
  BY ThenFact
<1>2. \A i \in 1 .. Len(q) : t[i + 1] = q[i]
  BY ThenFact
<1> HIDE DEF t
<1>3. Len(q) \in Nat
  OBVIOUS
<1>4. ASSUME NEW i \in 1 .. Len(t), t[i].op = "last" PROVE Len(t[i].bytes) <= 2
  <2>1. CASE i = 1
    BY <1>1, <1>4, <2>1
  <2>2. CASE i # 1
    <3>1. i - 1 \in 1 .. Len(q) /\ (i - 1) + 1 = i
      BY <1>1, <1>3, <2>2
    <3>2. t[i] = q[i - 1]
      BY <1>2, <3>1
    <3> QED BY <1>4, <3>1, <3>2 DEF Short
  <2> QED BY <2>1, <2>2
<1>5. Len(t) <= n + 1
  BY <1>1, <1>3 DEF Short
<1>6. Short(n + 1, t)
  BY <1>4, <1>5 DEF Short
<1> QED BY <1>1, <1>6 DEF t

LEMMA ShortTail ==
  ASSUME NEW q \in Seq(SendOp), q # <<>>, NEW n \in Nat, Short(n, q)
  PROVE  Short(n, Tail(q)) /\ (Head(q).op = "last" => Len(Head(q).bytes) <= 2)
<1> DEFINE t == Tail(q)
<1>1. Len(q) \in Nat \ {0} /\ Len(t) = Len(q) - 1 /\ Head(q) = q[1] /\ \A i \in 1 .. Len(t) : t[i] = q[i + 1]
  BY HeadTailProperties
<1> HIDE DEF t
<1>2. Len(q) <= n /\ \A i \in 1 .. Len(q) : q[i].op = "last" => Len(q[i].bytes) <= 2
  BY DEF Short
<1>3. Len(t) <= n
  BY <1>1, <1>2
<1>4. ASSUME NEW i \in 1 .. Len(t), t[i].op = "last" PROVE Len(t[i].bytes) <= 2
  <2>1. i + 1 \in 1 .. Len(q) /\ t[i] = q[i + 1]
    BY <1>1
  <2> QED BY <1>2, <1>4, <2>1
<1>5. Short(n, t)
  BY <1>3, <1>4 DEF Short
<1>6. 1 \in 1 .. Len(q)
  BY <1>1
<1> QED BY <1>1, <1>2, <1>5, <1>6 DEF t

LEMMA ShortLess == ASSUME NEW q, Len(q) \in Nat, NEW n \in Nat, NEW m \in Nat, Short(n, q), n <= m PROVE Short(m, q)
BY DEF Short

LEMMA Regroup ==
  ASSUME NEW p \in Seq(SendOp), NEW q \in Seq(SendOp), NEW o \in Seq(SendOp), NEW x \in SendOp
  PROVE  ((p \o <<x>>) \o q) \o o = p \o Then(x, q \o o)
<1> DEFINE l == <<x>>
<1>0. l \in Seq(SendOp) /\ Then(x, q \o o) = l \o (q \o o)
  BY DEF Then
<1> HIDE DEF l
<1>1. p \o l \in Seq(SendOp) /\ l \o q \in Seq(SendOp) /\ q \o o \in Seq(SendOp)
  BY <1>0
<1>2. (p \o l) \o q = p \o (l \o q)
  BY <1>0, ConcatAssociative
<1>3. (p \o (l \o q)) \o o = p \o ((l \o q) \o o)
  <2> DEFINE m == l \o q
  <2>1. m \in Seq(SendOp)
    BY <1>1
  <2> HIDE DEF m
  <2>2. (p \o m) \o o = p \o (m \o o)
    BY <2>1, ConcatAssociative
  <2> QED BY <2>2 DEF m
<1>4. (l \o q) \o o = l \o (q \o o)
  BY <1>0, ConcatAssociative
<1>5. ((p \o l) \o q) \o o = p \o (l \o (q \o o))
  BY <1>2, <1>3, <1>4
<1> QED BY <1>0, <1>5 DEF l

\* A call of platform_uart_send begins such a send.
LEMMA SendStepsIs ==
  ASSUME NEW end, NEW s \in Services, NEW b \in Byte
  PROVE  /\ \E rem \in Remaining(s, b) :
              /\ SendSteps(end, s, b) = rem.steps
              /\ rem.rest = IF s = end.out THEN Escaped(b) ELSE <<Code(s)>> \o Escaped(b)
              /\ rem.known = 0
         /\ Short(6, SendSteps(end, s, b))
<1> DEFINE i == Put(Code(s))
           l == Last(<<b>>)
           o == Then(Out(s), <<>>)
           esc == Code("ESC")
           v == Xored(b)
           plain == Then(Put(b), o)
           heard == Then(Last(<<esc, v>>), o)
           xored == Then(Put(v), heard)
           escaped == Then(Put(esc), xored)
           r == Then(esc, <<v>>)
           w == Then(b, <<>>)
<1>1. esc \in Byte /\ v \in Byte /\ Code(s) \in Byte
  BY ByteFact
<1>2. <<>> \in Seq(Byte) /\ <<>> \in Seq(SendOp) /\ <<b>> \in Seq(Byte) /\ <<esc, v>> \in Seq(Byte)
  BY <1>1
<1>3. /\ \A x \in Byte : Put(x) \in SendOp
      /\ \A q \in Seq(Byte) : Last(q) \in SendOp
      /\ Out(s) \in SendOp
  BY DEF Put, Last, Out, SendOp
<1>4. i \in SendOp /\ l \in SendOp /\ Put(b) \in SendOp /\ Put(v) \in SendOp /\ Put(esc) \in SendOp
      /\ Last(<<esc, v>>) \in SendOp
  BY <1>1, <1>2, <1>3
<1>5. /\ i.op = "put" /\ l.op = "last" /\ Put(b).op = "put" /\ Put(v).op = "put" /\ Put(esc).op = "put"
      /\ Last(<<esc, v>>).op = "last" /\ Out(s).op = "out"
      /\ l.bytes = <<b>> /\ Last(<<esc, v>>).bytes = <<esc, v>>
  BY DEF Put, Last, Out
<1>6. Len(<<b>>) <= 2 /\ Len(<<esc, v>>) <= 2
  OBVIOUS
<1>7. <<Out(s)>> = o /\ <<b>> = w /\ <<esc, v>> = r
  BY <1>1, PairIsThen DEF Then
<1>8. o \in Seq(SendOp) /\ Short(1, o)
  <2>1. Short(0, <<>>)
    BY DEF Short
  <2>2. Short(0 + 1, o) /\ o \in Seq(SendOp)
    BY <1>2, <1>3, <1>5, <2>1, ShortThen
  <2> QED BY <2>2
<1> HIDE DEF i, l, o, r, w, esc, v
<1>9. plain \in Seq(SendOp) /\ Short(2, plain) /\ heard \in Seq(SendOp) /\ Short(2, heard)
  <2>1. plain \in Seq(SendOp) /\ Short(1 + 1, plain)
    BY <1>4, <1>5, <1>8, ShortThen
  <2>2. heard \in Seq(SendOp) /\ Short(1 + 1, heard)
    BY <1>4, <1>5, <1>6, <1>8, ShortThen
  <2> QED BY <2>1, <2>2
<1>10. xored \in Seq(SendOp) /\ Short(3, xored)
  <2>1. xored \in Seq(SendOp) /\ Short(2 + 1, xored)
    BY <1>4, <1>5, <1>9, ShortThen
  <2> QED BY <2>1
<1>11. escaped \in Seq(SendOp) /\ Short(4, escaped)
  <2>1. escaped \in Seq(SendOp) /\ Short(3 + 1, escaped)
    BY <1>4, <1>5, <1>10, ShortThen
  <2> QED BY <2>1
<1>12. Then(l, plain) \in Seq(SendOp) /\ Short(3, Then(l, plain))
       /\ Then(l, escaped) \in Seq(SendOp) /\ Short(5, Then(l, escaped))
  <2>1. Then(l, plain) \in Seq(SendOp) /\ Short(2 + 1, Then(l, plain))
    BY <1>4, <1>5, <1>6, <1>9, ShortThen
  <2>2. Then(l, escaped) \in Seq(SendOp) /\ Short(4 + 1, Then(l, escaped))
    BY <1>4, <1>5, <1>6, <1>11, ShortThen
  <2> QED BY <2>1, <2>2
<1>13. Short(4, Then(i, Then(l, plain))) /\ Then(i, Then(l, plain)) \in Seq(SendOp)
       /\ Short(6, Then(i, Then(l, escaped))) /\ Then(i, Then(l, escaped)) \in Seq(SendOp)
  <2>1. Short(3 + 1, Then(i, Then(l, plain))) /\ Then(i, Then(l, plain)) \in Seq(SendOp)
    BY <1>4, <1>5, <1>12, ShortThen
  <2>2. Short(5 + 1, Then(i, Then(l, escaped))) /\ Then(i, Then(l, escaped)) \in Seq(SendOp)
    BY <1>4, <1>5, <1>12, ShortThen
  <2> QED BY <2>1, <2>2
<1>14. \A x, y, k : Rem(x, y, k).steps = x /\ Rem(x, y, k).rest = y /\ Rem(x, y, k).known = k
  BY DEF Rem
<1>15. <<l>> \in Seq(SendOp) /\ <<i>> \in Seq(SendOp) /\ <<Put(b)>> \in Seq(SendOp)
       /\ <<Put(esc), Put(v), Last(<<esc, v>>)>> \in Seq(SendOp)
  BY <1>4
<1>16. \A p \in Seq(SendOp), q \in Seq(SendOp) : ((p \o <<l>>) \o q) \o o = p \o Then(l, q \o o)
  <2>1. l \in SendOp /\ o \in Seq(SendOp)
    BY <1>4, <1>8
  <2> QED BY <2>1, Regroup
<1>17. CASE NeedsEscape(b)
  <2>1. Escaped(b) = r
    BY <1>7, <1>17 DEF Escaped, esc, v
  <2> DEFINE q == <<Put(esc), Put(v), Last(<<esc, v>>)>>
  <2>2. q \o o = escaped
    <3> DEFINE x == Put(esc)
               y == Put(v)
               z == Last(<<esc, v>>)
    <3>1. x \in SendOp /\ y \in SendOp /\ z \in SendOp
      BY <1>4
    <3> HIDE DEF x, y, z
    <3>2. o \in Seq(SendOp)
      BY <1>8
    <3>3. <<x, y, z>> \o o = Then(x, Then(y, Then(z, o)))
      BY <3>1, <3>2, TripleThen, SMTT(60)
    <3> QED BY <3>3 DEF x, y, z
  <2>3. SendSteps(end, s, b) = (((IF s = end.out THEN <<>> ELSE <<i>>) \o <<l>>) \o q) \o o
    BY <1>7, <1>17, <2>1 DEF SendSteps, IdNotNeeded, i, l, esc, v
  <2> HIDE DEF q, escaped
  <2>4. CASE s = end.out
    <3>1. SendSteps(end, s, b) = Then(l, escaped)
      <4>1. SendSteps(end, s, b) = <<>> \o Then(l, escaped)
        BY <1>2, <1>15, <1>16, <2>2, <2>3, <2>4 DEF q
      <4> QED BY <1>12, <4>1
    <3>2. Rem(Then(l, escaped), r, 0) \in Remaining(s, b)
      BY <1>7, <1>17 DEF Remaining, escaped, l, r, i, o, esc, v
    <3>3. Short(6, SendSteps(end, s, b))
      BY <1>12, <3>1, ShortLess
    <3> QED BY <1>14, <2>1, <2>4, <3>1, <3>2, <3>3
  <2>5. CASE s # end.out
    <3>1. SendSteps(end, s, b) = Then(i, Then(l, escaped))
      <4>1. SendSteps(end, s, b) = <<i>> \o Then(l, escaped)
        BY <1>15, <1>16, <2>2, <2>3, <2>5 DEF q
      <4> QED BY <4>1 DEF Then
    <3>2. Rem(Then(i, Then(l, escaped)), Then(Code(s), r), 0) \in Remaining(s, b)
      BY <1>7, <1>17 DEF Remaining, escaped, l, r, i, o, esc, v
    <3>3. Short(6, SendSteps(end, s, b))
      BY <1>13, <3>1
    <3>4. <<Code(s)>> \o r = Then(Code(s), r)
      BY DEF Then
    <3> QED BY <1>14, <2>1, <2>5, <3>1, <3>2, <3>3, <3>4
  <2> QED BY <2>4, <2>5
<1>18. CASE ~NeedsEscape(b)
  <2>1. Escaped(b) = w
    BY <1>7, <1>18 DEF Escaped
  <2> DEFINE q == <<Put(b)>>
  <2>2. q \o o = plain
    BY DEF Then
  <2>3. SendSteps(end, s, b) = (((IF s = end.out THEN <<>> ELSE <<i>>) \o <<l>>) \o q) \o o
    BY <1>7, <1>18 DEF SendSteps, IdNotNeeded, i, l
  <2> HIDE DEF q, plain
  <2>4. CASE s = end.out
    <3>1. SendSteps(end, s, b) = Then(l, plain)
      <4>1. SendSteps(end, s, b) = <<>> \o Then(l, plain)
        BY <1>2, <1>15, <1>16, <2>2, <2>3, <2>4 DEF q
      <4> QED BY <1>12, <4>1
    <3>2. Rem(Then(l, plain), w, 0) \in Remaining(s, b)
      BY <1>18 DEF Remaining, plain, l, w, i, o
    <3>3. Short(6, SendSteps(end, s, b))
      BY <1>12, <3>1, ShortLess
    <3> QED BY <1>14, <2>1, <2>4, <3>1, <3>2, <3>3
  <2>5. CASE s # end.out
    <3>1. SendSteps(end, s, b) = Then(i, Then(l, plain))
      <4>1. SendSteps(end, s, b) = <<i>> \o Then(l, plain)
        BY <1>15, <1>16, <2>2, <2>3, <2>5 DEF q
      <4> QED BY <4>1 DEF Then
    <3>2. Rem(Then(i, Then(l, plain)), Then(Code(s), w), 0) \in Remaining(s, b)
      BY <1>18 DEF Remaining, plain, l, w, i, o
    <3>3. Short(6, SendSteps(end, s, b))
      BY <1>13, <3>1, ShortLess
    <3>4. <<Code(s)>> \o w = Then(Code(s), w)
      BY DEF Then
    <3> QED BY <1>14, <2>1, <2>5, <3>1, <3>2, <3>3, <3>4
  <2> QED BY <2>4, <2>5
<1> QED BY <1>17, <1>18


-----------------------------------------------------------------------------
(***************************************************************************)
(* The invariant of the multiplexer.  A send in progress counts as made:   *)
(* what it will put on the line is taken to be there already.              *)
(***************************************************************************)
\* What is kept to be repeated is the latest character, for the latest service.
Kept(e, h) ==
  e.last = <<>> \/ (Len(h) > 0 /\ e.last = Escaped(Char(h, Len(h))) /\ e.out = h[Len(h)].to)

\* A character the device has sent and not finished sending.
Unfinished(rem) ==
  /\ sending = rem.steps
  /\ Way(sent.dev, got["peer"], toPeer \o rem.rest, peer.in, Bit(peer.esc),
         sent.dev[Len(sent.dev)].to, restarts)
  /\ rem.known = 1 => dev.last = Escaped(Char(sent.dev, Len(sent.dev)))

DevWay ==
  \/ sending = <<>> /\ Kept(dev, sent.dev)
     /\ Way(sent.dev, got["peer"], toPeer, peer.in, Bit(peer.esc), dev.out, restarts)
  \/ sending # <<>> /\ Len(sent.dev) > 0
     /\ \E rem \in Remaining(sent.dev[Len(sent.dev)].to, Char(sent.dev, Len(sent.dev))) : Unfinished(rem)

PeerWay ==
  /\ Kept(peer, sent.peer)
  /\ Way(sent.peer, got["dev"], toDev, dev.in, Bit(dev.esc), peer.out, restarts)

Limits ==
  /\ Len(dev.last) <= 2 /\ Len(peer.last) <= 2
  /\ Short(6, sending)
  /\ restarts \in 0 .. MaxRestarts
  /\ got \in [{"dev", "peer"} -> Got]

MuxInv == Line /\ Limits /\ (~upset => DevWay /\ PeerWay)

LEMMA LatestFact ==
  ASSUME NEW h \in Seq(Message), Len(h) <= MaxSent, Len(h) > 0
  PROVE  /\ h[Len(h)].to \in Services /\ Char(h, Len(h)) \in Byte /\ Len(h) \in 1 .. MaxSent
         /\ Escaped(Char(h, Len(h))) \in Seq(Byte)
<1>1. Len(h) \in 1 .. Len(h) /\ Len(h) \in 1 .. MaxSent
  BY UartMuxAssumption
<1> QED BY <1>1, MessageTo, CharFact, EscapedFact

LEMMA EscapedLen == \A b : Len(Escaped(b)) <= 2
BY DEF Escaped

\* The steps that are left of a send.
LEMMA SumFact == ASSUME NEW a \in Nat, NEW b \in Nat, NEW m \in Nat, a + b <= m PROVE a <= m /\ b <= m
OBVIOUS

LEMMA SentFact ==
  ASSUME NEW h \in [dev : Seq(Message), peer : Seq(Message)], Len(h.dev) + Len(h.peer) <= MaxSent
  PROVE  /\ h.dev \in Seq(Message) /\ Len(h.dev) <= MaxSent
         /\ h.peer \in Seq(Message) /\ Len(h.peer) <= MaxSent
<1>1. h.dev \in Seq(Message) /\ h.peer \in Seq(Message)
  OBVIOUS
<1> DEFINE a == Len(h.dev)
           b == Len(h.peer)
<1>2. a \in Nat /\ b \in Nat /\ a + b <= MaxSent
  BY <1>1
<1> HIDE DEF a, b
<1>3. a <= MaxSent /\ b <= MaxSent
  BY <1>2, SumFact, UartMuxAssumption
<1> QED BY <1>1, <1>3 DEF a, b

LEMMA MuxInit == Init => MuxInv
<1> SUFFICES ASSUME Init PROVE MuxInv
  OBVIOUS
<1>1. Line
  BY LineInit
<1>2. /\ dev = Fresh /\ peer = Fresh /\ toDev = <<>> /\ toPeer = <<>> /\ sending = <<>>
      /\ sent = [dev |-> <<>>, peer |-> <<>>]
      /\ got = [e \in {"dev", "peer"} |-> [s \in Services |-> <<>>]] /\ restarts = 0
  BY DEF Init
<1>3. [s \in Services |-> <<>>] \in Got
  <2>1. <<>> \in Seq(Byte)
    BY EmptySeq
  <2> QED BY <2>1 DEF Got
<1>4. Limits
  <2>1. Len(<<>>) <= 2 /\ Short(6, <<>>)
    BY DEF Short
  <2> QED BY <1>2, <1>3, <2>1, UartMuxAssumption DEF Limits, Fresh
<1>5. Kept(dev, sent.dev) /\ Kept(peer, sent.peer)
  BY <1>2 DEF Kept, Fresh
<1>6. /\ got["peer"] = [s \in Services |-> <<>>] /\ got["dev"] = [s \in Services |-> <<>>]
      /\ sent.dev = <<>> /\ sent.peer = <<>> /\ dev.in = None /\ peer.in = None
      /\ dev.out = None /\ peer.out = None /\ Bit(dev.esc) = 0 /\ Bit(peer.esc) = 0
  BY <1>2 DEF Fresh, Bit
<1>7. DevWay
  BY <1>2, <1>5, <1>6, NoWay DEF DevWay
<1>8. PeerWay
  BY <1>2, <1>5, <1>6, NoWay DEF PeerWay
<1> QED BY <1>1, <1>4, <1>7, <1>8 DEF MuxInv

\* The device begins to send.
LEMMA DevSendInv ==
  ASSUME MuxInv, Line', NEW s \in Services, NEW kind \in Kinds, DevSend(s, kind)
  PROVE  MuxInv'
<1> DEFINE m == [to |-> s, c |-> kind]
           f == Append(sent.dev, m)
           b == Character("dev", kind)
<1>1. /\ sending = <<>> /\ sending' = SendSteps(dev, s, b)
      /\ UNCHANGED <<dev, peer, toDev, toPeer, got, upset, restarts>>
      /\ sent' = [sent EXCEPT !["dev"] = Append(@, m)]
  BY DEF DevSend, Record
<1>2. m \in Message /\ sent.dev \in Seq(Message) /\ m.to = s /\ m.c = kind
  BY DEF Message, MuxInv, Line
<1>3. sent'.dev = f /\ sent'.peer = sent.peer
  BY <1>1 DEF MuxInv, Line
<1>4. f \in Seq(Message) /\ Len(f) = Len(sent.dev) + 1 /\ f[Len(f)] = m /\ Len(f) > 0 /\ Len(f) <= MaxSent
  <2>1. f \in Seq(Message) /\ Len(f) = Len(sent.dev) + 1 /\ f[Len(sent.dev) + 1] = m /\ Len(sent.dev) \in Nat
    BY <1>2, AppendProperties
  <2>2. Len(f) <= MaxSent
    <3>1. sent' \in [dev : Seq(Message), peer : Seq(Message)] /\ Len(sent'.dev) + Len(sent'.peer) <= MaxSent
      BY DEF Line
    <3>2. Len(sent'.dev) <= MaxSent
      BY <3>1, SentFact
    <3> QED BY <1>3, <3>2
  <2> QED BY <2>1, <2>2
<1>5. b = Char(f, Len(f))
  BY <1>2, <1>4 DEF Character, Char
<1> HIDE DEF m, f, b
<1>6. b \in Byte
  BY <1>4, <1>5, LatestFact
<1>7. Limits'
  <2>1. Short(6, sending')
    BY <1>1, <1>6, SendStepsIs
  <2> QED BY <1>1, <2>1 DEF MuxInv, Limits
<1>8. ASSUME ~upset PROVE DevWay' /\ PeerWay'
  <2>1. DevWay /\ PeerWay
    BY <1>8 DEF MuxInv
  <2>2. Way(sent.dev, got["peer"], toPeer, peer.in, Bit(peer.esc), dev.out, restarts)
    BY <1>1, <2>1 DEF DevWay
  <2>3. PICK rem \in Remaining(s, b) :
          /\ SendSteps(dev, s, b) = rem.steps
          /\ rem.rest = IF s = dev.out THEN Escaped(b) ELSE <<Code(s)>> \o Escaped(b)
          /\ rem.known = 0
    BY <1>6, SendStepsIs
  <2>4. toPeer \in Seq(Byte) /\ Len(f) \in 1 .. MaxSent /\ s = f[Len(f)].to
    BY <1>2, <1>4, LatestFact DEF MuxInv, Line
  <2>5. /\ dev.out = s => Way(f, got["peer"], toPeer \o Escaped(b), peer.in, Bit(peer.esc), s, restarts)
        /\ Way(f, got["peer"], toPeer \o (<<Code(s)>> \o Escaped(b)), peer.in, Bit(peer.esc), s, restarts)
    BY <1>2, <1>4, <1>5, <2>2, <2>4, SayWay DEF f
  <2>6. Way(f, got["peer"], toPeer \o rem.rest, peer.in, Bit(peer.esc), s, restarts)
    BY <2>3, <2>5
  <2>7. Unfinished(rem)' /\ sending' # <<>>
    <3>1. sending' = rem.steps /\ rem.steps # <<>>
      BY <1>1, <1>6, <2>3, RemType
    <3>2. sent'.dev[Len(sent'.dev)].to = s
      BY <1>3, <2>4
    <3>3. Way(sent'.dev, got'["peer"], toPeer' \o rem.rest, peer'.in, Bit(peer'.esc),
              sent'.dev[Len(sent'.dev)].to, restarts')
      BY <1>1, <1>3, <2>6, <3>2
    <3>4. ~(rem.known = 1)
      BY <2>3
    <3>5. Unfinished(rem)'
      BY <3>1, <3>3, <3>4 DEF Unfinished
    <3> QED BY <3>1, <3>5
  <2>8. DevWay'
    BY <1>3, <1>4, <1>5, <2>3, <2>4, <2>7 DEF DevWay
  <2>9. PeerWay'
    BY <1>1, <1>3, <2>1 DEF PeerWay
  <2> QED BY <2>8, <2>9
<1> QED BY <1>1, <1>7, <1>8 DEF MuxInv

\* The other end sends.
LEMMA PeerSendInv ==
  ASSUME MuxInv, Line', NEW s \in Services, NEW kind \in Kinds, PeerSend(s, kind)
  PROVE  MuxInv'
<1> DEFINE m == [to |-> s, c |-> kind]
           f == Append(sent.peer, m)
           b == Character("peer", kind)
           x == Escaped(b)
<1>1. /\ toDev' = (toDev \o (IF s = peer.out THEN <<>> ELSE <<Code(s)>>)) \o x
      /\ peer' = [peer EXCEPT !.last = x, !.out = s]
      /\ UNCHANGED <<dev, toPeer, sending, got, upset, restarts>>
      /\ sent' = [sent EXCEPT !["peer"] = Append(@, m)]
  BY DEF PeerSend, Record
<1>2. m \in Message /\ sent.peer \in Seq(Message) /\ m.to = s /\ m.c = kind /\ peer \in End
      /\ toDev \in Seq(Byte)
  BY DEF Message, MuxInv, Line
<1>3. sent'.peer = f /\ sent'.dev = sent.dev
  BY <1>1 DEF MuxInv, Line
<1>4. f \in Seq(Message) /\ Len(f) = Len(sent.peer) + 1 /\ f[Len(f)] = m /\ Len(f) > 0 /\ Len(f) <= MaxSent
  <2>1. f \in Seq(Message) /\ Len(f) = Len(sent.peer) + 1 /\ f[Len(sent.peer) + 1] = m /\ Len(sent.peer) \in Nat
    BY <1>2, AppendProperties
  <2>2. Len(f) <= MaxSent
    <3>1. sent' \in [dev : Seq(Message), peer : Seq(Message)] /\ Len(sent'.dev) + Len(sent'.peer) <= MaxSent
      BY DEF Line
    <3>2. Len(sent'.peer) <= MaxSent
      BY <3>1, SentFact
    <3> QED BY <1>3, <3>2
  <2> QED BY <2>1, <2>2
<1>5. b = Char(f, Len(f))
  BY <1>2, <1>4 DEF Character, Char
<1> HIDE DEF m, f, b
<1>6. b \in Byte /\ x \in Seq(Byte) /\ Len(x) <= 2
  BY <1>4, <1>5, LatestFact, EscapedLen
<1>7. peer'.in = peer.in /\ peer'.esc = peer.esc /\ peer'.last = x /\ peer'.out = s
  BY <1>1, <1>2 DEF End
<1>8. Limits'
  BY <1>1, <1>6, <1>7 DEF MuxInv, Limits
<1>9. ASSUME ~upset PROVE DevWay' /\ PeerWay'
  <2>1. DevWay /\ PeerWay
    BY <1>9 DEF MuxInv
  <2>2. Way(sent.peer, got["dev"], toDev, dev.in, Bit(dev.esc), peer.out, restarts)
    BY <2>1 DEF PeerWay
  <2>3. Len(f) \in 1 .. MaxSent /\ s = f[Len(f)].to
    BY <1>2, <1>4, LatestFact
  <2>4. /\ peer.out = s => Way(f, got["dev"], toDev \o x, dev.in, Bit(dev.esc), s, restarts)
        /\ Way(f, got["dev"], toDev \o (<<Code(s)>> \o x), dev.in, Bit(dev.esc), s, restarts)
    BY <1>2, <1>4, <1>5, <2>2, <2>3, SayWay DEF f
  <2>5. Code(s) \in Byte
    BY ByteFact
  <2>6. Way(f, got["dev"], toDev', dev.in, Bit(dev.esc), s, restarts)
    <3>1. CASE s = peer.out
      <4>1. toDev' = toDev \o x
        BY <1>1, <1>2, <3>1
      <4> QED BY <2>4, <3>1, <4>1
    <3>2. CASE s # peer.out
      <4> DEFINE i == <<Code(s)>>
      <4>1. i \in Seq(Byte)
        BY <2>5
      <4>2. toDev' = (toDev \o i) \o x
        BY <1>1, <3>2
      <4> HIDE DEF i
      <4>a. toDev \in Seq(Byte) /\ x \in Seq(Byte)
        BY <1>2, <1>6
      <4> HIDE DEF x
      <4>3. toDev' = toDev \o (i \o x)
        BY <4>a, <4>1, <4>2, ConcatAssociative
      <4> QED BY <2>4, <4>3 DEF i
    <3> QED BY <3>1, <3>2
  <2>7. Kept(peer', f)
    BY <1>4, <1>5, <1>7, <2>3 DEF Kept
  <2>8. PeerWay'
    BY <1>1, <1>3, <1>7, <2>6, <2>7 DEF PeerWay
  <2>9. DevWay'
    <3>1. \A rem : Unfinished(rem) => Unfinished(rem)'
      BY <1>1, <1>3, <1>7 DEF Unfinished
    <3> QED BY <1>1, <1>3, <1>7, <2>1, <3>1 DEF DevWay
  <2> QED BY <2>8, <2>9
<1> QED BY <1>1, <1>8, <1>9 DEF MuxInv

LEMMA HeadTailThen ==
  ASSUME NEW x, NEW S, NEW q \in Seq(S)
  PROVE  Head(Then(x, q)) = x /\ Tail(Then(x, q)) = q
<1> DEFINE T == S \union {x}
<1>1. x \in T /\ S \subseteq T
  OBVIOUS
<1> HIDE DEF T
<1>2. q \in Seq(T)
  BY <1>1, SeqMonotonic
<1>3. Head(Then(x, q)) = x
  BY <1>1, <1>2, ThenFact
<1>4. Tail(Then(x, q)) = q
  BY <1>1, <1>2, ThenFact
<1> QED BY <1>3, <1>4

LEMMA AppendThen ==
  ASSUME NEW S, NEW q \in Seq(S), NEW x \in S, NEW u \in Seq(S)
  PROVE  q \o Then(x, u) = Append(q, x) \o u
BY DEF Then

\* A step of a send.
LEMMA SendStepInv ==
  ASSUME MuxInv, SendStep
  PROVE  Limits' /\ (~upset => DevWay' /\ PeerWay')
<1> DEFINE op == Head(sending)
           h == sent.dev
           n == Len(h)
           s == h[n].to
           b == Char(h, n)
<1>1. /\ sending # <<>> /\ sending' = Tail(sending) /\ UNCHANGED <<peer, toDev, sent, got, restarts>>
      /\ \/ op.op = "put" /\ toPeer' = Append(toPeer, op.byte) /\ UNCHANGED dev
         \/ op.op = "last" /\ dev' = [dev EXCEPT !.last = op.bytes] /\ UNCHANGED toPeer
         \/ op.op = "out" /\ dev' = [dev EXCEPT !.out = op.id] /\ UNCHANGED toPeer
  BY DEF SendStep
<1>2. /\ sending \in Seq(SendOp) /\ toPeer \in Seq(Byte) /\ h \in Seq(Message) /\ n <= MaxSent
      /\ dev \in End
  BY SentFact DEF MuxInv, Line
<1>3. Short(6, sending') /\ (op.op = "last" => Len(op.bytes) <= 2)
  BY <1>1, <1>2, ShortTail DEF MuxInv, Limits
<1>4. Limits'
  <2>1. dev'.last \in {dev.last, op.bytes} /\ (dev'.last # dev.last => op.op = "last")
    BY <1>1, <1>2 DEF End
  <2> QED BY <1>1, <1>3, <2>1 DEF MuxInv, Limits
<1>5. ASSUME ~upset PROVE DevWay' /\ PeerWay'
  <2>1. DevWay /\ PeerWay
    BY <1>5 DEF MuxInv
  <2>2. n > 0 /\ \E rem \in Remaining(s, b) : Unfinished(rem)
    BY <1>1, <2>1 DEF DevWay
  <2>3. PICK rem \in Remaining(s, b) : Unfinished(rem)
    BY <2>2
  <2>4. /\ sending = rem.steps
        /\ Way(h, got["peer"], toPeer \o rem.rest, peer.in, Bit(peer.esc), s, restarts)
        /\ rem.known = 1 => dev.last = Escaped(b)
    BY <2>3 DEF Unfinished
  <2>5. s \in Services /\ b \in Byte
    BY <1>2, <2>2, LatestFact
  <2>6. dev'.in = dev.in /\ dev'.esc = dev.esc
    BY <1>1, <1>2 DEF End
  <2>7. PeerWay'
    BY <1>1, <2>1, <2>6 DEF PeerWay
  <2>8. rem.steps \in Seq(SendOp) /\ rem.rest \in Seq(Byte)
    BY <2>5, RemType
  <2> HIDE DEF b, s, n, h
  <2>9. CASE \E byte : \E new \in Remaining(s, b) : PutFirst(rem, new, byte)
    <3>1. PICK byte : \E new \in Remaining(s, b) : PutFirst(rem, new, byte)
      BY <2>9
    <3>2. PICK new \in Remaining(s, b) : PutFirst(rem, new, byte)
      BY <3>1
    <3>3. sending = Then(Put(byte), new.steps) /\ rem.rest = Then(byte, new.rest) /\ new.known = rem.known
      BY <2>4, <3>2 DEF PutFirst
    <3>4. new.steps \in Seq(SendOp) /\ new.rest \in Seq(Byte) /\ new.steps # <<>>
      BY <2>5, RemType
    <3>5. op = Put(byte) /\ Tail(sending) = new.steps
      BY <3>3, <3>4, HeadTailThen
    <3>6. op.op = "put" /\ op.byte = byte
      BY <3>5 DEF Put
    <3>7. toPeer' = Append(toPeer, byte) /\ dev' = dev /\ sending' = new.steps
      BY <1>1, <3>5, <3>6
    <3>8. byte \in Byte
      <4>1. op \in SendOp
        BY <1>1, <1>2, HeadTailProperties
      <4> QED BY <3>6, <4>1 DEF SendOp
    <3>a. toPeer \in Seq(Byte) /\ new.rest \in Seq(Byte)
      BY <1>2, <3>4
    <3> DEFINE u == new.rest
    <3>c. u \in Seq(Byte)
      BY <3>a
    <3> HIDE DEF u
    <3>b. toPeer \o Then(byte, u) = Append(toPeer, byte) \o u
      BY <3>a, <3>c, <3>8, AppendThen
    <3>9. toPeer \o rem.rest = toPeer' \o new.rest
      BY <3>3, <3>7, <3>b DEF u
    <3>10. Unfinished(new)'
      BY <1>1, <2>4, <3>3, <3>7, <3>9 DEF Unfinished, h, n, s, b
    <3> QED BY <1>1, <2>2, <2>7, <3>4, <3>7, <3>10 DEF DevWay, h, n, s, b
  <2>10. CASE \E bytes : \E new \in Remaining(s, b) : LastFirst(rem, new, bytes, b)
    <3>1. PICK bytes : \E new \in Remaining(s, b) : LastFirst(rem, new, bytes, b)
      BY <2>10
    <3>2. PICK new \in Remaining(s, b) : LastFirst(rem, new, bytes, b)
      BY <3>1
    <3>3. sending = Then(Last(bytes), new.steps) /\ rem.rest = new.rest
          /\ (new.known = 1 => bytes = Escaped(b))
      BY <2>4, <3>2 DEF LastFirst
    <3>4. new.steps \in Seq(SendOp) /\ new.rest \in Seq(Byte) /\ new.steps # <<>>
      BY <2>5, RemType
    <3>5. op = Last(bytes) /\ Tail(sending) = new.steps
      BY <3>3, <3>4, HeadTailThen
    <3>6. op.op = "last" /\ op.bytes = bytes
      BY <3>5 DEF Last
    <3>7. toPeer' = toPeer /\ dev' = [dev EXCEPT !.last = bytes] /\ sending' = new.steps
      BY <1>1, <3>5, <3>6
    <3>8. dev'.last = bytes
      BY <1>2, <3>7 DEF End
    <3>9. Unfinished(new)'
      BY <1>1, <2>4, <3>3, <3>7, <3>8 DEF Unfinished, h, n, s, b
    <3> QED BY <1>1, <2>2, <2>7, <3>4, <3>7, <3>9 DEF DevWay, h, n, s, b
  <2>11. CASE rem = Rem(Then(Out(s), <<>>), <<>>, 1)
    <3>1. sending = Then(Out(s), <<>>) /\ rem.rest = <<>> /\ rem.known = 1
      BY <2>4, <2>11 DEF Rem
    <3>2. <<>> \in Seq(SendOp)
      BY EmptySeq
    <3>3. op = Out(s) /\ Tail(sending) = <<>>
      BY <3>1, <3>2, HeadTailThen
    <3>4. op.op = "out" /\ op.id = s
      BY <3>3 DEF Out
    <3>5. toPeer' = toPeer /\ dev' = [dev EXCEPT !.out = s] /\ sending' = <<>>
      BY <1>1, <3>3, <3>4
    <3>6. dev'.out = s /\ dev'.last = dev.last
      BY <1>2, <3>5 DEF End
    <3>7. toPeer \o rem.rest = toPeer'
      BY <1>2, <3>1, <3>5
    <3>8. Kept(dev', h)
      BY <2>2, <2>4, <3>1, <3>6 DEF Kept, h, n, s, b
    <3>9. Way(h, got["peer"], toPeer', peer.in, Bit(peer.esc), dev'.out, restarts)
      BY <2>4, <3>6, <3>7
    <3> QED BY <1>1, <2>7, <3>5, <3>8, <3>9 DEF DevWay, h
  <2> QED BY <2>9, <2>10, <2>11, RemFact
<1> QED BY <1>4, <1>5

\* The handler answers with a request, with what is kept, or not at all.
LEMMA AnswerWay ==
  ASSUME NEW h \in Seq(Message), Len(h) <= MaxSent, NEW g, NEW q \in Seq(Byte), NEW in, NEW e, NEW r,
         NEW end, Kept(end, h), Way(h, g, q, in, e, end.out, r), NEW x, x.end.out = end.out,
         \/ x.say = <<>> /\ x.end.last = end.last
         \/ r # 0 /\ x.say = <<Code("FORCE")>> /\ x.end.last = end.last
         \/ r # 0 /\ end.last # <<>> /\ x.end.last = <<>> /\ x.say = <<IdByte(end.out)>> \o end.last
  PROVE  Kept(x.end, h) /\ Way(h, g, q \o x.say, in, e, x.end.out, r)
<1>1. CASE x.say = <<>> /\ x.end.last = end.last
  <2>1. q \o x.say = q
    BY <1>1
  <2> QED BY <1>1, <2>1 DEF Kept
<1>2. CASE r # 0 /\ x.say = <<Code("FORCE")>> /\ x.end.last = end.last
  <2> DEFINE f == Code("FORCE")
  <2>1. f \in Byte
    BY ForceFact
  <2>2. <<>> \in Seq(Byte) /\ q \o <<>> = q
    OBVIOUS
  <2>3. Way(h, g, Append(q, f) \o <<>>, in, e, end.out, r)
    BY <1>2, <2>2, ForceWay
  <2> HIDE DEF f
  <2>4. Append(q, f) \o <<>> = q \o <<f>>
    BY <2>1
  <2> QED BY <1>2, <2>3, <2>4 DEF Kept, f
<1>3. CASE r # 0 /\ end.last # <<>> /\ x.end.last = <<>> /\ x.say = <<IdByte(end.out)>> \o end.last
  <2> DEFINE s == h[Len(h)].to
             c == Escaped(Char(h, Len(h)))
  <2>1. Len(h) > 0 /\ end.last = c /\ end.out = s
    BY <1>3 DEF Kept
  <2>2. s \in Services /\ Len(h) \in 1 .. MaxSent
    BY <2>1, LatestFact
  <2>3. IdByte(end.out) = Code(s)
    BY <2>1, <2>2, UartMuxAssumption DEF IdByte
  <2>4. Way(h, g, q \o (<<Code(s)>> \o c), in, e, s, r)
    BY <1>3, <2>2, SayWay
  <2> HIDE DEF s, c
  <2> QED BY <1>3, <2>1, <2>3, <2>4 DEF Kept
<1> QED BY <1>1, <1>2, <1>3

\* A character is recorded as received.
LEMMA GotFact ==
  ASSUME NEW g \in [{"dev", "peer"} -> Got], NEW who \in {"dev", "peer"}, NEW s \in Services, NEW v \in Byte
  PROVE  LET f == [g EXCEPT ![who][s] = Append(@, v)]
         IN  /\ f \in [{"dev", "peer"} -> Got]
             /\ f[who] = [g[who] EXCEPT ![s] = Append(@, v)]
             /\ \A o \in {"dev", "peer"} : o # who => f[o] = g[o]
<1> DEFINE f == [g EXCEPT ![who][s] = Append(@, v)]
           a == [g[who] EXCEPT ![s] = Append(@, v)]
<1>1. f = [g EXCEPT ![who] = a]
  OBVIOUS
<1>2. g[who] \in Got /\ g[who][s] \in Seq(Byte)
  BY DEF Got
<1>3. Append(g[who][s], v) \in Seq(Byte)
  BY <1>2, AppendProperties
<1>4. a \in Got
  BY <1>2, <1>3 DEF Got
<1> HIDE DEF a, f
<1>5. f \in [{"dev", "peer"} -> Got] /\ f[who] = a /\ \A o \in {"dev", "peer"} : o # who => f[o] = g[o]
  BY <1>1, <1>4
<1> QED BY <1>5 DEF f, a

LEMMA HandleLast == ASSUME NEW e \in End, NEW b PROVE Handle(e, b).end.last \in {e.last, <<>>}
<1>1. /\ [e EXCEPT !.esc = TRUE].last = e.last /\ [e EXCEPT !.in = b.c].last = e.last
      /\ [e EXCEPT !.last = <<>>].last = <<>> /\ Unescaped(e).last = e.last
  BY DEF End, Unescaped
<1>2. Handle(e, b).end \in {[e EXCEPT !.esc = TRUE], [e EXCEPT !.in = b.c], [e EXCEPT !.last = <<>>], Unescaped(e)}
  BY DEF Handle, Result
<1> QED BY <1>1, <1>2

\* The receive interrupt of the device.
LEMMA DevReceiveInv ==
  ASSUME MuxInv, DevReceive
  PROVE  Limits' /\ (~upset' => DevWay' /\ PeerWay')
<1> DEFINE b == Head(toDev)
           x == Handle(dev, b)
<1>1. /\ toDev # <<>> /\ toDev' = Tail(toDev) /\ dev' = x.end /\ toPeer' = toPeer \o x.say
      /\ UNCHANGED <<peer, sending, sent, restarts>>
      /\ upset' = (upset \/ Upsets(dev, b, sending # <<>>))
      /\ got' = IF x.data = <<>> THEN got ELSE [got EXCEPT !["dev"][dev.in] = Append(@, x.data[1])]
  BY DEF DevReceive
<1>2. /\ dev \in End /\ toDev \in Seq(Byte) /\ toPeer \in Seq(Byte) /\ dev.esc \in BOOLEAN
      /\ sent.dev \in Seq(Message) /\ Len(sent.dev) <= MaxSent /\ sent.peer \in Seq(Message)
      /\ got \in [{"dev", "peer"} -> Got] /\ sending \in Seq(SendOp)
  BY SentFact DEF MuxInv, Line, Limits, End
<1>3. b \in Byte
  BY <1>1, <1>2, HeadTailProperties
<1>4. x.data = <<>> \/ (x.data[1] \in Byte /\ dev.in \in Services)
  BY <1>2, <1>3, HandleFact
<1>5. x.end.last \in {dev.last, <<>>}
  BY <1>2, HandleLast
<1> HIDE DEF b, x
<1>6. got' \in [{"dev", "peer"} -> Got]
  <2>1. CASE x.data = <<>>
    BY <1>1, <1>2, <2>1
  <2>2. CASE x.data # <<>>
    BY <1>1, <1>2, <1>4, <2>2, GotFact
  <2> QED BY <2>1, <2>2
<1>7. Limits'
  <2>1. Len(dev'.last) <= 2
    <3>1. Len(<<>>) <= 2
      OBVIOUS
    <3> QED BY <1>1, <1>5, <3>1 DEF MuxInv, Limits
  <2> QED BY <1>1, <1>6, <2>1 DEF MuxInv, Limits
<1>8. ASSUME ~upset' PROVE DevWay' /\ PeerWay'
  <2>1. DevWay /\ PeerWay /\ ~Upsets(dev, b, sending # <<>>)
    BY <1>1, <1>8 DEF MuxInv
  <2>2. ~(IsCode(b, "FORCE") /\ dev.last = <<>>) /\ (IsCode(b, "FORCE") => sending = <<>>)
    BY <2>1 DEF Upsets
  <2>3. got["dev"] \in Got /\ Way(sent.peer, got["dev"], toDev, dev.in, Bit(dev.esc), peer.out, restarts)
    BY <1>2, <2>1 DEF PeerWay
  <2>4. /\ \/ x.data = <<>> /\ Way(sent.peer, got["dev"], toDev', x.end.in, Bit(x.end.esc), peer.out, restarts)
           \/ /\ dev.in \in Services /\ x.data # <<>>
              /\ Way(sent.peer, [got["dev"] EXCEPT ![dev.in] = Append(@, x.data[1])], toDev',
                     x.end.in, Bit(x.end.esc), peer.out, restarts)
        /\ x.end.out = dev.out
        /\ \/ x.say = <<>> /\ x.end.last = dev.last
           \/ restarts # 0 /\ x.say = <<Code("FORCE")>> /\ x.end.last = dev.last /\ ~IsForce(b)
           \/ restarts # 0 /\ IsCode(b, "FORCE") /\ dev.last # <<>> /\ x.end.last = <<>>
              /\ x.say = <<IdByte(dev.out)>> \o dev.last
    <3> DEFINE h == sent.peer
               g == got["dev"]
               o == peer.out
               r == restarts
    <3>1. /\ h \in Seq(Message) /\ g \in Got /\ toDev \in Seq(Byte) /\ dev \in End
          /\ dev.esc \in BOOLEAN /\ toDev # <<>> /\ Way(h, g, toDev, dev.in, Bit(dev.esc), o, r)
          /\ ~(IsCode(Head(toDev), "FORCE") /\ dev.last = <<>>)
      BY <1>1, <1>2, <2>2, <2>3 DEF b
    <3> HIDE DEF h, g, o, r
    <3>2. Reads(h, g, toDev, dev, o, r)
      BY <3>1, TakeWay
    <3> QED BY <1>1, <3>2 DEF Reads, b, x, h, g, o, r
  <2>5. PeerWay'
    <3>1. Way(sent.peer, got'["dev"], toDev', dev'.in, Bit(dev'.esc), peer.out, restarts)
      <4>1. CASE x.data = <<>>
        BY <1>1, <2>4, <4>1
      <4>2. CASE x.data # <<>>
        <5>1. got'["dev"] = [got["dev"] EXCEPT ![dev.in] = Append(@, x.data[1])]
          BY <1>1, <1>2, <1>4, <4>2, GotFact
        <5> QED BY <1>1, <2>4, <4>2, <5>1
      <4> QED BY <4>1, <4>2
    <3> QED BY <1>1, <2>1, <3>1 DEF PeerWay
  <2>6. got'["peer"] = got["peer"]
    <3>1. CASE x.data = <<>>
      BY <1>1, <3>1
    <3>2. CASE x.data # <<>>
      BY <1>1, <1>2, <1>4, <3>2, GotFact
    <3> QED BY <3>1, <3>2
  <2>7. CASE sending = <<>>
    <3>1. Kept(dev, sent.dev) /\ Way(sent.dev, got["peer"], toPeer, peer.in, Bit(peer.esc), dev.out, restarts)
      BY <2>1, <2>7 DEF DevWay
    <3>2. Kept(x.end, sent.dev)
          /\ Way(sent.dev, got["peer"], toPeer \o x.say, peer.in, Bit(peer.esc), x.end.out, restarts)
      BY <1>2, <2>4, <3>1, AnswerWay
    <3>3. DevWay'
      BY <1>1, <2>6, <2>7, <3>2 DEF DevWay
    <3> QED BY <2>5, <3>3
  <2>8. CASE sending # <<>>
    <3> DEFINE h == sent.dev
               n == Len(h)
               s == h[n].to
               c == Char(h, n)
    <3>1. n > 0 /\ \E rem \in Remaining(s, c) : Unfinished(rem)
      BY <2>1, <2>8 DEF DevWay
    <3>2. PICK rem \in Remaining(s, c) : Unfinished(rem)
      BY <3>1
    <3>3. rem.rest \in Seq(Byte)
      BY <1>2, <3>1, LatestFact, RemType
    <3>4. dev'.last = dev.last
          /\ (x.say = <<>> \/ (restarts # 0 /\ x.say = <<Code("FORCE")>>))
      BY <1>1, <2>2, <2>4, <2>8
    <3>5. Way(h, got["peer"], toPeer \o rem.rest, peer.in, Bit(peer.esc), s, restarts)
      BY <3>2 DEF Unfinished
    <3> DEFINE u == rem.rest
    <3>6. u \in Seq(Byte) /\ Way(h, got["peer"], toPeer \o u, peer.in, Bit(peer.esc), s, restarts)
      BY <3>3, <3>5
    <3> HIDE DEF s, u
    <3>7. Way(h, got["peer"], toPeer' \o u, peer.in, Bit(peer.esc), s, restarts)
      <4>1. CASE x.say = <<>>
        <5>1. toPeer' = toPeer
          BY <1>1, <1>2, <4>1
        <5> QED BY <3>6, <5>1
      <4>2. CASE restarts # 0 /\ x.say = <<Code("FORCE")>>
        <5>1. Way(h, got["peer"], Append(toPeer, Code("FORCE")) \o u, peer.in, Bit(peer.esc), s, restarts)
          BY <1>2, <3>6, <4>2, ForceWay
        <5>2. toPeer' = Append(toPeer, Code("FORCE"))
          BY <1>1, <1>2, <4>2, ForceFact, OneTwo
        <5> QED BY <5>1, <5>2
      <4> QED BY <3>4, <4>1, <4>2
    <3>8. Unfinished(rem)'
      BY <1>1, <2>6, <3>2, <3>4, <3>7 DEF Unfinished, s, u
    <3>9. DevWay'
      BY <1>1, <2>8, <3>1, <3>8 DEF DevWay, s
    <3> QED BY <2>5, <3>9
  <2> QED BY <2>7, <2>8
<1> QED BY <1>7, <1>8


LEMMA ConcatHead ==
  ASSUME NEW S, NEW q \in Seq(S), NEW u \in Seq(S), q # <<>>
  PROVE  q \o u \in Seq(S) /\ q \o u # <<>> /\ Head(q \o u) = Head(q) /\ Tail(q \o u) = Tail(q) \o u
<1>1. q \o u \in Seq(S) /\ q \o u # <<>>
  OBVIOUS
<1>2. Head(q \o u) = Head(q)
  OBVIOUS
<1>3. Tail(q \o u) = Tail(q) \o u
  <2> DEFINE a == Tail(q \o u)
             b == Tail(q) \o u
  <2>1. /\ Len(q) \in Nat \ {0} /\ Len(u) \in Nat /\ Len(q \o u) = Len(q) + Len(u)
        /\ Tail(q) \in Seq(S) /\ Len(Tail(q)) = Len(q) - 1
    OBVIOUS
  <2>2. a \in Seq(S) /\ b \in Seq(S) /\ Len(a) = Len(q) + Len(u) - 1 /\ Len(b) = Len(q) + Len(u) - 1
    BY <1>1, <2>1, HeadTailProperties
  <2>3. \A i \in 1 .. Len(a) : a[i] = b[i]
    OBVIOUS
  <2> QED BY <2>2, <2>3, SeqEqual
<1> QED BY <1>1, <1>2, <1>3

\* The other end reads a byte.
LEMMA PeerReceiveInv ==
  ASSUME MuxInv, PeerReceive
  PROVE  Limits' /\ (~upset' => DevWay' /\ PeerWay')
<1> DEFINE b == Head(toPeer)
           x == Handle(peer, b)
           f == Append(got["peer"][peer.in], x.data[1])
<1>1. /\ toPeer # <<>> /\ toPeer' = Tail(toPeer) /\ peer' = x.end /\ toDev' = toDev \o x.say
      /\ UNCHANGED <<dev, sending, sent, restarts>>
      /\ upset' = (upset \/ Upsets(peer, b, FALSE))
      /\ got' = IF x.data = <<>> THEN got ELSE [got EXCEPT !["peer"][peer.in] = Append(@, x.data[1])]
  BY DEF PeerReceive
<1>2. /\ peer \in End /\ toDev \in Seq(Byte) /\ toPeer \in Seq(Byte) /\ peer.esc \in BOOLEAN
      /\ sent.dev \in Seq(Message) /\ Len(sent.dev) <= MaxSent
      /\ sent.peer \in Seq(Message) /\ Len(sent.peer) <= MaxSent
      /\ got \in [{"dev", "peer"} -> Got] /\ sending \in Seq(SendOp)
  BY SentFact DEF MuxInv, Line, Limits, End
<1>3. b \in Byte
  BY <1>1, <1>2, HeadTailProperties
<1>4. x.data = <<>> \/ (x.data[1] \in Byte /\ peer.in \in Services)
  BY <1>2, <1>3, HandleFact
<1>5. x.end.last \in {peer.last, <<>>}
  BY <1>2, HandleLast
<1> HIDE DEF b, x
<1>6. /\ got' \in [{"dev", "peer"} -> Got] /\ got'["dev"] = got["dev"]
      /\ x.data = <<>> => got' = got
      /\ x.data # <<>> => got'["peer"] = [got["peer"] EXCEPT ![peer.in] = Append(@, x.data[1])]
  <2>1. CASE x.data = <<>>
    BY <1>1, <1>2, <2>1
  <2>2. CASE x.data # <<>>
    BY <1>1, <1>2, <1>4, <2>2, GotFact
  <2> QED BY <2>1, <2>2
<1>7. Limits'
  <2>1. Len(peer'.last) <= 2
    <3>1. Len(<<>>) <= 2
      OBVIOUS
    <3> QED BY <1>1, <1>5, <3>1 DEF MuxInv, Limits
  <2> QED BY <1>1, <1>6, <2>1 DEF MuxInv, Limits
<1>8. ASSUME ~upset' PROVE DevWay' /\ PeerWay'
  <2>1. DevWay /\ PeerWay /\ ~(IsCode(b, "FORCE") /\ peer.last = <<>>)
    BY <1>1, <1>8 DEF MuxInv, Upsets
  <2>2. ASSUME NEW u \in Seq(Byte), NEW o,
               Way(sent.dev, got["peer"], toPeer \o u, peer.in, Bit(peer.esc), o, restarts)
        PROVE  /\ Way(sent.dev, got'["peer"], toPeer' \o u, peer'.in, Bit(peer'.esc), o, restarts)
               /\ x.end.out = peer.out
               /\ \/ x.say = <<>> /\ x.end.last = peer.last
                  \/ restarts # 0 /\ x.say = <<Code("FORCE")>> /\ x.end.last = peer.last
                  \/ restarts # 0 /\ peer.last # <<>> /\ x.end.last = <<>>
                     /\ x.say = <<IdByte(peer.out)>> \o peer.last
    <3> DEFINE h == sent.dev
               g == got["peer"]
               r == restarts
               q == toPeer \o u
    <3>1. q \in Seq(Byte) /\ q # <<>> /\ Head(q) = b /\ Tail(q) = toPeer' \o u
      BY <1>1, <1>2, ConcatHead DEF b
    <3>2. h \in Seq(Message) /\ g \in Got /\ Way(h, g, q, peer.in, Bit(peer.esc), o, r)
      BY <1>2, <2>2
    <3> HIDE DEF h, g, r, q
    <3>3. Reads(h, g, q, peer, o, r)
      BY <1>2, <2>1, <3>1, <3>2, TakeWay
    <3>4. /\ \/ x.data = <<>> /\ Way(h, g, Tail(q), x.end.in, Bit(x.end.esc), o, r)
             \/ /\ x.data # <<>>
                /\ Way(h, [g EXCEPT ![peer.in] = Append(@, x.data[1])], Tail(q), x.end.in, Bit(x.end.esc), o, r)
          /\ x.end.out = peer.out
          /\ \/ x.say = <<>> /\ x.end.last = peer.last
             \/ r # 0 /\ x.say = <<Code("FORCE")>> /\ x.end.last = peer.last
             \/ r # 0 /\ peer.last # <<>> /\ x.end.last = <<>>
                /\ x.say = <<IdByte(peer.out)>> \o peer.last
      BY <3>1, <3>3 DEF Reads, x
    <3>5. Way(h, got'["peer"], toPeer' \o u, peer'.in, Bit(peer'.esc), o, r)
      <4>1. CASE x.data = <<>>
        BY <1>1, <1>6, <3>1, <3>4, <4>1 DEF g
      <4>2. CASE x.data # <<>>
        BY <1>1, <1>6, <3>1, <3>4, <4>2 DEF g
      <4> QED BY <4>1, <4>2
    <3> QED BY <3>4, <3>5 DEF h, r
  <2>3. ASSUME /\ x.end.out = peer.out
               /\ \/ x.say = <<>> /\ x.end.last = peer.last
                  \/ restarts # 0 /\ x.say = <<Code("FORCE")>> /\ x.end.last = peer.last
                  \/ restarts # 0 /\ peer.last # <<>> /\ x.end.last = <<>>
                     /\ x.say = <<IdByte(peer.out)>> \o peer.last
        PROVE  PeerWay'
    <3> DEFINE h == sent.peer
               g == got["dev"]
    <3>1. /\ Kept(peer, h) /\ Way(h, g, toDev, dev.in, Bit(dev.esc), peer.out, restarts)
          /\ h \in Seq(Message) /\ Len(h) <= MaxSent
      BY <1>2, <2>1 DEF PeerWay
    <3> HIDE DEF h, g
    <3>2. Kept(x.end, h) /\ Way(h, g, toDev \o x.say, dev.in, Bit(dev.esc), x.end.out, restarts)
      BY <1>2, <2>3, <3>1, AnswerWay
    <3> QED BY <1>1, <1>6, <3>2 DEF PeerWay, h, g
  <2>4. CASE sending = <<>>
    <3>1. Kept(dev, sent.dev) /\ Way(sent.dev, got["peer"], toPeer, peer.in, Bit(peer.esc), dev.out, restarts)
      BY <2>1, <2>4 DEF DevWay
    <3>2. <<>> \in Seq(Byte) /\ toPeer \o <<>> = toPeer /\ toPeer' \o <<>> = toPeer'
      <4>1. toPeer' \in Seq(Byte)
        BY <1>1, <1>2, HeadTailProperties
      <4> QED BY <1>2, <4>1
    <3>3. Way(sent.dev, got["peer"], toPeer \o <<>>, peer.in, Bit(peer.esc), dev.out, restarts)
      BY <3>1, <3>2
    <3>4. Way(sent.dev, got'["peer"], toPeer', peer'.in, Bit(peer'.esc), dev.out, restarts) /\ PeerWay'
      BY <2>2, <2>3, <3>2, <3>3
    <3> QED BY <1>1, <2>4, <3>1, <3>4 DEF DevWay
  <2>5. CASE sending # <<>>
    <3> DEFINE h == sent.dev
               n == Len(h)
               s == h[n].to
               c == Char(h, n)
    <3>1. n > 0 /\ \E rem \in Remaining(s, c) : Unfinished(rem)
      BY <2>1, <2>5 DEF DevWay
    <3>2. PICK rem \in Remaining(s, c) : Unfinished(rem)
      BY <3>1
    <3>3. rem.rest \in Seq(Byte)
      BY <1>2, <3>1, LatestFact, RemType
    <3>4. Way(h, got["peer"], toPeer \o rem.rest, peer.in, Bit(peer.esc), s, restarts)
      BY <3>2 DEF Unfinished
    <3> DEFINE u == rem.rest
    <3>5. u \in Seq(Byte) /\ Way(h, got["peer"], toPeer \o u, peer.in, Bit(peer.esc), s, restarts)
      BY <3>3, <3>4
    <3> HIDE DEF s, u
    <3>6. Way(h, got'["peer"], toPeer' \o u, peer'.in, Bit(peer'.esc), s, restarts) /\ PeerWay'
      BY <2>2, <2>3, <3>5
    <3>7. Unfinished(rem)'
      BY <1>1, <3>2, <3>6 DEF Unfinished, s, u
    <3>8. DevWay'
      BY <1>1, <2>5, <3>1, <3>7 DEF DevWay, s
    <3> QED BY <3>6, <3>8
  <2> QED BY <2>4, <2>5
<1> QED BY <1>7, <1>8

\* Nothing is kept after a restart.
LEMMA FreshKept == \A h : Kept(Fresh, h) /\ Len(Fresh.last) <= 2 /\ Bit(Fresh.esc) = 0
                          /\ Fresh.in = None /\ Fresh.out = None
<1>1. Fresh.last = <<>> /\ Fresh.in = None /\ Fresh.out = None /\ Fresh.esc = FALSE /\ Len(<<>>) = 0
  BY DEF Fresh
<1> QED BY <1>1 DEF Kept, Bit

LEMMA EmptyGot ==
  ASSUME NEW g \in [{"dev", "peer"} -> Got], NEW who \in {"dev", "peer"}
  PROVE  LET f == [g EXCEPT ![who] = [s \in Services |-> <<>>]]
         IN  /\ f \in [{"dev", "peer"} -> Got] /\ f[who] = [s \in Services |-> <<>>]
             /\ \A o \in {"dev", "peer"} : o # who => f[o] = g[o]
<1> DEFINE e == [s \in Services |-> <<>>]
<1>1. e \in Got
  BY DEF Got
<1> HIDE DEF e
<1>2. LET f == [g EXCEPT ![who] = e]
      IN  f \in [{"dev", "peer"} -> Got] /\ f[who] = e /\ \A o \in {"dev", "peer"} : o # who => f[o] = g[o]
  BY <1>1
<1> QED BY <1>2 DEF e

\* The device restarts.
LEMMA DevRestartInv ==
  ASSUME MuxInv, DevRestart
  PROVE  Limits' /\ (~upset' => DevWay' /\ PeerWay')
<1>1. /\ restarts < MaxRestarts /\ restarts' = restarts + 1 /\ dev' = Fresh /\ sending' = <<>>
      /\ got' = [got EXCEPT !["dev"] = [s \in Services |-> <<>>]]
      /\ upset' = (upset \/ sending # <<>>) /\ UNCHANGED <<peer, toDev, toPeer, sent>>
  BY DEF DevRestart
<1>2. /\ got' \in [{"dev", "peer"} -> Got] /\ got'["dev"] = [s \in Services |-> <<>>]
      /\ got'["peer"] = got["peer"]
  <2>1. got \in [{"dev", "peer"} -> Got]
    BY DEF MuxInv, Limits
  <2> QED BY <1>1, <2>1, EmptyGot
<1>3. restarts' \in 0 .. MaxRestarts /\ restarts' \in Nat \ {0}
  <2>1. restarts \in 0 .. MaxRestarts
    BY DEF MuxInv, Limits
  <2> QED BY <1>1, <2>1, UartMuxAssumption
<1>4. Limits'
  <2>1. Short(6, sending')
    BY <1>1 DEF Short
  <2> QED BY <1>1, <1>2, <1>3, <2>1, FreshKept DEF MuxInv, Limits
<1>5. ASSUME ~upset' PROVE DevWay' /\ PeerWay'
  <2>1. DevWay /\ PeerWay /\ sending = <<>>
    BY <1>1, <1>5 DEF MuxInv
  <2> DEFINE q == toPeer
             p == toDev
             n == restarts'
             h == sent.dev
             k == sent.peer
             g == got["peer"]
             i == got["dev"]
  <2>2. q \in Seq(Byte) /\ p \in Seq(Byte) /\ n \in Nat \ {0}
    BY <1>3 DEF MuxInv, Line
  <2>3. Way(h, g, q, peer.in, Bit(peer.esc), dev.out, restarts)
    BY <2>1 DEF DevWay
  <2>4. Way(k, i, p, dev.in, Bit(dev.esc), peer.out, restarts) /\ Kept(peer, k)
    BY <2>1 DEF PeerWay
  <2> HIDE DEF q, p, n, h, k, g, i
  <2>5. Way(h, g, q, peer.in, Bit(peer.esc), None, n)
    BY <2>2, <2>3, DumbWay
  <2>6. Way(k, [s \in Services |-> <<>>], p, None, 0, peer.out, n)
    BY <2>2, <2>4, DeafWay
  <2>7. DevWay'
    BY <1>1, <1>2, <2>5, FreshKept DEF DevWay, q, n, h, g
  <2>8. PeerWay'
    BY <1>1, <1>2, <2>4, <2>6, FreshKept DEF PeerWay, p, n, k
  <2> QED BY <2>7, <2>8
<1> QED BY <1>4, <1>5

\* The other end restarts.
LEMMA PeerRestartInv ==
  ASSUME MuxInv, PeerRestart
  PROVE  Limits' /\ (~upset' => DevWay' /\ PeerWay')
<1>1. /\ restarts < MaxRestarts /\ restarts' = restarts + 1 /\ peer' = Fresh
      /\ got' = [got EXCEPT !["peer"] = [s \in Services |-> <<>>]]
      /\ UNCHANGED <<dev, toDev, toPeer, sending, sent, upset>>
  BY DEF PeerRestart
<1>2. /\ got' \in [{"dev", "peer"} -> Got] /\ got'["peer"] = [s \in Services |-> <<>>]
      /\ got'["dev"] = got["dev"]
  <2>1. got \in [{"dev", "peer"} -> Got]
    BY DEF MuxInv, Limits
  <2> QED BY <1>1, <2>1, EmptyGot
<1>3. restarts' \in 0 .. MaxRestarts /\ restarts' \in Nat \ {0}
  <2>1. restarts \in 0 .. MaxRestarts
    BY DEF MuxInv, Limits
  <2> QED BY <1>1, <2>1, UartMuxAssumption
<1>4. Limits'
  BY <1>1, <1>2, <1>3, FreshKept DEF MuxInv, Limits
<1>5. ASSUME ~upset' PROVE DevWay' /\ PeerWay'
  <2>1. DevWay /\ PeerWay
    BY <1>1, <1>5 DEF MuxInv
  <2> DEFINE p == toDev
             n == restarts'
             h == sent.dev
             k == sent.peer
             g == got["peer"]
             i == got["dev"]
  <2>2. /\ toPeer \in Seq(Byte) /\ p \in Seq(Byte) /\ n \in Nat \ {0}
        /\ h \in Seq(Message) /\ Len(h) <= MaxSent
    BY <1>3, SentFact DEF MuxInv, Line
  <2>3. Way(k, i, p, dev.in, Bit(dev.esc), peer.out, restarts)
    BY <2>1 DEF PeerWay
  <2>4. ASSUME NEW q \in Seq(Byte), NEW o, Way(h, g, q, peer.in, Bit(peer.esc), o, restarts)
        PROVE  Way(h, got'["peer"], q, peer'.in, Bit(peer'.esc), o, n)
    <3> HIDE DEF p, n, h, k, g, i
    <3>1. Way(h, [s \in Services |-> <<>>], q, None, 0, o, n)
      BY <2>2, <2>4, DeafWay
    <3> QED BY <1>1, <1>2, <3>1, FreshKept
  <2> HIDE DEF p, n, k, i
  <2>5. Way(k, i, p, dev.in, Bit(dev.esc), None, n)
    BY <2>2, <2>3, DumbWay
  <2>6. PeerWay'
    BY <1>1, <1>2, <2>5, FreshKept DEF PeerWay, p, n, k, i
  <2>7. CASE sending = <<>>
    <3>1. Kept(dev, h) /\ Way(h, g, toPeer, peer.in, Bit(peer.esc), dev.out, restarts)
      BY <2>1, <2>7 DEF DevWay
    <3>2. Way(h, got'["peer"], toPeer, peer'.in, Bit(peer'.esc), dev.out, n)
      BY <2>2, <2>4, <3>1
    <3> QED BY <1>1, <2>6, <2>7, <3>1, <3>2 DEF DevWay, n
  <2>8. CASE sending # <<>>
    <3> DEFINE m == Len(h)
               s == h[m].to
               c == Char(h, m)
    <3>1. m > 0 /\ \E rem \in Remaining(s, c) : Unfinished(rem)
      BY <2>1, <2>8 DEF DevWay
    <3>2. PICK rem \in Remaining(s, c) : Unfinished(rem)
      BY <3>1
    <3>3. rem.rest \in Seq(Byte)
      BY <2>2, <3>1, LatestFact, RemType
    <3>4. Way(h, g, toPeer \o rem.rest, peer.in, Bit(peer.esc), s, restarts)
      BY <3>2 DEF Unfinished
    <3> DEFINE u == toPeer \o rem.rest
    <3>5. u \in Seq(Byte)
      BY <2>2, <3>3, ConcatProperties
    <3> HIDE DEF s, u
    <3>6. Way(h, got'["peer"], u, peer'.in, Bit(peer'.esc), s, n)
      BY <2>4, <3>4, <3>5 DEF u
    <3>7. Unfinished(rem)'
      BY <1>1, <3>2, <3>6 DEF Unfinished, s, u, n
    <3>8. DevWay'
      BY <1>1, <2>8, <3>1, <3>7 DEF DevWay, s
    <3> QED BY <2>6, <3>8
  <2> QED BY <2>7, <2>8
<1> QED BY <1>4, <1>5


\* The main program's reads and the buffers change nothing of it.
LEMMA SameMux ==
  ASSUME MuxInv, UNCHANGED muxVars
  PROVE  Limits' /\ (~upset' => DevWay' /\ PeerWay')
<1>1. UNCHANGED <<dev, peer, toDev, toPeer, sending, sent, got, upset, restarts>>
  BY DEF muxVars
<1>2. Limits'
  BY <1>1 DEF MuxInv, Limits
<1>3. \A rem : Unfinished(rem) => Unfinished(rem)'
  BY <1>1 DEF Unfinished
<1>4. DevWay => DevWay'
  BY <1>1, <1>3 DEF DevWay
<1>5. PeerWay => PeerWay'
  BY <1>1 DEF PeerWay
<1> QED BY <1>1, <1>2, <1>4, <1>5 DEF MuxInv

LEMMA MuxStep == ASSUME MuxInv, [Next]_vars PROVE MuxInv'
<1>1. Line'
  BY LineStep DEF MuxInv
<1>2. CASE UNCHANGED muxVars
  BY <1>1, <1>2, SameMux DEF MuxInv
<1>3. CASE DevReceive
  BY <1>1, <1>3, DevReceiveInv DEF MuxInv
<1>4. CASE PeerReceive
  BY <1>1, <1>4, PeerReceiveInv DEF MuxInv
<1>5. ASSUME NEW s \in Services, NEW kind \in Kinds, DevSend(s, kind) PROVE MuxInv'
  BY <1>1, <1>5, DevSendInv
<1>6. ASSUME NEW s \in Services, NEW kind \in Kinds, PeerSend(s, kind) PROVE MuxInv'
  BY <1>1, <1>6, PeerSendInv
<1>7. CASE SendStep
  <2>1. upset' = upset
    BY <1>7 DEF SendStep
  <2> QED BY <1>1, <1>7, <2>1, SendStepInv DEF MuxInv
<1>8. CASE DevRestart
  BY <1>1, <1>8, DevRestartInv DEF MuxInv
<1>9. CASE PeerRestart
  BY <1>1, <1>9, PeerRestartInv DEF MuxInv
<1>10. Buffers \/ UNCHANGED vars => UNCHANGED muxVars
  BY DEF Buffers, vars
<1> QED BY <1>2, <1>3, <1>4, <1>5, <1>6, <1>7, <1>8, <1>9, <1>10 DEF Next

\* What Delivered says of one service.
LEMMA DeliveredTo ==
  ASSUME NEW h \in Seq(Message), NEW g \in Got, NEW q \in Seq(Byte), NEW r, Delivered(h, g, q, r),
         NEW s \in Services
  PROVE  LET seq == g[s]
         IN  /\ \A k \in DOMAIN seq : /\ ~seq[k].x /\ seq[k].n \in DOMAIN h
                                      /\ h[seq[k].n] = [to |-> s, c |-> seq[k].c]
             /\ \A k \in 1 .. Len(seq) - 1 : seq[k].n <= seq[k + 1].n
             /\ r = 0 =>
                  /\ \A k \in 1 .. Len(seq) - 1 : seq[k].n # seq[k + 1].n
                  /\ q = <<>> => {seq[k].n : k \in DOMAIN seq} = {n \in DOMAIN h : h[n].to = s}
<1> DEFINE seq == g[s]
<1>1. seq \in Seq(Byte) /\ DOMAIN seq = 1 .. Len(seq) /\ Len(seq) \in Nat
  BY DEF Got
<1>2. DOMAIN h = 1 .. Len(h) /\ \A n \in DOMAIN h : h[n] \in Message
  BY ElementOfSeq
<1>3. \A k \in 1 .. Len(seq) : seq[k].n \in DOMAIN h /\ seq[k] = Char(h, seq[k].n) /\ h[seq[k].n].to = s
  BY <1>1 DEF Delivered
<1>4. \A k \in 1 .. Len(seq) - 1 : Upto(seq[k].n, seq[k + 1].n, r)
  <2> SUFFICES ASSUME NEW k \in 1 .. Len(seq) - 1 PROVE Upto(seq[k].n, seq[k + 1].n, r)
    OBVIOUS
  <2>1. k \in Nat /\ k + 1 \in Nat /\ k \in 1 .. Len(seq) /\ k + 1 \in 1 .. Len(seq) /\ k < k + 1
    BY <1>1
  <2> QED BY <2>1 DEF Delivered
<1>5. ASSUME r = 0, q = <<>>
      PROVE {seq[k].n : k \in DOMAIN seq} = {n \in DOMAIN h : h[n].to = s}
  <2>1. ASSUME NEW n \in DOMAIN h, h[n].to = s PROVE \E k \in 1 .. Len(seq) : seq[k].n = n
    <3>1. 1 .. Len(q) = {}
      BY <1>5
    <3> QED BY <1>5, <2>1, <3>1 DEF Delivered
  <2> HIDE DEF seq
  <2>2. {seq[k].n : k \in DOMAIN seq} \subseteq {n \in DOMAIN h : h[n].to = s}
    BY <1>1, <1>3
  <2>3. {n \in DOMAIN h : h[n].to = s} \subseteq {seq[k].n : k \in DOMAIN seq}
    BY <1>1, <2>1
  <2> QED BY <2>2, <2>3
<1>6. ASSUME NEW k \in DOMAIN seq
      PROVE  ~seq[k].x /\ h[seq[k].n] = [to |-> s, c |-> seq[k].c]
  <2> DEFINE n == seq[k].n
             m == h[n]
  <2>1. n \in DOMAIN h /\ seq[k] = [c |-> m.c, n |-> n, x |-> FALSE] /\ m.to = s
    BY <1>1, <1>3, <1>6 DEF Char
  <2>2. m \in Message
    BY <1>2, <2>1
  <2> HIDE DEF n, m
  <2>3. m = [to |-> s, c |-> m.c] /\ seq[k].c = m.c /\ seq[k].x = FALSE
    BY <2>1, <2>2 DEF Message
  <2> QED BY <2>3 DEF m, n
<1> HIDE DEF seq
<1>7. /\ \A k \in DOMAIN seq : /\ ~seq[k].x /\ seq[k].n \in DOMAIN h
                               /\ h[seq[k].n] = [to |-> s, c |-> seq[k].c]
      /\ \A k \in 1 .. Len(seq) - 1 : seq[k].n <= seq[k + 1].n
      /\ r = 0 =>
           /\ \A k \in 1 .. Len(seq) - 1 : seq[k].n # seq[k + 1].n
           /\ q = <<>> => {seq[k].n : k \in DOMAIN seq} = {n \in DOMAIN h : h[n].to = s}
  BY <1>1, <1>3, <1>4, <1>5, <1>6 DEF Upto
<1> QED BY <1>7 DEF seq

LEMMA MuxInvSound == MuxInv => MuxSound
<1> SUFFICES ASSUME MuxInv PROVE TypeOK /\ Demultiplexed
  BY DEF MuxSound
<1>1. TypeOK
  BY DEF MuxInv, Line, Limits, TypeOK, End, Short
<1>2. ASSUME ~upset, NEW who \in {"dev", "peer"}, NEW s \in Services
      PROVE  LET seq == got[who][s]
             IN /\ \A k \in DOMAIN seq : Genuine(who, s, seq[k])
                /\ \A k \in 1 .. Len(seq) - 1 : seq[k].n <= seq[k + 1].n
                /\ restarts = 0 =>
                     /\ \A k \in 1 .. Len(seq) - 1 : seq[k].n # seq[k + 1].n
                     /\ Quiet => {seq[k].n : k \in DOMAIN seq} = SentTo(who, s)
  <2> DEFINE h == sent[Sender[who]]
             g == got[who]
             q == IF who = "dev" THEN toDev ELSE toPeer
  <2>1. h \in Seq(Message) /\ g \in Got /\ (Quiet => q = <<>>)
    BY DEF MuxInv, Line, Limits, Quiet, Sender
  <2>2. PICK z \in Seq(Byte) : Delivered(h, g, z, restarts) /\ (Quiet => z = <<>>)
    <3>1. CASE who = "dev"
      BY <1>2, <3>1 DEF MuxInv, Line, PeerWay, Way, Sender, Quiet
    <3>2. CASE who = "peer" /\ sending = <<>>
      BY <1>2, <3>2 DEF MuxInv, Line, DevWay, Way, Sender, Quiet
    <3>3. CASE who = "peer" /\ sending # <<>>
      <4> DEFINE f == sent.dev
                 n == Len(f)
      <4>0. f \in Seq(Message) /\ n <= MaxSent /\ toPeer \in Seq(Byte)
        BY SentFact DEF MuxInv, Line
      <4>1. n > 0 /\ \E rem \in Remaining(f[n].to, Char(f, n)) : Unfinished(rem)
        BY <1>2, <3>3 DEF MuxInv, DevWay
      <4>2. PICK rem \in Remaining(f[n].to, Char(f, n)) : Unfinished(rem)
        BY <4>1
      <4>3. rem.rest \in Seq(Byte)
        BY <4>0, <4>1, LatestFact, RemType
      <4> DEFINE y == toPeer \o rem.rest
      <4>4. y \in Seq(Byte) /\ Delivered(f, got["peer"], y, restarts)
        BY <4>0, <4>2, <4>3, ConcatProperties DEF Unfinished, Way
      <4> HIDE DEF y
      <4> QED BY <3>3, <4>4 DEF Sender, Quiet
    <3> QED BY <3>1, <3>2, <3>3
  <2> HIDE DEF h, g
  <2> DEFINE seq == g[s]
  <2>3. /\ \A k \in DOMAIN seq : /\ ~seq[k].x /\ seq[k].n \in DOMAIN h
                                 /\ h[seq[k].n] = [to |-> s, c |-> seq[k].c]
        /\ \A k \in 1 .. Len(seq) - 1 : seq[k].n <= seq[k + 1].n
        /\ restarts = 0 =>
             /\ \A k \in 1 .. Len(seq) - 1 : seq[k].n # seq[k + 1].n
             /\ z = <<>> => {seq[k].n : k \in DOMAIN seq} = {n \in DOMAIN h : h[n].to = s}
    BY <2>1, <2>2, DeliveredTo
  <2> HIDE DEF seq
  <2>4. SentTo(who, s) = {n \in DOMAIN h : h[n].to = s} /\ \A v : Genuine(who, s, v) <=>
          ~v.x /\ v.n \in DOMAIN h /\ h[v.n] = [to |-> s, c |-> v.c]
    BY DEF SentTo, Genuine, h
  <2>5. /\ \A k \in DOMAIN seq : Genuine(who, s, seq[k])
        /\ \A k \in 1 .. Len(seq) - 1 : seq[k].n <= seq[k + 1].n
        /\ restarts = 0 =>
             /\ \A k \in 1 .. Len(seq) - 1 : seq[k].n # seq[k + 1].n
             /\ Quiet => {seq[k].n : k \in DOMAIN seq} = SentTo(who, s)
    BY <2>2, <2>3, <2>4
  <2> QED BY <2>5 DEF seq, g
<1> QED BY <1>1, <1>2 DEF Demultiplexed

\* Characters arrive at the service they were sent to, unaltered and in order, for
\* any number of services, any characters and any interleaving of the send, of the
\* interrupt that answers a request and of restarts of both ends.
THEOREM MuxIsSound == Spec => []MuxSound
<1>1. Init => MuxInv
  BY MuxInit
<1>2. MuxInv /\ [Next]_vars => MuxInv'
  BY MuxStep
<1>3. MuxInv => MuxSound
  BY MuxInvSound
<1> QED BY <1>1, <1>2, <1>3, PTL DEF Spec
=============================================================================

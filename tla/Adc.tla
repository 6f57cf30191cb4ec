-------------------------------- MODULE Adc --------------------------------
(***************************************************************************)
(* Sampling with the A/D converter: src/elua_adc.c, the ADC part of        *)
(* src/platform/avr32/platform.c and src/modules/adc.c, over the buffers   *)
(* of src/buf.c (BufOps).                                                  *)
(*                                                                         *)
(* A program asks for a number of samples on some channels (adc.sample);   *)
(* the interrupt handler stores them until each channel has its number;    *)
(* the program takes them out (adc.getsample, adc.getsamples), possibly    *)
(* while more arrive.  The handler is one step.  A call of the program is  *)
(* a list of steps, `todo', between any two of which the handler may run:  *)
(* the one-bit fields of a channel share a byte, so setting one is a load  *)
(* and a store, and so is setting a bit of ch_active.                      *)
(***************************************************************************)
EXTENDS Sequences, FiniteSets, BufOps, Functions

CONSTANTS
  Channels,
  Counts,       \* numbers of samples asked for, powers of two
  Lengths,      \* smoothing lengths, powers of two; 1 is no smoothing
  MaxRequests,  \* bound: number of calls of adc.sample
  MaxSamples,   \* bound: number of conversions
  Liberties     \* what the program does that a cautious one would not:
                \* "resample"   asks again before it has what it asked for
                \* "read"       takes samples out while more are awaited
                \* "configure"  changes settings meanwhile
                \* "overlap"    asks for a channel, or changes its settings,
                \*              while another one is sampled

ASSUME AdcAssumption ==
  /\ MaxSize >= 2   \* ADC_BUF_SIZE
  /\ IsFiniteSet(Channels) /\ Channels \subseteq Nat
  /\ Counts \subseteq 1 .. MaxSize /\ Lengths \subseteq 1 .. MaxSize /\ 1 \in Lengths
  /\ MaxRequests \in Nat /\ MaxSamples \in Nat
  /\ NoData = 0   \* a number no conversion has
  /\ Liberties \subseteq {"resample", "read", "configure", "overlap"}

VARIABLES
  ch,       \* adc_ch_state and the buffer of each channel
  dev,      \* adc_dev_state and the converter: which channels it has enabled
            \* (on) and which of them are being converted (busy)
  todo,     \* the steps left of the call in progress, <<>> outside calls
  word,     \* the register a byte of bits, or ch_active, was loaded into
  sample,   \* the sample picked by adc_get_processed_sample
  got,      \* history: the last sample the program took from each channel
  asked,    \* number of calls of adc.sample
  made,     \* number of conversions; a conversion yields its number
  early,    \* history: channels samples were taken from while more were awaited
  overtook  \* history: channels a fresh sample was taken from before older ones

vars == <<ch, dev, todo, word, sample, got, asked, made, early, overtook>>

Bits == {"pending", "blocking", "ready", "fresh"}

\* adc_init_ch_state, adc_init_dev_state; ADC_BUF_SIZE is 1, for two elements.
Init ==
  /\ ch = [c \in Channels |->
             [bits |-> {"blocking"}, req |-> 0, value |-> NoData, len |-> 1, idx |-> 0,
              ring |-> <<>>, buf |-> [NoBuffer EXCEPT !.size = 2, !.room = 2]]]
  /\ dev = [active |-> {}, last |-> {}, seq |-> {}, running |-> FALSE, on |-> {}, busy |-> {}]
  /\ todo = <<>> /\ word = {} /\ sample = NoData
  /\ got = [c \in Channels |-> NoData]
  /\ asked = 0 /\ made = 0
  /\ early = {} /\ overtook = {}

-----------------------------------------------------------------------------
(* Helpers on the state of a channel.                                      *)

Available(s) ==
  IF s.buf.count = 0 THEN (IF "fresh" \in s.bits THEN 1 ELSE 0) ELSE s.buf.count

\* adc_smooth_data: the ring of the last len samples, its sum left implicit.
\* smooth_ready is set one sample after the ring is full, when idx wraps.
SmoothData(s, v) ==
  LET wraps == s.idx = s.len
      i == IF wraps THEN 1 ELSE s.idx + 1
  IN [s EXCEPT !.idx = i, !.ring = [@ EXCEPT ![i] = v],
               !.bits = IF wraps THEN @ \union {"ready"} ELSE @]

Warming(s) == s.len > 1 /\ "ready" \notin s.bits

Stored(s, v) ==
  IF Warming(s) THEN SmoothData([s EXCEPT !.bits = @ \ {"fresh"}], v)
  ELSE IF s.req > 1 THEN [s EXCEPT !.buf = BufWrite(@, v), !.bits = @ \ {"fresh"}]
  ELSE [s EXCEPT !.bits = @ \union {"fresh"}]

\* Slip: sampling stops one sample late.
HasEnoughLate(s) == Available(s) > s.req

HasEnough(s) == Available(s) >= s.req

\* adc_update_dev_sequence and platform_adc_update_sequence: the converter is
\* reset and given the active channels, whose fresh values are void.
Resequences(d) == d.active # d.last
Resequenced(d) ==
  IF Resequences(d)
  THEN [d EXCEPT !.seq = d.active, !.on = d.active, !.last = d.active, !.busy = {}]
  ELSE d
Voided(d, states) ==
  [c \in Channels |-> IF Resequences(d) /\ c \in d.active
                      THEN [states[c] EXCEPT !.bits = @ \ {"fresh"}] ELSE states[c]]

Started(d) == [d EXCEPT !.busy = d.on]

-----------------------------------------------------------------------------
(* The end-of-conversion interrupt, for the channels `eoc'.                *)

AdcIntHandler(eoc) ==
  /\ eoc # {} /\ eoc \subseteq dev.busy \intersect dev.seq
  /\ made + Cardinality(eoc) <= MaxSamples
  /\ LET Number(c) == made + Cardinality({k \in eoc : k <= c})
         fed == [c \in Channels |->
                   IF c \in eoc THEN [Stored(ch[c], Number(c)) EXCEPT !.value = Number(c)]
                                ELSE ch[c]]
         full == {c \in eoc : HasEnough(fed[c])}
         left == dev.active \ full
         d == [dev EXCEPT !.active = left, !.on = @ \ full, !.busy = @ \ eoc,
                          !.running = @ /\ (full = {} \/ left # {})]
     IN /\ ch' = Voided(d, [c \in Channels |->
                  IF c \in full THEN [fed[c] EXCEPT !.bits = @ \ {"pending"}] ELSE fed[c]])
        /\ dev' = IF d.running THEN Started(Resequenced(d)) ELSE Resequenced(d)
  /\ made' = made + Cardinality(eoc)
  /\ UNCHANGED <<todo, word, sample, got, asked, early, overtook>>

-----------------------------------------------------------------------------
(* The calls, as lists of steps.                                           *)

Do(op, c) == <<[op |-> op, ch |-> c]>>
DoN(op, c, n) == <<[op |-> op, ch |-> c, n |-> n]>>
SetBit(c, bit, on) == Do("loadBits", c) \o <<[op |-> "storeBits", ch |-> c, bit |-> bit, on |-> on]>>
SetActive(c, on) == Do("loadActive", c) \o <<[op |-> "storeActive", ch |-> c, on |-> on]>>

BufFlush(c) == Do("count0", c) \o Do("wptr0", c) \o Do("rptr0", c)
BufSet(c, n) == DoN("size", c, n) \o DoN("realloc", c, n)

SetupChannel(c, n) == DoN("request", c, n) \o SetBit(c, "pending", TRUE) \o SetActive(c, TRUE)

StartSequence == <<[op |-> "start"]>>

PlatformAdcStop(c) ==
  SetBit(c, "pending", FALSE) \o SetActive(c, FALSE) \o Do("disable", c) \o Do("idle", c)

\* Slip: the count goes down before the element is copied.
BufReadCountsFirst(c) == Do("decrement", c) \o Do("copy", c) \o Do("advance", c)

BufRead(c) == Do("copy", c) \o Do("decrement", c) \o Do("advance", c)

Finish(c) == Do("countDown", c) \o Do("return", c)

\* What is left after adc_get_processed_sample has chosen where to read.
TakeFresh(c) == Do("copyFresh", c) \o SetBit(c, "fresh", FALSE)

Call(steps) == todo = <<>> /\ todo' = steps /\ UNCHANGED <<ch, dev, word, sample, got, made, overtook>>

Awaited(c) == "pending" \in ch[c].bits
Drained(c) == Available(ch[c]) = 0

\* The channels of adc.sample: one, or a table of them.
Lists == {<<c>> : c \in Channels} \union {<<p[1], p[2]>> : p \in {q \in Channels \X Channels : q[1] # q[2]}}

Undisturbed(cs) == "overlap" \in Liberties \/ \A c \in Channels \ cs : ~Awaited(c)

AdcSample(list, n) ==
  /\ asked < MaxRequests /\ asked' = asked + 1
  /\ Undisturbed(Range(list))
  /\ "resample" \in Liberties \/ \A c \in Range(list) : ~Awaited(c) /\ Drained(c)
  /\ Call([k \in DOMAIN list |-> [op |-> "setup", ch |-> list[k], n |-> n]] \o StartSequence)
  /\ UNCHANGED early

\* More samples are awaited, and the call does not wait for all of them.
Hasty(c, n) == Awaited(c) /\ ~("blocking" \in ch[c].bits /\ n = ch[c].req)

\* adc.getsample is adc.getsamples for one.
AdcGetSamples(c, n) ==
  /\ Hasty(c, n) => "read" \in Liberties
  /\ early' = early \union {k \in {c} : Hasty(c, n)}
  /\ Call(DoN("wait", c, n)) /\ UNCHANGED asked

MayConfigure(c) ==
  /\ "configure" \in Liberties \/ (~Awaited(c) /\ Drained(c))
  /\ Undisturbed({c})

AdcSetBlocking(c, on) ==
  MayConfigure(c) /\ Call(SetBit(c, "blocking", on)) /\ UNCHANGED <<asked, early>>

AdcSetSmoothing(c, n) ==
  /\ MayConfigure(c)
  /\ Call((IF Awaited(c) THEN PlatformAdcStop(c) ELSE <<>>)
           \o DoN("resmooth", c, n) \o Do("unsmooth", c) \o SetBit(c, "ready", FALSE) \o BufFlush(c))
  /\ UNCHANGED <<asked, early>>

\* adc.setclock with frequency 0, the one this platform accepts.
AdcSetClock(c) == MayConfigure(c) /\ Call(PlatformAdcStop(c)) /\ UNCHANGED <<asked, early>>

-----------------------------------------------------------------------------
(* The steps.                                                              *)

Now == Head(todo)
Doing(op) == todo # <<>> /\ Now.op = op
Mine == ch[Now.ch]
Then(steps) == todo' = steps \o Tail(todo)
Becomes(s) == ch' = [ch EXCEPT ![Now.ch] = s]

history == <<early, overtook>>
kept == <<dev, word, sample, got, asked, made, history>>

LoadBits ==
  /\ Doing("loadBits") /\ Then(<<>>) /\ word' = Mine.bits
  /\ UNCHANGED <<ch, dev, sample, got, asked, made, history>>

StoreBits ==
  /\ Doing("storeBits") /\ Then(<<>>) /\ word' = {}
  /\ Becomes([Mine EXCEPT !.bits = IF Now.on THEN word \union {Now.bit} ELSE word \ {Now.bit}])
  /\ UNCHANGED <<dev, sample, got, asked, made, history>>

LoadActive ==
  /\ Doing("loadActive") /\ Then(<<>>) /\ word' = dev.active
  /\ UNCHANGED <<ch, dev, sample, got, asked, made, history>>

StoreActive ==
  /\ Doing("storeActive") /\ Then(<<>>) /\ word' = {}
  /\ dev' = [dev EXCEPT !.active = IF Now.on THEN word \union {Now.ch} ELSE word \ {Now.ch}]
  /\ UNCHANGED <<ch, sample, got, asked, made, history>>

\* adc_setup_channel: the buffer is made as large as the request.
Setup ==
  /\ Doing("setup")
  /\ Then((IF Now.n # Mine.buf.size THEN BufSet(Now.ch, Now.n) \o BufFlush(Now.ch) ELSE <<>>)
          \o SetupChannel(Now.ch, Now.n))
  /\ UNCHANGED <<ch, kept>>

SetSize ==
  Doing("size") /\ Then(<<>>) /\ Becomes([Mine EXCEPT !.buf.size = Now.n]) /\ UNCHANGED kept

\* Without memory the call ends in an error, except for one sample: BUF_SIZE_NONE.
Realloc ==
  /\ Doing("realloc")
  /\ \/ Then(<<>>) /\ Becomes([Mine EXCEPT !.buf = Resized(@, Now.n)])
     \/ /\ IF Now.n = 1 THEN Then(<<>>) ELSE todo' = <<>>
        /\ Becomes([Mine EXCEPT !.buf = Lost(@)])
  /\ UNCHANGED kept

ZeroCount == Doing("count0") /\ Then(<<>>) /\ Becomes([Mine EXCEPT !.buf.count = 0]) /\ UNCHANGED kept
ZeroWptr == Doing("wptr0") /\ Then(<<>>) /\ Becomes([Mine EXCEPT !.buf.wptr = 0]) /\ UNCHANGED kept
ZeroRptr == Doing("rptr0") /\ Then(<<>>) /\ Becomes([Mine EXCEPT !.buf.rptr = 0]) /\ UNCHANGED kept

Request == Doing("request") /\ Then(<<>>) /\ Becomes([Mine EXCEPT !.req = Now.n]) /\ UNCHANGED kept

\* platform_adc_start_sequence
Start ==
  /\ Doing("start") /\ Then(<<>>)
  /\ IF dev.running THEN UNCHANGED <<ch, dev>>
     ELSE /\ dev' = [Started(Resequenced(dev)) EXCEPT !.running = TRUE]
          /\ ch' = Voided(dev, ch)
  /\ UNCHANGED <<word, sample, got, asked, made, history>>

\* adc_disable of platform_adc_stop, then the test for the last active channel.
Disable ==
  /\ Doing("disable") /\ Then(<<>>)
  /\ dev' = [dev EXCEPT !.on = @ \ {Now.ch}, !.busy = @ \ {Now.ch}]
  /\ UNCHANGED <<ch, word, sample, got, asked, made, history>>

Idle ==
  /\ Doing("idle") /\ Then(<<>>)
  /\ dev' = [dev EXCEPT !.running = @ /\ dev.active # {}]
  /\ UNCHANGED <<ch, word, sample, got, asked, made, history>>

\* adc_wait_samples, then a turn of the loop of adc_getsamples per sample; a
\* count of zero asks for all there are.
Smaller(m, n) == IF m < n THEN m ELSE n

\* Slip: the wait looks at the number of samples alone.
WaitOverWhenEnough(s, n) == Available(s) >= n \/ "blocking" \notin s.bits

WaitOver(s, n) ==
  Available(s) >= n \/ "blocking" \notin s.bits \/ "pending" \notin s.bits

Wait ==
  /\ Doing("wait")
  /\ WaitOver(Mine, Now.n)
  /\ Then([k \in 1 .. (IF Now.n = 0 THEN Available(Mine) ELSE Smaller(Now.n, Available(Mine))) |->
             [op |-> "process", ch |-> Now.ch]])
  /\ UNCHANGED <<ch, kept>>

\* adc_get_processed_sample
Process ==
  /\ Doing("process")
  /\ Then(IF Available(Mine) = 0 \/ Warming(Mine) THEN Do("return", Now.ch)
          ELSE Do("pick", Now.ch) \o (IF Mine.len > 1 THEN Do("smooth", Now.ch) ELSE <<>>)
                 \o Finish(Now.ch))
  /\ sample' = NoData
  /\ UNCHANGED <<ch, dev, word, got, asked, made, history>>

\* A buffer found empty after all leaves the sample as it was.
Pick ==
  /\ Doing("pick")
  /\ Then(IF "fresh" \in Mine.bits THEN TakeFresh(Now.ch)
          ELSE IF BufEmpty(Mine.buf) THEN <<>> ELSE BufRead(Now.ch))
  /\ overtook' = overtook \union {c \in {Now.ch} : "fresh" \in Mine.bits /\ Mine.buf.count # 0}
  /\ UNCHANGED <<ch, dev, word, sample, got, asked, made, early>>

Copied(v) ==
  Then(<<>>) /\ sample' = v /\ UNCHANGED <<ch, dev, word, got, asked, made, history>>

CopyFresh == Doing("copyFresh") /\ Copied(Mine.value)
Copy == Doing("copy") /\ Copied(Mine.buf.data[Mine.buf.rptr])

Decrement ==
  Doing("decrement") /\ Then(<<>>) /\ Becomes([Mine EXCEPT !.buf.count = @ - 1]) /\ UNCHANGED kept

Advance ==
  /\ Doing("advance") /\ Then(<<>>)
  /\ Becomes([Mine EXCEPT !.buf.rptr = ModIncr(Mine.buf, @)])
  /\ UNCHANGED kept

Smooth ==
  Doing("smooth") /\ Then(<<>>) /\ Becomes(SmoothData(Mine, sample)) /\ UNCHANGED kept

CountDown ==
  /\ Doing("countDown") /\ Then(<<>>)
  /\ Becomes([Mine EXCEPT !.req = IF @ > 0 THEN @ - 1 ELSE 0])
  /\ UNCHANGED kept

Return ==
  /\ Doing("return") /\ Then(<<>>)
  /\ got' = [got EXCEPT ![Now.ch] = sample] /\ sample' = NoData
  /\ UNCHANGED <<ch, dev, word, asked, made, history>>

\* adc_update_smoothing: a new ring, or none if there is no memory for it.
Resmooth ==
  /\ Doing("resmooth")
  /\ \/ /\ Then(<<>>)
        /\ IF Now.n = Mine.len THEN UNCHANGED ch
           ELSE Becomes([Mine EXCEPT !.len = Now.n, !.ring = [i \in 1 .. Now.n |-> NoData]])
     \/ /\ Now.n # Mine.len
        /\ IF Now.n = 1 THEN Then(<<>>) ELSE todo' = <<>>
        /\ Becomes([Mine EXCEPT !.len = 1, !.ring = <<>>, !.idx = 0, !.bits = @ \ {"ready"}])
  /\ UNCHANGED kept

\* adc_flush_smoothing, but for smooth_ready.
Unsmooth ==
  /\ Doing("unsmooth") /\ Then(<<>>)
  /\ Becomes([Mine EXCEPT !.idx = 0, !.ring = [i \in DOMAIN @ |-> NoData]])
  /\ UNCHANGED kept

Step ==
  \/ LoadBits \/ StoreBits \/ LoadActive \/ StoreActive
  \/ Setup \/ SetSize \/ Realloc \/ ZeroCount \/ ZeroWptr \/ ZeroRptr
  \/ Request \/ Start \/ Disable \/ Idle
  \/ Wait \/ Process \/ Pick \/ CopyFresh \/ Copy \/ Decrement \/ Advance
  \/ Smooth \/ CountDown \/ Return \/ Resmooth \/ Unsmooth

Calls ==
  \/ \E list \in Lists, n \in Counts : AdcSample(list, n)
  \/ \E c \in Channels :
       \/ \E n \in {0} \union Counts : AdcGetSamples(c, n)
       \/ \E on \in BOOLEAN : AdcSetBlocking(c, on)
       \/ \E n \in Lengths : AdcSetSmoothing(c, n)
       \/ AdcSetClock(c)

Interrupts == \E eoc \in SUBSET Channels : AdcIntHandler(eoc)

Next == Interrupts \/ Calls \/ Step

Spec == Init /\ [][Next]_vars

(***************************************************************************)
(* A conversion that was started ends, and the processor goes on with the  *)
(* call it executes.                                                       *)
(***************************************************************************)
LiveSpec == Spec /\ WF_vars(Interrupts) /\ WF_vars(Step)

-----------------------------------------------------------------------------
TypeOK ==
  /\ \A c \in Channels :
       LET s == ch[c] IN
       /\ s.bits \subseteq Bits
       /\ s.req \in 0 .. MaxSize
       /\ s.len \in Lengths /\ s.idx \in 0 .. MaxSize
       /\ s.buf.size \in 0 .. MaxSize /\ s.buf.count \in 0 .. MaxSize
       /\ s.buf.wptr \in 0 .. MaxSize - 1 /\ s.buf.rptr \in 0 .. MaxSize - 1
  /\ \A set \in {dev.active, dev.last, dev.seq, dev.on, dev.busy} : set \subseteq Channels
  /\ dev.running \in BOOLEAN
  /\ sample \in 0 .. MaxSamples
  /\ asked \in 0 .. MaxRequests /\ made \in 0 .. MaxSamples

\* Whenever the handler may run, what it writes next falls into the memory
\* allocated for it: the block of the channel's buffer, or its smoothing ring.
\* adc_setup_channel resizes the buffer and adc_update_smoothing the ring with
\* interrupts enabled (elua_adc.c:82, :164), so this rests on the channel not
\* being converted meanwhile.
WithinBlock ==
  /\ TypeOK
  /\ \A c \in dev.busy :
       LET s == ch[c] IN
       IF Warming(s) THEN s.idx <= s.len /\ Len(s.ring) = s.len
       ELSE s.req > 1 => Rejects(s.buf) \/ s.buf.wptr < s.buf.room

\* Samples leave a channel in the order they were converted, none of them twice
\* and none that was never converted, although the handler stores more between
\* any two steps of taking one out (buf_read, buf.c:189). The order is lost where
\* adc_get_processed_sample takes a fresh sample while the buffer has older ones
\* (elua_adc.c:260): reading early lowers the request to one, and the handler
\* no longer puts the next sample behind those.
OldestFirst ==
  [][\A c \in Channels \ overtook : Doing("return") /\ Now.ch = c => sample > got[c]]_vars

\* "If we have the number of requested samples, stop sampling"
\* (platform.c:871): when sampling has ended and no call is in progress, the
\* channel holds as many samples as were asked for and not taken yet, unless some
\* were taken early: one may then be stored between its leaving the buffer and
\* the count of the request going down.
HoldsRequested ==
  todo = <<>> => \A c \in Channels \ early : ~Awaited(c) => Available(ch[c]) = ch[c].req

\* "wait until we have enough samples or the current sampling event has
\* finished" (elua_adc.c:305): a wait for samples ends.
WaitEnds == Doing("wait") ~> ~Doing("wait")
=============================================================================

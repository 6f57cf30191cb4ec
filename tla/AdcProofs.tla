------------------------------ MODULE AdcProofs ------------------------------
(***************************************************************************)
(* Three theorems, for any number of channels, samples and requests and    *)
(* any sizes of buffers and smoothing rings. A channel that is being       *)
(* converted has memory for what the interrupt handler stores next,        *)
(* whatever the handler interrupts, if the program asks again only once it *)
(* has what it asked for and leaves other channels alone meanwhile         *)
(* (MemoryIsSafe). If it also leaves alone the settings of what is being   *)
(* sampled, a channel no longer sampled holds as many samples as were      *)
(* asked for and not taken yet, unless some were taken while more were     *)
(* awaited (RequestsAreHeld), and the samples of a channel come out in the *)
(* order in which they were converted, unless a fresh one was taken before *)
(* older ones (OldestComesFirst).                                          *)
(*                                                                         *)
(* A call in progress is a list of steps, so the argument is in two parts. *)
(* Which list there can be is a matter of its shape alone (Formed): which  *)
(* step follows which, and what comes after it.  Every step and every call *)
(* keeps that (StepForms, CallForms).  What the state is like is then told *)
(* from the step to come (the other conjuncts of IInv), and each step has  *)
(* to establish what the one after it relies on. HInv adds to IInv what    *)
(* relates the flags, the samples and the request of a channel, and OInv   *)
(* to HInv what relates its samples to how far the call is with taking one *)
(* out.                                                                    *)
(***************************************************************************)
EXTENDS Adc, TLAPS, FiniteSetTheorems

(***************************************************************************)
(* The inductive invariant, for a program that does not ask again before   *)
(* it has what it asked for, and leaves other channels alone meanwhile.    *)
(* Its parts: the values; the shape of the call in progress; the memory of *)
(* each channel; what the channels in use have; what the call in progress  *)
(* has loaded and what it may rely on.                                     *)
(***************************************************************************)
Buffer == [size : 0 .. MaxSize, room : 0 .. MaxSize, wptr : 0 .. MaxSize - 1, rptr : 0 .. MaxSize - 1,
           count : 0 .. MaxSize, data : [0 .. MaxSize - 1 -> 0 .. MaxSamples]]

Channel == [bits : SUBSET Bits, req : 0 .. MaxSize, value : 0 .. MaxSamples, len : Lengths,
            idx : 0 .. MaxSize, ring : Seq(0 .. MaxSamples), buf : Buffer]

Device == [active : SUBSET Channels, last : SUBSET Channels, seq : SUBSET Channels,
           running : BOOLEAN, on : SUBSET Channels, busy : SUBSET Channels]

Values ==
  /\ ch \in [Channels -> Channel] /\ dev \in Device
  /\ sample \in 0 .. MaxSamples
  /\ asked \in 0 .. MaxRequests /\ made \in 0 .. MaxSamples

-----------------------------------------------------------------------------
(* The steps, and the order in which they follow each other.               *)

OnChannel(ops) == [op : ops, ch : Channels]
OnBit(bits, values) == [op : {"storeBits"}, ch : Channels, bit : bits, on : values]

Steps ==
  OnChannel({"count0", "wptr0", "rptr0", "loadBits", "loadActive", "disable", "idle", "process", "pick",
             "copyFresh", "copy", "decrement", "advance", "smooth", "countDown", "return", "unsmooth"})
    \union [op : {"setup", "size", "realloc", "request"}, ch : Channels, n : Counts]
    \union [op : {"wait"}, ch : Channels, n : {0} \union Counts]
    \union [op : {"resmooth"}, ch : Channels, n : Lengths]
    \union OnBit({"fresh", "ready"}, {FALSE}) \union OnBit({"pending", "blocking"}, BOOLEAN)
    \union [op : {"storeActive"}, ch : Channels, on : BOOLEAN]
    \union [op : {"start"}]

\* adc.sample: its steps end with the start of the converter.
Preparing(s) == s # <<>> /\ s[Len(s)].op = "start"

\* The step y may come after the step x.
Leads(x, y) ==
  /\ x.op \notin {"start", "wait"}
  /\ y.op # "start" /\ x.op # "setup" /\ y.op # "setup" => y.ch = x.ch
  /\ x.op = "setup" => y.op \in {"setup", "start"}
  /\ x.op = "size" => y.op = "realloc" /\ y.n = x.n
  /\ x.op = "realloc" => y.op = "count0"
  /\ x.op = "count0" => y.op = "wptr0"
  /\ x.op = "wptr0" => y.op = "rptr0"
  /\ x.op = "rptr0" => y.op = "request"
  /\ x.op = "request" => y.op = "loadBits"
  /\ x.op = "loadBits" => y.op = "storeBits"
  /\ x.op = "storeBits" =>
       /\ x.bit = "fresh" => y.op \in {"smooth", "countDown"}
       /\ x.bit = "ready" => y.op = "count0"
       /\ x.bit = "pending" => y.op = "loadActive"
       /\ x.bit # "blocking"
  /\ x.op = "loadActive" => y.op = "storeActive"
  /\ x.op = "storeActive" => IF x.on THEN y.op \in {"setup", "start"} ELSE y.op = "disable"
  /\ x.op = "disable" => y.op = "idle"
  /\ x.op = "idle" => y.op = "resmooth"
  /\ x.op = "resmooth" => y.op = "unsmooth"
  /\ x.op = "unsmooth" => y.op = "loadBits"
  /\ x.op = "process" => y.op = "process"
  /\ x.op = "pick" => y.op \in {"smooth", "countDown"}
  /\ x.op = "copyFresh" => y.op = "loadBits"
  /\ x.op = "copy" => y.op = "decrement"
  /\ x.op = "decrement" => y.op = "advance"
  /\ x.op = "advance" => y.op \in {"smooth", "countDown"}
  /\ x.op = "smooth" => y.op = "countDown"
  /\ x.op = "countDown" => y.op = "return"
  /\ x.op = "return" => y.op = "process"

\* What comes after the step i of the list s.
Placed(s, i) ==
  LET x == s[i]
  IN /\ x.op \in {"size", "realloc", "count0", "wptr0", "resmooth"} => i + 1 \in 1 .. Len(s)
     /\ x.op \in {"setup", "size", "realloc", "request"} => Preparing(s)
     /\ x.op = "storeActive" => IF x.on THEN Preparing(s) ELSE ~Preparing(s)
     /\ x.op = "storeBits" /\ x.bit = "pending" =>
          IF x.on THEN Preparing(s) ELSE \E j \in i + 1 .. Len(s) : s[j].op = "disable" /\ s[j].ch = x.ch
     /\ x.op \in {"setup", "storeActive"} /\ Preparing(s) =>
          \A j \in i + 1 .. Len(s) : s[j].op # "start" => s[j].ch # x.ch

Linked(s) ==
  /\ \A i \in 1 .. Len(s) - 1 : Leads(s[i], s[i + 1])
  /\ \A i \in 1 .. Len(s) : Placed(s, i)

Formed(s) == s \in Seq(Steps) /\ Linked(s)

\* The steps of adc.sample, but for the last.
Preparations ==
  {x \in Steps :
     /\ x.op \in {"setup", "size", "realloc", "count0", "wptr0", "rptr0", "request",
                  "loadBits", "storeBits", "loadActive", "storeActive"}
     /\ x.op = "storeBits" => x.bit = "pending"}

-----------------------------------------------------------------------------
\* The channels that are sampled, or will be once the converter starts.
Used == dev.active \union dev.on \union dev.busy

At(op, c) == Doing(op) /\ Now.ch = c

Sound(b) == b.room = b.size /\ (b.size # 0 => b.wptr < b.size)

\* Memory and indices fit but in the middle of buf_set and buf_flush, and of
\* adc_update_smoothing.
Shape(c) ==
  LET s == ch[c]
  IN /\ s.buf.count <= s.buf.size
     /\ At("realloc", c) => s.buf.size = Now.n
     /\ At("count0", c) \/ At("wptr0", c) => s.buf.room = s.buf.size
     /\ ~At("realloc", c) /\ ~At("count0", c) /\ ~At("wptr0", c) => Sound(s.buf)
     /\ s.len > 1 => Len(s.ring) = s.len
     /\ ~At("unsmooth", c) => s.idx <= s.len

Shaped == \A c \in Channels : Shape(c)

\* A channel in use awaits samples, but while it is being stopped, and has room
\* for those it still has to get: one sample needs no buffer.
Room(b) == IF b.size = 0 THEN 1 ELSE b.size
Awaits(c) ==
  \/ "pending" \in ch[c].bits
  \/ \E i \in 1 .. Len(todo) : todo[i].op = "disable" /\ todo[i].ch = c

Fits(s) ==
  /\ "fresh" \notin s.bits
  /\ s.buf.count < Room(s.buf) /\ s.buf.count <= s.req /\ s.req <= Room(s.buf)

Sampling == \A c \in Used : Awaits(c) /\ Fits(ch[c])

Loaded ==
  /\ Doing("storeBits") =>
       /\ word \subseteq Bits
       /\ "pending" \in Mine.bits => "pending" \in word
       /\ Now.ch \in Used \/ Preparing(todo) => "fresh" \notin word
  /\ Doing("storeActive") =>
       /\ word \subseteq Channels
       /\ IF Now.on THEN word = dev.active ELSE word \subseteq {Now.ch}

Void(s) == s.buf.count = 0 /\ "fresh" \notin s.bits

\* The step i to come asks for as many samples as there is room for.
Coming(i) == i <= Len(todo) /\ todo[i].n = Room(Mine.buf)

\* adc.sample: nothing is converted until all channels are set up.
Prepared ==
  Preparing(todo) =>
    /\ dev.on = {} /\ dev.busy = {}
    /\ \A i \in 1 .. Len(todo) : todo[i].op # "start" =>
         /\ todo[i] \in Preparations
         /\ todo[i].ch \notin dev.active /\ Void(ch[todo[i].ch])
    /\ Now.op = "size" => 6 <= Len(todo) /\ todo[6].n = Now.n
    /\ Now.op = "realloc" => Coming(5)
    /\ Now.op = "count0" => Coming(4)
    /\ Now.op = "wptr0" => Coming(3)
    /\ Now.op = "rptr0" => Coming(2)
    /\ Now.op = "request" => Coming(1)
    /\ Now.op \in {"loadBits", "storeBits", "loadActive", "storeActive"} =>
         Mine.req <= Room(Mine.buf)
    /\ Now.op \in {"loadActive", "storeActive"} => "pending" \in Mine.bits

\* Settings are changed on a channel that is not in use, after it was stopped
\* if it was.
Tuned ==
  ~Preparing(todo) =>
    /\ \A i \in 1 .. Len(todo) :
         /\ todo[i].op \in {"resmooth", "unsmooth", "count0", "wptr0"} =>
              Used = {} \/ \E j \in 1 .. i - 1 : todo[j].op = "disable"
         /\ todo[i].op \in {"loadActive", "storeActive", "disable"} => Used \subseteq {todo[i].ch}
    /\ Doing("disable") => dev.active = {}

\* adc.getsample: what is found in the buffer stays there until it is taken.
Taken ==
  /\ Doing("copy") \/ Doing("decrement") => Mine.buf.count >= 1
  /\ Doing("copy") \/ Doing("decrement") \/ Doing("advance") => Mine.buf.size >= 1
  /\ Doing("pick") /\ Now.ch \in Used => Mine.buf.count >= 1
  /\ (Doing("advance") \/ Doing("smooth") \/ Doing("countDown")) /\ Now.ch \in Used =>
       Mine.buf.count < Mine.req
  /\ \A i \in 1 .. Len(todo) :
       todo[i].op = "storeBits" /\ todo[i].bit = "fresh" => todo[i].ch \notin Used

IInv ==
  Values /\ Formed(todo) /\ Shaped /\ Sampling /\ Loaded /\ Prepared /\ Tuned /\ Taken

-----------------------------------------------------------------------------
(***************************************************************************)
(* The steps of a call, one after the other.                               *)
(***************************************************************************)
\* What is left after the first element of a sequence.
LEMMA TailFacts ==
  ASSUME NEW S, NEW s \in Seq(S), s # <<>>
  PROVE  /\ Tail(s) \in Seq(S) /\ Len(s) \in Nat \ {0} /\ Head(s) = s[1] /\ s[1] \in S
         /\ Len(Tail(s)) = Len(s) - 1
         /\ \A i \in 1 .. Len(s) - 1 : Tail(s)[i] = s[i + 1]
  OBVIOUS

\* A sequence with an index is not empty.
LEMMA NotEmpty ==
  ASSUME NEW S, NEW s \in Seq(S), NEW i \in 1 .. Len(s)
  PROVE  s # <<>>
  OBVIOUS

\* One sequence after the other.
LEMMA CatFacts ==
  ASSUME NEW S, NEW s \in Seq(S), NEW t \in Seq(S)
  PROVE  /\ s \o t \in Seq(S) /\ Len(s \o t) = Len(s) + Len(t) /\ Len(s) \in Nat /\ Len(t) \in Nat
         /\ \A i \in 1 .. Len(s) : (s \o t)[i] = s[i]
         /\ \A i \in 1 .. Len(t) : (s \o t)[Len(s) + i] = t[i]
  OBVIOUS

\* A step is as well placed in one list as in another that goes on as that does.
LEMMA PlacedAlike ==
  ASSUME NEW s, NEW i, NEW t, NEW k, Placed(t, k), s[i] = t[k], Preparing(s) <=> Preparing(t),
         k + 1 \in 1 .. Len(t) => i + 1 \in 1 .. Len(s),
         \A j \in i + 1 .. Len(s) : \E m \in k + 1 .. Len(t) : s[j] = t[m],
         \A m \in k + 1 .. Len(t) : \E j \in i + 1 .. Len(s) : s[j] = t[m]
  PROVE  Placed(s, i)
<1> DEFINE x == s[i]
<1>1. /\ x.op \in {"size", "realloc", "count0", "wptr0", "resmooth"} => i + 1 \in 1 .. Len(s)
      /\ x.op \in {"setup", "size", "realloc", "request"} => Preparing(s)
      /\ x.op = "storeActive" => IF x.on THEN Preparing(s) ELSE ~Preparing(s)
  BY DEF Placed
<1>2. x.op = "storeBits" /\ x.bit = "pending" =>
        IF x.on THEN Preparing(s) ELSE \E j \in i + 1 .. Len(s) : s[j].op = "disable" /\ s[j].ch = x.ch
  <2>1. x.op = "storeBits" /\ x.bit = "pending" =>
          IF x.on THEN Preparing(t) ELSE \E m \in k + 1 .. Len(t) : t[m].op = "disable" /\ t[m].ch = x.ch
    BY DEF Placed
  <2>2. (\E m \in k + 1 .. Len(t) : t[m].op = "disable" /\ t[m].ch = x.ch)
          => \E j \in i + 1 .. Len(s) : s[j].op = "disable" /\ s[j].ch = x.ch
    BY SMTT(30)
  <2> HIDE DEF x
  <2> QED BY <2>1, <2>2
<1>3. x.op \in {"setup", "storeActive"} /\ Preparing(s) =>
        \A j \in i + 1 .. Len(s) : s[j].op # "start" => s[j].ch # x.ch
  <2>1. x.op \in {"setup", "storeActive"} /\ Preparing(t) =>
          \A m \in k + 1 .. Len(t) : t[m].op # "start" => t[m].ch # x.ch
    BY DEF Placed
  <2>2. (\A m \in k + 1 .. Len(t) : t[m].op # "start" => t[m].ch # x.ch)
          => \A j \in i + 1 .. Len(s) : s[j].op # "start" => s[j].ch # x.ch
    BY SMTT(30)
  <2> HIDE DEF x
  <2> QED BY <2>1, <2>2
<1> QED BY <1>1, <1>2, <1>3 DEF Placed

\* What is left of a call after a step is formed as a call is.
LEMMA TailFormed ==
  ASSUME NEW s, Formed(s), s # <<>>
  PROVE  /\ Formed(Tail(s)) /\ (Tail(s) # <<>> => (Preparing(Tail(s)) <=> Preparing(s)))
         /\ Tail(s) # <<>> => Leads(s[1], s[2]) /\ Head(Tail(s)) = s[2] /\ 2 \in 1 .. Len(s)
<1> DEFINE t == Tail(s)
<1>1. /\ t \in Seq(Steps) /\ s \in Seq(Steps) /\ Len(s) \in Nat \ {0} /\ Len(t) = Len(s) - 1
      /\ \A i \in 1 .. Len(t) : t[i] = s[i + 1] /\ i + 1 \in 1 .. Len(s)
  BY TailFacts DEF Formed
<1>2. t # <<>> => Len(t) \in Nat \ {0} /\ t[Len(t)] = s[Len(s)] /\ Head(t) = t[1]
  BY <1>1
<1>3. t # <<>> => (Preparing(t) <=> Preparing(s))
  BY <1>2 DEF Preparing
<1>4. \A i \in 1 .. Len(t) - 1 : Leads(t[i], t[i + 1])
  <2> SUFFICES ASSUME NEW i \in 1 .. Len(t) - 1 PROVE Leads(t[i], t[i + 1])
    OBVIOUS
  <2>1. i + 1 \in 1 .. Len(s) - 1 /\ t[i] = s[i + 1] /\ t[i + 1] = s[i + 1 + 1]
    BY <1>1
  <2> QED BY <2>1 DEF Formed, Linked
<1>5. ASSUME NEW i \in 1 .. Len(t) PROVE Placed(t, i)
  <2>1. /\ i + 1 \in 1 .. Len(s) /\ t[i] = s[i + 1]
        /\ i + 1 + 1 \in 1 .. Len(s) => i + 1 \in 1 .. Len(t)
        /\ \A j \in i + 1 .. Len(t) : j + 1 \in i + 1 + 1 .. Len(s) /\ j \in 1 .. Len(t)
        /\ \A j \in i + 1 + 1 .. Len(s) : j - 1 \in i + 1 .. Len(t) /\ j - 1 \in 1 .. Len(t) /\ j - 1 + 1 = j
    BY <1>1
  <2>2. /\ Preparing(t) <=> Preparing(s)
        /\ \A j \in i + 1 .. Len(t) : t[j] = s[j + 1]
        /\ \A j \in i + 1 + 1 .. Len(s) : t[j - 1] = s[j]
    <3>1. t # <<>>
      BY <1>1, NotEmpty
    <3> QED BY <1>1, <1>3, <2>1, <3>1
  <2>3. Placed(s, i + 1)
    BY <2>1 DEF Formed, Linked
  <2> HIDE DEF t
  <2>4. /\ \A j \in i + 1 .. Len(t) : \E m \in i + 1 + 1 .. Len(s) : t[j] = s[m]
        /\ \A m \in i + 1 + 1 .. Len(s) : \E j \in i + 1 .. Len(t) : t[j] = s[m]
    BY <2>1, <2>2
  <2> QED BY <2>1, <2>2, <2>3, <2>4, PlacedAlike
<1>6. Linked(t)
  BY <1>4, <1>5 DEF Linked
<1>7. t # <<>> => Leads(s[1], s[2]) /\ Head(t) = s[2] /\ 2 \in 1 .. Len(s)
  <2> SUFFICES ASSUME t # <<>> PROVE Leads(s[1], s[2]) /\ Head(t) = s[2] /\ 2 \in 1 .. Len(s)
    OBVIOUS
  <2>1. Len(t) \in Nat \ {0} /\ 1 \in 1 .. Len(s) - 1 /\ 1 \in 1 .. Len(t) /\ 2 \in 1 .. Len(s)
    BY <1>1, <1>2
  <2>2. Leads(s[1], s[1 + 1])
    BY <2>1 DEF Formed, Linked
  <2> QED BY <2>1, <2>2, <1>1, <1>2
<1> QED BY <1>1, <1>3, <1>6, <1>7 DEF Formed

\* A step put before the rest of a call.
LEMMA ConsFormed ==
  ASSUME NEW x \in Steps, NEW t, Formed(t),
         t # <<>> => Leads(x, t[1]),
         x.op \in {"size", "realloc", "count0", "wptr0", "resmooth"} => t # <<>>,
         x.op \in {"setup", "size", "realloc", "request"} => Preparing(t),
         x.op = "storeActive" => IF x.on THEN Preparing(t) ELSE ~Preparing(t),
         x.op = "storeBits" /\ x.bit = "pending" =>
           IF x.on THEN Preparing(t) ELSE \E j \in 1 .. Len(t) : t[j].op = "disable" /\ t[j].ch = x.ch,
         x.op \in {"setup", "storeActive"} /\ Preparing(t) =>
           \A j \in 1 .. Len(t) : t[j].op # "start" => t[j].ch # x.ch
  PROVE  /\ Formed(<<x>> \o t) /\ <<x>> \o t # <<>> /\ (<<x>> \o t)[1] = x
         /\ Len(t) \in Nat /\ Len(<<x>> \o t) = Len(t) + 1
         /\ \A j \in 1 .. Len(t) : (<<x>> \o t)[j + 1] = t[j]
         /\ t # <<>> => (Preparing(<<x>> \o t) <=> Preparing(t))
<1> DEFINE u == <<x>> \o t
<1>1. /\ t \in Seq(Steps) /\ u \in Seq(Steps) /\ Len(u) = Len(t) + 1 /\ Len(t) \in Nat
      /\ u[1] = x /\ u # <<>>
      /\ \A j \in 1 .. Len(t) : u[j + 1] = t[j]
  <2>1. t \in Seq(Steps) /\ <<x>> \in Seq(Steps) /\ Len(<<x>>) = 1 /\ <<x>>[1] = x
    BY DEF Formed
  <2>2. /\ u \in Seq(Steps) /\ Len(u) = 1 + Len(t) /\ Len(t) \in Nat /\ u[1] = x
        /\ \A j \in 1 .. Len(t) : u[1 + j] = t[j]
    BY <2>1, CatFacts
  <2>3. \A j \in 1 .. Len(t) : j + 1 = 1 + j
    BY <2>2
  <2> QED BY <2>1, <2>2, <2>3
<1> HIDE DEF u
<1>2. t # <<>> => Len(t) > 0 /\ u[Len(u)] = t[Len(t)]
  BY <1>1
<1>3. t # <<>> => (Preparing(u) <=> Preparing(t))
  BY <1>1, <1>2 DEF Preparing
<1>4. \A i \in 1 .. Len(u) : i = 1 \/ (i - 1 \in 1 .. Len(t) /\ u[i] = t[i - 1])
  <2> SUFFICES ASSUME NEW i \in 1 .. Len(u), i # 1 PROVE i - 1 \in 1 .. Len(t) /\ u[i] = t[i - 1]
    OBVIOUS
  <2>1. i - 1 \in 1 .. Len(t) /\ i - 1 + 1 = i
    BY <1>1
  <2> QED BY <1>1, <2>1
<1>5. ASSUME NEW i \in 1 .. Len(u) - 1 PROVE Leads(u[i], u[i + 1])
  <2>1. CASE i = 1
    <3>1. 1 \in 1 .. Len(t) /\ u[i + 1] = t[1]
      BY <1>1, <2>1
    <3>2. t # <<>>
      BY <1>1, <3>1, NotEmpty
    <3> QED BY <1>1, <2>1, <3>1, <3>2
  <2>2. CASE i # 1
    <3>1. /\ i - 1 \in 1 .. Len(t) - 1 /\ i - 1 \in 1 .. Len(t) /\ i - 1 + 1 \in 1 .. Len(t)
          /\ i - 1 + 1 = i
      BY <1>1, <2>2
    <3>2. u[i] = t[i - 1] /\ u[i + 1] = t[i - 1 + 1]
      BY <1>1, <3>1
    <3> QED BY <3>1, <3>2 DEF Formed, Linked
  <2> QED BY <2>1, <2>2
<1>6. ASSUME NEW i \in 1 .. Len(u) PROVE Placed(u, i)
  <2>1. CASE i = 1
    <3>1. \A j \in 1 + 1 .. Len(u) : j - 1 \in 1 .. Len(t) /\ u[j] = t[j - 1]
      <4> SUFFICES ASSUME NEW j \in 1 + 1 .. Len(u) PROVE j - 1 \in 1 .. Len(t) /\ u[j] = t[j - 1]
        OBVIOUS
      <4>1. j \in 1 .. Len(u) /\ j # 1
        BY <1>1
      <4> QED BY <1>4, <4>1
    <3>2. \A j \in 1 .. Len(t) : j + 1 \in 1 + 1 .. Len(u)
      BY <1>1
    <3>3. t # <<>> => 1 + 1 \in 1 .. Len(u)
      BY <1>1, <1>2
    <3>4. Preparing(t) <=> t # <<>> /\ Preparing(u)
      BY <1>3 DEF Preparing
    <3>5. t = <<>> => Len(u) = 1
      BY <1>1
    <3>6. t = <<>> => (Preparing(u) <=> x.op = "start")
      BY <1>1, <3>5 DEF Preparing
    <3> QED BY <1>1, <2>1, <3>1, <3>2, <3>3, <3>4, <3>6, SMTT(30) DEF Placed
  <2>2. CASE i # 1
    <3> DEFINE k == i - 1
    <3>1. /\ k \in 1 .. Len(t) /\ u[i] = t[k]
          /\ k + 1 \in 1 .. Len(t) => i + 1 \in 1 .. Len(u)
          /\ \A j \in i + 1 .. Len(u) : j - 1 \in k + 1 .. Len(t) /\ j \in 1 .. Len(u) /\ j # 1
          /\ \A j \in k + 1 .. Len(t) : j + 1 \in i + 1 .. Len(u) /\ j \in 1 .. Len(t)
      BY <1>1, <1>4, <2>2
    <3>2. \A j \in i + 1 .. Len(u) : u[j] = t[j - 1]
      BY <1>4, <3>1
    <3>3. \A j \in k + 1 .. Len(t) : u[j + 1] = t[j]
      BY <1>1, <3>1
    <3>4. t # <<>>
      BY <1>1, <3>1, NotEmpty
    <3>5. Placed(t, k)
      BY <3>1 DEF Formed, Linked
    <3> HIDE DEF k
    <3>6. /\ \A j \in i + 1 .. Len(u) : \E m \in k + 1 .. Len(t) : u[j] = t[m]
          /\ \A m \in k + 1 .. Len(t) : \E j \in i + 1 .. Len(u) : u[j] = t[m]
      BY <3>1, <3>2, <3>3
    <3>7. Preparing(u) <=> Preparing(t)
      BY <1>3, <3>4
    <3> QED BY <3>1, <3>5, <3>6, <3>7, PlacedAlike
  <2> QED BY <2>1, <2>2
<1> QED BY <1>1, <1>3, <1>5, <1>6 DEF Formed, Linked, u

\* The steps there are.
LEMMA StepKinds ==
  ASSUME NEW c \in Channels
  PROVE  /\ \A op \in {"count0", "wptr0", "rptr0", "loadBits", "loadActive", "disable", "idle", "process",
                       "pick", "copyFresh", "copy", "decrement", "advance", "smooth", "countDown",
                       "return", "unsmooth"} : [op |-> op, ch |-> c] \in Steps
         /\ \A op \in {"setup", "size", "realloc", "request"}, n \in Counts :
              [op |-> op, ch |-> c, n |-> n] \in Steps
         /\ \A n \in {0} \union Counts : [op |-> "wait", ch |-> c, n |-> n] \in Steps
         /\ \A n \in Lengths : [op |-> "resmooth", ch |-> c, n |-> n] \in Steps
         /\ \A on \in BOOLEAN, bit \in {"pending", "blocking"} :
              [op |-> "storeBits", ch |-> c, bit |-> bit, on |-> on] \in Steps
         /\ \A bit \in {"fresh", "ready"} : [op |-> "storeBits", ch |-> c, bit |-> bit, on |-> FALSE] \in Steps
         /\ \A on \in BOOLEAN : [op |-> "storeActive", ch |-> c, on |-> on] \in Steps
         /\ [op |-> "start"] \in Steps
  BY DEF Steps, OnChannel, OnBit

\* Lists of steps put together, from the left or from the right.
LEMMA Assoc ==
  ASSUME NEW S, NEW r \in Seq(S), NEW s \in Seq(S), NEW t \in Seq(S)
  PROVE  (r \o s) \o t = r \o (s \o t)
  OBVIOUS

LEMMA Assoc3 ==
  \A r, s, u, t \in Seq(Steps) : ((r \o s) \o u) \o t = r \o (s \o (u \o t))
<1> TAKE r, s, u, t \in Seq(Steps)
<1> DEFINE p == r \o s
           q == u \o t
<1>1. p \in Seq(Steps)
  OBVIOUS
<1>2. q \in Seq(Steps)
  OBVIOUS
<1> HIDE DEF p, q
<1>3. (p \o u) \o t = p \o (u \o t)
  BY ONLY <1>1, u \in Seq(Steps), t \in Seq(Steps)
<1>4. (r \o s) \o q = r \o (s \o q)
  BY ONLY <1>2, r \in Seq(Steps), s \in Seq(Steps)
<1> QED BY ONLY <1>3, <1>4 DEF p, q

\* The same of five lists.
LEMMA Assoc5 ==
  \A r, s, u, v, t \in Seq(Steps) : (((r \o s) \o u) \o v) \o t = r \o (s \o (u \o (v \o t)))
<1> TAKE r, s, u, v, t \in Seq(Steps)
<1> DEFINE p == r \o s
           q == v \o t
           w == u \o q
           z == p \o u
<1>1. p \in Seq(Steps)
  OBVIOUS
<1>2. q \in Seq(Steps)
  OBVIOUS
<1>3. w \in Seq(Steps)
  BY <1>2
<1>4. z \in Seq(Steps)
  BY <1>1
<1> HIDE DEF w, q, z, p
<1>5. (r \o s) \o w = r \o (s \o w)
  BY ONLY <1>3, r \in Seq(Steps), s \in Seq(Steps)
<1>6. (p \o u) \o q = p \o (u \o q)
  BY ONLY <1>1, <1>2, u \in Seq(Steps), SMTT(30)
<1>7. (z \o v) \o t = z \o (v \o t)
  BY ONLY <1>4, v \in Seq(Steps), t \in Seq(Steps), SMTT(30)
<1> QED BY ONLY <1>5, <1>6, <1>7 DEF p, q, w, z

\* A step of a list followed by another.
LEMMA InList ==
  ASSUME NEW r \in Seq(Steps), NEW s \in Seq(Steps), Len(s) = 1
  PROVE  \A t \in Seq(Steps) : \E j \in 1 .. Len((r \o s) \o t) : ((r \o s) \o t)[j] = s[1]
<1> DEFINE p == r \o s
<1>1. p \in Seq(Steps)
  OBVIOUS
<1>2. Len(p) = Len(r) + Len(s) /\ Len(r) \in Nat
  BY CatFacts
<1>3. p[Len(r) + 1] = s[1]
  <2>1. \A i \in 1 .. Len(s) : (r \o s)[Len(r) + i] = s[i]
    BY ONLY CatFacts, r \in Seq(Steps), s \in Seq(Steps)
  <2>2. 1 \in 1 .. Len(s)
    OBVIOUS
  <2> QED BY ONLY <2>1, <2>2
<1> HIDE DEF p
<1>4. Len(p) \in 1 .. Len(p) /\ p[Len(p)] = s[1]
  BY ONLY <1>2, <1>3, Len(s) = 1
<1> TAKE t \in Seq(Steps)
<1>5. Len(p) \in 1 .. Len(p \o t) /\ (p \o t)[Len(p)] = p[Len(p)]
  BY ONLY <1>1, <1>4, t \in Seq(Steps)
<1> QED BY ONLY <1>4, <1>5 DEF p

\* The test and the change of a bit before the rest of a call.
LEMMA SetBitFormed ==
  ASSUME NEW c \in Channels, NEW bit, NEW on \in BOOLEAN,
         [op |-> "storeBits", ch |-> c, bit |-> bit, on |-> on] \in Steps,
         NEW t, Formed(t), t # <<>> => Leads([op |-> "storeBits", ch |-> c, bit |-> bit, on |-> on], t[1]),
         bit = "pending" =>
           IF on THEN Preparing(t) ELSE \E j \in 1 .. Len(t) : t[j].op = "disable" /\ t[j].ch = c
  PROVE  /\ Formed(SetBit(c, bit, on) \o t) /\ SetBit(c, bit, on) \o t # <<>>
         /\ (SetBit(c, bit, on) \o t)[1] = [op |-> "loadBits", ch |-> c]
         /\ t # <<>> => (Preparing(SetBit(c, bit, on) \o t) <=> Preparing(t))
<1> DEFINE l == [op |-> "loadBits", ch |-> c]
           x == [op |-> "storeBits", ch |-> c, bit |-> bit, on |-> on]
           u == <<x>> \o t
<1>1. l \in Steps /\ l.op = "loadBits" /\ l.ch = c /\ x.op = "storeBits" /\ x.ch = c /\ x.bit = bit /\ x.on = on
  BY StepKinds
<1>2. SetBit(c, bit, on) \o t = <<l>> \o u
  BY <1>1, Assoc, <<l>> \in Seq(Steps), <<x>> \in Seq(Steps) DEF SetBit, Do, Formed
<1> HIDE DEF l, x
<1>3. /\ Formed(u) /\ u # <<>> /\ u[1] = x /\ (t # <<>> => (Preparing(u) <=> Preparing(t)))
  BY <1>1, ConsFormed DEF x
<1> HIDE DEF u
<1>4. Leads(l, u[1])
  BY <1>1, <1>3 DEF Leads
<1>5. /\ Formed(<<l>> \o u) /\ <<l>> \o u # <<>> /\ (<<l>> \o u)[1] = l /\ (Preparing(<<l>> \o u) <=> Preparing(u))
  BY <1>1, <1>3, <1>4, ConsFormed
<1> QED BY <1>2, <1>3, <1>5 DEF l

\* The same of ch_active.
LEMMA SetActiveFormed ==
  ASSUME NEW c \in Channels, NEW on \in BOOLEAN, NEW t, Formed(t), t # <<>>,
         Leads([op |-> "storeActive", ch |-> c, on |-> on], t[1]),
         IF on THEN Preparing(t) /\ \A j \in 1 .. Len(t) : t[j].op # "start" => t[j].ch # c
               ELSE ~Preparing(t)
  PROVE  /\ Formed(SetActive(c, on) \o t) /\ SetActive(c, on) \o t # <<>>
         /\ (SetActive(c, on) \o t)[1] = [op |-> "loadActive", ch |-> c]
         /\ Preparing(SetActive(c, on) \o t) <=> Preparing(t)
         /\ Len(t) \in Nat /\ Len(SetActive(c, on) \o t) = Len(t) + 2
         /\ \A j \in 1 .. Len(t) : (SetActive(c, on) \o t)[j + 2] = t[j]
<1> DEFINE l == [op |-> "loadActive", ch |-> c]
           x == [op |-> "storeActive", ch |-> c, on |-> on]
           u == <<x>> \o t
<1>1. l \in Steps /\ x \in Steps /\ l.op = "loadActive" /\ l.ch = c /\ x.op = "storeActive" /\ x.ch = c /\ x.on = on
  BY StepKinds
<1>2. SetActive(c, on) \o t = <<l>> \o u
  BY <1>1, Assoc, <<l>> \in Seq(Steps), <<x>> \in Seq(Steps) DEF SetActive, Do, Formed
<1> HIDE DEF l, x
<1>3. /\ Formed(u) /\ u # <<>> /\ u[1] = x /\ (Preparing(u) <=> Preparing(t))
      /\ Len(t) \in Nat /\ Len(u) = Len(t) + 1 /\ \A j \in 1 .. Len(t) : u[j + 1] = t[j]
  BY <1>1, ConsFormed DEF x
<1> HIDE DEF u
<1>4. Leads(l, u[1])
  BY <1>1, <1>3 DEF Leads
<1>5. /\ Formed(<<l>> \o u) /\ <<l>> \o u # <<>> /\ (<<l>> \o u)[1] = l /\ (Preparing(<<l>> \o u) <=> Preparing(u))
      /\ Len(<<l>> \o u) = Len(u) + 1 /\ \A j \in 1 .. Len(u) : (<<l>> \o u)[j + 1] = u[j]
  BY <1>1, <1>3, <1>4, ConsFormed
<1>6. \A j \in 1 .. Len(t) : (<<l>> \o u)[j + 2] = t[j]
  <2> SUFFICES ASSUME NEW j \in 1 .. Len(t) PROVE (<<l>> \o u)[j + 2] = t[j]
    OBVIOUS
  <2>1. j + 1 \in 1 .. Len(u) /\ j + 1 + 1 = j + 2
    BY <1>3
  <2> QED BY <1>3, <1>5, <2>1
<1> QED BY <1>2, <1>3, <1>5, <1>6 DEF l

\* The three steps of buf_flush, before what may follow them.
LEMMA BufFlushFormed ==
  ASSUME NEW c \in Channels, NEW t, Formed(t), t # <<>> => t[1].op = "request" /\ t[1].ch = c
  PROVE  /\ Formed(BufFlush(c) \o t) /\ BufFlush(c) \o t # <<>>
         /\ (BufFlush(c) \o t)[1] = [op |-> "count0", ch |-> c]
         /\ t # <<>> => (Preparing(BufFlush(c) \o t) <=> Preparing(t))
<1> DEFINE x == [op |-> "count0", ch |-> c]
           y == [op |-> "wptr0", ch |-> c]
           z == [op |-> "rptr0", ch |-> c]
           u == <<z>> \o t
           v == <<y>> \o u
<1>1. /\ x \in Steps /\ x.op = "count0" /\ x.ch = c /\ y \in Steps /\ y.op = "wptr0" /\ y.ch = c
      /\ z \in Steps /\ z.op = "rptr0" /\ z.ch = c
  BY StepKinds
<1>2. BufFlush(c) \o t = <<x>> \o v
  <2>1. <<x>> \in Seq(Steps) /\ <<y>> \in Seq(Steps) /\ <<z>> \in Seq(Steps) /\ t \in Seq(Steps)
    BY <1>1 DEF Formed
  <2>2. ((<<x>> \o <<y>>) \o <<z>>) \o t = <<x>> \o v
    <3> HIDE DEF x, y, z
    <3>1. <<x>> \o <<y>> \in Seq(Steps) /\ u \in Seq(Steps)
      BY <2>1
    <3> QED BY <2>1, <3>1, Assoc
  <2> QED BY <2>2 DEF BufFlush, Do
<1> HIDE DEF x, y, z
<1>3. Formed(u) /\ u # <<>> /\ u[1] = z /\ (t # <<>> => (Preparing(u) <=> Preparing(t)))
  <2>1. t # <<>> => Leads(z, t[1])
    BY <1>1 DEF Leads
  <2> QED BY <1>1, <2>1, ConsFormed
<1> HIDE DEF u
<1>4. Formed(v) /\ v # <<>> /\ v[1] = y /\ (Preparing(v) <=> Preparing(u))
  <2>1. Leads(y, u[1])
    BY <1>1, <1>3 DEF Leads
  <2> QED BY <1>1, <1>3, <2>1, ConsFormed
<1> HIDE DEF v
<1>5. Leads(x, v[1])
  BY <1>1, <1>4 DEF Leads
<1>6. Formed(<<x>> \o v) /\ <<x>> \o v # <<>> /\ (<<x>> \o v)[1] = x /\ (Preparing(<<x>> \o v) <=> Preparing(v))
  BY <1>1, <1>4, <1>5, ConsFormed
<1> QED BY <1>2, <1>3, <1>4, <1>6 DEF x

\* adc_setup_channel: the steps that are put before the set-ups that follow.
LEMMA SetupFormed ==
  ASSUME NEW c \in Channels, NEW n \in Counts, NEW t, Formed(t), Preparing(t),
         t[1].op \in {"setup", "start"},
         \A j \in 1 .. Len(t) : t[j].op # "start" => t[j].ch # c
  PROVE  /\ Formed(SetupChannel(c, n) \o t)
         /\ Formed((BufSet(c, n) \o BufFlush(c) \o SetupChannel(c, n)) \o t)
<1> DEFINE r == [op |-> "request", ch |-> c, n |-> n]
           x == [op |-> "size", ch |-> c, n |-> n]
           y == [op |-> "realloc", ch |-> c, n |-> n]
           a == SetActive(c, TRUE) \o t
           b == SetBit(c, "pending", TRUE) \o a
           d == <<r>> \o b
           e == BufFlush(c) \o d
           f == <<y>> \o e
<1>1. /\ r \in Steps /\ x \in Steps /\ y \in Steps
      /\ r.op = "request" /\ r.ch = c /\ x.op = "size" /\ x.ch = c /\ x.n = n /\ y.op = "realloc" /\ y.ch = c /\ y.n = n
  BY StepKinds
<1>2. t # <<>>
  BY DEF Preparing
<1>3. Formed(a) /\ a # <<>> /\ a[1] = [op |-> "loadActive", ch |-> c] /\ (Preparing(a) <=> Preparing(t))
  <2>1. Leads([op |-> "storeActive", ch |-> c, on |-> TRUE], t[1])
    BY DEF Leads
  <2> QED BY <1>2, <2>1, SetActiveFormed, ZenonT(40)
<1> HIDE DEF a
<1>4. Formed(b) /\ b # <<>> /\ b[1] = [op |-> "loadBits", ch |-> c] /\ (Preparing(b) <=> Preparing(a))
  <2>1. Leads([op |-> "storeBits", ch |-> c, bit |-> "pending", on |-> TRUE], a[1])
    BY <1>3 DEF Leads
  <2>2. [op |-> "storeBits", ch |-> c, bit |-> "pending", on |-> TRUE] \in Steps
    BY StepKinds
  <2>3. Preparing(a)
    BY <1>3
  <2>4. /\ a # <<>> => Leads([op |-> "storeBits", ch |-> c, bit |-> "pending", on |-> TRUE], a[1])
        /\ "pending" = "pending" =>
             IF TRUE THEN Preparing(a) ELSE \E j \in 1 .. Len(a) : a[j].op = "disable" /\ a[j].ch = c
    BY <2>1, <2>3
  <2>5. /\ Formed(b) /\ b # <<>> /\ b[1] = [op |-> "loadBits", ch |-> c]
        /\ a # <<>> => (Preparing(b) <=> Preparing(a))
    BY ONLY <1>3, <2>2, <2>4, SetBitFormed, c \in Channels, ZenonT(40)
  <2> QED BY <1>3, <2>5
<1> HIDE DEF b
<1>5. Formed(d) /\ d # <<>> /\ d[1] = r /\ Preparing(d)
  <2>1. Leads(r, b[1])
    BY <1>1, <1>4 DEF Leads
  <2> HIDE DEF r
  <2> QED BY <1>1, <1>3, <1>4, <2>1, ConsFormed
<1> HIDE DEF d, r
<1>6. Formed(e) /\ e # <<>> /\ e[1] = [op |-> "count0", ch |-> c] /\ Preparing(e)
  BY <1>1, <1>5, BufFlushFormed
<1> HIDE DEF e
<1>7. Formed(f) /\ f # <<>> /\ f[1] = y /\ Preparing(f)
  <2>1. Leads(y, e[1])
    BY <1>1, <1>6 DEF Leads
  <2> HIDE DEF y
  <2> QED BY <1>1, <1>6, <2>1, ConsFormed
<1> HIDE DEF f
<1>8. Formed(<<x>> \o f)
  <2>1. Leads(x, f[1])
    BY <1>1, <1>7 DEF Leads
  <2> HIDE DEF x
  <2> QED BY <1>1, <1>7, <2>1, ConsFormed
<1>9. SetupChannel(c, n) \in Seq(Steps) /\ SetupChannel(c, n) \o t = d
  <2> DEFINE sb == SetBit(c, "pending", TRUE)
             sa == SetActive(c, TRUE)
  <2>1. sb \in Seq(Steps) /\ sa \in Seq(Steps) /\ <<r>> \in Seq(Steps) /\ t \in Seq(Steps)
    <3>1. \A u \in Steps, v \in Steps : <<u>> \o <<v>> \in Seq(Steps)
      OBVIOUS
    <3>2. /\ [op |-> "loadBits", ch |-> c] \in Steps /\ [op |-> "loadActive", ch |-> c] \in Steps
          /\ [op |-> "storeBits", ch |-> c, bit |-> "pending", on |-> TRUE] \in Steps
          /\ [op |-> "storeActive", ch |-> c, on |-> TRUE] \in Steps
      BY StepKinds
    <3>3. t \in Seq(Steps) /\ <<r>> \in Seq(Steps)
      BY <1>1 DEF Formed
    <3> QED BY <3>1, <3>2, <3>3 DEF SetBit, SetActive, Do
  <2>2. SetupChannel(c, n) = (<<r>> \o sb) \o sa
    BY DEF SetupChannel, DoN, r
  <2>3. sb \o (sa \o t) = b
    BY DEF b, a, sb, sa
  <2> HIDE DEF sb, sa
  <2>4. ((<<r>> \o sb) \o sa) \o t = <<r>> \o (sb \o (sa \o t))
    BY ONLY <2>1, Assoc3, SMTT(30)
  <2> QED BY <2>1, <2>2, <2>3, <2>4, SMTT(30) DEF d
<1>10. (BufSet(c, n) \o BufFlush(c) \o SetupChannel(c, n)) \o t = <<x>> \o f
  <2> DEFINE s == SetupChannel(c, n)
             w == BufFlush(c)
  <2>1. <<x>> \in Seq(Steps) /\ <<y>> \in Seq(Steps) /\ w \in Seq(Steps) /\ s \in Seq(Steps) /\ t \in Seq(Steps)
    <3>1. \A u \in Steps, v \in Steps, z \in Steps : <<u>> \o <<v>> \o <<z>> \in Seq(Steps)
      OBVIOUS
    <3>2. /\ [op |-> "count0", ch |-> c] \in Steps /\ [op |-> "wptr0", ch |-> c] \in Steps
          /\ [op |-> "rptr0", ch |-> c] \in Steps
      BY StepKinds
    <3>3. w \in Seq(Steps)
      BY <3>1, <3>2 DEF BufFlush, Do
    <3>4. <<x>> \in Seq(Steps) /\ <<y>> \in Seq(Steps)
      BY <1>1
    <3> QED BY <1>9, <3>3, <3>4 DEF Formed
  <2>2. BufSet(c, n) = <<x>> \o <<y>>
    BY DEF BufSet, DoN
  <2> HIDE DEF s, w, x, y
  <2>3. /\ <<x>> \o <<y>> \in Seq(Steps) /\ (<<x>> \o <<y>>) \o w \in Seq(Steps)
        /\ s \o t \in Seq(Steps) /\ w \o (s \o t) \in Seq(Steps)
    BY <2>1
  <2>4. (((<<x>> \o <<y>>) \o w) \o s) \o t = ((<<x>> \o <<y>>) \o w) \o (s \o t)
    BY <2>1, <2>3, Assoc
  <2>5. ((<<x>> \o <<y>>) \o w) \o (s \o t) = (<<x>> \o <<y>>) \o (w \o (s \o t))
    BY <2>1, <2>3, Assoc, SMTT(30)
  <2>6. (<<x>> \o <<y>>) \o (w \o (s \o t)) = <<x>> \o (<<y>> \o (w \o (s \o t)))
    BY <2>1, <2>3, Assoc, SMTT(30)
  <2>7. s \o t = d /\ w \o d = e /\ <<y>> \o e = f
    BY <1>9 DEF s, w, e, f
  <2> QED BY <2>2, <2>4, <2>5, <2>6, <2>7 DEF s, w
<1> QED BY <1>5, <1>8, <1>9, <1>10

\* A call that has no steps left, and one list more or less of no steps.
LEMMA NoSteps ==
  /\ Formed(<<>>) /\ ~Preparing(<<>>)
  /\ \A s \in Seq(Steps) : s \o <<>> = s /\ <<>> \o s = s
<1>1. <<>> \in Seq(Steps) /\ Len(<<>>) = 0
  OBVIOUS
<1> QED BY <1>1 DEF Formed, Linked, Preparing

\* The lists a call is made of are lists of steps.
LEMMA ListTypes ==
  ASSUME NEW c \in Channels
  PROVE  /\ \A op \in {"count0", "wptr0", "rptr0", "loadBits", "loadActive", "disable", "idle", "process",
                       "pick", "copyFresh", "copy", "decrement", "advance", "smooth", "countDown",
                       "return", "unsmooth"} : Do(op, c) \in Seq(Steps)
         /\ \A n \in Lengths : DoN("resmooth", c, n) \in Seq(Steps)
         /\ \A on \in BOOLEAN, bit \in {"pending", "blocking"} : SetBit(c, bit, on) \in Seq(Steps)
         /\ \A bit \in {"fresh", "ready"} : SetBit(c, bit, FALSE) \in Seq(Steps)
         /\ \A on \in BOOLEAN : SetActive(c, on) \in Seq(Steps)
         /\ BufFlush(c) \in Seq(Steps)
<1>1. \A x \in Steps, y \in Steps : <<x>> \in Seq(Steps) /\ <<x>> \o <<y>> \in Seq(Steps)
  OBVIOUS
<1>2. \A op \in {"count0", "wptr0", "rptr0", "loadBits", "loadActive", "disable", "idle", "process",
                 "pick", "copyFresh", "copy", "decrement", "advance", "smooth", "countDown",
                 "return", "unsmooth"} : Do(op, c) \in Seq(Steps)
  BY <1>1, StepKinds DEF Do
<1>3. \A n \in Lengths : DoN("resmooth", c, n) \in Seq(Steps)
  BY <1>1, StepKinds DEF DoN
<1>4. /\ \A on \in BOOLEAN, bit \in {"pending", "blocking"} : SetBit(c, bit, on) \in Seq(Steps)
      /\ \A bit \in {"fresh", "ready"} : SetBit(c, bit, FALSE) \in Seq(Steps)
      /\ \A on \in BOOLEAN : SetActive(c, on) \in Seq(Steps)
  <2>1. [op |-> "loadBits", ch |-> c] \in Steps /\ [op |-> "loadActive", ch |-> c] \in Steps
    BY StepKinds
  <2> QED BY <1>1, <2>1, StepKinds DEF SetBit, SetActive, Do
<1>5. BufFlush(c) \in Seq(Steps)
  <2>1. Do("count0", c) \in Seq(Steps) /\ Do("wptr0", c) \in Seq(Steps) /\ Do("rptr0", c) \in Seq(Steps)
    BY <1>2
  <2> QED BY <2>1, CatFacts DEF BufFlush
<1> QED BY <1>2, <1>3, <1>4, <1>5

\* adc_update_smoothing and the flushes after it, on a channel not sampled.
ResmoothSteps(c, n) ==
  DoN("resmooth", c, n) \o (Do("unsmooth", c) \o (SetBit(c, "ready", FALSE) \o BufFlush(c)))

LEMMA ResmoothFormed ==
  ASSUME NEW c \in Channels, NEW n \in Lengths
  PROVE  /\ Formed(ResmoothSteps(c, n)) /\ ResmoothSteps(c, n) # <<>> /\ ~Preparing(ResmoothSteps(c, n))
         /\ ResmoothSteps(c, n)[1] = [op |-> "resmooth", ch |-> c, n |-> n]
<1> DEFINE x == [op |-> "resmooth", ch |-> c, n |-> n]
           y == [op |-> "unsmooth", ch |-> c]
           f == BufFlush(c)
           b == SetBit(c, "ready", FALSE) \o f
           a == <<y>> \o b
<1>1. x \in Steps /\ x.op = "resmooth" /\ x.ch = c /\ y \in Steps /\ y.op = "unsmooth" /\ y.ch = c
  BY StepKinds
<1>2. Formed(f) /\ f # <<>> /\ f[1] = [op |-> "count0", ch |-> c]
  <2>1. /\ Formed(BufFlush(c) \o <<>>) /\ BufFlush(c) \o <<>> # <<>>
        /\ (BufFlush(c) \o <<>>)[1] = [op |-> "count0", ch |-> c]
    BY NoSteps, BufFlushFormed
  <2>2. BufFlush(c) \o <<>> = BufFlush(c)
    BY NoSteps, ListTypes
  <2> QED BY <2>1, <2>2
<1>3. ~Preparing(f)
  <2>1. f = (Do("count0", c) \o Do("wptr0", c)) \o Do("rptr0", c)
    BY DEF BufFlush
  <2>2. /\ Do("count0", c) \o Do("wptr0", c) \in Seq(Steps) /\ Do("rptr0", c) \in Seq(Steps)
        /\ Len(Do("rptr0", c)) = 1 /\ Do("rptr0", c)[1].op = "rptr0"
    <3>1. Do("count0", c) \in Seq(Steps) /\ Do("wptr0", c) \in Seq(Steps) /\ Do("rptr0", c) \in Seq(Steps)
      BY ListTypes
    <3> QED BY <3>1, CatFacts DEF Do
  <2> HIDE DEF f
  <2>3. f[Len(f)].op = "rptr0"
    BY <2>1, <2>2, CatFacts
  <2> QED BY <2>3 DEF Preparing
<1> HIDE DEF f
<1>4. Formed(b) /\ b # <<>> /\ b[1] = [op |-> "loadBits", ch |-> c] /\ (Preparing(b) <=> Preparing(f))
  <2>1. Leads([op |-> "storeBits", ch |-> c, bit |-> "ready", on |-> FALSE], f[1])
    BY <1>2 DEF Leads
  <2>2. [op |-> "storeBits", ch |-> c, bit |-> "ready", on |-> FALSE] \in Steps
    BY StepKinds
  <2> QED BY <1>2, <2>1, <2>2, SetBitFormed, ZenonT(40)
<1> HIDE DEF b
<1>5. Formed(a) /\ a # <<>> /\ a[1] = y /\ (Preparing(a) <=> Preparing(b))
  <2>1. Leads(y, b[1])
    BY <1>1, <1>4 DEF Leads
  <2> HIDE DEF y
  <2> QED BY <1>1, <1>4, <2>1, ConsFormed
<1> HIDE DEF a
<1>6. Formed(<<x>> \o a) /\ <<x>> \o a # <<>> /\ (<<x>> \o a)[1] = x /\ (Preparing(<<x>> \o a) <=> Preparing(a))
  <2>1. Leads(x, a[1])
    BY <1>1, <1>5 DEF Leads
  <2> HIDE DEF x
  <2> QED BY <1>1, <1>5, <2>1, ConsFormed
<1>7. ResmoothSteps(c, n) = <<x>> \o a
  BY DEF ResmoothSteps, DoN, Do, a, b, f
<1> QED BY <1>3, <1>4, <1>5, <1>6, <1>7

\* platform_adc_stop, before what may follow it.
StopSteps(c, t) ==
  SetBit(c, "pending", FALSE) \o (SetActive(c, FALSE) \o (Do("disable", c) \o (Do("idle", c) \o t)))

LEMMA StopFormed ==
  ASSUME NEW c \in Channels, NEW t, Formed(t), ~Preparing(t), t # <<>> => t[1].op = "resmooth" /\ t[1].ch = c
  PROVE  Formed(StopSteps(c, t)) /\ ~Preparing(StopSteps(c, t))
<1> DEFINE x == [op |-> "disable", ch |-> c]
           y == [op |-> "idle", ch |-> c]
           a == <<y>> \o t
           b == <<x>> \o a
           d == SetActive(c, FALSE) \o b
           e == SetBit(c, "pending", FALSE) \o d
<1>1. x \in Steps /\ x.op = "disable" /\ x.ch = c /\ y \in Steps /\ y.op = "idle" /\ y.ch = c
  BY StepKinds
<1>2. Formed(a) /\ a # <<>> /\ a[1] = y /\ ~Preparing(a)
  <2>1. t # <<>> => Leads(y, t[1])
    BY <1>1 DEF Leads
  <2> HIDE DEF y
  <2>2. /\ Formed(a) /\ a # <<>> /\ a[1] = y /\ (t # <<>> => (Preparing(a) <=> Preparing(t)))
        /\ Len(a) = Len(t) + 1
    BY <1>1, <2>1, ConsFormed
  <2>3. t = <<>> => ~Preparing(a)
    <3>1. t = <<>> => Len(t) = 0
      OBVIOUS
    <3> QED BY <1>1, <2>2, <3>1 DEF Preparing
  <2> QED BY <2>2, <2>3
<1> HIDE DEF a
<1>3. Formed(b) /\ b # <<>> /\ b[1] = x /\ (Preparing(b) <=> Preparing(a)) /\ Len(a) \in Nat /\ Len(b) = Len(a) + 1
  <2>1. Leads(x, a[1])
    BY <1>1, <1>2 DEF Leads
  <2> HIDE DEF x
  <2> QED BY <1>1, <1>2, <2>1, ConsFormed
<1> HIDE DEF b
<1>4. /\ Formed(d) /\ d # <<>> /\ d[1] = [op |-> "loadActive", ch |-> c] /\ (Preparing(d) <=> Preparing(b))
      /\ Len(d) = Len(b) + 2 /\ \A j \in 1 .. Len(b) : d[j + 2] = b[j]
  <2>1. Leads([op |-> "storeActive", ch |-> c, on |-> FALSE], b[1])
    BY <1>1, <1>3 DEF Leads
  <2> QED BY <1>2, <1>3, <2>1, SetActiveFormed
<1> HIDE DEF d
<1>5. Formed(e) /\ (Preparing(e) <=> Preparing(d))
  <2>1. Leads([op |-> "storeBits", ch |-> c, bit |-> "pending", on |-> FALSE], d[1])
    BY <1>4 DEF Leads
  <2>2. [op |-> "storeBits", ch |-> c, bit |-> "pending", on |-> FALSE] \in Steps
    BY StepKinds
  <2>3. 1 \in 1 .. Len(b) /\ 1 + 2 \in 1 .. Len(d)
    BY <1>3, <1>4
  <2>4. \E j \in 1 .. Len(d) : d[j].op = "disable" /\ d[j].ch = c
    BY <1>1, <1>3, <1>4, <2>3
  <2> QED BY <1>4, <2>1, <2>2, <2>4, SetBitFormed
<1>6. StopSteps(c, t) = e
  BY DEF StopSteps, Do, a, b, d
<1> QED BY <1>2, <1>3, <1>4, <1>5, <1>6

\* The steps of a call that changes settings, and of stopping alone.
Tunings(c) ==
  {x \in Steps :
     /\ x.op \in {"loadBits", "storeBits", "loadActive", "storeActive", "disable", "idle",
                  "resmooth", "unsmooth", "count0", "wptr0", "rptr0"}
     /\ x.ch = c /\ (x.op = "storeBits" => x.bit # "fresh")}
Stops(c) == {x \in Tunings(c) : x.op \notin {"resmooth", "unsmooth", "count0", "wptr0"}}

LEMMA TuneTypes ==
  ASSUME NEW c \in Channels
  PROVE  /\ \A op \in {"unsmooth", "count0", "wptr0", "rptr0"} : Do(op, c) \in Seq(Tunings(c))
         /\ \A op \in {"disable", "idle"} : Do(op, c) \in Seq(Stops(c))
         /\ \A n \in Lengths : DoN("resmooth", c, n) \in Seq(Tunings(c))
         /\ \A on \in BOOLEAN, bit \in {"pending", "blocking"} : SetBit(c, bit, on) \in Seq(Stops(c))
         /\ SetBit(c, "ready", FALSE) \in Seq(Tunings(c))
         /\ SetActive(c, FALSE) \in Seq(Stops(c))
         /\ Seq(Stops(c)) \subseteq Seq(Tunings(c))
<1>1. \A S : \A x \in S, y \in S : <<x>> \in Seq(S) /\ <<x>> \o <<y>> \in Seq(S)
  OBVIOUS
<1>2. \A op \in {"unsmooth", "count0", "wptr0", "rptr0"} : [op |-> op, ch |-> c] \in Tunings(c)
  BY StepKinds DEF Tunings
<1>3. \A op \in {"disable", "idle", "loadBits", "loadActive"} : [op |-> op, ch |-> c] \in Stops(c)
  BY StepKinds DEF Tunings, Stops
<1>4. \A n \in Lengths : [op |-> "resmooth", ch |-> c, n |-> n] \in Tunings(c)
  BY StepKinds DEF Tunings
<1>5. \A on \in BOOLEAN, bit \in {"pending", "blocking"} :
        [op |-> "storeBits", ch |-> c, bit |-> bit, on |-> on] \in Stops(c)
  BY StepKinds DEF Tunings, Stops
<1>6. [op |-> "storeBits", ch |-> c, bit |-> "ready", on |-> FALSE] \in Tunings(c)
  BY StepKinds DEF Tunings
<1>7. [op |-> "storeActive", ch |-> c, on |-> FALSE] \in Stops(c)
  BY StepKinds DEF Tunings, Stops
<1>8. Stops(c) \subseteq Tunings(c) /\ Seq(Stops(c)) \subseteq Seq(Tunings(c))
  BY DEF Stops
<1>9. /\ \A op \in {"unsmooth", "count0", "wptr0", "rptr0"} : Do(op, c) \in Seq(Tunings(c))
      /\ \A op \in {"disable", "idle"} : Do(op, c) \in Seq(Stops(c))
  BY <1>1, <1>2, <1>3 DEF Do
<1>10. \A n \in Lengths : DoN("resmooth", c, n) \in Seq(Tunings(c))
  BY <1>1, <1>4 DEF DoN
<1>11. \A on \in BOOLEAN, bit \in {"pending", "blocking"} : SetBit(c, bit, on) \in Seq(Stops(c))
  BY <1>1, <1>3, <1>5 DEF SetBit, Do
<1>12. SetBit(c, "ready", FALSE) \in Seq(Tunings(c)) /\ SetActive(c, FALSE) \in Seq(Stops(c))
  BY <1>1, <1>3, <1>6, <1>7, <1>8 DEF SetBit, SetActive, Do
<1> QED BY <1>8, <1>9, <1>10, <1>11, <1>12

\* What adc.setsmoothing leaves to do on a channel not sampled.
LEMMA ResmoothIs ==
  ASSUME NEW c \in Channels, NEW n \in Lengths, NEW s \in Seq(Steps)
  PROVE  /\ s \o DoN("resmooth", c, n) \o Do("unsmooth", c) \o SetBit(c, "ready", FALSE) \o BufFlush(c)
              = s \o ResmoothSteps(c, n)
         /\ ResmoothSteps(c, n) \in Seq(Tunings(c))
<1> DEFINE r == DoN("resmooth", c, n)
           u == Do("unsmooth", c)
           b == SetBit(c, "ready", FALSE)
           f == BufFlush(c)
<1>1. r \in Seq(Steps) /\ u \in Seq(Steps) /\ b \in Seq(Steps) /\ f \in Seq(Steps)
  BY ListTypes
<1>2. r \in Seq(Tunings(c)) /\ u \in Seq(Tunings(c)) /\ b \in Seq(Tunings(c)) /\ f \in Seq(Tunings(c))
  <2>1. Do("count0", c) \in Seq(Tunings(c)) /\ Do("wptr0", c) \in Seq(Tunings(c)) /\ Do("rptr0", c) \in Seq(Tunings(c))
    BY TuneTypes
  <2>2. f \in Seq(Tunings(c))
    BY <2>1, CatFacts DEF BufFlush
  <2> QED BY <2>2, TuneTypes
<1>3. ResmoothSteps(c, n) = r \o (u \o (b \o f))
  BY DEF ResmoothSteps
<1> HIDE DEF r, u, b, f
<1>4. r \o (u \o (b \o f)) \in Seq(Tunings(c))
  BY <1>2
<1>5. (((s \o r) \o u) \o b) \o f = s \o (r \o (u \o (b \o f)))
  <2>1. \A v1, v2, v3, v4 \in Seq(Steps) : (((s \o v1) \o v2) \o v3) \o v4 = s \o (v1 \o (v2 \o (v3 \o v4)))
    BY ONLY Assoc5, s \in Seq(Steps)
  <2>2. \A v2, v3, v4 \in Seq(Steps) : (((s \o r) \o v2) \o v3) \o v4 = s \o (r \o (v2 \o (v3 \o v4)))
    BY ONLY <1>1, <2>1
  <2>3. \A v3, v4 \in Seq(Steps) : (((s \o r) \o u) \o v3) \o v4 = s \o (r \o (u \o (v3 \o v4)))
    BY ONLY <1>1, <2>2
  <2>4. \A v4 \in Seq(Steps) : (((s \o r) \o u) \o b) \o v4 = s \o (r \o (u \o (b \o v4)))
    BY ONLY <1>1, <2>3
  <2> QED BY ONLY <1>1, <2>4
<1> QED BY <1>3, <1>4, <1>5 DEF r, u, b, f

\* platform_adc_stop: the converter is told after the bits are changed.
LEMMA StopIs ==
  ASSUME NEW c \in Channels, NEW t \in Seq(Steps)
  PROVE  /\ PlatformAdcStop(c) \o t = StopSteps(c, t)
         /\ PlatformAdcStop(c) \in Seq(Stops(c)) /\ PlatformAdcStop(c) \in Seq(Steps)
         /\ \E j \in 1 .. Len(PlatformAdcStop(c)) : PlatformAdcStop(c)[j].op = "disable"
<1> DEFINE b == SetBit(c, "pending", FALSE)
           a == SetActive(c, FALSE)
           x == Do("disable", c)
           y == Do("idle", c)
<1>1. /\ b \in Seq(Steps) /\ a \in Seq(Steps) /\ x \in Seq(Steps) /\ y \in Seq(Steps)
      /\ Len(x) = 1 /\ x[1].op = "disable"
  <2>1. x \in Seq(Steps) /\ y \in Seq(Steps) /\ a \in Seq(Steps) /\ b \in Seq(Steps)
    BY ListTypes
  <2> QED BY <2>1 DEF Do
<1>2. b \in Seq(Stops(c)) /\ a \in Seq(Stops(c)) /\ x \in Seq(Stops(c)) /\ y \in Seq(Stops(c))
  BY TuneTypes
<1>3. PlatformAdcStop(c) = ((b \o a) \o x) \o y
  BY DEF PlatformAdcStop
<1>4. StopSteps(c, t) = b \o (a \o (x \o (y \o t)))
  BY DEF StopSteps
<1> HIDE DEF b, a, x, y
<1>5. ((b \o a) \o x) \o y \in Seq(Stops(c)) /\ ((b \o a) \o x) \o y \in Seq(Steps)
  BY <1>1, <1>2
<1>6. (((b \o a) \o x) \o y) \o t = b \o (a \o (x \o (y \o t)))
  <2>1. \A v1, v2, v3, v4 \in Seq(Steps) : (((b \o v1) \o v2) \o v3) \o v4 = b \o (v1 \o (v2 \o (v3 \o v4)))
    BY ONLY Assoc5, <1>1
  <2>2. \A v2, v3, v4 \in Seq(Steps) : (((b \o a) \o v2) \o v3) \o v4 = b \o (a \o (v2 \o (v3 \o v4)))
    BY ONLY <1>1, <2>1
  <2>3. \A v3, v4 \in Seq(Steps) : (((b \o a) \o x) \o v3) \o v4 = b \o (a \o (x \o (v3 \o v4)))
    BY ONLY <1>1, <2>2
  <2>4. \A v4 \in Seq(Steps) : (((b \o a) \o x) \o y) \o v4 = b \o (a \o (x \o (y \o v4)))
    BY ONLY <1>1, <2>3
  <2> QED BY ONLY <2>4, t \in Seq(Steps)
<1>7. b \o a \in Seq(Steps)
  BY <1>1
<1>8. \E j \in 1 .. Len(((b \o a) \o x) \o y) : (((b \o a) \o x) \o y)[j] = x[1]
  <2> DEFINE p == b \o a
  <2>1. \A v \in Seq(Steps) : \E j \in 1 .. Len((p \o x) \o v) : ((p \o x) \o v)[j] = x[1]
    <3> HIDE DEF p
    <3>1. p \in Seq(Steps)
      BY <1>7 DEF p
    <3>2. x \in Seq(Steps) /\ Len(x) = 1
      BY <1>1
    <3> QED BY ONLY <3>1, <3>2, InList
  <2>2. y \in Seq(Steps)
    BY <1>1
  <2> HIDE DEF p
  <2>3. \E j \in 1 .. Len((p \o x) \o y) : ((p \o x) \o y)[j] = x[1]
    BY ONLY <2>1, <2>2
  <2> QED BY <2>3 DEF p
<1> QED BY <1>1, <1>3, <1>4, <1>5, <1>6, <1>8

\* adc_get_processed_sample: the steps put before those for the next samples.
LEMMA ProcessFormed ==
  ASSUME NEW c \in Channels, NEW t, Formed(t), t # <<>> => t[1].op = "process" /\ t[1].ch = c
  PROVE  /\ Formed(Do("return", c) \o t)
         /\ Formed((Do("pick", c) \o <<>> \o Finish(c)) \o t)
         /\ Formed((Do("pick", c) \o Do("smooth", c) \o Finish(c)) \o t)
<1> DEFINE r == [op |-> "return", ch |-> c]
           d == [op |-> "countDown", ch |-> c]
           m == [op |-> "smooth", ch |-> c]
           p == [op |-> "pick", ch |-> c]
           a == <<r>> \o t
           b == <<d>> \o a
           e == <<m>> \o b
<1>1. /\ r \in Steps /\ r.op = "return" /\ r.ch = c /\ d \in Steps /\ d.op = "countDown" /\ d.ch = c
      /\ m \in Steps /\ m.op = "smooth" /\ m.ch = c /\ p \in Steps /\ p.op = "pick" /\ p.ch = c
  BY StepKinds
<1>2. Formed(a) /\ a # <<>> /\ a[1] = r
  <2>1. t # <<>> => Leads(r, t[1])
    BY <1>1 DEF Leads
  <2> HIDE DEF r
  <2> QED BY <1>1, <2>1, ConsFormed
<1> HIDE DEF a
<1>3. Formed(b) /\ b # <<>> /\ b[1] = d
  <2>1. Leads(d, a[1])
    BY <1>1, <1>2 DEF Leads
  <2> HIDE DEF d
  <2> QED BY <1>1, <1>2, <2>1, ConsFormed
<1> HIDE DEF b
<1>4. Formed(e) /\ e # <<>> /\ e[1] = m
  <2>1. Leads(m, b[1])
    BY <1>1, <1>3 DEF Leads
  <2> HIDE DEF m
  <2> QED BY <1>1, <1>3, <2>1, ConsFormed
<1> HIDE DEF e
<1>5. Formed(<<p>> \o b)
  <2>1. Leads(p, b[1])
    BY <1>1, <1>3 DEF Leads
  <2> HIDE DEF p
  <2> QED BY <1>1, <1>3, <2>1, ConsFormed
<1>6. Formed(<<p>> \o e)
  <2>1. Leads(p, e[1])
    BY <1>1, <1>4 DEF Leads
  <2> HIDE DEF p
  <2> QED BY <1>1, <1>4, <2>1, ConsFormed
<1>7. Finish(c) \in Seq(Steps) /\ Finish(c) \o t = b
  <2>1. <<d>> \in Seq(Steps) /\ <<r>> \in Seq(Steps) /\ t \in Seq(Steps)
    BY <1>1 DEF Formed
  <2>2. (<<d>> \o <<r>>) \o t = <<d>> \o (<<r>> \o t)
    BY ONLY <2>1, Assoc
  <2>3. <<d>> \o <<r>> \in Seq(Steps)
    BY ONLY <2>1, CatFacts
  <2> QED BY <2>2, <2>3 DEF Finish, Do, a, b
<1>8. /\ Do("pick", c) \in Seq(Steps) /\ Do("smooth", c) \in Seq(Steps) /\ t \in Seq(Steps)
      /\ Do("pick", c) = <<p>> /\ Do("smooth", c) = <<m>> /\ Do("return", c) = <<r>>
  BY ListTypes DEF Do, Formed
<1>9. (Do("pick", c) \o <<>> \o Finish(c)) \o t = <<p>> \o b
  <2>1. Do("pick", c) \o <<>> = Do("pick", c)
    BY <1>8, NoSteps
  <2>2. (Do("pick", c) \o Finish(c)) \o t = Do("pick", c) \o (Finish(c) \o t)
    <3> DEFINE x == Do("pick", c)
               y == Finish(c)
    <3>1. x \in Seq(Steps) /\ y \in Seq(Steps) /\ t \in Seq(Steps)
      BY <1>7, <1>8
    <3> HIDE DEF x, y
    <3>2. (x \o y) \o t = x \o (y \o t)
      BY ONLY <3>1, Assoc
    <3> QED BY <3>2 DEF x, y
  <2> QED BY <1>7, <1>8, <2>1, <2>2
<1>10. (Do("pick", c) \o Do("smooth", c) \o Finish(c)) \o t = <<p>> \o e
  <2> DEFINE f == Finish(c)
             x == Do("pick", c)
             y == Do("smooth", c)
  <2>1. x \in Seq(Steps) /\ y \in Seq(Steps) /\ f \in Seq(Steps) /\ t \in Seq(Steps)
    BY <1>7, <1>8
  <2> HIDE DEF f, x, y
  <2>2. ((x \o y) \o f) \o t = x \o (y \o (f \o t))
    <3>1. \A a2, a3, a4 \in Seq(Steps) : ((x \o a2) \o a3) \o a4 = x \o (a2 \o (a3 \o a4))
      BY ONLY <2>1, Assoc3
    <3>2. \A a3, a4 \in Seq(Steps) : ((x \o y) \o a3) \o a4 = x \o (y \o (a3 \o a4))
      BY ONLY <2>1, <3>1
    <3>3. \A a4 \in Seq(Steps) : ((x \o y) \o f) \o a4 = x \o (y \o (f \o a4))
      BY ONLY <2>1, <3>2
    <3> QED BY ONLY <2>1, <3>3
  <2> QED BY <1>7, <1>8, <2>2 DEF f, x, y, e
<1> QED BY <1>2, <1>5, <1>6, <1>8, <1>9, <1>10 DEF a

\* The sample is taken from the fresh value or from the buffer.
LEMMA PickFormed ==
  ASSUME NEW c \in Channels, NEW t, Formed(t), t # <<>> => t[1].op \in {"smooth", "countDown"} /\ t[1].ch = c
  PROVE  Formed(TakeFresh(c) \o t) /\ Formed(BufRead(c) \o t) /\ Formed(<<>> \o t)
<1> DEFINE x == [op |-> "copyFresh", ch |-> c]
           b == SetBit(c, "fresh", FALSE)
           u == [op |-> "copy", ch |-> c]
           v == [op |-> "decrement", ch |-> c]
           w == [op |-> "advance", ch |-> c]
           f == b \o t
           g == <<w>> \o t
           h == <<v>> \o g
<1>1. /\ x \in Steps /\ x.op = "copyFresh" /\ x.ch = c /\ u \in Steps /\ u.op = "copy" /\ u.ch = c
      /\ v \in Steps /\ v.op = "decrement" /\ v.ch = c /\ w \in Steps /\ w.op = "advance" /\ w.ch = c
  BY StepKinds
<1>2. Formed(f) /\ f # <<>> /\ f[1] = [op |-> "loadBits", ch |-> c]
  <2>1. t # <<>> => Leads([op |-> "storeBits", ch |-> c, bit |-> "fresh", on |-> FALSE], t[1])
    BY DEF Leads
  <2>2. [op |-> "storeBits", ch |-> c, bit |-> "fresh", on |-> FALSE] \in Steps
    BY StepKinds
  <2>3. "fresh" # "pending"
    OBVIOUS
  <2>4. /\ Formed(SetBit(c, "fresh", FALSE) \o t) /\ SetBit(c, "fresh", FALSE) \o t # <<>>
        /\ (SetBit(c, "fresh", FALSE) \o t)[1] = [op |-> "loadBits", ch |-> c]
    BY ONLY c \in Channels, FALSE \in BOOLEAN, Formed(t), <2>1, <2>2, <2>3, SetBitFormed
  <2> QED BY <2>4 DEF f, b
<1> HIDE DEF f
<1>3. Formed(<<x>> \o f)
  <2>1. Leads(x, f[1])
    BY <1>1, <1>2 DEF Leads
  <2> HIDE DEF x
  <2> QED BY <1>1, <1>2, <2>1, ConsFormed
<1>4. Formed(g) /\ g # <<>> /\ g[1] = w
  <2>1. t # <<>> => Leads(w, t[1])
    BY <1>1 DEF Leads
  <2> HIDE DEF w
  <2> QED BY <1>1, <2>1, ConsFormed
<1> HIDE DEF g
<1>5. Formed(h) /\ h # <<>> /\ h[1] = v
  <2>1. Leads(v, g[1])
    BY <1>1, <1>4 DEF Leads
  <2> HIDE DEF v
  <2> QED BY <1>1, <1>4, <2>1, ConsFormed
<1> HIDE DEF h
<1>6. Formed(<<u>> \o h)
  <2>1. Leads(u, h[1])
    BY <1>1, <1>5 DEF Leads
  <2> HIDE DEF u
  <2> QED BY <1>1, <1>5, <2>1, ConsFormed
<1>7. b \in Seq(Steps) /\ t \in Seq(Steps) /\ <<x>> \in Seq(Steps) /\ Do("copyFresh", c) = <<x>>
  BY <1>1, ListTypes DEF Formed, Do
<1>8. TakeFresh(c) \o t = <<x>> \o f
  <2>1. TakeFresh(c) = <<x>> \o b
    BY <1>7 DEF TakeFresh
  <2> HIDE DEF b, x
  <2>2. (<<x>> \o b) \o t = <<x>> \o (b \o t)
    BY ONLY <1>7, Assoc
  <2> QED BY <2>1, <2>2 DEF f, b
<1>9. BufRead(c) \o t = <<u>> \o h
  <2>1. <<u>> \in Seq(Steps) /\ <<v>> \in Seq(Steps) /\ <<w>> \in Seq(Steps)
    BY <1>1
  <2>2. BufRead(c) = (<<u>> \o <<v>>) \o <<w>>
    BY DEF BufRead, Do
  <2> HIDE DEF u, v, w
  <2>3. ((<<u>> \o <<v>>) \o <<w>>) \o t = <<u>> \o (<<v>> \o (<<w>> \o t))
    BY ONLY <1>7, <2>1, Assoc3
  <2> QED BY <2>2, <2>3 DEF g, h
<1>10. <<>> \o t = t
  BY <1>7, NoSteps
<1> QED BY <1>3, <1>6, <1>8, <1>9, <1>10

\* adc.getsamples: a turn of its loop for each sample.
LEMMA WaitFormed ==
  ASSUME NEW c \in Channels, NEW m \in Nat
  PROVE  Formed([k \in 1 .. m |-> [op |-> "process", ch |-> c]])
         /\ Len([k \in 1 .. m |-> [op |-> "process", ch |-> c]]) = m
<1> DEFINE x == [op |-> "process", ch |-> c]
           s == [k \in 1 .. m |-> x]
<1>1. x \in Steps /\ x.op = "process" /\ x.ch = c
  BY StepKinds
<1> HIDE DEF x
<1>2. s \in Seq(Steps) /\ Len(s) = m /\ \A i \in 1 .. m : s[i] = x
  BY <1>1
<1> HIDE DEF s
<1>3. \A i \in 1 .. m : Placed(s, i)
  BY <1>1, <1>2 DEF Placed
<1>4. Leads(x, x)
  BY <1>1 DEF Leads
<1>5. \A i \in 1 .. m - 1 : Leads(s[i], s[i + 1])
  <2> SUFFICES ASSUME NEW i \in 1 .. m - 1 PROVE Leads(s[i], s[i + 1])
    OBVIOUS
  <2>1. i \in 1 .. m /\ i + 1 \in 1 .. m
    OBVIOUS
  <2> QED BY <1>2, <1>4, <2>1
<1> QED BY <1>2, <1>3, <1>5 DEF Formed, Linked, s, x

\* adc.sample: a set-up for each channel, then the start.
LEMMA SampleFormed ==
  ASSUME NEW list \in Lists, NEW n \in Counts
  PROVE  LET s == [k \in DOMAIN list |-> [op |-> "setup", ch |-> list[k], n |-> n]] \o StartSequence
         IN /\ Formed(s) /\ Preparing(s) /\ s[1].op = "setup"
            /\ \A i \in 1 .. Len(s) : s[i].op = "start" \/ (s[i].op = "setup" /\ s[i].ch \in Range(list))
<1> DEFINE m == Len(list)
           x(k) == [op |-> "setup", ch |-> list[k], n |-> n]
           r == [k \in DOMAIN list |-> x(k)]
           s == r \o StartSequence
<1>1. /\ list \in Seq(Channels) /\ m \in Nat \ {0} /\ DOMAIN list = 1 .. m
      /\ \A i, j \in 1 .. m : i # j => list[i] # list[j]
  <2>1. CASE \E c \in Channels : list = <<c>>
    <3>1. PICK c \in Channels : list = <<c>>
      BY <2>1
    <3> QED BY <3>1
  <2>2. CASE \E p \in Channels \X Channels : p[1] # p[2] /\ list = <<p[1], p[2]>>
    <3>1. PICK p \in Channels \X Channels : p[1] # p[2] /\ list = <<p[1], p[2]>>
      BY <2>2
    <3>2. list \in Seq(Channels) /\ Len(list) = 2 /\ list[1] = p[1] /\ list[2] = p[2]
      BY <3>1
    <3>3. \A i \in 1 .. 2 : i = 1 \/ i = 2
      OBVIOUS
    <3> QED BY <3>1, <3>2, <3>3
  <2> QED BY <2>1, <2>2 DEF Lists
<1>2. \A k \in 1 .. m : x(k) \in Steps /\ x(k).op = "setup" /\ x(k).ch = list[k] /\ list[k] \in Range(list)
  <2> SUFFICES ASSUME NEW k \in 1 .. m
               PROVE  x(k) \in Steps /\ x(k).op = "setup" /\ x(k).ch = list[k] /\ list[k] \in Range(list)
    OBVIOUS
  <2>1. list[k] \in Channels /\ list[k] \in Range(list)
    BY <1>1 DEF Range
  <2>2. x(k) \in Steps
    BY <2>1, StepKinds
  <2> QED BY <2>1, <2>2
<1> HIDE DEF x
<1>3. r \in Seq(Steps) /\ Len(r) = m /\ \A k \in 1 .. m : r[k] = x(k)
  BY <1>1, <1>2
<1> HIDE DEF r, m
<1>4. StartSequence \in Seq(Steps) /\ Len(StartSequence) = 1 /\ StartSequence[1].op = "start"
  <2>1. [op |-> "start"] \in Steps
    BY DEF Steps
  <2> QED BY <2>1 DEF StartSequence
<1>5. s \in Seq(Steps) /\ Len(s) = m + 1 /\ s[m + 1] = StartSequence[1] /\ \A k \in 1 .. m : s[k] = x(k)
  <2>1. s \in Seq(Steps) /\ Len(s) = Len(r) + Len(StartSequence) /\ \A k \in 1 .. Len(r) : s[k] = r[k]
    BY ONLY <1>3, <1>4, CatFacts
  <2>2. \A i \in 1 .. Len(StartSequence) : s[Len(r) + i] = StartSequence[i]
    BY ONLY <1>3, <1>4, CatFacts
  <2>3. 1 \in 1 .. Len(StartSequence)
    BY <1>4
  <2>4. s[Len(r) + 1] = StartSequence[1]
    BY ONLY <2>2, <2>3
  <2> HIDE DEF s
  <2> QED BY <1>3, <1>4, <2>1, <2>4
<1> HIDE DEF s
<1>6. s # <<>> /\ Preparing(s)
  <2>1. s # <<>>
    BY <1>1, <1>5, 1 \in 1 .. Len(s), NotEmpty
  <2> QED BY <1>4, <1>5, <2>1 DEF Preparing
<1>7. ASSUME NEW i \in 1 .. Len(s) - 1 PROVE Leads(s[i], s[i + 1])
  <2>1. i \in 1 .. m /\ (i + 1 \in 1 .. m \/ i + 1 = m + 1)
    BY <1>1, <1>5
  <2>2. s[i] = x(i) /\ s[i].op = "setup" /\ s[i + 1].op \in {"setup", "start"}
    BY <1>2, <1>4, <1>5, <2>1
  <2> QED BY <2>2 DEF Leads
<1>8. ASSUME NEW i \in 1 .. Len(s) PROVE Placed(s, i)
  <2>1. CASE i = m + 1
    BY <1>4, <1>5, <2>1 DEF Placed
  <2>2. CASE i \in 1 .. m
    <3>1. s[i].op = "setup" /\ s[i].ch = list[i]
      BY <1>2, <1>5, <2>2
    <3>2. \A j \in i + 1 .. Len(s) : s[j].op # "start" => s[j].ch # list[i]
      <4> SUFFICES ASSUME NEW j \in i + 1 .. Len(s), s[j].op # "start" PROVE s[j].ch # list[i]
        OBVIOUS
      <4>1. j \in 1 .. m /\ j # i
        <5>1. j # m + 1
          BY <1>4, <1>5
        <5> QED BY <1>1, <1>5, <2>2, <5>1
      <4>2. s[j].ch = list[j]
        BY <1>2, <1>5, <4>1
      <4> QED BY <1>1, <2>2, <4>1, <4>2 DEF m
    <3> QED BY <1>6, <3>1, <3>2 DEF Placed
  <2> QED BY <1>1, <1>5, <2>1, <2>2
<1>9. Formed(s)
  BY <1>5, <1>7, <1>8 DEF Formed, Linked
<1>10. \A i \in 1 .. Len(s) : s[i].op = "start" \/ (s[i].op = "setup" /\ s[i].ch \in Range(list))
  <2> SUFFICES ASSUME NEW i \in 1 .. Len(s)
               PROVE  s[i].op = "start" \/ (s[i].op = "setup" /\ s[i].ch \in Range(list))
    OBVIOUS
  <2>1. i \in 1 .. m \/ i = m + 1
    BY <1>1, <1>5
  <2> QED BY <1>2, <1>4, <1>5, <2>1
<1>11. s[1].op = "setup"
  BY <1>1, <1>2, <1>5
<1> QED BY <1>6, <1>9, <1>10, <1>11 DEF s, r, x

\* What a step of a kind has.
LEMMA Fields ==
  ASSUME NEW x \in Steps
  PROVE  /\ x.op # "start" => x.ch \in Channels
         /\ x.op \in {"setup", "size", "realloc", "request"} => x.n \in Counts
         /\ x.op = "wait" => x.n \in {0} \union Counts
         /\ x.op = "resmooth" => x.n \in Lengths
         /\ x.op = "storeBits" =>
              x.bit \in Bits /\ x.on \in BOOLEAN /\ (x.bit \in {"fresh", "ready"} => ~x.on)
         /\ x.op = "storeActive" => x.on \in BOOLEAN
  BY DEF Steps, OnChannel, OnBit, Bits

\* The step to come, and those after it.
LEMMA Ahead ==
  ASSUME Formed(todo), todo # <<>>
  PROVE  /\ Now = todo[1] /\ Now \in Steps /\ todo \in Seq(Steps) /\ Len(todo) \in Nat \ {0} /\ 1 \in 1 .. Len(todo)
         /\ Tail(todo) \in Seq(Steps) /\ Len(Tail(todo)) = Len(todo) - 1
         /\ \A i \in 1 .. Len(todo) - 1 : Tail(todo)[i] = todo[i + 1]
         /\ Formed(Tail(todo)) /\ Placed(todo, 1)
         /\ Tail(todo) # <<>> =>
              /\ Preparing(Tail(todo)) <=> Preparing(todo)
              /\ Leads(Now, Tail(todo)[1]) /\ 2 \in 1 .. Len(todo)
<1>1. todo \in Seq(Steps)
  BY DEF Formed
<1>2. /\ Tail(todo) \in Seq(Steps) /\ Len(todo) \in Nat \ {0} /\ Now = todo[1] /\ Now \in Steps
      /\ Len(Tail(todo)) = Len(todo) - 1
      /\ \A i \in 1 .. Len(todo) - 1 : Tail(todo)[i] = todo[i + 1]
  BY <1>1, TailFacts DEF Now
<1>3. 1 \in 1 .. Len(todo)
  BY <1>2
<1>4. Placed(todo, 1)
  BY <1>3 DEF Formed, Linked
<1>5. /\ Formed(Tail(todo)) /\ (Tail(todo) # <<>> => (Preparing(Tail(todo)) <=> Preparing(todo)))
      /\ Tail(todo) # <<>> => Leads(todo[1], todo[2]) /\ Head(Tail(todo)) = todo[2] /\ 2 \in 1 .. Len(todo)
  BY TailFormed
<1>6. Tail(todo) # <<>> => Tail(todo)[1] = todo[2]
  <2>1. Tail(todo) # <<>> => 1 \in 1 .. Len(todo) - 1
    BY <1>2, <1>5
  <2>2. 1 + 1 = 2
    OBVIOUS
  <2> QED BY <1>2, <2>1, <2>2
<1> QED BY <1>1, <1>2, <1>3, <1>4, <1>5, <1>6

\* A step with no others put before the rest.
LEMMA ThenNothing ==
  ASSUME Formed(todo), todo # <<>>, Then(<<>>)
  PROVE  todo' = Tail(todo)
<1>1. Tail(todo) \in Seq(Steps)
  BY Ahead
<1> QED BY <1>1, NoSteps DEF Then

LEMMA SetupForms ==
  ASSUME Formed(todo), Setup
  PROVE  Formed(todo')
<1> DEFINE t == Tail(todo)
           c == Now.ch
           n == Now.n
<1>1. todo # <<>> /\ Now.op = "setup"
  BY DEF Setup, Doing
<1>2. /\ Now \in Steps /\ Formed(t) /\ Placed(todo, 1) /\ Now = todo[1]
      /\ t # <<>> => (Preparing(t) <=> Preparing(todo)) /\ Leads(Now, t[1])
      /\ Len(t) = Len(todo) - 1 /\ Len(todo) \in Nat \ {0} /\ todo \in Seq(Steps)
      /\ \A i \in 1 .. Len(t) : t[i] = todo[i + 1]
  BY <1>1, Ahead
<1>3. c \in Channels /\ n \in Counts
  BY <1>1, <1>2, Fields
<1>4. Preparing(todo) /\ \A j \in 2 .. Len(todo) : todo[j].op # "start" => todo[j].ch # c
  BY <1>1, <1>2 DEF Placed
<1>5. t # <<>>
  <2> HIDE DEF t
  <2> SUFFICES ASSUME t = <<>> PROVE FALSE
    OBVIOUS
  <2>1. Len(t) = 0
    OBVIOUS
  <2>2. Len(todo) = 1
    BY ONLY <1>2, <2>1
  <2> QED BY <1>1, <1>2, <1>4, <2>2 DEF Preparing
<1>6. Preparing(t) /\ t[1].op \in {"setup", "start"}
  BY <1>1, <1>2, <1>4, <1>5 DEF Leads
<1>7. \A j \in 1 .. Len(t) : t[j].op # "start" => t[j].ch # c
  <2> SUFFICES ASSUME NEW j \in 1 .. Len(t), t[j].op # "start" PROVE t[j].ch # c
    OBVIOUS
  <2>1. j + 1 \in 2 .. Len(todo)
    BY <1>2
  <2> QED BY <1>2, <1>4, <2>1
<1> HIDE DEF t, c, n
<1>8. /\ Formed(SetupChannel(c, n) \o t)
      /\ Formed((BufSet(c, n) \o BufFlush(c) \o SetupChannel(c, n)) \o t)
  BY <1>2, <1>3, <1>6, <1>7, SetupFormed
<1>9. CASE n # Mine.buf.size
  <2>1. todo' = (BufSet(c, n) \o BufFlush(c) \o SetupChannel(c, n)) \o t
    BY <1>9 DEF Setup, Then, t, c, n
  <2> QED BY <1>8, <2>1
<1>10. CASE n = Mine.buf.size
  <2>1. todo' = (<<>> \o SetupChannel(c, n)) \o t
    BY <1>10 DEF Setup, Then, t, c, n
  <2>2. SetupChannel(c, n) \in Seq(Steps)
    <3>1. SetBit(c, "pending", TRUE) \in Seq(Steps) /\ SetActive(c, TRUE) \in Seq(Steps)
      BY <1>3, ListTypes
    <3>2. DoN("request", c, n) \in Seq(Steps)
      <4>1. [op |-> "request", ch |-> c, n |-> n] \in Steps
        BY <1>3, StepKinds
      <4> QED BY <4>1 DEF DoN
    <3> QED BY <3>1, <3>2, CatFacts DEF SetupChannel
  <2>3. <<>> \o SetupChannel(c, n) = SetupChannel(c, n)
    BY <2>2, NoSteps
  <2> QED BY <1>8, <2>1, <2>3
<1> QED BY <1>9, <1>10

LEMMA WaitForms ==
  ASSUME Formed(todo), Wait, \A c \in Channels : Available(ch[c]) \in Nat, Counts \subseteq Nat
  PROVE  Formed(todo')
<1> DEFINE t == Tail(todo)
           m == IF Now.n = 0 THEN Available(Mine) ELSE Smaller(Now.n, Available(Mine))
           s == [k \in 1 .. m |-> [op |-> "process", ch |-> Now.ch]]
<1>1. todo # <<>> /\ Now.op = "wait"
  BY DEF Wait, Doing
<1>2. Now \in Steps /\ (t # <<>> => Leads(Now, t[1]))
  BY <1>1, Ahead
<1>3. t = <<>>
  BY <1>1, <1>2 DEF Leads
<1>4. Now.ch \in Channels /\ Now.n \in Nat
  <2>1. Now.ch \in Channels /\ Now.n \in {0} \union Counts
    BY <1>1, <1>2, Fields
  <2>2. \A k \in {0} \union Counts : k \in Nat
    OBVIOUS
  <2> QED BY ONLY <2>1, <2>2
<1>5. m \in Nat
  BY <1>4 DEF Mine, Smaller
<1>6. todo' = s \o t
  BY DEF Wait, Then
<1> HIDE DEF m
<1>7. Formed(s)
  BY <1>4, <1>5, WaitFormed
<1>8. s \o <<>> = s
  BY <1>7, NoSteps DEF Formed
<1> QED BY <1>3, <1>6, <1>7, <1>8

LEMMA ProcessForms ==
  ASSUME Formed(todo), Process
  PROVE  Formed(todo')
<1> DEFINE t == Tail(todo)
           c == Now.ch
<1>1. todo # <<>> /\ Now.op = "process"
  BY DEF Process, Doing
<1>2. Now \in Steps /\ Formed(t) /\ (t # <<>> => Leads(Now, t[1]))
  BY <1>1, Ahead
<1>3. c \in Channels /\ (t # <<>> => t[1].op = "process" /\ t[1].ch = c)
  BY <1>1, <1>2, Fields DEF Leads
<1>4. \/ todo' = Do("return", c) \o t
      \/ todo' = (Do("pick", c) \o <<>> \o Finish(c)) \o t
      \/ todo' = (Do("pick", c) \o Do("smooth", c) \o Finish(c)) \o t
  BY DEF Process, Then
<1> HIDE DEF t, c
<1> QED BY <1>2, <1>3, <1>4, ProcessFormed

LEMMA PickForms ==
  ASSUME Formed(todo), Pick
  PROVE  Formed(todo')
<1> DEFINE t == Tail(todo)
           c == Now.ch
<1>1. todo # <<>> /\ Now.op = "pick"
  BY DEF Pick, Doing
<1>2. Now \in Steps /\ Formed(t) /\ (t # <<>> => Leads(Now, t[1]))
  BY <1>1, Ahead
<1>3. c \in Channels /\ (t # <<>> => t[1].op \in {"smooth", "countDown"} /\ t[1].ch = c)
  BY <1>1, <1>2, Fields DEF Leads
<1>4. todo' = TakeFresh(c) \o t \/ todo' = BufRead(c) \o t \/ todo' = <<>> \o t
  BY DEF Pick, Then
<1> HIDE DEF t, c
<1> QED BY <1>2, <1>3, <1>4, PickFormed

\* The steps of a call leave the rest of it well formed.
LEMMA StepForms ==
  ASSUME Formed(todo), Step, \A c \in Channels : Available(ch[c]) \in Nat, Counts \subseteq Nat
  PROVE  Formed(todo')
<1>1. todo # <<>>
  BY DEF Step, Doing, LoadBits, StoreBits, LoadActive, StoreActive, Setup, SetSize, Realloc, ZeroCount, ZeroWptr,
     ZeroRptr, Request, Start, Disable, Idle, Wait, Process, Pick, CopyFresh, Copy, Decrement, Advance, Smooth,
     CountDown, Return, Resmooth, Unsmooth
<1>2. Formed(Tail(todo)) /\ Formed(<<>>)
  BY <1>1, Ahead, NoSteps
<1>3. CASE Then(<<>>)
  BY <1>1, <1>2, <1>3, ThenNothing
<1>4. CASE todo' = <<>>
  BY <1>2, <1>4
<1>5. CASE Setup \/ Wait \/ Process \/ Pick
  BY <1>5, SetupForms, WaitForms, ProcessForms, PickForms
<1>6. Then(<<>>) \/ todo' = <<>> \/ Setup \/ Wait \/ Process \/ Pick
  BY DEF Step, LoadBits, StoreBits, LoadActive, StoreActive, SetSize, Realloc, ZeroCount, ZeroWptr,
     ZeroRptr, Request, Start, Disable, Idle, CopyFresh, Copy, Copied, Decrement, Advance, Smooth,
     CountDown, Return, Resmooth, Unsmooth
<1> QED BY <1>3, <1>4, <1>5, <1>6

\* What a call of the program may be.
LEMMA CallKinds ==
  ASSUME Calls
  PROVE  \/ \E list \in Lists, n \in Counts : AdcSample(list, n)
         \/ \E c \in Channels, n \in {0} \union Counts : AdcGetSamples(c, n)
         \/ \E c \in Channels, on \in BOOLEAN : AdcSetBlocking(c, on)
         \/ \E c \in Channels, n \in Lengths : AdcSetSmoothing(c, n)
         \/ \E c \in Channels : AdcSetClock(c)
  BY DEF Calls

\* The call of one step that waits, and those that change settings.
LEMMA GetForms ==
  ASSUME NEW c \in Channels, NEW n \in {0} \union Counts
  PROVE  LET s == DoN("wait", c, n)
         IN Formed(s) /\ ~Preparing(s) /\ Len(s) = 1 /\ s[1] = [op |-> "wait", ch |-> c, n |-> n]
<1> DEFINE x == [op |-> "wait", ch |-> c, n |-> n]
<1>1. x \in Steps /\ x.op = "wait"
  BY StepKinds
<1>2. DoN("wait", c, n) = <<x>>
  BY DEF DoN
<1> HIDE DEF x
<1>3. <<x>> \in Seq(Steps) /\ Len(<<x>>) = 1 /\ <<x>>[1] = x
  BY <1>1
<1>4. <<x>> \o <<>> = <<x>>
  BY <1>3, NoSteps
<1>5. Formed(<<x>> \o <<>>)
  BY <1>1, NoSteps, ConsFormed
<1>6. ~Preparing(<<x>>)
  BY <1>1, <1>3 DEF Preparing
<1> QED BY <1>2, <1>3, <1>4, <1>5, <1>6 DEF x

LEMMA BlockingForms ==
  ASSUME NEW c \in Channels, NEW on \in BOOLEAN
  PROVE  LET s == SetBit(c, "blocking", on)
         IN Formed(s) /\ ~Preparing(s) /\ s \in Seq(Stops(c)) /\ s # <<>> /\ s[1].op = "loadBits"
<1> DEFINE s == SetBit(c, "blocking", on)
           x == [op |-> "storeBits", ch |-> c, bit |-> "blocking", on |-> on]
           l == [op |-> "loadBits", ch |-> c]
<1>1. s \in Seq(Steps) /\ s \in Seq(Stops(c)) /\ x \in Steps /\ l \in Steps
  BY ListTypes, TuneTypes, StepKinds
<1>2. s \o <<>> = s
  BY <1>1, NoSteps
<1>3. Formed(s \o <<>>) /\ s \o <<>> # <<>> /\ (s \o <<>>)[1] = [op |-> "loadBits", ch |-> c]
  <2>1. /\ [op |-> "storeBits", ch |-> c, bit |-> "blocking", on |-> on] \in Steps
        /\ "blocking" # "pending" /\ Formed(<<>>)
    BY <1>1, NoSteps
  <2> HIDE DEF s, x, l
  <2>2. ASSUME NEW t, t = <<>>, NEW bit, bit = "blocking"
        PROVE  /\ Formed(SetBit(c, bit, on) \o t) /\ SetBit(c, bit, on) \o t # <<>>
               /\ (SetBit(c, bit, on) \o t)[1] = [op |-> "loadBits", ch |-> c]
    <3>1. Formed(t) /\ [op |-> "storeBits", ch |-> c, bit |-> bit, on |-> on] \in Steps
      BY <2>1, <2>2
    <3>2. t # <<>> => Leads([op |-> "storeBits", ch |-> c, bit |-> bit, on |-> on], t[1])
      BY <2>2
    <3>3. bit = "pending" =>
            IF on THEN Preparing(t) ELSE \E j \in 1 .. Len(t) : t[j].op = "disable" /\ t[j].ch = c
      BY ONLY <2>2
    <3> QED BY ONLY c \in Channels, on \in BOOLEAN, <3>1, <3>2, <3>3, SetBitFormed
  <2> QED BY <2>2 DEF s
<1>4. ~Preparing(s)
  <2>1. s = <<l>> \o <<x>>
    BY DEF SetBit, Do
  <2>2. <<l>> \in Seq(Steps) /\ <<x>> \in Seq(Steps) /\ Len(<<l>>) = 1 /\ Len(<<x>>) = 1 /\ <<x>>[1] = x /\ x.op = "storeBits"
    BY <1>1
  <2> HIDE DEF s, x, l
  <2>3. Len(s) = 2 /\ s[2] = x
    <3>1. Len(s) = Len(<<l>>) + Len(<<x>>) /\ \A i \in 1 .. Len(<<x>>) : s[Len(<<l>>) + i] = <<x>>[i]
      BY ONLY <2>1, <2>2, CatFacts
    <3>2. 1 \in 1 .. Len(<<x>>)
      BY <2>2
    <3>3. s[Len(<<l>>) + 1] = <<x>>[1]
      BY ONLY <3>1, <3>2
    <3> QED BY ONLY <2>2, <3>1, <3>3
  <2> QED BY <2>2, <2>3 DEF Preparing
<1> QED BY <1>1, <1>2, <1>3, <1>4

LEMMA SmoothingForms ==
  ASSUME NEW c \in Channels, NEW n \in Lengths
  PROVE  LET s == PlatformAdcStop(c) \o DoN("resmooth", c, n) \o Do("unsmooth", c)
                    \o SetBit(c, "ready", FALSE) \o BufFlush(c)
         IN /\ s = PlatformAdcStop(c) \o ResmoothSteps(c, n)
            /\ Formed(s) /\ ~Preparing(s) /\ s \in Seq(Tunings(c))
<1> DEFINE r == ResmoothSteps(c, n)
           p == PlatformAdcStop(c)
<1>1. Formed(r) /\ ~Preparing(r) /\ r # <<>> /\ r[1].op = "resmooth" /\ r[1].ch = c
  <2>1. Formed(r) /\ ~Preparing(r) /\ r # <<>> /\ r[1] = [op |-> "resmooth", ch |-> c, n |-> n]
    BY ResmoothFormed
  <2> HIDE DEF r
  <2> QED BY <2>1
<1>2. r \in Seq(Tunings(c)) /\ r \in Seq(Steps)
  BY <1>1, NoSteps, ResmoothIs DEF Formed
<1>3. p \in Seq(Steps) /\ p \in Seq(Stops(c)) /\ p \o r = StopSteps(c, r)
  BY <1>2, StopIs
<1>4. p \o DoN("resmooth", c, n) \o Do("unsmooth", c) \o SetBit(c, "ready", FALSE) \o BufFlush(c) = p \o r
  BY <1>3, ResmoothIs
<1>5. Formed(StopSteps(c, r)) /\ ~Preparing(StopSteps(c, r))
  BY <1>1, StopFormed
<1>6. p \o r \in Seq(Tunings(c))
  <2>1. p \in Seq(Tunings(c))
    BY <1>3, TuneTypes
  <2> HIDE DEF p, r
  <2> QED BY <1>2, <2>1
<1> QED BY <1>3, <1>4, <1>5, <1>6

\* Every call begins with a well-formed list of steps.
LEMMA CallForms ==
  ASSUME Calls
  PROVE  Formed(todo')
<1>1. ASSUME NEW list \in Lists, NEW n \in Counts, AdcSample(list, n) PROVE Formed(todo')
  BY <1>1, SampleFormed DEF AdcSample, Call
<1>2. ASSUME NEW c \in Channels, NEW n \in {0} \union Counts, AdcGetSamples(c, n) PROVE Formed(todo')
  BY <1>2, GetForms DEF AdcGetSamples, Call
<1>3. ASSUME NEW c \in Channels, NEW on \in BOOLEAN, AdcSetBlocking(c, on) PROVE Formed(todo')
  BY <1>3, BlockingForms DEF AdcSetBlocking, Call
<1>4. ASSUME NEW c \in Channels, NEW n \in Lengths, AdcSetSmoothing(c, n) PROVE Formed(todo')
  <2>1. CASE Awaited(c)
    BY <1>4, <2>1, SmoothingForms DEF AdcSetSmoothing, Call
  <2>2. CASE ~Awaited(c)
    <3>1. /\ <<>> \o DoN("resmooth", c, n) \o Do("unsmooth", c) \o SetBit(c, "ready", FALSE) \o BufFlush(c)
               = <<>> \o ResmoothSteps(c, n)
          /\ <<>> \o ResmoothSteps(c, n) = ResmoothSteps(c, n) /\ Formed(ResmoothSteps(c, n))
      BY ResmoothFormed, ResmoothIs, NoSteps DEF Formed
    <3> QED BY <1>4, <2>2, <3>1 DEF AdcSetSmoothing, Call
  <2> QED BY <2>1, <2>2
<1>5. ASSUME NEW c \in Channels, AdcSetClock(c) PROVE Formed(todo')
  <2>1. PlatformAdcStop(c) \o <<>> = StopSteps(c, <<>>) /\ PlatformAdcStop(c) \in Seq(Steps)
    BY NoSteps, StopIs DEF Formed
  <2>2. Formed(StopSteps(c, <<>>))
    BY NoSteps, StopFormed
  <2> QED BY <1>5, <2>1, <2>2, NoSteps DEF AdcSetClock, Call
<1> QED BY <1>1, <1>2, <1>3, <1>4, <1>5, CallKinds

-----------------------------------------------------------------------------
(***************************************************************************)
(* What the steps change.                                                  *)
(***************************************************************************)
\* What came before a step.
LEMMA LedTo ==
  ASSUME NEW x \in Steps, NEW y \in Steps, Leads(x, y)
  PROVE  /\ y.op \notin {"start", "setup"} => x.op # "start" /\ (x.op # "setup" => y.ch = x.ch)
         /\ y.op \in {"copy", "copyFresh", "pick", "size", "wait"} => FALSE
         /\ y.op = "realloc" => x.op = "size" /\ y.n = x.n
         /\ y.op = "count0" => x.op = "realloc" \/ (x.op = "storeBits" /\ x.bit = "ready")
         /\ y.op = "wptr0" => x.op = "count0"
         /\ y.op = "rptr0" => x.op = "wptr0"
         /\ y.op = "request" => x.op = "rptr0"
         /\ y.op = "loadBits" => x.op \in {"request", "unsmooth", "copyFresh"}
         /\ y.op = "storeBits" => x.op = "loadBits"
         /\ y.op = "loadActive" => x.op = "storeBits" /\ x.bit = "pending"
         /\ y.op = "storeActive" => x.op = "loadActive"
         /\ y.op = "disable" => x.op = "storeActive" /\ ~x.on
         /\ y.op = "unsmooth" => x.op = "resmooth"
         /\ y.op = "decrement" => x.op = "copy"
         /\ y.op = "advance" => x.op = "decrement"
         /\ y.op = "smooth" => x.op \in {"advance", "pick", "storeBits"} /\ (x.op = "storeBits" => x.bit = "fresh")
         /\ y.op = "countDown" =>
              x.op \in {"advance", "pick", "storeBits", "smooth"} /\ (x.op = "storeBits" => x.bit = "fresh")
<1>1. x.op = "storeBits" => x.bit \in Bits
  BY Fields
<1>2. x.op \in {"count0", "wptr0", "rptr0", "loadBits", "loadActive", "disable", "idle", "process", "pick",
             "copyFresh", "copy", "decrement", "advance", "smooth", "countDown", "return", "unsmooth",
             "setup", "size", "realloc", "request", "wait", "resmooth", "storeBits", "storeActive", "start"}
  BY DEF Steps, OnChannel, OnBit
<1> QED BY <1>1, <1>2 DEF Leads, Bits

\* A step is one of the actions, the one its name says.
LEMMA Kinds ==
  ASSUME Step
  PROVE  /\ todo # <<>>
         /\ Now.op = "loadBits" => LoadBits
         /\ Now.op = "storeBits" => StoreBits
         /\ Now.op = "loadActive" => LoadActive
         /\ Now.op = "storeActive" => StoreActive
         /\ Now.op = "setup" => Setup
         /\ Now.op = "size" => SetSize
         /\ Now.op = "realloc" => Realloc
         /\ Now.op = "count0" => ZeroCount
         /\ Now.op = "wptr0" => ZeroWptr
         /\ Now.op = "rptr0" => ZeroRptr
         /\ Now.op = "request" => Request
         /\ Now.op = "start" => Start
         /\ Now.op = "disable" => Disable
         /\ Now.op = "idle" => Idle
         /\ Now.op = "wait" => Wait
         /\ Now.op = "process" => Process
         /\ Now.op = "pick" => Pick
         /\ Now.op = "copyFresh" => CopyFresh
         /\ Now.op = "copy" => Copy
         /\ Now.op = "decrement" => Decrement
         /\ Now.op = "advance" => Advance
         /\ Now.op = "smooth" => Smooth
         /\ Now.op = "countDown" => CountDown
         /\ Now.op = "return" => Return
         /\ Now.op = "resmooth" => Resmooth
         /\ Now.op = "unsmooth" => Unsmooth
         /\ Now.op \in {"loadBits", "storeBits", "loadActive", "storeActive", "setup", "size", "realloc", "count0",
                       "wptr0", "rptr0", "request", "start", "disable", "idle", "wait", "process", "pick",
                       "copyFresh", "copy", "decrement", "advance", "smooth", "countDown", "return",
                       "resmooth", "unsmooth"}
  BY DEF Step, Doing, LoadBits, StoreBits, LoadActive, StoreActive, Setup, SetSize, Realloc, ZeroCount, ZeroWptr, ZeroRptr, Request, Start, Disable, Idle, Wait, Process, Pick, CopyFresh, Copy, Decrement, Advance, Smooth, CountDown, Return, Resmooth, Unsmooth

\* The list of steps, and the state of the device.
LEMMA StepTodo ==
  ASSUME Formed(todo), Step
  PROVE  /\ \/ todo' = Tail(todo)
            \/ todo' = <<>> /\ Now.op \in {"realloc", "resmooth"}
            \/ Now.op \in {"setup", "wait", "process", "pick"}
         /\ Now.op \notin {"storeActive", "disable", "idle", "start"} => dev' = dev
         /\ Now.op \notin {"loadBits", "storeBits", "loadActive", "storeActive"} => word' = word
         /\ Now.op \notin {"storeBits", "size", "realloc", "count0", "wptr0", "rptr0", "request", "start",
                           "decrement", "advance", "smooth", "countDown", "resmooth", "unsmooth"} => ch' = ch
         /\ asked' = asked /\ made' = made
<1>1. todo # <<>> /\ (Then(<<>>) => todo' = Tail(todo))
  BY Kinds, ThenNothing
<1> QED BY <1>1, Kinds DEF kept, Becomes, Copied,
     LoadBits, StoreBits, LoadActive, StoreActive, Setup, SetSize, Realloc, ZeroCount, ZeroWptr, ZeroRptr, Request, Start, Disable, Idle, Wait, Process, Pick, CopyFresh, Copy, Decrement, Advance, Smooth, CountDown, Return, Resmooth, Unsmooth

\* The channels whose samples were taken early, or in the wrong order.
LEMMA StepHistory ==
  ASSUME Step
  PROVE  /\ early' = early /\ overtook \subseteq overtook'
         /\ Now.op = "pick" /\ "fresh" \in Mine.bits /\ Now.ch \notin overtook' => Mine.buf.count = 0
  BY Kinds DEF kept, history, Copied,
     LoadBits, StoreBits, LoadActive, StoreActive, Setup, SetSize, Realloc, ZeroCount, ZeroWptr, ZeroRptr, Request, Start, Disable, Idle, Wait, Process, Pick, CopyFresh, Copy, Decrement, Advance, Smooth, CountDown, Return, Resmooth, Unsmooth

\* The end of a reallocation that found no memory.
Fails == todo' = <<>> \/ (Now.n = 1 /\ todo' = Tail(todo))

\* The channels: only that of the step changes, and becomes this.
LEMMA StepChannel ==
  ASSUME Values, Formed(todo), Step, Now.op # "start"
  PROVE  LET u == ch'[Now.ch]
         IN /\ Now.ch \in Channels /\ Now \in Steps /\ Mine \in Channel /\ Mine.buf \in Buffer
            /\ \A c \in Channels : c # Now.ch => ch'[c] = ch[c]
            /\ ch' = [ch EXCEPT ![Now.ch] = u]
            /\ Now.op = "storeBits" => u = [Mine EXCEPT !.bits = IF Now.on THEN word \union {Now.bit} ELSE word \ {Now.bit}]
            /\ Now.op = "size" => u = [Mine EXCEPT !.buf.size = Now.n]
            /\ Now.op = "realloc" => \/ todo' = Tail(todo) /\ u = [Mine EXCEPT !.buf = Resized(@, Now.n)]
                                     \/ Fails /\ u = [Mine EXCEPT !.buf = Lost(@)]
            /\ Now.op = "count0" => u = [Mine EXCEPT !.buf.count = 0]
            /\ Now.op = "wptr0" => u = [Mine EXCEPT !.buf.wptr = 0]
            /\ Now.op = "rptr0" => u = [Mine EXCEPT !.buf.rptr = 0]
            /\ Now.op = "request" => u = [Mine EXCEPT !.req = Now.n]
            /\ Now.op = "decrement" => u = [Mine EXCEPT !.buf.count = @ - 1]
            /\ Now.op = "advance" => u = [Mine EXCEPT !.buf.rptr = ModIncr(Mine.buf, @)]
            /\ Now.op = "smooth" => u = SmoothData(Mine, sample)
            /\ Now.op = "countDown" => u = [Mine EXCEPT !.req = IF @ > 0 THEN @ - 1 ELSE 0]
            /\ Now.op = "resmooth" => \/ u = Mine
                                      \/ u = [Mine EXCEPT !.len = Now.n, !.ring = [i \in 1 .. Now.n |-> NoData]]
                                      \/ u = [Mine EXCEPT !.len = 1, !.ring = <<>>, !.idx = 0, !.bits = @ \ {"ready"}]
            /\ Now.op = "unsmooth" => u = [Mine EXCEPT !.idx = 0, !.ring = [i \in DOMAIN @ |-> NoData]]
            /\ Now.op \notin {"storeBits", "size", "realloc", "count0", "wptr0", "rptr0", "request",
                              "decrement", "advance", "smooth", "countDown", "resmooth", "unsmooth"} => u = Mine
<1>1. todo # <<>> /\ Now \in Steps /\ (Then(<<>>) => todo' = Tail(todo))
  BY Kinds, ThenNothing, Ahead
<1>2. Now.ch \in Channels /\ Mine \in Channel /\ Mine.buf \in Buffer
  <2>1. Now.ch \in Channels
    BY <1>1, Fields
  <2> QED BY <2>1 DEF Values, Mine, Channel
<1>3. ch' = ch \/ \E u : Becomes(u)
  BY Kinds DEF LoadBits, StoreBits, LoadActive, StoreActive, Setup, SetSize, Realloc, ZeroCount, ZeroWptr,
     ZeroRptr, Request, Start, Disable, Idle, Wait, Process, Pick, CopyFresh, Copy, Copied, Decrement, Advance,
     Smooth, CountDown, Return, Resmooth, Unsmooth
<1>4. \A c \in Channels : c # Now.ch => ch'[c] = ch[c]
  BY <1>3 DEF Becomes, Values
<1>5. ch \in [Channels -> Channel]
  BY DEF Values
<1>6. \A u : Becomes(u) => ch'[Now.ch] = u
  BY <1>2, <1>5 DEF Becomes
<1> DEFINE u == ch'[Now.ch]
<1>7. /\ Now.op = "storeBits" => u = [Mine EXCEPT !.bits = IF Now.on THEN word \union {Now.bit} ELSE word \ {Now.bit}]
      /\ Now.op = "size" => u = [Mine EXCEPT !.buf.size = Now.n]
      /\ Now.op = "realloc" => \/ todo' = Tail(todo) /\ u = [Mine EXCEPT !.buf = Resized(@, Now.n)]
                               \/ Fails /\ u = [Mine EXCEPT !.buf = Lost(@)]
      /\ Now.op = "count0" => u = [Mine EXCEPT !.buf.count = 0]
      /\ Now.op = "wptr0" => u = [Mine EXCEPT !.buf.wptr = 0]
      /\ Now.op = "rptr0" => u = [Mine EXCEPT !.buf.rptr = 0]
      /\ Now.op = "request" => u = [Mine EXCEPT !.req = Now.n]
      /\ Now.op = "decrement" => u = [Mine EXCEPT !.buf.count = @ - 1]
      /\ Now.op = "advance" => u = [Mine EXCEPT !.buf.rptr = ModIncr(Mine.buf, @)]
      /\ Now.op = "smooth" => u = SmoothData(Mine, sample)
      /\ Now.op = "countDown" => u = [Mine EXCEPT !.req = IF @ > 0 THEN @ - 1 ELSE 0]
      /\ Now.op = "resmooth" => \/ u = Mine
                                \/ u = [Mine EXCEPT !.len = Now.n, !.ring = [i \in 1 .. Now.n |-> NoData]]
                                \/ u = [Mine EXCEPT !.len = 1, !.ring = <<>>, !.idx = 0, !.bits = @ \ {"ready"}]
      /\ Now.op = "unsmooth" => u = [Mine EXCEPT !.idx = 0, !.ring = [i \in DOMAIN @ |-> NoData]]
      /\ Now.op \notin {"storeBits", "size", "realloc", "count0", "wptr0", "rptr0", "request",
                        "decrement", "advance", "smooth", "countDown", "resmooth", "unsmooth"} => u = Mine
  <2>1. /\ StoreBits => u = [Mine EXCEPT !.bits = IF Now.on THEN word \union {Now.bit} ELSE word \ {Now.bit}]
        /\ SetSize => u = [Mine EXCEPT !.buf.size = Now.n]
        /\ Realloc => \/ todo' = Tail(todo) /\ u = [Mine EXCEPT !.buf = Resized(@, Now.n)]
                      \/ Fails /\ u = [Mine EXCEPT !.buf = Lost(@)]
        /\ ZeroCount => u = [Mine EXCEPT !.buf.count = 0]
        /\ ZeroWptr => u = [Mine EXCEPT !.buf.wptr = 0]
        /\ ZeroRptr => u = [Mine EXCEPT !.buf.rptr = 0]
        /\ Request => u = [Mine EXCEPT !.req = Now.n]
    BY <1>1, <1>6 DEF StoreBits, SetSize, Realloc, Fails, ZeroCount, ZeroWptr, ZeroRptr, Request
  <2>2. /\ Decrement => u = [Mine EXCEPT !.buf.count = @ - 1]
        /\ Advance => u = [Mine EXCEPT !.buf.rptr = ModIncr(Mine.buf, @)]
        /\ Smooth => u = SmoothData(Mine, sample)
        /\ CountDown => u = [Mine EXCEPT !.req = IF @ > 0 THEN @ - 1 ELSE 0]
        /\ Resmooth => \/ u = Mine
                       \/ u = [Mine EXCEPT !.len = Now.n, !.ring = [i \in 1 .. Now.n |-> NoData]]
                       \/ u = [Mine EXCEPT !.len = 1, !.ring = <<>>, !.idx = 0, !.bits = @ \ {"ready"}]
        /\ Unsmooth => u = [Mine EXCEPT !.idx = 0, !.ring = [i \in DOMAIN @ |-> NoData]]
    <3>1. ch' = ch => u = Mine
      BY DEF Mine
    <3> HIDE DEF u
    <3> QED BY <1>6, <3>1 DEF Decrement, Advance, Smooth, CountDown, Resmooth, Unsmooth, u
  <2>3. ch' = ch => u = Mine
    BY DEF Mine
  <2> HIDE DEF u
  <2> QED BY <2>1, <2>2, <2>3, Kinds, StepTodo
<1>8. ch' = [ch EXCEPT ![Now.ch] = u]
  BY <1>2, <1>3, <1>5 DEF Becomes
<1> QED BY <1>1, <1>2, <1>4, <1>7, <1>8

\* The fields of its buffer, its flags and its request.
LEMMA StepFields ==
  ASSUME Values, Formed(todo), Step, Now.op # "start"
  PROVE  LET s == Mine
             u == ch'[Now.ch]
         IN /\ Now.op \notin {"size", "realloc"} => u.buf.size = s.buf.size
            /\ Now.op # "realloc" => u.buf.room = s.buf.room
            /\ Now.op \notin {"realloc", "wptr0"} => u.buf.wptr = s.buf.wptr
            /\ Now.op \notin {"realloc", "count0", "decrement"} => u.buf.count = s.buf.count
            /\ Now.op = "size" => u.buf.size = Now.n
            /\ Now.op = "realloc" =>
                 \/ /\ todo' = Tail(todo) /\ u.buf.size = s.buf.size /\ u.buf.count = s.buf.count
                    /\ u.buf.room = Now.n /\ u.buf.wptr = s.buf.wptr
                 \/ Fails /\ u.buf.size = 0 /\ u.buf.count = 0 /\ u.buf.room = 0
            /\ Now.op = "count0" => u.buf.count = 0
            /\ Now.op = "wptr0" => u.buf.wptr = 0
            /\ Now.op = "decrement" => u.buf.count = s.buf.count - 1
            /\ Now.op # "storeBits" =>
                 ("fresh" \in u.bits <=> "fresh" \in s.bits) /\ ("pending" \in u.bits <=> "pending" \in s.bits)
            /\ Now.op = "storeBits" => u.bits = IF Now.on THEN word \union {Now.bit} ELSE word \ {Now.bit}
            /\ Now.op \notin {"request", "countDown"} => u.req = s.req
            /\ Now.op = "request" => u.req = Now.n
            /\ Now.op = "countDown" => u.req = IF s.req > 0 THEN s.req - 1 ELSE 0
<1> DEFINE s == Mine
           u == ch'[Now.ch]
<1>1. s \in Channel /\ s.buf \in Buffer
  BY StepChannel
<1>2. /\ Now.op \notin {"storeBits", "size", "realloc", "count0", "wptr0", "rptr0", "request",
                        "decrement", "advance", "smooth", "countDown", "resmooth", "unsmooth"} => u = s
      /\ Now.op \in {"size", "realloc", "count0", "wptr0", "rptr0", "decrement", "advance"} =>
           u.bits = s.bits /\ u.req = s.req
      /\ Now.op \in {"storeBits", "request", "smooth", "countDown", "resmooth", "unsmooth"} => u.buf = s.buf
  BY <1>1, StepChannel, ZenonT(40) DEF Channel, SmoothData
<1>3. /\ Now.op = "size" => u.buf = [s.buf EXCEPT !.size = Now.n]
      /\ Now.op = "realloc" => \/ todo' = Tail(todo) /\ u.buf = Resized(s.buf, Now.n)
                               \/ Fails /\ u.buf = Lost(s.buf)
      /\ Now.op = "count0" => u.buf = [s.buf EXCEPT !.count = 0]
      /\ Now.op = "wptr0" => u.buf = [s.buf EXCEPT !.wptr = 0]
      /\ Now.op = "rptr0" => u.buf = [s.buf EXCEPT !.rptr = 0]
      /\ Now.op = "decrement" => u.buf = [s.buf EXCEPT !.count = @ - 1]
      /\ Now.op = "advance" => u.buf = [s.buf EXCEPT !.rptr = ModIncr(s.buf, @)]
  BY <1>1, StepChannel DEF Channel
<1>4. /\ Now.op = "storeBits" => u.req = s.req /\ u.bits = IF Now.on THEN word \union {Now.bit} ELSE word \ {Now.bit}
      /\ Now.op = "request" => u.req = Now.n /\ u.bits = s.bits
      /\ Now.op = "countDown" => u.req = (IF s.req > 0 THEN s.req - 1 ELSE 0) /\ u.bits = s.bits
      /\ Now.op \in {"resmooth", "unsmooth", "smooth"} =>
           u.req = s.req /\ u.bits \in {s.bits, s.bits \union {"ready"}, s.bits \ {"ready"}}
  <2>1. /\ Now.op = "storeBits" => u.req = s.req /\ u.bits = IF Now.on THEN word \union {Now.bit} ELSE word \ {Now.bit}
        /\ Now.op = "request" => u.req = Now.n /\ u.bits = s.bits
        /\ Now.op = "countDown" => u.req = (IF s.req > 0 THEN s.req - 1 ELSE 0) /\ u.bits = s.bits
    BY <1>1, StepChannel DEF Channel
  <2>2. Now.op = "resmooth" => u.req = s.req /\ u.bits \in {s.bits, s.bits \ {"ready"}}
    BY <1>1, StepChannel, ZenonT(40) DEF Channel
  <2>3. Now.op = "unsmooth" => u.req = s.req /\ u.bits = s.bits
    BY <1>1, StepChannel DEF Channel
  <2>4. Now.op = "smooth" => u.req = s.req /\ u.bits \in {s.bits, s.bits \union {"ready"}}
    BY <1>1, StepChannel, ZenonT(40) DEF Channel, SmoothData
  <2> QED BY <2>1, <2>2, <2>3, <2>4
<1> HIDE DEF u, s
<1>5. Now.op # "storeBits" =>
        ("fresh" \in u.bits <=> "fresh" \in s.bits) /\ ("pending" \in u.bits <=> "pending" \in s.bits)
  BY <1>2, <1>4, Kinds
<1>6. s.buf = [size |-> s.buf.size, room |-> s.buf.room, wptr |-> s.buf.wptr, rptr |-> s.buf.rptr,
               count |-> s.buf.count, data |-> s.buf.data]
  BY <1>1 DEF Buffer
<1>7. /\ Now.op \notin {"size", "realloc"} => u.buf.size = s.buf.size
      /\ Now.op # "realloc" => u.buf.room = s.buf.room
      /\ Now.op \notin {"realloc", "wptr0"} => u.buf.wptr = s.buf.wptr
      /\ Now.op \notin {"realloc", "count0", "decrement"} => u.buf.count = s.buf.count
      /\ Now.op \notin {"request", "countDown"} => u.req = s.req
  BY <1>2, <1>3, <1>4, <1>6, Kinds
<1>8. Now.op = "realloc" =>
        \/ /\ todo' = Tail(todo) /\ u.buf.size = s.buf.size /\ u.buf.count = s.buf.count
           /\ u.buf.room = Now.n /\ u.buf.wptr = s.buf.wptr
        \/ Fails /\ u.buf.size = 0 /\ u.buf.count = 0 /\ u.buf.room = 0
  BY <1>3, <1>6 DEF Resized, Lost, NoBuffer
<1>9. /\ Now.op = "size" => u.buf.size = Now.n
      /\ Now.op = "count0" => u.buf.count = 0
      /\ Now.op = "wptr0" => u.buf.wptr = 0
      /\ Now.op = "decrement" => u.buf.count = s.buf.count - 1
  BY <1>3, <1>6
<1> QED BY <1>4, <1>5, <1>7, <1>8, <1>9 DEF u, s

-----------------------------------------------------------------------------
(***************************************************************************)
(* The lists that are put before what is left of a call.                   *)
(***************************************************************************)
\* An element of two lists is one of the first or of the second.
LEMMA CatElements ==
  ASSUME NEW s \in Seq(Steps), NEW t \in Seq(Steps), NEW i \in 1 .. Len(s \o t)
  PROVE  \/ i \in 1 .. Len(s) /\ (s \o t)[i] = s[i]
         \/ i - Len(s) \in 1 .. Len(t) /\ (s \o t)[i] = t[i - Len(s)] /\ i = Len(s) + (i - Len(s))
<1>1. /\ Len(s \o t) = Len(s) + Len(t) /\ Len(s) \in Nat /\ Len(t) \in Nat
      /\ \A k \in 1 .. Len(s) : (s \o t)[k] = s[k]
      /\ \A k \in 1 .. Len(t) : (s \o t)[Len(s) + k] = t[k]
  BY CatFacts
<1> DEFINE u == s \o t
           m == Len(s)
           n == Len(t)
           j == i - m
<1> HIDE DEF u, m, n
<1>2. i \in 1 .. m \/ (j \in 1 .. n /\ i = m + j)
  BY <1>1 DEF u, m, n
<1>3. /\ \A k \in 1 .. m : u[k] = s[k]
      /\ \A k \in 1 .. n : u[m + k] = t[k]
  BY <1>1 DEF u, m, n
<1> HIDE DEF j
<1>4. (i \in 1 .. m /\ u[i] = s[i]) \/ (j \in 1 .. n /\ u[i] = t[j] /\ i = m + j)
  BY <1>2, <1>3
<1> QED BY <1>4 DEF u, m, n, j

\* The last step of two lists is that of the second, if it has one.
LEMMA CatPreparing ==
  ASSUME NEW s \in Seq(Steps), NEW t \in Seq(Steps)
  PROVE  /\ t # <<>> => (Preparing(s \o t) <=> Preparing(t))
         /\ (\A i \in 1 .. Len(s) : s[i].op # "start") /\ Preparing(s \o t) => t # <<>>
<1>1. t # <<>> => (Preparing(s \o t) <=> Preparing(t))
  <2> SUFFICES ASSUME t # <<>> PROVE Preparing(s \o t) <=> Preparing(t)
    OBVIOUS
  <2> DEFINE u == s \o t
  <2>1. /\ Len(u) = Len(s) + Len(t) /\ u \in Seq(Steps)
        /\ \A k \in 1 .. Len(t) : u[Len(s) + k] = t[k]
    BY CatFacts
  <2>2. Len(t) \in 1 .. Len(t) /\ Len(s) \in Nat
    OBVIOUS
  <2>3. u[Len(u)] = t[Len(t)]
    BY <2>1, <2>2
  <2>4. u # <<>>
    <3> HIDE DEF u
    <3>1. Len(u) > 0
      BY <2>1, <2>2
    <3> QED BY <2>1, <3>1
  <2> HIDE DEF u
  <2>5. Preparing(u) <=> Preparing(t)
    BY <2>3, <2>4 DEF Preparing
  <2> QED BY <2>5 DEF u
<1>2. ASSUME \A i \in 1 .. Len(s) : s[i].op # "start", t = <<>> PROVE ~Preparing(s \o t)
  <2>1. s \o t = s
    BY <1>2, NoSteps
  <2>2. s # <<>> => Len(s) \in 1 .. Len(s)
    OBVIOUS
  <2> QED BY <1>2, <2>1, <2>2 DEF Preparing
<1> QED BY <1>1, <1>2

\* The steps of adc.getsample, and those of them that leave the flags alone.
Takings(c) ==
  {x \in Steps :
     /\ x.op \in {"process", "return", "pick", "smooth", "countDown", "copyFresh", "loadBits", "storeBits",
                  "copy", "decrement", "advance"}
     /\ x.ch = c /\ (x.op = "storeBits" => x.bit = "fresh")}
Takes == {"process", "return", "pick", "smooth", "countDown", "copy", "decrement", "advance"}
Plain(c) == {x \in Takings(c) : x.op \in Takes}

LEMMA TakeTypes ==
  ASSUME NEW c \in Channels
  PROVE  /\ \A op \in {"process", "return", "pick", "smooth", "countDown", "copy"} : Do(op, c) \in Seq(Plain(c))
         /\ TakeFresh(c) \in Seq(Takings(c)) /\ BufRead(c) \in Seq(Plain(c)) /\ Finish(c) \in Seq(Plain(c))
         /\ Plain(c) \subseteq Takings(c) /\ Takings(c) \subseteq Steps
<1>1. \A S : \A x \in S, y \in S, z \in S :
        /\ <<x>> \in Seq(S) /\ <<x>> \o <<y>> \in Seq(S)
        /\ <<x>> \o <<y>> \o <<z>> \in Seq(S) /\ <<x>> \o (<<y>> \o <<z>>) \in Seq(S)
  OBVIOUS
<1>2. /\ \A op \in Takes : [op |-> op, ch |-> c] \in Plain(c)
      /\ \A op \in Takes \union {"copyFresh", "loadBits"} : [op |-> op, ch |-> c] \in Takings(c)
  BY StepKinds DEF Takings, Plain, Takes
<1>3. [op |-> "storeBits", ch |-> c, bit |-> "fresh", on |-> FALSE] \in Takings(c)
  BY StepKinds DEF Takings
<1>4. \A op \in {"process", "return", "pick", "smooth", "countDown", "copy"} : Do(op, c) \in Seq(Plain(c))
  BY <1>1, <1>2 DEF Do, Takes
<1>5. TakeFresh(c) \in Seq(Takings(c))
  BY <1>1, <1>2, <1>3 DEF Do, TakeFresh, SetBit
<1>6. BufRead(c) \in Seq(Plain(c)) /\ Finish(c) \in Seq(Plain(c))
  BY <1>1, <1>2 DEF Do, BufRead, Finish, Takes
<1> QED BY <1>4, <1>5, <1>6 DEF Plain, Takings

\* What these steps put before the rest.
LEMMA TakeLists ==
  ASSUME Formed(todo), Step, Now.op \in {"wait", "process", "pick"},
         \A c \in Channels : Available(ch[c]) \in Nat, Counts \subseteq Nat
  PROVE  /\ Now.ch \in Channels
         /\ \/ \E s \in Seq(Plain(Now.ch)) : todo' = s \o Tail(todo)
            \/ /\ Now.op = "pick" /\ "fresh" \in Mine.bits
               /\ \E s \in Seq(Takings(Now.ch)) : todo' = s \o Tail(todo)
<1> DEFINE c == Now.ch
           T == Plain(c)
           m == IF Now.n = 0 THEN Available(Mine) ELSE Smaller(Now.n, Available(Mine))
<1>1. todo # <<>> /\ Now \in Steps /\ c \in Channels
  BY Kinds, Ahead, Fields
<1>2. CASE Now.op = "wait"
  <2>1. todo' = [k \in 1 .. m |-> [op |-> "process", ch |-> c]] \o Tail(todo)
    BY <1>2, Kinds DEF Wait, Then
  <2>2. m \in Nat
    <3>1. Now.n \in {0} \union Counts
      BY <1>1, <1>2, Fields
    <3> QED BY <1>1, <3>1 DEF Mine, Smaller
  <2>3. [op |-> "process", ch |-> c] \in T
    BY <1>1, StepKinds DEF Takings, Plain, Takes
  <2> HIDE DEF m, T
  <2>4. [k \in 1 .. m |-> [op |-> "process", ch |-> c]] \in Seq(T)
    BY <2>2, <2>3
  <2> QED BY <1>1, <2>1, <2>4 DEF T
<1>3. CASE Now.op = "process"
  <2>1. \/ todo' = Do("return", c) \o Tail(todo)
        \/ todo' = (Do("pick", c) \o <<>> \o Finish(c)) \o Tail(todo)
        \/ todo' = (Do("pick", c) \o Do("smooth", c) \o Finish(c)) \o Tail(todo)
    BY <1>3, Kinds DEF Process, Then
  <2>2. Do("return", c) \in Seq(T) /\ Do("pick", c) \in Seq(T) /\ Do("smooth", c) \in Seq(T) /\ Finish(c) \in Seq(T)
    BY <1>1, TakeTypes
  <2> HIDE DEF T
  <2>3. Do("pick", c) \o <<>> \o Finish(c) \in Seq(T)
    BY <2>2
  <2>4. Do("pick", c) \o Do("smooth", c) \o Finish(c) \in Seq(T)
    BY <2>2
  <2> QED BY <1>1, <2>1, <2>2, <2>3, <2>4 DEF T
<1>4. CASE Now.op = "pick"
  <2>1. \/ "fresh" \in Mine.bits /\ todo' = TakeFresh(c) \o Tail(todo)
        \/ todo' = BufRead(c) \o Tail(todo)
        \/ todo' = <<>> \o Tail(todo)
    BY <1>4, Kinds DEF Pick, Then
  <2>2. TakeFresh(c) \in Seq(Takings(c)) /\ BufRead(c) \in Seq(T) /\ <<>> \in Seq(T)
    BY <1>1, TakeTypes
  <2> QED BY <1>1, <1>4, <2>1, <2>2
<1> QED BY <1>1, <1>2, <1>3, <1>4

\* The first step of a list put before another.
LEMMA CatFirst ==
  ASSUME NEW s \in Seq(Steps), NEW t \in Seq(Steps), Len(s) > 0
  PROVE  (s \o t)[1] = s[1] /\ s \o t # <<>>
<1>1. 1 \in 1 .. Len(s)
  OBVIOUS
<1>2. (s \o t)[1] = s[1] /\ Len(s \o t) = Len(s) + Len(t) /\ Len(s) \in Nat /\ Len(t) \in Nat
  BY <1>1, CatFacts
<1>3. Len(s \o t) # 0
  BY <1>2
<1> QED BY <1>2, <1>3

\* What the program does first after it looked at what there is.
LEMMA TakeFirst ==
  ASSUME Formed(todo), Step, \A c \in Channels : Available(ch[c]) \in Nat, Counts \subseteq Nat
  PROVE  /\ Now.op = "wait" => todo' = <<>> \/ todo'[1].op = "process"
         /\ Now.op = "process" => \/ todo'[1] = [op |-> "return", ch |-> Now.ch]
                                  \/ todo'[1] = [op |-> "pick", ch |-> Now.ch] /\ Available(Mine) # 0
         /\ Now.op = "pick" =>
              \/ "fresh" \in Mine.bits /\ todo'[1] = [op |-> "copyFresh", ch |-> Now.ch]
              \/ ~BufEmpty(Mine.buf) /\ todo'[1] = [op |-> "copy", ch |-> Now.ch]
              \/ BufEmpty(Mine.buf) /\ todo' = Tail(todo)
<1> DEFINE c == Now.ch
           t == Tail(todo)
<1>1. /\ todo # <<>> /\ Now \in Steps /\ t \in Seq(Steps) /\ (Now.op # "start" => c \in Channels)
      /\ t # <<>> => Leads(Now, t[1])
  BY Kinds, Ahead, Fields
<1>2. ASSUME Now.op = "wait" PROVE todo' = <<>> \/ todo'[1].op = "process"
  <2> DEFINE m == IF Now.n = 0 THEN Available(Mine) ELSE Smaller(Now.n, Available(Mine))
             s == [k \in 1 .. m |-> [op |-> "process", ch |-> c]]
  <2>1. t = <<>>
    BY <1>1, <1>2 DEF Leads
  <2>2. todo' = s \o t
    BY <1>2, Kinds DEF Wait, Then
  <2>3. m \in Nat /\ c \in Channels
    <3>1. Now.n \in {0} \union Counts /\ c \in Channels
      BY <1>1, <1>2, Fields
    <3> QED BY <3>1 DEF Mine, Smaller
  <2> HIDE DEF m
  <2>4. [op |-> "process", ch |-> c] \in Steps
    BY <2>3, StepKinds
  <2>5. s \in Seq(Steps) /\ Len(s) = m /\ \A i \in 1 .. m : s[i].op = "process"
    BY <2>3, <2>4
  <2> HIDE DEF s
  <2>6. s \o t = s
    BY <2>1, <2>5, NoSteps
  <2>7. s # <<>> => 1 \in 1 .. m
    BY <2>5
  <2> QED BY <2>2, <2>5, <2>6, <2>7
<1>3. ASSUME Now.op = "process"
      PROVE  \/ todo'[1] = [op |-> "return", ch |-> c]
             \/ todo'[1] = [op |-> "pick", ch |-> c] /\ Available(Mine) # 0
  <2>0. c \in Channels
    BY <1>1, <1>3
  <2>1. \/ todo' = Do("return", c) \o t
        \/ Available(Mine) # 0 /\ todo' = (Do("pick", c) \o <<>> \o Finish(c)) \o t
        \/ Available(Mine) # 0 /\ todo' = (Do("pick", c) \o Do("smooth", c) \o Finish(c)) \o t
    BY <1>3, Kinds DEF Process, Then
  <2> DEFINE r == Do("return", c)
             p == Do("pick", c)
             q == Do("smooth", c)
             f == Finish(c)
  <2>2. /\ r \in Seq(Steps) /\ p \in Seq(Steps) /\ q \in Seq(Steps) /\ f \in Seq(Steps)
        /\ Len(r) = 1 /\ Len(p) = 1
        /\ r[1] = [op |-> "return", ch |-> c] /\ p[1] = [op |-> "pick", ch |-> c]
    <3>1. r \in Seq(Steps) /\ p \in Seq(Steps) /\ q \in Seq(Steps)
      BY <2>0, ListTypes
    <3>2. Do("countDown", c) \in Seq(Steps)
      BY <2>0, ListTypes
    <3>3. f \in Seq(Steps)
      BY <3>1, <3>2, CatFacts DEF Finish
    <3> QED BY <3>1, <3>3 DEF Do
  <2> HIDE DEF r, p, q, f
  <2>3. p \o <<>> = p /\ p \o q \in Seq(Steps) /\ Len(p \o q) = 1 + Len(q) /\ Len(q) \in Nat /\ (p \o q)[1] = p[1]
    BY <2>2, NoSteps, CatFacts, CatFirst
  <2>4. (p \o q)[1] = p[1] /\ (p \o f)[1] = p[1] /\ p \o f \in Seq(Steps) /\ Len(p \o f) > 0
    BY <2>2, <2>3, CatFacts, CatFirst
  <2>5. (p \o q \o f)[1] = p[1] /\ p \o q \o f \in Seq(Steps) /\ Len(p \o q \o f) > 0
    <3>1. Len(p \o q) > 0
      BY <2>3
    <3> HIDE DEF t
    <3> DEFINE u == p \o q
    <3>2. u \in Seq(Steps) /\ Len(u) > 0 /\ u[1] = p[1]
      BY <2>3, <3>1
    <3> HIDE DEF u
    <3>3. (u \o f)[1] = u[1] /\ u \o f \in Seq(Steps) /\ Len(u \o f) = Len(u) + Len(f) /\ Len(f) \in Nat
      BY <2>2, <3>2, CatFacts, CatFirst
    <3>4. Len(u \o f) > 0
      BY <3>2, <3>3
    <3> QED BY <3>2, <3>3, <3>4 DEF u
  <2>6. (r \o t)[1] = r[1] /\ ((p \o f) \o t)[1] = p[1] /\ ((p \o q \o f) \o t)[1] = p[1]
    BY <1>1, <2>2, <2>4, <2>5, CatFirst
  <2>7. \/ todo' = r \o t
        \/ Available(Mine) # 0 /\ todo' = (p \o f) \o t
        \/ Available(Mine) # 0 /\ todo' = (p \o q \o f) \o t
    BY <2>1, <2>3 DEF r, p, q, f
  <2> QED BY <2>2, <2>6, <2>7
<1>4. ASSUME Now.op = "pick"
      PROVE  \/ "fresh" \in Mine.bits /\ todo'[1] = [op |-> "copyFresh", ch |-> c]
             \/ ~BufEmpty(Mine.buf) /\ todo'[1] = [op |-> "copy", ch |-> c]
             \/ BufEmpty(Mine.buf) /\ todo' = t
  <2>0. c \in Channels
    BY <1>1, <1>4
  <2> DEFINE x == Do("copyFresh", c)
             b == SetBit(c, "fresh", FALSE)
             y == Do("copy", c)
             v == Do("decrement", c)
             w == Do("advance", c)
  <2>1. \/ "fresh" \in Mine.bits /\ todo' = (x \o b) \o t
        \/ ~BufEmpty(Mine.buf) /\ todo' = ((y \o v) \o w) \o t
        \/ BufEmpty(Mine.buf) /\ todo' = <<>> \o t
    BY <1>4, Kinds DEF Pick, Then, TakeFresh, BufRead
  <2>2. /\ x \in Seq(Steps) /\ b \in Seq(Steps) /\ y \in Seq(Steps) /\ v \in Seq(Steps) /\ w \in Seq(Steps)
        /\ Len(x) = 1 /\ Len(y) = 1
        /\ x[1] = [op |-> "copyFresh", ch |-> c] /\ y[1] = [op |-> "copy", ch |-> c]
    <3>1. x \in Seq(Steps) /\ y \in Seq(Steps) /\ v \in Seq(Steps) /\ w \in Seq(Steps) /\ b \in Seq(Steps)
      BY <2>0, ListTypes
    <3> QED BY <3>1 DEF Do
  <2> HIDE DEF x, b, y, v, w
  <2>3. (x \o b)[1] = x[1] /\ x \o b \in Seq(Steps) /\ Len(x \o b) > 0
    BY <2>2, CatFacts, CatFirst
  <2> DEFINE u == y \o v
  <2>4. u \in Seq(Steps) /\ Len(u) > 0 /\ u[1] = y[1]
    BY <2>2, CatFacts, CatFirst
  <2> HIDE DEF u
  <2>5. (u \o w)[1] = u[1] /\ u \o w \in Seq(Steps) /\ Len(u \o w) > 0
    BY <2>2, <2>4, CatFacts, CatFirst
  <2>6. ((x \o b) \o t)[1] = x[1] /\ ((u \o w) \o t)[1] = y[1]
    BY <1>1, <2>3, <2>4, <2>5, CatFirst
  <2>7. <<>> \o t = t
    BY <1>1, NoSteps
  <2> QED BY <2>1, <2>2, <2>6, <2>7 DEF u
<1> QED BY <1>2, <1>3, <1>4

\* The same, and the first step of the second list.
LEMMA CatBoth ==
  ASSUME NEW S, NEW s \in Seq(S), NEW t \in Seq(S), Len(s) > 0
  PROVE  /\ s \o t \in Seq(S) /\ Len(s \o t) = Len(s) + Len(t) /\ Len(s \o t) > 0 /\ Len(t) \in Nat
         /\ (s \o t)[1] = s[1] /\ (Len(t) > 0 => (s \o t)[Len(s) + 1] = t[1])
  OBVIOUS

\* What the set-up of a channel puts before the rest, and where in it the
\* number of samples is found again.
LEMMA SetupLists ==
  ASSUME Formed(todo), Setup
  PROVE  /\ Now.ch \in Channels /\ Now.n \in Counts
         /\ \E s \in Seq({x \in Preparations : x.ch = Now.ch}) : todo' = s \o Tail(todo)
         /\ todo'[1].ch = Now.ch
         /\ \/ todo'[1].op = "request" /\ todo'[1].n = Now.n /\ Mine.buf.size = Now.n
            \/ todo'[1].op = "size" /\ todo'[1].n = Now.n /\ 6 <= Len(todo') /\ todo'[6].n = Now.n
<1> DEFINE c == Now.ch
           n == Now.n
           t == Tail(todo)
           T == {x \in Preparations : x.ch = c}
<1>1. todo # <<>> /\ Now.op = "setup"
  BY DEF Setup, Doing
<1>2. Now \in Steps /\ t \in Seq(Steps) /\ c \in Channels /\ n \in Counts
  BY <1>1, Ahead, Fields
<1>3. /\ \A op \in {"count0", "wptr0", "rptr0", "loadBits", "loadActive"} : [op |-> op, ch |-> c] \in T
      /\ \A op \in {"size", "realloc", "request"} : [op |-> op, ch |-> c, n |-> n] \in T
      /\ [op |-> "storeBits", ch |-> c, bit |-> "pending", on |-> TRUE] \in T
      /\ [op |-> "storeActive", ch |-> c, on |-> TRUE] \in T
      /\ T \subseteq Steps
  BY <1>2, StepKinds DEF Preparations
<1> DEFINE r == [op |-> "request", ch |-> c, n |-> n]
           p == DoN("request", c, n)
           b == SetBit(c, "pending", TRUE)
           a == SetActive(c, TRUE)
           x == DoN("size", c, n)
           y == DoN("realloc", c, n)
           u == Do("count0", c)
           v == Do("wptr0", c)
           w == Do("rptr0", c)
<1>4. /\ p \in Seq(T) /\ b \in Seq(T) /\ a \in Seq(T) /\ x \in Seq(T) /\ y \in Seq(T)
      /\ u \in Seq(T) /\ v \in Seq(T) /\ w \in Seq(T)
      /\ Len(p) = 1 /\ Len(x) = 1 /\ Len(y) = 1 /\ Len(u) = 1 /\ Len(v) = 1 /\ Len(w) = 1
      /\ p[1] = r /\ x[1] = [op |-> "size", ch |-> c, n |-> n]
  <2>1. \A i \in T, j \in T : <<i>> \in Seq(T) /\ <<i>> \o <<j>> \in Seq(T)
    OBVIOUS
  <2>2. b \in Seq(T)
    BY <1>3, <2>1 DEF SetBit, Do
  <2>3. a \in Seq(T)
    BY <1>3, <2>1 DEF SetActive, Do
  <2> HIDE DEF T
  <2>4. p \in Seq(T) /\ x \in Seq(T) /\ y \in Seq(T) /\ u \in Seq(T) /\ v \in Seq(T) /\ w \in Seq(T)
    BY <1>3, <2>1 DEF Do, DoN
  <2> QED BY <2>2, <2>3, <2>4 DEF Do, DoN
<1>5. Seq(T) \subseteq Seq(Steps)
  BY <1>3
<1>6. \/ n = Mine.buf.size /\ todo' = (<<>> \o ((p \o b) \o a)) \o t
      \/ n # Mine.buf.size /\ todo' = (((x \o y) \o ((u \o v) \o w)) \o ((p \o b) \o a)) \o t
  BY DEF Setup, Then, BufSet, BufFlush, SetupChannel
<1> HIDE DEF r, p, b, a, x, y, u, v, w, T, t
<1>11. p \in Seq(T) /\ Len(p) = 1
  BY <1>4
<1>12. b \in Seq(T)
  BY <1>4
<1>13. a \in Seq(T)
  BY <1>4
<1> DEFINE k == p \o b
           s == k \o a
<1>7. k \in Seq(T) /\ Len(k) > 0 /\ k[1] = p[1]
  BY ONLY <1>11, <1>12, CatBoth
<1> HIDE DEF k
<1>8. s \in Seq(T) /\ Len(s) > 0 /\ s[1] = p[1]
  BY ONLY <1>7, <1>13, CatBoth
<1> HIDE DEF s
<1>14. s \in Seq(T) /\ <<>> \o s = s /\ s = (p \o b) \o a
  BY <1>5, <1>8, NoSteps DEF s, k
<1>9. CASE n = Mine.buf.size
  <2>1. todo' = s \o t
    BY <1>6, <1>9, <1>14
  <2>2. (s \o t)[1] = s[1]
    BY <1>2, <1>5, <1>8, <1>14, CatFirst
  <2>3. todo'[1].op = "request" /\ todo'[1].n = n /\ todo'[1].ch = c
    BY <1>4, <1>8, <2>1, <2>2 DEF r
  <2>4. \E z \in Seq(T) : todo' = z \o t
    BY <1>14, <2>1
  <2> QED BY <1>2, <1>9, <2>3, <2>4 DEF T, t
<1>10. CASE n # Mine.buf.size
  <2> DEFINE d == x \o y
             e == u \o v
             f == e \o w
             g == d \o f
             h == g \o s
  <2>21. x \in Seq(T)
    BY <1>4
  <2>22. Len(x) > 0
    BY <1>4
  <2>23. y \in Seq(T)
    BY <1>4
  <2>24. Len(y) > 0
    BY <1>4
  <2>25. u \in Seq(T)
    BY <1>4
  <2>26. Len(u) > 0
    BY <1>4
  <2>27. v \in Seq(T)
    BY <1>4
  <2>28. Len(v) > 0
    BY <1>4
  <2>29. w \in Seq(T)
    BY <1>4
  <2>30. Len(w) > 0
    BY <1>4
  <2>31. s \in Seq(T)
    BY <1>8
  <2>32. d \in Seq(T)
    BY ONLY <2>21, <2>23, <2>22, CatBoth
  <2>33. Len(d) = Len(x) + Len(y) /\ Len(d) > 0
    BY ONLY <2>21, <2>23, <2>22, CatBoth
  <2>34. d[1] = x[1]
    BY ONLY <2>21, <2>23, <2>22, CatBoth
  <2>35. Len(d) > 0
    BY ONLY <2>33
  <2> HIDE DEF d
  <2>36. e \in Seq(T)
    BY ONLY <2>25, <2>27, <2>26, CatBoth
  <2>37. Len(e) = Len(u) + Len(v) /\ Len(e) > 0
    BY ONLY <2>25, <2>27, <2>26, CatBoth
  <2>38. e[1] = u[1]
    BY ONLY <2>25, <2>27, <2>26, CatBoth
  <2>39. Len(e) > 0
    BY ONLY <2>37
  <2> HIDE DEF e
  <2>40. f \in Seq(T)
    BY ONLY <2>36, <2>29, <2>39, CatBoth
  <2>41. Len(f) = Len(e) + Len(w) /\ Len(f) > 0
    BY ONLY <2>36, <2>29, <2>39, CatBoth
  <2>42. f[1] = e[1]
    BY ONLY <2>36, <2>29, <2>39, CatBoth
  <2>43. Len(f) > 0
    BY ONLY <2>41
  <2> HIDE DEF f
  <2>44. g \in Seq(T)
    BY ONLY <2>32, <2>40, <2>35, CatBoth
  <2>45. Len(g) = Len(d) + Len(f) /\ Len(g) > 0
    BY ONLY <2>32, <2>40, <2>35, CatBoth
  <2>46. g[1] = d[1]
    BY ONLY <2>32, <2>40, <2>35, CatBoth
  <2>47. Len(g) > 0
    BY ONLY <2>45
  <2> HIDE DEF g
  <2>48. h \in Seq(T)
    BY ONLY <2>44, <2>31, <2>47, CatBoth
  <2>49. Len(h) = Len(g) + Len(s) /\ Len(h) > 0
    BY ONLY <2>44, <2>31, <2>47, CatBoth
  <2>50. h[1] = g[1]
    BY ONLY <2>44, <2>31, <2>47, CatBoth
  <2>51. Len(h) > 0
    BY ONLY <2>49
  <2>52. Len(s) > 0 /\ Len(s) \in Nat
    BY <1>8
  <2>53. h[Len(g) + 1] = s[1]
    BY ONLY <2>44, <2>31, <2>47, <2>52, CatBoth
  <2> HIDE DEF h
  <2>54. Len(x) = 1 /\ Len(y) = 1 /\ Len(u) = 1 /\ Len(v) = 1 /\ Len(w) = 1
    BY <1>4
  <2>55. Len(g) = 5 /\ Len(g) + 1 = 6
    BY ONLY <2>54, <2>33, <2>37, <2>41, <2>45
  <2>6. Len(h) = 5 + Len(s) /\ h[1] = x[1] /\ h[6] = s[1] /\ Len(s) \in Nat
    BY ONLY <2>55, <2>53, <2>52, <2>49, <2>50, <2>46, <2>34
  <2>10. h \in Seq(T)
    BY <2>48
  <2>1. todo' = h \o t
    BY <1>6, <1>10, <1>14 DEF h, g, f, e, d
  <2>7. (h \o t)[1] = h[1] /\ (h \o t)[6] = h[6] /\ 6 <= Len(h \o t)
    <3>1. 6 \in 1 .. Len(h) /\ Len(h) > 0 /\ Len(h) >= 6
      BY <1>8, <2>6
    <3>2. Len(h \o t) = Len(h) + Len(t) /\ Len(h) \in Nat /\ Len(t) \in Nat /\ (h \o t)[6] = h[6]
      BY <1>2, <1>5, <2>10, <3>1, CatFacts
    <3>3. (h \o t)[1] = h[1]
      BY <1>2, <1>5, <2>10, <3>1, CatFirst
    <3>4. 6 <= Len(h \o t)
      BY <3>1, <3>2
    <3> QED BY <3>2, <3>3, <3>4
  <2>8. todo'[1].op = "size" /\ todo'[1].n = n /\ todo'[1].ch = c /\ 6 <= Len(todo') /\ todo'[6].n = n
    BY <1>4, <1>8, <2>1, <2>6, <2>7 DEF r
  <2>9. \E z \in Seq(T) : todo' = z \o t
    BY <2>1, <2>10
  <2> QED BY <1>2, <2>8, <2>9 DEF T, t
<1> QED BY <1>9, <1>10

-----------------------------------------------------------------------------
(***************************************************************************)
(* What is left of a call after one of its steps.                          *)
(***************************************************************************)
LEMMA Numbers ==
  ASSUME Values
  PROVE  /\ \A c \in Channels : /\ Available(ch[c]) \in Nat /\ Available(ch[c]) >= ch[c].buf.count
                                /\ "fresh" \notin ch[c].bits => Available(ch[c]) = ch[c].buf.count
                                /\ ch[c] \in Channel /\ ch[c].buf \in Buffer
                                /\ ch[c].buf.count \in Nat /\ ch[c].buf.size \in Nat /\ ch[c].req \in Nat
         /\ Counts \subseteq Nat \ {0} /\ Lengths \subseteq Nat \ {0} /\ MaxSize \in Nat
<1>1. Counts \subseteq Nat \ {0} /\ Lengths \subseteq Nat \ {0} /\ MaxSize \in Nat
  BY AdcAssumption, BufAssumption
<1>2. ASSUME NEW c \in Channels
      PROVE  /\ ch[c] \in Channel /\ ch[c].buf \in Buffer
             /\ ch[c].buf.count \in Nat /\ ch[c].buf.size \in Nat /\ ch[c].req \in Nat
  <2>1. ch[c] \in Channel
    BY <1>2 DEF Values
  <2>2. ch[c].buf \in Buffer /\ ch[c].req \in 0 .. MaxSize
    BY <2>1 DEF Channel
  <2>3. ch[c].buf.count \in 0 .. MaxSize /\ ch[c].buf.size \in 0 .. MaxSize
    BY <2>2 DEF Buffer
  <2> QED BY <1>1, <2>1, <2>2, <2>3
<1>3. ASSUME NEW c \in Channels
      PROVE  /\ Available(ch[c]) \in Nat /\ Available(ch[c]) >= ch[c].buf.count
             /\ "fresh" \notin ch[c].bits => Available(ch[c]) = ch[c].buf.count
  BY <1>2 DEF Available
<1> QED BY <1>1, <1>2, <1>3

\* The list that is put before the rest.
LEMMA StepList ==
  ASSUME Values, Formed(todo), Step
  PROVE  \/ todo' = <<>> /\ Now.op \in {"realloc", "resmooth"}
         \/ \E s \in Seq(Steps) :
              /\ todo' = s \o Tail(todo)
              /\ \A i \in 1 .. Len(s) :
                   /\ s[i].op # "start" /\ s[i].ch = Now.ch
                   /\ \/ Now.op = "setup" /\ s[i] \in Preparations
                      \/ Now.op \in {"wait", "process", "pick"} /\ s[i] \in Takings(Now.ch)
                   /\ s[i].op \in {"copyFresh", "loadBits", "storeBits"} => Now.op = "setup" \/ "fresh" \in Mine.bits
<1> DEFINE Good(x) == /\ x.op # "start" /\ x.ch = Now.ch
                      /\ \/ Now.op = "setup" /\ x \in Preparations
                         \/ Now.op \in {"wait", "process", "pick"} /\ x \in Takings(Now.ch)
                      /\ x.op \in {"copyFresh", "loadBits", "storeBits"} => Now.op = "setup" \/ "fresh" \in Mine.bits
<1>1. todo # <<>> /\ Tail(todo) \in Seq(Steps)
  BY Kinds, Ahead
<1>2. CASE todo' = Tail(todo)
  <2>1. <<>> \in Seq(Steps) /\ todo' = <<>> \o Tail(todo) /\ Len(<<>>) = 0
    BY <1>1, <1>2, NoSteps
  <2>2. PICK s \in Seq(Steps) : todo' = s \o Tail(todo) /\ Len(s) = 0
    BY <2>1
  <2>3. \A i \in 1 .. Len(s) : FALSE
    BY <2>2
  <2> HIDE DEF Good
  <2>4. \A i \in 1 .. Len(s) : Good(s[i])
    BY <2>3
  <2> QED BY <2>2, <2>4 DEF Good
<1>3. CASE Now.op = "setup"
  <2>1. PICK s \in Seq({x \in Preparations : x.ch = Now.ch}) : todo' = s \o Tail(todo)
    BY <1>3, Kinds, SetupLists
  <2>2. {x \in Preparations : x.ch = Now.ch} \subseteq {x \in Steps : Good(x)}
    BY <1>3 DEF Preparations
  <2> HIDE DEF Good
  <2>3. s \in Seq({x \in Steps : Good(x)})
    BY <2>2
  <2>4. s \in Seq(Steps) /\ \A i \in 1 .. Len(s) : Good(s[i])
    BY <2>3
  <2> QED BY <2>1, <2>4 DEF Good
<1>4. CASE Now.op \in {"wait", "process", "pick"}
  <2>1. \/ \E s \in Seq(Plain(Now.ch)) : todo' = s \o Tail(todo)
        \/ /\ Now.op = "pick" /\ "fresh" \in Mine.bits
           /\ \E s \in Seq(Takings(Now.ch)) : todo' = s \o Tail(todo)
    <3>1. (\A c \in Channels : Available(ch[c]) \in Nat) /\ Counts \subseteq Nat
      BY Numbers
    <3> QED BY <1>4, <3>1, TakeLists
  <2>2. /\ Plain(Now.ch) \subseteq {x \in Steps : Good(x)}
        /\ "fresh" \in Mine.bits => Takings(Now.ch) \subseteq {x \in Steps : Good(x)}
    BY <1>4 DEF Takings, Plain, Takes
  <2> HIDE DEF Good
  <2>3. \E s \in Seq({x \in Steps : Good(x)}) : todo' = s \o Tail(todo)
    <3>1. CASE \E s \in Seq(Plain(Now.ch)) : todo' = s \o Tail(todo)
      <4>1. PICK s \in Seq(Plain(Now.ch)) : todo' = s \o Tail(todo)
        BY <3>1
      <4>2. s \in Seq({x \in Steps : Good(x)})
        BY <2>2
      <4> QED BY <4>1, <4>2
    <3>2. CASE "fresh" \in Mine.bits /\ \E s \in Seq(Takings(Now.ch)) : todo' = s \o Tail(todo)
      <4>1. PICK s \in Seq(Takings(Now.ch)) : todo' = s \o Tail(todo)
        BY <3>2
      <4>2. s \in Seq({x \in Steps : Good(x)})
        BY <2>2, <3>2
      <4> QED BY <4>1, <4>2
    <3> QED BY <2>1, <3>1, <3>2
  <2>4. PICK s \in Seq({x \in Steps : Good(x)}) : todo' = s \o Tail(todo)
    BY <2>3
  <2>5. s \in Seq(Steps) /\ \A i \in 1 .. Len(s) : Good(s[i])
    BY <2>4
  <2> QED BY <2>4, <2>5 DEF Good
<1> QED BY <1>2, <1>3, <1>4, StepTodo

\* Each step to come is a new one or was to come before, after the same steps.
LEMMA StepRest ==
  ASSUME Values, Formed(todo), Step
  PROVE  /\ Formed(todo')
         /\ Preparing(todo') => Preparing(todo)
         /\ todo' # <<>> /\ Preparing(todo) => Preparing(todo')
         /\ \A i \in 1 .. Len(todo') :
              \/ /\ todo'[i].op # "start" /\ todo'[i].ch = Now.ch
                 /\ \/ Now.op = "setup" /\ todo'[i] \in Preparations
                    \/ Now.op \in {"wait", "process", "pick"} /\ todo'[i] \in Takings(Now.ch)
                 /\ todo'[i].op \in {"copyFresh", "loadBits", "storeBits"} => Now.op = "setup" \/ "fresh" \in Mine.bits
              \/ \E k \in 2 .. Len(todo) :
                   todo'[i] = todo[k] /\ \A j \in 2 .. k - 1 : \E m \in 1 .. i - 1 : todo'[m] = todo[j]
         /\ Now.op \notin {"realloc", "resmooth"} =>
              \A k \in 2 .. Len(todo) : \E i \in 1 .. Len(todo') : todo'[i] = todo[k]
<1> DEFINE Good(x) == /\ x.op # "start" /\ x.ch = Now.ch
                      /\ \/ Now.op = "setup" /\ x \in Preparations
                         \/ Now.op \in {"wait", "process", "pick"} /\ x \in Takings(Now.ch)
                      /\ x.op \in {"copyFresh", "loadBits", "storeBits"} => Now.op = "setup" \/ "fresh" \in Mine.bits
           t == Tail(todo)
<1>1. Formed(todo')
  <2>1. (\A c \in Channels : Available(ch[c]) \in Nat) /\ Counts \subseteq Nat
    BY Numbers
  <2> QED BY <2>1, StepForms
<1>2. CASE todo' = <<>> /\ Now.op \in {"realloc", "resmooth"}
  <2>1. Len(todo') = 0
    BY <1>2
  <2>2. 1 .. 0 = {}
    OBVIOUS
  <2>3. ~Preparing(todo')
    BY <1>2 DEF Preparing
  <2> QED BY <1>1, <1>2, <2>1, <2>2, <2>3
<1>3. ASSUME NEW s \in Seq(Steps), todo' = s \o t, \A i \in 1 .. Len(s) : Good(s[i])
      PROVE  /\ Preparing(todo') => Preparing(todo)
             /\ todo' # <<>> /\ Preparing(todo) => Preparing(todo')
             /\ \A i \in 1 .. Len(todo') :
                  \/ Good(todo'[i])
                  \/ \E k \in 2 .. Len(todo) :
                       todo'[i] = todo[k] /\ \A j \in 2 .. k - 1 : \E m \in 1 .. i - 1 : todo'[m] = todo[j]
             /\ \A k \in 2 .. Len(todo) : \E i \in 1 .. Len(todo') : todo'[i] = todo[k]
  <2>1. /\ todo # <<>> /\ t \in Seq(Steps) /\ Len(todo) \in Nat \ {0} /\ Len(t) = Len(todo) - 1
        /\ \A i \in 1 .. Len(t) : t[i] = todo[i + 1]
        /\ t # <<>> => (Preparing(t) <=> Preparing(todo))
        /\ Now \in Steps /\ Now = todo[1]
    BY Kinds, Ahead
  <2>2. /\ Len(todo') = Len(s) + Len(t) /\ Len(s) \in Nat /\ Len(t) \in Nat
        /\ \A i \in 1 .. Len(s) : todo'[i] = s[i]
        /\ \A i \in 1 .. Len(t) : todo'[Len(s) + i] = t[i]
    BY <1>3, <2>1, CatFacts
  <2>3. \A i \in 1 .. Len(s) : s[i].op # "start"
    BY <1>3
  <2>4. Preparing(todo') => t # <<>> /\ Preparing(t)
    BY <1>3, <2>1, <2>3, CatPreparing
  <2>5. ASSUME todo' # <<>>, Preparing(todo) PROVE Preparing(todo')
    <3>1. CASE t # <<>>
      BY <1>3, <2>1, <2>5, <3>1, CatPreparing
    <3>2. CASE t = <<>>
      <4>1. Len(todo) = 1
        <5> HIDE DEF t
        <5>1. Len(t) = 0
          BY ONLY <3>2
        <5> QED BY ONLY <2>1, <5>1
      <4>2. Now.op = "start"
        BY <2>1, <2>5, <4>1 DEF Preparing
      <4>3. Len(s) = 0
        <5>1. 1 \notin 1 .. Len(s)
          BY <1>3, <4>2
        <5> QED BY <2>2, <5>1
      <4>4. s = <<>>
        BY <4>3
      <4> QED BY <1>3, <2>5, <3>2, <4>4, NoSteps
    <3> QED BY <3>1, <3>2
  <2> DEFINE a == Len(s)
             n == Len(todo)
  <2> HIDE DEF t, Good, a, n
  <2>6. ASSUME NEW k \in 2 .. n
        PROVE  k - 1 \in 1 .. Len(t) /\ a + (k - 1) \in 1 .. Len(todo') /\ todo'[a + (k - 1)] = todo[k]
    <3>1. k - 1 \in 1 .. Len(t) /\ a + (k - 1) \in 1 .. Len(todo') /\ k - 1 + 1 = k
      BY <2>1, <2>2, <2>6 DEF a, n
    <3>2. t[k - 1] = todo[k]
      BY <2>1, <3>1
    <3> QED BY <2>2, <3>1, <3>2 DEF a
  <2>7. ASSUME NEW i \in 1 .. Len(todo')
        PROVE  \/ Good(todo'[i])
               \/ \E k \in 2 .. n :
                    todo'[i] = todo[k] /\ \A j \in 2 .. k - 1 : \E m \in 1 .. i - 1 : todo'[m] = todo[j]
    <3>1. CASE i \in 1 .. a
      BY <1>3, <2>2, <3>1 DEF a
    <3>2. CASE i \notin 1 .. a
      <4> DEFINE k == i - a + 1
      <4>1. k \in 2 .. n /\ i = a + (k - 1)
        BY <2>1, <2>2, <3>2 DEF a, n
      <4>2. \A j \in 2 .. k - 1 : j \in 2 .. n /\ a + (j - 1) \in 1 .. i - 1
        BY <2>1, <2>2, <4>1 DEF a, n
      <4> HIDE DEF k
      <4>3. \A j \in 2 .. k - 1 : \E m \in 1 .. i - 1 : todo'[m] = todo[j]
        BY <2>6, <4>2
      <4> QED BY <2>6, <4>1, <4>3
    <3> QED BY <3>1, <3>2
  <2>8. \A k \in 2 .. n : \E i \in 1 .. Len(todo') : todo'[i] = todo[k]
    BY <2>6
  <2>9. Preparing(todo') => Preparing(todo)
    BY <2>1, <2>4
  <2> QED BY <2>5, <2>7, <2>8, <2>9 DEF n
<1>4. (todo' = <<>> /\ Now.op \in {"realloc", "resmooth"})
        \/ \E s \in Seq(Steps) : todo' = s \o t /\ \A i \in 1 .. Len(s) : Good(s[i])
  BY StepList
<1>5. CASE \E s \in Seq(Steps) : todo' = s \o t /\ \A i \in 1 .. Len(s) : Good(s[i])
  <2>1. PICK s \in Seq(Steps) : todo' = s \o t /\ \A i \in 1 .. Len(s) : Good(s[i])
    BY <1>5
  <2> HIDE DEF t, Good
  <2>2. /\ Preparing(todo') => Preparing(todo)
        /\ todo' # <<>> /\ Preparing(todo) => Preparing(todo')
        /\ \A i \in 1 .. Len(todo') :
             \/ Good(todo'[i])
             \/ \E k \in 2 .. Len(todo) :
                  todo'[i] = todo[k] /\ \A j \in 2 .. k - 1 : \E m \in 1 .. i - 1 : todo'[m] = todo[j]
        /\ \A k \in 2 .. Len(todo) : \E i \in 1 .. Len(todo') : todo'[i] = todo[k]
    BY <1>3, <2>1
  <2> QED BY <1>1, <2>2 DEF Good
<1> QED BY <1>2, <1>4, <1>5

-----------------------------------------------------------------------------
(***************************************************************************)
(* The channels in use.                                                    *)
(***************************************************************************)
LEMMA StepDevice ==
  ASSUME IInv, Step
  PROVE  /\ Now.op # "storeActive" => Used' \subseteq Used
         /\ Now.op = "disable" => Used' = {}
         /\ Now.op = "storeActive" /\ Now.on =>
              /\ Preparing(todo) /\ dev.on = {} /\ dev.busy = {}
              /\ Used = dev.active /\ Used' = Used \union {Now.ch} /\ dev'.active = Used'
         /\ Now.op = "storeActive" /\ ~Now.on =>
              ~Preparing(todo) /\ Used' \subseteq Used /\ dev'.active = {}
         /\ Now.op \notin {"storeActive"} => dev'.active = dev.active
         /\ Now.op # "start" /\ dev.on = {} /\ dev.busy = {} => dev'.on = {} /\ dev'.busy = {}
<1>1. todo # <<>> /\ dev \in Device /\ Formed(todo) /\ Now \in Steps /\ Placed(todo, 1) /\ Now = todo[1]
      /\ 1 \in 1 .. Len(todo) /\ todo \in Seq(Steps)
  BY Kinds, Ahead DEF IInv, Values
<1>2. /\ Now.op = "disable" => dev' = [dev EXCEPT !.on = @ \ {Now.ch}, !.busy = @ \ {Now.ch}]
      /\ Now.op = "idle" => dev' = [dev EXCEPT !.running = @ /\ dev.active # {}]
      /\ Now.op = "storeActive" =>
           dev' = [dev EXCEPT !.active = IF Now.on THEN word \union {Now.ch} ELSE word \ {Now.ch}]
      /\ Now.op = "start" => dev' = dev \/ dev' = [Started(Resequenced(dev)) EXCEPT !.running = TRUE]
      /\ Now.op \notin {"storeActive", "disable", "idle", "start"} => dev' = dev
  BY <1>1, Kinds, StepTodo DEF Disable, Idle, StoreActive, Start
<1>3. CASE Now.op = "disable"
  <2>1. ~Preparing(todo)
    BY <1>1, <1>3 DEF IInv, Prepared, Preparations
  <2>2. Used \subseteq {Now.ch} /\ dev.active = {}
    BY <1>1, <1>3, <2>1 DEF IInv, Tuned, Doing
  <2>3. dev'.active = dev.active /\ dev'.on = dev.on \ {Now.ch} /\ dev'.busy = dev.busy \ {Now.ch}
    BY <1>1, <1>2, <1>3 DEF Device
  <2> QED BY <1>3, <2>2, <2>3 DEF Used
<1>4. CASE Now.op = "idle"
  <2>1. dev'.active = dev.active /\ dev'.on = dev.on /\ dev'.busy = dev.busy
    BY <1>1, <1>2, <1>4 DEF Device
  <2> QED BY <1>4, <2>1 DEF Used
<1>5. CASE Now.op = "storeActive"
  <2>1. /\ dev'.active = IF Now.on THEN word \union {Now.ch} ELSE word \ {Now.ch}
        /\ dev'.on = dev.on /\ dev'.busy = dev.busy
    BY <1>1, <1>2, <1>5 DEF Device
  <2>2. IF Now.on THEN word = dev.active ELSE word \subseteq {Now.ch}
    BY <1>1, <1>5 DEF IInv, Loaded, Doing
  <2>3. IF Now.on THEN Preparing(todo) ELSE ~Preparing(todo)
    BY <1>1, <1>5 DEF Placed
  <2>4. Preparing(todo) => dev.on = {} /\ dev.busy = {}
    BY DEF IInv, Prepared
  <2>5. ASSUME Now.on
        PROVE  /\ Preparing(todo) /\ dev.on = {} /\ dev.busy = {}
               /\ Used = dev.active /\ Used' = Used \union {Now.ch} /\ dev'.active = Used'
    BY <2>1, <2>2, <2>3, <2>4, <2>5 DEF Used
  <2>6. ASSUME ~Now.on PROVE ~Preparing(todo) /\ Used' \subseteq Used /\ dev'.active = {}
    BY <2>1, <2>2, <2>3, <2>6 DEF Used
  <2> QED BY <1>5, <2>1, <2>5, <2>6
<1>6. CASE Now.op = "start"
  <2>1. /\ dev'.active = dev.active
        /\ \/ dev'.on = dev.on /\ dev'.busy = dev.busy
           \/ dev'.on = dev.active /\ dev'.busy = dev.active
           \/ dev'.on = dev.on /\ dev'.busy = dev.on
    <3>1. CASE dev' = dev
      BY <3>1
    <3>2. CASE dev' = [Started(Resequenced(dev)) EXCEPT !.running = TRUE]
      <4>1. Resequenced(dev) \in Device /\ Resequenced(dev).active = dev.active
            /\ \/ Resequenced(dev).on = dev.active
               \/ Resequenced(dev).on = dev.on
        BY <1>1 DEF Resequenced, Device
      <4> DEFINE r == Resequenced(dev)
      <4> HIDE DEF r
      <4>2. r \in Device /\ r.active = dev.active /\ (r.on = dev.active \/ r.on = dev.on)
        BY <4>1 DEF r
      <4>3. dev' = [[r EXCEPT !.busy = r.on] EXCEPT !.running = TRUE]
        BY <3>2 DEF Started, r
      <4>4. dev'.active = r.active /\ dev'.on = r.on /\ dev'.busy = r.on
        BY <4>2, <4>3 DEF Device
      <4> QED BY <4>2, <4>4
    <3> QED BY <1>2, <1>6, <3>1, <3>2
  <2> QED BY <1>6, <2>1 DEF Used
<1>7. CASE Now.op \notin {"storeActive", "disable", "idle", "start"}
  BY <1>2, <1>7 DEF Used
<1> QED BY <1>3, <1>4, <1>5, <1>6, <1>7

\* What the step to come may rely on.
LEMMA Relied ==
  ASSUME IInv, todo # <<>>
  PROVE  /\ Now \in Steps /\ Now = todo[1] /\ Len(todo) \in Nat /\ todo \in Seq(Steps)
         /\ \A i \in 1 .. Len(todo) : todo[i] \in Steps
         /\ Preparing(todo) /\ Now.op # "start" =>
              Now \in Preparations /\ Now.ch \notin Used /\ Void(Mine) /\ Now.ch \in Channels
         /\ Preparing(todo) => dev.on = {} /\ dev.busy = {} /\ Used = dev.active
                               /\ \A i \in 1 .. Len(todo) : todo[i].op # "disable"
         /\ Now.op \in {"resmooth", "unsmooth"} => Used = {}
         /\ Now.op \in {"count0", "wptr0", "size", "realloc", "request", "setup"} => Now.ch \notin Used
         /\ Now.op \in {"size", "realloc", "request", "setup"} => Preparing(todo)
         /\ Now.op = "storeBits" /\ Now.bit = "pending" =>
              IF Now.on THEN Preparing(todo)
              ELSE \E j \in 2 .. Len(todo) : todo[j].op = "disable" /\ todo[j].ch = Now.ch
<1>1. /\ Formed(todo) /\ Now \in Steps /\ Placed(todo, 1) /\ Now = todo[1] /\ 1 \in 1 .. Len(todo)
      /\ todo \in Seq(Steps) /\ Len(todo) \in Nat /\ \A i \in 1 .. Len(todo) : todo[i] \in Steps
  <2>1. Formed(todo)
    BY DEF IInv
  <2>2. \A i \in 1 .. Len(todo) : todo[i] \in Steps
    BY <2>1 DEF Formed
  <2> QED BY <2>1, <2>2, Ahead
<1>2. Preparing(todo) => dev.on = {} /\ dev.busy = {} /\ Used = dev.active
  BY DEF IInv, Prepared, Used
<1>3. Preparing(todo) => \A i \in 1 .. Len(todo) : todo[i].op # "disable"
  BY DEF IInv, Prepared, Preparations
<1>4. Preparing(todo) /\ Now.op # "start" =>
        Now \in Preparations /\ Now.ch \notin Used /\ Void(Mine) /\ Now.ch \in Channels
  <2>1. Preparing(todo) /\ Now.op # "start" =>
          Now \in Preparations /\ Now.ch \notin dev.active /\ Void(ch[Now.ch])
    BY <1>1 DEF IInv, Prepared
  <2> QED BY <1>1, <1>2, <2>1, Fields DEF Mine
<1>5. 1 .. 1 - 1 = {}
  OBVIOUS
<1>6. Now.op \in {"resmooth", "unsmooth", "count0", "wptr0"} /\ ~Preparing(todo) => Used = {}
  BY <1>1, <1>5 DEF IInv, Tuned
<1>7. Now.op \in {"resmooth", "unsmooth"} => ~Preparing(todo)
  BY <1>4 DEF Preparations
<1>8. Now.op \in {"size", "realloc", "request", "setup"} => Preparing(todo)
  BY <1>1 DEF Placed
<1>9. Now.op \in {"count0", "wptr0", "size", "realloc", "request", "setup"} => Now.ch \notin Used
  BY <1>4, <1>6, <1>8
<1>10. Now.op = "storeBits" /\ Now.bit = "pending" =>
         IF Now.on THEN Preparing(todo)
         ELSE \E j \in 1 + 1 .. Len(todo) : todo[j].op = "disable" /\ todo[j].ch = Now.ch
  BY <1>1 DEF Placed
<1>11. 1 + 1 = 2
  OBVIOUS
<1> QED BY <1>1, <1>2, <1>3, <1>4, <1>6, <1>7, <1>8, <1>9, <1>10, <1>11

\* The start of the converter: fresh samples are void.
LEMMA StepStart ==
  ASSUME IInv, Step, Now.op = "start"
  PROVE  /\ todo' = <<>>
         /\ \A c \in Channels : /\ ch'[c].buf = ch[c].buf /\ ch'[c].req = ch[c].req /\ ch'[c].len = ch[c].len
                                /\ ch'[c].idx = ch[c].idx /\ ch'[c].ring = ch[c].ring /\ ch'[c].value = ch[c].value
                                /\ ch'[c].bits \in {ch[c].bits, ch[c].bits \ {"fresh"}}
         /\ \/ ch' = ch
            \/ ch' = [c \in Channels |-> IF Resequences(dev) /\ c \in dev.active
                                         THEN [ch[c] EXCEPT !.bits = @ \ {"fresh"}] ELSE ch[c]]
<1>1. todo # <<>> /\ Formed(todo) /\ Start
  BY Kinds DEF IInv
<1>2. todo' = Tail(todo)
  BY <1>1, StepTodo
<1>3. Tail(todo) # <<>> => Leads(Now, Tail(todo)[1])
  BY <1>1, Ahead
<1>4. todo' = <<>>
  BY <1>2, <1>3 DEF Leads
<1>5. ch' = ch \/ ch' = Voided(dev, ch)
  BY <1>1 DEF Start
<1>6. ASSUME NEW c \in Channels
      PROVE  /\ ch'[c].buf = ch[c].buf /\ ch'[c].req = ch[c].req /\ ch'[c].len = ch[c].len
             /\ ch'[c].idx = ch[c].idx /\ ch'[c].ring = ch[c].ring /\ ch'[c].value = ch[c].value
             /\ ch'[c].bits \in {ch[c].bits, ch[c].bits \ {"fresh"}}
  <2>1. ch[c] \in Channel
    BY DEF IInv, Values
  <2>2. ch'[c] = ch[c] \/ ch'[c] = [ch[c] EXCEPT !.bits = @ \ {"fresh"}]
    BY <1>5 DEF Voided
  <2> QED BY <2>1, <2>2 DEF Channel
<1> QED BY <1>4, <1>5, <1>6 DEF Voided

\* A channel that awaits samples goes on to, or is stopped.
LEMMA AwaitsStep ==
  ASSUME IInv, Step, NEW c \in Channels, Awaits(c), c \in Used, c \in Used'
  PROVE  Awaits(c)'
<1>1. todo # <<>> /\ Values /\ Formed(todo) /\ Loaded
  BY Kinds DEF IInv
<1>2. CASE "pending" \in ch[c].bits
  <2>1. CASE Now.op = "start"
    BY <1>2, <2>1, StepStart DEF Awaits
  <2>2. CASE Now.op # "start" /\ c # Now.ch
    BY <1>1, <1>2, <2>2, StepChannel DEF Awaits
  <2>3. CASE Now.op \notin {"start", "storeBits"} /\ c = Now.ch
    BY <1>1, <1>2, <2>3, StepFields DEF Awaits, Mine
  <2>4. CASE Now.op = "storeBits" /\ c = Now.ch
    <3>1. "pending" \in word
      BY <1>1, <1>2, <2>4 DEF Loaded, Doing, Mine
    <3>2. ch'[c].bits = IF Now.on THEN word \union {Now.bit} ELSE word \ {Now.bit}
      BY <1>1, <2>4, StepFields
    <3>3. CASE Now.on \/ Now.bit # "pending"
      BY <3>1, <3>2, <3>3 DEF Awaits
    <3>4. CASE ~Now.on /\ Now.bit = "pending"
      <4>1. PICK j \in 2 .. Len(todo) : todo[j].op = "disable" /\ todo[j].ch = c
        BY <1>1, <2>4, <3>4, Relied
      <4>2. \E i \in 1 .. Len(todo') : todo'[i] = todo[j]
        BY <1>1, <2>4, StepRest
      <4> QED BY <4>1, <4>2 DEF Awaits
    <3> QED BY <3>3, <3>4
  <2> QED BY <2>1, <2>2, <2>3, <2>4
<1>3. CASE \E i \in 1 .. Len(todo) : todo[i].op = "disable" /\ todo[i].ch = c
  <2>1. PICK i \in 1 .. Len(todo) : todo[i].op = "disable" /\ todo[i].ch = c
    BY <1>3
  <2>2. i # 1
    BY <1>1, <2>1, StepDevice, Relied
  <2>3. i \in 2 .. Len(todo)
    BY <1>1, <2>2, Relied
  <2>4. Now.op \notin {"realloc", "resmooth"}
    BY <1>1, <2>1, Relied
  <2>5. \E k \in 1 .. Len(todo') : todo'[k] = todo[i]
    BY <1>1, <2>3, <2>4, StepRest
  <2> QED BY <2>1, <2>5 DEF Awaits
<1> QED BY <1>2, <1>3 DEF Awaits

\* It has room for what it has to get.
LEMMA FitsStep ==
  ASSUME IInv, Step, NEW c \in Channels, Fits(ch[c]), c \in Used
  PROVE  Fits(ch'[c])
<1>1. todo # <<>> /\ Values /\ Formed(todo) /\ Loaded /\ Taken
  BY Kinds DEF IInv
<1>2. CASE Now.op = "start"
  BY <1>2, StepStart DEF Fits
<1>3. CASE Now.op # "start" /\ c # Now.ch
  BY <1>1, <1>3, StepChannel
<1>4. CASE Now.op # "start" /\ c = Now.ch
  <2>1. Now.op \notin {"count0", "wptr0", "size", "realloc", "request", "setup", "resmooth", "unsmooth"}
    BY <1>1, <1>4, Relied
  <2>2. ch'[c].buf.size = ch[c].buf.size /\ Room(ch'[c].buf) = Room(ch[c].buf)
    BY <1>1, <1>4, <2>1, StepFields DEF Mine, Room
  <2>3. ch[c].buf.count \in Nat /\ Room(ch[c].buf) \in Nat /\ ch[c].req \in Nat
    BY <1>1, Numbers DEF Room
  <2>4. ch'[c].buf.count \in {ch[c].buf.count, ch[c].buf.count - 1}
    BY <1>1, <1>4, <2>1, StepFields DEF Mine
  <2>5. "fresh" \notin ch'[c].bits
    <3>1. CASE Now.op # "storeBits"
      BY <1>1, <1>4, <3>1, StepFields DEF Mine, Fits
    <3>2. CASE Now.op = "storeBits"
      <4>1. "fresh" \notin word
        BY <1>1, <1>4, <3>2 DEF Loaded, Doing
      <4>2. ch'[c].bits = IF Now.on THEN word \union {Now.bit} ELSE word \ {Now.bit}
        BY <1>1, <1>4, <3>2, StepFields
      <4>3. Now.bit = "fresh" => ~Now.on
        BY <1>1, <3>2, Relied, Fields
      <4> QED BY <4>1, <4>2, <4>3
    <3> QED BY <3>1, <3>2
  <2>6. CASE Now.op # "countDown"
    <3>1. ch'[c].req = ch[c].req
      BY <1>1, <1>4, <2>1, <2>6, StepFields DEF Mine
    <3> QED BY <2>2, <2>3, <2>4, <2>5, <3>1 DEF Fits
  <2>7. CASE Now.op = "countDown"
    <3>1. ch[c].buf.count < ch[c].req
      BY <1>1, <1>4, <2>7 DEF Taken, Doing, Mine
    <3>2. ch'[c].req = (IF ch[c].req > 0 THEN ch[c].req - 1 ELSE 0) /\ ch'[c].buf.count = ch[c].buf.count
      BY <1>1, <1>4, <2>7, StepFields DEF Mine
    <3> QED BY <2>2, <2>3, <2>5, <3>1, <3>2 DEF Fits
  <2> QED BY <2>6, <2>7
<1> QED BY <1>2, <1>3, <1>4

LEMMA SamplingStep ==
  ASSUME IInv, Step
  PROVE  Sampling'
<1>1. todo # <<>> /\ Values /\ Formed(todo) /\ Sampling /\ Prepared /\ Used \subseteq Channels
  BY Kinds DEF IInv, Values, Device, Used
<1> SUFFICES ASSUME NEW c \in Used' PROVE Awaits(c)' /\ Fits(ch'[c])
  BY DEF Sampling
<1>2. CASE c \in Used
  BY <1>1, <1>2, AwaitsStep, FitsStep DEF Sampling
<1>3. CASE c \notin Used
  <2>1. Now.op = "storeActive" /\ Now.on /\ c = Now.ch /\ Preparing(todo)
    BY <1>1, <1>3, StepDevice
  <2>2. ch' = ch
    BY <1>1, <2>1, StepTodo
  <2>3. /\ Void(Mine) /\ c \in Channels
        /\ Mine.req <= Room(Mine.buf) /\ "pending" \in Mine.bits
    BY <1>1, <2>1, Relied DEF Prepared
  <2>4. ch[c].buf.count \in Nat /\ Room(ch[c].buf) \in Nat \ {0} /\ ch[c].req \in Nat
    BY <1>1, <2>3, Numbers DEF Room
  <2>5. Awaits(c)'
    BY <2>1, <2>2, <2>3 DEF Awaits, Mine
  <2>6. Fits(ch[c])
    BY <2>1, <2>3, <2>4 DEF Fits, Void, Mine
  <2> QED BY <2>2, <2>5, <2>6
<1> QED BY <1>2, <1>3

-----------------------------------------------------------------------------
(***************************************************************************)
(* The step that is next after a step.                                     *)
(***************************************************************************)
LEMMA CameFrom ==
  ASSUME IInv, Step, todo' # <<>>
  PROVE  LET y == Now'
         IN /\ y = todo'[1] /\ y \in Steps /\ todo' \in Seq(Steps)
            /\ y.op \notin {"start", "setup", "process", "return"} => y.ch = Now.ch /\ y.ch \in Channels /\ Now.op # "start"
            /\ y.op \notin {"size", "request", "copy", "copyFresh", "pick", "process", "return"} => todo' = Tail(todo)
            /\ y.op = "size" => Now.op = "setup" /\ 6 <= Len(todo') /\ todo'[6].n = y.n
            /\ y.op = "realloc" => Now.op = "size" /\ y.n = Now.n
            /\ y.op = "count0" => Now.op = "realloc" \/ (Now.op = "storeBits" /\ Now.bit = "ready")
            /\ y.op = "wptr0" => Now.op = "count0"
            /\ y.op = "rptr0" => Now.op = "wptr0"
            /\ y.op = "request" =>
                 \/ Now.op = "rptr0" /\ todo' = Tail(todo)
                 \/ Now.op = "setup" /\ y.n = Mine.buf.size
            /\ y.op = "loadBits" => Now.op \in {"request", "unsmooth", "copyFresh"}
            /\ y.op = "storeBits" => Now.op = "loadBits"
            /\ y.op = "loadActive" => Now.op = "storeBits" /\ Now.bit = "pending"
            /\ y.op = "storeActive" => Now.op = "loadActive"
            /\ y.op = "disable" => Now.op = "storeActive" /\ ~Now.on
            /\ y.op = "unsmooth" => Now.op = "resmooth"
            /\ y.op = "pick" => Now.op = "process" /\ Available(Mine) # 0
            /\ y.op = "copy" => Now.op = "pick" /\ ~BufEmpty(Mine.buf)
            /\ y.op = "decrement" => Now.op = "copy"
            /\ y.op = "advance" => Now.op = "decrement"
            /\ y.op = "smooth" =>
                 \/ Now.op = "advance" \/ (Now.op = "storeBits" /\ Now.bit = "fresh")
                 \/ Now.op = "pick" /\ BufEmpty(Mine.buf)
            /\ y.op = "countDown" =>
                 \/ Now.op \in {"advance", "smooth"} \/ (Now.op = "storeBits" /\ Now.bit = "fresh")
                 \/ Now.op = "pick" /\ BufEmpty(Mine.buf)
            /\ y.op # "wait"
<1> DEFINE y == Now'
<1>1. /\ todo # <<>> /\ Values /\ Formed(todo) /\ Formed(todo') /\ Now \in Steps
      /\ (\A c \in Channels : Available(ch[c]) \in Nat) /\ Counts \subseteq Nat
  <2>1. todo # <<>> /\ Values /\ Formed(todo)
    BY Kinds DEF IInv
  <2>2. Formed(todo')
    BY <2>1, StepRest
  <2>3. (\A c \in Channels : Available(ch[c]) \in Nat) /\ Counts \subseteq Nat
    BY <2>1, Numbers
  <2> QED BY <2>1, <2>2, <2>3, Ahead
<1>2. y = todo'[1] /\ y \in Steps /\ todo' \in Seq(Steps)
  <2>1. todo' \in Seq(Steps)
    BY <1>1 DEF Formed
  <2> QED BY <2>1, TailFacts DEF Now
<1>3. CASE todo' = Tail(todo) /\ Now.op \notin {"pick", "setup"}
  <2>1. Leads(Now, y)
    BY <1>1, <1>2, <1>3, Ahead
  <2> HIDE DEF y
  <2>2. y.op # "start" => y.ch \in Channels
    BY <1>2, Fields
  <2> QED BY <1>1, <1>2, <1>3, <2>1, <2>2, LedTo DEF y
<1>4. CASE Now.op = "setup"
  <2>1. /\ Now.ch \in Channels /\ todo'[1].ch = Now.ch
        /\ \/ todo'[1].op = "request" /\ todo'[1].n = Now.n /\ Mine.buf.size = Now.n
           \/ todo'[1].op = "size" /\ todo'[1].n = Now.n /\ 6 <= Len(todo') /\ todo'[6].n = Now.n
    BY <1>1, <1>4, Kinds, SetupLists
  <2> HIDE DEF y
  <2> QED BY <1>2, <1>4, <2>1 DEF y
<1>5. CASE Now.op = "pick"
  <2>1. Now.ch \in Channels
    BY <1>1, <1>5, Fields
  <2>2. \/ "fresh" \in Mine.bits /\ todo'[1] = [op |-> "copyFresh", ch |-> Now.ch]
        \/ ~BufEmpty(Mine.buf) /\ todo'[1] = [op |-> "copy", ch |-> Now.ch]
        \/ BufEmpty(Mine.buf) /\ todo' = Tail(todo)
    BY <1>1, <1>5, TakeFirst
  <2>3. todo' = Tail(todo) => Leads(Now, y)
    BY <1>1, <1>2, Ahead
  <2> HIDE DEF y
  <2>4. CASE y = [op |-> "copyFresh", ch |-> Now.ch]
    BY <1>2, <1>5, <2>1, <2>4 DEF y
  <2>5. CASE ~BufEmpty(Mine.buf) /\ y = [op |-> "copy", ch |-> Now.ch]
    BY <1>2, <1>5, <2>1, <2>5 DEF y
  <2>6. CASE BufEmpty(Mine.buf) /\ todo' = Tail(todo)
    <3>1. y.op \in {"smooth", "countDown"} /\ y.ch = Now.ch
      BY <1>2, <1>5, <2>3, <2>6 DEF Leads
    <3> QED BY <1>2, <1>5, <2>1, <2>6, <3>1 DEF y
  <2> QED BY <1>2, <2>2, <2>4, <2>5, <2>6
<1>6. CASE Now.op = "process"
  <2>1. Now.ch \in Channels
    BY <1>1, <1>6, Fields
  <2>2. \/ todo'[1] = [op |-> "return", ch |-> Now.ch]
        \/ todo'[1] = [op |-> "pick", ch |-> Now.ch] /\ Available(Mine) # 0
    BY <1>1, <1>6, TakeFirst
  <2> HIDE DEF y
  <2> QED BY <1>2, <1>6, <2>1, <2>2 DEF y
<1>7. CASE Now.op = "wait"
  <2>1. todo'[1].op = "process"
    BY <1>1, <1>7, TakeFirst
  <2> HIDE DEF y
  <2> QED BY <1>2, <2>1 DEF y
<1> QED BY <1>1, <1>3, <1>4, <1>5, <1>6, <1>7, StepTodo

-----------------------------------------------------------------------------
(***************************************************************************)
(* The memory of the channels.                                             *)
(***************************************************************************)
\* The smoothing ring, but while it is replaced.
LEMMA RingStep ==
  ASSUME IInv, Step, NEW c \in Channels, Shape(c)
  PROVE  /\ ch'[c].len > 1 => Len(ch'[c].ring) = ch'[c].len
         /\ ~At("unsmooth", c)' => ch'[c].idx <= ch'[c].len
<1> DEFINE s == ch[c]
           u == ch'[c]
<1>1. /\ todo # <<>> /\ Values /\ Formed(todo) /\ Now \in Steps /\ s \in Channel
      /\ s.len \in Nat \ {0} /\ s.idx \in Nat /\ s.ring \in Seq(0 .. MaxSamples) /\ Lengths \subseteq Nat \ {0}
  <2>1. todo # <<>> /\ Values /\ Formed(todo)
    BY Kinds DEF IInv
  <2>2. Now \in Steps /\ s \in Channel /\ Lengths \subseteq Nat \ {0} /\ MaxSize \in Nat
    BY <2>1, Ahead, Numbers
  <2>3. s.len \in Lengths /\ s.idx \in 0 .. MaxSize /\ s.ring \in Seq(0 .. MaxSamples)
    BY <2>2 DEF Channel
  <2> HIDE DEF s
  <2>4. s.len \in Nat \ {0}
    <3>1. s.len \in Lengths
      BY ONLY <2>3
    <3> QED BY ONLY <2>2, <3>1
  <2>5. s.idx \in Nat
    <3>1. s.idx \in 0 .. MaxSize /\ MaxSize \in Nat
      BY ONLY <2>2, <2>3
    <3> QED BY ONLY <3>1
  <2> QED BY <2>1, <2>2, <2>3, <2>4, <2>5
<1>2. /\ s.len > 1 => Len(s.ring) = s.len
      /\ ~At("unsmooth", c) => s.idx <= s.len
  BY DEF Shape
<1>3. At("unsmooth", c)' => todo' # <<>> /\ Now'.op = "unsmooth" /\ Now'.ch = c
  BY DEF At, Doing
<1>4. At("unsmooth", c)' => Now.op = "resmooth" /\ Now.ch = c
  BY <1>1, <1>3, CameFrom
<1>5. CASE Now.op = "start"
  BY <1>2, <1>5, StepStart DEF At, Doing
<1>6. CASE Now.op # "start" /\ c # Now.ch
  BY <1>1, <1>2, <1>6, StepChannel DEF At, Doing
<1>7. CASE Now.op \notin {"start", "smooth", "resmooth", "unsmooth"} /\ c = Now.ch
  <2>1. u.len = s.len /\ u.idx = s.idx /\ u.ring = s.ring
    BY <1>1, <1>7, StepChannel, SMTT(30) DEF Channel, Mine
  <2>2. ~At("unsmooth", c)
    BY <1>7 DEF At, Doing
  <2> QED BY <1>2, <2>1, <2>2
<1>8. CASE Now.op = "smooth" /\ c = Now.ch
  <2>1. u = SmoothData(s, sample)
    BY <1>1, <1>8, StepChannel DEF Mine
  <2>2. s.idx <= s.len
    BY <1>2, <1>8 DEF At, Doing
  <2> DEFINE i == IF s.idx = s.len THEN 1 ELSE s.idx + 1
  <2>3. i \in Nat /\ i <= s.len
    BY <1>1, <2>2
  <2>4. u.len = s.len /\ u.idx = i /\ u.ring = [s.ring EXCEPT ![i] = sample]
    BY <1>1, <2>1 DEF Channel, SmoothData
  <2>5. Len(u.ring) = Len(s.ring)
    <3> HIDE DEF i
    <3>1. sample \in 0 .. MaxSamples
      BY <1>1 DEF Values
    <3> QED BY <1>1, <2>4, <3>1
  <2> QED BY <1>2, <2>3, <2>4, <2>5
<1>9. CASE Now.op = "unsmooth" /\ c = Now.ch
  <2>1. u = [s EXCEPT !.idx = 0, !.ring = [i \in DOMAIN @ |-> NoData]]
    BY <1>1, <1>9, StepChannel DEF Mine
  <2>2. u.len = s.len /\ u.idx = 0 /\ u.ring = [i \in DOMAIN s.ring |-> NoData]
    BY <1>1, <2>1 DEF Channel
  <2>3. Len(u.ring) = Len(s.ring)
    BY <1>1, <2>2
  <2> QED BY <1>1, <1>2, <2>2, <2>3
<1>10. CASE Now.op = "resmooth" /\ c = Now.ch
  <2>1. Resmooth /\ Placed(todo, 1) /\ Now = todo[1] /\ Len(todo) \in Nat /\ Now.n \in Nat \ {0}
    <3>1. Now.n \in Lengths
      BY <1>1, <1>10, Fields
    <3> QED BY <1>1, <1>10, <3>1, Kinds, Ahead
  <2>2. Tail(todo) # <<>> /\ Tail(todo)[1].op = "unsmooth" /\ Tail(todo)[1].ch = c
    <3>1. Tail(todo) # <<>>
      <4>1. 1 + 1 \in 1 .. Len(todo)
        BY <1>10, <2>1 DEF Placed
      <4>2. Len(Tail(todo)) = Len(todo) - 1 /\ Tail(todo) \in Seq(Steps)
        BY <1>1, Ahead
      <4>3. Len(Tail(todo)) # 0
        BY <2>1, <4>1, <4>2
      <4> QED BY <4>3, Len(<<>>) = 0
    <3>2. Leads(Now, Tail(todo)[1])
      BY <1>1, <3>1, Ahead
    <3> QED BY <1>10, <3>1, <3>2 DEF Leads
  <2>3. todo' = Tail(todo) => At("unsmooth", c)'
    <3>1. todo' = Tail(todo) => todo' # <<>> /\ Now' = todo'[1]
      BY <2>2, CameFrom
    <3> QED BY <2>2, <3>1 DEF At, Doing
  <2>4. \/ u = s /\ todo' = Tail(todo)
        \/ u = [s EXCEPT !.len = Now.n, !.ring = [i \in 1 .. Now.n |-> NoData]] /\ todo' = Tail(todo)
        \/ u = [s EXCEPT !.len = 1, !.ring = <<>>, !.idx = 0, !.bits = @ \ {"ready"}]
    <3>1. ch \in [Channels -> Channel] /\ (Then(<<>>) => todo' = Tail(todo))
      BY <1>1, ThenNothing DEF Values
    <3> QED BY <1>10, <2>1, <3>1 DEF Resmooth, Becomes, Mine
  <2>5. CASE u = s /\ todo' = Tail(todo)
    BY <1>2, <2>3, <2>5
  <2>6. CASE u = [s EXCEPT !.len = Now.n, !.ring = [i \in 1 .. Now.n |-> NoData]] /\ todo' = Tail(todo)
    <3>1. u.len = Now.n /\ u.ring = [i \in 1 .. Now.n |-> NoData]
      BY <1>1, <2>6 DEF Channel
    <3>2. Len(u.ring) = Now.n
      BY <2>1, <3>1
    <3> QED BY <2>3, <2>6, <3>1, <3>2
  <2>7. CASE u = [s EXCEPT !.len = 1, !.ring = <<>>, !.idx = 0, !.bits = @ \ {"ready"}]
    <3>1. u.len = 1 /\ u.idx = 0
      BY <1>1, <2>7 DEF Channel
    <3> QED BY <3>1
  <2> QED BY <2>4, <2>5, <2>6, <2>7
<1> QED BY <1>5, <1>6, <1>7, <1>8, <1>9, <1>10

\* The buffer, but while it is resized.
LEMMA BlockStep ==
  ASSUME IInv, Step, NEW c \in Channels, Shape(c)
  PROVE  /\ ch'[c].buf.count <= ch'[c].buf.size
         /\ At("realloc", c)' => ch'[c].buf.size = Now'.n
         /\ (At("count0", c) \/ At("wptr0", c))' => ch'[c].buf.room = ch'[c].buf.size
         /\ (~At("realloc", c) /\ ~At("count0", c) /\ ~At("wptr0", c))' => Sound(ch'[c].buf)
<1> DEFINE b == ch[c].buf
           d == ch'[c].buf
<1>1. /\ todo # <<>> /\ Values /\ Formed(todo) /\ Now \in Steps /\ Taken /\ Prepared
      /\ b.size \in Nat /\ b.count \in Nat /\ b.wptr \in Nat
  <2>1. todo # <<>> /\ Values /\ Formed(todo) /\ Taken /\ Prepared
    BY Kinds DEF IInv
  <2>2. Now \in Steps /\ b \in Buffer /\ MaxSize \in Nat \ {0}
    BY <2>1, Ahead, Numbers, BufAssumption
  <2>3. b.size \in 0 .. MaxSize /\ b.count \in 0 .. MaxSize /\ b.wptr \in 0 .. MaxSize - 1
    BY <2>2 DEF Buffer
  <2> HIDE DEF b
  <2>4. b.size \in Nat /\ b.count \in Nat /\ b.wptr \in Nat
    BY <2>2, <2>3
  <2> QED BY <2>1, <2>2, <2>4
<1>2. /\ b.count <= b.size
      /\ At("realloc", c) => b.size = Now.n
      /\ At("count0", c) \/ At("wptr0", c) => b.room = b.size
      /\ ~At("realloc", c) /\ ~At("count0", c) /\ ~At("wptr0", c) => Sound(b)
  BY DEF Shape
<1>3. \A op \in {"realloc", "count0", "wptr0"} :
        At(op, c)' => todo' # <<>> /\ Now'.op = op /\ Now'.ch = c
  BY DEF At, Doing
<1>4. /\ At("realloc", c)' => Now.op = "size" /\ Now.ch = c /\ Now'.n = Now.n
      /\ At("count0", c)' => (Now.op = "realloc" \/ Now.op = "storeBits") /\ Now.ch = c /\ todo' # <<>>
      /\ At("wptr0", c)' => Now.op = "count0" /\ Now.ch = c
  BY <1>1, <1>3, CameFrom
<1>5. CASE Now.op = "start"
  <2>1. d = b /\ todo' = <<>>
    BY <1>5, StepStart
  <2>2. Sound(b)
    BY <1>2, <1>5 DEF At, Doing
  <2> QED BY <1>2, <2>1, <2>2 DEF At, Doing
<1>6. CASE Now.op # "start" /\ c # Now.ch
  <2>1. d = b
    BY <1>1, <1>6, StepChannel
  <2>2. Sound(b)
    BY <1>2, <1>6 DEF At, Doing
  <2> QED BY <1>2, <1>4, <1>6, <2>1, <2>2
<1>7. ASSUME Now.op \in {"size", "realloc", "count0"}, c = Now.ch, todo' = Tail(todo)
      PROVE  /\ Now.op = "size" => At("realloc", c)'
             /\ Now.op = "realloc" => At("count0", c)'
             /\ Now.op = "count0" => At("wptr0", c)'
  <2>1. /\ Placed(todo, 1) /\ Now = todo[1] /\ Len(todo) \in Nat
        /\ Len(Tail(todo)) = Len(todo) - 1 /\ Tail(todo) \in Seq(Steps)
        /\ Tail(todo) # <<>> => Leads(Now, Tail(todo)[1])
    BY <1>1, Ahead
  <2>2. 1 + 1 \in 1 .. Len(todo)
    BY <1>7, <2>1 DEF Placed
  <2>3. Len(Tail(todo)) # 0
    BY <2>1, <2>2
  <2>4. todo' # <<>> /\ Leads(Now, todo'[1])
    <3>1. Tail(todo) # <<>>
      BY <2>3, Len(<<>>) = 0
    <3> QED BY <1>7, <2>1, <3>1
  <2>5. Now' = todo'[1]
    BY <2>4, CameFrom
  <2> QED BY <1>7, <2>4, <2>5 DEF Leads, At, Doing
<1>8. CASE Now.op = "size" /\ c = Now.ch
  <2>1. d.size = Now.n /\ d.count = b.count /\ todo' = Tail(todo)
    BY <1>1, <1>8, StepFields, StepTodo DEF Mine
  <2>2. At("realloc", c)'
    BY <1>7, <1>8, <2>1
  <2>3. b.count = 0
    <3>1. Void(Mine)
      BY <1>1, <1>8, Relied
    <3> QED BY <1>8, <3>1 DEF Void, Mine
  <2>4. Now.n \in Nat
    <3>1. Now.n \in Counts /\ Counts \subseteq Nat
      BY <1>1, <1>8, Fields, Numbers
    <3> QED BY <3>1
  <2>5. ~At("count0", c)' /\ ~At("wptr0", c)'
    BY <1>4, <1>8
  <2> QED BY <1>4, <2>1, <2>2, <2>3, <2>4, <2>5
<1>9. CASE Now.op = "realloc" /\ c = Now.ch
  <2>1. b.size = Now.n
    BY <1>1, <1>2, <1>9 DEF At, Doing
  <2>2. ~At("realloc", c)' /\ ~At("wptr0", c)'
    BY <1>4, <1>9
  <2>3. \/ todo' = Tail(todo) /\ d.size = b.size /\ d.count = b.count /\ d.room = Now.n
        \/ d.size = 0 /\ d.count = 0 /\ d.room = 0
    BY <1>1, <1>9, StepFields DEF Mine
  <2>4. CASE todo' = Tail(todo) /\ d.size = b.size /\ d.count = b.count /\ d.room = Now.n
    <3>1. At("count0", c)'
      BY <1>7, <1>9, <2>4
    <3> QED BY <1>2, <2>1, <2>2, <2>4, <3>1
  <2>5. CASE d.size = 0 /\ d.count = 0 /\ d.room = 0
    BY <2>2, <2>5 DEF Sound
  <2> QED BY <2>3, <2>4, <2>5
<1>10. CASE Now.op = "count0" /\ c = Now.ch
  <2>1. d.size = b.size /\ d.count = 0 /\ d.room = b.room /\ todo' = Tail(todo)
    BY <1>1, <1>10, StepFields, StepTodo DEF Mine
  <2>2. b.room = b.size
    BY <1>1, <1>2, <1>10 DEF At, Doing
  <2>3. At("wptr0", c)'
    BY <1>7, <1>10, <2>1
  <2>4. ~At("realloc", c)' /\ ~At("count0", c)'
    BY <1>4, <1>10
  <2> QED BY <1>1, <2>1, <2>2, <2>3, <2>4
<1>11. CASE Now.op = "wptr0" /\ c = Now.ch
  <2>1. d.size = b.size /\ d.count = b.count /\ d.room = b.room /\ d.wptr = 0
    BY <1>1, <1>11, StepFields DEF Mine
  <2>2. b.room = b.size
    BY <1>1, <1>2, <1>11 DEF At, Doing
  <2>3. Sound(d)
    BY <1>1, <2>1, <2>2 DEF Sound
  <2>4. ~At("realloc", c)' /\ ~At("count0", c)' /\ ~At("wptr0", c)'
    BY <1>4, <1>11
  <2> QED BY <1>2, <2>1, <2>3, <2>4
<1>12. CASE Now.op \notin {"start", "size", "realloc", "count0", "wptr0"} /\ c = Now.ch
  <2>1. d.size = b.size /\ d.room = b.room /\ d.wptr = b.wptr
    BY <1>1, <1>12, StepFields DEF Mine
  <2>2. d.count \in {b.count, b.count - 1}
    BY <1>1, <1>12, StepFields DEF Mine
  <2>3. d.count <= d.size
    BY <1>1, <1>2, <2>1, <2>2
  <2>4. Sound(d) /\ d.room = d.size
    BY <1>2, <1>12, <2>1 DEF At, Doing, Sound
  <2>5. ~At("realloc", c)'
    BY <1>4, <1>12
  <2> QED BY <2>3, <2>4, <2>5
<1> QED BY <1>5, <1>6, <1>8, <1>9, <1>10, <1>11, <1>12

LEMMA ShapedStep ==
  ASSUME IInv, Step
  PROVE  Shaped'
<1> SUFFICES ASSUME NEW c \in Channels PROVE Shape(c)'
  BY DEF Shaped
<1>1. Shape(c)
  BY DEF IInv, Shaped
<1>2. /\ ch'[c].len > 1 => Len(ch'[c].ring) = ch'[c].len
      /\ ~At("unsmooth", c)' => ch'[c].idx <= ch'[c].len
  BY <1>1, RingStep
<1>3. /\ ch'[c].buf.count <= ch'[c].buf.size
      /\ At("realloc", c)' => ch'[c].buf.size = Now'.n
      /\ (At("count0", c) \/ At("wptr0", c))' => ch'[c].buf.room = ch'[c].buf.size
      /\ (~At("realloc", c) /\ ~At("count0", c) /\ ~At("wptr0", c))' => Sound(ch'[c].buf)
  BY <1>1, BlockStep
<1> QED BY <1>2, <1>3 DEF Shape

-----------------------------------------------------------------------------
(***************************************************************************)
(* What is loaded, and what is prepared.                                   *)
(***************************************************************************)
LEMMA LoadedStep ==
  ASSUME IInv, Step
  PROVE  Loaded'
<1>1. /\ todo # <<>> /\ Values /\ Formed(todo) /\ Formed(todo') /\ Sampling /\ Used \subseteq Channels
      /\ (Preparing(todo') => Preparing(todo)) /\ (todo' # <<>> /\ Preparing(todo) => Preparing(todo'))
  <2>1. todo # <<>> /\ Values /\ Formed(todo) /\ Sampling /\ Used \subseteq Channels
    BY Kinds DEF IInv, Values, Device, Used
  <2> QED BY <2>1, StepRest
<1>2. ASSUME Doing("storeBits")'
      PROVE  /\ word' \subseteq Bits
             /\ "pending" \in Mine'.bits => "pending" \in word'
             /\ Now'.ch \in Used' \/ Preparing(todo') => "fresh" \notin word'
  <2>1. todo' # <<>> /\ Now'.op = "storeBits"
    BY <1>2 DEF Doing
  <2>2. Now.op = "loadBits" /\ Now'.ch = Now.ch /\ Now.ch \in Channels
    BY <2>1, CameFrom
  <2>3. ch' = ch /\ word' = Mine.bits
    BY <2>2, Kinds DEF LoadBits
  <2>4. Mine' = Mine /\ Mine.bits \subseteq Bits
    BY <1>1, <2>2, <2>3 DEF Mine, Values, Channel
  <2>5. Used' \subseteq Used
    BY <2>2, StepDevice
  <2>6. Now.ch \in Used => "fresh" \notin Mine.bits
    BY <1>1 DEF Sampling, Fits, Mine
  <2>7. Preparing(todo) => "fresh" \notin Mine.bits
    BY <1>1, <2>2, Relied DEF Void
  <2> QED BY <1>1, <2>2, <2>3, <2>4, <2>5, <2>6, <2>7
<1>3. ASSUME Doing("storeActive")'
      PROVE  /\ word' \subseteq Channels
             /\ IF Now'.on THEN word' = dev'.active ELSE word' \subseteq {Now'.ch}
  <2>1. todo' # <<>> /\ Now'.op = "storeActive"
    BY <1>3 DEF Doing
  <2>2. Now.op = "loadActive" /\ Now'.ch = Now.ch /\ Now' = todo'[1] /\ todo' \in Seq(Steps)
    BY <2>1, CameFrom
  <2>3. word' = dev.active /\ dev'.active = dev.active /\ dev.active \subseteq Used
    BY <2>2, Kinds, StepDevice DEF LoadActive, Used
  <2>4. 1 \in 1 .. Len(todo')
    BY <2>1, <2>2
  <2>5. Placed(todo', 1)
    BY <1>1, <2>4 DEF Formed, Linked
  <2>6. ~Now'.on => ~Preparing(todo)
    BY <1>1, <2>1, <2>2, <2>5 DEF Placed
  <2>7. ~Now'.on => Used \subseteq {Now.ch}
    <3>1. 1 \in 1 .. Len(todo) /\ Now = todo[1]
      BY <1>1, Ahead
    <3> QED BY <2>2, <2>6, <3>1 DEF IInv, Tuned
  <2> QED BY <1>1, <2>2, <2>3, <2>7
<1> QED BY <1>2, <1>3 DEF Loaded

\* Nothing comes to a channel that is prepared, and there is nothing to take.
LEMMA VoidStep ==
  ASSUME IInv, Step, Preparing(todo), NEW c \in Channels, Void(ch[c])
  PROVE  Void(ch'[c])
<1>1. todo # <<>> /\ Values /\ Formed(todo)
  BY Kinds DEF IInv
<1>2. CASE Now.op = "start"
  BY <1>2, StepStart DEF Void
<1>3. CASE Now.op # "start" /\ c # Now.ch
  BY <1>1, <1>3, StepChannel
<1>4. CASE Now.op # "start" /\ c = Now.ch
  <2>1. Now \in Preparations /\ Now \in Steps
    BY <1>1, <1>4, Relied
  <2>2. ch'[c].buf.count = 0
    BY <1>1, <1>4, <2>1, StepFields DEF Void, Mine, Preparations
  <2>3. CASE Now.op # "storeBits"
    BY <1>1, <1>4, <2>2, <2>3, StepFields DEF Void, Mine
  <2>4. CASE Now.op = "storeBits"
    <3>1. Now.bit = "pending"
      BY <2>1, <2>4 DEF Preparations
    <3>2. "fresh" \notin word
      BY <1>1, <2>4 DEF IInv, Loaded, Doing
    <3>3. ch'[c].bits = IF Now.on THEN word \union {Now.bit} ELSE word \ {Now.bit}
      BY <1>1, <1>4, <2>4, StepFields
    <3> QED BY <2>2, <3>1, <3>2, <3>3 DEF Void
  <2> QED BY <2>3, <2>4
<1> QED BY <1>2, <1>3, <1>4

\* The number of samples is found one step nearer.
LEMMA Nearer ==
  ASSUME Formed(todo), todo # <<>>, NEW i \in Nat \ {0}, i + 1 <= Len(todo)
  PROVE  i <= Len(Tail(todo)) /\ Tail(todo)[i] = todo[i + 1]
<1>1. /\ Len(todo) \in Nat \ {0} /\ Len(Tail(todo)) = Len(todo) - 1
      /\ \A k \in 1 .. Len(todo) - 1 : Tail(todo)[k] = todo[k + 1]
  BY Ahead
<1>2. i \in 1 .. Len(todo) - 1
  BY <1>1
<1> QED BY <1>1, <1>2

LEMMA PreparedStep ==
  ASSUME IInv, Step
  PROVE  Prepared'
<1> SUFFICES ASSUME Preparing(todo') PROVE Prepared'
  BY DEF Prepared
<1>1. /\ todo # <<>> /\ todo' # <<>> /\ Values /\ Formed(todo) /\ Formed(todo') /\ Preparing(todo)
      /\ Counts \subseteq Nat \ {0}
  <2>1. todo # <<>> /\ Values /\ Formed(todo)
    BY Kinds DEF IInv
  <2> QED BY <2>1, StepRest, Numbers DEF Preparing
<1>2. Now.op # "start"
  BY <1>1, StepStart
<1>3. /\ Now \in Preparations /\ Now.ch \notin Used /\ Void(Mine) /\ Now.ch \in Channels
      /\ dev.on = {} /\ dev.busy = {} /\ Used = dev.active /\ Now = todo[1]
  BY <1>1, <1>2, Relied
<1>4. dev'.on = {} /\ dev'.busy = {}
  BY <1>2, <1>3, StepDevice
<1>5. /\ Now.op = "size" => 6 <= Len(todo) /\ todo[6].n = Now.n
      /\ Now.op = "realloc" => Coming(5)
      /\ Now.op = "count0" => Coming(4)
      /\ Now.op = "wptr0" => Coming(3)
      /\ Now.op = "rptr0" => Coming(2)
      /\ Now.op = "request" => Coming(1)
      /\ Now.op \in {"loadBits", "storeBits", "loadActive", "storeActive"} =>
           Mine.req <= Room(Mine.buf)
      /\ Now.op \in {"loadActive", "storeActive"} => "pending" \in Mine.bits
  BY <1>1 DEF IInv, Prepared
<1>6. ASSUME NEW i \in 1 .. Len(todo'), todo'[i].op # "start"
      PROVE  todo'[i] \in Preparations /\ todo'[i].ch \notin dev'.active /\ Void(ch'[todo'[i].ch])
  <2>1. CASE Now.op = "setup" /\ todo'[i] \in Preparations /\ todo'[i].ch = Now.ch
    <3>1. ch' = ch /\ dev' = dev
      BY <1>1, <2>1, StepTodo
    <3> QED BY <1>3, <2>1, <3>1 DEF Mine
  <2>2. ASSUME NEW k \in 2 .. Len(todo), todo'[i] = todo[k]
        PROVE  todo'[i] \in Preparations /\ todo'[i].ch \notin dev'.active /\ Void(ch'[todo'[i].ch])
    <3>1. k \in 1 .. Len(todo) /\ Len(todo) \in Nat
      BY <1>1, <2>2, Ahead
    <3>2. todo[k] \in Preparations /\ todo[k].ch \notin dev.active /\ Void(ch[todo[k].ch])
      BY <1>1, <1>6, <2>2, <3>1 DEF IInv, Prepared
    <3>3. todo[k].ch \in Channels
      BY <1>1, <1>6, <2>2, <3>1, Relied, Fields
    <3>4. Void(ch'[todo[k].ch])
      BY <1>1, <3>2, <3>3, VoidStep
    <3>5. todo[k].ch \notin dev'.active
      <4>1. CASE Now.op # "storeActive"
        BY <3>2, <4>1, StepDevice
      <4>2. CASE Now.op = "storeActive"
        <5>1. Now.on /\ dev'.active = Used \union {Now.ch}
          <6>1. Now.on
            BY <1>1, <4>2, StepDevice
          <6> QED BY <4>2, <6>1, StepDevice
        <5>2. Placed(todo, 1) /\ 1 + 1 = 2
          BY <1>1, Ahead
        <5>3. todo[k].ch # Now.ch
          BY <1>1, <1>3, <1>6, <2>2, <4>2, <5>2 DEF Placed
        <5> QED BY <1>3, <3>2, <5>1, <5>3
      <4> QED BY <4>1, <4>2
    <3> QED BY <2>2, <3>2, <3>4, <3>5
  <2>3. Now.op \notin {"wait", "process", "pick"}
    BY <1>3 DEF Preparations
  <2>4. \/ todo'[i].ch = Now.ch /\ Now.op = "setup" /\ todo'[i] \in Preparations
        \/ \E k \in 2 .. Len(todo) : todo'[i] = todo[k]
    BY <1>1, <2>3, StepRest
  <2> QED BY <2>1, <2>2, <2>4
<1>7. /\ Now' = todo'[1] /\ 1 <= Len(todo')
      /\ Now'.op \notin {"start", "setup", "process", "return"} => Now'.ch = Now.ch
      /\ Now'.op \in {"realloc", "count0", "wptr0", "rptr0"} => todo' = Tail(todo)
  <2>1. todo' \in Seq(Steps)
    BY <1>1, CameFrom
  <2>2. 1 <= Len(todo')
    BY <1>1, <2>1
  <2> QED BY <1>1, <2>2, CameFrom
<1>8. Now'.op = "size" => 6 <= Len(todo') /\ todo'[6].n = Now'.n
  BY <1>1, CameFrom
<1>9. ASSUME Now'.op = "realloc" PROVE Coming(5)'
  <2>1. Now.op = "size" /\ 5 + 1 = 6
    BY <1>1, <1>9, CameFrom
  <2>2. 5 <= Len(todo') /\ todo'[5].n = Now.n
    BY <1>1, <1>5, <1>7, <1>9, <2>1, Nearer
  <2>3. ch'[Now.ch].buf.size = Now.n /\ Now.n # 0
    BY <1>1, <2>1, StepFields, Relied, Fields
  <2> QED BY <1>7, <1>9, <2>2, <2>3 DEF Coming, Mine, Room
<1>10. ASSUME Now'.op = "count0" PROVE Coming(4)'
  <2>1. Now.op = "realloc" /\ 4 + 1 = 5
    <3>1. ~(Now.op = "storeBits" /\ Now.bit = "ready")
      BY <1>3 DEF Preparations
    <3> QED BY <1>1, <1>10, <3>1, CameFrom
  <2>2. 4 <= Len(todo') /\ todo'[4].n = Room(Mine.buf)
    BY <1>1, <1>5, <1>7, <1>10, <2>1, Nearer DEF Coming
  <2>3. ch'[Now.ch].buf.size = Mine.buf.size \/ (Now.n = 1 /\ ch'[Now.ch].buf.size = 0)
    BY <1>1, <2>1, StepFields DEF Fails
  <2>4. Mine.buf.size = Now.n
    BY <1>1, <1>3, <2>1 DEF IInv, Shaped, Shape, At, Doing, Mine
  <2> QED BY <1>7, <1>10, <2>2, <2>3, <2>4 DEF Coming, Mine, Room
<1>11. ASSUME Now'.op = "wptr0" PROVE Coming(3)'
  <2>1. Now.op = "count0" /\ 3 + 1 = 4
    BY <1>1, <1>11, CameFrom
  <2>2. 3 <= Len(todo') /\ todo'[3].n = Room(Mine.buf)
    BY <1>1, <1>5, <1>7, <1>11, <2>1, Nearer DEF Coming
  <2>3. Room(ch'[Now.ch].buf) = Room(Mine.buf)
    BY <1>1, <2>1, StepFields DEF Room
  <2> QED BY <1>7, <1>11, <2>2, <2>3 DEF Coming, Mine
<1>12. ASSUME Now'.op = "rptr0" PROVE Coming(2)'
  <2>1. Now.op = "wptr0" /\ 2 + 1 = 3
    BY <1>1, <1>12, CameFrom
  <2>2. 2 <= Len(todo') /\ todo'[2].n = Room(Mine.buf)
    BY <1>1, <1>5, <1>7, <1>12, <2>1, Nearer DEF Coming
  <2>3. Room(ch'[Now.ch].buf) = Room(Mine.buf)
    BY <1>1, <2>1, StepFields DEF Room
  <2> QED BY <1>7, <1>12, <2>2, <2>3 DEF Coming, Mine
<1>13. ASSUME Now'.op = "request" PROVE Coming(1)'
  <2>1. CASE Now.op = "rptr0" /\ todo' = Tail(todo)
    <3>1. 1 + 1 = 2
      OBVIOUS
    <3>2. todo'[1].n = Room(Mine.buf)
      BY <1>1, <1>5, <2>1, <3>1, Nearer DEF Coming
    <3>3. Room(ch'[Now.ch].buf) = Room(Mine.buf)
      BY <1>1, <2>1, StepFields DEF Room
    <3> QED BY <1>7, <1>13, <3>2, <3>3 DEF Coming, Mine
  <2>2. CASE Now.op = "setup" /\ Now'.n = Mine.buf.size
    <3>1. ch' = ch
      BY <1>1, <2>2, StepTodo
    <3>2. todo'[1] \in Steps
      BY <1>1, <1>7 DEF Formed
    <3>3. Now'.n \in Nat \ {0}
      BY <1>1, <1>7, <1>13, <3>2, Fields
    <3> QED BY <1>7, <1>13, <2>2, <3>1, <3>3 DEF Coming, Mine, Room
  <2> QED BY <1>1, <1>13, <2>1, <2>2, CameFrom
<1>14. ASSUME Now'.op \in {"loadBits", "storeBits", "loadActive", "storeActive"}
       PROVE  Mine'.req <= Room(Mine'.buf)
  <2>1. Mine' = ch'[Now.ch]
    BY <1>7, <1>14 DEF Mine
  <2>2. CASE Now.op = "request"
    <3>1. Now.n \in Counts /\ Now.n = Room(Mine.buf)
      BY <1>1, <1>3, <1>5, <2>2, Relied, Fields DEF Coming
    <3>2. Room(ch'[Now.ch].buf) = Room(Mine.buf) /\ ch'[Now.ch].req = Now.n
      BY <1>1, <2>2, StepFields DEF Room
    <3>3. Now.n \in Nat \ {0}
      BY <1>1, <3>1
    <3> QED BY <2>1, <3>1, <3>2, <3>3
  <2>3. CASE Now.op \in {"loadBits", "storeBits", "loadActive"}
    <3>1. Room(ch'[Now.ch].buf) = Room(Mine.buf) /\ ch'[Now.ch].req = Mine.req
      BY <1>1, <2>3, StepFields DEF Room
    <3> QED BY <1>5, <2>1, <2>3, <3>1
  <2>4. Now.op \notin {"unsmooth", "copyFresh"}
    BY <1>3 DEF Preparations
  <2> QED BY <1>1, <1>14, <2>2, <2>3, <2>4, CameFrom
<1>15. ASSUME Now'.op \in {"loadActive", "storeActive"}
       PROVE  "pending" \in Mine'.bits
  <2>1. Mine' = ch'[Now.ch]
    BY <1>7, <1>15 DEF Mine
  <2>2. CASE Now.op = "storeBits" /\ Now.bit = "pending"
    <3>1. Now.on
      <4>1. ~Now.on => \E j \in 2 .. Len(todo) : todo[j].op = "disable"
        BY <1>1, <2>2, Relied
      <4>2. \A j \in 2 .. Len(todo) : todo[j].op # "disable"
        BY <1>1, Relied
      <4> QED BY <4>1, <4>2
    <3>2. ch'[Now.ch].bits = word \union {Now.bit}
      BY <1>1, <2>2, <3>1, StepFields
    <3> QED BY <2>1, <2>2, <3>2
  <2>3. CASE Now.op = "loadActive"
    <3>1. ch' = ch
      BY <1>1, <2>3, StepTodo
    <3> QED BY <1>5, <2>1, <2>3, <3>1 DEF Mine
  <2> QED BY <1>1, <1>15, <2>2, <2>3, CameFrom
<1> QED BY <1>4, <1>6, <1>8, <1>9, <1>10, <1>11, <1>12, <1>13, <1>14, <1>15 DEF Prepared

\* While a setting is changed, no channel comes into use.
LEMMA TunedStep ==
  ASSUME IInv, Step
  PROVE  Tuned'
<1> SUFFICES ASSUME ~Preparing(todo') PROVE Tuned'
  BY DEF Tuned
<1>1. /\ todo # <<>> /\ Values /\ Formed(todo) /\ Formed(todo') /\ Tuned /\ todo \in Seq(Steps)
      /\ Len(todo) \in Nat /\ Now = todo[1] /\ todo' \in Seq(Steps) /\ Len(todo') \in Nat
  BY Kinds, StepRest, Relied DEF IInv, Formed
<1>2. CASE todo' = <<>>
  <2>1. Len(todo') = 0
    <3> HIDE <1>1
    <3> QED BY <1>2
  <2> QED BY <1>1, <1>2, <2>1 DEF Tuned, Doing
<1>3. CASE todo' # <<>>
  <2>1. ~Preparing(todo)
    BY <1>1, <1>3, StepRest
  <2>2. Now.op # "setup" /\ Used' \subseteq Used
    BY <1>1, <2>1, StepDevice, Relied
  <2>3. ASSUME NEW i \in 1 .. Len(todo')
        PROVE  /\ todo'[i].op \in {"resmooth", "unsmooth", "count0", "wptr0"} =>
                    Used' = {} \/ \E j \in 1 .. i - 1 : todo'[j].op = "disable"
               /\ todo'[i].op \in {"loadActive", "storeActive", "disable"} => Used' \subseteq {todo'[i].ch}
    <3>1. CASE todo'[i] \in Takings(Now.ch)
      BY <3>1 DEF Takings
    <3>2. CASE \E k \in 2 .. Len(todo) :
                 todo'[i] = todo[k] /\ \A j \in 2 .. k - 1 : \E m \in 1 .. i - 1 : todo'[m] = todo[j]
      <4>1. PICK k \in 2 .. Len(todo) :
                   todo'[i] = todo[k] /\ \A j \in 2 .. k - 1 : \E m \in 1 .. i - 1 : todo'[m] = todo[j]
        BY <3>2
      <4>2. /\ todo[k].op \in {"resmooth", "unsmooth", "count0", "wptr0"} =>
                 Used = {} \/ \E j \in 1 .. k - 1 : todo[j].op = "disable"
            /\ todo[k].op \in {"loadActive", "storeActive", "disable"} => Used \subseteq {todo[k].ch}
        BY <1>1, <2>1 DEF Tuned
      <4>3. ASSUME NEW j \in 1 .. k - 1, todo[j].op = "disable"
            PROVE  Used' = {} \/ \E m \in 1 .. i - 1 : todo'[m].op = "disable"
        <5>1. CASE j = 1
          BY <1>1, <4>3, <5>1, StepDevice
        <5>2. CASE j # 1
          <6>1. j \in 2 .. k - 1
            BY <5>2
          <6> QED BY <4>1, <4>3, <6>1
        <5> QED BY <5>1, <5>2
      <4> QED BY <2>2, <4>1, <4>2, <4>3
    <3> QED BY <1>1, <2>2, <3>1, <3>2, StepRest
  <2>4. Doing("disable")' => dev'.active = {}
    <3>1. Now'.op = "disable" => Now.op = "storeActive" /\ ~Now.on
      BY <1>3, CameFrom
    <3> QED BY <3>1, StepDevice DEF Doing
  <2> QED BY <2>3, <2>4 DEF Tuned
<1> QED BY <1>2, <1>3

\* What is found in the buffer is still there when it is taken.
LEMMA TakenStep ==
  ASSUME IInv, Step
  PROVE  Taken'
<1>1. /\ todo # <<>> /\ Values /\ Formed(todo) /\ Formed(todo') /\ Taken /\ Sampling
      /\ Len(todo) \in Nat /\ Now = todo[1] /\ Now \in Steps /\ todo' \in Seq(Steps) /\ Used \subseteq Channels
  BY Kinds, StepRest, Relied DEF IInv, Formed, Values, Device, Used
<1>2. ASSUME NEW i \in 1 .. Len(todo'), todo'[i].op = "storeBits", todo'[i].bit = "fresh"
      PROVE  todo'[i].ch \notin Used'
  <2>1. CASE todo'[i].ch = Now.ch /\ (Now.op = "setup" \/ "fresh" \in Mine.bits)
                /\ (todo'[i] \in Preparations \/ Now.op \in {"wait", "process", "pick"})
    <3>1. todo'[i] \notin Preparations
      BY <1>2 DEF Preparations
    <3>2. Now.op \in {"wait", "process", "pick"} /\ "fresh" \in Mine.bits
      BY <2>1, <3>1
    <3>3. Now.ch \notin Used
      BY <1>1, <3>2 DEF Sampling, Fits, Mine
    <3> QED BY <2>1, <3>2, <3>3, StepDevice
  <2>2. CASE \E k \in 2 .. Len(todo) : todo'[i] = todo[k]
    <3>1. PICK k \in 2 .. Len(todo) : todo'[i] = todo[k]
      BY <2>2
    <3>2. todo[k].ch \notin Used
      BY <1>1, <1>2, <3>1 DEF Taken
    <3>3. CASE Now.op # "storeActive" \/ ~Now.on
      BY <1>1, <3>1, <3>2, <3>3, StepDevice, Relied, Fields
    <3>4. CASE Now.op = "storeActive" /\ Now.on
      <4>1. Preparing(todo) /\ todo[k] \in Preparations
        BY <1>1, <1>2, <3>1, <3>4, StepDevice DEF IInv, Prepared
      <4> QED BY <1>2, <3>1, <4>1 DEF Preparations
    <3> QED BY <3>3, <3>4
  <2>3. \/ /\ todo'[i].op # "start" /\ todo'[i].ch = Now.ch
           /\ \/ Now.op = "setup" /\ todo'[i] \in Preparations
              \/ Now.op \in {"wait", "process", "pick"} /\ todo'[i] \in Takings(Now.ch)
           /\ todo'[i].op \in {"copyFresh", "loadBits", "storeBits"} => Now.op = "setup" \/ "fresh" \in Mine.bits
        \/ \E k \in 2 .. Len(todo) : todo'[i] = todo[k]
    <3> HIDE <1>2
    <3> QED BY <1>1, StepRest
  <2> QED BY <1>2, <2>1, <2>2, <2>3
<1>3. ASSUME todo' # <<>>, Now'.op \in {"copy", "decrement", "advance", "pick", "smooth", "countDown"}
      PROVE  /\ Now'.op \in {"copy", "decrement"} => Mine'.buf.count >= 1
             /\ Now'.op \in {"copy", "decrement", "advance"} => Mine'.buf.size >= 1
             /\ Now'.op = "pick" /\ Now'.ch \in Used' => Mine'.buf.count >= 1
             /\ Now'.op \in {"advance", "smooth", "countDown"} /\ Now'.ch \in Used' => Mine'.buf.count < Mine'.req
  <2>1. /\ Now'.ch = Now.ch /\ Now.ch \in Channels /\ Now.op # "start" /\ Mine' = ch'[Now.ch]
    <3>1. Now'.ch = Now.ch /\ Now'.ch \in Channels /\ Now.op # "start"
      BY <1>3, CameFrom
    <3> QED BY <3>1 DEF Mine
  <2>2. /\ Mine.buf.count \in Nat /\ Mine.buf.size \in Nat /\ Mine.req \in Nat
        /\ "fresh" \notin Mine.bits => Available(Mine) = Mine.buf.count
    BY <1>1, <2>1, Numbers DEF Mine
  <2>3. Now'.op = "copy" => Now.op = "pick" /\ ~BufEmpty(Mine.buf)
    BY <1>3, CameFrom
  <2>4. Now'.op = "decrement" => Now.op = "copy"
    BY <1>3, CameFrom
  <2>5. Now'.op = "advance" => Now.op = "decrement"
    BY <1>3, CameFrom
  <2>6. Now'.op = "pick" => Now.op = "process" /\ Available(Mine) # 0
    BY <1>3, CameFrom
  <2>7. Now'.op \in {"smooth", "countDown"} =>
          \/ Now.op = "advance" \/ (Now.op = "storeBits" /\ Now.bit = "fresh")
          \/ (Now.op = "pick" /\ BufEmpty(Mine.buf))
          \/ Now.op = "smooth"
    BY <1>3, CameFrom
  <2>8. Now.op \in {"pick", "copy", "process"} => Mine' = Mine
    BY <1>1, <2>1, StepTodo DEF Mine
  <2>9. Now.op \in {"advance", "smooth"} => Mine'.buf.count = Mine.buf.count /\ Mine'.req = Mine.req
    BY <1>1, <2>1, StepFields
  <2>10. Now.op = "decrement" => /\ Mine'.buf.count = Mine.buf.count - 1 /\ Mine'.req = Mine.req
                                 /\ Mine'.buf.size = Mine.buf.size
    BY <1>1, <2>1, StepFields
  <2>11. Now.op \in {"pick", "copy", "process", "advance", "smooth", "decrement", "storeBits"} /\ Now'.ch \in Used' =>
            Now.ch \in Used \/ (Now.op = "storeBits" /\ Now.bit = "pending")
    BY <1>1, <2>1, StepDevice
  <2>12. Now.ch \in Used => Fits(Mine)
    BY <1>1 DEF Sampling, Mine
  <2>13. Now.ch \in Used => Mine.buf.count <= Mine.req /\ Available(Mine) = Mine.buf.count
    BY <2>2, <2>12 DEF Fits
  <2>14. Now.op = "storeBits" /\ Now.bit = "fresh" => Now.ch \notin Used
    BY <1>1 DEF Taken
  <2>15. CASE Now'.op = "copy"
    BY <2>2, <2>3, <2>8, <2>15 DEF BufEmpty
  <2>16. CASE Now'.op = "decrement"
    <3>1. Mine.buf.count >= 1 /\ Mine.buf.size >= 1
      BY <1>1, <2>4, <2>16 DEF Taken, Doing
    <3> QED BY <2>4, <2>8, <2>16, <3>1
  <2>17. CASE Now'.op = "advance"
    <3>1. Mine.buf.count >= 1 /\ Mine.buf.size >= 1
      BY <1>1, <2>5, <2>17 DEF Taken, Doing
    <3>2. Now'.ch \in Used' => Mine.buf.count <= Mine.req
      BY <2>5, <2>11, <2>13, <2>17
    <3> QED BY <2>2, <2>5, <2>10, <2>17, <3>1, <3>2
  <2>18. CASE Now'.op = "pick"
    BY <2>2, <2>6, <2>8, <2>11, <2>13, <2>18
  <2>19. CASE Now'.op \in {"smooth", "countDown"}
    <3> SUFFICES ASSUME Now'.ch \in Used' PROVE Mine'.buf.count < Mine'.req
      BY <2>19
    <3>1. CASE Now.op = "advance" \/ Now.op = "smooth"
      <4>1. Now.ch \in Used
        BY <2>11, <3>1
      <4>2. Mine.buf.count < Mine.req
        BY <1>1, <3>1, <4>1 DEF Taken, Doing
      <4> QED BY <2>9, <3>1, <4>2
    <3>2. CASE Now.op = "storeBits" /\ Now.bit = "fresh"
      BY <2>11, <2>14, <3>2
    <3>3. CASE Now.op = "pick" /\ BufEmpty(Mine.buf)
      <4>1. Now.ch \in Used
        BY <2>11, <3>3
      <4>2. Mine.buf.count >= 1
        BY <1>1, <3>3, <4>1 DEF Taken, Doing
      <4>3. Mine.buf.count <= Mine.buf.size
        BY <2>1 DEF IInv, Shaped, Shape, Mine
      <4> QED BY <2>2, <3>3, <4>2, <4>3 DEF BufEmpty
    <3> QED BY <2>7, <2>19, <3>1, <3>2, <3>3
  <2> QED BY <1>3, <2>15, <2>16, <2>17, <2>18, <2>19
<1> QED BY <1>2, <1>3 DEF Taken, Doing

-----------------------------------------------------------------------------
(***************************************************************************)
(* The values.                                                             *)
(***************************************************************************)
LEMMA SetOne ==
  ASSUME NEW S, NEW r \in Seq(S), NEW v \in S, NEW i
  PROVE  [r EXCEPT ![i] = v] \in Seq(S) /\ Len([r EXCEPT ![i] = v]) = Len(r)
<1>1. r \in [1 .. Len(r) -> S] /\ Len(r) \in Nat
  OBVIOUS
<1>2. [r EXCEPT ![i] = v] \in [1 .. Len(r) -> S]
  BY <1>1
<1>3. \A q \in [1 .. Len(r) -> S] : q \in Seq(S) /\ Len(q) = Len(r)
  BY <1>1
<1> QED BY <1>2, <1>3

\* What storing a sample in the smoothing ring leaves, and keeps.
LEMMA SmoothTyped ==
  ASSUME NEW s \in Channel, NEW v \in 0 .. MaxSamples, s.idx <= s.len
  PROVE  LET u == SmoothData(s, v)
         IN /\ u \in Channel /\ u.idx <= u.len /\ Len(u.ring) = Len(s.ring)
            /\ u.req = s.req /\ u.value = s.value /\ u.len = s.len /\ u.buf = s.buf
            /\ u.bits \in {s.bits, s.bits \union {"ready"}}
<1> DEFINE i == IF s.idx = s.len THEN 1 ELSE s.idx + 1
           u == SmoothData(s, v)
<1>1. /\ s.len \in Lengths /\ Lengths \subseteq 1 .. MaxSize /\ MaxSize \in Nat /\ s.idx \in 0 .. MaxSize
      /\ s.ring \in Seq(0 .. MaxSamples) /\ s.bits \subseteq Bits
  BY AdcAssumption, BufAssumption DEF Channel
<1>2. i \in 0 .. MaxSize /\ i <= s.len
  <2>1. s.len \in 1 .. MaxSize
    BY ONLY <1>1
  <2>2. MaxSize \in Nat /\ s.idx \in 0 .. MaxSize
    BY ONLY <1>1
  <2> QED BY <2>1, <2>2
<1>3. [s.ring EXCEPT ![i] = v] \in Seq(0 .. MaxSamples) /\ Len([s.ring EXCEPT ![i] = v]) = Len(s.ring)
  <2> HIDE DEF i
  <2> DEFINE S == 0 .. MaxSamples
  <2>1. v \in S /\ s.ring \in Seq(S)
    BY <1>1
  <2> HIDE DEF S
  <2>2. [s.ring EXCEPT ![i] = v] \in Seq(S) /\ Len([s.ring EXCEPT ![i] = v]) = Len(s.ring)
    BY ONLY <2>1, SetOne
  <2> QED BY <2>2 DEF S
<1>4. /\ u = [s EXCEPT !.idx = i, !.ring = [s.ring EXCEPT ![i] = v], !.bits = u.bits]
      /\ u.bits = IF s.idx = s.len THEN s.bits \union {"ready"} ELSE s.bits
  BY DEF SmoothData, Channel
<1>5. u.bits \subseteq Bits
  BY <1>1, <1>4 DEF Bits
<1> HIDE DEF i, u
<1>6. /\ u.idx = i /\ u.ring = [s.ring EXCEPT ![i] = v]
      /\ u.req = s.req /\ u.value = s.value /\ u.len = s.len /\ u.buf = s.buf
  BY <1>4 DEF Channel
<1>7. u \in Channel
  BY <1>2, <1>3, <1>4, <1>5 DEF Channel
<1> QED BY <1>2, <1>3, <1>4, <1>6, <1>7 DEF u

LEMMA BufferTyped ==
  ASSUME NEW b \in Buffer
  PROVE  /\ \A k \in 0 .. MaxSize : [b EXCEPT !.size = k] \in Buffer /\ [b EXCEPT !.count = k] \in Buffer
         /\ \A k \in 0 .. MaxSize - 1 : [b EXCEPT !.wptr = k] \in Buffer /\ [b EXCEPT !.rptr = k] \in Buffer
         /\ \A k \in 0 .. MaxSize : Resized(b, k) \in Buffer
         /\ Lost(b) \in Buffer
<1>1. MaxSize \in Nat \ {0} /\ NoData \in 0 .. MaxSamples
  BY AdcAssumption, BufAssumption
<1>2. \A k \in 0 .. MaxSize : Resized(b, k) \in Buffer
  BY <1>1 DEF Resized, Buffer
<1>3. Lost(b) \in Buffer
  BY <1>1 DEF Lost, NoBuffer, Buffer
<1> QED BY <1>2, <1>3 DEF Buffer

LEMMA IndexTyped ==
  ASSUME NEW b \in Buffer, NEW p \in 0 .. MaxSize - 1, b.size >= 1
  PROVE  ModIncr(b, p) \in 0 .. MaxSize - 1 /\ ModIncr(b, p) < b.size
<1>1. b.size \in 0 .. MaxSize /\ MaxSize \in Nat
  BY BufAssumption DEF Buffer
<1>2. (p + 1) % b.size \in 0 .. b.size - 1
  BY <1>1
<1> QED BY <1>1, <1>2 DEF ModIncr

\* The channel of the step.
LEMMA ChannelTyped ==
  ASSUME IInv, Step, Now.op # "start"
  PROVE  ch'[Now.ch] \in Channel
<1> DEFINE s == Mine
           u == ch'[Now.ch]
<1>1. /\ todo # <<>> /\ Values /\ Formed(todo) /\ Loaded /\ Taken /\ Now \in Steps /\ Now.ch \in Channels
      /\ s \in Channel /\ s.buf \in Buffer /\ MaxSize \in Nat \ {0} /\ Counts \subseteq 0 .. MaxSize
      /\ NoData \in 0 .. MaxSamples /\ MaxSamples \in Nat
  <2>1. todo # <<>> /\ Values /\ Formed(todo) /\ Loaded /\ Taken
    BY Kinds DEF IInv
  <2>2. Now \in Steps /\ Now.ch \in Channels /\ s \in Channel /\ s.buf \in Buffer
    BY <2>1, StepChannel
  <2> QED BY <2>1, <2>2, AdcAssumption, BufAssumption
<1> HIDE DEF u
<1>2. CASE Now.op = "storeBits"
  <2>1. u = [s EXCEPT !.bits = IF Now.on THEN word \union {Now.bit} ELSE word \ {Now.bit}]
    BY <1>1, <1>2, StepChannel DEF u
  <2>2. (IF Now.on THEN word \union {Now.bit} ELSE word \ {Now.bit}) \subseteq Bits
    BY <1>1, <1>2, Fields DEF Loaded, Doing
  <2> QED BY <1>1, <2>1, <2>2 DEF Channel, u
<1>3. CASE Now.op \in {"size", "realloc", "count0", "wptr0", "rptr0"}
  <2>1. Now.op \in {"size", "realloc"} => Now.n \in 0 .. MaxSize
    BY <1>1, Fields
  <2>2. 0 \in 0 .. MaxSize /\ 0 \in 0 .. MaxSize - 1
    BY <1>1
  <2>3. \E b \in Buffer : u = [s EXCEPT !.buf = b]
    <3>1. CASE Now.op = "size"
      <4>1. u = [s EXCEPT !.buf = [s.buf EXCEPT !.size = Now.n]]
        BY <1>1, <3>1, StepChannel DEF u
      <4> QED BY <1>1, <2>1, <3>1, <4>1, BufferTyped
    <3>2. CASE Now.op = "realloc"
      <4>1. u = [s EXCEPT !.buf = Resized(s.buf, Now.n)] \/ u = [s EXCEPT !.buf = Lost(s.buf)]
        BY <1>1, <3>2, StepChannel DEF u
      <4> QED BY <1>1, <2>1, <3>2, <4>1, BufferTyped
    <3>3. CASE Now.op = "count0"
      <4>1. u = [s EXCEPT !.buf = [s.buf EXCEPT !.count = 0]]
        BY <1>1, <3>3, StepChannel DEF u
      <4> QED BY <1>1, <2>2, <4>1, BufferTyped
    <3>4. CASE Now.op = "wptr0"
      <4>1. u = [s EXCEPT !.buf = [s.buf EXCEPT !.wptr = 0]]
        BY <1>1, <3>4, StepChannel DEF u
      <4> QED BY <1>1, <2>2, <4>1, BufferTyped
    <3>5. CASE Now.op = "rptr0"
      <4>1. u = [s EXCEPT !.buf = [s.buf EXCEPT !.rptr = 0]]
        BY <1>1, <3>5, StepChannel DEF u
      <4> QED BY <1>1, <2>2, <4>1, BufferTyped
    <3> QED BY <1>3, <3>1, <3>2, <3>3, <3>4, <3>5
  <2> QED BY <1>1, <2>3 DEF Channel, u
<1>4. CASE Now.op \in {"decrement", "advance"}
  <2>1. s.buf.count \in 0 .. MaxSize /\ s.buf.rptr \in 0 .. MaxSize - 1
    BY <1>1 DEF Buffer
  <2>2. \E b \in Buffer : u = [s EXCEPT !.buf = b]
    <3>1. CASE Now.op = "decrement"
      <4>1. u = [s EXCEPT !.buf = [s.buf EXCEPT !.count = s.buf.count - 1]]
        BY <1>1, <3>1, StepChannel DEF u
      <4>2. s.buf.count >= 1
        BY <1>1, <3>1 DEF Taken, Doing
      <4>3. s.buf.count - 1 \in 0 .. MaxSize
        BY <1>1, <2>1, <4>2
      <4> QED BY <1>1, <4>1, <4>3, BufferTyped
    <3>2. CASE Now.op = "advance"
      <4>1. u = [s EXCEPT !.buf = [s.buf EXCEPT !.rptr = ModIncr(s.buf, s.buf.rptr)]]
        BY <1>1, <3>2, StepChannel DEF u
      <4>2. s.buf.size >= 1
        BY <1>1, <3>2 DEF Taken, Doing
      <4>3. ModIncr(s.buf, s.buf.rptr) \in 0 .. MaxSize - 1
        BY <1>1, <2>1, <4>2, IndexTyped
      <4> QED BY <1>1, <4>1, <4>3, BufferTyped
    <3> QED BY <1>4, <3>1, <3>2
  <2> QED BY <1>1, <2>2 DEF Channel, u
<1>5. CASE Now.op \in {"request", "countDown"}
  <2>1. s.req \in 0 .. MaxSize
    BY <1>1 DEF Channel
  <2>2. \E n \in 0 .. MaxSize : u = [s EXCEPT !.req = n]
    <3>1. CASE Now.op = "request"
      <4>1. u = [s EXCEPT !.req = Now.n]
        BY <1>1, <3>1, StepChannel DEF u
      <4>2. Now.n \in 0 .. MaxSize
        BY <1>1, <3>1, Fields
      <4> QED BY <4>1, <4>2
    <3>2. CASE Now.op = "countDown"
      <4>1. u = [s EXCEPT !.req = IF s.req > 0 THEN s.req - 1 ELSE 0]
        BY <1>1, <3>2, StepChannel DEF u
      <4>2. (IF s.req > 0 THEN s.req - 1 ELSE 0) \in 0 .. MaxSize
        BY <1>1, <2>1
      <4> QED BY <4>1, <4>2
    <3> QED BY <1>5, <3>1, <3>2
  <2> QED BY <1>1, <2>2 DEF Channel, u
<1>6. CASE Now.op = "smooth"
  <2>1. u = SmoothData(s, sample)
    BY <1>1, <1>6, StepChannel DEF u
  <2>2. s.idx <= s.len /\ sample \in 0 .. MaxSamples
    BY <1>1, <1>6 DEF IInv, Shaped, Shape, At, Doing, Values, Mine
  <2>3. u \in Channel
    BY <1>1, <2>1, <2>2, SmoothTyped
  <2> QED BY <2>3 DEF u
<1>7. CASE Now.op \in {"resmooth", "unsmooth"}
  <2>1. s.ring \in Seq(0 .. MaxSamples) /\ s.bits \subseteq Bits /\ 1 \in Lengths /\ Lengths \subseteq Nat /\ 0 \in 0 .. MaxSize
    BY <1>1, AdcAssumption DEF Channel
  <2>2. \A n \in Nat : [i \in 1 .. n |-> NoData] \in Seq(0 .. MaxSamples)
    BY <1>1
  <2>3. [i \in DOMAIN s.ring |-> NoData] \in Seq(0 .. MaxSamples)
    BY <1>1, <2>1
  <2>4. <<>> \in Seq(0 .. MaxSamples)
    OBVIOUS
  <2>5. CASE Now.op = "resmooth"
    <3>1. \/ u = s
          \/ u = [s EXCEPT !.len = Now.n, !.ring = [i \in 1 .. Now.n |-> NoData]]
          \/ u = [s EXCEPT !.len = 1, !.ring = <<>>, !.idx = 0, !.bits = s.bits \ {"ready"}]
      BY <1>1, <2>5, StepChannel DEF u
    <3>2. Now.n \in Lengths
      BY <1>1, <2>5, Fields
    <3>3. [i \in 1 .. Now.n |-> NoData] \in Seq(0 .. MaxSamples)
      BY <2>1, <2>2, <3>2
    <3>4. CASE u = [s EXCEPT !.len = Now.n, !.ring = [i \in 1 .. Now.n |-> NoData]]
      BY <1>1, <3>2, <3>3, <3>4 DEF Channel, u
    <3>5. CASE u = [s EXCEPT !.len = 1, !.ring = <<>>, !.idx = 0, !.bits = s.bits \ {"ready"}]
      <4>1. ASSUME NEW q \in Seq(0 .. MaxSamples), u = [s EXCEPT !.len = 1, !.ring = q, !.idx = 0, !.bits = s.bits \ {"ready"}]
            PROVE  u \in Channel
        <5>1. s \in Channel /\ 1 \in Lengths /\ 0 \in 0 .. MaxSize
          BY <1>1, <2>1
        <5> QED BY ONLY <4>1, <5>1 DEF Channel
      <4> QED BY <2>4, <3>5, <4>1 DEF u
    <3> QED BY <1>1, <3>1, <3>4, <3>5 DEF u
  <2>6. CASE Now.op = "unsmooth"
    <3>1. u = [s EXCEPT !.idx = 0, !.ring = [i \in DOMAIN s.ring |-> NoData]]
      BY <1>1, <2>6, StepChannel DEF u
    <3> QED BY <1>1, <2>1, <2>3, <3>1 DEF Channel, u
  <2> QED BY <1>7, <2>5, <2>6
<1>8. CASE Now.op \notin {"storeBits", "size", "realloc", "count0", "wptr0", "rptr0", "request",
                          "decrement", "advance", "smooth", "countDown", "resmooth", "unsmooth"}
  BY <1>1, <1>8, StepChannel
<1> QED BY <1>2, <1>3, <1>4, <1>5, <1>6, <1>7, <1>8

LEMMA ValuesStep ==
  ASSUME IInv, Step
  PROVE  Values'
<1>1. /\ todo # <<>> /\ Values /\ Formed(todo) /\ Loaded /\ Now \in Steps /\ Len(todo) \in Nat /\ Now = todo[1]
      /\ ch \in [Channels -> Channel] /\ dev \in Device /\ sample \in 0 .. MaxSamples
  BY Kinds, Relied DEF IInv, Values
<1>2. ch' \in [Channels -> Channel]
  <2>1. CASE Now.op = "start"
    <3>1. \A c \in Channels : [ch[c] EXCEPT !.bits = ch[c].bits \ {"fresh"}] \in Channel
      <4>1. \A s \in Channel : [s EXCEPT !.bits = s.bits \ {"fresh"}] \in Channel
        BY DEF Channel
      <4> QED BY <1>1, <4>1
    <3>2. \/ ch' = ch
          \/ ch' = [c \in Channels |-> IF Resequences(dev) /\ c \in dev.active
                                       THEN [ch[c] EXCEPT !.bits = ch[c].bits \ {"fresh"}] ELSE ch[c]]
      BY <2>1, StepStart
    <3> QED BY <1>1, <3>1, <3>2
  <2>2. CASE Now.op # "start"
    <3>1. ch' = [ch EXCEPT ![Now.ch] = ch'[Now.ch]]
      BY <1>1, <2>2, StepChannel
    <3>2. ch'[Now.ch] \in Channel
      BY <2>2, ChannelTyped
    <3> DEFINE u == ch'[Now.ch]
    <3> HIDE DEF u
    <3>3. ch' = [ch EXCEPT ![Now.ch] = u] /\ u \in Channel
      BY <3>1, <3>2 DEF u
    <3> QED BY <1>1, <3>3
  <2> QED BY <2>1, <2>2
<1>3. dev' \in Device
  <2>1. CASE Now.op = "storeActive"
    <3>1. word \subseteq Channels
      BY <1>1, <2>1 DEF Loaded, Doing
    <3>2. dev' = [dev EXCEPT !.active = IF Now.on THEN word \union {Now.ch} ELSE word \ {Now.ch}]
      BY <2>1, Kinds DEF StoreActive
    <3>3. (IF Now.on THEN word \union {Now.ch} ELSE word \ {Now.ch}) \subseteq Channels
      BY <1>1, <2>1, <3>1, Fields
    <3> QED BY <1>1, <3>2, <3>3 DEF Device
  <2>2. CASE Now.op = "start"
    <3>1. Start
      BY <2>2, Kinds
    <3> QED BY <1>1, <3>1, ZenonT(40) DEF Start, Started, Resequenced, Device
  <2>3. CASE Now.op = "disable"
    <3>1. dev' = [dev EXCEPT !.on = dev.on \ {Now.ch}, !.busy = dev.busy \ {Now.ch}]
      BY <2>3, Kinds DEF Disable
    <3> QED BY <1>1, <3>1 DEF Device
  <2>4. CASE Now.op = "idle"
    <3>1. dev' = [dev EXCEPT !.running = dev.running /\ dev.active # {}]
      BY <2>4, Kinds DEF Idle
    <3> QED BY <1>1, <3>1 DEF Device
  <2>5. CASE Now.op \notin {"storeActive", "disable", "idle", "start"}
    BY <1>1, <2>5, StepTodo
  <2> QED BY <2>1, <2>2, <2>3, <2>4, <2>5
<1>4. sample' \in 0 .. MaxSamples
  <2>1. NoData \in 0 .. MaxSamples
    BY AdcAssumption
  <2>2. CASE Now.op = "copyFresh"
    <3>1. sample' = Mine.value /\ Now.ch \in Channels
      BY <1>1, <2>2, Kinds, Fields DEF CopyFresh, Copied
    <3> QED BY <1>1, <3>1 DEF Channel, Mine
  <2>3. CASE Now.op = "copy"
    <3>1. sample' = Mine.buf.data[Mine.buf.rptr] /\ Now.ch \in Channels
      BY <1>1, <2>3, Kinds, Fields DEF Copy, Copied
    <3>2. Mine.buf \in Buffer
      BY <1>1, <3>1, Numbers DEF Mine
    <3> QED BY <3>1, <3>2 DEF Buffer
  <2>4. CASE Now.op \notin {"copyFresh", "copy"}
    <3>1. sample' = sample \/ sample' = NoData
      BY <2>4, Kinds DEF LoadBits, StoreBits, LoadActive, StoreActive, Setup, SetSize, Realloc, ZeroCount, ZeroWptr,
         ZeroRptr, Request, Start, Disable, Idle, Wait, Process, Pick, Decrement, Advance,
         Smooth, CountDown, Return, Resmooth, Unsmooth, kept
    <3> QED BY <1>1, <2>1, <3>1
  <2> QED BY <2>2, <2>3, <2>4
<1>5. asked' = asked /\ made' = made
  BY <1>1, StepTodo
<1> QED BY <1>1, <1>2, <1>3, <1>4, <1>5 DEF Values

LEMMA StepKeeps ==
  ASSUME IInv, Step
  PROVE  IInv'
<1>1. Formed(todo')
  BY Kinds, StepRest DEF IInv
<1> QED BY <1>1, ValuesStep, ShapedStep, SamplingStep, LoadedStep, PreparedStep, TunedStep, TakenStep DEF IInv

-----------------------------------------------------------------------------
(***************************************************************************)
(* The interrupt handler.                                                  *)
(***************************************************************************)
LEMMA WriteTyped ==
  ASSUME NEW b \in Buffer, NEW v \in 0 .. MaxSamples, Sound(b), b.count < b.size
  PROVE  LET w == BufWrite(b, v)
         IN w \in Buffer /\ w.size = b.size /\ w.room = b.room /\ w.count = b.count + 1 /\ w.wptr < w.size
<1> DEFINE w == BufWrite(b, v)
<1>1. /\ b.size \in 0 .. MaxSize /\ b.count \in 0 .. MaxSize /\ b.wptr \in 0 .. MaxSize - 1 /\ MaxSize \in Nat \ {0}
      /\ b.data \in [0 .. MaxSize - 1 -> 0 .. MaxSamples]
  BY BufAssumption DEF Buffer
<1>2. ~Rejects(b) /\ b.size >= 1 /\ b.count + 1 \in 0 .. MaxSize
  BY <1>1 DEF Rejects
<1>3. ModIncr(b, b.wptr) \in 0 .. MaxSize - 1 /\ ModIncr(b, b.wptr) < b.size
  BY <1>1, <1>2, IndexTyped
<1> DEFINE data == [b.data EXCEPT ![b.wptr] = v]
           p == ModIncr(b, b.wptr)
<1>4. data \in [0 .. MaxSize - 1 -> 0 .. MaxSamples]
  BY <1>1
<1>5. w = [b EXCEPT !.data = data, !.wptr = p, !.count = b.count + 1]
  BY <1>2 DEF BufWrite, Buffer
<1> HIDE DEF w, data, p
<1>6. w.size = b.size /\ w.room = b.room /\ w.count = b.count + 1 /\ w.wptr = p
  BY <1>5 DEF Buffer
<1>7. p \in 0 .. MaxSize - 1 /\ p < b.size
  BY <1>3 DEF p
<1>8. w \in Buffer
  BY <1>2, <1>4, <1>5, <1>7 DEF Buffer
<1> QED BY <1>6, <1>7, <1>8 DEF w

\* Room for more than one sample is in the buffer.
LEMMA RoomFacts ==
  ASSUME NEW s \in Channel, Fits(s)
  PROVE  /\ s.buf \in Buffer /\ s.bits \subseteq Bits /\ s.req \in Nat /\ s.buf.count \in Nat /\ s.buf.size \in Nat
         /\ "fresh" \notin s.bits /\ s.buf.count <= s.buf.size /\ s.buf.count <= s.req
         /\ s.req > 1 => s.buf.count < s.buf.size
<1>1. s.buf \in Buffer /\ s.bits \subseteq Bits /\ s.req \in 0 .. MaxSize /\ MaxSize \in Nat
  BY BufAssumption DEF Channel
<1>2. s.buf.count \in 0 .. MaxSize /\ s.buf.size \in 0 .. MaxSize
  BY <1>1 DEF Buffer
<1> QED BY <1>1, <1>2 DEF Fits, Room

\* What storing a sample does to a channel that has room for it.
LEMMA StoredTyped ==
  ASSUME NEW s \in Channel, NEW v \in 0 .. MaxSamples, Fits(s), Sound(s.buf), s.idx <= s.len
  PROVE  LET f == [Stored(s, v) EXCEPT !.value = v]
         IN /\ f \in Channel /\ f.req = s.req /\ f.len = s.len /\ Len(f.ring) = Len(s.ring) /\ f.idx <= f.len
            /\ f.buf.size = s.buf.size /\ f.buf.room = s.buf.room /\ Sound(f.buf)
            /\ f.buf.count \in {s.buf.count, s.buf.count + 1} /\ f.buf.count <= f.buf.size
            /\ "pending" \in f.bits <=> "pending" \in s.bits
            /\ ~HasEnough(f) => "fresh" \notin f.bits /\ f.buf.count < f.req
<1> DEFINE g == Stored(s, v)
           f == [g EXCEPT !.value = v]
<1>1. /\ s.buf \in Buffer /\ s.bits \subseteq Bits /\ s.req \in Nat /\ s.buf.count \in Nat /\ s.buf.size \in Nat
      /\ "fresh" \notin s.bits /\ s.buf.count <= s.buf.size /\ (s.req > 1 => s.buf.count < s.buf.size)
  BY RoomFacts
<1>2. /\ g \in Channel /\ g.req = s.req /\ g.len = s.len /\ Len(g.ring) = Len(s.ring) /\ g.idx <= g.len
      /\ g.buf.size = s.buf.size /\ g.buf.room = s.buf.room /\ Sound(g.buf)
      /\ g.buf.count \in {s.buf.count, s.buf.count + 1} /\ g.buf.count <= g.buf.size
      /\ "pending" \in g.bits <=> "pending" \in s.bits
      /\ "fresh" \in g.bits => s.req <= 1
  <2>1. CASE Warming(s)
    <3> DEFINE r == [s EXCEPT !.bits = @ \ {"fresh"}]
    <3>1. r \in Channel /\ r = s
      <4>1. s.bits \ {"fresh"} = s.bits
        BY <1>1
      <4> QED BY <4>1 DEF Channel
    <3>2. g = SmoothData(s, v)
      BY <2>1, <3>1 DEF Stored
    <3> HIDE DEF g, r
    <3>3. /\ g \in Channel /\ g.req = s.req /\ g.len = s.len /\ g.buf = s.buf /\ g.idx <= g.len
          /\ Len(g.ring) = Len(s.ring) /\ g.bits \in {s.bits, s.bits \union {"ready"}}
      BY <3>2, SmoothTyped
    <3> QED BY <1>1, <3>3
  <2>2. CASE ~Warming(s) /\ s.req > 1
    <3> DEFINE w == BufWrite(s.buf, v)
    <3>1. /\ w \in Buffer /\ w.size = s.buf.size /\ w.room = s.buf.room /\ w.count = s.buf.count + 1
          /\ w.wptr < w.size
      BY <1>1, <2>2, WriteTyped
    <3>2. g = [s EXCEPT !.buf = w, !.bits = s.bits \ {"fresh"}]
      BY <2>2 DEF Stored
    <3> HIDE DEF g, w
    <3>3. /\ g.req = s.req /\ g.len = s.len /\ g.ring = s.ring /\ g.idx = s.idx /\ g.buf = w
          /\ g.bits = s.bits \ {"fresh"}
      BY <3>2 DEF Channel
    <3>4. g \in Channel
      BY <1>1, <3>1, <3>2 DEF Channel
    <3>5. w.count <= w.size
      BY <1>1, <2>2, <3>1
    <3>6. g.bits \subseteq s.bits /\ ("pending" \in g.bits <=> "pending" \in s.bits) /\ "fresh" \notin g.bits
      BY <3>3
    <3> QED BY <3>1, <3>3, <3>4, <3>5, <3>6 DEF Sound
  <2>3. CASE ~Warming(s) /\ ~(s.req > 1)
    <3>1. g = [s EXCEPT !.bits = s.bits \union {"fresh"}]
      BY <2>3 DEF Stored
    <3> HIDE DEF g
    <3>2. /\ g.req = s.req /\ g.len = s.len /\ g.ring = s.ring /\ g.idx = s.idx /\ g.buf = s.buf
          /\ g.bits = s.bits \union {"fresh"}
      BY <3>1 DEF Channel
    <3>3. g \in Channel
      BY <1>1, <3>1 DEF Channel, Bits
    <3> QED BY <1>1, <2>3, <3>2, <3>3
  <2> QED BY <2>1, <2>2, <2>3
<1> HIDE DEF g
<1>3. /\ f \in Channel /\ f.req = g.req /\ f.len = g.len /\ f.ring = g.ring /\ f.idx = g.idx /\ f.buf = g.buf
      /\ f.bits = g.bits
  BY <1>2 DEF Channel
<1> HIDE DEF f
<1>4. ASSUME ~HasEnough(f) PROVE "fresh" \notin f.bits /\ f.buf.count < f.req
  <2>1. f.req = s.req /\ ("fresh" \in f.bits => s.req <= 1) /\ f.buf.count \in Nat
    BY <1>1, <1>2, <1>3
  <2>2. ~(Available(f) >= f.req)
    BY <1>4 DEF HasEnough
  <2>3. "fresh" \notin f.bits
    BY <1>1, <2>1, <2>2 DEF Available
  <2> QED BY <1>1, <2>1, <2>2, <2>3 DEF Available
<1>5. /\ f.req = s.req /\ f.len = s.len /\ Len(f.ring) = Len(s.ring) /\ f.idx <= f.len
      /\ f.buf.size = s.buf.size /\ f.buf.room = s.buf.room /\ Sound(f.buf)
      /\ f.buf.count \in {s.buf.count, s.buf.count + 1} /\ f.buf.count <= f.buf.size
      /\ "pending" \in f.bits <=> "pending" \in s.bits
  BY <1>2, <1>3
<1> QED BY <1>3, <1>4, <1>5 DEF f, g

\* The numbers the conversions of a handler yield.
LEMMA Numbering ==
  ASSUME NEW eoc \in SUBSET Channels, made \in Nat, made + Cardinality(eoc) <= MaxSamples, NEW c
  PROVE  /\ made + Cardinality({k \in eoc : k <= c}) \in 0 .. MaxSamples
         /\ made + Cardinality(eoc) \in 0 .. MaxSamples
<1>1. IsFiniteSet(Channels) /\ MaxSamples \in Nat
  BY AdcAssumption
<1>2. IsFiniteSet(eoc)
  BY <1>1, FS_Subset
<1>3. {k \in eoc : k <= c} \subseteq eoc
  OBVIOUS
<1>4. /\ Cardinality({k \in eoc : k <= c}) <= Cardinality(eoc) /\ IsFiniteSet({k \in eoc : k <= c})
  BY <1>2, <1>3, FS_Subset
<1>5. Cardinality({k \in eoc : k <= c}) \in Nat /\ Cardinality(eoc) \in Nat
  BY <1>2, <1>4, FS_CardinalityType
<1> QED BY <1>1, <1>4, <1>5

\* A channel u for which a channel s was, after the handler; whether it is
\* still in use.
Fed(s, u, used) ==
  /\ u \in Channel /\ u.req = s.req /\ u.len = s.len /\ Len(u.ring) = Len(s.ring) /\ u.idx <= u.len
  /\ u.buf.size = s.buf.size /\ u.buf.room = s.buf.room /\ Sound(u.buf)
  /\ u.buf.count >= s.buf.count /\ u.buf.count <= u.buf.size
  /\ "pending" \in u.bits => "pending" \in s.bits
  /\ used => /\ "pending" \in s.bits => "pending" \in u.bits
             /\ Fits(u)
             /\ s.buf.count < s.req => u.buf.count < u.req

\* The channel with the sample, and with other bits.
Sampled(s, v) == [Stored(s, v) EXCEPT !.value = v]
WithBits(s, b) == [s EXCEPT !.bits = b]

LEMMA FedOnce ==
  ASSUME NEW s \in Channel, NEW v \in 0 .. MaxSamples, Fits(s), Sound(s.buf), s.idx <= s.len,
         NEW f, f = Sampled(s, v),
         NEW u, NEW used \in BOOLEAN,
         \E b \in SUBSET f.bits : u = WithBits(f, b),
         used => ~HasEnough(f),
         "pending" \in f.bits /\ ~HasEnough(f) => "pending" \in u.bits
  PROVE  Fed(s, u, used)
<1>1. /\ f \in Channel /\ f.req = s.req /\ f.len = s.len /\ Len(f.ring) = Len(s.ring) /\ f.idx <= f.len
      /\ f.buf.size = s.buf.size /\ f.buf.room = s.buf.room /\ Sound(f.buf)
      /\ f.buf.count \in {s.buf.count, s.buf.count + 1} /\ f.buf.count <= f.buf.size
      /\ "pending" \in f.bits <=> "pending" \in s.bits
      /\ ~HasEnough(f) => "fresh" \notin f.bits /\ f.buf.count < f.req
  BY StoredTyped DEF Sampled
<1>2. used => ~HasEnough(f)
  OBVIOUS
<1>3. "pending" \in f.bits /\ ~HasEnough(f) => "pending" \in u.bits
  OBVIOUS
<1>4. PICK b \in SUBSET f.bits : u = [f EXCEPT !.bits = b]
  BY DEF WithBits
<1>5. /\ u \in Channel /\ u.req = f.req /\ u.len = f.len /\ u.ring = f.ring /\ u.idx = f.idx /\ u.buf = f.buf
      /\ u.bits \subseteq f.bits
  BY <1>1, <1>4 DEF Channel
<1>6. s.buf.count \in Nat /\ Room(s.buf) \in Nat /\ s.req \in Nat /\ s.req <= Room(s.buf)
  <2>1. s.buf.count \in Nat /\ s.buf.size \in Nat /\ s.req \in Nat
    BY RoomFacts
  <2> QED BY <2>1 DEF Room, Fits
<1>7. u.buf.count >= s.buf.count /\ u.buf.count <= u.buf.size /\ u.buf.count \in Nat
  <2>1. u.buf.count <= u.buf.size /\ (u.buf.count = s.buf.count \/ u.buf.count = s.buf.count + 1)
    BY ONLY <1>1, <1>5
  <2>2. s.buf.count \in Nat
    BY ONLY <1>6
  <2> QED BY ONLY <2>1, <2>2
<1>8. ASSUME used
      PROVE  /\ "pending" \in s.bits => "pending" \in u.bits
             /\ Fits(u) /\ u.buf.count < u.req
  <2>1. ~HasEnough(f) /\ "fresh" \notin f.bits /\ f.buf.count < f.req
    BY <1>1, <1>2, <1>8
  <2>2. "fresh" \notin u.bits /\ u.buf.count < u.req /\ u.req <= Room(u.buf)
    BY <1>1, <1>5, <1>6, <2>1 DEF Room
  <2>3. u.req \in Nat /\ Room(u.buf) \in Nat
    BY <1>1, <1>5, <1>6 DEF Room
  <2>4. u.buf.count < Room(u.buf) /\ u.buf.count <= u.req
    BY ONLY <1>7, <2>2, <2>3
  <2>5. Fits(u)
    BY ONLY <2>2, <2>4 DEF Fits
  <2> QED BY <1>1, <1>3, <2>1, <2>2, <2>5
<1> QED BY <1>1, <1>5, <1>7, <1>8 DEF Fed

LEMMA FedNot ==
  ASSUME NEW s \in Channel, Fits(s), Sound(s.buf), s.idx <= s.len, NEW u,
         u \in {[s EXCEPT !.bits = b] : b \in {s.bits, s.bits \ {"fresh"}}}
  PROVE  Fed(s, u, TRUE)
<1>1. PICK b \in {s.bits, s.bits \ {"fresh"}} : u = [s EXCEPT !.bits = b]
  OBVIOUS
<1>2. b = s.bits
  BY DEF Fits
<1>3. u = s
  BY <1>1, <1>2 DEF Channel
<1>4. s.buf.count \in Nat /\ s.buf.count <= s.buf.size
  BY RoomFacts
<1> QED BY <1>3, <1>4 DEF Fed

\* What the handler leaves of the state: channels not in use stay as they are,
\* and those in use are fed.
LEMMA HandlerEffects ==
  ASSUME IInv, NEW eoc \in SUBSET Channels, AdcIntHandler(eoc)
  PROVE  /\ todo' = todo /\ word' = word /\ sample' = sample /\ asked' = asked /\ made' \in 0 .. MaxSamples
         /\ ~Preparing(todo) /\ Used # {} /\ Used' \subseteq Used /\ Used \subseteq Channels
         /\ dev'.active \subseteq dev.active /\ dev' \in Device /\ ch' \in [Channels -> Channel]
         /\ \A c \in Channels : IF c \in Used THEN Fed(ch[c], ch'[c], c \in Used') ELSE ch'[c] = ch[c]
<1> DEFINE Number(c) == made + Cardinality({k \in eoc : k <= c})
           Stores(c) == [Stored(ch[c], Number(c)) EXCEPT !.value = Number(c)]
           fed == [c \in Channels |-> IF c \in eoc THEN Stores(c) ELSE ch[c]]
           full == {c \in eoc : HasEnough(fed[c])}
           left == dev.active \ full
           d == [dev EXCEPT !.active = left, !.on = @ \ full, !.busy = @ \ eoc,
                            !.running = @ /\ (full = {} \/ left # {})]
           served == [c \in Channels |-> IF c \in full THEN [fed[c] EXCEPT !.bits = @ \ {"pending"}] ELSE fed[c]]
<1>1. /\ Values /\ Formed(todo) /\ Shaped /\ Sampling /\ Prepared
      /\ dev \in Device /\ ch \in [Channels -> Channel] /\ made \in Nat
  BY AdcAssumption DEF IInv, Values
<1>2. /\ eoc # {} /\ eoc \subseteq dev.busy /\ made + Cardinality(eoc) <= MaxSamples
      /\ made' = made + Cardinality(eoc)
      /\ todo' = todo /\ word' = word /\ sample' = sample /\ asked' = asked
      /\ ch' = Voided(d, served)
      /\ dev' = IF d.running THEN Started(Resequenced(d)) ELSE Resequenced(d)
  BY DEF AdcIntHandler
<1>3. \A c : Number(c) \in 0 .. MaxSamples
  BY <1>1, <1>2, Numbering
<1>4. made' \in 0 .. MaxSamples
  BY <1>1, <1>2, Numbering
<1>5. Used # {} /\ eoc \subseteq Used /\ ~Preparing(todo) /\ Used \subseteq Channels
  BY <1>1, <1>2 DEF Used, Prepared, Device
<1>6. /\ fed \in [Channels -> Channel \union {Stores(c) : c \in eoc}]
      /\ \A c \in Channels : fed[c] = IF c \in eoc THEN Stores(c) ELSE ch[c]
  BY <1>1
<1>7. full \subseteq eoc /\ \A c \in eoc : c \in full <=> HasEnough(fed[c])
  OBVIOUS
<1>8. \A c \in Channels : served[c] = IF c \in full THEN [fed[c] EXCEPT !.bits = fed[c].bits \ {"pending"}] ELSE fed[c]
  OBVIOUS
<1> HIDE DEF Number, fed, served, full
<1>9. /\ d \in Device /\ d.active = dev.active \ full /\ d.on = dev.on \ full /\ d.busy = dev.busy \ eoc
  BY <1>1 DEF Device
<1> HIDE DEF d
<1>10. /\ dev' \in Device /\ dev'.active = d.active /\ dev'.on \in {d.active, d.on}
       /\ dev'.busy \in {d.active, d.on, d.busy, {}}
  <2>1. /\ Resequenced(d) \in Device /\ Resequenced(d).active = d.active /\ Resequenced(d).on \in {d.active, d.on}
        /\ Resequenced(d).busy \in {d.busy, {}}
    BY <1>9 DEF Resequenced, Device
  <2>2. \A e \in Device : /\ Started(e) \in Device /\ Started(e).active = e.active /\ Started(e).on = e.on
                          /\ Started(e).busy = e.on
    BY DEF Started, Device
  <2> QED BY <1>2, <2>1, <2>2
<1>11. Used' \subseteq Used \ full /\ dev'.active \subseteq dev.active
  BY <1>7, <1>9, <1>10 DEF Used
<1>12. \A c \in Channels : ch'[c] = IF Resequences(d) /\ c \in d.active
                                    THEN [served[c] EXCEPT !.bits = served[c].bits \ {"fresh"}] ELSE served[c]
  BY <1>2 DEF Voided
<1>13. DOMAIN ch' = Channels /\ ch' = [c \in Channels |-> ch'[c]]
  BY <1>2 DEF Voided
<1>14. ASSUME NEW c \in Channels, c \in Used
       PROVE  Fed(ch[c], ch'[c], c \in Used')
  <2>1. Fits(ch[c]) /\ ch[c] \in Channel
    BY <1>1, <1>14 DEF Sampling
  <2>2. ~At("realloc", c) /\ ~At("count0", c) /\ ~At("wptr0", c) /\ ~At("unsmooth", c)
    BY <1>14, Relied DEF At, Doing
  <2>3. Sound(ch[c].buf) /\ ch[c].idx <= ch[c].len
    BY <1>1, <2>2 DEF Shaped, Shape
  <2>4. CASE c \in eoc
    <3> DEFINE f == [Stored(ch[c], Number(c)) EXCEPT !.value = Number(c)]
    <3>1. fed[c] = f
      BY <1>6, <2>4
    <3>2. f \in Channel
      BY <1>3, <2>1, <2>3, StoredTyped
    <3>3. served[c] = IF c \in full THEN [f EXCEPT !.bits = f.bits \ {"pending"}] ELSE f
      BY <1>8, <3>1
    <3>4. c \in full <=> HasEnough(f)
      BY <1>7, <2>4, <3>1
    <3> HIDE DEF f
    <3> DEFINE b == IF c \in full THEN f.bits \ {"pending"} ELSE f.bits
               e == IF Resequences(d) /\ c \in d.active THEN b \ {"fresh"} ELSE b
    <3>5. served[c] = [f EXCEPT !.bits = b] /\ served[c].bits = b
      BY <3>2, <3>3 DEF Channel
    <3> HIDE DEF b
    <3>6. ch'[c] = [f EXCEPT !.bits = e]
      BY <1>12, <3>2, <3>5 DEF Channel
    <3>7. e \in SUBSET f.bits
      BY DEF b
    <3>8. "pending" \in f.bits /\ ~HasEnough(f) => "pending" \in e
      BY <3>4 DEF b
    <3> HIDE DEF e
    <3>9. (\E x \in SUBSET f.bits : ch'[c] = WithBits(f, x)) /\ ch'[c].bits = e
      BY <3>2, <3>6, <3>7 DEF Channel, WithBits
    <3>10. c \in Used' => ~HasEnough(f)
      BY <1>11, <3>4
    <3>11. "pending" \in f.bits /\ ~HasEnough(f) => "pending" \in ch'[c].bits
      BY <3>8, <3>9
    <3>12. Number(c) \in 0 .. MaxSamples /\ f = Sampled(ch[c], Number(c))
      BY <1>3 DEF f, Sampled
    <3> DEFINE used == c \in Used'
    <3>13. used \in BOOLEAN /\ (used => ~HasEnough(f))
      BY <3>10
    <3> HIDE DEF used
    <3>14. Fed(ch[c], ch'[c], used)
      <4>1. PICK n \in 0 .. MaxSamples : n = Number(c)
        BY <3>12
      <4>2. f = Sampled(ch[c], n)
        BY <3>12, <4>1
      <4>3. ch[c] \in Channel /\ Fits(ch[c])
        BY <2>1
      <4>4. used => ~HasEnough(f)
        BY <3>13
      <4>5. used \in BOOLEAN
        BY <3>13
      <4>6. \E x \in SUBSET f.bits : ch'[c] = WithBits(f, x)
        BY <3>9
      <4> QED BY ONLY <2>3, <3>11, <4>2, <4>3, <4>4, <4>5, <4>6, n \in 0 .. MaxSamples, FedOnce
    <3> QED BY <3>14 DEF used
  <2>5. CASE c \notin eoc
    <3>1. served[c] = ch[c]
      BY <1>6, <1>7, <1>8, <2>5
    <3>2. ch'[c] \in {[ch[c] EXCEPT !.bits = b] : b \in {ch[c].bits, ch[c].bits \ {"fresh"}}}
      <4>1. ch[c] = [ch[c] EXCEPT !.bits = ch[c].bits]
        BY <2>1 DEF Channel
      <4> QED BY <1>12, <3>1, <4>1
    <3>3. Fed(ch[c], ch'[c], TRUE)
      BY <2>1, <2>3, <3>2, FedNot
    <3> QED BY <3>3 DEF Fed
  <2> QED BY <2>4, <2>5
<1>15. ASSUME NEW c \in Channels, c \notin Used
       PROVE  ch'[c] = ch[c]
  <2>1. c \notin eoc /\ c \notin d.active
    BY <1>5, <1>9, <1>15 DEF Used
  <2> QED BY <1>6, <1>7, <1>8, <1>12, <2>1
<1>16. ch' \in [Channels -> Channel]
  <2>1. \A c \in Channels : ch'[c] \in Channel
    BY <1>1, <1>14, <1>15 DEF Fed
  <2> QED BY <1>13, <2>1
<1> QED BY <1>2, <1>4, <1>5, <1>10, <1>11, <1>14, <1>15, <1>16

LEMMA HandlerKeeps ==
  ASSUME IInv, Interrupts
  PROVE  IInv'
<1>1. PICK eoc \in SUBSET Channels : AdcIntHandler(eoc)
  BY DEF Interrupts
<1>2. /\ todo' = todo /\ word' = word /\ sample' = sample /\ asked' = asked /\ made' \in 0 .. MaxSamples
      /\ ~Preparing(todo) /\ Used # {} /\ Used' \subseteq Used /\ Used \subseteq Channels
      /\ dev'.active \subseteq dev.active /\ dev' \in Device /\ ch' \in [Channels -> Channel]
      /\ \A c \in Channels : IF c \in Used THEN Fed(ch[c], ch'[c], c \in Used') ELSE ch'[c] = ch[c]
  BY <1>1, HandlerEffects
<1>3. /\ Values /\ Formed(todo) /\ Shaped /\ Sampling /\ Loaded /\ Tuned /\ Taken
  BY DEF IInv
<1>3a. Now' = Now
  BY <1>2 DEF Now
<1>4. \A op, c : At(op, c)' <=> At(op, c)
  BY <1>2, <1>3a DEF At, Doing
<1>5. todo # <<>> /\ Now.op # "start" => Now.ch \in Channels
  BY <1>3, Ahead, Fields
<1>6. ~Preparing(todo')
  BY <1>2
<1>7. Values'
  BY <1>2, <1>3 DEF Values
<1>8. Shaped'
  <2> SUFFICES ASSUME NEW c \in Channels PROVE Shape(c)'
    BY DEF Shaped
  <2>1. Shape(c)
    BY <1>3 DEF Shaped
  <2>2. CASE c \notin Used
    <3>1. ch'[c] = ch[c] /\ Now' = Now
      BY <1>2, <1>3a, <2>2
    <3> QED BY <1>4, <2>1, <3>1 DEF Shape
  <2>3. CASE c \in Used
    <3>1. ~At("realloc", c) /\ ~At("count0", c) /\ ~At("wptr0", c) /\ ~At("unsmooth", c)
      BY <2>3, Relied DEF At, Doing
    <3>2. Fed(ch[c], ch'[c], c \in Used')
      BY <1>2, <2>3
    <3> QED BY <1>4, <2>1, <3>1, <3>2 DEF Shape, Fed
  <2> QED BY <2>2, <2>3
<1>9. Sampling'
  <2> SUFFICES ASSUME NEW c \in Used' PROVE Awaits(c)' /\ Fits(ch'[c])
    BY DEF Sampling
  <2>1. c \in Channels /\ c \in Used /\ Fed(ch[c], ch'[c], c \in Used') /\ Awaits(c)
    BY <1>2, <1>3 DEF Sampling
  <2>2. Fits(ch'[c]) /\ ("pending" \in ch[c].bits => "pending" \in ch'[c].bits)
    BY <2>1 DEF Fed
  <2> QED BY <1>2, <2>1, <2>2 DEF Awaits
<1>10. \A c \in Channels : "pending" \in ch'[c].bits => "pending" \in ch[c].bits
  BY <1>2 DEF Fed
<1>11. Loaded'
  <2>1. ASSUME Doing("storeBits")'
        PROVE  /\ word' \subseteq Bits
               /\ "pending" \in Mine'.bits => "pending" \in word'
               /\ Now'.ch \in Used' \/ Preparing(todo') => "fresh" \notin word'
    <3>1. todo # <<>> /\ Now.op = "storeBits" /\ Now' = Now /\ Doing("storeBits")
      BY <1>2, <1>3a, <2>1 DEF Doing
    <3>2. Now.ch \in Channels
      BY <1>5, <3>1
    <3>3. "pending" \in Mine'.bits => "pending" \in Mine.bits
      BY <1>10, <3>1, <3>2 DEF Mine
    <3> QED BY <1>2, <1>3, <3>1, <3>3 DEF Loaded
  <2>2. ASSUME Doing("storeActive")'
        PROVE  /\ word' \subseteq Channels
               /\ IF Now'.on THEN word' = dev'.active ELSE word' \subseteq {Now'.ch}
    <3>1. Doing("storeActive") /\ Now' = Now /\ todo # <<>> /\ Now.op = "storeActive"
      BY <1>2, <1>3a, <2>2 DEF Doing
    <3>2. ~Now.on
      BY <1>2, <1>3, <3>1, Ahead DEF Placed
    <3> QED BY <1>2, <1>3, <3>1, <3>2 DEF Loaded
  <2> QED BY <2>1, <2>2 DEF Loaded
<1>12. Prepared'
  BY <1>6 DEF Prepared
<1>13. Tuned'
  <2>1. Doing("disable")' => dev'.active = {}
    BY <1>2, <1>3, <1>3a DEF Tuned, Doing
  <2>2. /\ \A i \in 1 .. Len(todo) :
             /\ todo[i].op \in {"resmooth", "unsmooth", "count0", "wptr0"} =>
                  Used = {} \/ \E j \in 1 .. i - 1 : todo[j].op = "disable"
             /\ todo[i].op \in {"loadActive", "storeActive", "disable"} => Used \subseteq {todo[i].ch}
    BY <1>2, <1>3 DEF Tuned
  <2> QED BY <1>2, <2>1, <2>2 DEF Tuned
<1>14. Taken'
  <2>1. ASSUME NEW c \in Channels
        PROVE  /\ ch'[c].buf.count >= ch[c].buf.count /\ ch'[c].buf.size = ch[c].buf.size
               /\ c \in Used' /\ ch[c].buf.count < ch[c].req => ch'[c].buf.count < ch'[c].req
               /\ ch[c].buf.count \in Nat /\ ch'[c].buf.count \in Nat
    <3>1. ch[c].buf.count \in Nat
      BY <1>3, Numbers
    <3>2. CASE c \notin Used
      BY <1>2, <3>1, <3>2
    <3>3. CASE c \in Used
      <4>1. Fed(ch[c], ch'[c], c \in Used')
        BY <1>2, <3>3
      <4>2. ch'[c].buf.count \in Nat
        BY <1>2, BufAssumption DEF Channel, Buffer
      <4> QED BY <3>1, <4>1, <4>2 DEF Fed
    <3> QED BY <3>2, <3>3
  <2>2. ASSUME todo # <<>>, Now.op \in {"copy", "decrement", "advance", "pick", "smooth", "countDown"}
        PROVE  /\ Now.op \in {"copy", "decrement"} => ch'[Now.ch].buf.count >= 1
               /\ Now.op \in {"copy", "decrement", "advance"} => ch'[Now.ch].buf.size >= 1
               /\ Now.op = "pick" /\ Now.ch \in Used' => ch'[Now.ch].buf.count >= 1
               /\ Now.op \in {"advance", "smooth", "countDown"} /\ Now.ch \in Used' =>
                    ch'[Now.ch].buf.count < ch'[Now.ch].req
    <3>1. Now.ch \in Channels
      BY <1>5, <2>2
    <3>2. /\ Now.op \in {"copy", "decrement"} => ch[Now.ch].buf.count >= 1
          /\ Now.op \in {"copy", "decrement", "advance"} => ch[Now.ch].buf.size >= 1
          /\ Now.op = "pick" /\ Now.ch \in Used => ch[Now.ch].buf.count >= 1
          /\ Now.op \in {"advance", "smooth", "countDown"} /\ Now.ch \in Used =>
               ch[Now.ch].buf.count < ch[Now.ch].req
      BY <1>3, <2>2 DEF Taken, Doing, Mine
    <3> QED BY <1>2, <2>1, <3>1, <3>2
  <2>3. \A i \in 1 .. Len(todo') :
          todo'[i].op = "storeBits" /\ todo'[i].bit = "fresh" => todo'[i].ch \notin Used'
    BY <1>2, <1>3 DEF Taken
  <2> QED BY <1>2, <1>3a, <2>2, <2>3 DEF Taken, Doing, Mine
<1>15. Formed(todo')
  BY <1>2, <1>3
<1> QED BY <1>7, <1>8, <1>9, <1>11, <1>12, <1>13, <1>14, <1>15 DEF IInv

-----------------------------------------------------------------------------
(***************************************************************************)
(* The calls of a program that leaves alone what is being sampled, but may *)
(* take samples out of it and change its settings.                         *)
(***************************************************************************)
\* Between calls no channel is in the middle of a change, and those in use
\* await samples.
LEMMA Between ==
  ASSUME IInv, todo = <<>>
  PROVE  /\ Used \subseteq Channels
         /\ \A c \in Used : Awaited(c) /\ Fits(ch[c])
         /\ \A c \in Channels : /\ Sound(ch[c].buf) /\ ch[c].idx <= ch[c].len
                                /\ ch[c].buf.count <= ch[c].buf.size
                                /\ ch[c].len > 1 => Len(ch[c].ring) = ch[c].len
<1>1. Len(todo) = 0
  <2>1. Len(<<>>) = 0
    OBVIOUS
  <2> QED BY <2>1
<1>2. Values /\ Sampling /\ Shaped
  BY DEF IInv
<1>3. Used \subseteq Channels
  BY <1>2 DEF Values, Device, Used
<1>4. \A op, c : ~At(op, c)
  BY DEF At, Doing
<1>5. \A c \in Used : Awaited(c) /\ Fits(ch[c])
  BY <1>1, <1>2 DEF Sampling, Awaits, Awaited
<1> QED BY <1>2, <1>3, <1>4, <1>5 DEF Shaped, Shape

\* The parts of the invariant that hold after a call whatever it is.
LEMMA CallKept ==
  ASSUME IInv, todo = <<>>, ch' = ch, dev' = dev, word' = word, sample' = sample, made' = made,
         asked' \in 0 .. MaxRequests, todo' # <<>>, Formed(todo'),
         todo'[1].op \in {"setup", "wait", "loadBits", "resmooth"},
         \A i \in 1 .. Len(todo') : todo'[i].op = "storeBits" => todo'[i].bit # "fresh"
  PROVE  Values' /\ Shaped' /\ Sampling' /\ Loaded' /\ Taken'
<1>1. Now' = todo'[1]
  <2>1. todo' \in Seq(Steps)
    BY DEF Formed
  <2>2. \A t \in Seq(Steps) : t # <<>> => Head(t) = t[1]
    OBVIOUS
  <2> QED BY <2>1, <2>2 DEF Now
<1>2. Used' = Used
  BY DEF Used
<1>3. Values'
  BY DEF IInv, Values
<1>4. Shaped'
  <2>1. \A c \in Channels : ~At("realloc", c)' /\ ~At("count0", c)' /\ ~At("wptr0", c)'
    BY <1>1 DEF At, Doing
  <2> QED BY <2>1, Between DEF Shaped, Shape
<1>5. Sampling'
  BY <1>2, Between DEF Sampling, Awaits, Awaited
<1>6. Loaded'
  BY <1>1 DEF Loaded, Doing
<1>7. Taken'
  BY <1>1 DEF Taken, Doing
<1> QED BY <1>3, <1>4, <1>5, <1>6, <1>7

\* Changing settings.
LEMMA TuneKeeps ==
  ASSUME IInv, todo = <<>>, ch' = ch, dev' = dev, word' = word, sample' = sample, made' = made,
         asked' = asked, todo' # <<>>, Formed(todo'), ~Preparing(todo'),
         NEW c \in Channels, Used \subseteq {c}, todo' \in Seq(Tunings(c)),
         todo'[1].op \in {"loadBits", "resmooth"},
         \A i \in 1 .. Len(todo') :
           todo'[i].op \in {"resmooth", "unsmooth", "count0", "wptr0"} =>
             Used = {} \/ \E j \in 1 .. i - 1 : todo'[j].op = "disable"
  PROVE  IInv'
<1>1. \A i \in 1 .. Len(todo') : todo'[i] \in Tunings(c)
  OBVIOUS
<1>2. /\ \A i \in 1 .. Len(todo') : todo'[i].op = "storeBits" => todo'[i].bit # "fresh"
      /\ \A i \in 1 .. Len(todo') : todo'[i].ch = c
  BY <1>1 DEF Tunings
<1>3. asked' \in 0 .. MaxRequests
  BY DEF IInv, Values
<1>4. Values' /\ Shaped' /\ Sampling' /\ Loaded' /\ Taken'
  BY <1>2, <1>3, CallKept
<1>5. Used' = Used
  BY DEF Used
<1>6. Now' = todo'[1]
  <2>1. \A S : \A t \in Seq(S) : t # <<>> => Head(t) = t[1]
    OBVIOUS
  <2> QED BY <2>1 DEF Now
<1>7. Tuned'
  BY <1>2, <1>5, <1>6 DEF Tuned, Doing
<1>8. Prepared'
  BY DEF Prepared
<1> QED BY <1>4, <1>7, <1>8 DEF IInv

LEMMA SampleKeeps ==
  ASSUME Liberties \subseteq {"read", "configure"}, IInv,
         NEW list \in Lists, NEW n \in Counts, AdcSample(list, n)
  PROVE  IInv'
<1> DEFINE s == [k \in DOMAIN list |-> [op |-> "setup", ch |-> list[k], n |-> n]] \o StartSequence
<1>1. /\ todo = <<>> /\ todo' = s /\ ch' = ch /\ dev' = dev /\ word' = word /\ sample' = sample /\ made' = made
      /\ asked' = asked + 1 /\ asked < MaxRequests
      /\ \A c \in Channels \ Range(list) : ~Awaited(c)
      /\ \A c \in Range(list) : ~Awaited(c) /\ Drained(c)
  BY DEF AdcSample, Call, Undisturbed
<1>2. /\ Formed(s) /\ Preparing(s) /\ s[1].op = "setup"
      /\ \A i \in 1 .. Len(s) : s[i].op = "start" \/ (s[i].op = "setup" /\ s[i].ch \in Range(list))
  BY SampleFormed
<1> HIDE DEF s
<1>3. /\ Formed(todo') /\ Preparing(todo') /\ todo'[1].op = "setup" /\ todo' # <<>> /\ todo' \in Seq(Steps)
      /\ \A i \in 1 .. Len(todo') :
           todo'[i].op = "start" \/ (todo'[i].op = "setup" /\ todo'[i].ch \in Range(list))
  BY <1>1, <1>2 DEF Formed, Preparing
<1>4. asked' \in 0 .. MaxRequests
  <2>1. asked \in 0 .. MaxRequests /\ MaxRequests \in Nat
    BY AdcAssumption DEF IInv, Values
  <2> QED BY <1>1, <2>1
<1>5. Used = {} /\ Used' = {}
  <2>1. Used = {}
    BY <1>1, Between
  <2> QED BY <1>1, <2>1 DEF Used
<1>6. \A i \in 1 .. Len(todo') : todo'[i].op = "storeBits" => todo'[i].bit # "fresh"
  BY <1>3
<1>7. Values' /\ Shaped' /\ Sampling' /\ Loaded' /\ Taken'
  BY <1>1, <1>3, <1>4, <1>6, CallKept
<1>8. Now' = todo'[1]
  <2>1. \A t \in Seq(Steps) : t # <<>> => Head(t) = t[1]
    OBVIOUS
  <2> QED BY <1>3, <2>1 DEF Now
<1>9. dev'.on = {} /\ dev'.busy = {} /\ dev'.active = {}
  BY <1>5 DEF Used
<1>10. ASSUME NEW i \in 1 .. Len(todo'), todo'[i].op # "start"
       PROVE  todo'[i] \in Preparations /\ Void(ch'[todo'[i].ch])
  <2>1. todo'[i].op = "setup" /\ todo'[i].ch \in Range(list) /\ todo'[i] \in Steps
    BY <1>3, <1>10
  <2>2. todo'[i].ch \in Channels
    BY <2>1, Fields
  <2>3. Available(ch[todo'[i].ch]) = 0 /\ ch[todo'[i].ch].buf.count \in Nat
    BY <1>1, <2>1, <2>2, Numbers DEF Drained, IInv
  <2>4. Void(ch[todo'[i].ch])
    BY <2>3 DEF Available, Void
  <2> QED BY <1>1, <2>1, <2>4 DEF Preparations
<1>11. Prepared'
  BY <1>3, <1>8, <1>9, <1>10 DEF Prepared
<1>12. Tuned'
  BY <1>3 DEF Tuned
<1> QED BY <1>3, <1>7, <1>11, <1>12 DEF IInv

LEMMA GetKeeps ==
  ASSUME IInv, NEW c \in Channels, NEW n \in {0} \union Counts, AdcGetSamples(c, n)
  PROVE  IInv'
<1> DEFINE s == DoN("wait", c, n)
<1>1. /\ todo = <<>> /\ todo' = s /\ ch' = ch /\ dev' = dev /\ word' = word /\ sample' = sample /\ made' = made
      /\ asked' = asked
  BY DEF AdcGetSamples, Call
<1>2. Formed(s) /\ ~Preparing(s) /\ Len(s) = 1 /\ s[1].op = "wait"
  <2>1. Formed(s) /\ ~Preparing(s) /\ Len(s) = 1 /\ s[1] = [op |-> "wait", ch |-> c, n |-> n]
    BY GetForms
  <2> HIDE DEF s
  <2> QED BY <2>1
<1> HIDE DEF s
<1>3. /\ Formed(todo') /\ ~Preparing(todo') /\ todo'[1].op = "wait" /\ todo' # <<>> /\ todo' \in Seq(Steps)
      /\ \A i \in 1 .. Len(todo') : todo'[i].op = "wait"
  <2>1. s # <<>>
    <3>1. Len(s) # 0
      BY <1>2
    <3> QED BY <3>1, Len(<<>>) = 0
  <2>2. \A i \in 1 .. Len(s) : i = 1
    BY <1>2
  <2> QED BY <1>1, <1>2, <2>1, <2>2 DEF Formed
<1>4. asked' \in 0 .. MaxRequests
  BY <1>1 DEF IInv, Values
<1>5. \A i \in 1 .. Len(todo') : todo'[i].op = "storeBits" => todo'[i].bit # "fresh"
  BY <1>3
<1>6. Values' /\ Shaped' /\ Sampling' /\ Loaded' /\ Taken'
  BY <1>1, <1>3, <1>4, <1>5, CallKept
<1>7. Now' = todo'[1]
  <2>1. \A t \in Seq(Steps) : t # <<>> => Head(t) = t[1]
    OBVIOUS
  <2> QED BY <1>3, <2>1 DEF Now
<1>8. Prepared' /\ Tuned'
  BY <1>3, <1>7 DEF Prepared, Tuned, Doing
<1> QED BY <1>3, <1>6, <1>8 DEF IInv

LEMMA StopFirst ==
  ASSUME NEW c \in Channels
  PROVE  PlatformAdcStop(c) # <<>> /\ PlatformAdcStop(c)[1].op = "loadBits" /\ Len(PlatformAdcStop(c)) > 0
<1> DEFINE l == [op |-> "loadBits", ch |-> c]
           x == [op |-> "storeBits", ch |-> c, bit |-> "pending", on |-> FALSE]
           b == SetBit(c, "pending", FALSE)
           a == SetActive(c, FALSE)
           d == Do("disable", c)
           i == Do("idle", c)
<1>1. /\ l \in Steps /\ x \in Steps /\ l.op = "loadBits"
      /\ a \in Seq(Steps) /\ d \in Seq(Steps) /\ i \in Seq(Steps)
  BY StepKinds, ListTypes
<1>2. b = <<l>> \o <<x>> /\ PlatformAdcStop(c) = ((b \o a) \o d) \o i
  BY DEF SetBit, Do, PlatformAdcStop
<1> HIDE DEF l, x, b, a, d, i
<1>3. <<l>> \in Seq(Steps) /\ <<x>> \in Seq(Steps) /\ Len(<<l>>) > 0 /\ <<l>>[1] = l
  BY <1>1
<1>4. b \in Seq(Steps) /\ Len(b) > 0 /\ b[1] = l
  BY ONLY <1>2, <1>3, CatBoth
<1>5. b \o a \in Seq(Steps) /\ Len(b \o a) > 0 /\ (b \o a)[1] = l
  BY ONLY <1>1, <1>4, CatBoth
<1>6. (b \o a) \o d \in Seq(Steps) /\ Len((b \o a) \o d) > 0 /\ ((b \o a) \o d)[1] = l
  BY ONLY <1>1, <1>5, CatBoth
<1>7. ((b \o a) \o d) \o i \in Seq(Steps) /\ Len(((b \o a) \o d) \o i) > 0 /\ (((b \o a) \o d) \o i)[1] = l
  BY ONLY <1>1, <1>6, CatBoth
<1>8. PlatformAdcStop(c) # <<>>
  <2>1. Len(PlatformAdcStop(c)) # 0
    BY <1>2, <1>7
  <2> QED BY <2>1, Len(<<>>) = 0
<1> QED BY <1>1, <1>2, <1>7, <1>8

LEMMA TuneLists ==
  ASSUME NEW c \in Channels, NEW s \in Seq(Tunings(c))
  PROVE  ~Preparing(s)
<1>1. s # <<>> => Len(s) \in 1 .. Len(s)
  OBVIOUS
<1>2. \A i \in 1 .. Len(s) : s[i] \in Tunings(c)
  OBVIOUS
<1> QED BY <1>1, <1>2 DEF Preparing, Tunings

LEMMA MayTune ==
  ASSUME Liberties \subseteq {"read", "configure"}, IInv, todo = <<>>, NEW c \in Channels, MayConfigure(c)
  PROVE  Used \subseteq {c} /\ (~Awaited(c) => Used = {})
<1>1. \A k \in Channels \ {c} : ~Awaited(k)
  BY DEF MayConfigure, Undisturbed
<1> QED BY <1>1, Between

\* adc.setblocking and adc.setclock.
LEMMA StopsKeep ==
  ASSUME Liberties \subseteq {"read", "configure"}, IInv, Calls, NEW c \in Channels, MayConfigure(c),
         NEW s \in Seq(Stops(c)), s # <<>>, s[1].op = "loadBits", Call(s), asked' = asked
  PROVE  IInv'
<1>1. /\ todo = <<>> /\ todo' = s /\ ch' = ch /\ dev' = dev /\ word' = word /\ sample' = sample /\ made' = made
  BY DEF Call
<1>2. Formed(todo')
  BY CallForms
<1>3. s \in Seq(Tunings(c)) /\ ~Preparing(s)
  BY TuneTypes, TuneLists
<1>4. \A i \in 1 .. Len(s) : s[i] \in Stops(c)
  OBVIOUS
<1>5. \A i \in 1 .. Len(s) : s[i].op \notin {"resmooth", "unsmooth", "count0", "wptr0"}
  BY <1>4 DEF Stops
<1>6. Used \subseteq {c}
  BY <1>1, MayTune
<1> QED BY <1>1, <1>2, <1>3, <1>5, <1>6, TuneKeeps

LEMMA SmoothingKeeps ==
  ASSUME Liberties \subseteq {"read", "configure"}, IInv, Calls,
         NEW c \in Channels, NEW n \in Lengths, AdcSetSmoothing(c, n)
  PROVE  IInv'
<1> DEFINE r == ResmoothSteps(c, n)
           p == PlatformAdcStop(c)
<1>1. /\ todo = <<>> /\ ch' = ch /\ dev' = dev /\ word' = word /\ sample' = sample /\ made' = made
      /\ asked' = asked /\ MayConfigure(c)
      /\ Awaited(c) => todo' = p \o DoN("resmooth", c, n) \o Do("unsmooth", c) \o SetBit(c, "ready", FALSE) \o BufFlush(c)
      /\ ~Awaited(c) => todo' = <<>> \o DoN("resmooth", c, n) \o Do("unsmooth", c) \o SetBit(c, "ready", FALSE) \o BufFlush(c)
  BY DEF AdcSetSmoothing, Call
<1>2. Formed(todo')
  BY CallForms
<1>3. Used \subseteq {c} /\ (~Awaited(c) => Used = {})
  BY <1>1, MayTune
<1>4. Formed(r) /\ r # <<>> /\ r[1].op = "resmooth" /\ r \in Seq(Tunings(c)) /\ r \in Seq(Steps)
  <2>1. Formed(r) /\ r # <<>> /\ r[1] = [op |-> "resmooth", ch |-> c, n |-> n]
    BY ResmoothFormed
  <2>2. r \in Seq(Tunings(c)) /\ r \in Seq(Steps)
    BY <2>1, NoSteps, ResmoothIs DEF Formed
  <2> HIDE DEF r
  <2> QED BY <2>1, <2>2
<1>5. CASE ~Awaited(c)
  <2>1. todo' = <<>> \o r
    BY <1>1, <1>5, NoSteps, ResmoothIs DEF Formed
  <2> HIDE DEF r, p
  <2>2. todo' = r
    BY <1>4, <2>1, NoSteps
  <2>3. ~Preparing(todo')
    BY <1>4, <2>2, TuneLists
  <2> QED BY <1>1, <1>2, <1>3, <1>4, <1>5, <2>2, <2>3, TuneKeeps
<1>6. CASE Awaited(c)
  <2>1. todo' = p \o r
    BY <1>1, <1>6, SmoothingForms
  <2>2. /\ p \in Seq(Stops(c)) /\ p \in Seq(Steps) /\ Len(p) > 0 /\ p[1].op = "loadBits"
        /\ \E j \in 1 .. Len(p) : p[j].op = "disable"
    BY <1>4, StopIs, StopFirst
  <2>3. todo' \in Seq(Tunings(c))
    BY <1>1, <1>6, SmoothingForms
  <2> HIDE DEF p, r
  <2>4. todo' # <<>> /\ todo'[1].op = "loadBits"
    BY <1>4, <2>1, <2>2, CatFirst
  <2>5. ~Preparing(todo')
    BY <2>3, TuneLists
  <2>6. \A i \in 1 .. Len(p) : p[i].op \notin {"resmooth", "unsmooth", "count0", "wptr0"}
    <3>1. \A i \in 1 .. Len(p) : p[i] \in Stops(c)
      BY <2>2
    <3> QED BY <3>1 DEF Stops
  <2>7. PICK j \in 1 .. Len(p) : p[j].op = "disable"
    BY <2>2
  <2>8. \A i \in 1 .. Len(p) : todo'[i] = p[i]
    BY <1>4, <2>1, <2>2, CatFacts
  <2>9. ASSUME NEW i \in 1 .. Len(todo'), todo'[i].op \in {"resmooth", "unsmooth", "count0", "wptr0"}
        PROVE  \E k \in 1 .. i - 1 : todo'[k].op = "disable"
    <3>1. i \notin 1 .. Len(p)
      BY <2>6, <2>8, <2>9
    <3>2. Len(p) \in Nat /\ Len(todo') \in Nat
      BY <2>2, <2>3
    <3>3. j \in 1 .. i - 1
      BY <3>1, <3>2
    <3> QED BY <2>7, <2>8, <3>3
  <2> QED BY <1>1, <1>2, <1>3, <2>3, <2>4, <2>5, <2>9, TuneKeeps
<1> QED BY <1>5, <1>6

LEMMA CallKeeps ==
  ASSUME Liberties \subseteq {"read", "configure"}, IInv, Calls
  PROVE  IInv'
<1>1. ASSUME NEW c \in Channels, NEW on \in BOOLEAN, AdcSetBlocking(c, on) PROVE IInv'
  <2>1. /\ MayConfigure(c) /\ Call(SetBit(c, "blocking", on)) /\ asked' = asked
    BY <1>1 DEF AdcSetBlocking
  <2> DEFINE s == SetBit(c, "blocking", on)
  <2>2. s \in Seq(Stops(c)) /\ s # <<>> /\ s[1].op = "loadBits"
    BY BlockingForms
  <2> HIDE DEF s
  <2> QED BY <2>1, <2>2, StopsKeep DEF s
<1>2. ASSUME NEW c \in Channels, AdcSetClock(c) PROVE IInv'
  <2>1. MayConfigure(c) /\ Call(PlatformAdcStop(c)) /\ asked' = asked
    BY <1>2 DEF AdcSetClock
  <2> DEFINE s == PlatformAdcStop(c)
  <2>2. s \in Seq(Stops(c)) /\ s # <<>> /\ s[1].op = "loadBits"
    BY NoSteps, StopIs, StopFirst DEF Formed
  <2> HIDE DEF s
  <2> QED BY <2>1, <2>2, StopsKeep DEF s
<1> QED BY <1>1, <1>2, CallKinds, SampleKeeps, GetKeeps, SmoothingKeeps

-----------------------------------------------------------------------------
(***************************************************************************)
(* The theorem.                                                            *)
(***************************************************************************)
LEMMA InitHolds ==
  ASSUME Init
  PROVE  IInv
<1> DEFINE b == [NoBuffer EXCEPT !.size = 2, !.room = 2]
           s == [bits |-> {"blocking"}, req |-> 0, value |-> NoData, len |-> 1, idx |-> 0, ring |-> <<>>, buf |-> b]
<1>1. /\ MaxSize \in Nat /\ MaxSize >= 2 /\ 1 \in Lengths /\ MaxRequests \in Nat /\ MaxSamples \in Nat /\ NoData = 0
  BY AdcAssumption, BufAssumption
<1>2. /\ ch = [c \in Channels |-> s] /\ todo = <<>> /\ word = {} /\ sample = NoData /\ asked = 0 /\ made = 0
      /\ dev = [active |-> {}, last |-> {}, seq |-> {}, running |-> FALSE, on |-> {}, busy |-> {}]
  BY DEF Init
<1>3. b \in Buffer /\ Sound(b) /\ b.count = 0 /\ b.size = 2
  <2>1. 0 \in 0 .. MaxSize /\ 2 \in 0 .. MaxSize /\ 0 \in 0 .. MaxSize - 1 /\ NoData \in 0 .. MaxSamples
    BY <1>1
  <2>2. NoBuffer \in Buffer
    BY <2>1 DEF NoBuffer, Buffer
  <2>3. NoBuffer.wptr = 0 /\ NoBuffer.count = 0
    BY DEF NoBuffer
  <2>4. b \in Buffer
    BY <2>1, <2>2 DEF Buffer
  <2>5. b.wptr = 0 /\ b.count = 0 /\ b.size = 2 /\ b.room = 2
    BY <2>2, <2>3 DEF Buffer
  <2> HIDE DEF b
  <2> QED BY <2>4, <2>5 DEF Sound
<1> HIDE DEF b
<1>4. /\ s \in Channel /\ s.buf = b /\ s.len = 1 /\ s.idx = 0
  BY <1>1, <1>3 DEF Channel, Bits
<1> HIDE DEF s
<1>5. \A c \in Channels : ch[c] = s
  BY <1>2
<1>6. Values
  BY <1>1, <1>2, <1>4 DEF Values, Device
<1>7. Used = {} /\ ~Preparing(todo) /\ Formed(todo) /\ Len(todo) = 0
  <2>1. Used = {} /\ ~Preparing(todo) /\ Formed(todo)
    BY <1>2, NoSteps DEF Used
  <2>2. Len(<<>>) = 0
    OBVIOUS
  <2> QED BY <1>2, <2>1, <2>2
<1>8. \A op : ~Doing(op)
  BY <1>2 DEF Doing
<1>9. Shaped
  BY <1>3, <1>4, <1>5, <1>8 DEF Shaped, Shape, At
<1>10. Sampling
  BY <1>7 DEF Sampling
<1>11. Loaded
  BY <1>8 DEF Loaded
<1>12. Prepared
  BY <1>7 DEF Prepared
<1>13. Tuned
  BY <1>7, <1>8 DEF Tuned
<1>14. Taken
  BY <1>7, <1>8 DEF Taken
<1> QED BY <1>6, <1>7, <1>9, <1>10, <1>11, <1>12, <1>13, <1>14 DEF IInv

LEMMA StutterKeeps ==
  ASSUME IInv, UNCHANGED vars
  PROVE  IInv'
<1>1. /\ ch' = ch /\ dev' = dev /\ todo' = todo /\ word' = word /\ sample' = sample /\ asked' = asked /\ made' = made
  BY DEF vars
<1>2. Used' = Used /\ Now' = Now /\ Mine' = Mine
  BY <1>1 DEF Used, Now, Mine
<1>3. Values'
  BY <1>1 DEF IInv, Values
<1>4. Shaped'
  BY <1>1, <1>2 DEF IInv, Shaped, Shape, At, Doing
<1>5. Sampling'
  BY <1>1, <1>2 DEF IInv, Sampling, Awaits
<1>6. Loaded'
  BY <1>1, <1>2 DEF IInv, Loaded, Doing
<1>7. Prepared'
  BY <1>1, <1>2 DEF IInv, Prepared, Coming
<1>8. Tuned'
  BY <1>1, <1>2 DEF IInv, Tuned, Doing
<1>9. Taken'
  BY <1>1, <1>2 DEF IInv, Taken, Doing
<1> QED BY <1>1, <1>3, <1>4, <1>5, <1>6, <1>7, <1>8, <1>9 DEF IInv

\* The invariant gives what is promised: a channel being converted has memory
\* for what the handler stores next.
LEMMA InvariantImplies ==
  ASSUME IInv
  PROVE  WithinBlock
<1>1. Values /\ Sampling /\ Shaped
  BY DEF IInv
<1>2. TypeOK
  <2>1. \A c \in Channels : ch[c] \in Channel /\ ch[c].buf \in Buffer
    BY <1>1, Numbers
  <2>2. \A c \in Channels :
          LET s == ch[c] IN
          /\ s.bits \subseteq Bits /\ s.req \in 0 .. MaxSize /\ s.len \in Lengths /\ s.idx \in 0 .. MaxSize
          /\ s.buf.size \in 0 .. MaxSize /\ s.buf.count \in 0 .. MaxSize
          /\ s.buf.wptr \in 0 .. MaxSize - 1 /\ s.buf.rptr \in 0 .. MaxSize - 1
    BY <2>1 DEF Channel, Buffer
  <2>3. /\ dev.active \subseteq Channels /\ dev.last \subseteq Channels /\ dev.seq \subseteq Channels
        /\ dev.on \subseteq Channels /\ dev.busy \subseteq Channels /\ dev.running \in BOOLEAN
    BY <1>1 DEF Values, Device
  <2>4. sample \in 0 .. MaxSamples /\ asked \in 0 .. MaxRequests /\ made \in 0 .. MaxSamples
    BY <1>1 DEF Values
  <2> QED BY <2>2, <2>3, <2>4 DEF TypeOK
<1>3. ASSUME NEW c \in dev.busy
      PROVE  LET s == ch[c] IN
             IF Warming(s) THEN s.idx <= s.len /\ Len(s.ring) = s.len
             ELSE s.req > 1 => Rejects(s.buf) \/ s.buf.wptr < s.buf.room
  <2>1. c \in Used /\ c \in Channels
    BY <1>1 DEF Used, Values, Device
  <2>2. Fits(ch[c]) /\ Shape(c)
    BY <1>1, <2>1 DEF Sampling, Shaped
  <2>3. ~At("realloc", c) /\ ~At("count0", c) /\ ~At("wptr0", c) /\ ~At("unsmooth", c)
    BY <2>1, Relied DEF At, Doing
  <2>4. /\ Sound(ch[c].buf) /\ ch[c].idx <= ch[c].len
        /\ ch[c].len > 1 => Len(ch[c].ring) = ch[c].len
    BY <2>2, <2>3 DEF Shape
  <2>5. ch[c].req > 1 => ch[c].buf.wptr < ch[c].buf.room
    <3>1. ch[c].req > 1 => ch[c].buf.size # 0
      BY <1>1, <2>1, <2>2, Numbers, RoomFacts
    <3> QED BY <2>4, <3>1 DEF Sound
  <2> QED BY <2>4, <2>5 DEF Warming
<1> QED BY <1>2, <1>3 DEF WithinBlock

LEMMA StepInvariant ==
  ASSUME Liberties \subseteq {"read", "configure"}, IInv, [Next]_vars
  PROVE  IInv'
<1>1. Interrupts \/ Calls \/ Step \/ UNCHANGED vars
  BY DEF Next
<1> QED BY <1>1, HandlerKeeps, CallKeeps, StepKeeps, StutterKeeps

\* For a program that waits for what it asked for before it asks again, and
\* leaves other channels alone meanwhile, the handler writes into memory
\* allocated for it alone, whatever it interrupts: the set-up of a channel, the
\* change of a setting or the taking of a sample (elua_adc.c, platform.c).
THEOREM MemoryIsSafe ==
  ASSUME Liberties \subseteq {"read", "configure"}
  PROVE  Spec => []WithinBlock
<1>1. Init => IInv
  BY InitHolds
<1>2. IInv /\ [Next]_vars => IInv'
  BY StepInvariant
<1>3. IInv => WithinBlock
  BY InvariantImplies
<1> QED BY <1>1, <1>2, <1>3, PTL DEF Spec

-----------------------------------------------------------------------------
(***************************************************************************)
(* A program that changes no settings of what is being sampled. On a       *)
(* channel no samples were taken from early it at most waits for all it    *)
(* asked for: what IInv leaves open is then settled too.                   *)
(***************************************************************************)
Patient(c) == c \notin early

\* A channel awaits samples if, and only if, it is active, but for the steps
\* that make it active; one in use has not yet got all of them.
Flagged ==
  /\ \A c \in Channels : "pending" \in ch[c].bits =>
       c \in dev.active \/ (Preparing(todo) /\ (At("loadActive", c) \/ At("storeActive", c)))
  /\ \A c \in Used : "pending" \in ch[c].bits /\ (Patient(c) => ch[c].buf.count < ch[c].req)

\* The call in progress does not touch a channel in use, but to take samples
\* out early.
Apart ==
  /\ ~Preparing(todo) =>
       \A i \in 1 .. Len(todo) :
         todo[i].op # "wait" /\ (todo[i].op \in Takes => Patient(todo[i].ch)) => todo[i].ch \notin Used
  /\ Doing("wait") /\ Patient(Now.ch) =>
       Now.ch \notin Used \/ ("blocking" \in Mine.bits /\ Now.n = Mine.req)
  /\ Doing("storeBits") => word = Mine.bits

\* What a call ends with, and what it does not mix.
Untaken(x) == x.op = "storeBits" /\ x.bit = "fresh"
Ended ==
  todo # <<>> =>
    /\ todo[Len(todo)].op \notin {"pick", "copyFresh", "copy", "decrement", "advance", "smooth"}
    /\ ~Untaken(todo[Len(todo)])
Unmixed ==
  \A i, j \in 1 .. Len(todo) : todo[i].op \in {"resmooth", "unsmooth"} =>
    todo[j].op \notin {"setup", "wait", "process", "pick"} /\ ~Untaken(todo[j])

\* What the next steps find.
Found ==
  /\ Doing("pick") => Available(Mine) # 0
  /\ Doing("copyFresh") \/ (Doing("loadBits") /\ Len(todo) > 1 /\ Untaken(todo[2]))
       \/ (Doing("storeBits") /\ Untaken(Now)) => "fresh" \in Mine.bits
  /\ \A i \in 1 .. Len(todo) : todo[i].op = "count0" => ch[todo[i].ch].buf.count = 0
  /\ Preparing(todo) /\ Now.op \in {"loadBits", "storeBits", "loadActive", "storeActive"} => Mine.req >= 1

\* A channel that is not sampled has as many samples as it is to have, but for
\* the one being taken out, and until the request for new ones is complete.
Taking(c) == At("advance", c) \/ At("smooth", c) \/ At("countDown", c)
Asking(c) == Preparing(todo) /\ (At("loadBits", c) \/ At("storeBits", c))
Even(s, asking, taking) ==
  /\ "fresh" \in s.bits => s.buf.count = 0
  /\ "pending" \notin s.bits /\ ~asking => s.req = Available(s) + (IF taking THEN 1 ELSE 0)
Balanced == \A c \in Channels : Patient(c) => Even(ch[c], Asking(c), Taking(c))

HInv == IInv /\ Flagged /\ Apart /\ Ended /\ Unmixed /\ Found /\ Balanced

-----------------------------------------------------------------------------
(***************************************************************************)
(* The steps keep it.                                                      *)
(***************************************************************************)
\* What a step may rely on, of a channel not in use or no samples were taken
\* from early.
LEMMA Aside ==
  ASSUME HInv, Step
  PROVE  /\ todo # <<>> /\ Values /\ Formed(todo) /\ Formed(todo') /\ Now \in Steps /\ Now = todo[1]
         /\ Len(todo) \in Nat \ {0} /\ todo \in Seq(Steps) /\ Used \subseteq Channels
         /\ Now.op # "start" => Now.ch \in Channels
         /\ Now.op \notin Takes \union {"start", "wait"} => Now.ch \notin Used
         /\ Now.op # "start" /\ Patient(Now.ch) => Now.ch \notin Used
<1>1. /\ todo # <<>> /\ Values /\ Formed(todo) /\ Formed(todo') /\ IInv /\ Flagged /\ Apart
  BY Kinds, StepRest DEF HInv, IInv
<1>2. /\ Now \in Steps /\ Now = todo[1] /\ Len(todo) \in Nat \ {0} /\ todo \in Seq(Steps) /\ 1 \in 1 .. Len(todo)
      /\ Now.op # "start" => Now.ch \in Channels
  BY <1>1, Ahead, Fields
<1>3. Used \subseteq Channels
  BY <1>1 DEF Values, Device, Used
<1>4. Now.op \notin {"start", "wait"} /\ (Now.op \in Takes => Patient(Now.ch)) => Now.ch \notin Used
  BY <1>1, <1>2, Relied DEF Apart
<1>5. ASSUME Now.op = "wait", Patient(Now.ch), Now.ch \in Used PROVE FALSE
  <2>1. "blocking" \in Mine.bits /\ Now.n = Mine.req
    BY <1>1, <1>5 DEF Apart, Doing
  <2>2. "pending" \in Mine.bits /\ Mine.buf.count < Mine.req /\ "fresh" \notin Mine.bits
    BY <1>1, <1>5 DEF Flagged, Mine, IInv, Sampling, Fits
  <2>3. Available(Mine) = Mine.buf.count /\ Mine.buf.count \in Nat /\ Mine.req \in Nat
    BY <1>1, <1>2, <1>5, <2>2, Numbers DEF Mine
  <2>4. WaitOver(Mine, Now.n)
    BY <1>1, <1>5, Kinds DEF Wait
  <2> QED BY <2>1, <2>2, <2>3, <2>4 DEF WaitOver
<1> QED BY <1>1, <1>2, <1>3, <1>4, <1>5

\* A step leaves such channels in use as they are, but for fresh samples that
\* starting the converter voids.
LEMMA UsedStay ==
  ASSUME HInv, Step, NEW c \in Used, Patient(c)
  PROVE  /\ c \in Channels
         /\ Now.op # "start" => ch'[c] = ch[c]
         /\ ch'[c].buf = ch[c].buf /\ ch'[c].req = ch[c].req
         /\ ch'[c].bits \in {ch[c].bits, ch[c].bits \ {"fresh"}}
<1>1. c \in Channels /\ Now.op # "start" => c # Now.ch
  BY Aside
<1>2. CASE Now.op = "start"
  BY <1>1, <1>2, Aside, StepStart DEF HInv
<1>3. CASE Now.op # "start"
  BY <1>1, <1>3, Aside, StepChannel
<1> QED BY <1>1, <1>2, <1>3, Aside

\* The channels that await samples are the active ones.
LEMMA FlaggedStep ==
  ASSUME HInv, Step
  PROVE  Flagged'
<1>1. /\ IInv /\ Values /\ Formed(todo) /\ todo # <<>> /\ Flagged /\ Apart /\ Found /\ Now \in Steps /\ Prepared
      /\ Used \subseteq Channels
  BY Aside DEF HInv, IInv
<1>2. \A op, c : At(op, c)' <=> todo' # <<>> /\ Now'.op = op /\ Now'.ch = c
  BY DEF At, Doing
<1>3. ASSUME NEW c \in Channels, "pending" \in ch'[c].bits
      PROVE  c \in dev'.active \/ (Preparing(todo') /\ (At("loadActive", c)' \/ At("storeActive", c)'))
  <2>1. CASE Now.op = "storeBits" /\ c = Now.ch
    <3>1. ch'[c].bits = IF Now.on THEN word \union {Now.bit} ELSE word \ {Now.bit}
      BY <1>1, <2>1, StepFields
    <3>2. word = ch[c].bits
      BY <1>1, <2>1 DEF Apart, Doing, Mine
    <3>3. CASE "pending" \in ch[c].bits
      <4>1. c \in dev.active
        BY <1>1, <2>1, <3>3 DEF Flagged, At, Doing
      <4>2. c \notin Used
        BY <2>1, Aside DEF Takes
      <4> QED BY <4>1, <4>2 DEF Used
    <3>4. CASE "pending" \notin ch[c].bits
      <4>1. Now.on /\ Now.bit = "pending"
        BY <1>3, <3>1, <3>2, <3>4
      <4>2. Preparing(todo) /\ Placed(todo, 1)
        BY <1>1, <2>1, <4>1, Relied, Ahead
      <4>3. todo' = Tail(todo)
        BY <1>1, <2>1, StepTodo
      <4>4. Tail(todo) # <<>>
        <5> SUFFICES ASSUME Tail(todo) = <<>> PROVE FALSE
          OBVIOUS
        <5>1. Len(todo) = 1
          <6>1. Len(Tail(todo)) = 0
            BY Len(<<>>) = 0
          <6> QED BY <1>1, <6>1, Ahead
        <5> QED BY <1>1, <2>1, <4>2, <5>1, Ahead DEF Preparing
      <4>5. Leads(Now, Tail(todo)[1]) /\ Tail(todo)[1] = Now' /\ Preparing(todo')
        BY <1>1, <4>2, <4>3, <4>4, Ahead, CameFrom
      <4>6. Now'.op = "loadActive" /\ Now'.ch = c
        BY <2>1, <4>1, <4>5 DEF Leads
      <4> QED BY <1>2, <4>3, <4>4, <4>5, <4>6
    <3> QED BY <3>3, <3>4
  <2>2. CASE ~(Now.op = "storeBits" /\ c = Now.ch)
    <3>1. "pending" \in ch[c].bits
      <4>1. CASE Now.op = "start"
        BY <1>1, <1>3, <4>1, StepStart
      <4>2. CASE Now.op # "start" /\ c # Now.ch
        BY <1>1, <1>3, <4>2, StepChannel
      <4>3. CASE Now.op # "start" /\ c = Now.ch
        BY <1>1, <1>3, <2>2, <4>3, StepFields DEF Mine
      <4> QED BY <4>1, <4>2, <4>3
    <3>2. CASE c \in dev.active
      <4>1. c \in Used
        BY <3>2 DEF Used
      <4>2. CASE Now.op # "storeActive"
        BY <1>1, <3>2, <4>2, StepDevice
      <4>3. CASE Now.op = "storeActive" /\ Now.on
        BY <1>1, <4>1, <4>3, StepDevice
      <4>4. CASE Now.op = "storeActive" /\ ~Now.on
        <5>1. Used \subseteq {Now.ch}
          BY <1>1, <4>4, StepDevice, Ahead DEF IInv, Tuned
        <5> QED BY <4>1, <4>4, <5>1, Aside DEF Takes
      <4> QED BY <1>1, <4>2, <4>3, <4>4, Fields
    <3>3. CASE Preparing(todo) /\ At("loadActive", c)
      <4>1. Now.op = "loadActive" /\ Now.ch = c
        BY <3>3 DEF At, Doing
      <4>2. todo' = Tail(todo)
        BY <1>1, <4>1, StepTodo
      <4>4. Tail(todo) # <<>>
        <5> SUFFICES ASSUME Tail(todo) = <<>> PROVE FALSE
          OBVIOUS
        <5>1. Len(todo) = 1
          <6>1. Len(Tail(todo)) = 0
            BY Len(<<>>) = 0
          <6> QED BY <1>1, <6>1, Ahead
        <5> QED BY <1>1, <3>3, <4>1, <5>1, Ahead DEF Preparing
      <4>5. Leads(Now, Tail(todo)[1]) /\ Tail(todo)[1] = Now' /\ Preparing(todo')
        BY <1>1, <3>3, <4>2, <4>4, Ahead, CameFrom
      <4>6. Now'.op = "storeActive" /\ Now'.ch = c
        BY <4>1, <4>5 DEF Leads
      <4> QED BY <1>2, <4>2, <4>4, <4>5, <4>6
    <3>4. CASE Preparing(todo) /\ At("storeActive", c)
      <4>1. Now.op = "storeActive" /\ Now.ch = c
        BY <3>4 DEF At, Doing
      <4>2. Now.on
        BY <1>1, <3>4, <4>1, StepDevice, Fields
      <4> QED BY <1>1, <4>1, <4>2, StepDevice
    <3> QED BY <1>1, <3>1, <3>2, <3>3, <3>4 DEF Flagged
  <2> QED BY <2>1, <2>2
<1>4. ASSUME NEW c \in Used'
      PROVE  "pending" \in ch'[c].bits /\ (Patient(c)' => ch'[c].buf.count < ch'[c].req)
  <2>1. CASE c \in Used
    <3>1. "pending" \in ch[c].bits /\ (Patient(c) => ch[c].buf.count < ch[c].req) /\ c \in Channels
      BY <1>1, <2>1 DEF Flagged
    <3>2. "pending" \in ch'[c].bits
      <4>1. CASE Now.op = "start"
        BY <1>1, <2>1, <3>1, <4>1, StepStart
      <4>2. CASE Now.op # "start" /\ c # Now.ch
        BY <1>1, <3>1, <4>2, StepChannel
      <4>3. CASE Now.op # "start" /\ c = Now.ch
        <5>1. Now.op # "storeBits"
          BY <2>1, <4>3, Aside DEF Takes
        <5> QED BY <1>1, <3>1, <4>3, <5>1, StepFields DEF Mine
      <4> QED BY <4>1, <4>2, <4>3
    <3>3. ASSUME Patient(c)' PROVE ch'[c].buf.count < ch'[c].req
      <4>1. Patient(c)
        BY <3>3, StepHistory DEF Patient
      <4> QED BY <2>1, <3>1, <4>1, UsedStay
    <3> QED BY <3>2, <3>3
  <2>2. CASE c \notin Used
    <3>1. Now.op = "storeActive" /\ Now.on /\ c = Now.ch /\ Preparing(todo)
      BY <1>1, <1>4, <2>2, StepDevice, Fields
    <3>2. ch' = ch
      BY <1>1, <3>1, StepTodo
    <3>3. Void(Mine) /\ "pending" \in Mine.bits /\ Mine.req >= 1
      BY <1>1, <3>1, Relied DEF Prepared, Found
    <3>4. Mine.req \in Nat
      BY <1>1, <3>1, Aside, Numbers DEF Mine
    <3> QED BY <3>1, <3>2, <3>3, <3>4 DEF Void, Mine
  <2> QED BY <2>1, <2>2
<1> QED BY <1>3, <1>4 DEF Flagged

\* The call in progress stays away from the channels in use.
LEMMA ApartStep ==
  ASSUME HInv, Step
  PROVE  Apart'
<1>1. /\ IInv /\ Values /\ Formed(todo) /\ Apart /\ Now \in Steps /\ Len(todo) \in Nat
  BY Aside DEF HInv
<1>2. ASSUME ~Preparing(todo'), NEW i \in 1 .. Len(todo'), todo'[i].op # "wait",
             todo'[i].op \in Takes => Patient(todo'[i].ch)
      PROVE  todo'[i].ch \notin Used'
  <2>1. todo' # <<>>
    <3>1. todo' \in Seq(Steps)
      BY Aside DEF Formed
    <3> QED BY <3>1, NotEmpty
  <2>2. ~Preparing(todo)
    BY <1>1, <1>2, <2>1, StepRest
  <2>3. Used' \subseteq Used
    <3>1. Now.op = "storeActive" => Now.on \in BOOLEAN
      BY <1>1, Fields
    <3> QED BY <1>1, <2>2, <3>1, StepDevice
  <2>4. CASE /\ todo'[i].ch = Now.ch /\ Now.op \in {"setup", "wait", "process", "pick"}
             /\ Now.op = "setup" \/ todo'[i] \in Takings(Now.ch)
             /\ todo'[i].op \in {"copyFresh", "loadBits", "storeBits"} => Now.op = "setup" \/ "fresh" \in Mine.bits
    <3>1. CASE Now.op = "setup" \/ Patient(Now.ch)
      BY <2>3, <2>4, <3>1, Aside DEF Takes
    <3>2. CASE Now.op # "setup" /\ "fresh" \in Mine.bits
      <4>1. Now.ch \notin Used
        BY <1>1, <3>2 DEF IInv, Sampling, Fits, Mine
      <4> QED BY <2>3, <2>4, <4>1
    <3> QED BY <1>2, <2>4, <3>1, <3>2 DEF Takings, Takes
  <2>5. CASE \E k \in 2 .. Len(todo) : todo'[i] = todo[k]
    BY <1>1, <1>2, <2>2, <2>3, <2>5 DEF Apart
  <2>6. \/ /\ todo'[i].ch = Now.ch /\ Now.op \in {"setup", "wait", "process", "pick"}
           /\ Now.op = "setup" \/ todo'[i] \in Takings(Now.ch)
           /\ todo'[i].op \in {"copyFresh", "loadBits", "storeBits"} => Now.op = "setup" \/ "fresh" \in Mine.bits
        \/ \E k \in 2 .. Len(todo) : todo'[i] = todo[k]
    <3> HIDE <1>2
    <3> QED BY <1>1, StepRest
  <2> QED BY <2>4, <2>5, <2>6
<1>3. ~Doing("wait")'
  BY <1>1, CameFrom DEF Doing
<1>4. Doing("storeBits")' => word' = Mine'.bits
  <2> SUFFICES ASSUME todo' # <<>>, Now'.op = "storeBits" PROVE word' = Mine'.bits
    BY DEF Doing
  <2>1. Now.op = "loadBits" /\ Now'.ch = Now.ch
    BY <1>1, CameFrom
  <2>2. word' = Mine.bits /\ ch' = ch
    BY <2>1, Kinds DEF LoadBits
  <2> QED BY <2>1, <2>2 DEF Mine
<1>5. early' = early
  BY StepHistory
<1> QED BY <1>2, <1>3, <1>4, <1>5 DEF Apart, Patient

\* The last step of two lists.
LEMMA CatLast ==
  ASSUME NEW S, NEW s \in Seq(S), NEW t \in Seq(S), t # <<>>
  PROVE  s \o t # <<>> /\ (s \o t)[Len(s \o t)] = t[Len(t)] /\ Len(t) \in 1 .. Len(t)
<1>1. Len(t) \in 1 .. Len(t) /\ Len(s) \in Nat
  OBVIOUS
<1>2. Len(s \o t) = Len(s) + Len(t) /\ (s \o t)[Len(s) + Len(t)] = t[Len(t)]
  BY <1>1, CatFacts
<1>3. Len(s \o t) # 0
  BY <1>1, <1>2
<1> QED BY <1>1, <1>2, <1>3, Len(<<>>) = 0

\* A call that goes on with nothing but what is put before the rest ends with
\* the return of a sample, or asking for one.
LEMMA TakeLast ==
  ASSUME Values, Formed(todo), Step, Now.op \in {"wait", "process"}, Tail(todo) = <<>>, todo' # <<>>
  PROVE  todo'[Len(todo')].op \in {"process", "return"}
<1> DEFINE c == Now.ch
<1>1. c \in Channels /\ Now \in Steps
  BY Kinds, Ahead, Fields
<1>2. CASE Now.op = "wait"
  <2> DEFINE m == IF Now.n = 0 THEN Available(Mine) ELSE Smaller(Now.n, Available(Mine))
             s == [k \in 1 .. m |-> [op |-> "process", ch |-> c]]
  <2>1. todo' = s \o <<>>
    BY <1>2, Kinds DEF Wait, Then
  <2>2. m \in Nat
    <3>1. Now.n \in {0} \union Counts /\ Available(Mine) \in Nat /\ Counts \subseteq Nat
      BY <1>1, <1>2, Fields, Numbers DEF Mine
    <3> QED BY <3>1 DEF Smaller
  <2> HIDE DEF m
  <2>3. [op |-> "process", ch |-> c] \in Steps
    BY <1>1, StepKinds
  <2>4. s \in Seq(Steps) /\ Len(s) = m /\ \A i \in 1 .. m : s[i].op = "process"
    BY <2>2, <2>3
  <2> HIDE DEF s
  <2>5. todo' = s
    BY <2>1, <2>4, NoSteps
  <2>6. s # <<>> => m \in 1 .. m
    BY <2>4
  <2> QED BY <2>4, <2>5, <2>6
<1>3. CASE Now.op = "process"
  <2> DEFINE r == Do("return", c)
             p == Do("pick", c)
             q == Do("smooth", c)
             d == Do("countDown", c)
             f == Finish(c)
  <2>1. todo' = r \o <<>> \/ todo' = (p \o <<>> \o f) \o <<>> \/ todo' = (p \o q \o f) \o <<>>
    BY <1>3, Kinds DEF Process, Then
  <2>2. f = d \o r
    BY DEF Finish
  <2>3. /\ r \in Seq(Steps) /\ p \in Seq(Steps) /\ q \in Seq(Steps) /\ d \in Seq(Steps)
        /\ Len(r) = 1 /\ r[1].op = "return"
    <3>1. r \in Seq(Steps) /\ p \in Seq(Steps) /\ q \in Seq(Steps) /\ d \in Seq(Steps)
      BY <1>1, ListTypes
    <3> QED BY <3>1 DEF Do
  <2> HIDE DEF r, p, q, d, f
  <2>4. r # <<>> /\ r[Len(r)].op = "return"
    <3>1. Len(r) # 0
      BY <2>3
    <3> QED BY <2>3, <3>1, Len(<<>>) = 0
  <2>5. f \in Seq(Steps) /\ f # <<>> /\ f[Len(f)].op = "return"
    BY <2>2, <2>3, <2>4, CatLast, CatFacts
  <2>6. p \o q \in Seq(Steps) /\ p \o <<>> = p
    BY <2>3, CatFacts, NoSteps
  <2> DEFINE x == p \o q
  <2>7. x \in Seq(Steps)
    BY <2>6
  <2> HIDE DEF x
  <2>8. p \o f \in Seq(Steps) /\ (p \o f)[Len(p \o f)].op = "return"
    BY <2>3, <2>5, CatLast, CatFacts
  <2>9. x \o f \in Seq(Steps) /\ (x \o f)[Len(x \o f)].op = "return"
    BY <2>5, <2>7, CatLast, CatFacts
  <2>10. todo' = r \/ todo' = p \o f \/ todo' = x \o f
    BY <2>1, <2>3, <2>6, <2>8, <2>9, NoSteps DEF x
  <2> QED BY <2>4, <2>8, <2>9, <2>10
<1> QED BY <1>2, <1>3

\* No call ends with a sample half taken.
LEMMA EndedStep ==
  ASSUME HInv, Step
  PROVE  Ended'
<1>1. /\ IInv /\ Values /\ Formed(todo) /\ todo # <<>> /\ Ended /\ Now \in Steps /\ Now = todo[1]
      /\ Len(todo) \in Nat \ {0}
  BY Aside DEF HInv
<1> SUFFICES ASSUME todo' # <<>>
             PROVE  /\ todo'[Len(todo')].op \notin {"pick", "copyFresh", "copy", "decrement", "advance", "smooth"}
                    /\ ~Untaken(todo'[Len(todo')])
  BY DEF Ended
<1> DEFINE t == Tail(todo)
<1>2. t \in Seq(Steps) /\ Len(t) = Len(todo) - 1 /\ \A i \in 1 .. Len(todo) - 1 : t[i] = todo[i + 1]
  BY <1>1, Ahead
<1>3. PICK s \in Seq(Steps) :
        /\ todo' = s \o t
        /\ \A i \in 1 .. Len(s) : Now.op \in {"setup", "wait", "process", "pick"}
  <2>1. CASE todo' = <<>>
    BY <2>1
  <2>2. CASE todo' # <<>>
    BY <1>1, <2>2, StepList
  <2> QED BY <2>1, <2>2
<1>4. CASE t # <<>>
  <2>1. todo'[Len(todo')] = t[Len(t)] /\ Len(t) \in 1 .. Len(t)
    BY <1>2, <1>3, <1>4, CatLast
  <2> HIDE DEF t
  <2>2. t[Len(t)] = todo[Len(todo)]
    BY <1>1, <1>2, <2>1
  <2> QED BY <1>1, <2>1, <2>2 DEF Ended
<1>5. CASE t = <<>>
  <2>1. Len(todo) = 1
    <3>1. Len(t) = 0
      BY <1>5, Len(<<>>) = 0
    <3> HIDE DEF t
    <3> QED BY <1>1, <1>2, <3>1
  <2>2. s # <<>> /\ 1 \in 1 .. Len(s)
    <3>1. todo' = s
      BY <1>3, <1>5, NoSteps
    <3> QED BY <3>1
  <2>3. Now.op \in {"setup", "wait", "process", "pick"}
    BY <1>3, <2>2
  <2>4. Now.op # "pick"
    BY <1>1, <2>1 DEF Ended
  <2>5. Now.op # "setup"
    <3>1. Now.op = "setup" => Preparing(todo)
      BY <1>1, Relied
    <3> QED BY <1>1, <2>1, <3>1 DEF Preparing
  <2>6. todo'[Len(todo')].op \in {"process", "return"}
    BY <1>1, <1>5, <2>3, <2>4, <2>5, TakeLast
  <2> QED BY <2>6 DEF Untaken
<1> QED BY <1>4, <1>5

\* No call mixes changing settings with sampling or taking samples.
LEMMA UnmixedStep ==
  ASSUME HInv, Step
  PROVE  Unmixed'
<1>1. /\ Values /\ Formed(todo) /\ Unmixed /\ Now \in Steps /\ Now = todo[1] /\ Len(todo) \in Nat \ {0}
  BY Aside DEF HInv
<1>2. ASSUME NEW i \in 1 .. Len(todo')
      PROVE  \/ /\ Now.op \in {"setup", "wait", "process", "pick"}
                /\ todo'[i].op \notin {"resmooth", "unsmooth"}
             \/ \E k \in 2 .. Len(todo) : todo'[i] = todo[k]
  <2>1. \/ \/ Now.op = "setup" /\ todo'[i] \in Preparations
           \/ Now.op \in {"wait", "process", "pick"} /\ todo'[i] \in Takings(Now.ch)
        \/ \E k \in 2 .. Len(todo) : todo'[i] = todo[k]
    BY <1>1, StepRest
  <2> QED BY <2>1 DEF Preparations, Takings
<1> SUFFICES ASSUME NEW i \in 1 .. Len(todo'), NEW j \in 1 .. Len(todo'), todo'[i].op \in {"resmooth", "unsmooth"}
             PROVE  todo'[j].op \notin {"setup", "wait", "process", "pick"} /\ ~Untaken(todo'[j])
  BY DEF Unmixed
<1>3. PICK k \in 2 .. Len(todo) : todo'[i] = todo[k]
  BY <1>2
<1>4. k \in 1 .. Len(todo) /\ todo[k].op \in {"resmooth", "unsmooth"} /\ 1 \in 1 .. Len(todo)
  BY <1>1, <1>3
<1>5. Now.op \notin {"setup", "wait", "process", "pick"}
  BY <1>1, <1>4 DEF Unmixed
<1>6. PICK l \in 2 .. Len(todo) : todo'[j] = todo[l]
  BY <1>2, <1>5
<1> QED BY <1>1, <1>4, <1>6 DEF Unmixed

\* Where the copy of a fresh sample comes from.
LEMMA FreshFrom ==
  ASSUME HInv, Step, todo' # <<>>, Now'.op = "copyFresh"
  PROVE  Now.op = "pick" /\ "fresh" \in Mine.bits /\ Now'.ch = Now.ch
<1>1. /\ IInv /\ Values /\ Formed(todo) /\ todo # <<>> /\ Now \in Steps
      /\ (\A c \in Channels : Available(ch[c]) \in Nat) /\ Counts \subseteq Nat
  <2>1. IInv /\ Values /\ Formed(todo) /\ todo # <<>> /\ Now \in Steps
    BY Aside DEF HInv
  <2> QED BY <2>1, Numbers
<1>2. Now' = todo'[1] /\ Now' \in Steps /\ Now'.ch = Now.ch
  BY <1>1, CameFrom
<1>3. todo' # Tail(todo)
  <2> SUFFICES ASSUME todo' = Tail(todo) PROVE FALSE
    OBVIOUS
  <2>1. Leads(Now, Now')
    BY <1>1, <1>2, Ahead
  <2> QED BY <1>1, <1>2, <2>1, LedTo
<1>4. Now.op # "setup"
  <2>1. Now.op = "setup" => todo'[1].op \in {"request", "size"}
    BY <1>1, Kinds, SetupLists
  <2> QED BY <1>2, <2>1
<1>5. Now.op \notin {"wait", "process"}
  <2>1. /\ Now.op = "wait" => todo'[1].op = "process"
        /\ Now.op = "process" => \/ todo'[1] = [op |-> "return", ch |-> Now.ch]
                                 \/ todo'[1] = [op |-> "pick", ch |-> Now.ch]
    BY <1>1, TakeFirst
  <2> QED BY <1>2, <2>1
<1>6. Now.op = "pick"
  BY <1>1, <1>3, <1>4, <1>5, StepTodo
<1>7. "fresh" \in Mine.bits
  <2>1. \/ "fresh" \in Mine.bits
        \/ todo'[1] = [op |-> "copy", ch |-> Now.ch]
        \/ todo' = Tail(todo)
    BY <1>1, <1>6, TakeFirst
  <2> QED BY <1>2, <1>3, <2>1
<1> QED BY <1>2, <1>6, <1>7

\* What a step leaves to the next: the second step of what is left.
LEMMA Second ==
  ASSUME Formed(todo), todo # <<>>, todo' = Tail(todo), todo' # <<>>
  PROVE  /\ Now' = todo[2] /\ 2 \in 1 .. Len(todo) /\ Len(todo) > 1
         /\ Len(todo') > 1 => todo'[2] = todo[3] /\ 3 \in 1 .. Len(todo)
<1>1. /\ Len(todo) \in Nat \ {0} /\ todo' \in Seq(Steps) /\ Len(todo') = Len(todo) - 1
      /\ \A i \in 1 .. Len(todo) - 1 : todo'[i] = todo[i + 1]
  BY Ahead
<1>2. Now' = todo'[1] /\ Len(todo') \in Nat \ {0}
  BY <1>1, TailFacts DEF Now
<1>3. 1 \in 1 .. Len(todo) - 1 /\ 1 + 1 = 2 /\ 2 \in 1 .. Len(todo) /\ Len(todo) > 1
  BY ONLY <1>1, <1>2
<1>4. Len(todo') > 1 => 2 \in 1 .. Len(todo) - 1 /\ 2 + 1 = 3 /\ 3 \in 1 .. Len(todo)
  BY ONLY <1>1, <1>2
<1> QED BY <1>1, <1>2, <1>3, <1>4

\* A step establishes what the next ones are to find.
LEMMA FoundStep ==
  ASSUME HInv, Step
  PROVE  Found'
<1>1. /\ IInv /\ Values /\ Formed(todo) /\ todo # <<>> /\ Now \in Steps /\ Now = todo[1] /\ Found /\ Unmixed
      /\ Len(todo) \in Nat \ {0} /\ Prepared /\ Taken
  BY Aside DEF HInv, IInv
<1>2. Doing("pick")' => Available(Mine)' # 0
  <2> SUFFICES ASSUME todo' # <<>>, Now'.op = "pick" PROVE Available(Mine)' # 0
    BY DEF Doing
  <2>1. Now.op = "process" /\ Available(Mine) # 0 /\ Now'.ch = Now.ch
    BY <1>1, CameFrom
  <2>2. ch' = ch
    BY <1>1, <2>1, StepTodo
  <2>3. Mine' = Mine
    BY <2>1, <2>2 DEF Mine
  <2> QED BY <2>1, <2>3 DEF Available
<1>3. Doing("copyFresh")' => "fresh" \in Mine'.bits
  <2> SUFFICES ASSUME todo' # <<>>, Now'.op = "copyFresh" PROVE "fresh" \in Mine'.bits
    BY DEF Doing
  <2>1. Now.op = "pick" /\ "fresh" \in Mine.bits /\ Now'.ch = Now.ch
    BY FreshFrom
  <2>2. ch' = ch
    BY <1>1, <2>1, StepTodo
  <2> QED BY <2>1, <2>2 DEF Mine
<1>4. Doing("loadBits")' /\ Len(todo') > 1 /\ Untaken(todo'[2]) => "fresh" \in Mine'.bits
  <2> SUFFICES ASSUME todo' # <<>>, Now'.op = "loadBits", Len(todo') > 1, Untaken(todo'[2])
               PROVE  "fresh" \in Mine'.bits
    BY DEF Doing
  <2>1. Now.op \in {"request", "unsmooth", "copyFresh"} /\ Now'.ch = Now.ch /\ todo' = Tail(todo)
    BY <1>1, CameFrom
  <2>2. todo'[2] = todo[3] /\ 3 \in 1 .. Len(todo) /\ 1 \in 1 .. Len(todo)
    BY <1>1, <2>1, Second
  <2>3. Now.op # "request"
    <3> SUFFICES ASSUME Now.op = "request" PROVE FALSE
      OBVIOUS
    <3>1. Preparing(todo)
      BY <1>1, Relied
    <3>2. todo[3] \in Preparations
      BY <1>1, <2>2, <3>1 DEF Prepared, Untaken
    <3> QED BY <2>2, <3>2 DEF Preparations, Untaken
  <2>4. Now.op # "unsmooth"
    BY <1>1, <2>2 DEF Unmixed
  <2>5. "fresh" \in Mine.bits
    BY <1>1, <2>1, <2>3, <2>4 DEF Found, Doing
  <2>6. ch' = ch
    BY <1>1, <2>1, <2>3, <2>4, StepTodo
  <2> QED BY <2>1, <2>5, <2>6 DEF Mine
<1>5. Doing("storeBits")' /\ Untaken(Now)' => "fresh" \in Mine'.bits
  <2> SUFFICES ASSUME todo' # <<>>, Now'.op = "storeBits", Untaken(Now') PROVE "fresh" \in Mine'.bits
    BY DEF Doing, Untaken
  <2>1. Now.op = "loadBits" /\ Now'.ch = Now.ch /\ todo' = Tail(todo)
    BY <1>1, CameFrom
  <2>2. Now' = todo[2] /\ Len(todo) > 1
    BY <1>1, <2>1, Second
  <2>3. "fresh" \in Mine.bits
    BY <1>1, <2>1, <2>2 DEF Found, Doing
  <2>4. ch' = ch
    BY <1>1, <2>1, StepTodo
  <2> QED BY <2>1, <2>3, <2>4 DEF Mine
<1>6. ASSUME NEW i \in 1 .. Len(todo'), todo'[i].op = "count0"
      PROVE  ch'[todo'[i].ch].buf.count = 0
  <2>1. \/ Now.op = "setup" /\ todo'[i].ch = Now.ch
        \/ \E k \in 2 .. Len(todo) : todo'[i] = todo[k]
    <3>1. \/ /\ todo'[i].ch = Now.ch
             /\ \/ Now.op = "setup" /\ todo'[i] \in Preparations
                \/ Now.op \in {"wait", "process", "pick"} /\ todo'[i] \in Takings(Now.ch)
          \/ \E k \in 2 .. Len(todo) : todo'[i] = todo[k]
      BY <1>1, StepRest
    <3> QED BY <1>6, <3>1 DEF Takings
  <2>2. CASE Now.op = "setup" /\ todo'[i].ch = Now.ch
    <3>1. Void(Mine)
      BY <1>1, <2>2, Relied
    <3>2. ch' = ch
      BY <1>1, <2>2, StepTodo
    <3> QED BY <2>2, <3>1, <3>2 DEF Void, Mine
  <2>3. CASE \E k \in 2 .. Len(todo) : todo'[i] = todo[k]
    <3>1. PICK k \in 2 .. Len(todo) : todo'[i] = todo[k]
      BY <2>3
    <3>2. k \in 1 .. Len(todo) /\ todo[k] \in Steps
      BY <1>1, <3>1, Relied
    <3> DEFINE c == todo[k].ch
    <3>3. ch[c].buf.count = 0 /\ c \in Channels
      BY <1>1, <1>6, <3>1, <3>2, Fields DEF Found
    <3>4. ch'[c].buf.count = 0
      <4>1. CASE Now.op = "start"
        BY <1>1, <3>3, <4>1, StepStart
      <4>2. CASE Now.op # "start" /\ c # Now.ch
        <5>1. ch'[c] = ch[c]
          BY <1>1, <3>3, <4>2, StepChannel
        <5> QED BY <3>3, <5>1
      <4>3. CASE Now.op # "start" /\ c = Now.ch
        <5>1. Now.op # "decrement"
          <6>1. Doing("decrement") => Mine.buf.count >= 1
            BY <1>1 DEF Taken
          <6> QED BY <1>1, <3>3, <4>3, <6>1 DEF Doing, Mine
        <5>2. Mine.buf.count = 0
          BY <3>3, <4>3 DEF Mine
        <5> HIDE DEF c
        <5>3. ch'[Now.ch].buf.count = 0
          BY <1>1, <4>3, <5>1, <5>2, StepFields
        <5> QED BY <4>3, <5>3
      <4> QED BY <4>1, <4>2, <4>3
    <3> QED BY <3>1, <3>4
  <2> QED BY <2>1, <2>2, <2>3
<1>7. Preparing(todo') /\ Now'.op \in {"loadBits", "storeBits", "loadActive", "storeActive"} => Mine'.req >= 1
  <2> SUFFICES ASSUME Preparing(todo'), Now'.op \in {"loadBits", "storeBits", "loadActive", "storeActive"}
               PROVE  Mine'.req >= 1
    OBVIOUS
  <2>1. todo' # <<>> /\ Preparing(todo)
    BY <1>1, StepRest DEF Preparing
  <2>2. /\ Now'.op = "loadBits" => Now.op \in {"request", "unsmooth", "copyFresh"}
        /\ Now'.op = "storeBits" => Now.op = "loadBits"
        /\ Now'.op = "loadActive" => Now.op = "storeBits"
        /\ Now'.op = "storeActive" => Now.op = "loadActive"
        /\ Now'.ch = Now.ch /\ Now'.ch \in Channels /\ Now.op # "start"
    BY <1>1, <2>1, CameFrom
  <2>3. Now \in Preparations
    BY <1>1, <2>1, <2>2, Relied
  <2>4. Now.op \in {"request", "loadBits", "storeBits", "loadActive"}
    BY <2>2, <2>3 DEF Preparations
  <2>5. CASE Now.op = "request"
    <3>1. ch'[Now.ch].req = Now.n
      BY <1>1, <2>5, StepFields
    <3>2. Now.n \in Nat \ {0}
      BY <1>1, <2>5, Numbers, Fields
    <3> QED BY <2>2, <3>1, <3>2 DEF Mine
  <2>6. CASE Now.op \in {"loadBits", "storeBits", "loadActive"}
    <3>1. Mine.req >= 1
      BY <1>1, <2>1, <2>6 DEF Found
    <3>2. ch'[Now.ch].req = Mine.req
      BY <1>1, <2>6, StepFields
    <3> QED BY <2>2, <3>1, <3>2 DEF Mine
  <2> QED BY <2>4, <2>5, <2>6
<1> QED BY <1>2, <1>3, <1>4, <1>5, <1>6, <1>7 DEF Found

\* A call does not end with one of these steps.
LEMMA GoesOn ==
  ASSUME HInv, Step, Now.op # "start", todo' = Tail(todo),
         Preparing(todo) \/ Now.op \in {"decrement", "advance", "smooth"} \/ Untaken(Now)
  PROVE  todo' # <<>> /\ Leads(Now, Now') /\ (Preparing(todo') <=> Preparing(todo))
<1>1. /\ Formed(todo) /\ todo # <<>> /\ Ended /\ Now = todo[1] /\ Len(todo) \in Nat \ {0}
      /\ todo' \in Seq(Steps) /\ Len(todo') = Len(todo) - 1
  BY Aside, Ahead DEF HInv
<1>2. Len(todo) # 1
  BY <1>1 DEF Ended, Preparing
<1>3. todo' # <<>>
  <2>1. Len(todo') # 0
    BY <1>1, <1>2
  <2> QED BY <2>1, Len(<<>>) = 0
<1>4. Now' = todo'[1]
  BY <1>1, <1>3, TailFacts DEF Now
<1> QED BY <1>1, <1>3, <1>4, Ahead

\* Picking a fresh sample copies it.
LEMMA PickFresh ==
  ASSUME HInv, Step, Now.op = "pick", "fresh" \in Mine.bits
  PROVE  todo'[1].op = "copyFresh"
<1> DEFINE c == Now.ch
           t == Tail(todo)
<1>1. Formed(todo) /\ todo # <<>> /\ Now \in Steps /\ c \in Channels /\ t \in Seq(Steps)
  BY Aside, Ahead, Fields
<1>2. todo' = TakeFresh(c) \o t
  BY Kinds DEF Pick, Then
<1>3. TakeFresh(c) \in Seq(Steps)
  <2>1. TakeFresh(c) \in Seq(Takings(c)) /\ Takings(c) \subseteq Steps
    BY <1>1, TakeTypes
  <2> QED BY <2>1
<1>4. Len(TakeFresh(c)) > 0 /\ TakeFresh(c)[1].op = "copyFresh"
  BY DEF TakeFresh, SetBit, Do
<1> HIDE DEF c, t
<1> QED BY <1>1, <1>2, <1>3, <1>4, CatFirst

\* A channel whose samples and request stay the same.
LEMMA EvenSame ==
  ASSUME NEW s, NEW u, NEW a, NEW t, NEW b, NEW v, Even(s, a, t),
         "fresh" \in u.bits <=> "fresh" \in s.bits, "pending" \in u.bits <=> "pending" \in s.bits,
         u.buf.count = s.buf.count, u.req = s.req, "pending" \in s.bits \/ (v <=> t), "pending" \in s.bits \/ ~a \/ b
  PROVE  Even(u, b, v)
  BY DEF Even, Available

\* A channel the step does not concern, or one in use.
LEMMA EvenApart ==
  ASSUME HInv, Step, NEW c \in Channels, Patient(c), c \in Used \/ Now.op = "start" \/ c # Now.ch
  PROVE  Even(ch[c], Asking(c), Taking(c))'
<1>1. /\ IInv /\ Values /\ Formed(todo) /\ todo # <<>> /\ Flagged /\ Sampling /\ Now \in Steps
      /\ Even(ch[c], Asking(c), Taking(c))
  BY Aside DEF HInv, IInv, Balanced
<1>2. CASE c \in Used
  <2>1. "pending" \in ch[c].bits /\ "fresh" \notin ch[c].bits
    BY <1>1, <1>2 DEF Flagged, Sampling, Fits
  <2>2. ch'[c].bits \in {ch[c].bits, ch[c].bits \ {"fresh"}}
    BY <1>2, UsedStay
  <2> QED BY <2>1, <2>2 DEF Even
<1>3. CASE c \notin Used
  <2>1. ~Asking(c) /\ ~Taking(c)
    BY <1>3 DEF Asking, Taking, At, Doing
  <2>2. ch'[c] = ch[c]
    <3>1. CASE Now.op = "start"
      BY <1>1, <1>3, <3>1, StepStart DEF Used
    <3>2. CASE Now.op # "start"
      BY <1>1, <1>3, <3>2, StepChannel
    <3> QED BY <3>1, <3>2
  <2>3. ~Taking(c)'
    <3> SUFFICES ASSUME todo' # <<>>, Now'.op \in {"advance", "smooth", "countDown"}, Now'.ch = c PROVE FALSE
      BY DEF Taking, At, Doing
    <3>1. Now.op # "start" /\ Now'.ch = Now.ch
      BY <1>1, CameFrom
    <3> QED BY <1>3, <3>1
  <2> QED BY <1>1, <2>1, <2>2, <2>3 DEF Even, Available
<1> QED BY <1>2, <1>3

\* Changing the flags of the channel of the call.
LEMMA EvenStore ==
  ASSUME HInv, Step, NEW c \in Channels, Patient(c), c = Now.ch, Now.op = "storeBits"
  PROVE  Even(ch'[c], Asking(c)', Taking(c)')
<1> DEFINE u == ch'[c]
<1>1. /\ IInv /\ Values /\ Formed(todo) /\ todo # <<>> /\ Flagged /\ Apart /\ Found /\ Now \in Steps
      /\ c \in Channels /\ c \notin Used /\ Even(Mine, Asking(c), Taking(c)) /\ todo' = Tail(todo)
  BY Aside, StepTodo DEF HInv, Balanced, Mine
<1>2. u.bits = (IF Now.on THEN Mine.bits \union {Now.bit} ELSE Mine.bits \ {Now.bit})
      /\ u.buf.count = Mine.buf.count /\ u.req = Mine.req
  BY <1>1, StepFields DEF Apart, Doing
<1>3. ~Taking(c)
  BY DEF Taking, At, Doing
<1>4. Now.bit # "fresh" => ~Taking(c)'
  <2> SUFFICES ASSUME Now.bit # "fresh", todo' # <<>>, Now'.op \in {"advance", "smooth", "countDown"} PROVE FALSE
    BY DEF Taking, At, Doing
  <2> QED BY <1>1, CameFrom
<1>5. Preparing(todo) => Now.bit = "pending" /\ Now.on
  <2>1. Preparing(todo) => Now \in Preparations /\ \A i \in 1 .. Len(todo) : todo[i].op # "disable"
    BY <1>1, Relied
  <2>2. Now.bit = "pending" /\ ~Now.on => \E j \in 2 .. Len(todo) : todo[j].op = "disable"
    BY <1>1, Relied
  <2>3. Len(todo) \in Nat
    BY Aside
  <2> QED BY <2>1, <2>2, <2>3 DEF Preparations
<1>6. CASE Now.bit = "pending" /\ Now.on
  <2>1. "pending" \in u.bits /\ ("fresh" \in u.bits <=> "fresh" \in Mine.bits)
    BY <1>2, <1>6
  <2> HIDE DEF u
  <2> QED BY <1>1, <1>2, <2>1 DEF Even, u
<1>7. CASE Now.bit = "pending" /\ ~Now.on
  <2>1. "pending" \notin Mine.bits
    BY <1>1 DEF Flagged, Mine, Used, At, Doing
  <2>2. ~Asking(c)
    BY <1>5, <1>7 DEF Asking
  <2>3. /\ "fresh" \in u.bits <=> "fresh" \in Mine.bits
        /\ "pending" \in u.bits <=> "pending" \in Mine.bits
    BY <1>2, <1>7, <2>1
  <2> HIDE DEF u
  <2>4. Even(u, Asking(c)', Taking(c)')
    BY ONLY <1>1, <1>2, <1>3, <1>4, <1>7, <2>2, <2>3, EvenSame
  <2> QED BY <2>4 DEF u
<1>8. CASE Now.bit \in {"blocking", "ready"}
  <2>1. ~Asking(c)
    BY <1>5, <1>8 DEF Asking
  <2>2. /\ "fresh" \in u.bits <=> "fresh" \in Mine.bits
        /\ "pending" \in u.bits <=> "pending" \in Mine.bits
    BY <1>2, <1>8
  <2> HIDE DEF u
  <2>3. Even(u, Asking(c)', Taking(c)')
    BY ONLY <1>1, <1>2, <1>3, <1>4, <1>8, <2>1, <2>2, EvenSame
  <2> QED BY <2>3 DEF u
<1>9. CASE Now.bit = "fresh"
  <2>1. "fresh" \in Mine.bits /\ ~Now.on
    BY <1>1, <1>9, Fields DEF Found, Doing, Untaken
  <2>2. ~Asking(c)
    BY <1>5, <1>9 DEF Asking
  <2>3. "fresh" \notin u.bits /\ ("pending" \in u.bits <=> "pending" \in Mine.bits)
    BY <1>2, <1>9, <2>1
  <2>4. Taking(c)'
    <3>1. todo' # <<>> /\ Leads(Now, Now')
      BY <1>1, <1>9, GoesOn DEF Untaken
    <3>2. Now'.op \in {"smooth", "countDown"} /\ Now'.ch = c
      BY <1>9, <3>1 DEF Leads
    <3> QED BY <3>1, <3>2 DEF Taking, At, Doing
  <2>5. Mine.buf.count = 0 /\ ("pending" \notin Mine.bits => Mine.req = 1)
    BY <1>1, <1>3, <2>1, <2>2 DEF Even, Available
  <2> HIDE DEF u
  <2>6. Even(u, Asking(c)', Taking(c)')
    BY ONLY <1>2, <2>3, <2>4, <2>5 DEF Even, Available
  <2> QED BY <2>6 DEF u
<1> QED BY <1>1, <1>6, <1>7, <1>8, <1>9, Fields DEF Bits

\* Any other step of the channel of the call.
LEMMA EvenMine ==
  ASSUME HInv, Step, NEW c \in Channels, Patient(c), c = Now.ch, Now.op \notin {"start", "storeBits"}
  PROVE  Even(ch'[c], Asking(c)', Taking(c)')
<1> DEFINE u == ch'[c]
           a == Asking(c)
           t == Taking(c)
<1>1. /\ IInv /\ Values /\ Formed(todo) /\ todo # <<>> /\ Flagged /\ Apart /\ Found /\ Shaped /\ Taken /\ Now \in Steps
      /\ Now = todo[1] /\ 1 \in 1 .. Len(todo) /\ c \in Channels /\ c \notin Used /\ Even(Mine, a, t)
  BY Aside, Ahead DEF HInv, IInv, Balanced, Mine
<1>2. Mine.buf.count \in Nat /\ Mine.req \in Nat /\ Mine.buf.size \in Nat /\ Mine.buf.count <= Mine.buf.size
  BY <1>1, Numbers DEF Mine, Shaped, Shape
<1>3. /\ "fresh" \in u.bits <=> "fresh" \in Mine.bits
      /\ "pending" \in u.bits <=> "pending" \in Mine.bits
      /\ Now.op \notin {"realloc", "count0", "decrement"} => u.buf.count = Mine.buf.count
      /\ Now.op \notin {"request", "countDown"} => u.req = Mine.req
  BY <1>1, StepFields
<1>4. Preparing(todo) => Now \in Preparations /\ Void(Mine)
  BY <1>1, Relied
<1>5. a => Now.op = "loadBits" /\ Preparing(todo)
  BY DEF Asking, At, Doing
<1>6. t => Now.op \in {"advance", "smooth", "countDown"}
  BY DEF Taking, At, Doing
<1>7. t' /\ Now.op \notin {"decrement", "advance", "smooth"} => Now.op = "pick" /\ BufEmpty(Mine.buf)
  <2> SUFFICES ASSUME todo' # <<>>, Now'.op \in {"advance", "smooth", "countDown"},
                      Now.op \notin {"decrement", "advance", "smooth"}
               PROVE  Now.op = "pick" /\ BufEmpty(Mine.buf)
    BY DEF Taking, At, Doing
  <2> QED BY <1>1, CameFrom
<1> HIDE DEF u, a, t
<1>8. CASE Now.op \in {"loadActive", "storeActive", "setup", "disable", "idle", "wait", "process", "return",
                      "copyFresh", "copy", "size", "wptr0", "rptr0", "resmooth", "unsmooth"}
  BY <1>1, <1>3, <1>5, <1>6, <1>7, <1>8, EvenSame DEF u, a, t
<1>9. CASE Now.op = "loadBits"
  <2>1. Preparing(todo) => a'
    <3> SUFFICES ASSUME Preparing(todo) PROVE a'
      OBVIOUS
    <3>1. todo' = Tail(todo)
      BY <1>1, <1>9, StepTodo
    <3>2. todo' # <<>> /\ Leads(Now, Now') /\ Preparing(todo')
      BY <1>9, <3>1, GoesOn
    <3>3. Now'.op = "storeBits" /\ Now'.ch = c
      BY <1>9, <3>2 DEF Leads
    <3> QED BY <3>2, <3>3 DEF a, Asking, At, Doing
  <2> QED BY <1>1, <1>3, <1>5, <1>6, <1>7, <1>9, <2>1, EvenSame DEF u, a, t
<1>10. CASE Now.op = "pick"
  <2>1. ~t'
    <3> SUFFICES ASSUME BufEmpty(Mine.buf), t' PROVE FALSE
      BY <1>7, <1>10
    <3>1. Mine.buf.count = 0
      BY <1>2 DEF BufEmpty
    <3>2. "fresh" \in Mine.bits
      <4>1. Available(Mine) # 0
        BY <1>1, <1>10 DEF Found, Doing
      <4> QED BY <3>1, <4>1 DEF Available
    <3>3. todo'[1].op = "copyFresh"
      BY <1>10, <3>2, PickFresh
    <3>4. Now'.op \in {"advance", "smooth", "countDown"} /\ todo' # <<>>
      BY DEF t, Taking, At, Doing
    <3>5. Now' = todo'[1]
      BY <1>1, <3>4, CameFrom
    <3> QED BY <3>3, <3>4, <3>5
  <2> QED BY <1>1, <1>3, <1>5, <1>6, <1>10, <2>1, EvenSame DEF u, a, t
<1>11. CASE Now.op \in {"realloc", "count0"}
  <2>1. Mine.buf.count = 0
    <3>1. CASE Now.op = "realloc"
      <4>1. Preparing(todo)
        BY <1>1, <3>1, Relied
      <4> QED BY <1>4, <4>1 DEF Void
    <3>2. CASE Now.op = "count0"
      BY <1>1, <3>2 DEF Found, Mine
    <3> QED BY <1>11, <3>1, <3>2
  <2>2. u.buf.count = 0
    BY <1>1, <1>11, <2>1, StepFields DEF u
  <2> QED BY <1>1, <1>3, <1>5, <1>6, <1>7, <1>11, <2>1, <2>2, EvenSame DEF u, a, t
<1>12. CASE Now.op = "request"
  <2>1. Preparing(todo)
    BY <1>1, <1>12, Relied
  <2>2. todo' = Tail(todo)
    BY <1>1, <1>12, StepTodo
  <2>3. todo' # <<>> /\ Leads(Now, Now') /\ Preparing(todo')
    BY <1>12, <2>1, <2>2, GoesOn
  <2>4. Now'.op = "loadBits" /\ Now'.ch = c
    BY <1>12, <2>3 DEF Leads
  <2>5. a'
    BY <2>3, <2>4 DEF a, Asking, At, Doing
  <2> QED BY <1>1, <1>3, <1>12, <2>5 DEF Even, u, a
<1>13. CASE Now.op \in {"decrement", "advance", "smooth"}
  <2>1. todo' = Tail(todo)
    BY <1>1, <1>13, StepTodo
  <2>2. todo' # <<>> /\ Leads(Now, Now')
    BY <1>13, <2>1, GoesOn
  <2>3. Now'.op \in {"advance", "smooth", "countDown"} /\ Now'.ch = c
    BY <1>13, <2>2 DEF Leads
  <2>4. t'
    BY <2>2, <2>3 DEF t, Taking, At, Doing
  <2>5. CASE Now.op = "decrement"
    <3>1. Mine.buf.count >= 1
      BY <1>1, <2>5 DEF Taken, Doing
    <3>2. "fresh" \notin Mine.bits
      BY <1>1, <1>2, <3>1 DEF Even
    <3>3. u.buf.count = Mine.buf.count - 1
      BY <1>1, <2>5, StepFields DEF u
    <3>4. "pending" \notin Mine.bits => Mine.req = Mine.buf.count
      BY <1>1, <1>2, <1>5, <1>6, <2>5, <3>2 DEF Even, Available
    <3>5. u.req = Mine.req
      BY <1>3, <2>5
    <3>6. Available(u) = u.buf.count /\ "fresh" \notin u.bits
      BY <1>3, <3>2 DEF Available
    <3>7. "pending" \notin u.bits => u.req = Available(u) + 1
      BY ONLY <1>2, <1>3, <3>3, <3>4, <3>5, <3>6
    <3>8. Even(u, a', t')
      BY ONLY <2>4, <3>6, <3>7 DEF Even
    <3> QED BY <3>8 DEF u, a, t
  <2>6. CASE Now.op \in {"advance", "smooth"}
    <3>1. t
      BY <1>1, <2>6 DEF t, Taking, At, Doing
    <3>2. Even(u, a', t')
      BY <1>1, <1>3, <1>5, <2>4, <2>6, <3>1, EvenSame
    <3> QED BY <3>2 DEF u, a, t
  <2> QED BY <1>13, <2>5, <2>6
<1>14. CASE Now.op = "countDown"
  <2>1. t /\ ~a /\ ~t'
    BY <1>1, <1>5, <1>7, <1>14 DEF t, Taking, At, Doing
  <2>2. "pending" \notin Mine.bits => Mine.req = Available(Mine) + 1
    BY <1>1, <2>1 DEF Even
  <2>3. Available(u) = Available(Mine) /\ Available(u) \in Nat
    BY <1>2, <1>3, <1>14 DEF Available
  <2>4. u.req = IF Mine.req > 0 THEN Mine.req - 1 ELSE 0
    BY <1>1, <1>14, StepFields DEF u
  <2>5. "pending" \notin u.bits => u.req = Available(u)
    BY ONLY <1>2, <1>3, <2>2, <2>3, <2>4
  <2>6. "fresh" \in u.bits => u.buf.count = 0
    BY <1>1, <1>3, <1>14 DEF Even
  <2>7. u.req \in Nat
    BY ONLY <1>2, <2>4
  <2>8. Even(u, a', t')
    BY ONLY <2>1, <2>3, <2>5, <2>6 DEF Even
  <2> QED BY <2>8 DEF u, a, t
<1> QED BY <1>8, <1>9, <1>10, <1>11, <1>12, <1>13, <1>14, Kinds

\* Samples and requests are in balance after a step.
LEMMA BalancedStep ==
  ASSUME HInv, Step
  PROVE  Balanced'
<1> SUFFICES ASSUME NEW c \in Channels, Patient(c) PROVE Even(ch[c], Asking(c), Taking(c))'
  BY StepHistory DEF Balanced, Patient
<1>1. CASE c \in Used \/ Now.op = "start" \/ c # Now.ch
  BY <1>1, EvenApart
<1>2. CASE Now.op \notin {"start", "storeBits"} /\ c = Now.ch
  BY <1>2, EvenMine
<1>3. CASE Now.op = "storeBits" /\ c = Now.ch
  BY <1>3, EvenStore
<1> QED BY <1>1, <1>2, <1>3

\* The steps keep the invariant.
LEMMA HStepKeeps ==
  ASSUME HInv, Step
  PROVE  HInv'
BY StepKeeps, FlaggedStep, ApartStep, EndedStep, UnmixedStep, FoundStep, BalancedStep DEF HInv

\* A sample stored in a channel that still has to get some: at the last of them
\* the channel holds what was asked for.
LEMMA StoredEven ==
  ASSUME NEW s \in Channel, NEW v \in 0 .. MaxSamples, Fits(s), Sound(s.buf), s.idx <= s.len,
         s.buf.count < s.req, NEW f, f = Sampled(s, v)
  PROVE  /\ f \in Channel /\ f.req = s.req
         /\ "blocking" \in s.bits => "blocking" \in f.bits
         /\ "pending" \in f.bits <=> "pending" \in s.bits
         /\ "fresh" \in f.bits => f.buf.count = 0
         /\ HasEnough(f) => Available(f) = f.req
         /\ ~HasEnough(f) => "fresh" \notin f.bits /\ f.buf.count < f.req
<1> DEFINE g == Stored(s, v)
<1>1. /\ f \in Channel /\ f.req = s.req /\ ("pending" \in f.bits <=> "pending" \in s.bits)
      /\ ~HasEnough(f) => "fresh" \notin f.bits /\ f.buf.count < f.req
  BY StoredTyped DEF Sampled
<1>2. /\ s.buf \in Buffer /\ s.bits \subseteq Bits /\ s.req \in Nat /\ s.buf.count \in Nat
      /\ "fresh" \notin s.bits /\ (s.req > 1 => s.buf.count < s.buf.size)
  BY RoomFacts
<1>3. CASE Warming(s)
  <2> DEFINE r == [s EXCEPT !.bits = @ \ {"fresh"}]
  <2>1. r \in Channel /\ r = s
    <3>1. s.bits \ {"fresh"} = s.bits
      BY <1>2
    <3> QED BY <3>1 DEF Channel
  <2>2. g = SmoothData(s, v)
    BY <1>3, <2>1 DEF Stored
  <2> HIDE DEF g, r
  <2>3. g \in Channel /\ g.buf = s.buf /\ g.bits \in {s.bits, s.bits \union {"ready"}}
    BY <2>2, SmoothTyped
  <2>4. f.buf = g.buf /\ f.bits = g.bits
    BY <2>3 DEF Sampled, g, Channel
  <2>5. "fresh" \notin f.bits /\ f.buf.count = s.buf.count /\ ("blocking" \in s.bits => "blocking" \in f.bits)
    BY <1>2, <2>3, <2>4
  <2>6. Available(f) = s.buf.count
    BY <2>5 DEF Available
  <2>7. ~HasEnough(f)
    BY <1>1, <1>2, <2>6 DEF HasEnough
  <2> QED BY <1>1, <2>5, <2>7
<1>4. CASE ~Warming(s) /\ s.req > 1
  <2> DEFINE w == BufWrite(s.buf, v)
  <2>1. w \in Buffer /\ w.count = s.buf.count + 1
    BY <1>2, <1>4, WriteTyped
  <2>2. g = [s EXCEPT !.buf = w, !.bits = s.bits \ {"fresh"}]
    BY <1>4 DEF Stored
  <2> HIDE DEF g, w
  <2>3. g.buf = w /\ g.bits = s.bits \ {"fresh"} /\ g \in Channel
    BY <1>2, <2>1, <2>2 DEF Channel
  <2>4. f.buf = g.buf /\ f.bits = g.bits
    BY <2>3 DEF Sampled, g, Channel
  <2>5. "fresh" \notin f.bits /\ f.buf.count = s.buf.count + 1 /\ ("blocking" \in s.bits => "blocking" \in f.bits)
    BY <2>1, <2>3, <2>4
  <2>6. Available(f) = s.buf.count + 1
    BY <2>5 DEF Available
  <2>7. HasEnough(f) => Available(f) = f.req
    BY <1>1, <1>2, <2>6 DEF HasEnough
  <2> QED BY <1>1, <2>5, <2>7
<1>5. CASE ~Warming(s) /\ ~(s.req > 1)
  <2>1. g = [s EXCEPT !.bits = s.bits \union {"fresh"}]
    BY <1>5 DEF Stored
  <2> HIDE DEF g
  <2>2. g.buf = s.buf /\ g.bits = s.bits \union {"fresh"} /\ g \in Channel
    BY <1>2, <2>1 DEF Channel, Bits
  <2>3. f.buf = g.buf /\ f.bits = g.bits
    BY <2>2 DEF Sampled, g, Channel
  <2>4. s.req = 1 /\ s.buf.count = 0
    BY <1>2, <1>5
  <2>5. "fresh" \in f.bits /\ f.buf.count = 0 /\ ("blocking" \in s.bits => "blocking" \in f.bits)
    BY <2>2, <2>3, <2>4
  <2>6. Available(f) = f.req
    BY <1>1, <2>4, <2>5 DEF Available
  <2> QED BY <1>1, <2>5, <2>6
<1> QED BY <1>3, <1>4, <1>5

\* What the handler leaves of a channel in use.
LEMMA HandlerEven ==
  ASSUME HInv, NEW eoc \in SUBSET Channels, AdcIntHandler(eoc), NEW c \in Used
  PROVE  /\ ch'[c].req = ch[c].req
         /\ "pending" \in ch'[c].bits => c \in dev'.active
         /\ Patient(c) => /\ "blocking" \in ch[c].bits => "blocking" \in ch'[c].bits
                          /\ "fresh" \in ch'[c].bits => ch'[c].buf.count = 0
                          /\ "pending" \notin ch'[c].bits => Available(ch'[c]) = ch'[c].req
<1> DEFINE Number(k) == made + Cardinality({j \in eoc : j <= k})
           Stores(k) == [Stored(ch[k], Number(k)) EXCEPT !.value = Number(k)]
           fed == [k \in Channels |-> IF k \in eoc THEN Stores(k) ELSE ch[k]]
           full == {k \in eoc : HasEnough(fed[k])}
           left == dev.active \ full
           d == [dev EXCEPT !.active = left, !.on = @ \ full, !.busy = @ \ eoc,
                            !.running = @ /\ (full = {} \/ left # {})]
           served == [k \in Channels |-> IF k \in full THEN [fed[k] EXCEPT !.bits = @ \ {"pending"}] ELSE fed[k]]
<1>1. /\ IInv /\ Values /\ Formed(todo) /\ Shaped /\ Sampling /\ Flagged
      /\ dev \in Device /\ ch \in [Channels -> Channel] /\ made \in Nat
  BY AdcAssumption DEF HInv, IInv, Values
<1>2. /\ ch' = Voided(d, served) /\ made + Cardinality(eoc) <= MaxSamples
      /\ dev' = IF d.running THEN Started(Resequenced(d)) ELSE Resequenced(d)
  BY DEF AdcIntHandler
<1>3. Number(c) \in 0 .. MaxSamples
  BY <1>1, <1>2, Numbering
<1>4. ~Preparing(todo) /\ c \in Channels /\ ch'[c].req = ch[c].req
  <2>1. ~Preparing(todo) /\ c \in Channels /\ Fed(ch[c], ch'[c], c \in Used')
    BY <1>1, HandlerEffects
  <2> QED BY <2>1 DEF Fed
<1>5. fed[c] = IF c \in eoc THEN Stores(c) ELSE ch[c]
  BY <1>4
<1>6. full \subseteq eoc /\ (c \in eoc => (c \in full <=> HasEnough(fed[c])))
  OBVIOUS
<1>7. served[c] = IF c \in full THEN [fed[c] EXCEPT !.bits = fed[c].bits \ {"pending"}] ELSE fed[c]
  BY <1>4
<1> HIDE DEF Number, fed, served, full
<1>8. d \in Device /\ d.active = dev.active \ full
  BY <1>1 DEF Device
<1> HIDE DEF d
<1>9. dev'.active = dev.active \ full
  <2>1. Resequenced(d) \in Device /\ Resequenced(d).active = d.active
    BY <1>8 DEF Resequenced, Device
  <2>2. \A e \in Device : Started(e).active = e.active
    BY DEF Started, Device
  <2> QED BY <1>2, <1>8, <2>1, <2>2
<1>10. ch'[c] = IF Resequences(d) /\ c \in d.active
                THEN [served[c] EXCEPT !.bits = served[c].bits \ {"fresh"}] ELSE served[c]
  BY <1>2, <1>4 DEF Voided
<1>11. /\ ch[c] \in Channel /\ Fits(ch[c]) /\ "pending" \in ch[c].bits
       /\ Patient(c) => ch[c].buf.count < ch[c].req
       /\ c \in dev.active
  BY <1>1, <1>4 DEF Flagged, Sampling
<1>12. Sound(ch[c].buf) /\ ch[c].idx <= ch[c].len
  <2>1. ~At("realloc", c) /\ ~At("count0", c) /\ ~At("wptr0", c) /\ ~At("unsmooth", c)
    BY <1>1, Relied DEF At, Doing
  <2> QED BY <1>1, <1>4, <2>1 DEF Shaped, Shape
<1>13. CASE c \in eoc
  <2> DEFINE f == Stores(c)
  <2>1. fed[c] = f /\ f = Sampled(ch[c], Number(c))
    BY <1>5, <1>13 DEF Sampled
  <2> HIDE DEF f
  <2>2. PICK n \in 0 .. MaxSamples : n = Number(c)
    BY <1>3
  <2>3. /\ f \in Channel /\ f.req = ch[c].req
        /\ "pending" \in f.bits <=> "pending" \in ch[c].bits
        /\ ~HasEnough(f) => "fresh" \notin f.bits /\ f.buf.count < f.req
        /\ Patient(c) => /\ "blocking" \in ch[c].bits => "blocking" \in f.bits
                         /\ "fresh" \in f.bits => f.buf.count = 0
                         /\ HasEnough(f) => Available(f) = f.req
    <3>1. f = Sampled(ch[c], n)
      BY <2>1, <2>2
    <3>2. ch[c] \in Channel /\ Fits(ch[c]) /\ (Patient(c) => ch[c].buf.count < ch[c].req)
      BY <1>11
    <3>3. /\ f \in Channel /\ f.req = ch[c].req /\ ("pending" \in f.bits <=> "pending" \in ch[c].bits)
          /\ ~HasEnough(f) => "fresh" \notin f.bits /\ f.buf.count < f.req
      BY ONLY <1>12, <3>1, <3>2, n \in 0 .. MaxSamples, StoredTyped DEF Sampled
    <3>4. Patient(c) => /\ "blocking" \in ch[c].bits => "blocking" \in f.bits
                        /\ "fresh" \in f.bits => f.buf.count = 0
                        /\ HasEnough(f) => Available(f) = f.req
      BY ONLY <1>12, <3>1, <3>2, n \in 0 .. MaxSamples, StoredEven
    <3> QED BY <3>3, <3>4
  <2>4. CASE HasEnough(f)
    <3>1. c \in full /\ c \notin d.active
      BY <1>6, <1>8, <1>13, <2>1, <2>4
    <3>2. ch'[c] = [f EXCEPT !.bits = f.bits \ {"pending"}]
      BY <1>7, <1>10, <2>1, <3>1
    <3>3. ch'[c].bits = f.bits \ {"pending"} /\ ch'[c].buf = f.buf /\ ch'[c].req = f.req
      BY <2>3, <3>2 DEF Channel
    <3>4. Available(ch'[c]) = Available(f)
      BY <3>3 DEF Available
    <3> QED BY <1>4, <2>3, <2>4, <3>3, <3>4
  <2>5. CASE ~HasEnough(f)
    <3>1. c \notin full /\ served[c] = f
      BY <1>6, <1>7, <1>13, <2>1, <2>5
    <3>2. ch'[c].bits \in {f.bits, f.bits \ {"fresh"}}
      BY <1>10, <2>3, <3>1 DEF Channel
    <3> QED BY <1>4, <1>9, <1>11, <2>3, <2>5, <3>1, <3>2
  <2> QED BY <2>4, <2>5
<1>14. CASE c \notin eoc
  <2>1. served[c] = ch[c] /\ c \notin full
    BY <1>5, <1>6, <1>7, <1>14
  <2>2. ch'[c].bits \in {ch[c].bits, ch[c].bits \ {"fresh"}}
    BY <1>10, <1>11, <2>1 DEF Channel
  <2>3. "fresh" \notin ch'[c].bits /\ "pending" \in ch'[c].bits
    BY <1>11, <2>2 DEF Fits
  <2> QED BY <1>4, <1>9, <1>11, <2>1, <2>2, <2>3
<1> QED BY <1>13, <1>14

\* The handler keeps it.
LEMMA HHandlerKeeps ==
  ASSUME HInv, Interrupts
  PROVE  HInv'
<1>1. PICK eoc \in SUBSET Channels : AdcIntHandler(eoc)
  BY DEF Interrupts
<1>2. IInv /\ Values /\ Formed(todo) /\ Flagged /\ Apart /\ Ended /\ Unmixed /\ Found /\ Balanced /\ Sampling
  BY DEF HInv, IInv
<1>3. /\ todo' = todo /\ word' = word /\ Used' \subseteq Used /\ Used \subseteq Channels /\ ~Preparing(todo)
      /\ \A c \in Channels : IF c \in Used THEN Fed(ch[c], ch'[c], c \in Used') ELSE ch'[c] = ch[c]
  BY <1>1, <1>2, HandlerEffects
<1>4. /\ early' = early
      /\ \A c \in Used :
           /\ ch'[c].req = ch[c].req
           /\ "pending" \in ch'[c].bits => c \in dev'.active
           /\ Patient(c) => /\ "blocking" \in ch[c].bits => "blocking" \in ch'[c].bits
                            /\ "fresh" \in ch'[c].bits => ch'[c].buf.count = 0
                            /\ "pending" \notin ch'[c].bits => Available(ch'[c]) = ch'[c].req
  <2>1. early' = early
    BY <1>1 DEF AdcIntHandler
  <2> QED BY <1>1, <2>1, HandlerEven
<1>5. Now' = Now /\ (\A op : Doing(op)' <=> Doing(op))
  BY <1>3 DEF Now, Doing
<1>6. \A op, c : At(op, c)' <=> At(op, c)
  BY <1>5 DEF At
<1>7. IInv'
  BY <1>2, HandlerKeeps
<1>8. ~Preparing(todo')
  BY <1>3
<1>9. ASSUME todo # <<>>, Now.op \notin {"start", "wait"}, Now.op \in Takes => Patient(Now.ch)
      PROVE  Now.ch \in Channels /\ Now.ch \notin Used /\ Mine' = Mine
  <2>1. Now \in Steps /\ 1 \in 1 .. Len(todo) /\ Now = todo[1]
    BY <1>2, <1>9, Ahead
  <2>2. Now.ch \in Channels /\ Now.ch \notin Used
    BY <1>2, <1>3, <1>9, <2>1, Fields DEF Apart
  <2> QED BY <1>3, <1>5, <2>2 DEF Mine
<1>10. Flagged'
  <2>1. ASSUME NEW c \in Channels, "pending" \in ch'[c].bits
        PROVE  c \in dev'.active \/ (Preparing(todo') /\ (At("loadActive", c)' \/ At("storeActive", c)'))
    <3>1. CASE c \in Used
      BY <1>4, <2>1, <3>1
    <3>2. CASE c \notin Used
      <4>1. "pending" \in ch[c].bits
        BY <1>3, <2>1, <3>2
      <4> QED BY <1>2, <1>3, <3>2, <4>1 DEF Flagged, Used
    <3> QED BY <3>1, <3>2
  <2>2. ASSUME NEW c \in Used'
        PROVE  "pending" \in ch'[c].bits /\ (Patient(c)' => ch'[c].buf.count < ch'[c].req)
    <3>1. c \in Used /\ c \in Channels /\ Fed(ch[c], ch'[c], c \in Used')
      BY <1>3
    <3>2. "pending" \in ch[c].bits /\ (Patient(c)' => ch[c].buf.count < ch[c].req)
      BY <1>2, <1>4, <3>1 DEF Flagged, Patient
    <3> QED BY <3>1, <3>2 DEF Fed
  <2> QED BY <2>1, <2>2 DEF Flagged
<1>11. Apart'
  <2>1. \A i \in 1 .. Len(todo') :
          todo'[i].op # "wait" /\ (todo'[i].op \in Takes => Patient(todo'[i].ch)) => todo'[i].ch \notin Used'
    BY <1>2, <1>3 DEF Apart
  <2>2. ASSUME Doing("wait")', Patient(Now.ch)
        PROVE  Now'.ch \notin Used' \/ ("blocking" \in Mine'.bits /\ Now'.n = Mine'.req)
    <3>1. Doing("wait")
      BY <1>5, <2>2
    <3>2. CASE Now.ch \notin Used
      BY <1>3, <1>5, <3>2
    <3>3. CASE Now.ch \in Used
      <4>1. "blocking" \in ch[Now.ch].bits /\ Now.n = ch[Now.ch].req
        BY <1>2, <2>2, <3>1, <3>3 DEF Apart, Mine
      <4> QED BY <1>4, <1>5, <2>2, <3>3, <4>1 DEF Mine
    <3> QED BY <3>2, <3>3
  <2>3. ASSUME Doing("storeBits")' PROVE word' = Mine'.bits
    <3>1. Doing("storeBits")
      BY <1>5, <2>3
    <3>2. Mine' = Mine
      BY <1>9, <3>1 DEF Doing, Takes
    <3> QED BY <1>2, <1>3, <3>1, <3>2 DEF Apart
  <2> QED BY <1>4, <1>5, <2>1, <2>2, <2>3 DEF Apart, Patient
<1>12. Ended' /\ Unmixed'
  BY <1>2, <1>3 DEF Ended, Unmixed
<1>13. Found'
  <2>1. \A i \in 1 .. Len(todo') : todo'[i].op = "count0" => ch'[todo'[i].ch].buf.count = 0
    <3> SUFFICES ASSUME NEW i \in 1 .. Len(todo), todo[i].op = "count0" PROVE ch'[todo[i].ch].buf.count = 0
      BY <1>3
    <3>1. todo[i] \in Steps
      BY <1>2 DEF Formed
    <3>2. todo[i].ch \in Channels /\ todo[i].ch \notin Used
      BY <1>2, <1>3, <3>1, Fields DEF Apart, Takes
    <3> QED BY <1>2, <1>3, <3>2 DEF Found
  <2>2. Doing("pick")' => Available(Mine)' # 0
    <3> SUFFICES ASSUME Doing("pick") PROVE Available(Mine)' # 0
      BY <1>5
    <3>1. CASE Now.ch \in Used
      <4>1. Mine.buf.count >= 1 /\ Mine.buf.count \in Nat /\ Now.ch \in Channels
        BY <1>2, <1>3, <3>1, Numbers DEF HInv, IInv, Taken, Mine
      <4>2. ch'[Now.ch].buf.count >= Mine.buf.count /\ ch'[Now.ch].buf.count \in Nat
        <5>1. Fed(ch[Now.ch], ch'[Now.ch], Now.ch \in Used')
          BY <1>3, <3>1, <4>1
        <5>2. ch' \in [Channels -> Channel]
          BY <1>7 DEF IInv, Values
        <5>3. ch'[Now.ch].buf \in Buffer /\ MaxSize \in Nat
          BY <4>1, <5>2, BufAssumption DEF Channel
        <5>4. ch'[Now.ch].buf.count \in Nat
          <6> DEFINE b == ch'[Now.ch].buf
          <6> HIDE DEF b
          <6>1. b \in Buffer => b.count \in Nat
            BY <5>3 DEF Buffer
          <6> QED BY <5>3, <6>1 DEF b
        <5> QED BY <5>1, <5>4 DEF Fed, Mine
      <4>3. Mine'.buf.count >= 1
        BY <1>5, <4>1, <4>2 DEF Mine
      <4> QED BY <1>5, <4>2, <4>3 DEF Available, Mine
    <3>2. CASE Now.ch \notin Used
      <4>1. Now.ch \in Channels
        BY <1>2, Ahead, Fields DEF Doing
      <4>2. Mine' = Mine /\ Available(Mine) # 0
        BY <1>2, <1>3, <1>5, <3>2, <4>1 DEF Found, Mine
      <4> QED BY <4>2 DEF Available
    <3> QED BY <3>1, <3>2
  <2>3. Doing("copyFresh")' \/ (Doing("loadBits")' /\ Len(todo') > 1 /\ Untaken(todo'[2]))
          \/ (Doing("storeBits")' /\ Untaken(Now')) => "fresh" \in Mine'.bits
    <3> SUFFICES ASSUME Doing("copyFresh") \/ (Doing("loadBits") /\ Len(todo) > 1 /\ Untaken(todo[2]))
                          \/ (Doing("storeBits") /\ Untaken(Now))
                 PROVE  "fresh" \in Mine'.bits
      BY <1>3, <1>5
    <3>1. Mine' = Mine /\ "fresh" \in Mine.bits
      BY <1>2, <1>9 DEF Doing, Found, Takes
    <3> QED BY <3>1
  <2> QED BY <1>8, <2>1, <2>2, <2>3 DEF Found, Untaken
<1>14. Balanced'
  <2> SUFFICES ASSUME NEW c \in Channels, Patient(c) PROVE Even(ch[c], Asking(c), Taking(c))'
    BY <1>4 DEF Balanced, Patient
  <2>1. Even(ch[c], Asking(c), Taking(c))
    BY <1>2 DEF Balanced
  <2>2. (Taking(c)' <=> Taking(c)) /\ ~Asking(c)' /\ ~Asking(c)
    BY <1>3, <1>6, <1>8 DEF Taking, Asking
  <2>3. CASE c \notin Used
    <3>1. ch'[c] = ch[c]
      BY <1>3, <2>3
    <3> QED BY <2>1, <2>2, <3>1 DEF Even, Available
  <2>4. CASE c \in Used
    <3>1. ~Taking(c)
      BY <1>9, <2>4 DEF Taking, At, Doing
    <3>2. ch'[c].req \in Nat
      <4>1. ch'[c].req = ch[c].req
        BY <1>4, <2>4
      <4> QED BY <1>2, <4>1, Numbers
    <3> QED BY <1>4, <2>2, <2>4, <3>1, <3>2 DEF Even
  <2> QED BY <2>3, <2>4
<1> QED BY <1>7, <1>10, <1>11, <1>12, <1>13, <1>14 DEF HInv

-----------------------------------------------------------------------------
(***************************************************************************)
(* The calls, the start and the theorem.                                   *)
(***************************************************************************)
\* What holds after any call.
LEMMA HCallKept ==
  ASSUME HInv, todo = <<>>, ch' = ch, early \subseteq early', dev' = dev, IInv', todo' # <<>>, Formed(todo'),
         todo'[1].op \in {"setup", "wait", "loadBits", "resmooth"},
         todo'[1].op = "loadBits" => ~Preparing(todo'),
         todo'[1].op = "wait" => todo'[1].ch \notin Used \/ todo'[1].ch \in early'
                                   \/ ("blocking" \in ch[todo'[1].ch].bits /\ todo'[1].n = ch[todo'[1].ch].req),
         \A i \in 1 .. Len(todo') :
           /\ todo'[i].op \notin {"process", "pick", "copyFresh", "copy", "decrement", "advance", "smooth"}
           /\ ~Untaken(todo'[i])
           /\ todo'[i].op = "count0" => ch[todo'[i].ch].buf.count = 0
           /\ ~Preparing(todo') /\ todo'[i].op # "wait" => todo'[i].ch \notin Used,
         \A i, j \in 1 .. Len(todo') : todo'[i].op \in {"resmooth", "unsmooth"} => todo'[j].op \notin {"setup", "wait"}
  PROVE  HInv'
<1>1. Now' = todo'[1] /\ Used' = Used /\ Mine' = ch[todo'[1].ch] /\ Len(todo') \in 1 .. Len(todo')
  <2>1. todo' \in Seq(Steps)
    BY DEF Formed
  <2>2. \A t \in Seq(Steps) : t # <<>> => Head(t) = t[1] /\ Len(t) \in 1 .. Len(t)
    OBVIOUS
  <2> QED BY <2>1, <2>2 DEF Now, Used, Mine
<1>2. /\ \A op : ~Doing(op) /\ ~Preparing(todo)
      /\ \A op \in {"storeBits", "loadActive", "storeActive", "pick", "copyFresh", "advance", "smooth", "countDown"} :
           ~Doing(op)'
      /\ Preparing(todo') => ~Doing("loadBits")'
  BY <1>1 DEF Doing, Preparing
<1>3. Flagged'
  BY <1>1, <1>2 DEF HInv, Flagged, At, Patient
<1>4. Apart'
  <2>1. Doing("wait")' /\ Patient(Now.ch)'
          => Now'.ch \notin Used' \/ ("blocking" \in Mine'.bits /\ Now'.n = Mine'.req)
    BY <1>1 DEF Doing, Patient
  <2> QED BY <1>1, <1>2, <2>1 DEF Apart
<1>5. Ended' /\ Unmixed'
  BY <1>1 DEF Ended, Unmixed
<1>6. Found'
  <2>1. ~(Doing("loadBits")' /\ Len(todo') > 1 /\ Untaken(todo'[2]))
    <3>1. Len(todo') \in Nat
      BY <1>1
    <3>2. Len(todo') > 1 => 2 \in 1 .. Len(todo')
      BY <3>1
    <3> QED BY <3>2
  <2>2. ~(Preparing(todo') /\ Now'.op \in {"loadBits", "storeBits", "loadActive", "storeActive"})
    BY <1>1
  <2>3. \A i \in 1 .. Len(todo') : todo'[i].op = "count0" => ch'[todo'[i].ch].buf.count = 0
    OBVIOUS
  <2> QED BY <1>2, <2>1, <2>2, <2>3 DEF Found
<1>7. Balanced'
  <2> SUFFICES ASSUME NEW c \in Channels, Patient(c)' PROVE Even(ch[c], Asking(c), Taking(c))'
    BY DEF Balanced
  <2>1. Even(ch[c], Asking(c), Taking(c))
    BY DEF HInv, Balanced, Patient
  <2>2. ~Asking(c) /\ ~Taking(c) /\ ~Asking(c)' /\ ~Taking(c)'
    BY <1>2 DEF Asking, Taking, At
  <2> QED BY <2>1, <2>2 DEF Even, Available
<1> QED BY <1>3, <1>4, <1>5, <1>6, <1>7 DEF HInv

\* A channel in use awaits samples: its settings are left alone.
LEMMA Cautious ==
  ASSUME Liberties \subseteq {"read"}, HInv, todo = <<>>
  PROVE  /\ \A c \in Used : Awaited(c)
         /\ \A c \in Channels : MayConfigure(c) => Used = {} /\ ~Awaited(c) /\ ch[c].buf.count = 0
<1>1. \A c \in Used : Awaited(c) /\ c \in Channels
  BY Between DEF HInv
<1>2. ASSUME NEW c \in Channels, MayConfigure(c)
      PROVE  Used = {} /\ ~Awaited(c) /\ ch[c].buf.count = 0
  <2>1. ~Awaited(c) /\ Drained(c) /\ \A k \in Channels \ {c} : ~Awaited(k)
    BY <1>2 DEF MayConfigure, Undisturbed
  <2>2. Available(ch[c]) = 0 /\ Available(ch[c]) >= ch[c].buf.count /\ ch[c].buf.count \in Nat
    BY <2>1, Numbers DEF Drained, HInv, IInv
  <2> QED BY <1>1, <2>1, <2>2
<1> QED BY <1>1, <1>2

\* Changing settings.
LEMMA HTuneKeeps ==
  ASSUME Liberties \subseteq {"read"}, HInv, todo = <<>>, ch' = ch, dev' = dev, early' = early, IInv',
         NEW c \in Channels, MayConfigure(c),
         todo' # <<>>, Formed(todo'), todo' \in Seq(Tunings(c)), todo'[1].op \in {"loadBits", "resmooth"}
  PROVE  HInv'
<1>1. Used = {} /\ ch[c].buf.count = 0
  BY Cautious
<1>2. \A i \in 1 .. Len(todo') : todo'[i] \in Tunings(c)
  OBVIOUS
<1>3. ~Preparing(todo')
  BY TuneLists
<1>4. \A i \in 1 .. Len(todo') :
        /\ todo'[i].op \notin {"setup", "wait", "process", "pick", "copyFresh", "copy", "decrement", "advance", "smooth"}
        /\ ~Untaken(todo'[i]) /\ todo'[i].ch = c
  BY <1>2 DEF Tunings, Untaken
<1> QED BY <1>1, <1>3, <1>4, HCallKept

\* adc.sample.
LEMMA HSampleKeeps ==
  ASSUME Liberties \subseteq {"read"}, HInv, NEW list \in Lists, NEW n \in Counts, AdcSample(list, n)
  PROVE  HInv'
<1> DEFINE s == [k \in DOMAIN list |-> [op |-> "setup", ch |-> list[k], n |-> n]] \o StartSequence
<1>1. todo = <<>> /\ todo' = s /\ ch' = ch /\ dev' = dev /\ early' = early
  BY DEF AdcSample, Call
<1>2. /\ Formed(s) /\ Preparing(s) /\ s[1].op = "setup"
      /\ \A i \in 1 .. Len(s) : s[i].op = "start" \/ s[i].op = "setup"
  BY SampleFormed
<1> HIDE DEF s
<1>3. /\ Formed(todo') /\ Preparing(todo') /\ todo'[1].op = "setup" /\ todo' # <<>>
      /\ \A i \in 1 .. Len(todo') : todo'[i].op \in {"start", "setup"}
  BY <1>1, <1>2 DEF Preparing
<1>4. IInv'
  <2>1. Liberties \subseteq {"read", "configure"}
    OBVIOUS
  <2> QED BY <2>1, SampleKeeps DEF HInv
<1> QED BY <1>1, <1>3, <1>4, HCallKept DEF Untaken

\* adc.getsample and adc.getsamples.
LEMMA HGetKeeps ==
  ASSUME Liberties \subseteq {"read"}, HInv, NEW c \in Channels, NEW n \in {0} \union Counts, AdcGetSamples(c, n)
  PROVE  HInv'
<1> DEFINE s == DoN("wait", c, n)
<1>1. /\ todo = <<>> /\ todo' = s /\ ch' = ch /\ dev' = dev /\ early \subseteq early'
      /\ ~Awaited(c) \/ c \in early' \/ ("blocking" \in ch[c].bits /\ n = ch[c].req)
  BY DEF AdcGetSamples, Call, Hasty
<1>2. Formed(s) /\ ~Preparing(s) /\ Len(s) = 1 /\ s[1].op = "wait" /\ s[1].ch = c /\ s[1].n = n
  <2>1. Formed(s) /\ ~Preparing(s) /\ Len(s) = 1 /\ s[1] = [op |-> "wait", ch |-> c, n |-> n]
    BY GetForms
  <2> HIDE DEF s
  <2> QED BY <2>1
<1> HIDE DEF s
<1>3. s # <<>> /\ \A i \in 1 .. Len(s) : i = 1
  <2>1. Len(s) # 0
    BY <1>2
  <2>2. s # <<>>
    BY <2>1, Len(<<>>) = 0
  <2>3. \A i \in 1 .. Len(s) : i = 1
    BY <1>2
  <2> QED BY <2>2, <2>3
<1>4. c \notin Used \/ c \in early' \/ ("blocking" \in ch[c].bits /\ n = ch[c].req)
  BY <1>1, Cautious
<1>5. /\ Formed(todo') /\ todo' # <<>> /\ todo'[1].op = "wait" /\ todo'[1].ch = c /\ todo'[1].n = n
      /\ \A i \in 1 .. Len(todo') : todo'[i].op = "wait"
  BY <1>1, <1>2, <1>3
<1>6. IInv'
  BY GetKeeps DEF HInv
<1> QED BY <1>1, <1>4, <1>5, <1>6, HCallKept DEF Untaken

\* The calls keep it.
LEMMA HCallKeeps ==
  ASSUME Liberties \subseteq {"read"}, HInv, Calls
  PROVE  HInv'
<1>1. IInv' /\ Formed(todo')
  <2>1. Liberties \subseteq {"read", "configure"}
    OBVIOUS
  <2> QED BY <2>1, CallKeeps, CallForms DEF HInv
<1>2. ASSUME NEW c \in Channels, NEW on \in BOOLEAN, AdcSetBlocking(c, on) PROVE HInv'
  <2>1. MayConfigure(c) /\ todo = <<>> /\ todo' = SetBit(c, "blocking", on) /\ ch' = ch /\ dev' = dev /\ early' = early
    BY <1>2 DEF AdcSetBlocking, Call
  <2>2. SetBit(c, "blocking", on) \in Seq(Stops(c)) /\ SetBit(c, "blocking", on) # <<>>
        /\ SetBit(c, "blocking", on)[1].op = "loadBits"
    BY BlockingForms
  <2>3. SetBit(c, "blocking", on) \in Seq(Tunings(c))
    BY <2>2, TuneTypes
  <2> QED BY <1>1, <2>1, <2>2, <2>3, HTuneKeeps
<1>3. ASSUME NEW c \in Channels, AdcSetClock(c) PROVE HInv'
  <2>1. MayConfigure(c) /\ todo = <<>> /\ todo' = PlatformAdcStop(c) /\ ch' = ch /\ dev' = dev /\ early' = early
    BY <1>3 DEF AdcSetClock, Call
  <2>2. /\ PlatformAdcStop(c) \in Seq(Stops(c)) /\ PlatformAdcStop(c) # <<>>
        /\ PlatformAdcStop(c)[1].op = "loadBits"
    BY NoSteps, StopIs, StopFirst DEF Formed
  <2>3. PlatformAdcStop(c) \in Seq(Tunings(c))
    BY <2>2, TuneTypes
  <2> QED BY <1>1, <2>1, <2>2, <2>3, HTuneKeeps
<1>4. ASSUME NEW c \in Channels, NEW n \in Lengths, AdcSetSmoothing(c, n) PROVE HInv'
  <2> DEFINE r == ResmoothSteps(c, n)
  <2>1. /\ MayConfigure(c) /\ todo = <<>> /\ ch' = ch /\ dev' = dev /\ early' = early
        /\ ~Awaited(c) => todo' = <<>> \o DoN("resmooth", c, n) \o Do("unsmooth", c) \o SetBit(c, "ready", FALSE) \o BufFlush(c)
    BY <1>4 DEF AdcSetSmoothing, Call
  <2>2. todo' = <<>> \o DoN("resmooth", c, n) \o Do("unsmooth", c) \o SetBit(c, "ready", FALSE) \o BufFlush(c)
    BY <2>1, Cautious
  <2>3. Formed(r) /\ r # <<>> /\ r[1].op = "resmooth" /\ r \in Seq(Tunings(c)) /\ r \in Seq(Steps)
    <3>1. Formed(r) /\ r # <<>> /\ r[1] = [op |-> "resmooth", ch |-> c, n |-> n]
      BY ResmoothFormed
    <3>2. r \in Seq(Tunings(c)) /\ r \in Seq(Steps)
      BY <3>1, NoSteps, ResmoothIs DEF Formed
    <3> HIDE DEF r
    <3> QED BY <3>1, <3>2
  <2>4. todo' = <<>> \o r
    BY <2>2, NoSteps, ResmoothIs DEF Formed
  <2> HIDE DEF r
  <2>5. todo' = r
    BY <2>3, <2>4, NoSteps
  <2> QED BY <1>1, <2>1, <2>3, <2>5, HTuneKeeps
<1> QED BY <1>2, <1>3, <1>4, CallKinds, HSampleKeeps, HGetKeeps

\* It holds at first.
LEMMA HInitHolds ==
  ASSUME Init
  PROVE  HInv
<1>1. IInv
  BY InitHolds
<1>2. /\ todo = <<>> /\ dev.active = {} /\ dev.on = {} /\ dev.busy = {}
      /\ \A c \in Channels : /\ ch[c].bits = {"blocking"} /\ ch[c].req = 0
                             /\ ch[c].buf = [NoBuffer EXCEPT !.size = 2, !.room = 2]
  BY DEF Init
<1>3. Len(todo) = 0
  BY <1>2, Len(<<>>) = 0
<1>4. (\A op : ~Doing(op)) /\ Used = {} /\ ~Preparing(todo)
  BY <1>2 DEF Doing, Used, Preparing
<1>5. \A c \in Channels : ch[c].buf.count = 0
  BY <1>2 DEF NoBuffer
<1>6. Flagged
  BY <1>2, <1>4 DEF Flagged
<1>7. Apart /\ Ended /\ Unmixed /\ Found
  BY <1>2, <1>3, <1>4 DEF Apart, Ended, Unmixed, Found
<1>8. Balanced
  BY <1>2, <1>4, <1>5 DEF Balanced, Even, Available, Taking, At
<1> QED BY <1>1, <1>6, <1>7, <1>8 DEF HInv

\* It is about the state alone.
LEMMA HStutterKeeps ==
  ASSUME HInv, UNCHANGED vars
  PROVE  HInv'
<1>1. ch' = ch /\ dev' = dev /\ todo' = todo /\ word' = word /\ early' = early
  BY DEF vars
<1>2. Used' = Used /\ Now' = Now /\ Mine' = Mine
  BY <1>1 DEF Used, Now, Mine
<1>3. \A op, c : (Doing(op)' <=> Doing(op)) /\ (At(op, c)' <=> At(op, c))
  BY <1>1, <1>2 DEF Doing, At
<1>4. Flagged' /\ Apart'
  BY <1>1, <1>2, <1>3 DEF HInv, Flagged, Apart, Patient
<1>5. Ended' /\ Unmixed'
  BY <1>1 DEF HInv, Ended, Unmixed
<1>6. Found'
  BY <1>1, <1>2, <1>3 DEF HInv, Found, Available, Untaken
<1>7. Balanced'
  BY <1>1, <1>3 DEF HInv, Balanced, Even, Available, Asking, Taking, Patient
<1>8. IInv'
  BY StutterKeeps DEF HInv
<1> QED BY <1>4, <1>5, <1>6, <1>7, <1>8 DEF HInv

\* "If we have the number of requested samples, stop sampling" (platform.c:871):
\* for a program that leaves the settings of what is sampled alone, a channel no
\* longer sampled holds, whenever no call is in progress, as many samples as were
\* asked for and not taken yet, unless some were taken before the rest had come:
\* sampling ends neither early nor late, and nothing that was stored is lost.
THEOREM RequestsAreHeld ==
  ASSUME Liberties \subseteq {"read"}
  PROVE  Spec => []HoldsRequested
<1>1. Init => HInv
  BY HInitHolds
<1>2. HInv /\ [Next]_vars => HInv'
  <2> SUFFICES ASSUME HInv, [Next]_vars PROVE HInv'
    OBVIOUS
  <2>1. Interrupts \/ Calls \/ Step \/ UNCHANGED vars
    BY DEF Next
  <2> QED BY <2>1, HHandlerKeeps, HCallKeeps, HStepKeeps, HStutterKeeps
<1>3. HInv => HoldsRequested
  <2> SUFFICES ASSUME HInv, todo = <<>>, NEW c \in Channels \ early, ~Awaited(c) PROVE Available(ch[c]) = ch[c].req
    BY DEF HoldsRequested
  <2>1. Even(ch[c], Asking(c), Taking(c)) /\ ~Asking(c) /\ ~Taking(c)
    BY DEF HInv, Balanced, Asking, Taking, At, Doing, Patient
  <2>2. Available(ch[c]) \in Nat
    BY Numbers DEF HInv, IInv
  <2> QED BY <2>1, <2>2 DEF Even, Awaited
<1> QED BY <1>1, <1>2, <1>3, PTL DEF Spec

-----------------------------------------------------------------------------
(***************************************************************************)
(* The order of the samples. The handler may store between any two steps   *)
(* of taking a sample out, so what is in order depends on how far that has *)
(* got.                                                                    *)
(***************************************************************************)
\* Slot: the place of the element i of a buffer, counted from the place p.
Slot(b, p, i) == IF p + i < b.size THEN p + i ELSE p + i - b.size
Element(b, p, i) == b.data[Slot(b, p, i)]

\* The elements from p on are followed by the place to write to.
Aligned(b, p) == b.count <= b.size /\ (b.size # 0 => p < b.size /\ b.wptr = Slot(b, p, b.count))

\* They were converted one after the other, after low and up to high.
Rising(b, p, low, high) ==
  \A j \in 0 .. b.count - 1 :
    /\ Element(b, p, j) \in low + 1 .. high
    /\ \A k \in 0 .. j - 1 : Element(b, p, k) < Element(b, p, j)

\* And the fresh sample after them.
Newest(s, p, low, high) ==
  "fresh" \in s.bits =>
    s.value \in low + 1 .. high /\ \A j \in 0 .. s.buf.count - 1 : Element(s.buf, p, j) < s.value

\* How far the call in progress is with the channel: in the middle of buf_set and
\* buf_flush ("flush", "rewind"); with a sample that is copied but still in the
\* buffer ("copied"), that is counted out ("read"), then taken out ("held"); with
\* the fresh one to be copied ("chosen"), then copied ("fresh").
Untaking(c) ==
  (At("loadBits", c) /\ Len(todo) > 1 /\ Untaken(todo[2])) \/ (At("storeBits", c) /\ Untaken(Now))
Mode(c) ==
  IF At("realloc", c) \/ At("count0", c) \/ At("wptr0", c) THEN "flush"
  ELSE IF At("rptr0", c) THEN "rewind"
  ELSE IF At("decrement", c) THEN "copied"
  ELSE IF At("advance", c) THEN "read"
  ELSE IF At("smooth", c) \/ At("countDown", c) \/ At("return", c) THEN "held"
  ELSE IF At("copyFresh", c) THEN "chosen"
  ELSE IF Untaking(c) THEN "fresh" ELSE "idle"

\* Where the elements begin, and after which sample those of a channel were
\* converted, of which the last one taken was g, when x is the sample in the
\* register.  The handler may store over an element that is counted out.
Front(m, b) == IF m = "read" THEN ModIncr(b, b.rptr) ELSE b.rptr
After(m, g, x) == IF m \in {"read", "held"} THEN x ELSE g

\* The samples of a channel when n conversions have been made.
Ordered(s, m, g, x, n) ==
  /\ g \in 0 .. n
  /\ m \in {"read", "held"} => x \in g + 1 .. n
  /\ m \notin {"flush", "rewind"} => Aligned(s.buf, Front(m, s.buf))
  /\ m = "rewind" => s.buf.wptr = 0
  /\ Rising(s.buf, Front(m, s.buf), After(m, g, x), n)
  /\ Newest(s, Front(m, s.buf), After(m, g, x), n)
  /\ m = "copied" => x = Element(s.buf, s.buf.rptr, 0)
  /\ m \in {"chosen", "fresh"} => s.buf.count = 0
  /\ m = "fresh" => x = s.value

InOrder ==
  /\ got \in [Channels -> Nat]
  /\ \A c \in Channels \ overtook : Ordered(ch[c], Mode(c), got[c], sample, made)

\* No sample is there to take while the smoothing ring still fills.
Warmed == \A c \in Channels : Warming(ch[c]) => Available(ch[c]) = 0

\* There are as many samples as are still to be taken out by the call.
Reserving == todo # <<>> /\ Now.op \in {"pick", "copy", "decrement", "copyFresh", "loadBits", "storeBits"}
Reserved(c) == Reserving /\ Now.ch = c
Counted ==
  \A i \in 1 .. Len(todo) : todo[i].op = "process" =>
    Len(todo) - i + 1 + (IF Reserved(todo[i].ch) THEN 1 ELSE 0) <= Available(ch[todo[i].ch])

\* A channel is empty until its buffer is flushed and its smoothing ring reset.
Resets(x) == x.op \in {"resmooth", "count0", "wptr0", "rptr0"} \/ (x.op = "storeBits" /\ x.bit = "ready")
Emptied == \A i \in 1 .. Len(todo) : Resets(todo[i]) => Void(ch[todo[i].ch])

OInv == HInv /\ InOrder /\ Warmed /\ Counted /\ Emptied

-----------------------------------------------------------------------------
(***************************************************************************)
(* A buffer, and what the steps of taking a sample out do to it.           *)
(***************************************************************************)
\* The next place of a buffer.
LEMMA NextPlace ==
  ASSUME NEW n \in Nat \ {0}, NEW p \in 0 .. n - 1
  PROVE  (p + 1) % n = IF p + 1 < n THEN p + 1 ELSE 0
  OBVIOUS

\* The places of the elements of a buffer differ, and follow each other.
LEMMA Places ==
  ASSUME NEW b \in Buffer, b.size # 0, NEW p \in Nat, p < b.size
  PROVE  /\ b.size \in Nat \ {0} /\ b.count \in Nat /\ b.size <= MaxSize /\ MaxSize \in Nat
         /\ Slot(b, p, 0) = p
         /\ \A i \in 0 .. b.size : Slot(b, p, i) \in 0 .. b.size - 1
         /\ \A i, j \in 0 .. b.size - 1 : i # j => Slot(b, p, i) # Slot(b, p, j)
         /\ \A i \in 0 .. b.size - 1 : ModIncr(b, Slot(b, p, i)) = Slot(b, p, i + 1)
<1>1. b.size \in Nat \ {0} /\ b.count \in Nat /\ b.size <= MaxSize /\ MaxSize \in Nat /\ p \in 0 .. b.size - 1
  <2>1. b.size \in 0 .. MaxSize /\ b.count \in 0 .. MaxSize /\ MaxSize \in Nat
    BY BufAssumption DEF Buffer
  <2> QED BY <2>1
<1>2. \A i \in 0 .. b.size : Slot(b, p, i) \in 0 .. b.size - 1
  BY <1>1 DEF Slot
<1>3. \A i, j \in 0 .. b.size - 1 : i # j => Slot(b, p, i) # Slot(b, p, j)
  BY <1>1 DEF Slot
<1>4. ASSUME NEW i \in 0 .. b.size - 1 PROVE ModIncr(b, Slot(b, p, i)) = Slot(b, p, i + 1)
  <2>1. Slot(b, p, i) \in 0 .. b.size - 1
    BY <1>1, <1>2
  <2>2. ModIncr(b, Slot(b, p, i)) = IF Slot(b, p, i) + 1 < b.size THEN Slot(b, p, i) + 1 ELSE 0
    BY <1>1, <2>1, NextPlace DEF ModIncr
  <2> QED BY <1>1, <2>2 DEF Slot
<1>5. Slot(b, p, 0) = p
  BY <1>1 DEF Slot
<1> QED BY <1>1, <1>2, <1>3, <1>4, <1>5

\* The elements begin at a place of the buffer.
LEMMA FrontPlace ==
  ASSUME NEW b \in Buffer, NEW m
  PROVE  Front(m, b) \in Nat \/ b.size = 0
<1>1. b.rptr \in 0 .. MaxSize - 1 /\ b.size \in 0 .. MaxSize /\ MaxSize \in Nat
  BY BufAssumption DEF Buffer
<1>2. \A r \in Nat, n \in Nat \ {0} : (r + 1) % n \in Nat
  OBVIOUS
<1> QED BY <1>1, <1>2 DEF Front, ModIncr

\* What is ordered stays so when the buffer and the value stay.
LEMMA OrderedSame ==
  ASSUME NEW s, NEW u, NEW m, NEW g, NEW x, NEW n, Ordered(s, m, g, x, n),
         u.buf = s.buf, u.value = s.value, "fresh" \in u.bits => "fresh" \in s.bits
  PROVE  Ordered(u, m, g, x, n)
  BY DEF Ordered, Newest

\* And when more conversions are made.
LEMMA OrderedLater ==
  ASSUME NEW s, NEW m, NEW g, NEW x, NEW n \in Nat, NEW k \in Nat, n <= k, Ordered(s, m, g, x, n)
  PROVE  Ordered(s, m, g, x, k)
<1>1. \A low, v : v \in low + 1 .. n => v \in low + 1 .. k
  OBVIOUS
<1>2. Rising(s.buf, Front(m, s.buf), After(m, g, x), k) /\ Newest(s, Front(m, s.buf), After(m, g, x), k)
  BY <1>1 DEF Ordered, Rising, Newest
<1>3. g \in 0 .. k
  BY DEF Ordered
<1> QED BY <1>1, <1>2, <1>3 DEF Ordered

\* The sample in the register matters only while the call has it.
LEMMA OrderedIdle ==
  ASSUME NEW s \in Channel, NEW m, NEW g, NEW x, NEW n \in Nat, NEW y, Ordered(s, m, g, x, n),
         m \notin {"flush", "rewind", "read", "held"}
  PROVE  Ordered(s, "idle", g, y, n)
  BY DEF Ordered, After, Front

\* A sample that was taken is the last one taken, or is lost.
LEMMA OrderedTaken ==
  ASSUME NEW s \in Channel, NEW g, NEW x, NEW n \in Nat, NEW y, Ordered(s, "held", g, x, n)
  PROVE  Ordered(s, "idle", x, y, n) /\ Ordered(s, "idle", g, y, n)
<1> DEFINE p == s.buf.rptr
<1>1. g \in 0 .. n /\ x \in g + 1 .. n /\ x \in 0 .. n
  BY DEF Ordered
<1>2. \A v : v \in x + 1 .. n => v \in g + 1 .. n
  BY <1>1
<1>3. Rising(s.buf, p, x, n) /\ Newest(s, p, x, n) /\ Aligned(s.buf, p)
  BY DEF Ordered, After, Front
<1> HIDE DEF p
<1>4. Rising(s.buf, p, g, n) /\ Newest(s, p, g, n)
  BY <1>2, <1>3 DEF Rising, Newest
<1> QED BY <1>1, <1>3, <1>4 DEF Ordered, After, Front, p

\* An empty buffer, in the middle of a flush and at its end.
LEMMA OrderedVoid ==
  ASSUME NEW s, NEW g, NEW x, NEW n \in Nat, g \in 0 .. n, Void(s)
  PROVE  /\ Ordered(s, "flush", g, x, n)
         /\ s.buf.wptr = 0 => Ordered(s, "rewind", g, x, n)
<1>1. \A p : Rising(s.buf, p, g, n) /\ Newest(s, p, g, n)
  BY DEF Void, Rising, Newest
<1> QED BY <1>1 DEF Ordered, After, Front

\* Flushed, it is ready for the next sample.
LEMMA OrderedFlushed ==
  ASSUME NEW s, NEW g, NEW x, NEW n \in Nat, g \in 0 .. n, Void(s), s.buf.size \in Nat,
         s.buf.wptr = 0, s.buf.rptr = 0
  PROVE  Ordered(s, "idle", g, x, n)
<1>1. \A p : Rising(s.buf, p, g, n) /\ Newest(s, p, g, n)
  BY DEF Void, Rising, Newest
<1>2. Aligned(s.buf, 0)
  BY DEF Aligned, Void, Slot
<1> QED BY <1>1, <1>2 DEF Ordered, After, Front

\* Copying a sample: the oldest in the buffer.
LEMMA OrderedCopy ==
  ASSUME NEW s \in Channel, NEW g, NEW x, NEW n \in Nat, Ordered(s, "idle", g, x, n), s.buf.size # 0
  PROVE  Ordered(s, "copied", g, s.buf.data[s.buf.rptr], n)
<1>1. s.buf \in Buffer /\ s.buf.rptr \in Nat /\ s.buf.rptr < s.buf.size
  BY BufAssumption DEF Ordered, Front, Aligned, Channel, Buffer
<1>2. Slot(s.buf, s.buf.rptr, 0) = s.buf.rptr
  BY <1>1, Places
<1> QED BY <1>2 DEF Ordered, After, Front, Element

\* Choosing the fresh one, there being no other, and copying it.
LEMMA OrderedChosen ==
  ASSUME NEW s \in Channel, NEW g, NEW x, NEW n \in Nat
  PROVE  /\ Ordered(s, "idle", g, x, n) /\ s.buf.count = 0 => Ordered(s, "chosen", g, x, n)
         /\ Ordered(s, "chosen", g, x, n) => Ordered(s, "fresh", g, s.value, n)
  BY DEF Ordered, After, Front

\* Taking the fresh sample.
LEMMA OrderedUntake ==
  ASSUME NEW s \in Channel, NEW u, NEW g, NEW x, NEW n \in Nat, Ordered(s, "fresh", g, x, n),
         "fresh" \in s.bits, u.buf = s.buf, "fresh" \notin u.bits
  PROVE  Ordered(u, "held", g, x, n)
<1>1. s.buf.count = 0 /\ x = s.value /\ g \in 0 .. n /\ Aligned(u.buf, u.buf.rptr) /\ Newest(s, s.buf.rptr, g, n)
  BY DEF Ordered, After, Front
<1>2. x \in g + 1 .. n
  BY <1>1 DEF Newest
<1>3. Rising(u.buf, u.buf.rptr, x, n) /\ Newest(u, u.buf.rptr, x, n)
  BY <1>1 DEF Rising, Newest
<1> QED BY <1>1, <1>2, <1>3 DEF Ordered, After, Front

\* Counting a sample out: from then on the elements begin at the next place.
LEMMA OrderedDecrement ==
  ASSUME NEW s \in Channel, NEW u, NEW g, NEW x, NEW n \in Nat, Ordered(s, "copied", g, x, n),
         s.buf.count >= 1, "fresh" \in u.bits => "fresh" \in s.bits, u.value = s.value,
         u.buf = [s.buf EXCEPT !.count = @ - 1]
  PROVE  Ordered(u, "read", g, x, n)
<1> DEFINE b == s.buf
           d == u.buf
           p == b.rptr
           q == Slot(b, p, 1)
           v == s.value
<1>1. b \in Buffer /\ b.count \in Nat /\ b.size \in Nat /\ p \in Nat
  <2>1. b \in Buffer /\ MaxSize \in Nat
    BY BufAssumption DEF Channel
  <2> QED BY <2>1 DEF Buffer
<1>2. /\ d.size = b.size /\ d.rptr = b.rptr /\ d.wptr = b.wptr /\ d.data = b.data /\ d.count = b.count - 1
  BY <1>1 DEF Buffer
<1>3. /\ g \in 0 .. n /\ Aligned(b, p) /\ Rising(b, p, g, n) /\ x = Element(b, p, 0) /\ b.count >= 1
      /\ "fresh" \in u.bits => v \in g + 1 .. n /\ \A j \in 0 .. b.count - 1 : Element(b, p, j) < v
  BY DEF Ordered, After, Front, Newest
<1> HIDE DEF b, d, p, q, v
<1>4. p < b.size /\ b.wptr = Slot(b, p, b.count) /\ b.count <= b.size /\ b.size # 0
  BY <1>1, <1>3 DEF Aligned
<1>5. /\ b.size \in Nat \ {0} /\ Slot(b, p, 0) = p
      /\ (\A i \in 0 .. b.size : Slot(b, p, i) \in 0 .. b.size - 1)
      /\ \A i \in 0 .. b.size - 1 : ModIncr(b, Slot(b, p, i)) = Slot(b, p, i + 1)
  BY <1>1, <1>4, Places
<1>6. Front("read", d) = q /\ q \in 0 .. b.size - 1
  <2>1. 0 \in 0 .. b.size - 1 /\ 0 + 1 = 1 /\ 1 \in 0 .. b.size
    BY <1>5
  <2>2. ModIncr(b, p) = q
    BY <1>5, <2>1 DEF q
  <2> QED BY <1>2, <1>5, <2>1, <2>2 DEF Front, ModIncr, p, q
<1>7. \A i \in 0 .. b.size - 1 : Slot(d, q, i) = Slot(b, p, i + 1) /\ Element(d, q, i) = Element(b, p, i + 1)
  <2> SUFFICES ASSUME NEW i \in 0 .. b.size - 1 PROVE Slot(d, q, i) = Slot(b, p, i + 1)
    BY <1>2 DEF Element
  <2> QED BY <1>1, <1>2, <1>4, <1>5 DEF Slot, q
<1>8. Aligned(d, q)
  <2>1. d.count \in 0 .. b.size - 1 /\ d.count + 1 = b.count
    BY <1>1, <1>2, <1>3, <1>4
  <2>2. d.wptr = Slot(d, q, d.count)
    BY <1>2, <1>4, <1>7, <2>1
  <2> QED BY <1>2, <1>5, <1>6, <2>1, <2>2 DEF Aligned
<1>9. \A j \in 0 .. d.count - 1 :
        /\ j \in 0 .. b.size - 1 /\ j + 1 \in 0 .. b.count - 1 /\ 0 \in 0 .. (j + 1) - 1
        /\ \A k \in 0 .. j - 1 : k \in 0 .. b.size - 1 /\ k + 1 \in 0 .. (j + 1) - 1
  BY <1>1, <1>2, <1>4
<1>10. 0 \in 0 .. b.count - 1
  BY <1>1, <1>3
<1>11. x \in g + 1 .. n /\ g \in Nat
  BY <1>3, <1>10 DEF Rising
<1>12. Rising(d, q, x, n)
  <2> SUFFICES ASSUME NEW j \in 0 .. d.count - 1
               PROVE  /\ Element(d, q, j) \in x + 1 .. n
                      /\ \A k \in 0 .. j - 1 : Element(d, q, k) < Element(d, q, j)
    BY DEF Rising
  <2>1. /\ j \in 0 .. b.size - 1 /\ j + 1 \in 0 .. b.count - 1 /\ 0 \in 0 .. (j + 1) - 1
        /\ \A k \in 0 .. j - 1 : k \in 0 .. b.size - 1 /\ k + 1 \in 0 .. (j + 1) - 1
    BY <1>9
  <2>2. /\ Element(b, p, j + 1) \in g + 1 .. n
        /\ \A k \in 0 .. (j + 1) - 1 : Element(b, p, k) < Element(b, p, j + 1)
    BY <1>3, <2>1 DEF Rising
  <2>3. x < Element(b, p, j + 1)
    BY <1>3, <2>1, <2>2
  <2>4. Element(b, p, j + 1) \in x + 1 .. n
    BY <1>11, <2>2, <2>3
  <2> QED BY <1>7, <2>1, <2>2, <2>4
<1>13. "fresh" \in u.bits => v \in x + 1 .. n /\ \A j \in 0 .. d.count - 1 : Element(d, q, j) < v
  <2> SUFFICES ASSUME "fresh" \in u.bits PROVE v \in x + 1 .. n /\ \A j \in 0 .. d.count - 1 : Element(d, q, j) < v
    OBVIOUS
  <2>1. v \in g + 1 .. n /\ x < v
    BY <1>3, <1>10
  <2>2. v \in x + 1 .. n
    BY <1>11, <2>1
  <2>3. \A j \in 0 .. d.count - 1 : Element(d, q, j) < v
    BY <1>3, <1>7, <1>9
  <2> QED BY <2>2, <2>3
<1>14. Newest(u, q, x, n)
  BY <1>13 DEF Newest, d, v
<1> QED BY <1>3, <1>6, <1>8, <1>11, <1>12, <1>14 DEF Ordered, After, d

\* Moving on to the next.
LEMMA OrderedAdvance ==
  ASSUME NEW s \in Channel, NEW u, NEW g, NEW x, NEW n \in Nat, Ordered(s, "read", g, x, n),
         u.bits = s.bits, u.value = s.value, u.buf = [s.buf EXCEPT !.rptr = ModIncr(s.buf, @)]
  PROVE  Ordered(u, "held", g, x, n)
<1> DEFINE b == s.buf
           d == u.buf
           p == ModIncr(b, b.rptr)
<1>1. b \in Buffer
  BY DEF Channel
<1>2. d.size = b.size /\ d.rptr = p /\ d.wptr = b.wptr /\ d.data = b.data /\ d.count = b.count
  BY <1>1 DEF Buffer
<1>3. g \in 0 .. n /\ x \in g + 1 .. n /\ Aligned(b, p) /\ Rising(b, p, x, n) /\ Newest(s, p, x, n)
  BY DEF Ordered, After, Front
<1> HIDE DEF p
<1>4. \A i : Slot(d, p, i) = Slot(b, p, i) /\ Element(d, p, i) = Element(b, p, i)
  BY <1>2 DEF Slot, Element
<1>5. Aligned(d, p) /\ Rising(d, p, x, n) /\ Newest(u, p, x, n)
  BY <1>2, <1>3, <1>4 DEF Aligned, Rising, Newest
<1> QED BY <1>2, <1>3, <1>5 DEF Ordered, After, Front

-----------------------------------------------------------------------------
(***************************************************************************)
(* What the handler stores in a channel in order, whatever step of taking  *)
(* a sample out of the buffer it comes before.                             *)
(***************************************************************************)
\* What is in order, in short.
LEMMA OrderedMeans ==
  ASSUME NEW s \in Channel, NEW m \in {"idle", "copied", "read", "held"}, NEW g, NEW x, NEW n \in Nat,
         Ordered(s, m, g, x, n)
  PROVE  /\ g \in 0 .. n /\ After(m, g, x) \in 0 .. n /\ (m \in {"read", "held"} => x \in g + 1 .. n)
         /\ Aligned(s.buf, Front(m, s.buf)) /\ Rising(s.buf, Front(m, s.buf), After(m, g, x), n)
  BY DEF Ordered, After

\* Writing a newer sample.
LEMMA OrderedWrite ==
  ASSUME NEW s \in Channel, NEW u, NEW m \in {"idle", "copied", "read", "held"}, NEW g, NEW x,
         NEW n \in Nat, NEW k \in Nat, NEW v \in n + 1 .. k, v <= MaxSamples,
         Ordered(s, m, g, x, n), s.buf.count < s.buf.size, m = "copied" => s.buf.count >= 1,
         u.buf = BufWrite(s.buf, v), "fresh" \notin u.bits
  PROVE  Ordered(u, m, g, x, k)
<1> DEFINE b == s.buf
           d == u.buf
           p == Front(m, b)
           low == After(m, g, x)
<1>1. b \in Buffer /\ b.size # 0 /\ v \in 0 .. MaxSamples
  BY AdcAssumption, BufAssumption DEF Channel, Buffer
<1>2. /\ g \in 0 .. n /\ low \in 0 .. n /\ Aligned(b, p) /\ Rising(b, p, low, n)
      /\ m \in {"read", "held"} => x \in g + 1 .. n
      /\ m = "copied" => x = Element(b, p, 0) /\ b.count >= 1
  BY OrderedMeans DEF Ordered, Front
<1>3. b.count < b.size
  OBVIOUS
<1> HIDE DEF b, d, p, low
<1>4. p \in Nat /\ p < b.size
  BY <1>1, <1>2, FrontPlace DEF Aligned, p
<1>5. /\ b.size \in Nat \ {0} /\ b.count \in Nat /\ b.size <= MaxSize /\ MaxSize \in Nat
      /\ \A i \in 0 .. b.size : Slot(b, p, i) \in 0 .. b.size - 1
      /\ \A i, j \in 0 .. b.size - 1 : i # j => Slot(b, p, i) # Slot(b, p, j)
      /\ \A i \in 0 .. b.size - 1 : ModIncr(b, Slot(b, p, i)) = Slot(b, p, i + 1)
  BY <1>1, <1>4, Places
<1>6. b.count \in 0 .. b.size - 1 /\ b.wptr = Slot(b, p, b.count)
  BY <1>2, <1>3, <1>5 DEF Aligned
<1>7. /\ d.size = b.size /\ d.rptr = b.rptr /\ d.count = b.count + 1
      /\ d.wptr = ModIncr(b, b.wptr) /\ d.data = [b.data EXCEPT ![b.wptr] = v]
  <2>1. d = BufWrite(b, v)
    BY DEF b, d
  <2>2. ~Rejects(b)
    BY <1>3, <1>5 DEF Rejects
  <2> QED BY <1>1, <2>1, <2>2 DEF BufWrite, Buffer
<1>8. (\A i : Slot(d, p, i) = Slot(b, p, i)) /\ Front(m, d) = p
  BY <1>7 DEF Slot, Front, ModIncr, p
<1>9. Element(d, p, b.count) = v /\ \A i \in 0 .. b.count - 1 : Element(d, p, i) = Element(b, p, i)
  <2>1. b.data \in [0 .. MaxSize - 1 -> 0 .. MaxSamples] /\ b.wptr \in 0 .. MaxSize - 1
    BY <1>1 DEF Buffer
  <2>2. d.data[b.wptr] = v /\ \A a \in 0 .. MaxSize - 1 : a # b.wptr => d.data[a] = b.data[a]
    BY <1>7, <2>1
  <2>3. ASSUME NEW i \in 0 .. b.count - 1 PROVE Slot(b, p, i) \in 0 .. MaxSize - 1 /\ Slot(b, p, i) # b.wptr
    <3>1. i \in 0 .. b.size - 1 /\ i # b.count /\ i \in 0 .. b.size
      BY <1>5, <1>6
    <3>2. Slot(b, p, i) \in 0 .. b.size - 1 /\ Slot(b, p, i) # b.wptr
      BY <1>5, <1>6, <3>1
    <3> QED BY <1>5, <3>2
  <2> QED BY <1>6, <1>8, <2>2, <2>3 DEF Element
<1>10. Aligned(d, p)
  <2>1. d.wptr = Slot(b, p, b.count + 1)
    BY <1>5, <1>6, <1>7
  <2> QED BY <1>3, <1>4, <1>5, <1>7, <1>8, <2>1 DEF Aligned
<1>11. Rising(d, p, low, k)
  <2> SUFFICES ASSUME NEW j \in 0 .. d.count - 1
               PROVE  /\ Element(d, p, j) \in low + 1 .. k
                      /\ \A i \in 0 .. j - 1 : Element(d, p, i) < Element(d, p, j)
    BY DEF Rising
  <2>1. \A i \in 0 .. b.count - 1 : /\ Element(b, p, i) \in low + 1 .. n
                                    /\ \A h \in 0 .. i - 1 : Element(b, p, h) < Element(b, p, i)
    BY <1>2 DEF Rising
  <2>2. CASE j \in 0 .. b.count - 1
    <3>1. \A i \in 0 .. j - 1 : i \in 0 .. b.count - 1
      BY <1>5, <2>2
    <3>2. Element(b, p, j) \in low + 1 .. k
      <4>1. Element(b, p, j) \in low + 1 .. n /\ low \in Nat /\ n <= k
        BY <1>2, <2>1, <2>2
      <4> QED BY <4>1
    <3> QED BY <1>9, <2>1, <2>2, <3>1, <3>2
  <2>3. CASE j = b.count
    <3>1. \A i \in 0 .. j - 1 : i \in 0 .. b.count - 1
      BY <2>3
    <3>2. \A i \in 0 .. j - 1 : Element(d, p, i) < v
      <4> SUFFICES ASSUME NEW i \in 0 .. j - 1 PROVE Element(d, p, i) < v
        OBVIOUS
      <4>1. Element(d, p, i) \in low + 1 .. n /\ low \in Nat
        BY <1>2, <1>9, <2>1, <3>1
      <4> QED BY <4>1
    <3>3. v \in low + 1 .. k
      BY <1>2
    <3> QED BY <1>9, <2>3, <3>2, <3>3
  <2>4. j \in 0 .. b.count - 1 \/ j = b.count
    BY <1>5, <1>7
  <2> QED BY <2>2, <2>3, <2>4
<1>12. g \in 0 .. k /\ (m \in {"read", "held"} => x \in g + 1 .. k)
  BY <1>2
<1>13. m = "copied" => x = Element(d, d.rptr, 0)
  <2> SUFFICES ASSUME m = "copied" PROVE x = Element(d, p, 0) /\ d.rptr = p
    OBVIOUS
  <2>1. 0 \in 0 .. b.count - 1
    BY <1>2, <1>5
  <2> QED BY <1>2, <1>7, <1>9, <2>1 DEF Front, p
<1>14. Newest(u, p, low, k)
  BY DEF Newest
<1> QED BY <1>8, <1>10, <1>11, <1>12, <1>13, <1>14 DEF Ordered, d, low

\* Keeping it as the fresh one.
LEMMA OrderedKeep ==
  ASSUME NEW s \in Channel, NEW u, NEW m \in {"idle", "copied", "read", "held"}, NEW g, NEW x,
         NEW n \in Nat, NEW k \in Nat, NEW v \in n + 1 .. k,
         Ordered(s, m, g, x, n), u.buf = s.buf, u.value = v
  PROVE  Ordered(u, m, g, x, k)
<1> DEFINE p == Front(m, s.buf)
           low == After(m, g, x)
<1>1. /\ low \in 0 .. n /\ Rising(s.buf, p, low, n)
      /\ Ordered(s, m, g, x, k)
  BY OrderedMeans, OrderedLater
<1> HIDE DEF p, low
<1>2. Newest(u, p, low, k)
  <2>1. v \in low + 1 .. k
    BY <1>1
  <2>2. \A j \in 0 .. s.buf.count - 1 : Element(s.buf, p, j) < v
    <3> SUFFICES ASSUME NEW j \in 0 .. s.buf.count - 1 PROVE Element(s.buf, p, j) < v
      OBVIOUS
    <3>1. Element(s.buf, p, j) \in low + 1 .. n
      BY <1>1 DEF Rising
    <3> QED BY <1>1, <3>1
  <2> QED BY <2>1, <2>2 DEF Newest
<1> QED BY <1>1, <1>2 DEF Ordered, p, low

\* A sample stored in a channel that still has to get some.
LEMMA OrderedStored ==
  ASSUME NEW s \in Channel, NEW m \in {"idle", "copied", "read", "held"}, NEW g, NEW x,
         NEW n \in Nat, NEW k \in Nat, NEW v \in n + 1 .. k, v <= MaxSamples,
         m = "copied" => s.buf.count >= 1, Fits(s), Sound(s.buf), s.idx <= s.len,
         NEW f, f = Sampled(s, v), NEW u, NEW b \in SUBSET f.bits, u = WithBits(f, b), "ready" \in f.bits => "ready" \in b
  PROVE  /\ Ordered(s, m, g, x, n) => Ordered(u, m, g, x, k)
         /\ Warming(u) => Warming(s) /\ u.buf.count = s.buf.count /\ "fresh" \notin u.bits
<1> DEFINE h == Stored(s, v)
           O == Ordered(s, m, g, x, n)
           P == Ordered(u, m, g, x, k)
<1>1. /\ v \in 0 .. MaxSamples /\ s.buf \in Buffer /\ s.bits \subseteq Bits /\ "fresh" \notin s.bits
      /\ s.req > 1 => s.buf.count < s.buf.size
  <2>1. v \in 0 .. MaxSamples
    BY AdcAssumption
  <2> QED BY <2>1, RoomFacts
<1>2. f \in Channel
  BY <1>1, StoredTyped DEF Sampled
<1>3. u.buf = f.buf /\ u.bits = b /\ u.value = f.value /\ u.len = f.len
  BY <1>2 DEF WithBits, Channel
<1>k. u.buf = s.buf /\ u.value = v /\ O => P
  BY OrderedKeep
<1>w. u.buf = BufWrite(s.buf, v) /\ "fresh" \notin u.bits /\ s.buf.count < s.buf.size /\ O => P
  BY OrderedWrite
<1> HIDE DEF O, P
<1>4. CASE Warming(s)
  <2> DEFINE r == [s EXCEPT !.bits = @ \ {"fresh"}]
  <2>1. r \in Channel /\ r = s
    <3>1. s.bits \ {"fresh"} = s.bits
      BY <1>1
    <3> QED BY <3>1 DEF Channel
  <2>2. h = SmoothData(s, v)
    BY <1>4, <2>1 DEF Stored
  <2> HIDE DEF h, r
  <2>3. h \in Channel /\ h.buf = s.buf /\ h.bits \in {s.bits, s.bits \union {"ready"}}
    BY <1>1, <2>2, SmoothTyped
  <2>4. f.buf = h.buf /\ f.bits = h.bits /\ f.value = v
    BY <2>3 DEF Sampled, h, Channel
  <2>5. "fresh" \notin u.bits /\ u.buf = s.buf /\ u.value = v
    BY <1>1, <1>3, <2>3, <2>4
  <2> QED BY <1>4, <1>k, <2>5 DEF O, P
<1>5. CASE ~Warming(s) /\ s.req > 1
  <2> DEFINE w == BufWrite(s.buf, v)
  <2>1. w \in Buffer
    BY <1>1, <1>5, WriteTyped
  <2>2. h = [s EXCEPT !.buf = w, !.bits = s.bits \ {"fresh"}]
    BY <1>5 DEF Stored
  <2> HIDE DEF h, w
  <2>3. h.buf = w /\ h.bits = s.bits \ {"fresh"} /\ h.len = s.len /\ h \in Channel
    BY <1>1, <2>1, <2>2 DEF Channel
  <2>4. f.buf = w /\ f.bits = s.bits \ {"fresh"} /\ f.len = s.len
    BY <2>3 DEF Sampled, h, Channel
  <2>5. "fresh" \notin u.bits /\ u.buf = w
    BY <1>3, <2>4
  <2>6. ~Warming(u)
    BY <1>3, <1>5, <2>4 DEF Warming
  <2> QED BY <1>1, <1>5, <1>w, <2>5, <2>6 DEF w, O, P
<1>6. CASE ~Warming(s) /\ ~(s.req > 1)
  <2>1. h = [s EXCEPT !.bits = s.bits \union {"fresh"}]
    BY <1>6 DEF Stored
  <2> HIDE DEF h
  <2>2. h.buf = s.buf /\ h.bits = s.bits \union {"fresh"} /\ h.len = s.len /\ h \in Channel
    BY <1>1, <2>1 DEF Channel, Bits
  <2>3. f.buf = s.buf /\ f.bits = s.bits \union {"fresh"} /\ f.len = s.len /\ f.value = v
    BY <2>2 DEF Sampled, h, Channel
  <2>4. ~Warming(u)
    BY <1>3, <1>6, <2>3 DEF Warming
  <2>5. u.buf = s.buf /\ u.value = v
    BY <1>3, <2>3
  <2> QED BY <1>k, <2>4, <2>5 DEF O, P
<1> QED BY <1>4, <1>5, <1>6

-----------------------------------------------------------------------------
(***************************************************************************)
(* How far the call is, before and after a step.                           *)
(***************************************************************************)
\* What is picked is copied.
LEMMA PickCopies ==
  ASSUME HInv, Step, Now.op = "pick"
  PROVE  \/ "fresh" \in Mine.bits /\ todo'[1].op = "copyFresh"
         \/ Mine.buf.size # 0 /\ todo'[1].op = "copy"
<1>1. /\ Formed(todo) /\ Values /\ todo # <<>> /\ Now.ch \in Channels /\ IInv /\ Found
      /\ (\A c \in Channels : Available(ch[c]) \in Nat) /\ Counts \subseteq Nat
  <2>1. Formed(todo) /\ Values /\ todo # <<>> /\ Now.ch \in Channels /\ IInv /\ Found
    BY Aside DEF HInv
  <2> QED BY <2>1, Numbers
<1>2. CASE "fresh" \in Mine.bits
  BY <1>2, PickFresh
<1>3. CASE "fresh" \notin Mine.bits
  <2>1. Mine.buf.count # 0
    BY <1>1, <1>3 DEF Found, Doing, Available
  <2>2. Mine.buf.count <= Mine.buf.size /\ Mine.buf.count \in Nat /\ Mine.buf.size \in Nat
    BY <1>1, Numbers DEF Mine, IInv, Shaped, Shape
  <2>3. ~BufEmpty(Mine.buf) /\ Mine.buf.size # 0
    BY <2>1, <2>2 DEF BufEmpty
  <2>4. todo'[1] = [op |-> "copy", ch |-> Now.ch]
    BY <1>1, <1>3, <2>3, TakeFirst
  <2> QED BY <2>3, <2>4
<1> QED BY <1>2, <1>3

\* What there is is picked.
LEMMA ProcessPicks ==
  ASSUME HInv, Step, Now.op = "process", Available(Mine) # 0, ~Warming(Mine)
  PROVE  todo'[1].op = "pick"
<1> DEFINE c == Now.ch
           t == Tail(todo)
           p == Do("pick", c)
           q == Do("smooth", c)
           f == Finish(c)
<1>1. Formed(todo) /\ todo # <<>> /\ Now \in Steps /\ c \in Channels /\ t \in Seq(Steps)
  BY Aside, Ahead, Fields
<1>2. todo' = (p \o <<>> \o f) \o t \/ todo' = (p \o q \o f) \o t
  BY Kinds DEF Process, Then
<1>3. /\ p \in Seq(Steps) /\ q \in Seq(Steps) /\ f \in Seq(Steps) /\ Len(p) = 1 /\ p[1].op = "pick"
  <2>1. p \in Seq(Steps) /\ q \in Seq(Steps) /\ Do("countDown", c) \in Seq(Steps) /\ Do("return", c) \in Seq(Steps)
    BY <1>1, ListTypes
  <2>2. f \in Seq(Steps)
    BY <2>1, CatFacts DEF Finish
  <2> QED BY <2>1, <2>2 DEF Do
<1> HIDE DEF c, t, p, q, f
<1>4. \A x \in Seq(Steps) : p \o x \in Seq(Steps) /\ Len(p \o x) > 0 /\ (p \o x)[1] = p[1]
  BY <1>3, CatFacts, CatFirst
<1>5. \A x \in Seq(Steps) : /\ (p \o x) \o f \in Seq(Steps) /\ Len((p \o x) \o f) > 0 /\ ((p \o x) \o f)[1] = p[1]
  <2> SUFFICES ASSUME NEW x \in Seq(Steps)
               PROVE  (p \o x) \o f \in Seq(Steps) /\ Len((p \o x) \o f) > 0 /\ ((p \o x) \o f)[1] = p[1]
    OBVIOUS
  <2> DEFINE u == p \o x
  <2>1. u \in Seq(Steps) /\ Len(u) > 0 /\ u[1] = p[1]
    BY <1>4
  <2> HIDE DEF u
  <2>2. (u \o f)[1] = u[1] /\ u \o f \in Seq(Steps) /\ Len(u \o f) = Len(u) + Len(f) /\ Len(f) \in Nat
    BY <1>3, <2>1, CatFacts, CatFirst
  <2> QED BY <2>1, <2>2 DEF u
<1>6. PICK x \in Seq(Steps) : todo' = ((p \o x) \o f) \o t
  <2>1. <<>> \in Seq(Steps)
    OBVIOUS
  <2>2. CASE todo' = ((p \o <<>>) \o f) \o t
    BY ONLY <2>1, <2>2
  <2>3. CASE todo' = ((p \o q) \o f) \o t
    BY ONLY <1>3, <2>3
  <2> QED BY <1>2, <2>2, <2>3
<1> DEFINE w == (p \o x) \o f
<1>7. w \in Seq(Steps) /\ Len(w) > 0 /\ w[1] = p[1] /\ todo' = w \o t
  BY <1>5, <1>6
<1> HIDE DEF w
<1> QED BY <1>1, <1>3, <1>7, CatFirst

\* A sample is returned once it is counted down, or because there is none.
LEMMA ReturnFrom ==
  ASSUME HInv, Step, todo' # <<>>, Now'.op = "return"
  PROVE  \/ Now.op = "countDown" /\ Now'.ch = Now.ch
         \/ Now.op = "process" /\ (Available(Mine) = 0 \/ Warming(Mine))
<1>1. /\ IInv /\ Values /\ Formed(todo) /\ todo # <<>> /\ Now \in Steps
      /\ (\A c \in Channels : Available(ch[c]) \in Nat) /\ Counts \subseteq Nat
  <2>1. IInv /\ Values /\ Formed(todo) /\ todo # <<>> /\ Now \in Steps
    BY Aside DEF HInv
  <2> QED BY <2>1, Numbers
<1>2. Now' = todo'[1] /\ Now' \in Steps
  BY <1>1, CameFrom
<1>3. CASE Now.op = "setup"
  <2>1. todo'[1].op \in {"request", "size"}
    BY <1>1, <1>3, Kinds, SetupLists
  <2> QED BY <1>2, <2>1
<1>4. CASE Now.op = "wait"
  <2>1. todo'[1].op = "process"
    BY <1>1, <1>4, TakeFirst
  <2> QED BY <1>2, <2>1
<1>5. CASE Now.op = "process"
  BY <1>2, <1>5, ProcessPicks
<1>6. CASE Now.op = "pick"
  <2>1. todo'[1].op \in {"copyFresh", "copy"}
    BY <1>6, PickCopies
  <2> QED BY <1>2, <2>1
<1>7. CASE todo' = Tail(todo)
  <2>1. Leads(Now, Now')
    BY <1>1, <1>2, <1>7, Ahead
  <2>2. Now.op \in {"count0", "wptr0", "rptr0", "loadBits", "loadActive", "disable", "idle", "process", "pick",
             "copyFresh", "copy", "decrement", "advance", "smooth", "countDown", "return", "unsmooth",
             "setup", "size", "realloc", "request", "wait", "resmooth", "storeBits", "storeActive", "start"}
    BY <1>1 DEF Steps, OnChannel, OnBit
  <2>3. Now.op = "storeBits" => Now.bit \in Bits
    BY <1>1, Fields
  <2> QED BY <1>7, <2>1, <2>2, <2>3 DEF Leads, Bits
<1> QED BY <1>1, <1>3, <1>4, <1>5, <1>6, <1>7, StepTodo

\* What the step to come says of a mode.
LEMMA ModeIs ==
  ASSUME NEW c
  PROVE  /\ Mode(c) = "flush" <=> At("realloc", c) \/ At("count0", c) \/ At("wptr0", c)
         /\ Mode(c) = "rewind" <=> At("rptr0", c)
         /\ Mode(c) = "copied" <=> At("decrement", c)
         /\ Mode(c) = "read" <=> At("advance", c)
         /\ Mode(c) = "held" <=> At("smooth", c) \/ At("countDown", c) \/ At("return", c)
         /\ Mode(c) = "chosen" <=> At("copyFresh", c)
         /\ Mode(c) = "fresh" <=> Untaking(c)
         /\ Mode(c) \in {"flush", "rewind", "copied", "read", "held", "chosen", "fresh", "idle"}
  BY DEF Mode, At, Doing, Untaking

\* The mode after a step tells what the step was.
LEMMA ModeFrom ==
  ASSUME OInv, Step, NEW c \in Channels, Mode(c)' # "idle"
  PROVE  /\ Now.ch = c /\ Now.op # "start" /\ todo' # <<>>
         /\ Mode(c)' = "flush" =>
              Now.op \in {"size", "realloc", "count0"} \/ (Now.op = "storeBits" /\ Now.bit = "ready")
         /\ Mode(c)' = "rewind" => Now.op = "wptr0"
         /\ Mode(c)' = "copied" => Now.op = "copy"
         /\ Mode(c)' = "read" => Now.op = "decrement"
         /\ Mode(c)' = "held" =>
              Now.op \in {"advance", "smooth", "countDown"} \/ (Now.op = "storeBits" /\ Untaken(Now))
         /\ Mode(c)' = "chosen" => Now.op = "pick" /\ "fresh" \in Mine.bits
         /\ Mode(c)' = "fresh" => Now.op = "copyFresh" \/ (Now.op = "loadBits" /\ Mode(c) = "fresh")
<1>1. /\ HInv /\ IInv /\ Values /\ Formed(todo) /\ todo # <<>> /\ Now \in Steps /\ Now = todo[1]
      /\ Len(todo) \in Nat \ {0} /\ Found /\ Unmixed /\ Prepared
  BY Aside DEF OInv, HInv, IInv
<1> DEFINE y == Now'
<1>2. /\ todo' # <<>> /\ y.ch = c
      /\ Mode(c)' = "flush" => y.op \in {"realloc", "count0", "wptr0"}
      /\ Mode(c)' = "rewind" => y.op = "rptr0"
      /\ Mode(c)' = "copied" => y.op = "decrement"
      /\ Mode(c)' = "read" => y.op = "advance"
      /\ Mode(c)' = "held" => y.op \in {"smooth", "countDown", "return"}
      /\ Mode(c)' = "chosen" => y.op = "copyFresh"
      /\ Mode(c)' = "fresh" => \/ y.op = "loadBits" /\ Len(todo') > 1 /\ Untaken(todo'[2])
                               \/ y.op = "storeBits" /\ Untaken(y)
      /\ y.op \in {"realloc", "count0", "wptr0", "rptr0", "decrement", "advance", "smooth", "countDown", "return",
                   "copyFresh", "loadBits", "storeBits"}
  BY ModeIs DEF Mode, At, Doing, Untaking
<1>3. /\ y.op # "return" => y.ch = Now.ch /\ Now.op # "start"
      /\ y.op = "realloc" => Now.op = "size"
      /\ y.op = "count0" => Now.op = "realloc" \/ (Now.op = "storeBits" /\ Now.bit = "ready")
      /\ y.op = "wptr0" => Now.op = "count0"
      /\ y.op = "rptr0" => Now.op = "wptr0"
      /\ y.op = "loadBits" => Now.op \in {"request", "unsmooth", "copyFresh"}
      /\ y.op = "storeBits" => Now.op = "loadBits"
      /\ y.op = "decrement" => Now.op = "copy"
      /\ y.op = "advance" => Now.op = "decrement"
      /\ y.op = "smooth" => \/ Now.op = "advance" \/ (Now.op = "storeBits" /\ Now.bit = "fresh")
                            \/ Now.op = "pick"
      /\ y.op = "countDown" => \/ Now.op \in {"advance", "smooth"} \/ (Now.op = "storeBits" /\ Now.bit = "fresh")
                               \/ Now.op = "pick"
      /\ y.op \in {"loadBits", "storeBits"} => todo' = Tail(todo)
      /\ y = todo'[1]
  BY <1>1, <1>2, CameFrom
<1>4. y.op \in {"smooth", "countDown"} => Now.op # "pick"
  BY <1>1, <1>3, PickCopies
<1>5. y.op = "return" => Now.op = "countDown" /\ y.ch = Now.ch
  <2> SUFFICES ASSUME y.op = "return", Now.op = "process", Available(Mine) = 0 \/ Warming(Mine) PROVE FALSE
    BY <1>1, <1>2, ReturnFrom
  <2>1. Now.ch \in Channels /\ Available(Mine) \in Nat
    <3>1. Now.ch \in Channels
      BY <1>1, Aside
    <3> QED BY <1>1, <3>1, Numbers DEF Mine
  <2>2. Len(todo) - 1 + 1 + (IF Reserved(Now.ch) THEN 1 ELSE 0) <= Available(Mine)
    <3>1. 1 \in 1 .. Len(todo)
      BY <1>1
    <3> QED BY <1>1, <3>1 DEF OInv, Counted, Mine
  <2>3. Available(Mine) # 0
    BY <1>1, <2>1, <2>2
  <2> QED BY <2>1, <2>3 DEF OInv, Warmed, Mine
<1>6. ASSUME y.op = "loadBits", Len(todo') > 1, Untaken(todo'[2])
      PROVE  Now.op = "copyFresh"
  <2>1. todo'[2] = todo[3] /\ 3 \in 1 .. Len(todo) /\ 1 \in 1 .. Len(todo)
    BY <1>1, <1>2, <1>3, <1>6, Second
  <2>2. Now.op # "request"
    <3> SUFFICES ASSUME Now.op = "request" PROVE FALSE
      OBVIOUS
    <3>1. Preparing(todo)
      BY <1>1, Relied
    <3>2. todo[3] \in Preparations
      BY <1>1, <1>6, <2>1, <3>1 DEF Prepared, Untaken
    <3> QED BY <1>6, <2>1, <3>2 DEF Preparations, Untaken
  <2>3. Now.op # "unsmooth"
    BY <1>1, <1>6, <2>1 DEF Unmixed
  <2> QED BY <1>3, <1>6, <2>2, <2>3
<1>7. ASSUME y.op = "storeBits", Untaken(y)
      PROVE  Now.op = "loadBits" /\ Mode(c) = "fresh"
  <2>1. Now' = todo[2] /\ Len(todo) > 1
    BY <1>1, <1>2, <1>3, <1>7, Second
  <2>2. Untaking(c)
    BY <1>1, <1>2, <1>3, <1>7, <2>1 DEF Untaking, At, Doing
  <2> QED BY <1>3, <1>7, <2>2, ModeIs
<1>f. y.op = "copyFresh" => Now.op = "pick" /\ "fresh" \in Mine.bits
  BY <1>1, <1>2, FreshFrom
<1>8. Now.ch = c /\ Now.op # "start"
  <2>1. CASE y.op = "return"
    <3>1. Now.op = "countDown" /\ y.ch = Now.ch
      BY <1>5, <2>1
    <3> QED BY <1>2, <3>1
  <2>2. CASE y.op # "return"
    BY <1>2, <1>3, <2>2
  <2> QED BY <2>1, <2>2
<1> HIDE DEF y
<1>9. Now.op = "storeBits" /\ Now.bit = "fresh" => Untaken(Now)
  BY DEF Untaken
<1> QED BY <1>2, <1>3, <1>4, <1>5, <1>6, <1>7, <1>8, <1>9, <1>f

\* The steps that must be followed by others of the same call.
LEMMA ModeTo ==
  ASSUME OInv, Step, NEW c \in Channels, Now.ch = c, Now.op # "start"
  PROVE  /\ Now.op \in {"size", "count0"} => Mode(c)' = "flush"
         /\ Now.op = "realloc" => Mode(c)' = "flush" \/ todo' # Tail(todo)
         /\ Now.op = "wptr0" => Mode(c)' = "rewind"
         /\ Now.op = "decrement" => Mode(c)' = "read"
         /\ Now.op \in {"advance", "smooth"} => Mode(c)' = "held"
         /\ Now.op = "storeBits" /\ Untaken(Now) => Mode(c)' = "held"
<1>1. /\ HInv /\ Formed(todo) /\ todo # <<>> /\ Placed(todo, 1) /\ Now = todo[1] /\ Len(todo) \in Nat \ {0}
      /\ Len(Tail(todo)) = Len(todo) - 1 /\ Tail(todo) \in Seq(Steps)
      /\ Tail(todo) # <<>> => Leads(Now, Tail(todo)[1])
  BY Aside, Ahead DEF OInv
<1> DEFINE y == Now'
<1>2. ASSUME Now.op \in {"size", "realloc", "count0", "wptr0"}, todo' = Tail(todo)
      PROVE  todo' # <<>> /\ Leads(Now, y)
  <2>1. 2 \in 1 .. Len(todo)
    BY <1>1, <1>2 DEF Placed
  <2>2. Len(todo') # 0
    BY <1>1, <1>2, <2>1
  <2>3. todo' # <<>>
    BY <2>2, Len(<<>>) = 0
  <2>4. y = todo'[1]
    BY <1>1, <1>2, <2>3, TailFacts DEF Now
  <2> QED BY <1>1, <1>2, <2>3, <2>4
<1>3. Now.op \in {"size", "count0", "wptr0", "decrement", "advance", "smooth", "storeBits"} => todo' = Tail(todo)
  BY <1>1, StepTodo
<1>4. ASSUME Now.op \in {"decrement", "advance", "smooth"} \/ (Now.op = "storeBits" /\ Untaken(Now))
      PROVE  todo' # <<>> /\ Leads(Now, y)
  BY <1>1, <1>3, <1>4, GoesOn
<1>5. /\ Now.op \in {"size", "count0"} \/ (Now.op = "realloc" /\ todo' = Tail(todo)) =>
           todo' # <<>> /\ y.op \in {"realloc", "count0", "wptr0"} /\ y.ch = c
      /\ Now.op = "wptr0" => todo' # <<>> /\ y.op = "rptr0" /\ y.ch = c
  BY <1>2, <1>3 DEF Leads
<1>6. /\ Now.op = "decrement" => todo' # <<>> /\ y.op = "advance" /\ y.ch = c
      /\ Now.op \in {"advance", "smooth"} => todo' # <<>> /\ y.op \in {"smooth", "countDown"} /\ y.ch = c
      /\ Now.op = "storeBits" /\ Untaken(Now) => todo' # <<>> /\ y.op \in {"smooth", "countDown"} /\ y.ch = c
  BY <1>4 DEF Leads, Untaken
<1> QED BY <1>5, <1>6 DEF Mode, At, Doing

-----------------------------------------------------------------------------
(***************************************************************************)
(* The steps keep the samples in order.                                    *)
(***************************************************************************)
\* A buffer that was given up.
LEMMA OrderedLost ==
  ASSUME NEW s, NEW g, NEW x, NEW n \in Nat, g \in 0 .. n, Void(s), s.buf.size = 0
  PROVE  Ordered(s, "idle", g, x, n)
<1>1. \A p : Rising(s.buf, p, g, n) /\ Newest(s, p, g, n) /\ Aligned(s.buf, p)
  BY DEF Void, Rising, Newest, Aligned
<1> QED BY <1>1 DEF Ordered, After, Front

\* What a step does to the sample in the register and the last one taken.
LEMMA StepSample ==
  ASSUME Step
  PROVE  /\ Now.op \notin {"process", "copyFresh", "copy", "return"} => sample' = sample
         /\ Now.op = "copyFresh" => sample' = Mine.value
         /\ Now.op = "copy" => sample' = Mine.buf.data[Mine.buf.rptr]
         /\ got' = IF Now.op = "return" THEN [got EXCEPT ![Now.ch] = sample] ELSE got
  BY Kinds DEF kept, Copied,
     LoadBits, StoreBits, LoadActive, StoreActive, Setup, SetSize, Realloc, ZeroCount, ZeroWptr, ZeroRptr, Request, Start, Disable, Idle, Wait, Process, Pick, CopyFresh, Copy, Decrement, Advance, Smooth, CountDown, Return, Resmooth, Unsmooth

\* What it does to the rest of the channel.
LEMMA StepBuffer ==
  ASSUME Values, Formed(todo), Step, Now.op # "start"
  PROVE  LET s == Mine
             u == ch'[Now.ch]
         IN /\ u.value = s.value
            /\ Now.op \notin {"size", "realloc", "count0", "wptr0", "rptr0", "decrement", "advance"} => u.buf = s.buf
            /\ Now.op = "decrement" => u.buf = [s.buf EXCEPT !.count = @ - 1]
            /\ Now.op = "advance" => u.buf = [s.buf EXCEPT !.rptr = ModIncr(s.buf, @)] /\ u.bits = s.bits
            /\ Now.op = "rptr0" => u.buf.rptr = 0
            /\ Now.op \notin {"storeBits", "resmooth"} => (Warming(u) => Warming(s))
            /\ Now.op = "storeBits" => u.len = s.len
<1> DEFINE s == Mine
           u == ch'[Now.ch]
<1>1. s \in Channel /\ s.buf \in Buffer
  BY StepChannel
<1>2. /\ Now.op \notin {"storeBits", "size", "realloc", "count0", "wptr0", "rptr0", "request",
                        "decrement", "advance", "smooth", "countDown", "resmooth", "unsmooth"} => u = s
      /\ Now.op = "storeBits" => u.buf = s.buf /\ u.value = s.value /\ u.len = s.len
      /\ Now.op \in {"request", "countDown", "unsmooth"} =>
           u.buf = s.buf /\ u.value = s.value /\ u.len = s.len /\ u.bits = s.bits
      /\ Now.op \in {"size", "realloc", "count0", "wptr0", "rptr0", "decrement", "advance"} =>
           u.value = s.value /\ u.len = s.len /\ u.bits = s.bits
  BY <1>1, StepChannel DEF Channel
<1>3. Now.op = "smooth" => /\ u.buf = s.buf /\ u.value = s.value /\ u.len = s.len
                           /\ u.bits \in {s.bits, s.bits \union {"ready"}}
  BY <1>1, StepChannel, ZenonT(40) DEF Channel, SmoothData
<1>4. Now.op = "resmooth" => u.buf = s.buf /\ u.value = s.value
  BY <1>1, StepChannel DEF Channel
<1>5. /\ Now.op = "rptr0" => u.buf = [s.buf EXCEPT !.rptr = 0]
      /\ Now.op = "decrement" => u.buf = [s.buf EXCEPT !.count = @ - 1]
      /\ Now.op = "advance" => u.buf = [s.buf EXCEPT !.rptr = ModIncr(s.buf, @)]
  BY <1>1, StepChannel DEF Channel
<1> HIDE DEF u, s
<1>6. Now.op = "rptr0" => u.buf.rptr = 0
  BY <1>1, <1>5 DEF Buffer
<1>7. Now.op \notin {"storeBits", "resmooth"} => u.len = s.len /\ ("ready" \in s.bits => "ready" \in u.bits)
  BY <1>2, <1>3, Kinds
<1>8. Now.op \notin {"storeBits", "resmooth"} => (Warming(u) => Warming(s))
  BY <1>7 DEF Warming
<1>9. u.value = s.value
  BY <1>2, <1>3, <1>4, Kinds
<1>10. Now.op \notin {"size", "realloc", "count0", "wptr0", "rptr0", "decrement", "advance"} => u.buf = s.buf
  BY <1>2, <1>3, <1>4, Kinds
<1> QED BY <1>2, <1>5, <1>6, <1>8, <1>9, <1>10 DEF u, s

\* An empty channel gets no sample in a step.
LEMMA VoidStays ==
  ASSUME HInv, Step, NEW c \in Channels, Void(ch[c])
  PROVE  Void(ch'[c])
<1>1. todo # <<>> /\ Values /\ Formed(todo) /\ IInv /\ Now \in Steps /\ Taken /\ Apart
  BY Aside DEF HInv, IInv
<1>2. CASE Now.op = "start"
  BY <1>1, <1>2, StepStart DEF Void
<1>3. CASE Now.op # "start" /\ c # Now.ch
  BY <1>1, <1>3, StepChannel
<1>4. CASE Now.op # "start" /\ c = Now.ch
  <2>1. Now.op # "decrement"
    BY <1>1, <1>4 DEF Taken, Doing, Void, Mine
  <2>2. ch'[c].buf.count = 0
    BY <1>1, <1>4, <2>1, StepFields DEF Void, Mine
  <2>3. CASE Now.op # "storeBits"
    BY <1>1, <1>4, <2>2, <2>3, StepFields DEF Void, Mine
  <2>4. CASE Now.op = "storeBits"
    <3>1. "fresh" \notin word
      BY <1>1, <1>4, <2>4 DEF Apart, Doing, Void, Mine
    <3>2. Now.bit = "fresh" => ~Now.on
      BY <1>1, <2>4, Fields
    <3>3. ch'[c].bits = IF Now.on THEN word \union {Now.bit} ELSE word \ {Now.bit}
      BY <1>1, <1>4, <2>4, StepFields
    <3> QED BY <2>2, <3>1, <3>2, <3>3 DEF Void
  <2> QED BY <2>3, <2>4
<1> QED BY <1>2, <1>3, <1>4

\* A step that finds the channel empty.
LEMMA StepVoid ==
  ASSUME OInv, Step,
         Now.op \in {"size", "realloc", "count0", "wptr0", "rptr0", "resmooth"} \/ (Now.op = "storeBits" /\ Now.bit = "ready")
  PROVE  Now.ch \in Channels /\ Void(Mine) /\ Void(ch'[Now.ch])
<1>1. todo # <<>> /\ IInv /\ Now = todo[1] /\ 1 \in 1 .. Len(todo) /\ HInv /\ Now.ch \in Channels
  BY Aside DEF OInv, HInv
<1>2. CASE Now.op \in {"size", "realloc"}
  <2>1. Preparing(todo)
    BY <1>1, <1>2, Relied
  <2>2. Void(Mine)
    BY <1>1, <1>2, <2>1, Relied
  <2> QED BY <1>1, <2>2, VoidStays DEF Mine
<1>3. CASE Now.op \notin {"size", "realloc"}
  <2>1. Void(Mine)
    BY <1>1, <1>3 DEF OInv, Emptied, Resets, Mine
  <2> QED BY <1>1, <2>1, VoidStays DEF Mine
<1> QED BY <1>2, <1>3

\* The samples of a channel the step does not concern stay in order.
LEMMA OrderedApart ==
  ASSUME OInv, Step, NEW c \in Channels \ overtook, c # Now.ch \/ Now.op = "start"
  PROVE  Ordered(ch[c], Mode(c), got[c], sample, made)'
<1>1. /\ HInv /\ Values /\ Formed(todo) /\ todo # <<>> /\ ch[c] \in Channel /\ made \in Nat /\ IInv
      /\ Ordered(ch[c], Mode(c), got[c], sample, made) /\ got \in [Channels -> Nat]
  <2>1. HInv /\ Values /\ Formed(todo) /\ todo # <<>> /\ IInv
    BY Aside DEF OInv, HInv
  <2>2. made \in Nat
    BY <2>1, AdcAssumption DEF Values
  <2> QED BY <2>1, <2>2 DEF OInv, InOrder, Values
<1>2. Mode(c)' = "idle"
  BY ModeFrom
<1>3. Mode(c) = "idle"
  BY DEF Mode, At, Doing, Untaking
<1>4. made' = made /\ got'[c] = got[c]
  <2>1. made' = made
    BY <1>1, StepTodo
  <2>2. Now.op = "return" => c # Now.ch
    OBVIOUS
  <2> QED BY <1>1, <2>1, <2>2, StepSample
<1>5. ch'[c].buf = ch[c].buf /\ ch'[c].value = ch[c].value /\ ("fresh" \in ch'[c].bits => "fresh" \in ch[c].bits)
  <2>1. CASE Now.op = "start"
    BY <1>1, <2>1, StepStart
  <2>2. CASE Now.op # "start"
    BY <1>1, <2>2, StepChannel
  <2> QED BY <2>1, <2>2
<1>6. Ordered(ch[c], "idle", got[c], sample', made)
  BY <1>1, <1>3, OrderedIdle
<1>7. Ordered(ch'[c], "idle", got[c], sample', made)
  BY <1>5, <1>6, OrderedSame
<1> QED BY <1>2, <1>4, <1>7

\* Those of the channel of the step: taking a sample out.
LEMMA OrderedTake ==
  ASSUME OInv, Step, NEW c \in Channels \ overtook, c = Now.ch, c \notin overtook',
         Now.op \in {"pick", "copy", "copyFresh", "decrement", "advance", "smooth", "countDown", "return", "loadBits", "process"}
  PROVE  Ordered(ch'[c], Mode(c)', got'[c], sample', made)
<1> DEFINE s == ch[c]
           u == ch'[c]
           m == Mode(c)
           r == Mode(c)'
           g == got[c]
           n == made
<1>1. /\ HInv /\ IInv /\ Values /\ Formed(todo) /\ todo # <<>> /\ s \in Channel /\ n \in Nat
      /\ Ordered(s, m, g, sample, n) /\ got \in [Channels -> Nat] /\ s = Mine /\ Taken
  <2>1. HInv /\ Values /\ Formed(todo) /\ todo # <<>> /\ IInv
    BY Aside DEF OInv, HInv
  <2>2. made \in Nat
    BY <2>1, AdcAssumption DEF Values
  <2> QED BY <2>1, <2>2 DEF OInv, InOrder, Values, Mine, HInv, IInv
<1>2. /\ Now.op \notin {"process", "copyFresh", "copy", "return"} => sample' = sample
      /\ Now.op = "copyFresh" => sample' = s.value
      /\ Now.op = "copy" => sample' = s.buf.data[s.buf.rptr]
      /\ Now.op # "return" => got'[c] = g
      /\ Now.op = "return" => got'[c] = sample
  BY <1>1, StepSample
<1>3. /\ u.value = s.value
      /\ Now.op \notin {"decrement", "advance"} => u.buf = s.buf
      /\ Now.op = "decrement" => u.buf = [s.buf EXCEPT !.count = @ - 1]
      /\ Now.op = "advance" => u.buf = [s.buf EXCEPT !.rptr = ModIncr(s.buf, @)] /\ u.bits = s.bits
      /\ "fresh" \in u.bits <=> "fresh" \in s.bits
  BY <1>1, StepBuffer, StepFields
<1>4. /\ Now.op \in {"pick", "copy", "process"} => m = "idle"
      /\ Now.op = "copyFresh" => m = "chosen"
      /\ Now.op = "decrement" => m = "copied"
      /\ Now.op = "advance" => m = "read"
      /\ Now.op \in {"smooth", "countDown", "return"} => m = "held"
      /\ Now.op = "loadBits" => m \in {"fresh", "idle"}
  BY <1>1 DEF Mode, At, Doing, Untaking
<1>5. /\ Now.op = "pick" => r \in {"chosen", "idle"} /\ (r = "chosen" => "fresh" \in s.bits)
      /\ Now.op = "copy" => r \in {"copied", "idle"}
      /\ Now.op = "copyFresh" => r \in {"fresh", "idle"}
      /\ Now.op = "decrement" => r = "read"
      /\ Now.op \in {"advance", "smooth"} => r = "held"
      /\ Now.op = "countDown" => r \in {"held", "idle"}
      /\ Now.op \in {"return", "process"} => r = "idle"
      /\ Now.op = "loadBits" => r = "idle" \/ (r = "fresh" /\ m = "fresh")
  <2>1. /\ Now.op = "decrement" => r = "read"
        /\ Now.op \in {"advance", "smooth"} => r = "held"
    BY ModeTo
  <2>2. r \in {"flush", "rewind", "copied", "read", "held", "chosen", "fresh", "idle"}
    BY DEF Mode
  <2> QED BY <1>1, <2>1, <2>2, ModeFrom
<1> HIDE DEF s, u, m, r, g, n
<1>6. ASSUME r = "idle", m \in {"idle", "chosen", "fresh"},
             Now.op \in {"pick", "copy", "copyFresh", "process", "loadBits"}
      PROVE  Ordered(u, r, g, sample', n)
  <2>1. Ordered(s, "idle", g, sample', n)
    BY <1>1, <1>6, OrderedIdle
  <2> QED BY <1>3, <1>6, <2>1, OrderedSame
<1>7. CASE Now.op = "copy"
  <2>1. s.buf.size # 0
    <3>1. s.buf.size >= 1
      BY <1>1, <1>7 DEF Taken, Doing
    <3> QED BY <3>1
  <2>2. Ordered(s, "copied", g, sample', n)
    BY <1>1, <1>2, <1>4, <1>7, <2>1, OrderedCopy
  <2>3. Ordered(u, "copied", g, sample', n)
    BY <1>3, <1>7, <2>2, OrderedSame
  <2> QED BY <1>2, <1>4, <1>5, <1>6, <1>7, <2>3 DEF u, r, n
<1>8. CASE Now.op = "copyFresh"
  <2>1. Ordered(s, "fresh", g, sample', n)
    BY <1>1, <1>2, <1>4, <1>8, OrderedChosen
  <2>2. Ordered(u, "fresh", g, sample', n)
    BY <1>3, <1>8, <2>1, OrderedSame
  <2> QED BY <1>2, <1>4, <1>5, <1>6, <1>8, <2>2 DEF u, r, n
<1>9. CASE Now.op = "decrement"
  <2>1. s.buf.count >= 1
    BY <1>1, <1>9 DEF Taken, Doing
  <2>2. Ordered(u, "read", g, sample, n)
    BY <1>1, <1>3, <1>4, <1>9, <2>1, OrderedDecrement
  <2> QED BY <1>2, <1>5, <1>9, <2>2 DEF u, r, n
<1>10. CASE Now.op = "advance"
  <2>1. Ordered(u, "held", g, sample, n)
    BY <1>1, <1>3, <1>4, <1>10, OrderedAdvance
  <2> QED BY <1>2, <1>5, <1>10, <2>1 DEF u, r, n
<1>11. CASE Now.op \in {"smooth", "countDown"}
  <2>1. Ordered(u, "held", g, sample, n)
    BY <1>1, <1>3, <1>4, <1>11, OrderedSame
  <2>2. Ordered(s, "idle", g, sample, n)
    BY <1>1, <1>4, <1>11, OrderedTaken
  <2>3. Ordered(u, "idle", g, sample, n)
    BY <1>3, <1>11, <2>2, OrderedSame
  <2> QED BY <1>2, <1>5, <1>11, <2>1, <2>3 DEF u, r, n
<1>12. CASE Now.op = "return"
  <2>1. Ordered(s, "idle", sample, sample', n)
    BY <1>1, <1>4, <1>12, OrderedTaken
  <2>2. Ordered(u, "idle", sample, sample', n)
    BY <1>3, <1>12, <2>1, OrderedSame
  <2> QED BY <1>2, <1>5, <1>12, <2>2 DEF u, r, n
<1>13. CASE Now.op = "loadBits"
  <2>1. CASE r = "idle"
    BY <1>2, <1>4, <1>6, <1>13, <2>1 DEF u, r, n
  <2>2. CASE r = "fresh" /\ m = "fresh"
    <3>1. Ordered(u, "fresh", g, sample, n)
      BY <1>1, <1>3, <1>13, <2>2, OrderedSame
    <3> QED BY <1>2, <1>13, <2>2, <3>1 DEF u, r, n
  <2> QED BY <1>5, <1>13, <2>1, <2>2
<1>14. CASE Now.op = "process"
  BY <1>2, <1>4, <1>5, <1>6, <1>14 DEF u, r, n
<1>15. CASE Now.op = "pick"
  <2>1. CASE r = "chosen"
    <3>1. s.buf.count = 0
      BY <1>1, <1>5, <1>15, <2>1, StepHistory
    <3>2. Ordered(s, "idle", g, sample, n)
      BY <1>1, <1>4, <1>15
    <3>3. Ordered(s, "chosen", g, sample, n)
      BY <1>1, <3>1, <3>2, OrderedChosen
    <3>4. Ordered(u, "chosen", g, sample, n)
      BY <1>3, <1>15, <3>3, OrderedSame
    <3> QED BY <1>2, <1>15, <2>1, <3>4 DEF u, r, n
  <2>2. CASE r = "idle"
    BY <1>2, <1>4, <1>6, <1>15, <2>2 DEF u, r, n
  <2> QED BY <1>5, <1>15, <2>1, <2>2
<1> QED BY <1>7, <1>8, <1>9, <1>10, <1>11, <1>12, <1>13, <1>14, <1>15

\* Those of the channel of the step: flushing, flags and the other steps.
LEMMA OrderedTune ==
  ASSUME OInv, Step, NEW c \in Channels \ overtook, c = Now.ch, Now.op # "start",
         Now.op \notin {"pick", "copy", "copyFresh", "decrement", "advance", "smooth", "countDown", "return", "loadBits", "process"}
  PROVE  Ordered(ch'[c], Mode(c)', got'[c], sample', made)
<1> DEFINE s == ch[c]
           u == ch'[c]
           m == Mode(c)
           r == Mode(c)'
           g == got[c]
           n == made
           x == sample
<1>1. /\ HInv /\ IInv /\ Values /\ Formed(todo) /\ todo # <<>> /\ s \in Channel /\ n \in Nat
      /\ Ordered(s, m, g, x, n) /\ got \in [Channels -> Nat] /\ s = Mine /\ Found /\ Apart /\ Now \in Steps
  <2>1. HInv /\ Values /\ Formed(todo) /\ todo # <<>> /\ IInv /\ Now \in Steps
    BY Aside DEF OInv, HInv
  <2>2. made \in Nat
    BY <2>1, AdcAssumption DEF Values
  <2> QED BY <2>1, <2>2 DEF OInv, InOrder, Values, Mine, HInv
<1>2. sample' = x /\ got'[c] = g /\ g \in 0 .. n
  <2>1. g \in 0 .. n
    BY <1>1 DEF Ordered
  <2> QED BY <1>1, <2>1, StepSample
<1>3. /\ u.value = s.value
      /\ Now.op \notin {"size", "realloc", "count0", "wptr0", "rptr0"} => u.buf = s.buf
      /\ Now.op # "storeBits" => ("fresh" \in u.bits <=> "fresh" \in s.bits)
      /\ Now.op = "wptr0" => u.buf.wptr = 0
      /\ Now.op = "rptr0" => u.buf.rptr = 0 /\ u.buf.wptr = s.buf.wptr
      /\ Now.op = "realloc" => todo' = Tail(todo) \/ u.buf.size = 0
  BY <1>1, StepBuffer, StepFields DEF Fails
<1>4. /\ Now.op = "rptr0" => m = "rewind"
      /\ Now.op = "storeBits" => m = IF Untaken(Now) THEN "fresh" ELSE "idle"
      /\ Now.op \notin {"realloc", "count0", "wptr0", "rptr0", "storeBits"} => m = "idle"
  BY <1>1 DEF Mode, At, Doing, Untaking
<1>5. /\ r \in {"flush", "rewind", "held", "idle"}
      /\ r = "flush" => Now.op \in {"size", "realloc", "count0"} \/ (Now.op = "storeBits" /\ Now.bit = "ready")
      /\ r = "rewind" => Now.op = "wptr0"
      /\ r = "held" <=> Now.op = "storeBits" /\ Untaken(Now)
      /\ Now.op \in {"size", "count0"} => r = "flush"
      /\ Now.op = "realloc" => r = "flush" \/ todo' # Tail(todo)
      /\ Now.op = "wptr0" => r = "rewind"
  <2>1. r \in {"flush", "rewind", "copied", "read", "held", "chosen", "fresh", "idle"}
    BY DEF Mode
  <2> QED BY <2>1, ModeFrom, ModeTo
<1>6. /\ Now.op \in {"size", "realloc", "count0", "wptr0", "rptr0"} \/ (Now.op = "storeBits" /\ Now.bit = "ready") => Void(u)
  BY StepVoid
<1>7. u \in Channel /\ u.buf.size \in Nat
  <2>1. u \in Channel
    BY <1>1, ChannelTyped
  <2>2. u.buf \in Buffer /\ MaxSize \in Nat
    BY <2>1, BufAssumption DEF Channel
  <2> HIDE DEF u
  <2>3. u.buf.size \in 0 .. MaxSize
    BY <2>2 DEF Buffer
  <2> QED BY <2>1, <2>2, <2>3
<1>8. Now.op = "storeBits" => /\ "fresh" \in u.bits => "fresh" \in s.bits
                              /\ Untaken(Now) => "fresh" \in s.bits /\ "fresh" \notin u.bits
  <2> SUFFICES ASSUME Now.op = "storeBits"
               PROVE  /\ "fresh" \in u.bits => "fresh" \in s.bits
                      /\ Untaken(Now) => "fresh" \in s.bits /\ "fresh" \notin u.bits
    OBVIOUS
  <2>1. word = s.bits
    BY <1>1 DEF Apart, Doing
  <2>2. u.bits = IF Now.on THEN word \union {Now.bit} ELSE word \ {Now.bit}
    BY <1>1, StepFields
  <2>3. Now.bit = "fresh" => ~Now.on
    BY <1>1, Fields
  <2>4. Untaken(Now) => "fresh" \in s.bits
    BY <1>1 DEF Found, Doing
  <2> QED BY <2>1, <2>2, <2>3, <2>4 DEF Untaken
<1> HIDE DEF s, u, m, r, g, n, x
<1>9. CASE r = "flush"
  <2>1. Void(u)
    BY <1>5, <1>6, <1>9
  <2>2. Ordered(u, "flush", g, x, n)
    BY <1>1, <1>2, <2>1, OrderedVoid
  <2> QED BY <1>2, <1>9, <2>2 DEF u, r, n
<1>10. CASE r = "rewind"
  <2>1. Void(u) /\ u.buf.wptr = 0
    BY <1>3, <1>5, <1>6, <1>10
  <2>2. Ordered(u, "rewind", g, x, n)
    BY <1>1, <1>2, <2>1, OrderedVoid
  <2> QED BY <1>2, <1>10, <2>2 DEF u, r, n
<1>11. CASE r = "held"
  <2>1. Now.op = "storeBits" /\ m = "fresh" /\ "fresh" \in s.bits /\ "fresh" \notin u.bits /\ u.buf = s.buf
    BY <1>3, <1>4, <1>5, <1>8, <1>11
  <2>2. Ordered(u, "held", g, x, n)
    BY <1>1, <2>1, OrderedUntake
  <2> QED BY <1>2, <1>11, <2>2 DEF u, r, n
<1>12. CASE r = "idle" /\ Now.op \notin {"realloc", "rptr0"}
  <2>1. m = "idle" /\ Now.op \notin {"size", "realloc", "count0", "wptr0", "rptr0"}
    BY <1>4, <1>5, <1>12
  <2>2. "fresh" \in u.bits => "fresh" \in s.bits
    BY <1>3, <1>8
  <2>3. Ordered(u, "idle", g, x, n)
    BY <1>1, <1>3, <2>1, <2>2, OrderedSame
  <2> QED BY <1>2, <1>12, <2>3 DEF u, r, n
<1>13. CASE r = "idle" /\ Now.op = "rptr0"
  <2>1. Void(u) /\ u.buf.rptr = 0 /\ u.buf.wptr = 0
    BY <1>1, <1>3, <1>4, <1>6, <1>13 DEF Ordered
  <2>2. Ordered(u, "idle", g, x, n)
    BY <1>1, <1>2, <1>7, <2>1, OrderedFlushed
  <2> QED BY <1>2, <1>13, <2>2 DEF u, r, n
<1>14. CASE r = "idle" /\ Now.op = "realloc"
  <2>1. Void(u) /\ u.buf.size = 0
    BY <1>3, <1>5, <1>6, <1>14
  <2>2. Ordered(u, "idle", g, x, n)
    BY <1>1, <1>2, <2>1, OrderedLost
  <2> QED BY <1>2, <1>14, <2>2 DEF u, r, n
<1> QED BY <1>5, <1>9, <1>10, <1>11, <1>12, <1>13, <1>14

\* The steps keep the samples in order.
LEMMA InOrderStep ==
  ASSUME OInv, Step
  PROVE  InOrder'
<1>1. /\ got \in [Channels -> Nat] /\ HInv /\ Values /\ Formed(todo) /\ made' = made /\ sample \in Nat
  <2>1. HInv /\ Values /\ Formed(todo)
    BY Aside DEF OInv, HInv
  <2>2. sample \in Nat
    BY <2>1, AdcAssumption DEF Values
  <2> QED BY <2>1, <2>2, StepTodo DEF OInv, InOrder
<1>2. got' \in [Channels -> Nat]
  BY <1>1, StepSample
<1>3. ASSUME NEW c \in Channels, c \notin overtook' PROVE Ordered(ch[c], Mode(c), got[c], sample, made)'
  <2>a. c \in Channels \ overtook
    BY <1>3, StepHistory
  <2>1. CASE c # Now.ch \/ Now.op = "start"
    BY <2>1, <2>a, OrderedApart
  <2>2. CASE c = Now.ch /\ Now.op # "start"
    BY <1>1, <1>3, <2>2, <2>a, OrderedTake, OrderedTune
  <2> QED BY <2>1, <2>2
<1> QED BY <1>2, <1>3 DEF InOrder

\* The smoothing ring stays full while there are samples.
LEMMA WarmedStep ==
  ASSUME OInv, Step
  PROVE  Warmed'
<1> SUFFICES ASSUME NEW c \in Channels, Warming(ch'[c]) PROVE Available(ch'[c]) = 0
  BY DEF Warmed, Warming, Available
<1>1. /\ HInv /\ IInv /\ Values /\ Formed(todo) /\ todo # <<>> /\ Taken /\ Apart
      /\ Warming(ch[c]) => Available(ch[c]) = 0
  BY Aside DEF OInv, HInv, IInv, Warmed
<1>2. ch[c].buf.count \in Nat
  BY <1>1, Numbers
<1>3. Void(ch'[c]) => Available(ch'[c]) = 0
  BY DEF Void, Available
<1>4. Available(ch[c]) = 0 => Void(ch[c])
  BY <1>2 DEF Available, Void
<1>5. CASE Warming(ch[c])
  BY <1>1, <1>3, <1>4, <1>5, VoidStays
<1>6. CASE Now.op = "start"
  <2>1. ch'[c].len = ch[c].len /\ ch'[c].bits \in {ch[c].bits, ch[c].bits \ {"fresh"}}
    BY <1>1, <1>6, StepStart
  <2>2. Warming(ch[c])
    BY <2>1 DEF Warming
  <2> QED BY <1>5, <2>2
<1>7. CASE Now.op # "start" /\ c # Now.ch
  <2>1. ch'[c] = ch[c]
    BY <1>1, <1>7, StepChannel
  <2> QED BY <1>1, <2>1
<1>8. CASE Now.op # "start" /\ c = Now.ch
  <2>1. CASE Now.op = "resmooth" \/ (Now.op = "storeBits" /\ Now.bit = "ready")
    BY <1>3, <1>8, <2>1, StepVoid
  <2>2. CASE Now.op \notin {"storeBits", "resmooth"}
    BY <1>1, <1>5, <1>8, <2>2, StepBuffer DEF Mine
  <2>3. CASE Now.op = "storeBits" /\ Now.bit # "ready"
    <3>1. word = ch[c].bits
      BY <1>1, <1>8, <2>3 DEF Apart, Doing, Mine
    <3>2. ch'[c].bits = (IF Now.on THEN word \union {Now.bit} ELSE word \ {Now.bit}) /\ ch'[c].len = ch[c].len
      BY <1>1, <1>8, <2>3, StepFields, StepBuffer DEF Mine
    <3>3. Warming(ch[c])
      BY <2>3, <3>1, <3>2 DEF Warming
    <3> QED BY <1>5, <3>3
  <2> QED BY <2>1, <2>2, <2>3
<1> QED BY <1>6, <1>7, <1>8

\* What is to be flushed is empty still.
LEMMA EmptiedStep ==
  ASSUME OInv, Step
  PROVE  Emptied'
<1>1. /\ HInv /\ IInv /\ Values /\ Formed(todo) /\ Formed(todo') /\ Emptied
      /\ todo # <<>> /\ Len(todo) \in Nat /\ todo \in Seq(Steps)
  BY Aside DEF OInv, HInv
<1> SUFFICES ASSUME NEW i \in 1 .. Len(todo'), Resets(todo'[i]) PROVE Void(ch'[todo'[i].ch])
  BY DEF Emptied, Resets, Void
<1>2. todo'[i] \in Steps
  BY <1>1 DEF Formed
<1>3. todo'[i].ch \in Channels
  BY <1>2, Fields DEF Resets
<1>4. \/ /\ todo'[i].ch = Now.ch
         /\ \/ Now.op = "setup" /\ todo'[i] \in Preparations
            \/ Now.op \in {"wait", "process", "pick"} /\ todo'[i] \in Takings(Now.ch)
      \/ \E k \in 2 .. Len(todo) : todo'[i] = todo[k]
  BY <1>1, StepRest
<1>5. todo'[i] \notin Takings(Now.ch)
  BY DEF Takings, Resets
<1>6. CASE todo'[i].ch = Now.ch /\ Now.op = "setup"
  <2>1. Void(Mine)
    BY <1>1, <1>6, Relied
  <2> QED BY <1>1, <1>3, <1>6, <2>1, VoidStays DEF Mine
<1>7. CASE \E k \in 2 .. Len(todo) : todo'[i] = todo[k]
  <2>1. PICK k \in 2 .. Len(todo) : todo'[i] = todo[k]
    BY <1>7
  <2>2. k \in 1 .. Len(todo)
    BY <1>1
  <2>3. Void(ch[todo'[i].ch])
    BY <1>1, <2>1, <2>2 DEF Emptied
  <2> QED BY <1>1, <1>3, <2>3, VoidStays
<1> QED BY <1>4, <1>5, <1>6, <1>7

-----------------------------------------------------------------------------
(***************************************************************************)
(* There are as many samples as the loop of adc_getsamples has turns.      *)
(***************************************************************************)
\* The turns of the loop of adc_getsamples left are those that were left.
LEMMA Turns ==
  ASSUME HInv, Step, Now.op # "wait", NEW i \in 1 .. Len(todo'), todo'[i].op = "process"
  PROVE  \E k \in 2 .. Len(todo) : todo'[i] = todo[k] /\ Len(todo') - i = Len(todo) - k
<1> DEFINE Q == {x \in Steps : x.op # "process"}
           t == Tail(todo)
           c == Now.ch
<1>1. /\ Values /\ Formed(todo) /\ todo # <<>> /\ Len(todo) \in Nat \ {0} /\ Now \in Steps
      /\ t \in Seq(Steps) /\ Len(t) = Len(todo) - 1 /\ \A k \in 1 .. Len(todo) - 1 : t[k] = todo[k + 1]
      /\ Now.op # "start" => c \in Channels
  BY Aside, Ahead
<1>2. <<>> \in Seq(Q) /\ t = <<>> \o t
  <2>1. <<>> \in Seq(Q)
    OBVIOUS
  <2> QED BY <1>1, <2>1, NoSteps
<1>3. todo' = <<>> \/ \E s \in Seq(Q) : todo' = s \o t
  <2>1. CASE Now.op = "setup"
    <3>1. PICK s \in Seq({x \in Preparations : x.ch = c}) : todo' = s \o t
      BY <1>1, <2>1, Kinds, SetupLists
    <3>2. {x \in Preparations : x.ch = c} \subseteq Q
      BY DEF Preparations
    <3> HIDE DEF Q, t, c
    <3>3. s \in Seq(Q)
      BY <3>2
    <3> QED BY <3>1, <3>3
  <2>2. CASE Now.op \in {"process", "pick"}
    <3>1. \A op \in {"return", "pick", "smooth", "countDown", "copyFresh", "copy", "decrement", "advance", "loadBits"} :
            [op |-> op, ch |-> c] \in Q
      BY <1>1, <2>2, StepKinds
    <3>2. [op |-> "storeBits", ch |-> c, bit |-> "fresh", on |-> FALSE] \in Q
      BY <1>1, <2>2, StepKinds
    <3> HIDE DEF Q
    <3>a. \A S : \A x \in S, y \in S, z \in S :
            /\ <<x>> \in Seq(S) /\ <<x>> \o <<y>> \in Seq(S)
            /\ <<x>> \o <<y>> \o <<z>> \in Seq(S) /\ <<x>> \o (<<y>> \o <<z>>) \in Seq(S)
      OBVIOUS
    <3>3. \A op \in {"return", "pick", "smooth", "countDown", "copyFresh", "copy", "decrement", "advance"} :
            Do(op, c) \in Seq(Q)
      BY <3>1 DEF Do
    <3>4. TakeFresh(c) \in Seq(Q)
      BY <3>1, <3>2, <3>a DEF Do, SetBit, TakeFresh
    <3>5. Finish(c) \in Seq(Q) /\ TakeFresh(c) \in Seq(Q) /\ BufRead(c) \in Seq(Q)
      BY <3>1, <3>4, <3>a DEF Do, Finish, BufRead
    <3>6. Do("pick", c) \o <<>> \o Finish(c) \in Seq(Q) /\ Do("pick", c) \o Do("smooth", c) \o Finish(c) \in Seq(Q)
      <4>1. Do("pick", c) \in Seq(Q) /\ Do("smooth", c) \in Seq(Q)
        BY <3>3
      <4> QED BY <1>2, <3>5, <4>1
    <3>7. CASE Now.op = "process"
      <4>1. \/ todo' = Do("return", c) \o t
            \/ todo' = (Do("pick", c) \o <<>> \o Finish(c)) \o t
            \/ todo' = (Do("pick", c) \o Do("smooth", c) \o Finish(c)) \o t
        BY <3>7, Kinds DEF Process, Then
      <4>2. Do("return", c) \in Seq(Q)
        BY <3>3
      <4> QED BY <3>6, <4>1, <4>2
    <3>8. CASE Now.op = "pick"
      <4>1. todo' = TakeFresh(c) \o t \/ todo' = BufRead(c) \o t \/ todo' = <<>> \o t
        BY <3>8, Kinds DEF Pick, Then
      <4> QED BY <1>2, <3>5, <4>1
    <3> QED BY <2>2, <3>7, <3>8
  <2>3. CASE Now.op \notin {"setup", "process", "pick"}
    <3>1. todo' = t \/ todo' = <<>>
      BY <1>1, <2>3, StepTodo
    <3> QED BY <1>2, <3>1
  <2> QED BY <2>1, <2>2, <2>3
<1>4. todo' # <<>>
  BY Len(<<>>) = 0
<1>5. PICK s \in Seq(Q) : todo' = s \o t
  BY <1>3, <1>4
<1> HIDE DEF t
<1>6. s \in Seq(Steps) /\ \A k \in 1 .. Len(s) : s[k].op # "process"
  OBVIOUS
<1>7. /\ Len(todo') = Len(s) + Len(t) /\ Len(s) \in Nat /\ Len(t) \in Nat
      /\ \/ i \in 1 .. Len(s) /\ todo'[i] = s[i]
         \/ i - Len(s) \in 1 .. Len(t) /\ todo'[i] = t[i - Len(s)]
  <2>1. todo' = s \o t /\ s \in Seq(Steps) /\ t \in Seq(Steps)
    BY <1>1, <1>5, <1>6
  <2>2. Len(s \o t) = Len(s) + Len(t) /\ Len(s) \in Nat /\ Len(t) \in Nat
    BY <2>1, CatFacts
  <2>3. i \in 1 .. Len(s \o t)
    BY <2>1
  <2> HIDE DEF Q
  <2>4. \/ i \in 1 .. Len(s) /\ (s \o t)[i] = s[i]
        \/ i - Len(s) \in 1 .. Len(t) /\ (s \o t)[i] = t[i - Len(s)]
    BY ONLY <2>1, <2>3, CatElements
  <2> QED BY <2>1, <2>2, <2>4
<1>8. i - Len(s) \in 1 .. Len(t) /\ todo'[i] = t[i - Len(s)]
  BY <1>6, <1>7
<1> DEFINE k == i - Len(s) + 1
<1>9. k \in 2 .. Len(todo) /\ k - 1 \in 1 .. Len(todo) - 1 /\ i - Len(s) = k - 1 /\ Len(todo') - i = Len(todo) - k
  BY <1>1, <1>7, <1>8
<1> HIDE DEF k
<1>10. todo'[i] = todo[k]
  <2>1. t[k - 1] = todo[k - 1 + 1] /\ k - 1 + 1 = k
    BY <1>1, <1>9
  <2> QED BY <1>8, <1>9, <2>1
<1> QED BY <1>9, <1>10

\* The loop has a turn per sample at most.
LEMMA TurnsAtFirst ==
  ASSUME HInv, Step, Now.op = "wait"
  PROVE  /\ Len(todo') \in Nat /\ Len(todo') <= Available(Mine)
         /\ \A i \in 1 .. Len(todo') : todo'[i] = [op |-> "process", ch |-> Now.ch]
<1> DEFINE m == IF Now.n = 0 THEN Available(Mine) ELSE Smaller(Now.n, Available(Mine))
           s == [k \in 1 .. m |-> [op |-> "process", ch |-> Now.ch]]
<1>1. /\ Values /\ Formed(todo) /\ todo # <<>> /\ Now \in Steps /\ Now.ch \in Channels
  BY Aside
<1>2. Available(Mine) \in Nat /\ Counts \subseteq Nat
  BY <1>1, Numbers DEF Mine
<1>3. m \in Nat /\ m <= Available(Mine)
  <2>1. Now.n \in Nat
    <3>1. Now.n \in {0} \union Counts
      BY <1>1, Fields
    <3>2. \A k \in {0} \union Counts : k \in Nat
      BY <1>2
    <3> QED BY ONLY <3>1, <3>2
  <2> QED BY <1>2, <2>1 DEF Smaller
<1>4. todo' = s \o Tail(todo)
  BY Kinds DEF Wait, Then
<1> HIDE DEF m
<1>5. Tail(todo) = <<>>
  BY <1>1, Ahead DEF Leads
<1>6. Formed(s) /\ Len(s) = m
  BY <1>1, <1>3, WaitFormed
<1>7. todo' = s
  BY <1>4, <1>5, <1>6, NoSteps DEF Formed
<1>8. \A k \in 1 .. m : s[k] = [op |-> "process", ch |-> Now.ch]
  OBVIOUS
<1> HIDE DEF s
<1> QED BY <1>3, <1>6, <1>7, <1>8

\* Who has a sample reserved next, and what is available then.
LEMMA ReservedFrom ==
  ASSUME HInv, Step, NEW c \in Channels, Reserving', Now'.ch = c
  PROVE  /\ Now.ch = c /\ Now.op # "start"
         /\ Now.op \in {"process", "pick", "copy", "copyFresh", "request", "unsmooth", "loadBits"}
<1>1. IInv /\ todo' # <<>>
  BY DEF HInv, Reserving
<1>2. /\ Now'.ch = c
      /\ Now'.op \in {"pick", "copy", "decrement", "copyFresh", "loadBits", "storeBits"}
  BY DEF Reserving
<1>3. /\ Now.ch = c /\ Now.op # "start"
      /\ Now'.op = "pick" => Now.op = "process"
      /\ Now'.op = "copy" => Now.op = "pick"
      /\ Now'.op = "decrement" => Now.op = "copy"
      /\ Now'.op = "loadBits" => Now.op \in {"request", "unsmooth", "copyFresh"}
      /\ Now'.op = "storeBits" => Now.op = "loadBits"
  BY <1>1, <1>2, CameFrom
<1>4. Now'.op = "copyFresh" => Now.op = "pick"
  BY <1>1, FreshFrom
<1> QED BY <1>2, <1>3, <1>4

\* What a step leaves available of the samples of its channel.
LEMMA LeftAvailable ==
  ASSUME HInv, Step, Now.op # "start", ~Void(Mine), Now.op \notin {"realloc", "count0"}
  PROVE  /\ Available(ch'[Now.ch]) \in Nat
         /\ Available(ch'[Now.ch]) >= Available(Mine) - (IF Now.op = "decrement" \/ Untaken(Now) THEN 1 ELSE 0)
<1> DEFINE s == Mine
           u == ch'[Now.ch]
<1>1. /\ Values /\ Formed(todo) /\ Apart /\ Taken /\ Now.ch \in Channels /\ todo # <<>> /\ Now \in Steps
  BY Aside DEF HInv, IInv
<1>2. /\ Now.op = "decrement" => u.buf.count = s.buf.count - 1
      /\ Now.op # "decrement" => u.buf.count = s.buf.count
      /\ Now.op # "storeBits" => ("fresh" \in u.bits <=> "fresh" \in s.bits)
      /\ Now.op = "storeBits" => u.bits = IF Now.on THEN word \union {Now.bit} ELSE word \ {Now.bit}
  BY <1>1, StepFields
<1>3. Now.op = "storeBits" /\ ~Untaken(Now) => word = s.bits /\ Now.bit # "fresh"
  BY <1>1 DEF Apart, Doing, Untaken
<1>4. ~Untaken(Now) => ("fresh" \in u.bits <=> "fresh" \in s.bits)
  BY <1>2, <1>3
<1>5. s.buf.count \in Nat /\ (Now.op = "decrement" => s.buf.count >= 1)
  BY <1>1, Numbers DEF Taken, Doing, Mine
<1>6. Untaken(Now) => Now.op = "storeBits"
  BY DEF Untaken
<1> HIDE DEF s, u
<1>7. u.buf.count \in Nat
  BY <1>2, <1>5
<1>8. /\ Available(u) \in Nat
      /\ Available(u) >= Available(s) - (IF Now.op = "decrement" \/ Untaken(Now) THEN 1 ELSE 0)
  BY <1>2, <1>4, <1>5, <1>6, <1>7 DEF Available
<1> QED BY <1>8 DEF s, u

\* There stays a sample for every turn of the loop.
LEMMA CountedStep ==
  ASSUME OInv, Step
  PROVE  Counted'
<1>1. /\ HInv /\ IInv /\ Values /\ Formed(todo) /\ Formed(todo') /\ Counted /\ Unmixed
      /\ todo # <<>> /\ Len(todo) \in Nat \ {0} /\ todo \in Seq(Steps) /\ Now = todo[1] /\ Now \in Steps
  BY Aside DEF OInv, HInv
<1>2. todo' \in Seq(Steps) /\ Len(todo') \in Nat
  <2>1. \A s \in Seq(Steps) : Len(s) \in Nat
    OBVIOUS
  <2> QED BY <1>1, <2>1 DEF Formed
<1> SUFFICES ASSUME NEW i \in 1 .. Len(todo'), todo'[i].op = "process"
             PROVE  Len(todo') - i + 1 + (IF Reserving' /\ Now'.ch = todo'[i].ch THEN 1 ELSE 0) <= Available(ch'[todo'[i].ch])
  BY DEF Counted, Reserved
<1>3. CASE Now.op = "wait"
  <2>1. /\ Len(todo') <= Available(Mine) /\ todo'[i].ch = Now.ch /\ ch' = ch /\ Now.ch \in Channels
    BY <1>1, <1>3, Aside, TurnsAtFirst, StepTodo
  <2>2. ~(Reserving' /\ Now'.ch = todo'[i].ch)
    BY <1>1, <1>3, <2>1, ReservedFrom
  <2>3. Available(Mine) \in Nat
    BY <1>1, <2>1, Numbers DEF Mine
  <2> QED BY <1>2, <2>1, <2>2, <2>3 DEF Mine
<1>4. CASE Now.op # "wait"
  <2> DEFINE c == todo'[i].ch
             N == Len(todo') - i + 1
  <2>1. PICK k \in 2 .. Len(todo) : todo'[i] = todo[k] /\ Len(todo') - i = Len(todo) - k
    BY <1>1, <1>4, Turns
  <2>2. /\ k \in 1 .. Len(todo) /\ N = Len(todo) - k + 1 /\ N \in Nat \ {0} /\ N + 1 <= Len(todo) - 1 + 1 /\ 1 \in 1 .. Len(todo)
    BY <1>1, <1>2, <2>1
  <2>3. c \in Channels /\ todo[k].ch = c /\ todo[k].op = "process"
    <3>1. todo'[i] \in Steps
      BY <1>2
    <3> QED BY <2>1, <3>1, Fields
  <2>4. N + (IF Reserved(c) THEN 1 ELSE 0) <= Available(ch[c]) /\ Available(ch[c]) \in Nat
    BY <1>1, <2>2, <2>3, Numbers DEF Counted
  <2>5. ~Void(ch[c]) /\ ~Preparing(todo)
    <3>1. Available(ch[c]) >= 1
      <4> HIDE DEF c, N
      <4> QED BY <2>2, <2>4
    <3>2. ~Void(ch[c])
      BY <3>1 DEF Void, Available
    <3>3. todo[k] \notin Preparations
      BY <2>3 DEF Preparations
    <3> QED BY <1>1, <2>2, <2>3, <3>2, <3>3 DEF IInv, Prepared
  <2> SUFFICES N + (IF Reserving' /\ Now'.ch = c THEN 1 ELSE 0) <= Available(ch'[c])
    OBVIOUS
  <2> HIDE DEF c, N
  <2>7. CASE Now.op = "start"
    <3>1. todo' = <<>>
      BY <1>1, <2>7, StepStart
    <3> QED BY <3>1, Len(<<>>) = 0
  <2>8. CASE Now.op # "start" /\ c # Now.ch
    <3>1. ch'[c] = ch[c]
      BY <1>1, <2>3, <2>8, StepChannel
    <3>2. ~(Reserving' /\ Now'.ch = c)
      BY <1>1, <2>3, <2>8, ReservedFrom
    <3> QED BY <2>2, <2>4, <3>1, <3>2
  <2>9. CASE Now.op # "start" /\ c = Now.ch
    <3>1. ~Void(Mine)
      BY <2>5, <2>9 DEF Mine
    <3>2. /\ Now.op \notin {"size", "realloc", "count0", "wptr0", "rptr0", "resmooth"}
          /\ Now.op = "storeBits" => Now.bit # "ready"
      BY <3>1, StepVoid
    <3>3. Now.op # "unsmooth" /\ Now.op # "request"
      <4>1. Now.op = "unsmooth" => todo[k].op # "process"
        BY <1>1, <2>2 DEF Unmixed
      <4> QED BY <1>1, <2>3, <2>5, <4>1, Relied
    <3>4. Untaken(Now) => Now.op = "storeBits"
      BY DEF Untaken
    <3>5. /\ Available(ch'[c]) \in Nat
          /\ Available(ch'[c]) >= Available(ch[c]) - (IF Now.op = "decrement" \/ Untaken(Now) THEN 1 ELSE 0)
      BY <1>1, <2>9, <3>1, <3>2, LeftAvailable DEF Mine
    <3>6. CASE Now.op = "decrement" \/ Untaken(Now)
      <4>1. Reserved(c)
        BY <1>1, <2>9, <3>6 DEF Reserved, Reserving, Untaken
      <4>2. ~(Reserving' /\ Now'.ch = c)
        BY <1>1, <2>3, <3>4, <3>6, ReservedFrom
      <4> QED BY <2>2, <2>4, <3>5, <3>6, <4>1, <4>2
    <3>7. CASE Now.op = "process"
      <4>1. Len(todo) - 1 + 1 <= Available(ch[c])
        <5>1. Len(todo) - 1 + 1 + (IF Reserved(todo[1].ch) THEN 1 ELSE 0) <= Available(ch[todo[1].ch])
          BY <1>1, <2>2, <3>7 DEF Counted
        <5>2. ~Reserved(c)
          BY <3>7 DEF Reserved, Reserving
        <5> QED BY <1>1, <2>9, <5>1, <5>2
      <4> QED BY <1>1, <2>2, <2>4, <3>4, <3>5, <3>7, <4>1
    <3>8. CASE Now.op \in {"pick", "copy", "copyFresh", "loadBits"}
      <4>1. Reserved(c)
        BY <1>1, <2>9, <3>8 DEF Reserved, Reserving
      <4> QED BY <2>2, <2>4, <3>4, <3>5, <3>8, <4>1
    <3>9. CASE Now.op \notin {"decrement", "process", "pick", "copy", "copyFresh", "loadBits"} /\ ~Untaken(Now)
      <4>1. ~(Reserving' /\ Now'.ch = c)
        BY <1>1, <2>3, <3>3, <3>9, ReservedFrom
      <4> QED BY <2>2, <2>4, <3>5, <3>9, <4>1
    <3> QED BY <3>6, <3>7, <3>8, <3>9
  <2> QED BY <2>7, <2>8, <2>9
<1> QED BY <1>3, <1>4

-----------------------------------------------------------------------------
(***************************************************************************)
(* The handler, the calls, the start and the theorem.                      *)
(***************************************************************************)
\* The conversions of an interrupt have the numbers after those there were.
LEMMA Newer ==
  ASSUME made \in Nat, NEW eoc \in SUBSET Channels, NEW c \in eoc
  PROVE  made + Cardinality({k \in eoc : k <= c}) \in made + 1 .. made + Cardinality(eoc)
<1> DEFINE low == {k \in eoc : k <= c}
<1>1. IsFiniteSet(eoc) /\ c \in Nat
  BY AdcAssumption, FS_Subset
<1>2. c \in low /\ low \subseteq eoc
  BY <1>1
<1> HIDE DEF low
<1>3. IsFiniteSet(low) /\ Cardinality(low) <= Cardinality(eoc)
  BY <1>1, <1>2, FS_Subset
<1>4. Cardinality(low) \in Nat /\ Cardinality(eoc) \in Nat /\ Cardinality(low) # 0
  BY <1>1, <1>2, <1>3, FS_CardinalityType, FS_EmptySet
<1> QED BY <1>3, <1>4 DEF low

\* The handler stores a new sample in a channel in use, or leaves it alone.
LEMMA HandlerStores ==
  ASSUME HInv, NEW eoc \in SUBSET Channels, AdcIntHandler(eoc), NEW c \in Used
  PROVE  \/ ch'[c] = ch[c]
         \/ \E v \in made + 1 .. made' : \E b \in SUBSET Sampled(ch[c], v).bits :
              /\ ch'[c] = WithBits(Sampled(ch[c], v), b)
              /\ "ready" \in Sampled(ch[c], v).bits => "ready" \in b
<1> DEFINE Number(k) == made + Cardinality({j \in eoc : j <= k})
           Stores(k) == [Stored(ch[k], Number(k)) EXCEPT !.value = Number(k)]
           fed == [k \in Channels |-> IF k \in eoc THEN Stores(k) ELSE ch[k]]
           full == {k \in eoc : HasEnough(fed[k])}
           left == dev.active \ full
           d == [dev EXCEPT !.active = left, !.on = @ \ full, !.busy = @ \ eoc,
                            !.running = @ /\ (full = {} \/ left # {})]
           served == [k \in Channels |-> IF k \in full THEN [fed[k] EXCEPT !.bits = @ \ {"pending"}] ELSE fed[k]]
<1>1. /\ IInv /\ Shaped /\ Sampling /\ ch \in [Channels -> Channel] /\ made \in Nat /\ MaxSamples \in Nat
  BY AdcAssumption DEF HInv, IInv, Values
<1>2. ch' = Voided(d, served) /\ made' = made + Cardinality(eoc) /\ made' \in 0 .. MaxSamples /\ c \in Channels
  BY <1>1, HandlerEffects DEF AdcIntHandler
<1>3. fed[c] = IF c \in eoc THEN Stores(c) ELSE ch[c]
  BY <1>2
<1>4. full \subseteq eoc
  OBVIOUS
<1>5. served[c] = IF c \in full THEN [fed[c] EXCEPT !.bits = fed[c].bits \ {"pending"}] ELSE fed[c]
  BY <1>2
<1> HIDE DEF Number, fed, served, full, d
<1>6. ch'[c] = IF Resequences(d) /\ c \in d.active
               THEN [served[c] EXCEPT !.bits = served[c].bits \ {"fresh"}] ELSE served[c]
  BY <1>2 DEF Voided
<1>7. ch[c] \in Channel /\ Fits(ch[c]) /\ Sound(ch[c].buf) /\ ch[c].idx <= ch[c].len
  <2>1. ~At("realloc", c) /\ ~At("count0", c) /\ ~At("wptr0", c) /\ ~At("unsmooth", c)
    BY <1>1, Relied DEF At, Doing
  <2> QED BY <1>1, <1>2, <2>1 DEF Shaped, Shape, Sampling
<1>8. CASE c \in eoc
  <2>1. PICK v \in made + 1 .. made' : v = Number(c)
    BY <1>1, <1>2, <1>8, Newer DEF Number
  <2>2. v \in 0 .. MaxSamples
    BY <1>1, <1>2, <2>1
  <2> DEFINE f == Sampled(ch[c], v)
  <2>3. fed[c] = f
    BY <1>3, <1>8, <2>1 DEF Sampled
  <2>4. f \in Channel
    BY <1>7, <2>2, StoredTyped DEF Sampled
  <2> HIDE DEF f
  <2> DEFINE a == IF c \in full THEN f.bits \ {"pending"} ELSE f.bits
             b == IF Resequences(d) /\ c \in d.active THEN a \ {"fresh"} ELSE a
  <2>5. served[c] = [f EXCEPT !.bits = a] /\ served[c].bits = a
    BY <1>5, <2>3, <2>4 DEF Channel
  <2> HIDE DEF a
  <2>6. ch'[c] = [f EXCEPT !.bits = b]
    BY <1>6, <2>4, <2>5 DEF Channel
  <2>7. b \in SUBSET f.bits /\ ("ready" \in f.bits => "ready" \in b)
    BY DEF a
  <2> HIDE DEF b
  <2>8. ch'[c] = WithBits(f, b)
    BY <2>6 DEF WithBits
  <2> QED BY <2>7, <2>8 DEF f
<1>9. CASE c \notin eoc
  <2>1. served[c] = ch[c]
    BY <1>3, <1>4, <1>5, <1>9
  <2>2. ch[c] = [ch[c] EXCEPT !.bits = ch[c].bits] /\ ch[c].bits = ch[c].bits \ {"fresh"}
    BY <1>7 DEF Fits, Channel
  <2> QED BY <1>6, <2>1, <2>2
<1> QED BY <1>8, <1>9

\* So a channel in use stays in order.
LEMMA HandlerOrdered ==
  ASSUME OInv, NEW eoc \in SUBSET Channels, AdcIntHandler(eoc), NEW c \in Used
  PROVE  /\ c \notin overtook => Ordered(ch'[c], Mode(c), got[c], sample, made')
         /\ Warming(ch'[c]) => Available(ch'[c]) = 0
<1>1. /\ HInv /\ IInv /\ Values /\ Formed(todo) /\ Shaped /\ Sampling /\ Apart /\ Taken /\ made \in Nat /\ made' \in 0 .. MaxSamples
      /\ c \in Channels /\ ~Preparing(todo) /\ MaxSamples \in Nat
  <2>1. HInv /\ IInv /\ Values /\ Formed(todo) /\ Shaped /\ Sampling /\ Apart /\ Taken /\ made \in Nat /\ MaxSamples \in Nat
    BY AdcAssumption DEF OInv, HInv, IInv, Values
  <2>2. made' \in 0 .. MaxSamples /\ Used \subseteq Channels /\ ~Preparing(todo)
    BY <2>1, HandlerEffects
  <2> QED BY <2>1, <2>2
<1>2. \A op : op \notin Takes \union {"wait"} => ~At(op, c)
  <2> SUFFICES ASSUME NEW op, op \notin Takes \union {"wait"}, At(op, c) PROVE FALSE
    OBVIOUS
  <2>1. todo # <<>> /\ Now.op \notin Takes \union {"wait"} /\ Now.ch = c
    BY DEF At, Doing
  <2>2. Now = todo[1] /\ 1 \in 1 .. Len(todo)
    BY <1>1, <2>1, Ahead
  <2> QED BY <1>1, <2>1, <2>2 DEF Apart
<1> DEFINE m == Mode(c)
           O == Ordered(ch[c], m, got[c], sample, made)
<1>3. m \in {"idle", "copied", "read", "held"} /\ (m = "copied" => ch[c].buf.count >= 1)
  <2>1. m \in {"idle", "copied", "read", "held"}
    BY <1>2 DEF Mode, Untaking, Takes
  <2>2. m = "copied" => At("decrement", c)
    BY ModeIs
  <2> QED BY <1>1, <2>1, <2>2 DEF Taken, At, Mine
<1>4. c \notin overtook => O
  BY <1>1 DEF OInv, InOrder
<1> HIDE DEF m
<1>5. ch[c] \in Channel /\ Fits(ch[c]) /\ Sound(ch[c].buf) /\ ch[c].idx <= ch[c].len
  BY <1>1, <1>2 DEF Values, Shaped, Shape, Sampling, Takes
<1>6. made' \in Nat /\ made <= made'
  <2>1. IsFiniteSet(eoc)
    BY AdcAssumption, FS_Subset
  <2>2. Cardinality(eoc) \in Nat /\ made' = made + Cardinality(eoc)
    BY <2>1, FS_CardinalityType DEF AdcIntHandler
  <2> QED BY <1>1, <2>2
<1>7. Warming(ch[c]) => Available(ch[c]) = 0
  BY <1>1 DEF OInv, Warmed
<1>8. CASE ch'[c] = ch[c]
  <2>1. O => Ordered(ch[c], m, got[c], sample, made')
    BY <1>1, <1>6, OrderedLater
  <2> QED BY <1>4, <1>7, <1>8, <2>1 DEF m
<1>9. CASE ch'[c] # ch[c]
  <2>1. PICK v \in made + 1 .. made' : \E b \in SUBSET Sampled(ch[c], v).bits :
          /\ ch'[c] = WithBits(Sampled(ch[c], v), b)
          /\ "ready" \in Sampled(ch[c], v).bits => "ready" \in b
    BY <1>1, <1>9, HandlerStores
  <2> DEFINE f == Sampled(ch[c], v)
             u == ch'[c]
             s == ch[c]
             n == made
             k == made'
             g == got[c]
             x == sample
  <2>2. PICK b \in SUBSET f.bits : u = WithBits(f, b) /\ ("ready" \in f.bits => "ready" \in b)
    BY <2>1
  <2>3. /\ s \in Channel /\ n \in Nat /\ k \in Nat /\ v \in n + 1 .. k /\ f = Sampled(s, v) /\ v <= MaxSamples
        /\ Fits(s) /\ Sound(s.buf) /\ s.idx <= s.len
        /\ m \in {"idle", "copied", "read", "held"} /\ (m = "copied" => s.buf.count >= 1)
    BY <1>1, <1>3, <1>5, <1>6, <2>1
  <2> HIDE DEF f, u, s, n, k, g, x
  <2>4. /\ Ordered(s, m, g, x, n) => Ordered(u, m, g, x, k)
        /\ Warming(u) => Warming(s) /\ u.buf.count = s.buf.count /\ "fresh" \notin u.bits
    BY ONLY <2>2, <2>3, OrderedStored, SMTT(60)
  <2>5. ASSUME Warming(u) PROVE Available(u) = 0
    <3>1. s.buf.count = 0
      <4>1. s.buf.count \in Nat /\ Available(s) >= s.buf.count
        BY <1>1, Numbers DEF s
      <4> QED BY <1>7, <2>4, <2>5, <4>1 DEF s
    <3> QED BY <2>4, <2>5, <3>1 DEF Available
  <2> QED BY <1>4, <2>4, <2>5 DEF u, s, n, k, g, x, m
<1> QED BY <1>8, <1>9

\* The handler keeps it.
LEMMA OHandlerKeeps ==
  ASSUME OInv, Interrupts
  PROVE  OInv'
<1>1. PICK eoc \in SUBSET Channels : AdcIntHandler(eoc)
  BY DEF Interrupts
<1>2. /\ HInv /\ IInv /\ Values /\ Formed(todo) /\ Apart /\ InOrder /\ Warmed /\ Counted /\ Emptied
      /\ made \in Nat /\ MaxSamples \in Nat
  BY AdcAssumption DEF OInv, HInv, IInv, Values
<1>3. /\ todo' = todo /\ sample' = sample /\ made' \in 0 .. MaxSamples /\ ~Preparing(todo) /\ Used \subseteq Channels
      /\ \A c \in Channels : IF c \in Used THEN Fed(ch[c], ch'[c], c \in Used') ELSE ch'[c] = ch[c]
      /\ overtook' = overtook /\ ch' \in [Channels -> Channel]
  BY <1>1, <1>2, HandlerEffects DEF AdcIntHandler
<1>4. got' = got /\ made' \in Nat /\ made <= made'
  <2>1. IsFiniteSet(eoc)
    BY AdcAssumption, FS_Subset
  <2>2. Cardinality(eoc) \in Nat /\ made' = made + Cardinality(eoc) /\ got' = got
    BY <1>1, <2>1, FS_CardinalityType DEF AdcIntHandler
  <2> QED BY <1>2, <2>2
<1>5. Now' = Now /\ \A op, c : At(op, c)' <=> At(op, c)
  BY <1>3 DEF Now, At, Doing
<1>6. \A c \in Channels : Mode(c)' = Mode(c)
  BY <1>3, <1>5 DEF Mode, Untaking
<1>7. ASSUME NEW i \in 1 .. Len(todo), todo[i].op \notin Takes \union {"start", "wait"}
      PROVE  todo[i].ch \in Channels /\ ch'[todo[i].ch] = ch[todo[i].ch]
  <2>1. todo[i] \in Steps
    BY <1>2 DEF Formed
  <2>2. todo[i].ch \in Channels
    BY <1>7, <2>1, Fields
  <2> QED BY <1>2, <1>3, <1>7, <2>2 DEF Apart
<1>12. HInv'
  BY <1>2, HHandlerKeeps
<1>8. InOrder'
  <2>1. ASSUME NEW c \in Channels \ overtook PROVE Ordered(ch'[c], Mode(c), got[c], sample, made')
    <3>1. Ordered(ch[c], Mode(c), got[c], sample, made)
      BY <1>2 DEF InOrder
    <3>2. CASE c \in Used
      BY <1>1, <3>2, HandlerOrdered
    <3>3. CASE c \notin Used
      <4>1. ch'[c] = ch[c]
        BY <1>3, <3>3
      <4>2. Ordered(ch[c], Mode(c), got[c], sample, made')
        BY <1>2, <1>4, <3>1, OrderedLater
      <4> QED BY <4>1, <4>2
    <3> QED BY <3>2, <3>3
  <2> QED BY <1>2, <1>3, <1>4, <1>6, <2>1 DEF InOrder
<1>9. Warmed'
  <2> SUFFICES ASSUME NEW c \in Channels, Warming(ch'[c]) PROVE Available(ch'[c]) = 0
    BY DEF Warmed, Warming, Available
  <2>1. CASE c \in Used
    BY <1>1, <2>1, HandlerOrdered
  <2>2. CASE c \notin Used
    <3>1. ch'[c] = ch[c]
      BY <1>3, <2>2
    <3> QED BY <1>2, <3>1 DEF Warmed
  <2> QED BY <2>1, <2>2
<1>10. Counted'
  <2>a. ASSUME NEW c \in Channels
        PROVE  Available(ch'[c]) \in Nat /\ Available(ch'[c]) >= Available(ch[c]) /\ Available(ch[c]) \in Nat
    <3>1. Available(ch[c]) \in Nat
      BY <1>2, Numbers
    <3>2. CASE c \in Used
      <4>1. Fed(ch[c], ch'[c], c \in Used') /\ Fits(ch[c])
        BY <1>2, <1>3, <3>2 DEF IInv, Sampling
      <4>2. ch'[c].buf.count >= ch[c].buf.count /\ "fresh" \notin ch[c].bits
        BY <4>1 DEF Fed, Fits
      <4>3. Available(ch[c]) = ch[c].buf.count
        BY <1>2, <4>2, Numbers
      <4>4. ch'[c].buf.count \in Nat
        <5> DEFINE b == ch'[c].buf
        <5>1. b \in Buffer /\ MaxSize \in Nat
          BY <1>3, BufAssumption DEF Channel
        <5> HIDE DEF b
        <5>2. b.count \in Nat
          BY <5>1 DEF Buffer
        <5> QED BY <5>2 DEF b
      <4>5. Available(ch'[c]) \in Nat /\ Available(ch'[c]) >= ch'[c].buf.count
        BY <4>4 DEF Available
      <4> QED BY <3>1, <4>2, <4>3, <4>4, <4>5
    <3>3. CASE c \notin Used
      BY <1>3, <3>1, <3>3
    <3> QED BY <3>2, <3>3
  <2> SUFFICES ASSUME NEW i \in 1 .. Len(todo), todo[i].op = "process"
               PROVE  Len(todo) - i + 1 + (IF Reserving' /\ Now'.ch = todo[i].ch THEN 1 ELSE 0) <= Available(ch'[todo[i].ch])
    BY <1>3 DEF Counted, Reserved
  <2>1. Reserving' <=> Reserving
    BY <1>3, <1>5 DEF Reserving
  <2>2. Len(todo) - i + 1 + (IF Reserving /\ Now.ch = todo[i].ch THEN 1 ELSE 0) <= Available(ch[todo[i].ch])
    BY <1>2 DEF Counted, Reserved
  <2>3. todo[i].ch \in Channels /\ Len(todo) \in Nat
    BY <1>2, Fields DEF Formed
  <2>4. Len(todo) - i + 1 + (IF Reserving /\ Now.ch = todo[i].ch THEN 1 ELSE 0) <= Available(ch'[todo[i].ch])
    BY <2>2, <2>3, <2>a
  <2> QED BY <1>5, <2>1, <2>4
<1>11. Emptied'
  <2> SUFFICES ASSUME NEW i \in 1 .. Len(todo), Resets(todo[i]) PROVE Void(ch'[todo[i].ch])
    BY <1>3 DEF Emptied
  <2> QED BY <1>2, <1>7 DEF Emptied, Resets, Takes
<1> QED BY <1>8, <1>9, <1>10, <1>11, <1>12 DEF OInv

\* What holds after any call.
LEMMA OCallKept ==
  ASSUME OInv, HInv', todo = <<>>, ch' = ch, sample' = sample, got' = got, made' = made, overtook' = overtook,
         todo' # <<>>, Formed(todo'), todo'[1].op \in {"setup", "wait", "loadBits", "resmooth"},
         \A i \in 1 .. Len(todo') :
           /\ todo'[i].op # "process" /\ ~Untaken(todo'[i])
           /\ Resets(todo'[i]) => Void(ch[todo'[i].ch])
  PROVE  OInv'
<1>1. Now' = todo'[1]
  <2>1. \A t \in Seq(Steps) : t # <<>> => Head(t) = t[1]
    OBVIOUS
  <2> QED BY <2>1 DEF Now, Formed
<1>2. Len(todo') > 1 => 2 \in 1 .. Len(todo')
  <2>1. \A t \in Seq(Steps) : Len(t) \in Nat
    OBVIOUS
  <2> QED BY <2>1 DEF Formed
<1>3. /\ \A op, c : ~At(op, c)
      /\ \A op, c : op \notin {"setup", "wait", "loadBits", "resmooth"} => ~At(op, c)'
  BY <1>1 DEF At, Doing
<1>4. \A c : Mode(c) = "idle" /\ Mode(c)' = "idle"
  <2>1. \A c : ~Untaking(c) /\ ~Untaking(c)'
    BY <1>2, <1>3 DEF Untaking
  <2> QED BY <1>3, <2>1 DEF Mode
<1>5. InOrder'
  BY <1>4 DEF OInv, InOrder
<1>6. Warmed'
  BY DEF OInv, Warmed, Warming, Available
<1>7. Counted'
  BY DEF Counted
<1>8. Emptied'
  BY DEF Emptied
<1> QED BY <1>5, <1>6, <1>7, <1>8 DEF OInv

\* The steps of a call: to set up channels, to wait, or to change the settings
\* of a channel.
LEMMA CallSteps ==
  ASSUME Liberties \subseteq {"read"}, HInv, Calls
  PROVE  /\ todo = <<>> /\ ch' = ch /\ sample' = sample /\ got' = got /\ made' = made /\ overtook' = overtook
         /\ todo' # <<>> /\ todo'[1].op \in {"setup", "wait", "loadBits", "resmooth"}
         /\ \A i \in 1 .. Len(todo') :
              \/ todo'[i].op \in {"start", "setup", "wait"}
              \/ \E c \in Channels : MayConfigure(c) /\ todo'[i] \in Tunings(c)
<1> DEFINE Tuning(c) == /\ MayConfigure(c) /\ todo' # <<>> /\ todo'[1].op \in {"loadBits", "resmooth"}
                        /\ todo' \in Seq(Tunings(c))
           Starting == /\ todo' # <<>> /\ todo'[1].op \in {"setup", "wait"}
                       /\ \A i \in 1 .. Len(todo') : todo'[i].op \in {"start", "setup", "wait"}
<1>1. todo = <<>> /\ ch' = ch /\ sample' = sample /\ got' = got /\ made' = made /\ overtook' = overtook
  BY CallKinds DEF AdcSample, AdcGetSamples, AdcSetBlocking, AdcSetSmoothing, AdcSetClock, Call
<1>2. ASSUME NEW list \in Lists, NEW n \in Counts, AdcSample(list, n) PROVE Starting
  <2> DEFINE s == [k \in DOMAIN list |-> [op |-> "setup", ch |-> list[k], n |-> n]] \o StartSequence
  <2>1. todo' = s
    BY <1>2 DEF AdcSample, Call
  <2>2. Preparing(s) /\ s[1].op = "setup" /\ \A i \in 1 .. Len(s) : s[i].op = "start" \/ s[i].op = "setup"
    BY SampleFormed
  <2> HIDE DEF s
  <2> QED BY <2>1, <2>2 DEF Preparing
<1>3. ASSUME NEW c \in Channels, NEW n \in {0} \union Counts, AdcGetSamples(c, n) PROVE Starting
  <2> DEFINE s == DoN("wait", c, n)
  <2>1. todo' = s
    BY <1>3 DEF AdcGetSamples, Call
  <2>2. Len(s) = 1 /\ s[1] = [op |-> "wait", ch |-> c, n |-> n]
    BY GetForms
  <2> HIDE DEF s
  <2>3. s # <<>> /\ \A i \in 1 .. Len(s) : i = 1
    <3>1. Len(s) # 0
      BY <2>2
    <3>2. s # <<>>
      BY <3>1, Len(<<>>) = 0
    <3>3. \A i \in 1 .. Len(s) : i = 1
      BY <2>2
    <3> QED BY <3>2, <3>3
  <2> QED BY <2>1, <2>2, <2>3
<1>4. ASSUME NEW c \in Channels, NEW on \in BOOLEAN, AdcSetBlocking(c, on) PROVE Tuning(c)
  <2>1. MayConfigure(c) /\ todo' = SetBit(c, "blocking", on)
    BY <1>4 DEF AdcSetBlocking, Call
  <2>2. SetBit(c, "blocking", on) \in Seq(Stops(c)) /\ SetBit(c, "blocking", on) # <<>>
        /\ SetBit(c, "blocking", on)[1].op = "loadBits"
    BY BlockingForms
  <2>3. SetBit(c, "blocking", on) \in Seq(Tunings(c))
    BY <2>2, TuneTypes
  <2> QED BY <2>1, <2>2, <2>3
<1>5. ASSUME NEW c \in Channels, AdcSetClock(c) PROVE Tuning(c)
  <2>1. MayConfigure(c) /\ todo' = PlatformAdcStop(c)
    BY <1>5 DEF AdcSetClock, Call
  <2>2. /\ PlatformAdcStop(c) \in Seq(Stops(c)) /\ PlatformAdcStop(c) # <<>>
        /\ PlatformAdcStop(c)[1].op = "loadBits"
    BY NoSteps, StopIs, StopFirst DEF Formed
  <2>3. PlatformAdcStop(c) \in Seq(Tunings(c))
    BY <2>2, TuneTypes
  <2> QED BY <2>1, <2>2, <2>3
<1>6. ASSUME NEW c \in Channels, NEW n \in Lengths, AdcSetSmoothing(c, n) PROVE Tuning(c)
  <2> DEFINE r == ResmoothSteps(c, n)
  <2>1. /\ MayConfigure(c)
        /\ ~Awaited(c) => todo' = <<>> \o DoN("resmooth", c, n) \o Do("unsmooth", c) \o SetBit(c, "ready", FALSE) \o BufFlush(c)
    BY <1>6 DEF AdcSetSmoothing, Call
  <2>2. todo' = <<>> \o DoN("resmooth", c, n) \o Do("unsmooth", c) \o SetBit(c, "ready", FALSE) \o BufFlush(c)
    BY <1>1, <2>1, Cautious
  <2>3. r # <<>> /\ r[1].op = "resmooth" /\ r \in Seq(Tunings(c)) /\ r \in Seq(Steps)
    <3>1. Formed(r) /\ r # <<>> /\ r[1] = [op |-> "resmooth", ch |-> c, n |-> n]
      BY ResmoothFormed
    <3>2. r \in Seq(Tunings(c)) /\ r \in Seq(Steps)
      BY <3>1, NoSteps, ResmoothIs DEF Formed
    <3> HIDE DEF r
    <3> QED BY <3>1, <3>2
  <2>4. todo' = <<>> \o r
    BY <2>2, NoSteps, ResmoothIs DEF Formed
  <2> HIDE DEF r
  <2>5. todo' = r
    BY <2>3, <2>4, NoSteps
  <2> QED BY <2>1, <2>3, <2>5
<1>7. CASE \E c \in Channels : Tuning(c)
  <2>1. PICK c \in Channels : Tuning(c)
    BY <1>7
  <2>2. \A i \in 1 .. Len(todo') : todo'[i] \in Tunings(c)
    BY <2>1
  <2> QED BY <1>1, <2>1, <2>2
<1>8. CASE Starting
  BY <1>1, <1>8
<1> HIDE DEF Tuning, Starting
<1> QED BY <1>2, <1>3, <1>4, <1>5, <1>6, <1>7, <1>8, CallKinds

\* The calls keep it.
LEMMA OCallKeeps ==
  ASSUME Liberties \subseteq {"read"}, OInv, Calls
  PROVE  OInv'
<1>1. HInv /\ HInv' /\ Formed(todo')
  BY HCallKeeps, CallForms DEF OInv
<1>2. /\ todo = <<>> /\ ch' = ch /\ sample' = sample /\ got' = got /\ made' = made /\ overtook' = overtook
      /\ todo' # <<>> /\ todo'[1].op \in {"setup", "wait", "loadBits", "resmooth"}
      /\ \A i \in 1 .. Len(todo') :
           \/ todo'[i].op \in {"start", "setup", "wait"}
           \/ \E c \in Channels : MayConfigure(c) /\ todo'[i] \in Tunings(c)
  BY <1>1, CallSteps
<1>3. ASSUME NEW c \in Channels, MayConfigure(c) PROVE Void(ch[c])
  <2>1. Available(ch[c]) = 0
    BY <1>3 DEF MayConfigure, Drained
  <2>2. ch[c].buf.count \in Nat
    BY <1>1, Numbers DEF HInv, IInv
  <2> QED BY <2>1, <2>2 DEF Available, Void
<1>4. ASSUME NEW i \in 1 .. Len(todo')
      PROVE  /\ todo'[i].op # "process" /\ ~Untaken(todo'[i])
             /\ Resets(todo'[i]) => Void(ch[todo'[i].ch])
  <2>1. CASE todo'[i].op \in {"start", "setup", "wait"}
    BY <2>1 DEF Untaken, Resets
  <2>2. CASE \E c \in Channels : MayConfigure(c) /\ todo'[i] \in Tunings(c)
    BY <1>3, <2>2 DEF Tunings, Untaken
  <2> QED BY <1>2, <2>1, <2>2
<1> QED BY <1>1, <1>2, <1>4, OCallKept

\* It holds at first.
LEMMA OInitHolds ==
  ASSUME Init
  PROVE  OInv
<1>1. HInv
  BY HInitHolds
<1>2. /\ todo = <<>> /\ made = 0 /\ sample = NoData /\ got = [c \in Channels |-> NoData] /\ NoData = 0
      /\ \A c \in Channels : /\ ch[c].bits = {"blocking"} /\ ch[c].len = 1
                             /\ ch[c].buf = [NoBuffer EXCEPT !.size = 2, !.room = 2]
  BY AdcAssumption DEF Init
<1>3. Len(todo) = 0 /\ \A op, c : ~At(op, c)
  BY <1>2, Len(<<>>) = 0 DEF At, Doing
<1>4. \A c \in Channels : Mode(c) = "idle"
  BY <1>3 DEF Mode, Untaking
<1>5. \A c \in Channels : Void(ch[c]) /\ ch[c].buf.size \in Nat /\ ch[c].buf.wptr = 0 /\ ch[c].buf.rptr = 0
  <2> DEFINE b == [NoBuffer EXCEPT !.size = 2, !.room = 2]
  <2>1. b.count = 0 /\ b.size = 2 /\ b.wptr = 0 /\ b.rptr = 0
    BY DEF NoBuffer
  <2>2. \A c \in Channels : ch[c].bits = {"blocking"} /\ ch[c].buf = b
    BY <1>2
  <2> HIDE DEF b
  <2> QED BY <2>1, <2>2 DEF Void
<1>6. InOrder
  <2>1. got \in [Channels -> Nat] /\ \A c \in Channels : got[c] \in 0 .. made
    BY <1>2
  <2>2. made \in Nat
    BY <1>2
  <2> QED BY <1>4, <1>5, <2>1, <2>2, OrderedFlushed DEF InOrder
<1>7. Warmed
  BY <1>2 DEF Warmed, Warming
<1>8. Counted /\ Emptied
  BY <1>3 DEF Counted, Emptied
<1> QED BY <1>1, <1>6, <1>7, <1>8 DEF OInv

\* It is about the state alone.
LEMMA OStutterKeeps ==
  ASSUME OInv, UNCHANGED vars
  PROVE  OInv'
<1>1. ch' = ch /\ todo' = todo /\ sample' = sample /\ got' = got /\ made' = made /\ overtook' = overtook
  BY DEF vars
<1>2. Now' = Now
  BY <1>1 DEF Now
<1>3. \A op, c : At(op, c)' <=> At(op, c)
  BY <1>1, <1>2 DEF At, Doing
<1>4. \A c \in Channels : Mode(c)' = Mode(c)
  BY <1>1, <1>2, <1>3 DEF Mode, Untaking
<1>5. InOrder'
  BY <1>1, <1>4 DEF OInv, InOrder
<1>6. Warmed' /\ Emptied'
  BY <1>1 DEF OInv, Warmed, Warming, Available, Emptied
<1>7. Counted'
  BY <1>1, <1>2 DEF OInv, Counted, Reserved, Reserving, Available
<1>8. HInv'
  BY HStutterKeeps DEF OInv
<1> QED BY <1>5, <1>6, <1>7, <1>8 DEF OInv

\* The samples of a channel come out in the order in which they were converted,
\* none twice and none that was never converted, whatever the handler stores
\* between the steps of taking one out: between the copy from the buffer, the
\* count going down and the read pointer moving on (buf_read), or the copy of the
\* fresh value and its flag going down.  The program may take samples out while
\* more are awaited; it changes no settings and asks for no others meanwhile.  The
\* channels left out are those of which a fresh sample was taken before the older
\* ones in the buffer (elua_adc.c:260).
THEOREM OldestComesFirst ==
  ASSUME Liberties \subseteq {"read"}
  PROVE  Spec => OldestFirst
<1>1. Init => OInv
  BY OInitHolds
<1>2. OInv /\ [Next]_vars => OInv'
  <2> SUFFICES ASSUME OInv, [Next]_vars PROVE OInv'
    OBVIOUS
  <2>1. Interrupts \/ Calls \/ Step \/ UNCHANGED vars
    BY DEF Next
  <2>2. ASSUME Step PROVE OInv'
    <3>1. HInv'
      BY <2>2, HStepKeeps DEF OInv
    <3> QED BY <2>2, <3>1, InOrderStep, WarmedStep, CountedStep, EmptiedStep DEF OInv
  <2> QED BY <2>1, <2>2, OHandlerKeeps, OCallKeeps, OStutterKeeps
<1>3. OInv => \A c \in Channels \ overtook : Doing("return") /\ Now.ch = c => sample > got[c]
  <2> SUFFICES ASSUME OInv, NEW c \in Channels \ overtook, Doing("return"), Now.ch = c PROVE sample > got[c]
    OBVIOUS
  <2>1. Mode(c) = "held"
    BY DEF Mode, At, Doing
  <2>2. Ordered(ch[c], "held", got[c], sample, made) /\ got[c] \in Nat
    BY <2>1 DEF OInv, InOrder
  <2>3. made \in Nat
    BY AdcAssumption DEF OInv, HInv, IInv, Values
  <2> QED BY <2>2, <2>3 DEF Ordered
<1>4. OInv /\ [Next]_vars => [\A c \in Channels \ overtook : Doing("return") /\ Now.ch = c => sample > got[c]]_vars
  BY <1>3
<1> QED BY <1>1, <1>2, <1>4, PTL DEF Spec, OldestFirst
=============================================================================

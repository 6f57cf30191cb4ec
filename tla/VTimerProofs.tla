---------------------------- MODULE VTimerProofs ----------------------------
(***************************************************************************)
(* Delays are never short and match interrupts never early, for any number *)
(* of virtual timers and any counts.                                       *)
(***************************************************************************)
EXTENDS VTimer, SequenceTheorems, TLAPS

USE VTimerAssumption

\* The steps of which calls are made.
Regs == {"flag", "enabled"}
StepSet ==
  [op : {"load"}, reg : Regs]
    \union [op : {"store"}, reg : Regs, timer : Timers, set : BOOLEAN]
    \union [op : {"limit"}, timer : Timers, count : 0 .. MaxCount]
    \union {w \in [op : {"awaitCount"}, timer : Timers, count : 0 .. MaxCount, us : Nat] :
              w.us * Frequency < (w.count + 1) * Second}
    \union [op : {"periodic"}, timer : Timers, set : BOOLEAN]
    \union [op : {"reset"}, timer : Timers]
    \union [op : {"allow", "awaitReset", "restore"}]

Todos == 1 .. Len(todo)

\* The last step of the programming of a period.
On(t) == Store("enabled", t, TRUE)

Types == TypeOK /\ todo \in Seq(StepSet)

\* The reset that the step at k relies on was not done yet: it is still to be asked
\* for, or the next tick will do it.
Unreset(k, t) ==
  \/ /\ k >= 6 /\ todo[k - 5] = [op |-> "reset", timer |-> t]
     /\ todo[k - 4].op = "allow" /\ todo[k - 3].op = "awaitReset"
  \/ k = 5 /\ todo[1].op = "allow" /\ todo[2].op = "awaitReset" /\ resetIdx = t
  \/ k = 4 /\ todo[1].op = "awaitReset" /\ resetIdx = t

\* A delay has waited longer than its timer counts.
Waited ==
  \A t \in Timers, k \in Todos : todo[k].op = "awaitCount" /\ todo[k].timer = t =>
    Unreset(k, t) \/ counters[t] < waited

\* A timer counts less than its age, except between the programming of a period
\* and the reset that is part of it.
Aged ==
  /\ \A t \in Timers, k \in Todos : todo[k] = On(t) =>
       Unreset(k, t) \/ counters[t] <= age[t]
  /\ \A t \in Timers \ Programming : counters[t] <= age[t]

IInv == Types /\ Waited /\ Aged

-----------------------------------------------------------------------------
LEMMA TailFact ==
  ASSUME NEW S, NEW s \in Seq(S), s # <<>>
  PROVE  /\ Head(s) = s[1] /\ Head(s) \in S /\ Len(s) \in Nat \ {0} /\ DOMAIN s = 1 .. Len(s)
         /\ Tail(s) \in Seq(S) /\ Len(Tail(s)) = Len(s) - 1 /\ DOMAIN Tail(s) = 1 .. Len(s) - 1
         /\ \A k \in 1 .. Len(s) - 1 : k + 1 \in 1 .. Len(s) /\ Tail(s)[k] = s[k + 1]
BY HeadTailProperties, LenProperties

LEMMA OpsFact == \A s \in StepSet : s.op \in StepOps
BY DEF StepSet, StepOps

LEMMA TodoOps == ASSUME todo \in Seq(StepSet) PROVE \A k \in DOMAIN todo : todo[k].op \in StepOps
BY OpsFact, ElementOfSeq, LenProperties

LEMMA StepsFact ==
  ASSUME NEW t \in Timers
  PROVE  /\ [op |-> "reset", timer |-> t] \in StepSet /\ [op |-> "allow"] \in StepSet
         /\ [op |-> "awaitReset"] \in StepSet /\ [op |-> "restore"] \in StepSet
         /\ \A n \in 0 .. MaxCount : [op |-> "limit", timer |-> t, count |-> n] \in StepSet
         /\ \A set \in BOOLEAN :
              /\ [op |-> "periodic", timer |-> t, set |-> set] \in StepSet
              /\ \A reg \in Regs : Load(reg) \in StepSet /\ Store(reg, t, set) \in StepSet
BY DEF StepSet, Load, Store

\* Lists joined, as the calls are.
LEMMA Join2 ==
  ASSUME NEW S, NEW a \in S, NEW b \in S, NEW s, s = <<a, b>>
  PROVE  s \in Seq(S) /\ Len(s) = 2 /\ s[1] = a /\ s[2] = b
OBVIOUS

LEMMA Join43 ==
  ASSUME NEW S, NEW a \in S, NEW b \in S, NEW c \in S, NEW d \in S, NEW e \in S, NEW f \in S, NEW g \in S,
         NEW s, s = <<a, b, c, d>> \o <<e, f, g>>
  PROVE  /\ s \in Seq(S) /\ Len(s) = 7
         /\ s[1] = a /\ s[2] = b /\ s[3] = c /\ s[4] = d /\ s[5] = e /\ s[6] = f /\ s[7] = g
OBVIOUS

LEMMA Join221 ==
  ASSUME NEW S, NEW a \in S, NEW b \in S, NEW c \in S, NEW d \in S, NEW e \in S,
         NEW s, s = <<a, b>> \o <<c, d>> \o <<e>>
  PROVE  s \in Seq(S) /\ Len(s) = 5 /\ s[1] = a /\ s[2] = b /\ s[3] = c /\ s[4] = d /\ s[5] = e
OBVIOUS

LEMMA Join2242 ==
  ASSUME NEW S, NEW a \in S, NEW b \in S, NEW c \in S, NEW d \in S, NEW e \in S, NEW f \in S,
         NEW g \in S, NEW h \in S, NEW i \in S, NEW j \in S,
         NEW s, s = <<a, b>> \o <<c, d>> \o <<e, f, g, h>> \o <<i, j>>
  PROVE  /\ s \in Seq(S) /\ Len(s) = 10
         /\ s[1] = a /\ s[2] = b /\ s[3] = c /\ s[4] = d /\ s[5] = e
         /\ s[6] = f /\ s[7] = g /\ s[8] = h /\ s[9] = i /\ s[10] = j
OBVIOUS

\* The calls.
LEMMA ClearFact ==
  ASSUME NEW t \in Timers
  PROVE  LET s == Modify("flag", t, FALSE)
         IN  /\ s \in Seq(StepSet) /\ Len(s) = 2
             /\ s[1].op = "load" /\ s[2].op = "store" /\ s[2].reg = "flag" /\ s[2].set = FALSE
<1> DEFINE a == Load("flag")
           b == Store("flag", t, FALSE)
<1>1. a \in StepSet /\ b \in StepSet
  BY StepsFact DEF Regs
<1>2. /\ a.op = "load"
      /\ b.op = "store" /\ b.reg = "flag" /\ b.set = FALSE
  BY DEF Load, Store, On
<1>3. Modify("flag", t, FALSE) = <<a, b>>
  BY DEF Modify
<1> HIDE DEF a, b
<1> DEFINE s == Modify("flag", t, FALSE)
<1>4. s = <<a, b>>
  BY <1>3
<1> HIDE DEF s
<1>5. s \in Seq(StepSet) /\ Len(s) = 2 /\ s[1] = a /\ s[2] = b
  BY <1>1, <1>4, Join2
<1> QED BY <1>2, <1>5 DEF s

LEMMA StatusFact ==
  ASSUME NEW t \in Timers, NEW on \in BOOLEAN
  PROVE  LET s == Modify("enabled", t, on)
         IN  /\ s \in Seq(StepSet) /\ Len(s) = 2
             /\ s[1].op = "load" /\ s[2].op = "store"
<1> DEFINE a == Load("enabled")
           b == Store("enabled", t, on)
<1>1. a \in StepSet /\ b \in StepSet
  BY StepsFact DEF Regs
<1>2. /\ a.op = "load"
      /\ b.op = "store"
  BY DEF Load, Store, On
<1>3. Modify("enabled", t, on) = <<a, b>>
  BY DEF Modify
<1> HIDE DEF a, b
<1>4. /\ Modify("enabled", t, on) \in Seq(StepSet) /\ Len(Modify("enabled", t, on)) = 2
      /\ Modify("enabled", t, on)[1] = a /\ Modify("enabled", t, on)[2] = b
  BY <1>1, <1>3, Join2
<1> QED BY <1>2, <1>4

LEMMA ResetFact ==
  ASSUME NEW t \in Timers
  PROVE  LET s == ResetTimer(t)
         IN  /\ s \in Seq(StepSet) /\ Len(s) = 4
             /\ s[1] = [op |-> "reset", timer |-> t] /\ s[1].op = "reset" /\ s[2].op = "allow"
             /\ s[3].op = "awaitReset" /\ s[4].op = "restore"
<1> DEFINE a == [op |-> "reset", timer |-> t]
           b == [op |-> "allow"]
           c == [op |-> "awaitReset"]
           d == [op |-> "restore"]
<1>1. a \in StepSet /\ b \in StepSet /\ c \in StepSet /\ d \in StepSet
  BY StepsFact DEF Regs
<1>2. /\ a = [op |-> "reset", timer |-> t] /\ a.op = "reset"
      /\ b.op = "allow"
      /\ c.op = "awaitReset"
      /\ d.op = "restore"
  BY DEF Load, Store, On
<1>3. ResetTimer(t) = <<a, b, c, d>>
  BY DEF ResetTimer
<1> HIDE DEF a, b, c, d
<1>4. /\ ResetTimer(t) \in Seq(StepSet) /\ Len(ResetTimer(t)) = 4
      /\ ResetTimer(t)[1] = a /\ ResetTimer(t)[2] = b /\ ResetTimer(t)[3] = c
      /\ ResetTimer(t)[4] = d
  BY <1>1, <1>3
<1> QED BY <1>2, <1>4

\* What the conversions of the arguments to ticks lose, and what they stay below.
LEMMA ProductBound ==
  ASSUME NEW a \in Nat, NEW b \in Nat, NEW c \in Nat, a <= b
  PROVE  a * c <= b * c /\ c * a <= c * b /\ a * c \in Nat /\ (a + 1) * c = a * c + c
OBVIOUS

LEMMA Quotient ==
  ASSUME NEW n \in Nat, NEW d \in Nat \ {0}
  PROVE  n \div d \in Nat /\ (n \div d) * d <= n /\ n < (n \div d) * d + d
OBVIOUS

LEMMA DelayTicksFact ==
  ASSUME NEW us \in 0 .. MaxPeriod
  PROVE  DelayTicks(us) \in 0 .. MaxCount /\ us * Frequency < (DelayTicks(us) + 1) * Second
<1> DEFINE q == DelayTicks(us)
<1>1. us \in Nat /\ us * Frequency \in Nat /\ us * Frequency <= us * Second
  BY ProductBound
<1>2. q \in Nat /\ q * Second <= us * Frequency /\ us * Frequency < q * Second + Second
  BY <1>1, Quotient DEF DelayTicks
<1> HIDE DEF q
<1>3. (q + 1) * Second = q * Second + Second
  BY <1>2, ProductBound
<1>4. q <= us
  <2> SUFFICES ASSUME q > us PROVE FALSE
    BY <1>1, <1>2
  <2>1. us + 1 <= q /\ us + 1 \in Nat
    BY <1>1, <1>2
  <2>2. (us + 1) * Second <= q * Second /\ (us + 1) * Second = us * Second + Second
    BY <1>1, <1>2, <2>1, ProductBound
  <2>3. us * Second \in Nat /\ q * Second \in Nat
    BY <1>1, <1>2, ProductBound
  <2> QED BY <1>1, <1>2, <2>2, <2>3
<1> QED BY <1>1, <1>2, <1>3, <1>4 DEF q

LEMMA PeriodTicksFact ==
  ASSUME NEW us \in Nat, ~RefusedPeriod(us)
  PROVE  PeriodTicks(us) \in 0 .. MaxCount
<1>1. us * Frequency \in Nat
  BY ProductBound
<1>2. (us * Frequency) % TypeLimit \in Nat
  BY <1>1
<1>3. PeriodTicks(us) \in Nat
  BY <1>2, Quotient DEF PeriodTicks
<1> QED BY <1>3 DEF RefusedPeriod

LEMMA DelayFact ==
  ASSUME NEW t \in Timers, NEW n \in 0 .. MaxPeriod
  PROVE  LET s == Delay(t, n)
         IN  /\ s \in Seq(StepSet) /\ Len(s) = 7
             /\ s[1] = [op |-> "reset", timer |-> t] /\ s[1].op = "reset" /\ s[2].op = "allow"
             /\ s[3].op = "awaitReset" /\ s[4].op = "restore" /\ s[5].op = "allow"
             /\ s[6].op = "awaitCount" /\ s[6].timer = t /\ s[7].op = "restore"
<1> DEFINE a == [op |-> "reset", timer |-> t]
           b == [op |-> "allow"]
           c == [op |-> "awaitReset"]
           d == [op |-> "restore"]
           e == [op |-> "awaitCount", timer |-> t, count |-> DelayTicks(n), us |-> n]
<1>0. e \in StepSet
  BY DelayTicksFact DEF StepSet
<1>1. a \in StepSet /\ b \in StepSet /\ c \in StepSet /\ d \in StepSet /\ e \in StepSet
  BY <1>0, StepsFact DEF Regs
<1>2. /\ a = [op |-> "reset", timer |-> t] /\ a.op = "reset"
      /\ b.op = "allow"
      /\ c.op = "awaitReset"
      /\ d.op = "restore"
      /\ e.op = "awaitCount" /\ e.timer = t
  BY DEF Load, Store, On
<1>3. Delay(t, n) = <<a, b, c, d>> \o <<b, e, d>>
  BY DEF Delay, ResetTimer
<1> HIDE DEF a, b, c, d, e
<1>4. /\ Delay(t, n) \in Seq(StepSet) /\ Len(Delay(t, n)) = 7
      /\ Delay(t, n)[1] = a /\ Delay(t, n)[2] = b /\ Delay(t, n)[3] = c
      /\ Delay(t, n)[4] = d /\ Delay(t, n)[5] = b /\ Delay(t, n)[6] = e
      /\ Delay(t, n)[7] = d
  BY <1>1, <1>3, Join43
<1> QED BY <1>2, <1>4

LEMMA MatchOffFact ==
  ASSUME NEW t \in Timers
  PROVE  LET s == MatchOff(t)
         IN  /\ s \in Seq(StepSet) /\ Len(s) = 5
             /\ s[1].op = "load" /\ s[2].op = "store" /\ s[2].set = FALSE /\ s[3].op = "load"
             /\ s[4].op = "store" /\ s[4].set = FALSE /\ s[5].op = "periodic"
<1> DEFINE a == Load("enabled")
           b == Store("enabled", t, FALSE)
           c == Load("flag")
           d == Store("flag", t, FALSE)
           e == [op |-> "periodic", timer |-> t, set |-> FALSE]
<1>1. a \in StepSet /\ b \in StepSet /\ c \in StepSet /\ d \in StepSet /\ e \in StepSet
  BY StepsFact DEF Regs
<1>2. /\ a.op = "load"
      /\ b.op = "store" /\ b.set = FALSE
      /\ c.op = "load"
      /\ d.op = "store" /\ d.set = FALSE
      /\ e.op = "periodic"
  BY DEF Load, Store, On
<1>3. MatchOff(t) = <<a, b>> \o <<c, d>> \o <<e>>
  BY DEF MatchOff, Modify
<1> HIDE DEF a, b, c, d, e
<1>4. /\ MatchOff(t) \in Seq(StepSet) /\ Len(MatchOff(t)) = 5
      /\ MatchOff(t)[1] = a /\ MatchOff(t)[2] = b /\ MatchOff(t)[3] = c
      /\ MatchOff(t)[4] = d /\ MatchOff(t)[5] = e
  BY <1>1, <1>3, Join221
<1> QED BY <1>2, <1>4

LEMMA MatchOnFact ==
  ASSUME NEW t \in Timers, NEW n \in 0 .. MaxCount, NEW cyclic \in BOOLEAN,
         NEW s, s = MatchOn(t, n, cyclic)
  PROVE  /\ s \in Seq(StepSet) /\ Len(s) = 10
         /\ s[1].op = "limit" /\ s[2].op = "periodic" /\ s[3].op = "load"
         /\ s[4].op = "store" /\ s[4].reg = "flag" /\ s[5] = [op |-> "reset", timer |-> t]
         /\ s[5].op = "reset" /\ s[6].op = "allow" /\ s[7].op = "awaitReset"
         /\ s[8].op = "restore" /\ s[9].op = "load" /\ s[10].op = "store"
         /\ s[10] = On(t)
<1> DEFINE a == [op |-> "limit", timer |-> t, count |-> n]
           b == [op |-> "periodic", timer |-> t, set |-> cyclic]
           c == Load("flag")
           d == Store("flag", t, FALSE)
           e == [op |-> "reset", timer |-> t]
           f == [op |-> "allow"]
           g == [op |-> "awaitReset"]
           h == [op |-> "restore"]
           i == Load("enabled")
           j == On(t)
<1>1. a \in StepSet /\ b \in StepSet /\ c \in StepSet /\ d \in StepSet /\ e \in StepSet /\ f \in StepSet /\ g \in StepSet /\ h \in StepSet /\ i \in StepSet /\ j \in StepSet
  BY StepsFact DEF Regs, On
<1>2. /\ a.op = "limit"
      /\ b.op = "periodic"
      /\ c.op = "load"
      /\ d.op = "store" /\ d.reg = "flag"
      /\ e = [op |-> "reset", timer |-> t] /\ e.op = "reset"
      /\ f.op = "allow"
      /\ g.op = "awaitReset"
      /\ h.op = "restore"
      /\ i.op = "load"
      /\ j.op = "store" /\ j = On(t)
  BY DEF Load, Store, On
<1>3. s = <<a, b>> \o <<c, d>> \o <<e, f, g, h>> \o <<i, j>>
  BY DEF MatchOn, Modify, ResetTimer, On
<1> HIDE DEF a, b, c, d, e, f, g, h, i, j
<1>4. /\ s \in Seq(StepSet) /\ Len(s) = 10
      /\ s[1] = a /\ s[2] = b /\ s[3] = c
      /\ s[4] = d /\ s[5] = e /\ s[6] = f
      /\ s[7] = g /\ s[8] = h /\ s[9] = i
      /\ s[10] = j
  BY <1>1, <1>3, Join2242
<1> QED BY <1>2, <1>4

-----------------------------------------------------------------------------
\* The condition on a fresh list of steps under which a call keeps the invariant.
Fresh(L, t0) ==
  /\ L \in Seq(StepSet)
  /\ \A k \in 1 .. Len(L) : L[k].op = "awaitCount" =>
       /\ k = 6 /\ L[1] = [op |-> "reset", timer |-> L[k].timer]
       /\ L[2].op = "allow" /\ L[3].op = "awaitReset"
  /\ \A t \in Timers, k \in 1 .. Len(L) : L[k] = On(t) =>
       \/ t # t0
       \/ /\ k = 10 /\ L[5] = [op |-> "reset", timer |-> t]
          /\ L[6].op = "allow" /\ L[7].op = "awaitReset"

\* Lists without a step that relies on a reset.
LEMMA FreshFact ==
  ASSUME NEW L \in Seq(StepSet), NEW t0,
         \A k \in 1 .. Len(L) : L[k].op # "awaitCount" /\ (L[k].op = "store" => L[k].reg = "flag" \/ ~L[k].set)
  PROVE  Fresh(L, t0)
<1>1. \A t \in Timers : LET s == On(t) IN s.op = "store" /\ s.reg = "enabled" /\ s.set = TRUE
  BY DEF Store, On
<1>2. "flag" # "enabled"
  OBVIOUS
<1> QED BY <1>1, <1>2 DEF Fresh

LEMMA CallStep ==
  ASSUME IInv, NEW L, NEW t0, Fresh(L, t0), Call(L),
         \/ age' = age /\ t0 \notin Timers
         \/ /\ t0 \in Timers /\ age' = [age EXCEPT ![t0] = 0]
            /\ \E k \in 1 .. Len(L) : L[k] = On(t0)
  PROVE  IInv'
<1>1. /\ todo = <<>> /\ todo' = L /\ waited' = 0 /\ L \in Seq(StepSet) /\ DOMAIN L = 1 .. Len(L)
      /\ UNCHANGED <<counters, resetIdx, limit, periodic, enabled, flag, gie, byte, saved>>
  BY LenProperties DEF Call, Fresh
<1>2. Types'
  <2>1. \A k \in DOMAIN L : L[k].op \in StepOps
    BY <1>1, OpsFact, ElementOfSeq
  <2>2. age \in [Timers -> 0 .. MaxCount]
    BY DEF IInv, Types, TypeOK
  <2>3. age' \in [Timers -> 0 .. MaxCount]
    <3>1. CASE age' = age
      BY <2>2, <3>1
    <3>2. CASE t0 \in Timers /\ age' = [age EXCEPT ![t0] = 0]
      BY <2>2, <3>2
    <3> QED BY <3>1, <3>2
  <2> QED BY <1>1, <2>1, <2>3 DEF IInv, Types, TypeOK
<1>3. Waited'
  <2> SUFFICES ASSUME NEW t \in Timers, NEW k \in 1 .. Len(L), L[k].op = "awaitCount", L[k].timer = t
               PROVE  Unreset(k, t)'
    BY <1>1 DEF Waited, Todos
  <2> QED BY <1>1 DEF Fresh, Unreset
<1>4. Programming = {}
  BY <1>1 DEF Programming, On
<1>5. Aged'
  <2>1. \A t \in Timers : counters[t] <= age[t]
    BY <1>4 DEF IInv, Aged
  <2>2. \A t \in Timers : t # t0 => age'[t] = age[t]
    BY DEF IInv, Types, TypeOK
  <2>3. ASSUME NEW t \in Timers, NEW k \in 1 .. Len(L), L[k] = On(t)
        PROVE  Unreset(k, t)' \/ counters[t] <= age'[t]
    <3>1. CASE t = t0
      <4>1. k = 10 /\ todo'[5] = [op |-> "reset", timer |-> t] /\ todo'[6].op = "allow" /\ todo'[7].op = "awaitReset"
        BY <1>1, <2>3, <3>1 DEF Fresh
      <4> QED BY <4>1 DEF Unreset
    <3>2. CASE t # t0
      BY <2>1, <2>2, <3>2
    <3> QED BY <3>1, <3>2
  <2>4. ASSUME NEW t \in Timers, t \notin Programming' PROVE counters[t] <= age'[t]
    BY <1>1, <2>1, <2>2, <2>4 DEF Programming, On
  <2> QED BY <1>1, <2>3, <2>4 DEF Aged, Todos
<1> QED BY <1>2, <1>3, <1>5 DEF IInv

LEMMA CallsStep == ASSUME IInv, Calls PROVE IInv'
<1> DEFINE none == CHOOSE x : x \notin Timers
<1>0. none \notin Timers
  BY NoSetContainsEverything
<1> HIDE DEF none
<1>1. ASSUME NEW t \in Timers, TimerStart(t) PROVE IInv'
  <2>1. /\ ResetTimer(t) \in Seq(StepSet) /\ Len(ResetTimer(t)) = 4
        /\ ResetTimer(t)[1].op = "reset" /\ ResetTimer(t)[2].op = "allow"
        /\ ResetTimer(t)[3].op = "awaitReset" /\ ResetTimer(t)[4].op = "restore"
    BY ResetFact
  <2>2. \A k \in 1 .. 4 : k = 1 \/ k = 2 \/ k = 3 \/ k = 4
    OBVIOUS
  <2>3. Fresh(ResetTimer(t), none)
    BY <2>1, <2>2, FreshFact
  <2> QED BY <1>0, <1>1, <2>3, CallStep DEF TimerStart
<1>2. ASSUME NEW t \in Timers, GetFlagClear(t) PROVE IInv'
  <2> DEFINE L == Modify("flag", t, FALSE)
  <2>1. /\ L \in Seq(StepSet) /\ Len(L) = 2 /\ L[1].op = "load"
        /\ L[2].op = "store" /\ L[2].reg = "flag"
    BY ClearFact
  <2>2. \A k \in 1 .. 2 : k = 1 \/ k = 2
    OBVIOUS
  <2> HIDE DEF L
  <2>3. Fresh(L, none)
    BY <2>1, <2>2, FreshFact
  <2> QED BY <1>0, <1>2, <2>3, CallStep DEF GetFlagClear, L
<1>7. Fresh(<<>>, none)
  BY <1>0 DEF Fresh
<1>3. ASSUME NEW t \in Timers, NEW n \in Periods, TimerDelay(t, n) PROVE IInv'
  <2>1. CASE n > MaxPeriod
    BY <1>0, <1>7, <1>3, <2>1, CallStep DEF TimerDelay
  <2>2. CASE ~(n > MaxPeriod)
    <3> DEFINE L == Delay(t, n)
    <3>0. n \in 0 .. MaxPeriod
      BY <2>2
    <3>1. /\ L \in Seq(StepSet) /\ Len(L) = 7 /\ L[1] = [op |-> "reset", timer |-> t]
          /\ L[1].op = "reset" /\ L[2].op = "allow" /\ L[3].op = "awaitReset" /\ L[4].op = "restore"
          /\ L[5].op = "allow" /\ L[6].op = "awaitCount" /\ L[6].timer = t /\ L[7].op = "restore"
      BY <3>0, DelayFact
    <3>2. \A k \in 1 .. 7 : k = 1 \/ k = 2 \/ k = 3 \/ k = 4 \/ k = 5 \/ k = 6 \/ k = 7
      OBVIOUS
    <3>3. \A u \in Timers : On(u).op = "store"
      BY DEF Store, On
    <3> HIDE DEF L
    <3>4. \A k \in 1 .. Len(L) : (L[k].op = "awaitCount" => k = 6) /\ L[k].op # "store"
      BY <3>1, <3>2
    <3>5. Fresh(L, none)
      BY <3>1, <3>3, <3>4 DEF Fresh
    <3> QED BY <1>0, <1>3, <2>2, <3>5, CallStep DEF TimerDelay, L
  <2> QED BY <2>1, <2>2
<1>4. ASSUME NEW t \in Timers, NEW us \in Periods, NEW cyclic \in BOOLEAN, SetMatchInt(t, us, cyclic)
      PROVE  IInv'
  <2>1. CASE us = 0
    <3>1. Fresh(MatchOff(t), none)
      <4> DEFINE L == MatchOff(t)
      <4>1. /\ L \in Seq(StepSet) /\ Len(L) = 5 /\ L[1].op = "load" /\ L[3].op = "load"
            /\ L[2].op = "store" /\ L[2].set = FALSE /\ L[4].op = "store" /\ L[4].set = FALSE
            /\ L[5].op = "periodic"
        BY MatchOffFact
      <4>2. \A k \in 1 .. 5 : k = 1 \/ k = 2 \/ k = 3 \/ k = 4 \/ k = 5
        OBVIOUS
      <4> HIDE DEF L
      <4>3. Fresh(L, none)
        BY <4>1, <4>2, FreshFact
      <4> QED BY <4>3 DEF L
    <3> QED BY <1>0, <1>4, <2>1, <3>1, CallStep DEF SetMatchInt
  <2>3. CASE us # 0 /\ RefusedPeriod(us)
    BY <1>0, <1>4, <1>7, <2>3, CallStep DEF SetMatchInt
  <2>2. CASE us # 0 /\ ~RefusedPeriod(us)
    <3> DEFINE n == PeriodTicks(us)
    <3>0. n \in 0 .. MaxCount
      BY <2>2, PeriodTicksFact
    <3> HIDE DEF n
    <3>1. Fresh(MatchOn(t, n, cyclic), t) /\ MatchOn(t, n, cyclic)[10] = On(t)
          /\ 10 \in 1 .. Len(MatchOn(t, n, cyclic))
      <4> DEFINE L == MatchOn(t, n, cyclic)
      <4>0. L = MatchOn(t, n, cyclic)
        OBVIOUS
      <4> HIDE DEF L
      <4>1. /\ L \in Seq(StepSet) /\ Len(L) = 10
            /\ L[1].op = "limit" /\ L[2].op = "periodic" /\ L[3].op = "load"
            /\ L[4].op = "store" /\ L[4].reg = "flag" /\ L[5] = [op |-> "reset", timer |-> t]
            /\ L[5].op = "reset" /\ L[6].op = "allow" /\ L[7].op = "awaitReset"
            /\ L[8].op = "restore" /\ L[9].op = "load" /\ L[10].op = "store"
            /\ L[10] = On(t)
        BY <3>0, <4>0, MatchOnFact
      <4>2. \A k \in 1 .. 10 : \/ k = 1 \/ k = 2 \/ k = 3 \/ k = 4 \/ k = 5
                               \/ k = 6 \/ k = 7 \/ k = 8 \/ k = 9 \/ k = 10
        OBVIOUS
      <4>3. \A u \in Timers : On(u).op = "store" /\ On(u).reg = "enabled"
                             /\ On(u).timer = u
        BY DEF Store, On
      <4>4. \A k \in 1 .. Len(L) : L[k].op # "awaitCount" /\ (L[k].op = "store" => k = 10 \/ L[k].reg # "enabled")
        BY <4>1, <4>2
      <4>5. \A u \in Timers, k \in 1 .. Len(L) : L[k] = On(u) => k = 10
        <5> SUFFICES ASSUME NEW u \in Timers, NEW k \in 1 .. Len(L), L[k] = On(u) PROVE k = 10
          OBVIOUS
        <5>1. L[k].op = "store" /\ L[k].reg = "enabled"
          BY <4>3
        <5> QED BY <4>4, <5>1
      <4>6. Fresh(L, t)
        BY <4>1, <4>3, <4>4, <4>5 DEF Fresh
      <4> QED BY <4>1, <4>6 DEF L
    <3> QED BY <1>4, <2>2, <3>1, CallStep DEF SetMatchInt, n
  <2> QED BY <2>1, <2>2, <2>3
<1>5. ASSUME NEW t \in Timers, NEW on \in BOOLEAN, SetStatus(t, on) PROVE IInv'
  <2>1. /\ Modify("enabled", t, on) \in Seq(StepSet) /\ Len(Modify("enabled", t, on)) = 2
        /\ Modify("enabled", t, on)[1].op = "load" /\ Modify("enabled", t, on)[2].op = "store"
    BY StatusFact
  <2>2. \A k \in 1 .. 2 : k = 1 \/ k = 2
    OBVIOUS
  <2>3. \A u \in Timers : u # none
    BY <1>0
  <2>4. Fresh(Modify("enabled", t, on), none)
    BY <2>1, <2>2, <2>3 DEF Fresh
  <2> QED BY <1>0, <1>5, <2>4, CallStep DEF SetStatus
<1>6. ASSUME NEW on \in BOOLEAN, SetGlobalInterrupts(on) PROVE IInv'
  BY <1>6 DEF SetGlobalInterrupts, IInv, Types, TypeOK, Waited, Aged, Todos, Unreset, Programming, On
<1> QED BY <1>1, <1>2, <1>3, <1>4, <1>5, <1>6 DEF Calls

-----------------------------------------------------------------------------
\* A step takes the head off the list, and asks for a reset or waits for one if it is
\* that step.
LEMMA StepFact ==
  ASSUME Types, Step
  PROVE  /\ Types' /\ todo # <<>> /\ todo' = Tail(todo) /\ UNCHANGED <<counters, age, waited>>
         /\ IF Head(todo).op = "reset" THEN resetIdx' = Head(todo).timer ELSE resetIdx' = resetIdx
         /\ Head(todo).op = "awaitReset" => resetIdx = NoTimer
<1>1. todo # <<>> /\ todo' = Tail(todo)
  BY DEF Step, LoadByte, StoreByte, SetLimit, SetPeriodic, RequestReset, AllowInterrupts,
     RestoreInterrupts, AwaitReset, AwaitCount, Doing, Done
<1>2. /\ Head(todo) \in StepSet /\ Tail(todo) \in Seq(StepSet)
  BY <1>1, TailFact DEF Types
<1>3. \A k \in DOMAIN todo' : todo'[k].op \in StepOps
  BY <1>1, <1>2, OpsFact, ElementOfSeq, LenProperties
<1>4. UNCHANGED <<counters, age, waited>>
  BY DEF Step, LoadByte, StoreByte, SetLimit, SetPeriodic, RequestReset, AllowInterrupts,
     RestoreInterrupts, AwaitReset, AwaitCount, ticked, hist
<1>5. /\ IF Head(todo).op = "reset" THEN resetIdx' = Head(todo).timer ELSE resetIdx' = resetIdx
      /\ Head(todo).op = "awaitReset" => resetIdx = NoTimer
  BY DEF Step, LoadByte, StoreByte, SetLimit, SetPeriodic, RequestReset, AllowInterrupts,
     RestoreInterrupts, AwaitReset, AwaitCount, Doing, ticked
<1>6. resetIdx' \in Timers \union {NoTimer}
  BY <1>2, <1>5 DEF Types, TypeOK, StepSet
<1>7. limit' \in [Timers -> 0 .. MaxCount]
  <2>1. CASE SetLimit
    <3>1. Head(todo).count \in 0 .. MaxCount
      BY <1>2, <2>1 DEF SetLimit, Doing, StepSet
    <3> QED BY <2>1, <3>1 DEF SetLimit, Types, TypeOK
  <2>2. CASE ~SetLimit
    BY <2>2 DEF Step, LoadByte, StoreByte, SetPeriodic, RequestReset, AllowInterrupts,
       RestoreInterrupts, AwaitReset, AwaitCount, Types, TypeOK
  <2> QED BY <2>1, <2>2
<1>8. periodic' \subseteq Timers /\ enabled' \subseteq Timers /\ flag' \subseteq Timers /\ byte' \subseteq Timers
  <2>1. CASE SetPeriodic \/ StoreByte
    <3>1. Head(todo).timer \in Timers
      BY <1>2, <2>1 DEF SetPeriodic, StoreByte, Doing, StepSet
    <3> QED BY <2>1, <3>1 DEF SetPeriodic, StoreByte, Types, TypeOK
  <2>2. CASE LoadByte
    BY <2>2 DEF LoadByte, Types, TypeOK
  <2>3. CASE ~SetPeriodic /\ ~StoreByte /\ ~LoadByte
    BY <2>3 DEF Step, SetLimit, RequestReset, AllowInterrupts,
       RestoreInterrupts, AwaitReset, AwaitCount, Types, TypeOK
  <2> QED BY <2>1, <2>2, <2>3
<1>9. gie' \in BOOLEAN /\ saved' \in BOOLEAN
  BY DEF Step, LoadByte, StoreByte, SetLimit, SetPeriodic, RequestReset, AllowInterrupts,
     RestoreInterrupts, AwaitReset, AwaitCount, InterruptsOn, Types, TypeOK
<1>10. Types'
  BY <1>1, <1>2, <1>3, <1>4, <1>6, <1>7, <1>8, <1>9 DEF Types, TypeOK
<1> QED BY <1>1, <1>4, <1>5, <1>10

\* What is not reset before a step is not reset after it, counted from one further on.
LEMMA UnresetStep ==
  ASSUME Types, Step, NEW t \in Timers, NEW k \in Nat, k + 1 \in Todos, Unreset(k + 1, t)
  PROVE  Unreset(k, t)'
<1>1. /\ Head(todo) = todo[1] /\ Len(todo) \in Nat \ {0}
      /\ \A j \in 1 .. Len(todo) - 1 : todo'[j] = todo[j + 1]
  BY StepFact, TailFact DEF Types
<1>2. t # NoTimer
  OBVIOUS
<1>3. CASE k + 1 > 6
  <2>1. todo'[k - 5] = todo[k + 1 - 5] /\ todo'[k - 4] = todo[k + 1 - 4] /\ todo'[k - 3] = todo[k + 1 - 3]
    <3>1. {k - 5, k - 4, k - 3} \subseteq 1 .. Len(todo) - 1
      BY <1>1, <1>3 DEF Todos
    <3>2. k - 5 + 1 = k + 1 - 5 /\ k - 4 + 1 = k + 1 - 4 /\ k - 3 + 1 = k + 1 - 3
      OBVIOUS
    <3> QED BY <1>1, <3>1, <3>2
  <2> QED BY <1>3, <2>1 DEF Unreset
<1>4. CASE k + 1 = 6
  <2>1. /\ todo[1] = [op |-> "reset", timer |-> t] /\ todo'[1] = todo[2] /\ todo'[2] = todo[3]
        /\ todo[2].op = "allow" /\ todo[3].op = "awaitReset"
    BY <1>1, <1>4 DEF Unreset, Todos
  <2>2. resetIdx' = t
    BY <1>1, <2>1, StepFact
  <2> QED BY <1>4, <2>1, <2>2 DEF Unreset
<1>5. CASE k + 1 = 5
  <2>1. todo[1].op = "allow" /\ todo[2].op = "awaitReset" /\ resetIdx = t /\ todo'[1] = todo[2]
    BY <1>1, <1>5 DEF Unreset, Todos
  <2>2. resetIdx' = t
    BY <1>1, <2>1, StepFact
  <2> QED BY <1>5, <2>1, <2>2 DEF Unreset
<1>6. CASE k + 1 = 4
  BY <1>1, <1>2, <1>6, StepFact DEF Unreset
<1> QED BY <1>3, <1>4, <1>5, <1>6 DEF Unreset

LEMMA StepStep == ASSUME IInv, Step PROVE IInv'
<1>1. /\ Types' /\ UNCHANGED <<counters, age, waited>> /\ Len(todo) \in Nat \ {0} /\ Head(todo) = todo[1]
      /\ todo' = Tail(todo) /\ Len(todo') = Len(todo) - 1
      /\ \A j \in 1 .. Len(todo) - 1 : todo'[j] = todo[j + 1]
      /\ DOMAIN todo = 1 .. Len(todo) /\ DOMAIN todo' = 1 .. Len(todo) - 1
  BY StepFact, TailFact DEF IInv, Types
<1>2. Waited'
  <2>1. ASSUME NEW t \in Timers, NEW k \in 1 .. Len(todo) - 1, todo[k + 1].op = "awaitCount", todo[k + 1].timer = t
        PROVE  Unreset(k, t)' \/ counters[t] < waited
    <3>1. k \in Nat /\ k + 1 \in Todos
      BY <1>1 DEF Todos
    <3>2. Unreset(k + 1, t) \/ counters[t] < waited
      BY <2>1, <3>1 DEF IInv, Waited
    <3> QED BY <3>1, <3>2, UnresetStep DEF IInv
  <2> QED BY <1>1, <2>1 DEF Waited, Todos
<1>3. Aged'
  <2>1. ASSUME NEW t \in Timers, NEW k \in 1 .. Len(todo) - 1, todo[k + 1] = On(t)
        PROVE  Unreset(k, t)' \/ counters[t] <= age[t]
    <3>1. k \in Nat /\ k + 1 \in Todos
      BY <1>1 DEF Todos
    <3>2. Unreset(k + 1, t) \/ counters[t] <= age[t]
      BY <2>1, <3>1 DEF IInv, Aged
    <3> QED BY <3>1, <3>2, UnresetStep DEF IInv
  <2>2. ASSUME NEW t \in Timers, t \notin Programming' PROVE counters[t] <= age[t]
    <3>1. CASE t \notin Programming
      BY <3>1 DEF IInv, Aged
    <3>2. CASE t \in Programming
      <4>1. PICK k \in Todos : todo[k] = On(t)
        BY <1>1, <3>2 DEF Programming, On, Todos
      <4>2. k = 1
        <5> SUFFICES ASSUME k # 1 PROVE FALSE
          OBVIOUS
        <5>1. k - 1 \in DOMAIN todo' /\ todo'[k - 1] = todo[k]
          BY <1>1 DEF Todos
        <5> QED BY <2>2, <4>1, <5>1 DEF Programming, On
      <4>3. ~Unreset(1, t)
        BY DEF Unreset
      <4> QED BY <4>1, <4>2, <4>3 DEF IInv, Aged
    <3> QED BY <3>1, <3>2
  <2> QED BY <1>1, <2>1, <2>2 DEF Aged, Todos
<1> QED BY <1>1, <1>2, <1>3 DEF IInv

-----------------------------------------------------------------------------
\* The tick resets the timer that was asked for, and counts the others and their
\* ages together.
LEMMA TickStep == ASSUME IInv, VirtualTimerCb PROVE IInv'
<1>1. /\ counters \in [Timers -> 0 .. MaxCount] /\ age \in [Timers -> 0 .. MaxCount]
      /\ waited \in 0 .. MaxCount + 1 /\ todo' = todo
  BY DEF IInv, Types, TypeOK, VirtualTimerCb
<1>2. waited' \in 1 .. MaxCount + 1 /\ \A n \in 0 .. MaxCount : n < waited => AtMost(n + 1) < waited'
  BY <1>1 DEF VirtualTimerCb, AtMost
<1>3. \A t \in Timers : /\ counters'[t] \in 0 .. MaxCount
                        /\ counters'[t] = 0 \/ counters'[t] = AtMost(counters[t] + 1)
                        /\ t = resetIdx => counters'[t] = 0
  BY <1>1 DEF VirtualTimerCb, NextCount, AtMost
<1>4. \A t \in Timers : /\ age'[t] \in 0 .. MaxCount
                        /\ counters[t] <= age[t] => counters'[t] <= age'[t]
  BY <1>1 DEF VirtualTimerCb, NextCount, AtMost
<1>5. Types'
  BY <1>1, <1>2, <1>3, <1>4 DEF IInv, Types, TypeOK, VirtualTimerCb
<1>6. ASSUME NEW t \in Timers, NEW k \in Todos, Unreset(k, t)
      PROVE  Unreset(k, t)' \/ (counters'[t] < waited' /\ counters'[t] <= age'[t])
  BY <1>1, <1>2, <1>3, <1>4, <1>6 DEF Unreset
<1>7. Waited'
  <2>1. ASSUME NEW t \in Timers, NEW k \in Todos, todo[k].op = "awaitCount", todo[k].timer = t
        PROVE  Unreset(k, t)' \/ counters'[t] < waited'
    <3>1. Unreset(k, t) \/ counters[t] < waited
      BY <2>1 DEF IInv, Waited
    <3>2. counters[t] < waited => counters'[t] < waited'
      BY <1>1, <1>2, <1>3
    <3> QED BY <1>6, <3>1, <3>2
  <2> QED BY <1>1, <2>1 DEF Waited, Todos
<1>8. Aged'
  <2>1. Programming' = Programming
    BY <1>1 DEF Programming, On
  <2>2. ASSUME NEW t \in Timers, NEW k \in Todos, todo[k] = On(t)
        PROVE  Unreset(k, t)' \/ counters'[t] <= age'[t]
    <3>1. Unreset(k, t) \/ counters[t] <= age[t]
      BY <2>2 DEF IInv, Aged
    <3> QED BY <1>4, <1>6, <3>1
  <2>3. \A t \in Timers \ Programming : counters'[t] <= age'[t]
    BY <1>4 DEF IInv, Aged
  <2> QED BY <1>1, <2>1, <2>2, <2>3 DEF Aged, Todos
<1> QED BY <1>5, <1>7, <1>8 DEF IInv

LEMMA InvInit == Init => IInv
<1> SUFFICES ASSUME Init PROVE IInv
  OBVIOUS
<1>1. todo = <<>> /\ todo \in Seq(StepSet) /\ Len(todo) = 0 /\ DOMAIN todo = {}
  BY EmptySeq DEF Init
<1>2. Types
  BY <1>1 DEF Init, Types, TypeOK
<1>3. Waited /\ Aged
  BY <1>1 DEF Init, Waited, Aged, Todos
<1> QED BY <1>2, <1>3 DEF IInv

LEMMA InvStep == IInv /\ [Next]_vars => IInv'
<1>1. ASSUME IInv, UNCHANGED vars PROVE IInv'
  BY <1>1 DEF vars, ticked, hist, IInv, Types, TypeOK, Waited, Aged, Todos, Unreset, Programming, On
<1> QED BY <1>1, TickStep, StepStep, CallsStep DEF Next

\* vtmr_delay waits for ticks that make up for more than its argument, whatever the
\* frequency of the tick and whatever the conversion to ticks loses; and TypeOK.
THEOREM NoShortDelay == Spec => []DelayNeverShort
<1>1. IInv => DelayNeverShort
  <2> SUFFICES ASSUME IInv, Doing("awaitCount"), CountReached
               PROVE  waited * Second > Head(todo).us * Frequency
    BY DEF DelayNeverShort, IInv, Types
  <2>1. Head(todo) = todo[1] /\ 1 \in Todos /\ Head(todo) \in StepSet
    BY TailFact DEF IInv, Types, Todos, Doing
  <2>2. /\ Head(todo).timer \in Timers /\ Head(todo).count \in 0 .. MaxCount /\ Head(todo).us \in Nat
        /\ Head(todo).us * Frequency < (Head(todo).count + 1) * Second
    BY <2>1 DEF StepSet, Doing
  <2>3. counters[Head(todo).timer] < waited
    <3>1. todo[1].op = "awaitCount" /\ \A t : ~Unreset(1, t)
      BY <2>1 DEF Doing, Unreset
    <3> QED BY <2>1, <2>2, <3>1 DEF IInv, Waited
  <2>4. Head(todo).count + 1 <= waited /\ waited \in Nat /\ Head(todo).count + 1 \in Nat
    <3>1. counters[Head(todo).timer] \in Nat /\ waited \in Nat
      BY <2>2 DEF IInv, Types, TypeOK
    <3>2. Head(todo).count <= counters[Head(todo).timer]
      BY DEF CountReached
    <3> QED BY <2>2, <2>3, <3>1, <3>2
  <2>5. (Head(todo).count + 1) * Second <= waited * Second /\ waited * Second \in Nat
    BY <2>4, ProductBound
  <2>6. Head(todo).us * Frequency \in Nat /\ (Head(todo).count + 1) * Second \in Nat
    BY <2>2, <2>4, ProductBound
  <2> QED BY <2>2, <2>5, <2>6
<1> QED BY <1>1, InvInit, InvStep, PTL DEF Spec

\* The match interrupt of a timer is requested no sooner than its period after it was
\* programmed or after the one before.
THEOREM NoneEarly == Spec => NoEarlyInterrupt
<1>1. IInv /\ [Next]_vars => [VirtualTimerCb => \A t \in Fires \ Programming : age[t] + 1 >= limit[t]]_vars
  <2> SUFFICES ASSUME IInv, NEW t \in Fires \ Programming PROVE age[t] + 1 >= limit[t]
    OBVIOUS
  <2>1. t \in Timers /\ counters[t] + 1 >= limit[t]
    BY DEF IInv, Types, TypeOK, Fires, Matches
  <2>2. counters[t] <= age[t]
    BY <2>1 DEF IInv, Aged
  <2> QED BY <2>1, <2>2 DEF IInv, Types, TypeOK
<1> QED BY <1>1, InvInit, InvStep, PTL DEF Spec, NoEarlyInterrupt
=============================================================================

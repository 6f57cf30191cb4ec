--------------------------- MODULE SysTimerProofs ---------------------------
(***************************************************************************)
(* The clock never runs ahead of the true time, for every period of its    *)
(* interrupt, every maximum and width, and every program; and, when its    *)
(* interrupt is served within a period and a delay is over before the      *)
(* clock comes round again, a reading is the true time and a delay that    *)
(* ended has lasted at least as long as was asked.                         *)
(***************************************************************************)
EXTENDS SysTimer, TLAPS

\* What the interrupt has counted and the hardware holds, with a wrap still to be
\* counted, is not more than the time that has passed.
NotAhead == counter + raw + (IF pending THEN Period ELSE 0) <= clock

\* Nor is what a reading has put together so far.
ReadingNotAhead ==
  /\ pc = "count" => tempsys <= counter
  /\ pc = "again" => tempsys + tempcnt <= clock
  /\ pc = "add" => crtsys + tempcnt <= clock
  /\ pc \in {"overflow", "unmask", "done"} => crtsys <= clock

Types == TypeOK /\ NotAhead /\ ReadingNotAhead

USE SysTimerAssumption

LEMMA ModFact == ASSUME NEW x \in Nat, NEW m \in Nat \ {0} PROVE x % m \in 0 .. m - 1 /\ x % m <= x
OBVIOUS

LEMMA WrapFact ==
  ASSUME raw \in 0 .. Period - 1
  PROVE  (raw + 1) % Period = IF raw = Period - 1 THEN 0 ELSE raw + 1
OBVIOUS

LEMMA ValueFact == ASSUME TypeOK PROVE Value \in 0 .. Modulus - 1 /\ Value <= crtsys
<1>1. crtsys \in Nat
  BY DEF TypeOK
<1>2. Modulus \in Nat \ {0}
  OBVIOUS
<1> QED BY <1>1, <1>2, ModFact DEF Value

\* TypeOK in the three parts in which it is proved.
Times ==
  /\ clock \in 0 .. Horizon /\ from \in 0 .. clock /\ began \in 0 .. clock
  /\ raw \in 0 .. Period - 1 /\ counter \in 0 .. Horizon
Switches ==
  /\ pending \in BOOLEAN /\ masked \in BOOLEAN /\ gie \in BOOLEAN /\ lost \in BOOLEAN
  /\ pc \in {"idle", "first", "count", "again", "add", "overflow", "unmask", "done"}
Locals ==
  /\ lag \in 0 .. Latency
  /\ tempsys \in 0 .. Horizon /\ tempcnt \in 0 .. Period - 1 /\ crtsys \in 0 .. Horizon + Period
  /\ wait \in {0} \union Delays /\ tstart \in -1 .. Modulus - 1

LEMMA TypeParts == TypeOK <=> Times /\ Switches /\ Locals
BY DEF TypeOK, Times, Switches, Locals

LEMMA TypesInit == Init => Types
<1> SUFFICES ASSUME Init PROVE Types
  OBVIOUS
<1>1. Times
  BY DEF Init, Times
<1>2. Switches
  BY DEF Init, Switches
<1>3. Locals
  BY DEF Init, Locals
<1>4. NotAhead /\ ReadingNotAhead
  BY DEF Init, NotAhead, ReadingNotAhead
<1> QED BY <1>1, <1>2, <1>3, <1>4, TypeParts DEF Types

LEMMA TypesStep == Types /\ [Next]_vars => Types'
<1> SUFFICES ASSUME Types, [Next]_vars
             PROVE  Times' /\ Switches' /\ Locals' /\ NotAhead' /\ ReadingNotAhead'
  BY TypeParts, PTL DEF Types
<1>0. Times /\ Switches /\ Locals /\ NotAhead /\ ReadingNotAhead
  BY TypeParts DEF Types
<1>1. CASE Tick
  <2>1. Times'
    BY <1>0, <1>1, WrapFact DEF Tick, locals, delay, Times, NotAhead
  <2>2. Switches'
    BY <1>0, <1>1, WrapFact DEF Tick, locals, delay, Switches
  <2>3. Locals'
    BY <1>0, <1>1, WrapFact DEF Tick, locals, delay, Times, Locals, ReadingNotAhead, NotAhead
  <2>4. NotAhead'
    <3>1. /\ clock' = clock + 1 /\ counter' = counter /\ clock \in Nat /\ counter \in Nat
          /\ raw \in 0 .. Period - 1
          /\ IF raw = Period - 1 THEN raw' = 0 ELSE raw' = raw + 1
      BY <1>0, <1>1, WrapFact DEF Tick, Times
    <3>2. CASE raw' = 0
      BY <1>0, <1>1, <3>1, <3>2 DEF Tick, NotAhead
    <3>3. CASE raw' # 0
      <4>1. pending' = pending
        BY <1>0, <1>1, <3>3 DEF Tick, Switches
      <4> QED BY <1>0, <3>1, <3>3, <4>1 DEF NotAhead
    <3> QED BY <3>2, <3>3
  <2>5. ReadingNotAhead'
    BY <1>0, <1>1, WrapFact DEF Tick, locals, delay, Times, Locals, NotAhead, ReadingNotAhead
  <2> QED BY <2>1, <2>2, <2>3, <2>4, <2>5
<1>2. CASE SystimerIntHandler
  <2>1. Times'
    BY <1>0, <1>2 DEF SystimerIntHandler, Deliverable, hardware, locals, delay, Times, NotAhead
  <2>2. Switches'
    BY <1>0, <1>2 DEF SystimerIntHandler, Deliverable, hardware, locals, delay, Switches
  <2>3. Locals'
    BY <1>0, <1>2 DEF SystimerIntHandler, Deliverable, hardware, locals, delay, Times, Locals, ReadingNotAhead, NotAhead
  <2>4. NotAhead'
    BY <1>0, <1>2 DEF SystimerIntHandler, Deliverable, hardware, locals, delay, Times, NotAhead
  <2>5. ReadingNotAhead'
    BY <1>0, <1>2 DEF SystimerIntHandler, Deliverable, hardware, locals, delay, Times, Locals, NotAhead, ReadingNotAhead
  <2> QED BY <2>1, <2>2, <2>3, <2>4, <2>5
<1>3. ASSUME NEW h, NEW t, Goes(h, t)
      PROVE  /\ pc = h /\ pc' = t /\ lag' \in 0 .. Latency
             /\ UNCHANGED <<clock, raw, pending, lost>>
  BY <1>0, <1>3 DEF Goes, Locals, hardware
<1>5. CASE First
  <2>1. Times'
    BY <1>0, <1>3, <1>5 DEF First, locals, delay, Times, NotAhead
  <2>2. Switches'
    BY <1>0, <1>3, <1>5 DEF First, locals, delay, Switches
  <2>3. Locals'
    BY <1>0, <1>3, <1>5 DEF First, locals, delay, Times, Locals, ReadingNotAhead, NotAhead
  <2>4. NotAhead'
    BY <1>0, <1>3, <1>5 DEF First, locals, delay, Times, NotAhead
  <2>5. ReadingNotAhead'
    BY <1>0, <1>3, <1>5 DEF First, locals, delay, Times, Locals, NotAhead, ReadingNotAhead
  <2> QED BY <2>1, <2>2, <2>3, <2>4, <2>5
<1>6. CASE Count
  <2>1. Times'
    BY <1>0, <1>3, <1>6 DEF Count, locals, delay, Times, NotAhead
  <2>2. Switches'
    BY <1>0, <1>3, <1>6 DEF Count, locals, delay, Switches
  <2>3. Locals'
    BY <1>0, <1>3, <1>6 DEF Count, locals, delay, Times, Locals, ReadingNotAhead, NotAhead
  <2>4. NotAhead'
    BY <1>0, <1>3, <1>6 DEF Count, locals, delay, Times, NotAhead
  <2>5. ReadingNotAhead'
    BY <1>0, <1>3, <1>6 DEF Count, locals, delay, Times, Locals, NotAhead, ReadingNotAhead
  <2> QED BY <2>1, <2>2, <2>3, <2>4, <2>5
<1>7. CASE Again
  <2>1. Times'
    BY <1>0, <1>3, <1>7 DEF Again, SameAsBefore, locals, delay, Times, NotAhead
  <2>2. Switches'
    BY <1>0, <1>3, <1>7 DEF Again, SameAsBefore, locals, delay, Switches
  <2>3. Locals'
    BY <1>0, <1>3, <1>7 DEF Again, SameAsBefore, locals, delay, Times, Locals, ReadingNotAhead, NotAhead
  <2>4. NotAhead'
    BY <1>0, <1>3, <1>7 DEF Again, SameAsBefore, locals, delay, Times, NotAhead
  <2>5. ReadingNotAhead'
    BY <1>0, <1>3, <1>7 DEF Again, SameAsBefore, locals, delay, Times, Locals, NotAhead, ReadingNotAhead
  <2> QED BY <2>1, <2>2, <2>3, <2>4, <2>5
<1>8. CASE Add
  <2>1. Times'
    BY <1>0, <1>3, <1>8 DEF Add, Overflows, locals, delay, Times, NotAhead
  <2>2. Switches'
    BY <1>0, <1>3, <1>8 DEF Add, Overflows, locals, delay, Switches
  <2>3. Locals'
    BY <1>0, <1>3, <1>8 DEF Add, Overflows, locals, delay, Times, Locals, ReadingNotAhead, NotAhead
  <2>4. NotAhead'
    BY <1>0, <1>3, <1>8 DEF Add, Overflows, locals, delay, Times, NotAhead
  <2>5. ReadingNotAhead'
    BY <1>0, <1>3, <1>8 DEF Add, Overflows, locals, delay, Times, Locals, NotAhead, ReadingNotAhead
  <2> QED BY <2>1, <2>2, <2>3, <2>4, <2>5
<1>9. CASE Overflow
  <2>1. Times'
    BY <1>0, <1>3, <1>9 DEF Overflow, CounterWrapped, locals, delay, Times, NotAhead
  <2>2. Switches'
    BY <1>0, <1>3, <1>9 DEF Overflow, CounterWrapped, locals, delay, Switches
  <2>3. Locals'
    BY <1>0, <1>3, <1>9 DEF Overflow, CounterWrapped, locals, delay, Times, Locals, ReadingNotAhead, NotAhead
  <2>4. NotAhead'
    BY <1>0, <1>3, <1>9 DEF Overflow, CounterWrapped, locals, delay, Times, NotAhead
  <2>5. ReadingNotAhead'
    BY <1>0, <1>3, <1>9 DEF Overflow, CounterWrapped, locals, delay, Times, Locals, NotAhead, ReadingNotAhead
  <2> QED BY <2>1, <2>2, <2>3, <2>4, <2>5
<1>10. CASE Unmask
  <2>1. Times'
    BY <1>0, <1>3, <1>10 DEF Unmask, locals, delay, Times, NotAhead
  <2>2. Switches'
    BY <1>0, <1>3, <1>10 DEF Unmask, locals, delay, Switches
  <2>3. Locals'
    BY <1>0, <1>3, <1>10 DEF Unmask, locals, delay, Times, Locals, ReadingNotAhead, NotAhead
  <2>4. NotAhead'
    BY <1>0, <1>3, <1>10 DEF Unmask, locals, delay, Times, NotAhead
  <2>5. ReadingNotAhead'
    BY <1>0, <1>3, <1>10 DEF Unmask, locals, delay, Times, Locals, NotAhead, ReadingNotAhead
  <2> QED BY <2>1, <2>2, <2>3, <2>4, <2>5
<1>11. CASE Return \/ DelayStarts \/ DelayGoesOn \/ DelayEnds
  <2>1. PICK again \in BOOLEAN : Finish(again)
    BY <1>11 DEF Return, DelayStarts, DelayGoesOn, DelayEnds
  <2>2. /\ pc' \in {"first", "idle"} /\ lag' \in 0 .. Latency
        /\ UNCHANGED <<clock, raw, pending, lost, masked, gie, counter>>
        /\ tempsys' = 0 /\ tempcnt' = 0 /\ crtsys' = 0 /\ from' = clock
    BY <1>3, <2>1 DEF Finish
  <2>3. Value \in -1 .. Modulus - 1
    BY <1>0, TypeParts, ValueFact
  <2>4. wait' \in {0} \union Delays /\ tstart' \in -1 .. Modulus - 1 /\ began' = began
    <3>1. CASE Return \/ DelayGoesOn
      BY <1>0, <3>1 DEF Return, DelayGoesOn, Locals, delay
    <3>2. CASE DelayStarts
      BY <1>0, <2>3, <3>2 DEF DelayStarts, Locals
    <3>3. CASE DelayEnds
      BY <1>0, <3>3 DEF DelayEnds, Locals
    <3> QED BY <1>11, <3>1, <3>2, <3>3
  <2>5. Times' /\ NotAhead' /\ ReadingNotAhead'
    BY <1>0, <2>2, <2>4 DEF Times, NotAhead, ReadingNotAhead
  <2>6. Switches'
    BY <1>0, <2>2 DEF Switches
  <2>7. Locals'
    BY <1>0, <2>2, <2>4 DEF Locals
  <2> QED BY <2>5, <2>6, <2>7
<1>4. ASSUME NEW n \in {0} \union Delays, StartReading(n)
      PROVE  Times' /\ Switches' /\ Locals' /\ NotAhead' /\ ReadingNotAhead'
  <2>1. Times'
    BY <1>0, <1>3, <1>4 DEF StartReading, locals, Times, NotAhead
  <2>2. Switches'
    BY <1>0, <1>3, <1>4 DEF StartReading, locals, Switches
  <2>3. Locals'
    BY <1>0, <1>3, <1>4 DEF StartReading, locals, Times, Locals, ReadingNotAhead, NotAhead
  <2>4. NotAhead'
    BY <1>0, <1>3, <1>4 DEF StartReading, locals, Times, NotAhead
  <2>5. ReadingNotAhead'
    BY <1>0, <1>3, <1>4 DEF StartReading, locals, Times, Locals, NotAhead, ReadingNotAhead
  <2> QED BY <2>1, <2>2, <2>3, <2>4, <2>5
<1>12. ASSUME NEW on \in BOOLEAN, SetGlobalInterrupts(on)
       PROVE  Times' /\ Switches' /\ Locals' /\ NotAhead' /\ ReadingNotAhead'
  <2>1. Times'
    BY <1>0, <1>3, <1>12 DEF SetGlobalInterrupts, locals, delay, Times, NotAhead
  <2>2. Switches'
    BY <1>0, <1>3, <1>12 DEF SetGlobalInterrupts, locals, delay, Switches
  <2>3. Locals'
    BY <1>0, <1>3, <1>12 DEF SetGlobalInterrupts, locals, delay, Times, Locals, ReadingNotAhead, NotAhead
  <2>4. NotAhead'
    BY <1>0, <1>3, <1>12 DEF SetGlobalInterrupts, locals, delay, Times, NotAhead
  <2>5. ReadingNotAhead'
    BY <1>0, <1>3, <1>12 DEF SetGlobalInterrupts, locals, delay, Times, Locals, NotAhead, ReadingNotAhead
  <2> QED BY <2>1, <2>2, <2>3, <2>4, <2>5
<1>13. CASE UNCHANGED vars
  <2>1. Times'
    BY <1>0, <1>13 DEF vars, hardware, locals, delay, Times, NotAhead
  <2>2. Switches'
    BY <1>0, <1>13 DEF vars, hardware, locals, delay, Switches
  <2>3. Locals'
    BY <1>0, <1>13 DEF vars, hardware, locals, delay, Times, Locals, ReadingNotAhead, NotAhead
  <2>4. NotAhead'
    BY <1>0, <1>13 DEF vars, hardware, locals, delay, Times, NotAhead
  <2>5. ReadingNotAhead'
    BY <1>0, <1>13 DEF vars, hardware, locals, delay, Times, Locals, NotAhead, ReadingNotAhead
  <2> QED BY <2>1, <2>2, <2>3, <2>4, <2>5
<1> QED BY <1>1, <1>2, <1>4, <1>5, <1>6, <1>7, <1>8, <1>9, <1>10, <1>11, <1>12, <1>13 DEF Next

\* Before its first overflow the clock is not ahead of the true time, whatever the program
\* does with the interrupts and whatever the period (cmn_systimer_get); and TypeOK.
THEOREM ClockNotAhead == Spec => []NeverAhead
<1>1. Types => NeverAhead
  BY ValueFact DEF Types, TypeOK, ReadingNotAhead, NeverAhead
<1> QED BY <1>1, TypesInit, TypesStep, PTL DEF Spec

-----------------------------------------------------------------------------
\* The true time as the interrupt and the hardware have counted it, and what the
\* overflows taken off the counter keep it behind.
Elapsed == counter + raw + (IF pending THEN Period ELSE 0)
Behind == clock - Elapsed

\* The interrupt is masked while an overflow is taken off, and only then; a program
\* that is not in the clock is in no delay.
MaskedForOverflow ==
  /\ masked <=> pc \in {"overflow", "unmask"}
  /\ pc = "idle" => wait = 0

\* No microsecond is missed or counted twice, and an overflow is taken off the
\* counter once.  A reading that begins after that is of later instants only.
Kept ==
  ~lost =>
    \/ Behind = 0
    \/ /\ Behind = SysMax /\ clock > SysMax
       /\ pc \notin {"overflow", "unmask", "done"} => from > SysMax

\* A reading that will be used shows an instant since it began.  One put together
\* while a wrap was not counted is still to be found out: the interrupt is due
\* before the counter is looked at again.
Shown ==
  gie /\ ~lost =>
    /\ pc \in {"count", "again"} => tempsys <= counter
    /\ pc = "again" /\ tempsys = counter =>
         \/ Deliverable /\ lag >= Latency
         \/ \E t \in from .. clock : tempsys + tempcnt = t - Behind
    /\ pc = "add" => \E t \in from .. clock : crtsys + tempcnt = t - Behind
    /\ pc \in {"overflow", "unmask", "done"} => \E t \in from .. clock : crtsys = Wrapped(t)

\* The first reading of a delay shows an instant after the delay began.
StartShown ==
  /\ began <= from
  /\ gie /\ ~lost /\ wait # 0 /\ tstart # -1 => \E t \in began .. from : tstart = Wrapped(t)

TrueTime == MaskedForOverflow /\ Kept /\ Shown /\ StartShown

\* The clock overflows once, and an interrupt due when the hardware is read is taken
\* before the counter is looked at again.
InTime == Horizon <= 2 * SysMax /\ Latency <= 1

LEMMA WrappedFact ==
  ASSUME InTime, NEW t \in 0 .. Horizon
  PROVE  Wrapped(t) = (IF t <= SysMax THEN t ELSE t - SysMax)
<1>1. CASE t <= SysMax
  BY <1>1 DEF Wrapped
<1>2. CASE t > SysMax
  <2> DEFINE x == t - 1
  <2>1. x \in Nat /\ x >= SysMax /\ x < 2 * SysMax
    BY <1>2 DEF InTime
  <2>2. x % SysMax = x - SysMax
    <3> HIDE DEF x
    <3> QED BY <2>1
  <2> QED BY <1>2, <2>1, <2>2 DEF Wrapped
<1> QED BY <1>1, <1>2

\* A reading that is put together shows what it read, whole.
LEMMA ValueShown ==
  ASSUME InTime, Types, Shown, pc = "done", gie, ~lost
  PROVE  \E t \in from .. clock : Value = Wrapped(t)
<1>1. PICK t \in from .. clock : crtsys = Wrapped(t)
  BY DEF Shown
<1>2. t \in 0 .. Horizon /\ clock <= Horizon
  BY DEF Types, TypeOK
<1>3. crtsys \in Nat /\ crtsys < Modulus
  BY <1>1, <1>2, WrappedFact DEF InTime
<1>4. ASSUME NEW m \in Nat \ {0}, NEW x \in Nat, x < m PROVE x % m = x
  BY <1>4
<1>5. Value = crtsys
  BY <1>3, <1>4 DEF Value
<1> QED BY <1>1, <1>5

LEMMA TrueTimeInit == Init => TrueTime
<1> SUFFICES ASSUME Init PROVE TrueTime
  OBVIOUS
<1>1. MaskedForOverflow
  BY DEF Init, MaskedForOverflow
<1>2. Kept
  <2>1. Behind = 0
    <3>1. clock = 0 /\ counter = 0 /\ raw = 0 /\ pending = FALSE
      BY DEF Init
    <3>2. Elapsed = 0
      BY <3>1 DEF Elapsed
    <3> QED BY <3>1, <3>2 DEF Behind
  <2> QED BY <2>1 DEF Kept
<1>3. Shown
  BY DEF Init, Shown
<1>4. StartShown
  BY DEF Init, StartShown
<1> QED BY <1>1, <1>2, <1>3, <1>4 DEF TrueTime

\* Only an overflow changes how far the counter is behind.
LEMMA BehindKept ==
  ASSUME Types, [Next]_vars, ~Overflow, ~lost'
  PROVE  Behind' = Behind /\ ~lost
<1>0. Times /\ Switches
  BY TypeParts DEF Types
<1>1. CASE Tick
  <2>1. /\ clock' = clock + 1 /\ counter' = counter /\ clock \in Nat /\ counter \in Nat
        /\ raw \in 0 .. Period - 1
        /\ IF raw = Period - 1 THEN raw' = 0 ELSE raw' = raw + 1
    BY <1>0, <1>1, WrapFact DEF Tick, Times
  <2>2. ~lost /\ pending' = (pending \/ raw' = 0) /\ ~(pending /\ raw' = 0)
    BY <1>0, <1>1 DEF Tick, Switches
  <2>3. CASE raw' = 0
    <3>1. raw = Period - 1
      BY <2>1, <2>3
    <3>2. ~pending /\ pending'
      BY <2>2, <2>3
    <3> QED BY <2>1, <2>2, <2>3, <3>1, <3>2 DEF Behind, Elapsed
  <2>4. CASE raw' # 0
    <3>1. raw' = raw + 1 /\ pending' = pending
      BY <1>0, <2>1, <2>2, <2>4 DEF Switches
    <3> QED BY <2>1, <2>2, <3>1 DEF Behind, Elapsed
  <2> QED BY <2>3, <2>4
<1>2. CASE SystimerIntHandler
  BY <1>0, <1>2 DEF SystimerIntHandler, Deliverable, hardware, Times, Switches, Behind, Elapsed
<1>3. CASE UNCHANGED <<clock, raw, pending, counter, lost>>
  BY <1>3 DEF Behind, Elapsed
<1>4. ASSUME ~Tick, ~SystimerIntHandler PROVE UNCHANGED <<clock, raw, pending, counter, lost>>
  BY <1>4 DEF Next, vars, hardware, Goes, StartReading, First, Count, Again, Add, Unmask, Return,
     DelayStarts, DelayGoesOn, DelayEnds, Finish, SetGlobalInterrupts
<1> QED BY <1>1, <1>2, <1>3, <1>4

LEMMA MaskedStep == ASSUME Types, MaskedForOverflow, [Next]_vars PROVE MaskedForOverflow'
BY DEF Types, TypeOK, MaskedForOverflow, Next, vars, hardware, locals, delay, Tick, SystimerIntHandler, Goes, StartReading,
   First, Count, Again, Add, Overflow, Unmask, Return, DelayStarts, DelayGoesOn, DelayEnds, Finish,
   SetGlobalInterrupts

LEMMA KeptStep == ASSUME InTime, Types, TrueTime, [Next]_vars PROVE Kept'
<1> SUFFICES ASSUME ~lost' PROVE Kept'
  BY DEF Kept
<1>0. Times /\ Switches /\ Locals
  BY TypeParts DEF Types
<1>1. CASE Overflow
  <2>1. /\ pc = "overflow" /\ pc' = "unmask" /\ counter' = CounterWrapped
        /\ UNCHANGED <<clock, raw, pending, lost, from>>
    BY <1>1 DEF Overflow, Goes, hardware
  <2>2. CASE counter > SysMax
    <3>1. Elapsed > SysMax /\ Elapsed \in Nat /\ Elapsed <= clock
      BY <1>0, <2>2 DEF Elapsed, Times, Types, NotAhead
    <3>2. Behind = 0 /\ clock > SysMax
      BY <1>0, <2>1, <3>1 DEF TrueTime, Kept, Times, Behind, InTime
    <3>3. Behind' = SysMax
      BY <1>0, <2>1, <2>2, <3>2 DEF CounterWrapped, Behind, Elapsed, Times
    <3> QED BY <2>1, <3>2, <3>3 DEF Kept
  <2>3. CASE ~(counter > SysMax)
    <3>1. Behind' = Behind
      BY <2>1, <2>3 DEF CounterWrapped, Behind, Elapsed
    <3> QED BY <2>1, <3>1 DEF TrueTime, Kept
  <2> QED BY <2>2, <2>3
<1>2. CASE ~Overflow
  <2>1. Behind' = Behind /\ ~lost
    BY <1>2, BehindKept
  <2>2. (clock' = clock \/ clock' = clock + 1) /\ (from' = from \/ from' = clock)
    BY <1>0, <1>2 DEF Times, Next, vars, hardware, locals, delay, Tick, SystimerIntHandler, Goes, StartReading, First,
       Count, Again, Add, Unmask, Return, DelayStarts, DelayGoesOn, DelayEnds, Finish, SetGlobalInterrupts
  <2>3. pc \in {"overflow", "unmask", "done"} =>
          pc' \in {"overflow", "unmask", "done"} \/ from' = clock
    BY <1>0, <1>2 DEF Switches, Next, vars, hardware, locals, delay, Tick, SystimerIntHandler, Goes, StartReading, First,
       Count, Again, Add, Unmask, Return, DelayStarts, DelayGoesOn, DelayEnds, Finish, SetGlobalInterrupts
  <2>4. clock \in Nat /\ from \in Nat /\ clock' \in Nat /\ from <= clock /\ from' \in Nat
    BY <1>0, <2>2 DEF Times
  <2> QED BY <2>1, <2>2, <2>3, <2>4 DEF TrueTime, Kept
<1> QED BY <1>1, <1>2

\* Going on with interrupts enabled, the program had them enabled, or was not in the clock.
LEMMA StillEnabled ==
  ASSUME [Next]_vars, gie', pc' # "idle"
  PROVE  gie
BY DEF Next, vars, hardware, locals, delay, Tick, SystimerIntHandler, Goes, StartReading, First,
   Count, Again, Add, Overflow, Unmask, Return, DelayStarts, DelayGoesOn, DelayEnds, Finish, SetGlobalInterrupts

LEMMA ShownStep == ASSUME InTime, Types, TrueTime, [Next]_vars PROVE Shown'
<1> SUFFICES ASSUME gie', ~lost', pc' # "idle" PROVE Shown'
  BY DEF Shown
<1>0. Times /\ Switches /\ Locals /\ gie
  BY TypeParts, StillEnabled DEF Types
<1>1. ~lost
  BY BehindKept DEF Overflow, Goes
<1>2. /\ pc \in {"count", "again"} => tempsys <= counter
      /\ pc = "again" /\ tempsys = counter =>
           \/ Deliverable /\ lag >= Latency
           \/ \E t \in from .. clock : tempsys + tempcnt = t - Behind
      /\ pc = "add" => \E t \in from .. clock : crtsys + tempcnt = t - Behind
      /\ pc \in {"overflow", "unmask", "done"} => \E t \in from .. clock : crtsys = Wrapped(t)
  BY <1>0, <1>1 DEF TrueTime, Shown
<1>3. CASE Tick
  <2>1. /\ clock' = clock + 1 /\ UNCHANGED <<counter, tempsys, tempcnt, crtsys, pc, from, gie>>
        /\ Behind' = Behind /\ ~Deliverable
    BY <1>3, BehindKept DEF Tick, locals, Overflow, Goes, hardware
  <2>2. from .. clock \subseteq (from .. clock)'
    BY <1>0, <2>1 DEF Times
  <2> QED BY <1>2, <2>1, <2>2 DEF Shown, Wrapped
<1>4. CASE SystimerIntHandler
  <2>1. /\ counter' = counter + Period /\ UNCHANGED <<clock, tempsys, tempcnt, crtsys, pc, from>>
        /\ Behind' = Behind
    BY <1>4, BehindKept DEF SystimerIntHandler, locals, hardware, Overflow, Goes
  <2>2. counter \in Nat /\ tempsys \in Nat
    BY <1>0 DEF Times, Locals
  <2> QED BY <1>2, <2>1, <2>2 DEF Shown, Wrapped
<1>5. CASE First
  <2>1. pc' = "count" /\ tempsys' = counter /\ counter' = counter
    BY <1>5 DEF First, Goes
  <2> QED BY <1>0, <2>1 DEF Shown, Times
<1>6. CASE Count
  <2>1. /\ pc = "count" /\ pc' = "again" /\ tempcnt' = raw /\ (Deliverable => lag < Latency)
        /\ lag' = (IF Deliverable THEN lag + 1 ELSE 0)
        /\ UNCHANGED <<clock, raw, pending, counter, gie, masked, tempsys, from>> /\ Behind' = Behind
    BY <1>6, BehindKept DEF Count, Goes, hardware, Overflow
  <2>2. CASE pending
    <3>1. Deliverable /\ Deliverable'
      BY <1>0, <2>1, <2>2 DEF Deliverable, TrueTime, MaskedForOverflow
    <3>2. lag' >= Latency
      BY <1>0, <2>1, <3>1 DEF Locals, InTime
    <3> QED BY <1>2, <2>1, <3>1, <3>2 DEF Shown
  <2>3. CASE ~pending
    <3>1. tempsys = counter => tempsys + raw = clock - Behind
      BY <1>0, <2>3 DEF Behind, Elapsed, Times, Locals
    <3>2. clock \in from .. clock
      BY <1>0 DEF Times
    <3> QED BY <1>2, <2>1, <3>1, <3>2 DEF Shown
  <2> QED BY <2>2, <2>3
<1>7. CASE Again
  <2>1. /\ pc = "again" /\ crtsys' = counter /\ (Deliverable => lag < Latency)
        /\ UNCHANGED <<clock, raw, pending, counter, tempcnt, from>> /\ Behind' = Behind
        /\ IF counter = tempsys THEN pc' = "add" ELSE pc' = "count" /\ tempsys' = counter
    BY <1>7, BehindKept DEF Again, SameAsBefore, Goes, hardware, Overflow
  <2>2. ~(Deliverable /\ lag >= Latency)
    BY <1>0, <2>1 DEF Locals
  <2> QED BY <1>0, <1>2, <2>1, <2>2 DEF Shown, Times
<1>8. CASE Add
  <2>1. /\ pc = "add" /\ UNCHANGED <<clock, from>>
        /\ pc' \in {"overflow", "done"}
        /\ crtsys' = (IF crtsys + tempcnt > SysMax THEN (crtsys + tempcnt) - SysMax ELSE crtsys + tempcnt)
    <3>1. CASE Overflows(crtsys + tempcnt)
      <4>1. Goes("add", "overflow")
        BY <1>8, <3>1 DEF Add
      <4>2. crtsys' = (crtsys + tempcnt) - SysMax
        BY <1>8, <3>1 DEF Add
      <4>3. UNCHANGED from
        BY <1>8, <3>1 DEF Add
      <4> QED BY <3>1, <4>1, <4>2, <4>3 DEF Overflows, Goes, hardware
    <3>2. CASE ~Overflows(crtsys + tempcnt)
      BY <1>8, <3>2 DEF Add, Overflows, Goes, hardware
    <3> QED BY <3>1, <3>2
  <2>2. PICK t \in from .. clock : crtsys + tempcnt = t - Behind
    BY <1>2, <2>1
  <2>3. \/ Behind = 0
        \/ Behind = SysMax /\ t > SysMax
    BY <1>0, <1>1, <2>1, <2>2 DEF TrueTime, Kept, Times
  <2>4. t \in 0 .. Horizon /\ t <= 2 * SysMax
    BY <1>0, <2>2 DEF Times, InTime
  <2>5. Wrapped(t) = (IF t <= SysMax THEN t ELSE t - SysMax)
    BY <2>4, WrappedFact
  <2>6. crtsys' = Wrapped(t)
    <3>1. CASE Behind = 0
      BY <1>0, <2>1, <2>2, <2>4, <2>5, <3>1 DEF Locals
    <3>2. CASE Behind = SysMax /\ t > SysMax
      BY <1>0, <2>1, <2>2, <2>4, <2>5, <3>2 DEF Locals
    <3> QED BY <2>3, <3>1, <3>2
  <2> QED BY <2>1, <2>2, <2>6 DEF Shown, Wrapped
<1>9. CASE Overflow \/ Unmask
  <2>1. /\ pc \in {"overflow", "unmask"} /\ pc' \in {"unmask", "done"}
        /\ UNCHANGED <<clock, from, crtsys>>
    BY <1>9 DEF Overflow, Unmask, Goes, hardware, locals
  <2> QED BY <1>2, <2>1 DEF Shown, Wrapped
<1>10. ASSUME \/ Return \/ DelayStarts \/ DelayGoesOn \/ DelayEnds
              \/ \E n \in {0} \union Delays : StartReading(n)
              \/ \E on \in BOOLEAN : SetGlobalInterrupts(on)
       PROVE  Shown'
  <2>1. pc' \in {"first", "idle"}
    BY <1>10 DEF Return, DelayStarts, DelayGoesOn, DelayEnds, Finish, StartReading, SetGlobalInterrupts, Goes
  <2> QED BY <2>1 DEF Shown
<1>11. CASE UNCHANGED vars
  BY <1>0, <1>1, <1>11 DEF vars, hardware, locals, TrueTime, Shown, Deliverable, Behind, Elapsed, Wrapped
<1> QED BY <1>3, <1>4, <1>5, <1>6, <1>7, <1>8, <1>9, <1>10, <1>11 DEF Next

LEMMA StartShownStep == ASSUME InTime, Types, TrueTime, [Next]_vars PROVE StartShown'
<1>0. Times /\ Locals
  BY TypeParts DEF Types
<1>6. (began <= from)'
  <2>1. \/ UNCHANGED <<clock, began, from>>
        \/ began' \in {began, clock} /\ from' = clock
        \/ UNCHANGED <<began, from>>
    BY DEF Next, vars, hardware, locals, delay, Tick, SystimerIntHandler, Goes, StartReading, First,
       Count, Again, Add, Overflow, Unmask, Return, DelayStarts, DelayGoesOn, DelayEnds, Finish, SetGlobalInterrupts
  <2> QED BY <1>0, <2>1 DEF Times, TrueTime, StartShown
<1> SUFFICES ASSUME gie', ~lost', wait' # 0, tstart' # -1
             PROVE  (\E t \in began .. from : tstart = Wrapped(t))'
  BY <1>6 DEF StartShown
<1>1. pc' # "idle"
  BY MaskedStep DEF TrueTime, MaskedForOverflow
<1>2. gie
  BY <1>1, StillEnabled
<1>3. ~lost
  BY BehindKept DEF Overflow, Goes
<1>4. CASE DelayStarts
  <2>1. pc = "done" /\ tstart' = Value /\ from' = clock /\ began' = began
    BY <1>4 DEF DelayStarts, Finish, Goes
  <2>2. PICK t \in from .. clock : Value = Wrapped(t)
    BY <1>2, <1>3, <2>1, ValueShown DEF TrueTime
  <2>3. t \in began .. clock
    BY <1>0, <2>2 DEF Times, TrueTime, StartShown
  <2> QED BY <2>1, <2>2, <2>3 DEF StartShown, Wrapped
<1>5. CASE ~DelayStarts
  <2>1. UNCHANGED <<wait, tstart, began>> /\ (from' = from \/ from' = clock)
    BY <1>5 DEF Next, vars, hardware, locals, delay, Tick, SystimerIntHandler, Goes, StartReading, First,
       Count, Again, Add, Overflow, Unmask, Return, DelayGoesOn, DelayEnds, Finish, SetGlobalInterrupts
  <2>2. PICK t \in began .. from : tstart = Wrapped(t)
    BY <1>2, <1>3, <2>1 DEF TrueTime, StartShown
  <2>3. t \in began' .. from'
    BY <1>0, <2>1, <2>2 DEF Times
  <2> QED BY <2>1, <2>2, <2>3 DEF StartShown, Wrapped
<1> QED BY <1>4, <1>5

LEMMA TrueTimeStep == ASSUME InTime, Types, TrueTime, [Next]_vars PROVE TrueTime'
BY MaskedStep, KeptStep, ShownStep, StartShownStep DEF TrueTime

LEMMA TrueTimeAlways == ASSUME InTime PROVE Spec => [](Types /\ TrueTime)
BY TypesInit, TypesStep, TrueTimeInit, TrueTimeStep, PTL DEF Spec

\* With interrupts enabled a reading of the clock is the true time at some instant of the
\* reading, wherever in cmn_systimer_get the interrupt falls, for every period and maximum,
\* as long as the clock overflows once and the interrupt is not later than one read.
THEOREM ReadingsAreTrue == ASSUME InTime PROVE Spec => []ReadsTrueTime
<1>1. Types /\ TrueTime => ReadsTrueTime
  BY ValueShown DEF ReadsTrueTime, TrueTime
<1> QED BY <1>1, TrueTimeAlways, PTL

\* What two readings measure is not more than the time between them, and the one
\* microsecond that the second adds past an overflow.
LEMMA MeasuredFact ==
  ASSUME InTime, NEW s \in 0 .. Horizon, NEW t \in s .. Horizon, tstart = Wrapped(s), Value = Wrapped(t)
  PROVE  Measured <= t - s + (IF t > SysMax THEN 1 ELSE 0)
<1>1. /\ Wrapped(s) = (IF s <= SysMax THEN s ELSE s - SysMax)
      /\ Wrapped(t) = (IF t <= SysMax THEN t ELSE t - SysMax)
  BY WrappedFact
<1> QED BY <1>1 DEF Measured, InTime

\* platform_timer_delay never returns before the time asked for has passed, save for the
\* microsecond that cmn_systimer_get loses at an overflow, under the same conditions.
THEOREM DelaysAreLong == ASSUME InTime PROVE Spec => []DelayNeverShort
<1>1. ASSUME Types, TrueTime PROVE DelayNeverShort
  <2> SUFFICES ASSUME DelayReturns, gie, ~lost
               PROVE  clock - began + (IF clock > SysMax THEN 1 ELSE 0) >= wait
    BY DEF DelayNeverShort
  <2>0. Times /\ Locals
    BY <1>1, TypeParts DEF Types
  <2>1. PICK t \in from .. clock : Value = Wrapped(t)
    BY <1>1, ValueShown DEF TrueTime, DelayReturns
  <2>2. PICK s \in began .. from : tstart = Wrapped(s)
    BY <1>1 DEF TrueTime, StartShown, DelayReturns
  <2>3. s \in 0 .. Horizon /\ t \in s .. Horizon /\ t <= clock /\ began <= s
    BY <2>0, <2>1, <2>2 DEF Times
  <2>4. Measured <= t - s + (IF t > SysMax THEN 1 ELSE 0)
    BY <2>1, <2>2, <2>3, MeasuredFact
  <2>5. Measured >= wait /\ wait \in Nat /\ Measured \in Int
    BY <2>0, <1>1, ValueFact DEF DelayReturns, LongEnough, Locals, Types, Measured
  <2> QED BY <2>0, <2>3, <2>4, <2>5 DEF Times
<1> QED BY <1>1, TrueTimeAlways, PTL
=============================================================================

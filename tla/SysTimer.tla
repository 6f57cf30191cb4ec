------------------------------ MODULE SysTimer ------------------------------
(***************************************************************************)
(* The system timer: the microsecond clock of src/common_tmr.c             *)
(* (cmn_systimer_get), kept by a hardware counter and the interrupt of its *)
(* wrapping, and the delay built on it (platform_timer_delay).             *)
(*                                                                         *)
(* Time is a step of its own.  The main program reads the clock in the     *)
(* steps of cmn_systimer_get; `clock' is the true time, which it cannot    *)
(* see.  The interrupt is taken at most Latency steps of the main program  *)
(* after the counter has wrapped, unless it is masked.                     *)
(***************************************************************************)
EXTENDS Integers

CONSTANTS
  Period,    \* cmn_systimer_us_per_interrupt
  SysMax,    \* PLATFORM_TIMER_SYS_MAX
  Modulus,   \* values of timer_data_type
  Delays,    \* the delays asked for
  Latency,
  Horizon    \* bound: true time at which the model stops.  Beyond 2 * SysMax a
             \* clock that was never read is still above SysMax after the one
             \* subtraction of cmn_systimer_get

ASSUME SysTimerAssumption ==
  /\ Period \in Nat \ {0} /\ SysMax \in Nat \ {0}
  /\ Modulus \in Nat /\ Modulus > SysMax
  /\ Delays \subseteq Nat \ {0} /\ Latency \in Nat /\ Horizon \in Nat

VARIABLES
  clock,     \* true time, in microseconds
  raw,       \* the hardware counter (platform_timer_sys_raw_read)
  pending,   \* the counter has wrapped and the interrupt was not taken
  lag,       \* steps of the main program since it could have been taken
  masked,    \* platform_timer_sys_disable_int
  gie,       \* global interrupts enabled
  counter,   \* cmn_systimer_counter
  pc,        \* where the main program is in cmn_systimer_get, or "idle"
  tempsys, tempcnt, crtsys,   \* its local variables
  wait,      \* delay_us of the delay in progress, 0 for none
  tstart,    \* tstart of that delay, -1 before it is read
  from,      \* history: true time when the reading in progress began
  began,     \* history: true time when the delay in progress began
  lost       \* history: the counter has wrapped twice with interrupts disabled

hardware == <<clock, raw>>
locals == <<tempsys, tempcnt, crtsys>>
delay == <<wait, tstart, began>>
vars == <<hardware, pending, lag, masked, gie, counter, pc, locals, delay, from, lost>>

Init ==
  /\ clock = 0 /\ raw = 0 /\ counter = 0
  /\ pending = FALSE /\ lag = 0 /\ masked = FALSE /\ gie = TRUE
  /\ pc = "idle" /\ tempsys = 0 /\ tempcnt = 0 /\ crtsys = 0
  /\ wait = 0 /\ tstart = -1 /\ from = 0 /\ began = 0 /\ lost = FALSE

Deliverable == pending /\ gie /\ ~masked

-----------------------------------------------------------------------------
\* A second wrap loses the first one's interrupt.  That is for a program that
\* has disabled interrupts: masked, the interrupt is for a few instructions of a
\* period of a second.
Tick ==
  /\ ~Deliverable
  /\ ~(pending /\ gie /\ raw = Period - 1)
  /\ clock < Horizon /\ clock' = clock + 1
  /\ raw' = (raw + 1) % Period
  /\ pending' = (pending \/ raw' = 0)
  /\ lost' = (lost \/ (pending /\ raw' = 0))
  /\ UNCHANGED <<lag, masked, gie, counter, pc, locals, delay, from>>

\* systimer_int_handler, cmn_systimer_periodic
SystimerIntHandler ==
  /\ Deliverable
  /\ pending' = FALSE /\ lag' = 0
  /\ counter' = counter + Period
  /\ UNCHANGED <<hardware, masked, gie, pc, locals, delay, from, lost>>

-----------------------------------------------------------------------------
\* A step of the main program from one place to another.
Goes(here, there) ==
  /\ pc = here /\ pc' = there
  /\ Deliverable => lag < Latency
  /\ lag' = IF Deliverable THEN lag + 1 ELSE 0
  /\ UNCHANGED <<hardware, pending, lost>>

\* platform_timer_read_sys, from a program or at the start of a delay.
StartReading(n) ==
  /\ Goes("idle", "first")
  /\ wait' = n /\ tstart' = -1 /\ began' = clock /\ from' = clock
  /\ UNCHANGED <<masked, gie, counter, locals>>

First ==
  /\ Goes("first", "count") /\ tempsys' = counter
  /\ UNCHANGED <<masked, gie, counter, tempcnt, crtsys, delay, from>>

Count ==
  /\ Goes("count", "again") /\ tempcnt' = raw
  /\ UNCHANGED <<masked, gie, counter, tempsys, crtsys, delay, from>>

\* Slip: the counter not looked at a second time.
SameAsBeforeUnread == TRUE

SameAsBefore == counter = tempsys

Again ==
  /\ IF SameAsBefore THEN Goes("again", "add") /\ UNCHANGED tempsys
                     ELSE Goes("again", "count") /\ tempsys' = counter
  /\ crtsys' = counter
  /\ UNCHANGED <<masked, gie, counter, tempcnt, delay, from>>

Overflows(t) == t > SysMax

Add ==
  /\ LET t == crtsys + tempcnt IN
       IF Overflows(t) THEN Goes("add", "overflow") /\ crtsys' = t - SysMax /\ masked' = TRUE
                     ELSE Goes("add", "done") /\ crtsys' = t /\ UNCHANGED masked
  /\ UNCHANGED <<gie, counter, tempsys, tempcnt, delay, from>>

\* Slip: one microsecond more taken off the counter than off the reading.
CounterWrappedMore == IF counter > SysMax THEN counter - SysMax - 1 ELSE counter

CounterWrapped == IF counter > SysMax THEN counter - SysMax ELSE counter

Overflow ==
  /\ Goes("overflow", "unmask") /\ counter' = CounterWrapped
  /\ UNCHANGED <<masked, gie, locals, delay, from>>

Unmask ==
  /\ Goes("unmask", "done") /\ masked' = FALSE
  /\ UNCHANGED <<gie, counter, locals, delay, from>>

Value == crtsys % Modulus

\* The time a delay has measured: two readings, the later one past an overflow
\* when it is the smaller one.
Measured == IF Value < tstart THEN Value + SysMax + 1 - tstart ELSE Value - tstart

\* Slip: the delay over one microsecond too soon.
LongEnoughEarly == Measured + 1 >= wait

LongEnough == Measured >= wait

\* The end of a reading: what platform_timer_delay does with it.  The variables
\* that are dead then are reset.
Finish(again) ==
  /\ Goes("done", IF again THEN "first" ELSE "idle")
  /\ tempsys' = 0 /\ tempcnt' = 0 /\ crtsys' = 0
  /\ from' = clock
  /\ UNCHANGED <<masked, gie, counter>>

Return == wait = 0 /\ Finish(FALSE) /\ UNCHANGED delay

DelayStarts ==
  /\ wait # 0 /\ tstart = -1
  /\ Finish(TRUE) /\ tstart' = Value /\ UNCHANGED <<wait, began>>

DelayGoesOn ==
  /\ wait # 0 /\ tstart # -1 /\ ~LongEnough
  /\ Finish(TRUE) /\ UNCHANGED delay

DelayEnds ==
  /\ wait # 0 /\ tstart # -1 /\ LongEnough
  /\ Finish(FALSE) /\ wait' = 0 /\ tstart' = -1 /\ UNCHANGED began

SetGlobalInterrupts(on) ==
  /\ gie # on
  /\ Goes("idle", "idle") /\ gie' = on
  /\ UNCHANGED <<masked, counter, locals, delay, from>>

Next ==
  \/ Tick \/ SystimerIntHandler
  \/ \E n \in {0} \union Delays : StartReading(n)
  \/ First \/ Count \/ Again \/ Add \/ Overflow \/ Unmask
  \/ Return \/ DelayStarts \/ DelayGoesOn \/ DelayEnds
  \/ \E on \in BOOLEAN : SetGlobalInterrupts(on)

Spec == Init /\ [][Next]_vars

-----------------------------------------------------------------------------
TypeOK ==
  /\ clock \in 0 .. Horizon /\ from \in 0 .. clock /\ began \in 0 .. clock
  /\ raw \in 0 .. Period - 1 /\ counter \in 0 .. Horizon
  /\ pending \in BOOLEAN /\ masked \in BOOLEAN /\ gie \in BOOLEAN /\ lost \in BOOLEAN
  /\ lag \in 0 .. Latency
  /\ pc \in {"idle", "first", "count", "again", "add", "overflow", "unmask", "done"}
  /\ tempsys \in 0 .. Horizon /\ tempcnt \in 0 .. Period - 1 /\ crtsys \in 0 .. Horizon + Period
  /\ wait \in {0} \union Delays /\ tstart \in -1 .. Modulus - 1

\* The clock after n microseconds: 0 .. SysMax once, then 1 .. SysMax, since an
\* overflow takes off SysMax where it should take off SysMax + 1.
Wrapped(t) == IF t <= SysMax THEN t ELSE ((t - 1) % SysMax) + 1

\* With interrupts enabled, and no wrap lost while they were not, a reading of
\* the clock is the true time at some instant between its first step and its
\* last, however the interrupt falls among them.
ReadsTrueTime ==
  pc = "done" /\ gie /\ ~lost => \E t \in from .. clock : Value = Wrapped(t)

\* Before its first overflow the clock is never ahead of the true time, not even
\* for a program that disables interrupts: it then falls behind.
NeverAhead ==
  /\ TypeOK
  /\ pc = "done" /\ clock <= SysMax => Value <= clock

DelayReturns == pc = "done" /\ wait # 0 /\ tstart # -1 /\ LongEnough

\* platform_timer_delay returns only when the time asked for has passed.  Across
\* an overflow it makes up for one microsecond more than cmn_systimer_get takes
\* off, so there one may be missing.
DelayNeverShort ==
  DelayReturns /\ gie /\ ~lost =>
    clock - began + (IF clock > SysMax THEN 1 ELSE 0) >= wait

\* The same without the exception: where the second reading is smaller than the
\* first, the code adds what the "overflow" (common_tmr.c:224) took off.
DelayExact == DelayReturns /\ gie /\ ~lost => clock - began >= wait
=============================================================================

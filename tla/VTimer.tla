------------------------------- MODULE VTimer -------------------------------
(***************************************************************************)
(* The virtual timers of src/common_tmr.c: VTMR_NUM_TIMERS software        *)
(* counters advanced by one hardware timer interrupt (cmn_virtual_timer_cb)*)
(* and the calls of the main program that reset a counter, wait on it, or  *)
(* program its match interrupt.                                            *)
(*                                                                         *)
(* The tick is one step: interrupts do not nest.  A call is a list of      *)
(* steps, `todo', between any two of which the tick may run; a read-modify-*)
(* write of a byte of flags shared with the tick is two of them, the load  *)
(* and the store.                                                          *)
(***************************************************************************)
EXTENDS Integers, Sequences, FiniteSets

CONSTANTS
  Timers,    \* 0 .. VTMR_NUM_TIMERS - 1, all in one byte of each flag array
  Frequency, \* VTMR_FREQ_HZ, ticks in a second
  Second,    \* 1000000, microseconds in a second
  MaxPeriod, \* VTMR_MAX_PERIOD
  TypeLimit, \* 2^32 or 2^64: the values timer_data_type has (platform.h:80)
  Periods,   \* the delays and periods a program passes, in microseconds
  MaxCount,  \* bound: a counter stops at MaxCount
  NoTimer    \* -1 in vtmr_reset_idx

ASSUME VTimerAssumption ==
  /\ Frequency \in Nat \ {0} /\ Second \in Nat \ {0} /\ Frequency <= Second
  /\ MaxPeriod \in Nat /\ TypeLimit \in Nat \ {0}
  /\ Periods \subseteq 0 .. TypeLimit - 1
  /\ MaxCount \in Nat \ {0} /\ MaxPeriod <= MaxCount
  /\ NoTimer \notin Timers

VARIABLES
  counters,   \* vtmr_counters
  resetIdx,   \* vtmr_reset_idx
  limit,      \* vtmr_period_limit
  periodic,   \* vtmr_int_periodic_flag, as a set of timers
  enabled,    \* vtmr_int_enabled
  flag,       \* vtmr_int_flag
  gie,        \* global interrupts enabled
  todo,       \* the steps left of the call in progress, <<>> outside calls
  byte,       \* the register a flag byte was loaded into
  saved,      \* oldstate: gie on entry to a wait
  age,        \* history: ticks since vtmr_set_match_int(t) was last called, or
              \* since the last match of t while periodic
  waited      \* history: ticks since the call in progress began

vars == <<counters, resetIdx, limit, periodic, enabled, flag, gie, todo, byte,
          saved, age, waited>>

ticked == <<counters, resetIdx>>
hist == <<age, waited>>

AtMost(n) == IF n > MaxCount THEN MaxCount ELSE n
Doing(op) == todo # <<>> /\ Head(todo).op = op
Done == todo' = Tail(todo)

Init ==
  /\ counters = [t \in Timers |-> 0] /\ resetIdx = NoTimer
  /\ limit = [t \in Timers |-> 0]
  /\ periodic = {} /\ enabled = {} /\ flag = {}
  /\ gie = TRUE /\ todo = <<>> /\ byte = {} /\ saved = TRUE
  /\ age = [t \in Timers |-> MaxCount] /\ waited = 0

-----------------------------------------------------------------------------
(* The tick interrupt.                                                     *)

\* Slip: the match found one tick too soon.
MatchesEarly(t) == counters[t] + 2 >= limit[t]

Matches(t) == counters[t] + 1 >= limit[t]

\* The timers whose match interrupt this tick requests (elua_int_add).
Fires == {t \in enabled : Matches(t)}

\* Slip: the pending reset applied before the counters advance.
NextCountResetFirst(t) ==
  IF Matches(t) /\ t \in periodic THEN 0
  ELSE IF t = resetIdx THEN 1
  ELSE AtMost(counters[t] + 1)

NextCount(t) ==
  IF t = resetIdx \/ (Matches(t) /\ t \in periodic) THEN 0 ELSE AtMost(counters[t] + 1)

VirtualTimerCb ==
  /\ gie
  /\ LET matching == {t \in Timers : Matches(t)} IN
       /\ flag' = flag \union matching
       /\ enabled' = enabled \ (matching \ periodic)
       /\ age' = [t \in Timers |-> IF t \in matching \intersect periodic THEN 0
                                   ELSE AtMost(age[t] + 1)]
  /\ counters' = [t \in Timers |-> NextCount(t)]
  /\ resetIdx' = NoTimer
  /\ waited' = IF waited > MaxCount THEN waited ELSE waited + 1
  /\ UNCHANGED <<limit, periodic, gie, todo, byte, saved>>

-----------------------------------------------------------------------------
(* The calls, as lists of steps.                                           *)

Load(reg) == [op |-> "load", reg |-> reg]
Store(reg, t, set) == [op |-> "store", reg |-> reg, timer |-> t, set |-> set]
Modify(reg, t, set) == <<Load(reg), Store(reg, t, set)>>

ResetTimer(t) ==
  <<[op |-> "reset", timer |-> t], [op |-> "allow"], [op |-> "awaitReset"],
    [op |-> "restore"]>>

\* vtmr_delay converts in 64 bits.
DelayTicks(us) == (us * Frequency) \div Second

\* The wait keeps its argument with the count it is for.
Delay(t, us) ==
  ResetTimer(t)
    \o <<[op |-> "allow"],
         [op |-> "awaitCount", timer |-> t, count |-> DelayTicks(us), us |-> us],
         [op |-> "restore"]>>

\* vtmr_set_match_int converts in timer_data_type; PLATFORM_TIMER_INT_TOO_LONG and
\* PLATFORM_TIMER_INT_TOO_SHORT.
PeriodTicks(us) == ((us * Frequency) % TypeLimit) \div Second

RefusedPeriod(us) == PeriodTicks(us) > MaxPeriod \/ PeriodTicks(us) = 0

\* period_us = 0.  vtmr_int_periodic_flag is written by the main program only.
MatchOff(t) ==
  Modify("enabled", t, FALSE) \o Modify("flag", t, FALSE)
    \o <<[op |-> "periodic", timer |-> t, set |-> FALSE]>>

\* Slip: the counter not reset when a period is programmed.
MatchOnNoReset(t, n, cyclic) ==
  <<[op |-> "limit", timer |-> t, count |-> n],
    [op |-> "periodic", timer |-> t, set |-> cyclic]>>
    \o Modify("flag", t, FALSE) \o Modify("enabled", t, TRUE)

MatchOn(t, n, cyclic) ==
  <<[op |-> "limit", timer |-> t, count |-> n],
    [op |-> "periodic", timer |-> t, set |-> cyclic]>>
    \o Modify("flag", t, FALSE) \o ResetTimer(t) \o Modify("enabled", t, TRUE)

Call(steps) ==
  /\ todo = <<>>
  /\ todo' = steps /\ waited' = 0
  /\ UNCHANGED <<counters, resetIdx, limit, periodic, enabled, flag, gie, byte, saved>>

\* Operation START; UNCHANGED age: resetting a counter only delays a match.
TimerStart(t) == Call(ResetTimer(t)) /\ UNCHANGED age

\* A delay of more microseconds than VTMR_MAX_PERIOD, a number of ticks, is over at once.
TimerDelay(t, us) ==
  Call(IF us > MaxPeriod THEN <<>> ELSE Delay(t, us)) /\ UNCHANGED age

SetMatchInt(t, us, cyclic) ==
  \/ us = 0 /\ Call(MatchOff(t)) /\ UNCHANGED age
  \/ us # 0 /\ RefusedPeriod(us) /\ Call(<<>>) /\ UNCHANGED age
  \/ /\ us # 0 /\ ~RefusedPeriod(us)
     /\ Call(MatchOn(t, PeriodTicks(us), cyclic)) /\ age' = [age EXCEPT ![t] = 0]

\* vtmr_int_get_flag with clear; without it nothing changes.
GetFlagClear(t) == Call(Modify("flag", t, FALSE)) /\ UNCHANGED age

SetStatus(t, on) == Call(Modify("enabled", t, on)) /\ UNCHANGED age

\* cpu.cli() and cpu.sei() without arguments.
SetGlobalInterrupts(on) ==
  /\ todo = <<>> /\ gie' = on
  /\ UNCHANGED <<counters, resetIdx, limit, periodic, enabled, flag, todo, byte,
                 saved, age, waited>>

-----------------------------------------------------------------------------
(* The steps.                                                              *)

LoadByte ==
  /\ Doing("load") /\ Done
  /\ byte' = IF Head(todo).reg = "flag" THEN flag ELSE enabled
  /\ UNCHANGED <<ticked, limit, periodic, enabled, flag, gie, saved, hist>>

StoreByte ==
  /\ Doing("store") /\ Done
  /\ LET s == Head(todo)
         new == IF s.set THEN byte \union {s.timer} ELSE byte \ {s.timer}
     IN IF s.reg = "flag" THEN flag' = new /\ UNCHANGED enabled
                          ELSE enabled' = new /\ UNCHANGED flag
  /\ byte' = {}   \* the register is dead
  /\ UNCHANGED <<ticked, limit, periodic, gie, saved, hist>>

SetLimit ==
  /\ Doing("limit") /\ Done
  /\ limit' = [limit EXCEPT ![Head(todo).timer] = Head(todo).count]
  /\ UNCHANGED <<ticked, periodic, enabled, flag, gie, byte, saved, hist>>

SetPeriodic ==
  /\ Doing("periodic") /\ Done
  /\ periodic' = IF Head(todo).set THEN periodic \union {Head(todo).timer}
                                   ELSE periodic \ {Head(todo).timer}
  /\ UNCHANGED <<ticked, limit, enabled, flag, gie, byte, saved, hist>>

RequestReset ==
  /\ Doing("reset") /\ Done
  /\ resetIdx' = Head(todo).timer
  /\ UNCHANGED <<counters, limit, periodic, enabled, flag, gie, byte, saved, hist>>

\* Slip: the wait entered with interrupts as they are.
InterruptsAsTheyAre == gie

InterruptsOn == TRUE

\* platform_cpu_set_global_interrupts( PLATFORM_CPU_ENABLE )
AllowInterrupts ==
  /\ Doing("allow") /\ Done
  /\ saved' = gie /\ gie' = InterruptsOn
  /\ UNCHANGED <<ticked, limit, periodic, enabled, flag, byte, hist>>

RestoreInterrupts ==
  /\ Doing("restore") /\ Done
  /\ gie' = saved /\ saved' = TRUE
  /\ UNCHANGED <<ticked, limit, periodic, enabled, flag, byte, hist>>

AwaitReset ==
  /\ Doing("awaitReset") /\ Done
  /\ resetIdx = NoTimer
  /\ UNCHANGED <<ticked, limit, periodic, enabled, flag, gie, byte, saved, hist>>

CountReached == counters[Head(todo).timer] >= Head(todo).count

AwaitCount ==
  /\ Doing("awaitCount") /\ Done
  /\ CountReached
  /\ UNCHANGED <<ticked, limit, periodic, enabled, flag, gie, byte, saved, hist>>

Step ==
  \/ LoadByte \/ StoreByte \/ SetLimit \/ SetPeriodic
  \/ RequestReset \/ AllowInterrupts \/ RestoreInterrupts
  \/ AwaitReset \/ AwaitCount

Calls ==
  \/ \E t \in Timers :
       \/ TimerStart(t) \/ GetFlagClear(t)
       \/ \E us \in Periods : TimerDelay(t, us)
       \/ \E us \in Periods, cyclic \in BOOLEAN : SetMatchInt(t, us, cyclic)
       \/ \E on \in BOOLEAN : SetStatus(t, on)
  \/ \E on \in BOOLEAN : SetGlobalInterrupts(on)

Next == VirtualTimerCb \/ Step \/ Calls

Spec == Init /\ [][Next]_vars

(***************************************************************************)
(* The hardware timer keeps running, so a tick is taken again and again    *)
(* while interrupts are enabled, and the processor executes a call.  The   *)
(* loop of vtmr_delay looks at the counter many times a tick: it does not  *)
(* miss a count that is there for a tick now and again.                    *)
(***************************************************************************)
LiveSpec == Spec /\ WF_vars(VirtualTimerCb) /\ WF_vars(Step) /\ SF_vars(AwaitCount)

-----------------------------------------------------------------------------
StepOps == {"load", "store", "limit", "periodic", "reset", "allow", "restore",
            "awaitReset", "awaitCount"}

TypeOK ==
  /\ counters \in [Timers -> 0 .. MaxCount]
  /\ resetIdx \in Timers \union {NoTimer}
  /\ limit \in [Timers -> 0 .. MaxCount]
  /\ periodic \subseteq Timers /\ enabled \subseteq Timers /\ flag \subseteq Timers
  /\ byte \subseteq Timers
  /\ gie \in BOOLEAN /\ saved \in BOOLEAN
  /\ \A k \in DOMAIN todo : todo[k].op \in StepOps
  /\ age \in [Timers -> 0 .. MaxCount]
  /\ waited \in 0 .. MaxCount + 1

\* A delay of up to VTMR_MAX_PERIOD microseconds ends only when the ticks since the
\* call began make up for more than its argument, also where that is no whole number of
\* tick periods.  The first of those ticks may follow the call at once: the delay is
\* short by less than one tick period.
DelayNeverShort ==
  /\ TypeOK
  /\ Doing("awaitCount") /\ CountReached => waited * Second > Head(todo).us * Frequency

\* The interrupt of a timer comes no sooner than its period, in the whole ticks
\* vtmr_set_match_int made of it, after that call programmed it, and a cyclic one no
\* sooner than its period after the one before, once that call has returned.  (While
\* the call runs the new limit is compared with the old count.)
Programming ==
  {t \in Timers : \E k \in DOMAIN todo : todo[k] = Store("enabled", t, TRUE)}

NoEarlyInterrupt ==
  [][VirtualTimerCb => \A t \in Fires \ Programming : age[t] + 1 >= limit[t]]_vars

\* "Ensure that Interrupts are enabled before timer is reset, otherwise eLua
\* will hang forever" (common_tmr.c:83): a wait for the reset ends, whatever
\* the program had done to the global interrupt flag.
ResetReturns == Doing("awaitReset") ~> ~Doing("awaitReset")

\* "Ensure that Interrupts are enabled otherwise eLua will hang forever"
\* (common_tmr.c:99): a delay ends, unless its timer has a cyclic match interrupt
\* of a period not longer than the delay, which resets the counter before it
\* reaches the count waited for.
Outrun ==
  /\ Doing("awaitCount")
  /\ Head(todo).timer \in periodic /\ limit[Head(todo).timer] <= Head(todo).count

DelayReturns == Doing("awaitCount") ~> ~Doing("awaitCount") \/ Outrun

CallsReturn == ResetReturns /\ DelayReturns
=============================================================================

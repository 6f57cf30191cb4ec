------------------------------ MODULE IntQueue ------------------------------
(***************************************************************************)
(* The queue that carries interrupts to their Lua handlers                 *)
(* (src/elua_int.c), with the part of the Lua VM it relies on: the count   *)
(* hook of each Lua thread (ldebug.c, ldo.c, lstate.c).                    *)
(*                                                                         *)
(* Two parties share the ring.  An interrupt service routine runs          *)
(* elua_int_add, at any moment the main program has interrupts enabled and *)
(* as one step, since the service routines do not nest.  The main program  *)
(* runs elua_int_hook between two VM instructions, as the separate steps   *)
(* an interrupt may fall between.                                          *)
(***************************************************************************)
EXTENDS Integers, Sequences, FiniteSets

CONSTANTS
  QueueSize,       \* 1 << PLATFORM_INT_QUEUE_LOG_SIZE
  IntIds,          \* the interrupt types, ELUA_INT_FIRST_ID .. INT_ELUA_LAST
  Main,            \* the Lua thread lua_getstate() returns
  Coroutines,      \* names for the coroutines alive at one time
  MaxRaised        \* bound: interrupts raised in one behaviour

EmptySlot == 0     \* ELUA_INT_EMPTY_SLOT

ASSUME IntQueueAssumption ==
  /\ QueueSize \in Nat \ {0}
  /\ IntIds \subseteq Nat \ {EmptySlot}
  /\ Main \notin Coroutines
  /\ MaxRaised \in Nat

Threads == {Main} \union Coroutines
Idx == 0 .. QueueSize - 1

VARIABLES
  queue,      \* elua_int_queue
  readIdx,    \* elua_int_read_idx
  writeIdx,   \* elua_int_write_idx
  flags,      \* elua_int_flags: the interrupt types enabled
  handlers,   \* the types whose entry in the registry's handler table is not nil
  luaUp,      \* lua_crtstate # NULL
  live,       \* the coroutines that exist and are not dead
  stack,      \* the chain of lua_resume calls, the running thread last
  hook,       \* hook[t]: elua_int_hook is the count hook of thread t
  at,         \* at[t]: where t is; outside "vm" the thread's allowhook is 0
  crt,        \* crt[t]: elua_int_hook's local copy of the slot it took
  raised,     \* number of interrupts raised; a resnum is the number of its request
  delivered,  \* history: the resnums passed to Lua handlers
  disturbed   \* history: since the Lua state was opened an error has left
              \* elua_int_hook, or a coroutine was created with the hook set

vars == <<queue, readIdx, writeIdx, flags, handlers, luaUp, live, stack, hook,
          at, crt, raised, delivered, disturbed>>

Slot == [id : IntIds \union {EmptySlot}, resnum : 0 .. MaxRaised]
Blank == [id |-> EmptySlot, resnum |-> 0]
IsEmpty(i) == queue[i].id = EmptySlot

\* Slip: an index that is not wrapped.
NextIdxNoWrap(i) == i + 1

NextIdx(i) == (i + 1) % QueueSize
Running == stack[Len(stack)]
Suspended == live \ {stack[k] : k \in DOMAIN stack}

(***************************************************************************)
(* "vm": executing Lua code, hooks allowed; "taken": elua_int_hook has     *)
(* copied the slot; "marked": it has emptied the slot; "handler": inside   *)
(* lua_call; "tail": about to look for more interrupts.                    *)
(***************************************************************************)
Places == {"vm", "taken", "marked", "handler", "tail"}

Init ==
  /\ queue = [i \in Idx |-> Blank]
  /\ readIdx = 0 /\ writeIdx = 0
  /\ flags = {} /\ handlers = {}
  /\ luaUp = TRUE /\ live = {} /\ stack = <<Main>>
  /\ hook = [t \in Threads |-> FALSE]
  /\ at = [t \in Threads |-> "vm"]
  /\ crt = [t \in Threads |-> Blank]
  /\ raised = 0 /\ delivered = {} /\ disturbed = FALSE

-----------------------------------------------------------------------------
(* The interrupt side.                                                     *)

\* Slip: the check for a free slot forgotten.
AcceptsWhenFull(id) == luaUp /\ id \in flags

Accepts(id) == luaUp /\ id \in flags /\ IsEmpty(writeIdx)

HookSet == [hook EXCEPT ![Main] = TRUE]

EluaIntAdd(id) ==
  /\ raised < MaxRaised
  /\ raised' = raised + 1
  /\ IF Accepts(id)
       THEN /\ queue' = [queue EXCEPT ![writeIdx] = [id |-> id, resnum |-> raised + 1]]
            /\ writeIdx' = NextIdx(writeIdx)
            /\ hook' = HookSet
       ELSE UNCHANGED <<queue, writeIdx, hook>>
  /\ UNCHANGED <<readIdx, flags, handlers, luaUp, live, stack, at, crt,
                 delivered, disturbed>>

-----------------------------------------------------------------------------
(* elua_int_hook, called by the VM on the running thread.                  *)

HookTake(t) ==
  /\ luaUp /\ t = Running /\ at[t] = "vm" /\ hook[t]
  /\ crt' = [crt EXCEPT ![t] = queue[readIdx]]
  /\ at' = [at EXCEPT ![t] = "taken"]
  /\ UNCHANGED <<queue, readIdx, writeIdx, flags, handlers, luaUp, live, stack,
                 hook, raised, delivered, disturbed>>

\* Slip: the slot copied but left in the ring.
SlotKept == queue

SlotGivenUp ==
  [queue EXCEPT ![readIdx] = [id |-> EmptySlot, resnum |-> queue[readIdx].resnum]]

HookMark(t) ==
  /\ at[t] = "taken" /\ t = Running
  /\ queue' = SlotGivenUp
  /\ at' = [at EXCEPT ![t] = "marked"]
  /\ UNCHANGED <<readIdx, writeIdx, flags, handlers, luaUp, live, stack, hook,
                 crt, raised, delivered, disturbed>>

HookAdvance(t) ==
  /\ at[t] = "marked" /\ t = Running
  /\ readIdx' = NextIdx(readIdx)
  /\ IF crt[t].id \in flags \intersect handlers
       THEN /\ at' = [at EXCEPT ![t] = "handler"]
            /\ delivered' = delivered \union {crt[t].resnum}
       ELSE /\ at' = [at EXCEPT ![t] = "tail"]
            /\ UNCHANGED delivered
  /\ UNCHANGED <<queue, writeIdx, flags, handlers, luaUp, live, stack, hook,
                 crt, raised, disturbed>>

HandlerReturn(t) ==
  /\ at[t] = "handler" /\ t = Running
  /\ at' = [at EXCEPT ![t] = "tail"]
  /\ UNCHANGED <<queue, readIdx, writeIdx, flags, handlers, luaUp, live, stack,
                 hook, crt, raised, delivered, disturbed>>

\* The error unwinds elua_int_hook without running its tail.  A pcall of the
\* thread catches it, or the coroutine dies and lua_resume returns the error.
HandlerError(t) ==
  /\ at[t] = "handler" /\ t = Running
  /\ at' = [at EXCEPT ![t] = "vm"]
  /\ disturbed' = TRUE
  /\ \/ UNCHANGED <<live, stack>>
     \/ /\ t # Main
        /\ live' = live \ {t}
        /\ stack' = SubSeq(stack, 1, Len(stack) - 1)
  /\ UNCHANGED <<queue, readIdx, writeIdx, flags, handlers, luaUp, hook, crt,
                 raised, delivered>>

\* Slips: a full ring taken for an empty one; a hook that is never cleared.
IndexesDiffer == readIdx # writeIdx
SomethingWaits == TRUE

MoreInterrupts == ~IsEmpty(readIdx)

\* With global interrupts disabled.
HookTail(t) ==
  /\ at[t] = "tail" /\ t = Running
  /\ hook' = [hook EXCEPT ![t] = @ /\ MoreInterrupts]
  /\ at' = [at EXCEPT ![t] = "vm"]
  /\ UNCHANGED <<queue, readIdx, writeIdx, flags, handlers, luaUp, live, stack,
                 crt, raised, delivered, disturbed>>

-----------------------------------------------------------------------------
(* What the Lua program does that touches this state, from its main code   *)
(* or from a handler.                                                      *)

RunsLua(t) == luaUp /\ t = Running /\ at[t] \in {"vm", "handler"}

\* cpu.set_int_handler(id, f); f = nil is set = FALSE.
CpuSetIntHandler(t, id, set) ==
  /\ RunsLua(t)
  /\ flags' = IF set THEN flags \union {id} ELSE flags \ {id}
  /\ handlers' = IF set THEN handlers \union {id} ELSE handlers \ {id}
  /\ UNCHANGED <<queue, readIdx, writeIdx, luaUp, live, stack, hook, at, crt,
                 raised, delivered, disturbed>>

\* lua_newthread: the new thread inherits the hook of its creator.
NewThread(t, u) ==
  /\ RunsLua(t) /\ u \in Coroutines \ live
  /\ live' = live \union {u}
  /\ hook' = [hook EXCEPT ![u] = hook[t]]
  /\ disturbed' = (disturbed \/ hook[t])
  /\ UNCHANGED <<queue, readIdx, writeIdx, flags, handlers, luaUp, stack, at,
                 crt, raised, delivered>>

Resume(t, u) ==
  /\ RunsLua(t) /\ u \in Suspended
  /\ stack' = Append(stack, u)
  /\ UNCHANGED <<queue, readIdx, writeIdx, flags, handlers, luaUp, live, hook,
                 at, crt, raised, delivered, disturbed>>

\* A coroutine yields or ends; a yield inside elua_int_hook is an error
\* ("attempt to yield across metamethod/C-call boundary").
YieldOrEnd(t) ==
  /\ luaUp /\ t = Running /\ t # Main /\ at[t] = "vm"
  /\ stack' = SubSeq(stack, 1, Len(stack) - 1)
  /\ live' \in {live, live \ {t}}
  /\ UNCHANGED <<queue, readIdx, writeIdx, flags, handlers, luaUp, hook, at,
                 crt, raised, delivered, disturbed>>

\* Slip: the enabled types survive the Lua state.
FlagsKept == flags

FlagsCleared == {}

\* lua_close, called when the program has ended: with global interrupts disabled.
LuaClose ==
  /\ luaUp /\ stack = <<Main>> /\ at[Main] = "vm"
  /\ luaUp' = FALSE
  /\ hook' = [t \in Threads |-> FALSE]
  /\ flags' = FlagsCleared /\ handlers' = {}
  /\ readIdx' = 0 /\ writeIdx' = 0
  /\ queue' = [i \in Idx |-> Blank]
  /\ live' = {} /\ at' = [t \in Threads |-> "vm"] /\ disturbed' = FALSE
  /\ UNCHANGED <<stack, crt, raised, delivered>>

LuaOpen ==
  /\ ~luaUp
  /\ luaUp' = TRUE
  /\ UNCHANGED <<queue, readIdx, writeIdx, flags, handlers, live, stack, hook,
                 at, crt, raised, delivered, disturbed>>

-----------------------------------------------------------------------------
Hook(t) == HookTake(t) \/ HookMark(t) \/ HookAdvance(t) \/ HookTail(t)

Program(t) ==
  \/ \E id \in IntIds, set \in BOOLEAN : CpuSetIntHandler(t, id, set)
  \/ \E u \in Coroutines : NewThread(t, u) \/ Resume(t, u)
  \/ YieldOrEnd(t)

Next ==
  \/ \E id \in IntIds : EluaIntAdd(id)
  \/ \E t \in Threads : Hook(t) \/ HandlerReturn(t) \/ HandlerError(t) \/ Program(t)
  \/ LuaClose \/ LuaOpen

Spec == Init /\ [][Next]_vars

(***************************************************************************)
(* The VM keeps executing instructions, so a hook that is due is called    *)
(* and runs to its end, and the handlers the program installs return.      *)
(***************************************************************************)
Fairness == \A t \in Threads : WF_vars(Hook(t)) /\ WF_vars(HandlerReturn(t))

LiveSpec == Spec /\ Fairness

-----------------------------------------------------------------------------
TypeOK ==
  /\ queue \in [Idx -> Slot]
  /\ readIdx \in Idx /\ writeIdx \in Idx
  /\ flags \subseteq IntIds /\ handlers \subseteq IntIds
  /\ luaUp \in BOOLEAN
  /\ live \subseteq Coroutines
  /\ stack \in Seq(Threads) /\ stack # <<>> /\ stack[1] = Main
  /\ hook \in [Threads -> BOOLEAN]
  /\ at \in [Threads -> Places]
  /\ crt \in [Threads -> Slot]
  /\ raised \in 0 .. MaxRaised
  /\ delivered \subseteq 0 .. MaxRaised
  /\ disturbed \in BOOLEAN

\* elua_int_hook clears the hook when there are "no more interrupts in the
\* queue" (elua_int.c:54), so an interrupt waiting in the queue always has the
\* hook of the main thread set to deliver it.
NoneStranded == (\E i \in Idx : ~IsEmpty(i)) => hook[Main]

\* elua_int_hook, when the VM calls it, finds an interrupt to "get (and remove
\* from queue)" (elua_int.c:32): it never takes an empty slot.
TakesAnInterrupt == \A t \in Threads : at[t] = "taken" => crt[t].id # EmptySlot

\* Both hold in a Lua state as long as no error has left elua_int_hook and no
\* coroutine was created with the hook set, and again in the next Lua state.
Undisturbed == ~disturbed => NoneStranded /\ TakesAnInterrupt

\* No request is passed to a Lua handler twice: one that was passed is neither
\* queued nor taken again, whatever the handlers and coroutines do.
DeliveredOnce ==
  /\ \A i \in Idx : ~IsEmpty(i) => queue[i].resnum \notin delivered
  /\ \A t \in Threads :
       at[t] \in {"taken", "marked"} /\ crt[t].id # EmptySlot => crt[t].resnum \notin delivered

\* Without a Lua state nothing is queued, no interrupt is enabled and no hook
\* is set: lua_close leaves no window for an interrupt to be queued for a
\* state that no longer exists (lstate.c, lua_close).
ClosedIsClean ==
  ~luaUp => /\ \A i \in Idx : IsEmpty(i)
            /\ readIdx = writeIdx
            /\ flags = {} /\ \A t \in Threads : ~hook[t]

\* Every slot is emptied again and again: no accepted interrupt stays queued
\* for ever while the main thread runs undisturbed.  (A coroutine without the
\* hook holds back all interrupts until it yields.)
AllDrained == \A i \in Idx : []<>(IsEmpty(i) \/ disturbed \/ Running # Main)

-----------------------------------------------------------------------------
(***************************************************************************)
(* The requests the ring holds, oldest first.  Between HookMark and        *)
(* HookAdvance the slot at readIdx has been given up already.              *)
(***************************************************************************)
FirstIdx == IF \E t \in Threads : at[t] = "marked" THEN NextIdx(readIdx) ELSE readIdx
Occupied == {i \in Idx : ~IsEmpty(i)}
Pending ==
  [k \in 1 .. Cardinality(Occupied) |-> queue[(FirstIdx + k - 1) % QueueSize]]

Fifo == INSTANCE IntFifo WITH
  Capacity <- QueueSize, Types <- IntIds, pending <- Pending,
  enabled <- flags, running <- luaUp, requests <- raised, kept <- ~disturbed

\* The ring, with its interruptible three-step removal, behaves as the bounded
\* queue of IntFifo (elua_int.c, elua_int_hook and elua_int_add).
ImplementsFifo == Fifo!Spec
=============================================================================

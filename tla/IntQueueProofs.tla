--------------------------- MODULE IntQueueProofs ---------------------------
(***************************************************************************)
(* Theorems about IntQueue for every ring size, every set of interrupt     *)
(* types, any number of coroutines and any number of interrupts.           *)
(***************************************************************************)
EXTENDS IntQueue, TLAPS, SequenceTheorems, FiniteSetTheorems

\* The slots from a up to, not including, b, going round the ring.
Between(a, i, b) == IF a < b THEN a <= i /\ i < b ELSE a <= i \/ i < b

\* The oldest slot still in use; HookMark gives up the slot at readIdx one step
\* before HookAdvance moves readIdx.
First == IF at[Main] = "marked" THEN NextIdx(readIdx) ELSE readIdx

\* The slots in use are those from First to writeIdx.
RingShape ==
  IF First = writeIdx
    THEN (\A i \in Idx : IsEmpty(i)) \/ (\A i \in Idx : ~IsEmpty(i))
    ELSE \A i \in Idx : ~IsEmpty(i) <=> Between(First, i, writeIdx)

\* The hook is set whenever it is running and whenever a slot is in use, and,
\* between two calls of it, only then.
HookShape ==
  /\ at[Main] # "vm" => hook[Main]
  /\ at[Main] \in {"vm", "taken"} /\ hook[Main] => ~IsEmpty(readIdx)
  /\ at[Main] = "taken" => crt[Main].id # EmptySlot

\* No coroutine has the hook.
MainAlone == \A u \in Coroutines : at[u] = "vm" /\ ~hook[u]

Calm == RingShape /\ HookShape /\ MainAlone /\ NoneStranded

\* Without a Lua state no thread is in a hook and nothing is left of the last one.
Closed == ClosedIsClean /\ (~luaUp => \A t \in Threads : at[t] = "vm")

IInv == TypeOK /\ Closed /\ (~disturbed => Calm)

-----------------------------------------------------------------------------
\* (i + 1) & INT_IDX_MASK goes to the next slot, and from the last to slot 0.
LEMMA NextIdxFact ==
  \A i \in Idx : NextIdx(i) = (IF i = QueueSize - 1 THEN 0 ELSE i + 1) /\ NextIdx(i) \in Idx
BY IntQueueAssumption DEF Idx, NextIdx

\* A thread that is not the main one was resumed by another, so the chain of
\* resumed threads still starts with the main one when it is left.
LEMMA PopKeepsMain ==
  ASSUME TypeOK, Running # Main
  PROVE  LET rest == SubSeq(stack, 1, Len(stack) - 1)
         IN rest \in Seq(Threads) /\ rest # <<>> /\ rest[1] = Main
<1> DEFINE n == Len(stack) - 1
           rest == SubSeq(stack, 1, n)
<1>1. stack \in Seq(Threads) /\ stack # <<>> /\ stack[1] = Main
  BY DEF TypeOK
<1>2. n \in 1 .. Len(stack)
  BY <1>1, LenProperties DEF Running
<1>3. \A i \in 1 .. n : stack[i] \in Threads
  BY <1>1, <1>2, LenProperties
<1>4. rest \in Seq(Threads) /\ Len(rest) = n /\ rest[1] = stack[1]
  <2>1. n \in Int /\ n >= 1
    BY <1>1, <1>2, LenProperties
  <2>2. /\ rest \in Seq(Threads)
        /\ Len(rest) = n
        /\ \A i \in 1 .. n : rest[i] = stack[1 + i - 1]
    <3> HIDE DEF n
    <3> QED
      BY <2>1, <1>3, SubSeqProperties
  <2> HIDE DEF n, rest
  <2> QED
    BY <2>1, <2>2
<1>5. rest # <<>>
  <2>1. Len(rest) >= 1
    BY <1>1, <1>2, <1>4, LenProperties
  <2> HIDE DEF rest
  <2> QED
    BY <2>1, EmptySeq
<1> QED
  BY <1>1, <1>4, <1>5 DEF n

\* Every step keeps the types of the variables.
LEMMA TypeStep == TypeOK /\ [Next]_vars => TypeOK'
<1> USE IntQueueAssumption DEF EmptySlot
<1> SUFFICES ASSUME TypeOK, [Next]_vars PROVE TypeOK'
  OBVIOUS
<1>1. ASSUME NEW id \in IntIds, EluaIntAdd(id) PROVE TypeOK'
  <2>1. raised + 1 \in 0 .. MaxRaised
    BY <1>1 DEF EluaIntAdd, TypeOK
  <2>2. queue' \in [Idx -> Slot] /\ writeIdx' \in Idx
    <3> DEFINE new == [id |-> id, resnum |-> raised + 1]
    <3>1. new \in Slot
      BY <2>1 DEF Slot
    <3>2. queue' \in {queue, [queue EXCEPT ![writeIdx] = new]}
      BY <1>1 DEF EluaIntAdd
    <3>3. queue' \in [Idx -> Slot]
      BY <3>1, <3>2 DEF TypeOK
    <3> QED
      BY <1>1, <3>3, NextIdxFact DEF EluaIntAdd, TypeOK
  <2>3. hook' \in [Threads -> BOOLEAN]
    BY <1>1 DEF EluaIntAdd, HookSet, TypeOK, Threads
  <2> QED
    BY <1>1, <2>1, <2>2, <2>3 DEF EluaIntAdd, TypeOK
<1>2. ASSUME NEW t \in Threads, HookTake(t) PROVE TypeOK'
  BY <1>2 DEF HookTake, TypeOK, Places
<1>3. ASSUME NEW t \in Threads, HookMark(t) PROVE TypeOK'
  BY <1>3 DEF HookMark, SlotGivenUp, TypeOK, Places, Slot
<1>4. ASSUME NEW t \in Threads, HookAdvance(t) PROVE TypeOK'
  <2>1. crt[t].resnum \in 0 .. MaxRaised
    BY DEF TypeOK, Slot
  <2>2. delivered' \subseteq 0 .. MaxRaised
    BY <1>4, <2>1 DEF HookAdvance, TypeOK
  <2>3. at' \in [Threads -> Places] /\ readIdx' \in Idx
    BY <1>4, NextIdxFact DEF HookAdvance, TypeOK, Places
  <2> QED
    BY <1>4, <2>2, <2>3 DEF HookAdvance, TypeOK
<1>5. ASSUME NEW t \in Threads, HandlerReturn(t) PROVE TypeOK'
  BY <1>5 DEF HandlerReturn, TypeOK, Places
<1>6. ASSUME NEW t \in Threads, HookTail(t) PROVE TypeOK'
  BY <1>6 DEF HookTail, TypeOK, Places
<1>7. ASSUME NEW t \in Threads, HandlerError(t) PROVE TypeOK'
  <2>1. at' \in [Threads -> Places]
    BY <1>7 DEF HandlerError, TypeOK, Places
  <2>2. live' \subseteq Coroutines /\ stack' \in Seq(Threads) /\ stack' # <<>> /\ stack'[1] = Main
    BY <1>7, PopKeepsMain DEF HandlerError, TypeOK
  <2> QED
    BY <1>7, <2>1, <2>2 DEF HandlerError, TypeOK
<1>8. ASSUME NEW t \in Threads, Program(t) PROVE TypeOK'
  <2>1. ASSUME NEW id \in IntIds, NEW set \in BOOLEAN, CpuSetIntHandler(t, id, set) PROVE TypeOK'
    BY <2>1 DEF CpuSetIntHandler, TypeOK
  <2>2. ASSUME NEW u \in Coroutines, NewThread(t, u) PROVE TypeOK'
    BY <2>2 DEF NewThread, TypeOK, Threads
  <2>3. ASSUME NEW u \in Coroutines, Resume(t, u) PROVE TypeOK'
    <3>1. stack' \in Seq(Threads) /\ stack' # <<>> /\ stack'[1] = Main
      BY <2>3, AppendProperties, LenProperties DEF Resume, TypeOK, Threads
    <3> QED
      BY <2>3, <3>1 DEF Resume, TypeOK
  <2>4. CASE YieldOrEnd(t)
    BY <2>4, PopKeepsMain DEF YieldOrEnd, TypeOK
  <2> QED
    BY <1>8, <2>1, <2>2, <2>3, <2>4 DEF Program
<1>9. CASE LuaClose
  <2>1. Blank \in Slot /\ 0 \in Idx
    BY DEF Blank, Slot, Idx
  <2>2. /\ queue' \in [Idx -> Slot] /\ hook' \in [Threads -> BOOLEAN]
        /\ at' \in [Threads -> Places]
    BY <1>9, <2>1 DEF LuaClose, Places
  <2> QED
    BY <1>9, <2>1, <2>2 DEF LuaClose, FlagsCleared, TypeOK
<1>10. CASE LuaOpen
  BY <1>10 DEF LuaOpen, TypeOK
<1>11. CASE UNCHANGED vars
  BY <1>11 DEF vars, TypeOK
<1> QED
  BY <1>1, <1>2, <1>3, <1>4, <1>5, <1>6, <1>7, <1>8, <1>9, <1>10, <1>11
  DEF Next, Hook

LEMMA InitType == Init => TypeOK
<1> SUFFICES ASSUME Init PROVE TypeOK
  OBVIOUS
<1> USE IntQueueAssumption DEF EmptySlot
<1>1. Blank \in Slot /\ 0 \in Idx /\ 0 \in 0 .. MaxRaised
  BY DEF Blank, Slot, Idx
<1>2. stack \in Seq(Threads) /\ stack # <<>> /\ stack[1] = Main
  BY DEF Init, Threads
<1> QED
  BY <1>1, <1>2 DEF Init, TypeOK, Threads, Places

\* The variables keep their types, whatever handlers and coroutines do.
THEOREM TypeCorrect == Spec => []TypeOK
BY InitType, TypeStep, PTL DEF Spec

-----------------------------------------------------------------------------
\* The closed state stays closed until lua_open.
LEMMA ClosedStep ==
  ASSUME TypeOK, Closed, [Next]_vars
  PROVE  Closed'
<1> USE IntQueueAssumption DEF EmptySlot, Closed, ClosedIsClean
<1>1. CASE luaUp'
  BY <1>1
<1>2. CASE ~luaUp' /\ luaUp
  <2>1. LuaClose
    BY <1>2 DEF Next, vars, EluaIntAdd, Hook, HookTake, HookMark, HookAdvance, HookTail,
       HandlerReturn, HandlerError, Program, CpuSetIntHandler, NewThread, Resume, YieldOrEnd,
       LuaOpen
  <2> QED
    BY <2>1 DEF LuaClose, FlagsCleared, IsEmpty, Blank
<1>3. CASE ~luaUp' /\ ~luaUp
  <2>1. \A t \in Threads : at[t] = "vm" /\ ~hook[t]
    BY <1>3
  <2>2. UNCHANGED <<queue, readIdx, writeIdx, flags, hook, at>>
    BY <1>3, <2>1 DEF Next, vars, EluaIntAdd, Accepts, Hook, HookTake, HookMark, HookAdvance,
       HookTail, HandlerReturn, HandlerError, Program, CpuSetIntHandler, NewThread, Resume,
       YieldOrEnd, RunsLua, LuaClose, LuaOpen
  <2> QED
    BY <1>3, <2>2 DEF IsEmpty
<1> QED
  BY <1>1, <1>2, <1>3

\* lua_close leaves nothing queued, enabled or hooked, and nothing is until the
\* next lua_open, whatever the program did before.
THEOREM ClosesClean == Spec => []ClosedIsClean
<1>1. Init => TypeOK /\ Closed
  BY InitType DEF Init, Closed, ClosedIsClean
<1>2. TypeOK /\ Closed /\ [Next]_vars => (TypeOK /\ Closed)'
  BY TypeStep, ClosedStep
<1>3. Closed => ClosedIsClean
  BY DEF Closed
<1> QED
  BY <1>1, <1>2, <1>3, PTL DEF Spec

-----------------------------------------------------------------------------
(***************************************************************************)
(* Steps from and to an undisturbed state.                                 *)
(***************************************************************************)

\* An interrupt extends the used part of the ring by one slot, or is refused.
LEMMA AddStep ==
  ASSUME IInv, Calm, NEW id \in IntIds, EluaIntAdd(id), Accepts(id)
  PROVE  Calm'
<1> USE IntQueueAssumption DEF EmptySlot, Threads
<1>1. id # EmptySlot /\ First \in Idx /\ writeIdx \in Idx /\ First' = First
  BY NextIdxFact DEF IInv, TypeOK, First, EluaIntAdd
<1>2. \A i \in Idx : IsEmpty(i)' <=> (IsEmpty(i) /\ i # writeIdx)
  BY <1>1 DEF EluaIntAdd, IsEmpty, IInv, TypeOK
<1>3. /\ writeIdx' = NextIdx(writeIdx) /\ IsEmpty(writeIdx)
      /\ hook' = [hook EXCEPT ![Main] = TRUE] /\ UNCHANGED <<readIdx, at, crt>>
  BY DEF EluaIntAdd, Accepts, HookSet
<1>4. hook'[Main] /\ \A u \in Coroutines : hook'[u] = hook[u]
  BY <1>3 DEF IInv, TypeOK
<1>5. RingShape'
  BY <1>1, <1>2, <1>3, NextIdxFact DEF Calm, RingShape, Between, Idx
<1>6. at[Main] # "marked" => ~IsEmpty(readIdx)'
  BY <1>1, <1>2, <1>3 DEF IInv, TypeOK, Calm, RingShape, Between, First, Idx
<1>7. HookShape'
  BY <1>3, <1>4, <1>6 DEF Calm, HookShape
<1> QED
  BY <1>3, <1>4, <1>5, <1>7 DEF Calm, MainAlone, NoneStranded

\* The hook takes the oldest slot out of the used part.
LEMMA MarkStep ==
  ASSUME IInv, Calm, HookMark(Main)
  PROVE  Calm'
<1> USE IntQueueAssumption DEF EmptySlot, Threads
<1>1. /\ readIdx \in Idx /\ writeIdx \in Idx /\ First = readIdx /\ First' = NextIdx(readIdx)
      /\ at' = [at EXCEPT ![Main] = "marked"] /\ at[Main] = "taken" /\ at'[Main] = "marked"
  BY DEF IInv, TypeOK, First, HookMark
<1>2. \A i \in Idx : IsEmpty(i)' <=> (IsEmpty(i) \/ i = readIdx)
  BY <1>1 DEF HookMark, SlotGivenUp, IsEmpty, IInv, TypeOK
<1>3. ~IsEmpty(readIdx) /\ hook[Main] /\ writeIdx' = writeIdx /\ hook' = hook
  BY <1>1 DEF Calm, HookShape, HookMark, NoneStranded
<1>4. RingShape'
  BY <1>1, <1>2, <1>3, NextIdxFact DEF Calm, RingShape, Between, Idx
<1>5. MainAlone'
  BY <1>1, <1>3 DEF IInv, TypeOK, Calm, MainAlone
<1> QED
  BY <1>1, <1>3, <1>4, <1>5 DEF Calm, HookShape, NoneStranded

\* The hook is cleared exactly when no slot is in use.
LEMMA TailStep ==
  ASSUME IInv, Calm, HookTail(Main)
  PROVE  Calm'
<1> USE IntQueueAssumption DEF EmptySlot, Threads
<1>1. /\ readIdx \in Idx /\ writeIdx \in Idx /\ First = readIdx /\ First' = readIdx
      /\ at' = [at EXCEPT ![Main] = "vm"] /\ at'[Main] = "vm" /\ at[Main] = "tail" /\ hook[Main]
  BY DEF IInv, TypeOK, First, HookTail, Calm, HookShape
<1>2. /\ UNCHANGED <<queue, readIdx, writeIdx>>
      /\ hook'[Main] <=> ~IsEmpty(readIdx)
      /\ \A u \in Coroutines : hook'[u] = hook[u] /\ at'[u] = at[u]
  BY <1>1 DEF HookTail, MoreInterrupts, IInv, TypeOK
<1>3. \A i \in Idx : IsEmpty(i)' <=> IsEmpty(i)
  BY <1>2 DEF IsEmpty
<1>4. IsEmpty(readIdx) => \A i \in Idx : IsEmpty(i)
  BY <1>1 DEF Calm, RingShape, Between, Idx
<1>5. RingShape'
  BY <1>1, <1>2, <1>3 DEF Calm, RingShape
<1> QED
  BY <1>1, <1>2, <1>3, <1>4, <1>5 DEF Calm, HookShape, MainAlone, NoneStranded

\* A step that leaves the ring, the hook and the VM's place in it alone.
LEMMA FrameStep ==
  ASSUME Calm, UNCHANGED <<queue, readIdx, writeIdx, hook, at, crt>>
  PROVE  Calm'
BY DEF Calm, RingShape, First, HookShape, MainAlone, NoneStranded, IsEmpty

\* lua_close makes a calm state of any.
LEMMA CloseStep ==
  ASSUME LuaClose
  PROVE  Calm'
<1> USE IntQueueAssumption DEF Threads
<1>1. /\ at'[Main] = "vm" /\ ~hook'[Main] /\ readIdx' = 0 /\ writeIdx' = 0
      /\ queue' = [i \in Idx |-> Blank] /\ MainAlone'
  BY DEF LuaClose, MainAlone
<1>2. \A i \in Idx : IsEmpty(i)'
  BY <1>1 DEF IsEmpty, Blank
<1> QED
  BY <1>1, <1>2 DEF Calm, RingShape, First, HookShape, NoneStranded

\* What the hook does, it does on the main thread.
LEMMA HookStep ==
  ASSUME IInv, Calm, NEW t \in Threads, Hook(t) \/ HandlerReturn(t)
  PROVE  Calm'
<1> USE IntQueueAssumption DEF Threads
<1>0. t = Main
  BY DEF Calm, MainAlone, Hook, HookTake, HookMark, HookAdvance, HookTail, HandlerReturn
<1>1. CASE HookTake(Main)
  <2>1. /\ at' = [at EXCEPT ![Main] = "taken"] /\ at'[Main] = "taken" /\ at[Main] = "vm"
        /\ crt'[Main] = queue[readIdx] /\ hook[Main]
        /\ UNCHANGED <<queue, readIdx, writeIdx, hook>>
    BY <1>1 DEF HookTake, IInv, TypeOK
  <2>2. MainAlone'
    BY <2>1 DEF IInv, TypeOK, Calm, MainAlone
  <2> QED
    BY <2>1, <2>2 DEF Calm, RingShape, First, HookShape, NoneStranded, IsEmpty
<1>2. CASE HookAdvance(Main)
  <2>1. /\ at[Main] = "marked" /\ at'[Main] \in {"handler", "tail"} /\ readIdx' = NextIdx(readIdx)
        /\ \A u \in Coroutines : at'[u] = at[u]
        /\ UNCHANGED <<queue, writeIdx, hook>>
    BY <1>2 DEF HookAdvance, IInv, TypeOK
  <2>2. First' = First
    BY <2>1 DEF First
  <2> QED
    BY <2>1, <2>2 DEF Calm, RingShape, HookShape, MainAlone, NoneStranded, IsEmpty
<1>3. CASE HandlerReturn(Main)
  <2>1. /\ at[Main] = "handler" /\ at'[Main] = "tail"
        /\ \A u \in Coroutines : at'[u] = at[u]
        /\ UNCHANGED <<queue, readIdx, writeIdx, hook>>
    BY <1>3 DEF HandlerReturn, IInv, TypeOK
  <2> QED
    BY <2>1 DEF Calm, RingShape, First, HookShape, MainAlone, NoneStranded, IsEmpty
<1> QED
  BY <1>0, <1>1, <1>2, <1>3, MarkStep, TailStep DEF Hook

\* A Lua program disturbs the queue only where the history says so.
LEMMA ProgramStep ==
  ASSUME IInv, Calm, NEW t \in Threads, Program(t), ~disturbed'
  PROVE  Calm'
<1>1. ASSUME NEW u \in Coroutines, NewThread(t, u) PROVE Calm'
  <2>1. ~hook[t] /\ ~hook[u]
    BY <1>1 DEF NewThread, IInv, TypeOK, Threads, Calm, MainAlone
  <2>2. hook' = hook
    BY <1>1, <2>1 DEF NewThread, IInv, TypeOK, Threads
  <2> QED
    BY <1>1, <2>2, FrameStep DEF NewThread
<1> QED
  BY <1>1, FrameStep DEF Program, CpuSetIntHandler, Resume, YieldOrEnd

LEMMA InvInit == Init => IInv
<1> SUFFICES ASSUME Init PROVE IInv
  OBVIOUS
<1>1. TypeOK
  BY InitType
<1>2. /\ \A i \in Idx : IsEmpty(i)
      /\ \A t \in Threads : ~hook[t] /\ at[t] = "vm"
      /\ First = writeIdx
  BY DEF Init, IsEmpty, Blank, First, Threads
<1> QED
  BY <1>1, <1>2 DEF Init, IInv, Closed, ClosedIsClean, Calm, RingShape, HookShape, MainAlone,
     NoneStranded, Threads

LEMMA InvStep == IInv /\ [Next]_vars => IInv'
<1> SUFFICES ASSUME IInv, [Next]_vars PROVE IInv'
  OBVIOUS
<1>1. TypeOK' /\ Closed'
  BY TypeStep, ClosedStep DEF IInv
<1>2. SUFFICES ASSUME ~disturbed' PROVE Calm'
  BY <1>1 DEF IInv
<1>3. CASE LuaClose
  BY <1>3, CloseStep
<1>4. CASE ~LuaClose
  <2>1. ~disturbed /\ \A t \in Threads : ~HandlerError(t)
    BY <1>2, <1>4 DEF Next, vars, EluaIntAdd, Hook, HookTake, HookMark, HookAdvance, HookTail,
       HandlerReturn, HandlerError, Program, CpuSetIntHandler, NewThread, Resume, YieldOrEnd,
       LuaOpen, IInv, TypeOK
  <2>2. Calm
    BY <2>1 DEF IInv
  <2>3. ASSUME NEW id \in IntIds, EluaIntAdd(id) PROVE Calm'
    <3>1. CASE Accepts(id)
      BY <2>2, <2>3, <3>1, AddStep
    <3>2. CASE ~Accepts(id)
      BY <2>2, <2>3, <3>2, FrameStep DEF EluaIntAdd
    <3> QED
      BY <3>1, <3>2
  <2>4. ASSUME NEW t \in Threads, Hook(t) \/ HandlerReturn(t) PROVE Calm'
    BY <2>2, <2>4, HookStep
  <2>5. ASSUME NEW t \in Threads, Program(t) PROVE Calm'
    BY <1>2, <2>2, <2>5, ProgramStep
  <2>6. CASE LuaOpen
    BY <2>2, <2>6, FrameStep DEF LuaOpen
  <2>7. CASE UNCHANGED vars
    BY <2>2, <2>7, FrameStep DEF vars
  <2> QED
    BY <1>4, <2>1, <2>3, <2>4, <2>5, <2>6, <2>7 DEF Next
<1> QED
  BY <1>3, <1>4

\* As long as no error has left elua_int_hook and no coroutine was created with
\* the hook set, an interrupt waiting in the queue has the hook set to deliver
\* it, and elua_int_hook never takes an empty slot, so that the read index never
\* runs past the write index.
THEOREM Safe == Spec => []Undisturbed
<1>1. IInv => Undisturbed
  BY DEF IInv, Calm, HookShape, MainAlone, TakesAnInterrupt, Undisturbed, Threads
<1> QED
  BY <1>1, InvInit, InvStep, PTL DEF Spec
-----------------------------------------------------------------------------
(***************************************************************************)
(* No request twice, in any state.                                         *)
(***************************************************************************)

\* The thread in the middle of taking a slot is the one that runs.
TakerRuns == \A t \in Threads : at[t] \in {"taken", "marked"} => t = Running

\* A request waits in one slot, and no request comes after the last one raised.
SlotsDistinct ==
  /\ delivered \subseteq 0 .. raised
  /\ \A i \in Idx : ~IsEmpty(i) =>
       /\ queue[i].resnum \in (0 .. raised) \ delivered
       /\ \A j \in Idx \ {i} : ~IsEmpty(j) => queue[i].resnum # queue[j].resnum

\* A request that was taken is in its slot until the slot is given up, and then
\* in none.
TakenOnce ==
  \A t \in Threads : at[t] \in {"taken", "marked"} /\ crt[t].id # EmptySlot =>
    /\ crt[t].resnum \in (0 .. raised) \ delivered
    /\ at[t] = "taken" => queue[readIdx] = crt[t]
    /\ at[t] = "marked" => \A i \in Idx : ~IsEmpty(i) => queue[i].resnum # crt[t].resnum

Once == TakerRuns /\ SlotsDistinct /\ TakenOnce

OnceInv == TypeOK /\ Once

\* A new request has a number no other has.
LEMMA OnceAdd ==
  ASSUME OnceInv, NEW id \in IntIds, EluaIntAdd(id)
  PROVE  Once'
<1> USE IntQueueAssumption DEF EmptySlot
<1>1. /\ raised \in Nat /\ raised' = raised + 1 /\ writeIdx \in Idx /\ readIdx \in Idx
      /\ UNCHANGED <<readIdx, at, crt, stack, delivered>>
  BY DEF EluaIntAdd, OnceInv, Once, TypeOK
<1>2. \A n \in 0 .. raised : n \in 0 .. raised' /\ n # raised'
  BY <1>1
<1>3. TakerRuns'
  BY <1>1 DEF OnceInv, Once, TakerRuns, Running
<1>4. CASE Accepts(id)
  <2>1. /\ queue' = [queue EXCEPT ![writeIdx] = [id |-> id, resnum |-> raised']]
        /\ IsEmpty(writeIdx) /\ queue \in [Idx -> Slot]
    BY <1>1, <1>4 DEF EluaIntAdd, Accepts, OnceInv, Once, TypeOK
  <2>2. /\ queue'[writeIdx].resnum = raised'
        /\ \A i \in Idx \ {writeIdx} : queue'[i] = queue[i]
    BY <1>1, <2>1
  <2>3. raised' \in 0 .. raised' /\ raised' \notin delivered
    BY <1>1, <1>2 DEF OnceInv, Once, SlotsDistinct
  <2>4. SlotsDistinct'
    BY <1>1, <1>2, <2>2, <2>3 DEF OnceInv, Once, SlotsDistinct, IsEmpty
  <2>5. TakenOnce'
    <3> SUFFICES ASSUME NEW t \in Threads, at[t] \in {"taken", "marked"}, crt[t].id # EmptySlot
                 PROVE  /\ crt[t].resnum \in (0 .. raised') \ delivered
                        /\ at[t] = "taken" => queue'[readIdx] = crt[t]
                        /\ at[t] = "marked" =>
                             \A i \in Idx : ~IsEmpty(i)' => queue'[i].resnum # crt[t].resnum
      BY <1>1 DEF TakenOnce
    <3>1. crt[t].resnum \in (0 .. raised') \ delivered /\ crt[t].resnum # raised'
      BY <1>2 DEF OnceInv, Once, TakenOnce
    <3>2. at[t] = "taken" => queue'[readIdx] = crt[t]
      BY <1>1, <2>1, <2>2 DEF OnceInv, Once, TakenOnce, IsEmpty
    <3>3. at[t] = "marked" =>
            \A i \in Idx : ~IsEmpty(i)' => queue'[i].resnum # crt[t].resnum
      BY <2>2, <3>1 DEF OnceInv, Once, TakenOnce, IsEmpty
    <3> QED
      BY <3>1, <3>2, <3>3
  <2> QED
    BY <1>3, <2>4, <2>5 DEF Once
<1>5. CASE ~Accepts(id)
  <2>1. queue' = queue
    BY <1>5 DEF EluaIntAdd
  <2> QED
    BY <1>1, <1>2, <1>3, <2>1 DEF OnceInv, Once, SlotsDistinct, TakenOnce, IsEmpty
<1> QED
  BY <1>4, <1>5

\* Each step of the hook passes a request from the slot to the local copy, and
\* from there to the handler, without leaving it where it was.
LEMMA OnceHook ==
  ASSUME OnceInv, NEW t \in Threads, Hook(t) \/ HandlerReturn(t) \/ HandlerError(t)
  PROVE  Once'
<1> USE IntQueueAssumption DEF EmptySlot
<1>1. /\ queue \in [Idx -> Slot] /\ readIdx \in Idx
      /\ at \in [Threads -> Places] /\ crt \in [Threads -> Slot] /\ t = Running
      /\ UNCHANGED raised
  BY DEF OnceInv, Once, TypeOK, Hook, HookTake, HookMark, HookAdvance, HookTail, HandlerReturn,
     HandlerError
<1>2. CASE HookTake(t)
  <2>1. /\ at' = [at EXCEPT ![t] = "taken"] /\ crt' = [crt EXCEPT ![t] = queue[readIdx]]
        /\ UNCHANGED <<queue, readIdx, stack, delivered>>
    BY <1>2 DEF HookTake
  <2>2. TakerRuns' /\ SlotsDistinct'
    BY <1>1, <2>1 DEF OnceInv, Once, TakerRuns, SlotsDistinct, Running, IsEmpty
  <2>3. \A u \in Threads \ {t} : at'[u] \notin {"taken", "marked"}
    BY <1>1, <2>1 DEF OnceInv, Once, TakerRuns
  <2>4. at'[t] = "taken" /\ crt'[t] = queue[readIdx]
    BY <1>1, <2>1
  <2>5. TakenOnce'
    BY <1>1, <2>1, <2>3, <2>4 DEF TakenOnce, OnceInv, Once, SlotsDistinct, IsEmpty
  <2> QED
    BY <2>2, <2>5 DEF Once
<1>3. CASE HookMark(t)
  <2>1. /\ at' = [at EXCEPT ![t] = "marked"] /\ at[t] = "taken"
        /\ queue' = [queue EXCEPT ![readIdx] =
                       [id |-> EmptySlot, resnum |-> queue[readIdx].resnum]]
        /\ UNCHANGED <<readIdx, stack, delivered, crt>>
    BY <1>3 DEF HookMark, SlotGivenUp
  <2>2. \A i \in Idx : /\ IsEmpty(i)' <=> (IsEmpty(i) \/ i = readIdx)
                       /\ queue'[i].resnum = queue[i].resnum
    BY <1>1, <2>1 DEF IsEmpty
  <2>3. TakerRuns' /\ SlotsDistinct'
    BY <1>1, <2>1, <2>2 DEF OnceInv, Once, TakerRuns, SlotsDistinct, Running
  <2>4. at'[t] = "marked" /\ \A u \in Threads \ {t} : at'[u] \notin {"taken", "marked"}
    BY <1>1, <2>1 DEF OnceInv, Once, TakerRuns
  <2>5. crt[t].id # EmptySlot =>
          \A i \in Idx : ~IsEmpty(i)' => queue'[i].resnum # crt[t].resnum
    BY <1>1, <2>1, <2>2 DEF OnceInv, Once, TakenOnce, SlotsDistinct, IsEmpty
  <2>6. TakenOnce'
    BY <1>1, <2>1, <2>4, <2>5 DEF TakenOnce, OnceInv, Once
  <2> QED
    BY <2>3, <2>6 DEF Once
<1>4. CASE HookAdvance(t)
  <2>1. /\ at[t] = "marked" /\ at'[t] \in {"handler", "tail"}
        /\ \A u \in Threads \ {t} : at'[u] = at[u]
        /\ UNCHANGED <<queue, stack, crt>>
    BY <1>1, <1>4 DEF HookAdvance
  <2>2. \A u \in Threads : at'[u] \notin {"taken", "marked"}
    BY <1>1, <2>1 DEF OnceInv, Once, TakerRuns
  <2>3. \/ delivered' = delivered
        \/ crt[t].id # EmptySlot /\ delivered' = delivered \union {crt[t].resnum}
    BY <1>1, <1>4 DEF HookAdvance, OnceInv, Once, TypeOK
  <2>4. SlotsDistinct'
    BY <1>1, <2>1, <2>3 DEF OnceInv, Once, SlotsDistinct, TakenOnce, IsEmpty
  <2> QED
    BY <2>2, <2>4 DEF Once, TakerRuns, TakenOnce
<1>5. CASE HookTail(t) \/ HandlerReturn(t) \/ HandlerError(t)
  <2>1. /\ at[t] \in {"tail", "handler"} /\ at'[t] \in {"vm", "tail"}
        /\ \A u \in Threads \ {t} : at'[u] = at[u]
        /\ UNCHANGED <<queue, delivered>>
    BY <1>1, <1>5 DEF HookTail, HandlerReturn, HandlerError
  <2>2. \A u \in Threads : at'[u] \notin {"taken", "marked"}
    BY <1>1, <2>1 DEF OnceInv, Once, TakerRuns
  <2> QED
    BY <1>1, <2>1, <2>2 DEF OnceInv, Once, TakerRuns, TakenOnce, SlotsDistinct, IsEmpty
<1> QED
  BY <1>2, <1>3, <1>4, <1>5 DEF Hook

\* A program takes no slot itself, and changes to another thread only when no
\* thread is taking one.
LEMMA OnceProgram ==
  ASSUME OnceInv, NEW t \in Threads, Program(t)
  PROVE  Once'
<1>1. UNCHANGED <<queue, readIdx, at, crt, raised, delivered>>
  BY DEF Program, CpuSetIntHandler, NewThread, Resume, YieldOrEnd
<1>2. UNCHANGED stack \/ (t = Running /\ at[t] \in {"vm", "handler"})
  BY DEF Program, CpuSetIntHandler, NewThread, Resume, YieldOrEnd, RunsLua
<1>3. TakerRuns'
  BY <1>1, <1>2 DEF OnceInv, Once, TakerRuns, Running
<1> QED
  BY <1>1, <1>3 DEF OnceInv, Once, SlotsDistinct, TakenOnce, IsEmpty

LEMMA OnceStep == OnceInv /\ [Next]_vars => OnceInv'
<1> SUFFICES ASSUME OnceInv, [Next]_vars PROVE Once'
  BY TypeStep DEF OnceInv, Once
<1>1. CASE LuaClose
  BY <1>1 DEF LuaClose, Blank, Once, TakerRuns, SlotsDistinct, TakenOnce, OnceInv, Once, IsEmpty
<1>2. CASE LuaOpen \/ UNCHANGED vars
  <2>1. UNCHANGED <<queue, readIdx, at, crt, stack, raised, delivered>>
    BY <1>2 DEF LuaOpen, vars
  <2> QED
    BY <2>1 DEF OnceInv, Once, TakerRuns, SlotsDistinct, TakenOnce, Running, IsEmpty
<1> QED
  BY <1>1, <1>2, OnceAdd, OnceHook, OnceProgram DEF Next

\* No request is passed to a Lua handler twice, nor queued or taken again after
\* it was passed: neither coroutines nor handlers that fail bring one back.
THEOREM NoneTwice == Spec => []DeliveredOnce
<1>1. Init => OnceInv
  BY InitType, IntQueueAssumption DEF Init, OnceInv, Once, TakerRuns, SlotsDistinct, TakenOnce,
     IsEmpty, Blank
<1>2. OnceInv => DeliveredOnce
  BY DEF OnceInv, Once, SlotsDistinct, TakenOnce, DeliveredOnce
<1> QED
  BY <1>1, <1>2, OnceStep, PTL DEF Spec

-----------------------------------------------------------------------------
(***************************************************************************)
(* IntQueue implements IntFifo: for every ring size, any number of         *)
(* coroutines and of interrupts, the ring with its three-step removal is a *)
(* bounded queue as long as the program leaves it undisturbed.             *)
(***************************************************************************)

\* x modulo the size of the ring, for an index that went round it once at most.
Fold(x) == IF x < QueueSize THEN x ELSE x - QueueSize

LEMMA FoldIsMod == \A x \in 0 .. 2 * QueueSize - 1 : x % QueueSize = Fold(x) /\ Fold(x) \in Idx
BY IntQueueAssumption DEF Fold, Idx

\* What a queue of n elements becomes when one is added at its end, or its head taken away.
LEMMA AppendFact ==
  ASSUME NEW S, NEW s \in Seq(S), NEW e, NEW n \in Nat, Len(s) = n
  PROVE  /\ Append(s, e) \in Seq(S \union {e}) /\ Len(Append(s, e)) = n + 1
         /\ Append(s, e)[n + 1] = e
         /\ \A k \in 1 .. n : Append(s, e)[k] = s[k]
<1>1. s \in Seq(S \union {e}) /\ e \in S \union {e}
  BY SeqMonotonic
<1> QED BY <1>1, AppendProperties

LEMMA TailFact ==
  ASSUME NEW S, NEW s \in Seq(S), NEW n \in Nat, Len(s) = n, n > 0
  PROVE  /\ s # <<>> /\ Tail(s) \in Seq(S) /\ Len(Tail(s)) = n - 1
         /\ \A k \in 1 .. n - 1 : Tail(s)[k] = s[k + 1]
<1>1. s # <<>>
  OBVIOUS
<1> QED BY <1>1, HeadTailProperties

Count == Cardinality(Occupied)

\* Between two steps, the slots in use begin at First and end before writeIdx.
LEMMA FirstFact == ASSUME TypeOK, MainAlone PROVE FirstIdx = First /\ First \in Idx /\ writeIdx \in Idx
BY NextIdxFact DEF TypeOK, MainAlone, FirstIdx, First, Threads

LEMMA CountFact ==
  ASSUME TypeOK, Calm
  PROVE  /\ IsFiniteSet(Occupied) /\ Count \in 0 .. QueueSize
         /\ writeIdx = Fold(First + Count)
         /\ Count < QueueSize <=> IsEmpty(writeIdx)
<1> USE IntQueueAssumption
<1>1. First \in Idx /\ writeIdx \in Idx
  BY FirstFact DEF Calm
<1>2. IsFiniteSet(Idx) /\ Cardinality(Idx) = QueueSize
  BY FS_Interval DEF Idx
<1>3. CASE \A i \in Idx : ~IsEmpty(i)
  <2>1. Occupied = Idx
    BY <1>3 DEF Occupied
  <2>2. First = writeIdx
    <3>1. First # writeIdx => ~Between(First, writeIdx, writeIdx)
      BY <1>1 DEF Between, Idx
    <3>2. First # writeIdx => IsEmpty(writeIdx)
      BY <1>1, <1>3, <3>1 DEF Calm, RingShape
    <3> QED BY <1>1, <1>3, <3>2
  <2> QED BY <1>1, <1>2, <1>3, <2>1, <2>2 DEF Count, Fold, Idx
<1>4. CASE First = writeIdx /\ \A i \in Idx : IsEmpty(i)
  <2>1. Occupied = {}
    BY <1>4 DEF Occupied
  <2> QED BY <1>1, <1>4, <2>1, FS_EmptySet DEF Count, Fold, Idx
<1>5. CASE First < writeIdx
  <2>1. Occupied = First .. writeIdx - 1
    BY <1>1, <1>5 DEF Calm, RingShape, Between, Occupied, Idx
  <2>2. IsFiniteSet(Occupied) /\ Count = writeIdx - First
    BY <1>1, <1>5, <2>1, FS_Interval DEF Count, Idx
  <2>3. IsEmpty(writeIdx)
    BY <1>1, <1>5 DEF Calm, RingShape, Between, Idx
  <2> QED BY <1>1, <1>5, <2>2, <2>3 DEF Fold, Idx
<1>6. CASE writeIdx < First
  <2> DEFINE A == 0 .. writeIdx - 1
             B == First .. QueueSize - 1
  <2>1. Occupied = A \union B /\ A \intersect B = {}
    BY <1>1, <1>6 DEF Calm, RingShape, Between, Occupied, Idx
  <2>2. IsFiniteSet(A) /\ Cardinality(A) = writeIdx
    BY <1>1, FS_Interval DEF Idx
  <2>3. IsFiniteSet(B) /\ Cardinality(B) = QueueSize - First
    BY <1>1, FS_Interval DEF Idx
  <2> HIDE DEF A, B
  <2>4. IsFiniteSet(Occupied) /\ Count = writeIdx + QueueSize - First
    BY <1>1, <2>1, <2>2, <2>3, FS_Union, FS_EmptySet DEF Count, Idx
  <2>5. IsEmpty(writeIdx)
    BY <1>1, <1>6 DEF Calm, RingShape, Between, Idx
  <2> QED BY <1>1, <1>6, <2>4, <2>5 DEF Fold, Idx
<1> QED BY <1>1, <1>3, <1>4, <1>5, <1>6 DEF Calm, RingShape, Idx

\* Pending in terms of First.
PendingIsRing ==
  /\ Pending = [k \in 1 .. Count |-> queue[Fold(First + k - 1)]]
  /\ Pending \in Seq(Slot) /\ Len(Pending) = Count

LEMMA PendingFact == TypeOK /\ Calm => PendingIsRing
<1> SUFFICES ASSUME TypeOK, Calm PROVE PendingIsRing
  OBVIOUS
<1> USE IntQueueAssumption DEF PendingIsRing
<1>1. First \in Idx /\ FirstIdx = First /\ Count \in 0 .. QueueSize
  BY FirstFact, CountFact DEF Calm
<1>2. \A k \in 1 .. Count : (FirstIdx + k - 1) % QueueSize = Fold(First + k - 1) /\ Fold(First + k - 1) \in Idx
  BY <1>1, FoldIsMod DEF Idx
<1>3. Pending = [k \in 1 .. Count |-> queue[Fold(First + k - 1)]]
  BY <1>2 DEF Pending, Count
<1>4. \A k \in 1 .. Count : queue[Fold(First + k - 1)] \in Slot
  BY <1>2 DEF TypeOK
<1> QED BY <1>1, <1>3, <1>4, IsASeq

-----------------------------------------------------------------------------
\* An interrupt accepted is appended, and one is refused when the queue is full.
LEMMA RaiseStep ==
  ASSUME IInv, Calm, IInv', Calm', NEW id \in IntIds, EluaIntAdd(id), ~disturbed, ~disturbed'
  PROVE  Fifo!Raise(id)
<1> USE IntQueueAssumption
<1>1. First \in Idx /\ writeIdx \in Idx /\ Count \in 0 .. QueueSize /\ IsFiniteSet(Occupied)
      /\ writeIdx = Fold(First + Count) /\ (Count < QueueSize <=> IsEmpty(writeIdx))
  BY FirstFact, CountFact DEF Calm, IInv
<1>2. /\ Pending = [k \in 1 .. Count |-> queue[Fold(First + k - 1)]]
      /\ Pending \in Seq(Slot) /\ Len(Pending) = Count
  BY PendingFact DEF IInv, PendingIsRing
<1>3. /\ Pending' = [k \in 1 .. Count' |-> queue'[Fold(First' + k - 1)]]
      /\ Pending' \in Seq(Slot) /\ Len(Pending') = Count'
  <2>1. TypeOK' /\ Calm'
    BY DEF IInv
  <2>2. PendingIsRing'
    BY <2>1, PendingFact, PTL
  <2> QED BY <2>2 DEF PendingIsRing, Slot
<1>4. First' = First /\ raised' = raised + 1 /\ UNCHANGED <<flags, luaUp>>
  BY NextIdxFact DEF EluaIntAdd, First
<1>5. CASE Accepts(id)
  <2> DEFINE new == [id |-> id, resnum |-> raised + 1]
  <2>1. queue' = [queue EXCEPT ![writeIdx] = new] /\ queue \in [Idx -> Slot] /\ id # EmptySlot
    BY <1>5 DEF EluaIntAdd, IInv, TypeOK, EmptySlot
  <2>2. IsEmpty(writeIdx) /\ Count < QueueSize
    BY <1>1, <1>5 DEF Accepts
  <2>3. Occupied' = Occupied \union {writeIdx} /\ writeIdx \notin Occupied
    BY <1>1, <2>1, <2>2 DEF Occupied, IsEmpty
  <2>4. Count' = Count + 1
    BY <1>1, <2>3, FS_AddElement DEF Count
  <2>5. \A k \in 1 .. Count : queue'[Fold(First + k - 1)] = queue[Fold(First + k - 1)]
    <3> SUFFICES ASSUME NEW k \in 1 .. Count PROVE Fold(First + k - 1) # writeIdx
      BY <2>1
    <3> QED BY <1>1, <2>2 DEF Fold, Idx
  <2>6. queue'[Fold(First + Count)] = new
    BY <1>1, <2>1
  <2> HIDE DEF new
  <2>7. /\ Append(Pending, new) \in Seq(Slot \union {new})
        /\ Len(Append(Pending, new)) = Count + 1
        /\ Append(Pending, new)[Count + 1] = new
        /\ \A k \in 1 .. Count : Append(Pending, new)[k] = Pending[k]
    <3>1. Pending \in Seq(Slot) /\ Len(Pending) = Count /\ Count \in Nat
      BY <1>1, <1>2
    <3> QED BY <3>1, AppendFact
  <2>8. \A k \in 1 .. Count + 1 : Append(Pending, new)[k] = Pending'[k]
    <3> SUFFICES ASSUME NEW k \in 1 .. Count + 1 PROVE Append(Pending, new)[k] = Pending'[k]
      OBVIOUS
    <3>1. CASE k \in 1 .. Count
      <4>1. Append(Pending, new)[k] = Pending[k]
        BY <2>7, <3>1
      <4>2. Pending[k] = queue[Fold(First + k - 1)] /\ Pending'[k] = queue'[Fold(First + k - 1)]
        BY <1>2, <1>3, <1>4, <2>4, <3>1
      <4> QED BY <2>5, <3>1, <4>1, <4>2
    <3>2. CASE k = Count + 1
      <4>1. Append(Pending, new)[k] = new
        BY <2>7, <3>2
      <4>2. Pending'[k] = queue'[Fold(First + k - 1)] /\ First + k - 1 = First + Count
        BY <1>1, <1>3, <1>4, <2>4, <3>2 DEF Idx
      <4> QED BY <2>6, <4>1, <4>2
    <3>3. k \in 1 .. Count \/ k = Count + 1
      BY <1>1
    <3> QED BY <3>1, <3>2, <3>3
  <2>9. Pending' = Append(Pending, new)
    <3>1. Len(Append(Pending, new)) = Count + 1 /\ Len(Pending') = Count + 1
      BY <1>3, <2>4, <2>7
    <3>2. Append(Pending, new) \in Seq(Slot \union {new}) /\ Pending' \in Seq(Slot \union {new})
      BY <1>3, <2>7, SeqMonotonic
    <3> QED BY <2>8, <3>1, <3>2, SeqEqual
  <2>10. Len(Pending) < QueueSize
    BY <1>2, <2>2
  <2> QED BY <1>4, <1>5, <2>9, <2>10 DEF Fifo!Raise, Accepts, new
<1>6. CASE ~Accepts(id)
  <2>1. UNCHANGED <<queue, writeIdx>>
    BY <1>6 DEF EluaIntAdd
  <2>2. Pending' = Pending
    BY <1>4, <2>1, <1>2, <1>3 DEF Count, Occupied, IsEmpty
  <2> QED BY <1>1, <1>2, <1>4, <1>6, <2>2 DEF Fifo!Raise, Accepts
<1> QED BY <1>5, <1>6

\* The oldest one leaves the queue when its slot is marked as empty.
LEMMA HandOverStep ==
  ASSUME IInv, Calm, IInv', Calm', HookMark(Main)
  PROVE  Fifo!HandOver
<1> USE IntQueueAssumption
<1>1. First \in Idx /\ writeIdx \in Idx /\ Count \in 0 .. QueueSize /\ IsFiniteSet(Occupied)
  BY FirstFact, CountFact DEF Calm, IInv
<1>2. /\ Pending = [k \in 1 .. Count |-> queue[Fold(First + k - 1)]]
      /\ Pending \in Seq(Slot) /\ Len(Pending) = Count
  BY PendingFact DEF IInv, PendingIsRing
<1>3. /\ Pending' = [k \in 1 .. Count' |-> queue'[Fold(First' + k - 1)]]
      /\ Pending' \in Seq(Slot) /\ Len(Pending') = Count'
  <2>1. TypeOK' /\ Calm'
    BY DEF IInv
  <2>2. PendingIsRing'
    BY <2>1, PendingFact, PTL
  <2> QED BY <2>2 DEF PendingIsRing, Slot
<1>4. /\ at[Main] = "taken" /\ at'[Main] = "marked" /\ readIdx' = readIdx /\ readIdx \in Idx
      /\ First = readIdx /\ First' = NextIdx(readIdx) /\ ~IsEmpty(readIdx)
  BY DEF HookMark, IInv, TypeOK, First, Calm, HookShape, Threads
<1>5. First' = Fold(First + 1)
  BY <1>1, <1>4, NextIdxFact DEF Fold, Idx
<1>6. /\ queue' = [queue EXCEPT ![readIdx] = [id |-> EmptySlot, resnum |-> queue[readIdx].resnum]]
      /\ queue \in [Idx -> Slot]
  BY DEF HookMark, SlotGivenUp, IInv, TypeOK
<1>7. Occupied' = Occupied \ {readIdx} /\ readIdx \in Occupied
  BY <1>4, <1>6 DEF Occupied, IsEmpty
<1>8. Count' = Count - 1 /\ Count > 0
  BY <1>1, <1>7, FS_RemoveElement, FS_EmptySet DEF Count
<1>9. \A k \in 1 .. Count - 1 : queue'[Fold(First' + k - 1)] = queue[Fold(First + k)]
  <2> SUFFICES ASSUME NEW k \in 1 .. Count - 1
               PROVE  Fold(First' + k - 1) = Fold(First + k) /\ Fold(First + k) # readIdx
    BY <1>6
  <2> QED BY <1>1, <1>4, <1>5 DEF Fold, Idx
<1>10. /\ Pending # <<>> /\ Tail(Pending) \in Seq(Slot) /\ Len(Tail(Pending)) = Count - 1
       /\ \A k \in 1 .. Count - 1 : Tail(Pending)[k] = Pending[k + 1]
  <2>1. Pending \in Seq(Slot) /\ Len(Pending) = Count /\ Count \in Nat /\ Count > 0
    BY <1>1, <1>2, <1>8
  <2> QED BY <2>1, TailFact
<1>11. \A k \in 1 .. Count - 1 : Tail(Pending)[k] = Pending'[k]
  <2> SUFFICES ASSUME NEW k \in 1 .. Count - 1 PROVE Tail(Pending)[k] = Pending'[k]
    OBVIOUS
  <2>1. Tail(Pending)[k] = Pending[k + 1]
    BY <1>10
  <2>2. Pending[k + 1] = queue[Fold(First + (k + 1) - 1)] /\ First + (k + 1) - 1 = First + k
    BY <1>1, <1>2 DEF Idx
  <2>3. Pending'[k] = queue'[Fold(First' + k - 1)]
    BY <1>3, <1>8
  <2> QED BY <1>9, <2>1, <2>2, <2>3
<1>12. Pending' = Tail(Pending)
  BY <1>3, <1>8, <1>10, <1>11, SeqEqual
<1> QED BY <1>10, <1>12 DEF Fifo!HandOver, HookMark

\* A step that moves neither the ring nor the place where it begins.
LEMMA SameStep ==
  ASSUME UNCHANGED <<queue, First>>, TypeOK, Calm, TypeOK', Calm'
  PROVE  Pending' = Pending
<1>1. PendingIsRing
  BY PendingFact
<1>2. PendingIsRing'
  BY PendingFact, PTL
<1>3. Count' = Count
  BY DEF Count, Occupied, IsEmpty
<1> QED BY <1>1, <1>2, <1>3 DEF PendingIsRing

LEMMA FifoStep ==
  ASSUME IInv, IInv', [Next]_vars
  PROVE  [Fifo!Next]_(Fifo!vars)
<1> USE IntQueueAssumption
<1>1. CASE disturbed'
  BY <1>1 DEF Fifo!Next, Fifo!Void
<1>2. CASE LuaClose
  <2>1. Occupied' = {}
    BY <1>2 DEF LuaClose, Occupied, IsEmpty, Blank
  <2>2. Pending' = <<>>
    BY <2>1, FS_EmptySet DEF Pending
  <2> QED BY <1>2, <2>2 DEF LuaClose, FlagsCleared, Fifo!Next, Fifo!Stop
<1>3. CASE ~disturbed' /\ ~LuaClose
  <2>1. ~disturbed /\ \A t \in Threads : ~HandlerError(t)
    BY <1>3 DEF Next, vars, EluaIntAdd, Hook, HookTake, HookMark, HookAdvance, HookTail,
       HandlerReturn, HandlerError, Program, CpuSetIntHandler, NewThread, Resume, YieldOrEnd,
       LuaOpen, IInv, TypeOK
  <2>2. Calm /\ Calm' /\ TypeOK /\ TypeOK'
    BY <1>3, <2>1 DEF IInv
  <2>3. ASSUME NEW id \in IntIds, EluaIntAdd(id) PROVE Fifo!Next
    BY <1>3, <2>1, <2>2, <2>3, RaiseStep DEF Fifo!Next, Fifo!Promised
  <2>4. ASSUME NEW t \in Threads, Hook(t) \/ HandlerReturn(t) PROVE [Fifo!Next]_(Fifo!vars)
    <3>1. t = Main
      BY <2>2, <2>4 DEF Calm, MainAlone, Hook, HookTake, HookMark, HookAdvance, HookTail,
         HandlerReturn, Threads
    <3>2. CASE HookMark(Main)
      BY <1>3, <2>1, <2>2, <3>2, HandOverStep DEF Fifo!Next, Fifo!Promised
    <3>3. CASE HookTake(Main) \/ HookAdvance(Main) \/ HookTail(Main) \/ HandlerReturn(Main)
      <4>1. UNCHANGED <<queue, First, flags, luaUp, raised, disturbed>>
        BY <2>2, <3>3 DEF HookTake, HookAdvance, HookTail, HandlerReturn, First, TypeOK, Threads
      <4> QED BY <2>2, <4>1, SameStep DEF Fifo!vars
    <3> QED BY <2>4, <3>1, <3>2, <3>3 DEF Hook
  <2>5. ASSUME NEW t \in Threads, Program(t) PROVE [Fifo!Next]_(Fifo!vars)
    <3>1. UNCHANGED <<queue, First, luaUp, raised>>
      BY <2>5 DEF Program, CpuSetIntHandler, NewThread, Resume, YieldOrEnd, First
    <3>2. Pending' = Pending
      BY <2>2, <3>1, SameStep
    <3>3. CASE flags' = flags
      BY <1>3, <2>1, <2>2, <3>1, <3>2, <3>3 DEF Fifo!vars, TypeOK
    <3>4. CASE flags' # flags
      <4>1. luaUp /\ flags' \in SUBSET IntIds
        BY <2>2, <2>5, <3>4 DEF Program, CpuSetIntHandler, NewThread, Resume, YieldOrEnd, RunsLua, TypeOK
      <4> QED BY <1>3, <2>1, <3>1, <3>2, <4>1 DEF Fifo!Next, Fifo!Promised, Fifo!Enable
    <3> QED BY <3>3, <3>4
  <2>6. CASE LuaOpen
    <3>1. UNCHANGED <<queue, First>>
      BY <2>6 DEF LuaOpen, First
    <3>2. Pending' = Pending
      BY <2>2, <3>1, SameStep
    <3> QED BY <1>3, <2>1, <2>6, <3>2 DEF LuaOpen, Fifo!Next, Fifo!Promised, Fifo!Start
  <2>7. CASE UNCHANGED vars
    <3>1. UNCHANGED <<queue, First>>
      BY <2>7 DEF vars, First
    <3>2. Pending' = Pending
      BY <2>2, <3>1, SameStep
    <3> QED BY <2>7, <3>2 DEF vars, Fifo!vars
  <2> QED BY <1>3, <2>1, <2>3, <2>4, <2>5, <2>6, <2>7 DEF Next
<1> QED BY <1>1, <1>2, <1>3

LEMMA FifoInit == Init => Fifo!Init
<1> SUFFICES ASSUME Init PROVE Fifo!Init
  OBVIOUS
<1>1. Occupied = {}
  BY DEF Init, Occupied, IsEmpty, Blank
<1>2. Pending = <<>>
  BY <1>1, FS_EmptySet DEF Pending
<1> QED BY <1>2 DEF Init, Fifo!Init

\* The ring is a bounded queue: requests leave it one by one in the order they came,
\* one is refused only when QueueSize of them wait, and lua_close empties it
\* (elua_int.c, elua_int_hook and elua_int_add).
THEOREM QueueIsFifo == Spec => ImplementsFifo
<1>1. IInv /\ IInv' /\ [Next]_vars => [Fifo!Next]_(Fifo!vars)
  BY FifoStep
<1> QED BY <1>1, InvInit, InvStep, FifoInit, PTL DEF Spec, ImplementsFifo, Fifo!Spec
=============================================================================

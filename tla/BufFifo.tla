------------------------------ MODULE BufFifo ------------------------------
(***************************************************************************)
(* What a device buffer promises: a queue that gives back what was put     *)
(* into it, oldest first.  One element more than capacity is accepted: it  *)
(* takes the place of the oldest and comes again as the newest, unless the *)
(* oldest is just being taken.  The next one, and one that finds no        *)
(* buffer, is refused.                                                     *)
(***************************************************************************)
EXTENDS Integers, Sequences

CONSTANTS Elements, Sizes

VARIABLES
  queue,     \* elements put and not taken, oldest first
  capacity,
  taken      \* the element taken last

vars == <<queue, capacity, taken>>

Init == queue = <<>> /\ capacity \in Sizes /\ taken = <<>>

Put(v) ==
  /\ Len(queue) < capacity
  /\ queue' = Append(queue, v)
  /\ UNCHANGED <<capacity, taken>>

\* The oldest element is lost, or all are kept.
PutFull(v) ==
  /\ Len(queue) = capacity /\ capacity > 0
  /\ queue' \in {[Append(queue, v) EXCEPT ![1] = v], Append(queue, v)}
  /\ UNCHANGED <<capacity, taken>>

Take ==
  /\ queue # <<>>
  /\ taken' = <<Head(queue)>>
  /\ queue' = Tail(queue)
  /\ UNCHANGED capacity

\* The capacity changes; what is in the queue stays.
Resize(n) == Len(queue) <= n /\ capacity' = n /\ UNCHANGED <<queue, taken>>

\* There is no memory for it.
Lose == queue' = <<>> /\ capacity' = 0 /\ UNCHANGED taken

\* A restart of the system.
SetUp(n) == queue' = <<>> /\ capacity' = n /\ taken' = <<>>

Next ==
  \/ \E v \in Elements : Put(v) \/ PutFull(v)
  \/ \E n \in Sizes : Resize(n) \/ SetUp(n)
  \/ Take \/ Lose

Spec == Init /\ [][Next]_vars
=============================================================================

------------------------------ MODULE IntFifo ------------------------------
(***************************************************************************)
(* What the interrupt queue promises to a Lua program: requests of an      *)
(* enabled type are handed over one by one in the order they were raised,  *)
(* and one is refused only when Capacity of them are waiting.  A program   *)
(* may do things that void the promise, until its Lua state is closed.     *)
(***************************************************************************)
EXTENDS Integers, Sequences

CONSTANTS Capacity, Types

VARIABLES
  pending,   \* the accepted requests not yet handed over, oldest first
  enabled,   \* the types a handler is installed for
  running,   \* whether there is a Lua state
  requests,  \* number of requests raised so far
  kept       \* whether the promise stands

vars == <<pending, enabled, running, requests, kept>>

Init ==
  pending = <<>> /\ enabled = {} /\ running = TRUE /\ requests = 0 /\ kept = TRUE

Raise(type) ==
  /\ requests' = requests + 1
  /\ IF running /\ type \in enabled /\ Len(pending) < Capacity
       THEN pending' = Append(pending, [id |-> type, resnum |-> requests + 1])
       ELSE UNCHANGED pending
  /\ UNCHANGED <<enabled, running>>

HandOver ==
  /\ pending # <<>>
  /\ pending' = Tail(pending)
  /\ UNCHANGED <<enabled, running, requests>>

Enable(types) ==
  /\ running
  /\ enabled' = types
  /\ UNCHANGED <<pending, running, requests>>

Stop ==
  /\ running
  /\ running' = FALSE /\ pending' = <<>> /\ enabled' = {}
  /\ UNCHANGED requests

Start ==
  /\ ~running
  /\ running' = TRUE
  /\ UNCHANGED <<pending, enabled, requests>>

Promised ==
  \/ \E type \in Types : Raise(type)
  \/ \E types \in SUBSET Types : Enable(types)
  \/ HandOver \/ Start

Void == kept' = FALSE

Next == (kept /\ kept' = TRUE /\ Promised) \/ Void \/ (Stop /\ kept' = TRUE)

Spec == Init /\ [][Next]_vars
=============================================================================

------------------------------ MODULE UipProofs ------------------------------
(***************************************************************************)
(* Requests on sockets are made one at a time, and a connection takes data *)
(* only for a call that waits for it: for any number of connections, of    *)
(* ports and any sizes of segments and requests.                           *)
(***************************************************************************)
EXTENDS UipApp, TLAPS, WellFoundedInduction

USE UipAssumption

TcpStates == Active \union {"closed", "reserved"}
Requested == {"idle", "send", "recv", "recv2", "connect", "close"}
Results == {"ok", "buffer", "timedout", "closed", "aborted", "overflow"}
Ops == {"send", "recv", "close", "connect"}
Events == {"newdata", "acked", "poll"} \union Errors

-----------------------------------------------------------------------------
(***************************************************************************)
(* Numbers and fields.                                                     *)
(***************************************************************************)
LEMMA SmallerFact ==
  ASSUME NEW x \in Nat, NEW y \in Nat
  PROVE  Smaller(x, y) = IF x <= y THEN x ELSE y
BY DEF Smaller, Min

LEMMA MinFact ==
  ASSUME NEW S, S \subseteq Nat, S # {}
  PROVE  Min(S) \in S
<1> DEFINE Below == OpToRel(<, Nat)
<1>1. \A x, y \in Nat : y < x => <<y, x>> \in Below
  <2> TAKE x, y \in Nat
  <2> HAVE y < x
  <2>1. <<y, x>> \in Nat \X Nat /\ <<y, x>>[1] < <<y, x>>[2]
    OBVIOUS
  <2> QED BY <2>1, Zenon DEF OpToRel
<1>2. PICK x \in S : \A y \in S : ~(<<y, x>> \in Below)
  BY WFMin, NatLessThanWellFounded
<1>3. ASSUME NEW y \in S PROVE x <= y
  <2>1. x \in Nat /\ y \in Nat
    OBVIOUS
  <2>2. ~(y < x)
    BY <1>1, <1>2, <2>1, Zenon
  <2> QED BY <2>1, <2>2
<1> QED BY <1>3 DEF Min

\* One field of a connection is set.
LEMMA SetTcp ==
  ASSUME NEW k \in Conn, NEW v \in TcpStates
  PROVE  LET r == [k EXCEPT !.tcp = v]
         IN  /\ r \in Conn /\ r.tcp = v /\ r.stopped = k.stopped
             /\ r.out = k.out /\ r.state = k.state
BY DEF Conn, TcpStates

LEMMA SetStopped ==
  ASSUME NEW k \in Conn, NEW v \in BOOLEAN
  PROVE  LET r == [k EXCEPT !.stopped = v]
         IN  /\ r \in Conn /\ r.tcp = k.tcp /\ r.stopped = v
             /\ r.out = k.out /\ r.state = k.state
BY DEF Conn

LEMMA SetOut ==
  ASSUME NEW k \in Conn, NEW v \in 0 .. Mss
  PROVE  LET r == [k EXCEPT !.out = v]
         IN  /\ r \in Conn /\ r.tcp = k.tcp /\ r.stopped = k.stopped
             /\ r.out = v /\ r.state = k.state
BY DEF Conn

LEMMA SetMss ==
  ASSUME NEW k \in Conn, NEW v \in 1 .. Mss
  PROVE  LET r == [k EXCEPT !.mss = v]
         IN  /\ r \in Conn /\ r.tcp = k.tcp /\ r.stopped = k.stopped
             /\ r.out = k.out /\ r.state = k.state
BY DEF Conn

LEMMA SetPort ==
  ASSUME NEW k \in Conn, NEW v \in Ports \union {Nobody}
  PROVE  LET r == [k EXCEPT !.port = v]
         IN  /\ r \in Conn /\ r.tcp = k.tcp /\ r.stopped = k.stopped
             /\ r.out = k.out /\ r.state = k.state
BY DEF Conn

LEMMA SetGiven ==
  ASSUME NEW k \in Conn, NEW v \in {"no", "yes", "missed"}
  PROVE  LET r == [k EXCEPT !.given = v]
         IN  /\ r \in Conn /\ r.tcp = k.tcp /\ r.stopped = k.stopped
             /\ r.out = k.out /\ r.state = k.state
BY DEF Conn

LEMMA SetState ==
  ASSUME NEW k \in Conn, NEW v \in Requested
  PROVE  LET r == [k EXCEPT !.state = v]
         IN  /\ r \in Conn /\ r.tcp = k.tcp /\ r.stopped = k.stopped
             /\ r.out = k.out /\ r.state = v
BY DEF Conn, Requested

LEMMA SetRes ==
  ASSUME NEW k \in Conn, NEW v \in Results
  PROVE  LET r == [k EXCEPT !.res = v]
         IN  /\ r \in Conn /\ r.tcp = k.tcp /\ r.stopped = k.stopped
             /\ r.out = k.out /\ r.state = k.state
BY DEF Conn, Results

LEMMA SetLeft ==
  ASSUME NEW k \in Conn, NEW v \in 0 .. MaxLen
  PROVE  LET r == [k EXCEPT !.left = v]
         IN  /\ r \in Conn /\ r.tcp = k.tcp /\ r.stopped = k.stopped
             /\ r.out = k.out /\ r.state = k.state
BY DEF Conn

LEMMA SetLine ==
  ASSUME NEW k \in Conn, NEW v \in BOOLEAN
  PROVE  LET r == [k EXCEPT !.line = v]
         IN  /\ r \in Conn /\ r.tcp = k.tcp /\ r.stopped = k.stopped
             /\ r.out = k.out /\ r.state = k.state
BY DEF Conn

LEMMA BlankFact == Blank \in Conn /\ Blank.stopped = FALSE
BY DEF Blank, Conn

LEMMA FieldFact ==
  ASSUME NEW k \in Conn
  PROVE  /\ k.tcp \in TcpStates /\ k.stopped \in BOOLEAN /\ k.out \in 0 .. Mss /\ k.mss \in 1 .. Mss
         /\ k.state \in Requested /\ k.res \in Results /\ k.left \in 0 .. MaxLen /\ k.line \in BOOLEAN
BY DEF Conn, TcpStates, Requested, Results

LEMMA ToFact ==
  ASSUME NEW k \in Conn, NEW tcp \in TcpStates, NEW out \in 0 .. Mss
  PROVE  LET r == To(k, tcp, out)
         IN  /\ r \in Conn /\ r.tcp = tcp /\ r.out = out /\ r.state = k.state /\ r.stopped = FALSE
<1> DEFINE a == [Blank EXCEPT !.tcp = tcp]
           b == [a EXCEPT !.out = out]
           c == [b EXCEPT !.state = k.state]
           d == [c EXCEPT !.res = k.res]
           e == [d EXCEPT !.left = k.left]
           f == [e EXCEPT !.line = k.line]
<1>1. To(k, tcp, out) = f
  BY DEF To
<1>2. a \in Conn /\ a.tcp = tcp /\ a.stopped = FALSE
  BY BlankFact, SetTcp
<1> HIDE DEF a
<1>3. b \in Conn /\ b.tcp = tcp /\ b.stopped = FALSE /\ b.out = out
  BY <1>2, SetOut
<1> HIDE DEF b
<1>4. c \in Conn /\ c.tcp = tcp /\ c.stopped = FALSE /\ c.out = out /\ c.state = k.state
  BY <1>3, SetState, FieldFact
<1> HIDE DEF c
<1>5. d \in Conn /\ d.tcp = tcp /\ d.stopped = FALSE /\ d.out = out /\ d.state = k.state
  BY <1>4, SetRes, FieldFact
<1> HIDE DEF d
<1>6. e \in Conn /\ e.tcp = tcp /\ e.stopped = FALSE /\ e.out = out /\ e.state = k.state
  BY <1>5, SetLeft, FieldFact
<1> HIDE DEF e
<1>7. f \in Conn /\ f.tcp = tcp /\ f.stopped = FALSE /\ f.out = out /\ f.state = k.state
  BY <1>6, SetLine, FieldFact
<1> QED BY <1>1, <1>7
-----------------------------------------------------------------------------
(***************************************************************************)
(* What the pieces of elua_uip_appcall make of a connection.               *)
(***************************************************************************)
LEMMA IdleFact ==
  ASSUME NEW k \in Conn, NEW res \in Results
  PROVE  LET r == Idle(k, res)
         IN  /\ r \in Conn /\ r.tcp = k.tcp /\ r.stopped = k.stopped
             /\ r.out = k.out /\ r.state = "idle"
<1> DEFINE a == [k EXCEPT !.state = "idle"]
<1>1. a \in Conn /\ a.tcp = k.tcp /\ a.stopped = k.stopped /\ a.out = k.out /\ a.state = "idle"
  BY SetState DEF Requested
<1>2. Idle(k, res) = [a EXCEPT !.res = res]
  BY DEF Idle
<1> HIDE DEF a
<1> QED BY <1>1, <1>2, SetRes

LEMMA StopFact ==
  ASSUME NEW k \in Conn
  PROVE  LET r == Stop(k)
         IN  /\ r \in Conn /\ r.tcp = k.tcp /\ r.stopped = TRUE
             /\ r.out = k.out /\ r.state = k.state
<1>1. TRUE \in BOOLEAN
  OBVIOUS
<1> QED BY <1>1, SetStopped DEF Stop

LEMMA CloseFact ==
  ASSUME NEW k \in Conn
  PROVE  Close(k) \in Conn /\ Close(k).tcp = "finWait1" /\ Close(k).state = k.state
<1>1. "finWait1" \in TcpStates /\ 1 \in 0 .. Mss
  BY DEF TcpStates, Active
<1> QED BY <1>1, ToFact DEF Close

LEMMA SentFact ==
  ASSUME NEW k \in Conn, NEW events
  PROVE  LET r == Sent(k, events)
         IN  /\ r \in Conn /\ r.tcp = k.tcp /\ r.stopped = k.stopped
             /\ (r.state = "idle" /\ r.out = k.out) \/ r.state = k.state
<1> DEFINE left == IF "acked" \in events THEN k.left - Smaller(k.left, k.mss) ELSE k.left
           a == [k EXCEPT !.left = left]
           z == [k EXCEPT !.left = 0]
<1>1. left \in 0 .. MaxLen
  <2>1. k.left \in 0 .. MaxLen /\ k.mss \in 1 .. Mss
    BY FieldFact
  <2> QED BY <2>1, SmallerFact
<1>2. k.mss \in 1 .. Mss
  BY FieldFact
<1> HIDE DEF left
<1>3. Sent(k, events) = IF left = 0 THEN [z EXCEPT !.state = "idle"] ELSE Send(a)
  BY DEF Sent, left
<1>4. a \in Conn /\ a.tcp = k.tcp /\ a.stopped = k.stopped /\ a.out = k.out /\ a.state = k.state
  BY <1>1, SetLeft
<1>5. z \in Conn /\ z.tcp = k.tcp /\ z.stopped = k.stopped /\ z.out = k.out /\ z.state = k.state
  BY SetLeft
<1>6. a.left \in 0 .. MaxLen /\ a.mss \in 1 .. Mss
  BY <1>4, FieldFact
<1> HIDE DEF a, z
<1>7. CASE left = 0
  <2> DEFINE q == [z EXCEPT !.state = "idle"]
  <2>1. q \in Conn /\ q.tcp = z.tcp /\ q.stopped = z.stopped /\ q.out = z.out /\ q.state = "idle"
    BY <1>5, SetState DEF Requested
  <2>2. Sent(k, events) = q
    BY <1>3, <1>7
  <2> HIDE DEF q
  <2> QED BY <1>5, <2>1, <2>2
<1>8. CASE left # 0
  <2>1. Smaller(a.left, a.mss) \in 0 .. Mss
    BY <1>6, SmallerFact
  <2> DEFINE q == [a EXCEPT !.out = Smaller(a.left, a.mss)]
  <2>2. Sent(k, events) \in {a, q}
    BY <1>3, <1>8 DEF Send
  <2>3. q \in Conn /\ q.tcp = a.tcp /\ q.stopped = a.stopped /\ q.state = a.state
    BY <1>4, <2>1, SetOut
  <2> HIDE DEF q
  <2> QED BY <1>4, <2>2, <2>3
<1> QED BY <1>7, <1>8

LEMMA ReceivedFact ==
  ASSUME NEW k \in Conn, NEW n \in 0 .. Mss, NEW eol \in Nat
  PROVE  LET r == Received(k, n, eol)
         IN  /\ r \in Conn /\ r.tcp = k.tcp /\ r.out = k.out
             /\ \/ r.state = "idle" /\ r.stopped = TRUE
                \/ r.state = k.state /\ r.stopped = k.stopped
<1> DEFINE fits == Smaller(n, k.left)
           ends == k.line /\ eol \in 1 .. fits
           left == k.left - (IF ends THEN eol - 1 ELSE fits)
           a == [k EXCEPT !.left = left]
           res == IF k.left < n THEN "overflow" ELSE a.res
<1>1. k.left \in 0 .. MaxLen
  BY FieldFact
<1>2. fits \in 0 .. k.left
  BY <1>1, SmallerFact
<1>3. left \in 0 .. MaxLen
  BY <1>1, <1>2
<1>4. Received(k, n, eol) = IF left = 0 \/ ends \/ n < Mss THEN Stop(Idle(a, "ok"))
                            ELSE [a EXCEPT !.res = res]
  BY DEF Received
<1> HIDE DEF fits, ends, left
<1>5. a \in Conn /\ a.tcp = k.tcp /\ a.stopped = k.stopped /\ a.out = k.out /\ a.state = k.state
  BY <1>3, SetLeft
<1>6. res \in Results
  BY <1>5, FieldFact DEF Results
<1> HIDE DEF a, res
<1>7. CASE left = 0 \/ ends \/ n < Mss
  <2>1. Received(k, n, eol) = Stop(Idle(a, "ok"))
    BY <1>4, <1>7
  <2>2. "ok" \in Results
    BY DEF Results
  <2> DEFINE b == Idle(a, "ok")
  <2>3. b \in Conn /\ b.tcp = a.tcp /\ b.out = a.out /\ b.state = "idle"
    BY <1>5, <2>2, IdleFact
  <2> HIDE DEF b
  <2>4. Received(k, n, eol) = Stop(b)
    BY <2>1 DEF b
  <2> QED BY <1>5, <2>3, <2>4, StopFact
<1>8. CASE ~(left = 0 \/ ends \/ n < Mss)
  BY <1>4, <1>5, <1>6, <1>8, SetRes
<1> QED BY <1>7, <1>8

\* The events on which a send goes on.
Finishing(events) == events \intersect {"acked", "poll"} # {}

\* A callback ends the request of a connection, carries it on, or has it wait
\* for data; it closes a connection but never opens one; and without an error it
\* leaves the connection open to data only for a request to receive.
Handled(k, events, r) ==
  /\ r \in Conn
  /\ r.state \in {"idle", k.state} \/ (k.state = "recv" /\ r.state = "recv2")
  /\ r.tcp \in {k.tcp, "finWait1"}
  /\ r.tcp = "established" /\ events \intersect Errors = {} =>
       /\ r.out > 0 => r.state = "send" \/ (k.out > 0 /\ (k.state # "send" \/ Finishing(events)))
       /\ r.stopped = FALSE => r.state = "recv2" \/ (k.stopped = FALSE /\ k.state # "recv2")

LEMMA AppCallFact ==
  ASSUME NEW k \in Conn, NEW events, events \subseteq Events,
         NEW n \in 0 .. Mss, NEW eol \in Nat
  PROVE  Handled(k, events, AppCall(k, events, n, eol))
<1> DEFINE over == events \intersect Errors # {}
           r == AppCall(k, events, n, eol)
<1> SUFFICES Handled(k, events, r)
  OBVIOUS
<1>1. k.state \in Requested /\ k.out \in 0 .. Mss /\ k.stopped \in BOOLEAN
  BY FieldFact
<1>2. over => ErrorOf(events) \in Results
  BY DEF ErrorOf, Errors, Results
<1>3. CASE k.state = "idle"
  <2>1. r = k
    BY <1>3 DEF AppCall
  <2> HIDE DEF r
  <2> QED BY <1>1, <1>3, <2>1 DEF Handled
<1>4. CASE k.state = "recv"
  <2> DEFINE a == [k EXCEPT !.state = "recv2"]
  <2>1. r = [a EXCEPT !.stopped = FALSE]
    BY <1>4 DEF AppCall, Restart
  <2>2. a \in Conn /\ a.tcp = k.tcp /\ a.out = k.out /\ a.state = "recv2"
    BY SetState DEF Requested
  <2> HIDE DEF a
  <2>3. FALSE \in BOOLEAN
    OBVIOUS
  <2>4. r \in Conn /\ r.tcp = k.tcp /\ r.out = k.out /\ r.state = "recv2"
    BY <2>1, <2>2, <2>3, SetStopped
  <2> HIDE DEF r
  <2> QED BY <1>1, <1>4, <2>4 DEF Handled
<1>5. CASE k.state \notin {"idle", "recv"} /\ over
  <2> DEFINE q == Idle(k, ErrorOf(events))
  <2>1. r = q
    <3>1. events # {"newdata"}
      BY <1>5 DEF Errors
    <3> QED BY <1>5, <3>1, Zenon DEF AppCall
  <2>2. q \in Conn /\ q.tcp = k.tcp /\ q.state = "idle"
    BY <1>2, <1>5, IdleFact
  <2> HIDE DEF q, r
  <2> QED BY <1>5, <2>1, <2>2 DEF Handled
<1>6. CASE k.state = "send" /\ ~over /\ Finishing(events)
  <2>1. r = Sent(k, events)
    BY <1>6 DEF AppCall, Finishing
  <2>2. /\ r \in Conn /\ r.tcp = k.tcp /\ r.stopped = k.stopped
        /\ (r.state = "idle" /\ r.out = k.out) \/ r.state = k.state
    BY <2>1, SentFact
  <2> HIDE DEF r
  <2> QED BY <1>1, <1>6, <2>2 DEF Handled
<1>7. CASE k.state = "close" /\ ~over
  <2> DEFINE a == [k EXCEPT !.state = "idle"]
  <2>1. r = Close(a)
    BY <1>7 DEF AppCall
  <2>2. a \in Conn /\ a.state = "idle"
    BY SetState DEF Requested
  <2> HIDE DEF a
  <2>3. r \in Conn /\ r.tcp = "finWait1" /\ r.state = "idle"
    BY <2>1, <2>2, CloseFact
  <2> HIDE DEF r
  <2> QED BY <2>3 DEF Handled
<1>8. CASE k.state = "recv2" /\ ~over /\ "newdata" \in events
  <2> DEFINE q == Received(k, n, eol)
  <2>1. r = q
    BY <1>8 DEF AppCall
  <2>2. /\ q \in Conn /\ q.tcp = k.tcp /\ q.out = k.out
        /\ \/ q.state = "idle" /\ q.stopped = TRUE
           \/ q.state = k.state /\ q.stopped = k.stopped
    BY ReceivedFact
  <2> HIDE DEF q, r
  <2> QED BY <1>1, <1>8, <2>1, <2>2 DEF Handled
<1>9. CASE k.state \in {"send", "connect"} /\ ~over /\ ~(k.state = "send" /\ Finishing(events))
  <2>1. r = Stop(k) \/ r = k
    BY <1>9 DEF AppCall, Finishing
  <2>2. /\ r \in Conn /\ r.tcp = k.tcp /\ r.out = k.out /\ r.state = k.state
        /\ r.stopped = TRUE \/ r.stopped = k.stopped
    BY <2>1, StopFact
  <2> HIDE DEF r
  <2> QED BY <1>1, <1>9, <2>2 DEF Handled
<1>10. CASE k.state = "recv2" /\ ~over /\ "newdata" \notin events
  <2>1. r = k
    BY <1>10 DEF AppCall
  <2> HIDE DEF r
  <2> QED BY <1>1, <1>10, <2>1 DEF Handled
<1> QED BY <1>1, <1>3, <1>4, <1>5, <1>6, <1>7, <1>8, <1>9, <1>10 DEF Requested

-----------------------------------------------------------------------------
(***************************************************************************)
(* The inductive invariant.                                                *)
(***************************************************************************)
\* A connection has a request only from the call in progress.
Requests ==
  \A c \in Conns : conn[c].state # "idle" =>
    /\ call.at \in {"force", "dial", "wait"} /\ call.sock = c
    /\ conn[c].state = call.op \/ (conn[c].state = "recv2" /\ call.op = "recv")

\* Where a call of each kind may be.
Places ==
  /\ call.at \in {"prep", "wait"} => call.op \in Ops
  /\ call.at = "force" => call.op \in {"send", "close"}
  /\ call.at = "dial" => call.op = "connect"

\* Data is in flight only for a request to send.
InFlight ==
  \A c \in Conns : conn[c].tcp = "established" /\ conn[c].out > 0 => conn[c].state = "send"

Flow ==
  \A c \in Conns : conn[c].tcp = "established" /\ conn[c].stopped = FALSE =>
    conn[c].state = "recv2" \/ c \in abandoned

CallType ==
  [at : {"none", "prep", "force", "dial", "wait", "look", "free", "take"},
   op : {"none", "send", "recv", "close", "connect", "accept"}, sock : Conns,
   len : 0 .. MaxLen, line : BOOLEAN, slot : Slots, port : Ports \union {Nobody},
   late : BOOLEAN]

SlotType == [pending : BOOLEAN, sock : Conns, port : Ports \union {Nobody}]

\* What TypeOK says of everything but the connections.
Others ==
  /\ slot \in [Slots -> SlotType]
  /\ listening \subseteq Ports /\ connecting \in Conns \union {NoConn}
  /\ busy \in BOOLEAN /\ acked \in 0 .. MaxLen /\ moved \in BOOLEAN
  /\ call \in CallType

Connections == conn \in [Conns -> Conn] /\ abandoned \subseteq Conns

IInv == Connections /\ Others /\ Requests /\ Places /\ InFlight /\ Flow

LEMMA TypeParts == TypeOK <=> Connections /\ Others
BY DEF TypeOK, Connections, Others, CallType, SlotType

LEMMA ZeroFact == 0 \in Conns /\ 0 \in Slots /\ Conns \subseteq Nat /\ Slots \subseteq Nat
BY DEF Conns, Slots

\* What the network and the callback may make of a connection.
Evolves(k, r) ==
  /\ r \in Conn
  /\ r.state \in {"idle", k.state} \/ (k.state = "recv" /\ r.state = "recv2")
  /\ r.tcp = "established" /\ r.out > 0 => r.state = "send"
  /\ r.tcp = "established" /\ r.stopped = FALSE =>
       r.state = "recv2" \/ (k.tcp = "established" /\ k.stopped = FALSE /\ k.state # "recv2")

LEMMA EvolveStep ==
  ASSUME IInv, Others', UNCHANGED call, abandoned' = {a \in abandoned : LetsIn(a)},
         conn' \in [Conns -> Conn],
         \A c \in Conns : conn'[c] = conn[c] \/ Evolves(conn[c], conn'[c])
  PROVE  IInv'
<1>1. Connections'
  BY DEF IInv, Connections
<1>2. Requests'
  <2> SUFFICES ASSUME NEW c \in Conns, conn'[c].state # "idle"
               PROVE  /\ call.at \in {"force", "dial", "wait"} /\ call.sock = c
                      /\ conn'[c].state = call.op \/ (conn'[c].state = "recv2" /\ call.op = "recv")
    BY DEF Requests
  <2>1. conn'[c].state = conn[c].state \/ (conn[c].state = "recv" /\ conn'[c].state = "recv2")
    BY DEF Evolves
  <2>2. conn[c].state # "idle"
    BY <2>1
  <2>3. /\ call.at \in {"force", "dial", "wait"} /\ call.sock = c
        /\ conn[c].state = call.op \/ (conn[c].state = "recv2" /\ call.op = "recv")
    BY <2>2 DEF IInv, Requests
  <2> QED BY <2>1, <2>3
<1>3. Places'
  BY DEF IInv, Places
<1>4. InFlight'
  BY DEF IInv, InFlight, Evolves
<1>5. Flow'
  <2> SUFFICES ASSUME NEW c \in Conns, conn'[c].tcp = "established", conn'[c].stopped = FALSE,
                      conn'[c].state # "recv2"
               PROVE  c \in abandoned'
    BY DEF Flow
  <2>1. conn[c].tcp = "established" /\ conn[c].stopped = FALSE /\ conn[c].state # "recv2"
    BY DEF Evolves
  <2>2. c \in abandoned
    BY <2>1 DEF IInv, Flow
  <2> QED BY <2>2 DEF LetsIn
<1> QED BY <1>1, <1>2, <1>3, <1>4, <1>5 DEF IInv

LEMMA BecomesStep ==
  ASSUME IInv, Others', UNCHANGED call, NEW c \in Conns, NEW k, Evolves(conn[c], k), Becomes(c, k)
  PROVE  IInv'
<1>1. k \in Conn
  BY DEF Evolves
<1>2. conn' \in [Conns -> Conn] /\ \A d \in Conns : conn'[d] = IF d = c THEN k ELSE conn[d]
  BY <1>1 DEF Becomes, IInv, Connections
<1>3. abandoned' = {a \in abandoned : LetsIn(a)}
  BY DEF Becomes
<1> QED BY <1>2, <1>3, EvolveStep

LEMMA OnlyStep ==
  ASSUME IInv, NEW c \in Conns, NEW k, Evolves(conn[c], k), Only(c, k)
  PROVE  IInv'
<1>1. Others'
  BY DEF Only, IInv, Others
<1>2. UNCHANGED call /\ Becomes(c, k)
  BY DEF Only
<1> QED BY <1>1, <1>2, BecomesStep

LEMMA ToldFact ==
  ASSUME NEW k \in Conn, NEW e \in Errors
  PROVE  LET r == Told(k, e)
         IN  /\ r \in Conn /\ r.tcp \in {k.tcp, "finWait1"}
             /\ r.state \in {"idle", k.state} \/ (k.state = "recv" /\ r.state = "recv2")
<1>1. {e} \subseteq Events /\ 0 \in 0 .. Mss
  BY DEF Events
<1>2. Handled(k, {e}, AppCall(k, {e}, 0, 0))
  BY <1>1, AppCallFact
<1> QED BY <1>2 DEF Told, Handled

\* A connection that is no longer, or not yet, established.
LEMMA AwayFact ==
  ASSUME NEW k \in Conn, NEW tcp \in TcpStates \ {"established"}, NEW out \in 0 .. Mss, NEW e \in Errors
  PROVE  Evolves(k, To(k, tcp, out)) /\ Evolves(k, Told(To(k, tcp, out), e))
<1> DEFINE r == To(k, tcp, out)
           q == Told(r, e)
<1>1. r \in Conn /\ r.tcp = tcp /\ r.state = k.state
  BY ToFact
<1> HIDE DEF r
<1>2. q \in Conn /\ q.tcp \in {tcp, "finWait1"} /\
      (q.state \in {"idle", k.state} \/ (k.state = "recv" /\ q.state = "recv2"))
  BY <1>1, ToldFact
<1> HIDE DEF q
<1>3. Evolves(k, r)
  BY <1>1 DEF Evolves
<1>4. Evolves(k, q)
  BY <1>2 DEF Evolves
<1> QED BY <1>3, <1>4 DEF q, r

-----------------------------------------------------------------------------
(***************************************************************************)
(* The main loop of uIP.                                                   *)
(***************************************************************************)
LEMMA SynStep == ASSUME IInv, NEW p \in Ports, Syn(p) PROVE IInv'
<1> DEFINE free == {c \in Conns : conn[c].tcp = "closed"}
           wait == {c \in Conns : conn[c].tcp = "timeWait"}
<1>1. free # {} => Min(free) \in Conns
  BY MinFact, ZeroFact
<1>2. PICK c \in IF free # {} THEN {Min(free)} ELSE wait :
        Only(c, [To(conn[c], "synRcvd", 1) EXCEPT !.port = p])
  BY DEF Syn
<1> DEFINE a == To(conn[c], "synRcvd", 1)
           r == [a EXCEPT !.port = p]
<1>3. c \in Conns /\ conn[c] \in Conn
  BY <1>1 DEF IInv, Connections
<1> HIDE DEF free, wait
<1>4. a \in Conn /\ a.tcp = "synRcvd" /\ a.state = conn[c].state
  <2>1. "synRcvd" \in TcpStates /\ 1 \in 0 .. Mss
    BY DEF TcpStates, Active
  <2> QED BY <1>3, <2>1, ToFact
<1>5. Only(c, r)
  BY <1>2
<1> HIDE DEF a
<1>6. r \in Conn /\ r.tcp = "synRcvd" /\ r.state = conn[c].state
  BY <1>4, SetPort
<1> HIDE DEF r
<1>7. Evolves(conn[c], r)
  BY <1>6 DEF Evolves
<1> QED BY <1>3, <1>5, <1>7, OnlyStep

LEMMA ConnectedStep == ASSUME IInv, NEW c \in Conns, Connected(c) PROVE IInv'
<1> DEFINE a == [conn[c] EXCEPT !.tcp = "established"]
           k == [a EXCEPT !.out = 0]
           i == [k EXCEPT !.state = "idle"]
           entry == [pending |-> TRUE, sock |-> c, port |-> k.port]
           awaited == k.state = "connect" /\ connecting = c
<1>1. conn[c] \in Conn
  BY DEF IInv, Connections
<1>2. a \in Conn /\ a.tcp = "established" /\ a.state = conn[c].state
  BY <1>1, SetTcp DEF TcpStates, Active
<1>3. \/ awaited /\ Becomes(c, Stop(i)) /\ UNCHANGED slot
      \/ /\ ~awaited /\ FreeSlots # {}
         /\ slot' = [slot EXCEPT ![Min(FreeSlots)] = entry]
         /\ Becomes(c, Stop(k))
      \/ ~awaited /\ FreeSlots = {} /\ Becomes(c, Close(k)) /\ UNCHANGED slot
  BY DEF Connected
<1> HIDE DEF a
<1>4. k \in Conn /\ k.tcp = "established" /\ k.out = 0 /\ k.state = conn[c].state
  BY <1>2, SetOut
<1>5. k.port \in Ports \union {Nobody}
  BY <1>4 DEF Conn
<1> HIDE DEF k
<1>6. i \in Conn /\ i.tcp = "established" /\ i.out = 0 /\ i.state = "idle"
  BY <1>4, SetState DEF Requested
<1> HIDE DEF i
<1>7. UNCHANGED <<listening, connecting, busy, call, acked, moved>>
  BY DEF Connected
<1>8. slot' \in [Slots -> SlotType]
  <2>1. slot \in [Slots -> SlotType]
    BY DEF IInv, Others
  <2>2. entry \in SlotType
    BY <1>5 DEF SlotType
  <2>3. FreeSlots # {} => Min(FreeSlots) \in Slots
    BY MinFact, ZeroFact DEF FreeSlots
  <2> HIDE DEF entry, awaited
  <2> QED BY <1>3, <2>1, <2>2, <2>3
<1>9. Others'
  BY <1>7, <1>8 DEF IInv, Others
<1>10. Evolves(conn[c], Stop(i)) /\ Evolves(conn[c], Stop(k)) /\ Evolves(conn[c], Close(k))
  <2> DEFINE q1 == Stop(i)
             q2 == Stop(k)
             q3 == Close(k)
  <2>1. q1 \in Conn /\ q1.stopped = TRUE /\ q1.out = 0 /\ q1.state = "idle"
    BY <1>6, StopFact
  <2>2. q2 \in Conn /\ q2.stopped = TRUE /\ q2.out = 0 /\ q2.state = conn[c].state
    BY <1>4, StopFact
  <2>3. q3 \in Conn /\ q3.tcp = "finWait1" /\ q3.state = conn[c].state
    BY <1>4, CloseFact
  <2> HIDE DEF q1, q2, q3
  <2>4. Evolves(conn[c], q1)
    BY <2>1 DEF Evolves
  <2>5. Evolves(conn[c], q2)
    BY <2>2 DEF Evolves
  <2>6. Evolves(conn[c], q3)
    BY <2>3 DEF Evolves
  <2> QED BY <2>4, <2>5, <2>6 DEF q1, q2, q3
<1>11. Becomes(c, Stop(i)) \/ Becomes(c, Stop(k)) \/ Becomes(c, Close(k))
  BY <1>3
<1> QED BY <1>7, <1>9, <1>10, <1>11, BecomesStep

LEMMA SegmentStep ==
  ASSUME IInv, NEW c \in Conns, NEW n \in 0 .. Mss, NEW acks \in BOOLEAN, NEW w \in 1 .. Mss,
         NEW eol \in 0 .. n, Segment(c, n, acks, w, eol)
  PROVE  IInv'
<1> DEFINE data == IF conn[c].stopped THEN 0 ELSE n
           events == (IF data > 0 THEN {"newdata"} ELSE {}) \union (IF acks THEN {"acked"} ELSE {})
           a == [conn[c] EXCEPT !.mss = w]
           out == IF acks THEN 0 ELSE a.out
           k == [a EXCEPT !.out = out]
           r == IF events = {} THEN k ELSE AppCall(k, events, data, eol)
<1>1. conn[c] \in Conn /\ conn[c].tcp = "established" /\ conn[c].out \in 0 .. Mss
  BY FieldFact DEF IInv, Connections, Segment
<1>2. a \in Conn /\ a.tcp = "established" /\ a.stopped = conn[c].stopped
        /\ a.out = conn[c].out /\ a.state = conn[c].state
  BY <1>1, SetMss
<1>3. Becomes(c, r)
  BY DEF Segment
<1>4. data \in 0 .. Mss /\ eol \in Nat /\ events \subseteq Events /\ events \intersect Errors = {}
      /\ (Finishing(events) => acks)
  BY DEF Events, Errors, Finishing
<1> HIDE DEF a, data, events
<1>5. out \in 0 .. Mss /\ (out > 0 => ~acks /\ conn[c].out > 0)
  BY <1>1, <1>2
<1> HIDE DEF out
<1>6. k \in Conn /\ k.tcp = "established" /\ k.stopped = conn[c].stopped
        /\ k.out = out /\ k.state = conn[c].state
  BY <1>2, <1>5, SetOut
<1> HIDE DEF k
<1>7. k.out > 0 => k.state = "send" /\ ~Finishing(events)
  BY <1>1, <1>4, <1>5, <1>6 DEF IInv, InFlight
<1>8. Evolves(conn[c], r)
  <2>1. CASE events = {}
    <3>1. r = k
      BY <2>1
    <3> HIDE DEF r
    <3> QED BY <1>1, <1>6, <1>7, <3>1 DEF Evolves
  <2>2. CASE events # {}
    <3>1. r = AppCall(k, events, data, eol)
      BY <2>2
    <3> HIDE DEF r
    <3>2. Handled(k, events, r)
      BY <1>4, <1>6, <3>1, AppCallFact
    <3> QED BY <1>1, <1>4, <1>6, <1>7, <3>2 DEF Evolves, Handled
  <2> QED BY <2>1, <2>2
<1> HIDE DEF r
<1>9. UNCHANGED <<slot, listening, connecting, busy, call>>
  BY DEF Segment
<1>10. acked' \in 0 .. MaxLen /\ moved' \in BOOLEAN
  <2>1. acked \in 0 .. MaxLen /\ moved \in BOOLEAN
    BY DEF IInv, Others
  <2>2. acked' = IF acks THEN Smaller(acked + conn[c].out, MaxLen) ELSE acked
    BY DEF Segment
  <2>3. Smaller(acked + conn[c].out, MaxLen) \in 0 .. MaxLen
    <3>1. acked + conn[c].out \in Nat /\ MaxLen \in Nat
      BY <1>1, <2>1
    <3> QED BY <3>1, SmallerFact
  <2>4. moved' = (moved \/ (conn[c].out > 0 /\ w # conn[c].mss))
    BY DEF Segment
  <2>5. moved' \in BOOLEAN
    BY <2>4
  <2> QED BY <2>1, <2>2, <2>3, <2>5
<1>11. Others'
  BY <1>9, <1>10 DEF IInv, Others
<1> QED BY <1>3, <1>8, <1>9, <1>11, BecomesStep

LEMMA FinStep == ASSUME IInv, NEW c \in Conns, NEW acks \in BOOLEAN, Fin(c, acks) PROVE IInv'
<1> DEFINE events == {"closed"} \union (IF acks THEN {"acked"} ELSE {})
           k == AppCall(conn[c], events, 0, 0)
           r == To(k, "lastAck", 1)
<1>1. conn[c] \in Conn
  BY DEF IInv, Connections
<1>2. events \subseteq Events /\ 0 \in 0 .. Mss /\ 1 \in 0 .. Mss /\ "lastAck" \in TcpStates
  BY DEF Events, Errors, TcpStates, Active
<1>3. Only(c, r)
  BY DEF Fin
<1> HIDE DEF events
<1>4. Handled(conn[c], events, k)
  BY <1>1, <1>2, AppCallFact
<1> HIDE DEF k
<1>5. r \in Conn /\ r.tcp = "lastAck" /\ r.state = k.state
  BY <1>2, <1>4, ToFact DEF Handled
<1> HIDE DEF r
<1>6. Evolves(conn[c], r)
  BY <1>4, <1>5 DEF Evolves, Handled
<1> QED BY <1>3, <1>6, OnlyStep

\* The states after closing, and the errors told in them.
LEMMA AwayStep ==
  ASSUME IInv, NEW c \in Conns, NEW tcp \in TcpStates \ {"established"}, NEW out \in 0 .. Mss,
         NEW e \in Errors, Only(c, To(conn[c], tcp, out)) \/ Only(c, Told(To(conn[c], tcp, out), e))
  PROVE  IInv'
<1>1. conn[c] \in Conn
  BY DEF IInv, Connections
<1> QED BY <1>1, AwayFact, OnlyStep

LEMMA ClosingStep ==
  ASSUME IInv, NEW c \in Conns, NEW fin \in BOOLEAN, NEW acks \in BOOLEAN, Closing(c, fin, acks)
  PROVE  IInv'
<1>1. {"closed", "timeWait", "closing", "finWait2"} \subseteq TcpStates \ {"established"}
      /\ {0, 1} \subseteq 0 .. Mss /\ "closed" \in Errors
  BY DEF TcpStates, Active, Errors
<1>2. \/ Only(c, Told(To(conn[c], "closed", 0), "closed"))
      \/ Only(c, Told(To(conn[c], "timeWait", 0), "closed"))
      \/ Only(c, Told(To(conn[c], "closing", 1), "closed"))
      \/ Only(c, To(conn[c], "finWait2", 0))
      \/ Only(c, To(conn[c], "timeWait", 0))
  BY DEF Closing, Closed
<1> QED BY <1>1, <1>2, AwayStep

LEMMA ResetStep == ASSUME IInv, NEW c \in Conns, Reset(c) PROVE IInv'
<1>1. "closed" \in TcpStates \ {"established"} /\ 0 \in 0 .. Mss /\ "aborted" \in Errors
  BY DEF TcpStates, Active, Errors
<1>2. Only(c, Told(To(conn[c], "closed", 0), "aborted"))
  BY DEF Reset, Closed
<1> QED BY <1>1, <1>2, AwayStep

LEMMA PollStep == ASSUME IInv, NEW gone \in SUBSET Conns, Poll(gone) PROVE IInv'
<1> DEFINE After(c) ==
      CASE c \in gone /\ conn[c].tcp \in Waiting -> Closed(conn[c])
        [] c \in gone /\ conn[c].tcp \notin Waiting -> Told(Closed(conn[c]), "timedout")
        [] c \notin gone /\ conn[c].tcp = "established" /\ conn[c].out = 0 -> Told(conn[c], "poll")
        [] OTHER -> conn[c]
<1>1. conn' = [c \in Conns |-> After(c)] /\ abandoned' = {a \in abandoned : LetsIn(a)}
      /\ UNCHANGED <<slot, listening, connecting, call, acked, moved>> /\ busy' = FALSE
  BY DEF Poll
<1>2. Others'
  BY <1>1 DEF IInv, Others
<1>3. ASSUME NEW c \in Conns PROVE After(c) = conn[c] \/ Evolves(conn[c], After(c))
  <2>1. conn[c] \in Conn
    BY DEF IInv, Connections
  <2>2. "closed" \in TcpStates \ {"established"} /\ 0 \in 0 .. Mss /\ "timedout" \in Errors
    BY DEF TcpStates, Active, Errors
  <2>3. Evolves(conn[c], Closed(conn[c])) /\ Evolves(conn[c], Told(Closed(conn[c]), "timedout"))
    BY <2>1, <2>2, AwayFact DEF Closed
  <2>4. ASSUME conn[c].tcp = "established", conn[c].out = 0
        PROVE  Evolves(conn[c], Told(conn[c], "poll"))
    <3> DEFINE r == Told(conn[c], "poll")
    <3> SUFFICES Evolves(conn[c], r)
      OBVIOUS
    <3>1. {"poll"} \subseteq Events /\ 0 \in 0 .. Mss /\ {"poll"} \intersect Errors = {}
      BY DEF Events, Errors
    <3>2. Handled(conn[c], {"poll"}, r)
      BY <2>1, <3>1, AppCallFact DEF Told
    <3> HIDE DEF r
    <3>3. /\ r \in Conn
          /\ r.state \in {"idle", conn[c].state} \/ (conn[c].state = "recv" /\ r.state = "recv2")
          /\ r.tcp = "established" /\ r.out > 0 => r.state = "send"
      BY <2>4, <3>1, <3>2 DEF Handled
    <3>4. r.tcp = "established" /\ r.stopped = FALSE =>
            r.state = "recv2"
            \/ (conn[c].tcp = "established" /\ conn[c].stopped = FALSE /\ conn[c].state # "recv2")
      BY <2>4, <3>1, <3>2 DEF Handled
    <3> QED BY <3>3, <3>4 DEF Evolves
  <2>5. After(c) \in {conn[c], Closed(conn[c]), Told(Closed(conn[c]), "timedout")}
        \/ (After(c) = Told(conn[c], "poll") /\ conn[c].tcp = "established" /\ conn[c].out = 0)
    <3>1. CASE c \in gone /\ conn[c].tcp \in Waiting
      BY <3>1, Zenon
    <3>2. CASE c \in gone /\ conn[c].tcp \notin Waiting
      BY <3>2, Zenon
    <3>3. CASE c \notin gone /\ conn[c].tcp = "established" /\ conn[c].out = 0
      BY <3>3, Zenon
    <3>4. CASE c \notin gone /\ ~(conn[c].tcp = "established" /\ conn[c].out = 0)
      BY <3>4, Zenon
    <3> QED BY <3>1, <3>2, <3>3, <3>4
  <2> HIDE DEF After
  <2> QED BY <2>3, <2>4, <2>5
<1> HIDE DEF After
<1>4. \A c \in Conns : conn[c] \in Conn
  BY DEF IInv, Connections
<1>5. \A c \in Conns : conn'[c] = After(c)
  BY <1>1
<1>6. \A c \in Conns : After(c) \in Conn
  BY <1>3, <1>4 DEF Evolves
<1>7. conn' \in [Conns -> Conn]
  BY <1>1, <1>6
<1>8. \A c \in Conns : conn'[c] = conn[c] \/ Evolves(conn[c], conn'[c])
  BY <1>3, <1>5
<1> QED BY <1>1, <1>2, <1>7, <1>8, EvolveStep

LEMMA NetworkStep == ASSUME IInv, Network PROVE IInv'
<1>1. CASE Start
  <2>1. Connections' /\ Others' /\ Requests' /\ Places' /\ InFlight' /\ Flow'
    BY <1>1 DEF Start, history, IInv, Connections, Others, Requests, Places, InFlight, Flow
  <2> QED BY <2>1 DEF IInv
<1>2. CASE \E p \in Ports : Syn(p)
  BY <1>2, SynStep
<1>3. CASE \E c \in Conns : Connected(c) \/ Reset(c)
  BY <1>3, ConnectedStep, ResetStep
<1>4. CASE \E c \in Conns : \E n \in 0 .. Mss, acks \in BOOLEAN, w \in 1 .. Mss : \E eol \in 0 .. n :
             Segment(c, n, acks, w, eol)
  BY <1>4, SegmentStep
<1>5. CASE \E c \in Conns : \E acks \in BOOLEAN : Fin(c, acks)
  BY <1>5, FinStep
<1>6. CASE \E c \in Conns : \E fin, acks \in BOOLEAN : Closing(c, fin, acks)
  BY <1>6, ClosingStep
<1>7. CASE \E gone \in SUBSET Conns : Poll(gone)
  BY <1>7, PollStep
<1> QED BY <1>1, <1>2, <1>3, <1>4, <1>5, <1>6, <1>7 DEF Network

-----------------------------------------------------------------------------
(***************************************************************************)
(* The main program.                                                       *)
(***************************************************************************)
LEMMA SocketStep == ASSUME IInv, Socket PROVE IInv'
<1> DEFINE free == {c \in Conns : conn[c].tcp = "closed"}
           m == Min(free)
           a == To(conn[m], "reserved", 0)
           r == [a EXCEPT !.given = "yes"]
<1>1. m \in Conns
  BY MinFact, ZeroFact DEF Socket
<1>2. Becomes(m, r) /\ UNCHANGED <<slot, listening, connecting, busy, call, acked, moved>>
  BY DEF Socket
<1>3. Others'
  BY <1>2 DEF IInv, Others
<1> HIDE DEF m
<1>4. conn[m] \in Conn
  BY <1>1 DEF IInv, Connections
<1>5. a \in Conn /\ a.tcp = "reserved" /\ a.state = conn[m].state
  <2>1. "reserved" \in TcpStates /\ 0 \in 0 .. Mss
    BY DEF TcpStates
  <2> QED BY <1>4, <2>1, ToFact
<1> HIDE DEF a
<1>6. r \in Conn /\ r.tcp = "reserved" /\ r.state = conn[m].state
  BY <1>5, SetGiven
<1> HIDE DEF r
<1>7. Evolves(conn[m], r)
  BY <1>6 DEF Evolves
<1> QED BY <1>1, <1>2, <1>3, <1>7, BecomesStep

\* Steps of a call that leave the connections alone.
LEMMA CallStep ==
  ASSUME IInv, UNCHANGED <<conn, abandoned>>, Others', Requests', Places'
  PROVE  IInv'
BY DEF IInv, Connections, InFlight, Flow

\* Between the calls, and while a call looks for a connection, none has a request.
LEMMA AllIdle ==
  ASSUME IInv, call.at \notin {"force", "dial", "wait"}
  PROVE  \A c \in Conns : conn[c].state = "idle"
BY DEF IInv, Requests

LEMMA ListenStep == ASSUME IInv, NEW p \in Ports, NEW on \in Listens, Listen(p, on) PROVE IInv'
<1>1. Others' /\ Requests' /\ Places' /\ UNCHANGED <<conn, abandoned>>
  BY DEF Listen, history, IInv, Others, Requests, Places
<1> QED BY <1>1, CallStep

LEMMA NoCallFact == NoCall \in CallType /\ NoCall.at = "none"
BY ZeroFact DEF NoCall, CallType

LEMMA BeginStep ==
  ASSUME IInv, NEW op \in Ops, NEW c \in Conns, NEW len \in 0 .. MaxLen, NEW line \in BOOLEAN,
         Begin(op, c, len, line)
  PROVE  IInv'
<1>1. call' = [at |-> "prep", op |-> op, sock |-> c, len |-> len, line |-> line,
               slot |-> 0, port |-> Nobody, late |-> FALSE]
  BY DEF Begin, NoCall
<1>2. UNCHANGED <<conn, slot, listening, connecting, busy, abandoned>> /\ acked' = 0 /\ moved' = FALSE
      /\ call.at = "none"
  BY DEF Begin, At
<1>3. call' \in CallType /\ call'.at = "prep" /\ call'.op = op
  BY <1>1, ZeroFact DEF CallType, Ops
<1>4. Others'
  <2>1. acked' \in 0 .. MaxLen
    BY <1>2
  <2>2. moved' \in BOOLEAN
    BY <1>2, Zenon
  <2> QED BY <1>2, <1>3, <2>1, <2>2 DEF IInv, Others
<1>5. Requests'
  BY <1>2, AllIdle DEF Requests
<1>6. Places'
  BY <1>3 DEF Places
<1> QED BY <1>2, <1>4, <1>5, <1>6, CallStep

LEMMA PrepStep == ASSUME IInv, Prep PROVE IInv'
<1> DEFINE s == call.sock
           next == CASE call.op \in {"send", "close"} -> "force"
                     [] call.op = "recv" -> "wait"
                     [] call.op = "connect" -> "dial"
           res == IF call.op = "recv" THEN "buffer" ELSE "ok"
           a == [conn[s] EXCEPT !.state = call.op]
           b == [a EXCEPT !.left = call.len]
           d == [b EXCEPT !.line = call.line]
           r == [d EXCEPT !.res = res]
           late == call.op # "connect" /\ Mine.tcp # "established"
           c1 == [call EXCEPT !.at = next]
           c2 == [c1 EXCEPT !.late = late]
<1>1. call.at = "prep" /\ call \in CallType /\ call.op \in Ops
  BY DEF Prep, At, IInv, Others, Places
<1>2. s \in Conns /\ call.len \in 0 .. MaxLen /\ call.line \in BOOLEAN /\ conn[s] \in Conn
  BY <1>1 DEF CallType, IInv, Connections
<1>3. Becomes(s, r) /\ call' = c2 /\ UNCHANGED <<slot, listening, connecting, busy, acked, moved>>
  BY DEF Prep, Mine
<1>4. next \in {"force", "wait", "dial"} /\ (next = "force" => call.op \in {"send", "close"})
      /\ (next = "dial" => call.op = "connect")
  BY <1>1 DEF Ops
<1> HIDE DEF next, late
<1>5. c1 \in CallType /\ c1.at = next /\ c1.op = call.op /\ c1.sock = s
  BY <1>1, <1>4 DEF CallType
<1>6. late \in BOOLEAN
  BY DEF late
<1> HIDE DEF c1
<1>7. c2 \in CallType /\ c2.at = next /\ c2.op = call.op /\ c2.sock = s
  BY <1>5, <1>6 DEF CallType
<1> HIDE DEF c2
<1>8. a \in Conn /\ a.tcp = conn[s].tcp /\ a.stopped = conn[s].stopped /\ a.out = conn[s].out
        /\ a.state = call.op
  <2>1. call.op \in Requested
    BY <1>1 DEF Ops, Requested
  <2> QED BY <1>2, <2>1, SetState
<1> HIDE DEF a
<1>9. b \in Conn /\ b.tcp = conn[s].tcp /\ b.stopped = conn[s].stopped /\ b.out = conn[s].out
        /\ b.state = call.op
  BY <1>2, <1>8, SetLeft
<1> HIDE DEF b
<1>10. d \in Conn /\ d.tcp = conn[s].tcp /\ d.stopped = conn[s].stopped /\ d.out = conn[s].out
        /\ d.state = call.op
  BY <1>2, <1>9, SetLine
<1>11. res \in Results
  BY DEF Results
<1> HIDE DEF d, res
<1>12. r \in Conn /\ r.tcp = conn[s].tcp /\ r.stopped = conn[s].stopped /\ r.out = conn[s].out
        /\ r.state = call.op
  BY <1>10, <1>11, SetRes
<1> HIDE DEF r
<1>13. \A c \in Conns : conn'[c] = IF c = s THEN r ELSE conn[c]
  BY <1>2, <1>3 DEF Becomes, IInv, Connections
<1>14. \A c \in Conns : conn[c].state = "idle"
  BY <1>1, AllIdle
<1>15. Connections'
  BY <1>3, <1>12 DEF Becomes, IInv, Connections
<1>16. Others'
  BY <1>3, <1>7 DEF IInv, Others
<1>17. Requests'
  BY <1>3, <1>4, <1>7, <1>12, <1>13, <1>14 DEF Requests
<1>18. Places'
  BY <1>1, <1>3, <1>4, <1>7 DEF Places
<1>19. InFlight'
  BY <1>2, <1>12, <1>13, <1>14 DEF IInv, InFlight
<1>20. Flow'
  <2>1. \A c \in Conns : conn'[c].tcp = conn[c].tcp /\ conn'[c].stopped = conn[c].stopped
    BY <1>12, <1>13
  <2>2. \A c \in Conns : conn[c].tcp = "established" /\ conn[c].stopped = FALSE => c \in abandoned
    BY <1>14 DEF IInv, Flow
  <2>3. abandoned' = {x \in abandoned : LetsIn(x)}
    BY <1>3 DEF Becomes
  <2> QED BY <2>1, <2>2, <2>3 DEF Flow, LetsIn
<1> QED BY <1>15, <1>16, <1>17, <1>18, <1>19, <1>20 DEF IInv

\* A step of a call that leaves the connections alone and goes to `where'.
LEMMA GoToFact ==
  ASSUME call \in CallType, GoTo("wait") \/ GoTo("take")
  PROVE  call' \in CallType /\ call'.op = call.op /\ call'.sock = call.sock
         /\ call'.at \in {"wait", "take"} /\ (GoTo("take") => call'.at = "take")
         /\ (GoTo("wait") => call'.at = "wait")
BY DEF GoTo, CallType

LEMMA ForceStep == ASSUME IInv, ForceInterrupt PROVE IInv'
<1>1. call \in CallType /\ call.at = "force" /\ GoTo("wait") /\ busy' = TRUE
      /\ UNCHANGED <<conn, slot, listening, connecting, abandoned, acked, moved>>
  BY DEF ForceInterrupt, At, history, IInv, Others
<1>2. call' \in CallType /\ call'.op = call.op /\ call'.sock = call.sock /\ call'.at = "wait"
  BY <1>1, GoToFact
<1>3. busy' \in BOOLEAN
  BY <1>1, Zenon
<1>4. Others'
  BY <1>1, <1>2, <1>3 DEF IInv, Others
<1>5. Requests'
  BY <1>1, <1>2 DEF IInv, Requests
<1>6. Places'
  BY <1>1, <1>2 DEF IInv, Places, Ops
<1> QED BY <1>1, <1>4, <1>5, <1>6, CallStep

LEMMA DialStep == ASSUME IInv, Dial PROVE IInv'
<1> DEFINE s == call.sock
           a == [conn[s] EXCEPT !.tcp = "synSent"]
           b == [a EXCEPT !.out = 1]
           r == [b EXCEPT !.mss = Mss]
<1>1. call \in CallType /\ call.at = "dial" /\ GoTo("wait") /\ Becomes(s, r) /\ connecting' = s
      /\ UNCHANGED <<slot, listening, busy, acked, moved>>
  BY DEF Dial, At, Mine, IInv, Others
<1>2. s \in Conns
  BY <1>1 DEF CallType
<1>3. call' \in CallType /\ call'.op = call.op /\ call'.sock = s /\ call'.at = "wait"
  BY <1>1, GoToFact
<1>4. conn[s] \in Conn /\ "synSent" \in TcpStates /\ 1 \in 0 .. Mss /\ Mss \in 1 .. Mss
  BY <1>2 DEF IInv, Connections, TcpStates, Active
<1>5. a \in Conn /\ a.tcp = "synSent" /\ a.state = conn[s].state
  BY <1>4, SetTcp
<1> HIDE DEF a
<1>6. b \in Conn /\ b.tcp = "synSent" /\ b.state = conn[s].state
  BY <1>4, <1>5, SetOut
<1> HIDE DEF b
<1>7. r \in Conn /\ r.tcp = "synSent" /\ r.state = conn[s].state
  BY <1>4, <1>6, SetMss
<1> HIDE DEF r
<1>8. \A c \in Conns : conn'[c] = IF c = s THEN r ELSE conn[c]
  BY <1>1, <1>2 DEF Becomes, IInv, Connections
<1>9. abandoned' = {x \in abandoned : LetsIn(x)}
  BY <1>1 DEF Becomes
<1>10. Connections'
  BY <1>1, <1>7, <1>9 DEF Becomes, IInv, Connections
<1>11. Others'
  BY <1>1, <1>2, <1>3 DEF IInv, Others
<1>12. Requests'
  <2>1. \A c \in Conns : conn'[c].state = conn[c].state
    BY <1>7, <1>8
  <2> QED BY <1>1, <1>3, <2>1 DEF IInv, Requests
<1>13. Places'
  <2>1. call.op \in Ops
    BY <1>1 DEF IInv, Places, Ops
  <2> QED BY <1>3, <2>1 DEF Places
<1>14. InFlight'
  BY <1>7, <1>8 DEF IInv, InFlight
<1>15. Flow'
  BY <1>7, <1>8, <1>9 DEF IInv, Flow, LetsIn
<1> QED BY <1>10, <1>11, <1>12, <1>13, <1>14, <1>15 DEF IInv

\* A call that ends, with what a returning call or a timeout makes of its
\* connection.
LEMMA EndStep ==
  ASSUME IInv, call.at = "wait", call' = NoCall, NEW r, conn' = [conn EXCEPT ![call.sock] = r],
         r \in Conn, r.state = "idle", r.tcp = Mine.tcp, r.out = Mine.out, r.stopped = Mine.stopped,
         Mine.state # "send", Others',
         NEW more \in SUBSET {call.sock}, Mine.state # "idle" => more = {call.sock},
         abandoned' = {x \in abandoned \union more : LetsIn(x)}
  PROVE  IInv'
<1> DEFINE s == call.sock
<1>1. s \in Conns
  BY DEF IInv, Others, CallType
<1>2. \A c \in Conns : conn'[c] = IF c = s THEN r ELSE conn[c]
  BY <1>1 DEF IInv, Connections
<1>3. Connections'
  BY <1>1 DEF IInv, Connections
<1>4. \A c \in Conns : c # s => conn[c].state = "idle"
  BY DEF IInv, Requests
<1>5. Requests'
  BY <1>2, <1>4 DEF Requests
<1>6. call'.at = "none"
  BY NoCallFact
<1>7. Places'
  BY <1>6 DEF Places
<1>8. \A c \in Conns : conn'[c].tcp = conn[c].tcp /\ conn'[c].out = conn[c].out
                       /\ conn'[c].stopped = conn[c].stopped
  BY <1>2 DEF Mine
<1>9. InFlight'
  <2>1. \A c \in Conns : conn[c].tcp = "established" /\ conn[c].out > 0 => c = s /\ conn[c].state = "send"
    BY <1>4 DEF IInv, InFlight
  <2>2. \A c \in Conns : ~(conn[c].tcp = "established" /\ conn[c].out > 0)
    BY <2>1 DEF Mine
  <2> QED BY <1>8, <2>2 DEF InFlight
<1>10. Flow'
  <2>1. \A c \in Conns : conn[c].tcp = "established" /\ conn[c].stopped = FALSE => c \in abandoned \union more
    BY <1>4 DEF IInv, Flow, Mine
  <2> QED BY <1>8, <2>1 DEF Flow, LetsIn
<1> QED BY <1>3, <1>5, <1>7, <1>9, <1>10 DEF IInv

\* What is left of the results once they were read.
LEMMA ReadFact ==
  ASSUME NEW k \in Conn
  PROVE  LET r == [k EXCEPT !.left = 0, !.line = FALSE, !.res = "ok"]
         IN  /\ r \in Conn /\ r.tcp = k.tcp /\ r.stopped = k.stopped
             /\ r.out = k.out /\ r.state = k.state
<1> DEFINE a == [k EXCEPT !.left = 0]
           b == [a EXCEPT !.line = FALSE]
           r == [b EXCEPT !.res = "ok"]
<1>1. 0 \in 0 .. MaxLen /\ "ok" \in Results
  BY DEF Results
<1>2. FALSE \in BOOLEAN
  OBVIOUS
<1>3. a \in Conn /\ a.tcp = k.tcp /\ a.stopped = k.stopped /\ a.out = k.out /\ a.state = k.state
  BY <1>1, SetLeft
<1> HIDE DEF a
<1>4. b \in Conn /\ b.tcp = k.tcp /\ b.stopped = k.stopped /\ b.out = k.out /\ b.state = k.state
  BY <1>2, <1>3, SetLine
<1> HIDE DEF b
<1>5. r \in Conn /\ r.tcp = k.tcp /\ r.stopped = k.stopped /\ r.out = k.out /\ r.state = k.state
  BY <1>1, <1>4, SetRes
<1>6. r = [k EXCEPT !.left = 0, !.line = FALSE, !.res = "ok"]
  BY DEF a, b
<1> HIDE DEF r
<1> QED BY <1>5, <1>6

LEMMA ReturnStep == ASSUME IInv, Return PROVE IInv'
<1> DEFINE r == [Mine EXCEPT !.left = 0, !.line = FALSE, !.res = "ok"]
<1>1. /\ call.at = "wait" /\ Mine.state = "idle" /\ call' = NoCall /\ acked' = 0 /\ moved' = FALSE
      /\ connecting' = NoConn /\ UNCHANGED <<slot, listening, busy>>
      /\ conn' = [conn EXCEPT ![call.sock] = r] /\ abandoned' = {x \in abandoned : LetsIn(x)}
  BY DEF Return, At, Becomes
<1>2. Mine \in Conn
  BY DEF IInv, Connections, Others, CallType, Mine
<1>3. r \in Conn /\ r.tcp = Mine.tcp /\ r.stopped = Mine.stopped /\ r.out = Mine.out /\ r.state = "idle"
  BY <1>1, <1>2, ReadFact
<1> HIDE DEF r
<1>4. Others'
  <2>1. moved' \in BOOLEAN
    BY <1>1, Zenon
  <2>2. acked' \in 0 .. MaxLen /\ call' \in CallType
    BY <1>1, NoCallFact
  <2> QED BY <1>1, <2>1, <2>2 DEF IInv, Others
<1>5. abandoned' = {x \in abandoned \union {} : LetsIn(x)}
  BY <1>1
<1> QED BY <1>1, <1>3, <1>4, <1>5, EndStep

LEMMA RecvTimeoutStep == ASSUME IInv, RecvTimeout PROVE IInv'
<1> DEFINE k == [Mine EXCEPT !.state = "idle"]
           r == [k EXCEPT !.left = 0, !.line = FALSE, !.res = "ok"]
<1>1. /\ call.at = "wait" /\ call.op = "recv" /\ Mine.state # "idle" /\ call' = NoCall
      /\ UNCHANGED <<slot, listening, connecting, busy, acked, moved>>
      /\ conn' = [conn EXCEPT ![call.sock] = r]
      /\ abandoned' = {x \in abandoned \union {call.sock} : LetsIn(x)}
  BY DEF RecvTimeout, At, Mine
<1>2. Mine \in Conn /\ call.sock \in Conns
  BY DEF IInv, Connections, Others, CallType, Mine
<1>3. Mine.state # "send"
  BY <1>1, <1>2 DEF IInv, Requests, Mine
<1>4. k \in Conn /\ k.tcp = Mine.tcp /\ k.stopped = Mine.stopped /\ k.out = Mine.out /\ k.state = "idle"
  BY <1>2, SetState DEF Requested
<1> HIDE DEF k
<1>5. r \in Conn /\ r.tcp = Mine.tcp /\ r.stopped = Mine.stopped /\ r.out = Mine.out /\ r.state = "idle"
  BY <1>4, ReadFact
<1> HIDE DEF r
<1>6. Others'
  BY <1>1, NoCallFact DEF IInv, Others
<1> QED BY <1>1, <1>3, <1>5, <1>6, EndStep

LEMMA AcceptStep == ASSUME IInv, NEW p \in Ports, Accept(p) PROVE IInv'
<1>1. call.at = "none" /\ UNCHANGED <<conn, slot, listening, connecting, busy, abandoned, acked, moved>>
  BY DEF Accept, At, history
<1>2. call' = [at |-> "look", op |-> "accept", sock |-> 0, len |-> 0, line |-> FALSE,
               slot |-> 0, port |-> p, late |-> FALSE]
  BY DEF Accept, NoCall
<1>3. call' \in CallType /\ call'.at = "look"
  BY <1>2, ZeroFact DEF CallType
<1>4. Others'
  BY <1>1, <1>3 DEF IInv, Others
<1>5. Requests'
  BY <1>1, AllIdle DEF Requests
<1>6. Places'
  BY <1>3 DEF Places
<1> QED BY <1>1, <1>4, <1>5, <1>6, CallStep

LEMMA AcceptLookStep == ASSUME IInv, AcceptLook PROVE IInv'
<1> DEFINE entry == slot[call.slot]
           found == [call EXCEPT !.at = "free"]
           f == [found EXCEPT !.sock = entry.sock]
           on == [call EXCEPT !.slot = call.slot + 1]
           again == [call EXCEPT !.slot = 0]
<1>1. call.at = "look" /\ UNCHANGED <<conn, slot, listening, connecting, busy, abandoned, acked, moved>>
      /\ (call' = f \/ (call' = on /\ call.slot + 1 \in Slots) \/ call' = NoCall \/ call' = again)
  BY DEF AcceptLook, At, history
<1>2. call \in CallType /\ call.slot \in Slots /\ entry.sock \in Conns
  BY DEF IInv, Others, CallType, SlotType
<1> HIDE DEF entry
<1>3. f \in CallType /\ f.at = "free"
  <2>1. found \in CallType /\ found.at = "free"
    BY <1>2 DEF CallType
  <2> HIDE DEF found
  <2> QED BY <1>2, <2>1 DEF CallType
<1>4. call.slot + 1 \in Slots => on \in CallType /\ on.at = "look"
  BY <1>1, <1>2 DEF CallType
<1>5. again \in CallType /\ again.at = "look"
  BY <1>1, <1>2, ZeroFact DEF CallType
<1> HIDE DEF f, on, again
<1>6. call' \in CallType /\ call'.at \in {"none", "look", "free"}
  BY <1>1, <1>3, <1>4, <1>5, NoCallFact
<1>7. Others'
  BY <1>1, <1>6 DEF IInv, Others
<1>8. Requests'
  BY <1>1, AllIdle DEF Requests
<1>9. Places'
  BY <1>6 DEF Places
<1> QED BY <1>1, <1>7, <1>8, <1>9, CallStep

LEMMA AcceptFreeStep == ASSUME IInv, AcceptFree PROVE IInv'
<1> DEFINE taken == [slot[call.slot] EXCEPT !.pending = FALSE]
<1>1. call.at = "free" /\ UNCHANGED <<conn, listening, connecting, busy, abandoned, acked, moved>>
      /\ GoTo("take") /\ slot' = [slot EXCEPT ![call.slot] = taken]
  BY DEF AcceptFree, At, history
<1>2. slot \in [Slots -> SlotType] /\ call \in CallType
  BY DEF IInv, Others
<1>3. call.slot \in Slots
  BY <1>2 DEF CallType
<1>4. taken \in SlotType
  BY <1>2, <1>3 DEF SlotType
<1> HIDE DEF taken
<1>5. slot' \in [Slots -> SlotType]
  BY <1>1, <1>2, <1>4
<1>6. call' \in CallType /\ call'.at = "take"
  BY <1>1, <1>2, GoToFact
<1>7. Others'
  BY <1>1, <1>5, <1>6 DEF IInv, Others
<1>8. Requests'
  BY <1>1, AllIdle DEF Requests
<1>9. Places'
  BY <1>6 DEF Places
<1> QED BY <1>1, <1>7, <1>8, <1>9, CallStep

LEMMA AcceptTakeStep == ASSUME IInv, AcceptTake PROVE IInv'
<1> DEFINE sock == slot[call.slot].sock
           Given(c) == CASE c = sock -> [conn[c] EXCEPT !.given = "yes"]
                         [] c # sock /\ c = call.sock -> [conn[c] EXCEPT !.given = "missed"]
                         [] OTHER -> conn[c]
           left == IF slot[call.slot].pending THEN slot[call.slot] ELSE Free
<1>1. call.at = "take" /\ conn' = [c \in Conns |-> Given(c)] /\ call' = NoCall
      /\ slot' = [slot EXCEPT ![call.slot] = left]
      /\ UNCHANGED <<listening, connecting, busy, abandoned, acked, moved>>
  BY DEF AcceptTake, At, history
<1>2. slot \in [Slots -> SlotType] /\ call.slot \in Slots
  BY DEF IInv, Others, CallType
<1>3. Free \in SlotType
  BY ZeroFact DEF Free, SlotType
<1>4. slot' \in [Slots -> SlotType]
  <2>1. left \in SlotType
    BY <1>2, <1>3
  <2> HIDE DEF left
  <2> QED BY <1>1, <1>2, <2>1
<1>5. Others'
  BY <1>1, <1>4, NoCallFact DEF IInv, Others
<1>6. ASSUME NEW c \in Conns
      PROVE  /\ Given(c) \in Conn /\ Given(c).tcp = conn[c].tcp /\ Given(c).stopped = conn[c].stopped
             /\ Given(c).out = conn[c].out /\ Given(c).state = conn[c].state
  <2>1. conn[c] \in Conn
    BY DEF IInv, Connections
  <2>2. Given(c) \in {conn[c], [conn[c] EXCEPT !.given = "yes"], [conn[c] EXCEPT !.given = "missed"]}
    <3> HIDE DEF sock
    <3>1. CASE c = sock
      BY <3>1, Zenon
    <3>2. CASE c # sock /\ c = call.sock
      BY <3>2, Zenon
    <3>3. CASE c # sock /\ c # call.sock
      BY <3>3, Zenon
    <3> QED BY <3>1, <3>2, <3>3
  <2> HIDE DEF Given
  <2> QED BY <2>1, <2>2, SetGiven
<1> HIDE DEF Given
<1>7. \A c \in Conns : conn'[c] = Given(c)
  BY <1>1
<1>8. Connections'
  BY <1>1, <1>6 DEF IInv, Connections
<1>9. \A c \in Conns : conn'[c].tcp = conn[c].tcp /\ conn'[c].stopped = conn[c].stopped
                       /\ conn'[c].out = conn[c].out /\ conn'[c].state = conn[c].state
  BY <1>6, <1>7
<1>10. Requests'
  BY <1>1, <1>9, AllIdle DEF Requests
<1>11. call'.at = "none"
  BY <1>1, NoCallFact
<1>12. Places'
  BY <1>11 DEF Places
<1>13. InFlight'
  BY <1>9 DEF IInv, InFlight
<1>14. Flow'
  BY <1>1, <1>9 DEF IInv, Flow
<1> QED BY <1>5, <1>8, <1>10, <1>12, <1>13, <1>14 DEF IInv

LEMMA ProgramStep == ASSUME IInv, Program PROVE IInv'
<1>1. CASE Step
  BY <1>1, PrepStep, ForceStep, DialStep, ReturnStep, AcceptLookStep, AcceptFreeStep, AcceptTakeStep
  DEF Step
<1>2. CASE Socket \/ RecvTimeout
  BY <1>2, SocketStep, RecvTimeoutStep
<1>3. CASE \E p \in Ports : Accept(p) \/ \E on \in Listens : Listen(p, on)
  BY <1>3, AcceptStep, ListenStep
<1>4. CASE \E op \in {"send", "recv", "close", "connect"}, c \in Conns, len \in 0 .. MaxLen,
             line \in BOOLEAN : Begin(op, c, len, line)
  BY <1>4, BeginStep DEF Ops
<1> QED BY <1>1, <1>2, <1>3, <1>4 DEF Program

-----------------------------------------------------------------------------
LEMMA Inductive == Spec => []IInv
<1>1. Init => IInv
  <2> SUFFICES ASSUME Init PROVE IInv
    OBVIOUS
  <2>1. conn = [c \in Conns |-> Blank] /\ slot = [i \in Slots |-> Free] /\ listening = {}
        /\ connecting = NoConn /\ busy = FALSE /\ call = NoCall /\ abandoned = {} /\ acked = 0
        /\ moved = FALSE
    BY DEF Init
  <2>2. Blank.state = "idle" /\ Blank.tcp = "closed"
    BY DEF Blank
  <2>3. Free \in SlotType
    BY ZeroFact DEF Free, SlotType
  <2>4. busy \in BOOLEAN /\ moved \in BOOLEAN
    BY <2>1, Zenon
  <2>5. Connections
    BY <2>1, BlankFact DEF Connections
  <2>6. Others
    BY <2>1, <2>3, <2>4, NoCallFact DEF Others
  <2>7. Requests /\ InFlight /\ Flow
    BY <2>1, <2>2 DEF Requests, InFlight, Flow
  <2>8. Places
    BY <2>1, NoCallFact DEF Places
  <2> QED BY <2>5, <2>6, <2>7, <2>8 DEF IInv
<1>2. IInv /\ [Next]_vars => IInv'
  <2> SUFFICES ASSUME IInv, [Next]_vars PROVE IInv'
    OBVIOUS
  <2>1. CASE Next
    BY <2>1, NetworkStep, ProgramStep DEF Next
  <2>2. CASE UNCHANGED vars
    <3>1. Connections' /\ Others' /\ Requests' /\ Places' /\ InFlight' /\ Flow'
      BY <2>2 DEF vars, IInv, Connections, Others, Requests, Places, InFlight, Flow
    <3> QED BY <3>1 DEF IInv
  <2> QED BY <2>1, <2>2
<1> QED BY <1>1, <1>2, PTL DEF Spec

\* No connection has a request but that of the call in progress, so that a
\* callback never ends the wait of another call, and data is in flight only while
\* a send waits for it.
THEOREM OneAtATime == Spec => []OneRequest
<1>1. IInv => OneRequest
  <2> SUFFICES ASSUME IInv, NEW c \in Conns
               PROVE  /\ conn[c].state # "idle" => call.at \in {"force", "dial", "wait"} /\ call.sock = c
                      /\ conn[c].tcp = "established" /\ conn[c].out > 0 =>
                           Sending /\ call.sock = c /\ conn[c].state = "send"
    BY DEF OneRequest
  <2>1. conn[c].state # "idle" => call.at \in {"force", "dial", "wait"} /\ call.sock = c
    BY DEF IInv, Requests
  <2>2. ASSUME conn[c].tcp = "established", conn[c].out > 0
        PROVE  Sending /\ call.sock = c /\ conn[c].state = "send"
    <3>1. conn[c].state = "send"
      BY <2>2 DEF IInv, InFlight
    <3>2. call.at \in {"force", "dial", "wait"} /\ call.sock = c /\ call.op = "send"
      BY <3>1 DEF IInv, Requests
    <3> QED BY <3>1, <3>2 DEF Sending, IInv, Places
  <2> QED BY <2>1, <2>2
<1> QED BY <1>1, Inductive, PTL

\* The types, and: a connection takes data from its peer only for a call that
\* waits to receive it, or after one that gave up.
THEOREM StoppedBetweenCalls == Spec => []FlowControlled
<1>1. IInv => FlowControlled
  <2> SUFFICES ASSUME IInv PROVE FlowControlled
    OBVIOUS
  <2>1. TypeOK
    BY TypeParts DEF IInv
  <2>2. \A c \in Conns : conn[c].stopped \in BOOLEAN
    BY FieldFact DEF IInv, Connections
  <2>3. \A c \in Conns : conn[c].tcp = "established" /\ ~conn[c].stopped =>
          conn[c].state = "recv2" \/ c \in abandoned
    BY <2>2 DEF IInv, Flow
  <2> QED BY <2>1, <2>3 DEF FlowControlled
<1> QED BY <1>1, Inductive, PTL
=============================================================================

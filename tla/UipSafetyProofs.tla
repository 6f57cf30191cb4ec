---------------------------- MODULE UipSafetyProofs ----------------------------
(***************************************************************************)
(* What elua_net_send reports as sent was acknowledged, and a connection   *)
(* made from outside stays in the table of pending ones until it is handed *)
(* to the program, for any number of connections, ports and entries and    *)
(* any sizes of segments and requests.                                     *)
(***************************************************************************)
EXTENDS UipProofs

USE UipAssumption

\* Until the window changes under a segment in flight, that segment holds as many
\* bytes as its acknowledgement takes off.
Full(k) == k.tcp = "established" /\ k.out > 0 => k.out = Smaller(k.left, k.mss)

Counted ==
  Sending =>
    /\ moved \/ (call.len - Mine.left <= acked /\ Full(Mine))
    /\ Mine.state = "idle" /\ Mine.res = "ok" => Mine.left = 0

SInv == IInv /\ Counted

-----------------------------------------------------------------------------
(***************************************************************************)
(* One field of a connection is set: what becomes of the bytes left, the   *)
(* result and the window.                                                  *)
(***************************************************************************)
LEMMA KeepTcp ==
  ASSUME NEW k \in Conn, NEW v \in TcpStates
  PROVE  LET r == [k EXCEPT !.tcp = v] IN r.left = k.left /\ r.res = k.res /\ r.mss = k.mss
BY DEF Conn, TcpStates

LEMMA KeepStopped ==
  ASSUME NEW k \in Conn, NEW v \in BOOLEAN
  PROVE  LET r == [k EXCEPT !.stopped = v] IN r.left = k.left /\ r.res = k.res /\ r.mss = k.mss
BY DEF Conn

LEMMA KeepOut ==
  ASSUME NEW k \in Conn, NEW v \in 0 .. Mss
  PROVE  LET r == [k EXCEPT !.out = v] IN r.left = k.left /\ r.res = k.res /\ r.mss = k.mss
BY DEF Conn

LEMMA KeepMss ==
  ASSUME NEW k \in Conn, NEW v \in 1 .. Mss
  PROVE  LET r == [k EXCEPT !.mss = v] IN r.left = k.left /\ r.res = k.res /\ r.mss = v
BY DEF Conn

LEMMA KeepPort ==
  ASSUME NEW k \in Conn, NEW v \in Ports \union {Nobody}
  PROVE  LET r == [k EXCEPT !.port = v] IN r.left = k.left /\ r.res = k.res /\ r.mss = k.mss
BY DEF Conn

LEMMA KeepState ==
  ASSUME NEW k \in Conn, NEW v \in Requested
  PROVE  LET r == [k EXCEPT !.state = v] IN r.left = k.left /\ r.res = k.res /\ r.mss = k.mss
BY DEF Conn, Requested

LEMMA KeepRes ==
  ASSUME NEW k \in Conn, NEW v \in Results
  PROVE  LET r == [k EXCEPT !.res = v] IN r.left = k.left /\ r.res = v /\ r.mss = k.mss
BY DEF Conn, Results

LEMMA KeepLeft ==
  ASSUME NEW k \in Conn, NEW v \in 0 .. MaxLen
  PROVE  LET r == [k EXCEPT !.left = v] IN r.left = v /\ r.res = k.res /\ r.mss = k.mss
BY DEF Conn

LEMMA KeepLine ==
  ASSUME NEW k \in Conn, NEW v \in BOOLEAN
  PROVE  LET r == [k EXCEPT !.line = v] IN r.left = k.left /\ r.res = k.res /\ r.mss = k.mss
BY DEF Conn
-----------------------------------------------------------------------------
LEMMA ToKeeps ==
  ASSUME NEW k \in Conn, NEW tcp \in TcpStates, NEW out \in 0 .. Mss
  PROVE  LET r == To(k, tcp, out)
         IN  r \in Conn /\ r.tcp = tcp /\ r.state = k.state /\ r.left = k.left /\ r.res = k.res
<1> DEFINE a == [Blank EXCEPT !.tcp = tcp]
           b == [a EXCEPT !.out = out]
           c == [b EXCEPT !.state = k.state]
           d == [c EXCEPT !.res = k.res]
           e == [d EXCEPT !.left = k.left]
           f == [e EXCEPT !.line = k.line]
<1>1. To(k, tcp, out) = f
  BY DEF To
<1>2. a \in Conn
  BY BlankFact, SetTcp
<1> HIDE DEF a
<1>3. b \in Conn
  BY <1>2, SetOut
<1> HIDE DEF b
<1>4. c \in Conn
  BY <1>3, SetState, FieldFact
<1> HIDE DEF c
<1>5. d \in Conn /\ d.res = k.res
  BY <1>4, SetRes, KeepRes, FieldFact
<1> HIDE DEF d
<1>6. e \in Conn /\ e.res = k.res /\ e.left = k.left
  BY <1>5, SetLeft, KeepLeft, FieldFact
<1> HIDE DEF e
<1>7. f.res = k.res /\ f.left = k.left
  BY <1>6, KeepLine, FieldFact
<1> HIDE DEF f
<1>8. To(k, tcp, out) \in Conn /\ To(k, tcp, out).tcp = tcp /\ To(k, tcp, out).state = k.state
  BY ToFact, Zenon
<1> QED BY <1>1, <1>7, <1>8

LEMMA IdleKeeps ==
  ASSUME NEW k \in Conn, NEW res \in Results
  PROVE  LET r == Idle(k, res) IN r.left = k.left /\ r.res = res /\ r.mss = k.mss
<1> DEFINE a == [k EXCEPT !.state = "idle"]
<1>1. a \in Conn /\ a.left = k.left /\ a.mss = k.mss
  BY SetState, KeepState DEF Requested
<1>2. Idle(k, res) = [a EXCEPT !.res = res]
  BY DEF Idle
<1> HIDE DEF a
<1> QED BY <1>1, <1>2, KeepRes

LEMMA StopKeeps ==
  ASSUME NEW k \in Conn
  PROVE  LET r == Stop(k) IN r.left = k.left /\ r.res = k.res /\ r.mss = k.mss
<1>1. TRUE \in BOOLEAN
  OBVIOUS
<1> QED BY <1>1, KeepStopped DEF Stop

LEMMA CloseKeeps ==
  ASSUME NEW k \in Conn
  PROVE  Close(k).left = k.left /\ Close(k).res = k.res
<1>1. "finWait1" \in TcpStates /\ 1 \in 0 .. Mss
  BY DEF TcpStates, Active
<1> QED BY <1>1, ToKeeps DEF Close

\* The bytes an acknowledgement takes off, and the next segment.
LEMMA SentCounts ==
  ASSUME NEW k \in Conn, NEW events
  PROVE  LET r == Sent(k, events)
             off == IF "acked" \in events THEN Smaller(k.left, k.mss) ELSE 0
         IN  /\ r.left = k.left - off
             /\ r.state = "idle" => r.left = 0 \/ k.state = "idle"
             /\ r.out = k.out \/ (k.out = 0 /\ r.out = Smaller(r.left, r.mss))
             /\ r.mss = k.mss
<1> DEFINE off == IF "acked" \in events THEN Smaller(k.left, k.mss) ELSE 0
           left == k.left - off
           a == [k EXCEPT !.left = left]
           z == [k EXCEPT !.left = 0]
           q == [z EXCEPT !.state = "idle"]
           s == [a EXCEPT !.out = Smaller(a.left, a.mss)]
           r == Sent(k, events)
<1>1. k.left \in 0 .. MaxLen /\ k.mss \in 1 .. Mss
  BY FieldFact
<1>2. left \in 0 .. MaxLen
  BY <1>1, SmallerFact
<1>3. Sent(k, events) = IF left = 0 THEN q ELSE Send(a)
  BY <1>1 DEF Sent
<1> HIDE DEF off
<1>4. z \in Conn /\ z.left = 0 /\ z.out = k.out /\ z.mss = k.mss
  BY SetLeft, KeepLeft
<1>5. a \in Conn /\ a.left = left /\ a.out = k.out /\ a.mss = k.mss /\ a.state = k.state
  BY <1>2, SetLeft, KeepLeft
<1>6. Send(a) = IF a.out = 0 THEN s ELSE a
  BY DEF Send
<1> HIDE DEF a, z
<1>7. q.left = 0 /\ q.out = k.out /\ q.mss = k.mss
  BY <1>4, SetState, KeepState DEF Requested
<1>8. s.left = left /\ s.mss = k.mss /\ s.out = Smaller(left, k.mss) /\ s.state = k.state
  <2>1. Smaller(a.left, a.mss) \in 0 .. Mss
    <3>1. a.left \in 0 .. MaxLen /\ a.mss \in 1 .. Mss
      BY <1>5, FieldFact
    <3> QED BY <3>1, SmallerFact
  <2> QED BY <1>5, <2>1, SetOut, KeepOut
<1> HIDE DEF q, s, left
<1>9. r = q \/ (r = s /\ k.out = 0) \/ r = a
  BY <1>3, <1>5, <1>6
<1>10. r = q => left = 0
  BY <1>3, <1>5, <1>6, <1>7, <1>8
<1> HIDE DEF r
<1>11. /\ r.left = left /\ r.mss = k.mss
       /\ r.state = "idle" => r.left = 0 \/ k.state = "idle"
       /\ r.out = k.out \/ (k.out = 0 /\ r.out = Smaller(r.left, r.mss))
  BY <1>5, <1>7, <1>8, <1>9, <1>10
<1> QED BY <1>11 DEF r, left, off

\* A callback for a connection with no request but to send: only what was
\* acknowledged is taken off, and it ends without error with nothing left.
Progress(k, events, r) ==
  /\ r.left = k.left \/ ("acked" \in events /\ r.left = k.left - Smaller(k.left, k.mss))
  /\ r.state = "idle" /\ r.res = "ok" => r.left = 0 \/ (r.left = k.left /\ k.state = "idle" /\ k.res = "ok")
  /\ r.out = k.out \/ (k.out = 0 /\ r.out = Smaller(r.left, r.mss))
  /\ r.mss = k.mss
  /\ r.out = k.out \/ r.left = k.left \/ "acked" \in events

LEMMA AppCallCounts ==
  ASSUME NEW k \in Conn, k.state \in {"idle", "send"}, NEW events, events \subseteq Events,
         NEW n, NEW eol
  PROVE  Progress(k, events, AppCall(k, events, n, eol))
<1> DEFINE over == events \intersect Errors # {}
           r == AppCall(k, events, n, eol)
<1> SUFFICES Progress(k, events, r)
  OBVIOUS
<1>1. k.left \in 0 .. MaxLen
  BY FieldFact
<1>2. CASE k.state = "idle"
  <2>1. r = k
    BY <1>2 DEF AppCall
  <2> HIDE DEF r
  <2> QED BY <1>2, <2>1 DEF Progress
<1>3. CASE k.state = "send" /\ over
  <2> DEFINE q == Idle(k, ErrorOf(events))
  <2>1. r = q
    <3>1. events # {"newdata"}
      BY <1>3 DEF Errors
    <3> QED BY <1>3, <3>1, Zenon DEF AppCall
  <2>2. ErrorOf(events) \in Results /\ ErrorOf(events) # "ok"
    BY <1>3 DEF ErrorOf, Errors, Results
  <2>3. q.left = k.left /\ q.res # "ok" /\ q.mss = k.mss /\ q.out = k.out
    BY <2>2, IdleKeeps, IdleFact
  <2> HIDE DEF q, r
  <2> QED BY <2>1, <2>3 DEF Progress
<1>4. CASE k.state = "send" /\ ~over /\ Finishing(events)
  <2> DEFINE off == IF "acked" \in events THEN Smaller(k.left, k.mss) ELSE 0
  <2>1. r = Sent(k, events)
    BY <1>4 DEF AppCall, Finishing
  <2>2. /\ r.left = k.left - off
        /\ r.state = "idle" => r.left = 0 \/ k.state = "idle"
        /\ r.out = k.out \/ (k.out = 0 /\ r.out = Smaller(r.left, r.mss))
        /\ r.mss = k.mss
    BY <2>1, SentCounts
  <2>3. r.left = k.left \/ ("acked" \in events /\ r.left = k.left - Smaller(k.left, k.mss))
    BY <1>1, <2>2
  <2> HIDE DEF r, off
  <2> QED BY <1>4, <2>2, <2>3 DEF Progress
<1>5. CASE k.state = "send" /\ ~over /\ ~Finishing(events)
  <2>1. r = Stop(k) \/ r = k
    BY <1>5 DEF AppCall, Finishing
  <2>2. r.left = k.left /\ r.res = k.res /\ r.mss = k.mss /\ r.out = k.out /\ r.state = k.state
    BY <2>1, StopKeeps, StopFact
  <2> HIDE DEF r
  <2> QED BY <2>2 DEF Progress
<1> QED BY <1>2, <1>3, <1>4, <1>5

-----------------------------------------------------------------------------
(***************************************************************************)
(* A step of the network that acknowledges nothing.                        *)
(***************************************************************************)
Keeps(k, r) ==
  /\ r.left = k.left
  /\ r.state = "idle" /\ r.res = "ok" => r.left = 0 \/ (k.state = "idle" /\ k.res = "ok")
  /\ Full(k) => Full(r)

\* A send in progress has its own connection, with no request but its own.
LEMMA SendsOnIts ==
  ASSUME IInv, Sending
  PROVE  call.sock \in Conns /\ Mine \in Conn /\ Mine = conn[call.sock] /\ Mine.state \in {"idle", "send"}
         /\ call.len \in 0 .. MaxLen /\ acked \in 0 .. MaxLen
<1>1. call.sock \in Conns /\ call.len \in 0 .. MaxLen /\ acked \in 0 .. MaxLen
  BY DEF IInv, Others, CallType
<1>2. Mine = conn[call.sock] /\ Mine \in Conn
  BY <1>1 DEF Mine, IInv, Connections
<1>3. Mine.state # "idle" => Mine.state = "send"
  BY <1>1, <1>2 DEF IInv, Requests, Sending
<1> QED BY <1>1, <1>2, <1>3

LEMMA KeepsStep ==
  ASSUME SInv, UNCHANGED <<call, acked, moved>>,
         Sending => Mine' = Mine \/ Keeps(Mine, Mine')
  PROVE  Counted'
BY DEF SInv, Counted, Sending, Keeps, Full

LEMMA KeepsOnly ==
  ASSUME SInv, NEW c \in Conns, NEW k, Becomes(c, k), UNCHANGED <<call, acked, moved>>,
         conn[c].state \in {"idle", "send"} => Keeps(conn[c], k)
  PROVE  Counted'
<1>1. ASSUME Sending PROVE Mine' = Mine \/ Keeps(Mine, Mine')
  <2>1. call.sock \in Conns /\ Mine.state \in {"idle", "send"}
    BY <1>1, SendsOnIts DEF SInv
  <2>2. conn' = [conn EXCEPT ![c] = k] /\ conn \in [Conns -> Conn]
    BY DEF Becomes, SInv, IInv, Connections
  <2>3. CASE call.sock = c
    BY <2>1, <2>2, <2>3 DEF Mine
  <2>4. CASE call.sock # c
    BY <2>1, <2>2, <2>4 DEF Mine
  <2> QED BY <2>3, <2>4
<1> QED BY <1>1, KeepsStep

\* A connection that is not established, told of an error or not.
LEMMA AwayCounts ==
  ASSUME NEW k \in Conn, NEW tcp \in TcpStates \ {"established"}, NEW out \in 0 .. Mss,
         NEW e \in Errors
  PROVE  k.state \in {"idle", "send"} =>
           Keeps(k, To(k, tcp, out)) /\ Keeps(k, Told(To(k, tcp, out), e))
<1> DEFINE r == To(k, tcp, out)
           q == Told(r, e)
<1>1. r \in Conn /\ r.tcp = tcp /\ r.state = k.state /\ r.left = k.left /\ r.res = k.res
  BY ToKeeps
<1> HIDE DEF r
<1>2. {e} \subseteq Events /\ "acked" \notin {e} /\ 0 \in 0 .. Mss
  BY DEF Events, Errors
<1> SUFFICES ASSUME k.state \in {"idle", "send"} PROVE Keeps(k, r) /\ Keeps(k, q)
  BY DEF r
<1>3. Progress(r, {e}, q)
  BY <1>1, <1>2, AppCallCounts DEF Told
<1>4. q.tcp \in {tcp, "finWait1"}
  BY <1>1, ToldFact
<1> HIDE DEF q
<1>5. Keeps(k, r)
  BY <1>1 DEF Keeps, Full
<1>6. Keeps(k, q)
  BY <1>1, <1>2, <1>3, <1>4 DEF Keeps, Full, Progress
<1> QED BY <1>5, <1>6 DEF q, r

-----------------------------------------------------------------------------
(***************************************************************************)
(* The main loop of uIP.                                                   *)
(***************************************************************************)
LEMMA SynCounts == ASSUME SInv, NEW p \in Ports, Syn(p) PROVE Counted'
<1> DEFINE free == {c \in Conns : conn[c].tcp = "closed"}
           wait == {c \in Conns : conn[c].tcp = "timeWait"}
<1>1. free # {} => Min(free) \in Conns
  BY MinFact, ZeroFact
<1>2. PICK c \in IF free # {} THEN {Min(free)} ELSE wait :
        Only(c, [To(conn[c], "synRcvd", 1) EXCEPT !.port = p])
  BY DEF Syn
<1> DEFINE a == To(conn[c], "synRcvd", 1)
           r == [a EXCEPT !.port = p]
<1>3. c \in Conns /\ conn[c] \in Conn
  BY <1>1 DEF SInv, IInv, Connections
<1> HIDE DEF free, wait
<1>4. a \in Conn /\ a.tcp = "synRcvd" /\ a.state = conn[c].state
      /\ a.left = conn[c].left /\ a.res = conn[c].res
  <2>1. "synRcvd" \in TcpStates /\ 1 \in 0 .. Mss
    BY DEF TcpStates, Active
  <2> QED BY <1>3, <2>1, ToKeeps
<1>5. Only(c, r)
  BY <1>2
<1> HIDE DEF a
<1>6. r.tcp = "synRcvd" /\ r.state = conn[c].state /\ r.left = conn[c].left /\ r.res = conn[c].res
  BY <1>4, SetPort, KeepPort
<1> HIDE DEF r
<1>7. Keeps(conn[c], r)
  BY <1>6 DEF Keeps, Full
<1> QED BY <1>3, <1>5, <1>7, KeepsOnly DEF Only

LEMMA ConnectedCounts == ASSUME SInv, NEW c \in Conns, Connected(c) PROVE Counted'
<1> DEFINE a == [conn[c] EXCEPT !.tcp = "established"]
           k == [a EXCEPT !.out = 0]
           i == [k EXCEPT !.state = "idle"]
<1>1. conn[c] \in Conn
  BY DEF SInv, IInv, Connections
<1>2. a \in Conn /\ a.state = conn[c].state /\ a.left = conn[c].left /\ a.res = conn[c].res
  BY <1>1, SetTcp, KeepTcp DEF TcpStates, Active
<1>3. \/ k.state = "connect" /\ Becomes(c, Stop(i))
      \/ Becomes(c, Stop(k))
      \/ Becomes(c, Close(k))
  BY DEF Connected
<1> HIDE DEF a
<1>4. k \in Conn /\ k.out = 0 /\ k.state = conn[c].state /\ k.left = conn[c].left /\ k.res = conn[c].res
  BY <1>2, SetOut, KeepOut
<1> HIDE DEF k
<1> DEFINE q1 == Stop(i)
           q2 == Stop(k)
           q3 == Close(k)
<1>5. Keeps(conn[c], q2)
  <2>1. q2.out = 0 /\ q2.state = conn[c].state /\ q2.left = conn[c].left /\ q2.res = conn[c].res
    BY <1>4, StopFact, StopKeeps
  <2> HIDE DEF q2
  <2> QED BY <2>1 DEF Keeps, Full
<1>6. Keeps(conn[c], q3)
  <2>1. q3.tcp = "finWait1" /\ q3.state = conn[c].state /\ q3.left = conn[c].left /\ q3.res = conn[c].res
    BY <1>4, CloseFact, CloseKeeps
  <2> HIDE DEF q3
  <2> QED BY <2>1 DEF Keeps, Full
<1> HIDE DEF i, q1, q2, q3
<1>7. UNCHANGED <<call, acked, moved>>
  BY DEF Connected
<1>8. \/ conn[c].state = "connect" /\ Becomes(c, q1)
      \/ Becomes(c, q2)
      \/ Becomes(c, q3)
  BY <1>3, <1>4 DEF q1, q2, q3
<1>9. conn[c].state = "connect" => conn[c].state \notin {"idle", "send"}
  OBVIOUS
<1> QED BY <1>5, <1>6, <1>7, <1>8, <1>9, KeepsOnly

LEMMA FinCounts == ASSUME SInv, NEW c \in Conns, NEW acks \in BOOLEAN, Fin(c, acks) PROVE Counted'
<1> DEFINE events == {"closed"} \union (IF acks THEN {"acked"} ELSE {})
           k == AppCall(conn[c], events, 0, 0)
           r == To(k, "lastAck", 1)
<1>1. conn[c] \in Conn
  BY DEF SInv, IInv, Connections
<1>2. events \subseteq Events /\ 0 \in 0 .. Mss /\ 1 \in 0 .. Mss /\ "lastAck" \in TcpStates
      /\ events \intersect Errors # {}
  BY DEF Events, Errors, TcpStates, Active
<1>3. Only(c, r)
  BY DEF Fin
<1> SUFFICES ASSUME conn[c].state \in {"idle", "send"} PROVE Keeps(conn[c], r)
  BY <1>3, KeepsOnly DEF Only
<1> HIDE DEF events
<1>4. k \in Conn /\ k.left = conn[c].left
      /\ (k.state = "idle" /\ k.res = "ok" => conn[c].state = "idle" /\ conn[c].res = "ok")
  <2>1. CASE conn[c].state = "idle"
    <3>1. k = conn[c]
      BY <2>1 DEF AppCall
    <3> HIDE DEF k
    <3> QED BY <1>1, <2>1, <3>1
  <2>2. CASE conn[c].state = "send"
    <3> DEFINE q == Idle(conn[c], ErrorOf(events))
    <3>1. k = q
      <4>1. events # {"newdata"}
        BY <1>2 DEF Errors
      <4> QED BY <1>2, <2>2, <4>1, Zenon DEF AppCall
    <3>2. ErrorOf(events) \in Results /\ ErrorOf(events) # "ok"
      BY <1>2 DEF ErrorOf, Errors, Results
    <3>3. q \in Conn /\ q.left = conn[c].left /\ q.res # "ok"
      BY <1>1, <3>2, IdleKeeps, IdleFact
    <3> HIDE DEF k, q
    <3> QED BY <3>1, <3>3
  <2> QED BY <2>1, <2>2
<1> HIDE DEF k
<1>5. r.tcp = "lastAck" /\ r.state = k.state /\ r.left = k.left /\ r.res = k.res
  BY <1>2, <1>4, ToKeeps
<1> HIDE DEF r
<1> QED BY <1>4, <1>5 DEF Keeps, Full

LEMMA AwayStepCounts ==
  ASSUME SInv, NEW c \in Conns, NEW tcp \in TcpStates \ {"established"}, NEW out \in 0 .. Mss,
         NEW e \in Errors, Only(c, To(conn[c], tcp, out)) \/ Only(c, Told(To(conn[c], tcp, out), e))
  PROVE  Counted'
<1>1. conn[c] \in Conn
  BY DEF SInv, IInv, Connections
<1>2. conn[c].state \in {"idle", "send"} =>
        Keeps(conn[c], To(conn[c], tcp, out)) /\ Keeps(conn[c], Told(To(conn[c], tcp, out), e))
  BY <1>1, AwayCounts
<1> QED BY <1>2, KeepsOnly DEF Only

LEMMA ClosingCounts ==
  ASSUME SInv, NEW c \in Conns, NEW fin \in BOOLEAN, NEW acks \in BOOLEAN, Closing(c, fin, acks)
  PROVE  Counted'
<1>1. {"closed", "timeWait", "closing", "finWait2"} \subseteq TcpStates \ {"established"}
      /\ {0, 1} \subseteq 0 .. Mss /\ "closed" \in Errors
  BY DEF TcpStates, Active, Errors
<1>2. \/ Only(c, Told(To(conn[c], "closed", 0), "closed"))
      \/ Only(c, Told(To(conn[c], "timeWait", 0), "closed"))
      \/ Only(c, Told(To(conn[c], "closing", 1), "closed"))
      \/ Only(c, To(conn[c], "finWait2", 0))
      \/ Only(c, To(conn[c], "timeWait", 0))
  BY DEF Closing, Closed
<1> QED BY <1>1, <1>2, AwayStepCounts

LEMMA ResetCounts == ASSUME SInv, NEW c \in Conns, Reset(c) PROVE Counted'
<1>1. "closed" \in TcpStates \ {"established"} /\ 0 \in 0 .. Mss /\ "aborted" \in Errors
  BY DEF TcpStates, Active, Errors
<1>2. Only(c, Told(To(conn[c], "closed", 0), "aborted"))
  BY DEF Reset, Closed
<1> QED BY <1>1, <1>2, AwayStepCounts

\* A poll, or a timer that runs out.
LEMMA PollCounts == ASSUME SInv, NEW gone \in SUBSET Conns, Poll(gone) PROVE Counted'
<1> DEFINE After(c) ==
      CASE c \in gone /\ conn[c].tcp \in Waiting -> Closed(conn[c])
        [] c \in gone /\ conn[c].tcp \notin Waiting -> Told(Closed(conn[c]), "timedout")
        [] c \notin gone /\ conn[c].tcp = "established" /\ conn[c].out = 0 -> Told(conn[c], "poll")
        [] OTHER -> conn[c]
           s == call.sock
<1>1. conn' = [c \in Conns |-> After(c)] /\ UNCHANGED <<call, acked, moved>>
  BY DEF Poll
<1> SUFFICES ASSUME Sending PROVE Mine' = Mine \/ Keeps(Mine, Mine')
  BY <1>1, KeepsStep
<1>2. s \in Conns /\ conn[s] \in Conn /\ conn[s].state \in {"idle", "send"} /\ Mine = conn[s]
  BY SendsOnIts DEF SInv
<1>3. Mine' = After(s)
  BY <1>1, <1>2 DEF Mine
<1>4. "closed" \in TcpStates \ {"established"} /\ 0 \in 0 .. Mss /\ "timedout" \in Errors
  BY DEF TcpStates, Active, Errors
<1>5. Keeps(conn[s], Closed(conn[s])) /\ Keeps(conn[s], Told(Closed(conn[s]), "timedout"))
  BY <1>2, <1>4, AwayCounts DEF Closed
<1>6. ASSUME conn[s].out = 0 PROVE Keeps(conn[s], Told(conn[s], "poll"))
  <2> DEFINE r == Told(conn[s], "poll")
  <2>1. {"poll"} \subseteq Events /\ "acked" \notin {"poll"}
    BY DEF Events
  <2>2. Progress(conn[s], {"poll"}, r)
    BY <1>2, <2>1, AppCallCounts DEF Told
  <2> HIDE DEF r
  <2>3. Keeps(conn[s], r)
    BY <1>6, <2>1, <2>2 DEF Keeps, Full, Progress
  <2> QED BY <2>3 DEF r
<1>7. After(s) \in {conn[s], Closed(conn[s]), Told(Closed(conn[s]), "timedout")}
      \/ (After(s) = Told(conn[s], "poll") /\ conn[s].out = 0)
  <2> HIDE DEF s
  <2>1. CASE s \in gone /\ conn[s].tcp \in Waiting
    BY <2>1, Zenon
  <2>2. CASE s \in gone /\ conn[s].tcp \notin Waiting
    BY <2>2, Zenon
  <2>3. CASE s \notin gone /\ conn[s].tcp = "established" /\ conn[s].out = 0
    BY <2>3, Zenon
  <2>4. CASE s \notin gone /\ ~(conn[s].tcp = "established" /\ conn[s].out = 0)
    BY <2>4, Zenon
  <2> QED BY <2>1, <2>2, <2>3, <2>4
<1> HIDE DEF After
<1> QED BY <1>2, <1>3, <1>5, <1>6, <1>7

\* An acknowledgement takes off no more than was in flight, and the next segment
\* is as long as the window and the bytes left allow.
LEMMA SegmentCounts ==
  ASSUME SInv, NEW c \in Conns, NEW n \in 0 .. Mss, NEW acks \in BOOLEAN, NEW w \in 1 .. Mss,
         NEW eol \in 0 .. n, Segment(c, n, acks, w, eol)
  PROVE  Counted'
<1> DEFINE data == IF conn[c].stopped THEN 0 ELSE n
           events == (IF data > 0 THEN {"newdata"} ELSE {}) \union (IF acks THEN {"acked"} ELSE {})
           a == [conn[c] EXCEPT !.mss = w]
           out == IF acks THEN 0 ELSE a.out
           k == [a EXCEPT !.out = out]
           r == IF events = {} THEN k ELSE AppCall(k, events, data, eol)
<1>1. conn' = [conn EXCEPT ![c] = r] /\ UNCHANGED call
  BY DEF Segment, Becomes
<1>2. /\ conn[c].tcp = "established" /\ (acks => conn[c].out > 0)
      /\ acked' = IF acks THEN Smaller(acked + conn[c].out, MaxLen) ELSE acked
      /\ moved' = (moved \/ (conn[c].out > 0 /\ w # conn[c].mss))
  BY DEF Segment
<1>3. events \subseteq Events /\ ("acked" \in events => acks)
  BY DEF Events
<1>4. conn[c] \in Conn /\ conn \in [Conns -> Conn]
  BY DEF SInv, IInv, Connections
<1>5. a \in Conn /\ a.out = conn[c].out /\ a.state = conn[c].state /\ a.left = conn[c].left
      /\ a.res = conn[c].res /\ a.mss = w
  BY <1>4, SetMss, KeepMss
<1>6. a.out \in 0 .. Mss
  BY <1>5, FieldFact
<1> HIDE DEF a, data, events
<1>7. out \in 0 .. Mss /\ out = IF acks THEN 0 ELSE conn[c].out
  BY <1>5, <1>6
<1> HIDE DEF out
<1>8. k \in Conn /\ k.out = out /\ k.state = conn[c].state /\ k.left = conn[c].left
      /\ k.res = conn[c].res /\ k.mss = w
  BY <1>5, <1>7, SetOut, KeepOut
<1> HIDE DEF k
<1> SUFFICES ASSUME Sending
             PROVE  /\ moved' \/ (call.len - conn'[call.sock].left <= acked' /\ Full(conn'[call.sock]))
                    /\ conn'[call.sock].state = "idle" /\ conn'[call.sock].res = "ok" =>
                         conn'[call.sock].left = 0
  BY <1>1 DEF Counted, Sending, Mine
<1>9. call.sock \in Conns /\ Mine = conn[call.sock] /\ Mine.state \in {"idle", "send"}
      /\ call.len \in 0 .. MaxLen /\ acked \in 0 .. MaxLen
  BY SendsOnIts DEF SInv
<1>10. /\ moved \/ (call.len - conn[call.sock].left <= acked /\ Full(conn[call.sock]))
       /\ conn[call.sock].state = "idle" /\ conn[call.sock].res = "ok" => conn[call.sock].left = 0
  BY <1>9 DEF SInv, Counted
<1>11. ASSUME call.sock # c PROVE conn[c].out = 0
  <2>1. conn[c].state # "send"
    BY <1>11 DEF SInv, IInv, Requests
  <2>2. ~(conn[c].out > 0)
    BY <1>2, <2>1 DEF SInv, IInv, InFlight
  <2> QED BY <1>4, <2>2, FieldFact
<1>12. CASE call.sock # c
  <2>1. conn'[call.sock] = conn[call.sock]
    BY <1>1, <1>4, <1>9, <1>12
  <2>2. acked' = acked
    <3>1. ~acks
      BY <1>2, <1>11, <1>12
    <3> QED BY <1>2, <3>1
  <2>3. moved => moved'
    BY <1>2, Zenon
  <2> QED BY <1>10, <2>1, <2>2, <2>3
<1>13. CASE call.sock = c
  <2>1. conn'[call.sock] = r
    BY <1>1, <1>4, <1>13
  <2>2. Progress(k, events, r)
    <3>1. CASE events = {}
      <4>1. r = k
        BY <3>1
      <4> HIDE DEF r
      <4> QED BY <3>1, <4>1 DEF Progress
    <3>2. CASE events # {}
      BY <1>3, <1>8, <1>9, <1>13, <3>2, AppCallCounts
    <3> QED BY <3>1, <3>2
  <2> HIDE DEF r
  <2>3. r.state = "idle" /\ r.res = "ok" => r.left = 0
    BY <1>8, <1>10, <1>13, <2>2 DEF Progress
  <2>4. ASSUME ~moved' PROVE call.len - r.left <= acked' /\ Full(r)
    <3> DEFINE old == conn[c].left
               flight == conn[c].out
    <3>1. ~moved /\ (flight > 0 => w = conn[c].mss)
      BY <1>2, <2>4
    <3>2. old \in 0 .. MaxLen /\ conn[c].mss \in 1 .. Mss /\ flight \in 0 .. Mss
      BY <1>4, FieldFact
    <3>3. call.len - old <= acked /\ (flight > 0 => flight = Smaller(old, conn[c].mss))
      BY <1>2, <1>10, <1>13, <3>1 DEF Full
    <3>4. flight > 0 => flight = Smaller(old, w)
      BY <3>1, <3>3
    <3>5. r.left = old \/ (acks /\ r.left = old - Smaller(old, w))
      BY <1>3, <1>8, <2>2 DEF Progress
    <3>6. r.out = out \/ (out = 0 /\ r.out = Smaller(r.left, w))
      BY <1>8, <2>2 DEF Progress
    <3>7. r.mss = w
      BY <1>8, <2>2 DEF Progress
    <3>8. r.out = out /\ ~acks => r.left = old
      BY <3>5
    <3> HIDE DEF old, flight
    <3>9. flight > 0 /\ acks => acked' = Smaller(acked + flight, MaxLen)
      BY <1>2 DEF flight
    <3>10. call.len - r.left <= acked'
      <4>1. CASE acks
        <5>1. flight > 0 /\ flight = Smaller(old, w)
          BY <1>2, <3>4, <4>1 DEF flight
        <5>2. acked' = IF acked + flight <= MaxLen THEN acked + flight ELSE MaxLen
          BY <1>9, <3>2, <3>9, <4>1, <5>1, SmallerFact
        <5>3. r.left = old \/ r.left = old - flight
          BY <3>5, <5>1
        <5>4. flight <= old
          BY <3>2, <5>1, SmallerFact
        <5> QED BY <1>9, <3>2, <3>3, <5>2, <5>3, <5>4
      <4>2. CASE ~acks
        BY <1>2, <3>3, <3>5, <4>2
      <4> QED BY <4>1, <4>2
    <3>11. Full(r)
      <4>1. CASE acks
        BY <1>7, <3>6, <3>7, <4>1 DEF Full
      <4>2. CASE ~acks
        BY <1>7, <3>4, <3>5, <3>6, <3>7, <4>2 DEF Full, flight
      <4> QED BY <4>1, <4>2
    <3> QED BY <3>10, <3>11
  <2> QED BY <1>13, <2>1, <2>3, <2>4
<1> QED BY <1>12, <1>13

LEMMA NetworkCounts == ASSUME SInv, Network PROVE Counted'
<1>1. CASE Start
  BY <1>1, KeepsStep DEF Start, history, Mine
<1>2. CASE \E p \in Ports : Syn(p)
  BY <1>2, SynCounts
<1>3. CASE \E c \in Conns : Connected(c) \/ Reset(c)
  BY <1>3, ConnectedCounts, ResetCounts
<1>4. CASE \E c \in Conns : \E n \in 0 .. Mss, acks \in BOOLEAN, w \in 1 .. Mss : \E eol \in 0 .. n :
             Segment(c, n, acks, w, eol)
  BY <1>4, SegmentCounts
<1>5. CASE \E c \in Conns : \E acks \in BOOLEAN : Fin(c, acks)
  BY <1>5, FinCounts
<1>6. CASE \E c \in Conns : \E fin, acks \in BOOLEAN : Closing(c, fin, acks)
  BY <1>6, ClosingCounts
<1>7. CASE \E gone \in SUBSET Conns : Poll(gone)
  BY <1>7, PollCounts
<1> QED BY <1>1, <1>2, <1>3, <1>4, <1>5, <1>6, <1>7 DEF Network

-----------------------------------------------------------------------------
(***************************************************************************)
(* The main program.                                                       *)
(***************************************************************************)
\* The request is stored: nothing is sent yet, and nothing is in flight.
LEMMA PrepCounts == ASSUME SInv, Prep PROVE Counted'
<1> DEFINE s == call.sock
           next == CASE call.op \in {"send", "close"} -> "force"
                     [] call.op = "recv" -> "wait"
                     [] call.op = "connect" -> "dial"
           res == IF call.op = "recv" THEN "buffer" ELSE "ok"
           a == [conn[s] EXCEPT !.state = call.op]
           b == [a EXCEPT !.left = call.len]
           d == [b EXCEPT !.line = call.line]
           r == [d EXCEPT !.res = res]
           late == call.op # "connect" /\ Mine.tcp # "established"
           c1 == [call EXCEPT !.at = next]
           c2 == [c1 EXCEPT !.late = late]
<1>1. call.at = "prep" /\ call \in CallType /\ call.op \in Ops /\ acked \in 0 .. MaxLen
  BY DEF Prep, At, SInv, IInv, Others, Places
<1>2. s \in Conns /\ call.len \in 0 .. MaxLen /\ call.line \in BOOLEAN /\ conn[s] \in Conn
      /\ conn \in [Conns -> Conn]
  BY <1>1 DEF CallType, SInv, IInv, Connections
<1>3. conn' = [conn EXCEPT ![s] = r] /\ call' = c2 /\ UNCHANGED <<acked, moved>>
  BY DEF Prep, Mine, Becomes
<1>4. c2.op = call.op /\ c2.sock = s /\ c2.len = call.len
  <2> HIDE DEF next, late
  <2> QED BY <1>1 DEF CallType
<1>5. conn[s].tcp = "established" => conn[s].out = 0
  <2>1. conn[s].state # "send"
    BY <1>1, <1>2, AllIdle DEF SInv
  <2>2. conn[s].tcp = "established" => ~(conn[s].out > 0)
    BY <1>2, <2>1 DEF SInv, IInv, InFlight
  <2> QED BY <1>2, <2>2, FieldFact
<1>6. a \in Conn /\ a.tcp = conn[s].tcp /\ a.out = conn[s].out /\ a.state = call.op
  <2>1. call.op \in Requested
    BY <1>1 DEF Ops, Requested
  <2> QED BY <1>2, <2>1, SetState
<1> HIDE DEF a
<1>7. b \in Conn /\ b.tcp = conn[s].tcp /\ b.out = conn[s].out /\ b.state = call.op /\ b.left = call.len
  BY <1>2, <1>6, SetLeft, KeepLeft
<1> HIDE DEF b
<1>8. d \in Conn /\ d.tcp = conn[s].tcp /\ d.out = conn[s].out /\ d.state = call.op /\ d.left = call.len
  BY <1>2, <1>7, SetLine, KeepLine
<1>9. res \in Results
  BY DEF Results
<1> HIDE DEF d, res
<1>10. r.tcp = conn[s].tcp /\ r.out = conn[s].out /\ r.state = call.op /\ r.left = call.len
  BY <1>8, <1>9, SetRes, KeepRes
<1> HIDE DEF r, c2
<1>11. Mine' = r /\ call'.op = call.op /\ call'.len = call.len
  BY <1>2, <1>3, <1>4 DEF Mine
<1>12. Sending' => r.state = "send"
  BY <1>10, <1>11 DEF Sending
<1>13. call'.len - Mine'.left <= acked'
  BY <1>1, <1>2, <1>3, <1>10, <1>11
<1>14. Full(Mine')
  BY <1>5, <1>10, <1>11 DEF Full
<1> QED BY <1>11, <1>12, <1>13, <1>14 DEF Counted, Full

\* The steps of a call that is no send, or that ends one.
LEMMA NotSendingStep == ASSUME ~Sending' PROVE Counted'
BY DEF Counted, Sending

LEMMA ProgramCounts == ASSUME SInv, Program PROVE Counted'
<1>1. CASE Prep
  BY <1>1, PrepCounts
<1>2. CASE ForceInterrupt
  <2>1. call \in CallType
    BY DEF SInv, IInv, Others
  <2>2. call' = [call EXCEPT !.at = "wait"] /\ UNCHANGED <<conn, acked, moved>> /\ call.at = "force"
    BY <1>2 DEF ForceInterrupt, GoTo, history, At
  <2>3. call'.op = call.op /\ call'.sock = call.sock /\ call'.len = call.len
    BY <2>1, <2>2 DEF CallType
  <2>4. Mine' = Mine /\ (Sending' => Sending)
    BY <2>2, <2>3 DEF Mine, Sending
  <2> QED BY <2>2, <2>3, <2>4 DEF SInv, Counted
<1>3. CASE Dial
  <2>1. call'.op = call.op /\ call.op = "connect"
    BY <1>3, GoToFact DEF Dial, At, SInv, IInv, Others, Places
  <2> QED BY <2>1, NotSendingStep DEF Sending
<1>4. CASE Return \/ RecvTimeout \/ AcceptTake
  <2>1. call' = NoCall
    BY <1>4 DEF Return, RecvTimeout, AcceptTake
  <2> QED BY <2>1, NotSendingStep, NoCallFact DEF Sending
<1>5. CASE AcceptLook
  <2>1. call \in CallType /\ call.at = "look"
    BY <1>5 DEF AcceptLook, At, SInv, IInv, Others
  <2> DEFINE entry == slot[call.slot]
             found == [call EXCEPT !.at = "free"]
             f == [found EXCEPT !.sock = entry.sock]
             on == [call EXCEPT !.slot = call.slot + 1]
             again == [call EXCEPT !.slot = 0]
  <2>2. call' = f \/ call' = on \/ call' = NoCall \/ call' = again
    BY <1>5 DEF AcceptLook
  <2>3. f.at = "free" /\ on.at = "look" /\ again.at = "look"
    BY <2>1 DEF CallType
  <2> HIDE DEF f, on, again
  <2>4. call'.at \in {"none", "look", "free"}
    BY <2>2, <2>3, NoCallFact
  <2> QED BY <2>4, NotSendingStep DEF Sending
<1>6. CASE AcceptFree
  <2>1. call'.at = "take"
    BY <1>6, GoToFact DEF AcceptFree, SInv, IInv, Others
  <2> QED BY <2>1, NotSendingStep DEF Sending
<1>7. CASE \E p \in Ports : Accept(p)
  <2>1. call'.at = "look"
    BY <1>7 DEF Accept, NoCall
  <2> QED BY <2>1, NotSendingStep DEF Sending
<1>8. CASE \E op \in {"send", "recv", "close", "connect"}, c \in Conns, len \in 0 .. MaxLen,
             line \in BOOLEAN : Begin(op, c, len, line)
  <2>1. call'.at = "prep"
    BY <1>8 DEF Begin, NoCall
  <2> QED BY <2>1, NotSendingStep DEF Sending
<1>9. CASE Socket \/ \E p \in Ports, on \in Listens : Listen(p, on)
  <2>1. call.at = "none" /\ call' = call
    BY <1>9 DEF Socket, Listen, At
  <2> QED BY <2>1, NotSendingStep DEF Sending
<1> QED BY <1>1, <1>2, <1>3, <1>4, <1>5, <1>6, <1>7, <1>8, <1>9 DEF Program, Step

-----------------------------------------------------------------------------
\* What a send reports as sent is never more than the peer has acknowledged, unless
\* the peer's window changed under a segment in flight; and a send that ends
\* without error has sent everything.
THEOREM ReportsWhatWasAcknowledged == Spec => []SendHonest
<1>1. Init => Counted
  <2> SUFFICES ASSUME Init PROVE ~Sending
    BY DEF Counted
  <2> QED BY NoCallFact DEF Init, Sending
<1>2. IInv /\ Counted /\ [Next]_vars => Counted'
  <2> SUFFICES ASSUME SInv, [Next]_vars PROVE Counted'
    BY DEF SInv
  <2>1. CASE Next
    BY <2>1, NetworkCounts, ProgramCounts DEF Next
  <2>2. CASE UNCHANGED vars
    BY <2>2, KeepsStep DEF vars, Mine
  <2> QED BY <2>1, <2>2
<1>3. Counted => SendHonest
  BY DEF Counted, SendHonest
<1> QED BY <1>1, <1>2, <1>3, Inductive, PTL DEF Spec

-----------------------------------------------------------------------------
(***************************************************************************)
(* Connections made from outside.                                          *)
(***************************************************************************)
\* A socket of the program was handed to it, and is the one that is connecting
\* when its request is to connect.
Dialing ==
  /\ \A c \in Conns :
       /\ conn[c].tcp \in {"reserved", "synSent"} => conn[c].given # "no"
       /\ conn[c].state = "connect" => conn[c].tcp \in {"reserved", "synSent"}
       /\ conn[c].state = "connect" /\ conn[c].tcp = "synSent" => connecting = c
  /\ call.op = "connect" /\ call.at \in {"prep", "dial"} => Mine.tcp = "reserved"

\* The entry elua_accept has found keeps its connection until it is freed.
Found == call.at = "free" => slot[call.slot].pending /\ slot[call.slot].sock = call.sock

Remembered == Dialing /\ Found /\ NoneForgotten

PInv == IInv /\ Remembered

-----------------------------------------------------------------------------
(***************************************************************************)
(* What a step does with whose a connection is.                            *)
(***************************************************************************)
SamePeer(k, r) == r.given = k.given /\ r.port = k.port

LEMMA PeerTcp == ASSUME NEW k \in Conn, NEW v \in TcpStates PROVE SamePeer(k, [k EXCEPT !.tcp = v])
BY DEF Conn, TcpStates, SamePeer

LEMMA PeerStopped == ASSUME NEW k \in Conn, NEW v \in BOOLEAN PROVE SamePeer(k, [k EXCEPT !.stopped = v])
BY DEF Conn, SamePeer

LEMMA PeerOut == ASSUME NEW k \in Conn, NEW v \in 0 .. Mss PROVE SamePeer(k, [k EXCEPT !.out = v])
BY DEF Conn, SamePeer

LEMMA PeerMss == ASSUME NEW k \in Conn, NEW v \in 1 .. Mss PROVE SamePeer(k, [k EXCEPT !.mss = v])
BY DEF Conn, SamePeer

LEMMA PeerState == ASSUME NEW k \in Conn, NEW v \in Requested PROVE SamePeer(k, [k EXCEPT !.state = v])
BY DEF Conn, Requested, SamePeer

LEMMA PeerRes == ASSUME NEW k \in Conn, NEW v \in Results PROVE SamePeer(k, [k EXCEPT !.res = v])
BY DEF Conn, Results, SamePeer

LEMMA PeerLeft == ASSUME NEW k \in Conn, NEW v \in 0 .. MaxLen PROVE SamePeer(k, [k EXCEPT !.left = v])
BY DEF Conn, SamePeer

LEMMA PeerLine == ASSUME NEW k \in Conn, NEW v \in BOOLEAN PROVE SamePeer(k, [k EXCEPT !.line = v])
BY DEF Conn, SamePeer

LEMMA PeerTwice ==
  ASSUME NEW k, NEW q, NEW r, SamePeer(k, q), SamePeer(q, r) PROVE SamePeer(k, r)
BY DEF SamePeer

LEMMA PeerIdle == ASSUME NEW k \in Conn, NEW res \in Results PROVE SamePeer(k, Idle(k, res))
<1> DEFINE a == [k EXCEPT !.state = "idle"]
           r == [a EXCEPT !.res = res]
<1>1. a \in Conn /\ SamePeer(k, a)
  BY SetState, PeerState DEF Requested
<1> HIDE DEF a
<1>2. SamePeer(a, r)
  BY <1>1, PeerRes
<1>3. Idle(k, res) = r
  BY DEF Idle, a
<1> HIDE DEF r
<1> QED BY <1>1, <1>2, <1>3 DEF SamePeer

LEMMA PeerStop == ASSUME NEW k \in Conn PROVE SamePeer(k, Stop(k)) /\ SamePeer(k, Restart(k))
<1>1. TRUE \in BOOLEAN /\ FALSE \in BOOLEAN
  OBVIOUS
<1> QED BY <1>1, PeerStopped DEF Stop, Restart

LEMMA PeerSent == ASSUME NEW k \in Conn, NEW events PROVE SamePeer(k, Sent(k, events))
<1> DEFINE off == IF "acked" \in events THEN Smaller(k.left, k.mss) ELSE 0
           left == k.left - off
           a == [k EXCEPT !.left = left]
           z == [k EXCEPT !.left = 0]
           q == [z EXCEPT !.state = "idle"]
           s == [a EXCEPT !.out = Smaller(a.left, a.mss)]
<1>1. k.left \in 0 .. MaxLen /\ k.mss \in 1 .. Mss
  BY FieldFact
<1>2. left \in 0 .. MaxLen
  BY <1>1, SmallerFact
<1>3. Sent(k, events) \in {q, s, a}
  <2>1. Sent(k, events) = IF left = 0 THEN q ELSE Send(a)
    <3>1. (IF "acked" \in events THEN k.left - Smaller(k.left, k.mss) ELSE k.left) = left
      BY <1>1
    <3>2. q = [k EXCEPT !.left = 0, !.state = "idle"]
      OBVIOUS
    <3> HIDE DEF q, left, off
    <3> QED BY <3>1, <3>2 DEF Sent, a
  <2>2. Send(a) \in {s, a}
    BY DEF Send
  <2> HIDE DEF q, s, a, left
  <2> QED BY <2>1, <2>2
<1> HIDE DEF left
<1>4. a \in Conn /\ SamePeer(k, a)
  BY <1>2, SetLeft, PeerLeft
<1>5. z \in Conn /\ SamePeer(k, z)
  <2>1. 0 \in 0 .. MaxLen
    OBVIOUS
  <2> QED BY <2>1, SetLeft, PeerLeft
<1> HIDE DEF a, z
<1>6. SamePeer(z, q)
  BY <1>5, PeerState DEF Requested
<1>7. SamePeer(a, s)
  <2>1. a.left \in 0 .. MaxLen /\ a.mss \in 1 .. Mss
    BY <1>4, FieldFact
  <2>2. Smaller(a.left, a.mss) \in 0 .. Mss
    BY <2>1, SmallerFact
  <2> QED BY <1>4, <2>2, PeerOut
<1> HIDE DEF q, s
<1> QED BY <1>3, <1>4, <1>5, <1>6, <1>7, PeerTwice

LEMMA PeerReceived ==
  ASSUME NEW k \in Conn, NEW n \in 0 .. Mss, NEW eol \in Nat
  PROVE  SamePeer(k, Received(k, n, eol))
<1> DEFINE fits == Smaller(n, k.left)
           ends == k.line /\ eol \in 1 .. fits
           left == k.left - (IF ends THEN eol - 1 ELSE fits)
           a == [k EXCEPT !.left = left]
           b == Idle(a, "ok")
           res == IF k.left < n THEN "overflow" ELSE a.res
           d == [a EXCEPT !.res = res]
<1>1. k.left \in 0 .. MaxLen
  BY FieldFact
<1>2. fits \in 0 .. k.left
  BY <1>1, SmallerFact
<1>3. left \in 0 .. MaxLen
  BY <1>1, <1>2
<1>4. Received(k, n, eol) = IF left = 0 \/ ends \/ n < Mss THEN Stop(b) ELSE d
  BY DEF Received
<1> HIDE DEF fits, ends, left
<1>5. a \in Conn /\ SamePeer(k, a)
  BY <1>3, SetLeft, PeerLeft
<1>6. res \in Results /\ "ok" \in Results
  BY <1>5, FieldFact DEF Results
<1> HIDE DEF a, res
<1>7. b \in Conn /\ SamePeer(a, b)
  BY <1>5, <1>6, PeerIdle, IdleFact
<1> HIDE DEF b
<1>8. SamePeer(b, Stop(b))
  BY <1>7, PeerStop
<1>9. SamePeer(a, d)
  BY <1>5, <1>6, PeerRes
<1> HIDE DEF d
<1> QED BY <1>4, <1>5, <1>7, <1>8, <1>9, PeerTwice

\* A callback that does not close a connection leaves it to whom it belongs.
LEMMA PeerAppCall ==
  ASSUME NEW k \in Conn, NEW events, events \subseteq Events, NEW n \in 0 .. Mss, NEW eol \in Nat
  PROVE  LET r == AppCall(k, events, n, eol) IN r.tcp = "finWait1" \/ SamePeer(k, r)
<1> DEFINE over == events \intersect Errors # {}
           r == AppCall(k, events, n, eol)
<1> SUFFICES r.tcp = "finWait1" \/ SamePeer(k, r)
  OBVIOUS
<1>1. k.state \in Requested
  BY FieldFact
<1>2. over => ErrorOf(events) \in Results
  BY DEF ErrorOf, Errors, Results
<1>3. SamePeer(k, k)
  BY DEF SamePeer
<1>4. CASE k.state = "idle"
  BY <1>3, <1>4 DEF AppCall
<1>5. CASE k.state = "recv"
  <2> DEFINE a == [k EXCEPT !.state = "recv2"]
  <2>1. r = Restart(a)
    BY <1>5 DEF AppCall
  <2>2. a \in Conn /\ SamePeer(k, a)
    BY SetState, PeerState DEF Requested
  <2> HIDE DEF a
  <2>3. SamePeer(a, Restart(a))
    BY <2>2, PeerStop
  <2> QED BY <2>1, <2>2, <2>3, PeerTwice
<1>6. CASE k.state \notin {"idle", "recv"} /\ over
  <2>1. r = Idle(k, ErrorOf(events))
    <3>1. events # {"newdata"}
      BY <1>6 DEF Errors
    <3> QED BY <1>6, <3>1, Zenon DEF AppCall
  <2> QED BY <1>2, <1>6, <2>1, PeerIdle
<1>7. CASE k.state = "send" /\ ~over /\ Finishing(events)
  <2>1. r = Sent(k, events)
    BY <1>7 DEF AppCall, Finishing
  <2> QED BY <2>1, PeerSent
<1>8. CASE k.state = "close" /\ ~over
  <2> DEFINE a == [k EXCEPT !.state = "idle"]
  <2>1. r = Close(a)
    BY <1>8 DEF AppCall
  <2>2. a \in Conn
    BY SetState DEF Requested
  <2> HIDE DEF a
  <2>3. r.tcp = "finWait1"
    BY <2>1, <2>2, CloseFact
  <2> QED BY <2>3
<1>9. CASE k.state = "recv2" /\ ~over /\ "newdata" \in events
  <2>1. r = Received(k, n, eol)
    BY <1>9 DEF AppCall
  <2> QED BY <2>1, PeerReceived
<1>10. CASE k.state \in {"send", "connect"} /\ ~over /\ ~(k.state = "send" /\ Finishing(events))
  <2>1. r = Stop(k) \/ r = k
    BY <1>10 DEF AppCall, Finishing
  <2> QED BY <1>3, <2>1, PeerStop
<1>11. CASE k.state = "recv2" /\ ~over /\ "newdata" \notin events
  BY <1>3, <1>11 DEF AppCall
<1> QED BY <1>1, <1>4, <1>5, <1>6, <1>7, <1>8, <1>9, <1>10, <1>11 DEF Requested

\* Told of an error, a connection has no request to connect any more.
LEMMA ToldEnds == ASSUME NEW k \in Conn, NEW e \in Errors PROVE Told(k, e).state # "connect"
<1> DEFINE r == Told(k, e)
<1>1. CASE k.state = "connect"
  <2>1. {e} \intersect Errors # {} /\ {e} # {"newdata"}
    BY DEF Errors
  <2>2. r = Idle(k, ErrorOf({e}))
    BY <1>1, <2>1, Zenon DEF Told, AppCall
  <2>3. ErrorOf({e}) \in Results
    BY DEF ErrorOf, Errors, Results
  <2> QED BY <2>2, <2>3, IdleFact
<1>2. CASE k.state # "connect"
  BY <1>2, ToldFact
<1> QED BY <1>1, <1>2

-----------------------------------------------------------------------------
(***************************************************************************)
(* A step of the network, the table left alone.                            *)
(***************************************************************************)
Settles(k, r) ==
  /\ k.tcp # "reserved" /\ r.state # "connect"
  /\ r.tcp \in {"established", "reserved", "synSent"} => r.tcp = k.tcp /\ SamePeer(k, r)

LEMMA SettlesStep ==
  ASSUME PInv, UNCHANGED <<slot, call, connecting>>,
         \A c \in Conns : conn'[c] = conn[c] \/ Settles(conn[c], conn'[c])
  PROVE  Remembered'
<1>0. call.sock \in Conns
  BY DEF PInv, IInv, Others, CallType
<1>1. Dialing'
  <2>1. \A c \in Conns :
          /\ conn'[c].tcp \in {"reserved", "synSent"} => conn'[c].given # "no"
          /\ conn'[c].state = "connect" => conn'[c].tcp \in {"reserved", "synSent"}
          /\ conn'[c].state = "connect" /\ conn'[c].tcp = "synSent" => connecting = c
    BY DEF PInv, Remembered, Dialing, Settles, SamePeer
  <2>2. call.op = "connect" /\ call.at \in {"prep", "dial"} => Mine'.tcp = "reserved"
    BY <1>0 DEF PInv, Remembered, Dialing, Settles, Mine
  <2> QED BY <2>1, <2>2 DEF Dialing
<1>2. Found'
  BY DEF PInv, Remembered, Found
<1>3. NoneForgotten'
  BY DEF PInv, Remembered, NoneForgotten, Settles, SamePeer
<1> QED BY <1>1, <1>2, <1>3 DEF Remembered

LEMMA SettlesOnly ==
  ASSUME PInv, NEW c \in Conns, NEW k, Becomes(c, k), UNCHANGED <<slot, call, connecting>>,
         Settles(conn[c], k)
  PROVE  Remembered'
<1>1. \A d \in Conns : conn'[d] = IF d = c THEN k ELSE conn[d]
  BY DEF Becomes, PInv, IInv, Connections
<1> QED BY <1>1, SettlesStep

\* A connection that is not, or no longer, established.
LEMMA AwaySettles ==
  ASSUME NEW k \in Conn, k.tcp # "reserved", NEW out \in 0 .. Mss, NEW e \in Errors,
         NEW tcp \in TcpStates \ {"established", "reserved", "synSent"}
  PROVE  /\ k.state = "connect" \/ Settles(k, To(k, tcp, out))
         /\ Settles(k, Told(To(k, tcp, out), e))
<1> DEFINE r == To(k, tcp, out)
           q == Told(r, e)
<1>1. r \in Conn /\ r.tcp = tcp /\ r.state = k.state
  BY ToFact
<1> HIDE DEF r
<1>2. q.tcp \in {tcp, "finWait1"} /\ q.state # "connect"
  BY <1>1, ToldFact, ToldEnds
<1> HIDE DEF q
<1>3. k.state = "connect" \/ Settles(k, r)
  BY <1>1 DEF Settles
<1>4. Settles(k, q)
  BY <1>2 DEF Settles
<1> QED BY <1>3, <1>4 DEF q, r

-----------------------------------------------------------------------------
(***************************************************************************)
(* The main loop of uIP.                                                   *)
(***************************************************************************)
\* Only a socket of the program has a request to connect.
LEMMA OnlyDialing ==
  ASSUME PInv, NEW c \in Conns, conn[c].tcp \notin {"reserved", "synSent"}
  PROVE  conn[c].state # "connect"
BY DEF PInv, Remembered, Dialing

LEMMA SynRemembers == ASSUME PInv, NEW p \in Ports, Syn(p) PROVE Remembered'
<1> DEFINE free == {c \in Conns : conn[c].tcp = "closed"}
           wait == {c \in Conns : conn[c].tcp = "timeWait"}
<1>1. free # {} => Min(free) \in free
  BY MinFact, ZeroFact
<1>2. PICK c \in IF free # {} THEN {Min(free)} ELSE wait :
        Only(c, [To(conn[c], "synRcvd", 1) EXCEPT !.port = p])
  BY DEF Syn
<1> DEFINE a == To(conn[c], "synRcvd", 1)
           r == [a EXCEPT !.port = p]
<1>3. c \in Conns /\ conn[c] \in Conn /\ conn[c].tcp \in {"closed", "timeWait"}
  BY <1>1, <1>2 DEF PInv, IInv, Connections
<1> HIDE DEF free, wait
<1>4. conn[c].state # "connect"
  BY <1>3, OnlyDialing
<1>5. a \in Conn /\ a.tcp = "synRcvd" /\ a.state = conn[c].state
  <2>1. "synRcvd" \in TcpStates /\ 1 \in 0 .. Mss
    BY DEF TcpStates, Active
  <2>2. conn[c] \in Conn
    BY <1>3
  <2> QED BY <2>1, <2>2, ToFact
<1>6. Becomes(c, r) /\ UNCHANGED <<slot, call, connecting>>
  BY <1>2 DEF Only
<1> HIDE DEF a
<1>7. r \in Conn /\ r.tcp = "synRcvd" /\ r.state = conn[c].state
  BY <1>5, SetPort
<1> HIDE DEF r
<1>8. Settles(conn[c], r)
  BY <1>3, <1>4, <1>7 DEF Settles
<1> QED BY <1>3, <1>6, <1>8, SettlesOnly

\* An entry is written where none is pending.
LEMMA EntryMade ==
  ASSUME PInv, NEW c \in Conns, NEW r, Becomes(c, r), UNCHANGED <<call, connecting>>,
         conn[c].tcp # "reserved", r.tcp = "established", r.state # "connect",
         NEW i \in FreeSlots, NEW entry, slot' = [slot EXCEPT ![i] = entry],
         entry.pending = TRUE, entry.sock = c, entry.port = r.port
  PROVE  Remembered'
<1>1. i \in Slots /\ ~slot[i].pending /\ call.sock \in Conns
  BY DEF FreeSlots, PInv, IInv, Others, CallType
<1>2. \A d \in Conns : conn'[d] = IF d = c THEN r ELSE conn[d]
  BY DEF Becomes, PInv, IInv, Connections
<1>3. \A j \in Slots : slot'[j] = IF j = i THEN entry ELSE slot[j]
  BY <1>1 DEF PInv, IInv, Others
<1>4. Dialing'
  <2>1. \A d \in Conns :
          /\ conn'[d].tcp \in {"reserved", "synSent"} => conn'[d].given # "no"
          /\ conn'[d].state = "connect" => conn'[d].tcp \in {"reserved", "synSent"}
          /\ conn'[d].state = "connect" /\ conn'[d].tcp = "synSent" => connecting = d
    BY <1>2 DEF PInv, Remembered, Dialing
  <2>2. call.op = "connect" /\ call.at \in {"prep", "dial"} => Mine'.tcp = "reserved"
    BY <1>1, <1>2 DEF PInv, Remembered, Dialing, Mine
  <2> QED BY <2>1, <2>2 DEF Dialing
<1>5. Found'
  <2>1. call.at = "free" => call.slot \in Slots /\ call.slot # i
    BY <1>1 DEF PInv, Remembered, Found, IInv, Others, CallType
  <2> QED BY <1>3, <2>1 DEF PInv, Remembered, Found
<1>6. NoneForgotten'
  <2> SUFFICES ASSUME NEW d \in Conns, conn'[d].tcp = "established", conn'[d].given = "no"
               PROVE  \/ \E j \in Slots : slot'[j].pending /\ slot'[j].sock = d
                                          /\ slot'[j].port = conn'[d].port
                      \/ call.at = "take" /\ call.sock = d
    BY DEF NoneForgotten
  <2>1. CASE d = c
    BY <1>1, <1>2, <1>3, <2>1
  <2>2. CASE d # c
    <3>1. conn'[d] = conn[d]
      BY <1>2, <2>2
    <3>2. CASE call.at = "take" /\ call.sock = d
      BY <3>2
    <3>3. CASE ~(call.at = "take" /\ call.sock = d)
      <4>1. PICK j \in Slots : slot[j].pending /\ slot[j].sock = d /\ slot[j].port = conn[d].port
        BY <3>1, <3>3 DEF PInv, Remembered, NoneForgotten
      <4>2. slot'[j] = slot[j]
        BY <1>1, <1>3, <4>1
      <4> QED BY <3>1, <4>1, <4>2
    <3> QED BY <3>2, <3>3
  <2> QED BY <2>1, <2>2
<1> QED BY <1>4, <1>5, <1>6 DEF Remembered

LEMMA ConnectedRemembers == ASSUME PInv, NEW c \in Conns, Connected(c) PROVE Remembered'
<1> DEFINE a == [conn[c] EXCEPT !.tcp = "established"]
           k == [a EXCEPT !.out = 0]
           i == [k EXCEPT !.state = "idle"]
           entry == [pending |-> TRUE, sock |-> c, port |-> k.port]
           awaited == k.state = "connect" /\ connecting = c
<1>1. conn[c] \in Conn /\ conn[c].tcp \in {"synRcvd", "synSent"}
  BY DEF PInv, IInv, Connections, Connected
<1>2. a \in Conn /\ a.tcp = "established" /\ a.state = conn[c].state /\ SamePeer(conn[c], a)
  BY <1>1, SetTcp, PeerTcp DEF TcpStates, Active
<1>3. \/ awaited /\ Becomes(c, Stop(i)) /\ UNCHANGED slot
      \/ /\ ~awaited /\ FreeSlots # {}
         /\ slot' = [slot EXCEPT ![Min(FreeSlots)] = entry]
         /\ Becomes(c, Stop(k))
      \/ ~awaited /\ Becomes(c, Close(k)) /\ UNCHANGED slot
  BY DEF Connected
<1> HIDE DEF a
<1>4. k \in Conn /\ k.tcp = "established" /\ k.state = conn[c].state /\ SamePeer(conn[c], k)
  <2>1. k \in Conn /\ k.tcp = "established" /\ k.state = conn[c].state
    BY <1>2, SetOut
  <2>2. 0 \in 0 .. Mss
    OBVIOUS
  <2>3. SamePeer(a, k)
    BY <1>2, <2>2, PeerOut
  <2> HIDE DEF k
  <2> QED BY <1>2, <2>1, <2>3, PeerTwice
<1> HIDE DEF k
<1>5. i \in Conn /\ i.tcp = "established" /\ i.state = "idle" /\ SamePeer(conn[c], i)
  <2>1. i \in Conn /\ i.tcp = "established" /\ i.state = "idle"
    BY <1>4, SetState DEF Requested
  <2>2. SamePeer(k, i)
    BY <1>4, PeerState DEF Requested
  <2> HIDE DEF i
  <2> QED BY <1>4, <2>1, <2>2, PeerTwice
<1> HIDE DEF i
<1>6. UNCHANGED <<call, connecting>>
  BY DEF Connected
<1>7. k.state = "connect" /\ ~awaited => FALSE
  BY <1>1, <1>4 DEF PInv, Remembered, Dialing
<1>8. CASE awaited /\ Becomes(c, Stop(i)) /\ UNCHANGED slot
  <2> DEFINE r == Stop(i)
  <2>1. r.tcp = "established" /\ r.state = "idle" /\ SamePeer(i, r)
    BY <1>5, StopFact, PeerStop
  <2>2. Becomes(c, r)
    BY <1>8
  <2> HIDE DEF r
  <2>3. conn[c].given # "no"
    BY <1>1, <1>4, <1>8 DEF PInv, Remembered, Dialing
  <2>4. r.given # "no"
    BY <1>5, <2>1, <2>3 DEF SamePeer
  <2>5. call.sock \in Conns /\ \A d \in Conns : conn'[d] = IF d = c THEN r ELSE conn[d]
    BY <2>2 DEF Becomes, PInv, IInv, Connections, Others, CallType
  <2>6. Dialing'
    <3>1. \A d \in Conns :
            /\ conn'[d].tcp \in {"reserved", "synSent"} => conn'[d].given # "no"
            /\ conn'[d].state = "connect" => conn'[d].tcp \in {"reserved", "synSent"}
            /\ conn'[d].state = "connect" /\ conn'[d].tcp = "synSent" => connecting = d
      BY <2>1, <2>5 DEF PInv, Remembered, Dialing
    <3>2. call.op = "connect" /\ call.at \in {"prep", "dial"} => Mine'.tcp = "reserved"
      BY <1>1, <1>6, <2>5 DEF PInv, Remembered, Dialing, Mine
    <3> QED BY <1>6, <3>1, <3>2 DEF Dialing
  <2>7. Found'
    BY <1>6, <1>8 DEF PInv, Remembered, Found
  <2>8. NoneForgotten'
    BY <1>6, <1>8, <2>4, <2>5 DEF PInv, Remembered, NoneForgotten
  <2> QED BY <2>6, <2>7, <2>8 DEF Remembered
<1>9. CASE /\ ~awaited /\ FreeSlots # {}
           /\ slot' = [slot EXCEPT ![Min(FreeSlots)] = entry]
           /\ Becomes(c, Stop(k))
  <2> DEFINE r == Stop(k)
  <2>1. r.tcp = "established" /\ r.state # "connect" /\ SamePeer(k, r)
    BY <1>4, <1>7, <1>9, StopFact, PeerStop
  <2>2. Becomes(c, r)
    BY <1>9
  <2> HIDE DEF r
  <2>3. Min(FreeSlots) \in FreeSlots
    BY <1>9, MinFact, ZeroFact DEF FreeSlots
  <2>4. entry.pending = TRUE /\ entry.sock = c /\ entry.port = r.port
    BY <2>1 DEF SamePeer
  <2> HIDE DEF entry
  <2> QED BY <1>1, <1>6, <1>9, <2>1, <2>2, <2>3, <2>4, EntryMade
<1>10. CASE ~awaited /\ Becomes(c, Close(k)) /\ UNCHANGED slot
  <2> DEFINE r == Close(k)
  <2>1. r.tcp = "finWait1" /\ r.state # "connect"
    BY <1>4, <1>7, <1>10, CloseFact
  <2>2. Becomes(c, r)
    BY <1>10
  <2> HIDE DEF r
  <2>3. Settles(conn[c], r)
    BY <1>1, <2>1 DEF Settles
  <2> QED BY <1>6, <1>10, <2>2, <2>3, SettlesOnly
<1> QED BY <1>3, <1>8, <1>9, <1>10

LEMMA SegmentRemembers ==
  ASSUME PInv, NEW c \in Conns, NEW n \in 0 .. Mss, NEW acks \in BOOLEAN, NEW w \in 1 .. Mss,
         NEW eol \in 0 .. n, Segment(c, n, acks, w, eol)
  PROVE  Remembered'
<1> DEFINE data == IF conn[c].stopped THEN 0 ELSE n
           events == (IF data > 0 THEN {"newdata"} ELSE {}) \union (IF acks THEN {"acked"} ELSE {})
           a == [conn[c] EXCEPT !.mss = w]
           out == IF acks THEN 0 ELSE a.out
           k == [a EXCEPT !.out = out]
           r == IF events = {} THEN k ELSE AppCall(k, events, data, eol)
<1>1. conn[c] \in Conn /\ conn[c].tcp = "established"
  BY DEF PInv, IInv, Connections, Segment
<1>2. a \in Conn /\ a.tcp = "established" /\ a.state = conn[c].state /\ SamePeer(conn[c], a)
      /\ a.out \in 0 .. Mss
  BY <1>1, SetMss, PeerMss, FieldFact
<1>3. Becomes(c, r) /\ UNCHANGED <<slot, call, connecting>>
  BY DEF Segment
<1>4. data \in 0 .. Mss /\ eol \in Nat /\ events \subseteq Events
  BY DEF Events, Errors
<1> HIDE DEF a, data, events
<1>5. out \in 0 .. Mss
  BY <1>2
<1> HIDE DEF out
<1>6. k \in Conn /\ k.tcp = "established" /\ k.state = conn[c].state
  BY <1>2, <1>5, SetOut
<1>7. SamePeer(a, k)
  BY <1>2, <1>5, PeerOut
<1> HIDE DEF k
<1>8. SamePeer(conn[c], k) /\ k.state # "connect"
  BY <1>1, <1>2, <1>6, <1>7, PeerTwice, OnlyDialing
<1>9. Settles(conn[c], r)
  <2>1. CASE events = {}
    <3>1. r = k
      BY <2>1
    <3> HIDE DEF r
    <3> QED BY <1>1, <1>6, <1>8, <3>1 DEF Settles
  <2>2. CASE events # {}
    <3>1. r = AppCall(k, events, data, eol)
      BY <2>2
    <3> HIDE DEF r
    <3>2. Handled(k, events, r) /\ (r.tcp = "finWait1" \/ SamePeer(k, r))
      BY <1>4, <1>6, <3>1, AppCallFact, PeerAppCall
    <3>3. r.state # "connect" /\ r.tcp \in {"established", "finWait1"}
      BY <1>6, <1>8, <3>2 DEF Handled
    <3>4. SamePeer(k, r) => SamePeer(conn[c], r)
      BY <1>8, PeerTwice
    <3> QED BY <1>1, <3>2, <3>3, <3>4 DEF Settles
  <2> QED BY <2>1, <2>2
<1> HIDE DEF r
<1> QED BY <1>3, <1>9, SettlesOnly

LEMMA FinRemembers == ASSUME PInv, NEW c \in Conns, NEW acks \in BOOLEAN, Fin(c, acks) PROVE Remembered'
<1> DEFINE events == {"closed"} \union (IF acks THEN {"acked"} ELSE {})
           k == AppCall(conn[c], events, 0, 0)
           r == To(k, "lastAck", 1)
<1>1. conn[c] \in Conn /\ conn[c].tcp = "established"
  BY DEF PInv, IInv, Connections, Fin
<1>2. events \subseteq Events /\ 0 \in 0 .. Mss /\ 1 \in 0 .. Mss /\ "lastAck" \in TcpStates
  BY DEF Events, Errors, TcpStates, Active
<1>3. Becomes(c, r) /\ UNCHANGED <<slot, call, connecting>>
  BY DEF Fin, Only
<1> HIDE DEF events
<1>4. Handled(conn[c], events, k)
  BY <1>1, <1>2, AppCallFact
<1> HIDE DEF k
<1>5. k \in Conn /\ k.state # "connect"
  BY <1>1, <1>4, OnlyDialing DEF Handled
<1>6. r.tcp = "lastAck" /\ r.state = k.state
  BY <1>2, <1>5, ToFact
<1> HIDE DEF r
<1>7. Settles(conn[c], r)
  BY <1>1, <1>5, <1>6 DEF Settles
<1> QED BY <1>3, <1>7, SettlesOnly

\* The states after closing, and the errors told in them.
LEMMA AwayRemembers ==
  ASSUME PInv, NEW c \in Conns, conn[c].tcp # "reserved", NEW out \in 0 .. Mss, NEW e \in Errors,
         NEW tcp \in TcpStates \ {"established", "reserved", "synSent"},
         \/ conn[c].tcp # "synSent" /\ Only(c, To(conn[c], tcp, out))
         \/ Only(c, Told(To(conn[c], tcp, out), e))
  PROVE  Remembered'
<1> DEFINE r == To(conn[c], tcp, out)
           q == Told(To(conn[c], tcp, out), e)
<1>1. conn[c] \in Conn
  BY DEF PInv, IInv, Connections
<1>2. conn[c].tcp # "synSent" => conn[c].state # "connect"
  BY OnlyDialing
<1>3. conn[c].state = "connect" \/ Settles(conn[c], r)
  BY <1>1, AwaySettles
<1>4. Settles(conn[c], q)
  BY <1>1, AwaySettles
<1>5. \/ Settles(conn[c], r) /\ Only(c, r)
      \/ Settles(conn[c], q) /\ Only(c, q)
  BY <1>2, <1>3, <1>4
<1> HIDE DEF r, q
<1> QED BY <1>5, SettlesOnly DEF Only

LEMMA ClosingRemembers ==
  ASSUME PInv, NEW c \in Conns, NEW fin \in BOOLEAN, NEW acks \in BOOLEAN, Closing(c, fin, acks)
  PROVE  Remembered'
<1>1. {"closed", "timeWait", "closing", "finWait2"} \subseteq TcpStates \ {"established", "reserved", "synSent"}
      /\ {0, 1} \subseteq 0 .. Mss /\ "closed" \in Errors
  BY DEF TcpStates, Active, Errors
<1>2. conn[c].tcp \notin {"reserved", "synSent"}
  BY DEF Closing
<1>3. \/ Only(c, Told(To(conn[c], "closed", 0), "closed"))
      \/ Only(c, Told(To(conn[c], "timeWait", 0), "closed"))
      \/ Only(c, Told(To(conn[c], "closing", 1), "closed"))
      \/ Only(c, To(conn[c], "finWait2", 0))
      \/ Only(c, To(conn[c], "timeWait", 0))
  BY DEF Closing, Closed
<1> QED BY <1>1, <1>2, <1>3, AwayRemembers

LEMMA ResetRemembers == ASSUME PInv, NEW c \in Conns, Reset(c) PROVE Remembered'
<1>1. "closed" \in TcpStates \ {"established", "reserved", "synSent"} /\ 0 \in 0 .. Mss /\ "aborted" \in Errors
  BY DEF TcpStates, Active, Errors
<1>2. Only(c, Told(To(conn[c], "closed", 0), "aborted")) /\ conn[c].tcp # "reserved"
  BY DEF Reset, Closed, Active
<1> QED BY <1>1, <1>2, AwayRemembers

LEMMA PollRemembers == ASSUME PInv, NEW gone \in SUBSET Conns, Poll(gone) PROVE Remembered'
<1> DEFINE After(c) ==
      CASE c \in gone /\ conn[c].tcp \in Waiting -> Closed(conn[c])
        [] c \in gone /\ conn[c].tcp \notin Waiting -> Told(Closed(conn[c]), "timedout")
        [] c \notin gone /\ conn[c].tcp = "established" /\ conn[c].out = 0 -> Told(conn[c], "poll")
        [] OTHER -> conn[c]
<1>1. conn' = [c \in Conns |-> After(c)] /\ UNCHANGED <<slot, call, connecting>>
      /\ \A c \in gone : MayGo(c)
  BY DEF Poll
<1>2. ASSUME NEW c \in Conns PROVE After(c) = conn[c] \/ Settles(conn[c], After(c))
  <2>1. conn[c] \in Conn
    BY DEF PInv, IInv, Connections
  <2>2. "closed" \in TcpStates \ {"established", "reserved", "synSent"} /\ 0 \in 0 .. Mss /\ "timedout" \in Errors
    BY DEF TcpStates, Active, Errors
  <2>3. CASE c \in gone /\ conn[c].tcp \in Waiting
    <3>1. After(c) = Closed(conn[c])
      BY <2>3, Zenon
    <3>2. conn[c].tcp # "reserved" /\ conn[c].state # "connect"
      BY <2>3, OnlyDialing DEF Waiting
    <3>3. Settles(conn[c], Closed(conn[c]))
      BY <2>1, <2>2, <3>2, AwaySettles DEF Closed
    <3> HIDE DEF After
    <3> QED BY <3>1, <3>3
  <2>4. CASE c \in gone /\ conn[c].tcp \notin Waiting
    <3>1. After(c) = Told(Closed(conn[c]), "timedout")
      BY <2>4, Zenon
    <3>2. conn[c].tcp # "reserved"
      BY <1>1, <2>4 DEF MayGo, Active, Waiting
    <3>3. Settles(conn[c], Told(Closed(conn[c]), "timedout"))
      BY <2>1, <2>2, <3>2, AwaySettles DEF Closed
    <3> HIDE DEF After
    <3> QED BY <3>1, <3>3
  <2>5. CASE c \notin gone /\ conn[c].tcp = "established" /\ conn[c].out = 0
    <3> DEFINE r == AppCall(conn[c], {"poll"}, 0, 0)
    <3>1. After(c) = r
      BY <2>5, Zenon DEF Told
    <3>2. {"poll"} \subseteq Events /\ 0 \in 0 .. Mss /\ 0 \in Nat
      BY DEF Events
    <3>3. Handled(conn[c], {"poll"}, r) /\ (r.tcp = "finWait1" \/ SamePeer(conn[c], r))
      BY <2>1, <3>2, AppCallFact, PeerAppCall
    <3> HIDE DEF r, After
    <3>4. conn[c].state # "connect"
      BY <2>5, OnlyDialing
    <3>5. Settles(conn[c], r)
      BY <2>5, <3>3, <3>4 DEF Handled, Settles
    <3> QED BY <3>1, <3>5
  <2>6. CASE c \notin gone /\ ~(conn[c].tcp = "established" /\ conn[c].out = 0)
    BY <2>6, Zenon
  <2> QED BY <2>3, <2>4, <2>5, <2>6
<1> HIDE DEF After
<1>3. \A c \in Conns : conn'[c] = conn[c] \/ Settles(conn[c], conn'[c])
  BY <1>1, <1>2
<1> QED BY <1>1, <1>3, SettlesStep

LEMMA NetworkRemembers == ASSUME PInv, Network PROVE Remembered'
<1>1. CASE Start
  BY <1>1, SettlesStep DEF Start
<1>2. CASE \E p \in Ports : Syn(p)
  BY <1>2, SynRemembers
<1>3. CASE \E c \in Conns : Connected(c) \/ Reset(c)
  BY <1>3, ConnectedRemembers, ResetRemembers
<1>4. CASE \E c \in Conns : \E n \in 0 .. Mss, acks \in BOOLEAN, w \in 1 .. Mss : \E eol \in 0 .. n :
             Segment(c, n, acks, w, eol)
  BY <1>4, SegmentRemembers
<1>5. CASE \E c \in Conns : \E acks \in BOOLEAN : Fin(c, acks)
  BY <1>5, FinRemembers
<1>6. CASE \E c \in Conns : \E fin, acks \in BOOLEAN : Closing(c, fin, acks)
  BY <1>6, ClosingRemembers
<1>7. CASE \E gone \in SUBSET Conns : Poll(gone)
  BY <1>7, PollRemembers
<1> QED BY <1>1, <1>2, <1>3, <1>4, <1>5, <1>6, <1>7 DEF Network

-----------------------------------------------------------------------------
(***************************************************************************)
(* The main program.                                                       *)
(***************************************************************************)
\* While the program looks at no entry, the table has every connection.
LEMMA InTable ==
  ASSUME PInv, call.at # "take", NEW c \in Conns, conn[c].tcp = "established", conn[c].given = "no"
  PROVE  \E i \in Slots : slot[i].pending /\ slot[i].sock = c /\ slot[i].port = conn[c].port
BY DEF PInv, Remembered, NoneForgotten

\* A step of a call to which the table means nothing.
LEMMA CallRemembers ==
  ASSUME PInv, UNCHANGED slot, call.at # "take", call'.at # "free", Dialing',
         \A c \in Conns : conn'[c].tcp = "established" =>
           conn[c].tcp = "established" /\ SamePeer(conn[c], conn'[c])
  PROVE  Remembered'
<1>1. NoneForgotten'
  BY InTable DEF NoneForgotten, SamePeer
<1> QED BY <1>1 DEF Remembered, Found

LEMMA SocketRemembers == ASSUME PInv, Socket PROVE Remembered'
<1> DEFINE free == {c \in Conns : conn[c].tcp = "closed"}
           m == Min(free)
           a == To(conn[m], "reserved", 0)
           r == [a EXCEPT !.given = "yes"]
<1>1. m \in Conns
  BY MinFact, ZeroFact DEF Socket
<1>2. Becomes(m, r) /\ UNCHANGED <<slot, connecting, call>> /\ call.at = "none"
  BY DEF Socket, At
<1> HIDE DEF m
<1>3. conn[m] \in Conn
  BY <1>1 DEF PInv, IInv, Connections
<1>4. a \in Conn /\ a.tcp = "reserved" /\ a.state = conn[m].state
  <2>1. "reserved" \in TcpStates /\ 0 \in 0 .. Mss
    BY DEF TcpStates
  <2> QED BY <1>3, <2>1, ToFact
<1> HIDE DEF a
<1>5. r.tcp = "reserved" /\ r.state = conn[m].state /\ r.given = "yes"
  <2>1. r.given = "yes"
    BY <1>4 DEF Conn
  <2> QED BY <1>4, <2>1, SetGiven
<1> HIDE DEF r
<1>6. \A c \in Conns : conn'[c] = IF c = m THEN r ELSE conn[c]
  BY <1>1, <1>2 DEF Becomes, PInv, IInv, Connections
<1>7. \A c \in Conns : conn[c].state = "idle"
  BY <1>2, AllIdle DEF PInv
<1>8. Dialing'
  BY <1>2, <1>5, <1>6, <1>7 DEF PInv, Remembered, Dialing
<1> QED BY <1>2, <1>5, <1>6, <1>8, CallRemembers DEF SamePeer

LEMMA BeginRemembers ==
  ASSUME PInv, NEW op \in Ops, NEW c \in Conns, NEW len \in 0 .. MaxLen, NEW line \in BOOLEAN,
         Begin(op, c, len, line)
  PROVE  Remembered'
<1>1. call' = [at |-> "prep", op |-> op, sock |-> c, len |-> len, line |-> line,
               slot |-> 0, port |-> Nobody, late |-> FALSE]
  BY DEF Begin, NoCall
<1>2. UNCHANGED <<conn, slot, connecting>> /\ call.at = "none"
      /\ (op = "connect" => conn[c].tcp = "reserved")
  BY DEF Begin, At
<1>3. call'.at = "prep" /\ call'.op = op /\ call'.sock = c
  BY <1>1
<1>4. Dialing'
  BY <1>2, <1>3 DEF PInv, Remembered, Dialing, Mine
<1> QED BY <1>2, <1>3, <1>4, CallRemembers DEF SamePeer

LEMMA PrepRemembers == ASSUME PInv, Prep PROVE Remembered'
<1> DEFINE s == call.sock
           next == CASE call.op \in {"send", "close"} -> "force"
                     [] call.op = "recv" -> "wait"
                     [] call.op = "connect" -> "dial"
           res == IF call.op = "recv" THEN "buffer" ELSE "ok"
           a == [conn[s] EXCEPT !.state = call.op]
           b == [a EXCEPT !.left = call.len]
           d == [b EXCEPT !.line = call.line]
           r == [d EXCEPT !.res = res]
           late == call.op # "connect" /\ Mine.tcp # "established"
           c1 == [call EXCEPT !.at = next]
           c2 == [c1 EXCEPT !.late = late]
<1>1. call.at = "prep" /\ call \in CallType /\ call.op \in Ops
  BY DEF Prep, At, PInv, IInv, Others, Places
<1>2. s \in Conns /\ call.len \in 0 .. MaxLen /\ call.line \in BOOLEAN /\ conn[s] \in Conn
  BY <1>1 DEF CallType, PInv, IInv, Connections
<1>3. Becomes(s, r) /\ call' = c2 /\ UNCHANGED <<slot, connecting>>
  BY DEF Prep, Mine
<1>4. next \in {"force", "wait", "dial"}
  BY <1>1 DEF Ops
<1> HIDE DEF next, late
<1>5. c2.at = next /\ c2.op = call.op /\ c2.sock = s
  BY <1>1 DEF CallType
<1> HIDE DEF c1, c2
<1>6. a \in Conn /\ a.tcp = conn[s].tcp /\ a.state = call.op /\ SamePeer(conn[s], a)
  <2>1. call.op \in Requested
    BY <1>1 DEF Ops, Requested
  <2> QED BY <1>2, <2>1, SetState, PeerState
<1> HIDE DEF a
<1>7. b \in Conn /\ b.tcp = conn[s].tcp /\ b.state = call.op /\ SamePeer(a, b)
  BY <1>2, <1>6, SetLeft, PeerLeft
<1> HIDE DEF b
<1>8. d \in Conn /\ d.tcp = conn[s].tcp /\ d.state = call.op /\ SamePeer(b, d)
  BY <1>2, <1>7, SetLine, PeerLine
<1>9. res \in Results
  BY DEF Results
<1> HIDE DEF d, res
<1>10. r.tcp = conn[s].tcp /\ r.state = call.op /\ SamePeer(d, r)
  BY <1>8, <1>9, SetRes, PeerRes
<1> HIDE DEF r
<1>11. SamePeer(conn[s], r)
  BY <1>6, <1>7, <1>8, <1>10 DEF SamePeer
<1>12. \A c \in Conns : conn'[c] = IF c = s THEN r ELSE conn[c]
  BY <1>2, <1>3 DEF Becomes, PInv, IInv, Connections
<1>13. \A c \in Conns : conn[c].state = "idle"
  BY <1>1, AllIdle DEF PInv
<1>14. call.op = "connect" => conn[s].tcp = "reserved"
  BY <1>1 DEF PInv, Remembered, Dialing, Mine
<1>15. Dialing'
  <2>1. Mine' = r
    BY <1>2, <1>3, <1>5, <1>12 DEF Mine
  <2>2. \A c \in Conns :
          /\ conn'[c].tcp \in {"reserved", "synSent"} => conn'[c].given # "no"
          /\ conn'[c].state = "connect" => conn'[c].tcp = "reserved"
    BY <1>10, <1>11, <1>12, <1>13, <1>14 DEF PInv, Remembered, Dialing, SamePeer
  <2>3. call'.op = "connect" => Mine'.tcp = "reserved"
    BY <1>3, <1>5, <1>10, <1>14, <2>1
  <2> QED BY <2>2, <2>3 DEF Dialing
<1>16. call'.at # "free"
  BY <1>3, <1>4, <1>5
<1>17. \A c \in Conns : conn'[c].tcp = conn[c].tcp /\ SamePeer(conn[c], conn'[c])
  BY <1>10, <1>11, <1>12 DEF SamePeer
<1> QED BY <1>1, <1>3, <1>15, <1>16, <1>17, CallRemembers

LEMMA ForceRemembers == ASSUME PInv, ForceInterrupt PROVE Remembered'
<1>1. call \in CallType /\ call.at = "force" /\ GoTo("wait") /\ UNCHANGED <<conn, slot, connecting>>
  BY DEF ForceInterrupt, At, PInv, IInv, Others
<1>2. call'.at = "wait"
  BY <1>1, GoToFact
<1>3. Dialing'
  BY <1>1, <1>2 DEF PInv, Remembered, Dialing
<1> QED BY <1>1, <1>2, <1>3, CallRemembers DEF SamePeer

LEMMA DialRemembers == ASSUME PInv, Dial PROVE Remembered'
<1> DEFINE s == call.sock
           a == [conn[s] EXCEPT !.tcp = "synSent"]
           b == [a EXCEPT !.out = 1]
           r == [b EXCEPT !.mss = Mss]
<1>1. call \in CallType /\ call.at = "dial" /\ GoTo("wait") /\ Becomes(s, r) /\ connecting' = s
      /\ UNCHANGED slot /\ call.op = "connect"
  BY DEF Dial, At, Mine, PInv, IInv, Others, Places
<1>2. s \in Conns
  BY <1>1 DEF CallType
<1>3. call'.at = "wait"
  BY <1>1, GoToFact
<1>4. conn[s] \in Conn /\ "synSent" \in TcpStates /\ 1 \in 0 .. Mss /\ Mss \in 1 .. Mss
  BY <1>2 DEF PInv, IInv, Connections, TcpStates, Active
<1>5. a \in Conn /\ SamePeer(conn[s], a) /\ a.tcp = "synSent"
  BY <1>4, SetTcp, PeerTcp
<1> HIDE DEF a
<1>6. b \in Conn /\ SamePeer(a, b) /\ b.tcp = "synSent"
  BY <1>4, <1>5, SetOut, PeerOut
<1> HIDE DEF b
<1>7. SamePeer(b, r) /\ r.tcp = "synSent"
  BY <1>4, <1>6, SetMss, PeerMss
<1> HIDE DEF r
<1>8. SamePeer(conn[s], r)
  BY <1>5, <1>6, <1>7 DEF SamePeer
<1>9. \A c \in Conns : conn'[c] = IF c = s THEN r ELSE conn[c]
  BY <1>1, <1>2 DEF Becomes, PInv, IInv, Connections
<1>10. conn[s].given # "no"
  BY <1>1, <1>2 DEF PInv, Remembered, Dialing, Mine
<1>11. \A c \in Conns : c # s => conn[c].state # "connect"
  BY DEF PInv, IInv, Requests
<1>12. Dialing'
  BY <1>1, <1>3, <1>7, <1>8, <1>9, <1>10, <1>11 DEF PInv, Remembered, Dialing, SamePeer
<1>13. \A c \in Conns : conn'[c].tcp = "established" =>
         conn[c].tcp = "established" /\ SamePeer(conn[c], conn'[c])
  BY <1>7, <1>9 DEF SamePeer
<1> QED BY <1>1, <1>3, <1>12, <1>13, CallRemembers

\* What is left of the results once they were read belongs to whom it did.
LEMMA PeerRead == ASSUME NEW k \in Conn PROVE SamePeer(k, [k EXCEPT !.left = 0, !.line = FALSE, !.res = "ok"])
BY DEF Conn, SamePeer

\* A call that ends, with what a returning call or a timeout makes of its connection.
LEMMA EndRemembers ==
  ASSUME PInv, call.at = "wait", call' = NoCall, NEW r, conn' = [conn EXCEPT ![call.sock] = r],
         r.state = "idle", r.tcp = Mine.tcp, SamePeer(Mine, r), UNCHANGED slot
  PROVE  Remembered'
<1>1. call.sock \in Conns
  BY DEF PInv, IInv, Others, CallType
<1>2. \A c \in Conns : conn'[c] = IF c = call.sock THEN r ELSE conn[c]
  BY <1>1 DEF PInv, IInv, Connections
<1>3. \A c \in Conns : conn'[c].tcp = conn[c].tcp /\ SamePeer(conn[c], conn'[c])
  BY <1>2 DEF Mine, SamePeer
<1>4. \A c \in Conns : conn'[c].state # "connect"
  BY <1>2 DEF PInv, IInv, Requests
<1>5. call'.at = "none"
  BY NoCallFact
<1>6. Dialing'
  BY <1>3, <1>4, <1>5 DEF PInv, Remembered, Dialing, SamePeer
<1> QED BY <1>3, <1>5, <1>6, CallRemembers

LEMMA ReturnRemembers == ASSUME PInv, Return PROVE Remembered'
<1> DEFINE r == [Mine EXCEPT !.left = 0, !.line = FALSE, !.res = "ok"]
<1>1. call.at = "wait" /\ Mine.state = "idle" /\ call' = NoCall /\ UNCHANGED slot
      /\ conn' = [conn EXCEPT ![call.sock] = r]
  BY DEF Return, At, Becomes
<1>2. Mine \in Conn
  BY DEF PInv, IInv, Connections, Others, CallType, Mine
<1>3. r.tcp = Mine.tcp /\ r.state = "idle" /\ SamePeer(Mine, r)
  BY <1>1, <1>2, ReadFact, PeerRead
<1> HIDE DEF r
<1> QED BY <1>1, <1>3, EndRemembers

LEMMA RecvTimeoutRemembers == ASSUME PInv, RecvTimeout PROVE Remembered'
<1> DEFINE k == [Mine EXCEPT !.state = "idle"]
           r == [k EXCEPT !.left = 0, !.line = FALSE, !.res = "ok"]
<1>1. call.at = "wait" /\ call' = NoCall /\ UNCHANGED slot /\ conn' = [conn EXCEPT ![call.sock] = r]
  BY DEF RecvTimeout, At, Mine
<1>2. Mine \in Conn
  BY DEF PInv, IInv, Connections, Others, CallType, Mine
<1>3. k \in Conn /\ k.tcp = Mine.tcp /\ k.state = "idle" /\ SamePeer(Mine, k)
  BY <1>2, SetState, PeerState DEF Requested
<1> HIDE DEF k
<1>4. r.tcp = Mine.tcp /\ r.state = "idle" /\ SamePeer(k, r)
  BY <1>3, ReadFact, PeerRead
<1> HIDE DEF r
<1>5. SamePeer(Mine, r)
  BY <1>3, <1>4, PeerTwice
<1> QED BY <1>1, <1>4, <1>5, EndRemembers

\* Looking at the table: an entry that is found is pending.
LEMMA AcceptLookRemembers == ASSUME PInv, AcceptLook PROVE Remembered'
<1> DEFINE entry == slot[call.slot]
           found == [call EXCEPT !.at = "free"]
           f == [found EXCEPT !.sock = entry.sock]
           on == [call EXCEPT !.slot = call.slot + 1]
           again == [call EXCEPT !.slot = 0]
<1>1. call \in CallType /\ call.at = "look" /\ UNCHANGED <<conn, slot, connecting>>
      /\ ((call' = f /\ entry.pending) \/ call' = on \/ call' = NoCall \/ call' = again)
  BY DEF AcceptLook, At, history, PInv, IInv, Others
<1>2. f.at = "free" /\ f.slot = call.slot /\ f.sock = entry.sock
  BY <1>1 DEF CallType
<1>3. on.at = "look" /\ again.at = "look"
  BY <1>1 DEF CallType
<1> HIDE DEF f, on, again
<1>4. call'.at \in {"none", "look", "free"}
  BY <1>1, <1>2, <1>3, NoCallFact
<1>5. Dialing'
  BY <1>1, <1>4 DEF PInv, Remembered, Dialing
<1>6. Found'
  BY <1>1, <1>2, <1>3, NoCallFact DEF Found
<1>7. NoneForgotten'
  BY <1>1, InTable DEF NoneForgotten
<1> QED BY <1>5, <1>6, <1>7 DEF Remembered

\* The entry is freed, and its connection is in the hands of elua_accept.
LEMMA AcceptFreeRemembers == ASSUME PInv, AcceptFree PROVE Remembered'
<1> DEFINE taken == [slot[call.slot] EXCEPT !.pending = FALSE]
<1>1. call \in CallType /\ call.at = "free" /\ UNCHANGED <<conn, connecting>>
      /\ GoTo("take") /\ slot' = [slot EXCEPT ![call.slot] = taken]
  BY DEF AcceptFree, At, PInv, IInv, Others
<1>2. call'.at = "take" /\ call'.sock = call.sock
  BY <1>1, GoToFact
<1>3. slot[call.slot].sock = call.sock /\ call.slot \in Slots
  BY <1>1 DEF PInv, Remembered, Found, CallType
<1> HIDE DEF taken
<1>4. \A i \in Slots : i # call.slot => slot'[i] = slot[i]
  BY <1>1 DEF PInv, IInv, Others
<1>5. Dialing'
  BY <1>1, <1>2 DEF PInv, Remembered, Dialing
<1>6. NoneForgotten'
  <2> SUFFICES ASSUME NEW c \in Conns, conn[c].tcp = "established", conn[c].given = "no", c # call.sock
               PROVE  \E i \in Slots : slot'[i].pending /\ slot'[i].sock = c /\ slot'[i].port = conn[c].port
    BY <1>1, <1>2 DEF NoneForgotten
  <2>1. PICK i \in Slots : slot[i].pending /\ slot[i].sock = c /\ slot[i].port = conn[c].port
    BY <1>1, InTable
  <2>2. slot'[i] = slot[i]
    BY <1>3, <1>4, <2>1
  <2> QED BY <2>1, <2>2
<1> QED BY <1>2, <1>5, <1>6 DEF Remembered, Found

\* The program is handed the connection the entry names now; the one it had found, if
\* another, is missed.
LEMMA AcceptTakeRemembers == ASSUME PInv, AcceptTake PROVE Remembered'
<1> DEFINE sock == slot[call.slot].sock
           Given(c) == CASE c = sock -> [conn[c] EXCEPT !.given = "yes"]
                         [] c # sock /\ c = call.sock -> [conn[c] EXCEPT !.given = "missed"]
                         [] OTHER -> conn[c]
           left == IF slot[call.slot].pending THEN slot[call.slot] ELSE Free
<1>1. call.at = "take" /\ conn' = [c \in Conns |-> Given(c)] /\ call' = NoCall
      /\ slot' = [slot EXCEPT ![call.slot] = left] /\ UNCHANGED connecting
  BY DEF AcceptTake, At
<1>2. ASSUME NEW c \in Conns
      PROVE  /\ Given(c).tcp = conn[c].tcp /\ Given(c).state = conn[c].state /\ Given(c).port = conn[c].port
             /\ Given(c).given = "no" => conn[c].given = "no" /\ c # call.sock
  <2>1. conn[c] \in Conn
    BY DEF PInv, IInv, Connections
  <2>2. \/ Given(c) = conn[c] /\ c # call.sock
        \/ Given(c) = [conn[c] EXCEPT !.given = "yes"]
        \/ Given(c) = [conn[c] EXCEPT !.given = "missed"]
    <3> HIDE DEF sock
    <3>1. CASE c = sock
      BY <3>1, Zenon
    <3>2. CASE c # sock /\ c = call.sock
      BY <3>2, Zenon
    <3>3. CASE c # sock /\ c # call.sock
      BY <3>3, Zenon
    <3> QED BY <3>1, <3>2, <3>3
  <2> HIDE DEF Given
  <2>3. \A v \in {"yes", "missed"} :
          LET q == [conn[c] EXCEPT !.given = v]
          IN  q.tcp = conn[c].tcp /\ q.state = conn[c].state /\ q.port = conn[c].port /\ q.given = v
    BY <2>1 DEF Conn
  <2> QED BY <2>2, <2>3
<1> HIDE DEF Given
<1>3. \A c \in Conns : conn'[c] = Given(c)
  BY <1>1
<1>4. call'.at = "none"
  BY <1>1, NoCallFact
<1>5. \A i \in Slots : slot[i].pending => slot'[i] = slot[i]
  BY <1>1 DEF PInv, IInv, Others
<1>6. Dialing'
  BY <1>1, <1>2, <1>3, <1>4 DEF PInv, Remembered, Dialing
<1>7. NoneForgotten'
  <2> SUFFICES ASSUME NEW c \in Conns, conn'[c].tcp = "established", conn'[c].given = "no"
               PROVE  \E i \in Slots : slot'[i].pending /\ slot'[i].sock = c /\ slot'[i].port = conn'[c].port
    BY DEF NoneForgotten
  <2>1. conn[c].tcp = "established" /\ conn[c].given = "no" /\ c # call.sock /\ conn'[c].port = conn[c].port
    BY <1>2, <1>3
  <2>2. PICK i \in Slots : slot[i].pending /\ slot[i].sock = c /\ slot[i].port = conn[c].port
    BY <2>1 DEF PInv, Remembered, NoneForgotten
  <2> QED BY <1>5, <2>1, <2>2
<1> QED BY <1>4, <1>6, <1>7 DEF Remembered, Found

LEMMA ProgramRemembers == ASSUME PInv, Program PROVE Remembered'
<1>1. CASE Prep \/ ForceInterrupt \/ Dial \/ Return \/ RecvTimeout
  BY <1>1, PrepRemembers, ForceRemembers, DialRemembers, ReturnRemembers, RecvTimeoutRemembers
<1>2. CASE AcceptLook \/ AcceptFree \/ AcceptTake
  BY <1>2, AcceptLookRemembers, AcceptFreeRemembers, AcceptTakeRemembers
<1>3. CASE Socket
  BY <1>3, SocketRemembers
<1>4. CASE \E p \in Ports : Accept(p)
  <2>1. call.at = "none" /\ call'.at = "look" /\ UNCHANGED <<conn, slot, connecting>>
    BY <1>4 DEF Accept, At, NoCall
  <2>2. Dialing'
    BY <2>1 DEF PInv, Remembered, Dialing
  <2> QED BY <2>1, <2>2, CallRemembers DEF SamePeer
<1>5. CASE \E p \in Ports, on \in Listens : Listen(p, on)
  BY <1>5, SettlesStep DEF Listen
<1>6. CASE \E op \in {"send", "recv", "close", "connect"}, c \in Conns, len \in 0 .. MaxLen,
             line \in BOOLEAN : Begin(op, c, len, line)
  BY <1>6, BeginRemembers DEF Ops
<1> QED BY <1>1, <1>2, <1>3, <1>4, <1>5, <1>6 DEF Program, Step

-----------------------------------------------------------------------------
\* A connection made from outside is in the table of pending ones until elua_accept hands
\* it to the program, for as long as it lasts, except one that elua_accept has found and
\* then did not return: for any number of connections, entries and ports.
THEOREM PendingIsKept == Spec => []NoneForgotten
<1>1. Init => Remembered
  <2> SUFFICES ASSUME Init PROVE Remembered
    OBVIOUS
  <2>1. conn = [c \in Conns |-> Blank] /\ call = NoCall
    BY DEF Init
  <2>2. Blank.state = "idle" /\ Blank.tcp = "closed" /\ call.at = "none"
    BY <2>1, NoCallFact DEF Blank
  <2> QED BY <2>1, <2>2 DEF Remembered, Dialing, Found, NoneForgotten
<1>2. IInv /\ Remembered /\ [Next]_vars => Remembered'
  <2> SUFFICES ASSUME PInv, [Next]_vars PROVE Remembered'
    BY DEF PInv
  <2>1. CASE Next
    BY <2>1, NetworkRemembers, ProgramRemembers DEF Next
  <2>2. CASE UNCHANGED vars
    BY <2>2, SettlesStep DEF vars
  <2> QED BY <2>1, <2>2
<1>3. Remembered => NoneForgotten
  BY DEF Remembered
<1> QED BY <1>1, <1>2, <1>3, Inductive, PTL DEF Spec
=============================================================================

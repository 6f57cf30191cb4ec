------------------------------- MODULE UipApp -------------------------------
(***************************************************************************)
(* The TCP sockets of eLua (src/elua_uip.c) over the uIP stack             *)
(* (src/uip/uip.c).                                                        *)
(*                                                                         *)
(* A call of the main program stores a request in the state of a           *)
(* connection and waits until elua_uip_appcall, which uIP runs for every   *)
(* event of a connection, has made that state idle again.  uIP itself runs *)
(* in elua_uip_mainloop: on an interrupt, or called by the main program to *)
(* have a request noticed (platform_eth_force_interrupt).  While it runs   *)
(* (`busy') packets are processed one by one, and at its end every         *)
(* connection is polled; the main program goes on when it is over.         *)
(*                                                                         *)
(* TCP is reduced to what decides the calls of elua_uip_appcall: segments  *)
(* arrive in order, and bytes are counted.                                 *)
(***************************************************************************)
EXTENDS Integers, FiniteSets, FiniteSetsExt

CONSTANTS
  ConnCount,  \* UIP_CONF_MAX_CONNECTIONS: connections, and pending accepts
  Ports,      \* the ports a program listens to
  Mss,        \* UIP_TCP_MSS, which is UIP_RECEIVE_WINDOW too
  MaxLen,     \* bound: bytes a program asks to send or receive in one call
  Listens,    \* the arguments flisten a program calls elua_listen with
  Talking,    \* bound: the connections data flows on
  NoConn,     \* elua_net_connecting = NULL
  Nobody      \* a connection without a port

ASSUME UipAssumption ==
  /\ ConnCount \in Nat \ {0} /\ Mss \in Nat \ {0} /\ MaxLen \in Nat \ {0}
  /\ Listens \subseteq BOOLEAN /\ Talking \subseteq 0 .. ConnCount - 1
  /\ NoConn \notin 0 .. ConnCount - 1 /\ Nobody \notin Ports

Conns == 0 .. ConnCount - 1
Slots == 0 .. ConnCount - 1

VARIABLES
  conn,        \* uip_conns, with the appstate of each
  slot,        \* elua_uip_accept_pending
  listening,   \* uip_listenports
  connecting,  \* elua_net_connecting
  busy,        \* elua_uip_mainloop is running
  call,        \* the call in progress: where it is, and its local variables
  abandoned,   \* history: connections on which a recv timed out while it let
               \* data in
  acked,       \* history: bytes acknowledged since the call in progress began
  moved        \* history: the peer's window changed under data in flight since

vars == <<conn, slot, listening, connecting, busy, call, abandoned, acked, moved>>
history == <<abandoned, acked, moved>>

Active == {"synSent", "synRcvd", "established", "finWait1", "finWait2", "closing",
           "lastAck", "timeWait"}
Waiting == {"finWait2", "timeWait"}

Conn == [tcp : Active \union {"closed", "reserved"}, stopped : BOOLEAN,
         out : 0 .. Mss, mss : 1 .. Mss, port : Ports \union {Nobody},
         given : {"no", "yes", "missed"},
         state : {"idle", "send", "recv", "recv2", "connect", "close"},
         res : {"ok", "buffer", "timedout", "closed", "aborted", "overflow"},
         left : 0 .. MaxLen, line : BOOLEAN]

Blank == [tcp |-> "closed", stopped |-> FALSE, out |-> 0, mss |-> Mss, port |-> Nobody,
          given |-> "no", state |-> "idle", res |-> "ok", left |-> 0, line |-> FALSE]

\* A connection that comes to the TCP state tcp, where uIP has no further use
\* for what it kept of an established one.  Its appstate is not touched.
To(k, tcp, out) == [Blank EXCEPT !.tcp = tcp, !.out = out, !.state = k.state, !.res = k.res,
                                 !.left = k.left, !.line = k.line]
Closed(k) == To(k, "closed", 0)

NoCall == [at |-> "none", op |-> "none", sock |-> 0, len |-> 0, line |-> FALSE,
           slot |-> 0, port |-> Nobody, late |-> FALSE]

Free == [pending |-> FALSE, sock |-> 0, port |-> Nobody]

Init ==
  /\ conn = [c \in Conns |-> Blank]
  /\ slot = [i \in Slots |-> Free]
  /\ listening = {} /\ connecting = NoConn
  /\ busy = FALSE /\ call = NoCall
  /\ abandoned = {} /\ acked = 0 /\ moved = FALSE

-----------------------------------------------------------------------------
(***************************************************************************)
(* elua_uip_appcall, as what it makes of a connection k.                   *)
(***************************************************************************)
Smaller(a, b) == Min({a, b})

Idle(k, res) == [k EXCEPT !.state = "idle", !.res = res]
Stop(k) == [k EXCEPT !.stopped = TRUE]              \* uip_stop
Restart(k) == [k EXCEPT !.stopped = FALSE]          \* uip_restart

\* uip_close, and what uIP does after the callback because of it.
Close(k) == To(k, "finWait1", 1)

\* uip_send of the bytes left: uIP sends no more than mss, and repeats what is
\* on its way already.
Send(k) == IF k.out = 0 THEN [k EXCEPT !.out = Smaller(k.left, k.mss)] ELSE k

\* Slip: the bytes of a segment are taken off at every call.
SentAtOnce(k, events) ==
  LET left == k.left - Smaller(k.left, k.mss)
  IN IF left = 0 THEN [k EXCEPT !.left = 0, !.state = "idle"] ELSE Send([k EXCEPT !.left = left])

\* A request to send: what was acknowledged is taken off the bytes left, by as
\* much as one segment would hold now.
Sent(k, events) ==
  LET left == IF "acked" \in events THEN k.left - Smaller(k.left, k.mss) ELSE k.left
  IN IF left = 0 THEN [k EXCEPT !.left = 0, !.state = "idle"] ELSE Send([k EXCEPT !.left = left])

\* Slip: the connection is not stopped at the end.
ReceivedOpen(k, n, eol) ==
  LET fits == Smaller(n, k.left)
      ends == k.line /\ eol \in 1 .. fits
      left == k.left - (IF ends THEN eol - 1 ELSE fits)
  IN IF left = 0 \/ ends \/ n < Mss THEN Idle([k EXCEPT !.left = left], "ok")
     ELSE [k EXCEPT !.left = left, !.res = IF k.left < n THEN "overflow" ELSE @]

\* A request to receive, and n bytes that end a line after `eol' of them (0: no
\* line ends).  What does not fit, and what follows the end of a line that was
\* asked for, is lost.
Received(k, n, eol) ==
  LET fits == Smaller(n, k.left)
      ends == k.line /\ eol \in 1 .. fits
      left == k.left - (IF ends THEN eol - 1 ELSE fits)
  IN IF left = 0 \/ ends \/ n < Mss THEN Stop(Idle([k EXCEPT !.left = left], "ok"))
     ELSE [k EXCEPT !.left = left, !.res = IF k.left < n THEN "overflow" ELSE @]

Errors == {"aborted", "timedout", "closed"}

\* The error a call is told of.
ErrorOf(events) == CHOOSE e \in events : e \in Errors

\* Every event but uip_connected().
AppCall(k, events, n, eol) ==
  LET over == events \intersect Errors # {}
  IN CASE k.state = "idle" -> k
       [] k.state = "recv" -> Restart([k EXCEPT !.state = "recv2"])
       [] k.state \notin {"idle", "recv"} /\ over -> Idle(k, ErrorOf(events))
       [] k.state = "send" /\ ~over /\ events \intersect {"acked", "poll"} # {} -> Sent(k, events)
       [] k.state = "close" /\ ~over -> Close([k EXCEPT !.state = "idle"])
       [] k.state = "recv2" /\ ~over /\ "newdata" \in events -> Received(k, n, eol)
       [] k.state \in {"send", "connect"} /\ events = {"newdata"} -> Stop(k)
       [] OTHER -> k

\* Slip: a connection that timed out is not reported.
ToldUnlessTimedOut(k, event) ==
  IF event = "timedout" THEN k ELSE AppCall(k, {event}, 0, 0)

\* An event without data.
Told(k, event) == AppCall(k, {event}, 0, 0)

-----------------------------------------------------------------------------
(***************************************************************************)
(* The main loop of uIP.                                                   *)
(***************************************************************************)
\* Data is let in only on a connection that is established and not stopped.
LetsIn(c) == conn'[c].tcp = "established" /\ ~conn'[c].stopped

Becomes(c, k) ==
  /\ conn' = [conn EXCEPT ![c] = k]
  /\ abandoned' = {a \in abandoned : LetsIn(a)}

\* An interrupt: a packet, or the tick.
Start == ~busy /\ busy' = TRUE /\ UNCHANGED <<conn, slot, listening, connecting, call, history>>

\* Everything but one connection stays as it is.
Only(c, k) ==
  /\ busy /\ Becomes(c, k)
  /\ UNCHANGED <<slot, listening, connecting, busy, call, acked, moved>>

\* A connection request takes a free connection, or one that only waits.
Syn(p) ==
  LET free == {c \in Conns : conn[c].tcp = "closed"}
      wait == {c \in Conns : conn[c].tcp = "timeWait"}
  IN /\ p \in listening
     /\ \E c \in IF free # {} THEN {Min(free)} ELSE wait :
          Only(c, [To(conn[c], "synRcvd", 1) EXCEPT !.port = p])

\* Slip: an entry is written over when none is free.
FreeSlotsOrAny ==
  IF \A i \in Slots : slot[i].pending THEN Slots ELSE {i \in Slots : ~slot[i].pending}

FreeSlots == {i \in Slots : ~slot[i].pending}

\* The handshake is over: the callback's branch for uip_connected().  What data
\* comes with it is acknowledged and dropped.
Connected(c) ==
  LET k == [conn[c] EXCEPT !.tcp = "established", !.out = 0]
      awaited == k.state = "connect" /\ connecting = c
      entry == [pending |-> TRUE, sock |-> c, port |-> k.port]
  IN /\ busy /\ conn[c].tcp \in {"synRcvd", "synSent"}
     /\ \/ awaited /\ Becomes(c, Stop([k EXCEPT !.state = "idle"])) /\ UNCHANGED slot
        \/ /\ ~awaited /\ FreeSlots # {}
           /\ slot' = [slot EXCEPT ![Min(FreeSlots)] = entry]
           /\ Becomes(c, Stop(k))
        \/ ~awaited /\ FreeSlots = {} /\ Becomes(c, Close(k)) /\ UNCHANGED slot
     /\ UNCHANGED <<listening, connecting, busy, call, acked, moved>>

\* A segment of n bytes; it may acknowledge what is in flight, and tells the
\* window w.  A connection that is stopped takes no data.
Segment(c, n, acks, w, eol) ==
  LET data == IF conn[c].stopped THEN 0 ELSE n
      events == (IF data > 0 THEN {"newdata"} ELSE {}) \union (IF acks THEN {"acked"} ELSE {})
      k == [conn[c] EXCEPT !.mss = w, !.out = IF acks THEN 0 ELSE @]
  IN /\ busy /\ c \in Talking /\ conn[c].tcp = "established"
     /\ acks => conn[c].out > 0
     /\ Becomes(c, IF events = {} THEN k ELSE AppCall(k, events, data, eol))
     /\ acked' = IF acks THEN Smaller(acked + conn[c].out, MaxLen) ELSE acked
     /\ moved' = (moved \/ (conn[c].out > 0 /\ w # conn[c].mss))
     /\ UNCHANGED <<slot, listening, connecting, busy, call>>

\* The peer closes.  uIP closes at once, and what the callback would send is
\* dropped; a FIN is put off while data is in flight or the connection stopped.
Fin(c, acks) ==
  LET events == {"closed"} \union (IF acks THEN {"acked"} ELSE {})
  IN /\ conn[c].tcp = "established" /\ ~conn[c].stopped
     /\ acks = (conn[c].out > 0)
     /\ Only(c, To(AppCall(conn[c], events, 0, 0), "lastAck", 1))

\* An answer to our FIN, or the peer's own, in the states after closing.
Closing(c, fin, acks) ==
  LET k == conn[c]
  IN \/ k.tcp = "lastAck" /\ acks /\ Only(c, Told(Closed(k), "closed"))
     \/ k.tcp = "finWait1" /\ fin /\ acks /\ Only(c, Told(To(k, "timeWait", 0), "closed"))
     \/ k.tcp = "finWait1" /\ fin /\ ~acks /\ Only(c, Told(To(k, "closing", 1), "closed"))
     \/ k.tcp = "finWait1" /\ ~fin /\ acks /\ Only(c, To(k, "finWait2", 0))
     \/ k.tcp = "finWait2" /\ fin /\ Only(c, Told(To(k, "timeWait", 0), "closed"))
     \/ k.tcp = "closing" /\ acks /\ Only(c, To(k, "timeWait", 0))

\* A reset, or a wrong answer to our connection request.
Reset(c) == conn[c].tcp \in Active /\ Only(c, Told(Closed(conn[c]), "aborted"))

\* The poll that ends the main loop.  The timers of the connections in `gone'
\* run out: a wait is over, or what is in flight was repeated often enough.
\* Repeating it once more changes nothing here.
MayGo(c) == conn[c].tcp \in Waiting \/ (conn[c].tcp \in Active /\ conn[c].out > 0)

Poll(gone) ==
  LET After(c, k) ==
        CASE c \in gone /\ k.tcp \in Waiting -> Closed(k)
          [] c \in gone /\ k.tcp \notin Waiting -> Told(Closed(k), "timedout")
          [] c \notin gone /\ k.tcp = "established" /\ k.out = 0 -> Told(k, "poll")
          [] OTHER -> k
  IN /\ busy /\ busy' = FALSE
     /\ \A c \in gone : MayGo(c)
     /\ conn' = [c \in Conns |-> After(c, conn[c])]
     /\ abandoned' = {a \in abandoned : LetsIn(a)}
     /\ UNCHANGED <<slot, listening, connecting, call, acked, moved>>

Network ==
  \/ Start
  \/ \E p \in Ports : Syn(p)
  \/ \E c \in Conns :
       \/ Connected(c) \/ Reset(c)
       \/ \E n \in 0 .. Mss, acks \in BOOLEAN, w \in 1 .. Mss : \E eol \in 0 .. n :
            Segment(c, n, acks, w, eol)
       \/ \E acks \in BOOLEAN : Fin(c, acks)
       \/ \E fin, acks \in BOOLEAN : Closing(c, fin, acks)
  \/ \E gone \in SUBSET Conns : Poll(gone)

-----------------------------------------------------------------------------
(***************************************************************************)
(* The calls of the main program.                                          *)
(***************************************************************************)
At(where) == ~busy /\ call.at = where
GoTo(where) == call' = [call EXCEPT !.at = where]
Mine == conn[call.sock]

\* elua_net_socket
Socket ==
  LET free == {c \in Conns : conn[c].tcp = "closed"}
  IN /\ At("none") /\ free # {}
     /\ Becomes(Min(free), [To(conn[Min(free)], "reserved", 0) EXCEPT !.given = "yes"])
     /\ UNCHANGED <<slot, listening, connecting, busy, call, acked, moved>>

\* elua_listen
Listen(p, on) ==
  /\ At("none")
  /\ listening' = IF on THEN listening \union {p} ELSE listening \ {p}
  /\ UNCHANGED <<conn, slot, connecting, busy, call, history>>

\* The checks elua_net_send, recv, close and connect begin with.
Begin(op, c, len, line) ==
  /\ At("none")
  /\ conn[c].tcp \in IF op = "connect" THEN {"reserved"} ELSE Active
  /\ op \in {"send", "recv"} <=> len > 0
  /\ op \in {"send", "recv"} => c \in Talking
  /\ line => op = "recv"
  /\ call' = [NoCall EXCEPT !.at = "prep", !.op = op, !.sock = c, !.len = len, !.line = line]
  /\ acked' = 0 /\ moved' = FALSE
  /\ UNCHANGED <<conn, slot, listening, connecting, busy, abandoned>>

\* elua_prep_socket_state.  Its last store is that of the state, and before it
\* the callback does nothing.  `late': what was found by Begin is over.
Prep ==
  LET next == CASE call.op \in {"send", "close"} -> "force"
                [] call.op = "recv" -> "wait"
                [] call.op = "connect" -> "dial"
  IN /\ At("prep")
     /\ Becomes(call.sock, [Mine EXCEPT !.state = call.op, !.left = call.len, !.line = call.line,
                                        !.res = IF call.op = "recv" THEN "buffer" ELSE "ok"])
     /\ call' = [call EXCEPT !.at = next,
                             !.late = call.op # "connect" /\ Mine.tcp # "established"]
     /\ UNCHANGED <<slot, listening, connecting, busy, acked, moved>>

\* platform_eth_force_interrupt
ForceInterrupt ==
  /\ At("force") /\ GoTo("wait")
  /\ busy' = TRUE
  /\ UNCHANGED <<conn, slot, listening, connecting, history>>

\* uip_connect_socket: the request to connect goes out on a later tick.
Dial ==
  /\ At("dial") /\ GoTo("wait")
  /\ Becomes(call.sock, [Mine EXCEPT !.tcp = "synSent", !.out = 1, !.mss = Mss])
  /\ connecting' = call.sock
  /\ UNCHANGED <<slot, listening, busy, acked, moved>>

\* The request is done.  Its results are read for the last time here: the next
\* call on this connection overwrites them.
Return ==
  /\ At("wait") /\ Mine.state = "idle"
  /\ Becomes(call.sock, [Mine EXCEPT !.left = 0, !.line = FALSE, !.res = "ok"])
  /\ call' = NoCall /\ acked' = 0 /\ moved' = FALSE
  /\ connecting' = NoConn
  /\ UNCHANGED <<slot, listening, busy>>

\* Slip: the request is left in the connection.
RecvTimeoutLeavesIt ==
  /\ At("wait") /\ call.op = "recv" /\ Mine.state # "idle"
  /\ conn' = [conn EXCEPT ![call.sock].res = "timedout"]
  /\ call' = NoCall
  /\ UNCHANGED <<slot, listening, connecting, busy, abandoned, acked, moved>>

\* elua_net_recv_internal gives up, with interrupts disabled.
RecvTimeout ==
  /\ At("wait") /\ call.op = "recv" /\ Mine.state # "idle"
  /\ conn' = [conn EXCEPT ![call.sock] = [@ EXCEPT !.state = "idle", !.left = 0, !.line = FALSE,
                                                   !.res = "ok"]]
  /\ abandoned' = {a \in abandoned \union {call.sock} : LetsIn(a)}
  /\ call' = NoCall
  /\ UNCHANGED <<slot, listening, connecting, busy, acked, moved>>

\* elua_accept, which reads one entry of the table after the other.
Accept(p) ==
  /\ At("none")
  /\ call' = [NoCall EXCEPT !.at = "look", !.op = "accept", !.port = p]
  /\ UNCHANGED <<conn, slot, listening, connecting, busy, history>>

\* elua_net_find_pending.  At the end of the table elua_accept starts again or
\* gives up.
AcceptLook ==
  LET entry == slot[call.slot]
  IN /\ At("look")
     /\ \/ /\ entry.pending /\ entry.port = call.port
           /\ call' = [call EXCEPT !.at = "free", !.sock = entry.sock]
        \/ /\ ~(entry.pending /\ entry.port = call.port)
           /\ IF call.slot + 1 \in Slots THEN call' = [call EXCEPT !.slot = @ + 1]
              ELSE call' \in {NoCall, [call EXCEPT !.slot = 0]}
     /\ UNCHANGED <<conn, slot, listening, connecting, busy, history>>

AcceptFree ==
  /\ At("free") /\ GoTo("take")
  /\ slot' = [slot EXCEPT ![call.slot].pending = FALSE]
  /\ UNCHANGED <<conn, listening, connecting, busy, history>>

\* `return elua_uip_accept_pending[i].sock'.  A connection that was found and
\* not returned is missed.
AcceptTake ==
  LET sock == slot[call.slot].sock
  IN /\ At("take")
     /\ conn' = [c \in Conns |->
                   CASE c = sock -> [conn[c] EXCEPT !.given = "yes"]
                     [] c # sock /\ c = call.sock -> [conn[c] EXCEPT !.given = "missed"]
                     [] OTHER -> conn[c]]
     /\ slot' = [slot EXCEPT ![call.slot] = IF @.pending THEN @ ELSE Free]
     /\ call' = NoCall
     /\ UNCHANGED <<listening, connecting, busy, history>>

Step == Prep \/ ForceInterrupt \/ Dial \/ Return \/ AcceptLook \/ AcceptFree \/ AcceptTake

Program ==
  \/ Socket \/ Step \/ RecvTimeout
  \/ \E p \in Ports : Accept(p) \/ \E on \in Listens : Listen(p, on)
  \/ \E op \in {"send", "recv", "close", "connect"}, c \in Conns, len \in 0 .. MaxLen,
        line \in BOOLEAN : Begin(op, c, len, line)

Next == Network \/ Program

Spec == Init /\ [][Next]_vars

-----------------------------------------------------------------------------
TypeOK ==
  /\ conn \in [Conns -> Conn]
  /\ slot \in [Slots -> [pending : BOOLEAN, sock : Conns, port : Ports \union {Nobody}]]
  /\ listening \subseteq Ports /\ connecting \in Conns \union {NoConn}
  /\ busy \in BOOLEAN /\ abandoned \subseteq Conns
  /\ acked \in 0 .. MaxLen /\ moved \in BOOLEAN
  /\ call \in [at : {"none", "prep", "force", "dial", "wait", "look", "free", "take"},
               op : {"none", "send", "recv", "close", "connect", "accept"}, sock : Conns,
               len : 0 .. MaxLen, line : BOOLEAN, slot : Slots, port : Ports \union {Nobody},
               late : BOOLEAN]

\* A connection takes data from its peer only while a call waits to receive it:
\* between calls it is stopped, and the peer keeps what it has.  Only a recv
\* that timed out leaves it open, and what arrives then is lost.
FlowControlled ==
  /\ TypeOK
  /\ \A c \in Conns : conn[c].tcp = "established" /\ ~conn[c].stopped =>
       conn[c].state = "recv2" \/ c \in abandoned

Sending == call.op = "send" /\ call.at \in {"force", "wait"}

\* What a send reports as sent, the bytes it was given less those left, is never
\* more than the peer has acknowledged, unless the peer's window changed under a
\* segment in flight; and a send that ends without error has sent everything.
SendHonest ==
  Sending =>
    /\ call.len - Mine.left <= acked \/ moved
    /\ Mine.state = "idle" /\ Mine.res = "ok" => Mine.left = 0

\* A connection made from outside is in the table of pending ones until it is
\* handed to the program, for as long as it lasts, except one that elua_accept
\* has found and then did not return.
NoneForgotten ==
  \A c \in Conns : conn[c].tcp = "established" /\ conn[c].given = "no" =>
    \/ \E i \in Slots : slot[i].pending /\ slot[i].sock = c /\ slot[i].port = conn[c].port
    \/ call.at = "take" /\ call.sock = c

\* Requests are made one at a time: no connection has one but that of the call
\* in progress, so that a callback never ends the wait of another call.  Data is
\* in flight only while a send waits for it: a callback that closes during a
\* retransmission is not heeded by uIP, so that elua_net_close depends on this.
OneRequest ==
  \A c \in Conns :
    /\ conn[c].state # "idle" => call.at \in {"force", "dial", "wait"} /\ call.sock = c
    /\ conn[c].tcp = "established" /\ conn[c].out > 0 =>
         Sending /\ call.sock = c /\ conn[c].state = "send"

\* elua_accept returns the connection it found.
AcceptsWhatItFound == call.at = "take" => slot[call.slot].sock = call.sock
-----------------------------------------------------------------------------

(***************************************************************************)
(* The tick interrupt comes again and again and its main loop ends; the    *)
(* main program goes on between interrupts, though one may come at any     *)
(* step (strong fairness); and what is in flight is acknowledged, refused, *)
(* or given up by uIP's retransmission timer, though packets without an    *)
(* acknowledgement may come in between.                                    *)
(***************************************************************************)
Answered(c) ==
  \/ conn[c].tcp = "synSent" /\ Connected(c)
  \/ \E n \in 0 .. Mss, w \in 1 .. Mss : \E eol \in 0 .. n : Segment(c, n, TRUE, w, eol)
  \/ Fin(c, TRUE) \/ Reset(c)
  \/ \E gone \in SUBSET Conns : c \in gone /\ Poll(gone)

Fairness ==
  /\ WF_vars(Start) /\ WF_vars(\E gone \in SUBSET Conns : Poll(gone))
  /\ SF_vars(Step)
  /\ \A c \in Conns : SF_vars(Answered(c))

LiveSpec == Spec /\ Fairness

\* elua_net_send, elua_net_close and elua_net_connect return, unless the
\* connection was over when they stored their request.
Returns ==
  call.op \in {"send", "close", "connect"} /\ call.at = "wait" /\ ~call.late ~> call.at = "none"
=============================================================================

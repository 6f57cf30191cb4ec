------------------------------ MODULE UartMux -------------------------------
(***************************************************************************)
(* The serial multiplexer of src/common_uart.c: several virtual UARTs,     *)
(* called services, over one physical line, each received into a buffer of *)
(* module RingBuf.                                                         *)
(*                                                                         *)
(* A byte on the line is a record: what it is (c), the number of the       *)
(* character it carries (n, 0 for a code), and whether it was xored (x).   *)
(* platform_uart_send is a list of steps; the receive interrupt may come   *)
(* between any two.  The program at the other end of the line is external: *)
(* it is taken to follow the same protocol, one byte or call at a time.    *)
(***************************************************************************)
EXTENDS RingBuf

CONSTANTS
  Kinds,     \* the characters sent: "plain" ones and ones that equal a code
  None,      \* -1
  MaxSent,   \* bound: characters sent by both ends together
  MaxRestarts  \* bound: restarts of either end

Services == Bufs  \* the ids SERMUX_SERVICE_ID_FIRST ..

ASSUME UartMuxAssumption ==
  /\ Kinds \subseteq {"plain", "ESC", "FORCE"} \union Services
  /\ {"plain", "ESC", "FORCE", None} \intersect Services = {} /\ MaxSent \in Nat /\ MaxRestarts \in Nat

VARIABLES
  dev, peer,      \* the protocol's variables at both ends (uart_service_id_in, ...)
  toDev, toPeer,  \* the line
  sending,        \* the steps left of platform_uart_send
  sent,           \* history: the characters each end has sent, in order
  got,            \* history: what each end has received for each service
  upset,          \* history: a send was cut by a request or a restart, or a request
                  \* found nothing to repeat
  restarts

muxVars == <<dev, peer, toDev, toPeer, sending, sent, got, upset, restarts>>
vars == <<ringVars, muxVars>>

-----------------------------------------------------------------------------
\* Bytes.

Code(c) == [c |-> c, n |-> 0, x |-> FALSE]
IsCode(b, c) == b.c = c /\ ~b.x
Xored(b) == [b EXCEPT !.x = ~@]  \* ^ SERMUX_ESCAPE_XOR_MASK

\* uart_service_id_out as a byte: -1 is SERMUX_FORCE_SID_CHAR.
IdByte(id) == Code(IF id = None THEN "FORCE" ELSE id)

NeedsEscape(b) == \E c \in {"ESC", "FORCE"} \union Services : IsCode(b, c)

Escaped(b) == IF NeedsEscape(b) THEN <<Code("ESC"), Xored(b)>> ELSE <<b>>

-----------------------------------------------------------------------------
\* cmn_rx_handler: what it leaves of the variables, what it sends and what it
\* passes on.

Fresh == [in |-> None, esc |-> FALSE, last |-> <<>>, out |-> None]

Result(end, say, data) == [end |-> end, say |-> say, data |-> data]

\* Slip: the escape not forgotten.
UnescapedNot(end) == end

Unescaped(end) == [end EXCEPT !.esc = FALSE]

Handle(end, b) ==
  IF IsCode(b, "ESC") THEN Result([end EXCEPT !.esc = TRUE], <<>>, <<>>)
  ELSE IF \E s \in Services : IsCode(b, s) THEN Result([end EXCEPT !.in = b.c], <<>>, <<>>)
  ELSE IF IsCode(b, "FORCE") /\ end.last # <<>>
    THEN Result([end EXCEPT !.last = <<>>], <<IdByte(end.out)>> \o end.last, <<>>)
  ELSE LET v == IF end.esc THEN Xored(b) ELSE b
           after == Unescaped(end)
       IN IF end.in = None THEN Result(after, <<Code("FORCE")>>, <<>>)
          ELSE Result(after, <<>>, <<v>>)

\* A request for the service that platform_uart_send does not expect.
Upsets(end, b, busy) == IsCode(b, "FORCE") /\ (busy \/ end.last = <<>>)

Init ==
  /\ RingInit
  /\ dev = Fresh /\ peer = Fresh
  /\ toDev = <<>> /\ toPeer = <<>> /\ sending = <<>>
  /\ sent = [dev |-> <<>>, peer |-> <<>>]
  /\ got = [e \in {"dev", "peer"} |-> [s \in Services |-> <<>>]]
  /\ upset = FALSE /\ restarts = 0

\* The receive interrupt.  What it sends goes out between the steps of a send.
DevReceive ==
  /\ toDev # <<>> /\ toDev' = Tail(toDev)
  /\ LET b == Head(toDev)
         r == Handle(dev, b)
     IN /\ dev' = r.end
        /\ toPeer' = toPeer \o r.say
        /\ IF r.data = <<>> THEN UNCHANGED <<ringVars, got>>
           ELSE /\ Write(dev.in, r.data[1])
                /\ got' = [got EXCEPT !.dev[dev.in] = Append(@, r.data[1])]
        /\ upset' = (upset \/ Upsets(dev, b, sending # <<>>))
  /\ UNCHANGED <<peer, sending, sent, restarts>>

PeerReceive ==
  /\ toPeer # <<>> /\ toPeer' = Tail(toPeer)
  /\ LET b == Head(toPeer)
         r == Handle(peer, b)
     IN /\ peer' = r.end
        /\ toDev' = toDev \o r.say
        /\ got' = IF r.data = <<>> THEN got ELSE [got EXCEPT !.peer[peer.in] = Append(@, r.data[1])]
        /\ upset' = (upset \/ Upsets(peer, b, FALSE))
  /\ UNCHANGED <<ringVars, dev, sending, sent, restarts>>

-----------------------------------------------------------------------------
\* platform_uart_send on a virtual UART.

Put(b) == [op |-> "put", byte |-> b]
Last(bytes) == [op |-> "last", bytes |-> bytes]
Out(s) == [op |-> "out", id |-> s]

IdNotNeeded(end, s) == s = end.out

SendSteps(end, s, b) ==
  (IF IdNotNeeded(end, s) THEN <<>> ELSE <<Put(Code(s))>>)
  \o <<Last(<<b>>)>>
  \o (IF NeedsEscape(b) THEN <<Put(Code("ESC")), Put(Xored(b)), Last(Escaped(b))>> ELSE <<Put(b)>>)
  \o <<Out(s)>>

Character(who, kind) == [c |-> kind, n |-> Len(sent[who]) + 1, x |-> FALSE]

Record(who, s, kind) ==
  /\ Len(sent.dev) + Len(sent.peer) < MaxSent
  /\ sent' = [sent EXCEPT ![who] = Append(@, [to |-> s, c |-> kind])]

DevSend(s, kind) ==
  /\ sending = <<>> /\ Record("dev", s, kind)
  /\ sending' = SendSteps(dev, s, Character("dev", kind))
  /\ UNCHANGED <<ringVars, dev, peer, toDev, toPeer, got, upset, restarts>>

SendStep ==
  /\ sending # <<>> /\ sending' = Tail(sending)
  /\ LET step == Head(sending)
     IN \/ step.op = "put" /\ toPeer' = Append(toPeer, step.byte) /\ UNCHANGED dev
        \/ step.op = "last" /\ dev' = [dev EXCEPT !.last = step.bytes] /\ UNCHANGED toPeer
        \/ step.op = "out" /\ dev' = [dev EXCEPT !.out = step.id] /\ UNCHANGED toPeer
  /\ UNCHANGED <<ringVars, peer, toDev, sent, got, upset, restarts>>

PeerSend(s, kind) ==
  LET b == Character("peer", kind)
  IN /\ Record("peer", s, kind)
     /\ toDev' = toDev \o (IF s = peer.out THEN <<>> ELSE <<Code(s)>>) \o Escaped(b)
     /\ peer' = [peer EXCEPT !.last = Escaped(b), !.out = s]
     /\ UNCHANGED <<ringVars, dev, toPeer, sending, got, upset, restarts>>

-----------------------------------------------------------------------------
\* The main program reads and sets up the buffers.
Buffers == (Start \/ Step) /\ UNCHANGED muxVars

\* Either end is reset; what is on the line arrives all the same.
DevRestart ==
  /\ restarts < MaxRestarts /\ restarts' = restarts + 1
  /\ dev' = Fresh /\ sending' = <<>>
  /\ got' = [got EXCEPT !.dev = [s \in Services |-> <<>>]]
  /\ \E n \in Sizes : buf' = [b \in Bufs |-> [NoBuffer EXCEPT !.size = n, !.room = n]]
  /\ todo' = <<>> /\ reg' = NoData /\ taken' = [b \in Bufs |-> <<>>]
  /\ upset' = (upset \/ sending # <<>>)
  /\ UNCHANGED <<on, peer, toDev, toPeer, sent>>

PeerRestart ==
  /\ restarts < MaxRestarts /\ restarts' = restarts + 1
  /\ peer' = Fresh
  /\ got' = [got EXCEPT !.peer = [s \in Services |-> <<>>]]
  /\ UNCHANGED <<ringVars, dev, toDev, toPeer, sending, sent, upset>>

Next ==
  \/ DevReceive \/ PeerReceive
  \/ \E s \in Services, kind \in Kinds : DevSend(s, kind) \/ PeerSend(s, kind)
  \/ SendStep \/ Buffers
  \/ DevRestart \/ PeerRestart

Spec == Init /\ [][Next]_vars

-----------------------------------------------------------------------------
TypeOK ==
  /\ {dev.in, dev.out, peer.in, peer.out} \subseteq Services \union {None}
  /\ dev.esc \in BOOLEAN /\ peer.esc \in BOOLEAN
  /\ Len(dev.last) <= 2 /\ Len(peer.last) <= 2
  /\ Len(sending) <= 6 /\ restarts \in 0 .. MaxRestarts

Sender == [dev |-> "peer", peer |-> "dev"]

\* v, received at an end for s, is a character the other end sent to s.
Genuine(who, s, v) ==
  /\ ~v.x /\ v.n \in DOMAIN sent[Sender[who]]
  /\ sent[Sender[who]][v.n] = [to |-> s, c |-> v.c]

SentTo(who, s) == {n \in DOMAIN sent[Sender[who]] : sent[Sender[who]][n].to = s}

Quiet == toDev = <<>> /\ toPeer = <<>> /\ sending = <<>>

\* Characters arrive at the service they were sent to, unaltered and in order, also
\* after either end has restarted and asked for the service; without a restart each
\* arrives exactly once.  The exceptions are a request or a restart of the
\* device in the middle of a send, and a request that finds nothing to repeat
\* (common_uart.c:101, 138).
Demultiplexed ==
  ~upset =>
    \A who \in {"dev", "peer"}, s \in Services :
      LET seq == got[who][s]
      IN /\ \A k \in DOMAIN seq : Genuine(who, s, seq[k])
         /\ \A k \in 1 .. Len(seq) - 1 : seq[k].n <= seq[k + 1].n
         /\ restarts = 0 =>
              /\ \A k \in 1 .. Len(seq) - 1 : seq[k].n # seq[k + 1].n
              /\ Quiet => {seq[k].n : k \in DOMAIN seq} = SentTo(who, s)

MuxSound == TypeOK /\ Demultiplexed

\* A buffer is a queue of its size, whatever the order in which the handler and the
\* steps of the main program run; a character that finds it full is kept over the
\* oldest one and given twice, and only the next is refused (buf.c:135).
Fifo(b) == INSTANCE BufFifo WITH
  Elements <- [c : Kinds \union {"plain", "FORCE", "ESC"} \union Services, n : 0 .. MaxSent, x : BOOLEAN],
  queue <- Unread(b), capacity <- buf[b].size, taken <- taken[b]

ImplementsBuffer ==
  /\ \A b \in Bufs : Fifo(b)!Init
  /\ [][\A b \in Bufs : Fifo(b)!Next \/ UNCHANGED Fifo(b)!vars]_vars
=============================================================================

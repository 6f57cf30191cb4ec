----------------------------- MODULE RfsProofs -----------------------------
(***************************************************************************)
(* The client of the remote file system, for any number of handles, files, *)
(* calls and losses, and however late answers come: it never holds a       *)
(* descriptor that the server did not give out, and, while no request      *)
(* crosses the answer to an earlier one, what a call returns is true of    *)
(* the file it was made on.                                                *)
(***************************************************************************)
EXTENDS Rfs, SequenceTheorems, TLAPS

\* An answer to open carries one of the descriptors, whose slots are D, or -1.
Issued(u, D) == u.of.op = "open" /\ u.of.res # -1 => Slot(u.of.res) \in D

\* s is a sequence of such answers.
AllIssued(s, D) == \E S : s \in Seq(S) /\ \A u \in S : Issued(u, D)

\* While a call is in progress, the request is one for its operation.
OwnRequest == phase # "idle" => "op" \in DOMAIN call /\ req.op = call.op

MineShape == mine = [h \in Handles |-> mine[h]]

OpenedShape == \E S : opened \in Seq(S)

\* The inductive invariant: what could be taken for an answer to open is one, and
\* carries a descriptor given out.
IInv ==
  /\ HandlesIssued /\ MineShape /\ OwnRequest /\ OpenedShape
  /\ AllIssued(line, DOMAIN opened) /\ AllIssued(rx, DOMAIN opened)

-----------------------------------------------------------------------------
\* Answers stay answers given out when descriptors are added ...
LEMMA IssuedStays ==
  ASSUME NEW D, NEW E, D \subseteq E, NEW s, AllIssued(s, D)
  PROVE  AllIssued(s, E)
  BY DEF AllIssued, Issued

\* ... when some are taken away ...
LEMMA IssuedTail ==
  ASSUME NEW D, NEW s, AllIssued(s, D), s # <<>>
  PROVE  AllIssued(Tail(s), D) /\ Issued(Head(s), D)
<1>1. PICK S : s \in Seq(S) /\ \A u \in S : Issued(u, D)
  BY DEF AllIssued
<1>2. Tail(s) \in Seq(S) /\ Head(s) \in S
  BY <1>1
<1> QED BY <1>1, <1>2 DEF AllIssued

\* ... and when such a one is added.
LEMMA IssuedAppend ==
  ASSUME NEW D, NEW s, AllIssued(s, D), NEW u, Issued(u, D)
  PROVE  AllIssued(Append(s, u), D)
<1>1. PICK S : s \in Seq(S) /\ \A v \in S : Issued(v, D)
  BY DEF AllIssued
<1>2. Append(s, u) \in Seq(S \union {u})
  BY <1>1, SeqMonotonic, AppendProperties
<1>3. \A v \in S \union {u} : Issued(v, D)
  BY <1>1
<1> QED BY <1>2, <1>3 DEF AllIssued

LEMMA IssuedConcat ==
  ASSUME NEW D, NEW s, AllIssued(s, D), NEW u, NEW v, Issued(u, D), Issued(v, D)
  PROVE  AllIssued(s \o <<u, v>>, D)
<1>1. PICK S : s \in Seq(S) /\ \A w \in S : Issued(w, D)
  BY DEF AllIssued
<1> DEFINE T == S \union {u, v}
<1>2. s \in Seq(T)
  BY <1>1, SeqMonotonic
<1>3. <<u, v>> \in Seq(T)
  OBVIOUS
<1>4. s \o <<u, v>> \in Seq(T)
  BY <1>2, <1>3, ConcatProperties
<1>5. \A w \in T : Issued(w, D)
  BY <1>1
<1> QED BY <1>4, <1>5 DEF AllIssued

-----------------------------------------------------------------------------
LEMMA NoneIssued == ASSUME NEW D PROVE AllIssued(<<>>, D)
<1> DEFINE S == {}
<1>1. <<>> \in Seq(S)
  OBVIOUS
<1>2. \A u \in S : Issued(u, D)
  OBVIOUS
<1> HIDE DEF S
<1> QED BY <1>1, <1>2 DEF AllIssued

LEMMA InitHolds == Init => IInv
<1> SUFFICES ASSUME Init PROVE IInv
  OBVIOUS
<1>1. <<>> \in Seq({})
  OBVIOUS
<1>2. AllIssued(<<>>, DOMAIN opened)
  BY NoneIssued
<1>3. HandlesIssued /\ MineShape
  BY DEF Init, HandlesIssued, MineShape
<1>4. OwnRequest
  BY DEF Init, OwnRequest
<1>5. OpenedShape
  BY <1>1 DEF Init, OpenedShape
<1> QED BY <1>2, <1>3, <1>4, <1>5 DEF Init, IInv

\* A call returns with -1, with the result of another operation than open, or with a
\* descriptor of the server.
LEMMA ReturnStep ==
  ASSUME NEW c, NEW r, Return(c, r), HandlesIssued, MineShape, UNCHANGED opened,
         c.op = "open" /\ r # -1 => Known(r)
  PROVE  HandlesIssued' /\ MineShape' /\ OwnRequest'
<1>1. CASE c.op = "open" /\ r # -1
  <2>1. mine' = [mine EXCEPT ![c.h] = [fd |-> r, path |-> c.path]]
    BY <1>1 DEF Return
  <2> QED BY <1>1, <2>1 DEF Return, HandlesIssued, MineShape, OwnRequest, Known, Slot
<1>2. CASE c.op = "close"
  <2>1. mine' = [mine EXCEPT ![c.h] = Closed]
    BY <1>2 DEF Return
  <2>2. \A h \in Handles : mine'[h] = IF h = c.h THEN Closed ELSE mine[h]
    BY <2>1 DEF MineShape
  <2>3. HandlesIssued'
    BY <2>2 DEF HandlesIssued, Known, Slot
  <2>4. MineShape' /\ OwnRequest'
    BY <2>1 DEF Return, MineShape, OwnRequest
  <2> QED BY <2>3, <2>4
<1>3. CASE ~(c.op = "open" /\ r # -1) /\ c.op # "close"
  <2>1. mine' = mine
    BY <1>3 DEF Return
  <2> QED BY <2>1 DEF Return, HandlesIssued, MineShape, OwnRequest, Known, Slot
<1> QED BY <1>1, <1>2, <1>3

LEMMA GiveUpStep ==
  ASSUME GiveUp, HandlesIssued, MineShape, UNCHANGED opened
  PROVE  HandlesIssued' /\ MineShape' /\ OwnRequest'
  BY ReturnStep DEF GiveUp

\* A new call begins.
LEMMA BeginStep ==
  ASSUME NEW c, Begin(c), IInv, "op" \in DOMAIN c, c.op \in {"open", "read", "write", "lseek", "close"}
  PROVE  IInv'
<1>1. Request(c).op = c.op
  BY DEF Request
<1>2. OwnRequest'
  BY <1>1 DEF Begin, OwnRequest
<1>3. UNCHANGED <<mine, opened, line, rx>>
  BY DEF Begin, serverVars
<1> QED BY <1>2, <1>3 DEF IInv, HandlesIssued, MineShape, OpenedShape, Known, Slot

LEMMA ProgramStep == ASSUME Program, IInv PROVE IInv'
<1>1. ASSUME NEW h \in Handles, NEW p \in Paths, Open(h, p)
      PROVE  IInv'
  BY <1>1, BeginStep DEF Open
<1>2. ASSUME NEW h \in Handles, NEW n \in Lens, NEW op \in {"read", "write"}, ReadWrite(op, h, n)
      PROVE  IInv'
  BY <1>2, BeginStep DEF ReadWrite
<1>3. ASSUME NEW h \in Handles, Seek(h)
      PROVE  IInv'
  BY <1>3, BeginStep DEF Seek
<1>4. ASSUME NEW h \in Handles, Close(h)
      PROVE  IInv'
  BY <1>4, BeginStep DEF Close
<1> QED BY <1>1, <1>2, <1>3, <1>4 DEF Program

-----------------------------------------------------------------------------
\* The client's steps.

LEMMA FlushStep == ASSUME Flush, IInv PROVE IInv'
<1>1. AllIssued(<<>>, DOMAIN opened)
  BY NoneIssued
<1>2. rx' = <<>> /\ UNCHANGED <<opened, line>>
  BY DEF Flush, EmptiedInput, serverVars
<1>3. AllIssued(rx', DOMAIN opened') /\ AllIssued(line', DOMAIN opened') /\ OpenedShape'
  BY <1>1, <1>2 DEF IInv, OpenedShape
<1>4. CASE GiveUp
  BY <1>2, <1>3, <1>4, GiveUpStep DEF IInv
<1>5. CASE phase' = "send" /\ UNCHANGED <<mine, call, req, ret>>
  BY <1>2, <1>3, <1>5 DEF Flush, IInv, HandlesIssued, MineShape, OwnRequest, Known, Slot
<1> QED BY <1>4, <1>5 DEF Flush

LEMMA SendStep == ASSUME Send, IInv PROVE IInv'
  BY DEF Send, serverVars, IInv, HandlesIssued, MineShape, OwnRequest, OpenedShape, Known, Slot

LEMMA HeaderStep == ASSUME Header, IInv PROVE IInv'
<1>1. AllIssued(rx', DOMAIN opened') /\ AllIssued(line', DOMAIN opened') /\ OpenedShape'
  BY IssuedTail DEF Header, serverVars, IInv, OpenedShape
<1>2. CASE Head(rx).part = "header"
  <2>1. phase' = "rest" /\ phase # "idle" /\ UNCHANGED <<mine, call, req, opened>>
    BY <1>2 DEF Header, serverVars
  <2>2. HandlesIssued' /\ MineShape' /\ OwnRequest'
    BY <2>1 DEF IInv, HandlesIssued, MineShape, OwnRequest, Known, Slot
  <2> QED BY <1>1, <2>2 DEF IInv
<1>3. CASE Head(rx).part # "header"
  <2>1. GiveUp /\ UNCHANGED opened
    BY <1>3 DEF Header, serverVars
  <2>2. HandlesIssued' /\ MineShape' /\ OwnRequest'
    BY <2>1, GiveUpStep DEF IInv
  <2> QED BY <1>1, <2>2 DEF IInv
<1> QED BY <1>2, <1>3

LEMMA ContinueStep ==
  ASSUME NEW a, Continue(a), IInv, phase # "idle", call.op \in {"read", "write"}, UNCHANGED opened
  PROVE  HandlesIssued' /\ MineShape' /\ OwnRequest'
<1> DEFINE c == [call EXCEPT !.total = @ + a.res, !.left = @ - Part(@),
                             !.data = IF a.op = "read" THEN @ \o a.data ELSE @]
<1>1. DOMAIN c = DOMAIN call /\ c.op = call.op
  BY DEF IInv, OwnRequest
<1>2. CASE Short(call, a.res) \/ c.left = 0
  <2>1. Return(c, c.total)
    BY <1>2 DEF Continue
  <2> QED BY <1>1, <2>1, ReturnStep DEF IInv
<1>3. CASE ~(Short(call, a.res) \/ c.left = 0)
  <2>1. call' = c /\ req' = Request(c) /\ mine' = mine
    BY <1>3 DEF Continue
  <2>2. Request(c).op = c.op
    BY <1>1 DEF Request
  <2>3. OwnRequest'
    BY <1>1, <2>1, <2>2 DEF IInv, OwnRequest
  <2> QED BY <2>1, <2>3 DEF IInv, HandlesIssued, MineShape, Known, Slot
<1> QED BY <1>2, <1>3

\* The only answer whose number the program keeps as a descriptor is one that says it
\* answers an open.
LEMMA RestStep == ASSUME Rest, IInv PROVE IInv'
<1>1. AllIssued(rx', DOMAIN opened') /\ AllIssued(line', DOMAIN opened') /\ OpenedShape'
  BY IssuedTail DEF Rest, serverVars, IInv, OpenedShape
<1>2. Issued(Head(rx), DOMAIN opened)
  BY IssuedTail DEF Rest, IInv
<1>3. phase # "idle" /\ UNCHANGED opened
  BY DEF Rest, serverVars
<1>4. req.op = call.op
  BY <1>3 DEF IInv, OwnRequest
<1> DEFINE u == Head(rx)
<1>5. CASE ~Matches(req, u) /\ GiveUp
  BY <1>1, <1>3, <1>5, GiveUpStep DEF IInv
<1>6. CASE Matches(req, u) /\ call.op \in {"read", "write"} /\ Continue(u.of)
  BY <1>1, <1>3, <1>6, ContinueStep DEF IInv
<1>7. CASE Matches(req, u) /\ call.op \notin {"read", "write"} /\ Return(call, u.of.res)
  <2>1. u.of.op = call.op
    BY <1>4, <1>7 DEF Matches
  <2>2. call.op = "open" /\ u.of.res # -1 => Known(u.of.res)
    BY <1>2, <2>1 DEF Issued, Known
  <2>3. HandlesIssued' /\ MineShape' /\ OwnRequest'
    BY <1>3, <1>7, <2>2, ReturnStep DEF IInv
  <2> QED BY <1>1, <2>3 DEF IInv
<1> QED BY <1>5, <1>6, <1>7 DEF Rest

LEMMA TimeoutStep == ASSUME Timeout, IInv PROVE IInv'
<1>1. GiveUp /\ UNCHANGED <<opened, line, rx>>
  BY DEF Timeout, serverVars
<1>2. HandlesIssued' /\ MineShape' /\ OwnRequest'
  BY <1>1, GiveUpStep DEF IInv
<1> QED BY <1>1, <1>2 DEF IInv, OpenedShape

-----------------------------------------------------------------------------
\* The server's step gives out descriptors in order, and answers.
LEMMA AnswerStep ==
  ASSUME NEW r, NEW res, NEW data, Answer(r, res, data), IInv,
         DOMAIN opened \subseteq DOMAIN opened', OpenedShape',
         r.op = "open" /\ res # -1 => Slot(res) \in DOMAIN opened',
         UNCHANGED <<clientVars, rx>>
  PROVE  IInv'
<1> DEFINE a == [op |-> r.op, res |-> res, data |-> data]
           head == [part |-> "header", of |-> a]
           rest == [part |-> "rest", of |-> a]
<1>1. Issued(head, DOMAIN opened') /\ Issued(rest, DOMAIN opened')
  BY DEF Issued
<1>2. AllIssued(line, DOMAIN opened') /\ AllIssued(rx, DOMAIN opened')
  BY IssuedStays DEF IInv
<1>3. line' = line \o <<head, rest>> /\ rx' = rx
  BY DEF Answer
<1> HIDE DEF head, rest
<1>4. AllIssued(line', DOMAIN opened') /\ AllIssued(rx', DOMAIN opened')
  BY <1>1, <1>2, <1>3, IssuedConcat
<1>5. UNCHANGED <<mine, call, phase, req>>
  BY DEF clientVars
<1>6. HandlesIssued' /\ MineShape' /\ OwnRequest'
  BY <1>5 DEF IInv, HandlesIssued, MineShape, OwnRequest, Known, Slot
<1> QED BY <1>4, <1>6 DEF IInv

LEMMA ServeOpenStep ==
  ASSUME NEW r, ServeOpen(r), IInv, r.op = "open", UNCHANGED <<clientVars, rx>>
  PROVE  IInv'
<1>1. PICK S : opened \in Seq(S)
  BY DEF IInv, OpenedShape
<1>2. ASSUME opened' = Append(opened, [path |-> r.path, pos |-> 0]),
             Answer(r, FirstFd + Len(opened), <<>>)
      PROVE  IInv'
  <2> DEFINE o == [path |-> r.path, pos |-> 0]
  <2>1. opened \in Seq(S \union {o})
    BY <1>1, SeqMonotonic
  <2>2. opened' \in Seq(S \union {o}) /\ Len(opened') = Len(opened) + 1
    BY <1>2, <2>1, AppendProperties
  <2>3. DOMAIN opened = 1 .. Len(opened) /\ DOMAIN opened' = 1 .. Len(opened) + 1 /\ Len(opened) \in Nat
    BY <1>1, <2>2, LenProperties
  <2>4. FirstFd \in Nat
    BY RfsAssumption
  <2>5. Slot(FirstFd + Len(opened)) = Len(opened) + 1
    BY <2>3, <2>4 DEF Slot
  <2>6. Slot(FirstFd + Len(opened)) \in DOMAIN opened' /\ DOMAIN opened \subseteq DOMAIN opened'
    BY <2>3, <2>5
  <2>7. OpenedShape'
    BY <2>2 DEF OpenedShape
  <2> QED BY <1>2, <2>6, <2>7, AnswerStep
<1>3. ASSUME Answer(r, -1, <<>>), UNCHANGED serverVars
      PROVE  IInv'
  BY <1>3, AnswerStep DEF serverVars, IInv, OpenedShape
<1> QED BY <1>2, <1>3 DEF ServeOpen

\* Descriptors only move on.
LEMMA MovedShape ==
  ASSUME IInv, NEW k, NEW p, opened' = [opened EXCEPT ![k].pos = p]
  PROVE  OpenedShape' /\ DOMAIN opened' = DOMAIN opened
<1>1. PICK S : opened \in Seq(S)
  BY DEF IInv, OpenedShape
<1> DEFINE o == [opened[k] EXCEPT !.pos = p]
<1>2. opened' = [opened EXCEPT ![k] = o]
  OBVIOUS
<1> HIDE DEF o
<1>3. opened \in Seq(S \union {o}) /\ DOMAIN opened = 1 .. Len(opened)
  BY <1>1, SeqMonotonic, LenProperties
<1>4. CASE k \in DOMAIN opened
  BY <1>2, <1>3, <1>4, ExceptSeq DEF OpenedShape
<1>5. CASE k \notin DOMAIN opened
  <2>1. opened' = opened
    BY <1>1, <1>2, <1>3, <1>5
  <2> QED BY <1>1, <2>1 DEF OpenedShape
<1> QED BY <1>4, <1>5

LEMMA ServeStep == ASSUME Serve, IInv PROVE IInv'
<1> DEFINE r == Head(toServer)
<1>1. UNCHANGED <<clientVars, rx>>
  BY DEF Serve
<1>2. CASE r.op = "open" /\ ServeOpen(r)
  BY <1>1, <1>2, ServeOpenStep
<1>3. CASE r.op = "read" /\ ServeRead(r)
  BY <1>1, <1>3, MovedShape, AnswerStep DEF ServeRead
<1>4. CASE r.op = "write" /\ ServeWrite(r)
  BY <1>1, <1>4, MovedShape, AnswerStep DEF ServeWrite
<1>5. CASE r.op = "lseek" /\ ServeSeek(r)
  BY <1>1, <1>5, MovedShape, AnswerStep DEF ServeSeek
<1>6. CASE r.op # "open" /\ Answer(r, 0, <<>>) /\ UNCHANGED serverVars
  BY <1>1, <1>6, AnswerStep DEF serverVars, IInv, OpenedShape
<1> QED BY <1>2, <1>3, <1>4, <1>5, <1>6 DEF Serve

LEMMA ArriveStep == ASSUME Arrive, IInv PROVE IInv'
<1>1. AllIssued(line', DOMAIN opened) /\ AllIssued(rx', DOMAIN opened)
  BY IssuedTail, IssuedAppend DEF Arrive, IInv
<1> QED BY <1>1 DEF Arrive, clientVars, serverVars, IInv, HandlesIssued, MineShape, OwnRequest, OpenedShape, Known, Slot

LEMMA LoseStep == ASSUME Lose, IInv PROVE IInv'
<1>1. AllIssued(line', DOMAIN opened)
  BY IssuedTail DEF Lose, IInv
<1> QED BY <1>1 DEF Lose, clientVars, serverVars, IInv, HandlesIssued, MineShape, OwnRequest, OpenedShape, Known, Slot

-----------------------------------------------------------------------------
\* Whatever is lost and however late answers come, what the program holds as an open
\* file is a descriptor of the server (remotefs/client.c, eluarpc_gen_read).
THEOREM HeldIsIssued == Spec => []HandlesIssued
<1>1. IInv /\ [Next]_vars => IInv'
  <2> SUFFICES ASSUME IInv, [Next]_vars PROVE IInv'
    OBVIOUS
  <2>1. CASE Program
    BY <2>1, ProgramStep
  <2>2. CASE Client
    BY <2>2, FlushStep, SendStep, HeaderStep, RestStep, TimeoutStep DEF Client
  <2>3. CASE Serve
    BY <2>3, ServeStep
  <2>4. CASE Arrive
    BY <2>4, ArriveStep
  <2>5. CASE Lose
    BY <2>5, LoseStep
  <2>6. CASE UNCHANGED vars
    BY <2>6 DEF vars, clientVars, serverVars, IInv, HandlesIssued, MineShape, OwnRequest, OpenedShape, Known, Slot
  <2> QED BY <2>1, <2>2, <2>3, <2>4, <2>5, <2>6 DEF Next
<1>2. IInv => HandlesIssued
  BY DEF IInv
<1> QED BY InitHolds, <1>1, <1>2, PTL DEF Spec

-----------------------------------------------------------------------------
(***************************************************************************)
(* The types of the client, the server and the line.                       *)
(***************************************************************************)
Ops == {"open", "read", "write", "lseek", "close"}

Data == (Paths \X Nat) \union (Nat \X Int)

OpenCall == [op : {"open"}, h : Handles, path : Paths]
DataCall == [op : {"read", "write"}, h : Handles, fd : Int, id : Nat, len : Nat, left : Nat,
             total : Int, data : Seq(Data)]
PlainCall == [op : {"lseek", "close"}, h : Handles, fd : Int]
AnyCall == OpenCall \union DataCall \union PlainCall

ReadRequest == [op : {"read"}, fd : Int, count : Nat]
WriteRequest == [op : {"write"}, fd : Int, bytes : Seq(Data)]
AnyRequest == OpenCall \union PlainCall \union ReadRequest \union WriteRequest

AnyAnswer == [op : Ops, res : Int, data : Seq(Data)]
Unit == [part : {"header", "rest"}, of : AnyAnswer]

File == [path : Paths, pos : Nat]
Mine == [fd : Int, path : Paths]

ClientTypes ==
  /\ phase \in {"idle", "flush", "send", "header", "rest"}
  /\ calls \in 0 .. MaxCalls /\ lost \in 0 .. MaxLost /\ crossed \in BOOLEAN
  /\ mine \in [Handles -> Mine \union {Closed}]
  /\ IF phase = "idle" THEN call = Nothing ELSE call \in AnyCall /\ req = Request(call) /\ ret = Nothing
  /\ IF phase = "rest" THEN answer \in AnyAnswer ELSE answer = Nothing
  /\ ret = Nothing \/ ret \in [call : AnyCall, res : Int]

\* No descriptor is past the end of its file.
ServerTypes ==
  /\ files \in [Paths -> Seq(Data)]
  /\ opened \in Seq(File)
  /\ \A i \in DOMAIN opened : opened[i].pos <= Len(files[opened[i].path])

LineTypes == toServer \in Seq(AnyRequest) /\ line \in Seq(Unit) /\ rx \in Seq(Unit)

Types == ClientTypes /\ ServerTypes /\ LineTypes

-----------------------------------------------------------------------------
(***************************************************************************)
(* Where the bytes of a call lie in the file: n of them, the last at pos,  *)
(* or all of them somewhere before pos.                                    *)
(***************************************************************************)
ByteOf(c, k) == IF c.op = "read" THEN c.data[k] ELSE <<c.id, k>>

AtEnd(c, n, f, pos) == n <= pos /\ \A k \in 1 .. n : f[(pos - n) + k] = ByteOf(c, k)

Placed(c, n, f, pos) == \E p \in 0 .. pos : p + n <= pos /\ \A k \in 1 .. n : f[p + k] = ByteOf(c, k)

Extended(c, a) == [c EXCEPT !.total = @ + a.res, !.left = @ - Part(@),
                            !.data = IF a.op = "read" THEN @ \o a.data ELSE @]

PosOf(fd) == opened[Slot(fd)].pos
FileOf(fd) == files[opened[Slot(fd)].path]

IsData(c) == c.op \in {"read", "write"}

\* The count of a call that reads or writes.
Counted(c) ==
  /\ c.left \in 1 .. c.len /\ c.total = c.len - c.left
  /\ c.op = "read" => Len(c.data) = c.total

\* An answer to the request of the call c, the server having executed it.
Honest(c, a) ==
  /\ c.op = "open" /\ a.res # -1 => Known(a.res) /\ opened[Slot(a.res)].path = c.path
  /\ IsData(c) /\ a.op = c.op =>
       /\ a.res \in 0 .. Part(c.left)
       /\ c.op = "read" => Len(a.data) = a.res
       /\ AtEnd(Extended(c, a), c.total + a.res, FileOf(c.fd), PosOf(c.fd))

Holds(h) == mine[h] # Closed => Known(mine[h].fd) /\ opened[Slot(mine[h].fd)].path = mine[h].path

\* The descriptor of a call is the one the program holds.
OwnFile(c) == c.op # "open" => mine[c.h] # Closed /\ mine[c.h].fd = c.fd

InPlace == IsData(call) => AtEnd(call, call.total, FileOf(call.fd), PosOf(call.fd))

Answered(s) == \A i \in DOMAIN s : Honest(call, s[i].of)

\* The request is still to be executed, or was executed or lost.
Unserved == toServer = <<req>> /\ line = <<>> /\ rx = <<>> /\ InPlace

Served ==
  /\ toServer = <<>>
  /\ IsData(call) => Placed(call, call.total, FileOf(call.fd), PosOf(call.fd))
  /\ Answered(line) /\ Answered(rx)

InCall ==
  /\ OwnFile(call) /\ (IsData(call) => Counted(call))
  /\ phase = "flush" => InPlace /\ (IsData(call) /\ call.total # 0 => toServer = <<>>)
  /\ phase = "send" => toServer = <<>> /\ line = <<>> /\ rx = <<>> /\ InPlace
  /\ phase \in {"header", "rest"} => Unserved \/ Served

\* What a call returned, and that nothing but its own request can still be executed.
AfterCall(c, r) ==
  /\ c.op = "open" /\ r # -1 => Known(r) /\ opened[Slot(r)].path = c.path
  /\ IsData(c) =>
       /\ OwnFile(c)
       /\ r \in 0 .. c.len /\ (c.op = "read" => Len(c.data) = r)
       /\ Placed(c, r, FileOf(c.fd), PosOf(c.fd))
       /\ \A i \in DOMAIN toServer : toServer[i].op = c.op /\ toServer[i].fd = c.fd

Honesty ==
  /\ \A h \in Handles : Holds(h)
  /\ phase # "idle" => InCall
  /\ phase = "idle" /\ ret # Nothing => AfterCall(ret.call, ret.res)

\* One request at most is under way, and nothing else while it is.
OneUnderWay == toServer # <<>> => Len(toServer) = 1 /\ line = <<>> /\ rx = <<>>

Uncrossed == ~crossed => Honesty /\ OneUnderWay

-----------------------------------------------------------------------------
LEMMA PlacedFact ==
  ASSUME NEW c, NEW f, NEW n \in Nat, NEW pos \in Nat, AtEnd(c, n, f, pos)
  PROVE  Placed(c, n, f, pos)
<1>1. pos - n \in 0 .. pos /\ (pos - n) + n <= pos
  BY DEF AtEnd
<1> DEFINE p == pos - n
<1>2. \A k \in 1 .. n : f[p + k] = ByteOf(c, k)
  BY DEF AtEnd
<1> QED BY <1>1, <1>2 DEF Placed

\* What was placed stays while the file only changes behind it.
LEMMA PlacedStays ==
  ASSUME NEW c, NEW n \in Nat, NEW f, NEW g, NEW pos \in Nat, NEW end \in Nat, pos <= end,
         Placed(c, n, f, pos), \A i \in 1 .. pos : g[i] = f[i]
  PROVE  Placed(c, n, g, end)
<1>1. PICK p \in 0 .. pos : p + n <= pos /\ \A k \in 1 .. n : f[p + k] = ByteOf(c, k)
  BY DEF Placed
<1>2. p \in 0 .. end /\ p + n <= end
  BY <1>1
<1>3. ASSUME NEW k \in 1 .. n PROVE g[p + k] = ByteOf(c, k)
  <2>1. p + k \in 1 .. pos
    BY <1>1
  <2> QED BY <1>1, <2>1
<1> QED BY <1>2, <1>3 DEF Placed

LEMMA SmallerFact ==
  ASSUME NEW a \in Nat, NEW b \in Nat
  PROVE  Smaller(a, b) \in Nat /\ Smaller(a, b) <= a /\ Smaller(a, b) <= b
BY DEF Smaller

LEMMA PartFact ==
  ASSUME NEW n \in Nat
  PROVE  Part(n) \in 0 .. n /\ (n > 0 => Part(n) > 0)
BY RfsAssumption DEF Part, Smaller

\* A part of a file.
LEMMA PieceFact ==
  ASSUME NEW S, NEW f \in Seq(S), NEW a \in Nat, NEW b \in Nat, b <= Len(f), a <= b
  PROVE  /\ SubSeq(f, a + 1, b) \in Seq(S) /\ Len(SubSeq(f, a + 1, b)) = b - a
         /\ \A i \in 1 .. b - a : SubSeq(f, a + 1, b)[i] = f[a + i]
<1>1. Len(f) \in Nat
  BY LenProperties
<1>2. \A i \in (a + 1) .. b : f[i] \in S
  <2>1. \A i \in (a + 1) .. b : i \in 1 .. Len(f)
    BY <1>1
  <2> QED BY <2>1, ElementOfSeq
<1>3. a + 1 \in Int /\ b \in Int
  OBVIOUS
<1>4. /\ SubSeq(f, a + 1, b) \in Seq(S)
      /\ Len(SubSeq(f, a + 1, b)) = IF a + 1 <= b THEN b - (a + 1) + 1 ELSE 0
      /\ \A i \in 1 .. b - (a + 1) + 1 : SubSeq(f, a + 1, b)[i] = f[(a + 1) + i - 1]
  BY <1>2, <1>3, SubSeqProperties
<1>5. Len(SubSeq(f, a + 1, b)) = b - a
  BY <1>4
<1>6. ASSUME NEW i \in 1 .. b - a PROVE SubSeq(f, a + 1, b)[i] = f[a + i]
  <2>1. i \in 1 .. b - (a + 1) + 1 /\ (a + 1) + i - 1 = a + i
    OBVIOUS
  <2> QED BY <1>4, <2>1
<1> QED BY <1>4, <1>5, <1>6

\* What the server reads follows what the call has read.
LEMMA ReadPiece ==
  ASSUME NEW f \in Seq(Data), NEW pos \in Nat, pos <= Len(f), NEW count \in Nat
  PROVE  LET data == SubSeq(f, pos + 1, Smaller(pos + count, Len(f)))
         IN  /\ data \in Seq(Data) /\ Len(data) \in 0 .. count /\ pos + Len(data) <= Len(f)
             /\ \A i \in 1 .. Len(data) : data[i] = f[pos + i]
<1> DEFINE b == Smaller(pos + count, Len(f))
           data == SubSeq(f, pos + 1, b)
<1>1. Len(f) \in Nat
  BY LenProperties
<1>2. b \in Nat /\ pos <= b /\ b <= Len(f) /\ b <= pos + count
  BY <1>1 DEF Smaller
<1> HIDE DEF b
<1>3. /\ data \in Seq(Data) /\ Len(data) = b - pos
      /\ \A i \in 1 .. b - pos : data[i] = f[pos + i]
  BY <1>2, PieceFact
<1>4. Len(data) \in 0 .. count /\ pos + Len(data) <= Len(f)
  BY <1>1, <1>2, <1>3
<1>5. \A i \in 1 .. Len(data) : data[i] = f[pos + i]
  BY <1>3
<1> QED BY <1>3, <1>4, <1>5 DEF b

LEMMA ExtendedFact ==
  ASSUME NEW c \in DataCall, NEW a \in AnyAnswer
  PROVE  /\ Extended(c, a) \in DataCall
         /\ Extended(c, a).op = c.op /\ Extended(c, a).h = c.h /\ Extended(c, a).fd = c.fd
         /\ Extended(c, a).id = c.id /\ Extended(c, a).len = c.len
         /\ Extended(c, a).total = c.total + a.res
         /\ Extended(c, a).left = c.left - Part(c.left)
         /\ Extended(c, a).data = IF a.op = "read" THEN c.data \o a.data ELSE c.data
<1> DEFINE d == IF a.op = "read" THEN c.data \o a.data ELSE c.data
           l == c.left - Part(c.left)
           t == c.total + a.res
<1>1. c.data \in Seq(Data) /\ a.data \in Seq(Data) /\ c.left \in Nat /\ c.total \in Int /\ a.res \in Int
  BY DEF DataCall, AnyAnswer
<1>2. d \in Seq(Data)
  BY <1>1, ConcatProperties
<1>3. l \in Nat
  BY <1>1, PartFact
<1>4. t \in Int
  BY <1>1
<1>5. Extended(c, a) = [c EXCEPT !.total = t, !.left = l, !.data = d]
  BY DEF Extended
<1> HIDE DEF d, l, t
<1>6. Extended(c, a) = [op |-> c.op, h |-> c.h, fd |-> c.fd, id |-> c.id, len |-> c.len, left |-> l,
                        total |-> t, data |-> d]
  BY <1>5 DEF DataCall
<1>7. Extended(c, a) \in DataCall
  BY <1>2, <1>3, <1>4, <1>6 DEF DataCall
<1> QED BY <1>6, <1>7 DEF d, l, t

\* The server's answer to a read ...
LEMMA ReadFact ==
  ASSUME NEW c \in DataCall, c.op = "read", Counted(c), NEW f \in Seq(Data), NEW pos \in Nat,
         AtEnd(c, c.total, f, pos), NEW a \in AnyAnswer, a.op = "read", a.res = Len(a.data),
         \A i \in 1 .. Len(a.data) : a.data[i] = f[pos + i]
  PROVE  AtEnd(Extended(c, a), c.total + a.res, f, pos + a.res)
<1> DEFINE n == c.total
           m == a.res
           d == c.data \o a.data
<1>1. c.data \in Seq(Data) /\ a.data \in Seq(Data) /\ n = Len(c.data) /\ m = Len(a.data)
      /\ n \in Nat /\ m \in Nat
  BY LenProperties DEF DataCall, AnyAnswer, Counted
<1>0. n \in Nat /\ m \in Nat
  BY <1>1
<1>2. \A i \in 1 .. n + m : d[i] = IF i <= n THEN c.data[i] ELSE a.data[i - n]
  BY <1>1, ConcatProperties
<1>3. Extended(c, a).op = "read" /\ Extended(c, a).data = d
  BY ExtendedFact
<1>4. n <= pos /\ \A k \in 1 .. n : f[(pos - n) + k] = c.data[k]
  BY DEF AtEnd, ByteOf
<1>5. \A i \in 1 .. m : a.data[i] = f[pos + i]
  OBVIOUS
<1> HIDE DEF n, m, d
<1>6. ASSUME NEW k \in 1 .. n + m PROVE f[((pos + m) - (n + m)) + k] = d[k]
  <2>0. ((pos + m) - (n + m)) + k = (pos - n) + k
    BY <1>0
  <2>1. CASE k <= n
    <3>1. k \in 1 .. n
      BY <1>0, <2>1
    <3> QED BY <1>2, <1>4, <2>0, <2>1, <3>1
  <2>2. CASE ~(k <= n)
    <3>1. k - n \in 1 .. m /\ pos + (k - n) = (pos - n) + k
      BY <1>0, <2>2
    <3> QED BY <1>2, <1>5, <2>0, <2>2, <3>1
  <2> QED BY <2>1, <2>2
<1>7. n + m <= pos + m
  <2>1. n <= pos
    BY <1>4
  <2> QED BY <1>0, <2>1
<1>8. AtEnd(Extended(c, a), n + m, f, pos + m)
  BY <1>3, <1>6, <1>7 DEF AtEnd, ByteOf
<1> QED BY <1>8 DEF n, m

\* ... and what a write leaves of a file: as much as before, and the bytes stored.
LEMMA StoreFact ==
  ASSUME NEW f \in Seq(Data), NEW pos \in Nat, pos <= Len(f), NEW b \in Seq(Data), NEW m \in 0 .. Len(b)
  PROVE  LET g == SubSeq(f, 1, pos) \o SubSeq(b, 1, m) \o SubSeq(f, pos + m + 1, Len(f))
         IN  /\ g \in Seq(Data) /\ Len(g) >= Len(f) /\ Len(g) >= pos + m
             /\ \A i \in 1 .. pos : g[i] = f[i]
             /\ \A i \in 1 .. m : g[pos + i] = b[i]
<1> DEFINE s == SubSeq(f, 1, pos)
           t == SubSeq(b, 1, m)
           u == SubSeq(f, pos + m + 1, Len(f))
           v == t \o u
<1>1. Len(f) \in Nat /\ Len(b) \in Nat /\ m \in Nat
  BY LenProperties
<1>2. s \in Seq(Data) /\ Len(s) = pos /\ \A i \in 1 .. pos : s[i] = f[i]
  <2>1. SubSeq(f, 0 + 1, pos) \in Seq(Data) /\ Len(SubSeq(f, 0 + 1, pos)) = pos - 0
        /\ \A i \in 1 .. pos - 0 : SubSeq(f, 0 + 1, pos)[i] = f[0 + i]
    BY <1>1, PieceFact
  <2> QED BY <2>1
<1>3. t \in Seq(Data) /\ Len(t) = m /\ \A i \in 1 .. m : t[i] = b[i]
  <2>1. SubSeq(b, 0 + 1, m) \in Seq(Data) /\ Len(SubSeq(b, 0 + 1, m)) = m - 0
        /\ \A i \in 1 .. m - 0 : SubSeq(b, 0 + 1, m)[i] = b[0 + i]
    BY <1>1, PieceFact
  <2> QED BY <2>1
<1>4. u \in Seq(Data) /\ Len(u) \in Nat /\ Len(u) + (pos + m) >= Len(f)
  <2>1. CASE pos + m <= Len(f)
    <3>1. u \in Seq(Data) /\ Len(u) = Len(f) - (pos + m)
      BY <1>1, <2>1, PieceFact
    <3>2. Len(u) \in Nat /\ Len(u) + (pos + m) >= Len(f)
      <4>1. Len(u) = Len(f) - (pos + m)
        BY <3>1
      <4> HIDE DEF u
      <4> QED BY <1>1, <2>1, <4>1
    <3> QED BY <3>1, <3>2
  <2>2. CASE ~(pos + m <= Len(f))
    <3>1. u = <<>>
      BY <1>1, <2>2, SubSeqEmpty
    <3>2. <<>> \in Seq(Data) /\ Len(<<>>) = 0
      BY EmptySeq
    <3>3. 0 + (pos + m) >= Len(f) /\ 0 \in Nat
      BY <1>1, <2>2
    <3> QED BY <3>1, <3>2, <3>3
  <2> QED BY <2>1, <2>2
<1> HIDE DEF s, t, u
<1>5. /\ s \o t \in Seq(Data) /\ Len(s \o t) = pos + m
      /\ \A i \in 1 .. pos + m : (s \o t)[i] = IF i <= pos THEN s[i] ELSE t[i - pos]
  BY <1>2, <1>3, ConcatProperties
<1>50. u \in Seq(Data) /\ s \o t \in Seq(Data)
  BY <1>4, <1>5
<1>6. /\ (s \o t) \o u \in Seq(Data) /\ Len((s \o t) \o u) = (pos + m) + Len(u)
      /\ \A i \in 1 .. (pos + m) + Len(u) :
           ((s \o t) \o u)[i] = IF i <= pos + m THEN (s \o t)[i] ELSE u[i - (pos + m)]
  BY <1>5, <1>50, ConcatProperties
<1>7. ASSUME NEW i \in 1 .. pos PROVE ((s \o t) \o u)[i] = f[i]
  <2>1. i \in 1 .. (pos + m) + Len(u) /\ i <= pos + m /\ i \in 1 .. pos + m /\ i <= pos
    BY <1>1, <1>4
  <2> QED BY <1>2, <1>5, <1>6, <2>1
<1>8. ASSUME NEW i \in 1 .. m PROVE ((s \o t) \o u)[pos + i] = b[i]
  <2>1. /\ pos + i \in 1 .. (pos + m) + Len(u) /\ pos + i <= pos + m /\ pos + i \in 1 .. pos + m
        /\ ~(pos + i <= pos) /\ (pos + i) - pos = i
    BY <1>1, <1>4
  <2> QED BY <1>3, <1>5, <1>6, <2>1
<1>9. Len((s \o t) \o u) >= Len(f) /\ Len((s \o t) \o u) >= pos + m
  BY <1>1, <1>4, <1>6
<1> QED BY <1>6, <1>7, <1>8, <1>9 DEF s, t, u

LEMMA WriteFact ==
  ASSUME NEW c \in DataCall, c.op = "write", Counted(c), NEW f, NEW g, NEW pos \in Nat,
         AtEnd(c, c.total, f, pos), NEW a \in AnyAnswer, a.op = "write", a.res \in 0 .. Part(c.left),
         \A i \in 1 .. pos : g[i] = f[i],
         \A i \in 1 .. a.res : g[pos + i] = Request(c).bytes[i]
  PROVE  AtEnd(Extended(c, a), c.total + a.res, g, pos + a.res)
<1> DEFINE n == c.total
           m == a.res
<1>1. c.len \in Nat /\ c.left \in Nat /\ c.id \in Nat /\ n = c.len - c.left /\ n \in Nat /\ m \in Nat
      /\ Part(c.left) \in Nat
  <2>1. c.len \in Nat /\ c.left \in Nat /\ c.id \in Nat
    BY DEF DataCall
  <2>2. Part(c.left) \in Nat
    BY <2>1, PartFact
  <2> QED BY <2>1, <2>2 DEF Counted
<1>2. \A i \in 1 .. m : Request(c).bytes[i] = <<c.id, n + i>>
  <2>1. Request(c).bytes = [k \in 1 .. Part(c.left) |-> <<c.id, c.len - c.left + k>>]
    BY DEF Request
  <2>2. \A i \in 1 .. m : i \in 1 .. Part(c.left) /\ c.len - c.left + i = n + i
    BY <1>1
  <2> QED BY <2>1, <2>2
<1>3. Extended(c, a).op = "write" /\ Extended(c, a).id = c.id
  BY ExtendedFact
<1>4. n <= pos /\ \A k \in 1 .. n : f[(pos - n) + k] = <<c.id, k>>
  BY DEF AtEnd, ByteOf
<1>5. \A i \in 1 .. m : g[pos + i] = <<c.id, n + i>>
  BY <1>2
<1> HIDE DEF n, m
<1>6. ASSUME NEW k \in 1 .. n + m PROVE g[((pos + m) - (n + m)) + k] = <<c.id, k>>
  <2>0. ((pos + m) - (n + m)) + k = (pos - n) + k
    BY <1>1
  <2>1. CASE k <= n
    <3>1. k \in 1 .. n /\ (pos - n) + k \in 1 .. pos
      BY <1>1, <1>4, <2>1
    <3> QED BY <1>4, <2>0, <3>1
  <2>2. CASE ~(k <= n)
    <3>1. k - n \in 1 .. m /\ pos + (k - n) = (pos - n) + k /\ n + (k - n) = k
      BY <1>1, <2>2
    <3>2. g[pos + (k - n)] = <<c.id, n + (k - n)>>
      BY <1>5, <3>1
    <3> QED BY <2>0, <3>1, <3>2
  <2> QED BY <2>1, <2>2
<1>7. n + m <= pos + m
  BY <1>1, <1>4
<1>8. AtEnd(Extended(c, a), n + m, g, pos + m)
  BY <1>3, <1>6, <1>7 DEF AtEnd, ByteOf
<1> QED BY <1>8 DEF n, m

\* What is placed in a file occurs in it.
LEMMA WithinFact ==
  ASSUME NEW c, NEW f \in Seq(Data), NEW pos \in Nat, pos <= Len(f), NEW s \in Seq(Data),
         Placed(c, Len(s), f, pos), \A k \in 1 .. Len(s) : s[k] = ByteOf(c, k)
  PROVE  Within(s, f)
<1> DEFINE n == Len(s)
<1>1. n \in Nat /\ Len(f) \in Nat
  BY LenProperties
<1>2. PICK p \in 0 .. pos : p + n <= pos /\ \A k \in 1 .. n : f[p + k] = ByteOf(c, k)
  BY DEF Placed
<1> HIDE DEF n
<1>3. p \in Nat /\ p + n \in Nat /\ p + n <= Len(f) /\ p <= p + n /\ (p + n) - p = n
      /\ p \in 0 .. Len(f) - n
  BY <1>1, <1>2
<1>4. /\ SubSeq(f, p + 1, p + n) \in Seq(Data) /\ Len(SubSeq(f, p + 1, p + n)) = n
      /\ \A i \in 1 .. n : SubSeq(f, p + 1, p + n)[i] = f[p + i]
  <2> DEFINE q == p + n
  <2>1. q \in Nat /\ q <= Len(f) /\ p <= q /\ q - p = n
    BY <1>3
  <2> HIDE DEF q
  <2>2. /\ SubSeq(f, p + 1, q) \in Seq(Data) /\ Len(SubSeq(f, p + 1, q)) = q - p
        /\ \A i \in 1 .. q - p : SubSeq(f, p + 1, q)[i] = f[p + i]
    BY <1>3, <2>1, PieceFact
  <2> QED BY <2>1, <2>2 DEF q
<1>5. \A i \in 1 .. n : SubSeq(f, p + 1, p + n)[i] = s[i]
  BY <1>2, <1>4 DEF n
<1>6. SubSeq(f, p + 1, p + n) = s
  BY <1>4, <1>5, SeqEqual DEF n
<1> QED BY <1>3, <1>6 DEF Within, n

-----------------------------------------------------------------------------
(***************************************************************************)
(* The types are kept.                                                     *)
(***************************************************************************)
LEMMA KindFact ==
  /\ \A c \in AnyCall : /\ c # Nothing /\ c.op \in Ops
                        /\ c.op = "open" => c \in OpenCall
                        /\ IsData(c) => c \in DataCall
                        /\ c.op # "open" /\ ~IsData(c) => c \in PlainCall
  /\ \A a \in AnyAnswer : a # Nothing
  /\ \A r \in AnyRequest : /\ r.op \in Ops
                           /\ r.op = "open" => r \in OpenCall
                           /\ r.op = "read" => r \in ReadRequest
                           /\ r.op = "write" => r \in WriteRequest
<1>1. ASSUME NEW c \in AnyCall
      PROVE  /\ c # Nothing /\ c.op \in Ops
             /\ c.op = "open" => c \in OpenCall
             /\ IsData(c) => c \in DataCall
             /\ c.op # "open" /\ ~IsData(c) => c \in PlainCall
  <2>1. c.op \in Ops
    BY DEF AnyCall, OpenCall, DataCall, PlainCall, Ops
  <2>2. c # Nothing
    BY <2>1 DEF Nothing, Ops
  <2> QED BY <2>1, <2>2 DEF AnyCall, OpenCall, DataCall, PlainCall, IsData
<1>2. ASSUME NEW a \in AnyAnswer PROVE a # Nothing
  <2>1. a.op \in Ops
    BY DEF AnyAnswer
  <2> QED BY <2>1 DEF Nothing, Ops
<1>3. ASSUME NEW r \in AnyRequest
      PROVE  /\ r.op \in Ops
             /\ r.op = "open" => r \in OpenCall
             /\ r.op = "read" => r \in ReadRequest
             /\ r.op = "write" => r \in WriteRequest
  BY DEF AnyRequest, OpenCall, ReadRequest, WriteRequest, PlainCall, Ops
<1> QED BY <1>1, <1>2, <1>3

LEMMA AsSeq ==
  ASSUME NEW S, NEW n \in Nat, NEW f \in [1 .. n -> S]
  PROVE  f \in Seq(S) /\ Len(f) = n
<1>1. f \in Seq(S)
  BY SeqDef
<1>2. DOMAIN f = 1 .. n /\ DOMAIN f = 1 .. Len(f) /\ Len(f) \in Nat
  BY <1>1, LenProperties
<1> QED BY <1>1, <1>2

LEMMA RequestFact ==
  ASSUME NEW c \in AnyCall
  PROVE  /\ Request(c) \in AnyRequest /\ Request(c).op = c.op
         /\ c.op # "open" => Request(c).fd = c.fd
         /\ c.op = "write" => Len(Request(c).bytes) = Part(c.left)
<1>1. CASE c.op = "read"
  <2>1. c \in DataCall /\ Request(c) = [op |-> "read", fd |-> c.fd, count |-> Part(c.left)]
    BY <1>1, KindFact DEF Request, IsData
  <2>2. Part(c.left) \in Nat
    BY <2>1, PartFact DEF DataCall
  <2> QED BY <1>1, <2>1, <2>2 DEF AnyRequest, ReadRequest, DataCall
<1>2. CASE c.op = "write"
  <2> DEFINE b == [k \in 1 .. Part(c.left) |-> <<c.id, c.len - c.left + k>>]
  <2>1. c \in DataCall /\ Request(c) = [op |-> "write", fd |-> c.fd, bytes |-> b]
    BY <1>2, KindFact DEF Request, IsData
  <2>2. Part(c.left) \in Nat
    BY <2>1, PartFact DEF DataCall
  <2>3. b \in [1 .. Part(c.left) -> Data]
    BY <2>1 DEF DataCall, Data
  <2> HIDE DEF b
  <2>4. b \in Seq(Data) /\ Len(b) = Part(c.left)
    BY <2>2, <2>3, AsSeq
  <2> QED BY <1>2, <2>1, <2>4 DEF AnyRequest, WriteRequest, DataCall
<1>3. CASE ~IsData(c)
  <2>1. Request(c) = c /\ c \in OpenCall \union PlainCall
    BY <1>3, KindFact DEF Request, IsData
  <2>2. c \in AnyRequest
    BY <2>1 DEF AnyRequest
  <2> QED BY <1>3, <2>1, <2>2 DEF IsData
<1> QED BY <1>1, <1>2, <1>3 DEF IsData

LEMMA TypesInit == Init => Types
<1> SUFFICES ASSUME Init PROVE Types
  OBVIOUS
<1>0. {FileLen, MaxCalls, MaxLost} \subseteq Nat
  BY RfsAssumption
<1>1. <<>> \in Seq(AnyRequest) /\ <<>> \in Seq(Unit) /\ <<>> \in Seq(File) /\ DOMAIN <<>> = {}
  OBVIOUS
<1>2. ClientTypes
  <2>1. calls \in 0 .. MaxCalls /\ lost \in 0 .. MaxLost
    BY <1>0 DEF Init
  <2>2. mine \in [Handles -> Mine \union {Closed}]
    BY DEF Init
  <2> QED BY <2>1, <2>2 DEF Init, ClientTypes
<1>3. files \in [Paths -> Seq(Data)]
  <2>1. ASSUME NEW p \in Paths PROVE [k \in 1 .. FileLen |-> <<p, k>>] \in Seq(Data)
    <3>1. [k \in 1 .. FileLen |-> <<p, k>>] \in [1 .. FileLen -> Data]
      BY <1>0 DEF Data
    <3> QED BY <1>0, <3>1, AsSeq
  <2> QED BY <2>1 DEF Init
<1> QED BY <1>1, <1>2, <1>3 DEF Init, Types, ServerTypes, LineTypes

LEMMA BeginTypes == ASSUME Types, NEW c \in AnyCall, Begin(c) PROVE Types'
<1>1. ClientTypes'
  <2>1. phase = "idle" /\ phase' = "flush" /\ calls < MaxCalls /\ calls' = calls + 1 /\ call' = c
        /\ req' = Request(c) /\ ret' = Nothing /\ UNCHANGED <<mine, answer, lost, crossed>>
    BY DEF Begin
  <2>2. calls' \in 0 .. MaxCalls
    BY <2>1, RfsAssumption DEF Types, ClientTypes
  <2> QED BY <2>1, <2>2 DEF Types, ClientTypes
<1>2. ServerTypes' /\ LineTypes'
  BY DEF Begin, serverVars, Types, ServerTypes, LineTypes
<1> QED BY <1>1, <1>2 DEF Types

LEMMA ReadWriteCall ==
  ASSUME Types, NEW op \in {"read", "write"}, NEW h \in Handles, NEW n \in Lens, mine[h] # Closed
  PROVE  [op |-> op, h |-> h, fd |-> mine[h].fd, id |-> calls + 1,
          len |-> n, left |-> n, total |-> 0, data |-> <<>>] \in DataCall
<1>1. mine[h].fd \in Int
  BY DEF Types, ClientTypes, Mine
<1>2. calls + 1 \in Nat /\ n \in Nat
  BY RfsAssumption DEF Types, ClientTypes
<1>3. <<>> \in Seq(Data)
  OBVIOUS
<1> QED BY <1>1, <1>2, <1>3 DEF DataCall

LEMMA ProgramTypes == ASSUME Types, Program PROVE Types'
<1>1. ASSUME NEW h \in Handles, NEW p \in Paths, Open(h, p) PROVE Types'
  <2>1. [op |-> "open", h |-> h, path |-> p] \in AnyCall
    BY DEF AnyCall, OpenCall
  <2> QED BY <1>1, <2>1, BeginTypes DEF Open
<1>2. ASSUME NEW h \in Handles, NEW n \in Lens, NEW op \in {"read", "write"}, ReadWrite(op, h, n)
      PROVE  Types'
  BY <1>2, ReadWriteCall, BeginTypes DEF ReadWrite, AnyCall
<1>3. ASSUME NEW h \in Handles, mine[h] # Closed
      PROVE  /\ [op |-> "lseek", h |-> h, fd |-> mine[h].fd] \in AnyCall
             /\ [op |-> "close", h |-> h, fd |-> mine[h].fd] \in AnyCall
  <2>1. mine[h].fd \in Int
    BY <1>3 DEF Types, ClientTypes, Mine
  <2> QED BY <2>1 DEF AnyCall, PlainCall
<1>4. ASSUME NEW h \in Handles, Seek(h) \/ Close(h) PROVE Types'
  BY <1>3, <1>4, BeginTypes DEF Seek, Close
<1> QED BY <1>1, <1>2, <1>4 DEF Program

LEMMA ReturnTypes ==
  ASSUME ClientTypes, NEW c \in AnyCall, NEW r \in Int, Return(c, r), answer' = Nothing,
         UNCHANGED <<calls, lost>>, crossed' \in BOOLEAN
  PROVE  ClientTypes'
<1>1. mine' \in [Handles -> Mine \union {Closed}]
  <2>1. CASE c.op = "open" /\ r # -1
    <3>1. c \in OpenCall
      BY <2>1, KindFact
    <3>2. [fd |-> r, path |-> c.path] \in Mine
      BY <3>1 DEF OpenCall, Mine
    <3>3. mine' = [mine EXCEPT ![c.h] = [fd |-> r, path |-> c.path]]
      BY <2>1 DEF Return
    <3> QED BY <3>2, <3>3 DEF ClientTypes
  <2>2. CASE c.op = "close"
    <3>1. mine' = [mine EXCEPT ![c.h] = Closed]
      BY <2>2 DEF Return
    <3> QED BY <3>1 DEF ClientTypes
  <2>3. CASE ~(c.op = "open" /\ r # -1) /\ c.op # "close"
    BY <2>3 DEF Return, ClientTypes
  <2> QED BY <2>1, <2>2, <2>3
<1>2. phase' = "idle" /\ call' = Nothing /\ ret' \in [call : AnyCall, res : Int]
  BY DEF Return
<1> QED BY <1>1, <1>2 DEF ClientTypes

LEMMA GiveUpTypes ==
  ASSUME ClientTypes, phase # "idle", GiveUp, answer' = Nothing, UNCHANGED <<calls, lost>>,
         crossed' \in BOOLEAN
  PROVE  ClientTypes'
<1>1. call \in AnyCall
  BY DEF ClientTypes
<1>2. (IF call.op \in {"read", "write"} THEN call.total ELSE -1) \in Int
  <2>1. call.op \in {"read", "write"} => call.total \in Int
    BY <1>1, KindFact DEF DataCall, IsData
  <2> QED BY <2>1
<1> QED BY <1>1, <1>2, ReturnTypes DEF GiveUp

LEMMA UnitFact ==
  ASSUME LineTypes, rx # <<>>
  PROVE  Head(rx) \in Unit /\ Head(rx).of \in AnyAnswer /\ Tail(rx) \in Seq(Unit)
<1>1. rx \in Seq(Unit)
  BY DEF LineTypes
<1>2. Head(rx) \in Unit /\ Tail(rx) \in Seq(Unit)
  BY <1>1, HeadTailProperties
<1>3. \A u \in Unit : u.of \in AnyAnswer
  BY DEF Unit
<1> QED BY <1>2, <1>3

LEMMA ContinueTypes ==
  ASSUME ClientTypes, phase = "rest", IsData(call), NEW a \in AnyAnswer, Continue(a), answer' = Nothing,
         UNCHANGED <<calls, lost, crossed>>
  PROVE  ClientTypes'
<1> DEFINE c == Extended(call, a)
<1>1. call \in DataCall
  BY KindFact DEF ClientTypes
<1>2. c \in DataCall /\ c \in AnyCall /\ c.total \in Int
  BY <1>1, ExtendedFact DEF DataCall, AnyCall
<1>3. IF Short(call, a.res) \/ c.left = 0 THEN Return(c, c.total)
      ELSE call' = c /\ req' = Request(c) /\ phase' = "flush" /\ UNCHANGED <<mine, ret>>
  BY DEF Continue, Extended
<1> HIDE DEF c
<1>4. CASE Return(c, c.total)
  BY <1>2, <1>4, ReturnTypes DEF ClientTypes
<1>5. CASE call' = c /\ req' = Request(c) /\ phase' = "flush" /\ UNCHANGED <<mine, ret>>
  BY <1>2, <1>5 DEF ClientTypes
<1> QED BY <1>3, <1>4, <1>5

LEMMA ClientStepTypes == ASSUME Types, Client PROVE Types'
<1>0. ClientTypes /\ ServerTypes /\ LineTypes
  BY DEF Types
<1>1. CASE Flush
  <2>1. <<>> \in Seq(Unit)
    OBVIOUS
  <2>2. LineTypes'
    BY <1>0, <1>1, <2>1 DEF Flush, EmptiedInput, LineTypes
  <2>3. ServerTypes'
    BY <1>0, <1>1 DEF Flush, serverVars, ServerTypes
  <2>4. crossed' \in BOOLEAN
    BY <1>0, <1>1 DEF Flush, ClientTypes
  <2>5. ClientTypes'
    <3>1. phase = "flush" /\ UNCHANGED <<answer, calls, lost>> /\ answer' = Nothing
      BY <1>0, <1>1 DEF Flush, ClientTypes
    <3>2. CASE GiveUp
      BY <1>0, <2>4, <3>1, <3>2, GiveUpTypes
    <3>3. CASE phase' = "send" /\ UNCHANGED <<mine, call, req, ret>>
      BY <1>0, <2>4, <3>1, <3>3 DEF ClientTypes
    <3> QED BY <1>1, <3>2, <3>3 DEF Flush
  <2> QED BY <2>2, <2>3, <2>5 DEF Types
<1>2. CASE Send
  <2>1. req \in AnyRequest
    BY <1>0, <1>2, RequestFact DEF Send, ClientTypes
  <2>2. LineTypes'
    BY <1>0, <1>2, <2>1, AppendProperties DEF Send, LineTypes
  <2>3. ServerTypes'
    BY <1>0, <1>2 DEF Send, serverVars, ServerTypes
  <2>4. ClientTypes'
    BY <1>0, <1>2 DEF Send, ClientTypes
  <2> QED BY <2>2, <2>3, <2>4 DEF Types
<1>3. CASE Header
  <2>1. rx # <<>> /\ rx' = Tail(rx) /\ phase = "header" /\ UNCHANGED <<calls, serverVars, toServer, line, crossed, lost>>
    BY <1>3 DEF Header
  <2>2. Head(rx).of \in AnyAnswer /\ rx' \in Seq(Unit)
    BY <1>0, <2>1, UnitFact
  <2>3. LineTypes' /\ ServerTypes'
    BY <1>0, <2>1, <2>2 DEF serverVars, ServerTypes, LineTypes
  <2>4. ClientTypes'
    <3>1. CASE phase' = "rest" /\ answer' = Head(rx).of /\ UNCHANGED <<mine, call, req, ret>>
      BY <1>0, <2>1, <2>2, <3>1 DEF ClientTypes
    <3>2. CASE GiveUp /\ UNCHANGED answer
      <4>1. answer' = Nothing
        BY <1>0, <2>1, <3>2 DEF ClientTypes
      <4> QED BY <1>0, <2>1, <3>2, <4>1, GiveUpTypes DEF ClientTypes
    <3> QED BY <1>3, <3>1, <3>2 DEF Header
  <2> QED BY <2>3, <2>4 DEF Types
<1>4. CASE Rest
  <2>1. rx # <<>> /\ rx' = Tail(rx) /\ phase = "rest" /\ answer' = Nothing
        /\ UNCHANGED <<calls, serverVars, toServer, line, crossed, lost>>
    BY <1>4 DEF Rest
  <2>2. Head(rx).of \in AnyAnswer /\ rx' \in Seq(Unit)
    BY <1>0, <2>1, UnitFact
  <2>3. LineTypes' /\ ServerTypes'
    BY <1>0, <2>1, <2>2 DEF serverVars, ServerTypes, LineTypes
  <2>4. ClientTypes'
    <3>1. CASE GiveUp
      BY <1>0, <2>1, <3>1, GiveUpTypes DEF ClientTypes
    <3>2. CASE IsData(call) /\ Continue(Head(rx).of)
      BY <1>0, <2>1, <2>2, <3>2, ContinueTypes
    <3>3. CASE Return(call, Head(rx).of.res)
      <4>1. Head(rx).of.res \in Int /\ call \in AnyCall
        BY <1>0, <2>1, <2>2 DEF AnyAnswer, ClientTypes
      <4> QED BY <1>0, <2>1, <3>3, <4>1, ReturnTypes DEF ClientTypes
    <3> QED BY <1>4, <3>1, <3>2, <3>3 DEF Rest, IsData
  <2> QED BY <2>3, <2>4 DEF Types
<1>5. CASE Timeout
  <2>1. phase # "idle" /\ GiveUp /\ answer' = Nothing
        /\ UNCHANGED <<calls, serverVars, toServer, line, rx, crossed, lost>>
    BY <1>5 DEF Timeout, TimedPhases
  <2>2. ClientTypes'
    BY <1>0, <2>1, GiveUpTypes DEF ClientTypes
  <2>3. LineTypes' /\ ServerTypes'
    BY <1>0, <2>1 DEF serverVars, ServerTypes, LineTypes
  <2> QED BY <2>2, <2>3 DEF Types
<1> QED BY <1>1, <1>2, <1>3, <1>4, <1>5 DEF Client

\* A descriptor moves.
LEMMA MoveFact ==
  ASSUME ServerTypes, NEW i \in DOMAIN opened, NEW p \in Nat, opened' = [opened EXCEPT ![i].pos = p]
  PROVE  /\ opened' \in Seq(File) /\ DOMAIN opened' = DOMAIN opened
         /\ \A j \in DOMAIN opened : /\ opened'[j].path = opened[j].path
                                     /\ opened'[j].pos = IF j = i THEN p ELSE opened[j].pos
<1>1. opened \in Seq(File) /\ DOMAIN opened = 1 .. Len(opened)
  BY LenProperties DEF ServerTypes
<1>2. \A j \in DOMAIN opened : opened[j] \in File
  BY <1>1, ElementOfSeq
<1> DEFINE o == [path |-> opened[i].path, pos |-> p]
<1>3. o \in File
  BY <1>2 DEF File
<1>4. [opened[i] EXCEPT !.pos = p] = o
  BY <1>2 DEF File
<1>5. opened' = [opened EXCEPT ![i] = o]
  <2>1. opened' = [opened EXCEPT ![i] = [opened[i] EXCEPT !.pos = p]]
    OBVIOUS
  <2> QED BY <1>4, <2>1
<1>6. o.path = opened[i].path /\ o.pos = p
  OBVIOUS
<1> HIDE DEF o
<1>7. opened' \in Seq(File) /\ Len(opened') = Len(opened)
      /\ \A j \in 1 .. Len(opened) : opened'[j] = IF j = i THEN o ELSE opened[j]
  BY <1>1, <1>3, <1>5, ExceptSeq
<1>8. DOMAIN opened' = DOMAIN opened
  BY <1>1, <1>7, LenProperties
<1> QED BY <1>1, <1>6, <1>7, <1>8

LEMMA SlotFact ==
  ASSUME ServerTypes, NEW i \in DOMAIN opened
  PROVE  /\ opened[i].path \in Paths /\ opened[i].pos \in Nat
         /\ files[opened[i].path] \in Seq(Data) /\ opened[i].pos <= Len(files[opened[i].path])
<1>1. opened \in Seq(File) /\ DOMAIN opened = 1 .. Len(opened)
  BY LenProperties DEF ServerTypes
<1>2. opened[i] \in File
  BY <1>1, ElementOfSeq
<1> QED BY <1>2 DEF File, ServerTypes

LEMMA AppendIndex ==
  ASSUME NEW S, NEW s \in Seq(S), NEW e \in S, NEW t, t = Append(s, e)
  PROVE  \E n \in Nat :
           /\ Len(s) = n /\ DOMAIN s = 1 .. n /\ DOMAIN t = 1 .. n + 1
           /\ t \in Seq(S) /\ t[n + 1] = e
           /\ \A j \in 1 .. n : t[j] = s[j]
BY AppendProperties, LenProperties

\* The number a descriptor is given is that of a slot of its own.
LEMMA NewSlot ==
  ASSUME ServerTypes, NEW p \in Paths, opened' = Append(opened, [path |-> p, pos |-> 0])
  PROVE  /\ opened' \in Seq(File) /\ DOMAIN opened \subseteq DOMAIN opened'
         /\ \A j \in DOMAIN opened : opened'[j] = opened[j]
         /\ Slot(FirstFd + Len(opened)) \in DOMAIN opened' /\ FirstFd + Len(opened) \in Int
         /\ opened'[Slot(FirstFd + Len(opened))] = [path |-> p, pos |-> 0]
         /\ \A j \in DOMAIN opened' : j \in DOMAIN opened \/ j = Slot(FirstFd + Len(opened))
<1> DEFINE o == [path |-> p, pos |-> 0]
<1>1. opened \in Seq(File) /\ o \in File
  BY DEF ServerTypes, File
<1>2. opened' = Append(opened, o)
  OBVIOUS
<1> HIDE DEF o
<1>3. PICK n \in Nat : /\ Len(opened) = n /\ DOMAIN opened = 1 .. n /\ DOMAIN opened' = 1 .. n + 1
                       /\ opened' \in Seq(File) /\ opened'[n + 1] = o
                       /\ \A j \in 1 .. n : opened'[j] = opened[j]
  BY <1>1, <1>2, AppendIndex
<1>4. Slot(FirstFd + n) = n + 1 /\ FirstFd + n \in Int
  BY RfsAssumption DEF Slot
<1>5. 1 .. n \subseteq 1 .. n + 1 /\ n + 1 \in 1 .. n + 1 /\ \A j \in 1 .. n + 1 : j \in 1 .. n \/ j = n + 1
  OBVIOUS
<1> QED BY <1>3, <1>4, <1>5 DEF o

\* What the server does with a request r, answering a.
Opens(r, a) ==
  /\ r.op = "open" /\ opened' = Append(opened, [path |-> r.path, pos |-> 0])
  /\ a.res = FirstFd + Len(opened) /\ UNCHANGED files

Refuses(r, a) ==
  /\ UNCHANGED serverVars
  /\ r.op = "open" => a.res = -1
  /\ r.op # "open" => r.op = "close" \/ ~Known(r.fd)

Reads(r, a) ==
  /\ r.op = "read" /\ Known(r.fd) /\ UNCHANGED files
  /\ a.res = Len(a.data) /\ a.res \in 0 .. r.count /\ PosOf(r.fd) + a.res <= Len(FileOf(r.fd))
  /\ \A i \in 1 .. a.res : a.data[i] = FileOf(r.fd)[PosOf(r.fd) + i]
  /\ opened' = [opened EXCEPT ![Slot(r.fd)].pos = PosOf(r.fd) + a.res]

Writes(r, a) ==
  /\ r.op = "write" /\ Known(r.fd) /\ a.res \in 0 .. Len(r.bytes)
  /\ opened' = [opened EXCEPT ![Slot(r.fd)].pos = PosOf(r.fd) + a.res]
  /\ \E g \in Seq(Data) :
       /\ files' = [files EXCEPT ![opened[Slot(r.fd)].path] = g]
       /\ Len(g) >= Len(FileOf(r.fd)) /\ Len(g) >= PosOf(r.fd) + a.res
       /\ \A i \in 1 .. PosOf(r.fd) : g[i] = FileOf(r.fd)[i]
       /\ \A i \in 1 .. a.res : g[PosOf(r.fd) + i] = r.bytes[i]

Rewinds(r) ==
  r.op = "lseek" /\ Known(r.fd) /\ opened' = [opened EXCEPT ![Slot(r.fd)].pos = 0] /\ UNCHANGED files

LEMMA ServeFact ==
  ASSUME Types, Serve
  PROVE  \E r \in AnyRequest, a \in AnyAnswer :
           /\ toServer # <<>> /\ r = Head(toServer) /\ toServer' = Tail(toServer)
           /\ UNCHANGED <<clientVars, rx, crossed, lost>>
           /\ a.op = r.op
           /\ line' = line \o <<[part |-> "header", of |-> a], [part |-> "rest", of |-> a]>>
           /\ Opens(r, a) \/ Refuses(r, a) \/ Reads(r, a) \/ Writes(r, a) \/ Rewinds(r)
<1> DEFINE r == Head(toServer)
<1>1. toServer # <<>> /\ toServer' = Tail(toServer) /\ UNCHANGED <<clientVars, rx, crossed, lost>>
  BY DEF Serve
<1>2. r \in AnyRequest
  BY <1>1, HeadTailProperties DEF Types, LineTypes
<1>3. ASSUME NEW res \in Int, NEW data \in Seq(Data)
      PROVE  [op |-> r.op, res |-> res, data |-> data] \in AnyAnswer
  BY <1>2, KindFact DEF AnyAnswer
<1>4. <<>> \in Seq(Data) /\ 0 \in Int /\ -1 \in Int
  OBVIOUS
<1>5. /\ r.op = "open" => r \in OpenCall
      /\ r.op = "read" => r \in ReadRequest
      /\ r.op = "write" => r \in WriteRequest
  BY <1>2, KindFact
<1>6. \/ r.op = "open" /\ ServeOpen(r)
      \/ r.op = "read" /\ Known(r.fd) /\ ServeRead(r)
      \/ r.op = "write" /\ Known(r.fd) /\ ServeWrite(r)
      \/ r.op = "lseek" /\ Known(r.fd) /\ ServeSeek(r)
      \/ (r.op = "close" \/ (r.op # "open" /\ ~Known(r.fd))) /\ Answer(r, 0, <<>>) /\ UNCHANGED serverVars
  BY DEF Serve
<1> HIDE DEF r
<1> SUFFICES \E a \in AnyAnswer :
               /\ a.op = r.op
               /\ line' = line \o <<[part |-> "header", of |-> a], [part |-> "rest", of |-> a]>>
               /\ Opens(r, a) \/ Refuses(r, a) \/ Reads(r, a) \/ Writes(r, a) \/ Rewinds(r)
  BY <1>1, <1>2 DEF r
<1>7. ASSUME NEW res \in Int, NEW data \in Seq(Data), Answer(r, res, data)
      PROVE  LET a == [op |-> r.op, res |-> res, data |-> data]
             IN  /\ a \in AnyAnswer /\ a.op = r.op /\ a.res = res /\ a.data = data
                 /\ line' = line \o <<[part |-> "header", of |-> a], [part |-> "rest", of |-> a]>>
  BY <1>3, <1>7 DEF Answer
<1>8. CASE r.op = "open" /\ ServeOpen(r)
  <2>1. CASE /\ opened' = Append(opened, [path |-> r.path, pos |-> 0])
             /\ Answer(r, FirstFd + Len(opened), <<>>) /\ UNCHANGED files
    <3> DEFINE a == [op |-> r.op, res |-> FirstFd + Len(opened), data |-> <<>>]
    <3>1. FirstFd + Len(opened) \in Int
      <4>1. Len(opened) \in Nat /\ FirstFd \in Nat
        BY LenProperties, RfsAssumption DEF Types, ServerTypes
      <4> QED BY <4>1
    <3>2. /\ a \in AnyAnswer /\ a.op = r.op /\ a.res = FirstFd + Len(opened)
          /\ line' = line \o <<[part |-> "header", of |-> a], [part |-> "rest", of |-> a]>>
      BY <1>4, <1>7, <2>1, <3>1
    <3> HIDE DEF a
    <3>3. Opens(r, a)
      BY <1>8, <2>1, <3>2 DEF Opens
    <3> QED BY <3>2, <3>3
  <2>2. CASE Answer(r, -1, <<>>) /\ UNCHANGED serverVars
    <3> DEFINE a == [op |-> r.op, res |-> -1, data |-> <<>>]
    <3>1. /\ a \in AnyAnswer /\ a.op = r.op /\ a.res = -1
          /\ line' = line \o <<[part |-> "header", of |-> a], [part |-> "rest", of |-> a]>>
      BY <1>4, <1>7, <2>2
    <3> HIDE DEF a
    <3>2. Refuses(r, a)
      BY <1>8, <2>2, <3>1 DEF Refuses
    <3> QED BY <3>1, <3>2
  <2> QED BY <1>8, <2>1, <2>2 DEF ServeOpen
<1>9. CASE r.op = "read" /\ Known(r.fd) /\ ServeRead(r)
  <2> DEFINE f == FileOf(r.fd)
             pos == PosOf(r.fd)
             data == SubSeq(f, pos + 1, Smaller(pos + r.count, Len(f)))
             a == [op |-> r.op, res |-> Len(data), data |-> data]
  <2>1. f \in Seq(Data) /\ pos \in Nat /\ pos <= Len(f) /\ r.count \in Nat
    BY <1>5, <1>9, SlotFact DEF Types, Known, FileOf, PosOf, ReadRequest
  <2>2. Answer(r, Len(data), data) /\ UNCHANGED files
        /\ opened' = [opened EXCEPT ![Slot(r.fd)].pos = pos + Len(data)]
    BY <1>9 DEF ServeRead, FileOf, PosOf
  <2> HIDE DEF f, pos
  <2>3. /\ data \in Seq(Data) /\ Len(data) \in 0 .. r.count /\ pos + Len(data) <= Len(f)
        /\ \A i \in 1 .. Len(data) : data[i] = f[pos + i]
    BY <2>1, ReadPiece
  <2> HIDE DEF data
  <2>4. Len(data) \in Int
    BY <2>3, LenProperties
  <2>5. /\ a \in AnyAnswer /\ a.op = r.op /\ a.res = Len(data) /\ a.data = data
        /\ line' = line \o <<[part |-> "header", of |-> a], [part |-> "rest", of |-> a]>>
    BY <1>7, <2>2, <2>3, <2>4
  <2> HIDE DEF a
  <2>6. Reads(r, a)
    BY <1>9, <2>2, <2>3, <2>5 DEF Reads, f, pos
  <2> QED BY <2>5, <2>6
<1>10. CASE r.op = "write" /\ Known(r.fd) /\ ServeWrite(r)
  <2> DEFINE f == FileOf(r.fd)
             pos == PosOf(r.fd)
             b == r.bytes
  <2>1. f \in Seq(Data) /\ pos \in Nat /\ pos <= Len(f) /\ b \in Seq(Data)
    BY <1>5, <1>10, SlotFact DEF Types, Known, FileOf, PosOf, WriteRequest
  <2>2. PICK n \in 0 .. Len(b) :
          /\ files' = [files EXCEPT ![opened[Slot(r.fd)].path] =
                         SubSeq(f, 1, pos) \o SubSeq(b, 1, n) \o SubSeq(f, pos + n + 1, Len(f))]
          /\ opened' = [opened EXCEPT ![Slot(r.fd)].pos = pos + n]
          /\ Answer(r, n, <<>>)
    BY <1>10 DEF ServeWrite, FileOf, PosOf
  <2> DEFINE g == SubSeq(f, 1, pos) \o SubSeq(b, 1, n) \o SubSeq(f, pos + n + 1, Len(f))
             a == [op |-> r.op, res |-> n, data |-> <<>>]
  <2> HIDE DEF f, pos, b
  <2>3. /\ g \in Seq(Data) /\ Len(g) >= Len(f) /\ Len(g) >= pos + n
        /\ \A i \in 1 .. pos : g[i] = f[i]
        /\ \A i \in 1 .. n : g[pos + i] = b[i]
    BY <2>1, StoreFact
  <2>4. files' = [files EXCEPT ![opened[Slot(r.fd)].path] = g]
    BY <2>2
  <2> HIDE DEF g
  <2>5. /\ a \in AnyAnswer /\ a.op = r.op /\ a.res = n
        /\ line' = line \o <<[part |-> "header", of |-> a], [part |-> "rest", of |-> a]>>
    <3>1. n \in Int
      OBVIOUS
    <3> QED BY <1>4, <1>7, <2>2, <3>1
  <2> HIDE DEF a
  <2>6. Writes(r, a)
    BY <1>10, <2>2, <2>3, <2>4, <2>5 DEF Writes, f, pos, b
  <2> QED BY <2>5, <2>6
<1>11. CASE r.op = "lseek" /\ Known(r.fd) /\ ServeSeek(r)
  <2> DEFINE a == [op |-> r.op, res |-> 0, data |-> <<>>]
  <2>1. /\ a \in AnyAnswer /\ a.op = r.op
        /\ line' = line \o <<[part |-> "header", of |-> a], [part |-> "rest", of |-> a]>>
    BY <1>4, <1>7, <1>11 DEF ServeSeek
  <2> HIDE DEF a
  <2>2. Rewinds(r)
    BY <1>11 DEF ServeSeek, Rewinds
  <2> QED BY <2>1, <2>2
<1>12. CASE /\ r.op = "close" \/ (r.op # "open" /\ ~Known(r.fd))
            /\ Answer(r, 0, <<>>) /\ UNCHANGED serverVars
  <2> DEFINE a == [op |-> r.op, res |-> 0, data |-> <<>>]
  <2>1. /\ a \in AnyAnswer /\ a.op = r.op
        /\ line' = line \o <<[part |-> "header", of |-> a], [part |-> "rest", of |-> a]>>
    BY <1>4, <1>7, <1>12
  <2> HIDE DEF a
  <2>2. Refuses(r, a)
    BY <1>12 DEF Refuses
  <2> QED BY <2>1, <2>2
<1> QED BY <1>6, <1>8, <1>9, <1>10, <1>11, <1>12

\* What the server keeps stays within its types.
LEMMA ServedTypes ==
  ASSUME Types, NEW r \in AnyRequest, NEW a \in AnyAnswer,
         Opens(r, a) \/ Refuses(r, a) \/ Reads(r, a) \/ Writes(r, a) \/ Rewinds(r)
  PROVE  ServerTypes'
<1>0. ServerTypes
  BY DEF Types
<1>1. CASE Opens(r, a)
  <2>1. r.path \in Paths
    BY <1>1, KindFact DEF Opens, OpenCall
  <2> DEFINE n == Slot(FirstFd + Len(opened))
  <2>2. /\ opened' \in Seq(File)
        /\ \A j \in DOMAIN opened : opened'[j] = opened[j]
        /\ opened'[n] = [path |-> r.path, pos |-> 0]
        /\ \A j \in DOMAIN opened' : j \in DOMAIN opened \/ j = n
    BY <1>0, <1>1, <2>1, NewSlot DEF Opens
  <2> HIDE DEF n
  <2>3. Len(files[r.path]) \in Nat
    BY <1>0, <2>1, LenProperties DEF ServerTypes
  <2>4. files' = files
    BY <1>1 DEF Opens
  <2>5. ASSUME NEW j \in DOMAIN opened' PROVE opened'[j].pos <= Len(files'[opened'[j].path])
    <3>1. CASE j \in DOMAIN opened
      BY <1>0, <2>2, <2>4, <3>1 DEF ServerTypes
    <3>2. CASE j = n
      <4>1. opened'[j].pos = 0 /\ opened'[j].path = r.path
        BY <2>2, <3>2
      <4> QED BY <2>3, <2>4, <4>1
    <3> QED BY <2>2, <3>1, <3>2
  <2> QED BY <1>0, <2>2, <2>4, <2>5 DEF ServerTypes
<1>2. CASE Refuses(r, a)
  <2>1. opened' = opened /\ files' = files
    BY <1>2 DEF Refuses, serverVars
  <2> QED BY <1>0, <2>1 DEF ServerTypes
<1>3. ASSUME NEW i \in DOMAIN opened, NEW p \in Nat, opened' = [opened EXCEPT ![i].pos = p],
             NEW g \in Seq(Data), files' = [files EXCEPT ![opened[i].path] = g],
             Len(g) >= Len(files[opened[i].path]), p <= Len(g)
      PROVE  ServerTypes'
  <2>1. /\ opened' \in Seq(File) /\ DOMAIN opened' = DOMAIN opened
        /\ \A j \in DOMAIN opened : /\ opened'[j].path = opened[j].path
                                    /\ opened'[j].pos = IF j = i THEN p ELSE opened[j].pos
    BY <1>0, <1>3, MoveFact
  <2>2. files' \in [Paths -> Seq(Data)]
    BY <1>0, <1>3 DEF ServerTypes
  <2>3. ASSUME NEW j \in DOMAIN opened PROVE opened'[j].pos <= Len(files'[opened'[j].path])
    <3>1. opened[j].path \in Paths /\ opened[j].pos \in Nat
          /\ opened[j].pos <= Len(files[opened[j].path])
      BY <1>0, SlotFact
    <3>2. Len(g) \in Nat /\ Len(files[opened[j].path]) \in Nat
      BY <1>0, <3>1, SlotFact, LenProperties
    <3>3. CASE opened[j].path = opened[i].path
      <4>1. files'[opened[j].path] = g
        BY <1>0, <1>3, <3>1, <3>3 DEF ServerTypes
      <4>2. opened'[j].pos <= Len(g)
        BY <1>3, <2>1, <3>1, <3>2, <3>3
      <4> QED BY <2>1, <4>1, <4>2
    <3>4. CASE opened[j].path # opened[i].path
      <4>1. files'[opened[j].path] = files[opened[j].path]
        BY <1>0, <1>3, <3>1, <3>4 DEF ServerTypes
      <4>2. j # i
        BY <3>4
      <4> QED BY <2>1, <3>1, <4>1, <4>2
    <3> QED BY <3>3, <3>4
  <2> QED BY <2>1, <2>2, <2>3 DEF ServerTypes
<1>4. ASSUME NEW i \in DOMAIN opened, NEW p \in Nat, opened' = [opened EXCEPT ![i].pos = p],
             files' = files, p <= Len(files[opened[i].path])
      PROVE  ServerTypes'
  <2> DEFINE g == files[opened[i].path]
  <2>1. g \in Seq(Data) /\ Len(g) \in Nat
    BY <1>0, SlotFact, LenProperties
  <2>2. files' = [files EXCEPT ![opened[i].path] = g]
    BY <1>0, <1>4 DEF ServerTypes
  <2>3. Len(g) >= Len(files[opened[i].path]) /\ p <= Len(g)
    BY <1>4, <2>1
  <2> HIDE DEF g
  <2> QED BY <1>3, <1>4, <2>1, <2>2, <2>3
<1>5. CASE Reads(r, a)
  <2>1. Slot(r.fd) \in DOMAIN opened
    BY <1>5 DEF Reads, Known
  <2>2. PosOf(r.fd) + a.res \in Nat
    BY <1>0, <1>5, <2>1, SlotFact DEF Reads, PosOf, AnyAnswer
  <2>3. PosOf(r.fd) + a.res <= Len(files[opened[Slot(r.fd)].path]) /\ files' = files
        /\ opened' = [opened EXCEPT ![Slot(r.fd)].pos = PosOf(r.fd) + a.res]
    BY <1>5 DEF Reads, FileOf
  <2> QED BY <1>4, <2>1, <2>2, <2>3
<1>6. CASE Writes(r, a)
  <2>1. Slot(r.fd) \in DOMAIN opened
    BY <1>6 DEF Writes, Known
  <2>2. PosOf(r.fd) + a.res \in Nat
    BY <1>0, <1>6, <2>1, SlotFact DEF Writes, PosOf, AnyAnswer
  <2>3. opened' = [opened EXCEPT ![Slot(r.fd)].pos = PosOf(r.fd) + a.res]
    BY <1>6 DEF Writes
  <2>4. PICK g \in Seq(Data) :
          /\ files' = [files EXCEPT ![opened[Slot(r.fd)].path] = g]
          /\ Len(g) >= Len(FileOf(r.fd)) /\ Len(g) >= PosOf(r.fd) + a.res
    BY <1>6 DEF Writes
  <2>5. PosOf(r.fd) + a.res <= Len(g)
    BY <2>2, <2>4, LenProperties
  <2> QED BY <1>3, <2>1, <2>2, <2>3, <2>4, <2>5 DEF FileOf
<1>7. CASE Rewinds(r)
  <2>1. Slot(r.fd) \in DOMAIN opened /\ files' = files
        /\ opened' = [opened EXCEPT ![Slot(r.fd)].pos = 0]
    BY <1>7 DEF Rewinds, Known
  <2>2. 0 <= Len(files[opened[Slot(r.fd)].path])
    <3>1. Len(files[opened[Slot(r.fd)].path]) \in Nat
      BY <1>0, <2>1, SlotFact, LenProperties
    <3> QED BY <3>1
  <2> QED BY <1>4, <2>1, <2>2
<1> QED BY <1>1, <1>2, <1>5, <1>6, <1>7

LEMMA AnswerUnits ==
  ASSUME NEW a \in AnyAnswer
  PROVE  <<[part |-> "header", of |-> a], [part |-> "rest", of |-> a]>> \in Seq(Unit)
<1>1. [part |-> "header", of |-> a] \in Unit /\ [part |-> "rest", of |-> a] \in Unit
  BY DEF Unit
<1> QED BY <1>1

LEMMA ServeTypes == ASSUME Types, Serve PROVE Types'
<1>1. PICK r \in AnyRequest, a \in AnyAnswer :
        /\ toServer # <<>> /\ toServer' = Tail(toServer)
        /\ UNCHANGED <<clientVars, rx, crossed, lost>>
        /\ line' = line \o <<[part |-> "header", of |-> a], [part |-> "rest", of |-> a]>>
        /\ Opens(r, a) \/ Refuses(r, a) \/ Reads(r, a) \/ Writes(r, a) \/ Rewinds(r)
  BY ServeFact
<1>2. ServerTypes'
  BY <1>1, ServedTypes
<1>3. toServer' \in Seq(AnyRequest) /\ line' \in Seq(Unit)
  <2>1. toServer \in Seq(AnyRequest) /\ line \in Seq(Unit)
    BY DEF Types, LineTypes
  <2>2. toServer' \in Seq(AnyRequest)
    BY <1>1, <2>1, HeadTailProperties
  <2>3. line' \in Seq(Unit)
    BY <1>1, <2>1, AnswerUnits, ConcatProperties
  <2> QED BY <2>2, <2>3
<1>4. LineTypes'
  BY <1>1, <1>3 DEF Types, LineTypes
<1>5. ClientTypes'
  BY <1>1 DEF clientVars, Types, ClientTypes
<1> QED BY <1>2, <1>4, <1>5 DEF Types

LEMMA ArriveTypes == ASSUME Types, Arrive PROVE Types'
<1>1. line' \in Seq(Unit) /\ rx' \in Seq(Unit)
  <2>1. line \in Seq(Unit) /\ rx \in Seq(Unit) /\ line # <<>>
    BY DEF Arrive, Types, LineTypes
  <2>2. Head(line) \in Unit /\ Tail(line) \in Seq(Unit)
    BY <2>1, HeadTailProperties
  <2> QED BY <2>1, <2>2, AppendProperties DEF Arrive
<1>2. LineTypes'
  BY <1>1 DEF Arrive, Types, LineTypes
<1>3. ClientTypes' /\ ServerTypes'
  BY DEF Arrive, clientVars, serverVars, Types, ClientTypes, ServerTypes
<1> QED BY <1>2, <1>3 DEF Types

LEMMA LoseTypes == ASSUME Types, Lose PROVE Types'
<1>1. line' \in Seq(Unit) /\ toServer' \in Seq(AnyRequest)
  BY HeadTailProperties DEF Lose, Types, LineTypes
<1>2. LineTypes'
  BY <1>1 DEF Lose, Types, LineTypes
<1>3. lost' \in 0 .. MaxLost
  BY RfsAssumption DEF Lose, Types, ClientTypes
<1>4. ClientTypes' /\ ServerTypes'
  BY <1>3 DEF Lose, clientVars, serverVars, Types, ClientTypes, ServerTypes
<1> QED BY <1>2, <1>4 DEF Types

LEMMA TypesStep == ASSUME Types, [Next]_vars PROVE Types'
<1>1. CASE UNCHANGED vars
  BY <1>1 DEF vars, clientVars, serverVars, Types, ClientTypes, ServerTypes, LineTypes
<1> QED BY <1>1, ProgramTypes, ClientStepTypes, ServeTypes, ArriveTypes, LoseTypes DEF Next

-----------------------------------------------------------------------------
(***************************************************************************)
(* Honesty is kept as long as no request crosses an answer.                *)
(***************************************************************************)
LEMMA TailIndex ==
  ASSUME NEW S, NEW s \in Seq(S), s # <<>>
  PROVE  /\ 1 \in DOMAIN s /\ Head(s) = s[1]
         /\ \A i \in DOMAIN Tail(s) : i + 1 \in DOMAIN s /\ Tail(s)[i] = s[i + 1]
<1>1. /\ Tail(s) \in Seq(S) /\ Len(Tail(s)) = Len(s) - 1 /\ Len(s) \in Nat \ {0}
      /\ \A i \in 1 .. Len(Tail(s)) : Tail(s)[i] = s[i + 1]
  BY HeadTailProperties, EmptySeq
<1>2. DOMAIN s = 1 .. Len(s) /\ DOMAIN Tail(s) = 1 .. Len(Tail(s))
  BY <1>1, LenProperties
<1> DEFINE n == Len(s)
           m == Len(Tail(s))
<1>3. n \in Nat \ {0} /\ m = n - 1 /\ DOMAIN s = 1 .. n /\ DOMAIN Tail(s) = 1 .. m
  BY <1>1, <1>2
<1>4. Head(s) = s[1]
  OBVIOUS
<1>5. \A i \in 1 .. m : Tail(s)[i] = s[i + 1]
  BY <1>1
<1> HIDE DEF n, m
<1>6. 1 \in 1 .. n /\ \A i \in 1 .. m : i + 1 \in 1 .. n
  BY <1>3
<1> QED BY <1>3, <1>4, <1>5, <1>6

LEMMA AppendCases ==
  ASSUME NEW S, NEW s \in Seq(S), NEW e \in S, NEW t, t = Append(s, e), NEW i \in DOMAIN t
  PROVE  (i \in DOMAIN s /\ t[i] = s[i]) \/ t[i] = e
<1>1. PICK n \in Nat : /\ DOMAIN s = 1 .. n /\ DOMAIN t = 1 .. n + 1
                       /\ t[n + 1] = e /\ \A j \in 1 .. n : t[j] = s[j]
  BY AppendIndex
<1>2. i \in 1 .. n \/ i = n + 1
  BY <1>1
<1> QED BY <1>1, <1>2

\* The file of a descriptor the program holds.
LEMMA HeldFile ==
  ASSUME Types, NEW fd, Known(fd)
  PROVE  /\ PosOf(fd) \in Nat /\ FileOf(fd) \in Seq(Data) /\ PosOf(fd) <= Len(FileOf(fd))
         /\ Slot(fd) \in DOMAIN opened /\ opened[Slot(fd)].path \in Paths
BY SlotFact DEF Types, Known, PosOf, FileOf

LEMMA OwnKnown ==
  ASSUME Types, \A h \in Handles : Holds(h), NEW c \in AnyCall, OwnFile(c), c.op # "open"
  PROVE  Known(c.fd) /\ c.h \in Handles /\ opened[Slot(c.fd)].path = mine[c.h].path
<1>1. c.h \in Handles
  BY DEF AnyCall, OpenCall, DataCall, PlainCall
<1> QED BY <1>1 DEF OwnFile, Holds

LEMMA CountFact ==
  ASSUME NEW c \in DataCall, Counted(c)
  PROVE  /\ c.len \in Nat /\ c.left \in Nat /\ c.left > 0 /\ c.left <= c.len
         /\ c.total \in Nat /\ c.total + c.left = c.len
BY DEF DataCall, Counted

LEMMA BeginHonest ==
  ASSUME Types, Types', Honesty, NEW c \in AnyCall, Begin(c), OwnFile(c),
         IsData(c) => c.left = c.len /\ c.total = 0 /\ c.data = <<>> /\ c.left > 0
  PROVE  Honesty'
<1>1. phase' = "flush" /\ call' = c /\ ret' = Nothing /\ UNCHANGED <<mine, files, opened, toServer, line, rx>>
  BY DEF Begin, serverVars
<1>2. \A h \in Handles : Holds(h) /\ Holds(h)'
  BY <1>1 DEF Honesty, Holds, Known
<1>3. ASSUME IsData(c) PROVE Counted(c) /\ AtEnd(c, c.total, FileOf(c.fd), PosOf(c.fd))
  <2>1. c \in DataCall /\ c.op # "open"
    BY <1>3, KindFact DEF IsData
  <2>2. Counted(c)
    <3>1. Len(c.data) = 0
      BY <1>3, EmptySeq
    <3> QED BY <1>3, <2>1, <3>1 DEF Counted, DataCall
  <2>3. PosOf(c.fd) \in Nat
    BY <1>2, <2>1, OwnKnown, HeldFile
  <2> QED BY <1>3, <2>2, <2>3 DEF AtEnd
<1>4. InCall'
  <2>1. OwnFile(c)'
    BY <1>1 DEF OwnFile
  <2>2. IsData(c) => AtEnd(c, c.total, FileOf(c.fd), PosOf(c.fd))'
    BY <1>1, <1>3 DEF FileOf, PosOf
  <2>3. InPlace' /\ OwnFile(call)' /\ (IsData(call) => Counted(call))'
    BY <1>1, <1>3, <2>1, <2>2 DEF InPlace, OwnFile, FileOf, PosOf
  <2>4. (IsData(call) /\ call.total # 0 => toServer = <<>>)'
    BY <1>1
  <2> QED BY <1>1, <2>3, <2>4 DEF InCall
<1> QED BY <1>1, <1>2, <1>4 DEF Honesty

LEMMA ProgramHonest == ASSUME Types, Types', Honesty, Program PROVE Honesty'
<1>1. ASSUME NEW h \in Handles, NEW p \in Paths, Open(h, p) PROVE Honesty'
  <2> DEFINE c == [op |-> "open", h |-> h, path |-> p]
  <2>1. c \in AnyCall /\ c.op = "open" /\ Begin(c)
    BY <1>1 DEF AnyCall, OpenCall, Open
  <2> HIDE DEF c
  <2> QED BY <2>1, BeginHonest DEF OwnFile, IsData
<1>2. ASSUME NEW h \in Handles, NEW n \in Lens, NEW op \in {"read", "write"}, ReadWrite(op, h, n)
      PROVE  Honesty'
  <2> DEFINE c == [op |-> op, h |-> h, fd |-> mine[h].fd, id |-> calls + 1,
                   len |-> n, left |-> n, total |-> 0, data |-> <<>>]
  <2>1. c \in AnyCall /\ Begin(c) /\ mine[h] # Closed
    BY <1>2, ReadWriteCall DEF AnyCall, ReadWrite
  <2>2. c.h = h /\ c.fd = mine[h].fd /\ c.left = c.len /\ c.total = 0 /\ c.data = <<>> /\ c.left > 0
    BY RfsAssumption
  <2> HIDE DEF c
  <2> QED BY <2>1, <2>2, BeginHonest DEF OwnFile
<1>3. ASSUME NEW h \in Handles, NEW op \in {"lseek", "close"}, mine[h] # Closed,
             Begin([op |-> op, h |-> h, fd |-> mine[h].fd])
      PROVE  Honesty'
  <2> DEFINE c == [op |-> op, h |-> h, fd |-> mine[h].fd]
  <2>1. c \in AnyCall
    <3>1. mine[h].fd \in Int
      BY <1>3 DEF Types, ClientTypes, Mine
    <3> QED BY <3>1 DEF AnyCall, PlainCall
  <2>2. c.h = h /\ c.fd = mine[h].fd /\ c.op \in {"lseek", "close"} /\ Begin(c)
    BY <1>3
  <2> HIDE DEF c
  <2> QED BY <1>3, <2>1, <2>2, BeginHonest DEF OwnFile, IsData
<1>4. ASSUME NEW h \in Handles, Seek(h) \/ Close(h) PROVE Honesty'
  BY <1>3, <1>4 DEF Seek, Close
<1> QED BY <1>1, <1>2, <1>4 DEF Program

\* The call c returns r, the server's files and descriptors being as they are.
LEMMA ReturnHonest ==
  ASSUME Types, Honesty, NEW c \in AnyCall, NEW r \in Int, Return(c, r),
         UNCHANGED <<files, opened, toServer>>,
         c.op = "open" /\ r # -1 => Known(r) /\ opened[Slot(r)].path = c.path,
         IsData(c) =>
           /\ OwnFile(c) /\ r \in 0 .. c.len /\ (c.op = "read" => Len(c.data) = r)
           /\ Placed(c, r, FileOf(c.fd), PosOf(c.fd))
           /\ \A i \in DOMAIN toServer : toServer[i].op = c.op /\ toServer[i].fd = c.fd
  PROVE  Honesty'
<1>1. phase' = "idle" /\ ret' = [call |-> c, res |-> r]
  BY DEF Return
<1>2. \A h \in Handles : Holds(h)'
  <2>1. CASE c.op = "open" /\ r # -1
    <3>1. mine' = [mine EXCEPT ![c.h] = [fd |-> r, path |-> c.path]]
      BY <2>1 DEF Return
    <3>2. mine \in [Handles -> Mine \union {Closed}]
      BY DEF Types, ClientTypes
    <3> QED BY <2>1, <3>1, <3>2 DEF Honesty, Holds, Known
  <2>2. CASE c.op = "close"
    <3>1. mine' = [mine EXCEPT ![c.h] = Closed]
      BY <2>2 DEF Return
    <3>2. \A h \in Handles : mine'[h] = Closed \/ mine'[h] = mine[h]
      BY <3>1 DEF Types, ClientTypes
    <3> QED BY <3>2 DEF Honesty, Holds, Known
  <2>3. CASE ~(c.op = "open" /\ r # -1) /\ c.op # "close"
    <3>1. mine' = mine
      BY <2>3 DEF Return
    <3> QED BY <3>1 DEF Honesty, Holds, Known
  <2> QED BY <2>1, <2>2, <2>3
<1>3. AfterCall(c, r)'
  <2>1. IsData(c) => mine' = mine
    BY DEF Return, IsData
  <2> QED BY <2>1 DEF AfterCall, OwnFile, FileOf, PosOf, Known
<1>4. AfterCall(ret.call, ret.res)'
  <2>1. ret'.call = c /\ ret'.res = r
    BY <1>1
  <2> QED BY <1>3, <2>1 DEF AfterCall, OwnFile, FileOf, PosOf, Known
<1> QED BY <1>1, <1>2, <1>4 DEF Honesty

LEMMA GiveUpHonest ==
  ASSUME Types, Honesty, phase # "idle", phase = "flush" => toServer = <<>>, GiveUp,
         UNCHANGED <<files, opened, toServer>>
  PROVE  Honesty'
<1> DEFINE r == IF call.op \in {"read", "write"} THEN call.total ELSE -1
<1>1. call \in AnyCall /\ req = Request(call) /\ Return(call, r)
  BY DEF Types, ClientTypes, GiveUp
<1>2. InCall /\ \A h \in Handles : Holds(h)
  BY DEF Honesty
<1>3. CASE IsData(call)
  <2>1. r = call.total /\ call \in DataCall /\ Counted(call) /\ OwnFile(call) /\ call.op # "open"
    BY <1>1, <1>2, <1>3, KindFact DEF IsData, InCall
  <2>2. call.total \in 0 .. call.len /\ call.total \in Nat
    BY <2>1, CountFact
  <2>3. call.op = "read" => Len(call.data) = call.total
    BY <2>1 DEF Counted
  <2>4. PosOf(call.fd) \in Nat
    BY <1>1, <1>2, <2>1, OwnKnown, HeldFile
  <2>5. Unserved \/ Served \/ (InPlace /\ toServer = <<>>)
    BY <1>2 DEF InCall, Types, ClientTypes
  <2>6. Placed(call, call.total, FileOf(call.fd), PosOf(call.fd))
    <3>1. CASE InPlace
      <4>1. AtEnd(call, call.total, FileOf(call.fd), PosOf(call.fd))
        BY <1>3, <3>1 DEF InPlace
      <4> QED BY <2>2, <2>4, <4>1, PlacedFact
    <3>2. CASE Served
      BY <1>3, <3>2 DEF Served
    <3> QED BY <2>5, <3>1, <3>2 DEF Unserved
  <2>7. \A i \in DOMAIN toServer : toServer[i].op = call.op /\ toServer[i].fd = call.fd
    <3>1. toServer = <<req>> \/ toServer = <<>>
      BY <2>5 DEF Unserved, Served
    <3>2. req.op = call.op /\ req.fd = call.fd
      BY <1>1, <2>1, RequestFact
    <3> QED BY <3>1, <3>2
  <2> HIDE DEF r
  <2> QED BY <1>1, <2>1, <2>2, <2>3, <2>6, <2>7, ReturnHonest
<1>4. CASE ~IsData(call)
  <2>1. r = -1
    BY <1>4 DEF IsData
  <2> HIDE DEF r
  <2> QED BY <1>1, <1>4, <2>1, ReturnHonest
<1> QED BY <1>3, <1>4

LEMMA ContinueHonest ==
  ASSUME Types, Honesty, phase = "rest", IsData(call), Served, NEW a \in AnyAnswer,
         a.op = call.op, Honest(call, a), Continue(a), UNCHANGED <<files, opened, toServer>>
  PROVE  Honesty'
<1> DEFINE c == Extended(call, a)
           p == Part(call.left)
<1>0. call \in DataCall /\ call.op # "open" /\ InCall /\ \A h \in Handles : Holds(h)
  BY KindFact DEF Types, ClientTypes, Honesty, IsData
<1>1. Counted(call) /\ OwnFile(call)
  BY <1>0 DEF InCall
<1>2. /\ c \in DataCall /\ c.op = call.op /\ c.h = call.h /\ c.fd = call.fd /\ c.len = call.len
      /\ c.total = call.total + a.res /\ c.left = call.left - p
      /\ c.data = IF a.op = "read" THEN call.data \o a.data ELSE call.data
  BY <1>0, ExtendedFact
<1>3. /\ call.len \in Nat /\ call.left \in Nat /\ call.left > 0 /\ call.total \in Nat
      /\ call.total + call.left = call.len /\ p \in 0 .. call.left /\ p > 0
  BY <1>0, <1>1, CountFact, PartFact
<1>4. /\ a.res \in 0 .. p /\ (call.op = "read" => Len(a.data) = a.res)
      /\ AtEnd(c, call.total + a.res, FileOf(call.fd), PosOf(call.fd))
  BY DEF Honest
<1>5. IF Short(call, a.res) \/ c.left = 0 THEN Return(c, c.total)
      ELSE call' = c /\ req' = Request(c) /\ phase' = "flush" /\ UNCHANGED <<mine, ret>>
  BY DEF Continue, Extended
<1>6. toServer = <<>>
  BY DEF Served
<1>7. Short(call, a.res) <=> a.res < p
  BY DEF Short
<1> HIDE DEF c, p
<1>8. c.op = "read" => Len(c.data) = c.total
  <2> SUFFICES ASSUME c.op = "read" PROVE Len(c.data) = c.total
    OBVIOUS
  <2>1. call.data \in Seq(Data) /\ a.data \in Seq(Data)
    BY <1>0 DEF DataCall, AnyAnswer
  <2>2. Len(call.data \o a.data) = Len(call.data) + Len(a.data)
    BY <2>1, ConcatProperties
  <2>3. Len(call.data) = call.total
    BY <1>1, <1>2 DEF Counted
  <2> QED BY <1>2, <1>4, <2>2, <2>3
<1>9. c.total \in 0 .. c.len /\ c.total \in Nat /\ c.total \in Int
  BY <1>2, <1>3, <1>4
<1>10. IsData(c) /\ c \in AnyCall /\ OwnFile(c)
  BY <1>1, <1>2 DEF IsData, AnyCall, OwnFile
<1>11. AtEnd(c, c.total, FileOf(c.fd), PosOf(c.fd))
  BY <1>2, <1>4
<1>12. CASE Return(c, c.total)
  <2>1. PosOf(c.fd) \in Nat
    BY <1>0, <1>2, <1>10, OwnKnown, HeldFile
  <2>2. Placed(c, c.total, FileOf(c.fd), PosOf(c.fd))
    BY <1>9, <1>11, <2>1, PlacedFact
  <2>3. \A i \in DOMAIN toServer : FALSE
    BY <1>6
  <2> QED BY <1>0, <1>2, <1>8, <1>9, <1>10, <1>12, <2>2, <2>3, ReturnHonest
<1>13. CASE /\ ~(Short(call, a.res) \/ c.left = 0)
            /\ call' = c /\ req' = Request(c) /\ phase' = "flush" /\ UNCHANGED <<mine, ret>>
  <2>1. a.res = p
    BY <1>3, <1>4, <1>7, <1>13
  <2>2. c.left \in 1 .. c.len /\ c.total = c.len - c.left
    <3>1. c.left # 0
      BY <1>13
    <3> QED BY <1>2, <1>3, <2>1, <3>1
  <2>3. Counted(c)
    BY <1>8, <2>2 DEF Counted
  <2>4. InPlace' /\ OwnFile(call)' /\ (IsData(call) => Counted(call))' /\ toServer' = <<>>
    BY <1>6, <1>10, <1>11, <1>13, <2>3 DEF InPlace, OwnFile, FileOf, PosOf
  <2>5. InCall'
    BY <1>13, <2>4 DEF InCall
  <2>6. \A h \in Handles : Holds(h)'
    BY <1>0, <1>13 DEF Holds, Known
  <2> QED BY <1>13, <2>5, <2>6 DEF Honesty
<1> QED BY <1>5, <1>12, <1>13

LEMMA ClientHonest ==
  ASSUME Types, Honesty, OneUnderWay, Client, ~crossed'
  PROVE  Honesty'
<1>0. \A h \in Handles : Holds(h)
  BY DEF Honesty
<1>1. CASE Flush
  <2>0. phase = "flush" /\ rx' = <<>> /\ UNCHANGED <<files, opened, toServer, line>>
    BY <1>1 DEF Flush, EmptiedInput, serverVars
  <2>1. CASE rx # <<>> /\ GiveUp
    <3>1. toServer = <<>>
      BY <2>1 DEF OneUnderWay
    <3> QED BY <2>0, <2>1, <3>1, GiveUpHonest
  <2>2. CASE phase' = "send" /\ toServer = <<>> /\ line = <<>> /\ UNCHANGED <<mine, call, req, ret>>
    <3>1. InCall
      BY <2>0 DEF Honesty
    <3>2. OwnFile(call)' /\ (IsData(call) => Counted(call))' /\ InPlace'
      BY <2>0, <2>2, <3>1 DEF InCall, OwnFile, InPlace, FileOf, PosOf
    <3>3. InCall'
      BY <2>0, <2>2, <3>2 DEF InCall
    <3>4. \A h \in Handles : Holds(h)'
      BY <1>0, <2>0, <2>2 DEF Holds, Known
    <3> QED BY <2>2, <3>3, <3>4 DEF Honesty
  <2> QED BY <1>1, <2>0, <2>1, <2>2 DEF Flush
<1>2. CASE Send
  <2>1. /\ phase = "send" /\ phase' = "header" /\ toServer' = Append(toServer, req)
        /\ UNCHANGED <<mine, call, req, ret, files, opened, line, rx>>
    BY <1>2 DEF Send, serverVars
  <2>2. InCall /\ toServer = <<>> /\ line = <<>> /\ rx = <<>> /\ InPlace
    BY <2>1 DEF Honesty, InCall
  <2>3. toServer' = <<req>>
    BY <2>1, <2>2
  <2>4. OwnFile(call)' /\ (IsData(call) => Counted(call))' /\ InPlace'
    BY <2>1, <2>2 DEF InCall, OwnFile, InPlace, FileOf, PosOf
  <2>5. Unserved'
    BY <2>1, <2>2, <2>3, <2>4 DEF Unserved
  <2>6. InCall'
    BY <2>1, <2>4, <2>5 DEF InCall
  <2>7. \A h \in Handles : Holds(h)'
    BY <1>0, <2>1 DEF Holds, Known
  <2> QED BY <2>1, <2>6, <2>7 DEF Honesty
<1>3. CASE Header
  <2>1. phase = "header" /\ rx # <<>> /\ rx' = Tail(rx) /\ UNCHANGED <<files, opened, toServer, line>>
    BY <1>3 DEF Header, serverVars
  <2>2. CASE phase' = "rest" /\ UNCHANGED <<mine, call, req, ret>>
    <3>1. InCall /\ Served
      BY <2>1 DEF Honesty, InCall, Unserved
    <3>2. Answered(rx)'
      <4>1. rx \in Seq(Unit)
        BY DEF Types, LineTypes
      <4>2. \A i \in DOMAIN rx' : i + 1 \in DOMAIN rx /\ rx'[i] = rx[i + 1]
        BY <2>1, <4>1, TailIndex
      <4>3. ASSUME NEW i \in DOMAIN rx' PROVE Honest(call, rx'[i].of)
        BY <3>1, <4>2 DEF Served, Answered
      <4> QED BY <2>1, <2>2, <4>3 DEF Answered, Honest, Known, FileOf, PosOf
    <3>3. Answered(line)'
      BY <2>1, <2>2, <3>1 DEF Served, Answered, Honest, Known, FileOf, PosOf
    <3>4. Served'
      BY <2>1, <2>2, <3>1, <3>2, <3>3 DEF Served, FileOf, PosOf
    <3>5. OwnFile(call)' /\ (IsData(call) => Counted(call))'
      BY <2>2, <3>1 DEF InCall, OwnFile
    <3>6. InCall'
      BY <2>2, <3>4, <3>5 DEF InCall
    <3>7. \A h \in Handles : Holds(h)'
      BY <1>0, <2>1, <2>2 DEF Holds, Known
    <3> QED BY <2>2, <3>6, <3>7 DEF Honesty
  <2>3. CASE GiveUp
    BY <2>1, <2>3, GiveUpHonest
  <2> QED BY <1>3, <2>2, <2>3 DEF Header
<1>4. CASE Rest
  <2> DEFINE u == Head(rx)
  <2>1. phase = "rest" /\ rx # <<>> /\ UNCHANGED <<files, opened, toServer>>
    BY <1>4 DEF Rest, serverVars
  <2>2. Served
    BY <2>1 DEF Honesty, InCall, Unserved
  <2>3. Honest(call, u.of) /\ u.of \in AnyAnswer
    <3>1. rx \in Seq(Unit) /\ LineTypes
      BY DEF Types, LineTypes
    <3>2. 1 \in DOMAIN rx /\ u = rx[1]
      BY <2>1, <3>1, TailIndex
    <3>3. u.of \in AnyAnswer
      BY <2>1, <3>1, UnitFact
    <3> QED BY <2>2, <3>2, <3>3 DEF Served, Answered
  <2>4. call \in AnyCall /\ req.op = call.op
    BY <2>1, RequestFact DEF Types, ClientTypes
  <2>5. \/ GiveUp
        \/ u.of.op = req.op /\ IsData(call) /\ Continue(u.of)
        \/ u.of.op = req.op /\ ~IsData(call) /\ Return(call, u.of.res)
    BY <1>4 DEF Rest, Matches, IsData
  <2> HIDE DEF u
  <2>6. CASE GiveUp
    BY <2>1, <2>6, GiveUpHonest
  <2>7. CASE u.of.op = req.op /\ IsData(call) /\ Continue(u.of)
    BY <2>1, <2>2, <2>3, <2>4, <2>7, ContinueHonest
  <2>8. CASE u.of.op = req.op /\ ~IsData(call) /\ Return(call, u.of.res)
    <3>1. u.of.res \in Int
      BY <2>3 DEF AnyAnswer
    <3>2. call.op = "open" /\ u.of.res # -1 => Known(u.of.res) /\ opened[Slot(u.of.res)].path = call.path
      BY <2>3 DEF Honest
    <3> QED BY <2>1, <2>4, <2>8, <3>1, <3>2, ReturnHonest
  <2> QED BY <2>5, <2>6, <2>7, <2>8
<1>5. CASE Timeout
  <2>1. phase \in {"header", "rest"} /\ GiveUp /\ UNCHANGED <<files, opened, toServer>>
    BY <1>5 DEF Timeout, TimedPhases, serverVars
  <2> QED BY <2>1, GiveUpHonest
<1> QED BY <1>1, <1>2, <1>3, <1>4, <1>5 DEF Client

\* The server keeps the descriptors it gave out, and the files they are of.
LEMMA PathKept ==
  ASSUME Types, NEW r \in AnyRequest, NEW a \in AnyAnswer,
         Opens(r, a) \/ Refuses(r, a) \/ Reads(r, a) \/ Writes(r, a) \/ Rewinds(r)
  PROVE  \A i \in DOMAIN opened : i \in DOMAIN opened' /\ opened'[i].path = opened[i].path
<1>0. ServerTypes
  BY DEF Types
<1>1. CASE Opens(r, a)
  <2>1. r.path \in Paths
    BY <1>1, KindFact DEF Opens, OpenCall
  <2>2. DOMAIN opened \subseteq DOMAIN opened' /\ \A i \in DOMAIN opened : opened'[i] = opened[i]
    BY <1>0, <1>1, <2>1, NewSlot DEF Opens
  <2> QED BY <2>2
<1>2. CASE Refuses(r, a)
  BY <1>2 DEF Refuses, serverVars
<1>3. ASSUME NEW j \in DOMAIN opened, NEW p \in Nat, opened' = [opened EXCEPT ![j].pos = p]
      PROVE  \A i \in DOMAIN opened : i \in DOMAIN opened' /\ opened'[i].path = opened[i].path
  BY <1>0, <1>3, MoveFact
<1>4. CASE Reads(r, a) \/ Writes(r, a)
  <2>1. Slot(r.fd) \in DOMAIN opened /\ opened' = [opened EXCEPT ![Slot(r.fd)].pos = PosOf(r.fd) + a.res]
    BY <1>4 DEF Reads, Writes, Known
  <2>2. PosOf(r.fd) + a.res \in Nat
    <3>1. PosOf(r.fd) \in Nat
      BY <1>0, <2>1, SlotFact DEF PosOf
    <3>2. a.res \in Nat
      BY <1>4 DEF Reads, Writes
    <3> QED BY <3>1, <3>2
  <2> QED BY <1>3, <2>1, <2>2
<1>5. CASE Rewinds(r)
  <2>1. Slot(r.fd) \in DOMAIN opened /\ opened' = [opened EXCEPT ![Slot(r.fd)].pos = 0] /\ 0 \in Nat
    BY <1>5 DEF Rewinds, Known
  <2> QED BY <1>3, <2>1
<1> QED BY <1>1, <1>2, <1>4, <1>5

\* What is read or written through fd lies at its position, which moves behind it.
LEMMA ServedPart ==
  ASSUME Types, NEW r \in AnyRequest, NEW a \in AnyAnswer,
         Opens(r, a) \/ Refuses(r, a) \/ Reads(r, a) \/ Writes(r, a) \/ Rewinds(r),
         r.op \in {"read", "write"}, Known(r.fd)
  PROVE  LET g == files'[opened'[Slot(r.fd)].path]
         IN  /\ a.res \in Nat /\ opened'[Slot(r.fd)].pos = PosOf(r.fd) + a.res
             /\ \A i \in 1 .. PosOf(r.fd) : g[i] = FileOf(r.fd)[i]
             /\ r.op = "read" =>
                  /\ g = FileOf(r.fd) /\ a.res = Len(a.data) /\ a.res \in 0 .. r.count
                  /\ \A i \in 1 .. a.res : a.data[i] = FileOf(r.fd)[PosOf(r.fd) + i]
             /\ r.op = "write" =>
                  a.res \in 0 .. Len(r.bytes) /\ \A i \in 1 .. a.res : g[PosOf(r.fd) + i] = r.bytes[i]
<1> DEFINE s == Slot(r.fd)
           g == files'[opened'[s].path]
<1>0. ServerTypes /\ s \in DOMAIN opened
  BY DEF Types, Known
<1>1. PosOf(r.fd) \in Nat /\ opened[s].path \in Paths
  BY HeldFile
<1>2. ASSUME a.res \in Nat, opened' = [opened EXCEPT ![s].pos = PosOf(r.fd) + a.res]
      PROVE  opened'[s].pos = PosOf(r.fd) + a.res
  <2>1. PosOf(r.fd) + a.res \in Nat
    BY <1>1, <1>2
  <2> DEFINE q == PosOf(r.fd) + a.res
  <2>2. q \in Nat /\ opened' = [opened EXCEPT ![s].pos = q]
    BY <1>2, <2>1
  <2> HIDE DEF q, s
  <2>3. \A j \in DOMAIN opened : opened'[j].pos = IF j = s THEN q ELSE opened[j].pos
    BY <1>0, <2>2, MoveFact
  <2>4. opened'[s].pos = q
    BY <1>0, <2>3
  <2> QED BY <2>4 DEF q
<1>3. opened'[s].path = opened[s].path
  BY <1>0, PathKept
<1>4. CASE Reads(r, a)
  <2>1. a.res \in Nat /\ opened' = [opened EXCEPT ![s].pos = PosOf(r.fd) + a.res]
    BY <1>4 DEF Reads
  <2>2. g = FileOf(r.fd)
    BY <1>3, <1>4 DEF Reads, FileOf
  <2> QED BY <1>2, <1>4, <2>1, <2>2 DEF Reads
<1>5. CASE Writes(r, a)
  <2>1. a.res \in Nat /\ opened' = [opened EXCEPT ![s].pos = PosOf(r.fd) + a.res]
    BY <1>5 DEF Writes
  <2>2. PICK h \in Seq(Data) :
          /\ files' = [files EXCEPT ![opened[s].path] = h]
          /\ \A i \in 1 .. PosOf(r.fd) : h[i] = FileOf(r.fd)[i]
          /\ \A i \in 1 .. a.res : h[PosOf(r.fd) + i] = r.bytes[i]
    BY <1>5 DEF Writes
  <2>3. g = h
    BY <1>0, <1>1, <1>3, <2>2 DEF ServerTypes
  <2> QED BY <1>2, <1>5, <2>1, <2>2, <2>3 DEF Writes
<1> QED BY <1>4, <1>5 DEF Opens, Refuses, Rewinds

\* A request of the kind and on the file of the call c leaves in place what c has done.
LEMMA PlacedServed ==
  ASSUME Types, NEW r \in AnyRequest, NEW a \in AnyAnswer,
         Opens(r, a) \/ Refuses(r, a) \/ Reads(r, a) \/ Writes(r, a) \/ Rewinds(r),
         NEW c, IsData(c), r.op = c.op, r.fd = c.fd, Known(c.fd),
         NEW n \in Nat, Placed(c, n, FileOf(c.fd), PosOf(c.fd))
  PROVE  Placed(c, n, files'[opened'[Slot(c.fd)].path], opened'[Slot(c.fd)].pos)
<1> DEFINE f == FileOf(c.fd)
           g == files'[opened'[Slot(c.fd)].path]
           pos == PosOf(c.fd)
           end == opened'[Slot(c.fd)].pos
<1>1. pos \in Nat /\ r.op \in {"read", "write"} /\ Known(r.fd)
  BY HeldFile DEF IsData
<1>2. a.res \in Nat /\ end = pos + a.res /\ \A i \in 1 .. pos : g[i] = f[i]
  BY <1>1, ServedPart
<1>3. Placed(c, n, f, pos)
  OBVIOUS
<1> HIDE DEF f, g, pos, end
<1>4. end \in Nat /\ pos <= end
  BY <1>1, <1>2
<1>5. Placed(c, n, g, end)
  BY <1>1, <1>2, <1>3, <1>4, PlacedStays
<1> QED BY <1>5 DEF g, end

\* The request of the call c is executed.
LEMMA PartServed ==
  ASSUME Types, NEW c \in DataCall, IsData(c), Counted(c), Known(c.fd),
         NEW r, r = Request(c), NEW a \in AnyAnswer, a.op = r.op,
         Opens(r, a) \/ Refuses(r, a) \/ Reads(r, a) \/ Writes(r, a) \/ Rewinds(r),
         AtEnd(c, c.total, FileOf(c.fd), PosOf(c.fd))
  PROVE  /\ a.res \in 0 .. Part(c.left) /\ (c.op = "read" => Len(a.data) = a.res)
         /\ AtEnd(Extended(c, a), c.total + a.res,
                  files'[opened'[Slot(c.fd)].path], opened'[Slot(c.fd)].pos)
<1> DEFINE f == FileOf(c.fd)
           g == files'[opened'[Slot(c.fd)].path]
           pos == PosOf(c.fd)
           end == opened'[Slot(c.fd)].pos
<1>1. c \in AnyCall /\ c.op \in {"read", "write"} /\ c.op # "open"
  BY DEF AnyCall, IsData
<1>2. r \in AnyRequest /\ r.op = c.op /\ r.fd = c.fd
  BY <1>1, RequestFact
<1>3. f \in Seq(Data) /\ pos \in Nat
  BY HeldFile
<1>4. /\ a.res \in Nat /\ end = pos + a.res
      /\ \A i \in 1 .. pos : g[i] = f[i]
      /\ r.op = "read" =>
           /\ g = f /\ a.res = Len(a.data) /\ a.res \in 0 .. r.count
           /\ \A i \in 1 .. a.res : a.data[i] = f[pos + i]
      /\ r.op = "write" =>
           a.res \in 0 .. Len(r.bytes) /\ \A i \in 1 .. a.res : g[pos + i] = r.bytes[i]
  BY <1>1, <1>2, ServedPart
<1>5. AtEnd(c, c.total, f, pos)
  OBVIOUS
<1> HIDE DEF f, g, pos, end
<1>6. CASE c.op = "read"
  <2>1. r.count = Part(c.left)
    BY <1>6 DEF Request
  <2>2. /\ a.op = "read" /\ a.res = Len(a.data) /\ g = f /\ a.res \in 0 .. Part(c.left)
        /\ \A i \in 1 .. Len(a.data) : a.data[i] = f[pos + i]
    BY <1>2, <1>4, <1>6, <2>1
  <2>3. AtEnd(Extended(c, a), c.total + a.res, f, pos + a.res)
    BY <1>3, <1>5, <1>6, <2>2, ReadFact
  <2> QED BY <1>4, <2>2, <2>3 DEF g, end
<1>7. CASE c.op = "write"
  <2>1. Len(r.bytes) = Part(c.left)
    BY <1>1, <1>7, RequestFact
  <2>2. /\ a.op = "write" /\ a.res \in 0 .. Part(c.left)
        /\ \A i \in 1 .. a.res : g[pos + i] = Request(c).bytes[i]
    BY <1>2, <1>4, <1>7, <2>1
  <2>3. AtEnd(Extended(c, a), c.total + a.res, g, pos + a.res)
    BY <1>3, <1>4, <1>5, <1>7, <2>2, WriteFact
  <2> QED BY <1>4, <1>7, <2>2, <2>3 DEF g, end
<1> QED BY <1>1, <1>6, <1>7

LEMMA ServeHonest == ASSUME Types, Types', Honesty, Serve PROVE Honesty'
<1>1. PICK r \in AnyRequest, a \in AnyAnswer :
        /\ toServer # <<>> /\ r = Head(toServer) /\ toServer' = Tail(toServer)
        /\ UNCHANGED <<clientVars, rx, crossed, lost>>
        /\ a.op = r.op
        /\ line' = line \o <<[part |-> "header", of |-> a], [part |-> "rest", of |-> a]>>
        /\ Opens(r, a) \/ Refuses(r, a) \/ Reads(r, a) \/ Writes(r, a) \/ Rewinds(r)
  BY ServeFact
<1>2. UNCHANGED <<mine, call, phase, req, ret, rx>>
  BY <1>1 DEF clientVars
<1>3. Opens(r, a) \/ Refuses(r, a) \/ Reads(r, a) \/ Writes(r, a) \/ Rewinds(r)
  BY <1>1
<1>4. \A i \in DOMAIN opened : i \in DOMAIN opened' /\ opened'[i].path = opened[i].path
  BY <1>3, PathKept
<1>5. \A h \in Handles : Holds(h) /\ Holds(h)'
  BY <1>2, <1>4 DEF Honesty, Holds, Known
<1>6. /\ toServer \in Seq(AnyRequest) /\ r = toServer[1] /\ 1 \in DOMAIN toServer
      /\ \A i \in DOMAIN toServer' : i + 1 \in DOMAIN toServer /\ toServer'[i] = toServer[i + 1]
  <2>1. toServer \in Seq(AnyRequest)
    BY DEF Types, LineTypes
  <2> QED BY <1>1, <2>1, TailIndex
<1>7. CASE phase = "idle" /\ ret # Nothing
  <2> DEFINE c == ret.call
             n == ret.res
  <2>1. AfterCall(c, n) /\ c \in AnyCall
    BY <1>7 DEF Honesty, Types, ClientTypes
  <2>2. (c.op = "open" /\ n # -1 => Known(n) /\ opened[Slot(n)].path = c.path)'
    BY <1>2, <1>4, <2>1 DEF AfterCall, Known
  <2>3. ASSUME IsData(c)
        PROVE  /\ (OwnFile(c))' /\ (n \in 0 .. c.len /\ (c.op = "read" => Len(c.data) = n))'
               /\ Placed(c, n, FileOf(c.fd), PosOf(c.fd))'
               /\ (\A i \in DOMAIN toServer : toServer[i].op = c.op /\ toServer[i].fd = c.fd)'
    <3>1. /\ OwnFile(c) /\ n \in 0 .. c.len /\ (c.op = "read" => Len(c.data) = n)
          /\ Placed(c, n, FileOf(c.fd), PosOf(c.fd))
          /\ \A i \in DOMAIN toServer : toServer[i].op = c.op /\ toServer[i].fd = c.fd
      BY <2>1, <2>3 DEF AfterCall
    <3>2. r.op = c.op /\ r.fd = c.fd /\ c.op # "open" /\ n \in Nat
      <4>1. c \in DataCall
        BY <2>1, <2>3, KindFact
      <4> QED BY <1>6, <2>3, <3>1, <4>1 DEF IsData, DataCall
    <3>3. Known(c.fd)
      BY <1>5, <2>1, <3>1, <3>2, OwnKnown
    <3> HIDE DEF c, n
    <3>4. Placed(c, n, files'[opened'[Slot(c.fd)].path], opened'[Slot(c.fd)].pos)
      BY <1>3, <2>3, <3>1, <3>2, <3>3, PlacedServed
    <3>5. c' = c /\ n' = n
      BY <1>2 DEF c, n
    <3>6. Placed(c, n, FileOf(c.fd), PosOf(c.fd))'
      BY <3>4, <3>5 DEF FileOf, PosOf, Slot
    <3>7. (OwnFile(c))'
      BY <1>2, <3>1, <3>5 DEF OwnFile
    <3>8. (\A i \in DOMAIN toServer : toServer[i].op = c.op /\ toServer[i].fd = c.fd)'
      BY <1>6, <3>1, <3>5
    <3> QED BY <3>1, <3>5, <3>6, <3>7, <3>8
  <2>4. (IsData(c))' <=> IsData(c)
    BY <1>2 DEF IsData
  <2> HIDE DEF c, n
  <2>5. AfterCall(c, n)'
    BY <2>2, <2>3, <2>4 DEF AfterCall
  <2> QED BY <1>2, <1>5, <1>7, <2>5 DEF Honesty, c, n
<1>8. CASE phase = "idle" /\ ret = Nothing
  BY <1>2, <1>5, <1>8 DEF Honesty
<1>9. CASE phase # "idle"
  <2>1. InCall /\ call \in AnyCall /\ req = Request(call)
    BY <1>9 DEF Honesty, Types, ClientTypes
  <2>2. (OwnFile(call))' /\ (IsData(call) => Counted(call))'
    BY <1>2, <2>1 DEF InCall, OwnFile
  <2>3. IsData(call) => call \in DataCall /\ call.op # "open" /\ Known(call.fd) /\ Counted(call)
                        /\ call.total \in Nat
    <3> SUFFICES ASSUME IsData(call)
                 PROVE  call \in DataCall /\ call.op # "open" /\ Known(call.fd) /\ Counted(call)
                        /\ call.total \in Nat
      OBVIOUS
    <3>1. call \in DataCall /\ call.op # "open" /\ Counted(call) /\ OwnFile(call)
      BY <2>1, KindFact DEF IsData, InCall
    <3>2. Known(call.fd)
      BY <1>5, <2>1, <3>1, OwnKnown
    <3> QED BY <3>1, <3>2, CountFact
  <2>4. CASE phase = "flush"
    <3>1. IsData(call) => call.total = 0
      BY <1>1, <2>1, <2>4 DEF InCall
    <3>2. ASSUME IsData(call) PROVE PosOf(call.fd)' \in Nat
      <4>1. Slot(call.fd) \in DOMAIN opened'
        BY <1>4, <2>3, <3>2 DEF Known
      <4>2. opened' \in Seq(File) /\ DOMAIN opened' = 1 .. Len(opened')
        BY LenProperties DEF Types, ServerTypes
      <4>3. opened'[Slot(call.fd)] \in File
        BY <4>1, <4>2, ElementOfSeq
      <4> QED BY <1>2, <4>3 DEF File, PosOf, Slot
    <3>3. InPlace'
      <4> SUFFICES ASSUME IsData(call)
                   PROVE  AtEnd(call, call.total, FileOf(call.fd), PosOf(call.fd))'
        BY <1>2 DEF InPlace, IsData
      <4> QED BY <1>2, <3>1, <3>2 DEF AtEnd
    <3>4. (IsData(call) /\ call.total # 0 => toServer = <<>>)'
      BY <1>2, <3>1 DEF IsData
    <3> QED BY <1>2, <1>5, <2>2, <2>4, <3>3, <3>4 DEF InCall, Honesty
  <2>5. CASE phase = "send"
    BY <1>1, <2>1, <2>5 DEF InCall
  <2>6. CASE phase \in {"header", "rest"}
    <3>1. Unserved
      BY <1>1, <2>1, <2>6 DEF InCall, Served
    <3>2. r = req /\ toServer' = <<>> /\ rx' = <<>>
          /\ line' = <<[part |-> "header", of |-> a], [part |-> "rest", of |-> a]>>
      BY <1>1, <1>2, <3>1 DEF Unserved
    <3>3. r.op = call.op /\ (call.op # "open" => r.fd = call.fd)
      BY <2>1, <3>2, RequestFact
    <3>4. ASSUME call.op = "open", a.res # -1
          PROVE  Slot(a.res) \in DOMAIN opened' /\ opened'[Slot(a.res)].path = call.path
      <4>1. Opens(r, a)
        BY <1>3, <3>3, <3>4 DEF Refuses, Reads, Writes, Rewinds
      <4>2. r = call /\ r.path \in Paths
        BY <2>1, <3>2, <3>4, KindFact DEF Request, OpenCall
      <4>3. /\ Slot(FirstFd + Len(opened)) \in DOMAIN opened'
            /\ opened'[Slot(FirstFd + Len(opened))] = [path |-> r.path, pos |-> 0]
        BY <4>1, <4>2, NewSlot DEF Opens, Types
      <4> QED BY <4>1, <4>2, <4>3 DEF Opens
    <3>5. ASSUME IsData(call)
          PROVE  /\ a.res \in 0 .. Part(call.left) /\ (call.op = "read" => Len(a.data) = a.res)
                 /\ AtEnd(Extended(call, a), call.total + a.res,
                          files'[opened'[Slot(call.fd)].path], opened'[Slot(call.fd)].pos)
      <4>1. AtEnd(call, call.total, FileOf(call.fd), PosOf(call.fd))
        BY <3>1, <3>5 DEF Unserved, InPlace
      <4>2. r = Request(call) /\ a.op = r.op
        BY <1>1, <2>1, <3>2
      <4> QED BY <1>3, <2>3, <3>5, <4>1, <4>2, PartServed
    <3>6. Honest(call, a)'
      <4>1. (call.op = "open" /\ a.res # -1 => Known(a.res) /\ opened[Slot(a.res)].path = call.path)'
        BY <1>2, <3>4 DEF Known
      <4>2. (IsData(call) /\ a.op = call.op =>
               /\ a.res \in 0 .. Part(call.left)
               /\ call.op = "read" => Len(a.data) = a.res
               /\ AtEnd(Extended(call, a), call.total + a.res, FileOf(call.fd), PosOf(call.fd)))'
        BY <1>2, <3>5 DEF FileOf, PosOf, Slot, IsData
      <4> QED BY <4>1, <4>2 DEF Honest
    <3>7. (IsData(call) => Placed(call, call.total, FileOf(call.fd), PosOf(call.fd)))'
      <4> SUFFICES ASSUME IsData(call)
                   PROVE  Placed(call, call.total, FileOf(call.fd), PosOf(call.fd))'
        BY <1>2 DEF IsData
      <4>1. PosOf(call.fd) \in Nat
        BY <2>3, HeldFile
      <4>2. Placed(call, call.total, FileOf(call.fd), PosOf(call.fd))
        BY <2>3, <3>1, <4>1, PlacedFact DEF Unserved, InPlace
      <4>3. Placed(call, call.total, files'[opened'[Slot(call.fd)].path], opened'[Slot(call.fd)].pos)
        BY <1>3, <2>3, <3>3, <4>2, PlacedServed
      <4> QED BY <1>2, <4>3 DEF FileOf, PosOf, Slot
    <3>8. Answered(line)' /\ Answered(rx)'
      <4>1. \A i \in DOMAIN line' : line'[i].of = a
        <5>1. DOMAIN line' = {1, 2} /\ line'[1].of = a /\ line'[2].of = a
          BY <3>2
        <5> QED BY <5>1
      <4>2. DOMAIN rx' = {}
        BY <3>2
      <4>3. \A i \in DOMAIN line' : Honest(call, line[i].of)'
        BY <3>6, <4>1
      <4> QED BY <4>2, <4>3 DEF Answered
    <3>9. Served'
      BY <3>2, <3>7, <3>8 DEF Served
    <3> QED BY <1>2, <1>5, <2>2, <2>6, <3>9 DEF InCall, Honesty
  <2> QED BY <1>9, <2>4, <2>5, <2>6 DEF Types, ClientTypes
<1> QED BY <1>7, <1>8, <1>9

LEMMA ArriveHonest == ASSUME Types, Honesty, Arrive PROVE Honesty'
<1>1. /\ line # <<>> /\ line' = Tail(line) /\ rx' = Append(rx, Head(line))
      /\ UNCHANGED <<mine, call, phase, req, ret, files, opened, toServer>>
  BY DEF Arrive, clientVars, serverVars
<1>2. \A h \in Handles : Holds(h)'
  BY <1>1 DEF Honesty, Holds, Known
<1>3. CASE phase = "idle"
  <2>1. (ret # Nothing => AfterCall(ret.call, ret.res))'
    BY <1>1, <1>3 DEF Honesty, AfterCall, OwnFile, FileOf, PosOf, Known
  <2> QED BY <1>1, <1>2, <1>3, <2>1 DEF Honesty
<1>4. CASE phase # "idle"
  <2>1. InCall
    BY <1>4 DEF Honesty
  <2>2. OwnFile(call)' /\ (IsData(call) => Counted(call))' /\ (InPlace => InPlace')
    BY <1>1, <2>1 DEF InCall, OwnFile, InPlace, FileOf, PosOf
  <2>3. CASE phase = "flush"
    <3>1. InPlace' /\ (IsData(call) /\ call.total # 0 => toServer = <<>>)'
      BY <1>1, <2>1, <2>2, <2>3 DEF InCall
    <3> QED BY <1>1, <1>2, <2>2, <2>3, <3>1 DEF InCall, Honesty
  <2>4. CASE phase = "send"
    BY <1>1, <2>1, <2>4 DEF InCall
  <2>5. CASE phase \in {"header", "rest"}
    <3>1. Served
      BY <1>1, <2>1, <2>5 DEF InCall, Unserved
    <3>2. line \in Seq(Unit) /\ rx \in Seq(Unit)
      BY DEF Types, LineTypes
    <3>3. /\ 1 \in DOMAIN line /\ Head(line) = line[1] /\ Head(line) \in Unit
          /\ \A i \in DOMAIN line' : i + 1 \in DOMAIN line /\ line'[i] = line[i + 1]
      BY <1>1, <3>2, TailIndex, HeadTailProperties
    <3>4. \A i \in DOMAIN line' : Honest(call, line'[i].of)
      BY <3>1, <3>3 DEF Served, Answered
    <3>5. ASSUME NEW i \in DOMAIN rx' PROVE Honest(call, rx'[i].of)
      <4>1. (i \in DOMAIN rx /\ rx'[i] = rx[i]) \/ rx'[i] = line[1]
        BY <1>1, <3>2, <3>3, AppendCases
      <4> QED BY <3>1, <3>3, <4>1 DEF Served, Answered
    <3>6. Answered(line)' /\ Answered(rx)'
      BY <1>1, <3>4, <3>5 DEF Answered, Honest, Known, FileOf, PosOf
    <3>7. Served'
      BY <1>1, <3>1, <3>6 DEF Served, FileOf, PosOf
    <3> QED BY <1>1, <1>2, <2>2, <2>5, <3>7 DEF InCall, Honesty
  <2> QED BY <1>4, <2>3, <2>4, <2>5 DEF Types, ClientTypes
<1> QED BY <1>3, <1>4

LEMMA LoseHonest == ASSUME Types, Honesty, Lose PROVE Honesty'
<1>1. UNCHANGED <<mine, call, phase, req, ret, files, opened, rx>>
  BY DEF Lose, clientVars, serverVars
<1>2. \A h \in Handles : Holds(h) /\ Holds(h)'
  BY <1>1 DEF Honesty, Holds, Known
<1>3. \/ toServer # <<>> /\ toServer' = Tail(toServer) /\ line' = line
      \/ line # <<>> /\ line' = Tail(line) /\ toServer' = toServer
  BY DEF Lose
<1>4. \A i \in DOMAIN toServer' : \E j \in DOMAIN toServer : toServer'[i] = toServer[j]
  <2>1. toServer \in Seq(AnyRequest)
    BY DEF Types, LineTypes
  <2>2. CASE toServer # <<>> /\ toServer' = Tail(toServer)
    <3>1. \A i \in DOMAIN toServer' : i + 1 \in DOMAIN toServer /\ toServer'[i] = toServer[i + 1]
      BY <2>1, <2>2, TailIndex
    <3> QED BY <3>1
  <2>3. CASE toServer' = toServer
    BY <2>3
  <2> QED BY <1>3, <2>2, <2>3
<1>5. CASE phase = "idle"
  <2>1. ASSUME ret # Nothing PROVE AfterCall(ret.call, ret.res)'
    <3>1. AfterCall(ret.call, ret.res)
      BY <1>5, <2>1 DEF Honesty
    <3>2. IsData(ret.call) => \A i \in DOMAIN toServer' : /\ toServer'[i].op = ret.call.op
                                                          /\ toServer'[i].fd = ret.call.fd
      BY <1>4, <3>1 DEF AfterCall
    <3> QED BY <1>1, <3>1, <3>2 DEF AfterCall, OwnFile, FileOf, PosOf, Known
  <2> QED BY <1>1, <1>2, <1>5, <2>1 DEF Honesty
<1>6. CASE phase # "idle"
  <2>1. InCall /\ call \in AnyCall
    BY <1>6 DEF Honesty, Types, ClientTypes
  <2>2. OwnFile(call)' /\ (IsData(call) => Counted(call))' /\ (InPlace => InPlace')
    BY <1>1, <2>1 DEF InCall, OwnFile, InPlace, FileOf, PosOf
  <2>3. CASE phase = "flush"
    <3>1. InPlace' /\ (IsData(call) /\ call.total # 0 => toServer = <<>>)'
      BY <1>1, <1>3, <2>1, <2>2, <2>3 DEF InCall
    <3> QED BY <1>1, <1>2, <2>2, <2>3, <3>1 DEF InCall, Honesty
  <2>4. CASE phase = "send"
    BY <1>3, <2>1, <2>4 DEF InCall
  <2>5. CASE phase \in {"header", "rest"}
    <3>1. ASSUME Unserved PROVE Served'
      <4>1. toServer' = <<>> /\ line' = <<>> /\ rx' = <<>>
        BY <1>1, <1>3, <3>1 DEF Unserved
      <4>2. (IsData(call) => Placed(call, call.total, FileOf(call.fd), PosOf(call.fd)))'
        <5>1. IsData(call) => Placed(call, call.total, FileOf(call.fd), PosOf(call.fd))
          <6> SUFFICES ASSUME IsData(call)
                       PROVE  Placed(call, call.total, FileOf(call.fd), PosOf(call.fd))
            OBVIOUS
          <6>1. call \in DataCall /\ call.op # "open" /\ Counted(call) /\ OwnFile(call)
            BY <2>1, KindFact DEF IsData, InCall
          <6>2. PosOf(call.fd) \in Nat
            BY <1>2, <2>1, <6>1, OwnKnown, HeldFile
          <6> QED BY <3>1, <6>1, <6>2, CountFact, PlacedFact DEF Unserved, InPlace
        <5> QED BY <1>1, <5>1 DEF FileOf, PosOf
      <4>3. Answered(line)' /\ Answered(rx)'
        BY <4>1 DEF Answered
      <4> QED BY <4>1, <4>2, <4>3 DEF Served
    <3>2. ASSUME Served PROVE Served'
      <4>1. line # <<>> /\ line' = Tail(line) /\ toServer' = <<>>
        BY <1>3, <3>2 DEF Served
      <4>2. \A i \in DOMAIN line' : i + 1 \in DOMAIN line /\ line'[i] = line[i + 1]
        <5>1. line \in Seq(Unit)
          BY DEF Types, LineTypes
        <5> QED BY <4>1, <5>1, TailIndex
      <4>3. \A i \in DOMAIN line' : Honest(call, line'[i].of)
        BY <3>2, <4>2 DEF Served, Answered
      <4>4. Answered(line)' /\ Answered(rx)'
        BY <1>1, <3>2, <4>3 DEF Served, Answered, Honest, Known, FileOf, PosOf
      <4> QED BY <1>1, <3>2, <4>1, <4>4 DEF Served, FileOf, PosOf
    <3>3. Served'
      BY <2>1, <2>5, <3>1, <3>2 DEF InCall
    <3> QED BY <1>1, <1>2, <2>2, <2>5, <3>3 DEF InCall, Honesty
  <2> QED BY <1>6, <2>3, <2>4, <2>5 DEF Types, ClientTypes
<1> QED BY <1>5, <1>6

LEMMA OneUnderWayStep ==
  ASSUME Types, Honesty, OneUnderWay, Next
  PROVE  OneUnderWay'
<1>0. toServer \in Seq(AnyRequest) /\ line \in Seq(Unit) /\ rx \in Seq(Unit)
  BY DEF Types, LineTypes
<1>1. CASE Program
  BY <1>1 DEF Program, Open, ReadWrite, Seek, Close, Begin, OneUnderWay
<1>2. CASE Send
  <2>1. toServer = <<>> /\ line = <<>> /\ rx = <<>> /\ UNCHANGED <<line, rx>>
    BY <1>2 DEF Send, Honesty, InCall
  <2>2. toServer' = <<req>>
    BY <1>2, <2>1 DEF Send
  <2> QED BY <2>1, <2>2 DEF OneUnderWay
<1>3. CASE Flush \/ Header \/ Rest \/ Timeout
  <2>1. UNCHANGED <<toServer, line>> /\ (rx = <<>> => rx' = <<>>)
    BY <1>3 DEF Flush, EmptiedInput, Header, Rest, Timeout
  <2> QED BY <2>1 DEF OneUnderWay
<1>4. CASE Serve
  <2>1. toServer # <<>> /\ toServer' = Tail(toServer)
    BY <1>4 DEF Serve
  <2>2. Len(toServer) = 1
    BY <2>1 DEF OneUnderWay
  <2>3. Len(Tail(toServer)) = 0 /\ Tail(toServer) \in Seq(AnyRequest)
    BY <1>0, <2>1, <2>2, HeadTailProperties
  <2> QED BY <2>1, <2>3, EmptySeq DEF OneUnderWay
<1>5. CASE Arrive
  BY <1>5 DEF Arrive, OneUnderWay
<1>6. CASE Lose
  <2>1. rx' = rx
    BY <1>6 DEF Lose
  <2>2. CASE toServer # <<>> /\ toServer' = Tail(toServer)
    <3>1. Len(Tail(toServer)) = 0 /\ Tail(toServer) \in Seq(AnyRequest)
      BY <1>0, <2>2, HeadTailProperties DEF OneUnderWay
    <3> QED BY <2>2, <3>1, EmptySeq DEF OneUnderWay
  <2>3. CASE line # <<>> /\ UNCHANGED toServer
    BY <2>3 DEF OneUnderWay
  <2> QED BY <1>6, <2>2, <2>3 DEF Lose
<1> QED BY <1>1, <1>2, <1>3, <1>4, <1>5, <1>6 DEF Next, Client

LEMMA UncrossedStep == ASSUME Types, Types', Uncrossed, [Next]_vars PROVE Uncrossed'
<1> SUFFICES ASSUME ~crossed' PROVE Honesty' /\ OneUnderWay'
  BY DEF Uncrossed
<1>1. CASE UNCHANGED vars
  <2>1. UNCHANGED <<mine, call, phase, req, ret, files, opened, toServer, line, rx, crossed>>
    BY <1>1 DEF vars, clientVars, serverVars
  <2>2. Honesty
    BY <2>1 DEF Uncrossed
  <2>3. \A h \in Handles : Holds(h)'
    BY <2>1, <2>2 DEF Honesty, Holds, Known
  <2>4. (phase = "idle" /\ ret # Nothing => AfterCall(ret.call, ret.res))'
    BY <2>1, <2>2 DEF Honesty, AfterCall, OwnFile, FileOf, PosOf, Known
  <2>5. InCall => InCall'
    <3>1. InPlace' <=> InPlace
      BY <2>1 DEF InPlace, FileOf, PosOf
    <3>2. Answered(line)' <=> Answered(line)
      BY <2>1 DEF Answered, Honest, Known, FileOf, PosOf
    <3>3. Answered(rx)' <=> Answered(rx)
      BY <2>1 DEF Answered, Honest, Known, FileOf, PosOf
    <3>4. (Unserved <=> Unserved') /\ (Served <=> Served')
      BY <2>1, <3>1, <3>2, <3>3 DEF Unserved, Served, FileOf, PosOf
    <3> QED BY <2>1, <3>1, <3>4 DEF InCall, OwnFile
  <2>6. OneUnderWay'
    BY <2>1 DEF Uncrossed, OneUnderWay
  <2> QED BY <2>1, <2>2, <2>3, <2>4, <2>5, <2>6 DEF Honesty
<1>2. ASSUME Client PROVE Honesty' /\ OneUnderWay'
  <2>1. ~crossed
    BY <1>2 DEF Client, Flush, Send, Header, Rest, Timeout, Types, ClientTypes
  <2> QED BY <1>2, <2>1, ClientHonest, OneUnderWayStep DEF Uncrossed, Next
<1>3. CASE Program
  <2>1. ~crossed
    BY <1>3 DEF Program, Open, ReadWrite, Seek, Close, Begin
  <2> QED BY <1>3, <2>1, ProgramHonest, OneUnderWayStep DEF Uncrossed, Next
<1>4. CASE Serve \/ Arrive \/ Lose
  <2>1. ~crossed
    BY <1>4 DEF Serve, Arrive, Lose
  <2> QED BY <1>4, <2>1, ServeHonest, ArriveHonest, LoseHonest, OneUnderWayStep DEF Uncrossed, Next
<1> QED BY <1>1, <1>2, <1>3, <1>4 DEF Next

LEMMA UncrossedInit == Init => Uncrossed
BY DEF Init, Uncrossed, Honesty, OneUnderWay, Holds

\* What a call returned is where it says.
LEMMA HonestCalls == ASSUME Types, Uncrossed PROVE CallsHonest
<1>0. ClientTypes /\ ServerTypes
  BY DEF Types
<1>1. TypeOK
  <2>1. (phase = "idle") <=> (call = Nothing)
    BY <1>0, KindFact DEF ClientTypes
  <2>2. (phase = "rest") <=> (answer # Nothing)
    BY <1>0, KindFact DEF ClientTypes
  <2> QED BY <1>0, <2>1, <2>2 DEF ClientTypes, TypeOK
<1>2. ASSUME ret # Nothing, ~crossed
      PROVE  AfterCall(ret.call, ret.res) /\ ret.call \in AnyCall /\ \A h \in Handles : Holds(h)
  <2>1. phase = "idle" /\ ret.call \in AnyCall
    BY <1>0, <1>2 DEF ClientTypes
  <2> QED BY <1>2, <2>1 DEF Uncrossed, Honesty
<1>3. ASSUME Returned("open"), ret.res # -1
      PROVE  Known(ret.res) /\ opened[Slot(ret.res)].path = ret.call.path
  BY <1>2, <1>3 DEF Returned, AfterCall
<1>4. ASSUME NEW op \in {"read", "write"}, Returned(op)
      PROVE  /\ ret.call \in DataCall /\ ret.res \in 0 .. ret.call.len /\ ret.res \in Nat
             /\ ret.res <= ret.call.len
             /\ (op = "read" => Len(ret.call.data) = ret.res)
             /\ files[mine[ret.call.h].path] \in Seq(Data) /\ PosOf(ret.call.fd) \in Nat
             /\ PosOf(ret.call.fd) <= Len(files[mine[ret.call.h].path])
             /\ Placed(ret.call, ret.res, files[mine[ret.call.h].path], PosOf(ret.call.fd))
  <2> DEFINE c == ret.call
  <2>1. AfterCall(c, ret.res) /\ c \in AnyCall /\ (\A h \in Handles : Holds(h)) /\ c.op = op
    BY <1>2, <1>4 DEF Returned
  <2>2. c \in DataCall /\ IsData(c) /\ c.op # "open"
    BY <2>1, KindFact DEF IsData
  <2>3. /\ OwnFile(c) /\ ret.res \in 0 .. c.len /\ (op = "read" => Len(c.data) = ret.res)
        /\ Placed(c, ret.res, FileOf(c.fd), PosOf(c.fd))
    BY <2>1, <2>2 DEF AfterCall
  <2>4. Known(c.fd) /\ FileOf(c.fd) = files[mine[c.h].path]
    BY <2>1, <2>2, <2>3, OwnKnown DEF FileOf
  <2>5. PosOf(c.fd) \in Nat /\ FileOf(c.fd) \in Seq(Data) /\ PosOf(c.fd) <= Len(FileOf(c.fd))
    BY <2>4, HeldFile
  <2>6. ret.res \in Nat /\ ret.res <= c.len
    BY <2>2, <2>3 DEF DataCall
  <2> QED BY <2>2, <2>3, <2>4, <2>5, <2>6
<1>5. ASSUME Returned("read")
      PROVE  /\ ret.res = Len(ret.call.data) /\ ret.res <= ret.call.len
             /\ Within(ret.call.data, files[mine[ret.call.h].path])
  <2> DEFINE s == ret.call.data
             f == files[mine[ret.call.h].path]
  <2>1. /\ ret.call \in DataCall /\ ret.res <= ret.call.len /\ Len(s) = ret.res
        /\ f \in Seq(Data) /\ PosOf(ret.call.fd) \in Nat /\ PosOf(ret.call.fd) <= Len(f)
        /\ Placed(ret.call, Len(s), f, PosOf(ret.call.fd))
    BY <1>4, <1>5
  <2>2. s \in Seq(Data) /\ \A k \in 1 .. Len(s) : s[k] = ByteOf(ret.call, k)
    BY <1>5, <2>1 DEF DataCall, ByteOf, Returned
  <2> HIDE DEF s, f
  <2>3. Within(s, f)
    BY <2>1, <2>2, WithinFact
  <2> QED BY <2>1, <2>3 DEF s, f
<1>6. ASSUME Returned("write")
      PROVE  /\ ret.res <= ret.call.len
             /\ Within([k \in 1 .. ret.res |-> <<ret.call.id, k>>], files[mine[ret.call.h].path])
  <2> DEFINE n == ret.res
             s == [k \in 1 .. n |-> <<ret.call.id, k>>]
             f == files[mine[ret.call.h].path]
  <2>1. /\ ret.call \in DataCall /\ ret.res <= ret.call.len /\ n \in Nat
        /\ f \in Seq(Data) /\ PosOf(ret.call.fd) \in Nat /\ PosOf(ret.call.fd) <= Len(f)
        /\ Placed(ret.call, n, f, PosOf(ret.call.fd))
    BY <1>4, <1>6
  <2>2. s \in [1 .. n -> Data]
    <3>1. ret.call.id \in Nat
      BY <2>1 DEF DataCall
    <3> HIDE DEF n
    <3> QED BY <3>1 DEF Data
  <2>3. s \in Seq(Data) /\ Len(s) = n
    BY <2>1, <2>2, AsSeq
  <2>4. \A k \in 1 .. n : s[k] = ByteOf(ret.call, k)
    BY <1>6 DEF ByteOf, Returned
  <2> HIDE DEF s, f, n
  <2>5. Within(s, f)
    BY <2>1, <2>3, <2>4, WithinFact
  <2> QED BY <2>1, <2>5 DEF s, f, n
<1> QED BY <1>1, <1>3, <1>5, <1>6 DEF CallsHonest

\* Whatever the line loses and however late the server answers: open gives the descriptor of
\* the file asked for, read consecutive bytes of the file, no more than asked, and write
\* reports no byte the server has not stored in order, as long as no request goes out while an
\* earlier one, given up, is still to be answered (client.c:41).
THEOREM CallsAreHonest == Spec => []CallsHonest
<1>1. Init => Types /\ Uncrossed
  BY TypesInit, UncrossedInit
<1>2. Types /\ Uncrossed /\ [Next]_vars => (Types /\ Uncrossed)'
  BY TypesStep, UncrossedStep
<1>3. Types /\ Uncrossed => CallsHonest
  BY HonestCalls
<1> QED BY <1>1, <1>2, <1>3, PTL DEF Spec
=============================================================================

-------------------------------- MODULE Rfs --------------------------------
(***************************************************************************)
(* The client of the remote file system (src/remotefs over eluarpc.c): a   *)
(* program opens, reads, writes and closes files of a server at the other  *)
(* end of a serial line.  Each request is sent in a packet and its answer  *)
(* awaited for a limited time.                                             *)
(*                                                                         *)
(* The server and the line are external.  The server executes requests in  *)
(* order and may take any time over it; the line loses packets, or parts   *)
(* of an answer, but does not reorder.  An answer is received as its size  *)
(* header and the rest.  Directories are left out: the same exchange.      *)
(***************************************************************************)
EXTENDS Integers, Sequences

CONSTANTS
  Handles,   \* the variables the program keeps open files in
  Paths, Closed,
  BufSize,   \* RFS_REAL_BUFFER_SIZE
  Lens,      \* the lengths read and written
  FileLen,   \* the length of the files at first
  FirstFd,   \* the server's first descriptor
  MaxCalls,  \* bound: calls of the program
  MaxLost    \* bound: losses on the line

ASSUME RfsAssumption ==
  /\ BufSize \in Nat \ {0} /\ Lens \subseteq Nat \ {0} /\ {FileLen, FirstFd, MaxCalls, MaxLost} \subseteq Nat

VARIABLES
  mine,      \* the program's open files: descriptor and path
  call,      \* the call in progress: operation, arguments, total
  phase,     \* of rfsch_send_request_read_response
  req,       \* the request in rfsc_buffer
  answer,    \* the answer whose header was read last
  ret,       \* what the last call returned, until the next
  calls,     \* number of calls so far
  files,     \* the server's files
  opened,    \* the server's descriptors, in the order opened: path and position
  toServer, line, rx,  \* requests under way; answers under way; answers received
  crossed,   \* history: a request went out while one given up was still to be answered
  lost       \* number of losses so far

clientVars == <<mine, call, phase, req, answer, ret, calls>>
serverVars == <<files, opened>>
vars == <<clientVars, serverVars, toServer, line, rx, crossed, lost>>

Smaller(a, b) == IF a < b THEN a ELSE b

Nothing == [op |-> "none"]

Init ==
  /\ mine = [h \in Handles |-> Closed]
  /\ call = Nothing /\ phase = "idle" /\ req = Nothing /\ answer = Nothing /\ ret = Nothing
  /\ calls = 0
  /\ files = [p \in Paths |-> [k \in 1 .. FileLen |-> <<p, k>>]]
  /\ opened = <<>>
  /\ toServer = <<>> /\ line = <<>> /\ rx = <<>>
  /\ crossed = FALSE /\ lost = 0

-----------------------------------------------------------------------------
\* The device functions.  The request for the next part of a call, of BufSize bytes
\* at most; the bytes written are numbered.

Part(left) == Smaller(left, BufSize)

Request(c) ==
  CASE c.op = "read" -> [op |-> "read", fd |-> c.fd, count |-> Part(c.left)]
    [] c.op = "write" -> [op |-> "write", fd |-> c.fd,
                          bytes |-> [k \in 1 .. Part(c.left) |-> <<c.id, c.len - c.left + k>>]]
    [] OTHER -> c

Begin(c) ==
  /\ phase = "idle" /\ calls < MaxCalls
  /\ calls' = calls + 1
  /\ call' = c /\ req' = Request(c) /\ phase' = "flush" /\ ret' = Nothing
  /\ UNCHANGED <<mine, answer, serverVars, toServer, line, rx, crossed, lost>>

Open(h, p) == mine[h] = Closed /\ Begin([op |-> "open", h |-> h, path |-> p])

ReadWrite(op, h, n) ==
  /\ mine[h] # Closed
  /\ Begin([op |-> op, h |-> h, fd |-> mine[h].fd, id |-> calls + 1,
            len |-> n, left |-> n, total |-> 0, data |-> <<>>])

Seek(h) == mine[h] # Closed /\ Begin([op |-> "lseek", h |-> h, fd |-> mine[h].fd])

Close(h) == mine[h] # Closed /\ Begin([op |-> "close", h |-> h, fd |-> mine[h].fd])

\* The call returns r; the program keeps what open gives it and forgets what it closed.
Return(c, r) ==
  /\ phase' = "idle" /\ call' = Nothing /\ req' = Nothing /\ ret' = [call |-> c, res |-> r]
  /\ mine' = CASE c.op = "open" /\ r # -1 -> [mine EXCEPT ![c.h] = [fd |-> r, path |-> c.path]]
               [] c.op = "close" -> [mine EXCEPT ![c.h] = Closed]
               [] OTHER -> mine

\* CLIENT_ERR, or an answer that does not match: -1, or what was done until then.
GiveUp == Return(call, IF call.op \in {"read", "write"} THEN call.total ELSE -1)

-----------------------------------------------------------------------------
\* rfsch_send_request_read_response.

\* Slip: the receive buffer not emptied, as under ELUA_CPU_LINUX.
KeptInput(r) == r

EmptiedInput(r) == <<>>

\* The bytes of an answer that came too late are read into the first byte of the request,
\* which is then no packet: the call fails with nothing sent.  (The last byte of a part is
\* never TYPE_PKT_SIZE.)
Flush ==
  /\ phase = "flush"
  /\ rx' = EmptiedInput(rx)
  /\ \/ rx' # rx /\ GiveUp /\ UNCHANGED crossed
     \/ /\ rx' = rx /\ phase' = "send"
        /\ crossed' = (crossed \/ toServer # <<>> \/ line # <<>>)
        /\ UNCHANGED <<mine, call, req, ret>>
  /\ UNCHANGED <<answer, calls, serverVars, toServer, line, lost>>

Send ==
  /\ phase = "send" /\ phase' = "header"
  /\ toServer' = Append(toServer, req)
  /\ UNCHANGED <<mine, call, req, answer, ret, calls, serverVars, line, rx, crossed, lost>>

\* What is received first is taken for the header; the rest of an answer is no header.
Header ==
  /\ phase = "header" /\ rx # <<>> /\ rx' = Tail(rx)
  /\ LET u == Head(rx)
     IN IF u.part = "header"
          THEN phase' = "rest" /\ answer' = u.of /\ UNCHANGED <<mine, call, req, ret>>
          ELSE GiveUp /\ UNCHANGED answer
  /\ UNCHANGED <<calls, serverVars, toServer, line, crossed, lost>>

\* All answers but those to a read hold one number.
SameSize(a, b) == (a.op = "read") = (b.op = "read") /\ Len(a.data) = Len(b.data)

\* Slip: the operation in the answer not compared.
AnyMatches(r, u) == u.part = "rest" /\ SameSize(u.of, answer)

\* eluarpc_gen_read: the packet is as long as its header says, and answers this operation.
Matches(r, u) == u.part = "rest" /\ SameSize(u.of, answer) /\ u.of.op = r.op

\* "res < towrite", "res < toread", unsigned.
Short(c, n) == n < Part(c.left)

Continue(a) ==
  LET c == [call EXCEPT !.total = @ + a.res, !.left = @ - Part(@),
                        !.data = IF a.op = "read" THEN @ \o a.data ELSE @]
  IN IF Short(call, a.res) \/ c.left = 0 THEN Return(c, c.total)
     ELSE /\ call' = c /\ req' = Request(c)
          /\ phase' = "flush" /\ UNCHANGED <<mine, ret>>

Rest ==
  /\ phase = "rest" /\ rx # <<>> /\ rx' = Tail(rx) /\ answer' = Nothing
  /\ LET u == Head(rx)
     IN \/ ~Matches(req, u) /\ GiveUp
        \/ Matches(req, u) /\ call.op \in {"read", "write"} /\ Continue(u.of)
        \/ Matches(req, u) /\ call.op \notin {"read", "write"} /\ Return(call, u.of.res)
  /\ UNCHANGED <<calls, serverVars, toServer, line, crossed, lost>>

\* Slip: the rest of an answer awaited for ever.
TimedHeader == {"header"}

TimedPhases == {"header", "rest"}

\* RFS_TIMEOUT passes with nothing received.
Timeout ==
  /\ phase \in TimedPhases /\ rx = <<>>
  /\ GiveUp /\ answer' = Nothing
  /\ UNCHANGED <<calls, serverVars, toServer, line, rx, crossed, lost>>

-----------------------------------------------------------------------------
\* The server and the line.

Answer(r, res, data) ==
  LET a == [op |-> r.op, res |-> res, data |-> data]
  IN line' = line \o <<[part |-> "header", of |-> a], [part |-> "rest", of |-> a]>>

Slot(fd) == fd - FirstFd + 1
Known(fd) == Slot(fd) \in DOMAIN opened

ServeOpen(r) ==
  \/ /\ opened' = Append(opened, [path |-> r.path, pos |-> 0])
     /\ Answer(r, FirstFd + Len(opened), <<>>) /\ UNCHANGED files
  \/ Answer(r, -1, <<>>) /\ UNCHANGED serverVars

ServeRead(r) ==
  LET o == opened[Slot(r.fd)]
      data == SubSeq(files[o.path], o.pos + 1, Smaller(o.pos + r.count, Len(files[o.path])))
  IN /\ Answer(r, Len(data), data)
     /\ opened' = [opened EXCEPT ![Slot(r.fd)].pos = @ + Len(data)]
     /\ UNCHANGED files

\* Fewer bytes may be stored than sent.
ServeWrite(r) ==
  LET o == opened[Slot(r.fd)]
      file == files[o.path]
  IN \E n \in 0 .. Len(r.bytes) :
       /\ files' = [files EXCEPT ![o.path] =
                      SubSeq(@, 1, o.pos) \o SubSeq(r.bytes, 1, n) \o SubSeq(@, o.pos + n + 1, Len(file))]
       /\ opened' = [opened EXCEPT ![Slot(r.fd)].pos = @ + n]
       /\ Answer(r, n, <<>>)

ServeSeek(r) == opened' = [opened EXCEPT ![Slot(r.fd)].pos = 0] /\ Answer(r, 0, <<>>) /\ UNCHANGED files

Serve ==
  /\ toServer # <<>> /\ toServer' = Tail(toServer)
  /\ LET r == Head(toServer)
     IN \/ r.op = "open" /\ ServeOpen(r)
        \/ r.op = "read" /\ Known(r.fd) /\ ServeRead(r)
        \/ r.op = "write" /\ Known(r.fd) /\ ServeWrite(r)
        \/ r.op = "lseek" /\ Known(r.fd) /\ ServeSeek(r)
        \/ (r.op = "close" \/ (r.op # "open" /\ ~Known(r.fd))) /\ Answer(r, 0, <<>>) /\ UNCHANGED serverVars
  /\ UNCHANGED <<clientVars, rx, crossed, lost>>

Arrive ==
  /\ line # <<>> /\ line' = Tail(line) /\ rx' = Append(rx, Head(line))
  /\ UNCHANGED <<clientVars, serverVars, toServer, crossed, lost>>

Lose ==
  /\ lost < MaxLost /\ lost' = lost + 1
  /\ \/ toServer # <<>> /\ toServer' = Tail(toServer) /\ UNCHANGED line
     \/ line # <<>> /\ line' = Tail(line) /\ UNCHANGED toServer
  /\ UNCHANGED <<clientVars, serverVars, rx, crossed>>

-----------------------------------------------------------------------------
Program ==
  \E h \in Handles :
    \/ \E p \in Paths : Open(h, p)
    \/ \E n \in Lens, op \in {"read", "write"} : ReadWrite(op, h, n)
    \/ Seek(h) \/ Close(h)

Client == Flush \/ Send \/ Header \/ Rest \/ Timeout

Next == Program \/ Client \/ Serve \/ Arrive \/ Lose

\* The client runs; the server and the line need not do anything.
Spec == Init /\ [][Next]_vars /\ WF_vars(Client)

-----------------------------------------------------------------------------
TypeOK ==
  /\ phase \in {"idle", "flush", "send", "header", "rest"}
  /\ calls \in 0 .. MaxCalls /\ lost \in 0 .. MaxLost /\ crossed \in BOOLEAN
  /\ (phase = "idle") <=> (call = Nothing)
  /\ (phase = "rest") <=> (answer # Nothing)

\* t occurs in s.
Within(t, s) == \E k \in 0 .. Len(s) - Len(t) : SubSeq(s, k + 1, k + Len(t)) = t

Returned(op) == ret # Nothing /\ ret.call.op = op /\ ~crossed

\* Whatever is lost: open gives the descriptor of the file asked for, a read gives
\* consecutive bytes of the file the handle was opened on, no more than asked, and a write
\* reports no byte that the server has not stored, in order.  The exception is a request
\* sent while an earlier one, given up, is still to be answered: the answer to that one is
\* taken for it (client.c:41).
CallsHonest ==
  /\ TypeOK
  /\ (Returned("open") /\ ret.res # -1) => Known(ret.res) /\ opened[Slot(ret.res)].path = ret.call.path
  /\ Returned("read") =>
       /\ ret.res = Len(ret.call.data) /\ ret.res <= ret.call.len
       /\ Within(ret.call.data, files[mine[ret.call.h].path])
  /\ Returned("write") =>
       /\ ret.res <= ret.call.len
       /\ Within([k \in 1 .. ret.res |-> <<ret.call.id, k>>], files[mine[ret.call.h].path])

\* However late the answers come, what the program holds as an open file is a
\* descriptor the server gave out, and never the count or the position another
\* request was answered with.
HandlesIssued == \A h \in Handles : mine[h] # Closed => Known(mine[h].fd)

\* Every call returns, even when the server is gone.
CallsReturn == (phase # "idle") ~> (phase = "idle")
=============================================================================

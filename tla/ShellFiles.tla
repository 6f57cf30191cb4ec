----------------------------- MODULE ShellFiles -----------------------------
(***************************************************************************)
(* The shell's cp and mv (shell.c, shell_adv_cp_mv.c) over the device      *)
(* manager's calls (newlib/stubs.c), on two devices: the WOFS of module    *)
(* Wofs and a memory card (mmcfs.c on the external FatFs).  A Lua program  *)
(* that keeps WOFS files open may have called the shell (elua.shell), so   *)
(* its own calls come between commands.  The system may be reset at any    *)
(* step.  Paths name existing files or free names; directories, masks and  *)
(* two spellings of one path are left out.                                 *)
(***************************************************************************)
EXTENDS Wofs

CONSTANTS
  CardFiles,     \* contents of the card at start: [Names -> contents or NoFile]
  CardMax,       \* bound: bytes of a card file until the card is full
  BufSize,       \* SHELL_COPY_BUFSIZE
  Chunks,        \* what the program writes with one call
  Modes,         \* the modes the program opens with
  SimulateMove,  \* whether mv is given -s
  MaxOpens, MaxFormats, MaxResets, MaxCommands  \* bounds

ASSUME ShellAssumption ==
  /\ Chunks \subseteq Seq(Bytes) /\ Modes \subseteq DOMAIN Flags
  /\ BufSize \in Nat \ {0} /\ CardMax \in Nat /\ SimulateMove \in BOOLEAN
  /\ {MaxOpens, MaxFormats, MaxResets, MaxCommands} \subseteq Nat

Paths == [dev : {"wo", "mmc"}, name : Names]
Commands == [move : BOOLEAN, src : Paths, dst : Paths, force : BOOLEAN, sim : BOOLEAN]

VARIABLES
  card,    \* files of the card: [Names -> contents or NoFile]
  mfd,     \* open descriptors of the card (mmcfs_fd_table)
  prog,    \* the descriptors of WOFS the program holds
  pc, cmd, \* the shell: its next step and the command
  fds, fdd,  \* the shell's descriptors of source and destination, or -1
  buf,     \* the shell's copy buffer
  told,    \* what the last command reported: "none", "failed", "moved", "done"
  kept,    \* history: content of the source when the command began
  cut,     \* history: a reset came while a file with data was being written
  pulled,  \* history: WOFS was formatted while a file was open for writing
  lostClose, \* history: FatFs failed to close the destination
  opens, formats, resets, commands  \* counts

cardVars == <<card, mfd>>
shellVars == <<pc, cmd, fds, fdd, buf, told, kept, lostClose, commands>>
counts == <<opens, formats, resets>>
history == <<cut, pulled>>
vars == <<wofsVars, cardVars, prog, shellVars, history, counts>>

NoFd == -1
Idle == pc = "idle"

Init ==
  /\ WofsInit
  /\ card = CardFiles /\ mfd = <<>> /\ prog = {}
  /\ pc = "idle" /\ cmd = <<>> /\ fds = NoFd /\ fdd = NoFd /\ buf = <<>>
  /\ told = "none" /\ kept = NoFile
  /\ cut = FALSE /\ pulled = FALSE /\ lostClose = FALSE
  /\ opens = 0 /\ formats = 0 /\ resets = 0 /\ commands = 0

Content(p) == IF p.dev = "wo" THEN ContentOf(p.name) ELSE card[p.name]

-----------------------------------------------------------------------------
\* The program, while no command runs.

\* A result of the last command is no longer looked at.
Forget ==
  /\ told' = "none" /\ kept' = NoFile /\ cmd' = <<>>
  /\ UNCHANGED <<pc, fds, fdd, buf, lostClose, commands>>

ProgramOpen(n, m) ==
  /\ Idle
  /\ \/ OpenInvalidate(n, m) /\ Forget /\ UNCHANGED prog
     \/ OpenCreate(n, m) /\ prog' = prog \union {NewFd} /\ UNCHANGED shellVars
     \/ OpenExisting(n, m) /\ prog' = prog \union {NewFd} /\ UNCHANGED shellVars
     \/ opening # <<>> /\ OpenFails(n, m) /\ UNCHANGED <<prog, shellVars>>
  /\ IF opening = <<>> THEN opens < MaxOpens /\ opens' = opens + 1 ELSE UNCHANGED opens
  /\ UNCHANGED <<cardVars, history, formats, resets>>

ProgramCall(d) ==
  /\ Idle /\ opening = <<>>
  /\ \/ Close(d) /\ prog' = prog \ {d}
     \/ \E c \in Chunks : Write(d, c) /\ UNCHANGED prog
     \/ \E pos \in {0, fd[d].size} : Writable(fd[d].mode) /\ Seek(d, pos) /\ UNCHANGED prog
  /\ UNCHANGED <<cardVars, shellVars, history, counts>>

\* The command wofmt, whether or not the program has files open.
Wofmt ==
  /\ Idle /\ formats < MaxFormats
  /\ Format /\ Forget /\ formats' = formats + 1
  /\ cut' = FALSE /\ pulled' = (\E d \in DOMAIN fd : Writable(fd[d].mode))
  /\ UNCHANGED <<cardVars, prog, opens, resets>>

-----------------------------------------------------------------------------
\* The card.  FatFs is external: a call on it may fail with a disk error.

NewMfd == CHOOSE d \in 0 .. 3 : d \notin DOMAIN mfd /\ \A e \in 0 .. d - 1 : e \in DOMAIN mfd

\* FA_OPEN_EXISTING and FA_CREATE_ALWAYS
CardOpen(n, create) ==
  /\ ~create => card[n] # NoFile
  /\ card' = IF create THEN [card EXCEPT ![n] = <<>>] ELSE card
  /\ mfd' = NewMfd :> [name |-> n, pos |-> 0, write |-> create] @@ mfd

CardClose(d) == mfd' = [e \in DOMAIN mfd \ {d} |-> mfd[e]]

CardRead(d, len) ==
  LET f == mfd[d]
      end == IF f.pos + len < Len(card[f.name]) THEN f.pos + len ELSE Len(card[f.name])
  IN SubSeq(card[f.name], f.pos + 1, end)

CardAccepted(d, len) ==
  LET room == CardMax - Len(card[mfd[d].name]) IN IF len < room THEN len ELSE room

-----------------------------------------------------------------------------
\* Opening and closing by the shell, on the device a path names.

OpenRead(p) ==
  IF p.dev = "wo" THEN OpenExisting(p.name, "r") /\ UNCHANGED cardVars
                  ELSE CardOpen(p.name, FALSE) /\ UNCHANGED wofsVars

OpenWrite(p) ==
  IF p.dev = "wo" THEN OpenCreate(p.name, "w") /\ UNCHANGED cardVars
                  ELSE CardOpen(p.name, TRUE) /\ UNCHANGED wofsVars

\* The other outcome of either, with -1.
OpenRefused(p, m) ==
  /\ p.dev = "wo" => OpenFails(p.name, m)
  /\ p.dev = "mmc" => UNCHANGED wofsVars
  /\ UNCHANGED cardVars

NewFdOn(p) == IF p.dev = "wo" THEN NewFd ELSE NewMfd

\* Shell steps that reset and format do not concern.
Shell == UNCHANGED <<prog, history, counts, commands>>
SameCommand == UNCHANGED <<cmd, kept>>

Goto(label) == pc' = label

-----------------------------------------------------------------------------
\* shell_cp and shell_adv_mv: the source is there, and it is not the
\* destination (the first check of shellh_cp_file).
Start(c) ==
  /\ Idle /\ opening = <<>> /\ commands < MaxCommands
  /\ c.src # c.dst
  /\ \A p \in {c.src, c.dst} : p.dev = "wo" => ~Astray(p.name)
  /\ IF c.src.dev = "wo" THEN Found(c.src.name) ELSE card[c.src.name] # NoFile
  /\ c.move /\ c.sim => SimulateMove
  /\ cmd' = c /\ told' = "none" /\ kept' = Content(c.src) /\ lostClose' = FALSE
  /\ commands' = commands + 1
  /\ Goto(IF c.move THEN "rename" ELSE "source")
  /\ UNCHANGED <<wofsVars, cardVars, prog, fds, fdd, buf, history, counts>>

\* rename: EXDEV leads to a copy, EPERM to an error.  mmcfs_rename_r returns the
\* FRESULT of f_rename, which is never -1.
Rename ==
  LET old == cmd.src.name
      new == cmd.dst.name
  IN /\ pc = "rename" /\ Shell /\ SameCommand
     /\ \/ cmd.src.dev # cmd.dst.dev /\ Goto("source") /\ UNCHANGED <<card, told>>
        \/ /\ cmd.src.dev = "wo" /\ cmd.dst.dev = "wo"
           /\ Goto("idle") /\ told' = "failed" /\ UNCHANGED card
        \/ /\ cmd.src.dev = "mmc" /\ cmd.dst.dev = "mmc"
           /\ Goto("idle") /\ told' = "moved"
           /\ \/ card[new] = NoFile /\ card' = [card EXCEPT ![new] = card[old], ![old] = NoFile]
              \/ UNCHANGED card
     /\ UNCHANGED <<wofsVars, mfd, fds, fdd, buf, lostClose>>

\* shellh_cp_file
OpenSource ==
  /\ pc = "source" /\ Shell /\ SameCommand
  /\ \/ OpenRead(cmd.src) /\ fds' = NewFdOn(cmd.src) /\ Goto("probe") /\ UNCHANGED told
     \/ OpenRefused(cmd.src, "r") /\ Goto("close") /\ told' = "failed" /\ UNCHANGED fds
  /\ UNCHANGED <<fdd, buf, lostClose>>

\* Without -f the destination is opened for reading to see whether it exists.
Probe ==
  /\ pc = "probe" /\ Shell /\ SameCommand
  /\ \/ /\ cmd.force
        /\ Goto("create") /\ UNCHANGED <<wofsVars, cardVars, fdd>>
     \/ ~cmd.force /\ OpenRead(cmd.dst) /\ fdd' = NewFdOn(cmd.dst) /\ Goto("ask")
     \/ ~cmd.force /\ OpenRefused(cmd.dst, "r") /\ Goto("create") /\ UNCHANGED fdd
  /\ UNCHANGED <<fds, buf, told, lostClose>>

CloseDescriptor(p, d) ==
  IF p.dev = "wo" THEN Close(d) /\ UNCHANGED cardVars
                  ELSE CardClose(d) /\ UNCHANGED <<card, wofsVars>>

\* The probe is closed and the user answers yes or no.
Ask ==
  /\ pc = "ask" /\ Shell /\ SameCommand
  /\ CloseDescriptor(cmd.dst, fdd) /\ fdd' = NoFd
  /\ \/ Goto("create") /\ UNCHANGED told
     \/ Goto("close") /\ told' = "failed"
  /\ UNCHANGED <<fds, buf, lostClose>>

\* The buffer is allocated, or not; the destination is opened, possibly with
\* the deletion of the old file as a step of its own.
CreateDest ==
  /\ pc = "create" /\ Shell /\ SameCommand
  /\ \/ /\ cmd.dst.dev = "wo" /\ ~cmd.sim /\ OpenInvalidate(cmd.dst.name, "w")
        /\ UNCHANGED <<cardVars, pc, fdd, told>>
     \/ ~cmd.sim /\ OpenWrite(cmd.dst) /\ fdd' = NewFdOn(cmd.dst) /\ Goto("copy") /\ UNCHANGED told
     \/ /\ ~cmd.sim /\ OpenRefused(cmd.dst, "w")
        /\ Goto("close") /\ told' = "failed" /\ UNCHANGED fdd
     \/ /\ opening = <<>> /\ Goto("close") /\ told' = "failed"
        /\ UNCHANGED <<wofsVars, cardVars, fdd>>
     \/ /\ cmd.sim /\ Goto("close") /\ told' = "done"
        /\ UNCHANGED <<wofsVars, cardVars, fdd>>
  /\ UNCHANGED <<fds, buf, lostClose>>

-----------------------------------------------------------------------------
\* The copy loop.

CopyRead ==
  /\ pc = "copy" /\ Shell /\ SameCommand
  /\ \/ /\ cmd.src.dev = "wo" /\ Read(fds, BufSize) /\ buf' = ReadBytes(fds, BufSize)
        /\ UNCHANGED cardVars
     \/ /\ cmd.src.dev = "mmc" /\ buf' = CardRead(fds, BufSize)
        /\ mfd' = [mfd EXCEPT ![fds].pos = @ + Len(buf')]
        /\ UNCHANGED <<card, wofsVars>>
  /\ Goto("write")
  /\ UNCHANGED <<fds, fdd, told, lostClose>>

\* Slip: a short write is not noticed.
AfterRoundUnchecked(took) == IF Len(buf) < BufSize THEN "done" ELSE "more"

AfterRound(took) ==
  IF took < Len(buf) THEN "failed" ELSE IF Len(buf) < BufSize THEN "done" ELSE "more"

DestAccepted == IF cmd.dst.dev = "wo" THEN Accepted(fdd, Len(buf)) ELSE CardAccepted(fdd, Len(buf))

CopyWrite ==
  /\ pc = "write" /\ Shell /\ SameCommand
  /\ \/ cmd.dst.dev = "wo" /\ Write(fdd, buf) /\ UNCHANGED cardVars
     \/ /\ cmd.dst.dev = "mmc" /\ UNCHANGED <<mfd, wofsVars>>
        /\ card' = [card EXCEPT ![cmd.dst.name] = @ \o SubSeq(buf, 1, DestAccepted)]
  /\ LET after == AfterRound(DestAccepted)
     IN IF after = "more" THEN Goto("copy") /\ UNCHANGED told
                          ELSE Goto("close") /\ told' = after
  /\ buf' = <<>>
  /\ UNCHANGED <<fds, fdd, lostClose>>

\* A disk error while the card is read or written.
CopyError ==
  /\ \/ pc = "copy" /\ cmd.src.dev = "mmc"
     \/ pc = "write" /\ cmd.dst.dev = "mmc"
  /\ Shell /\ SameCommand
  /\ told' = "failed" /\ Goto("close") /\ buf' = <<>>
  /\ UNCHANGED <<wofsVars, cardVars, fds, fdd, lostClose>>

\* The label done: source and destination are closed, each if it is open.
CloseSource ==
  /\ pc = "close" /\ fds # NoFd /\ Shell /\ SameCommand
  /\ CloseDescriptor(cmd.src, fds) /\ fds' = NoFd
  /\ UNCHANGED <<pc, fdd, buf, told, lostClose>>

\* mmcfs_close_r does not look at the result of f_close: the size may not have
\* reached the directory.
CloseDest ==
  /\ pc = "close" /\ fds = NoFd /\ fdd # NoFd /\ Shell /\ SameCommand
  /\ \/ CloseDescriptor(cmd.dst, fdd) /\ UNCHANGED lostClose
     \/ /\ cmd.dst.dev = "mmc" /\ CardClose(fdd) /\ lostClose' = TRUE
        /\ \E k \in 0 .. Len(card[cmd.dst.name]) :
             card' = [card EXCEPT ![cmd.dst.name] = SubSeq(@, 1, k)]
        /\ UNCHANGED wofsVars
  /\ fdd' = NoFd
  /\ UNCHANGED <<pc, fds, buf, told>>

\* Slip: the source removed whether or not the copy succeeded.
AfterCopyAlways == IF cmd.move THEN "unlink" ELSE "idle"

AfterCopy == IF cmd.move /\ told = "done" THEN "unlink" ELSE "idle"

Closed ==
  /\ pc = "close" /\ fds = NoFd /\ fdd = NoFd /\ Shell /\ SameCommand
  /\ Goto(AfterCopy)
  /\ UNCHANGED <<wofsVars, cardVars, fds, fdd, buf, told, lostClose>>

\* WOFS has no unlink (ENOSYS); f_unlink may fail, with a result that is not -1.
Unlink ==
  /\ pc = "unlink" /\ Shell /\ SameCommand /\ Goto("idle")
  /\ \/ cmd.src.dev = "wo" /\ told' = "failed" /\ UNCHANGED card
     \/ /\ cmd.src.dev = "mmc" /\ UNCHANGED told
        /\ card' \in {card, [card EXCEPT ![cmd.src.name] = NoFile]}
  /\ UNCHANGED <<wofsVars, mfd, fds, fdd, buf, lostClose>>

-----------------------------------------------------------------------------
\* A reset: RAM is initialised.  A card file that was open for writing has any
\* part of what was written, or is not there.
Reset ==
  /\ resets < MaxResets /\ resets' = resets + 1
  /\ ~Idle \/ fd # <<>> \/ opening # <<>>
  /\ Restart
  /\ cut' = (cut \/ \E d \in DOMAIN fd : Writable(fd[d].mode) /\ fd[d].size > 0)
  /\ IF \E d \in DOMAIN mfd : mfd[d].write
     THEN \E c \in {NoFile} \union {SubSeq(card[cmd.dst.name], 1, k) : k \in 0 .. Len(card[cmd.dst.name])} :
            card' = [card EXCEPT ![cmd.dst.name] = c]
     ELSE UNCHANGED card
  /\ mfd' = <<>> /\ prog' = {}
  /\ Goto("idle") /\ fds' = NoFd /\ fdd' = NoFd /\ buf' = <<>> /\ told' = "none"
  /\ UNCHANGED <<cmd, kept, lostClose, commands, opens, formats, pulled>>

Next ==
  \/ \E n \in Names, m \in Modes : ProgramOpen(n, m)
  \/ \E d \in prog : ProgramCall(d)
  \/ Wofmt
  \/ \E c \in Commands : Start(c)
  \/ Rename \/ OpenSource \/ Probe \/ Ask \/ CreateDest
  \/ CopyRead \/ CopyWrite \/ CopyError \/ CloseSource \/ CloseDest \/ Closed \/ Unlink
  \/ Reset

Spec == Init /\ [][Next]_vars

-----------------------------------------------------------------------------
Byte == Bytes \union {Blank}

TypeOK ==
  /\ DOMAIN head \subseteq 0 .. MaxSize - 1 /\ DOMAIN data \subseteq 0 .. MaxSize - 1
  /\ \A a \in DOMAIN head : head[a] \in [name : Names \union {Blank}, deleted : BOOLEAN, size : 0 .. MaxSize \union {Unset}]
  /\ \A a \in DOMAIN data : data[a] \in Byte
  /\ DOMAIN fd \subseteq 0 .. MaxFds - 1 /\ prog \subseteq DOMAIN fd
  /\ writing \in BOOLEAN
  /\ \A n \in Names : card[n] # NoFile => card[n] \in Seq(Byte) /\ Len(card[n]) <= CardMax
  /\ DOMAIN mfd \subseteq 0 .. 3
  /\ {fds, fdd} \subseteq {NoFd} \union 0 .. MaxFds - 1 \union 0 .. 3
  /\ told \in {"none", "failed", "moved", "done"}

Writer(d) == Writable(fd[d].mode)

\* The chain of files ends inside the device, at an erased byte with nothing
\* programmed behind it, so that the next file finds room and an end: unless a
\* file with data has no size yet, because it is being written or because a reset
\* cut the writing (romfs.c:108, 267), or the device was formatted under a file being
\* written, which goes on where it was (romfs.c:524).
ChainEndsErased ==
  /\ TypeOK
  /\ FirstFree <= MaxSize - 1
  /\ \/ \A a \in DOMAIN head \union DOMAIN data : a < FirstFree
     \/ cut \/ pulled
     \/ \E d \in DOMAIN fd : Writer(d) /\ fd[d].base = FirstFree

\* No byte of flash is programmed a second time, except by formatting: a file
\* never overwrites another one, a size or a deletion mark is written once.  Not so
\* after the device was formatted under a file open for writing: when that is closed,
\* its size goes into erased flash, where the next file is created (romfs.c:237, 524).
WriteOnce ==
  [][ formats' = formats /\ ~pulled =>
        /\ DOMAIN data \subseteq DOMAIN data' /\ DOMAIN head \subseteq DOMAIN head'
        /\ \A a \in DOMAIN data : data'[a] = data[a]
        /\ \A a \in DOMAIN head :
             /\ head'[a].name = head[a].name
             /\ head[a].deleted => head'[a].deleted
             /\ head[a].size # Unset => head'[a].size = head[a].size
        /\ \A a \in DOMAIN head', b \in DOMAIN data' : b \notin a .. BaseOf(a) - 1 ]_vars

\* Through all calls and resets the model follows - an open whose search goes astray in
\* a file that a reset tore is not - each file of WOFS appears whole when it is closed and
\* keeps its content until it is replaced or the device is formatted.  A device formatted
\* under a file open for writing promises no file until it is formatted again.
Promise == INSTANCE FileSet WITH
  Contents <- Seq(Byte), files <- [n \in Names |-> IF pulled THEN NoFile ELSE ContentOf(n)]

ImplementsFileSet == Promise!Spec

\* cp and mv never lose what they were told to copy: it is at the source, or
\* after mv at the destination, at every moment, also when an error or a reset
\* ends the command early (shell.c:122, shell_adv_cp_mv.c:36).  A WOFS that was formatted
\* under a file open for writing keeps nothing safe.
SourceKept ==
  kept # NoFile /\ ~pulled =>
    \/ Content(cmd.src) = kept
    \/ cmd.move /\ Content(cmd.dst) = kept

\* On every way out of a command the shell has closed what it opened, and a copy
\* that was reported as done is the whole source, unless the card failed to close
\* it (shell.c:163, mmcfs.c:137) or WOFS was formatted under a file open for writing.
CommandEndsWell ==
  Idle =>
    /\ DOMAIN fd = prog /\ mfd = <<>>
    /\ told = "done" /\ ~cmd.sim /\ ~lostClose /\ ~pulled /\ kept # NoFile => Content(cmd.dst) = kept

\* "[-s]: simulate only (no actual operation)" (shell_adv_cp_mv.c:31): the source is
\* where it was.
SimulateTouchesNothing == kept # NoFile /\ cmd.sim => Content(cmd.src) = kept
=============================================================================

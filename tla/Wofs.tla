-------------------------------- MODULE Wofs --------------------------------
(***************************************************************************)
(* The write-once file system of src/romfs.c: a chain of files in flash    *)
(* and a table of descriptors in RAM.                                      *)
(*                                                                         *)
(* Flash is two functions on the addresses that were programmed: `head',   *)
(* from the address of a name to the header there (name, deletion mark,    *)
(* size), and `data', from an address to the byte of file data there.      *)
(* What is in neither domain is erased.  One call of writef is one step.   *)
(* Opening a file whose search takes file data for a header (Astray) is    *)
(* not followed.  Erasing (wofs_format) reaches all that was programmed.   *)
(***************************************************************************)
EXTENDS Integers, FiniteSets, Sequences, TLC

CONSTANTS
  Names,     \* file names
  NoName,    \* the name "\1", which no file has
  Bytes,     \* byte values of file data
  Blank,     \* a byte read where no file data was programmed
  NoFile,    \* the content of a file that is not there
  NameLen,   \* length of a name in bytes
  MaxSize,   \* max_size, the size of the device in bytes
  MaxFds,    \* TOTAL_MAX_FDS
  Wrap       \* u32 arithmetic is modulo Wrap

Align == 4      \* ROMFS_ALIGN
SizeLen == 4    \* ROMFS_SIZE_LEN
DelLen == 4     \* WOFS_DEL_FIELD_SIZE
MinNeeded == 11 \* WOFS_MIN_NEEDED_SIZE
Unset == Wrap - 1  \* what an erased size field reads as

ASSUME WofsAssumption ==
  /\ NoName \notin Names /\ Blank \notin Bytes \union Names /\ NoFile \notin Seq(Bytes)
  /\ NameLen \in Nat \ {0} /\ MaxFds \in Nat \ {0}
  /\ MaxSize \in Nat /\ MaxSize % Align = 0 /\ MaxSize >= Align
  /\ Wrap % Align = 0 /\ Wrap > 2 * MaxSize

VARIABLES
  head, data,  \* flash
  fd,          \* the open descriptors
  writing,     \* ROMFS_FS_FLAG_WRITING
  opening      \* <<>>, or the call of open between its two flash writes

wofsVars == <<head, data, fd, writing, opening>>

WofsInit ==
  /\ head = <<>> /\ data = <<>> /\ fd = <<>>
  /\ writing = FALSE /\ opening = <<>>

-----------------------------------------------------------------------------
\* The search through the chain of files.

AlignUp(a) == ((a + Align - 1) \div Align) * Align

BaseOf(a) == AlignUp(a + NameLen + 1) + DelLen + SizeLen

HeaderOf(base) == base - SizeLen - DelLen - AlignUp(NameLen + 1)

\* An unset size leads to the address of the data itself.
NextOf(a) == AlignUp((BaseOf(a) + head[a].size) % Wrap)

\* What a search finds a name at: a size alone may have been programmed (see Close).
Headers == {a \in DOMAIN head : head[a].name # Blank}

Matches(a, n) == head[a].name = n /\ ~head[a].deleted

\* The address at which the search for n ends: its header or the end marker.
Stop(n) ==
  LET walk[a \in Nat] ==
        IF a \in Headers /\ ~Matches(a, n) THEN walk[NextOf(a)] ELSE a
  IN walk[0]

Found(n) == Stop(n) \in Headers

FirstFree == Stop(NoName)

\* The search for n takes file data for a header.
Astray(n) == Stop(n) \in DOMAIN data

ByteAt(a) == IF a \in DOMAIN data THEN data[a] ELSE Blank

\* The content of n for who opens it, once its size is set.
ContentOf(n) ==
  IF Found(n) /\ head[Stop(n)].size # Unset
  THEN [k \in 1 .. head[Stop(n)].size |-> ByteAt(BaseOf(Stop(n)) + k - 1)]
  ELSE NoFile

-----------------------------------------------------------------------------
\* romfs_open_r, for the flags fopen and the shell pass.

Flags == [r  |-> {}, w  |-> {"WRONLY", "CREAT", "TRUNC"}, a |-> {"WRONLY", "CREAT", "APPEND"},
          rp |-> {"RDWR"}, wp |-> {"RDWR", "CREAT", "TRUNC"}, ap |-> {"RDWR", "CREAT", "APPEND"}]

Writable(m) == Flags[m] \intersect {"WRONLY", "RDWR", "APPEND"} # {}

MustCreate(n, m) ==
  \/ "CREAT" \in Flags[m] /\ ~Found(n)
  \/ "TRUNC" \in Flags[m] /\ Flags[m] \intersect {"WRONLY", "RDWR"} # {} /\ Found(n)

\* Slip: a second file opened for writing.
OpenErrorNotExclusive(n, m) ==
  \/ Cardinality(DOMAIN fd) = MaxFds
  \/ Writable(m) /\ ~MustCreate(n, m)
  \/ ~MustCreate(n, m) /\ ~Found(n)

\* ENFILE; EACCES; EROFS, one file open for writing at a time; ENOENT
OpenError(n, m) ==
  \/ Cardinality(DOMAIN fd) = MaxFds
  \/ Writable(m) /\ ~MustCreate(n, m)
  \/ Writable(m) /\ writing
  \/ ~MustCreate(n, m) /\ ~Found(n)

\* ENOSPC
NoSpace == (MaxSize - FirstFree + 1) % Wrap < NameLen + 1 + MinNeeded + DelLen

NewFd == CHOOSE d \in 0 .. MaxFds - 1 :
           d \notin DOMAIN fd /\ \A e \in 0 .. d - 1 : e \in DOMAIN fd

\* The header at a, erased or not.
HeaderAt(a) == IF a \in DOMAIN head THEN head[a] ELSE [name |-> Blank, deleted |-> FALSE, size |-> Unset]

\* Slip: the size of the empty file programmed with its name.
NamedSized(a, n) == [HeaderAt(a) EXCEPT !.name = n, !.size = 0]

Named(a, n) == [HeaderAt(a) EXCEPT !.name = n]

\* A file that is to be truncated is marked deleted first.
OpenInvalidate(n, m) ==
  /\ opening = <<>> /\ ~Astray(n)
  /\ ~OpenError(n, m) /\ MustCreate(n, m) /\ Found(n)
  /\ head' = [head EXCEPT ![Stop(n)].deleted = TRUE]
  /\ opening' = <<n, m>>
  /\ UNCHANGED <<data, fd, writing>>

Continues(n, m) == opening \in {<<>>, <<n, m>>} /\ ~Astray(n)

OpenCreate(n, m) ==
  /\ Continues(n, m)
  /\ ~OpenError(n, m) /\ MustCreate(n, m) /\ ~Found(n) /\ ~NoSpace
  /\ head' = FirstFree :> Named(FirstFree, n) @@ head
  /\ fd' = NewFd :> [base |-> BaseOf(FirstFree), offset |-> 0, size |-> 0, mode |-> m] @@ fd
  /\ writing' = TRUE /\ opening' = <<>>
  /\ UNCHANGED data

OpenExisting(n, m) ==
  /\ Continues(n, m)
  /\ ~OpenError(n, m) /\ ~MustCreate(n, m)
  /\ LET a == Stop(n)
     IN fd' = NewFd :> [base |-> BaseOf(a), offset |-> 0, size |-> head[a].size, mode |-> m] @@ fd
  /\ UNCHANGED <<head, data, writing, opening>>

OpenFails(n, m) ==
  /\ Continues(n, m)
  /\ OpenError(n, m) \/ (MustCreate(n, m) /\ ~Found(n) /\ NoSpace)
  /\ opening' = <<>>
  /\ UNCHANGED <<head, data, fd, writing>>

-----------------------------------------------------------------------------
\* romfs_close_r.  The size goes where the header was, erased since or not; what a size
\* programmed over another one reads as depends on the flash.
Close(d) ==
  /\ IF Writable(fd[d].mode)
     THEN LET a == HeaderOf(fd[d].base)
              old == HeaderAt(a).size
          IN /\ \E s \in {fd[d].size, old} \ {Unset} :
                  head' = a :> [HeaderAt(a) EXCEPT !.size = s] @@ head
             /\ writing' = FALSE
     ELSE UNCHANGED <<head, writing>>
  /\ fd' = [e \in DOMAIN fd \ {d} |-> fd[e]]
  /\ UNCHANGED <<data, opening>>

\* romfs_write_r: what it returns, and what it does.
Offset(d) == IF "APPEND" \in Flags[fd[d].mode] THEN fd[d].size ELSE fd[d].offset

\* Slip: the last bytes of the device are not kept for the end marker.
RoomToTheEnd(d, len) ==
  LET end == fd[d].base + fd[d].size
  IN IF end + len > MaxSize THEN (MaxSize - end) % Wrap ELSE len

Room(d, len) ==
  LET end == fd[d].base + fd[d].size
  IN IF end + len > MaxSize - Align THEN (MaxSize - end - Align) % Wrap ELSE len

Accepted(d, len) == IF Offset(d) # fd[d].size THEN 0 ELSE Room(d, len)

Write(d, bytes) ==
  LET k == Accepted(d, Len(bytes))
      at == fd[d].base + Offset(d)
  IN /\ Writable(fd[d].mode)
     /\ data' = [a \in at .. at + k - 1 |-> bytes[a - at + 1]] @@ data
     /\ fd' = [fd EXCEPT ![d].size = @ + k, ![d].offset = Offset(d) + k]
     /\ UNCHANGED <<head, writing, opening>>

\* romfs_read_r: what it returns, and what it does.
ReadBytes(d, len) ==
  LET left == fd[d].size - fd[d].offset
  IN [k \in 1 .. (IF len < left THEN len ELSE left) |-> ByteAt(fd[d].base + fd[d].offset + k - 1)]

Read(d, len) ==
  /\ fd' = [fd EXCEPT ![d].offset = @ + Len(ReadBytes(d, len))]
  /\ UNCHANGED <<head, data, writing, opening>>

\* romfs_lseek_r
Seek(d, pos) ==
  /\ pos <= fd[d].size
  /\ fd' = [fd EXCEPT ![d].offset = pos]
  /\ UNCHANGED <<head, data, writing, opening>>

\* wofs_format.  Files that are open stay open.
Format ==
  /\ opening = <<>>
  /\ head' = <<>> /\ data' = <<>>
  /\ UNCHANGED <<fd, writing, opening>>

\* A reset of the system: romfs_init on the flash as it is.
Restart ==
  /\ fd' = <<>> /\ writing' = FALSE /\ opening' = <<>>
  /\ UNCHANGED <<head, data>>
=============================================================================

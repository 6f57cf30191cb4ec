------------------------------- MODULE Xmodem -------------------------------
(***************************************************************************)
(* The XMODEM receiver of src/xmodem.c, with the sender at the other end   *)
(* of a serial line that spoils or loses what it carries.  The sender is   *)
(* external: a terminal program that sends 1K and 128 byte blocks with     *)
(* CRC, sends again on NAK, on `C' and when it hears nothing, and ends     *)
(* with EOT.                                                               *)
(*                                                                         *)
(* The line carries units.  A unit is a line code, a block number, its     *)
(* complement, a portion of the payload (128 bytes: one in a short block,  *)
(* LongSize in a long one) or the CRC, which finds every change.  The      *)
(* receiver takes a unit at a time and must know from the number of units  *)
(* it has taken what the next one is.                                      *)
(***************************************************************************)
EXTENDS Integers, Sequences, SequencesExt, Functions

CONSTANTS
  File,        \* the blocks to send, each a sequence of payload units
  LongSize,    \* units in a 1K block; 8 in the source
  NumWrap,     \* block numbers are modulo this; 256 in the source
  RetryLimit,  \* XMODEM_RETRY_LIMIT
  InitialSize, Increment,  \* of the receive buffer, in units
  Faults,      \* what the line does: "noise" spoils a unit within a block,
               \* "drop" loses a unit of a block or spoils its line code,
               \* "reply" loses a reply
  MaxFaults,   \* bound: how often
  MaxSends     \* bound: transmissions after which the sender gives up

SOH == 1
STX == 2
EOT == 4
CAN == 24
Junk == 0

ASSUME XmodemAssumption ==
  /\ \A b \in DOMAIN File : Len(File[b]) \in {1, LongSize}
  /\ LongSize \in Nat \ {0, 1} /\ NumWrap \in Nat \ {0} /\ RetryLimit \in Nat \ {0}
  /\ InitialSize \in Nat /\ Increment >= LongSize
  /\ Faults \subseteq {"noise", "drop", "reply"} /\ MaxFaults \in Nat /\ MaxSends \in Nat

VARIABLES
  pc,        \* where xmodem_receive is
  retries, starting, packnum, packSz,   \* its local variables
  buf,       \* the units of the record being read
  stored,    \* the payload received, *dest
  limit,     \* the size of *dest
  result,    \* what xmodem_receive returned, "none" while it runs
  down,      \* units on their way to the receiver
  up,        \* replies on their way to the sender
  block,     \* the block the sender is at: 0 before the first, Len(File) + 1 at EOT
  active,    \* the sender has not ended or given up
  sends,
  prompt,    \* history: the sender has started, and repeated itself when it
             \* heard nothing, before the receiver had used up half its tries
  faults     \* what the line has done: how often each kind of fault

receiver == <<retries, starting, packnum, packSz, buf, stored, limit>>
sender == <<block, active, sends, prompt>>
vars == <<pc, receiver, result, down, up, sender, faults>>

Init ==
  /\ pc = "head" /\ retries = RetryLimit /\ starting = TRUE
  /\ packnum = 1 % NumWrap /\ packSz = 0 /\ buf = <<>>
  /\ stored = <<>> /\ limit = InitialSize /\ result = "none"
  /\ down = <<>> /\ up = <<>>
  /\ block = 0 /\ active = TRUE /\ sends = 0 /\ prompt = TRUE /\ faults = [f \in Faults |-> 0]

-----------------------------------------------------------------------------
(* The line and the sender (external).                                     *)

Crc(payload) == IF Len(payload) = 1 THEN 1000 + payload[1] ELSE 2000 + payload[1] * 100 + payload[2]

Transmission(b) ==
  IF b > Len(File) THEN <<EOT>>
  ELSE <<IF Len(File[b]) = 1 THEN SOH ELSE STX, b % NumWrap, 255 - (b % NumWrap)>>
         \o File[b] \o <<Crc(File[b])>>

Spoilt(units) == {[units EXCEPT ![k] = Junk] : k \in 2 .. Len(units)}
Shortened(units) ==
  {RemoveAt(units, k) : k \in DOMAIN units} \union {[units EXCEPT ![1] = Junk]}

AllFaults == FoldFunction(+, 0, faults)

Fault(kind) ==
  /\ kind \in Faults /\ AllFaults < MaxFaults
  /\ faults' = [faults EXCEPT ![kind] = @ + 1]

Send(b) ==
  /\ sends' = sends + 1 /\ block' = b
  /\ \/ down' = down \o Transmission(b) /\ UNCHANGED faults
     \/ Fault("noise") /\ \E u \in Spoilt(Transmission(b)) : down' = down \o u
     \/ Fault("drop") /\ \E u \in Shortened(Transmission(b)) : down' = down \o u
  /\ active' = (sends' < MaxSends) /\ UNCHANGED prompt

SenderEnds == active' = FALSE /\ UNCHANGED <<block, sends, prompt, down, faults>>
SenderIgnores == UNCHANGED <<sender, down, faults>>

SenderHears ==
  /\ up # <<>> /\ up' = Tail(up)
  /\ IF ~active THEN SenderIgnores
     ELSE CASE Head(up) = "CAN" -> SenderEnds
            [] Head(up) = "ACK" -> IF block > Len(File) THEN SenderEnds
                                   ELSE IF block = 0 THEN SenderIgnores ELSE Send(block + 1)
            [] Head(up) = "NAK" -> IF block = 0 THEN SenderIgnores ELSE Send(block)
            [] Head(up) = "C" -> IF block = 0 THEN Send(1) \/ SenderIgnores ELSE Send(block)
  /\ UNCHANGED <<pc, receiver, result>>

Silence == down = <<>> /\ up = <<>>

SenderTimeout ==
  /\ active /\ block > 0 /\ Silence /\ pc = "code"
  /\ Send(block)
  /\ UNCHANGED <<pc, receiver, result, up>>

\* The user of the terminal program stops the transfer.
SenderCancels ==
  /\ active /\ active' = FALSE
  /\ down' = Append(down, CAN)
  /\ UNCHANGED <<pc, receiver, result, up, block, sends, prompt, faults>>

-----------------------------------------------------------------------------
(* The receiver.                                                           *)

\* xmodem_out_func, over a line that may lose the reply.
Reply(code) ==
  \/ up' = Append(up, code) /\ UNCHANGED faults
  \/ Fault("reply") /\ UNCHANGED up

NoReply == UNCHANGED <<up, faults>>

\* Slip: a try is not counted.
TryUncounted == retries

Try == retries - 1

LoopHead ==
  /\ pc = "head"
  /\ IF retries = 0
     THEN pc' = "exceeded" /\ NoReply /\ UNCHANGED retries
     ELSE /\ pc' = "code" /\ retries' = Try
          /\ IF starting THEN Reply("C") ELSE NoReply
  /\ UNCHANGED <<starting, packnum, packSz, buf, stored, limit, result, down, sender>>

\* Nothing came for XMODEM_TIMEOUT: what the sender was told, it has answered.
CodeTimeout ==
  /\ pc = "code" /\ Silence
  /\ pc' = "head"
  /\ prompt' = (prompt /\ (active => 2 * retries >= RetryLimit))
  /\ UNCHANGED <<receiver, result, down, up, block, active, sends, faults>>

PackSize(code) == IF code = SOH THEN 1 ELSE LongSize

CodeRead ==
  /\ pc = "code" /\ down # <<>> /\ down' = Tail(down)
  /\ LET code == Head(down) IN
       \/ /\ code \in {SOH, STX}
          /\ starting' = FALSE /\ packSz' = PackSize(code) /\ pc' = "record"
          /\ NoReply
       \/ /\ code \in {EOT, CAN}
          /\ Reply("ACK") /\ pc' = (IF code = EOT THEN "ended" ELSE "cancelled")
          /\ UNCHANGED <<starting, packSz>>
       \/ /\ code \notin {SOH, STX, EOT, CAN}
          /\ pc' = "head" /\ NoReply /\ UNCHANGED <<starting, packSz>>
  /\ UNCHANGED <<retries, packnum, buf, stored, limit, result, sender>>

\* xmodem_get_record: number, complement, payload, CRC.
Whole == Len(buf) = packSz + 3

RecordRead ==
  /\ pc = "record" /\ ~Whole
  /\ down # <<>> /\ down' = Tail(down)
  /\ buf' = Append(buf, Head(down))
  /\ UNCHANGED <<pc, retries, starting, packnum, packSz, stored, limit, result, up, sender, faults>>

Payload == SubSeq(buf, 3, packSz + 2)

\* Slip: the block number not compared.
NumberAny == buf[2] = 255 - buf[1]

NumberRight == buf[1] = packnum /\ buf[2] = 255 - packnum

\* Slip: an error acknowledged.
ErrorAcknowledged == "ACK"

ErrorReply == "NAK"

Refuse ==
  /\ Reply(ErrorReply) /\ pc' = "head" /\ buf' = <<>>
  /\ UNCHANGED <<retries, starting, packnum, packSz, stored, limit, result, down, sender>>

RecordTimeout == pc = "record" /\ ~Whole /\ Silence /\ Refuse

RecordBad ==
  /\ pc = "record" /\ Whole
  /\ ~NumberRight \/ buf[packSz + 3] # Crc(Payload)
  /\ Refuse

RecordGood ==
  /\ pc = "record" /\ Whole
  /\ NumberRight /\ buf[packSz + 3] = Crc(Payload)
  /\ pc' = "flush"
  /\ UNCHANGED <<receiver, result, down, up, sender, faults>>

\* xmodem_flush: take units until none comes.
Flushing == {"flush", "ended", "cancelled", "exceeded", "outofmem"}

FlushUnit ==
  /\ pc \in Flushing
  /\ down # <<>> /\ down' = Tail(down)
  /\ UNCHANGED <<pc, receiver, result, up, sender, faults>>

Full == Len(stored) + packSz > limit

\* Slip: the number advanced only for short blocks.
NextNumberShort == IF packSz = 1 THEN (packnum + 1) % NumWrap ELSE packnum

NextNumber == (packnum + 1) % NumWrap

Accept ==
  /\ pc = "flush" /\ down = <<>>
  /\ retries' = RetryLimit /\ packnum' = NextNumber
  /\ limit' = IF Full THEN limit + Increment ELSE limit
  /\ stored' = stored \o Payload
  /\ buf' = <<>>
  /\ Reply("ACK") /\ pc' = "head"
  /\ UNCHANGED <<starting, packSz, result, down, sender>>

\* realloc fails; what came in meanwhile is flushed once more.
NoMemory ==
  /\ pc = "flush" /\ down = <<>> /\ Full
  /\ retries' = RetryLimit /\ packnum' = NextNumber /\ limit' = limit + Increment
  /\ pc' = "outofmem"
  /\ UNCHANGED <<starting, packSz, buf, stored, result, down, up, sender, faults>>

Returns(value) ==
  /\ pc' = "returned" /\ result' = value
  /\ UNCHANGED <<receiver, down, sender>>

ReturnSize == pc = "ended" /\ down = <<>> /\ Returns("size") /\ NoReply
ReturnCancelled == pc = "cancelled" /\ down = <<>> /\ Returns("remotecancel") /\ NoReply
ReturnError ==
  /\ pc \in {"exceeded", "outofmem"} /\ down = <<>>
  /\ Returns(IF pc = "exceeded" THEN "retryexceed" ELSE "outofmem")
  /\ up' = up \o <<"CAN", "CAN", "CAN">> /\ UNCHANGED faults

Receiver ==
  \/ LoopHead \/ CodeRead \/ CodeTimeout
  \/ RecordRead \/ RecordTimeout \/ RecordBad \/ RecordGood
  \/ FlushUnit \/ Accept \/ NoMemory
  \/ ReturnSize \/ ReturnCancelled \/ ReturnError

Next == SenderHears \/ SenderTimeout \/ SenderCancels \/ Receiver

Spec == Init /\ [][Next]_vars

(***************************************************************************)
(* Both ends go on; a try of the receiver ends by a unit or by a timeout.  *)
(***************************************************************************)
LiveSpec == Spec /\ WF_vars(Receiver) /\ WF_vars(SenderHears)

-----------------------------------------------------------------------------
Blocks(k) == FlattenSeq(SubSeq(File, 1, k))
StoredBlocks == CHOOSE k \in 0 .. Len(File) : Blocks(k) = stored

TypeOK ==
  /\ pc \in {"head", "code", "record", "returned"} \union Flushing
  /\ retries \in 0 .. RetryLimit /\ starting \in BOOLEAN
  /\ packnum \in 0 .. NumWrap - 1 /\ packSz \in {0, 1, LongSize}
  /\ Len(buf) <= LongSize + 3
  /\ result \in {"none", "size", "remotecancel", "retryexceed", "outofmem"}
  /\ block \in 0 .. Len(File) + 1 /\ active \in BOOLEAN /\ prompt \in BOOLEAN
  /\ sends \in 0 .. MaxSends /\ faults \in [Faults -> 0 .. MaxFaults]

Never(kind) == kind \in Faults => faults[kind] = 0

\* Whatever the line does, what is stored is the beginning of the file: no
\* block is stored twice, spoilt or out of its turn; and memcpy (xmodem.c:203)
\* stays within *dest.
StoresPrefix ==
  /\ TypeOK
  /\ \E k \in 0 .. Len(File) : stored = Blocks(k)
  /\ Len(stored) <= limit

\* An ACK means that the block is stored: the sender goes on to a block only
\* when the receiver has all the ones before, if the line keeps the bytes of a
\* block together.
SenderNotAhead == Never("drop") => block <= StoredBlocks + 1

\* A size is returned for the whole file only ("Returns the number of bytes
\* received or an error code", xmodem.c:135): so it is on a line that keeps the
\* bytes of a block together, and so it should be on any.
SizeOfWhole == result = "size" => stored = Blocks(Len(File))
SizeUnlessDropped == Never("drop") => SizeOfWhole

\* "allow for retransmission" (xmodem.c:184): one spoilt block does not end the
\* transfer of a prompt sender, and one fault of any kind should not.
Retransmits == prompt /\ AllFaults <= 1 /\ result = "retryexceed" => ~active
NoiseSurvived == Never("drop") /\ Never("reply") => Retransmits

\* xmodem_receive returns, whatever the sender does.
Ends == <>(result # "none")
=============================================================================

# A TLA+ verification of eLua for the Mizar32

eLua runs Lua 5.1 on a microcontroller without an operating system. This
repository is its port to the Mizar32 board (AVR32 UC3A). There is one thread
of control, the *main program* (start-up code, shell, Lua VM), and the
*interrupt handlers*. No handler is preempted by another (all are registered
at level `AVR32_INTC_INT0`), but any of them may run between two machine
instructions of the main program, except where that has global interrupts
disabled. What is shared between the two — ring buffers, counters, flag bytes,
the state of the A/D converter — is where this code is hard to get right and
hard to test, and that is what the modules here are mostly about. The other
subject is the protocols spoken over unreliable lines.

Paths below are relative to `src/elua_mizar32a_debug_sample/src/` unless they
begin with `inc/`. `PROJECT.json` lists, for every definition that models code,
the lines it models.

## 1. Inventory

| Component | State | Operations | Interacts with | What makes it correct |
|---|---|---|---|---|
| Lua interrupt queue (`elua_int.c`, `modules/cpu.c`) | a ring of (id, resnum), read and write index, enabled types, the Lua handler table | `elua_int_add` from handlers; `elua_int_hook` from the VM; `cpu.set_int_handler` | hardware handlers and the virtual timer tick put in; the VM's count hook takes out and calls Lua | an interrupt accepted is delivered once, in order, and never left without a hook |
| Lua hooks and threads (`lua/lstate.c`, `ldo.c`, `ldebug.c`, eLua's patches) | the hook of each Lua thread | newthread, resume, yield, error, `lua_close` | the interrupt queue sets and clears the hook of the main thread only | no hook without an interrupt; nothing left over after `lua_close` |
| Virtual timers (`common_tmr.c` 24–165) | counters, limits, three arrays of flag bytes, `vtmr_reset_idx` | tick; start, delay, read, set match interrupt, get flag | tick handler against main program; puts into the interrupt queue | delays short by less than a tick period, match interrupts not early, waits end |
| System timer (`common_tmr.c` 425–470, `platform.c`) | hardware counter, `cmn_systimer_counter` | wrap interrupt; `cmn_systimer_get`; `platform_timer_delay` | read with interrupts enabled | a reading is the time; delays are never short |
| Ring buffers (`buf.c`) | size, memory, two indices, count | `buf_set`, `buf_flush`, `buf_write`, `buf_read` | written by UART and ADC handlers, read by the main program | a bounded FIFO, indices inside the block |
| A/D converter (`elua_adc.c`, `platform.c` 780–911, `modules/adc.c`) | per channel: four one-bit flags in a byte, request count, smoothing ring, buffer; `ch_active`; sequence | end-of-conversion handler; sample, getsample(s), setblocking, setsmoothing, setclock | over the ring buffers | exactly the number of samples asked for, in order, inside the memory; waits end |
| XMODEM receiver (`xmodem.c`) | block number, retries, received size and its allocation | `xmodem_receive` | a sender over a serial line | what is stored is the file; errors are recovered from or reported |
| UART sharing (`common_uart.c`) | buffers, multiplexer service ids, last id sent and received | receive handler, send, receive with timeout, flow control | ring buffers, interrupt queue | a byte reaches the service it was sent for |
| TCP/IP sockets (`elua_uip.c`) | per connection: a request state; table of pending accepts | application callback in the interrupt; socket, send, recv, accept, connect, close | uIP (vendored), Ethernet interrupt | every call ends with its own result; an accepted socket is the one that connected |
| Line editor (`linenoise.c`) | per-id history arrays and lengths | edit, add, save | Lua and shell prompts | history length agrees with its entries |
| ROM/WO file systems (`romfs.c`) | a chain of file records in flash, descriptors | open, write, close, unlink, format | device manager | a file survives as written or not at all; the chain stays walkable |
| Simple allocator (`salloc.c`) | doubly linked blocks, in-use bit in the size | malloc, free, realloc | Lua | blocks tile the heap; no two live blocks overlap |
| Remote file system and RPC (`remotefs/`, `eluarpc.c`, `modules/luarpc.c`) | one request buffer | request/response over a UART | server on a PC | a response belongs to its request |
| USB CDC console (`platform/avr32/usb-cdc.c`) | endpoint banks, line state | send, flush from the tick, control requests | tick interrupt against main program | no byte lost or sent twice |
| MMC (`elua_mmc.c`, `mmcfs.c`) | card state, descriptor table over FatFs | commands over SPI; open, close, ... | device manager | descriptors are owned by one file |
| Device manager (`newlib/devman.c`, `common_fs.c`) | table of devices | register, open by prefix | every file system | a descriptor reaches its device |
| Shell (`shell/`, `main.c`) | the descriptors and buffer of a command | cp, mv, rm, ls, wofmt, recv, ... | file systems, XMODEM; is called by Lua programs (`elua.shell`) too | a command reports what it did, keeps what it was told to copy, and leaves nothing open |
| AVR32 drivers (`platform/avr32/`) | registers | — | everything | meaning is in the hardware manual |
| Pure Lua modules (`modules/bit.c`, ...) | none | — | Lua | — |
| Third-party (`lua/`, `dlmalloc.c`, `fatfs/`, `niffs/`, `uip/`, `gnu-ed`, `rxspencer`) | — | — | — | not eLua's own logic |

Built for the Mizar32 by default: interrupt queue (32 entries), virtual timers
(4 at 10 Hz), system timer, ADC with buffers, XMODEM, line editor, MMC file
system, shell, USB CDC console. Not built by default: UART buffers and the
serial multiplexer, TCP/IP, ROM/WO file systems, remote file system, RPC, the
simple allocator. Components that are built come first.

Hard behaviours, by kind: *interleaving* of a handler with multi-step updates
of shared data (queue, buffers, ADC, timers); *read-modify-write* of bytes that
hold bits of several owners (timer flags, ADC channel flags, `ch_active`);
*allocation failing half-way* through a configuration (ADC, smoothing, line
editor, XMODEM); *lost replies and spoilt data* (XMODEM, RFS); *wrapping
counters* (system timer, block numbers, ring indices); *an error thrown through
C code* (`longjmp` out of `elua_int_hook`); *waits that depend on the other
side* (ADC blocking, timers, sockets); *resets between two writes to flash*
(WOFS, moves between devices). `PROJECT.json`, `hazards`, lists each of
them at its line, with the properties that would catch it.

## 2. Modules

A handler is one step everywhere, since handlers do not nest. A call of the
main program is divided into steps between any two of which a handler may run.
Where a call is more than a few steps the module keeps a variable `todo`, the
list of steps the call in progress still has to take; a one-step read or write
of shared memory is one step, and a read-modify-write is two.

### IntQueue, IntFifo, IntQueueProofs

`IntQueue` models `elua_int.c` with its clients in the VM.

| TLA+ | code |
|---|---|
| `queue`, `readIdx`, `writeIdx`, `flags` | `elua_int_queue`, `elua_int_read_idx`, `elua_int_write_idx`, `elua_int_flags` |
| `handlers` | types with an entry in the registry's handler table |
| `hook[t]`, `at[t]`, `stack`, `live` | the count hook of a thread, where it is in `elua_int_hook`, the chain of `lua_resume`, coroutines alive |
| `EluaIntAdd` | `elua_int_add` (in a handler) |
| `HookTake`, `HookMark`, `HookAdvance`, `HandlerReturn`, `HandlerError`, `HookTail` | lines 32–56 of `elua_int_hook`, one step per access of shared memory |
| `CpuSetIntHandler`, `NewThread`, `Resume`, `YieldOrEnd`, `LuaClose`, `LuaOpen` | `cpu.set_int_handler`, `luaE_newthread`, `lua_resume`, `lua_yield` or the end of a coroutine, `lua_close`, `lua_open` |

`raised` numbers the requests, so that a resnum identifies one; `delivered` is
a history of those passed to Lua. `disturbed` is a history too: it becomes true
when an error leaves `elua_int_hook` (`HandlerError`) or a coroutine is created
while its creator has the hook (`NewThread`), the two ways in which a program
can bring the queue and the hook apart, and false again at `LuaClose`. What the
queue promises of its order and its hook is promised while `disturbed` is
false; `DeliveredOnce`, `ClosedIsClean` and `TypeOK` hold regardless.

`IntFifo` is that promise: a bounded FIFO per enabled type from which a request
is taken atomically, void while its variable `kept` is false, restored by
`Stop`. `IntQueue` is shown to implement it (`ImplementsFifo`) with `Pending`
as the refinement mapping of the ring and `~disturbed` as that of `kept`.

### VTimer, VTimerProofs

The tick `VirtualTimerCb` is `cmn_virtual_timer_cb`. The calls (`TimerStart`,
`TimerDelay`, `SetMatchInt`, `GetFlagClear`, `SetStatus`) put their steps into
`todo`. The three flag arrays are sets of timers, all of one byte; a call loads
a byte into `byte` and stores it in another step. The program passes
microseconds. `DelayTicks` and `PeriodTicks` convert them as the code does: both
truncate, and the latter in the width of `timer_data_type`, before its checks
(`RefusedPeriod`). A delay of more than `VTMR_MAX_PERIOD` microseconds is over at
once. `age` and `waited` are histories of ticks passed.

### SysTimer, SysTimerProofs

Time is an action (`Tick`) that advances the true time and the hardware
counter; its wrap makes an interrupt pending. `Again` is the loop of
`cmn_systimer_get` that reads the interrupt's counter a second time, `Add`,
`Overflow` and `Unmask` its treatment of `PLATFORM_TIMER_SYS_MAX`. `Measured`
is the arithmetic of `platform_timer_delay`. The interrupt is taken at most
`Latency` steps of the main program after the wrap, unless it is masked. The
program may disable and enable global interrupts whenever it is outside these
functions (`SetGlobalInterrupts`); `lost` records that the counter has wrapped
twice meanwhile, after which the clock is a period behind for good. What is
said of exact readings and delays is said for interrupts enabled and nothing
lost; that the clock is never ahead is said for every program.

### BufOps, BufFifo, RingBuf, RingBufProofs

`BufOps` are the functions of `buf.c` as operators on a descriptor, used by
`RingBuf` and `Adc`. `RingBuf` has the buffers of one kind of resource between
a handler (`Write`, one step) and the main program (`BufRead` and `BufSet`, in
steps); its client is `UartMux`, which extends it. `BufFifo` is the promise: a
queue that gives back what was put in, in order, and accepts one element more
than its size over the oldest one (`PutFull`, buf.c:135); each buffer implements it
(`ImplementsBuffer`) through the mapping `Unread`. `buf_flush` is in `Adc`.

### UartMux, MCUartMux

Both ends of the line of the serial multiplexer run the protocol of
`common_uart.c`: the device, whose `platform_uart_send` is a list of steps
(`sending`) between which the receive interrupt `DevReceive` may come, and the
program on the PC (`peer`), which is external and takes a call as one step.

| TLA+ | code |
|---|---|
| `in`, `out`, `last`, `esc` of `dev` | `uart_service_id_in`, `uart_service_id_out`, `uart_last_sent`, `uart_got_esc` |
| `Handle` | `cmn_rx_handler`: what it leaves of these, sends and passes on |
| `SendSteps` | `platform_uart_send` on a virtual UART |
| `Buffers` | `platform_uart_set_buffer`, and `buf_read` below `platform_uart_recv` |

A byte on the line carries the number of its character, so that loss,
duplication and misdelivery show. `upset` is a history: the two situations the
protocol does not handle (a request for the service id during a send, and one
that finds nothing to repeat) or a restart in the middle of a send.

### Adc, AdcProofs

`ch[c]` is `adc_ch_state[c]` with its buffer; `dev` is `adc_dev_state` and what
the converter itself knows (`on`, `busy`). `AdcIntHandler` is `adc_int_handler`
for any set of channels whose conversion has ended. The Lua calls put their
steps into `todo`. A conversion yields its own number, so that order, loss and
duplication show in the values; smoothing keeps its ring but not the average.
`Liberties` names what a program may do that a cautious one does not: ask again
before it has its samples, take samples out while more come, reconfigure
meanwhile, use a channel while another one is sampled. Two histories record
where taking samples out early has consequences: `early`, the channels samples
were taken from while more were awaited, and `overtook`, those of which
`adc_get_processed_sample` took a fresh sample before older ones in the buffer
(line 259). A `realloc` that fails ends the call but for one sample, which needs
no buffer.

### Xmodem, MCXmodem

The receiver is `xmodem_receive` and `xmodem_get_record`, a step per unit taken
from the line. A unit is a line code, a block number, its complement, 128 bytes
of payload or a CRC. The sender and the line are external: the line spoils or
loses units, or loses replies, up to `MaxFaults` times; the sender repeats on
NAK, on `C` and on silence, may be cancelled by its user (`SenderCancels`), and
gives up after `MaxSends` transmissions. `prompt` is a history: the sender has
not left the receiver waiting for half its tries. Only of such a sender can it
be asked that a fault does not end the transfer. `faults` counts each kind of
fault, and a property names the kinds it does not cover (`Never`).

### UipApp, UipProofs, UipSafetyProofs

The calls of `elua_uip.c` against its callback, over the TCP states of `uip.c`
(which is third-party code, but decides when the callback runs and what becomes
of it). A call of the main program is `Begin` (its checks), `Prep`
(`elua_prep_socket_state`), `ForceInterrupt` or `Dial`, and `Return`, with
`RecvTimeout`; `elua_accept` is `Accept`, `AcceptLook` (one entry of the table a
step), `AcceptFree`, `AcceptTake`. `Start` and `Poll` are the beginning and the
end of `elua_uip_mainloop`, and between them the packets: `Syn`, `Connected`,
`Segment`, `Fin`, `Closing`, `Reset`. `AppCall` is `elua_uip_appcall` as a
function from connection to connection, `Connected` its branch for
`uip_connected()`.

| TLA+ | code |
|---|---|
| `conn[c].tcp`, `stopped`, `out`, `mss` | `tcpstateflags`, its bit `UIP_STOPPED`, `len` (bytes in flight), `mss` of `uip_conns[c]` |
| `conn[c].state`, `res`, `left`, `line` | `state`, `res`, `len`, `readto` of its `appstate` |
| `slot` | `elua_uip_accept_pending` |
| `call.sock` in `elua_accept` | the socket of the entry found, whose remote address was copied |

`conn[c].given` is a history: whether the program has the connection, or an
accept that found it returned another (`missed`). `abandoned`, `acked` and
`moved` are histories too. Segments arrive in order, since uIP refuses others
before the callback; sequence numbers, round-trip times and urgent data are left
out; every window up to the maximum segment size may be told at any time.
Fields that uIP or eLua reads no more return to their initial value. One run of
the main loop ends before the next begins, as the comment at `elua_uip.c` 47
has it; `platform_eth_force_interrupt` runs it with interrupts enabled, which
the model does not follow.

### FileSet, Wofs, ShellFiles, MCShellFiles

`Wofs` is `romfs.c` in its write-once form. Flash is `head`, the file headers by
the address of their name, and `data`, the bytes of file data by address; what
is in neither is erased. The search through the chain (`Stop`) follows sizes as
`romfs_open_file` does, an unset size included, and may end in file data
(`Astray`); opening files is then not followed. One call of `writef` is one step, so `romfs_open_r` with `O_TRUNC` is
two (`OpenInvalidate`, `OpenCreate`), with `opening` between them; the size of a
file is written by `Close`, which after a format puts it into erased flash
(`HeaderAt`). `Format` erases whatever is open. `Restart` is a reset: flash stays, RAM goes.

`FileSet` is the promise of a write-once file system: a file appears whole,
keeps its contents, and disappears whole. `Wofs` under any client implements it
(`ImplementsFileSet`) through `ContentOf`, the content of a file whose size is
set.

`ShellFiles` is the client: a Lua program with files open (`ProgramOpen`,
`ProgramCall`), which has called the shell, and the shell's `cp` and `mv` as
steps (`pc`) between WOFS and a memory card. The steps are the system calls of
`shellh_cp_file` and `shellh_cp_or_mv_file`; what a call does is that of the
device its path names, as `newlib/stubs.c` has it: `rename` between devices is
`EXDEV`, on WOFS `EPERM`, `unlink` on WOFS `ENOSYS`. The card is `mmcfs.c` over
FatFs, which is external: any call on it may fail with a disk error, and a reset
leaves any part of a file that was being written. `kept` is a history: what the
source held when the command began. So are `cut` (a reset came while a file with
data was being written) and `pulled` (WOFS was formatted while a file was open for
writing), each until the next format.

### Rfs, RfsProofs

The client of the remote file system: `Begin` is a call of the program with the
first request it leads to, `Flush`, `Send`, `Header`, `Rest` and `Timeout` the
parts of `rfsch_send_request_read_response`, `Continue` the loop over parts of
`RFS_REAL_BUFFER_SIZE` in `rfs_read_r` and `rfs_write_r`. `Flush` empties the input
into the buffer the request is already in: what it finds there spoils the request,
and the call fails. An answer is received in two parts, each whole. The server and the line are external: the
line loses requests and either part of an answer, and an answer may take longer
than the client waits. `crossed` is a history: a request went out while an
abandoned one could still be answered.

### Salloc, LineHistory

`Salloc` has the functions of `salloc.c` as operators on memory, an array of
cells of 8 bytes that are block headers or what a program stored. Headers are in
the memory they describe, so a wrong size or link shows as a program's data read
as a header or a header overwritten. `LineHistory` is `linenoise.c` with a Lua
program beside it, both allocating from that memory: each prompt, key, line and
allocation is a step (there is no concurrency here). `stored` is a history of
what each owner stored; `short` records that an allocation failed inside
`linenoisePrompt`, `wild` that the program used a null pointer, after which
nothing is said. C's rounding, splitting, joining and best fit are as in the code.

## 3. Runs

| run | instance | shows |
|---|---|---|
| `intq` | ring of 3, one type, 4 requests, a coroutine, handlers that may fail, Lua state closed and reopened; 359 000 states | `DeliveredOnce` and `ClosedIsClean` for any program; `Undisturbed` and the refinement of `IntFifo` until the program disturbs the queue; `AllDrained`: every slot is emptied again and again |
| `vtimer` | two timers sharing their flag bytes, counts to 2, 2 ticks in 3 units of time, arguments up to 10 of these; 756 000 states | delays short by less than a tick period, match interrupts not early, `vtmr_reset_timer` and `vtmr_delay` return |
| `adc` | one channel, counts 1, 2 and 4, smoothing of 2, two requests, samples taken out while more are awaited (`Liberties = {"read"}`); 171 000 states | the handler writes inside its memory; number and order of samples; a wait for samples ends |
| `systimer` | period 3, clock maximum 7, up to true time 14: counter wraps and one clock overflow; delays of 1 and 4; interrupts disabled and enabled; 338 000 states | a reading is the true time within the call; never ahead; delays not short but for 1 µs at the overflow |
| `xmodem` | blocks of both sizes, numbers modulo 3, 3 faults of all kinds; 179 000 states | stored data is a prefix of the file and fits its memory; ACK means stored; a size means the whole file; spoilt blocks are recovered; the receiver returns |
| `uip` | one connection, segments of up to 2 bytes, requests of up to 3; 18 000 states | data is let in only for a call that waits; `send` honest; no call ends another's wait; `send`, `close`, `connect` return |
| `uip_pending` | two connections, two ports, no data; 1 091 000 states | a connection from outside is pending until it is handed out |
| `uartmux` | two services, two characters of both kinds (one that needs escaping), buffers of 1 and 2, overfilled too, one restart of either end; 653 000 states | characters reach their service in order, unaltered, exactly once without a restart; each buffer is a queue of its size that takes one element too many in the place of the oldest; indices coherent |
| `files` | two names, a device of 40 bytes, two calls of open, one command, one format, one reset; card with room for 4 bytes; 776 000 states | the chain ends in erased flash; nothing is programmed twice; files appear and disappear whole; cp and mv lose nothing, report honestly, leave nothing open |
| `rfs` | two handles, two files of 3 bytes, requests of 1 and 3 bytes in parts of 2, 3 calls, 2 losses; 192 000 states | results are those of the server until a request overtakes an abandoned one; descriptors are genuine always; calls return |
| `heap` | 13 cells of memory, a history of two lines, one block of the program; 93 000 states | blocks tile the memory, none adjoining free ones, contents kept; nothing leaks or is freed twice; a history loses its oldest line only |

The violation run is a place where the code does not do what its help says
(`findings` in `PROJECT.json` quotes it):

| run | what happens |
|---|---|
| `files_simulate` | `mv -s`, documented to simulate only, renames the file, or removes a source that was not copied |

Further behaviour of the code that the models show when a constant or property
is changed, and that no configuration here keeps:

* `IntQueue` with `NoneStranded` in place of `Undisturbed` (a ring of 2, `Spec`):
  a Lua handler raises an error, `elua_int_hook` is left by `longjmp` without its
  tail, the next call takes an empty slot, the read index passes the write index
  and an interrupt is stranded. Likewise `TakesAnInterrupt`, also by a coroutine
  created while the hook is set, which keeps it.
* `UartMux` with `PutFull` left out of `BufFifo`: `buf_write` compares with `>` and
  stores one element too many, over the oldest unread one, and it is read twice
  (`ImplementsBuffer`). The runs and the theorems state that much and no more.
* `UartMux` without `upset` in `Demultiplexed`: a request for the service id that
  comes in the middle of a send repeats a character under the wrong id, or twice;
  one that comes when nothing was sent is taken for data and answered with
  another request, or stored; a restart after an escape leaves the other end with
  the escape pending. An id of −1 goes out as `0xFF`.
* `SysTimer` with `DelayExact`: a delay across the clock's overflow is 1 µs
  short, since the reading takes off `PLATFORM_TIMER_SYS_MAX` and the delay puts
  back one more. Without `gie` in it: with interrupts disabled a delay takes a
  wrap of the hardware counter for an overflow of the clock and returns. With
  `Horizon` beyond `2 * SysMax`: a clock never read in between is above its
  maximum after the one subtraction.
* `Adc` with two channels and `Liberties = {"overlap"}`: setting a bit of
  `ch_active` undoes the handler's clearing of another, and a channel goes on
  sampling (`HoldsRequested`). With `{"configure"}`: setting one
  bit-field brings back an `op_pending` the handler had cleared, and a blocking
  wait never ends (`WaitEnds`). With `{"resample"}`: a buffer is resized while the
  handler writes it (`WithinBlock`).
* `Adc` with `OldestFirst` for all channels, `overtook` or not: a sample read
  while more arrive lowers the request to one, so that the next one is kept as
  the fresh one and taken before those in the buffer. With `HoldsRequested` for
  all channels, `early` or not: one sample too many is stored when the handler
  comes between the count of the buffer and the request going down. The two
  properties except just these cases and speak of all other early readings.
* `Adc` with two channels: `adc.sample` of a table whose second channel finds no
  memory leaves the first one pending without starting the converter; a blocking
  wait on it never ends (`WaitEnds`, `modules/adc.c` 120).
* `Xmodem` with `Retransmits` in place of `NoiseSurvived`, `Faults = {"reply"}` and
  `NumWrap = 256`: after a lost ACK the sender repeats a block, which is refused
  with NAK for ever instead of acknowledged. With `SizeOfWhole` in place of
  `SizeUnlessDropped`: a lost start code lets a byte of the block be read as EOT.
* `UipApp` with `AcceptsWhatItFound`: `elua_accept` frees the entry it found
  before it reads the socket from it; when the interrupt fills the entry in
  between, one connection is handed out twice and the other never
  (`NoneForgotten` excepts the latter).
* `UipApp` without `moved` in `SendHonest`: the window grows between the sending
  of a segment and its acknowledgement, more is taken off than was sent, and the
  rest is never sent though reported.
* `UipApp` without `late` in `Returns`: a connection that ends between the check
  and the request never answers it, and the call never returns. The same befalls
  a `recv` without a timeout when the first event after it is the end of the
  connection, which the callback takes for the sign to open it.
* `UipApp` without `abandoned` in `FlowControlled`: a `recv` that timed out
  leaves the connection open, and data is acknowledged and dropped. So is data
  that comes with the end of the handshake or with a FIN, after the end of a line
  that was asked for, or in excess of what was asked.
* `VTimer` with `~Doing("awaitCount")` alone on the right of `DelayReturns`:
  `vtmr_delay` never returns on a timer that its cyclic match interrupt resets
  before the count is reached.
* `VTimer`, in `TimerDelay` and `PeriodTicks`: `vtmr_delay` compares its argument, in
  microseconds, with `VTMR_MAX_PERIOD`, a number of ticks (`common_tmr.c` 95): a
  longer delay is over at once, though `tmr.getmaxdelay` reports
  `VTMR_MAX_PERIOD` ticks' worth of microseconds. A period is multiplied in
  `timer_data_type` before it is divided (122): where that has 32 bits, a long
  period becomes a short one instead of `PLATFORM_TIMER_INT_TOO_LONG`.
* `VTimer`: a store of `vtmr_int_enabled` by the main program may undo what the
  tick did to another timer of the byte in between, so that a one-shot match
  interrupt comes twice.
* `ShellFiles` without `cut` or the writer in `ChainEndsErased`: while a file is
  written, and for good after a reset in the middle of it, its unset size leads
  the search (`romfs.c` 108) into its own data. The actions of `Wofs` stop there
  (`Astray`): what the search makes of data is not modelled.
* `ShellFiles` without `pulled`: `wofs_format` does not look at open files
  (`romfs.c` 524). Closing one that was open for writing programs its size into
  erased flash, the next file is created over it (`WriteOnce`), may read back with
  the wrong size (`ImplementsFileSet`) and a copy onto it is reported as done
  (`CommandEndsWell`), with `mv` also the source gone (`SourceKept`).
* `ShellFiles`: `O_TRUNC` deletes the old file before `ENOSPC` refuses the new
  one (`romfs.c` 203); a file still open for writing, opened for reading, has the
  size `0xFFFFFFFF`; `mmcfs_close_r` does not look at the result of `f_close`
  (`lostClose`); `rename` and `unlink` on the card return the positive error of
  FatFs, which the shell takes for success and reports "Moved" (`told`).
* `Rfs` without `crossed` in `CallsHonest`: the answer to an abandoned request is
  taken for that to the next one of its kind: stale data, the wrong descriptor of
  two, or a write reported that was lost. A lost answer also makes `rfs_read_r`
  return 0, which its callers read as the end of the file. An answer that comes
  between two calls makes the second fail without being sent: `client.c` 41 reads
  it into the first byte of the request.
* `LineHistory` without `short` in `HistoryKept`: when the empty entry cannot be
  allocated, the end of the line takes a real line off the history; with an empty
  history it frees what is before its array (`wild`), and when `strdup` fails on
  leaving an entry, showing it reads from a null pointer. Each prompt on a full
  history forgets its oldest line even when nothing is entered.

### Bounds

* Ring of interrupts: 3 slots are enough for it to be empty, part full, full and
  to wrap with any alignment, and there is a request more than slots. Nothing in
  `elua_int.c` compares more than two slots; one type is enough since types are
  told apart only by being enabled. The theorems below have no such bound.
* Virtual timers: two timers share a byte, which is what makes a lost update
  possible; counts to 2 let a match, a reset and a delay fall in any order. The
  arguments include one that is no whole number of ticks, one too short for a tick,
  ones above each limit, and one whose product wraps (`TypeLimit` 16). A
  counter stops at `MaxCount`, above which no limit is used: in 32 bits at 10
  ticks a second it does not wrap within 13 years.
* System timer: the period does not divide the maximum, so that a wrap of the
  counter and an overflow of the clock come apart and together within the
  horizon. `Horizon` is at most `2 * SysMax`, see above. The interrupt comes at
  once or a step late (`Latency`).
* Buffers: sizes are powers of two up to 2; ADC up to 4. Two characters overfill
  only the buffer of one element, which stands in the run for any full one (a
  UART's has at least two); `BufferIsQueue` is for every size.
* Serial multiplexer: two services and two characters of both ends together are
  the least that let a change of service, an escape, a forced retransmission and
  a restart come together. With three characters the model has found nothing
  else, at the cost of hours. The services are interchangeable, and declared so
  (`MCSymmetry`).
* Files: a header takes 12 bytes with a name of two, so 40 bytes hold two files,
  a third header, or run full in the middle of a chunk of 7. Copies go in chunks
  of 4 and the file on the card has exactly 4 bytes, so that the copy ends with
  an empty read; card files end at 4, so that a longer one does not fit. Two names: the
  source and the destination, or a file of the program.
* Remote files: a request of 3 in parts of 2 needs two packets; two losses lose
  a request and an answer, or two parts of answers; two files and two handles
  let an answer go astray between them.
* Heap: 13 cells hold the history's array and two lines with one cell left, so
  that every kind of allocation succeeds and fails; blocks of the program are of
  1 and of 3 cells, a long line of 2.
* ADC: up to 4 samples per request and smoothing over 2. Two requests let the
  second one resize, or find, the buffer of the first; 24 conversions are more
  than two requests and two fillings of the smoothing ring take. Two channels
  are the least that can disturb each other; what they do then is above, and the
  theorems are for any number of them.
* Sockets: segments of 2 and requests of 3 bytes give requests of one and of
  several segments, short and full ones, and ones longer than was asked. Data
  flows on one connection only (`Talking`): connections meet in the pending
  table, in `elua_net_connecting` and in the call in progress, and none of these
  looks at data; `uip_pending` has two connections and as many entries, enough
  for an entry to be refilled, outlive its connection, and be missing.
* XMODEM: a long block has two units instead of eight and numbers wrap at 3
  instead of 256, so that wrapping and growth of the buffer happen within the
  file. The retry limit is 4 instead of 20, one more than the faults, so that
  retries are used up by a silent sender and not by every run of faults. The CRC
  finds every change.

### Fairness

* `IntQueue`: weak fairness of the hook and of a handler's return: the VM goes
  on executing instructions, and the program's handlers terminate. None is
  assumed of the interrupts.
* `VTimer`: weak fairness of the tick, a hardware timer that is never stopped,
  and of the processor executing the call in progress; strong fairness of
  `AwaitCount`: the loop of `vtmr_delay` reads the counter many times a tick, so
  a count that stands for a whole tick again and again is not missed for ever,
  though a later tick may take it away each time.
* `Adc`: of a conversion that was started (the converter always ends it) and of
  the processor.
* `UipApp`: weak fairness of the interrupt, which the tick raises, and of the end
  of the main loop; strong fairness of the main program, which goes on between
  interrupts though any of its steps may be put off by one; and strong fairness,
  for every connection, of an answer to what is in flight or the end of it: uIP
  gives up after `UIP_MAXRTX` retransmissions, whatever else is received.
* `Xmodem`: of the receiver (every read has a timeout) and of replies reaching
  the sender; not of the sender sending.
* `Rfs`: weak fairness of the client, every read of which has a timeout; none of
  the server or the line.
* `UartMux`, `ShellFiles` and `LineHistory` state no liveness: a lost byte is
  waited for without a timeout by design, and the others are sequential.

## 4. Proofs

`IntQueueProofs` proves, for every `QueueSize`, `IntIds`, set of coroutines and
number of interrupts:

* `TypeCorrect`: `Spec => []TypeOK`. Among other things both indices stay
  inside the ring whatever handlers and coroutines do.
* `ClosesClean`: `Spec => []ClosedIsClean`. Whatever happened before, nothing is
  queued, enabled or hooked between `lua_close` and `lua_open`.
* `NoneTwice`: `Spec => []DeliveredOnce`. No request is passed to Lua twice, nor
  found in the ring or taken again once it was passed.
* `Safe`: `Spec => []Undisturbed`. Until a program disturbs the queue, and again
  in the next Lua state, a waiting interrupt has its hook (`NoneStranded`) and
  `elua_int_hook` never takes an empty slot (`TakesAnInterrupt`).

The inductive invariant of `Safe` is `IInv`: `TypeOK`, `Closed`, and `Calm` while
`disturbed` is false. The condition cannot be dropped: section 3 has the
counterexample to `NoneStranded` without it. `NoneStranded` alone is not inductive: that
`HookTail` may clear the hook when the slot at `readIdx` is empty needs the fact
that then *all* slots are empty, that is, that the slots in use are contiguous
from the oldest one to `writeIdx`. `RingShape` says so, with the case of a ring
that is entirely empty or entirely full when the indices meet, and with `First`
in place of `readIdx` between `HookMark` and `HookAdvance`, when the slot at
`readIdx` has already been given up (and may have been filled again). `HookShape`
ties the hook to the ring: a set hook between two calls means a slot in use at
`readIdx`. `MainAlone` says that no coroutine is inside `elua_int_hook` or has
the hook, which makes `elua_int_hook` a section of the main thread only; it is
what creating a coroutine with the hook set destroys. `Closed` is
`ClosedIsClean` with every thread back in the VM, so that a new Lua state begins
calm. The proof has a lemma per action that disturbs `RingShape` (`AddStep`,
`MarkStep`, `TailStep`, `CloseStep`) and a frame lemma for the rest.

That of `NoneTwice` is `OnceInv`, which holds of disturbed queues too:
`DeliveredOnce` alone does not say why the request just taken cannot be taken
again. `SlotsDistinct` says that a request waits in one slot only and was not
delivered, `TakenOnce` that a taken one is in its slot until `HookAdvance` and
then in none, and `TakerRuns` that only the running thread holds one, so that no
two threads hold the same.

The assumption on the constants is `IntQueueAssumption`: a ring of at least one
slot, ids different from the empty slot's, and the main thread no coroutine.

It also proves that the ring implements its promise:

* `QueueIsFifo`: `Spec => ImplementsFifo`. It rests on `IInv`.
  `CountFact` says that the slots in use are as many as the distance of the
  indices, so that `Pending` is the sequence of slots from the oldest one
  (`PendingFact`); from that, `EluaIntAdd` with room is `Fifo!Raise` (`RaiseStep`),
  `HookMark` is `Fifo!HandOver` (`HandOverStep`), and every other step of a calm
  queue leaves `Pending` as it is (`SameStep`). `HookTake` copies the slot without
  taking it and `HookAdvance` moves the index after the slot was given up: it is
  `FirstIdx` that makes the take atomic at `HookMark`.

`VTimerProofs` proves, for any set of timers and any limits:

* `NoShortDelay`: `Spec => []DelayNeverShort`, for any frequency and any argument,
  and `NoneEarly`: `Spec =>
  NoEarlyInterrupt`. The invariant ties the counters to the histories: `Waited`, a
  counter is below the ticks waited for since the call began (the tick in
  progress counts), and `Aged`, it is at most the age of the arming, each only from
  the step on at which the reset the calls rely on is done (`Unreset` finds that step in
  `todo`). Both are needed since a call stores the limit first and resets
  the counter later, with ticks in between.

`SysTimerProofs` proves `ClockNotAhead`: `Spec => []NeverAhead`, whatever the
program does with global interrupts and however late the wrap interrupt comes. Its invariant
is `NotAhead`, that the interrupt's counter, the hardware counter and the period
of a wrap not yet counted add up to at most the true time, and `ReadingNotAhead`, the
same for what a reading has copied so far, for each of its steps. That readings
are exact needs more, and holds of less:

* `ReadingsAreTrue`: `InTime` implies `Spec => []ReadsTrueTime`, and `DelaysAreLong`:
  `InTime` implies `Spec => []DelayNeverShort`. The invariant `TrueTime` adds that nothing is
  behind while nothing was lost (`Kept`: the interrupt's counter, a wrap not yet
  counted and the hardware make up the whole time, less one `SysMax` once
  the overflow was dealt with), that what each step of a reading has copied is the
  time of an instant since it began (`Shown`), and the same of the first reading of
  a delay (`StartShown`). `MaskedForOverflow` keeps the interrupt out while
  the overflow is taken off. `InTime` says that the clock overflows at most once
  (with `PLATFORM_TIMER_SYS_MAX` = 2^52 microseconds, once in 142 years; each
  overflow takes off a microsecond too little, and twice is more than `DelayNeverShort`
  forgives) and that a due interrupt is taken after at most one
  step of the program. Both are needed: TLC finds `TrueTime` violated with a later
  overflow and with a latency of two. The run's constants satisfy them.

`RingBufProofs` proves `IndicesCoherent`: `Spec => []Coherent` for `UartMux`, for
any sizes and buffers and a device that delivers whenever it likes, to a full
buffer too: the count is then one more than the size. `Good` describes a
descriptor at each step of a
call: between the decrement of the count and the advance of the read index the
oldest element is the one after `rptr`, and while the block is being replaced
the indices are zero, which is why the device must be silent then. On it rests

* `BufferIsQueue`: `Spec => ImplementsBuffer`, for the same device. `Window` says where in the
  block the elements lie that were written and not read; the oldest one, once
  `buf_read` has copied it, is the copy, which a write to the full buffer cannot
  reach any more, while before that the write takes its place (`PutFull`); `Line`
  gives what is on the wire its types, so that an element is one of `BufFifo`'s; `Shown`
  that `Unread` is the sequence of them. A write of the handler is then
  `Put` or `PutFull` wherever the reader is, the decrement of the count is `Take`, and copying
  and advancing the index are stutters: the element is gone when it is no
  longer counted, though its place is still `rptr`.

* `MuxIsSound`: `Spec => []MuxSound`, for the multiplexer above the buffers, with any
  services, characters and device. `MuxSound` speaks of what has been
  received; the invariant `MuxInv` has to say why what is on the line will be
  received right. `Body` does so with a *forecast* `w`: what the receiver's service
  and escape will be when it comes to each byte. `Right` is then a condition
  on single bytes (a character is found for the service it was sent to, escaped
  just if it is), and every step changes the forecast in one place: reading
  drops its first entry (`TakeBody`), sending adds one (`AddBody`). The end of
  the forecast must agree with what the sender believes the receiver to
  know (`Ends`): so it may leave an id out. `Delivered` joins what was received to what
  is on the way: no character is overtaken, nor, without a restart, lost or
  repeated. For the device, whose send is a list of steps, what the
  steps left will still put on the line (`Remaining`) counts as being there
  (`Unfinished`), so that the interrupt, which may put a request for the service in the middle,
  is the case of a byte inserted at any place that changes no forecast (`ForceBody`). A receiver that has
  restarted hears the same line without knowing service or escape
  (`Deaf`, `DeafBody`): a service it knows no more delivers nothing, and
  the clause of `Body` on escapes says that one is met after every id before a
  character that was escaped. `Kept` is what makes an answer to a request right:
  the character repeated is the latest one, for the latest service. This is where `upset` comes
  in: between the steps of a send that is not so.

`UipProofs` proves, for any number of connections, ports, and sizes of segments
and requests:

* `OneAtATime`: `Spec => []OneRequest`, and `StoppedBetweenCalls`: `Spec =>
  []FlowControlled`. The invariant adds to `OneRequest` which request a connection
  may have in which call (`Requests`, `Places`). `AppCallFact` says once
  what `elua_uip_appcall` may make of a connection (`Handled`), `Evolves` what
  any packet may, and `EvolveStep` that this keeps the invariant for all
  connections at once, of which a poll touches many.

`UipSafetyProofs` proves `ReportsWhatWasAcknowledged`: `Spec => []SendHonest`. To that
invariant it adds `Counted`: as long as the window has not changed under data in
flight, the segment in flight is as long as what its acknowledgement takes off
(`Full`), which `SendHonest` alone does not say and needs. `AppCallCounts` says what
the callback does to the bytes left, `Keeps` what every step but `Segment` keeps
of them, and `SegmentCounts` adds an acknowledgement up.

It also proves `PendingIsKept`: `Spec => []NoneForgotten`. The property is
not inductive by itself: `elua_accept` frees the entry at `call.slot` one step after it
compared it, and only `Found`, that the entry is still the one it found, makes the
connection in `call.sock` the one forgotten. `Dialing` tells connections the program
made from those made to it. The table being full is no exception: the callback then
closes the connection instead of entering it.

`RfsProofs` proves `HeldIsIssued`: `Spec => []HandlesIssued`. Its invariant follows a
descriptor through the server, the line, the buffer of the client and a call:
an answer to open anywhere on the way carries a descriptor of the server, and a
call takes a descriptor only from an answer to open, because the client compares
the operation.

`CallsAreHonest`: `Spec => []CallsHonest` is about what calls return. Its invariant is `Types`
and `Uncrossed`: until a request goes out while an earlier one is still to be
answered (`crossed`), `Honesty` holds. While a call waits, either its request is
still to be executed and the bytes of the call so far end where the server's position is
(`Unserved`), or it was executed or lost and every unit on the way is an answer to
it (`Served`, `Honest`); after a call that gave up, what may still be executed is a
request of its kind on its file, which leaves those bytes in place
(`AfterCall`, `PlacedServed`). `OneUnderWay`, that a request still to be executed has
nothing else under way, is for the call that finds an answer in its input and
fails before it sends. `ReadFact` and `WriteFact` add the part in an answer to what the
call had. The parts of a call join up because `Continue` stops at a short answer.

`AdcProofs` proves `MemoryIsSafe`: `Spec => []WithinBlock`, for any number of channels,
samples and requests and any sizes, assuming `Liberties \subseteq {"read",
"configure"}`: the program may take samples out and change settings at any time,
but asks again only once it has what it asked for, and leaves other channels alone
while one is sampled. (With "resample" and "overlap" a channel could
be set up again, and its block replaced, while it is converted; the property
is not claimed then, as section 3 says of the real program.) The invariant
`IInv` has to hold between any two steps of any call, since the handler may
come there. Its parts:

* `Formed` is about the list of steps alone: which step may follow which
  (`Leads`) and what else must come after it (`Placed`). `StepForms` and
  `CallForms` show that no step and no call makes another kind of list, so that the
  rest of the proof can speak of the step to come.
* `Shaped`: block, size and indices agree except in the middle of `buf_set` and
  `buf_flush`, and the smoothing ring except in the middle of
  `adc_update_smoothing`.
* `Sampling`: a channel that is active, enabled or being converted (`Used`) awaits
  samples and has room for those it still has to get (`Room`, `Fits`), one sample
  needing no buffer.
* `Prepared` and `Tuned`: nothing is converted while a channel is set up, and
  settings change only on channels not in use, or stopped before by the
  same call. This is what makes the exceptions of `Shaped` harmless.
* `Loaded`: what was loaded of a byte of bits, or of `ch_active`, is
  still good enough when it is stored, though the handler may have written in between.
* `Taken`: what a call found in a buffer stays there until it takes it.

The proof has two halves: `StepKeeps`, a lemma per part for the steps of a call, and
`HandlerKeeps` for the handler, which needs only that the channels it stores to
are `Used`.

It also proves `RequestsAreHeld`: `Spec => []HoldsRequested`, assuming
`Liberties \subseteq {"read"}` as the run does: the program may take samples out
at any time, but changes settings and asks again only once it has what it asked
for. `HoldsRequested` is not inductive, because taking a sample
changes the count of the buffer and the request in separate steps, and the handler
comes between them. `HInv` is `IInv` and:

* `Flagged`: a channel awaits samples just when it is active, except between the
  steps that make it active, and a channel in use has not got all of them unless
  samples were taken from it early (it is not `Patient`).
* `Apart`: the call in progress touches a channel in use only to take samples out
  early (`Takes`), or waits on it for all it asked for; the byte of bits it loaded
  is still the current one.
* `Ended` and `Unmixed`, on the list of steps alone: no call ends with a sample
  half taken, or mixes settings with sampling or taking.
* `Found`: what the next step counts on finding (a sample where it takes one, an
  empty buffer where it resets the count, a request that is not empty).
* `Balanced`: a patient channel that awaits nothing has as many samples as its request
  says, and one more while one is being taken out (`Taking`); it says nothing until
  the bit of a new request is set (`Asking`). A fresh sample lies apart
  from the buffer only while that is empty.

The handler ends sampling at exactly the requested number (`StoredEven`,
`HandlerEven`). `HStepKeeps`, `HHandlerKeeps` and `HCallKeeps` put the parts together.

From the same assumption it proves `OldestComesFirst`: `Spec => OldestFirst`. The
property is about one step, the end of a turn of `adc_getsamples`, and says nothing
of the buffer. `OInv` is `HInv` and:

* `InOrder`, the order of all the samples of a channel: those in the buffer rise from
  the place of the next read to the place of the next write, above the last one taken
  and up to the number of conversions made; a fresh one is above the last one taken
  too, and above those in the buffer (`Newest`). This is for the channels not in
  `overtook`, and those are the ones where it is lost: `Newest` says that a fresh
  sample can only go wrong by being taken first. What is the next one to read depends on how far the call is (`Mode`): `buf_read`
  copies an element, lowers the count and moves the read index in three steps,
  the fresh value is copied and then its flag cleared in two more, and the steps of
  `buf_flush` put count and indices back one by one. Between any of these the
  handler may store a sample in the same buffer. Once the count is lowered it may
  even store over the element that was read, which is why the elements begin
  at the next place from then on (`Front`), before the read index gets there. `Ordered` says what holds in each
  mode, and a lemma each (`OrderedCopy`, `OrderedDecrement`, `OrderedAdvance`,
  `OrderedUntake`, `OrderedFlushed` and others) what a step makes of it.
* `Emptied`: a channel is empty while its buffer is to be flushed or its smoothing
  ring to be replaced, so that nothing is lost or brought back by that.
* `Counted`: there are as many samples as the loop of `adc_getsamples` has turns left,
  and `Warmed`: none are there while the smoothing ring fills. So no turn of
  the loop comes out empty-handed, with the sample "none" instead of a later one.

That the handler appends to the order (`OrderedWrite`, `HandlerOrdered`) rests on
a channel in use not being set up, flushed or in the middle of losing its fresh
sample: what is left is a channel at rest or one of whose buffer a call is
taking an element.

The assumptions on the constants are the `...Assumption` of the modules: bounds
that are numbers, sizes that are positive, and values for "none" that are not
among the things they stand for. TLC evaluates each in some run.

Only model-checked: liveness (`AllDrained`, `CallsReturn`, `WaitEnds`, `Ends`,
`Returns`; the prover has no rule for fairness and `ENABLED`), the refinement
`ImplementsFileSet`, and all of `Xmodem`,
`ShellFiles` and `LineHistory`. What a recursive definition computes for every input is out of the
prover's reach; no module here declares a `RECURSIVE` operator. The walks over
the chain of files (`Stop`), over the blocks of the heap (`Blocks`) and over the history (`Cleanup`) are recursive
functions, and folds are used in `Xmodem`, so that the modules built
on them (`ShellFiles`, `LineHistory`, `Xmodem`) would need inductions the
prover cannot do.

## 5. Not modelled, and why

* The C handler table of `elua_int.c` and masking of single resources
  (`cpu.cli(id)`): a table lookup, and a register per resource.
* Free-running mode, `skip_cycle` and a clocking timer of the ADC: nothing on
  this platform can turn them on (`platform_adc_set_clock` accepts 0 only).
* The average of smoothed samples: a sum of bounded 10-bit values over at most
  128 of them in 32 bits.
* Conversion of microseconds to ticks of hardware timers (that of virtual timers is
  in `VTimer`).
* Peripheral drivers: register accesses whose effect only the manual defines.
* Telnet, DHCP, DNS and `elua_net_recv` into a plain buffer in `elua_uip.c`; what
  two overlapping runs of the uIP main loop leave of a packet.
* WOFS: listing the directory; the search once it has gone astray through file
  data; formatting such a chain, taken to erase all of it as the simulator's
  `wofs_format` does, which on the board may erase part of it; a reset in the middle
  of one flash write, which is taken as atomic.
* Shell: walks over directories and masks; a path spelt in two ways, which passes
  the check against copying a file onto itself; other commands.
* Flow control of the UARTs, and the physical UARTs.
* Remote directories, and the packing of values into packets; `ELUA_CPU_LINUX`,
  where the client does not empty its input.
* Saving a history to a file, and the screen of the line editor.
* `salloc.c` with several regions; an end of memory that is not a multiple of 8,
  which its `memspace` does not round down (lines 197–203).
* USB CDC: a flush in the tick interrupt between the ready check and the write of
  the main program. What the write to a bank given up does, and what
  `Usb_nb_busy_bank` counts then, is in the chip's manual only.
* Lua RPC: its exchange is that of `Rfs` over a different packing.
* Third-party code: it has its own upstream. `UipApp` takes from `uip.c` what
  decides the calls back into eLua; `ShellFiles` takes FatFs as external. Most of
  the lines of the repository are of this kind: `uip/`, `fatfs/`, `niffs/`,
  `rxspencer/`, GNU ed, `dlmalloc.c`, the Lua library, chip headers and drivers.

## 6. Plan

Done: `IntQueue` with its FIFO and first proofs; `VTimer`; `SysTimer`; `Adc`;
`Xmodem`; `UipApp`; `RingBuf` and `UartMux`; `Wofs` under `ShellFiles`; `Rfs`;
`Salloc` under `LineHistory`.

Next, in this order:

1. A lost update of `vtmr_int_enabled`, and a stale `value_fresh` after
   `adc.setsmoothing`, as properties of the modules that exist.
2. The device table and the descriptor numbering of `newlib/`, with directories
   in `ShellFiles`.
3. Lua RPC over the transport of `Rfs`.

A proof worth having: write-once for `Wofs`.

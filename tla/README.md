# A verification project for rt-fc-offloader

TLA+ models of the FPGA offloader (`src/rtl`) and of the firmware of the Pico
(`src/firmware`), the TLC runs that check them and the theorems that TLAPS
proves about them. The source is the reference: every
definition is a translation of the lines that `PROJECT.json` ("map") gives for
it. Where the code and the documents of the repository disagree, the model
follows the code and a run shows the difference.

## 1. The system

A flight controller or a PC talks to the FPGA in FCSP frames
(`A5 | version flags channel seq seq len len | payload | crc crc`) over a USB
serial port and over SPI. The FPGA parses the frames, executes the commands of
the CONTROL channel on a Wishbone bus with the motor, LED and ESC engines
behind it, passes the bytes of the ESC_SERIAL channel to and from an ESC, and
sends responses and ESC traffic back in frames of its own. The firmware of a Pico
drives motors of its own: MSP over USB sets them, and a passthrough hands the
pin of one motor to a serial port, through which a BLHeli 4-way host programs
the ESC behind it.

```
 USB bytes ─┐                                        ┌─ ctrl fifo ─ wishbone master ─ IO engines
            ├─ select/lock/tag ─ parser ─ CRC gate ─ router                │
 SPI bytes ─┘                                        └─ ESC UART           └─ ctrl tx fifo ─┐
                                                            └─ packetizer ──────────────────┤ arbiter ─ framer ─┬─ USB
                                                                     debug tx fifo ─────────┘                   └─ SPI

 Pico, core 0:  USB ─ msp_task ─┬─ MSP server ── mailbox ── main loop ── values, mask ── 1 kHz interrupt ── DShot ─┐
                                └─ 4-way server ── passthrough state ── ESC serial port ──────────────────────────┴─ motor pin
 Pico, core 1:  log queue (filled by everything on core 0) ── logger ── debug UART
```

| Component | State | Operations | Talks to | Hard behaviour | What makes it correct |
|---|---|---|---|---|---|
| `fcsp_rx_fifo`, `fcsp_tx_fifo` | memory, two pointers, counter, output register | one clock edge with two handshakes | every producer and consumer of frames | push and pop in one cycle; full; wrap-around | it is a queue |
| `fcsp_parser` | state, header registers, counters, one output byte | a byte, a cycle of silence, `clr` | port selection in front, CRC gate behind | silence timeout, abort, a gate that is not ready, live header registers | always comes back to the search; one end pulse per frame |
| `fcsp_crc_gate`, `fcsp_crc16` | payload buffer, latched header, indices, four states | capture, feed CRC, verdict, stream | parser (pulse without acknowledge), router | bytes of another frame arrive while it is busy; leftovers | only frames somebody sent get through |
| `fcsp_router` | none | lane by channel byte | FIFO, ESC UART, tied-off lanes | a lane without a reader | an unknown channel blocks nobody |
| port selection in `fcsp_offloader_top` | lock, locked port, tag, CS synchroniser | choose, lock, tag, clear | UART shim, SPI front end, parser | two ports at the same time; choices made a cycle after the byte | a frame's bytes come from one port, and its tag names that port |
| `fcsp_uart_byte_stream` | hold register, shifters | receive, send | host, port selection | no flow control | a byte is offered until taken |
| `fcsp_spi_frontend` | synchronisers, pending/output byte, TX hold | receive, send, CS edges | host, port selection, egress | no flow control; CS at any time | as above |
| `fcsp_wishbone_master` | state, header fields, response buffer, bus registers, timeout | one action per state | command FIFO, bus, response FIFO | commands of the wrong length, a slave that does not answer, back-pressure | the right response, the right registers, in step with the commands |
| `fcsp_stream_packetizer` | buffer, count, timer, output register | take, count silence, hand on | ESC UART, arbiter | packet full or timed out in the cycle of a byte | ESC bytes in order, none lost |
| `fcsp_tx_arbiter` | grant | grant, hold, release | three producers, framer | a producer that pauses inside a frame; strict priority | frames do not mix; everybody is served |
| `fcsp_tx_framer` | state, payload memory with registered read, metadata, CRC | capture, emit | arbiter, two ports | read-ahead under back-pressure; oversize payloads | the wire image of every payload |
| dual egress in the top level | none (valid and ready) | offer to USB and SPI | both ports | ports of different pace | each port gets each byte once |
| `fcsp_debug_generator` | snapshot, state, output | send a snapshot | debug FIFO | registered output against ready | no byte lost (not connected by any board) |
| `wb_io_bus`, `fcsp_io_engines` | page decode, acknowledge | read, write | wishbone master, slaves | an address nobody answers | every access ends |
| `wb_serial_dshot_mux` | register, sniffer, watchdog, tristate | write, sniff, expire, switch | pins, ESC UART, DShot | sniffer against register; switching the driver of a pin | never two drivers on a pin |
| `wb_esc_uart` | TX/RX machines, registers | send, receive, guard | router, packetizer, pad | turnaround, a packetizer that is busy | no byte lost while it listens |
| `wb_dshot_controller`, `dshot_out` | words, bit and gap counters | write, repeat | pins | a write during a frame | every frame on the pin is one that was written |
| `wb_neoPx`, `sendPx_axis_flexible` | eight pixels, request, state | write, update | pin | an update request while sending | the last update is sent |
| `pwmdecoder_wb` | counters, results | edge, read | pins, bus | 16-bit wrap, no edge | a pulse width is that of one pulse |
| firmware: `app_main`, `pico_main`, `dshot` | overrides, mode, values and mask shared with the interrupt | main loop, timer interrupt | MSP mailbox, passthrough state, PIO | the interrupt between any two writes; no lock keeps it out; time wrap | only stops and throttles; a silent host stops the motors |
| firmware: `esc_passthrough`, `esc_pio_serial` | active, motor, resume time; serial port | begin, end, refresh | both servers, pins | a hand-over is many steps | one owner per pin; motors off while an ESC is programmed and for a second after |
| firmware: `msp` | parser, mailbox, idle time | byte, command, reply | USB, 4-way server | broken-off frames, no timeout inside one, three framings | only whole frames act; a request is answered |
| firmware: `esc_4way` | parser, device info, mode | byte, frame, exchange | USB, ESC bootloader | late and lost answers, change of motor inside a session | Ok means done; only the ESC in hand is asked |
| firmware: log in `hal_pico` | queue, drop counter | async, critical; drain, report | everything, core 1 | two cores, overflow, clock wrap | every line printed in order or counted |
| `fcsp_codec.py`, `command_adapter.py`, `fcsp_client.py` | stream buffer, pending requests | encode, decode, request | hosts | resynchronisation, late answers | decode inverts encode, whatever surrounds a frame |

## 2. Modules

| Module | Models | State and actions |
|---|---|---|
| `BoundedFifo` | the promise of an elastic buffer | a queue; a step is one clock edge |
| `FcspFifo` | `fcsp_rx_fifo`, `fcsp_tx_fifo` (the same queue) | `ReadSide`, `WriteSide`, `CountUp` in one `Clock`; refines `BoundedFifo` with the queue `Held` |
| `FcspParser` | `fcsp_parser` | one operator per state, `Clear`, `Silence`; no `Spec` of its own |
| `FcspCrcGate` | `fcsp_crc_gate`, `fcsp_crc16` | one operator per state |
| `FcspIngress` | parser, gate, router and lanes of the top level, with a host and sinks | one action per thing the host can do in a cycle; every action clocks the whole path |
| `FcspIngressProofs` | | theorems about `FcspIngress` |
| `FcspTransport` | port selection, lock, tag, `clr` of the top level, both front ends, and the parser | one action: a clock edge, with the hosts' choices |
| `FcspTransportProofs` | | theorems about `FcspTransport` |
| `FcspWishboneMaster` | `fcsp_wishbone_master` with command FIFO, slaves, reader | one operator per state; `Edge` adds the surroundings |
| `FcspWishboneMasterProofs` | | theorems about `FcspWishboneMaster` |
| `FcspStreamPacketizer` | `fcsp_stream_packetizer` | `Fill`, `Push` |
| `FcspTxFramer` | `fcsp_tx_framer` | `Capture`, `Emit`, `ReadPort` |
| `FcspTxPath` | `fcsp_tx_arbiter`, dual egress, SPI transmit; composes the two above | one action: a clock edge, with the ports' and producers' choices |
| `FcspTxProofs` | | theorems about `FcspTxPath` and about `FcspFifo`, the queues in front of it |
| `SerialDshotMux` | `wb_serial_dshot_mux` | `Write`, `Sniffer`, `Pads` in one `Clock`; a pad register holds what drives the pad |
| `EscUart` | `wb_esc_uart`, the line through the mux in serial mode, an ESC; composes `FcspStreamPacketizer` | one operator per state of transmitter and receiver, `WbClock`, `LineClock`; `FramerClock` is what the packetizer sees of arbiter and framer; `EscClock` and `HostClock` are the surroundings |
| `MotorPinProofs` | | theorems about `SerialDshotMux` and `EscUart`, which share the motor pins |
| `EscPassthrough` | the state of `esc_passthrough.cpp` as functions on a record | used by the next ones |
| `MotorLoop` | main loop, interrupt and hand-over of the pins | one action per access to what the interrupt also touches; `dshot_timer_callback` runs whole between two; `SendFrame`, `Tick` are the hardware |
| `MotorLoopProofs` | | theorems about `MotorLoop` |
| `HostCrc` | the three checksums | pure functions, with the polynomials of the code |
| `FourWay` | the 4-way server and an ESC | `process_host_byte`, `handle_frame`, then one step per exchange; `Talk` is what an ESC may do |
| `MspServer` | the MSP server and `msp_task` | `msp_byte`, `four_way_byte`, `four_way_done` |
| `HostLink` | both servers on one USB link with a host, extending the two above | `Firmware`, `Host`, `Esc`, `Tick` |
| `HostLinkProofs` | | theorems about `HostLink` |
| `DebugLog` | the log between the cores | `hal_debug_printf_…` and `Retry` on core 0, the steps of `logger_core1_task` on core 1 |
| `DebugLogProofs` | | theorems about `DebugLog` |
| `MC…` | | small instances |

Parser, gate, packetizer and framer are modules without a specification of
their own: what they do in a cycle depends on the levels of their neighbours,
so the modules that compose them instantiate them over their own variables and
conjoin their `…Clock` operators. A variable keeps the name of the register; a
pulse or level that is a function of registers is an operator.

Conventions (hardware). An action is one rising clock edge: right-hand sides read the old
registers, so non-blocking assignments become primed variables as they stand,
and "the later assignment wins" becomes an `IF`. Reset is `Init`; the design
has no other reset. Registers the code does not reset (memories) start with
some fixed value where a comment says that they are not read before they are
written, or with any value (`FcspFifo`).

Abstractions. Bytes are numbers, and few of them are used. The received CRC is
ideal in `FcspCrcGate`: it is right exactly when header and payload are those
of a frame a host made (`Frames`), so that what the gate lets through can be
told apart from what it should. `FcspTxFramer` has the CRC as a constant
operator and shows that the bytes on the wire carry the CRC of the body,
whatever the function is. Bits inside a byte of the host's UART or of SPI are left out
(`EscUart` has them); the
order of events at byte grain and the synchroniser delays are kept. Counters
that only report (errors, frames) and status outputs are left out.

Conventions (firmware). An action is what a core does up to its next access to
state that another context also touches: the interrupt in `MotorLoop`, the
other core in `DebugLog`. `hal_critical_section_enter` takes a spin lock without
disabling interrupts, so it separates nothing here and is not in the models. In
`HostLink` only core 0 acts on the link; an action is a byte taken, an exchange
with the ESC, or a reply. The parsers are kept as the bytes of the frame so
far; state, size, command and checksum are functions of them (`ParseState`,
`RxState`, `CrcRight`). Bytes, checksums and replies are those of the code, with
all their 256 values. Times are the 32-bit microsecond counter in coarse ticks,
modulo `Wrap`.

## 3. What the runs check

| Run | Instance | Shows |
|---|---|---|
| `fifo` | depth 4, two entries | the registers are one queue of five places, step for step |
| `ingress` | payloads up to 2, timeout 2 cycles, scripts of up to three items | see below |
| `transport` | frames of one payload byte, one or two per port, waits of 1 to 3 cycles | see below |
| `wishbone` | every sequence of two or three of ten commands without gaps, of two of five with gaps in the FIFO; bus timeout 2 | see below |
| `mux` | two motors, watchdog of 2 clocks, six register values | see below |
| `tx_path` | payloads up to 4, packets of 2, timeout 1; six loads | see below |
| `esc_uart` | bytes of two bits, six clocks per bit, up to two host and three ESC bytes, answers after 7 or 13 clocks; packets of two bytes, frames shorter and longer than a byte of the line, other channels first or not | see below |
| `motor_loop` | two motors, a clock of 12 ticks up to tick 7, resume delay and override 1 tick, failsafe 3 | see below |
| `host_link` | two motors with an Atmel and an ARM ESC, four requests of fifteen kinds, one fault, then queries | see below |
| `debug_log` | queue of 2, six calls, a clock of 5 ticks, critical calls wait 2 | see below |
| `dshot_half_range`, `passthrough_idle` | `motor_loop` as it is; one passthrough, idle time of 2 ticks | a disagreement between code and documents (section 5) |

`ingress`. Hosts send whole frames for CONTROL, ESC_SERIAL, a tied-off and an
unknown channel, with payloads of 0, 1 and 2 bytes, noise, oversize lengths,
wrong CRCs, frames broken off by CS (`clr`) or by silence in header, payload
and CRC; with pauses between bytes, and sinks that are ready or not in every
cycle. *OnlyHostFrames* and *InOrderAtMostOnce* hold for all of them, also for
hosts that stream without waiting things the code does not get over without
losing a frame. Scripts with `clr` are those of the SPI port; a TELEMETRY frame
is sent on either port, since one from SPI is dropped in front of the router
(`spi_ingress_drop`, `fcsp_offloader_top.sv:228`). *EveryFrameArrives* holds for
the scripts that are `Smooth`: it says which losses the code has (`Cut`, `Gentle`), and that there are no others.
Left out of `Smooth`, because the code does lose frames there: a frame cut
inside its payload takes the next whole frame with it (the gate keeps the byte;
`sim/cocotb/test_fcsp_parser_cocotb.py:328` and `:356` expect recovery of the
parser alone), a truncated header swallows the frame after it (`:243`, `:261`),
and a streamed frame of fewer than two payload bytes can end while the gate is
busy. Two bytes are the smallest payload for which the one-byte register holds
the parser in PAYLOAD until the gate is free, so `MAX_PAYLOAD_LEN = 2` has both
sides of that boundary, and wrap-around of the gate's address.

`transport`. *LockHolds* says what the lock and the tag give with both ports
active and a gate that is ready or not: once the lock has been taken for the
port of the sync byte, every byte comes from there, and the tag says the same
as the lock. *TagTells* says what the tag is worth, with both ports active at the
same time and with either front end of USB: it goes by CS in the cycle after the
sync byte (`cs_at_choice`), so a USB frame of a driver with its next byte at hand
has the right tag when CS is high then, an SPI frame when it is low, and a USB
frame through `fcsp_uart_byte_stream` never. *EveryFrameParsedInTurn* says
that with SPI after USB all frames are parsed. Not claimed, because
false: that a USB sync byte cannot be preempted (in the one cycle before the
lock CS may fall and the frame goes on with SPI's bytes), that a frame may span
two SPI bursts (`docs/FCSP_SPI_TRANSPORT.md:15`; the rise of CS clears the
parser), and anything for a USB driver that does not have its next byte ready,
or after SPI (section 5).

`wishbone`. Responses and registers are compared with `Response` and `After`,
functions of the command sequence that know nothing of states, cycles or
lanes: reads of one word, of six bytes, of more than fit, of an address nobody
answers; writes of whole and broken words, with bytes too many, and of a block
whose second word times out; unknown operations. Three commands in sequence are
enough for what one leaves behind (`cmd_was_last`, `wb_sel`, `rsp_idx`,
`wb_timeout_cnt`) to meet every other. Left out of the plans because the code
falls out of step: a write that times out with data left (section 5), a write
without data, a command that ends inside its header, and a pause inside bytes
the operation does not use after a command that set `cmd_was_last`.

`tx_path`. Each of the loads has another conflict: all three producers, ESC
bytes alone (full packet, then a rest that times out), ESC packets for SPI, a
USB port that comes and goes while long frames are sent and one is dropped, a
busy SPI host while frames go to USB, and responses to SPI with CS low. The
wire is compared with `Image`, the frame the host expects. *ControlWaitsForTwo*
bounds how long "CTRL always wins" may take; *EverythingSent* shows that the
loser of a strict priority still gets through when the others stop. In
*PortsGetTheirFrames* the claim about SPI is for a USB port that never makes the
wire wait and CS that stays low (section 5 has the others). What passes on the wire
is logged per channel, the fourth byte of a frame, since that is where a host looks
for the producer. Every frame has a payload, as a stream that ends with `tlast` does,
and behind one that is too long nothing comes (`TrafficAssumption`), since the framer
spoils the next (section 5). No producer of this design sends one that long: a
response has at most 32 bytes (`fcsp_wishbone_master.sv:318`), a packet 16
(`fcsp_offloader_top.sv:649`), the framer room for 512.

`mux`. In every clock the bus may write any of six words (DShot, DShot with the
sniffer, serial on either motor, the break), the PC may send any byte, and the
bridge may drive or not. The history variables are the specification: `open` is
the set of header prefixes the last bytes form (a nondeterministic automaton,
where the code has a deterministic one), `quiet` the silence of the link,
`settled` the clocks since the selection changed. *OneOwnerAtATime* looks at
two consecutive clocks: release and pads are two pipelines that must agree
when a write, a sniffed header and the watchdog come together. A watchdog of 2
has the trigger before, at and after the expiry; two motors are all that a
switch can tell apart. Not claimed, because false: that every header is found
(`$$M<` is not: a byte that breaks a header is not tried as the first of
another), and that an override lasts until the silence (section 5).

`esc_uart`. The host speaks by the stream and by the bus, also in one clock, as
often and as soon as it likes while it is its turn, and polls the received
byte; the ESC, which samples bits as a UART does, answers with one or more
bytes without a pause. The queues `owed` and `replies` are the specification:
what was accepted and not heard, what was sent and not handed over. The
shortest answer time, 7 clocks, is the first after the port's guard time as the ESC
sees it (with a clock less *OneTalker* is violated, as it must be). The received
bytes are read by the packetizer, which takes none while its packet waits for the
grant and the framer (`fcsp_stream_packetizer.sv:43`); in that time the port does not
look for a start bit (`wb_esc_uart.sv:276`). How long it takes depends on the board.
Silence cuts a packet after 1000 clocks and a byte of the line has 28,125 (19,200
baud at 54 MHz), so every byte is a frame of eleven bytes. At 2 Mbaud (Tang Nano 20K) that
is 2,970 clocks, well under a byte; at 115,200 baud (Tang Nano 9K,
`fcsp_tangnano9k_top.sv:136`) it is 51,600, nearly two bytes. The run has both, against
a byte of 24 clocks: in each packet a frame may take 10 or 36, and frames of other
channels may go first or not, for 4 clocks; 10 and 4 is the limit of `WireIsFast`. With
36 the framer, the packetizer and the port between them hold what an answer of three
bytes is ahead of the wire, so all of it arrives. A long answer is not held: section 5
has one of five bytes that loses the last. With a packet of two and a timeout shorter than a byte both
reasons to close a packet occur. Turns are the obligation of the two sides,
half duplex has no other arbiter: the host speaks again when it has the whole
answer. Two bits per byte have a first, a last and a next bit, which is what
the code tells apart.

`motor_loop`. The MSP and the 4-way server appear as the calls an iteration may
make: SET_MOTOR, begin, a change of the motor, a restart of the ESC with its
second begin taken or refused, end. Between any two accesses the interrupt may
run. *OnlyZeroAfterPassthrough* is the property passthrough is there for: once
the motors are silent, no interleaving of mask, value and interrupt, and no
frame left in the FIFO of a state machine that is switched on again, lets a
motor hear anything but zero until the resume delay after the end is over.
*PinsFollowPassthrough* follows the pin through the hand-over;
*SilenceStopsMotors* and *OverrideOnlyFresh* say how long a throttle may outlive
the host. Two motors are one in the hand-over and one beside it. Ticks are
coarse: an iteration takes none, unless it waits for an ESC; the interrupt runs
in each. The sleep of a restart (300 ms, `esc_4way.cpp:660`) is over before the resume
delay that begins with it (a second, `timing_config.h:12`). The horizon of 7 is beyond
the half of the clock of 12 (section 5) and short of a whole turn, where *OverrideOnlyFresh* ends (below). A 4-way host is
taken to wait for the answer to what it sent (`FourWayCommand`): for one that
pipelines, frames left in a disabled FIFO can come out after it is switched on
again. The branch of `esc_passthrough_begin` that ends another passthrough first
is in the model and is never taken, its callers have ended it.

`host_link`. The host sends SET_PASSTHROUGH in v1 and v2, SET_MOTOR in v2 inside
v1, the debug level, and with the bridge on InitFlash for either motor, write,
verify, erase, read, Reset with a restart, keep-alive, mode and Exit, in every
order of four. It may be stopped once inside a frame and started anew, or the
ESC answers late once; an ESC may refuse anything. Then it repeats a query.
*OnlyWholeFrames* is about frames that change something: the checksum of v1 is an
exclusive or, and a reply to a query made of the pieces of two frames is
possible. *OkOnlyIfDone* needs the wait for silence in
`bl_send_cmd_set_buffer`: an answer that is late is caught there. It is claimed
of frames that find no older answer outstanding (`caught_up`): only `bl_connect`
drains the receiver, and a write without an address (`0xFFFF`) leaves an answer
behind that a later frame takes for its own. Four requests
take a session through begin, connect, a change of motor and a command; the
fifth and later are queries. Faults come once: two of them would be two
independent recoveries.

`debug_log`. Every interleaving of the two cores with a queue that overflows and
a clock that starts again. The three counts of *NothingVanishes* (printed, under
way, dropped) are kept by two cores without a common lock. *EventsArePrinted*
and *CriticalComesBack* are liveness: the second shows that a deadline beyond the
wrap of the clock costs time or an event, but not the call. Six calls fill the
queue of two, the logger's hand and the retry, and leave two to be dropped.

Every property of a passing run has a mutant: the definition with a plausible
mistake in it, under which TLC finds the property violated.

Fairness. `WF_vars(Next)`: the clock runs. ESC port: nothing more; ESC, packetizer
and framer count clocks. Ingress: a host that is inside an
item sends its next byte one day (it may pause, but for less than the timeout,
which is the definition of a pause), and a sink that is offered a byte takes it
one day: the command FIFO is drained by the master, which `wishbone` shows to
answer every command, and the ESC UART by its baud clock. Wishbone: the FIFO
offers what it has; the reader of the responses takes what it is offered one
day (`tx_path` shows that the framer comes back to its capture state). TxPath:
the USB port is ready again and again (a UART that sends), a host with CS low
clocks on while a byte is in the hold register, producers offer what they have.
Fairness is never put on an answer of a slave, on CS, or on a port being idle.
HostLink: the main loop of the firmware runs (`WF(Firmware)`), a host that is not
stopped goes on with its request, its answer or its timeout, and time passes
however busy the link is (`SF(Tick)`: the clock does not wait for anybody; the
guard of `Tick` only says that a frame takes less than a tick). DebugLog: both
cores run, the retry loop has no other exit than its own, core 1 is launched by
`main`, the clock ticks. MotorLoop states safety only and needs none.

Bounds. `Scripts`, `Hosts`, `Plans` and `Traffic` are finite, so all runs are
exhaustive without a state constraint, and no counter is cut off. In the
hardware the clock goes on with steps that change nothing when everything is
sent, so deadlock is checked. In the firmware runs `MaxItems`, `MaxFaults`,
`MaxEvents` and `Horizon` bound what the surroundings do, and ages that only
have to be compared with a limit saturate at it. `MotorLoop` checks deadlock:
interrupt and loop never wait for each other. `HostLink` does not, since its
host stops when its query is answered, nor does `DebugLog`, whose clock always
ticks; *QueryIsAnswered*, *EventsArePrinted* and *CriticalComesBack* say what
must not get stuck there.

## 4. What is proved

`FcspTxProofs`, the queue, for every depth and every set of entries (assumption
`DepthAssumption`: the depth is a positive number; pointers wrap at the depth,
as they do in the code when it is a power of two, and every instance uses 64 or
512). `FifoIInv` is `TypeOK` and `PointersAgree`: the agreement is what makes
`SlotOf` a slot that has been written and not been read, without it neither
typing of the counter nor the refinement is inductive. From it: `TypeCorrect`,
`PointersCorrect`; `QueueSteps` (each edge is the queue step its handshakes ask
for, by cases on push and pop, with lemmas on the sequence `Held`), and
`FifoRefinement` (initial state and steps map to `BoundedFifo`).

`FcspTxProofs`, the path, for every load, CRC function, size of payload and packet,
and timeout (`TrafficAssumption`, section 3; a packet fits into a frame). Four
theorems, one for each safety property the run checks.

- `ControlSoon` needs that a frame on the wire and a grant of another are one frame
  each: `Waiting` bounds `overtakers` together with both.
- `PortsGetEach`: a port that takes a byte when it is offered, and the wire with it,
  has taken it once; `PortsInv` says so of the byte on the wire and of the frame.
- `FramesStayIntact` follows one byte from the producer to the log. `CoreInv` has a
  part per component: a producer in the middle of a frame has the grant (`FifosInv`,
  `PacketizerInv`); while the framer captures, its memory holds what the source with
  the grant has given (`Captures`), and when it does not, no source is in the middle
  of anything; while it sends, the bytes that have passed are the first `Passed`
  bytes of `Image`, `crc_reg` is the CRC of the first `CrcDone` bytes of `Body`, and
  `mem_rd_data` is already the next one (`EmitInv`, the sentence that the read port a
  cycle ahead makes necessary). `FramesInv` counts: frames logged on a channel and
  the one on the wire are those the FIFO has let go, as far as they fit.
- `EscBytesStayIntact`: the bytes of the line are in three stretches, those logged,
  those in the framer, those in the packetizer, that follow each other without a gap
  and end before `esc_no` (`EscInv`). A step adds one byte at the end, or hands the
  last stretch, or the second, to the one before it.

The library defines CRC and `PacketBytes` through recursive functions (`FoldLeft`,
`FlattenSeq`). Their recursion is made available by induction over a set of numbers:
`CrcSteps` (the CRC of a prefix is that of the prefix before it and one more byte)
and `FlattenAppend`.

`FcspIngressProofs`, for every set of bytes and frames, every payload limit and
timeout and every script of the host. Assumptions: bytes are numbers and 0 is
one (`ByteAssumption`), the payload limit is positive and the timeout a number
(`LimitsAssumption`), a sender's frames keep to the limit
(`FramesAssumption`), a script is a finite sequence of byte strings
(`ScriptsAssumption`); nothing is assumed about what the strings are, so they
hold every cut, glued or damaged frame. The CRC is ideal (section 2).
`DeliveredFramesAreGenuine` is `OnlyHostFrames`, `TypeCorrect` is `TypeOK`. The
invariant `IInv` has a part per component:

- `ParserInv`: the parser is in the payload only while
  `payload_cnt < payload_len <= MAX_PAYLOAD_LEN`. Without it the counter's range
  is not inductive; `payload_len` alone has no bound, an oversize header leaves
  it above the limit.
- `GateInv`: while the CRC block is fed, `crc_payload_idx < meta_len` (the
  comparison that ends the feed is an equality and would never come true past
  the length); while the gate streams, the CRC is right for the memory *as it is
  now* and `stream_idx < meta_len`. A right CRC means the payload is a sender's,
  so it is within the limit, and `stream_idx` within the memory.
- `LaneInv`: what the sink has is the first `stream_idx` bytes of the buffered
  payload, and nothing while the gate does not stream. So the byte with
  `tlast` completes exactly the payload of the frame that made the CRC right.
- `HostInv` and `DeliveredInv`: the host is inside its script; what is delivered is
  a sequence of frames.

One lemma per component shows that a clock edge keeps its part, and `NextIInv`
puts them together, as `Clock` does the components.

`DeliveredInOrder` (`InOrderAtMostOnce`) has one assumption more, `CrcAssumption`:
no accident looks like a CRC, that is, what the parser may take for the CRC of a
frame with a payload is sent at the end of that frame only. It is the other half
of the ideal CRC of section 2, and as with it a real CRC leaves one chance in
65536. It speaks of two bytes in a row, and of one byte after a 0 with an older
byte in the place of the first, since `crc_idx` is not reset after a length of
zero (section 5) and the first CRC byte is then one of an earlier frame. The
invariant `SequenceInv` adds what places the frames in the script:

- `PlaceInv`: between two cycles the host has not sent more of an item than it has.
- `CrcByteInv`: the CRC bytes the parser holds have been sent, one after the other
  or as just said.
- `DoneInv`: when `frame_done` is raised with the CRC of a frame, the byte sent
  last is the end of that frame. So the frame is the item just sent.
- `OrderInv`: what has been delivered, and the frame in the gate after it, have
  places in the script that go up and are behind the host. A frame that enters
  the gate is the newest item, so its place is after all of these.

`FcspTransportProofs`, for any hosts. `LockAndTagAgree` needs no assumption. Its
invariant adds to `LockHolds` what `Locking` says of the one cycle in which a frame
is not locked yet, the one after its sync byte: nothing but that byte has been
taken, so whatever the choice of that cycle is, the bytes before it do not
contradict it. `TagOfEveryFrame` (`TagTells`) is about the same cycle, in which the
choice is made afresh: of a driver with its next byte at hand none of the runs ends
inside a frame (`HostsAssumption`), so USB is valid in it, while
`fcsp_uart_byte_stream` is empty in it, since a byte taken leaves the holding register
free for one clock at least. `TagInv` says so of the holding register, and that the
tag, once taken, is kept together with the level of CS it was taken at.

`FcspWishboneMasterProofs`, for any sequence of commands, any pace of FIFO and
reader, any slaves and any timeout. `PlansAssumption`: bytes are octets, addresses
numbers (they do not wrap at 2^32 here), the timeout is positive, and the master
takes every command whole (`TakenWhole`): a block has its whole header, a write has
data and a length, nothing of a block is left when the bus times out, and where the
FIFO may run empty inside a command an operation without a block has at most one
byte to spare. What is left out is where the code itself loses step: a block that
ends inside its header is dropped unanswered or takes the next command for its rest,
a write of length 0 writes all its data, the rest of a write that timed out is taken
for commands (section 5), and with the FIFO empty `ST_DISCARD_CMD` goes by a flag
that an earlier command has left. `IInv` gives every state of the machine four
sentences:

- `Place`: how many bytes of the command have been taken, and whether the flag
  `cmd_was_last` tells the truth about it. `StaysInStep` follows from it.
- `Fields`: what has been shifted into `addr` and `len`, and that every word of the
  block before the one on the bus had a slave.
- `Registers`: they are those before the command with the words of the block before
  the one on the bus written (`WrittenUpto`), and the lanes of that one are the
  bytes collected.
- `Answered`: what the response buffer holds is what a read has got so far, then the
  response the command asks for (`Expected`), and what is sent is its beginning.

`WriteIs` and `ReadIs` tie the word-by-word view of the machine to the definitions
`Write` and `Read`, which speak of a whole block: a write that loses its slave at a
word has written exactly the words before it. `After`, a recursive function of the
commands, is shown to satisfy its recursion (`AfterStep`) by induction over a *set*
of numbers (`SetInduction`, from the well-foundedness of <), since the library's
induction theorems over an operator cannot be instantiated.

`MotorPinProofs`, the mux, for any number of motors, watchdog limit and set of
register values (`MuxAssumption`, `RegAssumption`). `MuxInv` adds to the types one
sentence per pipeline: the pads carry what the previous selection asked for
(`PadsFollow`, which turns "released while the selection changes" into
`LinesHaveOneOwner`); the state of the sniffer implies the prefix
(`SnifferFollows`); the timer has counted at least the silence
(`TimerFollows`: at least, not exactly, which is what
`MCSerialDshotMuxWatchdog.cfg` of section 5 shows); and what has reached
each stage of the receiver (`PipeFollows`).

`MotorPinProofs`, the ESC port, for any number of bits in a byte, any divider above
3, any bytes on either side and any number of them, any packet length and timeout.
`HostBytesHeardInOrder` and `OneTalkerOnTheLine` hold behind any wire, however long the
packetizer is busy. They assume of the surroundings only that an ESC answers after the
guard bit is over and the last two registers of the line are past it
(`PaceAssumption`; a clock less, and the run violates *OneTalker*).
`RepliesDeliveredInOrder` is proved for a fast wire (`WireIsFast`): what a packet may
wait for the framer and what its frame takes are, together with timeout and length of
a packet, no longer than a byte of the line. Behind a slow wire it is false (section 5),
and only the run `esc_uart` says what is left of it, for answers of three bytes. What is
proved is that half-duplex serial works: two ends that share no clock count agree on
where in a byte they are. A time is a pair, the bit and the clock in it; `Behind` says
that one time is a number of clocks before another, `Seen` which level arrives that
much later. The first five parts below are `LineInv`, which no reader can disturb; with
`RxInv` and `PaceInv` they are `PortInv`:

- `HearInv`: an ESC that hears is two clocks behind the transmitter, to the clock, and
  leaves the byte in the middle of its stop bit. `Levels`: the three registers out hold
  the oldest byte owed, each at its delay. `BytesInv`: so do the bits still in
  `tx_shift` and those the ESC has sampled; at the stop bit this is
  `HostBytesHeardInOrder`. `OwedInv`: no more is owed than the byte on the line and one
  in the register of the bus; that a byte of the bus and one of the stream taken in the
  same clock do not overtake each other is in there.
- `WaitInv`: how long the wait of an ESC still is, against the rest of stop and guard
  bit. It ends with the port off the line, which is `OneTalkerOnTheLine`. `Quiet`: the
  host is silent from the turn of the ESC until the answer is taken.
- `Pipe`: what `mux_meta`, `mux_sync`, `rx_meta` and `rx_sync` hold of the byte sent.
- `RxInv`: the receiver's own time, from `rx_state` and `rx_counter`, is four clocks
  behind the ESC's to the clock (`At`), also when the next byte has begun before the
  last is taken. So the receiver samples each bit in its middle (`AtLevel`), finds the
  start bit in the clock it arrives (`StartComes`), and has been given its byte back
  when the next comes (`TakenStep`): `RepliesDeliveredInOrder`.
- `PaceInv`: why the byte is taken in time. `Return` counts the clocks until the
  packetizer has handed on what it has, `Coming` those until the next byte of the line;
  each clock lowers both, and a byte that comes raises the first by no more than the
  next is away (`InTime`).

`MotorLoopProofs`, for any number of motors, any `Wrap`, timeouts and any values of
SET_MOTOR (`PassthroughAssumption`, `LoopAssumption`: all are numbers, and there
is a motor and a tick; the resume delay is at most half a turn of the clock, 1 s
of 71 minutes, `timing_config.h:12`; an override does not outlive the failsafe,
1 s and 3 s, `pico_main.cpp:257`; the clock stays within one turn, `Horizon`).
`OnlyThrottles` is `TypeOK`; its core is `SliderRange`,
by cases on the two ends of the slider, and that a value only ever comes from
`resolve_motor_output`. `PinsFollow` needs more than the property, which says
nothing of the middle of a hand-over: the invariant gives each place of the
main loop its own sentence, at rest, leaving (serial port stopped, the pin still
its own; then the pin back, the state still active) and entering (state active,
the pin not yet taken; then taken, not started). One step per action, and the
interrupt, which touches neither pins nor state, leaves it alone.

The other three are about what a motor hears, several writes and interrupts after
the decision. They share `Masked` (from which write of an iteration on the mask
of a motor follows passthrough, and that a masked motor has zero or is the one
being written) and `Clocked` (the end of the block, the last activity and the age
of the override, against the clock: the only place where the wrap enters).
`SilentAfterPassthrough` adds `Hushed`: behind a mask that is taken away there is
zero, and whatever a FIFO still holds is zero. `OverridesStayFresh` adds
`Drained`, which says where frames can be left in a state machine that is off
(only on the way into a passthrough, before its delay has run), and `Fresh`: no
place holds a throttle that is older than its place allows, neither mailbox,
decision and value nor FIFO. `FailsafeStops` needs that the failsafe, the mode
and the override are decided from one reading of the clock: after `spun` the
values are those of an iteration whose start was already too late.

`HostLinkProofs`, for any bytes on the link, requests, faults and ESCs
(`HostInv`). `AsksOnlyConnected` rests on `Known`: which exchanges are left in a
job, and that an ESC the server has in hand (`g_device_info`) is the one on the
line of the passthrough motor, but between the selection of another motor for a
reset and the run command, where the server uses the data of one ESC to talk to
another (section 5) and asks it nothing. `OkMeansDone` rests on `Honest`: a job
that began with nothing outstanding and still says Ok either has the exchange
that does the work ahead of it, last and with nothing outstanding, or the ESC has
done it. What the provers showed: without `caught_up` the property is false, and
the run did not find it, since its host never left the address out. The run
does so now.

`DebugLogProofs`, for any queue size, clock and number of calls
(`LogAssumption`). The invariant speaks of one sequence, `Kept`: what is printed,
in the logger's hand, in the queue and being tried again. An action either moves
an event along it, adds one at its end, or takes the last one off and counts it,
and `Account` (length plus drops is the number of calls; increasing; nothing
above the last call) survives each. That a line is not swallowed by a UART not
yet set up is `Places`. `ReportsNeverExceed` rests on `Drops`: the number in the
report is at most what the next store adds, since the counter only grows
between the two reads.

Only model-checked: all liveness properties (TLAPS 1.4.5 has no ENABLED), and
`OnlyWholeFrames` of `HostLink`: it would need an assumption on the checksums of
every broken prefix followed by other frames, which are folds over the bytes, and
that assumption would say nearly what the property says.

## 5. Where the code and the documents differ

Two in the firmware are runs that expect a violation, with a finding in `PROJECT.json`:

- `passthrough_idle`: the idle time of the bridge is not restarted when
  passthrough begins (`msp.cpp:762`), so a passthrough begun more than a second
  after boot or the last 4-way byte is ended by the first idle poll.
- `dshot_half_range`: the resume time is compared modulo 2^32 for ever
  (`esc_passthrough.cpp:36`), so DShot is forced off without any passthrough
  from 35.8 minutes after boot for as long. In the run there is no passthrough
  either: half a turn of the clock after start the loop takes the motors for blocked.

Six in the hardware are reproduced by configurations of their own. Each states
one property that the documents claim, and TLC finds it violated
(`tlc -config <cfg> <module>`):

- `MCFcspIngressPing.cfg` (MCFcspIngress, *QuietMeansDelivered*): frames of one
  payload byte in one burst are lost, since `o_frame_done` is a pulse and the
  gate looks at it only in `S_CAPTURE` (`fcsp_crc_gate.sv:226`);
  `docs/FCSP_SPI_TRANSPORT.md:21` says "one burst may contain multiple
  concatenated frames".
- `MCFcspTransportUart.cfg` (MCFcspTransport, *TagIsSource*): with
  `fcsp_uart_byte_stream` in front, USB frames are locked and tagged as SPI a
  cycle after the sync byte (`fcsp_offloader_top.sv:211`; `docs/DESIGN.md:1469`).
- `MCFcspTransportAfterSpi.cfg` (MCFcspTransport, *EveryFrameParsed*): after an
  SPI frame the parser is held cleared while CS is high, so USB is dead until
  the next SPI burst (`fcsp_offloader_top.sv:238`; `docs/DESIGN.md:129`).
- `MCFcspTxPathDual.cfg` (MCFcspTxPath, *UsbGetsEveryFrameOnce*): a response to
  SPI reaches USB with doubled bytes, since the USB port does not wait for the
  SPI port (`fcsp_offloader_top.sv:673`; `docs/DESIGN.md:260`).
- `MCSerialDshotMuxWatchdog.cfg` (MCSerialDshotMux,
  *PassthroughLastsUntilSilence*): a passthrough after one that ended by the
  watchdog lasts one clock, since `watchdog_timer` still holds the limit
  (`wb_serial_dshot_mux.sv:166` against its line 5).
- `MCEscUartSlow.cfg` (MCEscUart, *RepliesDelivered*): an answer of five bytes loses
  one behind a wire whose frames take one and a half bytes of the line, with nothing
  else on the wire, since the port waits for the packetizer
  (`fcsp_stream_packetizer.sv:43`) instead of looking for the start bit
  (`wb_esc_uart.sv:276`). That is the USB port of the Tang Nano 9K at 115,200 baud
  (`fcsp_tangnano9k_top.sv:136`) and any ESC at 19,200; `docs/DESIGN.md:575` says that
  the responses of the ESC are collected and sent back.

Met in the firmware, without a run of its own. *Motors*: an override comes back
for a second, 2^32 us after the last SET_MOTOR (`pico_main.cpp:257`, "1 second
timeout for MSP overrides"); *OverrideOnlyFresh* is claimed within one turn of
the clock. *MSP*: acknowledges go out as plain v2 also for requests in v1
(`msp.cpp:364`); an inner v2 frame with a wrong CRC is acknowledged
(`msp.cpp:849`); neither parser has a timeout inside a frame, so what was broken
off is completed by the next bytes; a `$` that breaks a preamble is not tried as
the first of the next, so `$$M<` loses a frame; one byte 2 as SET_PASSTHROUGH
selects motor 1 by the multiplexer reading (`msp.cpp:550`); the manual exit
branch (`msp.cpp:593`) cannot be reached, MSP is not read while passthrough is
on. *4-way*: `DeviceReset` with address 1 and a motor number of `HAL_MAX_MOTORS`
ends passthrough and has its begin refused (`esc_4way.cpp:661`), while the
reply says Ok; erase and read do not look for a stale byte as `set_buffer` does,
and no command but InitFlash drains one, so a late success can be taken for theirs; whether the run command carries a CRC
is decided by the ESC of the motor before (`esc_4way.cpp:656`); an ESC whose
signature has a low byte of 0 counts as not connected (`esc_4way.cpp:569`); the
`kHost…TimeoutUs` constants are not used; bytes that follow Exit at once are
taken by the loop of `esc_4way_task` and lost to MSP. *Log*: a drop between the
second and the third read of the counter is never reported
(`hal_pico.cpp:147`); near the wrap of the clock a critical call gives up at
once or waits until the queue has room. *Documents*:
`docs/PICO_PIO_IMPLEMENTATION_NOTES.md:52` describes a break pulse at the start of
passthrough, the code only waits.

Met in the hardware, without a run of its own (the passing runs leave these
cases out, as section 3 says): a bus timeout inside a write leaves the rest of
its data to be taken for commands (`fcsp_wishbone_master.sv:272`;
`docs/DESIGN.md:151` wants payloads drained), and the frame after a dropped one
loses its first byte (`fcsp_tx_framer.sv:169`), a frame without payload fails
the CRC after any other frame, since `crc_idx` is not reset on that way
(`fcsp_parser.sv:168`; `docs/FCSP_PROTOCOL.md:18` allows such frames), a byte
that arrives in the clock after a read of the ESC port's receive register is
marked as read with it (`wb_esc_uart.sv:346`), and a byte written to the ESC
port is dropped when one of the stream has started since the status was read.
Read, without a run: `docs/DESIGN.md:123` says that USB wins the selection, the
code prefers SPI while CS is low; the comment at `fcsp_offloader_top.sv:670`
keeps ESC traffic off SPI, the code sends it there when the last ESC bytes came
from SPI (`:387`); `docs/DESIGN.md:184` gives a read response another format;
`docs/FCSP_PROTOCOL.md:71` has two DShot registers swapped;
`docs/DESIGN.md:207` says that the bus never hangs, `wb_serial_dshot_mux`
acknowledges one address of its page only.

## 6. How it was built, and what would come next

In this order: FIFO with its refinement; ingress; transport; wishbone master; TX
path; pin mux and ESC port; main loop and passthrough of the firmware; its log;
both servers of the firmware with host and ESC. All have proofs.

What would add most, in order: `FcspIngress` and `FcspTransport` in one module
(the tag against a frame that waits in the gate); a host that pipelines in
`HostLink`; `EscUart` and `FcspTxPath` in one module, with the framer instead of its
clock count.

## 7. Not modelled, and why

Bit timing inside SPI, the host's UART, DShot, NeoPixel and PWM signals is below
the grain of the models, and with it `wb_dshot_controller`/`dshot_out`,
`wb_neoPx`, `pwmdecoder_wb` and the PIO programs, whose logic is the timing.
`wb_io_bus` decodes addresses without state of its own. `fcsp_debug_generator` is
connected by no board; its place at the arbiter is in `FcspTxPath`.
Synthesis, pins and clocks of the board tops have no logic of their own;
`drivers/spiSlave` and `rtl/fcsp/examples` are not part of the offloader.

In the firmware: the LED, the heartbeat and the wording of the log (the encoding
of arguments of `hal_pico.cpp` always fits its buffer); `debug_uart.cpp`, of which
only `init` is called; `hal_dshot_write`, `hal_debug_putc` and the counters
nobody calls or reads; the decoding of EEPROM contents for the log. A v1 frame
longer than `rx_buf` is not sent by the hosts of `HostLink`: the parser has no
bound there (`msp.cpp:819`), unlike the one of v2 (`:894`).

The Python codec and client are another implementation of the frame format, for
the simulation and for scripts. Tests, scripts and reports describe or build the
system and have no state.

--------------------------------- MODULE EscUart ---------------------------------
(***************************************************************************)
(* wb_esc_uart: the half-duplex serial port towards an ESC, with its line. *)
(* Bytes to send come from the FCSP stream or from the bus; bytes received *)
(* go to the stream and to a register the bus can poll.  While it sends,   *)
(* and for a guard time after, the port does not listen.                   *)
(*                                                                         *)
(* The line goes through wb_serial_dshot_mux (two registers out, two in)   *)
(* in its serial mode; on it is an ESC, which is external: it samples and  *)
(* sends bits of baud_div clocks, takes turns with the host, and waits     *)
(* before it answers.  The divider is fixed: a write that changes it in    *)
(* the middle of a byte is left out.                                       *)
(*                                                                         *)
(* The stream of received bytes is read by the packetizer of the offloader *)
(* (FcspStreamPacketizer), which takes none while it hands a packet on.    *)
(* How long that lasts is up to the framer behind it: it counts down the   *)
(* clocks that frames on the wire keep it busy.                            *)
(***************************************************************************)
EXTENDS Integers, Sequences

CONSTANTS
  BITS,         \* bits of a byte, 8 in the code
  baud_div,     \* clocks per bit
  HostBytes, EscBytes,    \* bytes (BITS bits, the lowest first) of the two sides
  HOST_MAX, ESC_MAX,      \* how many bytes each side sends in all
  ReplyWaits,   \* clocks an ESC may wait before it answers
  MAX_LEN, TIMEOUT,       \* of the packetizer: 16 bytes, 1000 clocks
  FrameClocks,  \* clocks the frame of a packet keeps the framer busy
  AheadClocks   \* clocks frames of other channels may keep a packet waiting, 0 for none

ASSUME DividerAssumption == BITS \in Nat \ {0} /\ baud_div \in Nat /\ baud_div > 3
ASSUME SidesAssumption ==
  /\ HostBytes \cup EscBytes \subseteq [1 .. BITS -> {0, 1}]
  /\ HOST_MAX \in Nat /\ ESC_MAX \in Nat
  /\ ReplyWaits \subseteq Nat /\ ReplyWaits # {}
\* A frame has ten bytes besides its payload.
ASSUME WireAssumption ==
  /\ MAX_LEN \in Nat \ {0} /\ TIMEOUT \in Nat
  /\ FrameClocks \subseteq Nat \ {0, 1} /\ FrameClocks # {}
  /\ AheadClocks \subseteq Nat /\ AheadClocks # {}

VARIABLES
  tx_state, tx_out, tx_shift, tx_bit_idx, tx_counter, tx_ready, tx_active,
  tx_data_reg, tx_data_valid, tx_data_consumed,
  rx_meta, rx_sync, rx_state, rx_shift, rx_bit_idx, rx_counter,
  rx_data_reg, rx_valid, rx_read_ack, m_esc_tdata, m_esc_tvalid,
  wb_ack_o, bus,          \* the access on the bus: <<>>, <<"read">> or <<"write", b>>
  offer,                  \* s_esc: <<>> or <<b>>
  drive, pin,             \* mux: serial_tx_reg and pad_out_data with their enables
  mux_meta, mux_sync,     \* mux: synchronizer
  esc_state, esc_bit, esc_clock, esc_byte,
  turn,                   \* who may start to send
  owed,                   \* host bytes accepted and not yet heard by the ESC
  replies,                \* ESC bytes sent and not yet taken by the reader
  host_left, esc_left,
  waiting,                \* clocks a received byte has waited for the packetizer
  pk_state, pk_mem, pk_count, pk_timer, push_idx, pk_tvalid, pk_tdata, pk_tlast,
  framer_busy             \* clocks until the framer takes bytes of a packet

INSTANCE FcspStreamPacketizer WITH Byte <- EscBytes

txVars   == <<tx_state, tx_out, tx_shift, tx_bit_idx, tx_counter, tx_ready, tx_active,
              tx_data_consumed>>
rxVars   == <<rx_meta, rx_sync, rx_state, rx_shift, rx_bit_idx, rx_counter,
              rx_data_reg, rx_valid, m_esc_tdata, m_esc_tvalid>>
wbVars   == <<tx_data_reg, tx_data_valid, rx_read_ack, wb_ack_o, bus>>
lineVars == <<drive, pin, mux_meta, mux_sync>>
envVars  == <<offer, esc_state, esc_bit, esc_clock, esc_byte, turn, owed, replies,
              host_left, esc_left, waiting>>
vars     == <<txVars, rxVars, wbVars, lineVars, envVars, packetizerVars, framer_busy>>

ShiftIn(s, b) == Append(Tail(s), b)
lastClock == baud_div - 1
half_bit  == baud_div \div 2

\* The pace of an ESC: from the middle of its last stop bit it waits until the guard bit
\* is over and the port is off the line.
ASSUME PaceAssumption == \A w \in ReplyWaits : w + 2 >= 2 * baud_div - half_bit

\* A wire fast enough for answers of any length: a packet that was cut by the silence
\* after a byte has left before the next byte of the line is there.
Away == (BITS + 2) * baud_div - TIMEOUT - MAX_LEN - 4
WireIsFast == \A f \in FrameClocks, a \in AheadClocks : f + a <= Away

--------------------------------------------------------------------------------
\* Transmitter.
TxStates == {"IDLE", "START", "DATA", "STOP", "GUARD"}

s_esc_tready == tx_state = "IDLE" /\ ~tx_data_valid
StreamTaken  == s_esc_tready /\ offer # <<>>

\* A start that takes the byte of the register for sent, also when it was the stream's.
TxIdle_ConsumeAny ==
  LET go == tx_data_valid \/ offer # <<>> IN
  /\ tx_state = "IDLE"
  /\ tx_state' = IF go THEN "START" ELSE "IDLE"
  /\ tx_out' = IF go THEN 0 ELSE 1
  /\ tx_ready' = ~go /\ tx_active' = go
  /\ tx_data_consumed' = go
  /\ tx_shift' = IF tx_data_valid THEN tx_data_reg
                 ELSE IF offer # <<>> THEN offer[1] ELSE tx_shift
  /\ tx_counter' = IF go THEN lastClock ELSE tx_counter
  /\ UNCHANGED tx_bit_idx

\* A byte of the stream goes first, though s_esc_tready says it has to wait.
TxIdle_StreamFirst ==
  LET go == tx_data_valid \/ offer # <<>> IN
  /\ tx_state = "IDLE"
  /\ tx_state' = IF go THEN "START" ELSE "IDLE"
  /\ tx_out' = IF go THEN 0 ELSE 1
  /\ tx_ready' = ~go /\ tx_active' = go
  /\ tx_data_consumed' = tx_data_valid
  /\ tx_shift' = IF offer # <<>> THEN offer[1]
                 ELSE IF tx_data_valid THEN tx_data_reg ELSE tx_shift
  /\ tx_counter' = IF go THEN lastClock ELSE tx_counter
  /\ UNCHANGED tx_bit_idx

\* A byte of the bus goes before one of the stream.
TxIdle ==
  LET go == tx_data_valid \/ offer # <<>> IN
  /\ tx_state = "IDLE"
  /\ tx_state' = IF go THEN "START" ELSE "IDLE"
  /\ tx_out' = IF go THEN 0 ELSE 1
  /\ tx_ready' = ~go /\ tx_active' = go
  /\ tx_data_consumed' = tx_data_valid
  /\ tx_shift' = IF tx_data_valid THEN tx_data_reg
                 ELSE IF offer # <<>> THEN offer[1] ELSE tx_shift
  /\ tx_counter' = IF go THEN lastClock ELSE tx_counter
  /\ UNCHANGED tx_bit_idx

\* Inside a bit time the transmitter counts.
TxCount ==
  /\ tx_state # "IDLE" /\ tx_counter > 0
  /\ tx_counter' = tx_counter - 1
  /\ tx_data_consumed' = FALSE
  /\ UNCHANGED <<tx_state, tx_out, tx_shift, tx_bit_idx, tx_ready, tx_active>>

TxStart ==
  /\ tx_state = "START" /\ tx_counter = 0
  /\ tx_state' = "DATA" /\ tx_counter' = lastClock
  /\ tx_out' = tx_shift[1] /\ tx_bit_idx' = 0
  /\ tx_data_consumed' = FALSE
  /\ UNCHANGED <<tx_shift, tx_ready, tx_active>>

TxData ==
  LET last == tx_bit_idx = BITS - 1 IN
  /\ tx_state = "DATA" /\ tx_counter = 0
  /\ tx_shift' = ShiftIn(tx_shift, 0) /\ tx_counter' = lastClock
  /\ tx_state' = IF last THEN "STOP" ELSE "DATA"
  /\ tx_out' = IF last THEN 1 ELSE tx_shift[2]
  /\ tx_bit_idx' = IF last THEN tx_bit_idx ELSE tx_bit_idx + 1
  /\ tx_data_consumed' = FALSE
  /\ UNCHANGED <<tx_ready, tx_active>>

\* A guard of two bits.
TxStop_LongGuard ==
  /\ tx_state = "STOP" /\ tx_counter = 0
  /\ tx_state' = "GUARD" /\ tx_counter' = 2 * baud_div - 1
  /\ tx_data_consumed' = FALSE
  /\ UNCHANGED <<tx_out, tx_shift, tx_bit_idx, tx_ready, tx_active>>

TxStop ==
  /\ tx_state = "STOP" /\ tx_counter = 0
  /\ tx_state' = "GUARD" /\ tx_counter' = lastClock
  /\ tx_data_consumed' = FALSE
  /\ UNCHANGED <<tx_out, tx_shift, tx_bit_idx, tx_ready, tx_active>>

TxGuard ==
  /\ tx_state = "GUARD" /\ tx_counter = 0
  /\ tx_state' = "IDLE" /\ tx_active' = FALSE
  /\ tx_data_consumed' = FALSE
  /\ UNCHANGED <<tx_out, tx_shift, tx_bit_idx, tx_counter, tx_ready>>

TxClock == TxIdle \/ TxCount \/ TxStart \/ TxData \/ TxStop \/ TxGuard

--------------------------------------------------------------------------------
\* Receiver.  Its output byte and flags first: what a handshake or a read clears.
RxStates == {"IDLE", "START", "DATA", "STOP", "WAIT_STREAM"}

\* A byte that is offered for one clock.
NoNewByte_Pulse(m_tready) ==
  /\ m_esc_tvalid' = FALSE
  /\ rx_valid' = (rx_valid /\ ~rx_read_ack)
  /\ UNCHANGED <<m_esc_tdata, rx_data_reg>>

NoNewByte(m_tready) ==
  /\ m_esc_tvalid' = (m_esc_tvalid /\ ~m_tready)
  /\ rx_valid' = (rx_valid /\ ~rx_read_ack)
  /\ UNCHANGED <<m_esc_tdata, rx_data_reg>>

NewByte ==
  /\ m_esc_tdata' = rx_shift /\ m_esc_tvalid' = TRUE
  /\ rx_data_reg' = rx_shift /\ rx_valid' = TRUE

\* While the port sends it hears nothing.
RxOff(m_tready) ==
  /\ tx_active
  /\ rx_state' = "IDLE"
  /\ NoNewByte(m_tready)
  /\ UNCHANGED <<rx_shift, rx_bit_idx, rx_counter>>

\* A start bit is looked for only with room for the byte.
RxIdle(m_tready) ==
  LET start == rx_sync = 0 /\ (~m_esc_tvalid \/ m_tready) IN
  /\ rx_state = "IDLE"
  /\ rx_state' = IF start THEN "START" ELSE "IDLE"
  /\ rx_counter' = IF start THEN half_bit - 1 ELSE rx_counter
  /\ NoNewByte(m_tready)
  /\ UNCHANGED <<rx_shift, rx_bit_idx>>

RxCount(m_tready) ==
  /\ rx_state \in {"START", "DATA", "STOP"} /\ rx_counter > 0
  /\ rx_counter' = rx_counter - 1
  /\ NoNewByte(m_tready)
  /\ UNCHANGED <<rx_state, rx_shift, rx_bit_idx>>

\* The middle of the start bit.
RxStart(m_tready) ==
  /\ rx_state = "START" /\ rx_counter = 0
  /\ rx_state' = IF rx_sync = 0 THEN "DATA" ELSE "IDLE"
  /\ rx_counter' = IF rx_sync = 0 THEN lastClock ELSE 0
  /\ rx_bit_idx' = IF rx_sync = 0 THEN 0 ELSE rx_bit_idx
  /\ NoNewByte(m_tready)
  /\ UNCHANGED rx_shift

RxData(m_tready) ==
  LET last == rx_bit_idx = BITS - 1 IN
  /\ rx_state = "DATA" /\ rx_counter = 0
  /\ rx_shift' = ShiftIn(rx_shift, rx_sync) /\ rx_counter' = lastClock
  /\ rx_state' = IF last THEN "STOP" ELSE "DATA"
  /\ rx_bit_idx' = IF last THEN rx_bit_idx ELSE rx_bit_idx + 1
  /\ NoNewByte(m_tready)

\* The middle of the stop bit: the byte is there; the port waits for its reader.
RxStop(m_tready) ==
  /\ rx_state = "STOP" /\ rx_counter = 0
  /\ IF rx_sync = 1 THEN NewByte ELSE NoNewByte(m_tready)
  /\ rx_state' = IF (rx_sync = 1 \/ m_esc_tvalid) /\ ~m_tready
                 THEN "WAIT_STREAM" ELSE "IDLE"
  /\ UNCHANGED <<rx_shift, rx_bit_idx, rx_counter>>

RxWait(m_tready) ==
  /\ rx_state = "WAIT_STREAM"
  /\ rx_state' = IF m_tready THEN "IDLE" ELSE "WAIT_STREAM"
  /\ NoNewByte(m_tready)
  /\ UNCHANGED <<rx_shift, rx_bit_idx, rx_counter>>

RxListen(m_tready) ==
  \/ RxIdle(m_tready) \/ RxCount(m_tready) \/ RxStart(m_tready)
  \/ RxData(m_tready) \/ RxStop(m_tready) \/ RxWait(m_tready)

\* A port that listens while it sends.
Receive_Always(m_tready) == RxListen(m_tready)

Receive(m_tready) == RxOff(m_tready) \/ (~tx_active /\ RxListen(m_tready))

RxClock(m_tready) ==
  /\ rx_meta' = mux_sync /\ rx_sync' = rx_meta
  /\ Receive(m_tready)

--------------------------------------------------------------------------------
\* The bus.  A byte written while the port is not ready is dropped.
Written == bus # <<>> /\ bus[1] = "write" /\ ~wb_ack_o /\ tx_ready

WbClock ==
  /\ wb_ack_o' = (bus # <<>> /\ ~wb_ack_o)
  /\ rx_read_ack' = (bus # <<>> /\ bus[1] = "read" /\ wb_ack_o)
  /\ tx_data_reg' = IF Written THEN bus[2] ELSE tx_data_reg
  /\ tx_data_valid' = (Written \/ (tx_data_valid /\ ~tx_data_consumed))

--------------------------------------------------------------------------------
\* The line: what the port drives, or what the ESC drives, or the pull-up.
EscLevel ==
  IF esc_state # "send" \/ esc_bit = BITS + 1 THEN 1
  ELSE IF esc_bit = 0 THEN 0 ELSE esc_byte[esc_bit]
Line == IF pin.oe THEN pin.tx ELSE EscLevel

LineClock ==
  /\ drive' = [oe |-> tx_active, tx |-> tx_out]
  /\ pin' = drive
  /\ mux_meta' = Line /\ mux_sync' = mux_meta

--------------------------------------------------------------------------------
(***************************************************************************)
(* The ESC, external.  It listens for the start bit, takes each bit in its *)
(* middle, and after a byte, once the host has nothing more to say, it may *)
(* take the turn.                                                          *)
(***************************************************************************)
EscTimePasses ==
  IF esc_clock = lastClock THEN esc_clock' = 0 /\ esc_bit' = esc_bit + 1
  ELSE esc_clock' = esc_clock + 1 /\ UNCHANGED esc_bit

EscMiddle == esc_state = "hear" /\ esc_clock = half_bit
EscHears  == EscMiddle /\ esc_bit = BITS + 1 /\ Line = 1

HostSilent == owed = <<esc_byte>> /\ offer = <<>> /\ bus \in {<<>>, <<"read">>}

\* The ESC begins a byte of its answer.
EscSend ==
  /\ esc_left > 0 /\ esc_left' = esc_left - 1
  /\ esc_state' = "send" /\ esc_bit' = 0 /\ esc_clock' = 0
  /\ esc_byte' \in EscBytes
  /\ UNCHANGED turn

EscIdle ==
  /\ esc_state = "idle"
  /\ esc_state' = IF Line = 0 THEN "hear" ELSE "idle"
  /\ esc_clock' = IF Line = 0 THEN 1 ELSE 0
  /\ UNCHANGED <<esc_bit, esc_byte, turn, esc_left>>

EscHear ==
  /\ esc_state = "hear" /\ ~(EscMiddle /\ esc_bit = BITS + 1)
  /\ EscTimePasses
  /\ esc_byte' = IF EscMiddle /\ esc_bit > 0 THEN [esc_byte EXCEPT ![esc_bit] = Line]
                 ELSE esc_byte
  /\ UNCHANGED <<esc_state, turn, esc_left>>

EscByteEnds ==
  /\ EscMiddle /\ esc_bit = BITS + 1 /\ esc_bit' = 0
  /\ \/ esc_state' = "idle" /\ esc_clock' = 0 /\ turn' = turn
     \/ /\ EscHears /\ HostSilent /\ esc_left > 0
        /\ esc_state' = "wait" /\ esc_clock' \in ReplyWaits /\ turn' = "esc"
  /\ UNCHANGED <<esc_byte, esc_left>>

EscWait ==
  /\ esc_state = "wait"
  /\ IF esc_clock = 0 THEN EscSend
     ELSE /\ esc_clock' = esc_clock - 1
          /\ UNCHANGED <<esc_state, esc_bit, esc_byte, turn, esc_left>>

EscSending ==
  /\ esc_state = "send"
  /\ IF esc_bit <= BITS \/ esc_clock < lastClock
     THEN EscTimePasses /\ UNCHANGED <<esc_state, esc_byte, turn, esc_left>>
     ELSE \/ EscSend
          \/ /\ esc_state' = "idle" /\ esc_bit' = 0 /\ esc_clock' = 0 /\ turn' = "host"
             /\ UNCHANGED <<esc_byte, esc_left>>

EscClock == EscIdle \/ EscHear \/ EscByteEnds \/ EscWait \/ EscSending

(***************************************************************************)
(* The host, external: it speaks in its turn, when it has the whole answer *)
(* before, by the stream or by the bus, and polls the received byte.       *)
(***************************************************************************)
HostMaySpeak == turn' = "host" /\ replies = <<>>

OfferClock ==
  IF offer # <<>> /\ ~StreamTaken THEN UNCHANGED offer
  ELSE offer' \in {<<>>} \cup {<<b>> : b \in HostBytes}

BusClock ==
  IF bus # <<>> THEN bus' = IF wb_ack_o THEN <<>> ELSE bus
  ELSE \/ bus' = <<>>
       \/ rx_valid /\ bus' = <<"read">>
       \/ \E b \in HostBytes : bus' = <<"write", b>>

OffersMore == offer' # <<>> /\ (offer = <<>> \/ StreamTaken)
WritesMore == bus' # <<>> /\ bus = <<>> /\ bus'[1] = "write"

Bytes(says) == IF says THEN 1 ELSE 0
HostClock ==
  /\ OfferClock /\ BusClock
  /\ OffersMore \/ WritesMore => HostMaySpeak
  /\ host_left' = host_left - Bytes(OffersMore) - Bytes(WritesMore)
  /\ host_left' >= 0

--------------------------------------------------------------------------------
(***************************************************************************)
(* Arbiter and framer, as the packetizer sees them.  A packet that begins  *)
(* waits for the grant: two clocks, the rest of a frame of its own, or     *)
(* longer for other channels.  Its last byte taken, its frame goes out.    *)
(***************************************************************************)
PacketBegins == pk_state = "FILL" /\ pk_state' = "PUSH"
PacketTaken  == pk_tvalid /\ pk_tlast /\ framer_busy = 0
FramerClock ==
  LET rest  == IF framer_busy > 0 THEN framer_busy - 1 ELSE 0
      grant == IF rest > 2 THEN rest ELSE 2 IN
  \/ PacketBegins /\ \E a \in AheadClocks : framer_busy' = grant + a
  \/ PacketTaken /\ framer_busy' \in FrameClocks
  \/ ~PacketBegins /\ ~PacketTaken /\ framer_busy' = rest

\* What is under way in each direction.
UnderWay(m_tready) ==
  /\ owed' = (IF EscHears /\ owed # <<>> THEN Tail(owed) ELSE owed)
             \o (IF StreamTaken THEN offer ELSE <<>>)
             \o (IF Written THEN <<bus[2]>> ELSE <<>>)
  /\ replies' = (IF m_esc_tvalid /\ m_tready /\ replies # <<>> THEN Tail(replies)
                 ELSE replies)
                \o (IF esc_left' < esc_left THEN <<esc_byte'>> ELSE <<>>)
  /\ waiting' = IF m_esc_tvalid /\ ~m_tready THEN waiting + 1 ELSE 0

--------------------------------------------------------------------------------
AllZero == [b \in 1 .. BITS |-> 0]

Init ==
  /\ tx_state = "IDLE" /\ tx_out = 1 /\ tx_shift = AllZero /\ tx_bit_idx = 0
  /\ tx_counter = 0 /\ tx_ready = TRUE /\ tx_active = FALSE
  /\ tx_data_reg = AllZero /\ tx_data_valid = FALSE /\ tx_data_consumed = FALSE
  /\ rx_meta = 1 /\ rx_sync = 1 /\ rx_state = "IDLE" /\ rx_shift = AllZero
  /\ rx_bit_idx = 0 /\ rx_counter = 0 /\ rx_data_reg = AllZero /\ rx_valid = FALSE
  /\ rx_read_ack = FALSE /\ m_esc_tdata = AllZero /\ m_esc_tvalid = FALSE
  /\ wb_ack_o = FALSE /\ bus = <<>> /\ offer = <<>>
  /\ drive = [oe |-> FALSE, tx |-> 1] /\ pin = drive /\ mux_meta = 1 /\ mux_sync = 1
  /\ esc_state = "idle" /\ esc_bit = 0 /\ esc_clock = 0 /\ esc_byte = AllZero
  /\ turn = "host"
  /\ owed = <<>> /\ replies = <<>> /\ waiting = 0
  /\ host_left = HOST_MAX /\ esc_left = ESC_MAX
  /\ PacketizerInit /\ framer_busy = 0

\* One clock of everything.
Clock ==
  /\ TxClock /\ RxClock(pk_tready) /\ WbClock /\ LineClock
  /\ EscClock /\ HostClock /\ UnderWay(pk_tready)
  /\ PacketizerClock(m_esc_tvalid, m_esc_tdata, framer_busy = 0)
  /\ FramerClock

Next == Clock

Spec == Init /\ [][Next]_vars /\ WF_vars(Next)

--------------------------------------------------------------------------------
(***************************************************************************)
(* Properties.                                                             *)
(***************************************************************************)
\* Every byte the ESC reads from the line is the oldest one the port has accepted and
\* not yet sent, whether it came by the stream or the bus, also when both came at one
\* edge: none is changed, doubled, overtaken or made up.
HostBytesHeard == EscHears => owed # <<>> /\ esc_byte = Head(owed)

\* Every byte the port hands to the stream is the oldest one the ESC has sent and that
\* was not handed over yet; the port never hears itself.
RepliesDelivered == m_esc_tvalid => replies # <<>> /\ m_esc_tdata = Head(replies)

\* The port has left the line when the ESC starts to answer.
OneTalker == ~(pin.oe /\ esc_state = "send")

\* What either side has said arrives: no accepted byte is forgotten by the transmitter,
\* and no answer is missed because the port was in its guard time or waiting for the
\* packetizer to take the byte before.
EveryByteArrives == (owed # <<>> \/ replies # <<>>) ~> (owed = <<>> /\ replies = <<>>)

================================================================================

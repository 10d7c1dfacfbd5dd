----------------------------- MODULE MotorPinProofs -----------------------------
(***************************************************************************)
(* Proofs about the two modules between the bus and the motor pins.        *)
(*                                                                         *)
(* SerialDshotMux, for every number of motors, every watchdog limit and    *)
(* every set of register values: the motor lines have one owner at a time, *)
(* and the PC link takes and keeps them as it should.                      *)
(*                                                                         *)
(* EscUart, for every byte width, every divider of four clocks and more,   *)
(* all bytes and any number of them: what either side sends reaches the    *)
(* other as it is and in its order, and the two never talk at once.  What  *)
(* the ESC sends needs a wire that is fast enough (WireIsFast); the rest   *)
(* holds for every pace of the packetizer that reads the port.             *)
(***************************************************************************)
EXTENDS SerialDshotMux, EscUart, Integers, SequenceTheorems, TLAPS

--------------------------------------------------------------------------------
\* The multiplexer.

\* The pad registers carry what the previous selection asked for.
PadsFollow ==
  \A i \in Channels :
    /\ pad[i] = "dshot" => prev_mux_sel
    /\ pad[i] \in {"serial", "low"} => ~prev_mux_sel /\ i = prev_mux_ch

\* The sniffer is as far in a header as the link is.
SnifferFollows ==
  /\ sniff_state = "DOLLAR" => 1 \in open
  /\ sniff_state = "M" => 2 \in open
  /\ sniff_state = "ARROW" => 3 \in open
  /\ sniff_state = "SIZE" => 4 \in open

\* The timer has counted all of the silence, and maybe more.
TimerFollows == auto_passthrough_active => quiet <= watchdog_timer

\* The pipeline to the bridge: a clock after a switch the pads follow the selection,
\* then the first stage of the synchronizer, then the second.
FromMotor(s) == s.ch = mux_ch /\ (~effective_mux_sel => s.from # "dshot")
PipeFollows ==
  /\ settled >= 1 => prev_mux_sel = effective_mux_sel /\ prev_mux_ch = mux_ch
  /\ settled >= 2 => FromMotor(serial_rx_meta)
  /\ settled >= 3 => FromMotor(serial_rx_sync)

MuxInv == TypeOK /\ PadsFollow /\ SnifferFollows /\ TimerFollows /\ PipeFollows

\* The two kinds of selection, and that a channel is one of the pads.
LEMMA SelectionType ==
  ASSUME TypeOK
  PROVE  /\ effective_mux_sel \in BOOLEAN /\ Changed \in BOOLEAN
         /\ \A i \in Channels : PadInput(i) \in Drivers \cup {"none"}
BY DEF TypeOK, effective_mux_sel, Changed, PadInput, Drivers

\* The types after a clock edge.
LEMMA ClockTypeOK ==
  ASSUME TypeOK, NEW b \in PcBytes \cup {NoByte}, NEW oe \in BOOLEAN, MuxClock(b, oe)
  PROVE  TypeOK'
<1>1. /\ reg_mux_sel' \in BOOLEAN /\ mux_ch' \in Channels /\ reg_force_low' \in BOOLEAN
      /\ reg_auto_passthrough_en' \in BOOLEAN /\ mux_wb_ack_o' \in BOOLEAN
  <2>1. CASE \E stb \in BOOLEAN : Keep(stb)
    BY <2>1 DEF Keep, Access, TypeOK
  <2>2. CASE \E v \in RegValues : Write(v)
    <3>1. PICK v \in RegValues : Write(v)
      BY <2>2
    <3>2. v \in [sel : BOOLEAN, ch : Channels, low : BOOLEAN, auto : BOOLEAN]
      BY RegAssumption DEF Channels
    <3> QED
      BY <3>1, <3>2 DEF Write, Access, TypeOK
  <2> QED
    BY <2>1, <2>2 DEF MuxClock
<1>2. sniff_state' \in SniffStates
  BY DEF MuxClock, Sniffer, SniffNext, SniffStates, TypeOK
<1>3. auto_passthrough_active' \in BOOLEAN
  BY DEF MuxClock, Sniffer
<1>4. watchdog_timer' \in 0 .. WATCHDOG_LIMIT
  BY MuxAssumption DEF MuxClock, Sniffer, Expires, TypeOK
<1>5. /\ prev_mux_sel' \in BOOLEAN /\ prev_mux_ch' \in Channels
      /\ global_tristate' \in BOOLEAN
  BY SelectionType DEF MuxClock, Pads, Release, TypeOK
<1>6. serial_oe_reg' \in BOOLEAN /\ pad' \in [Channels -> Drivers \cup {"none"}]
  BY SelectionType DEF MuxClock, Pads
<1>7. \A s \in {serial_rx_meta', serial_rx_sync'} :
        s.ch \in Channels /\ s.from \in Drivers \cup {"line"}
  <2>1. Tap.ch \in Channels /\ Tap.from \in Drivers \cup {"line"}
    BY DEF Tap, Drives, TypeOK
  <2> QED
    BY <2>1 DEF MuxClock, Pads, TypeOK
<1>8. quiet' \in 0 .. Long /\ open' \subseteq 1 .. 4
  <2>1. quiet' \in 0 .. Long
    BY MuxAssumption DEF MuxClock, Watch, Long, TypeOK
  <2>2. open' \subseteq 1 .. 4
    BY DEF MuxClock, Watch, TypeOK
  <2> QED
    BY <2>1, <2>2
<1>9. settled' \in 0 .. 3
  BY DEF MuxClock, Watch, TypeOK
<1> QED
  BY <1>1, <1>2, <1>3, <1>4, <1>5, <1>6, <1>7, <1>8, <1>9 DEF TypeOK

\* The pads after a clock edge follow the selection before it.
LEMMA PadStep ==
  ASSUME TypeOK, NEW oe \in BOOLEAN, Pads(oe)
  PROVE  PadsFollow'
BY DEF Pads, Release, PadInput, PadsFollow, effective_mux_sel, TypeOK

\* One edge of the sniffer, with the history of the link.
LEMMA SnifferStep ==
  ASSUME SnifferFollows, sniff_state \in SniffStates, NEW b \in PcBytes \cup {NoByte},
         Sniffer(b), Watch(b)
  PROVE  SnifferFollows'
<1>1. CASE ~reg_auto_passthrough_en
  BY <1>1 DEF Sniffer, SnifferFollows
<1>2. CASE reg_auto_passthrough_en /\ b = NoByte
  BY <1>2 DEF Sniffer, Watch, SnifferFollows
<1>3. CASE reg_auto_passthrough_en /\ b # NoByte
  <2>1. sniff_state' = SniffNext(b)
    BY <1>3 DEF Sniffer
  <2>2. \A k \in 1 .. 4 : k \in open' <=> Follows(k, b) /\ (k = 1 \/ k - 1 \in open)
    BY <1>3 DEF Watch
  <2>3. /\ b = "$" => 1 \in open'
        /\ b = "M" /\ 1 \in open => 2 \in open'
        /\ b = "<" /\ 2 \in open => 3 \in open'
        /\ 3 \in open => 4 \in open'
    BY <2>2 DEF Follows
  <2> QED
    BY <2>1, <2>3 DEF SniffNext, SniffStates, SnifferFollows
<1> QED
  BY <1>1, <1>2, <1>3

\* One edge of the watchdog.
LEMMA TimerStep ==
  ASSUME TypeOK, TimerFollows, NEW b \in PcBytes \cup {NoByte}, Sniffer(b), Watch(b)
  PROVE  TimerFollows'
<1>1. CASE b # NoByte
  <2>1. quiet' = 0 /\ watchdog_timer' \in Nat
    BY <1>1, MuxAssumption DEF Watch, Sniffer, Expires, TypeOK
  <2> QED
    BY <2>1 DEF TimerFollows
<1>2. CASE b = NoByte
  <2>1. auto_passthrough_active' => auto_passthrough_active /\ ~Expires
    BY <1>2 DEF Sniffer, Triggers, NoByte
  <2>2. auto_passthrough_active' =>
          watchdog_timer' = watchdog_timer + 1 /\ quiet' <= quiet + 1
    BY <1>2, <2>1, MuxAssumption DEF Sniffer, Watch, Long, TypeOK
  <2>3. auto_passthrough_active' => quiet <= watchdog_timer
    BY <2>1 DEF TimerFollows
  <2>4. quiet' \in Nat /\ quiet \in Nat /\ watchdog_timer \in Nat
    BY <1>2, MuxAssumption DEF Watch, Long, TypeOK
  <2> QED
    BY <2>2, <2>3, <2>4 DEF TimerFollows
<1> QED
  BY <1>1, <1>2

\* One edge of the pipeline to the bridge.
LEMMA PipeStep ==
  ASSUME TypeOK, PadsFollow, PipeFollows, NEW b \in PcBytes \cup {NoByte},
         NEW oe \in BOOLEAN, Pads(oe), Watch(b)
  PROVE  PipeFollows'
<1>1. CASE effective_mux_sel' # effective_mux_sel \/ mux_ch' # mux_ch
  BY <1>1 DEF Watch, PipeFollows
<1>2. CASE effective_mux_sel' = effective_mux_sel /\ mux_ch' = mux_ch
  <2>1. /\ settled' >= 2 => settled >= 1
        /\ settled' >= 3 => settled >= 2
    BY <1>2 DEF Watch, TypeOK
  <2>2. prev_mux_sel' = effective_mux_sel' /\ prev_mux_ch' = mux_ch'
    BY <1>2 DEF Pads, Release
  <2>3. settled >= 1 => FromMotor(Tap)
    BY DEF PipeFollows, PadsFollow, FromMotor, Tap, Drives, TypeOK
  <2>4. /\ serial_rx_meta' = Tap /\ serial_rx_sync' = serial_rx_meta
    BY DEF Pads
  <2>5. settled' >= 2 => FromMotor(serial_rx_meta)'
    BY <1>2, <2>1, <2>3, <2>4 DEF FromMotor
  <2>6. settled' >= 3 => FromMotor(serial_rx_sync)'
    BY <1>2, <2>1, <2>4 DEF FromMotor, PipeFollows
  <2> QED
    BY <2>2, <2>5, <2>6 DEF PipeFollows
<1> QED
  BY <1>1, <1>2

\* Reset establishes the invariant.
LEMMA MuxInitInv == MuxInit => MuxInv
<1> SUFFICES ASSUME MuxInit PROVE MuxInv
  OBVIOUS
<1>1. TypeOK
  <2>1. /\ 0 \in Channels /\ 0 \in 0 .. WATCHDOG_LIMIT /\ 0 \in 0 .. Long
        /\ 3 \in 0 .. 3
    BY MuxAssumption DEF Channels, Long
  <2>2. pad \in [Channels -> Drivers \cup {"none"}]
    BY DEF MuxInit, Drivers
  <2>3. \A s \in {serial_rx_meta, serial_rx_sync} :
          s.ch \in Channels /\ s.from \in Drivers \cup {"line"}
    BY <2>1 DEF MuxInit
  <2>4. /\ watchdog_timer \in 0 .. WATCHDOG_LIMIT /\ quiet \in 0 .. Long
        /\ settled \in 0 .. 3 /\ open \subseteq 1 .. 4
    BY <2>1 DEF MuxInit
  <2> QED
    BY <2>1, <2>2, <2>3, <2>4 DEF MuxInit, TypeOK, SniffStates
<1>2. PadsFollow /\ SnifferFollows /\ TimerFollows /\ PipeFollows
  BY DEF MuxInit, PadsFollow, SnifferFollows, TimerFollows, PipeFollows, FromMotor,
         effective_mux_sel
<1> QED
  BY <1>1, <1>2 DEF MuxInv

\* The invariant is inductive.
LEMMA MuxNextInv == MuxInv /\ [MuxNext]_muxVars => MuxInv'
<1> SUFFICES ASSUME MuxInv, [MuxNext]_muxVars PROVE MuxInv'
  OBVIOUS
<1>1. CASE MuxNext
  <2>1. PICK b \in PcBytes \cup {NoByte}, oe \in BOOLEAN : MuxClock(b, oe)
    BY <1>1 DEF MuxNext
  <2>2. Sniffer(b) /\ Pads(oe) /\ Watch(b)
    BY <2>1 DEF MuxClock
  <2>3. TypeOK'
    BY <2>1, ClockTypeOK DEF MuxInv
  <2>4. PadsFollow' /\ TimerFollows' /\ PipeFollows'
    BY <2>2, PadStep, TimerStep, PipeStep DEF MuxInv
  <2>5. SnifferFollows'
    BY <2>2, SnifferStep DEF MuxInv, TypeOK
  <2> QED
    BY <2>3, <2>4, <2>5 DEF MuxInv
<1>2. CASE UNCHANGED muxVars
  <2> USE <1>2 DEF muxVars, regVars, sniffVars, padVars, MuxInv
  <2>1. TypeOK'
    BY DEF TypeOK
  <2>2. PadsFollow' /\ SnifferFollows' /\ TimerFollows'
    BY DEF PadsFollow, SnifferFollows, TimerFollows
  <2>3. PipeFollows'
    BY DEF PipeFollows, FromMotor, effective_mux_sel
  <2> QED
    BY <2>1, <2>2, <2>3
<1> QED
  BY <1>1, <1>2

\* The registers of the multiplexer stay in their ranges.
THEOREM TypeCorrect == MuxSpec => []TypeOK
<1>1. MuxInv => TypeOK
  BY DEF MuxInv
<1> QED
  BY <1>1, MuxInitInv, MuxNextInv, PTL DEF MuxSpec

\* At any number of motors the lines pass from one owner to the next only through a
\* cycle in which all pads are released (wb_serial_dshot_mux.sv 187-246).
THEOREM LinesHaveOneOwner == MuxSpec => OneOwnerAtATime
<1> DEFINE Step == \A o, p \in Owners \cup Owners' : o = p
<1>1. MuxInv /\ MuxInv' /\ [MuxNext]_muxVars => [Step]_muxVars
  <2> SUFFICES ASSUME MuxInv, MuxInv', MuxNext PROVE Step
    OBVIOUS
  <2> DEFINE owner == IF prev_mux_sel THEN Motors ELSE prev_mux_ch
  <2>1. Owners \subseteq {owner}
    BY DEF Owners, Drives, MuxInv, PadsFollow, TypeOK, Drivers
  <2>2. Owners' \subseteq {owner'}
    BY DEF Owners, Drives, MuxInv, PadsFollow, TypeOK, Drivers
  <2>3. global_tristate' => Owners' = {}
    BY DEF Owners, Drives
  <2>4. ~global_tristate' => owner' = owner
    <3>1. /\ global_tristate' = Changed
          /\ prev_mux_sel' = effective_mux_sel /\ prev_mux_ch' = mux_ch
      BY DEF MuxNext, MuxClock, Pads, Release
    <3>2. ~Changed => effective_mux_sel = prev_mux_sel /\ mux_ch = prev_mux_ch
      BY DEF Changed
    <3> QED
      BY <3>1, <3>2
  <2> QED
    BY <2>1, <2>2, <2>3, <2>4
<1> QED
  BY <1>1, MuxInitInv, MuxNextInv, PTL DEF MuxSpec, OneOwnerAtATime

\* The PC link takes the motors only with a whole MSP header (lines 139-155).
THEOREM TakenOnlyByHeader == MuxSpec => PassthroughOnlyOnHeader
<1> DEFINE Step == auto_passthrough_active' /\ ~auto_passthrough_active
                     => 4 \in open /\ sniff_state = "SIZE" /\ quiet' = 0
<1>1. MuxInv /\ [MuxNext]_muxVars => [Step]_muxVars
  <2> SUFFICES ASSUME MuxInv, MuxNext, auto_passthrough_active', ~auto_passthrough_active
               PROVE  4 \in open /\ sniff_state = "SIZE" /\ quiet' = 0
    OBVIOUS
  <2>1. PICK b \in PcBytes \cup {NoByte} : Sniffer(b) /\ Watch(b)
    BY DEF MuxNext, MuxClock
  <2>2. Triggers(b)
    BY <2>1 DEF Sniffer
  <2> QED
    BY <2>1, <2>2 DEF Triggers, Watch, NoByte, MuxInv, SnifferFollows
<1> QED
  BY <1>1, MuxInitInv, MuxNextInv, PTL DEF MuxSpec, PassthroughOnlyOnHeader

\* The override never outlives WATCHDOG_LIMIT clocks of silence (lines 161-168).
THEOREM SilenceBound == MuxSpec => []SilenceEndsPassthrough
<1>1. MuxInv => SilenceEndsPassthrough
  BY MuxAssumption DEF MuxInv, TypeOK, TimerFollows, SilenceEndsPassthrough, Long
<1> QED
  BY <1>1, MuxInitInv, MuxNextInv, PTL DEF MuxSpec

\* Three clocks after a switch the bridge hears the selected motor only (268-287).
THEOREM BridgeHearsOne == MuxSpec => []BridgeHearsItsMotor
<1>1. MuxInv => BridgeHearsItsMotor
  BY DEF MuxInv, PipeFollows, FromMotor, BridgeHearsItsMotor
<1> QED
  BY <1>1, MuxInitInv, MuxNextInv, PTL DEF MuxSpec

--------------------------------------------------------------------------------
\* The port towards an ESC.

\* A byte is its bits, the first sent first.
Byte == [1 .. BITS -> {0, 1}]

\* A byte on the line: bit 0 is the start bit, bit BITS + 1 the stop bit; before and
\* after it the line is high.
LevelOf(b, bit) == IF bit = 0 THEN 0 ELSE IF bit \in 1 .. BITS THEN b[bit] ELSE 1

\* A time on the line is a bit and a clock in it.  What is d clocks behind it, what
\* follows it, and the level that is seen d clocks after it is driven.
Behind(bit, clock, d, bit2, clock2) ==
  IF clock >= d THEN bit2 = bit /\ clock2 = clock - d
  ELSE bit2 = bit - 1 /\ clock2 = clock + baud_div - d
Advance(bit, clock, bit2, clock2) ==
  IF clock = lastClock THEN bit2 = bit + 1 /\ clock2 = 0
  ELSE bit2 = bit /\ clock2 = clock + 1
Seen(b, bit, clock, d) == LevelOf(b, IF clock >= d THEN bit ELSE bit - 1)

\* The transmitter's time; its guard time counts as a bit.
TxBit == IF tx_state = "START" THEN 0
         ELSE IF tx_state = "DATA" THEN tx_bit_idx + 1
         ELSE IF tx_state = "STOP" THEN BITS + 1 ELSE BITS + 2
TxTime == lastClock - tx_counter

\* The stop bit began at least n clocks ago.
Past(n) ==
  \/ tx_state = "IDLE"
  \/ tx_state = "STOP" /\ TxTime >= n
  \/ tx_state = "GUARD" /\ TxTime + baud_div >= n

\* The register of the bus holds a byte not begun; the byte begun is not heard yet; and
\* how much of it is out of the shift register.
Pending == tx_data_valid /\ ~tx_data_consumed
Unheard ==
  /\ tx_state # "IDLE"
  /\ esc_state = "hear" \/ (esc_state = "idle" /\ tx_state = "START" /\ TxTime <= 2)
Shifted == IF tx_state = "DATA" THEN tx_bit_idx ELSE 0

\* The level k clocks behind the line: that of the ESC's byte, or high when the host's
\* stop bit is as far behind.
StageIs(level, k) ==
  IF esc_state = "send" THEN level = Seen(esc_byte, esc_bit, esc_clock, k)
  ELSE Past(k + 2) => level = 1

\* The receiver's time: it runs from the start bit to the middle of the stop bit, four
\* clocks behind the line.
RxBit == IF rx_state = "START" THEN 0
         ELSE IF rx_state = "DATA" THEN rx_bit_idx + 1 ELSE BITS + 1
OwnBit == IF rx_counter <= half_bit THEN RxBit ELSE RxBit - 1
OwnClock == IF rx_counter <= half_bit THEN half_bit - rx_counter
            ELSE half_bit - rx_counter + baud_div

\* A receiver at this time is in the oldest byte not taken: the one the ESC is sending,
\* or its stop bit when the ESC sends the next one or has sent its last.
At(bit, clock) ==
  \/ /\ esc_state = "send" /\ Behind(esc_bit, esc_clock, 4, bit, clock)
     /\ replies = <<esc_byte>>
  \/ /\ esc_state = "send" /\ esc_bit = 0 /\ bit = BITS + 1 /\ esc_clock < 4
     /\ clock = esc_clock + baud_div - 4
     /\ Len(replies) = 2 /\ replies[2] = esc_byte
  \/ esc_state = "idle" /\ bit = BITS + 1 /\ clock >= baud_div - 4 /\ Len(replies) = 1

Receiving == rx_state \in {"START", "DATA", "STOP"}
Samples == IF rx_state = "DATA" THEN rx_bit_idx ELSE IF rx_state = "STOP" THEN BITS ELSE 0

\* How long the output may keep its byte: until the stop bit of that byte is over.
Patience == baud_div - half_bit - 2

\* The receiver is in a byte, has one in its output, or looks for the next.
InByte ==
  /\ ~m_esc_tvalid /\ At(OwnBit, OwnClock)
  /\ rx_state = "START" => rx_counter < half_bit
  /\ \A j \in 1 .. Samples : rx_shift[BITS - Samples + j] = replies[1][j]
HasByte ==
  /\ waiting <= Patience /\ At(BITS + 1, half_bit + 1 + waiting)
  /\ m_esc_tdata = replies[1]
Looks ==
  \/ /\ replies = <<>>
     /\ esc_state = "send" => esc_bit = BITS + 1 /\ esc_clock >= 4
  \/ /\ esc_state = "send" /\ replies = <<esc_byte>>
     /\ (esc_bit = 0 /\ esc_clock < 4) \/ Behind(esc_bit, esc_clock, 4, 0, 0)

\* The invariant, part by part: the types of the port and of the rest,
PortTypes ==
  /\ tx_state \in TxStates /\ tx_out \in {0, 1} /\ tx_shift \in Byte
  /\ tx_bit_idx \in 0 .. BITS - 1 /\ tx_counter \in 0 .. lastClock
  /\ tx_ready \in BOOLEAN /\ tx_active \in BOOLEAN /\ tx_data_reg \in Byte
  /\ tx_data_valid \in BOOLEAN /\ tx_data_consumed \in BOOLEAN
  /\ rx_meta \in {0, 1} /\ rx_sync \in {0, 1} /\ mux_meta \in {0, 1}
  /\ mux_sync \in {0, 1} /\ rx_state \in RxStates /\ rx_shift \in Byte
  /\ rx_bit_idx \in 0 .. BITS - 1 /\ rx_counter \in 0 .. lastClock
  /\ m_esc_tdata \in Byte /\ m_esc_tvalid \in BOOLEAN /\ wb_ack_o \in BOOLEAN
  /\ drive \in [oe : BOOLEAN, tx : {0, 1}] /\ pin \in [oe : BOOLEAN, tx : {0, 1}]
OtherTypes ==
  /\ bus \in {<<>>, <<"read">>} \cup {<<"write", b>> : b \in HostBytes}
  /\ offer \in {<<>>} \cup {<<b>> : b \in HostBytes}
  /\ esc_state \in {"idle", "hear", "wait", "send"} /\ turn \in {"host", "esc"}
  /\ esc_bit \in 0 .. BITS + 1 /\ esc_clock \in Nat
  /\ esc_state # "wait" => esc_clock <= lastClock
  /\ esc_byte \in Byte /\ owed \in Seq(Byte) /\ replies \in Seq(Byte)
  /\ esc_left \in Nat /\ waiting \in Nat
Types == PortTypes /\ OtherTypes

\* what the flags of the transmitter mean, and that a released line is high,
TxShape ==
  /\ tx_active <=> tx_state # "IDLE"
  /\ tx_ready => tx_state = "IDLE"
  /\ tx_data_consumed => tx_state = "START" /\ TxTime = 0 /\ tx_data_valid
  /\ tx_ready /\ tx_data_valid => wb_ack_o
  /\ tx_state \in {"IDLE", "STOP", "GUARD"} => tx_out = 1
  /\ ~drive.oe => drive.tx = 1
  /\ ~pin.oe => pin.tx = 1

\* where the ESC is in the byte it hears: two clocks behind the transmitter,
HearInv ==
  /\ turn = IF esc_state \in {"wait", "send"} THEN "esc" ELSE "host"
  /\ esc_state \in {"idle", "wait"} => esc_bit = 0
  /\ esc_state = "hear" =>
       /\ tx_state # "IDLE" /\ Behind(TxBit, TxTime, 2, esc_bit, esc_clock)
       /\ esc_bit > 0 \/ esc_clock > 0
       /\ esc_bit = BITS + 1 => esc_clock <= half_bit
  /\ esc_state = "idle" =>
       (tx_state = "START" /\ TxTime <= 2) \/ Past(half_bit + 3)

\* that the port has left the line before the ESC begins to send,
WaitInv ==
  /\ esc_state = "wait" =>
       /\ Past(half_bit + 3)
       /\ tx_state = "STOP" => esc_clock + 1 >= 2 * baud_div - TxTime + 2
       /\ tx_state = "GUARD" => esc_clock + 1 >= baud_div - TxTime + 2
       /\ tx_state = "IDLE" /\ drive.oe => esc_clock >= 1
  /\ esc_state = "send" => tx_state = "IDLE" /\ ~drive.oe /\ ~pin.oe

\* that the byte on its way to the ESC is the oldest owed, bit by bit,
Levels ==
  IF Unheard
  THEN /\ tx_out = Seen(owed[1], TxBit, TxTime, 0)
       /\ drive.tx = Seen(owed[1], TxBit, TxTime, 1)
       /\ pin.tx = Seen(owed[1], TxBit, TxTime, 2)
  ELSE tx_out = 1 /\ drive.tx = 1 /\ pin.tx = 1

\* also in the transmitter's shift register, and as far as the ESC has heard it,
BytesInv ==
  /\ Unheard /\ tx_state \in {"START", "DATA"} =>
       \A j \in 1 .. BITS - Shifted : tx_shift[j] = owed[1][Shifted + j]
  /\ esc_state = "hear" =>
       \A j \in 1 .. BITS : j < esc_bit \/ (j = esc_bit /\ esc_clock > half_bit)
         => esc_byte[j] = owed[1][j]

\* that no more is owed than the byte on the line and the one in the register,
OwedInv ==
  /\ Len(owed) = (IF Unheard THEN 1 ELSE 0) + (IF Pending THEN 1 ELSE 0)
  /\ Pending => owed[Len(owed)] = tx_data_reg

\* that the host is silent while the ESC has the turn or an answer is not taken,
Quiet ==
  turn = "esc" \/ replies # <<>> =>
    /\ offer = <<>> /\ bus \in {<<>>, <<"read">>} /\ ~tx_data_valid /\ owed = <<>>
    /\ replies # <<>> => tx_state = "IDLE"

\* what the registers on the way in hold,
Pipe ==
  /\ StageIs(mux_meta, 1) /\ StageIs(mux_sync, 2)
  /\ StageIs(rx_meta, 3) /\ StageIs(rx_sync, 4)

\* All of this holds however slow the reader of the stream is.
LineInv ==
  /\ Types /\ TxShape /\ HearInv /\ WaitInv /\ Levels
  /\ BytesInv /\ OwedInv /\ Quiet /\ Pipe

\* Where the receiver is: in a byte, with one in its output, or between two.
RxInv ==
  /\ rx_state = "WAIT_STREAM" => m_esc_tvalid
  /\ ~m_esc_tvalid => waiting = 0
  /\ Receiving => InByte
  /\ m_esc_tvalid => HasByte
  /\ rx_state = "IDLE" /\ ~m_esc_tvalid => Looks

\* The packetizer, as far as its pace goes: while it collects, the wire is free soon
\* enough for the packet to come.
PktNumbers ==
  /\ pk_count \in 0 .. MAX_LEN /\ pk_timer \in 0 .. TIMEOUT /\ push_idx \in Nat
  /\ framer_busy \in 0 .. Away /\ pk_state \in {"FILL", "PUSH"}
  /\ pk_state = "FILL" =>
       pk_count < MAX_LEN /\ \A a \in AheadClocks : framer_busy + a <= Away
  /\ pk_state = "PUSH" => pk_count > 0 /\ push_idx <= pk_count
PktFlags ==
  /\ pk_state = "FILL" => ~pk_tvalid
  /\ pk_state = "PUSH" => (pk_tvalid <=> push_idx > 0)
  /\ pk_state = "PUSH" /\ pk_tvalid => (pk_tlast <=> push_idx = pk_count)
PktInv == PktNumbers /\ PktFlags

\* The clocks until it has handed on the packet it collects or pushes, unless a byte
\* comes; and the clocks until one may come, at least.
Return ==
  IF pk_state = "PUSH" THEN framer_busy + (pk_count - push_idx) + 1
  ELSE IF pk_count = 0 THEN 0 ELSE (TIMEOUT - pk_timer) + Away + pk_count + 2
BitsLong(k) == k * baud_div
Coming ==
  IF rx_state = "START" THEN rx_counter + 1 + BitsLong(BITS + 1)
  ELSE IF rx_state = "DATA" THEN rx_counter + 1 + BitsLong(BITS - rx_bit_idx)
  ELSE IF rx_state = "STOP" THEN rx_counter + 1
  ELSE half_bit + BitsLong(BITS + 1)

\* A byte that is offered, or that comes next, does not wait too long.
OfferShape ==
  /\ m_esc_tvalid => rx_state \in {"IDLE", "WAIT_STREAM"}
  /\ ~m_esc_tvalid => waiting = 0
  /\ rx_state = "START" => rx_counter < half_bit
InTime ==
  /\ m_esc_tvalid /\ pk_state = "PUSH" => Return + waiting <= Patience
  /\ ~m_esc_tvalid => Return <= Coming + Patience

PaceInv == PktInv /\ OfferShape /\ InTime

\* The constants as numbers: a bit is at least four clocks long.
LEMMA Numbers ==
  /\ baud_div \in Nat /\ baud_div >= 4 /\ half_bit \in Nat /\ half_bit >= 2
  /\ 2 * half_bit <= baud_div /\ baud_div <= 2 * half_bit + 1
  /\ lastClock \in Nat /\ lastClock = baud_div - 1
  /\ BITS \in Nat /\ BITS >= 1
BY DividerAssumption DEF half_bit, lastClock

\* The bytes of both sides, as functions and as sequences.
LEMMA BytesAre ==
  /\ \A b \in HostBytes \cup EscBytes : b \in Byte
  /\ \A b \in Byte : b \in Seq({0, 1}) /\ Len(b) = BITS
BY SidesAssumption, Numbers DEF Byte

\* Bytes with the same bits are the same.
LEMMA SameByte ==
  ASSUME NEW b \in Byte, NEW c \in Byte, \A j \in 1 .. BITS : b[j] = c[j]
  PROVE  b = c
<1>1. b = [j \in 1 .. BITS |-> b[j]] /\ c = [j \in 1 .. BITS |-> c[j]]
  BY DEF Byte
<1>2. [j \in 1 .. BITS |-> b[j]] = [j \in 1 .. BITS |-> c[j]]
  OBVIOUS
<1> QED
  BY <1>1, <1>2

\* What the stream offers is a sequence of at most one byte.
LEMMA OfferIs ==
  ASSUME OtherTypes
  PROVE  offer \in Seq(Byte)
<1>1. \A b \in Byte : <<b>> \in Seq(Byte)
  OBVIOUS
<1>2. <<>> \in Seq(Byte)
  OBVIOUS
<1> QED
  BY <1>1, <1>2, BytesAre DEF OtherTypes

\* A shift drops the first bit and puts one in at the end.
LEMMA ShiftInIs ==
  ASSUME NEW s \in Byte, NEW b \in {0, 1}
  PROVE  /\ ShiftIn(s, b) \in Byte
         /\ \A j \in 1 .. BITS - 1 : ShiftIn(s, b)[j] = s[j + 1]
         /\ ShiftIn(s, b)[BITS] = b
<1>1. s \in Seq({0, 1}) /\ Len(s) = BITS /\ s # <<>>
  BY Numbers DEF Byte
<1>2. /\ Tail(s) \in Seq({0, 1}) /\ Len(Tail(s)) = BITS - 1
      /\ \A j \in 1 .. BITS - 1 : Tail(s)[j] = s[j + 1]
  BY <1>1, HeadTailProperties
<1>3. PICK t : t = Tail(s)
  OBVIOUS
<1>4. /\ Append(t, b) \in Seq({0, 1}) /\ Len(Append(t, b)) = BITS
      /\ \A j \in 1 .. BITS - 1 : Append(t, b)[j] = t[j]
      /\ Append(t, b)[BITS] = b
  BY <1>2, <1>3, Numbers
<1>5. Append(t, b) \in [1 .. BITS -> {0, 1}]
  BY <1>4, LenProperties
<1> QED
  BY <1>2, <1>3, <1>4, <1>5 DEF ShiftIn, Byte

\* Two times a fixed delay apart stay so while both go on.
LEMMA BehindStep ==
  ASSUME NEW bit \in Int, NEW clock \in 0 .. lastClock, NEW d \in 0 .. 4,
         NEW bit2 \in Int, NEW clock2 \in Int, Behind(bit, clock, d, bit2, clock2),
         NEW nbit, NEW nclock, Advance(bit, clock, nbit, nclock),
         NEW nbit2, NEW nclock2, Advance(bit2, clock2, nbit2, nclock2)
  PROVE  Behind(nbit, nclock, d, nbit2, nclock2)
BY Numbers DEF Behind, Advance

\* A clock later the same level is seen one clock further on.
LEMMA SeenStep ==
  ASSUME NEW b, NEW bit \in Int, NEW clock \in 0 .. lastClock, NEW d \in 0 .. 3,
         NEW nbit, NEW nclock, Advance(bit, clock, nbit, nclock)
  PROVE  Seen(b, nbit, nclock, d + 1) = Seen(b, bit, clock, d)
<1>1. (IF nclock >= d + 1 THEN nbit ELSE nbit - 1) = IF clock >= d THEN bit ELSE bit - 1
  BY Numbers DEF Advance
<1> QED
  BY <1>1 DEF Seen

\* What is seen d clocks late is the level of the time d clocks back.
LEMMA SeenBehind ==
  ASSUME NEW b, NEW bit \in Int, NEW clock \in Int, NEW d \in 0 .. 4,
         NEW bit2, NEW clock2, Behind(bit, clock, d, bit2, clock2)
  PROVE  Seen(b, bit, clock, d) = LevelOf(b, bit2)
BY DEF Behind, Seen

\* A level is 0 or 1.
LEMMA SeenType ==
  ASSUME NEW b \in Byte, NEW bit \in Int, NEW clock \in Int, NEW d \in 0 .. 4
  PROVE  Seen(b, bit, clock, d) \in {0, 1}
BY DEF Seen, LevelOf, Byte

\* The bits of the transmitter's states.
LEMMA TxBitIs ==
  ASSUME PortTypes
  PROVE  /\ TxBit \in Nat /\ TxTime \in 0 .. lastClock
         /\ tx_state = "START" => TxBit = 0
         /\ tx_state = "DATA" => TxBit \in 1 .. BITS
         /\ tx_state = "STOP" => TxBit = BITS + 1
         /\ tx_state \in {"GUARD", "IDLE"} => TxBit = BITS + 2
         /\ (tx_counter = 0 <=> TxTime = lastClock)
BY Numbers DEF PortTypes, TxBit, TxTime, TxStates

\* One clock of the transmitter at rest, and of one that sends.
TxBegins == tx_data_valid \/ offer # <<>>
\* The transmitter at rest begins a byte or stays.
LEMMA TxRests ==
  ASSUME PortTypes, tx_state = "IDLE", TxClock
  PROVE  IF TxBegins THEN tx_state' = "START" /\ TxTime' = 0 /\ TxBit' = 0
         ELSE tx_state' = "IDLE"
<1>1. TxIdle
  BY DEF TxClock, TxCount, TxStart, TxData, TxStop, TxGuard
<1> QED
  BY <1>1, Numbers DEF TxIdle, TxBegins, TxBit, TxTime, PortTypes

TxEnds == tx_state = "GUARD" /\ TxTime = lastClock
\* The transmitter in a byte goes on, or ends its guard time.
LEMMA TxSends ==
  ASSUME PortTypes, tx_state # "IDLE", TxClock
  PROVE  IF TxEnds THEN tx_state' = "IDLE"
         ELSE tx_state' # "IDLE" /\ Advance(TxBit, TxTime, TxBit', TxTime')
<1> USE Numbers
<1>0. tx_counter = 0 <=> TxTime = lastClock
  BY TxBitIs
<1>1. CASE TxCount
  BY <1>0, <1>1 DEF TxCount, TxEnds, TxBit, TxTime, Advance, PortTypes
<1>2. CASE TxStart
  BY <1>0, <1>2 DEF TxStart, TxEnds, TxBit, TxTime, Advance, PortTypes
<1>3. CASE TxData
  BY <1>0, <1>3 DEF TxData, TxEnds, TxBit, TxTime, Advance, PortTypes
<1>4. CASE TxStop
  BY <1>0, <1>4 DEF TxStop, TxEnds, TxBit, TxTime, Advance, PortTypes
<1>5. CASE TxGuard
  BY <1>0, <1>5 DEF TxGuard, TxEnds
<1> QED
  BY <1>1, <1>2, <1>3, <1>4, <1>5 DEF TxClock, TxIdle

\* A clock later the stop bit is one clock longer ago.
LEMMA PastStep ==
  ASSUME PortTypes, TxClock, NEW n \in Nat, Past(n), tx_state # "IDLE" \/ ~TxBegins
  PROVE  Past(n + 1)'
<1>1. CASE tx_state = "IDLE"
  BY <1>1, TxRests DEF Past
<1>2. CASE tx_state # "IDLE" /\ TxEnds
  BY <1>2, TxSends DEF Past
<1>3. CASE tx_state # "IDLE" /\ ~TxEnds
  <2>1. tx_state' # "IDLE" /\ Advance(TxBit, TxTime, TxBit', TxTime')
    BY <1>3, TxSends
  <2>2. CASE tx_state = "STOP" /\ TxTime >= n
    <3>1. tx_state' = IF TxTime = lastClock THEN "GUARD" ELSE "STOP"
      BY <2>2, TxBitIs, Numbers DEF TxClock, TxIdle, TxCount, TxStart, TxData, TxStop,
                                    TxGuard, PortTypes
    <3> QED
      BY <2>1, <2>2, <3>1, Numbers, TxBitIs DEF Advance, Past
  <2>3. CASE tx_state = "GUARD" /\ TxTime + baud_div >= n
    <3>1. tx_state' = "GUARD"
      BY <1>3, <2>3, TxBitIs, Numbers DEF TxEnds, TxClock, TxIdle, TxCount, TxStart,
                                          TxData, TxStop, TxGuard, PortTypes
    <3> QED
      BY <1>3, <2>1, <2>3, <3>1, Numbers, TxBitIs DEF Advance, Past, TxEnds
  <2> QED
    BY <1>3, <2>2, <2>3 DEF Past
<1> QED
  BY <1>1, <1>2, <1>3

--------------------------------------------------------------------------------
\* One clock, with a reader that takes the byte or not.
Edge(m_tready) ==
  /\ TxClock /\ RxClock(m_tready) /\ WbClock /\ LineClock
  /\ EscClock /\ HostClock /\ UnderWay(m_tready)

\* A clock keeps the types of the transmitter,
LEMMA TxTypes ==
  ASSUME Types, TxClock
  PROVE  /\ tx_state' \in TxStates /\ tx_out' \in {0, 1} /\ tx_shift' \in Byte
         /\ tx_bit_idx' \in 0 .. BITS - 1 /\ tx_counter' \in 0 .. lastClock
         /\ tx_ready' \in BOOLEAN /\ tx_active' \in BOOLEAN
         /\ tx_data_consumed' \in BOOLEAN
<1> DEFINE Numeric == /\ tx_state' \in TxStates /\ tx_out' \in {0, 1}
                      /\ tx_shift' \in Byte /\ tx_bit_idx' \in 0 .. BITS - 1
                      /\ tx_counter' \in 0 .. lastClock
           Flags == /\ tx_ready' \in BOOLEAN /\ tx_active' \in BOOLEAN
                    /\ tx_data_consumed' \in BOOLEAN
<1>0. tx_ready \in BOOLEAN /\ tx_active \in BOOLEAN /\ tx_data_valid \in BOOLEAN
  BY DEF Types, PortTypes
<1>1. CASE TxIdle
  <2>1. offer # <<>> => offer[1] \in Byte
    BY BytesAre DEF Types, OtherTypes
  <2>2. Numeric
    BY <1>1, <2>1, Numbers DEF TxIdle, Types, PortTypes, TxStates
  <2>3. Flags
    BY <1>0, <1>1 DEF TxIdle
  <2> QED
    BY <2>2, <2>3
<1>2. CASE TxCount
  <2>1. Numeric
    BY <1>2, Numbers DEF TxCount, Types, PortTypes, TxStates
  <2>2. Flags
    BY <1>0, <1>2 DEF TxCount
  <2> QED
    BY <2>1, <2>2
<1>3. CASE TxStart
  <2>1. Numeric
    BY <1>3, Numbers DEF TxStart, Types, PortTypes, TxStates, Byte
  <2>2. Flags
    BY <1>0, <1>3 DEF TxStart
  <2> QED
    BY <2>1, <2>2
<1>4. CASE TxData
  <2>1. tx_bit_idx # BITS - 1 => tx_shift[2] \in {0, 1}
    BY Numbers DEF Byte, Types, PortTypes
  <2>2. tx_shift' \in Byte
    BY <1>4, ShiftInIs DEF TxData, Types, PortTypes
  <2>3. Numeric
    BY <1>4, <2>1, <2>2, Numbers DEF TxData, Types, PortTypes, TxStates
  <2>4. Flags
    BY <1>0, <1>4 DEF TxData
  <2> QED
    BY <2>3, <2>4
<1>5. CASE TxStop
  <2>1. Numeric
    BY <1>5, Numbers DEF TxStop, Types, PortTypes, TxStates
  <2>2. Flags
    BY <1>0, <1>5 DEF TxStop
  <2> QED
    BY <2>1, <2>2
<1>6. CASE TxGuard
  <2>1. Numeric
    BY <1>6, Numbers DEF TxGuard, Types, PortTypes, TxStates
  <2>2. Flags
    BY <1>0, <1>6 DEF TxGuard
  <2> QED
    BY <2>1, <2>2
<1> QED
  BY <1>1, <1>2, <1>3, <1>4, <1>5, <1>6 DEF TxClock

\* of the receiver,
LEMMA RxTypes ==
  ASSUME PortTypes, NEW m_tready \in BOOLEAN, RxClock(m_tready)
  PROVE  /\ rx_meta' \in {0, 1} /\ rx_sync' \in {0, 1}
         /\ rx_state' \in RxStates /\ rx_shift' \in Byte
         /\ rx_bit_idx' \in 0 .. BITS - 1 /\ rx_counter' \in 0 .. lastClock
         /\ m_esc_tdata' \in Byte /\ m_esc_tvalid' \in BOOLEAN
<1> USE Numbers DEF PortTypes, RxStates
<1>1. rx_meta' \in {0, 1} /\ rx_sync' \in {0, 1}
  BY DEF RxClock
<1>2. NoNewByte(m_tready) => m_esc_tdata' \in Byte /\ m_esc_tvalid' \in BOOLEAN
  BY DEF NoNewByte
<1>3. CASE RxOff(m_tready)
  BY <1>1, <1>2, <1>3 DEF RxOff
<1>4. CASE RxIdle(m_tready)
  BY <1>1, <1>2, <1>4 DEF RxIdle
<1>5. CASE RxCount(m_tready)
  BY <1>1, <1>2, <1>5 DEF RxCount
<1>6. CASE RxStart(m_tready)
  BY <1>1, <1>2, <1>6 DEF RxStart
<1>7. CASE RxData(m_tready)
  <2>1. rx_shift' \in Byte
    BY <1>7, ShiftInIs DEF RxData
  <2> QED
    BY <1>1, <1>2, <1>7, <2>1 DEF RxData
<1>8. CASE RxStop(m_tready)
  <2>1. m_esc_tdata' \in Byte /\ m_esc_tvalid' \in BOOLEAN
    BY <1>2, <1>8 DEF RxStop, NewByte
  <2> QED
    BY <1>1, <1>8, <2>1 DEF RxStop
<1>9. CASE RxWait(m_tready)
  BY <1>1, <1>2, <1>9 DEF RxWait
<1> QED
  BY <1>3, <1>4, <1>5, <1>6, <1>7, <1>8, <1>9 DEF RxClock, Receive, RxListen

\* of the port with its bus and its line,
LEMMA PortTypeStep ==
  ASSUME Types, NEW m_tready \in BOOLEAN, Edge(m_tready)
  PROVE  PortTypes'
<1>1. tx_data_reg' \in Byte /\ tx_data_valid' \in BOOLEAN /\ wb_ack_o' \in BOOLEAN
  <2>1. Written => bus[2] \in Byte
    BY BytesAre DEF Written, Types, OtherTypes
  <2> QED
    BY <2>1 DEF Edge, WbClock, Types, PortTypes, Written
<1>2. /\ drive' \in [oe : BOOLEAN, tx : {0, 1}] /\ pin' \in [oe : BOOLEAN, tx : {0, 1}]
      /\ mux_meta' \in {0, 1} /\ mux_sync' \in {0, 1}
  <2>1. EscLevel \in {0, 1}
    <3>1. esc_bit \in 0 .. BITS + 1 /\ \A i \in 1 .. BITS : esc_byte[i] \in {0, 1}
      BY DEF Types, OtherTypes, Byte
    <3>2. esc_bit = 0 \/ esc_bit = BITS + 1 \/ esc_bit \in 1 .. BITS
      BY <3>1, Numbers
    <3> QED
      BY <3>1, <3>2 DEF EscLevel
  <2>2. Line \in {0, 1}
    BY <2>1 DEF Line, Types, PortTypes
  <2> QED
    BY <2>2 DEF Edge, LineClock, Types, PortTypes
<1>3. TxClock /\ RxClock(m_tready)
  BY DEF Edge
<1> QED
  BY <1>1, <1>2, <1>3, TxTypes, RxTypes DEF PortTypes, Types

\* of the ESC,
LEMMA EscTypes ==
  ASSUME Types, HearInv, EscClock
  PROVE  /\ esc_state' \in {"idle", "hear", "wait", "send"} /\ turn' \in {"host", "esc"}
         /\ esc_bit' \in 0 .. BITS + 1 /\ esc_clock' \in Nat
         /\ esc_state' # "wait" => esc_clock' <= lastClock
         /\ esc_byte' \in Byte /\ esc_left' \in Nat
<1> USE Numbers DEF Types, OtherTypes
<1>1. EscSend => esc_byte' \in Byte /\ esc_left' \in Nat
  BY BytesAre DEF EscSend
<1>2. CASE EscIdle
  BY <1>2 DEF EscIdle, HearInv
<1>3. CASE EscHear
  <2>1. esc_byte' \in Byte
    <3>1. Line \in {0, 1}
      BY DEF Line, EscLevel, PortTypes, Byte
    <3> QED
      BY <1>3, <3>1 DEF EscHear, Byte
  <2>2. esc_clock # lastClock \/ esc_bit <= BITS
    BY <1>3 DEF EscHear, HearInv
  <2> QED
    BY <1>3, <2>1, <2>2 DEF EscHear, EscTimePasses
<1>4. CASE EscByteEnds
  <2>1. \A w \in ReplyWaits : w \in Nat
    BY SidesAssumption
  <2>2. /\ esc_state' \in {"idle", "wait"} /\ turn' \in {"host", "esc"}
        /\ esc_bit' = 0 /\ esc_clock' \in Nat
        /\ esc_state' # "wait" => esc_clock' = 0
    BY <1>4, <2>1 DEF EscByteEnds
  <2>3. esc_byte' \in Byte /\ esc_left' \in Nat
    BY <1>4 DEF EscByteEnds
  <2> QED
    BY <2>2, <2>3
<1>5. CASE EscWait
  BY <1>1, <1>5 DEF EscWait, EscSend
<1>6. CASE EscSending
  <2>1. CASE esc_bit <= BITS \/ esc_clock < lastClock
    BY <1>6, <2>1 DEF EscSending, EscTimePasses
  <2>2. CASE ~(esc_bit <= BITS \/ esc_clock < lastClock)
    BY <1>1, <1>6, <2>2 DEF EscSending, EscSend
  <2> QED
    BY <2>1, <2>2
<1> QED
  BY <1>2, <1>3, <1>4, <1>5, <1>6 DEF EscClock

\* and of what is under way between them.
LEMMA OtherTypeStep ==
  ASSUME Types, HearInv, NEW m_tready \in BOOLEAN, Edge(m_tready)
  PROVE  OtherTypes'
<1>1. bus' \in {<<>>, <<"read">>} \cup {<<"write", b>> : b \in HostBytes}
  BY DEF Edge, HostClock, BusClock, Types, OtherTypes
<1>2. offer' \in {<<>>} \cup {<<b>> : b \in HostBytes}
  BY DEF Edge, HostClock, OfferClock, Types, OtherTypes
<1>3. EscClock
  BY DEF Edge
<1>4. owed' \in Seq(Byte)
  <2>1. PICK s \in Seq(Byte) : s = IF EscHears /\ owed # <<>> THEN Tail(owed) ELSE owed
    BY HeadTailProperties DEF Types, OtherTypes
  <2>0. \A b \in Byte : <<b>> \in Seq(Byte)
    OBVIOUS
  <2>00. <<>> \in Seq(Byte)
    OBVIOUS
  <2>2. PICK t \in Seq(Byte) : t = IF StreamTaken THEN offer ELSE <<>>
    <3>1. offer \in Seq(Byte)
      BY OfferIs DEF Types
    <3> QED
      BY <2>00, <3>1
  <2>3. PICK u \in Seq(Byte) : u = IF Written THEN <<bus[2]>> ELSE <<>>
    <3>1. Written => bus[2] \in Byte
      BY BytesAre DEF Written, Types, OtherTypes
    <3> QED
      BY <2>0, <2>00, <3>1
  <2>4. owed' = s \o t \o u
    BY <2>1, <2>2, <2>3 DEF Edge, UnderWay
  <2> QED
    BY <2>4, ConcatProperties
<1>5. replies' \in Seq(Byte)
  <2>1. PICK s \in Seq(Byte) :
          s = IF m_esc_tvalid /\ m_tready /\ replies # <<>> THEN Tail(replies)
              ELSE replies
    BY HeadTailProperties DEF Types, OtherTypes
  <2>2. PICK t \in Seq(Byte) : t = IF esc_left' < esc_left THEN <<esc_byte'>> ELSE <<>>
    <3>1. PICK b \in Byte : b = esc_byte'
      BY <1>3, EscTypes
    <3>2. <<b>> \in Seq(Byte) /\ <<>> \in Seq(Byte)
      OBVIOUS
    <3> QED
      BY <3>1, <3>2
  <2>3. replies' = s \o t
    BY <2>1, <2>2 DEF Edge, UnderWay
  <2> QED
    BY <2>3, ConcatProperties
<1>6. waiting' \in Nat
  BY DEF Edge, UnderWay, Types, OtherTypes
<1> QED
  BY <1>1, <1>2, <1>3, <1>4, <1>5, <1>6, EscTypes DEF OtherTypes

\* The flags of the transmitter, and of the drivers behind it, keep their meaning.
LEMMA TxShapeStep ==
  ASSUME Types, TxShape, NEW m_tready \in BOOLEAN, Edge(m_tready)
  PROVE  TxShape'
<1> USE Numbers DEF Types, PortTypes
<1>1. (~drive.oe)' => (drive.tx = 1)'
  BY DEF Edge, LineClock, TxShape
<1>2. (~pin.oe)' => (pin.tx = 1)'
  BY DEF Edge, LineClock, TxShape
<1>3. /\ tx_active' <=> tx_state' # "IDLE"
      /\ tx_ready' => tx_state' = "IDLE"
      /\ tx_state' \in {"IDLE", "STOP", "GUARD"} => tx_out' = 1
  <2>0. TxClock
    BY DEF Edge
  <2>idle. CASE TxIdle
    BY <2>idle DEF TxIdle
  <2>count. CASE TxCount
    BY <2>count DEF TxCount, TxShape
  <2>start. CASE TxStart
    BY <2>start DEF TxStart, TxShape
  <2>data. CASE TxData
    BY <2>data DEF TxData, TxShape
  <2>stop. CASE TxStop
    BY <2>stop DEF TxStop, TxShape
  <2>guard. CASE TxGuard
    BY <2>guard DEF TxGuard, TxShape
  <2> QED
    BY <2>0, <2>idle, <2>count, <2>start, <2>data, <2>stop, <2>guard DEF TxClock
<1>4. tx_data_consumed' => tx_state' = "START" /\ TxTime' = 0 /\ tx_data_valid'
  <2>1. tx_data_consumed' => tx_state = "IDLE" /\ tx_data_valid /\ TxIdle
    BY DEF Edge, TxClock, TxIdle, TxCount, TxStart, TxData, TxStop, TxGuard
  <2>2. tx_state = "IDLE" /\ tx_data_valid => tx_data_valid'
    BY DEF Edge, WbClock, TxShape
  <2> QED
    BY <2>1, <2>2 DEF TxIdle, TxTime
<1>5. tx_ready' /\ tx_data_valid' => wb_ack_o'
  BY DEF Edge, WbClock, Written, TxClock, TxIdle, TxCount, TxStart, TxData, TxStop,
         TxGuard, TxShape
<1> QED
  BY <1>1, <1>2, <1>3, <1>4, <1>5 DEF TxShape

\* With nobody else on it, the line is what the port drives.
LEMMA LineIs ==
  ASSUME Types, TxShape, WaitInv
  PROVE  Line = IF esc_state = "send" THEN EscLevel ELSE pin.tx
BY DEF Line, EscLevel, TxShape, WaitInv, Types, PortTypes

\* An ESC that listens for a start bit sees it in its second clock on the pin.
LEMMA IdleLine ==
  ASSUME Types, TxShape, WaitInv, HearInv, Levels, esc_state = "idle"
  PROVE  Line = 0 <=> tx_state = "START" /\ TxTime = 2
<1>1. Line = pin.tx
  BY LineIs
<1>2. CASE Unheard
  <2>1. tx_state = "START" /\ TxTime <= 2 /\ TxBit = 0 /\ TxTime \in Nat
    BY <1>2, TxBitIs, Numbers DEF Unheard, Types
  <2>2. pin.tx = Seen(owed[1], 0, TxTime, 2)
    BY <1>2, <2>1 DEF Levels
  <2> QED
    BY <1>1, <2>1, <2>2 DEF Seen, LevelOf
<1>3. CASE ~Unheard
  BY <1>1, <1>3 DEF Levels, Unheard
<1> QED
  BY <1>2, <1>3

\* What an ESC does that waits for a start bit, hears a byte, has heard it.
LEMMA HearStep ==
  ASSUME Types, TxShape, WaitInv, HearInv, Levels, Quiet, TxClock, EscClock
  PROVE  HearInv'
<1> USE Numbers
<1>0. PortTypes /\ TxTime \in 0 .. lastClock /\ TxBit \in Nat
  BY TxBitIs DEF Types
<1>1. CASE esc_state = "idle"
  <2>0. EscIdle
    BY <1>1 DEF EscClock, EscHear, EscMiddle, EscByteEnds, EscWait, EscSending
  <2>1. CASE tx_state = "START" /\ TxTime <= 2
    <3>1. tx_state' # "IDLE" /\ Advance(TxBit, TxTime, TxBit', TxTime') /\ TxBit = 0
      BY <1>0, <2>1, TxSends, TxBitIs DEF TxEnds
    <3>2. TxBit' = 0 /\ TxTime' = TxTime + 1
      BY <1>0, <2>1, <3>1 DEF Advance
    <3>3. tx_state' = "START"
      BY <1>0, <2>1, TxBitIs DEF TxClock, TxIdle, TxCount, TxStart, TxData, TxStop,
                                 TxGuard
    <3>4. CASE Line = 0
      <4>1. esc_state' = "hear" /\ esc_bit' = 0 /\ esc_clock' = 1 /\ turn' = turn
        BY <1>1, <2>0, <3>4 DEF EscIdle, HearInv
      <4>2. TxTime' = 3
        BY <1>1, <3>2, <3>4, IdleLine
      <4> QED
        BY <1>1, <3>1, <3>2, <4>1, <4>2 DEF HearInv, Behind
    <3>5. CASE Line # 0
      <4>1. esc_state' = "idle" /\ esc_bit' = 0 /\ turn' = turn
        BY <1>1, <2>0, <3>5 DEF EscIdle, HearInv
      <4>2. TxTime' <= 2
        BY <1>0, <1>1, <2>1, <3>2, <3>5, IdleLine
      <4> QED
        BY <1>1, <3>3, <4>1, <4>2 DEF HearInv
    <3> QED
      BY <3>4, <3>5
  <2>2. CASE Past(half_bit + 3)
    <3>1. tx_state # "START"
      BY <2>2 DEF Past
    <3>2. esc_state' = "idle" /\ esc_bit' = 0 /\ turn' = turn
      BY <1>1, <2>0, <3>1, IdleLine DEF EscIdle, HearInv
    <3>3. CASE tx_state = "IDLE" /\ TxBegins
      <4>1. tx_state' = "START" /\ TxTime' = 0
        BY <1>0, <3>3, TxRests
      <4> QED
        BY <1>1, <3>2, <4>1 DEF HearInv
    <3>4. CASE tx_state # "IDLE" \/ ~TxBegins
      <4>1. Past(half_bit + 4)'
        BY <1>0, <2>2, <3>4, PastStep, half_bit + 3 \in Nat,
           half_bit + 3 + 1 = half_bit + 4
      <4>2. Past(half_bit + 3)'
        <5>1. TxTime' \in Int \/ tx_state' = "IDLE"
          BY <1>0, <3>4, TxSends, TxRests DEF Advance
        <5> QED
          BY <4>1, <5>1 DEF Past
      <4> QED
        BY <1>1, <3>2, <4>2 DEF HearInv
    <3> QED
      BY <3>3, <3>4
  <2> QED
    BY <1>1, <2>1, <2>2 DEF HearInv
<1>2. CASE esc_state = "hear"
  <2>0. /\ tx_state # "IDLE" /\ Behind(TxBit, TxTime, 2, esc_bit, esc_clock)
        /\ esc_bit > 0 \/ esc_clock > 0
        /\ esc_bit = BITS + 1 => esc_clock <= half_bit
        /\ esc_bit \in 0 .. BITS + 1 /\ esc_clock \in 0 .. lastClock /\ turn = "host"
    BY <1>2 DEF HearInv, Types, OtherTypes
  <2>1. CASE ~(EscMiddle /\ esc_bit = BITS + 1)
    <3>1. EscHear
      BY <1>2, <2>1 DEF EscClock, EscIdle, EscByteEnds, EscWait, EscSending
    <3>2. Advance(esc_bit, esc_clock, esc_bit', esc_clock')
      BY <3>1 DEF EscHear, EscTimePasses, Advance
    <3>3. ~TxEnds
      BY <1>0, <2>0, TxBitIs DEF TxEnds, Behind
    <3>4. tx_state' # "IDLE" /\ Advance(TxBit, TxTime, TxBit', TxTime')
      BY <1>0, <2>0, <3>3, TxSends
    <3>5. Behind(TxBit', TxTime', 2, esc_bit', esc_clock')
      BY <1>0, <2>0, <3>2, <3>4, BehindStep
    <3>6. esc_state' = "hear" /\ turn' = turn
      BY <1>2, <3>1 DEF EscHear
    <3>7. esc_bit = BITS + 1 => esc_clock < half_bit
      BY <1>2, <2>0, <2>1 DEF EscMiddle
    <3>8. /\ esc_bit' > 0 \/ esc_clock' > 0
          /\ esc_bit' = BITS + 1 => esc_clock' <= half_bit
      BY <2>0, <3>2, <3>7 DEF Advance
    <3> QED
      BY <2>0, <3>4, <3>5, <3>6, <3>8 DEF HearInv, Behind
  <2>2. CASE EscMiddle /\ esc_bit = BITS + 1
    <3>1. EscByteEnds
      BY <1>2, <2>2 DEF EscClock, EscIdle, EscHear, EscWait, EscSending
    <3>2. Past(half_bit + 2)
      <4>1. esc_clock = half_bit
        BY <2>2 DEF EscMiddle
      <4>2. (TxBit = BITS + 1 /\ TxTime = half_bit + 2)
              \/ (TxBit = BITS + 2 /\ TxTime + baud_div = half_bit + 2)
        BY <1>0, <2>0, <2>2, <4>1 DEF Behind
      <4>3. tx_state \in TxStates
        BY <1>0 DEF PortTypes
      <4> QED
        BY <1>0, <4>2, <4>3, TxBitIs DEF Past, TxStates
    <3>3. Past(half_bit + 3)'
      BY <1>0, <2>0, <3>2, PastStep, half_bit + 2 \in Nat,
         half_bit + 2 + 1 = half_bit + 3
    <3>4. /\ esc_bit' = 0 /\ esc_state' \in {"idle", "wait"}
          /\ turn' = IF esc_state' = "wait" THEN "esc" ELSE "host"
      BY <2>0, <3>1 DEF EscByteEnds
    <3> QED
      BY <3>3, <3>4 DEF HearInv
  <2> QED
    BY <2>1, <2>2
<1>3. CASE esc_state = "wait"
  <2>1. EscWait
    BY <1>3 DEF EscClock, EscIdle, EscHear, EscMiddle, EscByteEnds, EscSending
  <2>2. turn' = "esc" /\ (esc_state' = "send" \/ (esc_state' = "wait" /\ esc_bit' = 0))
    BY <1>3, <2>1 DEF EscWait, EscSend, HearInv
  <2> QED
    BY <2>2 DEF HearInv
<1>4. CASE esc_state = "send"
  <2>1. EscSending
    BY <1>4 DEF EscClock, EscIdle, EscHear, EscMiddle, EscByteEnds, EscWait
  <2>2. turn = "esc" /\ tx_state = "IDLE" /\ ~TxBegins
    BY <1>4 DEF HearInv, WaitInv, Quiet, TxBegins
  <2>3. tx_state' = "IDLE"
    BY <1>0, <2>2, TxRests
  <2>4. \/ esc_state' = "send" /\ turn' = "esc"
        \/ esc_state' = "idle" /\ esc_bit' = 0 /\ turn' = "host"
    BY <1>4, <2>1, <2>2 DEF EscSending, EscSend
  <2> QED
    BY <2>3, <2>4 DEF HearInv, Past
<1> QED
  BY <1>1, <1>2, <1>3, <1>4 DEF Types, OtherTypes

\* The end of a byte the ESC hears: the transmitter is as far in the stop bit, or in the
\* guard bit behind it.
LEMMA ByteEndIs ==
  ASSUME Types, HearInv, EscMiddle, esc_bit = BITS + 1
  PROVE  \/ tx_state = "STOP" /\ TxTime = half_bit + 2
         \/ tx_state = "GUARD" /\ TxTime + baud_div = half_bit + 2
<1>1. esc_state = "hear" /\ esc_clock = half_bit
  BY DEF EscMiddle
<1>2. tx_state # "IDLE" /\ Behind(TxBit, TxTime, 2, esc_bit, esc_clock)
  BY <1>1 DEF HearInv
<1>3. (TxBit = BITS + 1 /\ TxTime = half_bit + 2)
        \/ (TxBit = BITS + 2 /\ TxTime + baud_div = half_bit + 2)
  BY <1>1, <1>2, TxBitIs, Numbers DEF Behind, Types
<1> QED
  BY <1>2, <1>3, TxBitIs, Numbers DEF Types, PortTypes, TxStates

\* From the middle of the last stop bit the guard time is over before the shortest wait.
LEMMA WaitIsLong ==
  ASSUME NEW wait \in Nat, wait + 2 >= 2 * baud_div - half_bit, NEW time \in Nat
  PROVE  /\ time = half_bit + 2 => wait + 1 >= 2 * baud_div - (time + 1) + 2
         /\ time = half_bit + 2 /\ time = lastClock => wait + 1 >= baud_div - 0 + 2
         /\ time + baud_div = half_bit + 2 => wait + 1 >= baud_div - (time + 1) + 2
BY Numbers

\* The wait of an ESC outlasts the guard time.
LEMMA WaitStep ==
  ASSUME Types, TxShape, WaitInv, HearInv, Quiet, TxClock, LineClock, EscClock
  PROVE  WaitInv'
<1> USE Numbers
<1>0. /\ PortTypes /\ TxTime \in 0 .. lastClock /\ TxBit \in Nat
      /\ drive' = [oe |-> tx_active, tx |-> tx_out] /\ pin' = drive
  BY TxBitIs DEF Types, LineClock
<1>1. CASE esc_state = "idle"
  BY <1>1 DEF EscClock, EscIdle, EscHear, EscMiddle, EscByteEnds, EscWait, EscSending,
              WaitInv
<1>2. CASE esc_state = "hear" /\ esc_state' # "wait"
  BY <1>2 DEF EscClock, EscIdle, EscHear, EscByteEnds, EscWait, EscSending, WaitInv
<1>3. CASE esc_state = "hear" /\ esc_state' = "wait"
  <2>1. EscByteEnds /\ EscMiddle /\ esc_bit = BITS + 1
    BY <1>3 DEF EscClock, EscIdle, EscHear, EscByteEnds, EscWait, EscSending
  <2>2. esc_clock' \in Nat /\ esc_clock' + 2 >= 2 * baud_div - half_bit
    <3>1. \A w \in ReplyWaits : w \in Nat /\ w + 2 >= 2 * baud_div - half_bit
      BY PaceAssumption, SidesAssumption
    <3>2. esc_clock' \in ReplyWaits
      BY <1>3, <2>1 DEF EscByteEnds
    <3> QED
      BY <3>1, <3>2
  <2>3. \/ tx_state = "STOP" /\ TxTime = half_bit + 2
        \/ tx_state = "GUARD" /\ TxTime + baud_div = half_bit + 2
    BY <2>1, ByteEndIs
  <2>4. tx_state' # "IDLE" /\ Advance(TxBit, TxTime, TxBit', TxTime')
    BY <1>0, <2>3, TxSends DEF TxEnds
  <2>5. CASE tx_state = "STOP"
    <3>1. tx_state' = IF TxTime = lastClock THEN "GUARD" ELSE "STOP"
      BY <1>0, <2>5, TxBitIs DEF TxClock, TxIdle, TxCount, TxStart, TxData, TxStop,
                                 TxGuard
    <3>2. TxTime' = IF TxTime = lastClock THEN 0 ELSE TxTime + 1
      BY <2>4 DEF Advance
    <3>3. Past(half_bit + 3)'
      BY <1>0, <2>3, <2>5, <3>1, <3>2 DEF Past
    <3>4. /\ tx_state' = "STOP" => esc_clock' + 1 >= 2 * baud_div - TxTime' + 2
          /\ tx_state' = "GUARD" => esc_clock' + 1 >= baud_div - TxTime' + 2
      <4>1. TxTime \in Nat /\ TxTime = half_bit + 2
        BY <1>0, <2>3, <2>5
      <4>2. /\ TxTime = lastClock => esc_clock' + 1 >= baud_div - 0 + 2
            /\ esc_clock' + 1 >= 2 * baud_div - (TxTime + 1) + 2
        BY <2>2, <4>1, WaitIsLong
      <4>3. CASE TxTime = lastClock
        <5>1. tx_state' = "GUARD" /\ TxTime' = 0
          BY <3>1, <3>2, <4>3
        <5> QED
          BY <4>2, <4>3, <5>1
      <4>4. CASE TxTime # lastClock
        <5>1. tx_state' = "STOP" /\ TxTime' = TxTime + 1
          BY <3>1, <3>2, <4>4
        <5> QED
          BY <4>2, <4>4, <5>1
      <4> QED
        BY <4>3, <4>4
    <3> QED
      BY <1>3, <2>4, <3>3, <3>4 DEF WaitInv
  <2>6. CASE tx_state = "GUARD"
    <3>1. TxTime # lastClock
      BY <1>0, <2>3, <2>6
    <3>2. tx_state' = "GUARD"
      BY <1>0, <2>6, <3>1, TxBitIs DEF TxClock, TxIdle, TxCount, TxStart, TxData,
                                       TxStop, TxGuard
    <3>3. TxTime' = TxTime + 1
      BY <2>4, <3>1 DEF Advance
    <3>4. Past(half_bit + 3)'
      BY <1>0, <2>3, <2>6, <3>2, <3>3 DEF Past
    <3>5. esc_clock' + 1 >= baud_div - TxTime' + 2
      <4>1. TxTime \in Nat /\ TxTime + baud_div = half_bit + 2
        BY <1>0, <2>3, <2>6
      <4>2. esc_clock' + 1 >= baud_div - (TxTime + 1) + 2
        BY <2>2, <4>1, WaitIsLong
      <4> QED
        BY <3>3, <4>2
    <3> QED
      BY <1>3, <3>2, <3>4, <3>5 DEF WaitInv
  <2> QED
    BY <2>3, <2>5, <2>6
<1>4. CASE esc_state = "wait"
  <2>0. /\ EscWait /\ Past(half_bit + 3) /\ esc_clock \in Nat
        /\ tx_state = "STOP" => esc_clock + 1 >= 2 * baud_div - TxTime + 2
        /\ tx_state = "GUARD" => esc_clock + 1 >= baud_div - TxTime + 2
        /\ tx_state = "IDLE" /\ drive.oe => esc_clock >= 1
    BY <1>4 DEF EscClock, EscIdle, EscHear, EscMiddle, EscByteEnds, EscSending, WaitInv,
                Types, OtherTypes
  <2>1. ~TxBegins
    BY <1>4 DEF HearInv, Quiet, TxBegins
  <2>2. Past(half_bit + 3)'
    <3>1. Past(half_bit + 4)'
      BY <1>0, <2>0, <2>1, PastStep, half_bit + 3 \in Nat,
         half_bit + 3 + 1 = half_bit + 4
    <3>2. TxTime' \in Int \/ tx_state' = "IDLE"
      BY <1>0, <2>1, TxSends, TxRests DEF Advance
    <3> QED
      BY <3>1, <3>2 DEF Past
  <2>3. CASE tx_state = "IDLE"
    <3>1. tx_state' = "IDLE" /\ ~drive'.oe
      BY <1>0, <2>1, <2>3, TxRests DEF TxShape
    <3>2. CASE esc_clock = 0
      <4>1. esc_state' = "send" /\ ~drive.oe
        BY <2>0, <2>3, <3>2 DEF EscWait, EscSend
      <4> QED
        BY <1>0, <3>1, <4>1 DEF WaitInv
    <3>3. CASE esc_clock # 0
      <4>1. esc_state' = "wait"
        BY <1>4, <2>0, <3>3 DEF EscWait
      <4> QED
        BY <2>2, <3>1, <4>1 DEF WaitInv
    <3> QED
      BY <3>2, <3>3
  <2>4. CASE tx_state # "IDLE"
    <3>0. esc_clock >= 2
      BY <1>0, <2>0, <2>4 DEF Past
    <3>1. esc_state' = "wait" /\ esc_clock' = esc_clock - 1
      BY <1>4, <2>0, <3>0 DEF EscWait
    <3>2. CASE TxEnds
      <4>1. tx_state' = "IDLE"
        BY <1>0, <2>4, <3>2, TxSends
      <4> QED
        BY <1>0, <2>0, <2>2, <3>0, <3>1, <4>1 DEF WaitInv
    <3>3. CASE ~TxEnds
      <4>1. /\ tx_state' # "IDLE"
            /\ TxTime' = IF TxTime = lastClock THEN 0 ELSE TxTime + 1
        BY <1>0, <2>4, <3>3, TxSends DEF Advance
      <4>2. tx_state' = IF tx_state = "STOP" /\ TxTime # lastClock THEN "STOP"
                        ELSE "GUARD"
        <5>1. tx_state \in {"STOP", "GUARD"}
          BY <2>0, <2>4 DEF Past
        <5> QED
          BY <1>0, <3>3, <5>1, TxBitIs
             DEF TxEnds, TxClock, TxIdle, TxCount, TxStart, TxData, TxStop, TxGuard
      <4>3. tx_state = "STOP" \/ (tx_state = "GUARD" /\ TxTime # lastClock)
        BY <2>0, <2>4, <3>3 DEF Past, TxEnds
      <4> QED
        BY <1>0, <2>0, <2>2, <3>0, <3>1, <4>1, <4>2, <4>3 DEF WaitInv
    <3> QED
      BY <3>2, <3>3
  <2> QED
    BY <2>3, <2>4
<1>5. CASE esc_state = "send"
  <2>1. EscSending
    BY <1>5 DEF EscClock, EscIdle, EscHear, EscMiddle, EscByteEnds, EscWait
  <2>2. tx_state = "IDLE" /\ ~drive.oe /\ ~TxBegins /\ ~tx_active
    BY <1>5 DEF HearInv, WaitInv, Quiet, TxBegins, TxShape
  <2>3. tx_state' = "IDLE"
    BY <1>0, <2>2, TxRests
  <2>4. esc_state' \in {"send", "idle"}
    BY <1>5, <2>1 DEF EscSending, EscSend
  <2> QED
    BY <1>0, <2>2, <2>3, <2>4 DEF WaitInv
<1> QED
  BY <1>1, <1>2, <1>3, <1>4, <1>5 DEF Types, OtherTypes

\* The bytes that come in: while the transmitter sends none is accepted; at rest, the
\* byte of the bus accepted before is the only one, or the stream's goes first.
LEMMA OwedSending ==
  ASSUME TxShape, tx_state # "IDLE", NEW m_tready, UnderWay(m_tready), WbClock,
         owed \in Seq(Byte)
  PROVE  /\ owed' = IF EscHears /\ owed # <<>> THEN Tail(owed) ELSE owed
         /\ tx_data_reg' = tx_data_reg
         /\ tx_data_valid' <=> Pending
<1>1. ~Written /\ ~StreamTaken
  BY DEF Written, StreamTaken, s_esc_tready, TxShape
<1>2. PICK s \in Seq(Byte) : s = IF EscHears /\ owed # <<>> THEN Tail(owed) ELSE owed
  BY HeadTailProperties
<1>3. owed' = s \o <<>> \o <<>>
  BY <1>1, <1>2 DEF UnderWay
<1>4. owed' = s
  BY <1>3, ConcatEmptySeq
<1> QED
  BY <1>1, <1>2, <1>4 DEF WbClock, Pending

\* What is owed after a clock of a transmitter at rest: a byte of the bus waits, or
\* whatever comes in now is all there is.
LEMMA OwedResting ==
  ASSUME Types, TxShape, OwedInv, tx_state = "IDLE", ~EscHears,
         NEW m_tready, UnderWay(m_tready), WbClock
  PROVE  /\ ~tx_data_consumed
         /\ tx_data_valid => owed = <<tx_data_reg>> /\ owed' = owed /\ tx_data_valid'
                             /\ tx_data_reg' = tx_data_reg
         /\ ~tx_data_valid =>
              /\ owed = <<>>
              /\ owed' = offer \o (IF Written THEN <<bus[2]>> ELSE <<>>)
              /\ tx_data_valid' <=> Written
              /\ Written => tx_data_reg' = bus[2]
<1>0. owed \in Seq(Byte)
  BY DEF Types, OtherTypes
<1>1. ~tx_data_consumed /\ ~Unheard
  BY DEF TxShape, Unheard
<1>2. CASE tx_data_valid
  <2>1. Pending /\ Len(owed) = 1 /\ owed[1] = tx_data_reg
    BY <1>1, <1>2 DEF OwedInv, Pending
  <2>2. ~Written /\ ~StreamTaken
    BY <1>2 DEF Written, StreamTaken, s_esc_tready, TxShape
  <2>3. owed' = owed \o <<>> \o <<>>
    BY <2>2 DEF UnderWay
  <2>4. owed' = owed
    BY <1>0, <2>3, ConcatEmptySeq
  <2>5. owed = <<tx_data_reg>>
    BY <1>0, <2>1
  <2> QED
    BY <1>1, <1>2, <2>2, <2>4, <2>5 DEF WbClock
<1>3. CASE ~tx_data_valid
  <2>1. Len(owed) = 0
    BY <1>1, <1>3 DEF OwedInv, Pending
  <2>2. owed = <<>>
    BY <1>0, <2>1, EmptySeq
  <2>3. PICK t \in Seq(Byte) : t = offer
    BY OfferIs DEF Types
  <2>4. (IF StreamTaken THEN offer ELSE <<>>) = t
    BY <1>3, <2>3 DEF StreamTaken, s_esc_tready
  <2>5. owed' = <<>> \o t \o (IF Written THEN <<bus[2]>> ELSE <<>>)
    BY <2>2, <2>4 DEF UnderWay
  <2>6. <<>> \o t = t
    BY ConcatEmptySeq
  <2> QED
    BY <1>1, <1>3, <2>2, <2>3, <2>5, <2>6 DEF WbClock
<1> QED
  BY <1>2, <1>3

\* How a byte begins, goes on, and is heard; and that none is under way else.
ByteBegins == tx_state = "IDLE" /\ TxBegins
ByteIsHeard == EscMiddle /\ esc_bit = BITS + 1
\* How hearing goes on: a byte begins, is heard on, or has been heard.
LEMMA HearCases ==
  ASSUME Types, TxShape, WaitInv, HearInv, Levels, Quiet, TxClock, EscClock
  PROVE  /\ ByteBegins => ~Unheard /\ Unheard'
                          /\ esc_state = "idle" /\ esc_state' = "idle"
                          /\ tx_state' = "START" /\ TxTime' = 0 /\ TxBit' = 0
         /\ tx_state = "IDLE" /\ ~TxBegins => ~Unheard /\ ~Unheard' /\ tx_state' = "IDLE"
         /\ Unheard /\ ~ByteIsHeard =>
              /\ Unheard' /\ tx_state' # "IDLE" /\ ~TxEnds
              /\ Advance(TxBit, TxTime, TxBit', TxTime')
         /\ Unheard /\ ByteIsHeard => ~Unheard' /\ tx_state' \in {"STOP", "GUARD", "IDLE"}
         /\ ~Unheard /\ tx_state # "IDLE" =>
              /\ Past(half_bit + 3) /\ ~Unheard' /\ tx_state' \in {"STOP", "GUARD", "IDLE"}
         /\ ByteIsHeard => Unheard
         /\ EscHears => ByteIsHeard
<1> USE Numbers
<1>0. PortTypes /\ TxTime \in 0 .. lastClock /\ TxBit \in Nat /\ HearInv'
  BY TxBitIs, HearStep DEF Types
<1>1. ASSUME ByteBegins
      PROVE  ~Unheard /\ Unheard' /\ esc_state = "idle" /\ esc_state' = "idle"
             /\ tx_state' = "START" /\ TxTime' = 0 /\ TxBit' = 0
  <2>1. tx_state' = "START" /\ TxTime' = 0 /\ TxBit' = 0
    BY <1>0, <1>1, TxRests DEF ByteBegins
  <2>2. esc_state = "idle"
    BY <1>1 DEF ByteBegins, TxBegins, Quiet, HearInv, Types, OtherTypes
  <2>3. EscIdle
    BY <2>2 DEF EscClock, EscHear, EscMiddle, EscByteEnds, EscWait, EscSending
  <2>4. esc_state' = "idle"
    BY <1>1, <2>2, <2>3, IdleLine DEF EscIdle, ByteBegins
  <2> QED
    BY <1>1, <2>1, <2>2, <2>4 DEF ByteBegins, Unheard
<1>2. ASSUME tx_state = "IDLE", ~TxBegins
      PROVE  ~Unheard /\ ~Unheard' /\ tx_state' = "IDLE"
  BY <1>0, <1>2, TxRests DEF Unheard
<1>3. ASSUME Unheard, ~ByteIsHeard
      PROVE  Unheard' /\ tx_state' # "IDLE" /\ ~TxEnds
             /\ Advance(TxBit, TxTime, TxBit', TxTime')
  <2>1. CASE esc_state = "hear"
    <3>1. EscHear
      BY <1>3, <2>1 DEF EscClock, EscIdle, EscByteEnds, EscWait, EscSending, ByteIsHeard
    <3>2. esc_state' = "hear"
      BY <2>1, <3>1 DEF EscHear
    <3>3. tx_state' # "IDLE"
      BY <1>0, <3>2 DEF HearInv
    <3> QED
      BY <1>0, <1>3, <3>2, <3>3, TxSends DEF Unheard
  <2>2. CASE esc_state = "idle"
    <3>1. tx_state = "START" /\ TxTime <= 2
      BY <1>3, <2>2 DEF Unheard
    <3>2. ~TxEnds /\ tx_state' # "IDLE" /\ Advance(TxBit, TxTime, TxBit', TxTime')
      BY <1>0, <3>1, TxSends DEF TxEnds
    <3>3. EscIdle
      BY <2>2 DEF EscClock, EscHear, EscMiddle, EscByteEnds, EscWait, EscSending
    <3>4. CASE Line = 0
      BY <3>2, <3>3, <3>4 DEF EscIdle, Unheard
    <3>5. CASE Line # 0
      <4>1. esc_state' = "idle"
        BY <3>3, <3>5 DEF EscIdle
      <4>2. TxTime # 2 /\ TxTime' = TxTime + 1
        BY <1>0, <2>2, <3>1, <3>2, <3>5, IdleLine DEF Advance
      <4>3. tx_state' = "START"
        BY <1>0, <3>1, TxBitIs DEF TxClock, TxIdle, TxCount, TxStart, TxData, TxStop,
                                   TxGuard
      <4> QED
        BY <1>0, <3>1, <3>2, <4>1, <4>2, <4>3 DEF Unheard
    <3> QED
      BY <3>4, <3>5
  <2> QED
    BY <1>3, <2>1, <2>2 DEF Unheard
<1>4. ByteIsHeard => Unheard
  BY DEF ByteIsHeard, EscMiddle, HearInv, Unheard
<1>5. ASSUME ByteIsHeard
      PROVE  ~Unheard' /\ tx_state' \in {"STOP", "GUARD", "IDLE"}
  <2>1. EscByteEnds
    BY <1>5 DEF ByteIsHeard, EscMiddle, EscClock, EscIdle, EscHear, EscWait, EscSending
  <2>2. tx_state \in {"STOP", "GUARD"}
    BY <1>5, ByteEndIs DEF ByteIsHeard
  <2>3. tx_state' \in {"STOP", "GUARD", "IDLE"}
    BY <2>2 DEF TxClock, TxIdle, TxCount, TxStart, TxData, TxStop, TxGuard
  <2> QED
    BY <2>1, <2>3 DEF EscByteEnds, Unheard
<1>6. ASSUME ~Unheard, tx_state # "IDLE"
      PROVE  /\ Past(half_bit + 3) /\ ~Unheard' /\ tx_state' \in {"STOP", "GUARD", "IDLE"}
  <2>1. Past(half_bit + 3) /\ esc_state \in {"idle", "wait"}
    BY <1>6 DEF HearInv, WaitInv, Unheard, Types, OtherTypes
  <2>2. tx_state \in {"STOP", "GUARD"}
    BY <1>6, <2>1 DEF Past
  <2>3. tx_state' \in {"STOP", "GUARD", "IDLE"}
    BY <2>2 DEF TxClock, TxIdle, TxCount, TxStart, TxData, TxStop, TxGuard
  <2>4. esc_state' # "hear"
    <3>1. CASE esc_state = "idle"
      <4>1. EscIdle
        BY <3>1 DEF EscClock, EscHear, EscMiddle, EscByteEnds, EscWait, EscSending
      <4> QED
        BY <2>2, <3>1, <4>1, IdleLine DEF EscIdle
    <3>2. CASE esc_state = "wait"
      BY <3>2 DEF EscClock, EscIdle, EscHear, EscMiddle, EscByteEnds, EscWait,
                  EscSending,
                  EscSend
    <3> QED
      BY <2>1, <3>1, <3>2
  <2> QED
    BY <2>1, <2>3, <2>4 DEF Unheard
<1>7. EscHears => ByteIsHeard
  BY DEF EscHears, ByteIsHeard
<1> QED
  BY <1>1, <1>2, <1>3, <1>4, <1>5, <1>6, <1>7 DEF ByteBegins

\* The byte that is under way, and one that begins.
LEMMA FirstStep ==
  ASSUME Types, TxShape, OwedInv, Unheard, ~ByteIsHeard, NEW m_tready,
         UnderWay(m_tready), WbClock
  PROVE  owed' = owed /\ owed # <<>> /\ owed[1] \in Byte
<1>1. owed' = owed
  BY OwedSending DEF Unheard, EscHears, ByteIsHeard, Types, OtherTypes
<1>2. Len(owed) >= 1
  BY DEF OwedInv
<1> QED
  BY <1>1, <1>2 DEF Types, OtherTypes

\* The three levels on the way out are the byte's, each at its delay.
LEMMA LevelsStep ==
  ASSUME Types, TxShape, TxShape', WaitInv, HearInv, Levels, BytesInv, OwedInv, Quiet,
         NEW m_tready \in BOOLEAN, Edge(m_tready)
  PROVE  Levels'
<1> USE Numbers
<1>0. /\ PortTypes /\ TxTime \in 0 .. lastClock /\ TxBit \in Nat
      /\ drive'.tx = tx_out /\ pin'.tx = drive.tx
      /\ TxClock /\ EscClock /\ WbClock /\ UnderWay(m_tready)
  BY TxBitIs DEF Types, Edge, LineClock
<1>1. tx_state = "IDLE" => tx_out = 1 /\ drive.tx = 1 /\ pin.tx = 1
  BY DEF Levels, Unheard
<1>2. CASE ByteBegins
  <2>1. Unheard' /\ tx_state' = "START" /\ TxTime' = 0 /\ TxBit' = 0
    BY <1>0, <1>2, HearCases
  <2>2. tx_out' = 0
    BY <1>0, <1>2 DEF ByteBegins, TxBegins, TxClock, TxIdle, TxCount, TxStart, TxData,
                      TxStop,
                      TxGuard
  <2>3. \A b : Seen(b, 0, 0, 0) = 0 /\ Seen(b, 0, 0, 1) = 1 /\ Seen(b, 0, 0, 2) = 1
    BY DEF Seen, LevelOf
  <2> QED
    BY <1>0, <1>1, <1>2, <2>1, <2>2, <2>3 DEF Levels, ByteBegins
<1>3. CASE tx_state = "IDLE" /\ ~TxBegins
  <2>1. ~Unheard' /\ tx_out' = 1
    BY <1>0, <1>3, HearCases DEF TxShape
  <2> QED
    BY <1>0, <1>1, <1>3, <2>1 DEF Levels
<1>4. CASE Unheard /\ ~ByteIsHeard
  <2>1. /\ Unheard' /\ tx_state' # "IDLE" /\ ~TxEnds
        /\ Advance(TxBit, TxTime, TxBit', TxTime')
    BY <1>0, <1>4, HearCases
  <2>2. owed' = owed /\ owed[1] \in Byte
    BY <1>0, <1>4, FirstStep
  <2>3. PICK b \in Byte : b = owed[1]
    BY <2>2
  <2>4. owed'[1] = b
    BY <2>2, <2>3
  <2>5. /\ tx_out = Seen(b, TxBit, TxTime, 0)
        /\ drive.tx = Seen(b, TxBit, TxTime, 1)
    BY <1>4, <2>3 DEF Levels
  <2>6. drive'.tx = Seen(b, TxBit', TxTime', 1)
    BY <1>0, <2>1, <2>5, SeenStep, 0 + 1 = 1
  <2>7. pin'.tx = Seen(b, TxBit', TxTime', 2)
    BY <1>0, <2>1, <2>5, SeenStep, 1 + 1 = 2
  <2>8. tx_out' = LevelOf(b, TxBit')
    <3>0. TxBit' = IF TxTime = lastClock THEN TxBit + 1 ELSE TxBit
      BY <2>1 DEF Advance
    <3>1. tx_out = LevelOf(b, TxBit)
      BY <1>0, <2>5 DEF Seen
    <3>2. CASE TxCount
      <4>1. TxTime # lastClock /\ tx_out' = tx_out
        BY <1>0, <3>2, TxBitIs DEF TxCount, PortTypes
      <4> QED
        BY <3>0, <3>1, <4>1
    <3>3. CASE TxStart
      <4>1. TxTime = lastClock /\ TxBit = 0 /\ tx_out' = tx_shift[1]
        BY <1>0, <3>3, TxBitIs DEF TxStart, PortTypes
      <4>2. tx_shift[1] = b[1]
        BY <1>4, <2>3, <3>3 DEF BytesInv, Shifted, TxStart
      <4> QED
        BY <3>0, <4>1, <4>2 DEF LevelOf
    <3>4. CASE TxData
      <4>1. TxTime = lastClock /\ TxBit = tx_bit_idx + 1 /\ tx_bit_idx \in 0 .. BITS - 1
        BY <1>0, <3>4, TxBitIs DEF TxData, PortTypes, TxBit
      <4>2. CASE tx_bit_idx = BITS - 1
        <5>1. tx_out' = 1
          BY <3>4, <4>2 DEF TxData
        <5> QED
          BY <3>0, <4>1, <4>2, <5>1 DEF LevelOf
      <4>3. CASE tx_bit_idx # BITS - 1
        <5>1. tx_out' = tx_shift[2]
          BY <3>4, <4>3 DEF TxData
        <5>2. tx_shift[2] = b[tx_bit_idx + 2]
          BY <1>4, <2>3, <3>4, <4>1, <4>3 DEF BytesInv, Shifted, TxData
        <5> QED
          BY <3>0, <4>1, <4>3, <5>1, <5>2 DEF LevelOf
      <4> QED
        BY <4>2, <4>3
    <3>5. CASE TxStop
      <4>1. TxTime = lastClock /\ TxBit = BITS + 1 /\ tx_out' = 1
        BY <1>0, <3>5, TxBitIs DEF TxStop, PortTypes, TxShape
      <4> QED
        BY <3>0, <4>1 DEF LevelOf
    <3> QED
      BY <1>0, <1>4, <2>1, <3>2, <3>3, <3>4, <3>5, TxBitIs
         DEF TxClock, TxIdle, TxGuard, TxEnds, Unheard
  <2>9. tx_out' = Seen(b, TxBit', TxTime', 0)
    <3>1. TxTime' >= 0
      BY <1>0, <2>1 DEF Advance
    <3> QED
      BY <2>8, <3>1 DEF Seen
  <2> QED
    BY <2>1, <2>4, <2>6, <2>7, <2>9 DEF Levels
<1>5. CASE Unheard /\ ByteIsHeard
  <2>1. ~Unheard' /\ tx_out' = 1 /\ tx_out = 1
    <3>1. tx_state \in {"STOP", "GUARD"}
      BY <1>5, ByteEndIs DEF ByteIsHeard
    <3> QED
      BY <1>0, <1>5, <3>1, HearCases DEF TxShape
  <2>2. drive.tx = 1
    <3>1. \/ TxBit = BITS + 1 /\ TxTime = half_bit + 2
          \/ TxBit = BITS + 2 /\ TxTime + baud_div = half_bit + 2
      BY <1>0, <1>5, ByteEndIs, TxBitIs DEF ByteIsHeard
    <3>2. \A b : Seen(b, TxBit, TxTime, 1) = 1
      BY <1>0, <3>1 DEF Seen, LevelOf
    <3> QED
      BY <1>5, <3>2 DEF Levels
  <2> QED
    BY <1>0, <2>1, <2>2 DEF Levels
<1>6. CASE ~Unheard /\ tx_state # "IDLE"
  <2>1. ~Unheard' /\ tx_out' = 1
    BY <1>0, <1>6, HearCases DEF TxShape
  <2> QED
    BY <1>0, <1>6, <2>1 DEF Levels
<1> QED
  BY <1>2, <1>3, <1>4, <1>5, <1>6 DEF ByteBegins

\* What comes into the queue with the byte that begins.
LEMMA BeginStep ==
  ASSUME Types, TxShape, OwedInv, HearInv, ByteBegins, NEW m_tready,
         UnderWay(m_tready), WbClock, TxClock
  PROVE  /\ owed' \in Seq(Byte) => owed'[1] = tx_shift'
         /\ Len(owed') = IF Pending' THEN 2 ELSE 1
         /\ Pending' => owed'[Len(owed')] = tx_data_reg'
<1>1. tx_state = "IDLE" /\ ~EscHears /\ TxIdle
  BY DEF ByteBegins, EscHears, EscMiddle, HearInv, TxClock, TxCount, TxStart, TxData,
         TxStop, TxGuard
<1>2. CASE tx_data_valid
  <2>1. owed' = <<tx_data_reg>>
    BY <1>1, <1>2, OwedResting
  <2>2. tx_shift' = tx_data_reg /\ tx_data_consumed'
    BY <1>1, <1>2 DEF TxIdle
  <2> QED
    BY <2>1, <2>2 DEF Pending
<1>3. CASE ~tx_data_valid
  <2>1. /\ owed' = offer \o (IF Written THEN <<bus[2]>> ELSE <<>>)
        /\ tx_data_valid' <=> Written
        /\ Written => tx_data_reg' = bus[2]
    BY <1>1, <1>3, OwedResting
  <2>2. PICK b \in Byte : offer = <<b>>
    BY <1>3, BytesAre DEF ByteBegins, TxBegins, Types, OtherTypes
  <2>3. tx_shift' = b /\ ~tx_data_consumed'
    BY <1>1, <1>3, <2>2 DEF TxIdle
  <2>4. CASE Written
    <3>1. PICK w \in Byte : w = bus[2]
      BY <2>4, BytesAre DEF Written, Types, OtherTypes
    <3>2. owed' = <<b>> \o <<w>>
      BY <2>1, <2>2, <2>4, <3>1
    <3>3. Len(owed') = 2 /\ owed'[1] = b /\ owed'[2] = w
      BY <3>2
    <3>4. Pending' /\ tx_data_reg' = w
      BY <2>1, <2>3, <2>4, <3>1 DEF Pending
    <3> QED
      BY <2>3, <3>3, <3>4
  <2>5. CASE ~Written
    <3>1. owed' = <<b>> \o <<>>
      BY <2>1, <2>2, <2>5
    <3>2. owed' = <<b>>
      BY <3>1
    <3> QED
      BY <2>1, <2>3, <2>5, <3>2 DEF Pending
  <2> QED
    BY <2>4, <2>5
<1> QED
  BY <1>2, <1>3

\* What the ESC has in hand is what it has heard of the byte.
LEMMA HeardStep ==
  ASSUME Types, TxShape, WaitInv, HearInv, Levels, BytesInv, OwedInv, Quiet,
         NEW m_tready \in BOOLEAN, Edge(m_tready), esc_state' = "hear"
  PROVE  \A j \in 1 .. BITS : j < esc_bit' \/ (j = esc_bit' /\ esc_clock' > half_bit)
           => esc_byte'[j] = owed'[1][j]
<1> USE Numbers
<1>0. TxClock /\ EscClock /\ WbClock /\ UnderWay(m_tready)
  BY DEF Edge
<1>1. CASE esc_state # "hear"
  <2>1. EscIdle
    BY <1>0, <1>1 DEF EscClock, EscHear, EscMiddle, EscByteEnds, EscWait, EscSending,
                      EscSend
  <2>2. esc_bit' = 0
    BY <2>1 DEF EscIdle, HearInv
  <2> QED
    BY <2>2
<1>2. CASE esc_state = "hear"
  <2>1. EscHear /\ ~ByteIsHeard
    <3>1. ~EscByteEnds
      BY DEF EscByteEnds
    <3>2. EscHear
      BY <1>0, <1>2, <3>1 DEF EscClock, EscIdle, EscWait, EscSending
    <3> QED
      BY <3>2 DEF EscHear, ByteIsHeard
  <2>2. Unheard /\ tx_state # "IDLE" /\ Behind(TxBit, TxTime, 2, esc_bit, esc_clock)
    BY <1>2 DEF HearInv, Unheard
  <2>3. PICK b \in Byte : b = owed[1] /\ b = owed'[1]
    BY <1>0, <2>1, <2>2, FirstStep
  <2>4. esc_bit \in 0 .. BITS + 1 /\ esc_clock \in 0 .. lastClock /\ esc_byte \in Byte
    BY <1>2 DEF Types, OtherTypes
  <2>5. Advance(esc_bit, esc_clock, esc_bit', esc_clock')
    BY <2>1 DEF EscHear, EscTimePasses, Advance
  <2>6. Line = LevelOf(b, esc_bit)
    <3>1. Line = pin.tx
      BY <1>2, LineIs
    <3>2. pin.tx = Seen(b, TxBit, TxTime, 2)
      BY <2>2, <2>3 DEF Levels
    <3> QED
      BY <2>2, <3>1, <3>2, SeenBehind, TxBitIs DEF Types
  <2>7. \A j \in 1 .. BITS : j < esc_bit \/ (j = esc_bit /\ esc_clock > half_bit)
          => esc_byte[j] = b[j]
    BY <1>2, <2>3 DEF BytesInv
  <2>8. CASE EscMiddle /\ esc_bit > 0
    <3>1. esc_bit \in 1 .. BITS /\ esc_clock = half_bit
      BY <2>1, <2>4, <2>8 DEF ByteIsHeard, EscMiddle
    <3>2. esc_byte' = [esc_byte EXCEPT ![esc_bit] = b[esc_bit]]
      <4>1. Line = b[esc_bit]
        BY <2>6, <3>1 DEF LevelOf
      <4>2. esc_byte' = [esc_byte EXCEPT ![esc_bit] = Line]
        BY <2>1, <2>8 DEF EscHear
      <4> QED
        BY <4>1, <4>2
    <3>3. esc_bit' = esc_bit /\ esc_clock' = half_bit + 1
      BY <2>5, <3>1 DEF Advance
    <3>4. \A j \in 1 .. BITS : j <= esc_bit => esc_byte'[j] = b[j]
      BY <2>4, <2>7, <3>1, <3>2 DEF Byte
    <3> QED
      BY <2>3, <2>4, <3>3, <3>4
  <2>9. CASE ~(EscMiddle /\ esc_bit > 0)
    <3>1. esc_byte' = esc_byte
      BY <2>1, <2>9 DEF EscHear
    <3>2. esc_bit = 0 \/ esc_clock # half_bit
      BY <1>2, <2>4, <2>9 DEF EscMiddle
    <3>3. \A j \in 1 .. BITS : j < esc_bit' \/ (j = esc_bit' /\ esc_clock' > half_bit)
            => j < esc_bit \/ (j = esc_bit /\ esc_clock > half_bit)
      BY <2>4, <2>5, <3>2 DEF Advance
    <3> QED
      BY <2>3, <2>7, <3>1, <3>3
  <2> QED
    BY <2>8, <2>9
<1> QED
  BY <1>1, <1>2

\* What is left in the shift register is what is left to send.
LEMMA ShiftStep ==
  ASSUME Types, TxShape, WaitInv, HearInv, Levels, BytesInv, OwedInv, Quiet, OtherTypes',
         NEW m_tready \in BOOLEAN, Edge(m_tready), Unheard',
         tx_state' \in {"START", "DATA"}
  PROVE  \A j \in 1 .. BITS - Shifted' : tx_shift'[j] = owed'[1][Shifted' + j]
<1> USE Numbers
<1>0. TxClock /\ EscClock /\ WbClock /\ UnderWay(m_tready)
  BY DEF Edge
<1>1. CASE ByteBegins
  <2>1. owed'[1] = tx_shift'
    BY <1>0, <1>1, BeginStep DEF OtherTypes
  <2>2. Shifted' = 0
    BY <1>0, <1>1, HearCases DEF Shifted
  <2> QED
    BY <2>1, <2>2
<1>2. CASE Unheard /\ ~ByteIsHeard
  <2>1. PICK b \in Byte : b = owed[1] /\ b = owed'[1]
    BY <1>0, <1>2, FirstStep
  <2>2. tx_state # "IDLE"
    BY <1>2 DEF Unheard
  <2>3. CASE TxCount
    <3>1. tx_state' = tx_state /\ tx_shift' = tx_shift /\ tx_bit_idx' = tx_bit_idx
      BY <2>3 DEF TxCount
    <3> QED
      BY <1>2, <2>1, <3>1 DEF BytesInv, Shifted
  <2>4. CASE TxStart
    <3>1. /\ tx_state' = "DATA" /\ tx_shift' = tx_shift /\ tx_bit_idx' = 0
          /\ tx_state = "START"
      BY <2>4 DEF TxStart
    <3> QED
      BY <1>2, <2>1, <3>1 DEF BytesInv, Shifted
  <2>5. CASE TxData
    <3>1. /\ tx_state = "DATA" /\ tx_state' = "DATA" /\ tx_bit_idx' = tx_bit_idx + 1
          /\ tx_bit_idx \in 0 .. BITS - 2 /\ tx_shift' = ShiftIn(tx_shift, 0)
      BY <2>5 DEF TxData, Types, PortTypes
    <3>2. \A j \in 1 .. BITS - 1 : tx_shift'[j] = tx_shift[j + 1]
      BY <3>1, ShiftInIs DEF Types, PortTypes
    <3>3. \A j \in 1 .. BITS - tx_bit_idx : tx_shift[j] = b[tx_bit_idx + j]
      BY <1>2, <2>1, <3>1 DEF BytesInv, Shifted
    <3>4. Shifted' = tx_bit_idx + 1
      BY <3>1 DEF Shifted
    <3>5. ASSUME NEW j \in 1 .. BITS - (tx_bit_idx + 1)
          PROVE  tx_shift'[j] = b[tx_bit_idx + 1 + j]
      <4>1. j \in 1 .. BITS - 1 /\ j + 1 \in 1 .. BITS - tx_bit_idx
        BY <3>1
      <4>2. tx_bit_idx + (j + 1) = tx_bit_idx + 1 + j
        BY <3>1
      <4> QED
        BY <3>2, <3>3, <4>1, <4>2
    <3> QED
      BY <2>1, <3>4, <3>5
  <2>6. CASE TxStop \/ TxGuard
    BY <2>6 DEF TxStop, TxGuard
  <2> QED
    BY <1>0, <2>2, <2>3, <2>4, <2>5, <2>6 DEF TxClock, TxIdle
<1> QED
  BY <1>0, <1>1, <1>2, HearCases DEF ByteBegins

\* The port holds the bytes owed: the one on the line and the one in the register.
LEMMA OwedStep ==
  ASSUME Types, TxShape, WaitInv, HearInv, Levels, OwedInv, Quiet,
         NEW m_tready \in BOOLEAN, Edge(m_tready)
  PROVE  OwedInv'
<1> USE Numbers
<1>0. /\ TxClock /\ EscClock /\ WbClock /\ UnderWay(m_tready)
      /\ owed \in Seq(Byte) /\ tx_data_valid \in BOOLEAN /\ tx_data_consumed \in BOOLEAN
  BY DEF Edge, Types, OtherTypes, PortTypes
<1>1. CASE ByteBegins
  <2>1. Unheard'
    BY <1>0, <1>1, HearCases
  <2> QED
    BY <1>0, <1>1, <2>1, BeginStep DEF OwedInv
<1>2. CASE tx_state = "IDLE" /\ ~TxBegins
  <2>1. ~Unheard'
    BY <1>0, <1>2, HearCases
  <2>2. ~EscHears
    BY <1>0, <1>2, HearCases DEF Unheard
  <2>3. /\ offer = <<>> /\ owed' = offer \o (IF Written THEN <<bus[2]>> ELSE <<>>)
        /\ tx_data_valid' <=> Written
        /\ Written => tx_data_reg' = bus[2]
    BY <1>0, <1>2, <2>2, OwedResting DEF TxBegins
  <2>4. ~tx_data_consumed'
    BY <1>0, <1>2 DEF TxClock, TxIdle, TxCount, TxStart, TxData, TxStop, TxGuard,
                      TxBegins
  <2>5. CASE Written
    <3>1. PICK w : w = bus[2]
      OBVIOUS
    <3>2. owed' = <<>> \o <<w>>
      BY <2>3, <2>5, <3>1
    <3>3. owed' = <<w>>
      BY <3>2
    <3> QED
      BY <2>1, <2>3, <2>4, <2>5, <3>1, <3>3 DEF OwedInv, Pending
  <2>6. CASE ~Written
    <3>1. owed' = <<>> \o <<>>
      BY <2>3, <2>6
    <3>2. owed' = <<>>
      BY <3>1
    <3> QED
      BY <2>1, <2>3, <2>6, <3>2 DEF OwedInv, Pending
  <2> QED
    BY <2>5, <2>6
<1>3. CASE tx_state # "IDLE"
  <2>1. ~tx_data_consumed'
    BY <1>0, <1>3 DEF TxClock, TxIdle, TxCount, TxStart, TxData, TxStop, TxGuard
  <2>2. /\ owed' = IF EscHears /\ owed # <<>> THEN Tail(owed) ELSE owed
        /\ tx_data_reg' = tx_data_reg /\ (Pending' <=> Pending)
    BY <1>0, <1>3, <2>1, OwedSending DEF Pending
  <2>3. CASE Unheard /\ ~ByteIsHeard
    <3>1. owed' = owed /\ Unheard'
      BY <1>0, <2>2, <2>3, HearCases
    <3> QED
      BY <2>2, <2>3, <3>1 DEF OwedInv
  <2>4. CASE Unheard /\ ByteIsHeard
    <3>1. ~Unheard'
      BY <1>0, <2>4, HearCases
    <3>2. EscHears
      <4>1. esc_state = "hear" /\ Behind(TxBit, TxTime, 2, esc_bit, esc_clock)
        BY <2>4 DEF ByteIsHeard, EscMiddle, HearInv
      <4>2. Line = pin.tx
        BY <4>1, LineIs
      <4>3. pin.tx = Seen(owed[1], TxBit, TxTime, 2)
        BY <2>4 DEF Levels
      <4>4. Line = LevelOf(owed[1], esc_bit)
        BY <4>1, <4>2, <4>3, SeenBehind, TxBitIs DEF Types
      <4>5. Line = 1
        BY <2>4, <4>4 DEF ByteIsHeard, LevelOf
      <4> QED
        BY <2>4, <4>5 DEF ByteIsHeard, EscHears
    <3>3. Len(owed) = IF Pending THEN 2 ELSE 1
      BY <2>4 DEF OwedInv
    <3>4. owed' = Tail(owed) /\ Len(owed') = Len(owed) - 1
          /\ \A i \in 1 .. Len(owed) - 1 : owed'[i] = owed[i + 1]
      <4>1. owed # <<>>
        BY <3>3
      <4> QED
        BY <1>0, <2>2, <3>2, <4>1, HeadTailProperties
    <3> QED
      BY <2>2, <2>4, <3>1, <3>3, <3>4 DEF OwedInv
  <2>5. CASE ~Unheard
    <3>1. owed' = owed /\ ~Unheard'
      BY <1>0, <1>3, <2>2, <2>5, HearCases
    <3> QED
      BY <2>2, <2>5, <3>1 DEF OwedInv
  <2> QED
    BY <2>3, <2>4, <2>5
<1> QED
  BY <1>1, <1>2, <1>3 DEF ByteBegins

\* In the turn of the ESC, and until its answer has been taken, the host says nothing.
LEMMA QuietStep ==
  ASSUME Types, TxShape, WaitInv, WaitInv', HearInv, HearInv', Levels, OwedInv, Quiet,
         OtherTypes', NEW m_tready \in BOOLEAN, Edge(m_tready)
  PROVE  Quiet'
<1> USE Numbers
<1>0. /\ TxClock /\ EscClock /\ WbClock /\ UnderWay(m_tready) /\ HostClock
      /\ owed \in Seq(Byte) /\ replies \in Seq(Byte)
  BY DEF Edge, Types, OtherTypes
<1> SUFFICES ASSUME turn' = "esc" \/ replies' # <<>>
             PROVE  /\ offer' = <<>> /\ bus' \in {<<>>, <<"read">>} /\ ~tx_data_valid'
                    /\ owed' = <<>>
                    /\ replies' # <<>> => tx_state' = "IDLE"
  BY DEF Quiet
<1>1. replies = <<>> /\ replies' # <<>> => esc_left' < esc_left
  <2> SUFFICES ASSUME replies = <<>>, ~(esc_left' < esc_left) PROVE replies' = <<>>
    OBVIOUS
  <2>1. replies' = <<>> \o <<>>
    BY <1>0 DEF UnderWay
  <2> QED
    BY <2>1
<1>2. esc_left' < esc_left => esc_state' = "send" /\ turn' = "esc"
  <2>1. esc_left' = esc_left => ~(esc_left' < esc_left)
    BY DEF Types, OtherTypes
  <2>2. CASE EscWait \/ EscSending
    BY <2>1, <2>2 DEF EscWait, EscSending, EscSend, HearInv
  <2>3. CASE ~(EscWait \/ EscSending)
    BY <1>0, <2>1, <2>3 DEF EscClock, EscIdle, EscHear, EscByteEnds
  <2> QED
    BY <2>2, <2>3
<1>3. turn' = "esc" \/ replies # <<>>
  BY <1>1, <1>2
<1>4. ~OffersMore /\ ~WritesMore
  BY <1>0, <1>3 DEF HostClock, HostMaySpeak
<1>5. \/ turn = "esc" \/ replies # <<>>
      \/ EscHears /\ HostSilent
  <2>1. turn # "esc" /\ turn' = "esc" => EscHears /\ HostSilent
    BY <1>0 DEF EscClock, EscIdle, EscHear, EscByteEnds, EscWait, EscSending, EscSend,
                HearInv
  <2> QED
    BY <1>3, <2>1
<1>6. offer = <<>> /\ bus \in {<<>>, <<"read">>} /\ ~tx_data_valid
  <2>1. CASE turn = "esc" \/ replies # <<>>
    BY <2>1 DEF Quiet
  <2>2. CASE EscHears /\ HostSilent
    <3>1. ByteIsHeard /\ Unheard
      BY <1>0, <2>2, HearCases
    <3>2. Len(owed) = 1
      BY <2>2 DEF HostSilent
    <3>3. ~Pending
      BY <3>1, <3>2 DEF OwedInv
    <3>4. ~tx_data_consumed
      BY <3>1, ByteEndIs DEF ByteIsHeard, TxShape
    <3> QED
      BY <2>2, <3>3, <3>4 DEF Pending, HostSilent
  <2> QED
    BY <1>5, <2>1, <2>2
<1>7. offer' = <<>>
  BY <1>4, <1>6 DEF OffersMore
<1>8. bus' \in {<<>>, <<"read">>}
  <2>1. CASE bus = <<>>
    <3>1. bus' = <<>> \/ bus' = <<"read">> \/ \E b \in HostBytes : bus' = <<"write", b>>
      BY <1>0, <2>1 DEF HostClock, BusClock
    <3>2. \A b : <<"write", b>> # <<>> /\ <<"write", b>>[1] = "write"
      OBVIOUS
    <3> QED
      BY <1>4, <2>1, <3>1, <3>2 DEF WritesMore
  <2>2. CASE bus = <<"read">>
    BY <1>0, <2>2 DEF HostClock, BusClock
  <2> QED
    BY <1>6, <2>1, <2>2
<1>9. ~Written /\ ~StreamTaken
  BY <1>6 DEF Written, StreamTaken
<1>10. ~tx_data_valid'
  BY <1>0, <1>6, <1>9 DEF WbClock
<1>11. owed' = <<>>
  <2>1. (IF EscHears /\ owed # <<>> THEN Tail(owed) ELSE owed) = <<>>
    <3>1. CASE turn = "esc" \/ replies # <<>>
      BY <3>1 DEF Quiet
    <3>2. CASE EscHears /\ HostSilent
      <4>1. owed = <<esc_byte>>
        BY <3>2 DEF HostSilent
      <4>2. Tail(owed) = <<>>
        BY <4>1
      <4> QED
        BY <3>2, <4>1, <4>2
    <3> QED
      BY <1>5, <3>1, <3>2
  <2>2. owed' = <<>> \o <<>> \o <<>>
    BY <1>0, <1>9, <2>1 DEF UnderWay
  <2> QED
    BY <2>2
<1>12. replies' # <<>> => tx_state' = "IDLE"
  <2>1. CASE replies = <<>>
    BY <1>1, <1>2, <2>1 DEF WaitInv
  <2>2. CASE replies # <<>>
    <3>1. tx_state = "IDLE" /\ ~TxBegins
      BY <1>6, <2>2 DEF Quiet, TxBegins
    <3> QED
      BY <1>0, <3>1, TxRests DEF Types
  <2> QED
    BY <2>1, <2>2
<1> QED
  BY <1>7, <1>8, <1>10, <1>11, <1>12

(***************************************************************************)
(* The other direction.                                                    *)
(***************************************************************************)

\* When the stop bit has begun n + 1 clocks ago, it had begun n clocks ago before.
LEMMA PastBack ==
  ASSUME PortTypes, TxClock, NEW n \in 0 .. 6, Past(n + 1)'
  PROVE  Past(n)
<1> USE Numbers
<1>0. TxTime \in 0 .. lastClock /\ TxBit \in Nat
  BY TxBitIs
<1>1. CASE tx_state # "IDLE" /\ TxEnds
  BY <1>0, <1>1 DEF TxEnds, Past
<1>2. CASE tx_state # "IDLE" /\ ~TxEnds
  <2>1. tx_state' # "IDLE" /\ TxTime' = IF TxTime = lastClock THEN 0 ELSE TxTime + 1
    BY <1>2, TxSends DEF Advance
  <2>2. CASE tx_state' = "STOP"
    <3>1. TxTime' >= n + 1
      BY <2>1, <2>2 DEF Past
    <3>2. TxTime # lastClock /\ TxTime >= n
      BY <1>0, <2>1, <3>1
    <3>3. tx_state = "STOP"
      BY <1>0, <2>2, <3>2, TxBitIs DEF TxClock, TxIdle, TxCount, TxStart, TxData,
                                       TxStop, TxGuard
    <3> QED
      BY <3>2, <3>3 DEF Past
  <2>3. CASE tx_state' = "GUARD"
    <3>1. TxTime' + baud_div >= n + 1
      BY <2>1, <2>3 DEF Past
    <3>2. tx_state = IF TxTime = lastClock THEN "STOP" ELSE "GUARD"
      BY <1>0, <2>3, TxBitIs DEF TxClock, TxIdle, TxCount, TxStart, TxData, TxStop,
                                 TxGuard
    <3> QED
      BY <1>0, <2>1, <3>1, <3>2 DEF Past
  <2> QED
    BY <2>1, <2>2, <2>3 DEF Past
<1> QED
  BY <1>1, <1>2 DEF Past

\* The ways a clock of an ESC that sends can go.
SendGoesOn == esc_bit <= BITS \/ esc_clock < lastClock
\* A clock of an ESC that sends.
LEMMA SendCases ==
  ASSUME Types, EscClock, esc_state = "send"
  PROVE  /\ SendGoesOn => /\ esc_state' = "send" /\ esc_byte' = esc_byte
                          /\ esc_left' = esc_left
                          /\ Advance(esc_bit, esc_clock, esc_bit', esc_clock')
         /\ ~SendGoesOn =>
              /\ esc_bit = BITS + 1 /\ esc_clock = lastClock
              /\ \/ esc_state' = "send" /\ esc_bit' = 0 /\ esc_clock' = 0
                    /\ esc_left' < esc_left
                 \/ esc_state' = "idle" /\ esc_left' = esc_left
<1>1. EscSending
  BY DEF EscClock, EscIdle, EscHear, EscMiddle, EscByteEnds, EscWait
<1>2. CASE SendGoesOn
  BY <1>1, <1>2 DEF EscSending, SendGoesOn, EscTimePasses, Advance
<1>3. CASE ~SendGoesOn
  <2>1. esc_bit = BITS + 1 /\ esc_clock = lastClock
    BY <1>3, Numbers DEF SendGoesOn, Types, OtherTypes
  <2>2. \/ EscSend
        \/ esc_state' = "idle" /\ esc_left' = esc_left
    BY <1>1, <1>3 DEF EscSending, SendGoesOn
  <2>3. EscSend => esc_state' = "send" /\ esc_bit' = 0 /\ esc_clock' = 0
                   /\ esc_left' < esc_left
    BY DEF EscSend, Types, OtherTypes
  <2> QED
    BY <1>3, <2>1, <2>2, <2>3
<1> QED
  BY <1>2, <1>3

\* And of one that does not.
LEMMA NoSendCases ==
  ASSUME Types, HearInv, WaitInv, EscClock, esc_state # "send"
  PROVE  \/ esc_state' # "send" /\ esc_left' = esc_left
         \/ /\ esc_state = "wait" /\ tx_state = "IDLE" /\ esc_state' = "send"
            /\ esc_bit' = 0 /\ esc_clock' = 0 /\ esc_left' < esc_left
<1>1. CASE esc_state = "wait" /\ esc_clock = 0
  <2>1. EscSend
    BY <1>1 DEF EscClock, EscIdle, EscHear, EscMiddle, EscByteEnds, EscWait, EscSending
  <2>2. TxTime \in 0 .. lastClock
    BY TxBitIs DEF Types
  <2>3. tx_state = "IDLE"
    <3>1. /\ Past(half_bit + 3)
          /\ tx_state = "STOP" => esc_clock + 1 >= 2 * baud_div - TxTime + 2
          /\ tx_state = "GUARD" => esc_clock + 1 >= baud_div - TxTime + 2
      BY <1>1 DEF WaitInv
    <3> QED
      BY <1>1, <2>2, <3>1, Numbers DEF Past
  <2> QED
    BY <1>1, <2>1, <2>3 DEF EscSend, Types, OtherTypes
<1>2. CASE ~(esc_state = "wait" /\ esc_clock = 0)
  BY <1>2 DEF EscClock, EscIdle, EscHear, EscByteEnds, EscWait, EscSending
<1> QED
  BY <1>1, <1>2

\* A register of the way in passes what it holds on,
LEMMA StageStep ==
  ASSUME Types, HearInv, WaitInv, TxClock, EscClock, NEW k \in 0 .. 3, NEW level,
         StageIs(level, k)
  PROVE  StageIs(level, k + 1)'
<1> USE Numbers
<1>0. \A b : Seen(b, 0, 0, k + 1) = 1
  BY DEF Seen, LevelOf
<1>1. CASE esc_state = "send" /\ SendGoesOn
  <2>1. level = Seen(esc_byte, esc_bit, esc_clock, k)
    BY <1>1 DEF StageIs
  <2>2. /\ esc_state' = "send" /\ esc_byte' = esc_byte
        /\ Advance(esc_bit, esc_clock, esc_bit', esc_clock')
    BY <1>1, SendCases
  <2>3. esc_bit \in Int /\ esc_clock \in 0 .. lastClock
    BY <1>1 DEF Types, OtherTypes
  <2>4. level = Seen(esc_byte', esc_bit', esc_clock', k + 1)
    BY <2>1, <2>2, <2>3, SeenStep
  <2> QED
    BY <2>2, <2>4 DEF StageIs, Seen, LevelOf
<1>2. CASE esc_state = "send" /\ ~SendGoesOn
  <2>1. /\ esc_bit = BITS + 1 /\ esc_clock = lastClock
        /\ \/ esc_state' = "send" /\ esc_bit' = 0 /\ esc_clock' = 0
           \/ esc_state' = "idle"
    BY <1>2, SendCases
  <2>2. level = 1
    BY <1>2, <2>1 DEF StageIs, Seen, LevelOf
  <2> QED
    BY <1>0, <2>1, <2>2 DEF StageIs, Seen, LevelOf
<1>3. CASE esc_state # "send" /\ esc_state' = "send"
  <2>1. tx_state = "IDLE" /\ esc_bit' = 0 /\ esc_clock' = 0
    BY <1>3, NoSendCases
  <2>2. level = 1
    BY <1>3, <2>1 DEF StageIs, Past
  <2> QED
    BY <1>0, <1>3, <2>1, <2>2 DEF StageIs, Seen, LevelOf
<1>4. CASE esc_state # "send" /\ esc_state' # "send"
  <2>1. k + 2 \in 0 .. 6 /\ k + 2 + 1 = k + 1 + 2
    OBVIOUS
  <2>2. Past(k + 1 + 2)' => Past(k + 2)
    BY <2>1, PastBack DEF Types
  <2> QED
    BY <1>4, <2>2 DEF StageIs
<1> QED
  BY <1>1, <1>2, <1>3, <1>4

\* the line itself is the first of them,
LEMMA LineStage ==
  ASSUME Types, TxShape, HearInv, WaitInv, Levels
  PROVE  StageIs(Line, 0)
<1> USE Numbers
<1>1. CASE esc_state = "send"
  <2>1. Line = EscLevel
    BY <1>1, LineIs
  <2>2. esc_clock >= 0 /\ esc_bit \in 0 .. BITS + 1
    BY DEF Types, OtherTypes
  <2> QED
    BY <1>1, <2>1, <2>2 DEF StageIs, EscLevel, Seen, LevelOf
<1>2. CASE esc_state # "send"
  <2>1. Line = pin.tx
    BY <1>2, LineIs
  <2>2. ASSUME Past(0 + 2) PROVE pin.tx = 1
    <3>1. CASE Unheard
      <4>1. TxTime \in 0 .. lastClock
        BY TxBitIs DEF Types
      <4>2. \/ TxBit = BITS + 1 /\ TxTime >= 2
            \/ TxBit = BITS + 2
        BY <2>2, <3>1, TxBitIs DEF Past, Types
      <4>3. \A b : Seen(b, TxBit, TxTime, 2) = 1
        BY <4>1, <4>2 DEF Seen, LevelOf
      <4> QED
        BY <3>1, <4>3 DEF Levels
    <3>2. CASE ~Unheard
      BY <3>2 DEF Levels
    <3> QED
      BY <3>1, <3>2
  <2> QED
    BY <1>2, <2>1, <2>2 DEF StageIs
<1> QED
  BY <1>1, <1>2

\* and so the four registers hold the line as it was one to four clocks ago.
LEMMA PipeKept ==
  ASSUME Types, TxShape, HearInv, WaitInv, Levels, Pipe,
         NEW m_tready \in BOOLEAN, Edge(m_tready)
  PROVE  Pipe'
<1>0. TxClock /\ EscClock
  BY DEF Edge
<1>1. /\ mux_meta' = Line /\ mux_sync' = mux_meta
      /\ rx_meta' = mux_sync /\ rx_sync' = rx_meta
  BY DEF Edge, LineClock, RxClock
<1>2. PICK a : a = Line
  OBVIOUS
<1>3. PICK b : b = mux_meta
  OBVIOUS
<1>4. PICK c : c = mux_sync
  OBVIOUS
<1>5. PICK d : d = rx_meta
  OBVIOUS
<1>6. StageIs(a, 0) /\ StageIs(b, 1) /\ StageIs(c, 2) /\ StageIs(d, 3)
  BY <1>2, <1>3, <1>4, <1>5, LineStage DEF Pipe
<1>7. StageIs(a, 0 + 1)' /\ StageIs(b, 1 + 1)' /\ StageIs(c, 2 + 1)' /\ StageIs(d, 3 + 1)'
  BY <1>0, <1>6, StageStep
<1>8. StageIs(a, 1)' /\ StageIs(b, 2)' /\ StageIs(c, 3)' /\ StageIs(d, 4)'
  BY <1>7, 0 + 1 = 1, 1 + 1 = 2, 2 + 1 = 3, 3 + 1 = 4
<1> QED
  BY <1>1, <1>2, <1>3, <1>4, <1>5, <1>8 DEF Pipe, StageIs

\* What becomes of the replies when none is taken.
LEMMA RepliesStep ==
  ASSUME Types, NEW m_tready, UnderWay(m_tready), ~(m_esc_tvalid /\ m_tready)
  PROVE  /\ esc_left' = esc_left => replies' = replies
         /\ esc_left' < esc_left =>
              /\ Len(replies') = Len(replies) + 1
              /\ replies'[Len(replies) + 1] = esc_byte'
              /\ Len(replies) >= 1 => replies'[1] = replies[1]
<1>0. replies \in Seq(Byte) /\ esc_left \in Nat
  BY DEF Types, OtherTypes
<1>1. CASE esc_left' = esc_left
  <2>1. ~(esc_left' < esc_left)
    BY <1>0, <1>1
  <2>2. replies' = replies \o <<>>
    BY <2>1 DEF UnderWay
  <2> QED
    BY <1>0, <1>1, <2>2, ConcatEmptySeq
<1>2. CASE esc_left' < esc_left
  <2>1. PICK b : b = esc_byte'
    OBVIOUS
  <2>2. replies' = replies \o <<b>>
    BY <1>2, <2>1 DEF UnderWay
  <2>3. /\ <<b>> \in Seq({b}) /\ replies \in Seq(Byte \cup {b})
        /\ <<b>> \in Seq(Byte \cup {b}) /\ Len(<<b>>) = 1 /\ <<b>>[1] = b
    BY <1>0
  <2>4. PICK t \in Seq(Byte \cup {b}) : t = <<b>>
    BY <2>3
  <2>5. /\ Len(replies \o t) = Len(replies) + 1
        /\ \A i \in 1 .. Len(replies) + 1 : (replies \o t)[i] =
             IF i <= Len(replies) THEN replies[i] ELSE t[i - Len(replies)]
    BY <2>3, <2>4, ConcatProperties
  <2>6. Len(replies) \in Nat
    BY <1>0
  <2>7. (replies \o t)[Len(replies) + 1] = t[1]
    BY <2>5, <2>6
  <2>8. Len(replies) >= 1 => (replies \o t)[1] = replies[1]
    BY <2>5, <2>6
  <2>9. b = t[1] /\ replies' = replies \o t
    BY <2>2, <2>3, <2>4
  <2> QED
    BY <1>0, <1>2, <2>1, <2>5, <2>7, <2>8, <2>9
<1> QED
  BY <1>1, <1>2

\* An ESC that has said all waits for a start bit, and there is none.
LEMMA StaysIdle ==
  ASSUME Types, TxShape, WaitInv, HearInv, Levels, EscClock, esc_state = "idle",
         tx_state = "IDLE"
  PROVE  esc_state' = "idle" /\ esc_left' = esc_left
<1>1. EscIdle
  BY DEF EscClock, EscHear, EscMiddle, EscByteEnds, EscWait, EscSending
<1> QED
  BY <1>1, IdleLine DEF EscIdle

\* The receiver's time goes on with the line's.
LEMMA AtStep ==
  ASSUME Types, TxShape, WaitInv, HearInv, Levels, Quiet, NEW m_tready \in BOOLEAN,
         Edge(m_tready), ~(m_esc_tvalid /\ m_tready),
         NEW bit \in Int, NEW clock \in 0 .. lastClock, At(bit, clock),
         NEW nbit \in Int, NEW nclock \in Int, Advance(bit, clock, nbit, nclock),
         nbit <= BITS + 1
  PROVE  At(nbit, nclock)' /\ replies'[1] = replies[1]
<1> USE Numbers
<1>0. /\ EscClock /\ UnderWay(m_tready) /\ esc_bit \in 0 .. BITS + 1 /\ esc_clock \in Nat
      /\ esc_state = "send" => esc_clock \in 0 .. lastClock
  BY DEF Edge, Types, OtherTypes
<1>1. CASE /\ esc_state = "send" /\ Behind(esc_bit, esc_clock, 4, bit, clock)
           /\ replies = <<esc_byte>>
  <2>1. CASE SendGoesOn
    <3>1. /\ esc_state' = "send" /\ esc_byte' = esc_byte /\ esc_left' = esc_left
          /\ Advance(esc_bit, esc_clock, esc_bit', esc_clock')
      BY <1>0, <1>1, <2>1, SendCases
    <3>2. Behind(esc_bit', esc_clock', 4, nbit, nclock)
      <4>1. esc_bit \in Int /\ clock \in Int /\ 4 \in 0 .. 4
        BY <1>0
      <4> HIDE DEF Behind, Advance
      <4> QED
        BY <1>0, <1>1, <3>1, <4>1, BehindStep
    <3>3. replies' = replies
      BY <1>0, <3>1, RepliesStep
    <3> QED
      BY <1>1, <3>1, <3>2, <3>3 DEF At, Behind
  <2>2. CASE ~SendGoesOn
    <3>1. esc_bit = BITS + 1 /\ esc_clock = lastClock
      BY <1>0, <1>1, <2>2, SendCases
    <3>2. nbit = BITS + 1 /\ nclock = baud_div - 4
      BY <1>0, <1>1, <3>1 DEF Behind, Advance
    <3>3. Len(replies) = 1
      BY <1>1
    <3>4. CASE esc_state' = "send"
      <4>1. esc_bit' = 0 /\ esc_clock' = 0 /\ esc_left' < esc_left
        BY <1>0, <1>1, <2>2, <3>4, SendCases
      <4>2. Len(replies') = 2 /\ replies'[2] = esc_byte' /\ replies'[1] = replies[1]
        BY <1>0, <3>3, <4>1, RepliesStep
      <4> QED
        BY <3>2, <3>4, <4>1, <4>2 DEF At
    <3>5. CASE esc_state' # "send"
      <4>1. esc_state' = "idle" /\ esc_left' = esc_left
        BY <1>0, <1>1, <2>2, <3>5, SendCases
      <4>2. replies' = replies
        BY <1>0, <4>1, RepliesStep
      <4> QED
        BY <3>2, <3>3, <4>1, <4>2 DEF At
    <3> QED
      BY <3>4, <3>5
  <2> QED
    BY <2>1, <2>2
<1>2. CASE /\ esc_state = "send" /\ esc_bit = 0 /\ bit = BITS + 1 /\ esc_clock < 4
           /\ clock = esc_clock + baud_div - 4
           /\ Len(replies) = 2 /\ replies[2] = esc_byte
  <2>1. SendGoesOn
    BY <1>2 DEF SendGoesOn
  <2>2. /\ esc_state' = "send" /\ esc_byte' = esc_byte /\ esc_left' = esc_left
        /\ Advance(esc_bit, esc_clock, esc_bit', esc_clock')
    BY <1>0, <1>2, <2>1, SendCases
  <2>3. clock # lastClock /\ nbit = BITS + 1 /\ nclock = clock + 1
    BY <1>2 DEF Advance
  <2>4. esc_clock < 3
    BY <1>0, <1>2, <2>3
  <2>5. esc_bit' = 0 /\ esc_clock' = esc_clock + 1
    BY <1>0, <1>2, <2>2, <2>4 DEF Advance
  <2>6. replies' = replies
    BY <1>0, <2>2, RepliesStep
  <2>7. esc_clock + 1 < 4 /\ nclock = esc_clock + 1 + baud_div - 4
    BY <1>0, <1>2, <2>3, <2>4
  <2> QED
    BY <1>2, <2>2, <2>3, <2>5, <2>6, <2>7 DEF At
<1>3. CASE /\ esc_state = "idle" /\ bit = BITS + 1 /\ clock >= baud_div - 4
           /\ Len(replies) = 1
  <2>0. replies # <<>>
    BY <1>3
  <2>1. tx_state = "IDLE"
    BY <2>0 DEF Quiet
  <2>2. esc_state' = "idle" /\ esc_left' = esc_left
    BY <1>0, <1>3, <2>1, StaysIdle
  <2>3. nbit = BITS + 1 /\ nclock >= baud_div - 4
    BY <1>3 DEF Advance
  <2>4. replies' = replies
    BY <1>0, <2>2, RepliesStep
  <2> QED
    BY <1>3, <2>2, <2>3, <2>4 DEF At
<1> QED
  BY <1>1, <1>2, <1>3 DEF At

\* And what it sees is its byte.
LEMMA AtLevel ==
  ASSUME Types, Pipe, Quiet, NEW bit \in Int, NEW clock \in Int, At(bit, clock)
  PROVE  rx_sync = LevelOf(replies[1], bit) /\ replies # <<>>
<1> USE Numbers
<1>0. esc_bit \in 0 .. BITS + 1 /\ esc_clock \in Nat
  BY DEF Types, OtherTypes
<1>1. CASE /\ esc_state = "send" /\ Behind(esc_bit, esc_clock, 4, bit, clock)
           /\ replies = <<esc_byte>>
  <2>1. rx_sync = Seen(esc_byte, esc_bit, esc_clock, 4)
    BY <1>1 DEF Pipe, StageIs
  <2>2. rx_sync = LevelOf(esc_byte, bit)
    BY <1>0, <1>1, <2>1, SeenBehind
  <2> QED
    BY <1>1, <2>2
<1>2. CASE /\ esc_state = "send" /\ esc_bit = 0 /\ bit = BITS + 1 /\ esc_clock < 4
           /\ Len(replies) = 2
  <2>1. rx_sync = Seen(esc_byte, 0, esc_clock, 4)
    BY <1>2 DEF Pipe, StageIs
  <2>2. rx_sync = 1
    BY <1>0, <1>2, <2>1 DEF Seen, LevelOf
  <2> QED
    BY <1>2, <2>2 DEF LevelOf
<1>3. CASE esc_state = "idle" /\ bit = BITS + 1 /\ Len(replies) = 1
  <2>1. tx_state = "IDLE"
    BY <1>3 DEF Quiet
  <2>2. rx_sync = 1
    BY <1>3, <2>1 DEF Pipe, StageIs, Past
  <2> QED
    BY <1>3, <2>2 DEF LevelOf
<1> QED
  BY <1>1, <1>2, <1>3 DEF At

\* A sequence of one or two without its first.
LEMMA ShortTail ==
  ASSUME NEW S, NEW s \in Seq(S)
  PROVE  /\ Len(s) = 1 => s # <<>> /\ Tail(s) = <<>>
         /\ Len(s) = 2 => s # <<>> /\ Tail(s) = <<s[2]>>
<1>1. Len(s) \in Nat /\ (Len(s) # 0 => s # <<>>)
  BY EmptySeq
<1>2. CASE s # <<>>
  <2>1. PICK t \in Seq(S) : /\ t = Tail(s) /\ Len(t) = Len(s) - 1
                            /\ \A i \in 1 .. Len(s) - 1 : t[i] = s[i + 1]
    <3>1. /\ Tail(s) \in Seq(S) /\ Len(Tail(s)) = Len(s) - 1
          /\ \A i \in 1 .. Len(s) - 1 : Tail(s)[i] = s[i + 1]
      BY <1>2, HeadTailProperties
    <3> QED
      BY <3>1, Zenon
  <2>2. Len(s) = 1 => t = <<>>
    BY <2>1, EmptySeq
  <2>3. ASSUME Len(s) = 2 PROVE t = <<s[2]>>
    <3>0. Len(t) = 1 /\ 1 \in 1 .. Len(s) - 1 /\ 1 + 1 = 2
      BY <2>1, <2>3
    <3>1. Len(t) = 1 /\ t[1] = s[2]
      <4>1. t[1] = s[1 + 1]
        BY <2>1, <3>0
      <4> QED
        BY <3>0, <4>1
    <3>2. t = <<t[1]>>
      BY <3>1
    <3> QED
      BY <3>1, <3>2
  <2> QED
    BY <1>2, <2>1, <2>2, <2>3
<1> QED
  BY <1>1, <1>2

\* What becomes of the replies when the oldest is taken.
LEMMA TakenReplies ==
  ASSUME Types, NEW m_tready, UnderWay(m_tready), m_esc_tvalid, m_tready, replies # <<>>
  PROVE  /\ esc_left' = esc_left => replies' = Tail(replies)
         /\ esc_left' < esc_left /\ Len(replies) = 1 => replies' = <<esc_byte'>>
<1>0. replies \in Seq(Byte) /\ esc_left \in Nat /\ Tail(replies) \in Seq(Byte)
  BY DEF Types, OtherTypes
<1>1. ASSUME esc_left' = esc_left PROVE replies' = Tail(replies)
  <2>1. ~(esc_left' < esc_left)
    BY <1>0, <1>1
  <2>2. replies' = Tail(replies) \o <<>>
    BY <2>1 DEF UnderWay
  <2> QED
    BY <1>0, <2>2, ConcatEmptySeq
<1>2. ASSUME esc_left' < esc_left, Len(replies) = 1 PROVE replies' = <<esc_byte'>>
  <2>1. PICK b : b = esc_byte'
    OBVIOUS
  <2>2. replies' = Tail(replies) \o <<b>>
    BY <1>2, <2>1 DEF UnderWay
  <2>3. Tail(replies) = <<>>
    BY <1>0, <1>2, ShortTail
  <2>4. <<>> \o <<b>> = <<b>>
    BY ConcatEmptySeq
  <2> QED
    BY <2>1, <2>2, <2>3, <2>4
<1> QED
  BY <1>1, <1>2

\* The first four clocks of a byte of the ESC are not seen by the receiver yet.
LEMMA EarlyStep ==
  ASSUME Types, EscClock, esc_state = "send", esc_bit = 0, esc_clock < 4
  PROVE  /\ esc_state' = "send" /\ esc_byte' = esc_byte /\ esc_left' = esc_left
         /\ (esc_bit' = 0 /\ esc_clock' < 4) \/ Behind(esc_bit', esc_clock', 4, 0, 0)
<1> USE Numbers
<1>1. SendGoesOn /\ esc_clock \in 0 .. lastClock
  BY DEF SendGoesOn, Types, OtherTypes
<1>2. /\ esc_state' = "send" /\ esc_byte' = esc_byte /\ esc_left' = esc_left
      /\ Advance(esc_bit, esc_clock, esc_bit', esc_clock')
  BY <1>1, SendCases
<1>3. CASE esc_clock = lastClock
  <2>1. esc_bit' = 1 /\ esc_clock' = 0 /\ baud_div = 4
    BY <1>2, <1>3 DEF Advance
  <2> QED
    BY <1>2, <2>1 DEF Behind
<1>4. CASE esc_clock # lastClock
  <2>1. esc_bit' = 0 /\ esc_clock' = esc_clock + 1
    BY <1>2, <1>4 DEF Advance
  <2> QED
    BY <1>1, <1>2, <2>1 DEF Behind
<1> QED
  BY <1>3, <1>4

\* After a byte was taken the receiver looks for the next.
LEMMA TakenStep ==
  ASSUME Types, TxShape, WaitInv, HearInv, Levels, Quiet, NEW m_tready \in BOOLEAN,
         Edge(m_tready), m_esc_tvalid, m_tready, HasByte
  PROVE  Looks'
<1> USE Numbers
<1>0. /\ EscClock /\ UnderWay(m_tready) /\ esc_bit \in 0 .. BITS + 1 /\ esc_clock \in Nat
      /\ waiting \in Nat /\ replies \in Seq(Byte)
  BY DEF Edge, Types, OtherTypes
<1>1. CASE /\ esc_state = "send" /\ replies = <<esc_byte>>
           /\ Behind(esc_bit, esc_clock, 4, BITS + 1, half_bit + 1 + waiting)
  <2>0. Len(replies) = 1
    BY <1>1
  <2>1. /\ esc_bit = BITS + 1 /\ esc_clock >= 4 /\ Len(replies) = 1
        /\ replies # <<>> /\ Tail(replies) = <<>>
    BY <1>0, <1>1, <2>0, ShortTail DEF Behind
  <2>2. CASE SendGoesOn
    <3>1. /\ esc_state' = "send" /\ esc_left' = esc_left
          /\ Advance(esc_bit, esc_clock, esc_bit', esc_clock')
      BY <1>0, <1>1, <2>2, SendCases
    <3>2. replies' = <<>>
      BY <1>0, <1>1, <2>1, <3>1, TakenReplies
    <3>3. esc_bit' = BITS + 1 /\ esc_clock' >= 4
      BY <1>0, <2>1, <2>2, <3>1 DEF Advance, SendGoesOn
    <3> QED
      BY <3>2, <3>3 DEF Looks
  <2>3. CASE ~SendGoesOn
    <3>1. \/ esc_state' = "send" /\ esc_bit' = 0 /\ esc_clock' = 0 /\ esc_left' < esc_left
          \/ esc_state' = "idle" /\ esc_left' = esc_left
      BY <1>0, <1>1, <2>3, SendCases
    <3>2. CASE /\ esc_left' < esc_left /\ esc_state' = "send"
               /\ esc_bit' = 0 /\ esc_clock' = 0
      <4>1. replies' = <<esc_byte'>>
        BY <1>0, <2>1, <3>2, TakenReplies
      <4> QED
        BY <3>2, <4>1 DEF Looks
    <3>3. CASE esc_left' = esc_left /\ esc_state' = "idle"
      <4>1. replies' = <<>>
        BY <1>0, <1>1, <2>1, <3>3, TakenReplies
      <4> QED
        BY <3>3, <4>1 DEF Looks
    <3> QED
      BY <3>1, <3>2, <3>3
  <2> QED
    BY <2>2, <2>3
<1>2. CASE /\ esc_state = "send" /\ esc_bit = 0 /\ esc_clock < 4
           /\ Len(replies) = 2 /\ replies[2] = esc_byte
  <2>1. /\ esc_state' = "send" /\ esc_byte' = esc_byte /\ esc_left' = esc_left
        /\ (esc_bit' = 0 /\ esc_clock' < 4) \/ Behind(esc_bit', esc_clock', 4, 0, 0)
    BY <1>0, <1>2, EarlyStep
  <2>2. replies # <<>>
    BY <1>2
  <2>3. replies' = Tail(replies)
    BY <1>0, <2>1, <2>2, TakenReplies
  <2>4. Tail(replies) = <<replies[2]>>
    BY <1>0, <1>2, ShortTail
  <2>5. replies' = <<esc_byte'>>
    BY <1>2, <2>1, <2>3, <2>4
  <2> QED
    BY <2>1, <2>5 DEF Looks, Behind
<1>3. CASE esc_state = "idle" /\ Len(replies) = 1
  <2>0. replies # <<>> /\ Tail(replies) = <<>>
    BY <1>0, <1>3, ShortTail
  <2>1. tx_state = "IDLE"
    BY <2>0 DEF Quiet
  <2>2. esc_state' = "idle" /\ esc_left' = esc_left
    BY <1>0, <1>3, <2>1, StaysIdle
  <2>3. replies' = <<>>
    BY <1>0, <2>0, <2>2, TakenReplies
  <2> QED
    BY <2>2, <2>3 DEF Looks
<1> QED
  BY <1>1, <1>2, <1>3 DEF HasByte, At

\* A byte that its reader lets wait.
LEMMA WaitedStep ==
  ASSUME Types, TxShape, WaitInv, HearInv, Levels, Quiet, NEW m_tready \in BOOLEAN,
         Edge(m_tready), m_esc_tvalid, ~m_tready, HasByte, m_esc_tdata' = m_esc_tdata,
         waiting < Patience
  PROVE  HasByte'
<1> USE Numbers
<1>1. PICK w \in Nat : w = waiting
  BY DEF Types, OtherTypes
<1>2. w < Patience /\ Patience = baud_div - half_bit - 2
  BY <1>1 DEF Patience
<1>3. waiting' = w + 1
  BY <1>1 DEF Edge, UnderWay
<1>4. PICK c \in 0 .. lastClock : c = half_bit + 1 + w
  BY <1>2
<1>5. At(BITS + 1, c)
  BY <1>1, <1>4 DEF HasByte
<1>6. PICK n \in Int : n = c + 1
  BY <1>4
<1>7. Advance(BITS + 1, c, BITS + 1, n)
  BY <1>2, <1>4, <1>6 DEF Advance
<1>8. At(BITS + 1, n)' /\ replies'[1] = replies[1]
  <2>1. BITS + 1 \in Int
    OBVIOUS
  <2> QED
    BY <1>5, <1>7, <2>1, AtStep
<1>9. n = half_bit + 1 + waiting'
  BY <1>3, <1>4, <1>6
<1>10. At(BITS + 1, half_bit + 1 + waiting)'
  BY <1>8, <1>9 DEF At, Behind
<1>11. waiting' <= Patience
  BY <1>2, <1>3
<1>12. m_esc_tdata' = replies'[1]
  BY <1>8 DEF HasByte
<1> QED
  BY <1>10, <1>11, <1>12 DEF HasByte

\* A receiver that has a byte.
LEMMA HasStep ==
  ASSUME Types, TxShape, WaitInv, HearInv, Levels, Quiet, NEW m_tready \in BOOLEAN,
         Edge(m_tready), m_esc_tvalid, HasByte, NoNewByte(m_tready),
         rx_state' = "IDLE" \/ (rx_state' = "WAIT_STREAM" /\ ~m_tready),
         ~m_tready => waiting < Patience
  PROVE  RxInv'
<1>1. m_esc_tvalid' <=> ~m_tready
  BY DEF NoNewByte, Types, PortTypes
<1>2. m_esc_tdata' = m_esc_tdata
  BY DEF NoNewByte
<1>3. m_tready => Looks' /\ waiting' = 0
  BY TakenStep DEF Edge, UnderWay
<1>4. ~m_tready => HasByte'
  BY <1>2, WaitedStep
<1> QED
  BY <1>1, <1>3, <1>4 DEF RxInv, Receiving

\* The receiver's time while it counts, and when it samples.
LEMMA OwnTypes ==
  ASSUME PortTypes, Receiving
  PROVE  /\ OwnBit \in Int /\ OwnClock \in 0 .. lastClock /\ RxBit \in 0 .. BITS + 1
         /\ rx_counter = 0 => OwnBit = RxBit /\ OwnClock = half_bit
<1>1. RxBit \in 0 .. BITS + 1
  BY Numbers DEF PortTypes, RxBit
<1>2. rx_counter \in 0 .. lastClock
  BY DEF PortTypes
<1> QED
  BY <1>1, <1>2, Numbers DEF OwnBit, OwnClock

\* A clock of counting moves the receiver's time by one.
LEMMA OwnStep ==
  ASSUME PortTypes, NEW m_tready, RxCount(m_tready)
  PROVE  Receiving' /\ RxBit' = RxBit /\ Advance(OwnBit, OwnClock, OwnBit', OwnClock')
<1>1. Receiving' /\ RxBit' = RxBit
  BY DEF RxCount, Receiving, RxBit
<1>2. PICK b \in Int : b = RxBit
  BY Numbers DEF PortTypes, RxBit
<1>3. PICK c \in 1 .. lastClock : c = rx_counter /\ rx_counter' = c - 1
  BY Numbers DEF PortTypes, RxCount
<1>4. /\ OwnBit = IF c <= half_bit THEN b ELSE b - 1
      /\ OwnClock = IF c <= half_bit THEN half_bit - c ELSE half_bit - c + baud_div
      /\ OwnBit' = IF c - 1 <= half_bit THEN b ELSE b - 1
      /\ OwnClock' = IF c - 1 <= half_bit THEN half_bit - (c - 1)
                     ELSE half_bit - (c - 1) + baud_div
  BY <1>1, <1>2, <1>3 DEF OwnBit, OwnClock
<1> QED
  BY <1>1, <1>4, Numbers DEF Advance

\* The ranges of the receiver's bit and clock.
LEMMA BitRange ==
  ASSUME NEW i \in 0 .. BITS - 1, NEW state
  PROVE  LET bit == IF state = "START" THEN 0
                    ELSE IF state = "DATA" THEN i + 1 ELSE BITS + 1
         IN  bit \in Int /\ bit <= BITS + 1
BY Numbers

\* The same with the half bit it is ahead taken off.
LEMMA OwnRange ==
  ASSUME NEW k \in 0 .. lastClock, NEW bit \in Int, bit <= BITS + 1
  PROVE  /\ (IF k <= half_bit THEN bit ELSE bit - 1) \in Int
         /\ (IF k <= half_bit THEN bit ELSE bit - 1) <= BITS + 1
         /\ (IF k <= half_bit THEN half_bit - k ELSE half_bit - k + baud_div) \in Int
BY Numbers

\* A receiver whose time goes on by one stays with the line.
LEMMA GoesOn ==
  ASSUME Types, TxShape, WaitInv, HearInv, Levels, Quiet, PortTypes',
         NEW m_tready \in BOOLEAN, Edge(m_tready), ~m_esc_tvalid,
         NEW bit \in Int, NEW clock \in 0 .. lastClock, At(bit, clock), Receiving',
         Advance(bit, clock, OwnBit', OwnClock')
  PROVE  At(OwnBit, OwnClock)' /\ replies'[1] = replies[1]
<1>1. rx_counter' \in 0 .. lastClock /\ rx_bit_idx' \in 0 .. BITS - 1
  BY DEF PortTypes
<1>2. RxBit' \in Int /\ RxBit' <= BITS + 1
  BY <1>1, BitRange DEF RxBit
<1>3. OwnBit' \in Int /\ OwnBit' <= BITS + 1 /\ OwnClock' \in Int
  BY <1>1, <1>2, OwnRange DEF OwnBit, OwnClock
<1>4. PICK b \in Int, c \in Int : b = OwnBit' /\ c = OwnClock'
  BY <1>3
<1>5. Advance(bit, clock, b, c) /\ b <= BITS + 1
  BY <1>3, <1>4
<1>6. At(b, c)' /\ replies'[1] = replies[1]
  BY <1>5, AtStep
<1> QED
  BY <1>4, <1>6 DEF At, Behind

\* A receiver still in its byte has nothing in its output.
LEMMA ReceivesOn ==
  ASSUME NEW m_tready, UnderWay(m_tready), ~m_esc_tvalid, ~m_esc_tvalid',
         Receiving', InByte'
  PROVE  RxInv'
BY DEF UnderWay, RxInv, Receiving

\* A receiver in a byte, between two samples.
LEMMA CountStep ==
  ASSUME Types, TxShape, WaitInv, HearInv, Levels, Quiet, PortTypes',
         NEW m_tready \in BOOLEAN, Edge(m_tready), InByte, RxCount(m_tready)
  PROVE  RxInv'
<1>0. Receiving /\ UnderWay(m_tready) /\ ~m_esc_tvalid
  BY DEF RxCount, Receiving, Edge, InByte
<1>1. OwnBit \in Int /\ OwnClock \in 0 .. lastClock
  BY <1>0, OwnTypes DEF Types
<1>2. Receiving' /\ Advance(OwnBit, OwnClock, OwnBit', OwnClock')
  BY OwnStep DEF Types
<1>3. PICK b \in Int, c \in 0 .. lastClock : b = OwnBit /\ c = OwnClock
  BY <1>1
<1>4. At(b, c) /\ Advance(b, c, OwnBit', OwnClock')
  BY <1>2, <1>3 DEF InByte
<1>5. At(OwnBit, OwnClock)' /\ replies'[1] = replies[1]
  BY <1>0, <1>2, <1>4, GoesOn
<1>6. ~m_esc_tvalid'
  BY <1>0 DEF RxCount, NoNewByte
<1>7. Samples' = Samples /\ rx_shift' = rx_shift
  BY DEF RxCount, Samples
<1>8. rx_state' = "START" => rx_counter' < half_bit
  <2>1. rx_counter \in Nat /\ rx_counter' = rx_counter - 1 /\ rx_state' = rx_state
    BY Numbers DEF RxCount, Types, PortTypes
  <2>2. rx_state = "START" => rx_counter < half_bit
    BY DEF InByte
  <2> QED
    BY <2>1, <2>2, Numbers
<1>9. InByte'
  BY <1>5, <1>6, <1>7, <1>8 DEF InByte
<1> QED
  BY <1>0, <1>2, <1>6, <1>9, ReceivesOn

\* The middle of a bit: the sample is the bit of the reply.
LEMMA MiddleIs ==
  ASSUME Types, Pipe, Quiet, InByte, Receiving, rx_counter = 0
  PROVE  /\ At(RxBit, half_bit) /\ RxBit \in 0 .. BITS + 1
         /\ rx_sync = LevelOf(replies[1], RxBit) /\ replies # <<>> /\ replies[1] \in Byte
<1>1. OwnBit = RxBit /\ OwnClock = half_bit /\ RxBit \in 0 .. BITS + 1
  BY OwnTypes DEF Types
<1>2. At(RxBit, half_bit)
  BY <1>1 DEF InByte
<1>3. RxBit \in Int /\ half_bit \in Int
  BY <1>1, Numbers
<1>4. rx_sync = LevelOf(replies[1], RxBit) /\ replies # <<>>
  BY <1>2, <1>3, AtLevel
<1>5. replies[1] \in Byte
  BY <1>4 DEF Types, OtherTypes
<1> QED
  BY <1>1, <1>2, <1>4, <1>5

\* The middle of the start bit: it is low, so the byte is received.
LEMMA StartSample ==
  ASSUME Types, TxShape, WaitInv, HearInv, Levels, Quiet, Pipe, PortTypes',
         NEW m_tready \in BOOLEAN, Edge(m_tready), InByte, RxStart(m_tready)
  PROVE  RxInv'
<1> USE Numbers
<1>0. /\ Receiving /\ UnderWay(m_tready) /\ ~m_esc_tvalid /\ rx_counter = 0 /\ RxBit = 0
  BY DEF RxStart, Receiving, Edge, InByte, RxBit
<1>1. At(0, half_bit) /\ rx_sync = 0
  BY <1>0, MiddleIs DEF LevelOf
<1>2. /\ rx_state' = "DATA" /\ rx_counter' = lastClock /\ rx_bit_idx' = 0
      /\ ~m_esc_tvalid'
  BY <1>0, <1>1 DEF RxStart, NoNewByte
<1>3. Receiving' /\ OwnBit' = 0 /\ OwnClock' = half_bit + 1 /\ Samples' = 0
  BY <1>2 DEF Receiving, OwnBit, OwnClock, RxBit, Samples
<1>4. Advance(0, half_bit, OwnBit', OwnClock') /\ half_bit \in 0 .. lastClock /\ 0 \in Int
  BY <1>3 DEF Advance
<1>5. At(OwnBit, OwnClock)'
  BY <1>0, <1>1, <1>3, <1>4, GoesOn
<1>6. InByte'
  BY <1>2, <1>3, <1>5 DEF InByte
<1> QED
  BY <1>0, <1>2, <1>3, <1>6, ReceivesOn

\* The middle of a bit: its value is shifted in behind those before it.
LEMMA DataSample ==
  ASSUME Types, TxShape, WaitInv, HearInv, Levels, Quiet, Pipe, PortTypes',
         NEW m_tready \in BOOLEAN, Edge(m_tready), InByte, RxData(m_tready)
  PROVE  RxInv'
<1> USE Numbers
<1>0. /\ Receiving /\ UnderWay(m_tready) /\ ~m_esc_tvalid /\ rx_counter = 0
      /\ RxBit = rx_bit_idx + 1 /\ Samples = rx_bit_idx
  BY DEF RxData, Receiving, Edge, InByte, RxBit, Samples
<1>1. PICK n \in 0 .. BITS - 1 : n = rx_bit_idx
  BY DEF Types, PortTypes
<1>2. At(n + 1, half_bit) /\ rx_sync = replies[1][n + 1]
  BY <1>0, <1>1, MiddleIs DEF LevelOf
<1>3. /\ rx_counter' = lastClock /\ ~m_esc_tvalid'
      /\ rx_state' = IF n = BITS - 1 THEN "STOP" ELSE "DATA"
      /\ n # BITS - 1 => rx_bit_idx' = n + 1
  BY <1>0, <1>1 DEF RxData, NoNewByte
<1>4. RxBit' = n + 2 /\ Samples' = n + 1 /\ Receiving'
  BY <1>1, <1>3 DEF Receiving, RxBit, Samples
<1>5. OwnBit' = n + 1 /\ OwnClock' = half_bit + 1
  BY <1>3, <1>4 DEF OwnBit, OwnClock
<1>6. Advance(n + 1, half_bit, OwnBit', OwnClock') /\ half_bit \in 0 .. lastClock
      /\ n + 1 \in Int
  BY <1>5 DEF Advance
<1>7. At(OwnBit, OwnClock)' /\ replies'[1] = replies[1]
  BY <1>0, <1>2, <1>4, <1>6, GoesOn
<1>8. PICK v \in {0, 1} : v = rx_sync
  BY DEF Types, PortTypes
<1>9. PICK old \in Byte : old = rx_shift
  BY DEF Types, PortTypes
<1>10. rx_shift' = ShiftIn(old, v)
  BY <1>8, <1>9 DEF RxData
<1>11. \A j \in 1 .. n : old[BITS - n + j] = replies[1][j]
  BY <1>0, <1>1, <1>9 DEF InByte
<1>12. ASSUME NEW j \in 1 .. n + 1
       PROVE  ShiftIn(old, v)[BITS - (n + 1) + j] = replies[1][j]
  <2>1. CASE j = n + 1
    <3>1. BITS - (n + 1) + j = BITS
      BY <2>1
    <3> QED
      BY <1>2, <1>8, <2>1, <3>1, ShiftInIs
  <2>2. CASE j \in 1 .. n
    <3>1. PICK k \in 1 .. BITS - 1 : k = BITS - (n + 1) + j
      BY <2>2
    <3>2. k + 1 = BITS - n + j
      BY <2>2, <3>1
    <3>3. ShiftIn(old, v)[k] = old[k + 1]
      BY ShiftInIs
    <3> QED
      BY <1>11, <2>2, <3>1, <3>2, <3>3
  <2> QED
    BY <2>1, <2>2
<1>13. \A j \in 1 .. n + 1 : rx_shift'[BITS - (n + 1) + j] = replies'[1][j]
  BY <1>7, <1>10, <1>12
<1>14. InByte'
  BY <1>3, <1>4, <1>7, <1>13 DEF InByte
<1> QED
  BY <1>0, <1>3, <1>4, <1>14, ReceivesOn

\* The middle of the stop bit: it is high, and the byte is the one sent.
LEMMA StopSample ==
  ASSUME Types, TxShape, WaitInv, HearInv, Levels, Quiet, Pipe, PortTypes',
         NEW m_tready \in BOOLEAN, Edge(m_tready), InByte, RxStop(m_tready)
  PROVE  RxInv'
<1> USE Numbers
<1>0. /\ Receiving /\ UnderWay(m_tready) /\ ~m_esc_tvalid /\ rx_counter = 0
      /\ RxBit = BITS + 1 /\ Samples = BITS
  BY DEF RxStop, Receiving, Edge, InByte, RxBit, Samples
<1>1. At(BITS + 1, half_bit) /\ rx_sync = 1 /\ replies[1] \in Byte
  BY <1>0, MiddleIs DEF LevelOf
<1>2. rx_shift = replies[1]
  <2>1. \A j \in 1 .. BITS : rx_shift[BITS - BITS + j] = replies[1][j]
    BY <1>0 DEF InByte
  <2>2. \A j \in 1 .. BITS : rx_shift[j] = replies[1][j]
    BY <2>1
  <2> QED
    BY <1>1, <2>2 DEF Types, PortTypes, Byte
<1>3. /\ m_esc_tvalid' /\ m_esc_tdata' = rx_shift
      /\ rx_state' \in {"WAIT_STREAM", "IDLE"}
  BY <1>1 DEF RxStop, NewByte
<1>4. waiting' = 0
  BY <1>0 DEF UnderWay
<1>5. PICK c \in Int : c = half_bit + 1
  OBVIOUS
<1>6. Advance(BITS + 1, half_bit, BITS + 1, c)
  BY <1>5 DEF Advance
<1>7. At(BITS + 1, c)' /\ replies'[1] = replies[1]
  <2>1. half_bit \in 0 .. lastClock /\ BITS + 1 \in Int
    OBVIOUS
  <2> QED
    BY <1>0, <1>1, <1>6, <2>1, AtStep
<1>8. half_bit + 1 + waiting' = c
  BY <1>4, <1>5
<1>9. At(BITS + 1, half_bit + 1 + waiting)'
  BY <1>7, <1>8 DEF At, Behind
<1>10. waiting' <= Patience
  BY <1>4 DEF Patience
<1>11. HasByte'
  BY <1>2, <1>3, <1>7, <1>9, <1>10 DEF HasByte
<1> QED
  BY <1>3, <1>11 DEF RxInv, Receiving

\* With a byte in the output the line is in its stop bit.
LEMMA HasLevel ==
  ASSUME Types, Pipe, Quiet, TxShape, HasByte
  PROVE  rx_sync = 1 /\ replies # <<>> /\ ~tx_active
<1>1. BITS + 1 \in Int /\ half_bit + 1 + waiting \in Int
  <2>1. waiting \in Nat
    BY DEF Types, OtherTypes
  <2> QED
    BY <2>1, Numbers
<1>2. rx_sync = LevelOf(replies[1], BITS + 1) /\ replies # <<>>
  BY <1>1, AtLevel DEF HasByte
<1>3. LevelOf(replies[1], BITS + 1) = 1
  BY Numbers DEF LevelOf
<1> QED
  BY <1>2, <1>3 DEF Quiet, TxShape

\* A receiver that looks, with nothing on the way: it finds no start bit.
LEMMA NothingYet ==
  ASSUME Types, OtherTypes', TxShape, WaitInv, HearInv, Pipe,
         NEW m_tready \in BOOLEAN, Edge(m_tready), rx_state = "IDLE", ~m_esc_tvalid,
         replies = <<>>, esc_state = "send" => esc_bit = BITS + 1 /\ esc_clock >= 4
  PROVE  RxInv'
<1> USE Numbers
<1>0. /\ EscClock /\ UnderWay(m_tready) /\ RxClock(m_tready)
      /\ esc_bit \in 0 .. BITS + 1 /\ esc_clock \in Nat
      /\ replies' \in Seq(Byte) /\ Len(replies) = 0
  BY DEF Edge, Types, OtherTypes
<1>1. ~tx_active => rx_sync = 1
  <2>1. CASE esc_state = "send"
    <3>1. rx_sync = Seen(esc_byte, esc_bit, esc_clock, 4)
      BY <2>1 DEF Pipe, StageIs
    <3> QED
      BY <2>1, <3>1 DEF Seen, LevelOf
  <2>2. CASE esc_state # "send"
    BY <2>2 DEF Pipe, StageIs, Past, TxShape
  <2> QED
    BY <2>1, <2>2
<1>2. rx_state' = "IDLE" /\ NoNewByte(m_tready)
  BY <1>0, <1>1 DEF RxClock, Receive, RxOff, RxListen, RxIdle, RxCount, RxStart, RxData,
                    RxStop, RxWait
<1>3. ~m_esc_tvalid' /\ waiting' = 0
  BY <1>0, <1>2 DEF NoNewByte, UnderWay
<1>4. ASSUME esc_left' = esc_left PROVE Looks'
  <2>1. replies' = <<>>
    BY <1>0, <1>4, RepliesStep
  <2>2. ASSUME esc_state' = "send" PROVE esc_bit' = BITS + 1 /\ esc_clock' >= 4
    <3>1. esc_state = "send"
      BY <1>0, <1>4, <2>2, NoSendCases DEF Types, OtherTypes
    <3>2. SendGoesOn
      BY <1>0, <1>4, <2>2, <3>1, SendCases DEF Types, OtherTypes
    <3>3. Advance(esc_bit, esc_clock, esc_bit', esc_clock')
      BY <1>0, <3>1, <3>2, SendCases
    <3> QED
      BY <1>0, <3>1, <3>2, <3>3 DEF Advance, SendGoesOn
  <2> QED
    BY <2>1, <2>2 DEF Looks
<1>5. ASSUME esc_left' # esc_left PROVE Looks'
  <2>1. esc_state' = "send" /\ esc_bit' = 0 /\ esc_clock' = 0 /\ esc_left' < esc_left
    BY <1>0, <1>5, SendCases, NoSendCases
  <2>2. PICK s \in Seq(Byte) : s = replies'
    BY <1>0
  <2>3. Len(s) = 1 /\ s[1] = esc_byte'
    BY <1>0, <2>1, <2>2, RepliesStep
  <2>4. s = <<s[1]>>
    BY <2>3
  <2>5. replies' = <<esc_byte'>>
    BY <2>2, <2>3, <2>4
  <2> QED
    BY <2>1, <2>5 DEF Looks
<1> QED
  BY <1>2, <1>3, <1>4, <1>5 DEF RxInv, Receiving

\* A receiver that looks, with a byte on the way: it finds the start bit when it arrives.
LEMMA StartComes ==
  ASSUME Types, PortTypes', TxShape, WaitInv, HearInv, Levels, Quiet, Pipe,
         NEW m_tready \in BOOLEAN, Edge(m_tready), rx_state = "IDLE", ~m_esc_tvalid,
         esc_state = "send", replies = <<esc_byte>>,
         (esc_bit = 0 /\ esc_clock < 4) \/ Behind(esc_bit, esc_clock, 4, 0, 0)
  PROVE  RxInv'
<1> USE Numbers
<1>0. /\ EscClock /\ UnderWay(m_tready) /\ RxClock(m_tready)
      /\ esc_bit \in 0 .. BITS + 1 /\ esc_clock \in Nat
  BY DEF Edge, Types, OtherTypes
<1>1. ~tx_active /\ RxIdle(m_tready)
  <2>1. ~tx_active
    BY DEF WaitInv, TxShape
  <2> QED
    BY <1>0, <2>1 DEF RxClock, Receive, RxOff, RxListen, RxCount, RxStart, RxData,
                      RxStop, RxWait
<1>2. ~m_esc_tvalid' /\ waiting' = 0
  BY <1>0, <1>1 DEF RxIdle, NoNewByte, UnderWay
<1>3. rx_sync = Seen(esc_byte, esc_bit, esc_clock, 4)
  BY DEF Pipe, StageIs
<1>4. CASE esc_bit = 0 /\ esc_clock < 4
  <2>1. rx_sync = 1
    BY <1>0, <1>3, <1>4 DEF Seen, LevelOf
  <2>2. rx_state' = "IDLE"
    BY <1>1, <2>1 DEF RxIdle
  <2>3. /\ esc_state' = "send" /\ esc_byte' = esc_byte /\ esc_left' = esc_left
        /\ (esc_bit' = 0 /\ esc_clock' < 4) \/ Behind(esc_bit', esc_clock', 4, 0, 0)
    BY <1>0, <1>4, EarlyStep
  <2>4. replies' = <<esc_byte'>>
    BY <1>0, <2>3, RepliesStep
  <2> QED
    BY <1>2, <2>2, <2>3, <2>4 DEF RxInv, Looks, Receiving, Behind
<1>5. CASE Behind(esc_bit, esc_clock, 4, 0, 0)
  <2>1. rx_sync = 0
    <3>1. Seen(esc_byte, esc_bit, esc_clock, 4) = LevelOf(esc_byte, 0)
      BY <1>0, <1>5, SeenBehind
    <3> QED
      BY <1>3, <3>1 DEF LevelOf
  <2>2. rx_state' = "START" /\ rx_counter' = half_bit - 1
    BY <1>1, <2>1 DEF RxIdle
  <2>3. Receiving' /\ OwnBit' = 0 /\ OwnClock' = 1 /\ Samples' = 0
    BY <2>2 DEF Receiving, OwnBit, OwnClock, RxBit, Samples
  <2>4. At(0, 0) /\ Advance(0, 0, OwnBit', OwnClock') /\ 0 \in 0 .. lastClock /\ 0 \in Int
    BY <1>5, <2>3 DEF At, Advance
  <2>5. At(OwnBit, OwnClock)'
    BY <2>3, <2>4, GoesOn
  <2>6. InByte'
    BY <1>2, <2>2, <2>3, <2>5 DEF InByte
  <2> QED
    BY <1>0, <1>2, <2>3, <2>6, ReceivesOn
<1> QED
  BY <1>4, <1>5

\* The receiver keeps its place, whatever it does.
LEMMA RxInvStep ==
  ASSUME Types, PortTypes', OtherTypes', TxShape, WaitInv, HearInv, Levels, Quiet, Pipe,
         RxInv, NEW m_tready \in BOOLEAN, Edge(m_tready),
         m_esc_tvalid /\ ~m_tready => waiting < Patience
  PROVE  RxInv'
<1>0. RxClock(m_tready)
  BY DEF Edge
<1>1. CASE m_esc_tvalid
  <2>1. HasByte /\ rx_sync = 1 /\ ~tx_active
    BY <1>1, HasLevel DEF RxInv
  <2>2. RxListen(m_tready) /\ ~Receiving
    BY <1>0, <1>1, <2>1 DEF RxClock, Receive, RxOff, RxInv, InByte
  <2>3. /\ NoNewByte(m_tready)
        /\ rx_state' = "IDLE" \/ (rx_state' = "WAIT_STREAM" /\ ~m_tready)
    BY <2>1, <2>2 DEF RxListen, RxIdle, RxCount, RxStart, RxData, RxStop, RxWait,
                      Receiving
  <2> QED
    BY <1>1, <2>1, <2>3, HasStep
<1>2. CASE ~m_esc_tvalid /\ Receiving
  <2>1. InByte
    BY <1>2 DEF RxInv
  <2>2. ~tx_active
    <3>1. OwnBit \in Int /\ OwnClock \in Int
      BY <1>2, OwnTypes DEF Types
    <3>2. replies # <<>>
      BY <2>1, <3>1, AtLevel DEF InByte
    <3> QED
      BY <3>2 DEF Quiet, TxShape
  <2>3. \/ RxCount(m_tready) \/ RxStart(m_tready) \/ RxData(m_tready) \/ RxStop(m_tready)
    BY <1>0, <1>2, <2>2 DEF RxClock, Receive, RxOff, RxListen, RxIdle, RxWait, Receiving
  <2> QED
    BY <2>1, <2>3, CountStep, StartSample, DataSample, StopSample
<1>3. CASE ~m_esc_tvalid /\ ~Receiving
  <2>1. rx_state = "IDLE"
    BY <1>3 DEF RxInv, Receiving, Types, PortTypes, RxStates
  <2>2. Looks
    BY <1>3, <2>1 DEF RxInv
  <2> QED
    BY <1>3, <2>1, <2>2, NothingYet, StartComes DEF Looks
<1> QED
  BY <1>1, <1>2, <1>3

\* The invariant of line and receiver holds at reset.
LEMMA PortInit == Init => LineInv /\ RxInv
<1> SUFFICES ASSUME Init PROVE LineInv /\ RxInv
  OBVIOUS
<1> USE Numbers
<1>1. AllZero \in Byte
  BY DEF AllZero, Byte
<1>2. <<>> \in Seq(Byte) /\ Len(<<>>) = 0
  OBVIOUS
<1>3. PortTypes
  <2>1. drive \in [oe : BOOLEAN, tx : {0, 1}] /\ pin \in [oe : BOOLEAN, tx : {0, 1}]
    BY DEF Init
  <2>2. /\ tx_shift \in Byte /\ tx_data_reg \in Byte /\ rx_shift \in Byte
        /\ m_esc_tdata \in Byte
    BY <1>1 DEF Init
  <2>3. /\ tx_ready \in BOOLEAN /\ tx_active \in BOOLEAN /\ tx_data_valid \in BOOLEAN
        /\ tx_data_consumed \in BOOLEAN /\ m_esc_tvalid \in BOOLEAN
        /\ wb_ack_o \in BOOLEAN
    BY DEF Init
  <2>4. /\ tx_state \in TxStates /\ tx_out \in {0, 1} /\ tx_bit_idx \in 0 .. BITS - 1
        /\ tx_counter \in 0 .. lastClock /\ rx_meta \in {0, 1} /\ rx_sync \in {0, 1}
        /\ mux_meta \in {0, 1} /\ mux_sync \in {0, 1} /\ rx_state \in RxStates
        /\ rx_bit_idx \in 0 .. BITS - 1 /\ rx_counter \in 0 .. lastClock
    BY DEF Init, TxStates, RxStates
  <2> QED
    BY <2>1, <2>2, <2>3, <2>4 DEF PortTypes
<1>4. OtherTypes
  BY <1>1, <1>2, SidesAssumption DEF Init, OtherTypes
<1>5. TxShape
  BY DEF Init, TxShape
<1>6. HearInv /\ WaitInv /\ ~Unheard /\ ~Pending
  BY DEF Init, HearInv, WaitInv, Past, Unheard, Pending
<1>7. Levels /\ BytesInv /\ OwedInv
  BY <1>2, <1>6 DEF Init, Levels, BytesInv, OwedInv
<1>8. Quiet
  BY DEF Init, Quiet
<1>9. Pipe
  BY DEF Init, Pipe, StageIs
<1>10. RxInv
  BY DEF Init, RxInv, Receiving, Looks
<1> QED
  BY <1>3, <1>4, <1>5, <1>6, <1>7, <1>8, <1>9, <1>10 DEF LineInv, Types

\* One clock keeps that of the line, whether the reader takes a byte or not.
LEMMA PortEdge ==
  ASSUME LineInv, NEW m_tready \in BOOLEAN, Edge(m_tready)
  PROVE  PortTypes' /\ OtherTypes' /\ LineInv'
<1> USE DEF LineInv
<1>0. TxClock /\ EscClock /\ LineClock
  BY DEF Edge
<1>1. PortTypes' /\ OtherTypes'
  BY PortTypeStep, OtherTypeStep
<1>2. Types'
  BY <1>1 DEF Types
<1>3. TxShape' /\ HearInv' /\ WaitInv'
  BY <1>0, TxShapeStep, HearStep, WaitStep
<1>4. Levels'
  BY <1>3, LevelsStep
<1>5. BytesInv'
  <2>1. Unheard' /\ tx_state' \in {"START", "DATA"} =>
          \A j \in 1 .. BITS - Shifted' : tx_shift'[j] = owed'[1][Shifted' + j]
    BY <1>1, ShiftStep
  <2>2. esc_state' = "hear" =>
          \A j \in 1 .. BITS : j < esc_bit' \/ (j = esc_bit' /\ esc_clock' > half_bit)
            => esc_byte'[j] = owed'[1][j]
    BY HeardStep
  <2> QED
    BY <2>1, <2>2 DEF BytesInv
<1>6. OwedInv' /\ Quiet'
  BY <1>1, <1>3, OwedStep, QuietStep
<1>7. Pipe'
  BY <1>1, PipeKept
<1> QED
  BY <1>1, <1>2, <1>3, <1>4, <1>5, <1>6, <1>7

\* A clock of the port is an edge with the packetizer for its reader.
LEMMA ClockIsEdge ==
  ASSUME Clock
  PROVE  Edge(pk_tready) /\ pk_tready \in BOOLEAN
BY DEF Clock, Edge, pk_tready

\* So every step keeps the invariant of the line.
LEMMA LineNext == LineInv /\ [Next]_vars => LineInv'
<1> SUFFICES ASSUME LineInv, [Next]_vars PROVE LineInv'
  OBVIOUS
<1>1. CASE Next
  BY <1>1, ClockIsEdge, PortEdge DEF Next
<1>2. CASE UNCHANGED vars
  <2> USE <1>2 DEF vars, txVars, rxVars, wbVars, lineVars, envVars, LineInv
  <2>1. Types'
    BY DEF Types, PortTypes, OtherTypes
  <2>2. TxTime' = TxTime /\ TxBit' = TxBit /\ Unheard' = Unheard /\ Pending' = Pending
        /\ Shifted' = Shifted
    BY DEF TxTime, TxBit, Unheard, Pending, Shifted
  <2>3. TxShape'
    BY <2>2 DEF TxShape
  <2>4. HearInv'
    BY <2>2 DEF HearInv, Past, Behind
  <2>5. WaitInv'
    BY <2>2 DEF WaitInv, Past
  <2>6. Levels' /\ BytesInv' /\ OwedInv'
    BY <2>2 DEF Levels, BytesInv, OwedInv, Seen, LevelOf
  <2>7. Quiet'
    BY DEF Quiet
  <2>8. Pipe'
    BY <2>2 DEF Pipe, StageIs, Past, Seen, LevelOf
  <2> QED
    BY <2>1, <2>3, <2>4, <2>5, <2>6, <2>7, <2>8
<1> QED
  BY <1>1, <1>2

--------------------------------------------------------------------------------
\* The packetizer as the reader of the port, behind a wire that is fast enough.

\* The numbers of the wire: there is room for the grant and for a frame.
LEMMA WireNumbers ==
  ASSUME WireIsFast
  PROVE  /\ MAX_LEN \in Nat /\ MAX_LEN >= 1 /\ TIMEOUT \in Nat /\ Away \in Nat
         /\ \A f \in FrameClocks : f \in Nat /\ f >= 2
         /\ \A a \in AheadClocks : a \in Nat /\ a + 2 <= Away
<1>0. /\ \A f \in FrameClocks : f \in Nat \ {0, 1}
      /\ \A a \in AheadClocks : a \in Nat
  BY WireAssumption, Zenon
<1>1. PICK f \in FrameClocks : f \in Nat /\ f >= 2
  <2>1. PICK f \in FrameClocks : TRUE
    BY WireAssumption, Zenon
  <2> QED
    BY <1>0, <2>1
<1>2. \A a \in AheadClocks : f + a <= Away
  BY DEF WireIsFast
<1>3. PICK k \in Nat : k = BitsLong(BITS + 2)
  BY Numbers DEF BitsLong
<1>4. Away \in Int
  BY <1>3, WireAssumption DEF Away, BitsLong
<1>5. \A a \in AheadClocks : a \in Nat /\ a + 2 <= Away
  BY <1>0, <1>1, <1>2, <1>4
<1>6. Away \in Nat
  <2>1. PICK a \in AheadClocks : TRUE
    BY WireAssumption, Zenon
  <2> QED
    BY <1>4, <1>5, <2>1
<1>7. MAX_LEN \in Nat \ {0} /\ TIMEOUT \in Nat
  BY WireAssumption, Zenon
<1> QED
  BY <1>0, <1>5, <1>6, <1>7

\* Bits counted in clocks.
LEMMA BitsAre ==
  ASSUME NEW k \in Nat
  PROVE  /\ BitsLong(k) \in Nat /\ BitsLong(k + 1) = BitsLong(k) + baud_div
         /\ BitsLong(0) = 0
BY Numbers DEF BitsLong

\* The framer's clock: a packet that begins is granted in time, also by the frames of
\* other channels; the frame of one that was taken leaves in time.
LEMMA FramerStep ==
  ASSUME WireIsFast, PktInv, FramerClock
  PROVE  /\ framer_busy' \in 0 .. Away
         /\ ~PacketTaken /\ ~PacketBegins =>
              framer_busy' = IF framer_busy > 0 THEN framer_busy - 1 ELSE 0
         /\ ~PacketBegins /\ (pk_state = "FILL" \/ PacketTaken) =>
              \A a \in AheadClocks : framer_busy' + a <= Away
<1>0. /\ MAX_LEN \in Nat /\ MAX_LEN >= 1 /\ TIMEOUT \in Nat /\ Away \in Nat
      /\ \A f \in FrameClocks : f \in Nat /\ f >= 2
      /\ \A a \in AheadClocks : a \in Nat /\ a + 2 <= Away
  BY WireNumbers
<1> USE <1>0
<1>1. framer_busy \in 0 .. Away
  BY DEF PktInv, PktNumbers
<1>2. CASE PacketBegins
  <2>0. PICK rest \in Nat : rest = IF framer_busy > 0 THEN framer_busy - 1 ELSE 0
    BY <1>1
  <2>3. PICK grant \in Nat : grant = IF rest > 2 THEN rest ELSE 2
    OBVIOUS
  <2>4. ~PacketTaken
    BY <1>2 DEF PacketBegins, PacketTaken, PktInv, PktFlags
  <2>1. PICK a \in AheadClocks : framer_busy' = grant + a
    BY <1>2, <2>0, <2>3, <2>4, Zenon DEF FramerClock
  <2>2. framer_busy + a <= Away
    BY <1>2 DEF PktInv, PktNumbers, PacketBegins
  <2> QED
    BY <1>1, <1>2, <2>0, <2>1, <2>2, <2>3
<1>3. CASE ~PacketBegins /\ PacketTaken
  <2>1. framer_busy' \in FrameClocks
    BY <1>3 DEF FramerClock
  <2>2. \A a \in AheadClocks : framer_busy' + a <= Away
    BY <2>1 DEF WireIsFast
  <2>3. PICK a \in AheadClocks : TRUE
    BY WireAssumption
  <2> QED
    BY <1>3, <2>1, <2>2, <2>3
<1>4. CASE ~PacketBegins /\ ~PacketTaken
  <2>1. framer_busy' = IF framer_busy > 0 THEN framer_busy - 1 ELSE 0
    BY <1>4 DEF FramerClock
  <2>2. pk_state = "FILL" => \A a \in AheadClocks : framer_busy + a <= Away
    BY DEF PktInv, PktNumbers
  <2> QED
    BY <1>1, <1>4, <2>1, <2>2
<1> QED
  BY <1>2, <1>3, <1>4

\* The time left is a number, and not 0 while it hands a packet on.
LEMMA ReturnType ==
  ASSUME WireIsFast, PktNumbers
  PROVE  Return \in Nat /\ (pk_state = "PUSH" => Return >= 1)
<1>1. /\ pk_count \in Nat /\ pk_timer \in 0 .. TIMEOUT /\ push_idx \in Nat
      /\ framer_busy \in Nat /\ (pk_state = "PUSH" => push_idx <= pk_count)
      /\ TIMEOUT \in Nat /\ Away \in Nat
  BY WireNumbers DEF PktNumbers
<1> QED
  BY <1>1 DEF Return

\* A collected byte starts the silence again; otherwise the end comes a clock closer.
Closer == Return' = 0 \/ Return' <= Return - 1
\* While it collects.
LEMMA FillStep ==
  ASSUME WireIsFast, PktInv, NEW tvalid \in BOOLEAN, NEW b, pk_state = "FILL",
         PacketizerClock(tvalid, b, framer_busy = 0), FramerClock
  PROVE  PktInv' /\ IF tvalid THEN Return' <= TIMEOUT + Away + MAX_LEN + 2 ELSE Closer
<1>0. /\ MAX_LEN \in Nat /\ MAX_LEN >= 1 /\ TIMEOUT \in Nat /\ Away \in Nat
      /\ \A f \in FrameClocks : f \in Nat /\ f >= 2
      /\ \A a \in AheadClocks : a \in Nat /\ a + 2 <= Away
  BY WireNumbers
<1> USE <1>0
<1>1. /\ pk_count \in 0 .. MAX_LEN - 1 /\ pk_timer \in 0 .. TIMEOUT /\ push_idx \in Nat
      /\ framer_busy \in 0 .. Away /\ pk_tready
  BY DEF PktInv, PktNumbers, pk_tready
<1>2. Fill(tvalid, b) /\ ~pk_tvalid /\ ~pk_tvalid' /\ ~PacketTaken
  BY DEF PacketizerClock, Fill, Push, PacketTaken, PktInv, PktFlags
<1>3. framer_busy' \in 0 .. Away
  BY FramerStep
<1>4. CASE tvalid /\ pk_count = MAX_LEN - 1
  <2>1. pk_state' = "PUSH" /\ pk_count' = MAX_LEN /\ pk_timer' = 0 /\ push_idx' = 0
    BY <1>1, <1>2, <1>4 DEF Fill, TakeByte
  <2>2. PktFlags'
    BY <1>2, <2>1 DEF PktFlags
  <2>3. PktNumbers'
    BY <1>1, <1>3, <2>1 DEF PktNumbers
  <2>4. PICK k \in Nat, len \in Nat, busy \in Nat, t \in Nat :
          /\ k = Away /\ len = MAX_LEN /\ busy = framer_busy' /\ t = TIMEOUT
          /\ busy <= k
    BY <1>3
  <2>5. Return' = busy + (len - 0) + 1
    BY <2>1, <2>4 DEF Return
  <2>6. Return' <= t + k + len + 2
    <3>1. busy <= k
      BY <2>4
    <3>2. busy + (len - 0) + 1 <= t + k + len + 2
      BY <3>1
    <3> QED
      BY <2>5, <3>2
  <2> QED
    BY <1>4, <2>2, <2>3, <2>4, <2>6 DEF PktInv
<1>5. CASE tvalid /\ pk_count # MAX_LEN - 1
  <2>1. /\ pk_state' = "FILL" /\ pk_count' = pk_count + 1 /\ pk_timer' = 0
        /\ push_idx' = push_idx
    BY <1>1, <1>2, <1>5 DEF Fill, TakeByte
  <2>2. \A a \in AheadClocks : framer_busy' + a <= Away
    BY <2>1, FramerStep DEF PacketBegins
  <2>3. PktFlags'
    BY <1>2, <2>1 DEF PktFlags
  <2> QED
    BY <1>1, <1>3, <1>5, <2>1, <2>2, <2>3 DEF PktInv, PktNumbers, Return
<1>6. CASE ~tvalid /\ pk_count > 0 /\ pk_timer = TIMEOUT
  <2>1. /\ pk_state' = "PUSH" /\ pk_count' = pk_count /\ pk_timer' = pk_timer
        /\ push_idx' = 0
    BY <1>1, <1>2, <1>6 DEF Fill, CountSilence
  <2>2. PktFlags'
    BY <1>2, <2>1 DEF PktFlags
  <2>3. PktNumbers'
    BY <1>1, <1>3, <1>6, <2>1 DEF PktNumbers
  <2>4. PICK k \in Nat, count \in Nat, busy \in Nat, t \in Nat :
          /\ k = Away /\ count = pk_count /\ busy = framer_busy' /\ t = TIMEOUT
          /\ busy <= k
    BY <1>1, <1>3
  <2>5. Return = (t - t) + k + count + 2 /\ Return' = busy + count + 1
    BY <1>6, <2>1, <2>4 DEF Return
  <2>6. Return' <= Return - 1
    <3>1. busy <= k
      BY <2>4
    <3>2. busy + count + 1 <= (t - t) + k + count + 2 - 1
      BY <3>1
    <3> QED
      BY <2>5, <3>2
  <2> QED
    BY <1>6, <2>2, <2>3, <2>6, Zenon DEF PktInv, Closer
<1>7. CASE ~tvalid /\ ~(pk_count > 0 /\ pk_timer = TIMEOUT)
  <2>1. /\ pk_state' = "FILL" /\ pk_count' = pk_count /\ push_idx' = push_idx
        /\ pk_timer' = IF pk_count > 0 THEN pk_timer + 1 ELSE pk_timer
    BY <1>1, <1>2, <1>7 DEF Fill, CountSilence
  <2>2. \A a \in AheadClocks : framer_busy' + a <= Away
    BY <2>1, FramerStep DEF PacketBegins
  <2>3. PktFlags'
    BY <1>2, <2>1 DEF PktFlags
  <2> QED
    BY <1>1, <1>3, <1>7, <2>1, <2>2, <2>3 DEF PktInv, PktNumbers, Return, Closer
<1> QED
  BY <1>4, <1>5, <1>6, <1>7

\* While it hands a packet on.
LEMMA PushStep ==
  ASSUME WireIsFast, PktInv, NEW tvalid \in BOOLEAN, NEW b, pk_state = "PUSH",
         PacketizerClock(tvalid, b, framer_busy = 0), FramerClock
  PROVE  PktInv' /\ Return >= 1 /\ Closer
<1>0. /\ MAX_LEN \in Nat /\ MAX_LEN >= 1 /\ TIMEOUT \in Nat /\ Away \in Nat
      /\ \A f \in FrameClocks : f \in Nat /\ f >= 2
      /\ \A a \in AheadClocks : a \in Nat /\ a + 2 <= Away
  BY WireNumbers
<1> USE <1>0
<1>1. /\ pk_count \in 1 .. MAX_LEN /\ pk_timer \in 0 .. TIMEOUT
      /\ push_idx \in 0 .. pk_count /\ framer_busy \in 0 .. Away
  BY DEF PktInv, PktNumbers
<1>2. /\ Push(framer_busy = 0) /\ ~PacketBegins
      /\ (pk_tvalid <=> push_idx > 0) /\ (pk_tvalid => (pk_tlast <=> push_idx = pk_count))
  BY DEF PacketizerClock, Fill, PacketBegins, PktInv, PktFlags
<1>3. framer_busy' \in 0 .. Away
  BY FramerStep
<1>4. Return = framer_busy + (pk_count - push_idx) + 1 /\ Return >= 1
  BY <1>1 DEF Return
<1>5. CASE pk_tvalid /\ framer_busy > 0
  <2>0. framer_busy # 0
    BY <1>1, <1>5
  <2>1. /\ pk_state' = "PUSH" /\ pk_count' = pk_count /\ pk_timer' = pk_timer
        /\ push_idx' = push_idx /\ (pk_tvalid' <=> pk_tvalid) /\ (pk_tlast' <=> pk_tlast)
    BY <1>2, <1>5, <2>0, Zenon DEF Push
  <2>2. framer_busy' = framer_busy - 1
    BY <1>2, <1>5, <2>0, FramerStep DEF PacketTaken
  <2>3. PktFlags'
    BY <1>2, <2>1, Zenon DEF PktFlags
  <2>4. PktNumbers' /\ Return' = Return - 1
    BY <1>1, <1>3, <1>4, <2>1, <2>2 DEF PktNumbers, Return
  <2> QED
    BY <1>4, <2>3, <2>4 DEF PktInv, Closer
<1>6. CASE (~pk_tvalid \/ framer_busy = 0) /\ push_idx < pk_count
  <2>1. /\ pk_state' = "PUSH" /\ pk_count' = pk_count /\ pk_timer' = pk_timer
        /\ push_idx' = push_idx + 1 /\ pk_tvalid'
        /\ pk_tlast' <=> push_idx = pk_count - 1
    BY <1>2, <1>6, Zenon DEF Push
  <2>2. framer_busy' = IF framer_busy > 0 THEN framer_busy - 1 ELSE 0
    <3>1. ~PacketTaken
      BY <1>1, <1>2, <1>6 DEF PacketTaken
    <3> QED
      BY <1>2, <3>1, FramerStep
  <2>3. PktFlags'
    <3>1. push_idx' > 0 /\ (push_idx = pk_count - 1 <=> push_idx' = pk_count')
      BY <1>1, <2>1
    <3> QED
      BY <2>1, <3>1, Zenon DEF PktFlags
  <2>4. PktNumbers' /\ Return' <= Return - 1
    BY <1>1, <1>3, <1>4, <1>6, <2>1, <2>2 DEF PktNumbers, Return
  <2> QED
    BY <1>4, <2>3, <2>4 DEF PktInv, Closer
<1>7. CASE (~pk_tvalid \/ framer_busy = 0) /\ push_idx = pk_count
  <2>0. ~(push_idx < pk_count) /\ push_idx > 0
    BY <1>1, <1>7
  <2>1. /\ pk_state' = "FILL" /\ pk_count' = 0 /\ pk_timer' = 0
        /\ push_idx' = push_idx /\ ~pk_tvalid'
    BY <1>2, <1>7, <2>0, Zenon DEF Push
  <2>2. PacketTaken
    BY <1>2, <1>7, <2>0 DEF PacketTaken
  <2>3. \A a \in AheadClocks : framer_busy' + a <= Away
    BY <1>2, <2>2, FramerStep
  <2>4. PktFlags'
    BY <2>1 DEF PktFlags
  <2>5. PktNumbers' /\ Return' = 0
    BY <1>1, <1>3, <2>1, <2>3 DEF PktNumbers, Return
  <2> QED
    BY <1>4, <2>4, <2>5 DEF PktInv, Closer
<1> QED
  BY <1>1, <1>5, <1>6, <1>7

\* The receiver comes at most a clock closer to its next byte.
LEMMA ComingStep ==
  ASSUME Types, OfferShape, NEW m_tready \in BOOLEAN, Receive(m_tready),
         UnderWay(m_tready)
  PROVE  /\ OfferShape' /\ Coming \in Nat
         /\ m_esc_tvalid /\ m_tready =>
              ~m_esc_tvalid' /\ Coming' = half_bit + BitsLong(BITS + 1)
         /\ m_esc_tvalid /\ ~m_tready => m_esc_tvalid' /\ waiting' = waiting + 1
         /\ ~m_esc_tvalid /\ m_esc_tvalid' => Coming = 1 /\ waiting' = 0
         /\ ~m_esc_tvalid /\ ~m_esc_tvalid' => Coming' \in Nat /\ Coming' >= Coming - 1
<1> USE Numbers
<1>1. /\ rx_state \in RxStates /\ rx_counter \in 0 .. lastClock
      /\ rx_bit_idx \in 0 .. BITS - 1 /\ m_esc_tvalid \in BOOLEAN /\ waiting \in Nat
  BY DEF Types, PortTypes, OtherTypes
<1>2. waiting' = IF m_esc_tvalid /\ ~m_tready THEN waiting + 1 ELSE 0
  BY DEF UnderWay
<1>3. PICK whole \in Nat : whole = BitsLong(BITS + 1) /\ whole >= baud_div
  <2>1. BitsLong(BITS + 1) = BitsLong(BITS) + baud_div /\ BitsLong(BITS) \in Nat
    BY BitsAre
  <2> QED
    BY <2>1
<1>4. PICK n \in 0 .. BITS - 1, left \in Nat :
        /\ n = rx_bit_idx /\ left = BitsLong(BITS - (n + 1))
        /\ BitsLong(BITS - n) = left + baud_div
  <2>1. PICK n \in 0 .. BITS - 1, k \in Nat : n = rx_bit_idx /\ k = BITS - (n + 1)
    BY <1>1
  <2>2. BitsLong(k) \in Nat /\ BitsLong(k + 1) = BitsLong(k) + baud_div
    BY BitsAre
  <2>3. BITS - n = k + 1
    BY <2>1
  <2> QED
    BY <2>1, <2>2, <2>3
<1>5. left + 2 * baud_div <= whole /\ (n = BITS - 1 => left = 0)
  <2>1. n = BITS - 1 => BITS - (n + 1) = 0 /\ BitsLong(0) = 0
    BY BitsAre
  <2>2. left = (BITS - (n + 1)) * baud_div /\ whole = (BITS + 1) * baud_div
    BY <1>3, <1>4 DEF BitsLong
  <2>3. PICK m \in Nat : m = n + 1 /\ m >= 1
    OBVIOUS
  <2>4. left = whole - (m + 1) * baud_div /\ (m + 1) * baud_div >= 2 * baud_div
    BY <2>2, <2>3
  <2> QED
    BY <1>4, <2>1, <2>4
<1>6. /\ rx_state = "START" => Coming = rx_counter + 1 + whole
      /\ rx_state = "DATA" => Coming = rx_counter + 1 + left + baud_div
      /\ rx_state = "STOP" => Coming = rx_counter + 1
      /\ rx_state \in {"IDLE", "WAIT_STREAM"} => Coming = half_bit + whole
  BY <1>1, <1>3, <1>4 DEF Coming
<1>7. /\ rx_state' = "START" => Coming' = rx_counter' + 1 + whole
      /\ rx_state' = "DATA" => Coming' = rx_counter' + 1 + BitsLong(BITS - rx_bit_idx')
      /\ rx_state' = "STOP" => Coming' = rx_counter' + 1
      /\ rx_state' \in {"IDLE", "WAIT_STREAM"} => Coming' = half_bit + whole
  BY <1>3 DEF Coming
<1>8. CASE m_esc_tvalid
  <2>1. rx_state \in {"IDLE", "WAIT_STREAM"}
    BY <1>8 DEF OfferShape
  <2>2. /\ m_esc_tvalid' <=> ~m_tready
        /\ \/ rx_state' = "IDLE"
           \/ rx_state' = "WAIT_STREAM" /\ ~m_tready
           \/ rx_state' = "START" /\ rx_counter' = half_bit - 1 /\ m_tready
    BY <1>1, <1>8, <2>1 DEF Receive, RxOff, RxListen, RxIdle, RxCount, RxStart, RxData,
                            RxStop, RxWait, NoNewByte
  <2>3. OfferShape'
    <3>1. rx_counter' = half_bit - 1 => rx_counter' < half_bit
      OBVIOUS
    <3>2. rx_state' = "START" => rx_counter' < half_bit
      BY <2>2, <3>1
    <3>3. m_tready => waiting' = 0
      BY <1>2
    <3> QED
      BY <2>2, <3>2, <3>3 DEF OfferShape
  <2>4. Coming = half_bit + whole
    BY <1>6, <2>1
  <2>5. m_tready => Coming' = half_bit + whole
    BY <1>3, <1>7, <2>2
  <2>6. Coming \in Nat
    BY <1>3, <2>4
  <2>7. ~m_tready => waiting' = waiting + 1
    BY <1>2, <1>8
  <2> QED
    BY <1>3, <1>8, <2>2, <2>3, <2>5, <2>6, <2>7, Zenon
<1>9. CASE ~m_esc_tvalid
  <2>0. waiting' = 0
    BY <1>2, <1>9
  <2>1. CASE rx_state' = "IDLE" /\ ~m_esc_tvalid'
    <3>1. OfferShape' /\ Coming' = half_bit + whole
      BY <1>7, <2>0, <2>1 DEF OfferShape
    <3>2. Coming \in Nat /\ Coming <= half_bit + whole + 1
      <4>1. rx_state = "START" => rx_counter < half_bit
        BY DEF OfferShape
      <4> QED
        BY <1>1, <1>3, <1>4, <1>5, <1>6, <4>1 DEF RxStates
    <3> QED
      BY <1>3, <1>9, <2>1, <3>1, <3>2
  <2>2. CASE ~tx_active /\ RxIdle(m_tready)
    BY <1>1, <1>3, <1>6, <1>7, <1>9, <2>0, <2>2 DEF RxIdle, NoNewByte, OfferShape
  <2>3. CASE ~tx_active /\ RxCount(m_tready)
    <3>1. /\ rx_counter' = rx_counter - 1 /\ rx_state' = rx_state /\ ~m_esc_tvalid'
          /\ rx_state \in {"START", "DATA", "STOP"} /\ rx_counter' \in Nat
          /\ BitsLong(BITS - rx_bit_idx') = left + baud_div
      BY <1>1, <1>4, <1>9, <2>3 DEF RxCount, NoNewByte
    <3> QED
      BY <1>1, <1>3, <1>4, <1>6, <1>7, <1>9, <2>0, <3>1 DEF OfferShape
  <2>4. CASE ~tx_active /\ RxStart(m_tready) /\ rx_state' = "DATA"
    <3>1. /\ rx_state = "START" /\ rx_counter = 0 /\ rx_counter' = lastClock
          /\ rx_bit_idx' = 0 /\ ~m_esc_tvalid'
      BY <1>9, <2>4 DEF RxStart, NoNewByte
    <3>2. BitsLong(BITS - rx_bit_idx') + baud_div = whole /\ BitsLong(BITS) \in Nat
      <4>1. BitsLong(BITS + 1) = BitsLong(BITS) + baud_div /\ BitsLong(BITS) \in Nat
        BY BitsAre
      <4> QED
        BY <1>3, <3>1, <4>1
    <3>3. PICK k \in Nat : k = BitsLong(BITS - rx_bit_idx') /\ k + baud_div = whole
      BY <3>1, <3>2
    <3> QED
      BY <1>3, <1>6, <1>7, <1>9, <2>0, <2>4, <3>1, <3>3 DEF OfferShape
  <2>5. CASE ~tx_active /\ RxData(m_tready)
    <3>1. /\ rx_state = "DATA" /\ rx_counter = 0 /\ rx_counter' = lastClock
          /\ ~m_esc_tvalid'
          /\ IF n = BITS - 1 THEN rx_state' = "STOP"
             ELSE rx_state' = "DATA" /\ rx_bit_idx' = n + 1
      BY <1>4, <1>9, <2>5 DEF RxData, NoNewByte
    <3>2. rx_state' = "DATA" => Coming' = lastClock + 1 + left
      BY <1>4, <1>7, <3>1
    <3> QED
      BY <1>4, <1>5, <1>6, <1>7, <1>9, <2>0, <3>1, <3>2 DEF OfferShape
  <2>6. CASE ~tx_active /\ RxStop(m_tready)
    <3>1. /\ rx_state = "STOP" /\ rx_counter = 0
          /\ rx_state' \in {"IDLE", "WAIT_STREAM"} /\ m_esc_tvalid' \in BOOLEAN
      BY <1>9, <2>6 DEF RxStop, NewByte, NoNewByte
    <3> QED
      BY <1>3, <1>6, <1>7, <1>9, <2>0, <3>1 DEF OfferShape
  <2>7. CASE ~tx_active /\ RxWait(m_tready)
    <3>1. /\ rx_state = "WAIT_STREAM" /\ rx_state' \in {"IDLE", "WAIT_STREAM"}
          /\ ~m_esc_tvalid'
      BY <1>9, <2>7 DEF RxWait, NoNewByte
    <3> QED
      BY <1>3, <1>6, <1>7, <1>9, <2>0, <3>1 DEF OfferShape
  <2>8. RxOff(m_tready) \/ (~tx_active /\ RxListen(m_tready))
    BY DEF Receive
  <2>9. RxOff(m_tready) => rx_state' = "IDLE" /\ ~m_esc_tvalid'
    BY <1>9 DEF RxOff, NoNewByte
  <2>10. RxStart(m_tready) => ~m_esc_tvalid' /\ rx_state' \in {"DATA", "IDLE"}
    BY <1>9 DEF RxStart, NoNewByte
  <2> QED
    BY <2>1, <2>2, <2>3, <2>4, <2>5, <2>6, <2>7, <2>8, <2>9, <2>10 DEF RxListen
<1> QED
  BY <1>1, <1>8, <1>9

\* The offered byte is taken before the output is needed for the next.
LEMMA InTimePatience ==
  ASSUME WireIsFast, Types, PaceInv, m_esc_tvalid, ~pk_tready
  PROVE  waiting < Patience
<1>0. /\ MAX_LEN \in Nat /\ MAX_LEN >= 1 /\ TIMEOUT \in Nat /\ Away \in Nat
      /\ \A f \in FrameClocks : f \in Nat /\ f >= 2
      /\ \A a \in AheadClocks : a \in Nat /\ a + 2 <= Away
  BY WireNumbers
<1> USE <1>0
<1>1. pk_state = "PUSH"
  BY DEF PaceInv, PktInv, PktNumbers, pk_tready
<1>2. Return + waiting <= Patience
  BY <1>1 DEF PaceInv, InTime
<1>3. Return \in Nat /\ Return >= 1
  BY <1>1, ReturnType DEF PaceInv, PktInv
<1> QED
  BY <1>2, <1>3, Numbers DEF Types, OtherTypes, Patience

\* A clock of the port and the packetizer keeps the pace of the two.
LEMMA PaceStep ==
  ASSUME WireIsFast, Types, PaceInv, Clock
  PROVE  PaceInv'
<1>0. /\ MAX_LEN \in Nat /\ MAX_LEN >= 1 /\ TIMEOUT \in Nat /\ Away \in Nat
      /\ \A f \in FrameClocks : f \in Nat /\ f >= 2
      /\ \A a \in AheadClocks : a \in Nat /\ a + 2 <= Away
  BY WireNumbers
<1> USE <1>0
<1>1. /\ PacketizerClock(m_esc_tvalid, m_esc_tdata, framer_busy = 0) /\ FramerClock
      /\ Receive(pk_tready) /\ UnderWay(pk_tready) /\ pk_tready \in BOOLEAN
      /\ m_esc_tvalid \in BOOLEAN /\ waiting \in Nat
  BY ClockIsEdge DEF Clock, Edge, RxClock, Types, PortTypes, OtherTypes
<1>2. /\ PktInv'
      /\ pk_state = "FILL" /\ m_esc_tvalid => Return' <= TIMEOUT + Away + MAX_LEN + 2
      /\ pk_state = "PUSH" \/ ~m_esc_tvalid => Closer
  <2>1. pk_state \in {"FILL", "PUSH"}
    BY DEF PaceInv, PktInv, PktNumbers
  <2> QED
    BY <1>1, <2>1, FillStep, PushStep DEF PaceInv
<1>3. pk_tready <=> pk_state = "FILL"
  BY DEF PaceInv, PktInv, PktNumbers, pk_tready
<1>4. Return \in Nat /\ Return' \in Nat /\ (pk_state' = "PUSH" => Return' >= 1)
  <2>1. /\ pk_count' \in Nat /\ pk_timer' \in 0 .. TIMEOUT /\ push_idx' \in Nat
        /\ framer_busy' \in Nat /\ (pk_state' = "PUSH" => push_idx' <= pk_count')
    BY <1>2 DEF PktInv, PktNumbers
  <2>2. PICK count \in Nat, i \in Nat, busy \in Nat, k \in Nat, left \in Nat :
          /\ count = pk_count' /\ i = push_idx' /\ busy = framer_busy' /\ k = Away
          /\ left = TIMEOUT - pk_timer'
    <3>1. PICK t \in Nat : t = TIMEOUT
      OBVIOUS
    <3>2. PICK time \in 0 .. t : time = pk_timer'
      BY <2>1, <3>1
    <3>3. t - time \in Nat
      OBVIOUS
    <3>4. TIMEOUT - pk_timer' \in Nat
      BY <3>1, <3>2, <3>3
    <3> QED
      BY <2>1, <3>4
  <2>3. Return' = IF pk_state' = "PUSH" THEN busy + (count - i) + 1
                  ELSE IF count = 0 THEN 0 ELSE left + k + count + 2
    BY <2>2 DEF Return
  <2>4. pk_state' = "PUSH" => i <= count
    BY <2>1, <2>2
  <2>5. i <= count => busy + (count - i) + 1 \in Nat /\ busy + (count - i) + 1 >= 1
    OBVIOUS
  <2>6. left + k + count + 2 \in Nat
    OBVIOUS
  <2>7. Return' \in Nat /\ (pk_state' = "PUSH" => Return' >= 1)
    BY <2>3, <2>4, <2>5, <2>6
  <2> QED
    BY <2>7, ReturnType DEF PaceInv, PktInv
<1>5. /\ OfferShape' /\ Coming \in Nat
      /\ m_esc_tvalid /\ pk_tready =>
           ~m_esc_tvalid' /\ Coming' = half_bit + BitsLong(BITS + 1)
      /\ m_esc_tvalid /\ ~pk_tready => m_esc_tvalid' /\ waiting' = waiting + 1
      /\ ~m_esc_tvalid /\ m_esc_tvalid' => Coming = 1 /\ waiting' = 0
      /\ ~m_esc_tvalid /\ ~m_esc_tvalid' => Coming' \in Nat /\ Coming' >= Coming - 1
  BY <1>1, ComingStep DEF PaceInv
<1>6. /\ m_esc_tvalid /\ pk_state = "PUSH" => Return + waiting <= Patience
      /\ ~m_esc_tvalid => Return <= Coming + Patience
      /\ Patience \in Nat
  BY Numbers DEF PaceInv, InTime, Patience
<1>7. CASE m_esc_tvalid /\ pk_tready
  <2>1. TIMEOUT + Away + MAX_LEN + 2 = BitsLong(BITS + 2) - 2
    <3>1. PICK k \in Nat : k = BitsLong(BITS + 2)
      BY Numbers, BitsAre
    <3>2. Away = k - TIMEOUT - MAX_LEN - 4
      BY <3>1 DEF Away, BitsLong
    <3> QED
      BY <3>1, <3>2
  <2>2. BitsLong(BITS + 1) \in Nat /\ BitsLong(BITS + 2) = BitsLong(BITS + 1) + baud_div
    <3>1. PICK k \in Nat : k = BITS + 1 /\ k + 1 = BITS + 2
      BY Numbers
    <3> QED
      BY <3>1, BitsAre
  <2>3. ~m_esc_tvalid' /\ Coming' + Patience = BitsLong(BITS + 2) - 2
    BY <1>5, <1>7, <2>2, Numbers DEF Patience
  <2>4. InTime'
    BY <1>2, <1>3, <1>7, <2>1, <2>3 DEF InTime
  <2> QED
    BY <1>2, <1>5, <2>4 DEF PaceInv
<1>8. CASE m_esc_tvalid /\ ~pk_tready
  <2>1. m_esc_tvalid' /\ waiting' = waiting + 1 /\ Closer /\ Return + waiting <= Patience
    BY <1>1, <1>2, <1>3, <1>5, <1>6, <1>8 DEF PaceInv, PktInv, PktNumbers
  <2>2. pk_state' = "PUSH" => Return' <= Return - 1
    BY <1>4, <2>1 DEF Closer
  <2>3. InTime'
    <3>1. PICK k \in Nat, n \in Nat, m \in Nat, left \in Nat :
            k = Patience /\ n = Return /\ m = waiting /\ left = Return'
      BY <1>1, <1>4, <1>6
    <3>4. n + m <= k /\ (pk_state' = "PUSH" => left <= n - 1)
      BY <2>1, <2>2, <3>1
    <3>2. pk_state' = "PUSH" => left + (m + 1) <= k
      BY <3>4
    <3>3. pk_state' = "PUSH" => Return' + waiting' <= Patience
      BY <2>1, <3>1, <3>2
    <3> QED
      BY <2>1, <3>3 DEF InTime
  <2> QED
    BY <1>2, <1>5, <2>3 DEF PaceInv
<1>9. CASE ~m_esc_tvalid
  <2>1. Closer /\ Return <= Coming + Patience
    BY <1>2, <1>6, <1>9
  <2>2. InTime'
    <3>1. PICK k \in Nat, n \in Nat, c \in Nat, left \in Nat :
            k = Patience /\ n = Return /\ c = Coming /\ left = Return'
      BY <1>4, <1>5, <1>6
    <3>2. n <= c + k /\ (left = 0 \/ left <= n - 1)
      BY <2>1, <3>1 DEF Closer
    <3>3. CASE m_esc_tvalid'
      <4>1. c = 1 /\ waiting' = 0
        BY <1>5, <1>9, <3>1, <3>3
      <4>2. left + 0 <= k
        BY <3>2, <4>1
      <4> QED
        BY <3>1, <3>3, <4>1, <4>2 DEF InTime
    <3>4. CASE ~m_esc_tvalid'
      <4>1. PICK c2 \in Nat : c2 = Coming' /\ c2 >= c - 1
        BY <1>5, <1>9, <3>1, <3>4
      <4>2. c2 >= c - 1
        BY <4>1
      <4>3. left <= c2 + k
        BY <3>2, <4>2
      <4> QED
        BY <3>1, <3>4, <4>1, <4>3 DEF InTime
    <3> QED
      BY <3>3, <3>4
  <2> QED
    BY <1>2, <1>5, <2>2 DEF PaceInv
<1> QED
  BY <1>7, <1>8, <1>9, <1>1

\* All of it, and that it holds as long as the wire is fast.
PortInv == LineInv /\ RxInv /\ PaceInv
\* At reset.
LEMMA PaceInit ==
  ASSUME WireIsFast
  PROVE  Init => PortInv
<1> SUFFICES ASSUME Init PROVE PortInv
  OBVIOUS
<1>0. /\ MAX_LEN \in Nat /\ MAX_LEN >= 1 /\ TIMEOUT \in Nat /\ Away \in Nat
      /\ \A f \in FrameClocks : f \in Nat /\ f >= 2
      /\ \A a \in AheadClocks : a \in Nat /\ a + 2 <= Away
  BY WireNumbers
<1> USE <1>0
<1>1. PktNumbers /\ Return = 0
  BY DEF Init, PacketizerInit, PktNumbers, Return
<1>5. PktFlags
  BY DEF Init, PacketizerInit, PktFlags
<1>2. OfferShape
  BY DEF Init, OfferShape
<1>3. Coming \in Nat /\ Patience \in Nat
  <2>1. PICK k \in Nat : k = BitsLong(BITS + 1)
    BY Numbers, BitsAre
  <2> QED
    BY <2>1, Numbers DEF Init, Coming, Patience
<1>4. InTime
  BY <1>1, <1>3 DEF Init, PacketizerInit, InTime
<1> QED
  BY <1>1, <1>2, <1>4, <1>5, PortInit DEF PortInv, PaceInv, PktInv

\* In every step.
LEMMA PortNext ==
  ASSUME WireIsFast
  PROVE  PortInv /\ [Next]_vars => PortInv'
<1> SUFFICES ASSUME PortInv, [Next]_vars PROVE PortInv'
  OBVIOUS
<1>1. LineInv'
  BY LineNext DEF PortInv
<1>2. CASE Next
  <2>1. Edge(pk_tready) /\ pk_tready \in BOOLEAN /\ Clock
    BY <1>2, ClockIsEdge DEF Next
  <2>2. m_esc_tvalid /\ ~pk_tready => waiting < Patience
    BY InTimePatience DEF PortInv, LineInv
  <2>3. RxInv'
    BY <1>1, <2>1, <2>2, RxInvStep DEF PortInv, LineInv, Types
  <2>4. PaceInv'
    BY <2>1, PaceStep DEF PortInv, LineInv
  <2> QED
    BY <1>1, <2>3, <2>4 DEF PortInv
<1>3. CASE UNCHANGED vars
  <2>1. RxInv'
    BY <1>3 DEF vars, txVars, rxVars, wbVars, lineVars, envVars, PortInv, RxInv,
                Receiving, InByte, HasByte, Looks, At, Behind, Samples, OwnBit,
                OwnClock, RxBit
  <2>2. PaceInv'
    BY <1>3 DEF vars, txVars, rxVars, wbVars, lineVars, envVars, packetizerVars, PortInv,
                PaceInv, PktInv, PktNumbers, PktFlags, OfferShape, InTime, Return, Coming
  <2> QED
    BY <1>1, <2>1, <2>2 DEF PortInv
<1> QED
  BY <1>2, <1>3

\* Every byte the ESC reads from the line is the oldest byte the port has accepted and not
\* yet sent (wb_esc_uart.sv, transmitter and write register).
THEOREM HostBytesHeardInOrder == Spec => []HostBytesHeard
<1>1. LineInv => HostBytesHeard
  <2> SUFFICES ASSUME LineInv, EscHears PROVE owed # <<>> /\ esc_byte = Head(owed)
    BY DEF HostBytesHeard
  <2> USE DEF LineInv
  <2>1. esc_state = "hear" /\ esc_bit = BITS + 1
    BY DEF EscHears, EscMiddle
  <2>2. Unheard
    BY <2>1 DEF HearInv, Unheard
  <2>3. owed \in Seq(Byte) /\ Len(owed) >= 1
    BY <2>2 DEF OwedInv, Types, OtherTypes
  <2>4. owed # <<>> /\ Head(owed) = owed[1] /\ owed[1] \in Byte
    BY <2>3
  <2>5. \A j \in 1 .. BITS : esc_byte[j] = owed[1][j]
    BY <2>1, Numbers DEF BytesInv
  <2>6. esc_byte = owed[1]
    <3>1. PICK b \in Byte, c \in Byte : b = esc_byte /\ c = owed[1]
      BY <2>4 DEF Types, OtherTypes
    <3>2. \A j \in 1 .. BITS : b[j] = c[j]
      BY <2>5, <3>1
    <3>3. b = c
      BY <3>2, SameByte
    <3> QED
      BY <3>1, <3>3
  <2> QED
    BY <2>4, <2>6
<1> QED
  BY <1>1, PortInit, LineNext, PTL DEF Spec

\* Where a packet that was cut by the silence after a byte has left before the next byte of
\* the line is there, every byte the port hands to the packetizer is the oldest the ESC has
\* sent and that was not handed over yet, in answers of any length (wb_esc_uart.sv, receiver;
\* fcsp_stream_packetizer.sv).
THEOREM RepliesDeliveredInOrder ==
  ASSUME WireIsFast
  PROVE  Spec => []RepliesDelivered
<1>1. PortInv => RepliesDelivered
  <2> SUFFICES ASSUME PortInv, m_esc_tvalid
               PROVE  replies # <<>> /\ m_esc_tdata = Head(replies)
    BY DEF RepliesDelivered
  <2>1. HasByte /\ replies # <<>>
    BY HasLevel DEF PortInv, LineInv, RxInv
  <2>2. Head(replies) = replies[1]
    BY <2>1 DEF PortInv, LineInv, Types, OtherTypes
  <2> QED
    BY <2>1, <2>2 DEF HasByte
<1> QED
  BY <1>1, PaceInit, PortNext, PTL DEF Spec

\* The port has left the line when the ESC starts to answer (wb_esc_uart.sv, guard bit).
THEOREM OneTalkerOnTheLine == Spec => []OneTalker
<1>1. LineInv => OneTalker
  BY DEF LineInv, WaitInv, OneTalker
<1> QED
  BY PortInit, LineNext, <1>1, PTL DEF Spec

================================================================================

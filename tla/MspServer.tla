-------------------------------- MODULE MspServer --------------------------------
(***************************************************************************)
(* The MSP server of the firmware (common/msp.cpp): requests in three       *)
(* framings (v1, v2, v2 inside v1), byte by byte, their replies, and the    *)
(* hand-over to the 4-way server while passthrough is on.                   *)
(*                                                                         *)
(* The parser is kept as the bytes of the frame so far, from which its      *)
(* state, size, command and checksums follow.  Left out: the LED, the trace *)
(* on the debug UART and the counters.                                      *)
(***************************************************************************)
EXTENDS FourWay

CONSTANTS
  RxBuf,                \* sizeof(rx_buf)
  PassthroughIdleExit   \* PassthroughIdleExitUs in ticks

ASSUME MspAssumption == RxBuf \in Nat \ {0} /\ PassthroughIdleExit \in Nat \ {0}

VARIABLES
  rx,                   \* the frame so far
  g_debug_level,
  msp_override_values,  \* the newest SET_MOTOR, as the main loop takes it
  had_activity,         \* of esc_4way_task, while it takes bytes
  idle                  \* ticks since passthrough_last_4way_activity_us32, saturating
mspVars == <<rx, g_debug_level, msp_override_values>>

--------------------------------------------------------------------------------
\* Frames: '$', 'M' or 'X', '<', then size, command, payload, checksum (v1) or flags,
\* command, size, payload, checksum (v2), command and size of two bytes, the low one first.

Preamble == [Start |-> 36, V1 |-> 77, V2 |-> 88]
Direction == [ToFC |-> 60, FromFC |-> 62]

Command == [ApiVersion |-> 1, FcVariant |-> 2, FcVersion |-> 3, BoardInfo |-> 4,
            BuildInfo |-> 5, Name |-> 10, FeatureConfig |-> 36, Ident |-> 100,
            Status |-> 101, Motor |-> 104, Rc |-> 105, Analog |-> 110,
            BatteryState |-> 130, Uid |-> 160, SetMotor |-> 214, SetPassthrough |-> 245,
            EepromWrite |-> 250, SetDebugLevel |-> 253, V2InV1 |-> 255]

Word(bytes, k) == bytes[k] + 256 * bytes[k + 1]

ParseState(r) ==
  IF Len(r) < 3 THEN <<"WaitDollar", "WaitMOrX", "WaitDirection">>[Len(r) + 1]
  ELSE IF r[2] = Preamble.V1
  THEN CASE Len(r) = 3 -> "WaitSizeV1"
         [] Len(r) = 4 -> "WaitCmdV1"
         [] Len(r) > 4 /\ Len(r) < 5 + r[4] -> "WaitPayloadV1"
         [] OTHER      -> "WaitCrcV1"
  ELSE CASE Len(r) < 8 -> <<"WaitFlagV2", "WaitCmdL_V2", "WaitCmdH_V2", "WaitSizeL_V2",
                            "WaitSizeH_V2">>[Len(r) - 2]
         [] Len(r) >= 8 /\ Len(r) < 8 + Word(r, 7) -> "WaitPayloadV2"
         [] OTHER      -> "WaitCrcV2"

AtCrc == ParseState(rx) \in {"WaitCrcV1", "WaitCrcV2"}

\* The parser after a byte that does not end a frame.
AfterByte(r, byte) ==
  LET wanted ==
        CASE ParseState(r) = "WaitDollar"    -> {Preamble.Start}
          [] ParseState(r) = "WaitMOrX"      -> {Preamble.V1, Preamble.V2}
          [] ParseState(r) = "WaitDirection" -> {Direction.ToFC}
          [] ParseState(r) = "WaitSizeH_V2"  -> {b \in Byte : r[7] + 256 * b <= RxBuf}
          [] OTHER -> Byte
  IN IF byte \in wanted THEN Append(r, byte) ELSE <<>>

\* A frame without its checksum ends with this byte in its place: is it right?  The check
\* left out would take every frame.
CrcRight_Unchecked(r, byte) == byte \in Byte

CrcRight(r, byte) ==
  byte = IF r[2] = Preamble.V1 THEN crc_v1(SubSeq(r, 4, Len(r))) ELSE crc_v2(SubSeq(r, 4, Len(r)))

--------------------------------------------------------------------------------
\* Requests and replies.

\* A frame with a right checksum as a request.  What a v1 frame with command 255 carries
\* is one too if its size and its own checksum are right; otherwise it is acknowledged,
\* to the inner command if the size is right, and nothing else is done.
Plain(how, c, flags, body) == [how |-> how, cmd |-> c, flags |-> flags, payload |-> body,
                               acked |-> FALSE]
Request(r) ==
  LET body  == SubSeq(r, 6, Len(r))
      inner == SubSeq(body, 1, Len(body) - 1)
  IN
  CASE r[2] = Preamble.V2 -> Plain("v2", Word(r, 5), r[4], SubSeq(r, 9, Len(r)))
    [] r[2] = Preamble.V1 /\ (r[5] # Command.V2InV1 \/ r[4] < 6) -> Plain("v1", r[5], 0, body)
    [] r[2] = Preamble.V1 /\ r[5] = Command.V2InV1 /\ r[4] >= 6 ->
         IF 6 + Word(body, 4) # Len(body) \/ Len(body) > RxBuf
         THEN [Plain("v1", r[5], 0, body) EXCEPT !.acked = TRUE]
         ELSE IF Last(body) = crc_v2(inner)
         THEN Plain("v2_in_v1", Word(body, 2), body[1], SubSeq(inner, 6, Len(inner)))
         ELSE [Plain("v2", Word(body, 2), body[1], <<>>) EXCEPT !.acked = TRUE]

msp_send_reply_v1(c, data) ==
  LET body == <<Len(data) % 256, c % 256>> \o data
  IN <<Preamble.Start, Preamble.V1, Direction.FromFC>> \o body \o <<crc_v1(body)>>

V2Body(c, data, flags) ==
  LET sent == SubSeq(data, 1, IF Len(data) > RxBuf THEN RxBuf ELSE Len(data))
      body == <<flags, c % 256, c \div 256, Len(sent) % 256, Len(sent) \div 256>> \o sent
  IN body \o <<crc_v2(body)>>

msp_send_reply_v2(c, data, flags) ==
  <<Preamble.Start, Preamble.V2, Direction.FromFC>> \o V2Body(c, data, flags)

msp_send_reply_v2_in_v1(c, data, flags) == msp_send_reply_v1(Command.V2InV1, V2Body(c, data, flags))

msp_send_reply_auto(q, data) ==
  CASE q.how = "v1"       -> msp_send_reply_v1(q.cmd, data)
    [] q.how = "v2"       -> msp_send_reply_v2(q.cmd, data, q.flags)
    [] q.how = "v2_in_v1" -> msp_send_reply_v2_in_v1(q.cmd, data, q.flags)

\* An acknowledge of a v2 request inside v1 goes out as v2.
msp_send_ack(q) ==
  IF q.how = "v1" THEN msp_send_reply_v1(q.cmd, <<>>) ELSE msp_send_reply_v2(q.cmd, <<>>, q.flags)

Zeros(n) == [k \in 1 .. n |-> 0]

\* handle_query_command: the fixed replies, of which length and kind matter.
QueryData ==
  [c \in {Command[k] : k \in DOMAIN Command} \ {Command.SetMotor, Command.SetPassthrough,
            Command.EepromWrite, Command.SetDebugLevel, Command.V2InV1} |->
     CASE c = Command.ApiVersion    -> <<0, 1, 48>>
       [] c = Command.FcVariant     -> <<66, 84, 70, 76>>
       [] c = Command.FcVersion     -> <<4, 5, 0>>
       [] c = Command.BoardInfo     -> <<80, 50, 70, 67, 0, 0>>
       [] c = Command.BuildInfo     -> Zeros(19)
       [] c = Command.FeatureConfig -> Zeros(4)
       [] c = Command.Ident         -> Zeros(7)
       [] c = Command.Name          -> <<80, 105, 99, 111, 70, 67>>
       [] c = Command.Status        -> [Zeros(22) EXCEPT ![1] = 125, ![5] = 1, ![18] = 4]
       [] c = Command.Motor         -> [k \in 1 .. 8 |-> IF k % 2 = 1 THEN 232 ELSE 3]
       [] c = Command.Rc            -> [k \in 1 .. 36 |-> IF k % 2 = 1 THEN 220 ELSE 5]
       [] c = Command.Analog        -> <<168>> \o Zeros(6)
       [] c = Command.BatteryState  -> Zeros(9)
       [] c = Command.Uid           -> <<80, 73, 67, 79>> \o Zeros(8)]

NewDebugLevel(body) == IF body # <<>> /\ Head(body) <= 2 THEN Head(body) ELSE g_debug_level

\* The motor a SET_PASSTHROUGH asks for, NoMotor for none.  One byte may be 255, a multiplexer
\* setting with select and MSP mode off, or the motor itself; it is tried in this order.
PassthroughMotor(body) ==
  LET v == body[1]
      channel == IF v % 2 = 0 /\ (v \div 8) % 2 = 0
                 THEN normalize_motor_index((v \div 2) % 4) ELSE NoMotor
  IN
  CASE Len(body) = 0 -> 0
    [] Len(body) = 1 -> IF v = 255 THEN 0
                        ELSE IF channel # NoMotor THEN channel ELSE normalize_motor_index(v)
    [] Len(body) > 1 -> IF v = 0 THEN normalize_motor_index(body[2]) ELSE NoMotor

\* The values of a SET_MOTOR, zero for motors it does not name.
MotorValues(body) ==
  [m \in Motor |-> IF 2 * m + 2 <= Len(body) THEN Word(body, 2 * m + 1) ELSE 0]

--------------------------------------------------------------------------------
\* msp_process_command

\* The beginning cannot fail: the motor it is called with is one there is, and what was
\* active is ended before.
set_passthrough(q) ==
  LET m == PassthroughMotor(q.payload)
      ended == IF pt.active THEN Ended(pt, 0) ELSE pt
  IN
  /\ pt' = IF m # NoMotor THEN Begun(ended, m) ELSE ended
  /\ IF m # NoMotor THEN esc' = IdleEsc /\ esc_rx' = <<>> /\ esc_late' = <<>>
                    ELSE UNCHANGED <<esc, esc_rx, esc_late>>
  /\ ServerReset
  /\ answer' = msp_send_reply_auto(q, <<IF m # NoMotor THEN HAL_MAX_MOTORS ELSE 0>>)
  /\ UNCHANGED <<g_debug_level, msp_override_values, faults>>

set_debug_level(q) ==
  /\ g_debug_level' = NewDebugLevel(q.payload)
  /\ answer' = msp_send_reply_auto(q, <<NewDebugLevel(q.payload)>>)
  /\ UNCHANGED <<pt, g_rx, g_device_info, g_current_interface_mode, escVars,
                 msp_override_values>>

set_motor(q) ==
  /\ msp_override_values' = IF Len(q.payload) > 1 THEN MotorValues(q.payload)
                                                  ELSE msp_override_values
  /\ answer' = msp_send_ack(q)
  /\ UNCHANGED <<pt, g_rx, g_device_info, g_current_interface_mode, escVars, g_debug_level>>

\* A query, EEPROM_WRITE, or a command it does not know.
reply_only(q) ==
  /\ answer' = IF ~q.acked /\ q.cmd \in DOMAIN QueryData
               THEN msp_send_reply_auto(q, QueryData[q.cmd]) ELSE msp_send_ack(q)
  /\ UNCHANGED <<pt, g_rx, g_device_info, g_current_interface_mode, escVars, g_debug_level,
                 msp_override_values>>

msp_process_command(q) ==
  \/ ~q.acked /\ q.cmd = Command.SetPassthrough /\ set_passthrough(q)
  \/ ~q.acked /\ q.cmd = Command.SetDebugLevel /\ set_debug_level(q)
  \/ ~q.acked /\ q.cmd = Command.SetMotor /\ set_motor(q)
  \/ /\ q.acked \/ q.cmd \notin {Command.SetPassthrough, Command.SetDebugLevel, Command.SetMotor}
     /\ reply_only(q)

--------------------------------------------------------------------------------
\* msp_task, one call: a byte of MSP, or whatever there is for the 4-way server.

msp_byte(byte) ==
  /\ IF AtCrc /\ CrcRight(rx, byte)
     THEN msp_process_command(Request(rx))
     ELSE UNCHANGED <<pt, g_rx, g_device_info, g_current_interface_mode, escVars,
                      g_debug_level, msp_override_values, answer>>
  /\ rx' = IF AtCrc THEN <<>> ELSE AfterByte(rx, byte)
  /\ UNCHANGED <<job, linked, had_activity, idle>>

\* "Count activity only for actual 4-way framing."  Counted would be every byte.
CountsAsActivity_Any(byte) == byte \in Byte

CountsAsActivity(byte) == g_rx # <<>> \/ byte = kCmd.LocalEscape

\* A byte in the loop of esc_4way_task.
four_way_byte(byte) ==
  /\ process_host_byte(byte)
  /\ had_activity' = (had_activity \/ CountsAsActivity(byte))
  /\ UNCHANGED <<mspVars, linked, idle>>

\* esc_4way_task has found no more bytes.
four_way_done ==
  /\ had_activity' = FALSE
  /\ IF had_activity
     THEN idle' = 0 /\ UNCHANGED <<pt, rx, serverVars, answer>>
     ELSE /\ idle >= PassthroughIdleExit
          /\ pt' = Ended(pt, 0)
          /\ ServerReset
          /\ rx' = <<>>
          /\ UNCHANGED <<job, idle, answer>>
  /\ UNCHANGED <<g_debug_level, msp_override_values, escVars, linked>>
================================================================================

--------------------------------- MODULE FourWay ---------------------------------
(***************************************************************************)
(* The BLHeli 4-way server of the firmware (common/esc_4way.cpp): frames of *)
(* the host, byte by byte, and the talk with the bootloader of an ESC that  *)
(* a frame leads to.                                                       *)
(*                                                                         *)
(* A frame is answered at once or becomes the job of the server: a list of  *)
(* exchanges with the ESC, one step each, of which the first that fails     *)
(* ends the job.  The CRCs of the frames are those of the code.  Of what an *)
(* ESC sends, the model keeps the acknowledge, or Data for a payload with   *)
(* its CRC and acknowledge.  g_requested_interface_mode is left out: the    *)
(* mode found by bl_connect is what InitFlash ends with, whatever it says.  *)
(***************************************************************************)
EXTENDS EscPassthrough, HostCrc

CONSTANT
  Signature             \* [Motor -> 0 .. 65535], what the ESC of a motor says it is

ASSUME FourWayAssumption == Signature \in [Motor -> 1 .. 65535]

VARIABLES
  g_rx,                 \* FrameRx: the bytes of the frame since its escape
  job,                  \* handle_frame under way
  g_device_info,        \* signature of the ESC in hand, 0 for none
  g_current_interface_mode,
  esc,                  \* the ESC: its buffer, and whether it did what the job asked for
  esc_rx,               \* its bytes the serial port holds
  esc_late, faults,     \* an answer still to come; how often something may go wrong
  linked,               \* history: the motor whose ESC gave g_device_info
  answer                \* the reply on its way to the host
serverVars == <<g_rx, job, g_device_info, g_current_interface_mode>>
escVars    == <<esc, esc_rx, esc_late, faults>>
fourWayVars == <<serverVars, escVars, linked>>

--------------------------------------------------------------------------------
\* Frames: escape, command, address high and low, length, payload, CRC high and low.

kCmd == [LocalEscape |-> 47, RemoteEscape |-> 46,
         InterfaceTestAlive |-> 48, ProtocolGetVersion |-> 49, InterfaceGetName |-> 50,
         InterfaceGetVersion |-> 51, InterfaceExit |-> 52, DeviceReset |-> 53,
         DeviceInitFlash |-> 55, DeviceEraseAll |-> 56, DevicePageErase |-> 57,
         DeviceRead |-> 58, DeviceWrite |-> 59, DeviceReadEEprom |-> 61,
         DeviceWriteEEprom |-> 62, InterfaceSetMode |-> 63, DeviceVerify |-> 64]

kAck == [Ok |-> 0, InvalidCmd |-> 2, InvalidCrc |-> 3, VerifyError |-> 4,
         InvalidChannel |-> 8, InvalidParam |-> 9, GeneralError |-> 15]

kInterfaceMode == [Silabs |-> 1, Atmel |-> 2, SK |-> 3, Arm |-> 4]

kBootResult == [Success |-> 48, VerifyError |-> 192, CommandError |-> 193, None |-> 255]
Data == 256

effective_frame_length(len_field) == IF len_field = 0 THEN 256 ELSE len_field

cmd(f)      == f[2]
len(f)      == f[5]
payload(f)  == SubSeq(f, 6, 5 + effective_frame_length(len(f)))

RxState(r) ==
  IF Len(r) < 5
  THEN <<"WaitEscape", "WaitCmd", "WaitAddrH", "WaitAddrL", "WaitLen">>[Len(r) + 1]
  ELSE LET missing == 5 + effective_frame_length(len(r)) - Len(r)
       IN CASE missing > 0 -> "WaitPayload"
            [] missing = 0 -> "WaitCrcHi"
            [] OTHER       -> "WaitCrcLo"

\* Does this last byte, with the one before it, make the CRC of the frame?
valid_crc(r, byte) == crc_xmodem(Front(r)) = 256 * Last(r) + byte

\* The reply to frame f: its command and address, the data and the acknowledge.
host_write_response(f, data, ack) ==
  LET body == <<kCmd.RemoteEscape, cmd(f), f[3], f[4], Len(data) % 256>> \o data \o <<ack>>
      crc  == crc_xmodem(body)
  IN body \o <<crc \div 256, crc % 256>>

--------------------------------------------------------------------------------
\* Kinds of ESC, told from the low word of the signature.

is_atmel_device(sig)  == sig \in {37639, 37642, 37647, 37899}      \* 0x9307 0x930A 0x930F 0x940B
is_silabs_device(sig) == sig \in 59393 .. 63743                    \* 0xE801 .. 0xF8FF
is_arm_device(sig)    == sig \div 256 \in 1 .. 143 /\ sig % 256 = 6

detect_interface_mode(sig) ==
  CASE is_silabs_device(sig) -> kInterfaceMode.Silabs
    [] is_atmel_device(sig)  -> kInterfaceMode.Atmel
    [] is_arm_device(sig)    -> kInterfaceMode.Arm
    [] OTHER                 -> 0

\* The server asks for the low byte of the signature when it wants to know of an ESC.
Connected == g_device_info % 256 # 0

--------------------------------------------------------------------------------
\* handle_frame: what a frame is refused for, what it asks of the ESC, what it is told.

target_motor(f) == IF len(f) > 0 THEN payload(f)[1] ELSE 0

\* Commands of the bootloader: they need an ESC in hand, some of them a parameter.
NeedsParameter == {kCmd.DevicePageErase, kCmd.DeviceRead, kCmd.DeviceReadEEprom}
NeedsEsc == NeedsParameter \cup {kCmd.DeviceWrite, kCmd.DeviceWriteEEprom, kCmd.DeviceVerify}

\* Modes in which a command of the bootloader exists.
ModesOf(c) ==
  CASE c \in {kCmd.DeviceReadEEprom, kCmd.DeviceWriteEEprom} -> {kInterfaceMode.Atmel}
    [] c = kCmd.DeviceVerify    -> {kInterfaceMode.Arm}
    [] c = kCmd.DevicePageErase -> {kInterfaceMode.Arm, kInterfaceMode.Silabs, kInterfaceMode.Atmel}
    [] OTHER                    -> {kInterfaceMode[k] : k \in DOMAIN kInterfaceMode}

\* The acknowledge of a frame with a valid CRC before any talk with the ESC.
Verdict(f) ==
  LET c == cmd(f)
      unready == ~Connected \/ (c \in NeedsParameter /\ len(f) < 1)
      noMotor == normalize_motor_index(target_motor(f)) = NoMotor
  IN
  CASE c = kCmd.InterfaceSetMode ->
         IF payload(f)[1] \in ModesOf(c) /\ len(f) >= 1 THEN kAck.Ok ELSE kAck.InvalidParam
    [] c = kCmd.DeviceInitFlash -> IF len(f) < 1 \/ noMotor THEN kAck.InvalidChannel ELSE kAck.Ok
    [] c = kCmd.DeviceReset     -> IF noMotor THEN kAck.InvalidChannel ELSE kAck.Ok
    [] c \in NeedsEsc /\ unready -> kAck.GeneralError
    [] c \in NeedsEsc /\ ~unready ->
         IF g_current_interface_mode \in ModesOf(c) THEN kAck.Ok ELSE kAck.InvalidCmd
    [] c \in kCmd.InterfaceTestAlive .. kCmd.InterfaceExit -> kAck.Ok
    [] OTHER -> kAck.InvalidCmd

\* The address is not sent when it is 0xFFFF.
bl_send_cmd_set_address(f) == IF f[3] = 255 /\ f[4] = 255 THEN <<>> ELSE <<"set_address">>
bl_send_cmd_set_buffer == <<"set_buffer", "data">>

\* The exchanges of an accepted frame, in their order.
Exchanges(f) ==
  LET c == cmd(f) IN
  CASE c = kCmd.InterfaceTestAlive -> IF Connected THEN <<"keep_alive">> ELSE <<>>
    [] c = kCmd.DeviceInitFlash    -> <<"select", "connect", "connect", "connect">>
    [] c = kCmd.DeviceReset        -> <<"select", "run">> \o IF f[4] = 1 THEN <<"restart">> ELSE <<>>
    [] c = kCmd.DevicePageErase    -> <<"set_address", "erase">>
    [] c \in {kCmd.DeviceRead, kCmd.DeviceReadEEprom} -> bl_send_cmd_set_address(f) \o <<"read">>
    [] c \in {kCmd.DeviceWrite, kCmd.DeviceWriteEEprom} ->
         bl_send_cmd_set_address(f) \o bl_send_cmd_set_buffer \o <<"program">>
    [] c = kCmd.DeviceVerify -> bl_send_cmd_set_address(f) \o bl_send_cmd_set_buffer \o <<"verify">>
    [] OTHER -> <<>>

\* Data of the reply when the ESC has no part in it.
OwnData(f) ==
  CASE cmd(f) = kCmd.ProtocolGetVersion  -> <<108>>
    [] cmd(f) = kCmd.InterfaceGetName    -> <<80, 105, 99, 111, 52, 119, 97, 121>>
    [] cmd(f) = kCmd.InterfaceGetVersion -> <<200, 6>>
    [] cmd(f) = kCmd.DeviceInitFlash     -> <<0, 0, 0, 0>>
    [] OTHER -> <<0>>

NoJob == [frame |-> <<>>, steps |-> <<>>, data |-> <<>>, ack |-> 0]

\* esc_4way_reset
ServerReset ==
  /\ g_rx' = <<>>
  /\ g_device_info' = 0
  /\ g_current_interface_mode' = kInterfaceMode.Atmel

\* InitFlash forgets the ESC in hand, whatever comes of it; a frame that kept it would leave
\* the ESC of the motor before.
DeviceKept_Always(c) == c \in Byte

DeviceKept(c) == c # kCmd.DeviceInitFlash

\* The last byte of a frame.  Exit is answered, then done with at once.
handle_frame(byte) ==
  LET f == Append(g_rx, byte)
      ack == IF valid_crc(g_rx, byte) THEN Verdict(f) ELSE kAck.InvalidCrc
      Is(c) == ack # kAck.InvalidCrc /\ cmd(f) = c
  IN
  IF Is(kCmd.InterfaceExit)
  THEN /\ answer' = host_write_response(f, <<0>>, ack)
       /\ pt' = IF pt.active THEN Ended(pt, 0) ELSE pt
       /\ ServerReset
       /\ UNCHANGED <<job, escVars>>
  ELSE /\ g_rx' = <<>>
       /\ g_device_info' = IF ack = kAck.InvalidCrc \/ DeviceKept(cmd(f)) THEN g_device_info ELSE 0
       /\ IF Is(kCmd.InterfaceSetMode) /\ ack = kAck.Ok
          THEN g_current_interface_mode' = payload(f)[1]
          ELSE UNCHANGED g_current_interface_mode
       /\ job' = [frame |-> f, data |-> IF ack = kAck.InvalidCrc THEN <<0>> ELSE OwnData(f),
                  steps |-> IF ack = kAck.Ok THEN Exchanges(f) ELSE <<>>, ack |-> ack]
       /\ UNCHANGED <<answer, pt, escVars>>

\* process_host_byte
process_host_byte(byte) ==
  IF RxState(g_rx) = "WaitCrcLo" THEN handle_frame(byte)
  ELSE /\ g_rx' = IF g_rx = <<>> /\ byte # kCmd.LocalEscape THEN <<>> ELSE Append(g_rx, byte)
       /\ UNCHANGED <<answer, pt, job, g_device_info, g_current_interface_mode, escVars>>

--------------------------------------------------------------------------------
\* The ESC (its bootloader is not part of the firmware).  It takes a buffer after the
\* command for it, programs or verifies what it took, and may refuse anything.

IdleEsc == [buffer |-> "none", did |-> FALSE]

\* What an ESC that hears x may do: its next state, and what it says.
Heard(x) ==
  LET Says(next, b) == [esc |-> next, says |-> <<b>>]
      refuses == Says([esc EXCEPT !.buffer = "none"], kBootResult.CommandError)
      done    == [esc EXCEPT !.buffer = "none", !.did = TRUE]
  IN
  CASE x = "set_address" -> {Says(esc, kBootResult.Success), refuses}
    [] x = "set_buffer"  -> {[esc |-> [esc EXCEPT !.buffer = "armed"], says |-> <<>>]}
    [] x = "data"    -> {refuses} \cup (IF esc.buffer # "armed" THEN {}
                          ELSE {Says([esc EXCEPT !.buffer = "full"], kBootResult.Success)})
    [] x = "program" -> {refuses} \cup (IF esc.buffer # "full" THEN {}
                          ELSE {Says(done, kBootResult.Success)})
    [] x = "verify"  -> {refuses} \cup (IF esc.buffer # "full" THEN {}
                          ELSE {Says(done, kBootResult.Success),
                                Says(esc, kBootResult.VerifyError)})
    [] x = "erase"      -> {refuses, Says(done, kBootResult.Success)}
    [] x = "read"       -> {refuses, Says(esc, Data)}
    [] x = "keep_alive" -> {Says(esc, kBootResult.CommandError)}

\* One exchange as the bridge finds it.  The ESC hears it and answers, in time or late;
\* or it does not hear it, still busy with what it was asked before: the answer to that
\* comes now, later, or is lost under what the bridge sends.
Talk(x) ==
  {[esc |-> h.esc, rx |-> esc_rx \o h.says, late |-> <<>>, left |-> faults] :
     h \in {y \in Heard(x) : esc_late = <<>>}}
  \cup
  {[esc |-> h.esc, rx |-> esc_rx, late |-> h.says, left |-> faults - 1] :
     h \in {y \in Heard(x) : esc_late = <<>> /\ faults > 0 /\ Len(y.says) = 1 /\ x # "read"}}
  \cup
  {[esc |-> esc, rx |-> esc_rx \o d[1], late |-> d[2], left |-> faults] :
     d \in {<<esc_late, <<>>>>, <<<<>>, esc_late>>, <<<<>>, <<>>>>}}

--------------------------------------------------------------------------------
\* handle_frame: one exchange after the other.

Working(x) == job.steps # <<>> /\ Head(job.steps) = x

Fail(ack) == job' = [job EXCEPT !.steps = <<>>, !.ack = ack,
                                !.data = IF cmd(job.frame) = kCmd.DeviceInitFlash
                                         THEN <<0, 0, 0, 0>> ELSE <<0>>]
Continue(data) == job' = [job EXCEPT !.steps = Tail(@), !.data = data]

\* ensure_selected_motor: another motor means another passthrough, whose serial port
\* starts with nothing received.
ensure_selected_motor ==
  /\ Working("select")
  /\ LET m == normalize_motor_index(target_motor(job.frame)) IN
     IF pt.active /\ pt.motor = m
     THEN UNCHANGED <<pt, escVars>>
     ELSE /\ pt' = Begun(IF pt.active THEN Ended(pt, 0) ELSE pt, m)
          /\ esc' = IdleEsc /\ esc_rx' = <<>> /\ esc_late' = <<>>
          /\ UNCHANGED faults
  /\ Continue(job.data)
  /\ UNCHANGED <<g_rx, g_device_info, g_current_interface_mode, linked, answer>>

\* bl_connect, one attempt: what was received is thrown away first.  Its result is the
\* answer of InitFlash.
bl_connect ==
  /\ Working("connect")
  /\ esc_rx' = <<>>
  /\ LET sig  == Signature[pt.motor]
         mode == detect_interface_mode(sig)
     IN
     \/ /\ esc_late = <<>> /\ mode # 0
        /\ g_device_info' = sig /\ g_current_interface_mode' = mode
        /\ linked' = pt.motor
        /\ esc' = IdleEsc
        /\ job' = [job EXCEPT !.steps = <<>>, !.data = <<sig % 256, sig \div 256, 0, mode>>]
        /\ UNCHANGED esc_late
     \/ /\ IF Len(job.steps) = 1 THEN Fail(kAck.GeneralError) ELSE Continue(job.data)
        /\ esc_late' \in {<<>>, esc_late}
        /\ UNCHANGED <<esc, g_device_info, g_current_interface_mode, linked>>
  /\ UNCHANGED <<g_rx, pt, faults, answer>>

\* What the bridge wants to hear.  set_buffer wants silence for two milliseconds.  A timeout
\* might be taken for an answer.
Expected_OrSilence(x) ==
  CASE x = "read" -> {Data} [] x = "keep_alive" -> {kBootResult.CommandError}
    [] OTHER      -> {kBootResult.Success, kBootResult.None}

Expected(x) ==
  CASE x = "set_buffer" -> {kBootResult.None}
    [] x = "read"       -> {Data}
    [] x = "keep_alive" -> {kBootResult.CommandError}
    [] OTHER            -> {kBootResult.Success}

\* An exchange that waits for an answer.
ask_esc(x) ==
  /\ Working(x)
  /\ \E t \in Talk(x) :
       LET got == IF t.rx = <<>> THEN kBootResult.None ELSE Head(t.rx)
       IN
       /\ esc' = t.esc /\ esc_late' = t.late /\ faults' = t.left
       /\ esc_rx' = IF x = "read"
                    THEN IF got # Data /\ Contains(t.rx, Data) THEN <<kBootResult.Success>> ELSE <<>>
                    ELSE IF t.rx = <<>> THEN <<>> ELSE Tail(t.rx)
       /\ IF got \in Expected(x)
          THEN Continue(IF x = "read"
                        THEN [k \in 1 .. effective_frame_length(payload(job.frame)[1]) |-> 0]
                        ELSE job.data)
          ELSE Fail(IF x = "verify" /\ got = kBootResult.VerifyError
                    THEN kAck.VerifyError ELSE kAck.GeneralError)
       /\ g_device_info' = IF x = "keep_alive" /\ got \notin Expected(x) THEN 0 ELSE g_device_info
  /\ UNCHANGED <<g_rx, g_current_interface_mode, pt, linked, answer>>

\* DeviceReset: the ESC is told to run; nothing is waited for.
run_esc ==
  /\ Working("run")
  /\ g_device_info' = 0
  /\ esc' = IdleEsc
  /\ Continue(job.data)
  /\ UNCHANGED <<g_rx, g_current_interface_mode, pt, esc_rx, esc_late, faults, linked, answer>>

\* DeviceReset with address 1: passthrough ends and begins again, for the motor number
\* as the host sent it, which begin takes only below HAL_MAX_MOTORS.
restart_passthrough ==
  /\ Working("restart")
  /\ LET m == target_motor(job.frame) IN
     /\ pt' = IF m < HAL_MAX_MOTORS THEN Begun(Ended(pt, 0), m) ELSE Ended(pt, 0)
     /\ esc_rx' = <<>> /\ esc_late' = <<>>
  /\ Continue(job.data)
  /\ UNCHANGED <<g_rx, g_device_info, g_current_interface_mode, esc, faults, linked, answer>>

\* The end of handle_frame.
respond ==
  /\ job # NoJob /\ job.steps = <<>>
  /\ answer' = host_write_response(job.frame, job.data, job.ack)
  /\ job' = NoJob
  /\ esc' = [esc EXCEPT !.did = FALSE]
  /\ UNCHANGED <<g_rx, g_device_info, g_current_interface_mode, pt, esc_rx, esc_late, faults,
                 linked>>

Exchange == {"set_address", "set_buffer", "data", "program", "verify", "erase", "read",
             "keep_alive"}

handle_frame_step ==
  \/ ensure_selected_motor \/ bl_connect \/ run_esc \/ restart_passthrough \/ respond
  \/ \E x \in Exchange : ask_esc(x)

\* A late answer comes between two exchanges.
LateAnswer ==
  /\ esc_late # <<>>
  /\ esc_rx' = esc_rx \o esc_late /\ esc_late' = <<>>
  /\ UNCHANGED <<serverVars, esc, faults, linked, pt, answer>>
================================================================================

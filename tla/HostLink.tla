-------------------------------- MODULE HostLink --------------------------------
(***************************************************************************)
(* The link between a host and the firmware: the MSP server, the 4-way      *)
(* server it hands the USB bytes to while passthrough is on, the ESC at the *)
(* other end, and a host that sends requests one after the other.          *)
(*                                                                         *)
(* The host waits for the answer to what it sent, for longer than the       *)
(* firmware needs, and then goes on or tries again.  It may also be stopped *)
(* in the middle of a frame and started anew, with the firmware left where  *)
(* it was.  After MaxItems requests it only repeats Query.                  *)
(***************************************************************************)
EXTENDS MspServer

CONSTANTS
  MspItems, FourWayItems,   \* frames the host may send while it takes passthrough for off, on
  Openers, Closers,         \* those that turn it on and off
  Query,                    \* the request it ends with
  Breakable,                \* the frames it may be stopped in
  MaxItems,                 \* requests before that
  MaxFaults,                \* times it is stopped in a frame or an ESC answers late
  AfterStop,                \* requests left when it was stopped
  UsbBuf                    \* bytes on the way to the firmware

VARIABLES
  usb,                      \* bytes the firmware has not taken
  item, pos,                \* the host's frame under way and how much of it is sent
  belief,                   \* whether the host takes passthrough for on
  left,                     \* requests left
  done,                     \* Query has been answered
  since_begin,              \* history: ticks since passthrough began, saturating
  caught_up                 \* history: the ESC owed no answer, and none lay unread, when the
                            \* frame in hand was taken
historyVars == <<since_begin, caught_up>>
hostVars == <<item, pos, belief, left, done>>
taskVars == <<rx, g_debug_level, msp_override_values, had_activity, idle>>
vars == <<usb, hostVars, historyVars, taskVars, pt, answer, fourWayVars>>

--------------------------------------------------------------------------------
\* The host.

Waiting == item # <<>> /\ pos = Len(item)

\* The firmware has nothing to do.
Quiet ==
  /\ usb = <<>> /\ answer = <<>> /\ job = NoJob /\ ~had_activity
  /\ pt.active => idle < PassthroughIdleExit

Choose ==
  /\ item = <<>> /\ left > 0
  /\ item' \in IF belief THEN FourWayItems ELSE MspItems
  /\ pos' = 0 /\ left' = left - 1
  /\ UNCHANGED <<usb, belief, done, answer>>

Repeat ==
  /\ item = <<>> /\ left = 0 /\ ~done
  /\ item' = Query /\ pos' = 0 /\ belief' = FALSE
  /\ UNCHANGED <<usb, left, done, answer>>

SendByte ==
  /\ item # <<>> /\ pos < Len(item) /\ Len(usb) < UsbBuf
  /\ usb' = Append(usb, item[pos + 1]) /\ pos' = pos + 1
  /\ UNCHANGED <<item, belief, left, done, answer>>

\* A reply in the protocol the host waits for; any other is passed over.
Fits == Waiting /\ (answer[1] = kCmd.RemoteEscape) = belief

TakeAnswer ==
  /\ answer # <<>> /\ answer' = <<>>
  /\ IF Fits
     THEN /\ item' = <<>> /\ pos' = 0
          /\ belief' = (item \in Openers \/ (belief /\ item \notin Closers))
          /\ done' = (left = 0 /\ item = Query)
     ELSE UNCHANGED <<item, pos, belief, done>>
  /\ UNCHANGED <<usb, left>>

Timeout ==
  /\ Waiting /\ Quiet
  /\ item' = <<>> /\ pos' = 0
  /\ belief' \in {belief, FALSE}
  /\ UNCHANGED <<usb, left, done, answer>>

\* The host is stopped in the middle of a frame; its successor starts from the beginning.
Stopped ==
  /\ item \in Breakable /\ pos \in 1 .. Len(item) - 1 /\ faults > 0
  /\ item' = <<>> /\ pos' = 0 /\ belief' = FALSE /\ faults' = faults - 1
  /\ left' = IF left > AfterStop THEN AfterStop ELSE left
  /\ UNCHANGED <<usb, done, answer>>

HostStep == Choose \/ Repeat \/ SendByte \/ TakeAnswer \/ Timeout

Host ==
  /\ \/ HostStep /\ UNCHANGED faults
     \/ Stopped
  /\ UNCHANGED <<historyVars, taskVars, pt, serverVars, esc, esc_rx, esc_late, linked>>

--------------------------------------------------------------------------------
\* The firmware, which goes on once its reply is out.

FourWayHasIt == pt.active \/ had_activity

TakeByte ==
  /\ usb # <<>> /\ usb' = Tail(usb)
  /\ IF FourWayHasIt THEN four_way_byte(Head(usb)) ELSE msp_byte(Head(usb))

Idle ==
  /\ FourWayHasIt /\ usb = <<>> /\ four_way_done
  /\ UNCHANGED usb

Work == handle_frame_step /\ UNCHANGED <<usb, taskVars>>

Firmware ==
  /\ answer = <<>>
  /\ \/ job = NoJob /\ (TakeByte \/ Idle)
     \/ Work
  /\ since_begin' = IF ~pt'.active THEN PassthroughIdleExit
                    ELSE IF pt.active THEN since_begin ELSE 0
  /\ caught_up' = (job' # NoJob =>
                     IF job = NoJob THEN esc_rx = <<>> /\ esc_late = <<>> ELSE caught_up)
  /\ UNCHANGED hostVars

Esc == LateAnswer /\ UNCHANGED <<usb, hostVars, historyVars, taskVars>>

\* A tick; neither a frame nor what it takes of the ESC lasts as long.
Tick ==
  /\ job = NoJob /\ usb = <<>> /\ pos \in {0, Len(item)}
  /\ idle < PassthroughIdleExit
  /\ idle' = idle + 1
  /\ since_begin' = IF since_begin < PassthroughIdleExit THEN since_begin + 1 ELSE since_begin
  /\ UNCHANGED <<usb, hostVars, caught_up, rx, g_debug_level, msp_override_values,
                 had_activity, pt, answer, fourWayVars>>

--------------------------------------------------------------------------------
\* msp_init
Init ==
  /\ usb = <<>> /\ item = <<>> /\ pos = 0 /\ belief = FALSE
  /\ left = MaxItems /\ done = FALSE
  /\ since_begin = PassthroughIdleExit /\ caught_up = TRUE
  /\ rx = <<>> /\ g_debug_level = 1 /\ msp_override_values = [m \in Motor |-> 0]
  /\ had_activity = FALSE /\ idle = 0
  /\ pt = InitialState /\ answer = <<>>
  /\ g_rx = <<>> /\ job = NoJob /\ g_device_info = 0
  /\ g_current_interface_mode = kInterfaceMode.Atmel
  /\ esc = IdleEsc /\ esc_rx = <<>> /\ esc_late = <<>> /\ faults = MaxFaults
  /\ linked = NoMotor

Next == Host \/ Firmware \/ Esc \/ Tick

\* The loop of main runs, the host goes on, and time passes.
Fairness == WF_vars(Firmware) /\ WF_vars(HostStep /\ Host) /\ SF_vars(Tick)

Spec == Init /\ [][Next]_vars /\ Fairness

--------------------------------------------------------------------------------
\* Properties.

\* A frame the firmware is about to accept, but for its last byte.
Complete(byte) ==
  IF FourWayHasIt
  THEN IF g_rx # <<>> /\ RxState(g_rx) = "WaitCrcLo" /\ valid_crc(g_rx, byte)
       THEN {g_rx} ELSE {}
  ELSE IF AtCrc /\ CrcRight(rx, byte) THEN {rx} ELSE {}

Acts(f) ==
  \/ f[1] = kCmd.LocalEscape
  \/ LET q == Request(f) IN
     ~q.acked /\ q.cmd \in {Command.SetPassthrough, Command.SetMotor, Command.SetDebugLevel}

\* msp_task, process_host_byte: what changes anything is a frame the host sent whole, the one
\* it waits for an answer to.  The beginning of a frame that was broken off and the one sent
\* after it make no command together, and neither server takes what was meant for the other.
OnlyWholeFrames ==
  usb # <<>> /\ job = NoJob =>
    \A f \in Complete(Head(usb)) : Acts(f) => Waiting /\ f = Front(item)

\* esc_4way.cpp, msp.cpp, esc_passthrough.cpp: whenever the bridge asks an ESC anything, the
\* ESC is the one on the line of the passthrough motor that introduced itself since that
\* motor was selected; whatever ended passthrough or changed the motor in between.
AsksTheConnectedEsc ==
  job.steps # <<>> /\ Head(job.steps) \in Exchange => pt.active /\ linked = pt.motor

\* Write, WriteEEprom, Verify and PageErase: the host is told Ok only if the ESC has done, for
\* this frame, what it was asked for, whatever it hears late, refuses or does not hear on the
\* way.  The frame must find no older answer outstanding: bl_connect is the only exchange that
\* throws away what was received before.
OkOnlyIfDone ==
  caught_up /\ job.frame # <<>> /\ job.steps = <<>> /\ job.ack = kAck.Ok
    /\ cmd(job.frame) \in {kCmd.DeviceWrite, kCmd.DeviceWriteEEprom, kCmd.DeviceVerify,
                           kCmd.DevicePageErase}
    => esc.did

\* "This avoids keeping passthrough alive forever when normal MSP polling bytes arrive."
\* A host that repeats an MSP query gets its answer in the end, whatever frame was broken
\* off before and whichever server was left in charge.
QueryIsAnswered == <>done

\* "PassthroughIdleExitUs": the bridge is left to itself only after that time without use.
PassthroughLastsItsIdleTime ==
  [][pt.active /\ ~pt'.active /\ usb = <<>> /\ job = NoJob
       => since_begin >= PassthroughIdleExit]_vars
================================================================================

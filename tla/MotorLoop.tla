-------------------------------- MODULE MotorLoop --------------------------------
(***************************************************************************)
(* The motors of the Pico firmware: the main loop of pico_main.cpp, which   *)
(* decides what every motor gets, and the 1 kHz timer interrupt, which      *)
(* sends it as DShot frames through the PIO state machines of dshot.cpp.    *)
(* They share g_dshot_values and g_dshot_passthrough_mask without a lock,   *)
(* and hal_critical_section_enter does not keep interrupts out.             *)
(*                                                                         *)
(* The main loop goes in steps of one access to what the interrupt also     *)
(* touches; the interrupt runs whole between two of them.  The MSP and the  *)
(* 4-way server (HostLink) appear by the calls they make in one iteration.  *)
(* A passthrough hands the pin of a motor from the state machine of pio0    *)
(* to the serial one of pio1 (esc_pio_serial.cpp).                          *)
(*                                                                         *)
(* Ticks are coarse (parts of a second).  An iteration takes less than a    *)
(* tick, unless it waits for an ESC.                                        *)
(***************************************************************************)
EXTENDS EscPassthrough, Sequences

CONSTANTS
  OverrideTimeout,      \* 1 s, in ticks
  StaleTimeout,         \* 3 s, in ticks
  Horizon,              \* the run ends at this time
  Vectors               \* what MSP_SET_MOTOR may carry: [Motor -> Nat]

ASSUME LoopAssumption ==
  /\ OverrideTimeout \in Nat \ {0} /\ OverrideTimeout <= StaleTimeout
  /\ StaleTimeout \in Nat
  /\ Horizon \in Time \ {0}
  /\ Vectors \subseteq [Motor -> Nat]

VARIABLES
  now,
  pc, i, todo, target,      \* main loop; its loop index; calls left in this iteration
  serial,                   \* EscPioSerialState: started, pin
  owner,                    \* the PIO a motor pin is given to: "dshot" or "serial"
  sm, tx,                   \* pio0: enabled; frames in the FIFO, the first going out
  g_dshot_values, g_dshot_passthrough_mask,
  mode, msp_override_values, msp_override_update,
  mailbox,                  \* motor_override_mailbox with its valid flag
  last_activity,            \* last_activity_us32
  ticked,                   \* the interrupt has run since the delay or the tick began
  spun,                     \* the loop has run in this tick
  end_age, set_age, hushed  \* history: ticks since a passthrough ended, since the last
                            \* SET_MOTOR; passthrough has silenced the motors
loopVars    == <<pc, i, todo, target>>
motorVars   == <<sm, tx>>
sharedVars  == <<g_dshot_values, g_dshot_passthrough_mask>>
decideVars  == <<mode, msp_override_values, msp_override_update, mailbox>>
historyVars == <<end_age, set_age, hushed>>
vars == <<now, loopVars, pt, serial, owner, motorVars, sharedVars, decideVars,
          last_activity, ticked, spun, historyVars>>

None == [valid |-> FALSE, values |-> [m \in Motor |-> 0], update |-> 0]

AGE_MAX == DshotResumeDelay + 1
SET_AGE_MAX == OverrideTimeout + 2

\* Ticks from b to a, as the unsigned difference has them.
Elapsed(a, b) == (a - b) % Wrap

--------------------------------------------------------------------------------
\* What a motor gets.

\* Slider positions below 1000 that fall through to the values of DShot commands.
msp_slider_to_dshot_NoFloor(us) ==
  CASE us < 1000  -> (us * 47 + 500) \div 1000
    [] us >= 2000 -> 2047
    [] OTHER      -> 48 + ((us - 1000) * 1999 + 500) \div 1000

msp_slider_to_dshot(us) ==
  IF us = 0 THEN 0
  ELSE IF us < 1000 THEN 48
  ELSE IF us >= 2000 THEN 2047
  ELSE 48 + ((us - 1000) * 1999 + 500) \div 1000

\* Zero stops; 1 to 47 would be commands to the ESC (beep, spin direction, save).
Throttle == {0} \cup 48 .. 2047

\* The override holds a little longer than its time.
msp_override_active_Inclusive(update, t) ==
  update > 0 /\ Elapsed(t, update) <= OverrideTimeout

\* "1 second timeout for MSP overrides"
msp_override_active(update, t) == update > 0 /\ Elapsed(t, update) < OverrideTimeout

MotorLineMode == {"PassthroughBlocked", "MspOverride", "UsbLive", "FailsafeStale"}

determine_motor_line_mode(dshot_forced_off, override_active, motor_cmd_stale) ==
  CASE dshot_forced_off    -> "PassthroughBlocked"
    [] ~dshot_forced_off /\ override_active -> "MspOverride"
    [] ~dshot_forced_off /\ ~override_active /\ motor_cmd_stale -> "FailsafeStale"
    [] OTHER               -> "UsbLive"

\* A silent host leaves the motors idling.
resolve_motor_output_FailsafeIdles(m) ==
  CASE mode = "MspOverride" -> msp_slider_to_dshot(msp_override_values[m])
    [] mode = "PassthroughBlocked" -> 0
    [] OTHER                -> 48

resolve_motor_output(m) ==
  CASE mode = "MspOverride" -> msp_slider_to_dshot(msp_override_values[m])
    [] mode = "UsbLive"     -> 48
    [] OTHER                -> 0

--------------------------------------------------------------------------------
\* app_run_iteration: what one call of msp_task may do to the motors.

\* Go on with the next call of this iteration, then with the rest of the loop.
Continue(calls) ==
  /\ pc' = IF calls = <<>> THEN "decide" ELSE Head(calls)
  /\ todo' = IF calls = <<>> THEN <<>> ELSE Tail(calls)

\* Every frame has gone out of a state machine that is switched on.
Settled == \A m \in Motor : sm[m] => tx[m] = <<>>

\* A 4-way command: the host has had the answer to what it sent before, longer ago than
\* the 53 us of a frame.
FourWayCommand == pt.active /\ Settled

\* No byte of the host, or one that is not framing: heard says whether it counts.
Quiet ==
  /\ Continue(<<>>)
  /\ \E heard \in BOOLEAN : last_activity' = IF heard THEN now ELSE last_activity
  /\ UNCHANGED <<target, mailbox, set_age>>

SetMotor ==
  /\ ~pt.active
  /\ \E v \in Vectors : mailbox' = [valid |-> TRUE, values |-> v, update |-> now]
  /\ last_activity' = now
  /\ set_age' = 0
  /\ Continue(<<>>)
  /\ UNCHANGED target

\* MSP SET_PASSTHROUGH: only the MSP parser gets here, and it runs while passthrough is off.
SetPassthrough ==
  /\ ~pt.active
  /\ target' \in Motor
  /\ Continue(<<"begin">>)
  /\ last_activity' = now
  /\ UNCHANGED <<mailbox, set_age>>

\* 4-way InitFlash or Reset for another motor than the one in hand.
SelectMotor ==
  /\ FourWayCommand
  /\ target' \in Motor \ {pt.motor}
  /\ Continue(<<"end", "begin">>)
  /\ last_activity' = now
  /\ UNCHANGED <<mailbox, set_age>>

\* 4-way Reset that restarts the bootloader.  The second begin gets the motor number as
\* the host sent it: HAL_MAX_MOTORS, which selects the last motor, is refused there.
RestartMotor ==
  /\ FourWayCommand
  /\ target' \in Motor
  /\ \E refused \in BOOLEAN :
       /\ refused => target' = HAL_MAX_MOTORS - 1
       /\ Continue((IF target' = pt.motor THEN <<>> ELSE <<"end", "begin">>)
                   \o <<"end", "sleep">> \o (IF refused THEN <<>> ELSE <<"begin">>))
  /\ last_activity' = now
  /\ UNCHANGED <<mailbox, set_age>>

\* 4-way Exit, or silence of the 4-way host.
LeavePassthrough ==
  /\ FourWayCommand
  /\ Continue(<<"end">>)
  /\ \E heard \in BOOLEAN : last_activity' = IF heard THEN now ELSE last_activity
  /\ UNCHANGED <<target, mailbox, set_age>>

app_run_iteration ==
  /\ pc = "app"
  /\ \/ Quiet
     \/ SetMotor
     \/ SetPassthrough
     \/ SelectMotor
     \/ RestartMotor
     \/ LeavePassthrough
  /\ UNCHANGED <<now, i, pt, serial, owner, motorVars, sharedVars, mode,
                 msp_override_values, msp_override_update, ticked, spun>>

--------------------------------------------------------------------------------
\* esc_passthrough_end, in three steps the interrupt may fall between.

\* esc_passthrough_end: the state is read; hal_dshot_set_passthrough stops the serial port.
EndSerial ==
  /\ pc = "end"
  /\ IF pt.active
     THEN pc' = "end_pin" /\ serial' = [serial EXCEPT !.started = FALSE]
          /\ UNCHANGED <<todo, pt>>
     ELSE Continue(todo) /\ pt' = refresh_dshot_forced_off(pt, now) /\ UNCHANGED serial
  /\ UNCHANGED <<now, i, target, owner, motorVars, sharedVars, decideVars, last_activity,
                 ticked, spun, end_age, set_age>>

\* The pin of the motor that comes next is given back.
GiveBackPin_Target ==
  /\ pc = "end_pin"
  /\ owner' = [owner EXCEPT ![target] = "dshot"]
  /\ pc' = "end_state"
  /\ UNCHANGED <<now, i, todo, target, pt, serial, motorVars, sharedVars, decideVars,
                 last_activity, ticked, spun, end_age, set_age>>

\* The pin goes back to pio0.
GiveBackPin ==
  /\ pc = "end_pin"
  /\ owner' = [owner EXCEPT ![pt.motor] = "dshot"]
  /\ pc' = "end_state"
  /\ UNCHANGED <<now, i, todo, target, pt, serial, motorVars, sharedVars, decideVars,
                 last_activity, ticked, spun, end_age, set_age>>

EndState ==
  /\ pc = "end_state"
  /\ pt' = Ended(pt, now)
  /\ end_age' = 0
  /\ Continue(todo)
  /\ UNCHANGED <<now, i, target, serial, owner, motorVars, sharedVars, decideVars,
                 last_activity, ticked, spun, set_age>>

\* sleep_ms(300) between the end and the begin of a restart.
Sleep ==
  /\ pc = "sleep"
  /\ Continue(todo)
  /\ UNCHANGED <<now, i, target, pt, serial, owner, motorVars, sharedVars, decideVars,
                 last_activity, ticked, spun, end_age, set_age>>

--------------------------------------------------------------------------------
\* esc_passthrough_begin

BeginState ==
  /\ pc = "begin"
  /\ IF pt.active
     THEN /\ pc' = "end" /\ todo' = <<"begin">> \o todo
          /\ UNCHANGED <<pt, i>>
     ELSE /\ pt' = Begun(pt, target) /\ pc' = "stop" /\ i' = 0
          /\ UNCHANGED todo
  /\ UNCHANGED <<now, target, serial, owner, motorVars, sharedVars, decideVars,
                 last_activity, ticked, spun, end_age, set_age>>

\* dshot_force_stop_all: motor by motor.  What is in the FIFO stays there.
ForceStop ==
  /\ pc = "stop"
  /\ sm' = [sm EXCEPT ![i] = FALSE]
  /\ IF i = HAL_MAX_MOTORS - 1 THEN pc' = "pin" /\ i' = 0
                               ELSE pc' = pc /\ i' = i + 1
  /\ UNCHANGED <<now, todo, target, pt, serial, owner, tx, sharedVars, decideVars,
                 last_activity, ticked, spun, end_age, set_age>>

\* esc_pio_serial_start: the pin goes to pio1, before the state machines are set up.
TakePin ==
  /\ pc = "pin"
  /\ serial' = [started |-> FALSE, pin |-> target]
  /\ owner' = [owner EXCEPT ![target] = "serial"]
  /\ pc' = "start"
  /\ UNCHANGED <<now, i, todo, target, pt, motorVars, sharedVars, decideVars,
                 last_activity, ticked, spun, end_age, set_age>>

StartSerial ==
  /\ pc = "start"
  /\ serial' = [serial EXCEPT !.started = TRUE]
  /\ pc' = "delay"
  /\ ticked' = FALSE
  /\ UNCHANGED <<now, i, todo, target, pt, owner, motorVars, sharedVars, decideVars,
                 last_activity, spun, end_age, set_age>>

\* hal_delay_us(5000): five periods of the interrupt.
Precharge ==
  /\ pc = "delay"
  /\ ticked
  /\ Continue(todo)
  /\ UNCHANGED <<now, i, target, pt, serial, owner, motorVars, sharedVars, decideVars,
                 last_activity, ticked, spun, end_age, set_age>>

--------------------------------------------------------------------------------
\* The rest of the loop.

\* Take the newest override, if there is one, and choose the mode of the motor lines.
Decide ==
  /\ pc = "decide"
  /\ LET box == IF mailbox.valid THEN mailbox
                ELSE [values |-> msp_override_values, update |-> msp_override_update]
     IN
     /\ msp_override_values' = box.values
     /\ msp_override_update' = box.update
     /\ mode' = determine_motor_line_mode(
                  refresh_dshot_forced_off(pt, now).forced_off,
                  msp_override_active(box.update, now),
                  Elapsed(now, last_activity) > StaleTimeout)
  /\ mailbox' = [mailbox EXCEPT !.valid = FALSE]
  /\ pt' = refresh_dshot_forced_off(pt, now)
  /\ pc' = "mask" /\ i' = 0
  /\ UNCHANGED <<now, todo, target, serial, owner, motorVars, sharedVars, last_activity,
                 ticked, spun, end_age, set_age>>

SetMask ==
  /\ pc = "mask"
  /\ g_dshot_passthrough_mask' = [g_dshot_passthrough_mask EXCEPT ![i] = pt.active]
  /\ pc' = "value"
  /\ UNCHANGED <<now, i, todo, target, pt, serial, owner, motorVars, g_dshot_values,
                 decideVars, last_activity, ticked, spun, end_age, set_age>>

\* Values written for the motors only that get a frame now.
SetValue_UnmaskedOnly ==
  /\ pc = "value"
  /\ g_dshot_values' = IF g_dshot_passthrough_mask[i] THEN g_dshot_values
                       ELSE [g_dshot_values EXCEPT ![i] = resolve_motor_output(i)]
  /\ IF i = HAL_MAX_MOTORS - 1
     THEN pc' = "app" /\ i' = 0 /\ spun' = TRUE /\ ticked' = FALSE
     ELSE pc' = "mask" /\ i' = i + 1 /\ UNCHANGED <<spun, ticked>>
  /\ UNCHANGED <<now, todo, target, pt, serial, owner, motorVars,
                 g_dshot_passthrough_mask, decideVars, last_activity, end_age, set_age>>

SetValue ==
  /\ pc = "value"
  /\ g_dshot_values' = [g_dshot_values EXCEPT ![i] = resolve_motor_output(i)]
  /\ IF i = HAL_MAX_MOTORS - 1
     THEN pc' = "app" /\ i' = 0 /\ spun' = TRUE /\ ticked' = FALSE
     ELSE pc' = "mask" /\ i' = i + 1 /\ UNCHANGED <<spun, ticked>>
  /\ UNCHANGED <<now, todo, target, pt, serial, owner, motorVars,
                 g_dshot_passthrough_mask, decideVars, last_activity, end_age, set_age>>

--------------------------------------------------------------------------------
\* The interrupt, and the hardware.

\* dshot_timer_callback with dshot_write and dshot_update_all: every motor that is not
\* masked gets a frame, and its state machine is switched on.  A frame lasts a twentieth
\* of the period, so what was on its way has gone out.
dshot_timer_callback ==
  /\ Settled
  /\ sm' = [m \in Motor |-> sm[m] \/ ~g_dshot_passthrough_mask[m]]
  /\ tx' = [m \in Motor |-> IF g_dshot_passthrough_mask[m] THEN tx[m]
                            ELSE Append(tx[m], g_dshot_values[m])]
  /\ ticked' = TRUE
  /\ UNCHANGED <<now, loopVars, pt, serial, owner, sharedVars, decideVars, last_activity,
                 spun, end_age, set_age>>

\* A state machine sends its next frame, to the pin if the pin is its own.
SendFrame(m) ==
  /\ sm[m] /\ tx[m] # <<>>
  /\ tx' = [tx EXCEPT ![m] = Tail(tx[m])]
  /\ UNCHANGED <<now, loopVars, pt, serial, owner, sm, sharedVars, decideVars,
                 last_activity, ticked, spun, end_age, set_age>>

\* Time passes at the top of the loop, once it has gone round in this tick, or while
\* the 4-way server waits for an ESC.  Its sleep of 300 ms begins when a passthrough has
\* ended and is shorter than the resume delay.  The interrupt is a thousand times faster:
\* it has run since the values were written, and its frames are out.
Tick ==
  /\ \/ pc = "app" /\ (spun \/ pt.active)
     \/ pc = "sleep" /\ end_age < DshotResumeDelay
  /\ ticked /\ Settled
  /\ now < Horizon
  /\ now' = now + 1
  /\ spun' = FALSE
  /\ end_age' = IF end_age < AGE_MAX THEN end_age + 1 ELSE end_age
  /\ set_age' = IF set_age < SET_AGE_MAX THEN set_age + 1 ELSE set_age
  /\ UNCHANGED <<loopVars, pt, serial, owner, motorVars, sharedVars, decideVars,
                 last_activity, ticked>>

--------------------------------------------------------------------------------
\* hushed: since a passthrough had all motors masked and their frames gone, until the
\* resume delay after its end is over.
Hush ==
  hushed' =
    IF pt'.active
    THEN hushed \/ \A m \in Motor : g_dshot_passthrough_mask'[m] /\ tx'[m] = <<>>
    ELSE hushed /\ end_age' < DshotResumeDelay

\* main up to the loop: all motors armed with the idle throttle, the timer running.
Init ==
  /\ now = 1
  /\ pc = "app" /\ i = 0 /\ todo = <<>> /\ target = 0
  /\ pt = InitialState
  /\ serial = [started |-> FALSE, pin |-> 0]
  /\ owner = [m \in Motor |-> "dshot"]
  /\ sm = [m \in Motor |-> TRUE] /\ tx = [m \in Motor |-> <<>>]
  /\ g_dshot_values = [m \in Motor |-> 48]
  /\ g_dshot_passthrough_mask = [m \in Motor |-> FALSE]
  /\ mode = "UsbLive"
  /\ msp_override_values = [m \in Motor |-> 0] /\ msp_override_update = 0
  /\ mailbox = None
  /\ last_activity = 1
  /\ ticked = FALSE /\ spun = FALSE
  /\ end_age = AGE_MAX /\ set_age = SET_AGE_MAX /\ hushed = FALSE

Main ==
  \/ app_run_iteration /\ UNCHANGED end_age
  \/ EndSerial \/ GiveBackPin \/ EndState \/ Sleep
  \/ BeginState \/ ForceStop \/ TakePin \/ StartSerial \/ Precharge
  \/ Decide \/ SetMask \/ SetValue

Next ==
  /\ \/ Main
     \/ dshot_timer_callback
     \/ \E m \in Motor : SendFrame(m)
     \/ Tick
  /\ Hush

Spec == Init /\ [][Next]_vars

--------------------------------------------------------------------------------
\* Properties.

\* Types.  Every value on its way to a motor is a stop or a throttle, never one of the
\* DShot command numbers 1 to 47.
TypeOK ==
  /\ now \in Time
  /\ pc \in {"app", "end", "end_pin", "end_state", "sleep", "begin", "stop", "pin", "start",
             "delay", "decide", "mask", "value"}
  /\ i \in Motor /\ target \in Motor
  /\ todo \in Seq({"end", "sleep", "begin"})
  /\ pt \in SharedState
  /\ serial \in [started: BOOLEAN, pin: Motor]
  /\ owner \in [Motor -> {"dshot", "serial"}]
  /\ sm \in [Motor -> BOOLEAN]
  /\ tx \in [Motor -> Seq(Throttle)]
  /\ g_dshot_values \in [Motor -> Throttle]
  /\ g_dshot_passthrough_mask \in [Motor -> BOOLEAN]
  /\ mode \in MotorLineMode
  /\ msp_override_values \in [Motor -> Nat]
  /\ msp_override_update \in Time
  /\ mailbox \in [valid: BOOLEAN, values: [Motor -> Nat], update: Time]
  /\ last_activity \in Time
  /\ ticked \in BOOLEAN /\ spun \in BOOLEAN
  /\ end_age \in 0 .. AGE_MAX /\ set_age \in 0 .. SET_AGE_MAX
  /\ hushed \in BOOLEAN

Busy == {"end_pin", "end_state", "stop", "pin", "start"}   \* a hand-over under way

\* esc_passthrough.cpp, esc_pio_serial.cpp and the pin functions tell one story: outside
\* a hand-over exactly the pin of the passthrough motor belongs to the serial port, which
\* runs on it, and every other pin belongs to DShot; at no time does a running serial port
\* share its pin.
PinsFollowPassthrough ==
  /\ serial.started => owner[serial.pin] = "serial"
  /\ pc \notin Busy =>
       /\ serial.started = pt.active
       /\ pt.active => serial.pin = pt.motor
       /\ \A m \in Motor : owner[m] = "serial" <=> pt.active /\ m = pt.motor

\* A frame leaves the state machine of m for the motor.
Delivered(m) == tx[m] # <<>> /\ tx'[m] = Tail(tx[m]) /\ owner[m] = "dshot"

\* Once a passthrough has silenced the motors, and for the resume delay after its end,
\* the motors hear nothing but zero: whatever the interrupt finds of the old values, in
\* whatever order mask and value are written, and across a change of the motor.
OnlyZeroAfterPassthrough ==
  [][\A m \in Motor : Delivered(m) /\ hushed => Head(tx[m]) = 0]_vars

\* "1 second timeout for MSP overrides": a throttle of SET_MOTOR reaches a motor no later
\* than a tick after the timeout of the last such command.
OverrideOnlyFresh ==
  [][\A m \in Motor :
       Delivered(m) /\ Head(tx[m]) \notin {0, 48} => set_age <= OverrideTimeout]_vars

\* "failsafe": a host silent for longer than 3 s finds every motor stopped by the loop.
SilenceStopsMotors ==
  pc = "app" /\ spun /\ Elapsed(now, last_activity) > StaleTimeout =>
    \A m \in Motor : g_dshot_values[m] = 0

\* "After passthrough ends, allow DSHOT to resume after DshotResumeDelayUs": the loop
\* takes the motors for blocked by a passthrough while there is one, or for the delay
\* after one, and at no other time.
OffOnlyAroundPassthrough ==
  pc \in {"mask", "value"} /\ mode = "PassthroughBlocked" =>
    pt.active \/ end_age <= DshotResumeDelay
================================================================================

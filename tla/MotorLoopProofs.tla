------------------------------ MODULE MotorLoopProofs ------------------------------
(***************************************************************************)
(* What holds of the motors for any number of them, any timeouts and any    *)
(* SET_MOTOR: the values on their way are stops or throttles; the pins      *)
(* follow the passthrough through every hand-over; after a passthrough the  *)
(* motors hear only zero; an override reaches no motor after its time, and  *)
(* a silent host finds the motors stopped.                                 *)
(***************************************************************************)
EXTENDS MotorLoop, SequenceTheorems, TLAPS

Vector == [Motor -> Nat]
Places == {"app", "end", "end_pin", "end_state", "sleep", "begin", "stop", "pin", "start",
           "delay", "decide", "mask", "value"}
Calls  == {"end", "sleep", "begin"}

\* The state of the main loop and of passthrough.
LoopOK ==
  /\ now \in Time
  /\ pc \in Places
  /\ i \in Motor /\ target \in Motor
  /\ todo \in Seq(Calls)
  /\ pt \in SharedState
  /\ serial \in [started: BOOLEAN, pin: Motor]
  /\ owner \in [Motor -> {"dshot", "serial"}]

\* What the motors get.
MotorsOK ==
  /\ tx \in [Motor -> Seq(Throttle)]
  /\ g_dshot_values \in [Motor -> Throttle]
  /\ mode \in MotorLineMode
  /\ msp_override_values \in Vector
  /\ msp_override_update \in Time
  /\ mailbox \in [valid: BOOLEAN, values: Vector, update: Time]
  /\ last_activity \in Time

FlagsOK ==
  /\ sm \in [Motor -> BOOLEAN]
  /\ g_dshot_passthrough_mask \in [Motor -> BOOLEAN]
  /\ ticked \in BOOLEAN /\ spun \in BOOLEAN /\ hushed \in BOOLEAN

AgesOK == end_age \in 0 .. AGE_MAX /\ set_age \in 0 .. SET_AGE_MAX

Types == LoopOK /\ MotorsOK /\ FlagsOK /\ AgesOK

--------------------------------------------------------------------------------
\* Constants and values.

LEMMA Constants ==
  /\ 0 \in Motor /\ HAL_MAX_MOTORS - 1 \in Motor
  /\ 0 \in Time /\ 1 \in Time /\ Horizon \in Time
  /\ DshotResumeDelay \in Nat /\ AGE_MAX \in Nat \ {0} /\ SET_AGE_MAX \in Nat \ {0}
<1>1. 0 \in Motor /\ HAL_MAX_MOTORS - 1 \in Motor  BY PassthroughAssumption DEF Motor
<1>2. Horizon \in Time /\ Horizon # 0  BY LoopAssumption
<1>3. 0 \in Time /\ 1 \in Time  BY <1>2, PassthroughAssumption DEF Time
<1>4. DshotResumeDelay \in Nat /\ OverrideTimeout \in Nat
  BY PassthroughAssumption, LoopAssumption
<1> QED  BY <1>1, <1>2, <1>3, <1>4 DEF AGE_MAX, SET_AGE_MAX

LEMMA SumInTime == ASSUME NEW t \in Time PROVE (t + DshotResumeDelay) % Wrap \in Time
BY PassthroughAssumption DEF Time

\* The map of slider positions: never one of the DShot commands.
LEMMA SliderRange == ASSUME NEW us \in Nat PROVE msp_slider_to_dshot(us) \in Throttle
<1>1. CASE us \in 1000 .. 1999
  <2> DEFINE x == ((us - 1000) * 1999 + 500) \div 1000
  <2>1. x \in 0 .. 1999  BY <1>1
  <2>2. msp_slider_to_dshot(us) = 48 + x  BY <1>1 DEF msp_slider_to_dshot
  <2> HIDE DEF x
  <2>3. 48 + x \in 48 .. 2047  BY <2>1
  <2> QED  BY <2>2, <2>3 DEF Throttle
<1>2. CASE us \notin 1000 .. 1999
  <2>1. msp_slider_to_dshot(us) \in {0, 48, 2047}  BY <1>2 DEF msp_slider_to_dshot
  <2> QED  BY <2>1 DEF Throttle
<1> QED  BY <1>1, <1>2

LEMMA OutputRange ==
  ASSUME msp_override_values \in Vector, NEW m \in Motor
  PROVE  resolve_motor_output(m) \in Throttle
<1>1. msp_override_values[m] \in Nat  BY DEF Vector
<1> DEFINE us == msp_override_values[m]
<1>3. msp_slider_to_dshot(us) \in Throttle
  <2> HIDE DEF us
  <2> QED  BY <1>1, SliderRange DEF us
<1>2. 48 \in Throttle /\ 0 \in Throttle  BY DEF Throttle
<1> QED  BY <1>3, <1>2 DEF resolve_motor_output

LEMMA CallsAreSequences ==
  /\ <<>> \in Seq(Calls) /\ <<"begin">> \in Seq(Calls) /\ <<"end">> \in Seq(Calls)
  /\ <<"end", "begin">> \in Seq(Calls) /\ <<"end", "sleep">> \in Seq(Calls)
BY DEF Calls

\* Going on with the next call, or with the rest of the loop.
LEMMA ContinueTypes ==
  ASSUME NEW c \in Seq(Calls), Continue(c)
  PROVE  pc' \in {"decide", "end", "sleep", "begin"} /\ todo' \in Seq(Calls)
<1>1. CASE c = <<>>  BY <1>1, CallsAreSequences DEF Continue
<1>2. CASE c # <<>>
  <2>1. Head(c) \in Calls /\ Tail(c) \in Seq(Calls)  BY <1>2, HeadTailProperties
  <2> QED  BY <1>2, <2>1 DEF Continue, Calls
<1> QED  BY <1>1, <1>2

--------------------------------------------------------------------------------
\* The passthrough record.

LEMMA RefreshTypes ==
  ASSUME pt \in SharedState
  PROVE  /\ refresh_dshot_forced_off(pt, now) \in SharedState
         /\ refresh_dshot_forced_off(pt, now).active = pt.active
         /\ refresh_dshot_forced_off(pt, now).motor = pt.motor
<1>1. (pt.active \/ time_before(now, pt.block_until)) \in BOOLEAN  OBVIOUS
<1> QED  BY <1>1, Zenon DEF refresh_dshot_forced_off, SharedState

LEMMA BegunTypes ==
  ASSUME pt \in SharedState, NEW m \in Motor
  PROVE  /\ Begun(pt, m) \in SharedState
         /\ Begun(pt, m).active = TRUE /\ Begun(pt, m).motor = m
BY DEF Begun, SharedState

LEMMA EndedTypes ==
  ASSUME pt \in SharedState, now \in Time
  PROVE  /\ Ended(pt, now) \in SharedState
         /\ Ended(pt, now).active = FALSE /\ Ended(pt, now).motor = pt.motor
<1>1. (now + DshotResumeDelay) % Wrap \in Time  BY SumInTime
<1> QED  BY <1>1 DEF Ended, SharedState

--------------------------------------------------------------------------------
\* Types.

\* What a call of msp_task changes of the loop: the calls that come next.
LEMMA AppLoop ==
  ASSUME Types, app_run_iteration
  PROVE  /\ pc' \in {"decide", "end", "sleep", "begin"} /\ todo' \in Seq(Calls)
         /\ target' \in Motor
         /\ UNCHANGED <<now, i, pt, serial, owner>>
<1> USE CallsAreSequences, ContinueTypes
<1>1. UNCHANGED <<now, i, pt, serial, owner>> /\ target \in Motor
  BY DEF app_run_iteration, Types, LoopOK
<1>2. CASE Quiet  BY <1>1, <1>2 DEF Quiet
<1>3. CASE SetMotor  BY <1>1, <1>3 DEF SetMotor
<1>4. CASE SetPassthrough  BY <1>1, <1>4 DEF SetPassthrough
<1>5. CASE SelectMotor  BY <1>1, <1>5 DEF SelectMotor
<1>6. CASE RestartMotor
  <2>1. PICK refused \in BOOLEAN :
          Continue((IF target' = pt.motor THEN <<>> ELSE <<"end", "begin">>)
                   \o <<"end", "sleep">> \o (IF refused THEN <<>> ELSE <<"begin">>))
    BY <1>6 DEF RestartMotor
  <2> DEFINE a == IF target' = pt.motor THEN <<>> ELSE <<"end", "begin">>
             b == IF refused THEN <<>> ELSE <<"begin">>
  <2>2. a \in Seq(Calls) /\ b \in Seq(Calls)  OBVIOUS
  <2> HIDE DEF a, b
  <2>3. a \o <<"end", "sleep">> \in Seq(Calls)  BY <2>2, ConcatProperties
  <2>4. a \o <<"end", "sleep">> \o b \in Seq(Calls)  BY <2>2, <2>3, ConcatProperties
  <2>5. target' \in Motor  BY <1>6 DEF RestartMotor
  <2> QED  BY <1>1, <2>1, <2>4, <2>5 DEF a, b
<1>7. CASE LeavePassthrough  BY <1>1, <1>7 DEF LeavePassthrough
<1> QED  BY <1>2, <1>3, <1>4, <1>5, <1>6, <1>7 DEF app_run_iteration

LEMMA StepLoop ==
  ASSUME Types, Next
  PROVE  LoopOK'
<1> USE Constants DEF Types
<1>1. CASE app_run_iteration  BY <1>1, AppLoop DEF LoopOK, Places
<1>2. CASE EndSerial
  <2>1. CASE pt.active  BY <1>2, <2>1 DEF EndSerial, LoopOK, Places
  <2>2. CASE ~pt.active
    <3>1. Continue(todo) /\ todo \in Seq(Calls)  BY <1>2, <2>2 DEF EndSerial, LoopOK
    <3>2. pc' \in Places /\ todo' \in Seq(Calls)  BY <3>1, ContinueTypes DEF Places
    <3>3. pt' \in SharedState  BY <1>2, <2>2, RefreshTypes DEF EndSerial, LoopOK
    <3> QED  BY <1>2, <2>2, <3>2, <3>3 DEF EndSerial, LoopOK
  <2> QED  BY <2>1, <2>2
<1>3. CASE GiveBackPin  BY <1>3 DEF GiveBackPin, LoopOK, Places, SharedState
<1>4. CASE EndState
  <2>1. pc' \in Places /\ todo' \in Seq(Calls)
    BY <1>4, ContinueTypes DEF EndState, LoopOK, Places
  <2>2. pt' \in SharedState  BY <1>4, EndedTypes DEF EndState, LoopOK
  <2> QED  BY <1>4, <2>1, <2>2 DEF EndState, LoopOK
<1>5. CASE Sleep \/ Precharge
  <2>1. pc' \in Places /\ todo' \in Seq(Calls)
    BY <1>5, ContinueTypes DEF Sleep, Precharge, LoopOK, Places
  <2> QED  BY <1>5, <2>1 DEF Sleep, Precharge, LoopOK
<1>6. CASE BeginState
  <2>1. CASE pt.active
    <3>1. <<"begin">> \o todo \in Seq(Calls)
      BY CallsAreSequences, ConcatProperties DEF LoopOK
    <3> QED  BY <1>6, <2>1, <3>1 DEF BeginState, LoopOK, Places
  <2>2. CASE ~pt.active
    <3>1. Begun(pt, target) \in SharedState  BY BegunTypes DEF LoopOK
    <3> QED  BY <1>6, <2>2, <3>1 DEF BeginState, LoopOK, Places
  <2> QED  BY <2>1, <2>2
<1>7. CASE ForceStop
  <2>1. i' \in Motor
    BY <1>7, PassthroughAssumption DEF ForceStop, LoopOK, Motor
  <2> QED  BY <1>7, <2>1 DEF ForceStop, LoopOK, Places
<1>8. CASE TakePin  BY <1>8 DEF TakePin, LoopOK, Places
<1>9. CASE StartSerial  BY <1>9 DEF StartSerial, LoopOK, Places
<1>10. CASE Decide
  <2>1. pt' \in SharedState  BY <1>10, RefreshTypes DEF Decide, LoopOK
  <2> QED  BY <1>10, <2>1 DEF Decide, LoopOK, Places
<1>11. CASE SetMask  BY <1>11 DEF SetMask, LoopOK, Places
<1>12. CASE SetValue
  <2>1. i' \in Motor
    BY <1>12, PassthroughAssumption DEF SetValue, LoopOK, Motor
  <2> QED  BY <1>12, <2>1 DEF SetValue, LoopOK, Places
<1>13. CASE dshot_timer_callback  BY <1>13 DEF dshot_timer_callback, loopVars, LoopOK
<1>14. CASE \E m \in Motor : SendFrame(m)  BY <1>14 DEF SendFrame, loopVars, LoopOK
<1>15. CASE Tick
  <2>1. now' \in Time  BY <1>15, PassthroughAssumption DEF Tick, LoopOK, Time
  <2> QED  BY <1>15, <2>1 DEF Tick, loopVars, LoopOK
<1> QED
  BY <1>1, <1>2, <1>3, <1>4, <1>5, <1>6, <1>7, <1>8, <1>9, <1>10, <1>11, <1>12, <1>13, <1>14,
     <1>15
  DEF Next, Main

\* Everything a step changes of what the motors get.
LEMMA StepMotors ==
  ASSUME Types, Next
  PROVE  MotorsOK'
<1> USE Constants DEF Types
<1>1. CASE app_run_iteration
  <2>1. mailbox' \in [valid: BOOLEAN, values: Vector, update: Time]
    <3>1. CASE SetMotor
      <4>1. PICK v \in Vectors : mailbox' = [valid |-> TRUE, values |-> v, update |-> now]
        BY <3>1 DEF SetMotor
      <4>2. v \in Vector /\ now \in Time  BY LoopAssumption DEF Vector, LoopOK
      <4> QED  BY <4>1, <4>2
    <3>2. CASE ~SetMotor
      <4>1. mailbox' = mailbox
        BY <1>1, <3>2 DEF app_run_iteration, Quiet, SetPassthrough, SelectMotor,
                          RestartMotor, LeavePassthrough
      <4> QED  BY <4>1 DEF MotorsOK
    <3> QED  BY <3>1, <3>2
  <2>2. last_activity' \in Time
    BY <1>1 DEF app_run_iteration, Quiet, SetMotor, SetPassthrough, SelectMotor,
                RestartMotor, LeavePassthrough, LoopOK, MotorsOK
  <2> QED  BY <1>1, <2>1, <2>2 DEF app_run_iteration, motorVars, sharedVars, MotorsOK
<1>2. CASE \/ EndSerial \/ GiveBackPin \/ EndState \/ Sleep \/ BeginState \/ ForceStop
           \/ TakePin \/ StartSerial \/ Precharge \/ SetMask \/ Tick
  <2>1. UNCHANGED <<tx, g_dshot_values, mode, msp_override_values, msp_override_update,
                    mailbox, last_activity>>
    BY <1>2 DEF EndSerial, GiveBackPin, EndState, Sleep, BeginState, ForceStop, TakePin,
                StartSerial, Precharge, SetMask, Tick, motorVars, sharedVars, decideVars
  <2> QED  BY <2>1 DEF MotorsOK
<1>3. CASE Decide
  <2>1. msp_override_values' \in Vector /\ msp_override_update' \in Time
    BY <1>3 DEF Decide, MotorsOK
  <2>2. mode' \in MotorLineMode
    BY <1>3 DEF Decide, determine_motor_line_mode, MotorLineMode
  <2>3. mailbox' \in [valid: BOOLEAN, values: Vector, update: Time]
    BY <1>3 DEF Decide, MotorsOK
  <2>4. UNCHANGED <<tx, g_dshot_values, last_activity>>
    BY <1>3 DEF Decide, motorVars, sharedVars
  <2> QED  BY <2>1, <2>2, <2>3, <2>4 DEF MotorsOK
<1>4. CASE SetValue
  <2>1. resolve_motor_output(i) \in Throttle  BY OutputRange DEF MotorsOK, LoopOK
  <2>2. g_dshot_values' \in [Motor -> Throttle]  BY <1>4, <2>1 DEF SetValue, MotorsOK
  <2>3. UNCHANGED <<tx, mode, msp_override_values, msp_override_update, mailbox,
                    last_activity>>
    BY <1>4 DEF SetValue, motorVars, decideVars
  <2> QED  BY <2>2, <2>3 DEF MotorsOK
<1>5. CASE dshot_timer_callback
  <2>1. ASSUME NEW m \in Motor
        PROVE  (IF g_dshot_passthrough_mask[m] THEN tx[m]
                ELSE Append(tx[m], g_dshot_values[m])) \in Seq(Throttle)
    <3>1. tx[m] \in Seq(Throttle) /\ g_dshot_values[m] \in Throttle  BY DEF MotorsOK
    <3>2. Append(tx[m], g_dshot_values[m]) \in Seq(Throttle)  BY <3>1, AppendProperties
    <3> QED  BY <3>1, <3>2
  <2>2. tx' \in [Motor -> Seq(Throttle)]  BY <1>5, <2>1 DEF dshot_timer_callback
  <2> QED  BY <1>5, <2>2 DEF dshot_timer_callback, sharedVars, decideVars, MotorsOK
<1>6. CASE \E m \in Motor : SendFrame(m)
  <2>1. PICK m \in Motor : SendFrame(m)  BY <1>6
  <2>2. tx[m] \in Seq(Throttle) /\ tx[m] # <<>>  BY <2>1 DEF SendFrame, MotorsOK
  <2>3. Tail(tx[m]) \in Seq(Throttle)  BY <2>2, HeadTailProperties
  <2>4. tx' \in [Motor -> Seq(Throttle)]  BY <2>1, <2>3 DEF SendFrame, MotorsOK
  <2> QED  BY <2>1, <2>4 DEF SendFrame, sharedVars, decideVars, MotorsOK
<1> QED  BY <1>1, <1>2, <1>3, <1>4, <1>5, <1>6 DEF Next, Main

LEMMA StepFlags ==
  ASSUME Types, Next
  PROVE  FlagsOK'
<1> USE DEF Types, FlagsOK
<1>1. hushed' \in BOOLEAN  BY DEF Next, Hush
<1>2. sm' \in [Motor -> BOOLEAN]
  <2>1. CASE ForceStop  BY <2>1, Zenon DEF ForceStop
  <2>2. CASE dshot_timer_callback
    <3>1. \A m \in Motor : (sm[m] \/ ~g_dshot_passthrough_mask[m]) \in BOOLEAN  OBVIOUS
    <3> QED  BY <2>2, <3>1, Zenon DEF dshot_timer_callback
  <2>3. CASE ~ForceStop /\ ~dshot_timer_callback
    <3>1. sm' = sm
      BY <2>3 DEF Next, Main, app_run_iteration, EndSerial, GiveBackPin, EndState, Sleep,
                  BeginState, TakePin, StartSerial, Precharge, Decide, SetMask, SetValue,
                  SendFrame, Tick, motorVars
    <3> QED  BY <3>1
  <2> QED  BY <2>1, <2>2, <2>3
<1>3. g_dshot_passthrough_mask' \in [Motor -> BOOLEAN]
  <2>1. CASE SetMask
    <3>1. pt.active \in BOOLEAN  BY DEF LoopOK, SharedState
    <3> QED  BY <2>1, <3>1, Zenon DEF SetMask
  <2>2. CASE ~SetMask
    <3>1. g_dshot_passthrough_mask' = g_dshot_passthrough_mask
      BY <2>2 DEF Next, Main, app_run_iteration, EndSerial, GiveBackPin, EndState, Sleep,
                  BeginState, ForceStop, TakePin, StartSerial, Precharge, Decide, SetValue,
                  dshot_timer_callback, SendFrame, Tick, sharedVars
    <3> QED  BY <3>1
  <2> QED  BY <2>1, <2>2
<1>4. ticked' \in BOOLEAN /\ spun' \in BOOLEAN
  BY DEF Next, Main, app_run_iteration, EndSerial, GiveBackPin, EndState, Sleep, BeginState,
         ForceStop, TakePin, StartSerial, Precharge, Decide, SetMask, SetValue,
         dshot_timer_callback, SendFrame, Tick
<1> QED  BY <1>1, <1>2, <1>3, <1>4

LEMMA StepAges ==
  ASSUME Types, Next
  PROVE  AgesOK'
<1> USE Constants DEF Types, AgesOK
<1>1. CASE app_run_iteration /\ UNCHANGED end_age
  BY <1>1 DEF app_run_iteration, Quiet, SetMotor, SetPassthrough, SelectMotor, RestartMotor,
              LeavePassthrough
<1>2. CASE EndState  BY <1>2 DEF EndState
<1>3. CASE Tick  BY <1>3 DEF Tick
<1>4. CASE \/ EndSerial \/ GiveBackPin \/ Sleep \/ BeginState \/ ForceStop \/ TakePin
           \/ StartSerial \/ Precharge \/ Decide \/ SetMask \/ SetValue
           \/ dshot_timer_callback \/ \E m \in Motor : SendFrame(m)
  <2>1. UNCHANGED <<end_age, set_age>>
    BY <1>4 DEF EndSerial, GiveBackPin, Sleep, BeginState, ForceStop, TakePin, StartSerial,
                Precharge, Decide, SetMask, SetValue, dshot_timer_callback, SendFrame
  <2> QED  BY <2>1
<1> QED  BY <1>1, <1>2, <1>3, <1>4 DEF Next, Main

LEMMA InitTypes == Init => Types
<1> SUFFICES ASSUME Init PROVE Types  OBVIOUS
<1> USE Constants DEF Init
<1>1. LoopOK
  <2>1. pt \in SharedState  BY DEF InitialState, SharedState
  <2> QED  BY <2>1, CallsAreSequences DEF LoopOK, Places
<1>2. MotorsOK
  <2>1. [m \in Motor |-> 0] \in Vector  BY DEF Vector
  <2>2. <<>> \in Seq(Throttle)  BY EmptySeq
  <2>3. 48 \in Throttle  BY DEF Throttle
  <2> QED  BY <2>1, <2>2, <2>3 DEF MotorsOK, MotorLineMode, None
<1>3. FlagsOK  BY DEF FlagsOK
<1>4. AgesOK  BY DEF AgesOK
<1> QED  BY <1>1, <1>2, <1>3, <1>4 DEF Types

\* msp_slider_to_dshot, dshot_timer_callback: every value on its way to a motor is a stop or
\* a throttle, for any number of motors, any timeouts and any SET_MOTOR.
THEOREM OnlyThrottles == Spec => []TypeOK
<1>1. Types /\ [Next]_vars => Types'
  <2> SUFFICES ASSUME Types, [Next]_vars PROVE Types'  OBVIOUS
  <2>1. CASE Next  BY <2>1, StepLoop, StepMotors, StepFlags, StepAges DEF Types
  <2>2. CASE UNCHANGED vars
    BY <2>2 DEF vars, loopVars, motorVars, sharedVars, decideVars, historyVars,
                Types, LoopOK, MotorsOK, FlagsOK, AgesOK
  <2> QED  BY <2>1, <2>2
<1>2. Types => TypeOK
  BY DEF Types, LoopOK, MotorsOK, FlagsOK, AgesOK, TypeOK, Places, Calls, Vector
<1> QED  BY <1>1, <1>2, InitTypes, PTL DEF Spec

--------------------------------------------------------------------------------
\* Pins.  Between two steps of a hand-over the state of passthrough runs ahead of the pins
\* or behind them; the invariant says by how much.

NoneSerial   == \A m \in Motor : owner[m] # "serial"
OnlySerial(k) == \A m \in Motor : owner[m] = "serial" <=> m = k

AtRest ==
  /\ serial.started <=> pt.active
  /\ pt.active => serial.pin = pt.motor /\ OnlySerial(pt.motor)
  /\ ~pt.active => NoneSerial

Leaving ==
  /\ pt.active /\ ~serial.started
  /\ pc = "end_pin" => OnlySerial(pt.motor)
  /\ pc = "end_state" => NoneSerial

Entering ==
  /\ pt.active /\ ~serial.started /\ pt.motor = target
  /\ pc \in {"stop", "pin"} => NoneSerial
  /\ pc = "start" => serial.pin = target /\ OnlySerial(target)

Pins ==
  /\ pc \notin Busy => AtRest
  /\ pc \in {"end_pin", "end_state"} => Leaving
  /\ pc \in {"stop", "pin", "start"} => Entering

\* A step that goes from one settled place to another.
LEMMA StaySettled ==
  ASSUME Pins, pc \notin Busy, pc' \notin Busy,
         UNCHANGED <<serial, owner>>, pt'.active = pt.active, pt'.motor = pt.motor
  PROVE  Pins'
<1>1. AtRest  BY DEF Pins
<1>2. AtRest'  BY <1>1 DEF AtRest, NoneSerial, OnlySerial
<1> QED  BY <1>2 DEF Pins, Busy

\* A step of another process.
LEMMA StayWhere ==
  ASSUME Pins, UNCHANGED <<pc, serial, owner, pt, target>>
  PROVE  Pins'
BY DEF Pins, AtRest, Leaving, Entering, NoneSerial, OnlySerial, Busy

LEMMA StepPins ==
  ASSUME Types, Pins, Next
  PROVE  Pins'
<1> USE DEF Types
<1>1. CASE app_run_iteration
  <2>1. pc \notin Busy /\ pc' \notin Busy /\ UNCHANGED <<serial, owner, pt>>
    BY <1>1, AppLoop DEF app_run_iteration, Busy
  <2> QED  BY <2>1, StaySettled
<1>2. CASE EndSerial
  <2>1. CASE pt.active
    <3>1. AtRest  BY <1>2 DEF EndSerial, Pins, Busy
    <3>2. pc' = "end_pin" /\ serial' = [serial EXCEPT !.started = FALSE] /\ UNCHANGED <<pt, owner>>
      BY <1>2, <2>1 DEF EndSerial
    <3>3. ~serial'.started  BY <3>2 DEF LoopOK
    <3>4. Leaving'  BY <2>1, <3>1, <3>2, <3>3 DEF Leaving, AtRest, OnlySerial
    <3> QED  BY <3>2, <3>4 DEF Pins, Busy
  <2>2. CASE ~pt.active
    <3>1. Continue(todo) /\ todo \in Seq(Calls) /\ pc = "end" /\ UNCHANGED <<serial, owner>>
      BY <1>2, <2>2 DEF EndSerial, LoopOK
    <3>2. pc \notin Busy /\ pc' \notin Busy  BY <3>1, ContinueTypes DEF Busy
    <3>3. pt'.active = pt.active /\ pt'.motor = pt.motor
      BY <1>2, <2>2, RefreshTypes DEF EndSerial, LoopOK
    <3> QED  BY <3>1, <3>2, <3>3, StaySettled
  <2> QED  BY <2>1, <2>2
<1>3. CASE GiveBackPin
  <2>1. Leaving /\ OnlySerial(pt.motor)  BY <1>3 DEF GiveBackPin, Pins, Leaving
  <2>2. /\ pc' = "end_state" /\ owner' = [owner EXCEPT ![pt.motor] = "dshot"]
        /\ UNCHANGED <<pt, serial>>
    BY <1>3 DEF GiveBackPin
  <2>3. NoneSerial'  BY <2>1, <2>2 DEF NoneSerial, OnlySerial, LoopOK
  <2>4. Leaving'  BY <2>1, <2>2, <2>3 DEF Leaving
  <2> QED  BY <2>2, <2>4 DEF Pins, Busy
<1>4. CASE EndState
  <2>1. Leaving /\ NoneSerial  BY <1>4 DEF EndState, Pins, Leaving
  <2>2. pt'.active = FALSE /\ UNCHANGED <<serial, owner>>
    BY <1>4, EndedTypes DEF EndState, LoopOK
  <2>3. pc' \notin Busy  BY <1>4, ContinueTypes DEF EndState, LoopOK, Busy
  <2>4. AtRest'  BY <2>1, <2>2 DEF AtRest, Leaving, NoneSerial
  <2> QED  BY <2>3, <2>4 DEF Pins, Busy
<1>5. CASE Sleep \/ Precharge
  <2>1. pc \notin Busy /\ UNCHANGED <<serial, owner, pt>>  BY <1>5 DEF Sleep, Precharge, Busy
  <2>2. pc' \notin Busy  BY <1>5, ContinueTypes DEF Sleep, Precharge, LoopOK, Busy
  <2> QED  BY <2>1, <2>2, StaySettled
<1>6. CASE BeginState
  <2>1. pc = "begin" /\ AtRest /\ UNCHANGED <<serial, owner, target>>
    BY <1>6 DEF BeginState, Pins, Busy
  <2>2. CASE pt.active
    <3>1. pc \notin Busy /\ pc' \notin Busy /\ pt' = pt
      BY <1>6, <2>1, <2>2 DEF BeginState, Busy
    <3> QED  BY <2>1, <3>1, StaySettled
  <2>3. CASE ~pt.active
    <3>1. pc' = "stop" /\ pt'.active = TRUE /\ pt'.motor = target
      BY <1>6, <2>3, BegunTypes DEF BeginState, LoopOK
    <3>2. Entering'  BY <2>1, <2>3, <3>1 DEF Entering, AtRest, NoneSerial
    <3> QED  BY <3>1, <3>2 DEF Pins, Busy
  <2> QED  BY <2>2, <2>3
<1>7. CASE ForceStop
  <2>1. Entering /\ NoneSerial /\ UNCHANGED <<serial, owner, pt, target>>
    BY <1>7 DEF ForceStop, Pins, Entering
  <2>2. pc' \in {"stop", "pin"}  BY <1>7 DEF ForceStop
  <2>3. Entering'  BY <2>1, <2>2 DEF Entering, NoneSerial
  <2> QED  BY <2>2, <2>3 DEF Pins, Busy
<1>8. CASE TakePin
  <2>1. Entering /\ NoneSerial  BY <1>8 DEF TakePin, Pins, Entering
  <2>2. /\ pc' = "start" /\ serial' = [started |-> FALSE, pin |-> target]
        /\ owner' = [owner EXCEPT ![target] = "serial"] /\ UNCHANGED <<pt, target>>
    BY <1>8 DEF TakePin
  <2>3. OnlySerial(target)'  BY <2>1, <2>2 DEF OnlySerial, NoneSerial, LoopOK
  <2>4. Entering'  BY <2>1, <2>2, <2>3 DEF Entering
  <2> QED  BY <2>2, <2>4 DEF Pins, Busy
<1>9. CASE StartSerial
  <2>1. Entering /\ serial.pin = target /\ OnlySerial(target)
    BY <1>9 DEF StartSerial, Pins, Entering
  <2>2. /\ pc' = "delay" /\ serial' = [serial EXCEPT !.started = TRUE]
        /\ UNCHANGED <<pt, owner, target>>
    BY <1>9 DEF StartSerial
  <2>3. serial'.started = TRUE /\ serial'.pin = serial.pin  BY <2>2 DEF LoopOK
  <2>4. AtRest'  BY <2>1, <2>2, <2>3 DEF AtRest, Entering, OnlySerial
  <2> QED  BY <2>2, <2>4 DEF Pins, Busy
<1>10. CASE Decide
  <2>1. pc \notin Busy /\ pc' \notin Busy /\ UNCHANGED <<serial, owner>>
    BY <1>10 DEF Decide, Busy
  <2>2. pt'.active = pt.active /\ pt'.motor = pt.motor
    BY <1>10, RefreshTypes DEF Decide, LoopOK
  <2> QED  BY <2>1, <2>2, StaySettled
<1>11. CASE SetMask \/ SetValue
  <2>1. pc \notin Busy /\ pc' \notin Busy /\ UNCHANGED <<serial, owner, pt>>
    BY <1>11 DEF SetMask, SetValue, Busy
  <2> QED  BY <2>1, StaySettled
<1>12. CASE dshot_timer_callback \/ (\E m \in Motor : SendFrame(m)) \/ Tick
  <2>1. UNCHANGED <<pc, serial, owner, pt, target>>
    BY <1>12 DEF dshot_timer_callback, SendFrame, Tick, loopVars
  <2> QED  BY <2>1, StayWhere
<1> QED
  BY <1>1, <1>2, <1>3, <1>4, <1>5, <1>6, <1>7, <1>8, <1>9, <1>10, <1>11, <1>12
  DEF Next, Main

\* esc_passthrough_begin, esc_passthrough_end, hal_dshot_set_passthrough: the pins follow
\* the passthrough through every hand-over, for any number of motors and any sequence of
\* commands, and a running serial port never shares its pin.
THEOREM PinsFollow == Spec => []PinsFollowPassthrough
<1>1. Init => Pins
  <2> SUFFICES ASSUME Init PROVE Pins  OBVIOUS
  <2>1. AtRest  BY DEF Init, AtRest, InitialState, NoneSerial
  <2> QED  BY <2>1 DEF Init, Pins, Busy
<1>2. Types /\ Pins /\ [Next]_vars => Types' /\ Pins'
  <2> SUFFICES ASSUME Types, Pins, [Next]_vars PROVE Types' /\ Pins'  OBVIOUS
  <2>1. CASE Next
    BY <2>1, StepLoop, StepMotors, StepFlags, StepAges, StepPins DEF Types
  <2>2. CASE UNCHANGED vars
    <3>1. Types'
      BY <2>2 DEF vars, loopVars, motorVars, sharedVars, decideVars, historyVars,
                  Types, LoopOK, MotorsOK, FlagsOK, AgesOK
    <3>2. Pins'  BY <2>2, StayWhere DEF vars, loopVars
    <3> QED  BY <3>1, <3>2
  <2> QED  BY <2>1, <2>2
<1>3. Types /\ Pins => PinsFollowPassthrough
  <2> SUFFICES ASSUME Types, Pins PROVE PinsFollowPassthrough  OBVIOUS
  <2>1. CASE pc \notin Busy
    BY <2>1 DEF Types, LoopOK, Pins, AtRest, OnlySerial, NoneSerial, PinsFollowPassthrough,
                SharedState
  <2>2. CASE pc \in Busy
    <3>1. ~serial.started  BY <2>2 DEF Pins, Leaving, Entering, Busy
    <3> QED  BY <2>2, <3>1 DEF PinsFollowPassthrough
  <2> QED  BY <2>1, <2>2
<1> QED  BY <1>1, <1>2, <1>3, InitTypes, PTL DEF Spec

--------------------------------------------------------------------------------
\* What the motors hear.  The main loop writes mask and value of one motor after the other
\* while the interrupt reads both, and the frames of a state machine that was stopped wait
\* in its FIFO; the invariants say what may be found on the way.

Loop     == {"mask", "value"}
Taking   == {"begin", "stop", "pin", "start", "delay"}
HandOver == {"end", "end_pin", "end_state", "sleep"} \cup Taking
Idle     == {0, 48}

\* The loop has written the mask, or mask and value, of motor m since msp_task was called.
ValueWritten(m) == pc = "app" \/ (pc \in Loop /\ m < i)
MaskWritten(m)  == ValueWritten(m) \/ (pc = "value" /\ m = i)

\* The mask follows passthrough, and a masked motor gets zero as soon as its turn is over.
Masked ==
  /\ pc \in Loop /\ pt.active => mode = "PassthroughBlocked"
  /\ \A m \in Motor : MaskWritten(m) => g_dshot_passthrough_mask[m] = pt.active
  /\ \A m \in Motor : g_dshot_passthrough_mask[m] =>
                        g_dshot_values[m] = 0 \/ (pc = "value" /\ m = i)

\* Where the steps of a hand-over lead, and what they leave alone.
LEMMA HandOverSteps ==
  ASSUME Types,
         EndSerial \/ GiveBackPin \/ EndState \/ Sleep \/ BeginState \/ ForceStop
           \/ TakePin \/ StartSerial \/ Precharge
  PROVE  /\ pc \in HandOver /\ pc' \in HandOver \cup {"decide"}
         /\ UNCHANGED <<now, decideVars, sharedVars, tx, last_activity, spun, set_age>>
<1> USE DEF Types, LoopOK, HandOver, Taking, motorVars
<1>1. CASE EndSerial
  <2>1. CASE pt.active  BY <1>1, <2>1 DEF EndSerial
  <2>2. CASE ~pt.active
    <3>1. pc' \in {"decide", "end", "sleep", "begin"}
      BY <1>1, <2>2, ContinueTypes DEF EndSerial
    <3> QED  BY <1>1, <3>1 DEF EndSerial
  <2> QED  BY <2>1, <2>2
<1>2. CASE EndState \/ Sleep \/ Precharge
  <2>1. pc' \in {"decide", "end", "sleep", "begin"}
    BY <1>2, ContinueTypes DEF EndState, Sleep, Precharge
  <2> QED  BY <1>2, <2>1 DEF EndState, Sleep, Precharge
<1>3. CASE GiveBackPin \/ BeginState \/ ForceStop \/ TakePin \/ StartSerial
  BY <1>3 DEF GiveBackPin, BeginState, ForceStop, TakePin, StartSerial
<1> QED  BY <1>1, <1>2, <1>3

\* The interrupt, the state machines and the clock do not touch what the loop decides.
LEMMA OtherSteps ==
  ASSUME dshot_timer_callback \/ (\E m \in Motor : SendFrame(m)) \/ Tick
  PROVE  UNCHANGED <<loopVars, pt, decideVars, sharedVars, last_activity>>
BY DEF dshot_timer_callback, SendFrame, Tick

LEMMA AppSteps ==
  ASSUME app_run_iteration
  PROVE  pc = "app" /\ UNCHANGED <<now, i, pt, motorVars, sharedVars, mode,
                                   msp_override_values, msp_override_update, ticked, spun>>
BY DEF app_run_iteration

\* The disjuncts of Next, in the groups the proofs take.
LEMMA Cases ==
  ASSUME Next
  PROVE  \/ app_run_iteration /\ UNCHANGED end_age
         \/ EndSerial \/ GiveBackPin \/ EndState \/ Sleep \/ BeginState \/ ForceStop
              \/ TakePin \/ StartSerial \/ Precharge
         \/ Decide \/ SetMask \/ SetValue
         \/ dshot_timer_callback \/ (\E m \in Motor : SendFrame(m)) \/ Tick
BY DEF Next, Main

LEMMA StepMasked ==
  ASSUME Types, Masked, Next
  PROVE  Masked'
<1> USE DEF Types, FlagsOK
<1>1. CASE app_run_iteration
  <2>1. pc = "app" /\ UNCHANGED <<sharedVars>>  BY <1>1, AppSteps
  <2>2. pc' \in {"decide", "end", "sleep", "begin"}  BY <1>1, AppLoop
  <2> QED  BY <2>1, <2>2 DEF Masked, MaskWritten, ValueWritten, Loop, sharedVars
<1>2. CASE EndSerial \/ GiveBackPin \/ EndState \/ Sleep \/ BeginState \/ ForceStop
             \/ TakePin \/ StartSerial \/ Precharge
  <2>1. /\ pc \in HandOver /\ pc' \in HandOver \cup {"decide"}
        /\ UNCHANGED sharedVars
    BY <1>2, HandOverSteps
  <2> QED  BY <2>1 DEF Masked, MaskWritten, ValueWritten, Loop, HandOver, Taking, sharedVars
<1>3. CASE Decide
  <2>1. pc = "decide" /\ pc' = "mask" /\ i' = 0 /\ UNCHANGED sharedVars  BY <1>3 DEF Decide
  <2>2. pt'.active => mode' = "PassthroughBlocked"
    <3>1. pt'.active = pt.active /\ pt' = refresh_dshot_forced_off(pt, now)
      BY <1>3, RefreshTypes DEF Decide, LoopOK
    <3>2. pt.active => pt'.forced_off
      BY <3>1, Zenon DEF refresh_dshot_forced_off, LoopOK, SharedState
    <3> QED  BY <1>3, <3>1, <3>2 DEF Decide, determine_motor_line_mode
  <2>3. \A m \in Motor : ~MaskWritten(m)'
    BY <2>1 DEF MaskWritten, ValueWritten, Loop, Motor
  <2> QED  BY <2>1, <2>2, <2>3 DEF Masked, Loop, sharedVars
<1>4. CASE SetMask
  <2>1. /\ pc = "mask" /\ pc' = "value" /\ UNCHANGED <<i, pt, mode, g_dshot_values>>
        /\ g_dshot_passthrough_mask' = [g_dshot_passthrough_mask EXCEPT ![i] = pt.active]
    BY <1>4 DEF SetMask, decideVars
  <2>2. i \in Motor /\ pt.active \in BOOLEAN  BY DEF LoopOK, SharedState
  <2>3. ASSUME NEW m \in Motor, m # i
        PROVE  g_dshot_passthrough_mask'[m] = g_dshot_passthrough_mask[m]
    BY <2>1, <2>3
  <2>4. g_dshot_passthrough_mask'[i] = pt.active  BY <2>1, <2>2
  <2>5. ASSUME NEW m \in Motor, MaskWritten(m)'
        PROVE  g_dshot_passthrough_mask'[m] = pt'.active
    <3>1. CASE m = i  BY <3>1, <2>1, <2>4
    <3>2. CASE m # i
      <4>1. MaskWritten(m)
        BY <2>1, <2>5, <3>2 DEF MaskWritten, ValueWritten, Loop
      <4> QED  BY <4>1, <2>1, <2>3, <3>2 DEF Masked
    <3> QED  BY <3>1, <3>2
  <2>6. ASSUME NEW m \in Motor, g_dshot_passthrough_mask'[m]
        PROVE  g_dshot_values'[m] = 0 \/ (pc' = "value" /\ m = i')
    BY <2>1, <2>3, <2>6 DEF Masked
  <2> QED  BY <2>1, <2>5, <2>6 DEF Masked, Loop
<1>5. CASE SetValue
  <2>1. /\ pc = "value" /\ UNCHANGED <<pt, mode, g_dshot_passthrough_mask>>
        /\ g_dshot_values' = [g_dshot_values EXCEPT ![i] = resolve_motor_output(i)]
        /\ \/ i = HAL_MAX_MOTORS - 1 /\ pc' = "app"
           \/ pc' = "mask" /\ i' = i + 1
    BY <1>5 DEF SetValue, decideVars
  <2>2. i \in Motor /\ g_dshot_values \in [Motor -> Throttle]  BY DEF LoopOK, MotorsOK
  <2>3. ASSUME NEW m \in Motor, MaskWritten(m)'
        PROVE  g_dshot_passthrough_mask'[m] = pt'.active
    <3>1. MaskWritten(m)
      BY <2>1, <2>2, <2>3, PassthroughAssumption
      DEF MaskWritten, ValueWritten, Loop, Motor
    <3> QED  BY <2>1, <3>1 DEF Masked
  <2>4. ASSUME NEW m \in Motor, g_dshot_passthrough_mask'[m]
        PROVE  g_dshot_values'[m] = 0
    <3>1. CASE m = i
      <4>1. MaskWritten(m)  BY <2>1, <3>1 DEF MaskWritten
      <4>2. pt.active  BY <2>1, <2>4, <4>1 DEF Masked
      <4>3. mode = "PassthroughBlocked"  BY <2>1, <4>2 DEF Masked, Loop
      <4>4. resolve_motor_output(i) = 0  BY <4>3 DEF resolve_motor_output
      <4> QED  BY <2>1, <2>2, <3>1, <4>4
    <3>2. CASE m # i
      BY <2>1, <2>2, <2>4, <3>2 DEF Masked
    <3> QED  BY <3>1, <3>2
  <2> QED  BY <2>1, <2>3, <2>4 DEF Masked, Loop
<1>6. CASE dshot_timer_callback \/ (\E m \in Motor : SendFrame(m)) \/ Tick
  <2>1. UNCHANGED <<loopVars, pt, decideVars, sharedVars>>  BY <1>6, OtherSteps
  <2> QED
    BY <2>1 DEF Masked, MaskWritten, ValueWritten, loopVars, decideVars, sharedVars
<1> QED  BY <1>1, <1>2, <1>3, <1>4, <1>5, <1>6, Cases

--------------------------------------------------------------------------------
\* The clock.  The end of the block on DShot is told from the age of the last passthrough,
\* and an override is at least as old as the last SET_MOTOR.

Newest == IF mailbox.valid THEN mailbox.update ELSE msp_override_update

Clocked ==
  /\ end_age < AGE_MAX => pt.block_until = (now + (DshotResumeDelay - end_age)) % Wrap
  /\ last_activity <= now
  /\ Newest > 0 => Newest <= last_activity /\ set_age <= now - Newest

LEMMA StepBlock ==
  ASSUME Types, Clocked, Next
  PROVE  (end_age < AGE_MAX => pt.block_until = (now + (DshotResumeDelay - end_age)) % Wrap)'
<1> USE DEF Types, LoopOK
<1>1. CASE EndState
  <2>1. /\ end_age' = 0 /\ now' = now
        /\ pt'.block_until = (now + DshotResumeDelay) % Wrap
    BY <1>1 DEF EndState, Ended, SharedState
  <2>2. DshotResumeDelay - 0 = DshotResumeDelay  BY Constants
  <2> QED  BY <2>1, <2>2
<1>2. CASE Tick
  <2>1. UNCHANGED pt /\ now' = now + 1  BY <1>2 DEF Tick
  <2>2. CASE end_age < AGE_MAX
    <3>1. end_age' = end_age + 1  BY <1>2, <2>2 DEF Tick
    <3>2. now + 1 + (DshotResumeDelay - (end_age + 1)) = now + (DshotResumeDelay - end_age)
      BY Constants DEF Time, AgesOK
    <3> QED  BY <2>1, <2>2, <3>1, <3>2 DEF Clocked
  <2>3. CASE ~(end_age < AGE_MAX)
    BY <1>2, <2>3 DEF Tick
  <2> QED  BY <2>2, <2>3
<1>3. CASE ~EndState /\ ~Tick
  <2>1. UNCHANGED <<now, end_age>> /\ AGE_MAX' = AGE_MAX
    BY <1>3 DEF Next, Main, app_run_iteration, EndSerial, GiveBackPin, Sleep, BeginState,
                ForceStop, TakePin, StartSerial, Precharge, Decide, SetMask, SetValue,
                dshot_timer_callback, SendFrame, AGE_MAX
  <2>2. pt'.block_until = pt.block_until
    <3>1. CASE BeginState  BY <3>1 DEF BeginState, Begun, SharedState
    <3>2. CASE EndSerial \/ Decide
      <4>1. \/ pt' = pt
            \/ pt' = [pt EXCEPT !.forced_off = pt.active \/ time_before(now, pt.block_until)]
        BY <3>2 DEF EndSerial, Decide, refresh_dshot_forced_off
      <4> QED  BY <4>1 DEF SharedState
    <3>3. CASE ~BeginState /\ ~EndSerial /\ ~Decide
      BY <1>3, <3>3
      DEF Next, Main, app_run_iteration, GiveBackPin, Sleep, ForceStop, TakePin,
          StartSerial, Precharge, SetMask, SetValue, dshot_timer_callback, SendFrame
    <3> QED  BY <3>1, <3>2, <3>3
  <2> QED  BY <2>1, <2>2 DEF Clocked
<1> QED  BY <1>1, <1>2, <1>3

LEMMA StepClocked ==
  ASSUME Types, Clocked, Next
  PROVE  Clocked'
<1> USE DEF Types
<1> SUFFICES (/\ last_activity <= now
              /\ Newest > 0 => Newest <= last_activity /\ set_age <= now - Newest)'
  BY StepBlock DEF Clocked
<1>0. /\ now \in Time /\ last_activity \in Time /\ msp_override_update \in Time
      /\ mailbox \in [valid: BOOLEAN, values: Vector, update: Time]
      /\ set_age \in 0 .. SET_AGE_MAX
  BY DEF LoopOK, MotorsOK, AgesOK
<1>00. Newest \in Time  BY <1>0 DEF Newest
<1> USE <1>0, <1>00, PassthroughAssumption, Constants DEF Time
<1>1. CASE app_run_iteration
  <2>1. UNCHANGED <<now, msp_override_update>>  BY <1>1, AppSteps
  <2>2. last_activity' \in {last_activity, now}
    BY <1>1 DEF app_run_iteration, Quiet, SetMotor, SetPassthrough, SelectMotor,
                RestartMotor, LeavePassthrough
  <2>3. CASE SetMotor
    <3>1. Newest' = now /\ last_activity' = now /\ set_age' = 0
      <4>1. PICK v \in Vectors : mailbox' = [valid |-> TRUE, values |-> v, update |-> now]
        BY <2>3 DEF SetMotor
      <4> QED  BY <2>3, <4>1 DEF SetMotor, Newest
    <3> QED  BY <2>1, <3>1
  <2>4. CASE ~SetMotor
    <3>1. UNCHANGED <<mailbox, set_age>>
      BY <1>1, <2>4 DEF app_run_iteration, Quiet, SetPassthrough, SelectMotor,
                        RestartMotor, LeavePassthrough
    <3>2. Newest' = Newest  BY <2>1, <3>1 DEF Newest
    <3> QED  BY <2>1, <2>2, <3>1, <3>2 DEF Clocked
  <2> QED  BY <2>3, <2>4
<1>2. CASE \/ EndSerial \/ GiveBackPin \/ EndState \/ Sleep \/ BeginState \/ ForceStop
             \/ TakePin \/ StartSerial \/ Precharge
           \/ SetMask \/ SetValue \/ dshot_timer_callback
           \/ \E m \in Motor : SendFrame(m)
  <2>1. UNCHANGED <<now, decideVars, last_activity, set_age>>
    <3>1. CASE EndSerial \/ GiveBackPin \/ EndState \/ Sleep \/ BeginState \/ ForceStop
                 \/ TakePin \/ StartSerial \/ Precharge
      BY <3>1, HandOverSteps
    <3>2. CASE \/ SetMask \/ SetValue \/ dshot_timer_callback
               \/ \E m \in Motor : SendFrame(m)
      BY <3>2 DEF SetMask, SetValue, dshot_timer_callback, SendFrame
    <3> QED  BY <1>2, <3>1, <3>2
  <2>2. Newest' = Newest  BY <2>1 DEF Newest, decideVars
  <2> QED  BY <2>1, <2>2 DEF Clocked
<1>3. CASE Decide
  <2>1. UNCHANGED <<now, last_activity, set_age>>  BY <1>3 DEF Decide
  <2>2. Newest' = Newest
    <3>1. mailbox'.valid = FALSE  BY <1>3 DEF Decide
    <3>2. msp_override_update' = Newest  BY <1>3 DEF Decide, Newest
    <3> QED  BY <3>1, <3>2 DEF Newest
  <2> QED  BY <2>1, <2>2 DEF Clocked
<1>4. CASE Tick
  <2>1. UNCHANGED <<mailbox, msp_override_update, last_activity>> /\ now' = now + 1
        /\ set_age' <= set_age + 1
    BY <1>4 DEF Tick, decideVars
  <2>2. Newest' = Newest  BY <2>1 DEF Newest
  <2>3. set_age' \in Nat  BY <1>4 DEF Tick
  <2> QED  BY <2>1, <2>2, <2>3 DEF Clocked
<1> QED  BY <1>1, <1>2, <1>3, <1>4, Cases

\* While a passthrough is on or the delay after it runs, DShot is forced off.
LEMMA OffWhileYoung ==
  ASSUME Types, Clocked, end_age < DshotResumeDelay
  PROVE  time_before(now, pt.block_until)
<1> DEFINE d == DshotResumeDelay - end_age
<1>1. d \in Nat /\ d >= 1 /\ 2 * d <= Wrap
  BY PassthroughAssumption DEF Types, AgesOK
<1>2. pt.block_until = (now + d) % Wrap  BY Constants DEF Clocked, AGE_MAX, Types, AgesOK
<1>3. now \in 0 .. Wrap - 1 /\ Wrap \in Nat \ {0}
  BY PassthroughAssumption DEF Types, LoopOK, Time
<1> HIDE DEF d
<1>4. (now - ((now + d) % Wrap)) % Wrap = Wrap - d
  <2>1. CASE now + d < Wrap
    <3>1. (now + d) % Wrap = now + d  BY <1>1, <1>3, <2>1
    <3>2. now - (now + d) = -d  BY <1>1, <1>3
    <3>3. (-d) % Wrap = Wrap - d  BY <1>1, <1>3
    <3> QED  BY <3>1, <3>2, <3>3
  <2>2. CASE now + d >= Wrap
    <3>1. (now + d) % Wrap = now + d - Wrap  BY <1>1, <1>3, <2>2
    <3>2. now - (now + d - Wrap) = Wrap - d  BY <1>1, <1>3
    <3>3. (Wrap - d) % Wrap = Wrap - d  BY <1>1, <1>3
    <3> QED  BY <3>1, <3>2, <3>3
  <2> QED  BY <1>1, <1>3, <2>1, <2>2
<1> QED  BY <1>1, <1>2, <1>3, <1>4 DEF time_before

--------------------------------------------------------------------------------
\* After passthrough.  A mask that is taken away finds zero behind it: the values were
\* written under the mask, and until the delay is over the loop goes on writing zero.

Hushed ==
  hushed => /\ ~pt.active => end_age < DshotResumeDelay
            /\ pc \in Loop => mode = "PassthroughBlocked"
            /\ \A m \in Motor : g_dshot_passthrough_mask[m] \/ g_dshot_values[m] = 0
            /\ \A m \in Motor : tx[m] \in Seq({0})

LEMMA StepHushed ==
  ASSUME Types, Masked, Masked', Clocked, Hushed, Next
  PROVE  Hushed'
<1> USE DEF Types, FlagsOK
<1> SUFFICES ASSUME hushed'
             PROVE  (/\ ~pt.active => end_age < DshotResumeDelay
                     /\ pc \in Loop => mode = "PassthroughBlocked"
                     /\ \A m \in Motor : g_dshot_passthrough_mask[m] \/ g_dshot_values[m] = 0
                     /\ \A m \in Motor : tx[m] \in Seq({0}))'
  BY DEF Hushed
<1>1. ~pt'.active => end_age' < DshotResumeDelay'  BY DEF Next, Hush
<1>2. CASE pt'.active /\ \A m \in Motor : g_dshot_passthrough_mask'[m] /\ tx'[m] = <<>>
  <2>1. \A m \in Motor : tx'[m] \in Seq({0})  BY <1>2, EmptySeq
  <2> QED  BY <1>2, <2>1 DEF Masked
<1>3. CASE hushed
  <2> DEFINE Calm == /\ \A m \in Motor : g_dshot_passthrough_mask[m] \/ g_dshot_values[m] = 0
                     /\ \A m \in Motor : tx[m] \in Seq({0})
  <2>0. /\ ~pt.active => end_age < DshotResumeDelay
        /\ pc \in Loop => mode = "PassthroughBlocked"
        /\ Calm
    BY <1>3 DEF Hushed
  <2> SUFFICES (pc' \in Loop => mode' = "PassthroughBlocked") /\ Calm'  BY <1>1
  <2>1. CASE app_run_iteration
    <3>1. UNCHANGED <<motorVars, sharedVars>>  BY <2>1, AppSteps
    <3>2. pc' \notin Loop  BY <2>1, AppLoop DEF Loop
    <3> QED  BY <2>0, <3>1, <3>2 DEF motorVars, sharedVars
  <2>2. CASE EndSerial \/ GiveBackPin \/ EndState \/ Sleep \/ BeginState \/ ForceStop
               \/ TakePin \/ StartSerial \/ Precharge
    <3>1. pc' \in HandOver \cup {"decide"} /\ UNCHANGED <<sharedVars, tx>>
      BY <2>2, HandOverSteps
    <3> QED  BY <2>0, <3>1 DEF sharedVars, Loop, HandOver, Taking
  <2>3. CASE Decide
    <3>1. UNCHANGED <<tx, sharedVars>>  BY <2>3 DEF Decide, motorVars
    <3>2. pt.active \/ time_before(now, pt.block_until)  BY <2>0, OffWhileYoung
    <3>3. refresh_dshot_forced_off(pt, now).forced_off
      BY <3>2, Zenon DEF refresh_dshot_forced_off, LoopOK, SharedState
    <3>4. mode' = "PassthroughBlocked"
      BY <2>3, <3>3 DEF Decide, determine_motor_line_mode
    <3> QED  BY <2>0, <3>1, <3>4 DEF sharedVars
  <2>4. CASE SetMask
    <3>1. /\ pc = "mask" /\ UNCHANGED <<mode, g_dshot_values, tx>>
          /\ g_dshot_passthrough_mask' = [g_dshot_passthrough_mask EXCEPT ![i] = pt.active]
      BY <2>4 DEF SetMask, decideVars, motorVars
    <3>2. ASSUME NEW m \in Motor PROVE g_dshot_passthrough_mask'[m] \/ g_dshot_values'[m] = 0
      <4>1. CASE m = i
        <5>1. g_dshot_values[m] = 0  BY <2>0, <3>1 DEF Masked
        <5> QED  BY <3>1, <5>1
      <4>2. CASE m # i
        <5>1. g_dshot_passthrough_mask'[m] = g_dshot_passthrough_mask[m]  BY <3>1, <4>2
        <5> QED  BY <2>0, <3>1, <5>1
      <4> QED  BY <4>1, <4>2
    <3> QED  BY <2>0, <3>1, <3>2 DEF Loop
  <2>5. CASE SetValue
    <3>1. /\ pc = "value" /\ UNCHANGED <<mode, g_dshot_passthrough_mask, tx>>
          /\ g_dshot_values' = [g_dshot_values EXCEPT ![i] = resolve_motor_output(i)]
      BY <2>5 DEF SetValue, decideVars, motorVars
    <3>2. mode = "PassthroughBlocked"  BY <2>0, <3>1 DEF Loop
    <3>3. resolve_motor_output(i) = 0  BY <3>2 DEF resolve_motor_output
    <3>4. \A m \in Motor : g_dshot_values'[m] \in {0, g_dshot_values[m]}
      BY <3>1, <3>3 DEF MotorsOK
    <3> QED  BY <2>0, <3>1, <3>2, <3>4
  <2>6. CASE dshot_timer_callback
    <3>1. UNCHANGED <<loopVars, decideVars, sharedVars>>  BY <2>6, OtherSteps
    <3>2. ASSUME NEW m \in Motor PROVE tx'[m] \in Seq({0})
      <4>1. tx[m] \in Seq({0})  BY <2>0
      <4>2. CASE g_dshot_passthrough_mask[m]
        BY <2>6, <4>1, <4>2 DEF dshot_timer_callback
      <4>3. CASE ~g_dshot_passthrough_mask[m]
        <5>1. g_dshot_values[m] = 0  BY <2>0, <4>3
        <5>2. tx'[m] = Append(tx[m], 0)  BY <2>6, <4>3, <5>1 DEF dshot_timer_callback
        <5> QED  BY <4>1, <5>2, AppendProperties
      <4> QED  BY <4>2, <4>3
    <3> QED  BY <2>0, <3>1, <3>2 DEF loopVars, decideVars, sharedVars
  <2>7. CASE \E m \in Motor : SendFrame(m)
    <3>1. UNCHANGED <<loopVars, decideVars, sharedVars>>  BY <2>7, OtherSteps
    <3>2. PICK m \in Motor : tx[m] # <<>> /\ tx' = [tx EXCEPT ![m] = Tail(tx[m])]
      BY <2>7 DEF SendFrame
    <3>3. Tail(tx[m]) \in Seq({0})  BY <2>0, <3>2, HeadTailProperties
    <3>4. \A n \in Motor : tx'[n] \in Seq({0})  BY <2>0, <3>2, <3>3 DEF MotorsOK
    <3> QED  BY <2>0, <3>1, <3>4 DEF loopVars, decideVars, sharedVars
  <2>8. CASE Tick
    BY <2>0, <2>8 DEF Tick, loopVars, decideVars, motorVars, sharedVars
  <2> QED  BY <2>1, <2>2, <2>3, <2>4, <2>5, <2>6, <2>7, <2>8, Cases
<1> QED  BY <1>2, <1>3 DEF Next, Hush

Decided == Types /\ Masked /\ Clocked

LEMMA InitDecided == Init => Decided /\ Hushed
<1> SUFFICES ASSUME Init PROVE Decided /\ Hushed  OBVIOUS
<1>1. Types  BY InitTypes
<1>2. Masked  BY DEF Init, Masked, MaskWritten, ValueWritten, InitialState, Loop
<1>3. Clocked
  <2>1. end_age = AGE_MAX /\ AGE_MAX \in Nat  BY Constants DEF Init
  <2>2. last_activity = now /\ now \in Time  BY <1>1 DEF Init, Types, LoopOK
  <2>3. Newest = 0  BY DEF Init, Newest, None
  <2> QED  BY <2>1, <2>2, <2>3 DEF Clocked, Time
<1>4. Hushed  BY DEF Init, Hushed
<1> QED  BY <1>1, <1>2, <1>3, <1>4 DEF Decided

LEMMA StepDecided == Decided /\ [Next]_vars => Decided'
<1> SUFFICES ASSUME Decided, [Next]_vars PROVE Decided'  OBVIOUS
<1>1. CASE Next
  BY <1>1, StepLoop, StepMotors, StepFlags, StepAges, StepMasked, StepClocked
  DEF Decided, Types
<1>2. CASE UNCHANGED vars
  <2> USE <1>2 DEF vars, loopVars, motorVars, sharedVars, decideVars, historyVars
  <2>1. Types'  BY DEF Decided, Types, LoopOK, MotorsOK, FlagsOK, AgesOK
  <2>2. Masked'  BY DEF Decided, Masked, MaskWritten, ValueWritten
  <2>3. Clocked'  BY DEF Decided, Clocked, Newest
  <2> QED  BY <2>1, <2>2, <2>3 DEF Decided
<1> QED  BY <1>1, <1>2

\* esc_passthrough.cpp, pico_main.cpp, dshot_timer_callback: once a passthrough has silenced
\* the motors, and for the resume delay after it, no motor is sent anything but zero,
\* wherever the interrupt falls between the writes of the loop.
THEOREM SilentAfterPassthrough == Spec => OnlyZeroAfterPassthrough
<1>1. Init => Decided /\ Hushed  BY InitDecided
<1>2. Decided /\ Hushed /\ [Next]_vars => (Decided /\ Hushed)'
  <2> SUFFICES ASSUME Decided, Hushed, [Next]_vars PROVE Hushed'  BY StepDecided
  <2>1. CASE Next  BY <2>1, StepDecided, StepHushed DEF Decided
  <2>2. CASE UNCHANGED vars
    BY <2>2 DEF vars, loopVars, motorVars, sharedVars, decideVars, historyVars, Hushed
  <2> QED  BY <2>1, <2>2
<1>3. ASSUME Hushed
      PROVE  [\A m \in Motor : Delivered(m) /\ hushed => Head(tx[m]) = 0]_vars
  <2>1. ASSUME NEW m \in Motor, Delivered(m), hushed PROVE Head(tx[m]) = 0
    <3>1. tx[m] \in Seq({0}) /\ tx[m] # <<>>  BY <1>3, <2>1 DEF Hushed, Delivered
    <3> QED  BY <3>1, HeadTailProperties
  <2> QED  BY <2>1
<1> QED  BY <1>1, <1>2, <1>3, PTL DEF Spec, OnlyZeroAfterPassthrough

--------------------------------------------------------------------------------
\* Frames left behind.  A state machine is stopped with frames in its FIFO only while the
\* pin of the first passthrough is taken; every other hand-over finds the FIFOs empty and
\* the motors masked.

Drained ==
  /\ \A m \in Motor : ~sm[m] /\ tx[m] # <<>> =>
       pc \in Taking \ {"begin"} /\ (pc = "delay" => ~ticked)
  /\ pc \in HandOver =>
       \/ \A m \in Motor : g_dshot_passthrough_mask[m] /\ tx[m] = <<>>
       \/ /\ todo = <<>> /\ pc \in Taking /\ (pc = "begin" => ~pt.active)
          /\ \A m \in Motor : ~g_dshot_passthrough_mask[m]

\* Outside a hand-over, a settled motor has no frame at all.
LEMMA NoFrames ==
  ASSUME Types, Drained, pc \notin Taking, Settled, NEW m \in Motor
  PROVE  tx[m] = <<>>
BY DEF Drained, Settled

LEMMA AppDrained ==
  ASSUME Types, Masked, Drained, app_run_iteration
  PROVE  Drained'
<1> USE DEF Types
<1>1. /\ pc = "app" /\ pc' \in {"decide", "end", "sleep", "begin"}
      /\ UNCHANGED <<motorVars, sharedVars, pt, ticked>>
  BY AppSteps, AppLoop
<1>2. \A m \in Motor : g_dshot_passthrough_mask[m] = pt.active
  BY <1>1 DEF Masked, MaskWritten, ValueWritten
<1>3. \A m \in Motor : sm[m] \/ tx[m] = <<>>  BY <1>1 DEF Drained, Taking
<1>4. CASE FourWayCommand
  BY <1>1, <1>2, <1>3, <1>4 DEF Drained, FourWayCommand, Settled, motorVars, sharedVars
<1>5. CASE ~FourWayCommand
  <2>1. Quiet \/ SetMotor \/ SetPassthrough
    BY <1>5 DEF app_run_iteration, SelectMotor, RestartMotor, LeavePassthrough
  <2>2. pc' = "decide" \/ (pc' = "begin" /\ todo' = <<>> /\ ~pt.active)
    BY <2>1 DEF Quiet, SetMotor, SetPassthrough, Continue
  <2> QED
    BY <1>1, <1>2, <1>3, <2>2 DEF Drained, HandOver, Taking, motorVars, sharedVars
<1> QED  BY <1>4, <1>5

LEMMA StepDrained ==
  ASSUME Types, Masked, Drained, Next
  PROVE  Drained'
<1> USE DEF Types, FlagsOK, MotorsOK
<1>1. CASE app_run_iteration  BY <1>1, AppDrained
<1>2. CASE EndSerial \/ GiveBackPin \/ EndState \/ Sleep \/ BeginState \/ ForceStop
             \/ TakePin \/ StartSerial \/ Precharge
  <2>1. /\ pc \in HandOver /\ pc' \in HandOver \cup {"decide"}
        /\ UNCHANGED <<sharedVars, tx>>
    BY <1>2, HandOverSteps
  <2>2. CASE \A m \in Motor : g_dshot_passthrough_mask[m] /\ tx[m] = <<>>
    BY <2>1, <2>2 DEF Drained, sharedVars
  <2>3. CASE /\ todo = <<>> /\ pc \in Taking /\ (pc = "begin" => ~pt.active)
             /\ \A m \in Motor : ~g_dshot_passthrough_mask[m]
    <3>1. CASE BeginState
      <4>1. pc = "begin" /\ pc' = "stop" /\ todo' = <<>> /\ sm' = sm
        BY <2>3, <3>1 DEF BeginState, motorVars
      <4> QED  BY <2>1, <2>3, <4>1 DEF Drained, HandOver, Taking, sharedVars
    <3>2. CASE ForceStop \/ TakePin
      <4>1. pc' \in {"stop", "pin", "start"} /\ todo' = todo
        BY <3>2 DEF ForceStop, TakePin
      <4> QED  BY <2>1, <2>3, <4>1 DEF Drained, HandOver, Taking, sharedVars
    <3>3. CASE StartSerial
      BY <2>1, <2>3, <3>3 DEF StartSerial, Drained, HandOver, Taking, sharedVars
    <3>4. CASE Precharge
      <4>1. pc = "delay" /\ ticked /\ pc' = "decide" /\ sm' = sm
        BY <2>3, <3>4 DEF Precharge, Continue, motorVars
      <4>2. \A m \in Motor : sm[m] \/ tx[m] = <<>>  BY <4>1 DEF Drained
      <4> QED  BY <2>1, <4>1, <4>2 DEF Drained, HandOver, Taking
    <3>5. CASE EndSerial \/ GiveBackPin \/ EndState \/ Sleep
      BY <2>3, <3>5 DEF EndSerial, GiveBackPin, EndState, Sleep, Taking
    <3> QED  BY <1>2, <3>1, <3>2, <3>3, <3>4, <3>5
  <2> QED  BY <2>1, <2>2, <2>3 DEF Drained
<1>3. CASE Decide \/ SetMask \/ SetValue
  <2>1. /\ pc \in Loop \cup {"decide"} /\ pc' \in Loop \cup {"app"}
        /\ UNCHANGED motorVars
    BY <1>3 DEF Decide, SetMask, SetValue, Loop
  <2> QED  BY <2>1 DEF Drained, HandOver, Taking, Loop, motorVars
<1>4. CASE dshot_timer_callback
  <2>1. UNCHANGED <<loopVars, pt, sharedVars>>  BY <1>4, OtherSteps
  <2>2. \A m \in Motor : ~sm'[m] => ~sm[m] /\ g_dshot_passthrough_mask[m]
    BY <1>4 DEF dshot_timer_callback
  <2>3. \A m \in Motor : g_dshot_passthrough_mask[m] => tx'[m] = tx[m]
    BY <1>4 DEF dshot_timer_callback
  <2>4. CASE pc \in HandOver
    <3>1. \A m \in Motor : sm'[m] \/ tx'[m] = <<>>  BY <2>2, <2>3, <2>4 DEF Drained
    <3> QED  BY <2>1, <2>3, <2>4, <3>1 DEF Drained, loopVars, sharedVars
  <2>5. CASE pc \notin HandOver
    <3>1. \A m \in Motor : sm[m] \/ tx[m] = <<>>
      BY <2>5 DEF Drained, HandOver
    <3>2. \A m \in Motor : sm'[m] \/ tx'[m] = <<>>  BY <2>2, <2>3, <3>1
    <3> QED  BY <2>1, <2>5, <3>2 DEF Drained, loopVars
  <2> QED  BY <2>4, <2>5
<1>5. CASE \E m \in Motor : SendFrame(m)
  <2>1. UNCHANGED <<loopVars, pt, sharedVars>>  BY <1>5, OtherSteps
  <2>2. PICK k \in Motor : SendFrame(k)  BY <1>5
  <2>3. UNCHANGED <<sm, ticked>> /\ sm[k] /\ tx[k] # <<>>  BY <2>2 DEF SendFrame
  <2>4. \A m \in Motor : m # k => tx'[m] = tx[m]  BY <2>2 DEF SendFrame
  <2>5. \A m \in Motor : ~sm'[m] /\ tx'[m] # <<>> => ~sm[m] /\ tx[m] # <<>>
    BY <2>3, <2>4
  <2> QED  BY <2>1, <2>3, <2>5 DEF Drained, loopVars, sharedVars
<1>6. CASE Tick
  <2>1. UNCHANGED <<loopVars, pt, sharedVars>>  BY <1>6, OtherSteps
  <2>2. UNCHANGED <<motorVars, ticked>>  BY <1>6 DEF Tick
  <2> QED  BY <2>1, <2>2 DEF Drained, loopVars, motorVars, sharedVars
<1> QED  BY <1>1, <1>2, <1>3, <1>4, <1>5, <1>6, Cases

--------------------------------------------------------------------------------
\* Overrides.  A value the host has sent is in the loop, in a value or in a frame no longer
\* than its time, a tick more where the loop has not yet gone round again.

Fresh ==
  /\ pc \in Loop /\ mode = "MspOverride" => set_age < OverrideTimeout
  /\ \A m \in Motor : g_dshot_values[m] \notin Idle =>
       /\ set_age <= OverrideTimeout
       /\ spun \/ (pc \in Loop /\ m < i) => set_age < OverrideTimeout
  /\ set_age > OverrideTimeout => \A m \in Motor : tx[m] \in Seq(Idle)

\* Only an override is something else than a stop or the idle throttle.
LEMMA OnlyOverride ==
  ASSUME NEW m \in Motor, mode # "MspOverride"
  PROVE  resolve_motor_output(m) \in Idle
BY DEF resolve_motor_output, Idle

\* The unsigned difference of two times in order is the difference.
LEMMA ElapsedSince ==
  ASSUME now \in Time, NEW t \in Time, t <= now
  PROVE  Elapsed(now, t) = now - t
BY PassthroughAssumption DEF Elapsed, Time

LEMMA StepFresh ==
  ASSUME Types, Masked, Clocked, Drained, Fresh, Next
  PROVE  Fresh'
<1> USE DEF Types
<1>0. set_age \in Nat /\ OverrideTimeout \in Nat \ {0} /\ set_age' \in Nat
  BY LoopAssumption, StepAges, Constants DEF AgesOK, SET_AGE_MAX
<1>1. CASE app_run_iteration
  <2>1. pc = "app" /\ UNCHANGED <<motorVars, sharedVars, spun>>  BY <1>1, AppSteps
  <2>2. pc' \notin Loop  BY <1>1, AppLoop DEF Loop
  <2>3. set_age' \in {0, set_age}
    BY <1>1 DEF app_run_iteration, Quiet, SetMotor, SetPassthrough, SelectMotor,
                RestartMotor, LeavePassthrough
  <2> QED  BY <1>0, <2>1, <2>2, <2>3 DEF Fresh, motorVars, sharedVars
<1>2. CASE EndSerial \/ GiveBackPin \/ EndState \/ Sleep \/ BeginState \/ ForceStop
             \/ TakePin \/ StartSerial \/ Precharge
  <2>1. /\ pc' \in HandOver \cup {"decide"}
        /\ UNCHANGED <<sharedVars, tx, spun, set_age>>
    BY <1>2, HandOverSteps
  <2> QED  BY <2>1 DEF Fresh, HandOver, Taking, Loop, sharedVars
<1>3. CASE Decide
  <2>1. /\ pc' = "mask" /\ i' = 0 /\ UNCHANGED <<motorVars, sharedVars, spun, set_age, now>>
    BY <1>3 DEF Decide
  <2>2. mode' = "MspOverride" => set_age < OverrideTimeout
    <3> SUFFICES ASSUME mode' = "MspOverride" PROVE set_age < OverrideTimeout  OBVIOUS
    <3>1. msp_override_active(Newest, now)
      BY <1>3 DEF Decide, determine_motor_line_mode, Newest
    <3>2. Newest \in Time /\ last_activity \in Time /\ now \in Time
      BY DEF Newest, LoopOK, MotorsOK
    <3>3. Newest > 0 /\ Newest <= now /\ set_age <= now - Newest
      BY <3>1, <3>2 DEF msp_override_active, Clocked, Time
    <3>4. now - Newest < OverrideTimeout
      BY <3>1, <3>2, <3>3, ElapsedSince DEF msp_override_active
    <3> QED  BY <1>0, <3>2, <3>3, <3>4 DEF Time
  <2>3. \A m \in Motor : ~(m < i')  BY <2>1 DEF Motor
  <2> QED  BY <2>1, <2>2, <2>3 DEF Fresh, motorVars, sharedVars
<1>4. CASE SetMask
  <2>1. /\ pc = "mask" /\ pc' = "value"
        /\ UNCHANGED <<i, mode, g_dshot_values, tx, spun, set_age>>
    BY <1>4 DEF SetMask, decideVars, motorVars
  <2> QED  BY <2>1 DEF Fresh, Loop
<1>5. CASE SetValue
  <2>1. /\ pc = "value" /\ UNCHANGED <<mode, tx, set_age>>
        /\ g_dshot_values' = [g_dshot_values EXCEPT ![i] = resolve_motor_output(i)]
    BY <1>5 DEF SetValue, decideVars, motorVars
  <2>2. /\ i \in Motor /\ g_dshot_values \in [Motor -> Throttle]
        /\ \/ i = HAL_MAX_MOTORS - 1 /\ pc' = "app"
           \/ pc' = "mask" /\ i' = i + 1 /\ spun' = spun
    BY <1>5 DEF SetValue, LoopOK, MotorsOK
  <2>3. ASSUME NEW m \in Motor, g_dshot_values'[m] \notin Idle
        PROVE  /\ set_age <= OverrideTimeout
               /\ spun' \/ (pc' \in Loop /\ m < i') => set_age < OverrideTimeout
    <3>1. CASE m = i
      <4>1. g_dshot_values'[m] = resolve_motor_output(m)  BY <2>1, <2>2, <3>1
      <4>2. mode = "MspOverride"  BY <2>3, <4>1, OnlyOverride
      <4>3. set_age < OverrideTimeout  BY <2>1, <4>2 DEF Fresh, Loop
      <4> QED  BY <1>0, <4>3
    <3>2. CASE m # i
      <4>1. g_dshot_values[m] \notin Idle  BY <2>1, <2>2, <2>3, <3>2
      <4>2. i = HAL_MAX_MOTORS - 1 => m < i
        BY <2>2, <3>2, PassthroughAssumption DEF Motor
      <4>3. i' = i + 1 /\ m < i' => m < i
        BY <2>2, <3>2, PassthroughAssumption DEF Motor
      <4> QED  BY <1>0, <2>1, <2>2, <4>1, <4>2, <4>3 DEF Fresh, Loop
    <3> QED  BY <3>1, <3>2
  <2>4. pc' \in Loop /\ mode' = "MspOverride" => set_age' < OverrideTimeout
    BY <2>1 DEF Fresh, Loop
  <2> QED  BY <2>1, <2>3, <2>4 DEF Fresh
<1>6. CASE dshot_timer_callback
  <2>1. UNCHANGED <<loopVars, decideVars, sharedVars>>  BY <1>6, OtherSteps
  <2>2. UNCHANGED <<spun, set_age>>  BY <1>6 DEF dshot_timer_callback
  <2>3. ASSUME set_age > OverrideTimeout, NEW m \in Motor PROVE tx'[m] \in Seq(Idle)
    <3>1. tx[m] \in Seq(Idle) /\ g_dshot_values[m] \in Idle  BY <1>0, <2>3 DEF Fresh
    <3>2. Append(tx[m], g_dshot_values[m]) \in Seq(Idle)  BY <3>1, AppendProperties
    <3> QED  BY <1>6, <3>1, <3>2 DEF dshot_timer_callback
  <2> QED  BY <2>1, <2>2, <2>3 DEF Fresh, loopVars, decideVars, sharedVars
<1>7. CASE \E m \in Motor : SendFrame(m)
  <2>1. UNCHANGED <<loopVars, decideVars, sharedVars>>  BY <1>7, OtherSteps
  <2>2. UNCHANGED <<spun, set_age>>  BY <1>7 DEF SendFrame
  <2>3. PICK k \in Motor : tx[k] # <<>> /\ tx' = [tx EXCEPT ![k] = Tail(tx[k])]
    BY <1>7 DEF SendFrame
  <2>4. ASSUME set_age > OverrideTimeout PROVE \A m \in Motor : tx'[m] \in Seq(Idle)
    <3>1. \A m \in Motor : tx[m] \in Seq(Idle)  BY <2>4 DEF Fresh
    <3>2. Tail(tx[k]) \in Seq(Idle)  BY <2>3, <3>1, HeadTailProperties
    <3> QED  BY <2>3, <3>1, <3>2 DEF MotorsOK
  <2> QED  BY <2>1, <2>2, <2>4 DEF Fresh, loopVars, decideVars, sharedVars
<1>8. CASE Tick
  <2>1. /\ pc \in {"app", "sleep"} /\ (pc = "app" => spun \/ pt.active)
        /\ pc' = pc /\ spun' = FALSE /\ Settled /\ set_age' <= set_age + 1
        /\ UNCHANGED <<g_dshot_values, tx>>
    BY <1>0, <1>8 DEF Tick, loopVars, motorVars, sharedVars
  <2>2. \A m \in Motor : tx'[m] \in Seq(Idle)
    BY <2>1, NoFrames, EmptySeq DEF Taking
  <2>3. ASSUME NEW m \in Motor, g_dshot_values[m] \notin Idle
        PROVE  set_age < OverrideTimeout
    <3>1. ~g_dshot_passthrough_mask[m]  BY <2>1, <2>3 DEF Masked, Idle
    <3>2. pc # "sleep"  BY <3>1 DEF Drained, HandOver, Taking
    <3>3. ~pt.active  BY <2>1, <3>1, <3>2 DEF Masked, MaskWritten, ValueWritten
    <3> QED  BY <2>1, <2>3, <3>2, <3>3 DEF Fresh
  <2> QED  BY <1>0, <2>1, <2>2, <2>3 DEF Fresh, Loop
<1> QED  BY <1>1, <1>2, <1>3, <1>4, <1>5, <1>6, <1>7, <1>8, Cases

LEMMA InitFresh == Init => Drained /\ Fresh
<1> SUFFICES ASSUME Init PROVE Drained /\ Fresh  OBVIOUS
<1>1. Drained  BY DEF Init, Drained, HandOver, Taking
<1>2. Fresh
  <2>1. \A m \in Motor : g_dshot_values[m] \in Idle  BY DEF Init, Idle
  <2>2. \A m \in Motor : tx[m] \in Seq(Idle)  BY EmptySeq DEF Init
  <2> QED  BY <2>1, <2>2 DEF Init, Fresh, Loop
<1> QED  BY <1>1, <1>2

\* pico_main.cpp, "1 second timeout for MSP overrides": no motor is sent a throttle the host
\* asked for longer ago than the timeout and the tick in which it runs out, whatever waited
\* in the FIFOs when passthrough or a stop came between.
THEOREM OverridesStayFresh == Spec => OverrideOnlyFresh
<1> DEFINE IInv == Decided /\ Drained /\ Fresh
<1>1. Init => IInv  BY InitDecided, InitFresh
<1>2. IInv /\ [Next]_vars => IInv'
  <2> SUFFICES ASSUME Decided, Drained, Fresh, [Next]_vars PROVE Drained' /\ Fresh'
    BY StepDecided
  <2>1. CASE Next  BY <2>1, StepDrained, StepFresh DEF Decided
  <2>2. CASE UNCHANGED vars
    BY <2>2 DEF vars, loopVars, motorVars, sharedVars, decideVars, historyVars,
                Drained, Fresh
  <2> QED  BY <2>1, <2>2
<1>3. ASSUME IInv
      PROVE  [\A m \in Motor :
                Delivered(m) /\ Head(tx[m]) \notin {0, 48} => set_age <= OverrideTimeout]_vars
  <2>1. ASSUME NEW m \in Motor, Delivered(m), Head(tx[m]) \notin Idle
        PROVE  set_age <= OverrideTimeout
    <3>1. set_age \in Nat /\ OverrideTimeout \in Nat
      BY <1>3, LoopAssumption, Constants DEF Decided, Types, AgesOK, SET_AGE_MAX
    <3>2. tx[m] \notin Seq(Idle)  BY <2>1, HeadTailProperties DEF Delivered
    <3> QED  BY <1>3, <3>1, <3>2 DEF Fresh
  <2> QED  BY <2>1 DEF Idle
<1> HIDE DEF IInv
<1> QED  BY <1>1, <1>2, <1>3, PTL DEF Spec, OverrideOnlyFresh

--------------------------------------------------------------------------------
\* Failsafe.  An override runs out before the host counts as silent, so a round of the loop
\* that starts in that silence stops every motor.

Silent ==
  now - last_activity > StaleTimeout =>
    /\ pc \in Loop => mode \in {"PassthroughBlocked", "FailsafeStale"}
    /\ \A m \in Motor : (pc \in Loop /\ m < i) \/ (pc = "app" /\ spun) =>
                          g_dshot_values[m] = 0

LEMMA StepSilent ==
  ASSUME Types, Clocked, Silent, Next
  PROVE  Silent'
<1> USE DEF Types
<1>0. now \in Time /\ last_activity \in Time /\ StaleTimeout \in Nat
  BY LoopAssumption DEF LoopOK, MotorsOK
<1>1. CASE app_run_iteration
  <2>1. pc' \notin Loop /\ pc' # "app"  BY <1>1, AppLoop DEF Loop
  <2> QED  BY <2>1 DEF Silent
<1>2. CASE EndSerial \/ GiveBackPin \/ EndState \/ Sleep \/ BeginState \/ ForceStop
             \/ TakePin \/ StartSerial \/ Precharge
  <2>1. pc' \in HandOver \cup {"decide"}  BY <1>2, HandOverSteps
  <2> QED  BY <2>1 DEF Silent, HandOver, Taking, Loop
<1>3. CASE Decide
  <2>1. /\ pc' = "mask" /\ i' = 0 /\ UNCHANGED <<now, last_activity>>  BY <1>3 DEF Decide
  <2>2. ASSUME now - last_activity > StaleTimeout
        PROVE  mode' \in {"PassthroughBlocked", "FailsafeStale"}
    <3>1. Elapsed(now, last_activity) > StaleTimeout
      BY <1>0, <2>2, ElapsedSince DEF Clocked
    <3>2. ~msp_override_active(Newest, now)
      <4> SUFFICES ASSUME Newest > 0 PROVE ~(Elapsed(now, Newest) < OverrideTimeout)
        BY DEF msp_override_active
      <4>1. Newest \in Time  BY DEF Newest, MotorsOK
      <4>2. Newest <= last_activity /\ last_activity <= now  BY DEF Clocked
      <4>3. Elapsed(now, Newest) = now - Newest
        BY <1>0, <4>1, <4>2, ElapsedSince DEF Time
      <4> QED  BY <1>0, <2>2, <4>1, <4>2, <4>3, LoopAssumption DEF Time
    <3> QED  BY <1>3, <3>1, <3>2 DEF Decide, determine_motor_line_mode, Newest
  <2>3. \A m \in Motor : ~(m < i')  BY <2>1 DEF Motor
  <2> QED  BY <2>1, <2>2, <2>3 DEF Silent
<1>4. CASE SetMask
  <2>1. /\ pc = "mask" /\ pc' = "value"
        /\ UNCHANGED <<now, last_activity, i, mode, g_dshot_values>>
    BY <1>4 DEF SetMask, decideVars
  <2> QED  BY <2>1 DEF Silent, Loop
<1>5. CASE SetValue
  <2>1. /\ pc = "value" /\ UNCHANGED <<now, last_activity, mode>>
        /\ g_dshot_values' = [g_dshot_values EXCEPT ![i] = resolve_motor_output(i)]
        /\ i \in Motor /\ g_dshot_values \in [Motor -> Throttle]
        /\ \/ i = HAL_MAX_MOTORS - 1 /\ pc' = "app"
           \/ pc' = "mask" /\ i' = i + 1
    BY <1>5 DEF SetValue, decideVars, LoopOK, MotorsOK
  <2> SUFFICES ASSUME now - last_activity > StaleTimeout, NEW m \in Motor,
                      (pc' \in Loop /\ m < i') \/ pc' = "app"
               PROVE  g_dshot_values'[m] = 0
    BY <2>1 DEF Silent, Loop
  <2>2. CASE m = i
    <3>1. mode \in {"PassthroughBlocked", "FailsafeStale"}  BY <2>1 DEF Silent, Loop
    <3> QED  BY <2>1, <2>2, <3>1 DEF resolve_motor_output
  <2>3. CASE m # i
    <3>1. m < i  BY <2>1, <2>3, PassthroughAssumption DEF Motor, Loop
    <3> QED  BY <2>1, <2>3, <3>1 DEF Silent, Loop
  <2> QED  BY <2>2, <2>3
<1>6. CASE dshot_timer_callback \/ (\E m \in Motor : SendFrame(m))
  <2>1. UNCHANGED <<now, loopVars, decideVars, sharedVars, last_activity, spun>>
    BY <1>6, OtherSteps DEF dshot_timer_callback, SendFrame
  <2> QED  BY <2>1 DEF Silent, loopVars, decideVars, sharedVars
<1>7. CASE Tick
  <2>1. pc' = pc /\ pc \notin Loop /\ spun' = FALSE  BY <1>7 DEF Tick, loopVars, Loop
  <2> QED  BY <2>1 DEF Silent
<1> QED  BY <1>1, <1>2, <1>3, <1>4, <1>5, <1>6, <1>7, Cases

\* pico_main.cpp, motor_cmd_stale: when the host has been silent for longer than the stale
\* timeout and the loop has gone round since the last tick, it has stopped every motor.
THEOREM FailsafeStops == Spec => []SilenceStopsMotors
<1> DEFINE IInv == Decided /\ Silent
<1>1. Init => IInv
  <2> SUFFICES ASSUME Init PROVE Silent  BY InitDecided
  <2> QED  BY DEF Init, Silent, Loop
<1>2. IInv /\ [Next]_vars => IInv'
  <2> SUFFICES ASSUME Decided, Silent, [Next]_vars PROVE Silent'  BY StepDecided
  <2>1. CASE Next  BY <2>1, StepSilent DEF Decided
  <2>2. CASE UNCHANGED vars
    BY <2>2 DEF vars, loopVars, sharedVars, decideVars, Silent
  <2> QED  BY <2>1, <2>2
<1>3. IInv => SilenceStopsMotors
  <2> SUFFICES ASSUME Decided, Silent PROVE SilenceStopsMotors  OBVIOUS
  <2>1. Elapsed(now, last_activity) = now - last_activity
    BY ElapsedSince DEF Decided, Types, LoopOK, MotorsOK, Clocked
  <2> QED  BY <2>1 DEF Silent, SilenceStopsMotors
<1> HIDE DEF IInv
<1> QED  BY <1>1, <1>2, <1>3, PTL DEF Spec
====================================================================================

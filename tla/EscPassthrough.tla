----------------------------- MODULE EscPassthrough -----------------------------
(***************************************************************************)
(* The passthrough state of the Pico firmware (common/esc_passthrough.cpp): *)
(* whether the 4-way bridge owns a motor line, which one, and until when    *)
(* DShot stays off after it.  The functions are given on the record pt;     *)
(* who calls them, and what may run between two of them, is said in the     *)
(* modules that use them.                                                   *)
(*                                                                         *)
(* Time is the 32-bit microsecond counter, in coarser ticks: a number       *)
(* modulo Wrap.                                                            *)
(***************************************************************************)
EXTENDS Integers

CONSTANTS
  HAL_MAX_MOTORS,
  Wrap,                 \* ticks after which the 32-bit clock starts again
  DshotResumeDelay      \* DshotResumeDelayUs in ticks

ASSUME PassthroughAssumption ==
  /\ HAL_MAX_MOTORS \in Nat \ {0}
  /\ Wrap \in Nat \ {0}
  /\ DshotResumeDelay \in Nat /\ 2 * DshotResumeDelay <= Wrap

VARIABLE pt             \* SharedState state

Motor == 0 .. HAL_MAX_MOTORS - 1
Time  == 0 .. Wrap - 1

SharedState == [active: BOOLEAN, motor: Motor, block_until: Time, forced_off: BOOLEAN]

\* esc_passthrough_init
InitialState == [active |-> FALSE, motor |-> 0, block_until |-> 0, forced_off |-> FALSE]

\* The difference as a signed number is negative.
time_before(a, b) == 2 * ((a - b) % Wrap) >= Wrap

refresh_dshot_forced_off(s, now) ==
  [s EXCEPT !.forced_off = s.active \/ time_before(now, s.block_until)]

\* The state begin sets, once a passthrough that was on has ended.
Begun(s, m) == [s EXCEPT !.active = TRUE, !.forced_off = TRUE, !.motor = m]

\* The state end sets, once the line is DShot's again.
Ended(s, now) ==
  [s EXCEPT !.block_until = (now + DshotResumeDelay) % Wrap,
            !.forced_off = TRUE, !.active = FALSE]

\* normalize_motor_index: motors are counted from 0 or, the last one only, from 1.
NoMotor == HAL_MAX_MOTORS
normalize_motor_index(v) ==
  IF v < HAL_MAX_MOTORS THEN v
  ELSE IF v = HAL_MAX_MOTORS THEN v - 1 ELSE NoMotor
================================================================================

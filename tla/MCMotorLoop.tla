------------------------------- MODULE MCMotorLoop -------------------------------
(* Two motors, of which one is handed over and one is not; one is told to run, the   *)
(* other gets a position below the range of the slider.  Twelve ticks go round the   *)
(* clock, so that the run passes half its range.                                    *)
EXTENDS MotorLoop, TLC

MCVectors == {[m \in Motor |-> IF m = 0 THEN 1500 ELSE 500]}

\* The throttle grows with the position of the slider.
ASSUME \A us \in 0 .. 2100 : msp_slider_to_dshot(us) <= msp_slider_to_dshot(us + 1)
================================================================================

------------------------------- MODULE MCEscUart --------------------------------
(* Bytes of two bits; a byte on the line is 24 clocks.  The shortest wait of the ESC  *)
(* is the limit of PaceAssumption.  A frame of 10 clocks after one of another channel *)
(* is the limit of WireIsFast, as with the fast USB port; one of 36 is longer than a  *)
(* byte, as with the slow one.                                                        *)
EXTENDS EscUart

MCHostBytes == {<<0, 0>>, <<1, 0>>}
MCEscBytes  == {<<0, 1>>, <<1, 0>>}
================================================================================

---------------------------- MODULE MCSerialDshotMux ----------------------------
(* Two motors; a watchdog of two clocks.  The register values are those the host     *)
(* tools write: DShot, DShot with the sniffer on, serial on either motor, the break. *)
EXTENDS SerialDshotMux

Word(sel, ch, low, auto) == [sel |-> sel, ch |-> ch, low |-> low, auto |-> auto]
MCRegValues == {Word(TRUE, 0, FALSE, FALSE), Word(TRUE, 0, FALSE, TRUE),
                Word(TRUE, 1, FALSE, TRUE), Word(FALSE, 0, FALSE, FALSE),
                Word(FALSE, 1, FALSE, TRUE), Word(FALSE, 1, TRUE, TRUE)}
================================================================================

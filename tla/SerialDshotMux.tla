----------------------------- MODULE SerialDshotMux -----------------------------
(***************************************************************************)
(* wb_serial_dshot_mux: who drives the motor pins.  Either the DShot       *)
(* controller drives all of them, or the serial bridge drives one and the  *)
(* others are released.  The choice is a register; a host that starts an   *)
(* MSP session on the PC link overrides it (auto passthrough) until the    *)
(* link has been silent for WATCHDOG_LIMIT clocks.                         *)
(*                                                                         *)
(* An action is one clock edge with everything that happens on it.  A pad  *)
(* register holds what drives the pad, not the level: the level is the     *)
(* business of the DShot controller and of the UART.  msp_mode, a status   *)
(* output, the read data, and the simulation override are left out.        *)
(***************************************************************************)
EXTENDS Naturals

CONSTANTS
  Motors,           \* number of pads, 4 in the code
  WATCHDOG_LIMIT,   \* five seconds of clocks
  RegValues         \* what hosts write in the register: [sel, ch, low, auto]

ASSUME MuxAssumption == Motors \in Nat \ {0} /\ WATCHDOG_LIMIT \in Nat \ {0}
ASSUME RegAssumption ==
  RegValues \subseteq [sel : BOOLEAN, ch : 0 .. Motors - 1, low : BOOLEAN, auto : BOOLEAN]

VARIABLES
  reg_mux_sel,               \* TRUE: DShot, FALSE: serial
  mux_ch, reg_force_low, reg_auto_passthrough_en,
  mux_wb_ack_o,              \* wb_ack_o of this slave
  sniff_state, auto_passthrough_active, watchdog_timer,
  prev_mux_sel, prev_mux_ch, global_tristate,
  serial_oe_reg,
  pad,                       \* pad[i]: what pad_out_data and its enable stand for
  serial_rx_meta, serial_rx_sync,    \* whose level the synchronizer holds
  quiet, open, settled       \* history: see below

regVars   == <<reg_mux_sel, mux_ch, reg_force_low, reg_auto_passthrough_en, mux_wb_ack_o>>
sniffVars == <<sniff_state, auto_passthrough_active, watchdog_timer>>
padVars   == <<prev_mux_sel, prev_mux_ch, global_tristate, serial_oe_reg, pad,
               serial_rx_meta, serial_rx_sync>>
muxVars   == <<regVars, sniffVars, padVars, quiet, open, settled>>

Channels == 0 .. Motors - 1
Drivers  == {"dshot", "serial", "low"}    \* low: the break of the bootloader

\* The bytes of the PC link, as far as the sniffer tells them apart: '$', 'M', '<' and
\* the commands F5 and 64; any other byte does what '<' does in the wrong place.
PcBytes == {"$", "M", "<", "cmd"}
NoByte  == "none"

--------------------------------------------------------------------------------
\* The register.  An access is served in the cycle in which it is not acknowledged;
\* a read changes nothing but the acknowledge.
Access(stb) == mux_wb_ack_o' = (stb /\ ~mux_wb_ack_o)

Keep(stb) ==
  /\ Access(stb)
  /\ UNCHANGED <<reg_mux_sel, mux_ch, reg_force_low, reg_auto_passthrough_en>>

Write(v) ==
  /\ ~mux_wb_ack_o
  /\ Access(TRUE)
  /\ reg_mux_sel' = v.sel /\ mux_ch' = v.ch
  /\ reg_force_low' = v.low /\ reg_auto_passthrough_en' = v.auto

--------------------------------------------------------------------------------
\* The MSP sniffer.  The byte after '<' is a length and may be anything.
SniffStates == {"IDLE", "DOLLAR", "M", "ARROW", "SIZE"}

\* A sniffer that remembers a broken header.
SniffNext_Sticky(b) ==
  CASE sniff_state = "IDLE"   -> IF b = "$" THEN "DOLLAR" ELSE "IDLE"
    [] sniff_state = "DOLLAR" -> IF b = "M" THEN "M" ELSE "DOLLAR"
    [] sniff_state = "M"      -> IF b = "<" THEN "ARROW" ELSE "IDLE"
    [] sniff_state = "ARROW"  -> "SIZE"
    [] sniff_state = "SIZE"   -> "IDLE"

SniffNext(b) ==
  CASE sniff_state = "IDLE"   -> IF b = "$" THEN "DOLLAR" ELSE "IDLE"
    [] sniff_state = "DOLLAR" -> IF b = "M" THEN "M" ELSE "IDLE"
    [] sniff_state = "M"      -> IF b = "<" THEN "ARROW" ELSE "IDLE"
    [] sniff_state = "ARROW"  -> "SIZE"
    [] sniff_state = "SIZE"   -> "IDLE"

Triggers(b) == reg_auto_passthrough_en /\ sniff_state = "SIZE" /\ b = "cmd"

\* A watchdog that does not fire.
Expires_Never == FALSE

\* The watchdog fires.
Expires == watchdog_timer >= WATCHDOG_LIMIT

\* Sniffer and watchdog on one edge.  The watchdog looks at auto_passthrough_active
\* as it was before the edge, so the edge that sets it leaves the timer alone; and
\* its assignments, the later ones, win over those of the disabled sniffer.
Sniffer(b) ==
  LET listen == reg_auto_passthrough_en /\ b # NoByte
      active == auto_passthrough_active IN
  /\ sniff_state' = IF listen THEN SniffNext(b)
                    ELSE IF reg_auto_passthrough_en THEN sniff_state ELSE "IDLE"
  /\ auto_passthrough_active' =
       (Triggers(b) \/ (active /\ reg_auto_passthrough_en /\ (listen \/ ~Expires)))
  /\ watchdog_timer' =
       IF active THEN IF listen THEN 0
                      ELSE IF Expires THEN
                        IF reg_auto_passthrough_en THEN watchdog_timer ELSE 0
                      ELSE watchdog_timer + 1
       ELSE IF reg_auto_passthrough_en THEN watchdog_timer ELSE 0

--------------------------------------------------------------------------------
\* The selection in effect: TRUE for DShot.
effective_mux_sel ==
  IF reg_auto_passthrough_en /\ auto_passthrough_active THEN FALSE ELSE reg_mux_sel

\* A release that looks at the mode only.
Changed_ModeOnly == effective_mux_sel # prev_mux_sel

Changed == effective_mux_sel # prev_mux_sel \/ mux_ch # prev_mux_ch

\* All pads are released for a cycle after the mode or the channel has changed.
Release ==
  /\ global_tristate' = Changed
  /\ prev_mux_sel' = effective_mux_sel
  /\ prev_mux_ch' = mux_ch

\* What the register of pad i takes over.
PadInput(i) ==
  IF effective_mux_sel THEN "dshot"
  ELSE IF i # mux_ch THEN "none"
  ELSE IF reg_force_low THEN "low"
  ELSE IF serial_oe_reg THEN "serial" ELSE "none"

\* What drives the pad: its register, unless all are released.
Drives(i) == ~global_tristate /\ pad[i] # "none"

\* A receiver that stays on the first pad.
Tap_First == [ch |-> 0, from |-> IF Drives(0) THEN pad[0] ELSE "line"]

\* Whose level the receiver of the serial bridge samples: a driver of the selected
\* pad, or the ESC on the line.
Tap == [ch |-> mux_ch, from |-> IF Drives(mux_ch) THEN pad[mux_ch] ELSE "line"]

Pads(serial_oe) ==
  /\ Release
  /\ serial_oe_reg' = serial_oe
  /\ pad' = [i \in Channels |-> PadInput(i)]
  /\ serial_rx_meta' = Tap
  /\ serial_rx_sync' = serial_rx_meta

--------------------------------------------------------------------------------
\* History: for how many clocks the PC link has been silent, up to Long; and the
\* lengths of the headers the link is in the middle of: k \in open when its last k
\* bytes since the sniffer was enabled are the first k of a header; and for how many
\* clocks the selection has been what it is, up to three.
Long == WATCHDOG_LIMIT + 2
Follows(k, b) == CASE k = 1 -> b = "$" [] k = 2 -> b = "M" [] k = 3 -> b = "<"
                   [] k = 4 -> TRUE
Watch(b) ==
  /\ quiet' = IF b # NoByte THEN 0 ELSE IF quiet < Long THEN quiet + 1 ELSE Long
  /\ open' = IF ~reg_auto_passthrough_en THEN {}
             ELSE IF b = NoByte THEN open
             ELSE {k \in 1 .. 4 : Follows(k, b) /\ (k = 1 \/ k - 1 \in open)}
  /\ settled' = IF effective_mux_sel' # effective_mux_sel \/ mux_ch' # mux_ch THEN 0
                ELSE IF settled < 3 THEN settled + 1 ELSE 3

MuxInit ==
  /\ reg_mux_sel = TRUE /\ mux_ch = 0 /\ reg_force_low = FALSE
  /\ reg_auto_passthrough_en = FALSE /\ mux_wb_ack_o = FALSE
  /\ sniff_state = "IDLE" /\ auto_passthrough_active = FALSE /\ watchdog_timer = 0
  /\ prev_mux_sel = TRUE /\ prev_mux_ch = 0 /\ global_tristate = FALSE
  /\ serial_oe_reg = FALSE /\ pad = [i \in Channels |-> "none"]
  \* reset puts a high level in the synchronizer, as an idle line does
  /\ serial_rx_meta = [ch |-> 0, from |-> "line"] /\ serial_rx_sync = serial_rx_meta
  /\ quiet = 0 /\ open = {} /\ settled = 3

MuxClock(b, serial_oe) ==
  /\ \/ \E stb \in BOOLEAN : Keep(stb)
     \/ \E v \in RegValues : Write(v)
  /\ Sniffer(b)
  /\ Pads(serial_oe)
  /\ Watch(b)

MuxNext == \E b \in PcBytes \cup {NoByte}, serial_oe \in BOOLEAN : MuxClock(b, serial_oe)

\* The only fairness is that the clock runs.
MuxSpec == MuxInit /\ [][MuxNext]_muxVars /\ WF_muxVars(MuxNext)

--------------------------------------------------------------------------------
\* The registers stay in their ranges, the timer within WATCHDOG_LIMIT.
TypeOK ==
  /\ reg_mux_sel \in BOOLEAN /\ mux_ch \in Channels /\ reg_force_low \in BOOLEAN
  /\ reg_auto_passthrough_en \in BOOLEAN /\ mux_wb_ack_o \in BOOLEAN
  /\ sniff_state \in SniffStates /\ auto_passthrough_active \in BOOLEAN
  /\ watchdog_timer \in 0 .. WATCHDOG_LIMIT
  /\ prev_mux_sel \in BOOLEAN /\ prev_mux_ch \in Channels /\ global_tristate \in BOOLEAN
  /\ serial_oe_reg \in BOOLEAN /\ pad \in [Channels -> Drivers \cup {"none"}]
  /\ \A s \in {serial_rx_meta, serial_rx_sync} :
       s.ch \in Channels /\ s.from \in Drivers \cup {"line"}
  /\ quiet \in 0 .. Long /\ open \subseteq 1 .. 4 /\ settled \in 0 .. 3

\* Who owns the motor lines: the DShot controller (Motors), or the bridge on pad i.
Owners == { IF pad[i] = "dshot" THEN Motors ELSE i : i \in {j \in Channels : Drives(j)} }

\* The lines never go from one owner to another without a cycle in which all pads are
\* released, whatever register write, sniffed header and watchdog fall together: no
\* pad has two drivers around a switch, and a bridge byte does not spill onto the
\* motor selected next (lines 187-206 against 211-262).
OneOwnerAtATime == [][\A o, p \in Owners \cup Owners' : o = p]_muxVars

\* The motors are taken from DShot by the PC link only when its last five bytes are an
\* MSP header with one of the two commands (lines 139-155).
PassthroughOnlyOnHeader ==
  [][auto_passthrough_active' /\ ~auto_passthrough_active
       => 4 \in open /\ sniff_state = "SIZE" /\ quiet' = 0]_muxVars

\* Once the link has been silent for WATCHDOG_LIMIT clocks the override is over,
\* however the timer got to where it is (lines 161-168).
SilenceEndsPassthrough == auto_passthrough_active => quiet <= WATCHDOG_LIMIT

\* With the selection settled, the bridge hears the selected motor and no DShot frame
\* (lines 268-287): two synchronizer stages behind the pad register.
BridgeHearsItsMotor ==
  settled = 3 /\ ~effective_mux_sel =>
    serial_rx_sync.ch = mux_ch /\ serial_rx_sync.from # "dshot"

\* As the source has it: the override is a five-second watchdog, so short of disabling
\* it the override lasts until the link has been silent that long.
PassthroughLastsUntilSilence ==
  [][auto_passthrough_active /\ ~auto_passthrough_active' /\ reg_auto_passthrough_en
       => quiet >= WATCHDOG_LIMIT]_muxVars

================================================================================

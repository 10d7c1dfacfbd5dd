-------------------------------- MODULE FcspTxPath --------------------------------
(***************************************************************************)
(* The way out of fcsp_offloader_top: control responses, bytes of the ESC  *)
(* line (through the packetizer) and debug frames compete for one framer;  *)
(* its bytes go to the USB serial port, and those of a response to an SPI  *)
(* command to the SPI port as well while CS is low.                        *)
(*                                                                         *)
(* An action is one clock edge.  The producers offer their bytes when they *)
(* have them and keep them up until they are taken, as a FIFO does.  The   *)
(* USB port takes a byte when it is idle, the SPI port when its hold       *)
(* register is free.                                                       *)
(***************************************************************************)
EXTENDS Naturals, Sequences, SequencesExt

CONSTANTS
  Byte, SYNC, MAX_PAYLOAD_LEN, CrcStep(_, _),
  MAX_LEN, TIMEOUT,
  Traffic      \* records
               \*   ctrl, dbg  sequences of frames [payload, seq, tdest]
               \*   esc        sequence of bytes
               \*   escdest    port the last ESC frame came from (esc_active_tdest)
               \*   usb, cs    levels of the USB port's ready and of CS

\* A frame has a payload.  Behind one that is too long nothing may come: the framer drops it,
\* and the first byte of the next with it.
ASSUME TrafficAssumption ==
  /\ MAX_PAYLOAD_LEN \in Nat \ {0} /\ MAX_LEN \in 1 .. MAX_PAYLOAD_LEN
  /\ {1, 4, 5} \subseteq Byte
  /\ \A t \in Traffic :
       /\ {t.ctrl, t.dbg} \subseteq Seq([payload : Seq(Byte) \ {<<>>}, seq : Nat, tdest : {0, 1}])
       /\ t.esc \in Seq(Byte)
       /\ \A n \in DOMAIN t.ctrl : Len(t.ctrl[n].payload) > MAX_PAYLOAD_LEN =>
            n = Len(t.ctrl) /\ t.dbg = <<>> /\ t.esc = <<>>
       /\ \A n \in DOMAIN t.dbg : Len(t.dbg[n].payload) > MAX_PAYLOAD_LEN =>
            n = Len(t.dbg) /\ t.ctrl = <<>> /\ t.esc = <<>>

VARIABLES
  pk_state, pk_mem, pk_count, pk_timer, push_idx, pk_tvalid, pk_tdata, pk_tlast,
  fr_state, payload_mem, payload_count, emit_index, mem_rd_data, frame_meta,
  capture_active, drop_frame, crc_reg,
  sel,                                  \* arbiter
  traffic,
  frame_no, pos, tvalid,                \* per FIFO: "ctrl", "dbg"
  esc_no, esc_tvalid,                   \* ESC line
  spi_cs_n_sync, spi_cs_n_last,         \* cs_sync[1], cs_sync[2] of the SPI port
  tx_hold_valid,
  wire_line,           \* bytes of the current frame the wire has moved on from
  copies, uneven,      \* per port, "usb" and "spi": how often it took the byte now on
                       \* the wire; ports that did not take each byte once
  sent,                \* per channel: the frames that were on the wire
  overtakers           \* frames finished while a control response waits

INSTANCE FcspStreamPacketizer
INSTANCE FcspTxFramer

fifoVars == <<frame_no, pos, tvalid>>
escVars  == <<esc_no, esc_tvalid>>
spiVars  == <<spi_cs_n_sync, spi_cs_n_last, tx_hold_valid>>
logVars  == <<wire_line, copies, uneven, sent, overtakers>>
vars == <<packetizerVars, framerVars, sel, traffic, fifoVars, escVars, spiVars, logVars>>

Fifos == {"ctrl", "dbg"}
Plan(q) == IF q = "ctrl" THEN traffic.ctrl ELSE traffic.dbg
Current(q) == Plan(q)[frame_no[q]]
CtrlMeta(f) == [channel |-> 1, flags |-> 2, seq |-> f.seq, tdest |-> f.tdest]
DbgMeta(f)  == [channel |-> 4, flags |-> 0, seq |-> f.seq, tdest |-> 0]
EscMeta     == [channel |-> 5, flags |-> 0, seq |-> 0, tdest |-> traffic.escdest]
Meta(q, f)  == IF q = "ctrl" THEN CtrlMeta(f) ELSE DbgMeta(f)

\* What the selected producer offers.
Offer ==
  CASE sel = "esc" -> [valid |-> pk_tvalid, data |-> pk_tdata, last |-> pk_tlast,
                       meta |-> EscMeta]
    [] sel \in Fifos /\ tvalid[sel] ->
         [valid |-> TRUE, data |-> Current(sel).payload[pos[sel]],
          last |-> pos[sel] = Len(Current(sel).payload), meta |-> Meta(sel, Current(sel))]
    [] OTHER -> [valid |-> FALSE, data |-> 0, last |-> FALSE, meta |-> EscMeta]
Taken == Offer.valid /\ fr_tready

\* Debug frames before control responses.
Grant_DebugFirst ==
  IF tvalid["dbg"] THEN "dbg" ELSE IF tvalid["ctrl"] THEN "ctrl"
  ELSE IF pk_tvalid THEN "esc" ELSE "none"

Grant ==
  IF tvalid["ctrl"] THEN "ctrl" ELSE IF pk_tvalid THEN "esc"
  ELSE IF tvalid["dbg"] THEN "dbg" ELSE "none"

\* fcsp_tx_arbiter: a grant lasts until the last byte of the frame is taken.
Arbiter ==
  sel' = IF sel = "none" THEN Grant ELSE IF Taken /\ Offer.last THEN "none" ELSE sel

--------------------------------------------------------------------------------
\* Egress.
tx_route_spi == frame_meta.tdest = 1
spi_tx_ready == ~tx_hold_valid
spi_tx_valid == wire_tvalid /\ ~spi_cs_n_sync /\ tx_route_spi

\* A wire that does not wait for SPI.
wire_tready_UsbOnly(usb_ready) == usb_ready

wire_tready(usb_ready) == usb_ready /\ (spi_tx_ready \/ spi_cs_n_sync \/ ~tx_route_spi)

\* fcsp_spi_frontend, TX: the hold register is emptied into the shift register on a
\* byte boundary (load) or when CS falls, and cleared when CS rises.
SpiTx(cs_n, load) ==
  LET rise == spi_cs_n_sync /\ ~spi_cs_n_last
      fall == ~spi_cs_n_sync /\ spi_cs_n_last IN
  /\ spi_cs_n_sync' = cs_n /\ spi_cs_n_last' = spi_cs_n_sync
  /\ load => ~spi_cs_n_last
  /\ tx_hold_valid' = IF tx_hold_valid THEN ~(rise \/ fall \/ load) ELSE spi_tx_valid

--------------------------------------------------------------------------------
\* Producers.  A FIFO that has more to send offers it now or later.
FifosOut ==
  LET taken(q) == sel = q /\ Taken
      ends(q)  == taken(q) /\ Offer.last IN
  /\ frame_no' = [q \in Fifos |-> IF ends(q) THEN frame_no[q] + 1 ELSE frame_no[q]]
  /\ pos' = [q \in Fifos |-> IF ends(q) THEN 1 ELSE IF taken(q) THEN pos[q] + 1 ELSE pos[q]]
  /\ tvalid' \in [Fifos -> BOOLEAN]
  /\ \A q \in Fifos : tvalid[q] /\ ~taken(q) => tvalid'[q]
  /\ \A q \in Fifos : tvalid'[q] => frame_no'[q] <= Len(Plan(q))

EscByte == IF esc_tvalid THEN traffic.esc[esc_no] ELSE 0
EscLine ==
  LET taken == esc_tvalid /\ pk_tready IN
  /\ esc_no' = IF taken THEN esc_no + 1 ELSE esc_no
  /\ esc_tvalid' \in BOOLEAN
  /\ esc_tvalid /\ ~taken => esc_tvalid'
  /\ esc_tvalid' => esc_no' <= Len(traffic.esc)

--------------------------------------------------------------------------------
\* What an observer of the wire and of the two ports writes down.
Ports == {"usb", "spi"}
Observe(usb_ready) ==
  LET moves == wire_tvalid /\ wire_tready(usb_ready)
      ends  == moves /\ fr_state = "CRC_L"
      wire  == IF moves THEN Append(wire_line, wire_tdata) ELSE wire_line
      takes(p) == IF p = "usb" THEN wire_tvalid /\ usb_ready ELSE spi_tx_valid /\ spi_tx_ready
      times(p) == IF takes(p) /\ copies[p] < 2 THEN copies[p] + 1 ELSE copies[p]
      odd == IF moves THEN uneven \cup {p \in Ports : times(p) # 1} ELSE uneven IN
  /\ wire_line' = IF ends THEN <<>> ELSE wire
  /\ copies' = [p \in Ports |-> IF moves THEN 0 ELSE times(p)]
  /\ uneven' = IF ends THEN {} ELSE odd
  /\ sent' = IF ends
             THEN [sent EXCEPT ![wire[4]] =
                    Append(@, [wire |-> wire, uneven |-> odd, tdest |-> frame_meta.tdest])]
             ELSE sent
  /\ overtakers' = IF ~tvalid["ctrl"] \/ (sel = "ctrl" /\ Taken) THEN 0
                   ELSE IF ends /\ pos["ctrl"] = 1 THEN overtakers + 1 ELSE overtakers

Init ==
  /\ PacketizerInit /\ FramerInit
  /\ sel = "none"
  /\ traffic \in Traffic
  /\ frame_no = [q \in Fifos |-> 1] /\ pos = [q \in Fifos |-> 1]
  /\ tvalid = [q \in Fifos |-> FALSE]
  /\ esc_no = 1 /\ esc_tvalid = FALSE
  /\ spi_cs_n_sync = TRUE /\ spi_cs_n_last = TRUE /\ tx_hold_valid = FALSE
  /\ wire_line = <<>> /\ copies = [p \in Ports |-> 0] /\ uneven = {}
  /\ sent = [c \in Byte |-> <<>>] /\ overtakers = 0

Edge(usb_ready, cs_n, load) ==
  /\ PacketizerClock(esc_tvalid, EscByte, sel = "esc" /\ fr_tready)
  /\ FramerClock(Offer.valid, Offer.data, Offer.last, Offer.meta, wire_tready(usb_ready))
  /\ Arbiter
  /\ SpiTx(cs_n, load)
  /\ FifosOut /\ EscLine
  /\ Observe(usb_ready)
  /\ UNCHANGED traffic
Next == \E usb_ready \in traffic.usb, cs_n \in traffic.cs, load \in BOOLEAN :
          Edge(usb_ready, cs_n, load)
Spec == Init /\ [][Next]_vars

\* The clock runs; the USB port is ready again and again, and so is the SPI port as
\* long as its host clocks; a producer offers what it has.
SomeEdge(load) ==
  \E usb_ready \in traffic.usb, cs_n \in traffic.cs : Edge(usb_ready, cs_n, load)
Fairness ==
  /\ WF_vars(Next)
  /\ WF_vars(\E cs_n \in traffic.cs, load \in BOOLEAN : Edge(TRUE, cs_n, load))
  /\ WF_vars(tx_hold_valid /\ SomeEdge(TRUE))
  /\ \A q \in Fifos :
       WF_vars(frame_no[q] <= Len(Plan(q)) /\ \E load \in BOOLEAN : SomeEdge(load) /\ tvalid'[q])
  /\ WF_vars(esc_no <= Len(traffic.esc) /\ \E load \in BOOLEAN : SomeEdge(load) /\ esc_tvalid')
FairSpec == Spec /\ Fairness

--------------------------------------------------------------------------------
\* The frame the host expects on the wire for a payload.
Body(meta, payload) ==
  <<FCSP_VERSION, meta.flags, meta.channel, meta.seq \div 256, meta.seq % 256,
    Len(payload) \div 256, Len(payload) % 256>> \o payload
Image(meta, payload) ==
  LET crc == FoldLeft(CrcStep, 0, Body(meta, payload)) IN
  <<SYNC>> \o Body(meta, payload) \o <<crc \div 256, crc % 256>>
Fits(f) == Len(f.payload) <= MAX_PAYLOAD_LEN
Fitting(q) == IF Plan(q) = <<>> \/ Fits(Last(Plan(q))) THEN Plan(q) ELSE Front(Plan(q))
Images(q) ==
  [n \in DOMAIN Fitting(q) |-> Image(Meta(q, Fitting(q)[n]), Fitting(q)[n].payload)]
OnChannel(c) == [n \in DOMAIN sent[c] |-> sent[c][n].wire]
Channel(q) == IF q = "ctrl" THEN 1 ELSE 4

\* Every frame of a FIFO is on the wire as the host expects it, with its own header
\* and CRC and in the order of the FIFO, whoever competes and however long the ports
\* make the framer wait; one that is too long is left out, and no other channel is used.
FramesIntact ==
  /\ \A q \in Fifos : IsPrefix(OnChannel(Channel(q)), Images(q))
  /\ \A c \in Byte \ {1, 4, 5} : sent[c] = <<>>

\* No byte of the ESC line is lost, doubled or moved, wherever the packets are cut.
Packets == OnChannel(5)
PacketPayload(w) == SubSeq(w, 9, Len(w) - 2)
PacketBytes == FlattenSeq([i \in DOMAIN Packets |-> PacketPayload(Packets[i])])
EscBytesIntact ==
  /\ \A i \in DOMAIN Packets :
       /\ Len(PacketPayload(Packets[i])) \in 1 .. MAX_LEN
       /\ Packets[i] = Image(EscMeta, PacketPayload(Packets[i]))
  /\ IsPrefix(PacketBytes, traffic.esc)

\* The USB port gets every byte of a frame for USB once, whatever the SPI host does; the
\* SPI port gets every byte of a frame for SPI once, if CS stays low and the USB port
\* never makes the wire wait.
PortsGetTheirFrames ==
  \A c \in Byte : \A n \in DOMAIN sent[c] :
    /\ sent[c][n].tdest = 0 => "usb" \notin sent[c][n].uneven
    /\ sent[c][n].tdest = 1 /\ traffic.usb = {TRUE} /\ traffic.cs = {FALSE}
         => "spi" \notin sent[c][n].uneven

\* "CTRL always wins": a control response waits for the frame on the wire and for the
\* one that had the grant when it came, and for no other.
ControlWaitsForTwo == overtakers <= 2

\* Everything a producer has is sent one day, also by the one that always loses.
EverythingSent ==
  <>(/\ \A q \in Fifos : OnChannel(Channel(q)) = Images(q)
     /\ PacketBytes = traffic.esc)

\* "All TX responses egress via async USB serial", and "mirrored to SPI": the USB port
\* gets every byte of every frame once.
UsbGetsEveryFrameOnce ==
  \A c \in Byte : \A n \in DOMAIN sent[c] : "usb" \notin sent[c][n].uneven

================================================================================

------------------------------- MODULE FcspTxFramer -------------------------------
(***************************************************************************)
(* fcsp_tx_framer: captures the payload of one frame with its metadata,    *)
(* then puts the frame on the wire byte by byte: sync, version, flags,     *)
(* channel, seq, length, payload, CRC.  A payload that is too long is      *)
(* dropped.                                                                *)
(*                                                                         *)
(* An action is one clock edge.  The CRC of the code is CrcStep, whatever  *)
(* it computes; the status outputs are left out.                           *)
(***************************************************************************)
EXTENDS Naturals

CONSTANTS
  Byte, SYNC, MAX_PAYLOAD_LEN,
  CrcStep(_, _)      \* fcsp_crc16_core_xmodem: 16 bits and a byte to 16 bits

FCSP_VERSION == 1
Crc16 == 0 .. 65535

VARIABLES
  fr_state, payload_mem, payload_count, emit_index, mem_rd_data,
  frame_meta,        \* [channel, flags, seq, tdest]
  capture_active, drop_frame, crc_reg

framerVars == <<fr_state, payload_mem, payload_count, emit_index, mem_rd_data, frame_meta,
                capture_active, drop_frame, crc_reg>>

HeaderStates == {"VER", "FLAGS", "CHAN", "SEQ_H", "SEQ_L", "LEN_H", "LEN_L"}
FramerStates == {"CAPTURE", "SYNC", "PAYLD", "CRC_H", "CRC_L"} \cup HeaderStates

FramerInit ==
  /\ fr_state = "CAPTURE" /\ payload_count = 0 /\ emit_index = 0
  /\ payload_mem = [i \in 0 .. MAX_PAYLOAD_LEN - 1 |-> 0] /\ mem_rd_data = 0   \* not reset
  /\ frame_meta = [channel |-> 0, flags |-> 0, seq |-> 0, tdest |-> 0]
  /\ capture_active = FALSE /\ drop_frame = FALSE /\ crc_reg = 0

fr_tready == fr_state = "CAPTURE"
wire_tvalid == fr_state # "CAPTURE"
wire_tdata ==
  CASE fr_state = "SYNC"  -> SYNC
    [] fr_state = "VER"   -> FCSP_VERSION
    [] fr_state = "FLAGS" -> frame_meta.flags
    [] fr_state = "CHAN"  -> frame_meta.channel
    [] fr_state = "SEQ_H" -> frame_meta.seq \div 256
    [] fr_state = "SEQ_L" -> frame_meta.seq % 256
    [] fr_state = "LEN_H" -> payload_count \div 256
    [] fr_state = "LEN_L" -> payload_count % 256
    [] fr_state = "PAYLD" -> mem_rd_data
    [] fr_state = "CRC_H" -> crc_reg \div 256
    [] fr_state = "CRC_L" -> crc_reg % 256
    [] OTHER -> 0

\* A read address that is not ahead of the byte on the wire.
ReadPort_Late(m_tready) ==
  mem_rd_data' = payload_mem[IF fr_state = "PAYLD" THEN emit_index ELSE 0]

\* The read port is a register: the address is one byte ahead when the byte on the
\* wire is taken.
ReadPort(m_tready) ==
  LET next == (emit_index + 1) % MAX_PAYLOAD_LEN IN
  mem_rd_data' = payload_mem[IF fr_state = "PAYLD" THEN IF m_tready THEN next ELSE emit_index
                             ELSE 0]

Room == payload_count < MAX_PAYLOAD_LEN

\* S_CAPTURE with a byte.  All conditions look at the registers as they were: also at
\* drop_frame, on the first byte of the frame after one that was dropped.
CaptureByte(b, last, meta) ==
  LET first == ~capture_active
      store == ~drop_frame /\ Room
      over  == ~drop_frame /\ ~Room
      drop  == drop_frame \/ ~Room IN
  /\ frame_meta' = IF first THEN meta ELSE frame_meta
  /\ payload_mem' = IF store THEN [payload_mem EXCEPT ![payload_count] = b] ELSE payload_mem
  /\ payload_count' = IF last /\ drop THEN 0
                      ELSE IF store THEN payload_count + 1
                      ELSE IF first THEN 0 ELSE payload_count
  /\ drop_frame' = (over \/ (drop_frame /\ ~first))
  /\ capture_active' = ~last
  /\ fr_state' = IF last /\ ~drop THEN "SYNC" ELSE "CAPTURE"
  /\ emit_index' = IF last THEN 0 ELSE emit_index
  /\ crc_reg' = IF last THEN 0 ELSE crc_reg

Capture(tvalid, b, last, meta) ==
  /\ fr_state = "CAPTURE"
  /\ IF tvalid THEN CaptureByte(b, last, meta)
     ELSE UNCHANGED <<fr_state, payload_mem, payload_count, emit_index, frame_meta,
                      capture_active, drop_frame, crc_reg>>

\* The state after the byte on the wire is taken.
NextState ==
  CASE fr_state = "SYNC"  -> "VER"   [] fr_state = "VER"   -> "FLAGS"
    [] fr_state = "FLAGS" -> "CHAN"  [] fr_state = "CHAN"  -> "SEQ_H"
    [] fr_state = "SEQ_H" -> "SEQ_L" [] fr_state = "SEQ_L" -> "LEN_H"
    [] fr_state = "LEN_H" -> "LEN_L"
    [] fr_state = "LEN_L" -> IF payload_count = 0 THEN "CRC_H" ELSE "PAYLD"
    [] fr_state = "PAYLD" -> IF emit_index + 1 >= payload_count THEN "CRC_H" ELSE "PAYLD"
    [] fr_state = "CRC_H" -> "CRC_L" [] OTHER -> "CAPTURE"

\* The emit states, when the byte on the wire is taken.
Emit(m_tready) ==
  /\ fr_state # "CAPTURE"
  /\ fr_state' = IF m_tready THEN NextState ELSE fr_state
  /\ crc_reg' = IF ~m_tready THEN crc_reg
                ELSE IF fr_state = "SYNC" THEN 0
                ELSE IF fr_state \in HeaderStates \cup {"PAYLD"}
                     THEN CrcStep(crc_reg, wire_tdata) ELSE crc_reg
  /\ emit_index' = IF ~m_tready \/ fr_state # "PAYLD" THEN emit_index
                   ELSE IF NextState = "CRC_H" THEN 0 ELSE emit_index + 1
  /\ payload_count' = IF m_tready /\ fr_state = "CRC_L" THEN 0 ELSE payload_count
  /\ UNCHANGED <<payload_mem, frame_meta, capture_active, drop_frame>>

FramerClock(tvalid, b, last, meta, m_tready) ==
  /\ Capture(tvalid, b, last, meta) \/ Emit(m_tready)
  /\ ReadPort(m_tready)

================================================================================

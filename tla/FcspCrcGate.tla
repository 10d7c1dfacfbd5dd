------------------------------- MODULE FcspCrcGate -------------------------------
(***************************************************************************)
(* fcsp_crc_gate: buffers one frame, computes its CRC and hands the        *)
(* payload on only if the CRC is the received one.  One frame is inside at *)
(* a time: bytes are captured, then fed to the CRC block, then streamed.   *)
(*                                                                         *)
(* An action is one clock edge.  The CRC is ideal: the gate finds it right *)
(* exactly when the header and the buffered payload are those of a frame   *)
(* some sender really made and the received CRC is that frame's.           *)
(***************************************************************************)
EXTENDS Naturals, Sequences

CONSTANTS
  Byte, MAX_PAYLOAD_LEN,
  Frames      \* the frames senders make: [header, payload, crc]

VARIABLES
  gate_state, payload_mem, capture_count,
  meta_latched, meta_header, meta_len,  \* frame_version_reg .. payload_len_reg
  frame_recv_crc_reg,
  crc_feed_idx, crc_payload_idx, stream_idx,
  crc_ok, crc_drop                      \* pulses

gateVars == <<gate_state, payload_mem, capture_count, meta_latched, meta_header,
              meta_len, frame_recv_crc_reg, crc_feed_idx, crc_payload_idx,
              stream_idx, crc_ok, crc_drop>>

GateStates == {"CAPTURE", "FEED_CRC", "WAIT_CRC", "STREAM"}

GateInit ==
  /\ gate_state = "CAPTURE"
  /\ payload_mem = [i \in 0 .. MAX_PAYLOAD_LEN - 1 |-> 0]   \* any value would do
  /\ capture_count = 0
  /\ meta_latched = FALSE /\ meta_header = [i \in 0 .. 4 |-> 0] /\ meta_len = 0
  /\ frame_recv_crc_reg = <<0, 0>>
  /\ crc_feed_idx = 0 /\ crc_payload_idx = 0 /\ stream_idx = 0
  /\ crc_ok = FALSE /\ crc_drop = FALSE

s_frame_tready == gate_state = "CAPTURE"
gate_tvalid == gate_state = "STREAM" /\ stream_idx < meta_len
gate_tdata  == payload_mem[stream_idx % MAX_PAYLOAD_LEN]
gate_tlast  == stream_idx + 1 = meta_len

\* The buffered payload: meta_len bytes of the memory, however many of them were
\* captured with this frame; the address wraps at the end of the memory.
Buffered == [i \in 1 .. meta_len |-> payload_mem[(i - 1) % MAX_PAYLOAD_LEN]]

CrcIsRight ==
  \E f \in Frames : /\ f.header = meta_header
                    /\ f.payload = Buffered
                    /\ f.crc = frame_recv_crc_reg

\* S_CAPTURE.  The header is latched with the first payload byte, or with the end
\* of a frame that has none; the end of the frame starts the CRC.
Capture(tvalid, tdata, header, len, recv, done) ==
  LET latch == ~meta_latched /\ (tvalid \/ done)
      store == tvalid /\ capture_count < MAX_PAYLOAD_LEN IN
  /\ gate_state = "CAPTURE"
  /\ meta_header' = IF latch THEN header ELSE meta_header
  /\ meta_len' = IF latch THEN len ELSE meta_len
  /\ meta_latched' = (meta_latched \/ latch)
  /\ payload_mem' = IF store THEN [payload_mem EXCEPT ![capture_count] = tdata]
                    ELSE payload_mem
  /\ capture_count' = IF store THEN capture_count + 1 ELSE capture_count
  /\ gate_state' = IF done THEN "FEED_CRC" ELSE "CAPTURE"
  /\ frame_recv_crc_reg' = IF done THEN recv ELSE frame_recv_crc_reg
  /\ crc_feed_idx' = IF done THEN 0 ELSE crc_feed_idx
  /\ crc_payload_idx' = IF done THEN 0 ELSE crc_payload_idx
  /\ stream_idx' = IF done THEN 0 ELSE stream_idx
  /\ crc_ok' = FALSE /\ crc_drop' = FALSE

\* S_FEED_CRC: seven header bytes, then the payload, one byte a cycle.
FeedCrc ==
  LET headerDone == crc_feed_idx = 6
      inPayload  == crc_feed_idx = 7
      finished   == \/ headerDone /\ meta_len = 0
                    \/ inPayload /\ crc_payload_idx + 1 = meta_len IN
  /\ gate_state = "FEED_CRC"
  /\ gate_state' = IF finished THEN "WAIT_CRC" ELSE "FEED_CRC"
  /\ crc_feed_idx' = IF inPayload \/ finished THEN crc_feed_idx ELSE crc_feed_idx + 1
  /\ crc_payload_idx' = IF finished THEN crc_payload_idx
                        ELSE IF headerDone THEN 0
                        ELSE IF inPayload THEN crc_payload_idx + 1 ELSE crc_payload_idx
  /\ crc_ok' = FALSE /\ crc_drop' = FALSE
  /\ UNCHANGED <<payload_mem, capture_count, meta_latched, meta_header, meta_len,
                 frame_recv_crc_reg, stream_idx>>

\* A gate that keeps its count.
Release_KeepCount ==
  /\ capture_count' = capture_count
  /\ meta_latched' = FALSE
  /\ gate_state' = "CAPTURE"

\* The buffer is ready for the next frame.
Release ==
  /\ capture_count' = 0
  /\ meta_latched' = FALSE
  /\ gate_state' = "CAPTURE"

\* A gate that hands on what it has.
WaitCrc_NoCheck ==
  /\ gate_state = "WAIT_CRC"
  /\ crc_ok' = CrcIsRight /\ crc_drop' = ~CrcIsRight
  /\ IF meta_len # 0
       THEN /\ stream_idx' = 0
            /\ gate_state' = "STREAM"
            /\ UNCHANGED <<capture_count, meta_latched>>
       ELSE Release /\ UNCHANGED stream_idx
  /\ UNCHANGED <<payload_mem, meta_header, meta_len, frame_recv_crc_reg,
                 crc_feed_idx, crc_payload_idx>>

\* S_WAIT_CRC: the verdict of the CRC block is there one cycle after its last byte.
WaitCrc ==
  /\ gate_state = "WAIT_CRC"
  /\ crc_ok' = CrcIsRight /\ crc_drop' = ~CrcIsRight
  /\ IF CrcIsRight /\ meta_len # 0
       THEN /\ stream_idx' = 0
            /\ gate_state' = "STREAM"
            /\ UNCHANGED <<capture_count, meta_latched>>
       ELSE Release /\ UNCHANGED stream_idx
  /\ UNCHANGED <<payload_mem, meta_header, meta_len, frame_recv_crc_reg,
                 crc_feed_idx, crc_payload_idx>>

\* A gate that goes back to capture on the first byte it could not hand on.
Stream_GiveUp(m_tready) ==
  LET sent == gate_tvalid /\ m_tready IN
  /\ gate_state = "STREAM"
  /\ IF ~sent \/ gate_tlast
       THEN Release /\ UNCHANGED stream_idx
       ELSE /\ stream_idx' = stream_idx + 1
            /\ UNCHANGED <<capture_count, meta_latched, gate_state>>
  /\ crc_ok' = FALSE /\ crc_drop' = FALSE
  /\ UNCHANGED <<payload_mem, meta_header, meta_len, frame_recv_crc_reg,
                 crc_feed_idx, crc_payload_idx>>

\* S_STREAM: the payload goes out at the pace of the reader.
Stream(m_tready) ==
  LET sent == gate_tvalid /\ m_tready IN
  /\ gate_state = "STREAM"
  /\ IF sent /\ gate_tlast
       THEN Release /\ UNCHANGED stream_idx
       ELSE /\ stream_idx' = IF sent THEN stream_idx + 1 ELSE stream_idx
            /\ UNCHANGED <<capture_count, meta_latched, gate_state>>
  /\ crc_ok' = FALSE /\ crc_drop' = FALSE
  /\ UNCHANGED <<payload_mem, meta_header, meta_len, frame_recv_crc_reg,
                 crc_feed_idx, crc_payload_idx>>

GateClock(tvalid, tdata, header, len, recv, done, m_tready) ==
  \/ Capture(tvalid, tdata, header, len, recv, done)
  \/ FeedCrc
  \/ WaitCrc
  \/ Stream(m_tready)

--------------------------------------------------------------------------------
\* The registers of the gate stay in their ranges, the three indices within the memory.
GateTypeOK ==
  /\ gate_state \in GateStates
  /\ payload_mem \in [0 .. MAX_PAYLOAD_LEN - 1 -> Byte]
  /\ capture_count \in 0 .. MAX_PAYLOAD_LEN
  /\ meta_latched \in BOOLEAN /\ meta_header \in [0 .. 4 -> Byte]
  /\ meta_len \in Nat
  /\ frame_recv_crc_reg \in Byte \X Byte
  /\ crc_feed_idx \in 0 .. 7 /\ crc_payload_idx \in Nat
  /\ gate_state = "FEED_CRC" => crc_payload_idx <= meta_len
  /\ stream_idx \in 0 .. MAX_PAYLOAD_LEN - 1
  /\ crc_ok \in BOOLEAN /\ crc_drop \in BOOLEAN

================================================================================

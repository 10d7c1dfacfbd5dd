------------------------------- MODULE FcspParser -------------------------------
(***************************************************************************)
(* fcsp_parser: finds frames in a byte stream.  After the sync byte come   *)
(* seven header bytes (version, flags, channel, seq high and low, length   *)
(* high and low), the payload, and the two bytes of the received CRC.      *)
(*                                                                         *)
(* An action is one clock edge; its parameters are the levels of the       *)
(* inputs before the edge.  The error and frame counters are left out, and *)
(* so is m_frame_tlast, which the CRC gate does not use.                   *)
(***************************************************************************)
EXTENDS Naturals, Sequences

CONSTANTS
  Byte,             \* the bytes that can come in, numbers
  SYNC,             \* FCSP_SYNC
  MAX_PAYLOAD_LEN,
  TIMEOUT_CYCLES

VARIABLES
  parser_state, hdr_idx,
  header,             \* m_frame_version, _flags, _channel, _seq: five bytes
  len_high,           \* payload_len_work[15:8]
  payload_len,        \* m_frame_payload_len
  payload_cnt, crc_idx,
  frame_out_valid, frame_out_data,
  recv_crc,           \* o_frame_recv_crc: high byte, low byte
  timeout_cnt,
  sync_seen, frame_done    \* pulses

parserVars == <<parser_state, hdr_idx, header, len_high, payload_len, payload_cnt,
                crc_idx, frame_out_valid, frame_out_data, recv_crc, timeout_cnt,
                sync_seen, frame_done>>

ParserStates == {"SEARCH_SYNC", "READ_HEADER", "PAYLOAD", "READ_CRC"}

ParserInit ==
  /\ parser_state = "SEARCH_SYNC" /\ hdr_idx = 0
  /\ header = [i \in 0 .. 4 |-> 0] /\ len_high = 0
  /\ payload_len = 0 /\ payload_cnt = 0 /\ crc_idx = 0
  /\ frame_out_valid = FALSE /\ frame_out_data = 0
  /\ recv_crc = <<0, 0>>
  /\ timeout_cnt = 0
  /\ sync_seen = FALSE /\ frame_done = FALSE

parser_idle == parser_state = "SEARCH_SYNC"

\* Payload bytes wait for the output register; every other byte is taken as it
\* comes, whatever the block behind the parser is doing.
in_ready(m_tready) ==
  parser_state = "PAYLOAD" => ~frame_out_valid \/ m_tready

\* clr: back to the search for a sync byte.  The header, the length and crc_idx
\* keep their values.
Clear ==
  /\ parser_state' = "SEARCH_SYNC"
  /\ timeout_cnt' = 0
  /\ frame_out_valid' = FALSE
  /\ sync_seen' = FALSE /\ frame_done' = FALSE
  /\ UNCHANGED <<hdr_idx, header, len_high, payload_len, payload_cnt, crc_idx,
                 frame_out_data, recv_crc>>

\* The output register is emptied by the reader unless a byte is put in it.
Handover(m_tready) == frame_out_valid' = (frame_out_valid /\ ~m_tready)

\* A cycle without a byte: inside a frame the silence is counted, and after
\* TIMEOUT_CYCLES of it the frame is given up.
Silence(m_tready) ==
  LET giveUp == ~parser_idle /\ timeout_cnt >= TIMEOUT_CYCLES IN
  /\ parser_state' = IF giveUp THEN "SEARCH_SYNC" ELSE parser_state
  /\ timeout_cnt' = IF parser_idle THEN timeout_cnt
                    ELSE IF giveUp THEN 0 ELSE timeout_cnt + 1
  /\ frame_out_valid' = (frame_out_valid /\ ~m_tready /\ ~giveUp)
  /\ sync_seen' = FALSE /\ frame_done' = FALSE
  /\ UNCHANGED <<hdr_idx, header, len_high, payload_len, payload_cnt, crc_idx,
                 frame_out_data, recv_crc>>

\* S_SEARCH_SYNC
SearchSync(b, m_tready) ==
  /\ parser_state = "SEARCH_SYNC"
  /\ sync_seen' = (b = SYNC)
  /\ hdr_idx' = IF b = SYNC THEN 0 ELSE hdr_idx
  /\ parser_state' = IF b = SYNC THEN "READ_HEADER" ELSE "SEARCH_SYNC"
  /\ frame_done' = FALSE
  /\ Handover(m_tready)
  /\ UNCHANGED <<header, len_high, payload_len, payload_cnt, crc_idx,
                 frame_out_data, recv_crc>>

\* A parser without the length check.
LengthKnown_NoCap(b) ==
  LET len == 256 * len_high + b IN
  /\ payload_len' = len
  /\ payload_cnt' = 0
  /\ parser_state' = IF len = 0 THEN "READ_CRC" ELSE "PAYLOAD"

\* S_READ_HEADER, its last byte: the length decides what comes next.  crc_idx is
\* left as it is.
LengthKnown(b) ==
  LET len == 256 * len_high + b IN
  /\ payload_len' = len
  /\ payload_cnt' = IF len > MAX_PAYLOAD_LEN THEN payload_cnt ELSE 0
  /\ parser_state' = IF len > MAX_PAYLOAD_LEN THEN "SEARCH_SYNC"
                     ELSE IF len = 0 THEN "READ_CRC" ELSE "PAYLOAD"

ReadHeader(b, m_tready) ==
  /\ parser_state = "READ_HEADER"
  /\ header' = IF hdr_idx < 5 THEN [header EXCEPT ![hdr_idx] = b] ELSE header
  /\ len_high' = IF hdr_idx = 5 THEN b ELSE len_high
  /\ IF hdr_idx = 6 THEN LengthKnown(b)
                    ELSE UNCHANGED <<payload_len, payload_cnt, parser_state>>
  /\ hdr_idx' = (hdr_idx + 1) % 8
  /\ sync_seen' = FALSE /\ frame_done' = FALSE
  /\ Handover(m_tready)
  /\ UNCHANGED <<crc_idx, frame_out_data, recv_crc>>

\* S_PAYLOAD
ReadPayload(b, m_tready) ==
  LET take == in_ready(m_tready)
      last == payload_cnt + 1 >= payload_len IN
  /\ parser_state = "PAYLOAD"
  /\ frame_out_valid' = (take \/ (frame_out_valid /\ ~m_tready))
  /\ frame_out_data' = IF take THEN b ELSE frame_out_data
  /\ payload_cnt' = IF take THEN payload_cnt + 1 ELSE payload_cnt
  /\ parser_state' = IF take /\ last THEN "READ_CRC" ELSE parser_state
  /\ crc_idx' = IF take /\ last THEN 0 ELSE crc_idx
  /\ sync_seen' = FALSE /\ frame_done' = FALSE
  /\ UNCHANGED <<hdr_idx, header, len_high, payload_len, recv_crc>>

\* S_READ_CRC: the high byte goes in while crc_idx is 0, the low byte ends the
\* frame.  The bytes are taken whether or not the CRC gate can use them.
ReadCrc(b, m_tready) ==
  /\ parser_state = "READ_CRC"
  /\ recv_crc' = IF crc_idx = 0 THEN <<b, recv_crc[2]>> ELSE <<recv_crc[1], b>>
  /\ crc_idx' = 1
  /\ frame_done' = (crc_idx = 1)
  /\ parser_state' = IF crc_idx = 1 THEN "SEARCH_SYNC" ELSE "READ_CRC"
  /\ sync_seen' = FALSE
  /\ Handover(m_tready)
  /\ UNCHANGED <<hdr_idx, header, len_high, payload_len, payload_cnt, frame_out_data>>

\* A cycle with a byte on the input.
Receive(b, m_tready) ==
  /\ timeout_cnt' = 0
  /\ \/ SearchSync(b, m_tready)
     \/ ReadHeader(b, m_tready)
     \/ ReadPayload(b, m_tready)
     \/ ReadCrc(b, m_tready)

ParserClock(clr, in_valid, b, m_tready) ==
  \/ clr /\ Clear
  \/ ~clr /\ ~in_valid /\ Silence(m_tready)
  \/ ~clr /\ in_valid /\ Receive(b, m_tready)

--------------------------------------------------------------------------------
\* The registers of the parser stay in their ranges, among them the count of payload
\* bytes within MAX_PAYLOAD_LEN and the silence counter within TIMEOUT_CYCLES.
ParserTypeOK ==
  /\ parser_state \in ParserStates /\ hdr_idx \in 0 .. 7
  /\ header \in [0 .. 4 -> Byte] /\ len_high \in Byte
  /\ payload_len \in Nat /\ payload_cnt \in 0 .. MAX_PAYLOAD_LEN
  /\ crc_idx \in {0, 1}
  /\ frame_out_valid \in BOOLEAN /\ frame_out_data \in Byte
  /\ recv_crc \in Byte \X Byte
  /\ timeout_cnt \in 0 .. TIMEOUT_CYCLES
  /\ sync_seen \in BOOLEAN /\ frame_done \in BOOLEAN

================================================================================

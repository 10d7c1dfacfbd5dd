--------------------------- MODULE FcspStreamPacketizer ---------------------------
(***************************************************************************)
(* fcsp_stream_packetizer: collects single bytes from the ESC line and     *)
(* hands them on in packets, when MAX_LEN of them are there or when none   *)
(* has come for TIMEOUT cycles.  While it hands a packet on it takes none. *)
(*                                                                         *)
(* An action is one clock edge.                                            *)
(***************************************************************************)
EXTENDS Naturals

CONSTANTS
  Byte, MAX_LEN, TIMEOUT

VARIABLES
  pk_state, pk_mem, pk_count, pk_timer, push_idx,
  pk_tvalid, pk_tdata, pk_tlast          \* m_tvalid, m_tdata, m_tlast

packetizerVars == <<pk_state, pk_mem, pk_count, pk_timer, push_idx, pk_tvalid, pk_tdata,
                    pk_tlast>>

PacketizerInit ==
  /\ pk_state = "FILL" /\ pk_count = 0 /\ pk_timer = 0 /\ push_idx = 0
  /\ pk_mem = [i \in 0 .. MAX_LEN - 1 |-> 0] /\ pk_tdata = 0   \* not reset
  /\ pk_tvalid = FALSE /\ pk_tlast = FALSE

\* A packetizer that is ready while it hands a packet on.
pk_tready_Always == pk_count < MAX_LEN

pk_tready == pk_state = "FILL" /\ pk_count < MAX_LEN

\* S_FILL with a byte.
TakeByte(b) ==
  /\ pk_mem' = [pk_mem EXCEPT ![pk_count] = b]
  /\ pk_count' = pk_count + 1 /\ pk_timer' = 0
  /\ IF pk_count = MAX_LEN - 1 THEN pk_state' = "PUSH" /\ push_idx' = 0
                               ELSE UNCHANGED <<pk_state, push_idx>>

\* A packetizer that waits for a full packet.
CountSilence_NoTimeout ==
  UNCHANGED <<pk_mem, pk_count, pk_timer, pk_state, push_idx>>

\* S_FILL without a byte: silence is counted once there is something to send.
CountSilence ==
  LET expired == pk_count > 0 /\ pk_timer >= TIMEOUT IN
  /\ IF expired THEN pk_state' = "PUSH" /\ push_idx' = 0 ELSE UNCHANGED <<pk_state, push_idx>>
  /\ pk_timer' = IF pk_count > 0 /\ ~expired THEN pk_timer + 1 ELSE pk_timer
  /\ UNCHANGED <<pk_mem, pk_count>>

Fill(tvalid, b) ==
  /\ pk_state = "FILL"
  /\ IF tvalid /\ pk_tready THEN TakeByte(b) ELSE CountSilence
  /\ UNCHANGED <<pk_tvalid, pk_tdata, pk_tlast>>

\* S_PUSH: the next byte goes into the output register when that is free; when the
\* last one has been taken the buffer is empty again.
Push(m_tready) ==
  LET free == ~pk_tvalid \/ m_tready
      more == push_idx < pk_count IN
  /\ pk_state = "PUSH"
  /\ IF free
       THEN /\ pk_tvalid' = more /\ pk_tlast' = (more /\ push_idx = pk_count - 1)
            /\ pk_tdata' = IF more THEN pk_mem[push_idx] ELSE pk_tdata
            /\ push_idx' = IF more THEN push_idx + 1 ELSE push_idx
            /\ IF more THEN UNCHANGED <<pk_state, pk_count, pk_timer>>
                       ELSE pk_state' = "FILL" /\ pk_count' = 0 /\ pk_timer' = 0
       ELSE UNCHANGED <<pk_state, pk_count, pk_timer, push_idx, pk_tvalid, pk_tdata, pk_tlast>>
  /\ UNCHANGED pk_mem

PacketizerClock(tvalid, b, m_tready) == Fill(tvalid, b) \/ Push(m_tready)

================================================================================

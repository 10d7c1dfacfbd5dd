-------------------------------- MODULE FcspFifo --------------------------------
(***************************************************************************)
(* fcsp_rx_fifo and fcsp_tx_fifo: a synchronous memory with a write and a  *)
(* read pointer and an occupancy counter, followed by one output register  *)
(* (dout, valid_q).  The two modules differ only in the name of a sideband *)
(* signal.  An action is one clock edge; the levels of the two handshakes  *)
(* before the edge (s_tvalid with its entry, m_tready) are the parameters. *)
(*                                                                         *)
(* An entry stands for the packed word {tdata, tlast, channel, flags, seq, *)
(* payload_len, tid}.                                                      *)
(***************************************************************************)
EXTENDS Naturals, Sequences

CONSTANTS
  Depth,     \* parameter DEPTH: words of memory
  Entries    \* the values of the packed word

\* The pointers are $clog2(DEPTH) bits wide and wrap by overflow, which is
\* right only when DEPTH is a power of two; every instance uses 64 or 512.
\* The model lets a pointer wrap at Depth.
ASSUME DepthAssumption == Depth \in Nat \ {0}

VARIABLES
  mem, wr_ptr, rd_ptr, count,   \* memory, pointers, occupancy of the memory
  dout, valid_q,                \* output register
  o_overflow                    \* pulse: an entry was offered and refused

fifoRegs == <<mem, wr_ptr, rd_ptr, count, dout, valid_q, o_overflow>>

Slots == 0 .. Depth - 1

s_tready == count < Depth
m_tvalid == valid_q

\* The memory is read when the output register is free or being emptied.
read_en(m_tready) == count > 0 /\ (~valid_q \/ m_tready)

Wrap(p) == IF p = Depth - 1 THEN 0 ELSE p + 1

FifoInit ==
  /\ mem \in [Slots -> Entries] /\ dout \in Entries  \* no reset in the code
  /\ wr_ptr = 0 /\ rd_ptr = 0 /\ count = 0
  /\ valid_q = FALSE
  /\ o_overflow = FALSE

\* An output register that the reader empties while it is filled.
ReadSideRace(m_tready) ==
  /\ dout' = IF read_en(m_tready) THEN mem[rd_ptr] ELSE dout
  /\ rd_ptr' = IF read_en(m_tready) THEN Wrap(rd_ptr) ELSE rd_ptr
  /\ valid_q' = (~m_tready /\ (read_en(m_tready) \/ valid_q))

\* The output register and the read side of the memory.
ReadSide(m_tready) ==
  /\ dout' = IF read_en(m_tready) THEN mem[rd_ptr] ELSE dout
  /\ rd_ptr' = IF read_en(m_tready) THEN Wrap(rd_ptr) ELSE rd_ptr
  /\ valid_q' = (read_en(m_tready) \/ (valid_q /\ ~m_tready))

\* The write side.
WriteSide(push, e) ==
  /\ mem' = IF push THEN [mem EXCEPT ![wr_ptr] = e] ELSE mem
  /\ wr_ptr' = IF push THEN Wrap(wr_ptr) ELSE wr_ptr

\* A counter that forgets a word leaving as another enters.
CountUpPriority(push, pop) ==
  count' = IF push THEN count + 1
           ELSE IF pop THEN count - 1 ELSE count

\* The occupancy counter: unchanged when a word enters as another leaves.
CountUp(push, pop) ==
  count' = IF push /\ ~pop THEN count + 1
           ELSE IF pop /\ ~push THEN count - 1 ELSE count

Clock(s_tvalid, e, m_tready) ==
  LET push == s_tvalid /\ s_tready IN
  /\ ReadSide(m_tready)
  /\ WriteSide(push, e)
  /\ CountUp(push, read_en(m_tready))
  /\ o_overflow' = (s_tvalid /\ ~s_tready)

FifoNext ==
  \E s_tvalid, m_tready \in BOOLEAN, e \in Entries : Clock(s_tvalid, e, m_tready)

FifoSpec == FifoInit /\ [][FifoNext]_fifoRegs

--------------------------------------------------------------------------------
\* The registers stay in their ranges: the counter within the memory (line 50) and both
\* pointers on a slot.
TypeOK ==
  /\ mem \in [Slots -> Entries] /\ dout \in Entries
  /\ wr_ptr \in Slots /\ rd_ptr \in Slots
  /\ count \in 0 .. Depth
  /\ valid_q \in BOOLEAN /\ o_overflow \in BOOLEAN

\* The counter and the two pointers are three registers that are updated by
\* separate statements (lines 98-110) and must tell the same story.
PointersAgree ==
  \/ rd_ptr + count = wr_ptr
  \/ rd_ptr + count = wr_ptr + Depth

\* The slot of the i-th waiting word, i = 0 the oldest.
SlotOf(i) == IF rd_ptr + i < Depth THEN rd_ptr + i ELSE rd_ptr + i - Depth

\* What the fifo holds, oldest first: the output register, then the memory.
Held == (IF valid_q THEN <<dout>> ELSE <<>>)
          \o [i \in 1 .. count |-> mem[SlotOf(i - 1)]]

Abs == INSTANCE BoundedFifo WITH queue <- Held, Capacity <- Depth + 1

\* What the handshakes of one clock edge ask for, word for word: the head leaves
\* exactly when the reader takes a valid output, an entry comes in exactly when
\* an offered one finds s_tready, and the rest stays as it is.
EdgeIsAQueueStep ==
  \A s_tvalid, m_tready \in BOOLEAN, e \in Entries :
    Clock(s_tvalid, e, m_tready) =>
      Abs!Step(valid_q /\ m_tready,
               IF s_tvalid /\ s_tready THEN <<e>> ELSE <<>>)

\* Every clock edge is the queue step its two handshakes ask for, whatever the
\* occupancy and wherever the pointers are (lines 55-110).
EveryEdgeIsAQueueStep == [][EdgeIsAQueueStep]_fifoRegs

\* The pointers, the counter, the memory and the output register together are
\* a queue: first in, first out, nothing lost, invented or repeated, and room
\* for Depth + 1 entries.
ImplementsBoundedFifo == Abs!Spec

================================================================================

------------------------------ MODULE FcspTxProofs ------------------------------
(***************************************************************************)
(* Theorems about the queues in front of the transmit path (FcspFifo), for *)
(* every depth and every set of entries, and about the path (FcspTxPath),  *)
(* for every load, every CRC function and every length of frame, packet    *)
(* and timeout.                                                            *)
(***************************************************************************)
EXTENDS FcspFifo, FcspTxPath, SequenceTheorems, WellFoundedInduction, TLAPS

(* The queue. *)

\* The inductive invariant: typing and the agreement of the three registers
\* that describe the occupancy.
FifoIInv == TypeOK /\ PointersAgree

\* Reset establishes the invariant.
LEMMA InitFifoIInv == FifoInit => FifoIInv
<1> SUFFICES ASSUME FifoInit PROVE FifoIInv
  OBVIOUS
<1>1. /\ wr_ptr \in Slots /\ rd_ptr \in Slots /\ count \in 0 .. Depth
      /\ PointersAgree
  BY DepthAssumption DEF FifoInit, PointersAgree, Slots
<1>2. /\ mem \in [Slots -> Entries] /\ dout \in Entries
      /\ valid_q \in BOOLEAN /\ o_overflow \in BOOLEAN
  BY DEF FifoInit
<1> QED
  BY <1>1, <1>2 DEF FifoIInv, TypeOK

\* The pointers, the counter and the output register after one clock edge.
LEMMA ClockFifoIInv ==
  ASSUME FifoIInv, NEW s \in BOOLEAN, NEW e \in Entries, NEW r \in BOOLEAN,
         Clock(s, e, r)
  PROVE  FifoIInv'
<1> DEFINE push == s /\ s_tready
           pop  == read_en(r)
<1>1. push => count < Depth
  BY DEF s_tready
<1>2. pop => count > 0
  BY DEF read_en
<1>3. /\ mem' = IF push THEN [mem EXCEPT ![wr_ptr] = e] ELSE mem
      /\ wr_ptr' = IF push THEN Wrap(wr_ptr) ELSE wr_ptr
      /\ rd_ptr' = IF pop THEN Wrap(rd_ptr) ELSE rd_ptr
      /\ count' = IF push /\ ~pop THEN count + 1
                  ELSE IF pop /\ ~push THEN count - 1 ELSE count
  BY DEF Clock, ReadSide, WriteSide, CountUp
<1>4. /\ dout' \in Entries /\ valid_q' \in BOOLEAN /\ o_overflow' \in BOOLEAN
      /\ mem' \in [Slots -> Entries]
  BY DEF Clock, ReadSide, WriteSide, FifoIInv, TypeOK, read_en
<1>5. /\ wr_ptr' \in Slots /\ rd_ptr' \in Slots /\ count' \in 0 .. Depth
  <2> HIDE DEF push, pop
  <2> QED
    BY <1>1, <1>2, <1>3, DepthAssumption DEF FifoIInv, TypeOK, Slots, Wrap
<1>6. PointersAgree'
  <2> HIDE DEF push, pop
  <2> QED
    BY <1>1, <1>2, <1>3, DepthAssumption
    DEF FifoIInv, TypeOK, PointersAgree, Slots, Wrap
<1> QED
  BY <1>4, <1>5, <1>6 DEF FifoIInv, TypeOK

\* The invariant is inductive.
LEMMA NextFifoIInv == FifoIInv /\ [FifoNext]_fifoRegs => FifoIInv'
<1>1. CASE FifoNext
  BY <1>1, ClockFifoIInv DEF FifoNext
<1>2. CASE UNCHANGED fifoRegs
  BY <1>2 DEF fifoRegs, FifoIInv, TypeOK, PointersAgree, Slots
<1> QED
  BY <1>1, <1>2

\* At every depth the registers stay in their ranges: the counter never passes
\* DEPTH and never goes below zero (fcsp_rx_fifo.sv 55-110).
THEOREM TypeCorrect == FifoSpec => []TypeOK
<1>1. FifoIInv => TypeOK
  BY DEF FifoIInv
<1> QED
  BY <1>1, InitFifoIInv, NextFifoIInv, PTL DEF FifoSpec

\* At every depth the write pointer is the read pointer plus the occupancy,
\* modulo DEPTH: neither pointer ever overtakes the other.
THEOREM PointersCorrect == FifoSpec => []PointersAgree
<1>1. FifoIInv => PointersAgree
  BY DEF FifoIInv
<1> QED
  BY <1>1, InitFifoIInv, NextFifoIInv, PTL DEF FifoSpec

--------------------------------------------------------------------------------
\* What Held is: its length, and the word at each position.
HeldLen == count + (IF valid_q THEN 1 ELSE 0)
HeldAt(i) == IF valid_q THEN IF i = 1 THEN dout ELSE mem[SlotOf(i - 2)]
                        ELSE mem[SlotOf(i - 1)]
HeldShape ==
  /\ Held \in Seq(Entries)
  /\ Len(Held) = HeldLen
  /\ \A i \in 1 .. HeldLen : Held[i] = HeldAt(i)

\* The output register followed by the memory is a sequence of HeldLen words.
LEMMA HeldIsShaped == FifoIInv => HeldShape
<1> SUFFICES ASSUME FifoIInv PROVE HeldShape
  OBVIOUS
<1> DEFINE front == IF valid_q THEN <<dout>> ELSE <<>>
           back  == [i \in 1 .. count |-> mem[SlotOf(i - 1)]]
<1>1. count \in Nat /\ dout \in Entries /\ valid_q \in BOOLEAN
  BY DepthAssumption DEF FifoIInv, TypeOK
<1>2. \A i \in 1 .. count : SlotOf(i - 1) \in Slots
  BY DepthAssumption DEF FifoIInv, TypeOK, SlotOf, Slots
<1>3. \A i \in 1 .. count : mem[SlotOf(i - 1)] \in Entries
  BY <1>2 DEF FifoIInv, TypeOK
<1>4. back \in Seq(Entries) /\ Len(back) = count
  BY <1>1, <1>3
<1>5. /\ front \in Seq(Entries)
      /\ Len(front) = IF valid_q THEN 1 ELSE 0
      /\ valid_q => front[1] = dout
  BY <1>1
<1>6. Held = front \o back
  BY DEF Held
<1> HIDE DEF front
<1>7. \A i \in 1 .. count : back[i] = mem[SlotOf(i - 1)]
  OBVIOUS
<1> HIDE DEF back
<1>8. /\ Held \in Seq(Entries)
      /\ Len(Held) = Len(front) + Len(back)
      /\ \A i \in 1 .. Len(front) + Len(back) :
           Held[i] = IF i <= Len(front) THEN front[i] ELSE back[i - Len(front)]
  BY <1>4, <1>5, <1>6, ConcatProperties
<1>9. Len(Held) = HeldLen
  BY <1>4, <1>5, <1>8, <1>1 DEF HeldLen
<1>10. ASSUME NEW i \in 1 .. HeldLen PROVE Held[i] = HeldAt(i)
  <2>1. CASE valid_q
    <3>1. i <= 1 => Held[i] = dout /\ i = 1
      BY <2>1, <1>1, <1>4, <1>5, <1>8 DEF HeldLen
    <3>2. i > 1 => Held[i] = back[i - 1] /\ i - 1 \in 1 .. count
      BY <2>1, <1>1, <1>4, <1>5, <1>8 DEF HeldLen
    <3>3. i > 1 => back[i - 1] = mem[SlotOf(i - 2)]
      BY <3>2, <1>7, <1>1
    <3> QED
      BY <2>1, <3>1, <3>2, <3>3, <1>1 DEF HeldAt, HeldLen
  <2>2. CASE ~valid_q
    <3>1. Held[i] = back[i] /\ i \in 1 .. count
      BY <2>2, <1>1, <1>4, <1>5, <1>8 DEF HeldLen
    <3> QED
      BY <2>2, <3>1, <1>7 DEF HeldAt
  <2> QED
    BY <2>1, <2>2
<1> QED
  BY <1>8, <1>9, <1>10 DEF HeldShape

\* The same in the state after a step.
LEMMA HeldIsShapedNext == FifoIInv' => HeldShape'
BY HeldIsShaped, PTL

\* Where a position of Held lies in the memory.
LEMMA HeldPositions ==
  \A c \in Nat, v \in BOOLEAN : \A i \in 1 .. (c + (IF v THEN 1 ELSE 0)) :
    /\ i \in Nat \ {0}
    /\ v /\ i # 1 => i - 2 \in Nat /\ i - 2 < c
    /\ ~v => i - 1 \in Nat /\ i - 1 < c
OBVIOUS

\* One clock edge is one step of the abstract fifo, with the head taken exactly
\* on an output handshake and an entry put exactly on an input handshake.
LEMMA ClockIsStep ==
  ASSUME FifoIInv, NEW s \in BOOLEAN, NEW e \in Entries, NEW r \in BOOLEAN,
         Clock(s, e, r)
  PROVE  Abs!Step(valid_q /\ r, IF s /\ s_tready THEN <<e>> ELSE <<>>)
<1> DEFINE push  == s /\ s_tready
           pop   == read_en(r)
           taken == valid_q /\ r
           put   == IF push THEN <<e>> ELSE <<>>
           rest  == IF taken THEN Tail(Held) ELSE Held
           nput  == IF push THEN 1 ELSE 0
           ntake == IF taken THEN 1 ELSE 0
<1>1. HeldShape /\ HeldShape'
  BY HeldIsShaped, HeldIsShapedNext, ClockFifoIInv
<1>2. /\ count \in 0 .. Depth /\ count' \in 0 .. Depth
      /\ valid_q \in BOOLEAN /\ valid_q' \in BOOLEAN
      /\ rd_ptr \in Slots /\ wr_ptr \in Slots /\ rd_ptr' \in Slots
      /\ mem \in [Slots -> Entries] /\ Depth \in Nat \ {0}
      /\ PointersAgree
  BY ClockFifoIInv, DepthAssumption DEF FifoIInv, TypeOK
<1>3. /\ push => count < Depth
      /\ pop <=> (count > 0 /\ (~valid_q \/ r))
      /\ mem' = IF push THEN [mem EXCEPT ![wr_ptr] = e] ELSE mem
      /\ rd_ptr' = IF pop THEN Wrap(rd_ptr) ELSE rd_ptr
      /\ dout' = IF pop THEN mem[rd_ptr] ELSE dout
      /\ valid_q' = (pop \/ (valid_q /\ ~r))
      /\ count' = IF push /\ ~pop THEN count + 1
                  ELSE IF pop /\ ~push THEN count - 1 ELSE count
  BY DEF Clock, ReadSide, WriteSide, CountUp, s_tready, read_en
<1>4. /\ push \in BOOLEAN /\ pop \in BOOLEAN /\ taken \in BOOLEAN
  BY <1>2 DEF s_tready, read_en
<1>5. put \in Seq(Entries) /\ Len(put) = nput /\ (push => put[1] = e)
  OBVIOUS
<1>6. taken => Held # <<>>
  BY <1>1, <1>2, EmptySeq DEF HeldShape, HeldLen
<1>7. /\ rest \in Seq(Entries)
      /\ Len(rest) = HeldLen - ntake
      /\ \A i \in 1 .. HeldLen - ntake : rest[i] = HeldAt(i + ntake)
  <2>1. CASE taken
    BY <2>1, <1>1, <1>2, <1>6, HeadTailProperties DEF HeldShape, HeldLen
  <2>2. CASE ~taken
    BY <2>2, <1>1, <1>2 DEF HeldShape, HeldLen
  <2> QED
    BY <2>1, <2>2
<1> DEFINE after == rest \o put
<1>8. /\ after \in Seq(Entries)
      /\ Len(after) = HeldLen - ntake + nput
      /\ \A i \in 1 .. HeldLen - ntake + nput :
           after[i] = IF i <= HeldLen - ntake THEN HeldAt(i + ntake) ELSE e
  <2> HIDE DEF put, rest
  <2>1. /\ after \in Seq(Entries)
        /\ Len(after) = Len(rest) + Len(put)
        /\ \A i \in 1 .. Len(rest) + Len(put) :
             after[i] = IF i <= Len(rest) THEN rest[i] ELSE put[i - Len(rest)]
    BY <1>5, <1>7, ConcatProperties
  <2>2. HeldLen - ntake \in Nat
    BY <1>2 DEF HeldLen
  <2> HIDE DEF after, push, taken
  <2> QED
    BY <2>1, <2>2, <1>5, <1>7, <1>4
<1>9. HeldLen' = HeldLen - ntake + nput
  <2> HIDE DEF push, pop
  <2> QED
    BY <1>2, <1>3, <1>4 DEF HeldLen
<1>a. \A j \in 0 .. Depth - 1 :
         /\ SlotOf(j) \in Slots
         /\ ~pop => SlotOf(j)' = SlotOf(j)
         /\ pop /\ j + 1 < Depth => SlotOf(j)' = SlotOf(j + 1)
         /\ pop /\ j + 1 = Depth => SlotOf(j)' = rd_ptr
  <2> HIDE DEF push, pop, taken
  <2> QED
    BY <1>2, <1>3 DEF SlotOf, Slots, Wrap
<1>b. /\ count < Depth => SlotOf(count) = wr_ptr
      /\ \A j \in 0 .. count - 1 : push => SlotOf(j) # wr_ptr
      /\ SlotOf(0) = rd_ptr
  <2> HIDE DEF pop, taken
  <2> QED
    BY <1>2, <1>3 DEF SlotOf, Slots, PointersAgree
<1>c. \A j \in 0 .. Depth - 1 : j < count => mem'[SlotOf(j)] = mem[SlotOf(j)]
  <2> HIDE DEF push, pop, taken
  <2> QED
    BY <1>2, <1>3, <1>a, <1>b
<1>d. push => mem'[wr_ptr] = e
  <2> HIDE DEF push, pop, taken
  <2> QED
    BY <1>2, <1>3
<1> DEFINE gone == IF pop THEN 1 ELSE 0
<1>f. \A j \in Nat : j < count' => j \in 0 .. Depth - 1
  BY <1>2
<1>g. /\ gone \in {0, 1} /\ (pop => gone = 1) /\ (~pop => gone = 0)
  OBVIOUS
\* The j-th waiting word after the edge: an older word moved up, or the new one.
<1>e. \A j \in Nat : j < count' =>
         mem'[SlotOf(j)'] = IF j + gone < count THEN mem[SlotOf(j + gone)] ELSE e
  <2> HIDE DEF push, pop, taken
  <2> SUFFICES ASSUME NEW j \in Nat, j < count'
               PROVE  mem'[SlotOf(j)'] =
                        IF j + gone < count THEN mem[SlotOf(j + gone)] ELSE e
    OBVIOUS
  <2>1. j \in 0 .. Depth - 1
    BY <1>f
  <2>2. CASE j + gone < count
    <3>1. SlotOf(j)' = SlotOf(j + gone) /\ j + gone \in 0 .. Depth - 1
      BY <2>1, <2>2, <1>2, <1>a, <1>g
    <3> QED
      BY <2>2, <3>1, <1>c
  <2>3. CASE ~(j + gone < count)
    <3>1. push /\ j + gone = count /\ count < Depth
      BY <2>1, <2>3, <1>2, <1>3, <1>4, <1>g
    <3>2. SlotOf(j)' = SlotOf(count)
      BY <3>1, <2>1, <1>2, <1>a, <1>g
    <3> QED
      BY <2>3, <3>1, <3>2, <1>b, <1>d
  <2> QED
    BY <2>2, <2>3
<1>10. ASSUME NEW i \in 1 .. HeldLen' PROVE HeldAt(i)' = after[i]
  <2>1. HeldAt(i)' = IF valid_q' THEN IF i = 1 THEN dout' ELSE mem'[SlotOf(i - 2)']
                                 ELSE mem'[SlotOf(i - 1)']
    BY DEF HeldAt, SlotOf
  <2> HIDE DEF push, after
  <2>2. after[i] = IF i <= HeldLen - ntake THEN HeldAt(i + ntake) ELSE e
    BY <1>8, <1>9
  <2>3. /\ i \in Nat \ {0}
        /\ valid_q' /\ i # 1 => i - 2 \in Nat /\ i - 2 < count'
        /\ ~valid_q' => i - 1 \in Nat /\ i - 1 < count'
    <3>1. i \in 1 .. (count' + (IF valid_q' THEN 1 ELSE 0))
      BY DEF HeldLen
    <3>2. count' \in Nat /\ valid_q' \in BOOLEAN
      BY <1>2
    <3> QED
      BY <3>1, <3>2, HeldPositions, Zenon
  <2> HIDE DEF pop, taken
  <2>5. HeldLen = count + (IF valid_q THEN 1 ELSE 0)
    BY DEF HeldLen
  <2>6. /\ taken => valid_q
        /\ valid_q /\ pop => taken
        /\ taken /\ ~pop => count = 0
        /\ valid_q' <=> (pop \/ (valid_q /\ ~taken))
    BY <1>2, <1>3, <1>4 DEF taken
  <2>7. CASE pop
    <3>1. valid_q' /\ dout' = mem[rd_ptr] /\ count > 0 /\ (valid_q <=> taken)
      BY <2>6, <2>7, <1>3
    <3>2. CASE i = 1
      BY <2>1, <2>2, <2>5, <3>1, <3>2, <1>2, <1>b DEF HeldAt
    <3>3. CASE i # 1
      <4>1. HeldAt(i)' = IF i - 2 + 1 < count THEN mem[SlotOf(i - 2 + 1)] ELSE e
        BY <2>3, <3>1, <3>3, <2>1, <1>e, <2>7, <1>g
      <4>2. i - 2 + 1 = i - 1
        BY <2>3
      <4>3. after[i] = IF i - 1 < count THEN mem[SlotOf(i - 1)] ELSE e
        BY <2>2, <2>3, <2>5, <3>1, <3>3, <1>2 DEF HeldAt
      <4> QED
        BY <4>1, <4>2, <4>3
    <3> QED
      BY <3>2, <3>3
  <2>8. CASE ~pop
    <3>1. dout' = dout
      BY <2>8, <1>3
    <3>2. \A j \in Nat : j < count' =>
            mem'[SlotOf(j)'] = IF j < count THEN mem[SlotOf(j)] ELSE e
      BY <2>8, <1>2, <1>e, <1>g
    <3>3. CASE valid_q'
      <4>1. valid_q /\ ~taken
        BY <2>6, <2>8, <3>3
      <4>2. HeldAt(i)' = IF i = 1 THEN dout
                         ELSE IF i - 2 < count THEN mem[SlotOf(i - 2)] ELSE e
        BY <2>1, <2>3, <3>1, <3>2, <3>3
      <4>3. after[i] = IF i <= count + 1 THEN HeldAt(i) ELSE e
        BY <2>2, <2>3, <2>5, <4>1
      <4> QED
        BY <4>1, <4>2, <4>3, <2>3, <1>2 DEF HeldAt
    <3>4. CASE ~valid_q'
      <4>1. HeldAt(i)' = IF i - 1 < count THEN mem[SlotOf(i - 1)] ELSE e
        BY <2>1, <2>3, <3>2, <3>4
      <4>2. CASE taken
        <5>1. count = 0 /\ valid_q
          BY <2>6, <2>8, <4>2
        <5>2. ~(i - 1 < count) /\ HeldLen = 1 /\ ~(i <= HeldLen - ntake)
          BY <5>1, <2>3, <2>5, <4>2
        <5> QED
          BY <5>2, <4>1, <2>2
      <4>3. CASE ~taken
        <5>1. ~valid_q /\ HeldLen = count /\ ntake = 0
          BY <2>5, <2>6, <2>8, <3>4, <4>3, <1>2
        <5>2. after[i] = IF i <= count THEN HeldAt(i) ELSE e
          BY <5>1, <2>2, <2>3, <1>2
        <5> QED
          BY <5>1, <5>2, <4>1, <2>3, <1>2 DEF HeldAt
      <4> QED
        BY <4>2, <4>3
    <3> QED
      BY <3>3, <3>4
  <2> QED
    BY <2>7, <2>8
<1>11. Held' = after
  <2> HIDE DEF after
  <2> QED
    BY <1>1, <1>8, <1>9, <1>10, SeqEqual DEF HeldShape
<1>12. put # <<>> => Len(Held) < Depth + 1
  BY <1>1, <1>2, <1>3 DEF HeldShape, HeldLen
<1> QED
  BY <1>6, <1>11, <1>12 DEF Abs!Step

\* On every clock edge, at every depth, exactly the entry at the head leaves on an
\* output handshake and exactly the offered entry joins at the tail on an input
\* handshake (fcsp_rx_fifo.sv 55-110).
THEOREM QueueSteps == FifoSpec => EveryEdgeIsAQueueStep
<1>1. FifoIInv => EdgeIsAQueueStep
  BY ClockIsStep DEF EdgeIsAQueueStep
<1> QED
  BY <1>1, InitFifoIInv, NextFifoIInv, PTL DEF FifoSpec, EveryEdgeIsAQueueStep

\* fcsp_rx_fifo and fcsp_tx_fifo implement the abstract fifo of capacity
\* DEPTH + 1, for every DEPTH and every set of entries.
THEOREM FifoRefinement == FifoSpec => ImplementsBoundedFifo
<1>1. FifoInit => Abs!Init
  <2> SUFFICES ASSUME FifoInit PROVE Held = <<>>
    BY DEF Abs!Init
  <2>1. HeldShape /\ HeldLen = 0
    BY InitFifoIInv, HeldIsShaped DEF FifoInit, HeldLen
  <2> QED
    BY <2>1, EmptySeq DEF HeldShape
<1>2. FifoIInv /\ [FifoNext]_fifoRegs => [Abs!Next]_Held
  <2> SUFFICES ASSUME FifoIInv, [FifoNext]_fifoRegs PROVE [Abs!Next]_Held
    OBVIOUS
  <2>1. CASE FifoNext
    <3>1. PICK s \in BOOLEAN, r \in BOOLEAN, e \in Entries : Clock(s, e, r)
      BY <2>1 DEF FifoNext
    <3>2. Abs!Step(valid_q /\ r, IF s /\ s_tready THEN <<e>> ELSE <<>>)
      BY <3>1, ClockIsStep
    <3>3. /\ (valid_q /\ r) \in BOOLEAN
          /\ (IF s /\ s_tready THEN <<e>> ELSE <<>>)
               \in {<<>>} \cup { <<x>> : x \in Entries }
      BY DEF FifoIInv, TypeOK
    <3> QED
      BY <3>2, <3>3, Zenon DEF Abs!Next
  <2>2. CASE UNCHANGED fifoRegs
    BY <2>2 DEF fifoRegs, Held, SlotOf
  <2> QED
    BY <2>1, <2>2
<1> QED
  BY <1>1, <1>2, InitFifoIInv, NextFifoIInv, PTL
  DEF FifoSpec, ImplementsBoundedFifo, Abs!Spec

--------------------------------------------------------------------------------
(* What a control response waits for. *)

\* What is decided by the arbiter.
Selections == Fifos \cup {"esc", "none"}

\* TX path: what a control response may wait for.  A frame on the wire and a grant that
\* another has are one frame each.
One(b) == IF b THEN 1 ELSE 0
Waiting ==
  /\ overtakers \in 0 .. 2
  /\ sel \in Selections
  /\ tvalid \in [Fifos -> BOOLEAN] /\ pos \in [Fifos -> Nat \ {0}]
  /\ fr_state \in FramerStates
  /\ pos["ctrl"] = 1 => overtakers + One(wire_tvalid) + One(sel \in {"esc", "dbg"}) <= 2

\* A byte that is taken.
LEMMA TakenFacts ==
  ASSUME sel \in Selections, Taken
  PROVE  /\ fr_state = "CAPTURE" /\ sel # "none" /\ Offer.valid
         /\ sel \in Fifos => tvalid[sel]
BY DEF Taken, Offer, fr_tready, Selections, Fifos

\* Without a grant nothing is offered.
LEMMA NotTakenFromNone == ASSUME sel = "none" PROVE ~Taken /\ ~Offer.valid
BY DEF Taken, Offer, Fifos

\* A frame leaves the wire with its last byte, and not before.
LEMMA FramerStateStep ==
  ASSUME fr_state \in FramerStates, NEW v, NEW b, NEW l, NEW meta, NEW r,
         FramerClock(v, b, l, meta, r)
  PROVE  /\ fr_state' \in FramerStates
         /\ fr_state = "CAPTURE" /\ ~(v /\ l) => fr_state' = "CAPTURE"
         /\ fr_state # "CAPTURE" =>
              (fr_state' = "CAPTURE" <=> r /\ fr_state = "CRC_L")
<1>1. CASE Capture(v, b, l, meta)
  BY <1>1 DEF Capture, CaptureByte, FramerStates, HeaderStates
<1>2. CASE Emit(r)
  BY <1>2 DEF Emit, NextState, FramerStates, HeaderStates
<1> QED  BY <1>1, <1>2 DEF FramerClock

\* A grant goes only with the last byte of its frame.
LEMMA ArbiterStep ==
  ASSUME sel \in Selections, Arbiter
  PROVE  /\ sel' \in Selections
         /\ sel = "none" /\ tvalid["ctrl"] => sel' = "ctrl"
         /\ sel # "none" => sel' = IF Taken /\ Offer.last THEN "none" ELSE sel
         /\ sel' \in {"esc", "dbg"} /\ sel # sel' => sel = "none" /\ ~tvalid["ctrl"]
BY DEF Arbiter, Grant, Selections, Fifos

\* A FIFO moves on with the bytes it hands over.
LEMMA FifosStep ==
  ASSUME pos \in [Fifos -> Nat \ {0}], FifosOut
  PROVE  /\ tvalid' \in [Fifos -> BOOLEAN] /\ pos' \in [Fifos -> Nat \ {0}]
         /\ \A q \in Fifos : ~(sel = q /\ Taken) =>
              pos'[q] = pos[q] /\ (tvalid[q] => tvalid'[q])
BY DEF FifosOut

\* A frame that ends while a control response waits was on the wire or had the grant.
LEMMA WaitingStep ==
  ASSUME Waiting, NEW u, NEW c, NEW l, Edge(u, c, l)
  PROVE  Waiting'
<1> DEFINE moves == wire_tvalid /\ wire_tready(u)
           ends  == moves /\ fr_state = "CRC_L"
<1>1. /\ FramerClock(Offer.valid, Offer.data, Offer.last, Offer.meta, wire_tready(u))
      /\ Arbiter /\ FifosOut /\ Observe(u)
  BY DEF Edge
<1>2. /\ fr_state' \in FramerStates
      /\ fr_state = "CAPTURE" /\ ~(Offer.valid /\ Offer.last) => fr_state' = "CAPTURE"
      /\ fr_state # "CAPTURE" =>
           (fr_state' = "CAPTURE" <=> wire_tready(u) /\ fr_state = "CRC_L")
  BY <1>1, FramerStateStep, Zenon DEF Waiting
<1>3. /\ sel' \in Selections
      /\ sel = "none" /\ tvalid["ctrl"] => sel' = "ctrl"
      /\ sel # "none" => sel' = IF Taken /\ Offer.last THEN "none" ELSE sel
      /\ sel' \in {"esc", "dbg"} /\ sel # sel' => sel = "none" /\ ~tvalid["ctrl"]
  BY <1>1, ArbiterStep DEF Waiting
<1>4. /\ tvalid' \in [Fifos -> BOOLEAN] /\ pos' \in [Fifos -> Nat \ {0}]
      /\ ~(sel = "ctrl" /\ Taken) => pos'["ctrl"] = pos["ctrl"]
  BY <1>1, FifosStep DEF Waiting, Fifos
<1>5. overtakers' = IF ~tvalid["ctrl"] \/ (sel = "ctrl" /\ Taken) THEN 0
                    ELSE IF ends /\ pos["ctrl"] = 1 THEN overtakers + 1 ELSE overtakers
  BY <1>1 DEF Observe
<1>6. CASE ~tvalid["ctrl"] \/ (sel = "ctrl" /\ Taken)
  <2>1. overtakers' = 0  BY <1>5, <1>6
  <2>2. One(wire_tvalid)' \in 0 .. 1 /\ One(sel \in {"esc", "dbg"})' \in 0 .. 1  BY DEF One
  <2> QED  BY <1>2, <1>3, <1>4, <2>1, <2>2 DEF Waiting
<1>7. CASE tvalid["ctrl"] /\ ~(sel = "ctrl" /\ Taken)
  <2>1. overtakers' = IF ends /\ pos["ctrl"] = 1 THEN overtakers + 1 ELSE overtakers
    BY <1>5, <1>7
  <2>2. pos'["ctrl"] = pos["ctrl"]  BY <1>4, <1>7
  <2>3. CASE pos["ctrl"] # 1
    BY <1>2, <1>3, <1>4, <2>1, <2>2, <2>3 DEF Waiting
  <2>4. CASE pos["ctrl"] = 1
    <3>1. overtakers + One(wire_tvalid) + One(sel \in {"esc", "dbg"}) <= 2  BY <2>4 DEF Waiting
    <3>2. CASE ends
      <4>1. wire_tvalid /\ ~wire_tvalid'  BY <1>2, <3>2 DEF wire_tvalid
      <4>2. ~Taken  BY <4>1 DEF Taken, fr_tready, wire_tvalid
      <4>3. sel' \in {"esc", "dbg"} => sel \in {"esc", "dbg"}  BY <1>3, <1>7
      <4>4. overtakers' = overtakers + 1  BY <2>1, <2>4, <3>2
      <4>5. overtakers' + One(wire_tvalid)' + One(sel \in {"esc", "dbg"})' <= 2
        BY <3>1, <4>1, <4>3, <4>4 DEF One, Waiting
      <4>6. overtakers' \in 0 .. 2
        BY <3>1, <4>1, <4>4 DEF One, Waiting
      <4> QED  BY <1>2, <1>3, <1>4, <4>5, <4>6 DEF Waiting
    <3>3. CASE ~ends
      <4>1. overtakers' = overtakers  BY <2>1, <3>3
      <4>2. CASE wire_tvalid
        <5>1. ~Taken  BY <4>2 DEF Taken, fr_tready, wire_tvalid
        <5>2. sel' \in {"esc", "dbg"} => sel \in {"esc", "dbg"}  BY <1>3, <1>7
        <5>3. overtakers' + One(wire_tvalid)' + One(sel \in {"esc", "dbg"})' <= 2
          BY <3>1, <4>1, <4>2, <5>2 DEF One, Waiting
        <5> QED  BY <1>2, <1>3, <1>4, <4>1, <5>3 DEF Waiting
      <4>3. CASE ~wire_tvalid /\ ~(Taken /\ Offer.last)
        <5>1. ~wire_tvalid'
          BY <1>2, <4>3 DEF wire_tvalid, Taken, fr_tready
        <5>2. sel' \in {"esc", "dbg"} => sel \in {"esc", "dbg"}  BY <1>3, <1>7
        <5>3. overtakers' + One(wire_tvalid)' + One(sel \in {"esc", "dbg"})' <= 2
          BY <3>1, <4>1, <4>3, <5>1, <5>2 DEF One, Waiting
        <5> QED  BY <1>2, <1>3, <1>4, <4>1, <5>3 DEF Waiting
      <4>4. CASE ~wire_tvalid /\ Taken /\ Offer.last
        <5>1. sel # "none"  BY <4>4, NotTakenFromNone
        <5>2. sel \in {"esc", "dbg"} /\ sel' = "none"
          BY <1>3, <1>7, <4>4, <5>1 DEF Waiting, Selections, Fifos
        <5>3. overtakers' + One(wire_tvalid)' + One(sel \in {"esc", "dbg"})' <= 2
          BY <3>1, <4>1, <4>4, <5>2 DEF One, Waiting
        <5> QED  BY <1>2, <1>3, <1>4, <4>1, <5>3 DEF Waiting
      <4> QED  BY <4>2, <4>3, <4>4
    <3> QED  BY <3>2, <3>3
  <2> QED  BY <2>3, <2>4
<1> QED  BY <1>6, <1>7

\* The bound on the waiting holds at reset.
LEMMA WaitingInit == Init => Waiting
<1> SUFFICES ASSUME Init PROVE Waiting  OBVIOUS
<1> QED
  BY DEF Init, FramerInit, Waiting, Selections, Fifos, FramerStates, wire_tvalid, One

\* A step keeps the bound on the waiting.
LEMMA WaitingNext == Waiting /\ [Next]_vars => Waiting'
<1> SUFFICES ASSUME Waiting, [Next]_vars PROVE Waiting'  OBVIOUS
<1>1. CASE UNCHANGED vars
  BY <1>1 DEF vars, framerVars, fifoVars, logVars, Waiting, wire_tvalid
<1>2. CASE Next
  <2>1. PICK u \in traffic.usb, c \in traffic.cs, l \in BOOLEAN : Edge(u, c, l)  BY <1>2 DEF Next
  <2> QED  BY <2>1, WaitingStep
<1> QED  BY <1>1, <1>2

\* "CTRL always wins" (fcsp_tx_arbiter.sv): whatever the producers have and however slow the
\* ports are, a control response waits for two frames of others at most.
THEOREM ControlSoon == Spec => []ControlWaitsForTwo
<1>1. Waiting => ControlWaitsForTwo  BY DEF Waiting, ControlWaitsForTwo
<1> QED  BY <1>1, WaitingInit, WaitingNext, PTL DEF Spec

--------------------------------------------------------------------------------
(* What the ports get. *)

\* Sequences of anything.
IsSeq(s) == Len(s) \in Nat /\ s = [i \in 1 .. Len(s) |-> s[i]]

\* Append, for a sequence of anything.
LEMMA AppendAny ==
  ASSUME NEW s, IsSeq(s), NEW x
  PROVE  /\ IsSeq(Append(s, x)) /\ Len(Append(s, x)) = Len(s) + 1
         /\ \A i \in 1 .. Len(s) : Append(s, x)[i] = s[i]
         /\ Append(s, x)[Len(s) + 1] = x
<1>0. PICK n \in Nat : Len(s) = n  BY DEF IsSeq
<1> DEFINE S == {s[i] : i \in 1 .. n} \cup {x}
<1>1. s \in Seq(S)
  <2>1. \A i \in 1 .. n : s[i] \in S  OBVIOUS
  <2> HIDE DEF S
  <2> QED  BY <1>0, <2>1 DEF IsSeq
<1>2. x \in S  OBVIOUS
<1> HIDE DEF S
<1>3. /\ Append(s, x) \in Seq(S) /\ Len(Append(s, x)) = n + 1
      /\ \A i \in 1 .. n : Append(s, x)[i] = s[i]
      /\ Append(s, x)[n + 1] = x
  BY <1>0, <1>1, <1>2, AppendProperties
<1> DEFINE t == Append(s, x)
<1>4. t = [i \in 1 .. n + 1 |-> t[i]]
  <2>1. t \in Seq(S) /\ Len(t) = n + 1  BY <1>3
  <2> HIDE DEF t
  <2> QED  BY <2>1
<1> QED  BY <1>0, <1>3, <1>4 DEF IsSeq

\* What the ports have of the frame on the wire: each byte once, if it is a frame for them.
SpiSteady == traffic.usb = {TRUE} /\ traffic.cs = {FALSE}
SentTyped == sent = [c \in Byte |-> sent[c]] /\ \A c \in Byte : IsSeq(sent[c])
PortsInv ==
  /\ copies \in [Ports -> 0 .. 2]
  /\ SpiSteady /\ spi_cs_n_sync => sel = "none" /\ ~wire_tvalid /\ (\A q \in Fifos : ~tvalid[q]) /\ ~pk_tvalid
  /\ ~wire_tvalid => copies = [p \in Ports |-> 0] /\ uneven = {}
  /\ frame_meta.tdest = 0 => copies["usb"] = 0 /\ "usb" \notin uneven
  /\ frame_meta.tdest = 1 /\ SpiSteady => copies["spi"] = 0 /\ "spi" \notin uneven
  /\ SentTyped /\ PortsGetTheirFrames

\* A frame keeps its header until its last byte has left.
LEMMA FramerKeepsMeta ==
  ASSUME fr_state \in FramerStates, wire_tvalid,
         NEW v, NEW b, NEW l, NEW meta, NEW r, FramerClock(v, b, l, meta, r)
  PROVE  frame_meta' = frame_meta /\ (wire_tvalid' \/ (r /\ fr_state = "CRC_L"))
<1>1. Emit(r)  BY DEF FramerClock, Capture, wire_tvalid
<1>2. frame_meta' = frame_meta  BY <1>1 DEF Emit
<1>3. wire_tvalid' \/ (r /\ fr_state = "CRC_L")
  BY FramerStateStep DEF wire_tvalid
<1> QED  BY <1>2, <1>3

\* A frame is put into the record of its channel, or there is none for it.
LEMMA SentStep ==
  ASSUME SentTyped, NEW k, NEW x, sent' = [sent EXCEPT ![k] = Append(@, x)]
  PROVE  /\ SentTyped'
         /\ \A c \in Byte : c # k => sent'[c] = sent[c]
         /\ k \in Byte => sent'[k] = Append(sent[k], x)
         /\ k \in Byte => Len(sent'[k]) = Len(sent[k]) + 1
         /\ k \in Byte => \A n \in 1 .. Len(sent[k]) : sent'[k][n] = sent[k][n]
         /\ k \in Byte => sent'[k][Len(sent[k]) + 1] = x
<1>1. \A c \in Byte : sent'[c] = IF c = k THEN Append(sent[c], x) ELSE sent[c]
  BY DEF SentTyped
<1>2. sent' = [c \in Byte |-> sent'[c]]  BY DEF SentTyped
<1>3. ASSUME NEW c \in Byte PROVE IsSeq(sent'[c])
  <2>1. IsSeq(sent[c])  BY DEF SentTyped
  <2>2. IsSeq(Append(sent[c], x))  BY <2>1, AppendAny
  <2> QED  BY <1>1, <2>1, <2>2
<1>4. SentTyped'  BY <1>2, <1>3 DEF SentTyped
<1>5. CASE k \in Byte
  <2>1. IsSeq(sent[k])  BY <1>5 DEF SentTyped
  <2>2. sent'[k] = Append(sent[k], x)  BY <1>1, <1>5
  <2> QED  BY <1>1, <1>4, <2>1, <2>2, AppendAny
<1> QED  BY <1>1, <1>4, <1>5

\* A clock edge keeps what the ports have of the frame on the wire.
LEMMA PortsStep ==
  ASSUME PortsInv, Waiting, NEW u \in traffic.usb, NEW c \in traffic.cs, NEW l,
         Edge(u, c, l)
  PROVE  PortsInv'
<1> DEFINE moves == wire_tvalid /\ wire_tready(u)
           ends  == moves /\ fr_state = "CRC_L"
           takes(p) == IF p = "usb" THEN wire_tvalid /\ u ELSE spi_tx_valid /\ spi_tx_ready
           times(p) == IF takes(p) /\ copies[p] < 2 THEN copies[p] + 1 ELSE copies[p]
           odd  == IF moves THEN uneven \cup {p \in Ports : times(p) # 1} ELSE uneven
           wire == IF moves THEN Append(wire_line, wire_tdata) ELSE wire_line
           rec  == [wire |-> wire, uneven |-> odd, tdest |-> frame_meta.tdest]
<1>1. /\ FramerClock(Offer.valid, Offer.data, Offer.last, Offer.meta, wire_tready(u))
      /\ spi_cs_n_sync' = c
      /\ copies' = [p \in Ports |-> IF moves THEN 0 ELSE times(p)]
      /\ uneven' = IF ends THEN {} ELSE odd
      /\ sent' = IF ends THEN [sent EXCEPT ![wire[4]] = Append(@, rec)] ELSE sent
      /\ traffic' = traffic
  BY DEF Edge, Observe, SpiTx
<1>2. copies' \in [Ports -> 0 .. 2]
  <2>1. \A p \in Ports : times(p) \in 0 .. 2  BY DEF PortsInv
  <2> HIDE DEF times
  <2> QED  BY <1>1, <2>1
<1>3. ASSUME SpiSteady', spi_cs_n_sync' PROVE FALSE  BY <1>1, <1>3 DEF SpiSteady
<1>4. CASE ~wire_tvalid
  <2>1. copies = [p \in Ports |-> 0] /\ uneven = {}  BY <1>4 DEF PortsInv
  <2>2. ~moves /\ ~ends  BY <1>4
  <2>3. \A p \in Ports : times(p) = 0  BY <1>4, <2>1 DEF spi_tx_valid
  <2>4. copies' = [p \in Ports |-> 0] /\ uneven' = {} /\ sent' = sent
    BY <1>1, <2>1, <2>2, <2>3
  <2>5. PortsGetTheirFrames' /\ SentTyped'
    BY <1>1, <2>4 DEF PortsInv, PortsGetTheirFrames, SentTyped
  <2> QED  BY <1>2, <1>3, <2>4, <2>5 DEF PortsInv, Ports
<1>5. CASE wire_tvalid
  <2>1. frame_meta' = frame_meta /\ (wire_tvalid' \/ ends)
    BY <1>1, <1>5, FramerKeepsMeta DEF Waiting
  <2>2. ASSUME frame_meta.tdest = 0
        PROVE  "usb" \notin odd /\ ((moves /\ copies'["usb"] = 0) \/ (~moves /\ copies'["usb"] = 0))
    <3>1. moves <=> takes("usb")  BY <1>5, <2>2 DEF wire_tready, tx_route_spi
    <3>2. copies["usb"] = 0 /\ "usb" \notin uneven  BY <2>2 DEF PortsInv
    <3>3. "usb" \in Ports  BY DEF Ports
    <3>4. times("usb") = IF moves THEN 1 ELSE 0  BY <3>1, <3>2
    <3> HIDE DEF times, moves
    <3> QED  BY <1>1, <3>2, <3>3, <3>4
  <2>3. ASSUME frame_meta.tdest = 1, SpiSteady
        PROVE  "spi" \notin odd /\ copies'["spi"] = 0
    <3>1. ~spi_cs_n_sync /\ u  BY <1>5, <2>3 DEF PortsInv, SpiSteady
    <3>2. moves <=> takes("spi")
      BY <1>5, <2>3, <3>1 DEF wire_tready, tx_route_spi, spi_tx_valid
    <3>3. copies["spi"] = 0 /\ "spi" \notin uneven  BY <2>3 DEF PortsInv
    <3>4. "spi" \in Ports  BY DEF Ports
    <3>5. times("spi") = IF moves THEN 1 ELSE 0  BY <3>2, <3>3
    <3> HIDE DEF times, moves
    <3> QED  BY <1>1, <3>3, <3>4, <3>5
  <2>4. SpiSteady' = SpiSteady  BY <1>1 DEF SpiSteady
  <2>5. /\ frame_meta'.tdest = 0 => copies'["usb"] = 0 /\ "usb" \notin uneven'
        /\ frame_meta'.tdest = 1 /\ SpiSteady' => copies'["spi"] = 0 /\ "spi" \notin uneven'
    <3> HIDE DEF odd, moves, times
    <3> QED  BY <1>1, <2>1, <2>2, <2>3, <2>4
  <2>6. ~wire_tvalid' => copies' = [p \in Ports |-> 0] /\ uneven' = {}
    <3>1. ~wire_tvalid' => ends /\ moves  BY <2>1
    <3> HIDE DEF odd, moves, times
    <3> QED  BY <1>1, <3>1
  <2>7. SentTyped' /\ PortsGetTheirFrames'
    <3>1. CASE ~ends
      BY <1>1, <2>4, <3>1 DEF PortsInv, PortsGetTheirFrames, SentTyped
    <3>2. CASE ends
      <4> DEFINE k == wire[4]
      <4>0. SentTyped /\ PortsGetTheirFrames  BY DEF PortsInv
      <4>1. sent' = [sent EXCEPT ![k] = Append(@, rec)]  BY <1>1, <3>2
      <4>2. /\ rec.tdest = 0 => "usb" \notin rec.uneven
            /\ rec.tdest = 1 /\ SpiSteady => "spi" \notin rec.uneven
        <5> HIDE DEF odd
        <5> QED  BY <2>2, <2>3
      <4> HIDE DEF k, rec
      <4>3. /\ SentTyped'
            /\ \A d \in Byte : d # k => sent'[d] = sent[d]
            /\ k \in Byte =>
                 /\ Len(sent'[k]) = Len(sent[k]) + 1
                 /\ \A n \in 1 .. Len(sent[k]) : sent'[k][n] = sent[k][n]
                 /\ sent'[k][Len(sent[k]) + 1] = rec
        BY <4>0, <4>1, SentStep
      <4>4. ASSUME NEW d \in Byte, NEW n \in DOMAIN sent'[d]
            PROVE  /\ sent'[d][n].tdest = 0 => "usb" \notin sent'[d][n].uneven
                   /\ sent'[d][n].tdest = 1 /\ SpiSteady => "spi" \notin sent'[d][n].uneven
        <5>1. CASE d # k \/ n \in 1 .. Len(sent[d])
          <6>1. n \in DOMAIN sent[d] /\ sent'[d][n] = sent[d][n]
            BY <4>0, <4>3, <4>4, <5>1 DEF SentTyped, IsSeq
          <6> QED  BY <4>0, <6>1 DEF PortsGetTheirFrames, SpiSteady
        <5>2. CASE d = k /\ n \notin 1 .. Len(sent[d])
          <6>1. IsSeq(sent'[d]) /\ IsSeq(sent[d])  BY <4>0, <4>3 DEF SentTyped
          <6>2. n \in 1 .. Len(sent'[d])  BY <4>4, <6>1 DEF IsSeq
          <6>3. PICK m \in Nat : Len(sent[d]) = m  BY <6>1 DEF IsSeq
          <6>4. n = Len(sent[d]) + 1  BY <4>3, <5>2, <6>2, <6>3
          <6> QED  BY <4>2, <4>3, <5>2, <6>4
        <5> QED  BY <5>1, <5>2
      <4> QED  BY <2>4, <4>3, <4>4 DEF PortsGetTheirFrames, SpiSteady
    <3> QED  BY <3>1, <3>2
  <2> QED  BY <1>2, <1>3, <2>5, <2>6, <2>7 DEF PortsInv
<1> QED  BY <1>4, <1>5

\* At reset no port has a byte.
LEMMA PortsInit == Init => PortsInv
<1> SUFFICES ASSUME Init PROVE PortsInv  OBVIOUS
<1>1. \A c \in Byte : sent[c] = <<>>  BY DEF Init
<1>2. SentTyped  BY <1>1, EmptySeq DEF SentTyped, IsSeq, Init
<1>3. PortsGetTheirFrames  BY <1>1, <1>2 DEF PortsGetTheirFrames, SentTyped, IsSeq
<1> QED
  BY <1>2, <1>3 DEF Init, FramerInit, PacketizerInit, PortsInv, Ports, wire_tvalid

\* A step keeps what the ports have of the frame on the wire.
LEMMA PortsNext == PortsInv /\ Waiting /\ [Next]_vars => PortsInv'
<1> SUFFICES ASSUME PortsInv, Waiting, [Next]_vars PROVE PortsInv'  OBVIOUS
<1>1. CASE UNCHANGED vars
  BY <1>1 DEF vars, framerVars, packetizerVars, spiVars, fifoVars, logVars, PortsInv, wire_tvalid, SentTyped,
              PortsGetTheirFrames, SpiSteady
<1>2. CASE Next
  <2>1. PICK u \in traffic.usb, c \in traffic.cs, l \in BOOLEAN : Edge(u, c, l)  BY <1>2 DEF Next
  <2> QED  BY <2>1, PortsStep
<1> QED  BY <1>1, <1>2

\* The USB port gets each byte of a frame for USB once, whatever the SPI host does, and the
\* SPI port each byte of a frame for SPI, while CS is low and the USB port does not wait
\* (fcsp_offloader_top.sv 674-684), for every load and every length.
THEOREM PortsGetEach == Spec => []PortsGetTheirFrames
<1>1. PortsInv => PortsGetTheirFrames  BY DEF PortsInv
<1> QED  BY <1>1, WaitingInit, WaitingNext, PortsInit, PortsNext, PTL DEF Spec

--------------------------------------------------------------------------------
(* Folds: the CRC of a prefix. *)

\* Induction over the numbers, for sets of them.
BelowNat == {ss \in Nat \X Nat : ss[1] < ss[2]}

\* A set of numbers with zero and every successor has them all.
LEMMA SetInduction ==
  ASSUME NEW T, 0 \in T, \A n \in Nat : n \in T => n + 1 \in T
  PROVE  \A n \in Nat : n \in T
<1>1. IsWellFoundedOn(BelowNat, Nat)
  BY NatLessThanWellFounded, Zenon DEF OpToRel, BelowNat
<1> SUFFICES ASSUME Nat \ T # {} PROVE FALSE  OBVIOUS
<1>2. Nat \ T \subseteq Nat  OBVIOUS
<1>3. PICK x \in Nat \ T : \A y \in Nat \ T : ~(<<y, x>> \in BelowNat)
  BY <1>1, <1>2, WFMin, Zenon
<1>4. x # 0  OBVIOUS
<1>5. x - 1 \in Nat /\ (x - 1) + 1 = x /\ x - 1 < x  BY <1>4
<1>6. x - 1 \in Nat \ T /\ <<x - 1, x>> \in BelowNat  BY <1>5 DEF BelowNat
<1> QED  BY <1>3, <1>6

--------------------------------------------------------------------------------
\* The CRC of a sequence, one byte at a time: FoldLeft takes the elements away from the end.
IsFold(s, D, g) ==
  g = [u \in SUBSET D |-> IF u = {} THEN 0 ELSE CrcStep(g[u \ {Max(u)}], s[Max(u)])]
CrcOf(s) == CHOOSE g : IsFold(s, DOMAIN s, g)
CrcUpto(s, n) == CrcOf(s)[1 .. n]

\* The largest of some numbers up to n + 1, with n + 1 among them.
LEMMA MaxIs ==
  ASSUME NEW n \in Nat, NEW u \in SUBSET (1 .. n + 1), n + 1 \in u
  PROVE  Max(u) = n + 1
<1>1. \A y \in u : n + 1 >= y  OBVIOUS
<1>2. Max(u) \in u /\ \A y \in u : Max(u) >= y  BY <1>1 DEF Max
<1>3. Max(u) \in 1 .. n + 1 /\ Max(u) >= n + 1  BY <1>2
<1> QED  BY <1>3

\* A fold over a sequence can be built one place at a time.
LEMMA FoldExists == ASSUME NEW s PROVE \A n \in Nat : \E g : IsFold(s, 1 .. n, g)
<1> DEFINE T == {n \in Nat : \E g : IsFold(s, 1 .. n, g)}
<1>1. 0 \in T
  <2> DEFINE g == [u \in SUBSET (1 .. 0) |-> 0]
  <2>1. \A u \in SUBSET (1 .. 0) : u = {}  OBVIOUS
  <2>2. IsFold(s, 1 .. 0, g)  BY <2>1 DEF IsFold
  <2> QED  BY <2>2
<1>2. ASSUME NEW n \in Nat, n \in T PROVE n + 1 \in T
  <2>1. PICK g : IsFold(s, 1 .. n, g)  BY <1>2
  <2> DEFINE h == [u \in SUBSET (1 .. n + 1) |->
                     IF n + 1 \in u THEN CrcStep(g[u \ {n + 1}], s[n + 1]) ELSE g[u]]
             rhs(u) == IF u = {} THEN 0 ELSE CrcStep(h[u \ {Max(u)}], s[Max(u)])
  <2>2. ASSUME NEW u \in SUBSET (1 .. n + 1) PROVE h[u] = rhs(u)
    <3>1. CASE n + 1 \in u
      <4>1. Max(u) = n + 1  BY <3>1, MaxIs
      <4>2. u \ {n + 1} \in SUBSET (1 .. n + 1) /\ n + 1 \notin u \ {n + 1}  OBVIOUS
      <4>3. h[u \ {n + 1}] = g[u \ {n + 1}]  BY <4>2
      <4>4. h[u] = CrcStep(g[u \ {n + 1}], s[n + 1])  BY <3>1
      <4> HIDE DEF h
      <4> QED  BY <3>1, <4>1, <4>3, <4>4
    <3>2. CASE n + 1 \notin u
      <4>1. u \in SUBSET (1 .. n)  BY <3>2
      <4>2. g[u] = IF u = {} THEN 0 ELSE CrcStep(g[u \ {Max(u)}], s[Max(u)])
        BY <2>1, <4>1 DEF IsFold
      <4>3. h[u] = g[u]  BY <3>2
      <4>4. u \ {Max(u)} \in SUBSET (1 .. n + 1) /\ n + 1 \notin u \ {Max(u)}  BY <3>2
      <4>5. h[u \ {Max(u)}] = g[u \ {Max(u)}]  BY <4>4
      <4> HIDE DEF h
      <4> QED  BY <4>2, <4>3, <4>5
    <3> QED  BY <3>1, <3>2
  <2>3. h = [u \in SUBSET (1 .. n + 1) |-> h[u]]  OBVIOUS
  <2> HIDE DEF h
  <2>4. h = [u \in SUBSET (1 .. n + 1) |-> rhs(u)]  BY <2>2, <2>3
  <2>5. IsFold(s, 1 .. n + 1, h)  BY <2>4 DEF IsFold
  <2> QED  BY <2>5
<1> HIDE DEF T
<1>3. \A n \in Nat : n \in T  BY <1>1, <1>2, SetInduction
<1> QED  BY <1>3 DEF T

\* The CRC of a prefix is that of the prefix before it and one more byte.
LEMMA CrcSteps ==
  ASSUME NEW s, NEW len \in Nat, DOMAIN s = 1 .. len
  PROVE  /\ CrcUpto(s, 0) = 0
         /\ \A n \in 0 .. len - 1 : CrcUpto(s, n + 1) = CrcStep(CrcUpto(s, n), s[n + 1])
<1> DEFINE g == CrcOf(s)
<1>1. IsFold(s, 1 .. len, g)
  BY FoldExists, Zenon DEF CrcOf
<1> HIDE DEF g
<1>2. 1 .. 0 = {}  OBVIOUS
<1>3. g[1 .. 0] = 0  BY <1>1, <1>2 DEF IsFold
<1>4. ASSUME NEW n \in 0 .. len - 1
      PROVE  g[1 .. n + 1] = CrcStep(g[1 .. n], s[n + 1])
  <2>1. 1 .. n + 1 \in SUBSET (1 .. len) /\ 1 .. n + 1 # {}
    <3>1. 1 \in 1 .. n + 1 /\ \A i \in 1 .. n + 1 : i \in 1 .. len  OBVIOUS
    <3> QED  BY <3>1
  <2>2. Max(1 .. n + 1) = n + 1  BY MaxIs
  <2>3. (1 .. n + 1) \ {n + 1} = 1 .. n  OBVIOUS
  <2>4. g[1 .. n + 1] = CrcStep(g[(1 .. n + 1) \ {Max(1 .. n + 1)}], s[Max(1 .. n + 1)])
    BY <1>1, <2>1, Zenon DEF IsFold
  <2> QED  BY <2>2, <2>3, <2>4
<1> QED  BY <1>3, <1>4 DEF g, CrcUpto

\* The CRC of all bytes is the fold over the sequence.
LEMMA CrcWhole ==
  ASSUME NEW s, NEW len \in Nat, DOMAIN s = 1 .. len
  PROVE  FoldLeft(CrcStep, 0, s) = CrcUpto(s, len)
BY Zenon DEF FoldLeft, MapThenFoldSet, CrcUpto, CrcOf, IsFold

--------------------------------------------------------------------------------
(* Joining sequences. *)

\* What FlattenSeq returns, one sequence at a time.
IsFlat(ps, n, g) == g = [i \in 1 .. n |-> IF i = 1 THEN ps[i] ELSE g[i - 1] \o ps[i]]

\* Sequences can be joined one at a time.
LEMMA FlatExists == ASSUME NEW ps PROVE \A n \in Nat : \E g : IsFlat(ps, n, g)
<1> DEFINE T == {n \in Nat : \E g : IsFlat(ps, n, g)}
<1>1. 0 \in T
  <2>1. IsFlat(ps, 0, [i \in 1 .. 0 |-> 0])  BY DEF IsFlat
  <2> QED  BY <2>1
<1>2. ASSUME NEW n \in Nat, n \in T PROVE n + 1 \in T
  <2>1. PICK g : IsFlat(ps, n, g)  BY <1>2
  <2> DEFINE h == [i \in 1 .. n + 1 |->
                     IF i = n + 1 THEN IF i = 1 THEN ps[i] ELSE g[n] \o ps[i] ELSE g[i]]
             rhs(i) == IF i = 1 THEN ps[i] ELSE h[i - 1] \o ps[i]
  <2>2. ASSUME NEW i \in 1 .. n + 1 PROVE h[i] = rhs(i)
    <3>1. i # 1 => i - 1 \in 1 .. n /\ i - 1 # n + 1  OBVIOUS
    <3>2. i # 1 => h[i - 1] = g[i - 1]  BY <3>1
    <3>3. CASE i = n + 1
      <4>1. h[i] = IF i = 1 THEN ps[i] ELSE g[n] \o ps[i]  BY <3>3
      <4>2. i # 1 => h[i - 1] = g[n]  BY <3>2, <3>3
      <4> HIDE DEF h
      <4> QED  BY <4>1, <4>2
    <3>4. CASE i # n + 1
      <4>1. i \in 1 .. n /\ h[i] = g[i]  BY <3>4
      <4>2. g[i] = IF i = 1 THEN ps[i] ELSE g[i - 1] \o ps[i]  BY <2>1, <4>1 DEF IsFlat
      <4> HIDE DEF h
      <4> QED  BY <3>2, <4>1, <4>2
    <3> QED  BY <3>3, <3>4
  <2>3. h = [i \in 1 .. n + 1 |-> h[i]]  OBVIOUS
  <2> HIDE DEF h
  <2>4. h = [i \in 1 .. n + 1 |-> rhs(i)]  BY <2>2, <2>3
  <2>5. IsFlat(ps, n + 1, h)  BY <2>4 DEF IsFlat
  <2> QED  BY <2>5
<1> HIDE DEF T
<1>3. \A n \in Nat : n \in T  BY <1>1, <1>2, SetInduction
<1> QED  BY <1>3 DEF T

\* FlattenSeq is the last of these.
LEMMA FlattenIs ==
  ASSUME NEW ps, NEW n \in Nat \ {0}, Len(ps) = n
  PROVE  \E g : IsFlat(ps, n, g) /\ FlattenSeq(ps) = g[n]
<1> DEFINE g == CHOOSE x : IsFlat(ps, n, x)
<1>1. IsFlat(ps, n, g)  BY FlatExists, Zenon
<1>2. FlattenSeq(ps) = g[n]
  <2>1. ~(Len(ps) = 0)  OBVIOUS
  <2> QED  BY <2>1, Zenon DEF FlattenSeq, IsFlat
<1> QED  BY <1>1, <1>2

\* One more sequence is one more to join at the end.
LEMMA FlattenAppend ==
  ASSUME NEW ps, IsSeq(ps), NEW p
  PROVE  FlattenSeq(Append(ps, p)) = IF Len(ps) = 0 THEN p ELSE FlattenSeq(ps) \o p
<1>1. PICK n \in Nat : Len(ps) = n  BY DEF IsSeq
<1> DEFINE qs == Append(ps, p)
<1>2. /\ Len(qs) = n + 1 /\ qs[n + 1] = p
      /\ \A i \in 1 .. n : qs[i] = ps[i]
  BY <1>1, AppendAny
<1> HIDE DEF qs
<1>3. PICK h : IsFlat(qs, n + 1, h) /\ FlattenSeq(qs) = h[n + 1]  BY <1>2, FlattenIs
<1>4. h[n + 1] = IF n + 1 = 1 THEN qs[n + 1] ELSE h[(n + 1) - 1] \o qs[n + 1]
  <2>1. n + 1 \in 1 .. n + 1  OBVIOUS
  <2> QED  BY <1>3, <2>1, Zenon DEF IsFlat
<1>5. CASE n = 0
  BY <1>1, <1>2, <1>3, <1>4, <1>5 DEF qs
<1>6. CASE n # 0
  <2>1. PICK g : IsFlat(ps, n, g) /\ FlattenSeq(ps) = g[n]  BY <1>1, <1>6, FlattenIs
  <2> DEFINE T == {i \in Nat : i \in 1 .. n => h[i] = g[i]}
  <2>a. 0 \in T  OBVIOUS
  <2>b. ASSUME NEW i \in Nat, i \in T PROVE i + 1 \in T
    <3> SUFFICES ASSUME i + 1 \in 1 .. n PROVE h[i + 1] = g[i + 1]  OBVIOUS
    <3>1. i + 1 \in 1 .. n + 1 /\ qs[i + 1] = ps[i + 1] /\ (i + 1) - 1 = i  BY <1>2
    <3>2. g[i + 1] = IF i + 1 = 1 THEN ps[i + 1] ELSE g[(i + 1) - 1] \o ps[i + 1]
      BY <2>1 DEF IsFlat
    <3>3. h[i + 1] = IF i + 1 = 1 THEN qs[i + 1] ELSE h[(i + 1) - 1] \o qs[i + 1]
      BY <1>3, <3>1 DEF IsFlat
    <3>4. i + 1 # 1 => h[i] = g[i]  BY <2>b
    <3> HIDE DEF T
    <3> QED  BY <3>1, <3>2, <3>3, <3>4
  <2> HIDE DEF T
  <2>c. \A i \in Nat : i \in T  BY <2>a, <2>b, SetInduction
  <2>2. n \in T  BY <2>c
  <2>3. h[n] = g[n] /\ (n + 1) - 1 = n /\ n + 1 # 1  BY <1>6, <2>2 DEF T
  <2> QED  BY <1>1, <1>2, <1>3, <1>4, <1>6, <2>1, <2>3 DEF qs
<1> QED  BY <1>5, <1>6

--------------------------------------------------------------------------------
(* Sequences of anything, and the bytes of a frame. *)

\* A sequence of anything is a sequence over its own elements.
LEMMA IsSeqTyped == ASSUME NEW s, IsSeq(s) PROVE s \in Seq({s[i] : i \in 1 .. Len(s)})
<1>0. PICK n \in Nat : Len(s) = n  BY DEF IsSeq
<1> DEFINE S == {s[i] : i \in 1 .. n}
<1>1. \A i \in 1 .. n : s[i] \in S  OBVIOUS
<1> HIDE DEF S
<1>2. s \in Seq(S)  BY <1>0, <1>1 DEF IsSeq
<1> QED  BY <1>0, <1>2 DEF S

\* A typed sequence is a sequence of anything.
LEMMA TypedIsSeq == ASSUME NEW S, NEW s \in Seq(S) PROVE IsSeq(s) /\ DOMAIN s = 1 .. Len(s)
BY DEF IsSeq

\* A sequence over a set is one over a larger set.
LEMMA SeqWider ==
  ASSUME NEW S, NEW s \in Seq(S), NEW T, S \subseteq T PROVE s \in Seq(T)
<1>1. PICK n \in Nat : Len(s) = n  OBVIOUS
<1>2. \A i \in 1 .. n : s[i] \in T  BY <1>1
<1>3. s = [i \in 1 .. n |-> s[i]]  BY <1>1
<1> QED  BY <1>2, <1>3

\* Concatenation, for sequences of anything.
LEMMA ConcatAny ==
  ASSUME NEW s, IsSeq(s), NEW t, IsSeq(t)
  PROVE  /\ IsSeq(s \o t) /\ Len(s \o t) = Len(s) + Len(t)
         /\ \A i \in 1 .. Len(s) : (s \o t)[i] = s[i]
         /\ \A i \in 1 .. Len(t) : (s \o t)[Len(s) + i] = t[i]
<1>1. PICK n \in Nat : Len(s) = n  BY DEF IsSeq
<1>2. PICK m \in Nat : Len(t) = m  BY DEF IsSeq
<1> DEFINE S == {s[i] : i \in 1 .. n}
           T == {t[i] : i \in 1 .. m}
<1>3. s \in Seq(S) /\ t \in Seq(T)  BY <1>1, <1>2, IsSeqTyped
<1> HIDE DEF S, T
<1>4. s \in Seq(S \cup T) /\ t \in Seq(S \cup T)
  <2>1. S \subseteq S \cup T /\ T \subseteq S \cup T  OBVIOUS
  <2> QED  BY <1>3, <2>1, SeqWider, Zenon
<1> DEFINE u == s \o t
<1>5. /\ u \in Seq(S \cup T) /\ Len(u) = n + m
      /\ \A i \in 1 .. n + m : u[i] = IF i <= n THEN s[i] ELSE t[i - n]
  BY <1>1, <1>2, <1>4, ConcatProperties
<1>6. IsSeq(u)
  <2> HIDE DEF u
  <2> QED  BY <1>5, TypedIsSeq
<1>7. ASSUME NEW i \in 1 .. m PROVE u[n + i] = t[i]
  <2>1. n + i \in 1 .. n + m /\ ~(n + i <= n) /\ (n + i) - n = i  OBVIOUS
  <2> HIDE DEF u
  <2> QED  BY <1>5, <2>1
<1>8. \A i \in 1 .. n : u[i] = s[i]
  <2> HIDE DEF u
  <2> QED  BY <1>5
<1> HIDE DEF u
<1>9. IsSeq(u) /\ Len(u) = Len(s) + Len(t)  BY <1>1, <1>2, <1>5, <1>6
<1> QED  BY <1>1, <1>2, <1>7, <1>8, <1>9 DEF u

\* The bytes of a frame, by their places.
LEMMA BodyIs ==
  ASSUME NEW m, NEW p, NEW len \in Nat, IsSeq(p), Len(p) = len
  PROVE  LET b == Body(m, p) IN
         /\ IsSeq(b) /\ Len(b) = 7 + len /\ DOMAIN b = 1 .. 7 + len
         /\ b[1] = FCSP_VERSION /\ b[2] = m.flags /\ b[3] = m.channel
         /\ b[4] = m.seq \div 256 /\ b[5] = m.seq % 256
         /\ b[6] = len \div 256 /\ b[7] = len % 256
         /\ \A j \in 1 .. len : b[7 + j] = p[j]
<1> DEFINE h == <<FCSP_VERSION, m.flags, m.channel, m.seq \div 256, m.seq % 256,
                  Len(p) \div 256, Len(p) % 256>>
           b == Body(m, p)
<1>1. b = h \o p  BY DEF Body
<1>2. /\ Len(h) = 7 /\ h = [i \in 1 .. 7 |-> h[i]]
      /\ h[1] = FCSP_VERSION /\ h[2] = m.flags /\ h[3] = m.channel
      /\ h[4] = m.seq \div 256 /\ h[5] = m.seq % 256
      /\ h[6] = len \div 256 /\ h[7] = len % 256
  OBVIOUS
<1> HIDE DEF h, b
<1>3. IsSeq(h)  BY <1>2 DEF IsSeq
<1>4. /\ IsSeq(b) /\ Len(b) = 7 + len
      /\ \A i \in 1 .. 7 : b[i] = h[i]
      /\ \A i \in 1 .. len : b[7 + i] = p[i]
  <2>1. /\ IsSeq(h \o p) /\ Len(h \o p) = Len(h) + Len(p)
        /\ \A i \in 1 .. Len(h) : (h \o p)[i] = h[i]
        /\ \A i \in 1 .. Len(p) : (h \o p)[Len(h) + i] = p[i]
    <3>1. IsSeq(h) /\ IsSeq(p)  BY <1>3
    <3> QED  BY ONLY <3>1, ConcatAny
  <2>2. /\ IsSeq(b) /\ Len(b) = Len(h) + Len(p)
        /\ \A i \in 1 .. Len(h) : b[i] = h[i]
        /\ \A i \in 1 .. Len(p) : b[Len(h) + i] = p[i]
    BY ONLY <1>1, <2>1, Zenon
  <2>3. Len(h) = 7 /\ Len(p) = len  BY <1>2
  <2> QED  BY ONLY <2>2, <2>3
<1>5. DOMAIN b = 1 .. 7 + len  BY <1>4 DEF IsSeq
<1> QED  BY <1>2, <1>4, <1>5 DEF b

\* The bytes of a frame on the wire, by their places.
LEMMA ImageIs ==
  ASSUME NEW m, NEW p, NEW len \in Nat, IsSeq(p), Len(p) = len
  PROVE  LET b == Body(m, p)
             w == Image(m, p) IN
         /\ IsSeq(w) /\ Len(w) = 10 + len
         /\ w[1] = SYNC
         /\ \A n \in 1 .. 7 + len : w[n + 1] = b[n]
         /\ w[9 + len] = CrcUpto(b, 7 + len) \div 256
         /\ w[10 + len] = CrcUpto(b, 7 + len) % 256
<1> DEFINE b == Body(m, p)
           crc == CrcUpto(b, 7 + len)
           w == Image(m, p)
           e == <<crc \div 256, crc % 256>>
           y == <<SYNC>>
           z == y \o b
<1>1. IsSeq(b) /\ Len(b) = 7 + len /\ DOMAIN b = 1 .. 7 + len  BY BodyIs
<1>2. crc = FoldLeft(CrcStep, 0, b)
  <2> HIDE DEF b
  <2>1. 7 + len \in Nat  OBVIOUS
  <2> QED  BY <1>1, <2>1, CrcWhole
<1>3. w = z \o e  BY <1>2 DEF Image
<1> HIDE DEF crc, b, w
<1>4. /\ Len(e) = 2 /\ e = [i \in 1 .. 2 |-> e[i]] /\ e[1] = crc \div 256 /\ e[2] = crc % 256
      /\ Len(y) = 1 /\ y = [i \in 1 .. 1 |-> y[i]] /\ y[1] = SYNC
  OBVIOUS
<1> HIDE DEF e, y
<1>5. IsSeq(e) /\ IsSeq(y)  BY <1>4 DEF IsSeq
<1>6. /\ IsSeq(z) /\ Len(z) = 8 + len
      /\ z[1] = SYNC
      /\ \A i \in 1 .. 7 + len : z[1 + i] = b[i]
  <2>1. /\ IsSeq(z) /\ Len(z) = Len(y) + Len(b)
        /\ \A i \in 1 .. Len(y) : z[i] = y[i]
        /\ \A i \in 1 .. Len(b) : z[Len(y) + i] = b[i]
    <3>1. IsSeq(y) /\ IsSeq(b)  BY <1>1, <1>5
    <3>2. z = y \o b  OBVIOUS
    <3> HIDE DEF z
    <3>3. /\ IsSeq(y \o b) /\ Len(y \o b) = Len(y) + Len(b)
          /\ \A i \in 1 .. Len(y) : (y \o b)[i] = y[i]
          /\ \A i \in 1 .. Len(b) : (y \o b)[Len(y) + i] = b[i]
      BY ONLY <3>1, ConcatAny
    <3> QED  BY <3>2, <3>3
  <2> HIDE DEF z
  <2> QED  BY <1>1, <1>4, <2>1
<1> HIDE DEF z
<1>7. /\ IsSeq(w) /\ Len(w) = Len(z) + Len(e)
      /\ \A i \in 1 .. Len(z) : w[i] = z[i]
      /\ \A i \in 1 .. Len(e) : w[Len(z) + i] = e[i]
  <2>1. IsSeq(z) /\ IsSeq(e)  BY <1>5, <1>6
  <2>2. /\ IsSeq(z \o e) /\ Len(z \o e) = Len(z) + Len(e)
        /\ \A i \in 1 .. Len(z) : (z \o e)[i] = z[i]
        /\ \A i \in 1 .. Len(e) : (z \o e)[Len(z) + i] = e[i]
    BY ONLY <2>1, ConcatAny
  <2> QED  BY <1>3, <2>2
<1>8. Len(w) = 10 + len /\ w[1] = SYNC  BY <1>4, <1>6, <1>7
<1>9. \A i \in 1 .. 7 + len : w[i + 1] = b[i]  BY <1>6, <1>7
<1>10. w[9 + len] = crc \div 256 /\ w[10 + len] = crc % 256
  <2>1. w[8 + len + 1] = e[1] /\ w[8 + len + 2] = e[2]  BY <1>4, <1>6, <1>7
  <2>2. 8 + len + 1 = 9 + len /\ 8 + len + 2 = 10 + len  OBVIOUS
  <2> QED  BY <1>4, <2>1, <2>2
<1> QED  BY <1>7, <1>8, <1>9, <1>10 DEF w, b, crc

--------------------------------------------------------------------------------
(* The framer while it sends. *)

\* The frame on the wire: what the framer has of it, how far it is, and what the bytes and
\* the CRC are that have passed.
Payload == [j \in 1 .. payload_count |-> payload_mem[j - 1]]
TheBody == Body(frame_meta, Payload)
TheImage == Image(frame_meta, Payload)
Passed ==
  CASE fr_state = "SYNC" -> 0 [] fr_state = "VER" -> 1 [] fr_state = "FLAGS" -> 2
    [] fr_state = "CHAN" -> 3 [] fr_state = "SEQ_H" -> 4 [] fr_state = "SEQ_L" -> 5
    [] fr_state = "LEN_H" -> 6 [] fr_state = "LEN_L" -> 7
    [] fr_state = "PAYLD" -> 8 + emit_index
    [] fr_state = "CRC_H" -> 8 + payload_count
    [] OTHER -> 9 + payload_count
CrcDone == IF Passed < 8 + payload_count THEN Passed - 1 ELSE 7 + payload_count
EmitInv ==
  /\ fr_state \in FramerStates /\ payload_count \in 0 .. MAX_PAYLOAD_LEN
  /\ fr_state = "CAPTURE" => wire_line = <<>>
  /\ fr_state # "CAPTURE" =>
       /\ payload_count > 0 /\ emit_index \in 0 .. payload_count - 1
       /\ fr_state # "PAYLD" => emit_index = 0
       /\ fr_state = "PAYLD" => mem_rd_data = payload_mem[emit_index]
       /\ fr_state # "SYNC" => crc_reg = CrcUpto(TheBody, CrcDone)
       /\ IsSeq(wire_line) /\ Len(wire_line) = Passed
       /\ \A n \in 1 .. Passed : wire_line[n] = TheImage[n]

\* What the framer holds is a sequence.
LEMMA PayloadIs ==
  ASSUME payload_count \in 0 .. MAX_PAYLOAD_LEN
  PROVE  /\ payload_count \in Nat /\ IsSeq(Payload) /\ Len(Payload) = payload_count
         /\ \A j \in 1 .. payload_count : Payload[j] = payload_mem[j - 1]
<1>0. PICK len \in Nat : payload_count = len  BY TrafficAssumption
<1>1. Len(Payload) = len /\ Payload = [j \in 1 .. len |-> payload_mem[j - 1]]
  BY <1>0 DEF Payload
<1>2. \A j \in 1 .. len : Payload[j] = payload_mem[j - 1]  BY <1>1
<1>3. Payload = [j \in 1 .. len |-> Payload[j]]  BY <1>1
<1> QED  BY <1>0, <1>1, <1>2, <1>3 DEF IsSeq

\* The byte on the wire is the next one of the frame.
LEMMA WireByte ==
  ASSUME EmitInv, fr_state # "CAPTURE"
  PROVE  /\ Passed \in 0 .. 9 + payload_count
         /\ wire_tdata = TheImage[Passed + 1]
         /\ fr_state \in HeaderStates \cup {"PAYLD"} =>
              /\ Passed \in 1 .. 7 + payload_count /\ CrcDone = Passed - 1
              /\ wire_tdata = TheBody[Passed]
         /\ fr_state = "SYNC" => Passed = 0
         /\ fr_state = "CRC_H" => Passed = 8 + payload_count
         /\ fr_state = "CRC_L" => Passed = 9 + payload_count
<1> DEFINE b == TheBody
           w == TheImage
<1>1. PICK len \in Nat : payload_count = len /\ len > 0  BY TrafficAssumption DEF EmitInv
<1>2. /\ IsSeq(Payload) /\ Len(Payload) = len
      /\ \A j \in 1 .. len : Payload[j] = payload_mem[j - 1]
  BY <1>1, PayloadIs DEF EmitInv
<1>3. /\ b[1] = FCSP_VERSION /\ b[2] = frame_meta.flags /\ b[3] = frame_meta.channel
      /\ b[4] = frame_meta.seq \div 256 /\ b[5] = frame_meta.seq % 256
      /\ b[6] = len \div 256 /\ b[7] = len % 256
      /\ \A j \in 1 .. len : b[7 + j] = Payload[j]
  BY <1>2, BodyIs DEF TheBody
<1>4. /\ w[1] = SYNC /\ \A n \in 1 .. 7 + len : w[n + 1] = b[n]
      /\ w[9 + len] = CrcUpto(b, 7 + len) \div 256
      /\ w[10 + len] = CrcUpto(b, 7 + len) % 256
  BY <1>2, ImageIs DEF TheBody, TheImage
<1> HIDE DEF b, w
<1>5. CASE fr_state \in HeaderStates
  <2>0. /\ fr_state = "VER" => Passed = 1 /\ wire_tdata = b[1]
        /\ fr_state = "FLAGS" => Passed = 2 /\ wire_tdata = b[2]
        /\ fr_state = "CHAN" => Passed = 3 /\ wire_tdata = b[3]
        /\ fr_state = "SEQ_H" => Passed = 4 /\ wire_tdata = b[4]
        /\ fr_state = "SEQ_L" => Passed = 5 /\ wire_tdata = b[5]
        /\ fr_state = "LEN_H" => Passed = 6 /\ wire_tdata = b[6]
        /\ fr_state = "LEN_L" => Passed = 7 /\ wire_tdata = b[7]
    BY <1>1, <1>3 DEF wire_tdata, Passed
  <2>1. Passed \in 1 .. 7 /\ wire_tdata = b[Passed]
    BY <1>5, <2>0 DEF HeaderStates
  <2>2. Passed \in 1 .. 7 + len /\ CrcDone = Passed - 1  BY <1>1, <2>1 DEF CrcDone
  <2>3. w[Passed + 1] = wire_tdata  BY <1>4, <2>1, <2>2
  <2>4. fr_state \notin {"SYNC", "CRC_H", "CRC_L"}  BY <1>5 DEF HeaderStates
  <2> QED  BY <1>1, <2>1, <2>2, <2>3, <2>4 DEF b, w
<1>6. CASE fr_state = "PAYLD"
  <2>1. PICK e \in Nat : emit_index = e /\ e < len  BY <1>1, <1>6 DEF EmitInv
  <2>2. Passed = 8 + e /\ wire_tdata = payload_mem[e]
    BY <1>6, <2>1 DEF Passed, wire_tdata, EmitInv
  <2>3. e + 1 \in 1 .. len /\ (e + 1) - 1 = e /\ 7 + (e + 1) = 8 + e  BY <2>1
  <2>4. wire_tdata = b[8 + e]
    <3>1. b[7 + (e + 1)] = Payload[e + 1]  BY <1>3, <2>3
    <3>2. Payload[e + 1] = payload_mem[(e + 1) - 1]  BY <1>2, <2>3
    <3> QED  BY <2>2, <2>3, <3>1, <3>2
  <2>5. Passed \in 1 .. 7 + len /\ CrcDone = Passed - 1  BY <1>1, <2>1, <2>2 DEF CrcDone
  <2>6. w[Passed + 1] = wire_tdata  BY <1>4, <2>2, <2>4, <2>5
  <2> QED  BY <1>1, <1>6, <2>2, <2>4, <2>5, <2>6 DEF b, w
<1>7. CASE fr_state \in {"SYNC", "CRC_H", "CRC_L"}
  <2>1. fr_state # "SYNC" => crc_reg = CrcUpto(b, 7 + len)
    BY <1>1, <1>7 DEF EmitInv, Passed, CrcDone, b
  <2>2. /\ fr_state = "SYNC" => Passed = 0 /\ wire_tdata = w[1]
        /\ fr_state = "CRC_H" => Passed = 8 + len /\ wire_tdata = w[9 + len]
        /\ fr_state = "CRC_L" => Passed = 9 + len /\ wire_tdata = w[10 + len]
    BY <1>1, <1>4, <2>1 DEF wire_tdata, Passed
  <2>3. 0 + 1 = 1 /\ (8 + len) + 1 = 9 + len /\ (9 + len) + 1 = 10 + len  OBVIOUS
  <2>4. wire_tdata = w[Passed + 1] /\ Passed \in 0 .. 9 + len
    BY <1>7, <2>2, <2>3
  <2> QED  BY <1>1, <1>7, <2>2, <2>4 DEF b, w, HeaderStates
<1> QED  BY <1>5, <1>6, <1>7 DEF EmitInv, FramerStates

\* While a frame is on the wire, each step of the framer shows the next byte of it.
LEMMA EmitStep ==
  ASSUME EmitInv, fr_state # "CAPTURE", NEW r \in BOOLEAN, Emit(r), ReadPort(r),
         wire_line' = IF r THEN IF fr_state = "CRC_L" THEN <<>>
                                ELSE Append(wire_line, wire_tdata)
                      ELSE wire_line
  PROVE  /\ EmitInv'
         /\ frame_meta' = frame_meta
         /\ ~(r /\ fr_state = "CRC_L") =>
              fr_state' # "CAPTURE" /\ payload_count' = payload_count /\ Payload' = Payload
         /\ r /\ fr_state = "CRC_L" =>
              /\ fr_state' = "CAPTURE" /\ payload_count' = 0
              /\ Append(wire_line, wire_tdata) = TheImage
<1>1. PICK len \in Nat : payload_count = len /\ len > 0 /\ len <= MAX_PAYLOAD_LEN
  BY TrafficAssumption DEF EmitInv
<1>2. /\ IsSeq(Payload) /\ Len(Payload) = len  BY <1>1, PayloadIs DEF EmitInv
<1>3. /\ Passed \in 0 .. 9 + len
      /\ wire_tdata = TheImage[Passed + 1]
      /\ fr_state \in HeaderStates \cup {"PAYLD"} =>
           /\ Passed \in 1 .. 7 + len /\ CrcDone = Passed - 1
           /\ wire_tdata = TheBody[Passed]
      /\ fr_state = "SYNC" => Passed = 0
      /\ fr_state = "CRC_H" => Passed = 8 + len
      /\ fr_state = "CRC_L" => Passed = 9 + len
  BY <1>1, WireByte
<1>4. frame_meta' = frame_meta /\ payload_mem' = payload_mem  BY DEF Emit
<1>5. PICK n \in Nat : Passed = n  BY <1>3
<1>6. /\ IsSeq(Append(wire_line, wire_tdata)) /\ Len(Append(wire_line, wire_tdata)) = n + 1
      /\ \A i \in 1 .. n + 1 : Append(wire_line, wire_tdata)[i] = TheImage[i]
  <2>1. IsSeq(wire_line) /\ Len(wire_line) = n /\ \A i \in 1 .. n : wire_line[i] = TheImage[i]
    BY <1>5 DEF EmitInv
  <2>2. /\ IsSeq(Append(wire_line, wire_tdata)) /\ Len(Append(wire_line, wire_tdata)) = n + 1
        /\ \A i \in 1 .. n : Append(wire_line, wire_tdata)[i] = wire_line[i]
        /\ Append(wire_line, wire_tdata)[n + 1] = wire_tdata
    BY <2>1, AppendAny
  <2>3. ASSUME NEW i \in 1 .. n + 1 PROVE Append(wire_line, wire_tdata)[i] = TheImage[i]
    <3>1. CASE i = n + 1  BY <1>3, <1>5, <2>2, <3>1
    <3>2. CASE i # n + 1  BY <2>1, <2>2, <3>2
    <3> QED  BY <3>1, <3>2
  <2> QED  BY <2>2, <2>3
<1>7. CASE ~r
  <2>1. /\ fr_state' = fr_state /\ crc_reg' = crc_reg /\ emit_index' = emit_index
        /\ payload_count' = payload_count /\ wire_line' = wire_line
    BY <1>7 DEF Emit
  <2>2. Payload' = Payload /\ Passed' = Passed /\ TheBody' = TheBody /\ TheImage' = TheImage
    BY <1>4, <2>1 DEF Payload, Passed, TheBody, TheImage
  <2>3. CrcDone' = CrcDone  BY <2>1, <2>2 DEF CrcDone
  <2>4. fr_state' = "PAYLD" => mem_rd_data' = payload_mem'[emit_index']
    BY <1>4, <1>7, <2>1 DEF ReadPort
  <2>5. EmitInv'  BY <2>1, <2>2, <2>3, <2>4 DEF EmitInv
  <2> QED  BY <1>4, <1>7, <2>1, <2>2, <2>5
<1>8. CASE r /\ fr_state = "CRC_L"
  <2>1. fr_state' = "CAPTURE" /\ payload_count' = 0 /\ wire_line' = <<>>
    BY <1>8 DEF Emit, NextState
  <2>2. EmitInv'  BY <2>1, TrafficAssumption DEF EmitInv, FramerStates
  <2>3. Append(wire_line, wire_tdata) = TheImage
    <3>1. IsSeq(TheImage) /\ Len(TheImage) = 10 + len  BY <1>2, ImageIs DEF TheImage
    <3>2. n + 1 = 10 + len  BY <1>3, <1>5, <1>8
    <3> QED  BY <1>6, <3>1, <3>2 DEF IsSeq
  <2> QED  BY <1>4, <1>8, <2>1, <2>2, <2>3
<1>9. CASE r /\ fr_state # "CRC_L"
  <2>1. /\ payload_count' = payload_count
        /\ wire_line' = Append(wire_line, wire_tdata)
        /\ fr_state' = NextState
        /\ emit_index' = IF fr_state # "PAYLD" THEN emit_index
                         ELSE IF NextState = "CRC_H" THEN 0 ELSE emit_index + 1
        /\ crc_reg' = IF fr_state = "SYNC" THEN 0
                      ELSE IF fr_state \in HeaderStates \cup {"PAYLD"}
                           THEN CrcStep(crc_reg, wire_tdata) ELSE crc_reg
    BY <1>9 DEF Emit
  <2>2. Payload' = Payload /\ TheBody' = TheBody /\ TheImage' = TheImage
    BY <1>4, <2>1 DEF Payload, TheBody, TheImage
  <2>3. PICK e \in Nat : emit_index = e /\ e < len /\ (fr_state # "PAYLD" => e = 0)
    BY <1>1 DEF EmitInv
  <2>4. /\ fr_state' \in FramerStates \ {"CAPTURE", "SYNC"}
        /\ emit_index' \in 0 .. len - 1 /\ (fr_state' # "PAYLD" => emit_index' = 0)
        /\ fr_state' = "PAYLD" =>
             emit_index' = IF fr_state = "PAYLD" THEN e + 1 ELSE 0
        /\ Passed' = n + 1
    <3>1. CASE fr_state = "PAYLD"
      BY <1>1, <1>5, <2>1, <2>3, <3>1 DEF NextState, FramerStates, HeaderStates, Passed
    <3>2. CASE fr_state # "PAYLD"
      <4>1. emit_index' = 0 /\ e = 0  BY <2>1, <2>3, <3>2
      <4>2. fr_state \in FramerStates \ {"CAPTURE", "PAYLD", "CRC_L"}
        BY <1>9, <3>2 DEF EmitInv
      <4>3. /\ fr_state' \in FramerStates \ {"CAPTURE", "SYNC"}
            /\ fr_state \in {"SYNC", "VER", "FLAGS", "CHAN", "SEQ_H", "SEQ_L", "LEN_H", "LEN_L",
                             "CRC_H"}
        BY <1>1, <2>1, <4>2 DEF NextState, FramerStates, HeaderStates
      <4>4. Passed' = n + 1
        <5>1. /\ fr_state = "SYNC" => n = 0 /\ Passed' = 1
              /\ fr_state = "VER" => n = 1 /\ Passed' = 2
              /\ fr_state = "FLAGS" => n = 2 /\ Passed' = 3
              /\ fr_state = "CHAN" => n = 3 /\ Passed' = 4
              /\ fr_state = "SEQ_H" => n = 4 /\ Passed' = 5
          BY <1>5, <2>1 DEF NextState, Passed
        <5>2. /\ fr_state = "SEQ_L" => n = 5 /\ Passed' = 6
              /\ fr_state = "LEN_H" => n = 6 /\ Passed' = 7
          BY <1>5, <2>1 DEF NextState, Passed
        <5>3. CASE fr_state = "LEN_L"
          <6>1. fr_state' = "PAYLD"  BY <1>1, <2>1, <5>3 DEF NextState
          <6>2. n = 7 /\ Passed' = 8 + emit_index'  BY <1>5, <5>3, <6>1 DEF Passed
          <6> QED  BY <4>1, <6>2
        <5>4. CASE fr_state = "CRC_H"
          <6>1. fr_state' = "CRC_L"  BY <2>1, <5>4 DEF NextState
          <6>2. n = 8 + payload_count /\ Passed' = 9 + payload_count'
            BY <1>5, <5>4, <6>1 DEF Passed
          <6> QED  BY <1>1, <2>1, <6>2
        <5> QED  BY <4>3, <5>1, <5>2, <5>3, <5>4
      <4> QED  BY <1>1, <3>2, <4>1, <4>3, <4>4
    <3> QED  BY <3>1, <3>2
  <2>5. fr_state' = "PAYLD" => mem_rd_data' = payload_mem'[emit_index']
    <3>1. CASE fr_state' = "PAYLD" /\ fr_state = "PAYLD"
      <4>1. mem_rd_data' = payload_mem[(e + 1) % MAX_PAYLOAD_LEN]
        BY <1>9, <2>3, <3>1 DEF ReadPort
      <4>2. e + 1 < len  BY <1>1, <2>1, <2>3, <3>1 DEF NextState
      <4>3. (e + 1) % MAX_PAYLOAD_LEN = e + 1  BY <1>1, <4>2, TrafficAssumption
      <4> QED  BY <1>4, <2>4, <3>1, <4>1, <4>3
    <3>2. CASE fr_state' = "PAYLD" /\ fr_state # "PAYLD"
      BY <1>4, <2>4, <3>2 DEF ReadPort
    <3> QED  BY <3>1, <3>2
  <2>6. crc_reg' = CrcUpto(TheBody, CrcDone')
    <3>0. CrcDone' = IF n + 1 < 8 + len THEN n ELSE 7 + len
      BY <1>1, <2>1, <2>4 DEF CrcDone
    <3>1. /\ CrcUpto(TheBody, 0) = 0
          /\ \A i \in 0 .. (7 + len) - 1 :
               CrcUpto(TheBody, i + 1) = CrcStep(CrcUpto(TheBody, i), TheBody[i + 1])
      <4>1. 7 + len \in Nat /\ DOMAIN TheBody = 1 .. 7 + len  BY <1>2, BodyIs DEF TheBody
      <4> QED  BY <4>1, CrcSteps
    <3>2. CASE fr_state = "SYNC"  BY <1>3, <1>5, <2>1, <3>0, <3>1, <3>2
    <3>3. CASE fr_state \in HeaderStates \cup {"PAYLD"}
      <4>1. fr_state # "SYNC"  BY <3>3 DEF HeaderStates
      <4>2. crc_reg = CrcUpto(TheBody, n - 1)  BY <1>3, <1>5, <3>3, <4>1 DEF EmitInv
      <4>3. n \in 1 .. 7 + len /\ wire_tdata = TheBody[n]  BY <1>3, <1>5, <3>3
      <4>4. n - 1 \in 0 .. (7 + len) - 1 /\ (n - 1) + 1 = n  BY <4>3
      <4>5. CrcUpto(TheBody, n) = CrcStep(CrcUpto(TheBody, n - 1), TheBody[n])
        BY <3>1, <4>4
      <4>6. CrcDone' = n  BY <3>0, <4>3
      <4> QED  BY <2>1, <3>3, <4>1, <4>2, <4>3, <4>5, <4>6
    <3>4. CASE fr_state = "CRC_H"
      <4>1. n = 8 + len /\ CrcDone = 7 + len  BY <1>1, <1>3, <1>5, <3>4 DEF CrcDone
      <4>2. CrcDone' = 7 + len  BY <3>0, <4>1
      <4>3. crc_reg' = crc_reg  BY <2>1, <3>4 DEF HeaderStates
      <4> QED  BY <3>4, <4>1, <4>2, <4>3 DEF EmitInv
    <3> QED  BY <1>9, <3>2, <3>3, <3>4 DEF EmitInv, FramerStates
  <2>7. EmitInv'
    <3>1. /\ payload_count' > 0 /\ payload_count' \in 0 .. MAX_PAYLOAD_LEN
          /\ emit_index' \in 0 .. payload_count' - 1
      BY <1>1, <2>1, <2>4, TrafficAssumption
    <3>2. /\ IsSeq(wire_line') /\ Len(wire_line') = Passed'
          /\ \A i \in 1 .. Passed' : wire_line'[i] = TheImage'[i]
      BY <1>6, <2>1, <2>2, <2>4
    <3>3. crc_reg' = CrcUpto(TheBody', CrcDone')  BY <2>2, <2>6
    <3> QED  BY <2>4, <2>5, <3>1, <3>2, <3>3 DEF EmitInv
  <2> QED  BY <1>4, <1>9, <2>1, <2>2, <2>4, <2>7
<1> QED  BY <1>7, <1>8, <1>9

--------------------------------------------------------------------------------
(* The packetizer. *)

\* What the producers have.
Frames == [payload : Seq(Byte) \ {<<>>}, seq : Nat, tdest : {0, 1}]

\* What the assumption says of one load.
LEMMA TrafficIs ==
  ASSUME traffic \in Traffic
  PROVE  /\ traffic.esc \in Seq(Byte)
         /\ \A q \in Fifos : Plan(q) \in Seq(Frames)
         /\ \A q \in Fifos : \A n \in 1 .. Len(Plan(q)) :
              /\ Plan(q)[n].payload \in Seq(Byte) /\ Len(Plan(q)[n].payload) \in Nat \ {0}
              /\ ~Fits(Plan(q)[n]) =>
                   /\ n = Len(Plan(q)) /\ traffic.esc = <<>>
                   /\ \A o \in Fifos \ {q} : Plan(o) = <<>>
<1>1. /\ traffic.esc \in Seq(Byte) /\ traffic.ctrl \in Seq(Frames) /\ traffic.dbg \in Seq(Frames)
  BY TrafficAssumption DEF Frames
<1>2. \A q \in Fifos : Plan(q) \in Seq(Frames)  BY <1>1 DEF Plan
<1>3. ASSUME NEW q \in Fifos, NEW n \in 1 .. Len(Plan(q))
      PROVE  /\ Plan(q)[n].payload \in Seq(Byte) /\ Len(Plan(q)[n].payload) \in Nat \ {0}
             /\ ~Fits(Plan(q)[n]) =>
                  /\ n = Len(Plan(q)) /\ traffic.esc = <<>>
                  /\ \A o \in Fifos \ {q} : Plan(o) = <<>>
  <2>1. Plan(q)[n] \in Frames /\ n \in DOMAIN Plan(q)
    <3>1. Plan(q) \in Seq(Frames)  BY <1>2
    <3> QED  BY <3>1
  <2>2. Plan(q)[n].payload \in Seq(Byte) \ {<<>>}  BY <2>1 DEF Frames
  <2>3. Len(Plan(q)[n].payload) \in Nat \ {0}  BY <2>2, EmptySeq
  <2>4. ASSUME ~Fits(Plan(q)[n])
        PROVE  /\ n = Len(Plan(q)) /\ traffic.esc = <<>>
               /\ \A o \in Fifos \ {q} : Plan(o) = <<>>
    <3>1. Len(Plan(q)[n].payload) > MAX_PAYLOAD_LEN
      BY <2>3, <2>4, TrafficAssumption DEF Fits
    <3>2. CASE q = "ctrl"
      <4>1. Plan(q) = traffic.ctrl  BY <3>2 DEF Plan
      <4>2. n = Len(traffic.ctrl) /\ traffic.dbg = <<>> /\ traffic.esc = <<>>
        BY <2>1, <3>1, <4>1, TrafficAssumption
      <4> QED  BY <3>2, <4>1, <4>2 DEF Plan, Fifos
    <3>3. CASE q = "dbg"
      <4>1. Plan(q) = traffic.dbg  BY <3>3 DEF Plan
      <4>2. n = Len(traffic.dbg) /\ traffic.ctrl = <<>> /\ traffic.esc = <<>>
        BY <2>1, <3>1, <4>1, TrafficAssumption
      <4> QED  BY <3>3, <4>1, <4>2 DEF Plan, Fifos
    <3> QED  BY <3>2, <3>3 DEF Fifos
  <2> QED  BY <2>2, <2>3, <2>4
<1> QED  BY <1>1, <1>2, <1>3

--------------------------------------------------------------------------------
\* The packetizer: in the middle of a packet its output is full, and the grant is its own.
Given == IF pk_state = "PUSH" /\ pk_tvalid THEN push_idx - 1 ELSE 0
Packet == [j \in 1 .. pk_count |-> pk_mem[j - 1]]
EscTyped ==
  /\ traffic \in Traffic /\ esc_no \in Nat \ {0} /\ esc_tvalid \in BOOLEAN
  /\ esc_no <= Len(traffic.esc) + 1 /\ (esc_tvalid => esc_no <= Len(traffic.esc))
PacketizerInv ==
  /\ pk_state \in {"FILL", "PUSH"} /\ pk_tvalid \in BOOLEAN
  /\ pk_mem \in [0 .. MAX_LEN - 1 -> Byte \cup {0}] /\ pk_count \in 0 .. MAX_LEN
  /\ pk_state = "FILL" => ~pk_tvalid /\ pk_count < MAX_LEN
  /\ pk_state = "PUSH" => pk_count > 0 /\ push_idx \in 0 .. pk_count
  /\ pk_state = "PUSH" /\ ~pk_tvalid => push_idx = 0
  /\ pk_state = "PUSH" /\ pk_tvalid =>
       push_idx > 0 /\ pk_tdata = pk_mem[push_idx - 1] /\ pk_tlast = (push_idx = pk_count)
  /\ sel = "esc" => pk_tvalid
  /\ Given > 0 => sel = "esc"
  /\ traffic.esc = <<>> => pk_state = "FILL" /\ pk_count = 0

\* Where the packetizer is, by its output register.
LEMMA GivenIs ==
  ASSUME PacketizerInv
  PROVE  /\ Given \in Nat
         /\ pk_tvalid => /\ pk_state = "PUSH" /\ push_idx = Given + 1
                         /\ Given + 1 \in 1 .. pk_count /\ pk_tdata = pk_mem[Given]
                         /\ pk_tlast = (Given + 1 = pk_count)
         /\ ~pk_tvalid => Given = 0
<1>1. MAX_LEN \in Nat  BY TrafficAssumption
<1>2. CASE pk_tvalid
  <2>1. pk_state = "PUSH" /\ Given = push_idx - 1  BY <1>2 DEF PacketizerInv, Given
  <2>2. PICK i \in Nat : push_idx = i /\ i > 0 /\ i <= pk_count
    BY <1>1, <1>2, <2>1 DEF PacketizerInv
  <2>3. pk_tdata = pk_mem[i - 1] /\ pk_tlast = (i = pk_count)
    BY <1>2, <2>1, <2>2 DEF PacketizerInv
  <2>4. Given = i - 1 /\ Given \in Nat /\ (i - 1) + 1 = i  BY <2>1, <2>2
  <2>5. pk_count \in Nat  BY <1>1 DEF PacketizerInv
  <2> QED  BY <1>2, <2>1, <2>2, <2>3, <2>4, <2>5
<1>3. CASE ~pk_tvalid  BY <1>3 DEF Given
<1> QED  BY <1>2, <1>3

\* A clock edge of the packetizer.
LEMMA PacketizerStep ==
  ASSUME PacketizerInv, EscTyped, sel \in Selections, Arbiter, traffic' = traffic,
         PacketizerClock(esc_tvalid, EscByte, sel = "esc" /\ fr_tready)
  PROVE  /\ PacketizerInv'
         /\ esc_tvalid /\ pk_tready =>
              /\ Given = 0 /\ Given' = 0 /\ ~(sel = "esc" /\ Taken)
              /\ pk_count' = pk_count + 1
              /\ pk_mem' = [pk_mem EXCEPT ![pk_count] = traffic.esc[esc_no]]
         /\ ~(esc_tvalid /\ pk_tready) => pk_mem' = pk_mem
         /\ ~(esc_tvalid /\ pk_tready) /\ ~(sel = "esc" /\ Taken) =>
              Given' = Given /\ pk_count' = pk_count
         /\ sel = "esc" /\ Taken /\ ~Offer.last => Given' = Given + 1 /\ pk_count' = pk_count
         /\ sel = "esc" /\ Taken /\ Offer.last => Given' = 0 /\ pk_count' = 0
<1> DEFINE r == sel = "esc" /\ fr_tready
           byte == esc_tvalid /\ pk_tready
           none == traffic.esc = <<>>
<1>1. /\ MAX_LEN \in Nat \ {0} /\ pk_count \in Nat /\ pk_count <= MAX_LEN /\ none' = none
  BY TrafficAssumption DEF PacketizerInv
<1>2. /\ sel = "esc" => Offer.valid = pk_tvalid /\ Offer.last = pk_tlast
      /\ sel = "esc" => pk_tvalid
      /\ r <=> sel = "esc" /\ Taken
  <2>1. sel = "esc" => pk_tvalid  BY DEF PacketizerInv
  <2>2. CASE sel = "esc"
    <3>1. Offer = [valid |-> pk_tvalid, data |-> pk_tdata, last |-> pk_tlast, meta |-> EscMeta]
      BY <2>2 DEF Offer, Fifos
    <3> QED  BY <2>1, <2>2, <3>1 DEF Taken
  <2>3. CASE sel # "esc"  BY <2>3
  <2> QED  BY <2>1, <2>2, <2>3
<1>3. /\ sel' \in Selections
      /\ sel # "none" => sel' = IF Taken /\ Offer.last THEN "none" ELSE sel
      /\ sel = "none" /\ sel' = "esc" => pk_tvalid
  <2>1. sel = "none" /\ sel' = "esc" => pk_tvalid  BY DEF Arbiter, Grant
  <2> QED  BY <2>1, ArbiterStep
<1>4. CASE pk_state = "FILL" /\ byte
  <2>1. /\ ~pk_tvalid /\ pk_count < MAX_LEN /\ sel # "esc" /\ Given = 0
    BY <1>2, <1>4 DEF PacketizerInv, Given
  <2>2. /\ pk_mem' = [pk_mem EXCEPT ![pk_count] = EscByte] /\ pk_count' = pk_count + 1
        /\ pk_tvalid' = pk_tvalid
        /\ IF pk_count = MAX_LEN - 1 THEN pk_state' = "PUSH" /\ push_idx' = 0
                                     ELSE pk_state' = pk_state
    BY <1>4 DEF PacketizerClock, Fill, Push, TakeByte
  <2>3. sel' # "esc"  BY <1>3, <2>1
  <2>4. EscByte = traffic.esc[esc_no] /\ EscByte \in Byte /\ ~none
    <3>1. traffic.esc \in Seq(Byte) /\ esc_no \in 1 .. Len(traffic.esc)
      BY <1>4, TrafficIs DEF EscTyped
    <3> QED  BY <1>4, <3>1, EmptySeq DEF EscByte
  <2>5. pk_mem' \in [0 .. MAX_LEN - 1 -> Byte \cup {0}]
    BY <2>2, <2>4 DEF PacketizerInv
  <2>6. Given' = 0  BY <2>1, <2>2 DEF Given
  <2>7. pk_count' \in 0 .. MAX_LEN /\ pk_count' > 0  BY <1>1, <2>1, <2>2
  <2>8. /\ pk_state' \in {"FILL", "PUSH"} /\ ~pk_tvalid'
        /\ pk_state' = "FILL" => pk_count' < MAX_LEN
        /\ pk_state' = "PUSH" => push_idx' = 0
    BY <1>1, <1>4, <2>1, <2>2
  <2>9. PacketizerInv'
    <3>1. pk_tvalid' \in BOOLEAN  BY <2>2 DEF PacketizerInv
    <3>2. push_idx' = 0 => push_idx' \in 0 .. pk_count'  BY <2>7
    <3> QED  BY <1>1, <2>3, <2>4, <2>5, <2>6, <2>7, <2>8, <3>1, <3>2 DEF PacketizerInv
  <2> QED  BY <1>4, <2>1, <2>2, <2>4, <2>6, <2>9
<1>5. CASE pk_state = "FILL" /\ ~byte
  <2>1. ~pk_tvalid /\ pk_count < MAX_LEN /\ sel # "esc" /\ Given = 0
    BY <1>2, <1>5 DEF PacketizerInv, Given
  <2>2. /\ pk_mem' = pk_mem /\ pk_count' = pk_count /\ pk_tvalid' = pk_tvalid
        /\ \/ pk_count > 0 /\ pk_state' = "PUSH" /\ push_idx' = 0
           \/ pk_state' = pk_state
    BY <1>5 DEF PacketizerClock, Fill, Push, CountSilence
  <2>3. sel' # "esc"  BY <1>3, <2>1
  <2>4. Given' = 0  BY <2>1, <2>2 DEF Given
  <2>5. PacketizerInv'
    <3>1. /\ pk_state' \in {"FILL", "PUSH"} /\ pk_tvalid' \in BOOLEAN /\ ~pk_tvalid'
          /\ pk_mem' \in [0 .. MAX_LEN - 1 -> Byte \cup {0}] /\ pk_count' \in 0 .. MAX_LEN
      BY <1>5, <2>1, <2>2 DEF PacketizerInv
    <3>2. pk_state' = "PUSH" => pk_count' > 0 /\ push_idx' = 0 /\ push_idx' \in 0 .. pk_count'
      BY <1>1, <1>5, <2>2
    <3>3. none' => pk_state' = "FILL" /\ pk_count' = 0
      BY <1>1, <1>5, <2>2 DEF PacketizerInv
    <3> QED  BY <2>1, <2>2, <2>3, <2>4, <3>1, <3>2, <3>3 DEF PacketizerInv
  <2> QED  BY <1>2, <1>5, <2>1, <2>2, <2>4, <2>5
<1>6. CASE pk_state = "PUSH"
  <2>0. ~byte /\ ~none /\ pk_count > 0  BY <1>6 DEF PacketizerInv, pk_tready
  <2> DEFINE free == ~pk_tvalid \/ r
             more == push_idx < pk_count
  <2>1. /\ pk_mem' = pk_mem
        /\ ~free => /\ pk_state' = pk_state /\ pk_count' = pk_count /\ push_idx' = push_idx
                    /\ pk_tvalid' = pk_tvalid /\ pk_tdata' = pk_tdata /\ pk_tlast' = pk_tlast
        /\ free => /\ pk_tvalid' = more /\ pk_tlast' = (more /\ push_idx = pk_count - 1)
        /\ free /\ more => /\ pk_tdata' = pk_mem[push_idx] /\ push_idx' = push_idx + 1
                           /\ pk_state' = pk_state /\ pk_count' = pk_count
        /\ free /\ ~more => /\ push_idx' = push_idx /\ pk_state' = "FILL" /\ pk_count' = 0
    BY <1>6 DEF PacketizerClock, Fill, Push
  <2>2. PICK i \in Nat : push_idx = i /\ i <= pk_count /\ (~pk_tvalid => i = 0)
    BY <1>1, <1>6 DEF PacketizerInv
  <2>3. /\ Given \in Nat
        /\ pk_tvalid => i = Given + 1 /\ pk_tlast = (i = pk_count) /\ pk_tdata = pk_mem[i - 1]
        /\ ~pk_tvalid => Given = 0
    <3>1. pk_tvalid => pk_tlast = (i = pk_count) /\ pk_tdata = pk_mem[i - 1]
      BY <1>6, <2>2 DEF PacketizerInv
    <3> QED  BY <2>2, <3>1, GivenIs
  <2>4. /\ pk_mem' \in [0 .. MAX_LEN - 1 -> Byte \cup {0}]  BY <2>1 DEF PacketizerInv
  <2>5. CASE ~free
    <3>1. pk_tvalid /\ ~r /\ ~(sel = "esc" /\ Taken)  BY <1>2, <2>5
    <3>2. Given' = Given /\ pk_count' = pk_count  BY <2>1, <2>5 DEF Given
    <3>3. Given' > 0 => sel' = "esc"
      <4>1. Given > 0 => sel = "esc"  BY DEF PacketizerInv
      <4> QED  BY <1>3, <3>1, <3>2, <4>1
    <3>4. PacketizerInv'
      <4>1. /\ pk_state' = "PUSH" /\ pk_tvalid' /\ pk_tvalid' \in BOOLEAN
            /\ pk_count' \in 0 .. MAX_LEN /\ pk_count' > 0
            /\ push_idx' \in 0 .. pk_count' /\ push_idx' > 0
            /\ pk_tdata' = pk_mem'[push_idx' - 1] /\ pk_tlast' = (push_idx' = pk_count')
        BY <1>1, <1>6, <2>0, <2>1, <2>2, <2>3, <2>5, <3>1 DEF PacketizerInv
      <4> QED  BY <1>1, <2>0, <2>4, <3>3, <4>1 DEF PacketizerInv
    <3> QED  BY <2>0, <2>1, <3>1, <3>2, <3>4
  <2>6. CASE free /\ more
    <3>1. /\ pk_state' = "PUSH" /\ pk_tvalid' /\ pk_count' = pk_count
          /\ push_idx' = i + 1 /\ pk_tdata' = pk_mem[i] /\ pk_tlast' = (i = pk_count - 1)
          /\ i < pk_count
      BY <1>6, <2>1, <2>2, <2>6
    <3>2. Given' = i  BY <3>1 DEF Given
    <3>3. i > 0 => pk_tvalid /\ r /\ ~pk_tlast /\ sel = "esc" /\ Given + 1 = i
      <4> SUFFICES ASSUME i > 0 PROVE pk_tvalid /\ r /\ ~pk_tlast /\ Given + 1 = i  OBVIOUS
      <4>1. pk_tvalid /\ r  BY <2>2, <2>6
      <4>2. i # pk_count  BY <1>1, <3>1
      <4> QED  BY <2>3, <4>1, <4>2
    <3>4. i > 0 => sel' = "esc"  BY <1>2, <1>3, <3>3
    <3>5. PacketizerInv'
      <4>1. /\ push_idx' \in 0 .. pk_count' /\ push_idx' > 0 /\ push_idx' - 1 = i
            /\ pk_tlast' = (push_idx' = pk_count')
            /\ pk_count' \in 0 .. MAX_LEN /\ pk_count' > 0 /\ (Given' > 0 => sel' = "esc")
        BY <1>1, <2>2, <3>1, <3>2, <3>4
      <4> QED  BY <1>1, <2>0, <2>1, <2>4, <3>1, <4>1 DEF PacketizerInv
    <3>6. i = 0 => ~pk_tvalid /\ Given' = Given /\ ~(sel = "esc" /\ Taken)
      BY <1>2, <2>2, <2>3, <3>2
    <3>7. i > 0 => sel = "esc" /\ Taken /\ ~Offer.last /\ Given' = Given + 1
      BY <1>2, <3>2, <3>3
    <3> QED  BY <2>0, <2>1, <2>2, <3>1, <3>5, <3>6, <3>7
  <2>7. CASE free /\ ~more
    <3>0. pk_tvalid' = FALSE
      <4>1. more \in BOOLEAN /\ pk_tvalid' = more /\ ~more  BY <2>1, <2>7
      <4> HIDE DEF more
      <4> QED  BY <4>1
    <3>1. pk_state' = "FILL" /\ pk_count' = 0 /\ ~pk_tvalid' /\ pk_tvalid' \in BOOLEAN
      BY <2>1, <2>7, <3>0
    <3>2. i = pk_count /\ i > 0  BY <1>1, <2>0, <2>2, <2>7
    <3>3. pk_tvalid /\ r /\ pk_tlast  BY <2>2, <2>3, <2>7, <3>2
    <3>4. sel = "esc" /\ Taken /\ Offer.last /\ sel' = "none"  BY <1>2, <1>3, <3>3
    <3>5. Given' = 0  BY <3>1 DEF Given
    <3>6. PacketizerInv'  BY <1>1, <2>4, <3>1, <3>4, <3>5 DEF PacketizerInv
    <3> QED  BY <2>0, <2>1, <3>1, <3>4, <3>5, <3>6
  <2> QED  BY <2>5, <2>6, <2>7
<1> QED  BY <1>4, <1>5, <1>6 DEF PacketizerInv

--------------------------------------------------------------------------------
(* The FIFOs, and the three producers alike. *)

\* The FIFOs: in the middle of a frame the arbiter's grant is theirs.
FifosInv ==
  /\ traffic \in Traffic
  /\ frame_no \in [Fifos -> Nat \ {0}] /\ pos \in [Fifos -> Nat \ {0}]
  /\ tvalid \in [Fifos -> BOOLEAN] /\ sel \in Selections
  /\ \A q \in Fifos :
       /\ frame_no[q] <= Len(Plan(q)) + 1
       /\ tvalid[q] => frame_no[q] <= Len(Plan(q))
       /\ pos[q] > 1 => frame_no[q] <= Len(Plan(q)) /\ sel = q
       /\ frame_no[q] <= Len(Plan(q)) => pos[q] <= Len(Current(q).payload)

\* The frame at the head of a FIFO has the bytes it is said to have.
LEMMA CurrentIs ==
  ASSUME FifosInv, NEW q \in Fifos, frame_no[q] <= Len(Plan(q))
  PROVE  /\ frame_no[q] \in 1 .. Len(Plan(q))
         /\ Current(q).payload \in Seq(Byte) /\ Len(Current(q).payload) \in Nat \ {0}
         /\ pos[q] \in 1 .. Len(Current(q).payload)
         /\ ~Fits(Current(q)) =>
              /\ frame_no[q] = Len(Plan(q)) /\ traffic.esc = <<>>
              /\ \A o \in Fifos \ {q} : Plan(o) = <<>>
<1>1. Plan(q) \in Seq(Frames)  BY TrafficIs DEF FifosInv
<1>2. frame_no[q] \in 1 .. Len(Plan(q))  BY <1>1 DEF FifosInv
<1>3. /\ Current(q).payload \in Seq(Byte) /\ Len(Current(q).payload) \in Nat \ {0}
      /\ ~Fits(Current(q)) =>
           /\ frame_no[q] = Len(Plan(q)) /\ traffic.esc = <<>>
           /\ \A o \in Fifos \ {q} : Plan(o) = <<>>
  BY <1>2, TrafficIs DEF FifosInv, Current
<1>4. pos[q] <= Len(Current(q).payload) /\ pos[q] \in Nat \ {0}  BY DEF FifosInv
<1> QED  BY <1>2, <1>3, <1>4

\* A clock edge moves a FIFO only when its byte is taken.
LEMMA FifosInvStep ==
  ASSUME FifosInv, FifosOut, Arbiter, traffic' = traffic
  PROVE  /\ FifosInv'
         /\ \A q \in Fifos :
              /\ ~(sel = q /\ Taken) => frame_no'[q] = frame_no[q] /\ pos'[q] = pos[q]
              /\ sel = q /\ Taken /\ ~Offer.last =>
                   frame_no'[q] = frame_no[q] /\ pos'[q] = pos[q] + 1
              /\ sel = q /\ Taken /\ Offer.last =>
                   frame_no'[q] = frame_no[q] + 1 /\ pos'[q] = 1
<1>1. /\ frame_no' = [q \in Fifos |-> IF sel = q /\ Taken /\ Offer.last THEN frame_no[q] + 1
                                      ELSE frame_no[q]]
      /\ pos' = [q \in Fifos |-> IF sel = q /\ Taken /\ Offer.last THEN 1
                                 ELSE IF sel = q /\ Taken THEN pos[q] + 1 ELSE pos[q]]
      /\ tvalid' \in [Fifos -> BOOLEAN]
      /\ \A q \in Fifos : tvalid'[q] => frame_no'[q] <= Len(Plan(q))
  BY DEF FifosOut
<1>2. /\ sel' \in Selections
      /\ sel # "none" => sel' = IF Taken /\ Offer.last THEN "none" ELSE sel
  BY ArbiterStep DEF FifosInv
<1>3. ASSUME NEW q \in Fifos PROVE Plan(q)' = Plan(q) /\ Len(Plan(q)) \in Nat
  <2>1. Plan(q) \in Seq(Frames)  BY TrafficIs DEF FifosInv
  <2> QED  BY <2>1 DEF Plan
<1>4. frame_no' \in [Fifos -> Nat \ {0}] /\ pos' \in [Fifos -> Nat \ {0}]
  BY <1>1 DEF FifosInv
<1>5. ASSUME NEW q \in Fifos
      PROVE  /\ frame_no'[q] <= Len(Plan(q)) + 1
             /\ pos'[q] > 1 => frame_no'[q] <= Len(Plan(q)) /\ sel' = q
             /\ frame_no'[q] <= Len(Plan(q)) => pos'[q] <= Len(Current(q)'.payload)
             /\ ~(sel = q /\ Taken) => frame_no'[q] = frame_no[q] /\ pos'[q] = pos[q]
             /\ sel = q /\ Taken /\ ~Offer.last =>
                  frame_no'[q] = frame_no[q] /\ pos'[q] = pos[q] + 1
             /\ sel = q /\ Taken /\ Offer.last =>
                  frame_no'[q] = frame_no[q] + 1 /\ pos'[q] = 1
  <2>1. q # "none"  BY DEF Fifos
  <2>2. Current(q)' = Plan(q)[frame_no'[q]]  BY <1>3 DEF Current
  <2>3. PICK n \in Nat : frame_no[q] = n /\ n > 0  BY DEF FifosInv
  <2>4. PICK p \in Nat : pos[q] = p /\ p > 0  BY DEF FifosInv
  <2>5. CASE ~(sel = q /\ Taken)
    <3>1. frame_no'[q] = frame_no[q] /\ pos'[q] = pos[q]  BY <1>1, <2>5
    <3>2. sel = q => sel' = q  BY <1>2, <2>1, <2>5
    <3> QED  BY <2>2, <2>5, <3>1, <3>2 DEF FifosInv, Current
  <2>6. CASE sel = q /\ Taken
    <3>1. tvalid[q]  BY <2>6, TakenFacts DEF FifosInv
    <3>2. /\ n <= Len(Plan(q)) /\ p <= Len(Current(q).payload)
      BY <2>3, <2>4, <3>1 DEF FifosInv
    <3>3. Offer.last <=> p = Len(Current(q).payload)
      BY <2>4, <2>6, <3>1 DEF Offer, Fifos
    <3>4. Len(Current(q).payload) \in Nat  BY <2>3, <3>2, CurrentIs
    <3>5. CASE Offer.last
      <4>1. frame_no'[q] = n + 1 /\ pos'[q] = 1  BY <1>1, <2>3, <2>6, <3>5
      <4>2. n + 1 <= Len(Plan(q)) => 1 <= Len(Plan(q)[n + 1].payload)
        <5>1. n + 1 <= Len(Plan(q)) => n + 1 \in 1 .. Len(Plan(q))  BY <1>3, <2>3
        <5> QED  BY <5>1, TrafficIs DEF FifosInv
      <4> QED  BY <1>3, <2>2, <2>3, <2>6, <3>2, <3>5, <4>1, <4>2
    <3>6. CASE ~Offer.last
      <4>1. frame_no'[q] = n /\ pos'[q] = p + 1  BY <1>1, <2>3, <2>4, <2>6, <3>6
      <4>2. p + 1 <= Len(Current(q).payload)
        <5>1. PICK m \in Nat : Len(Current(q).payload) = m  BY <3>4
        <5>2. p # m  BY <3>3, <3>6, <5>1
        <5> QED  BY <3>2, <5>1, <5>2
      <4>3. Current(q)' = Current(q)  BY <2>2, <2>3, <4>1 DEF Current
      <4>4. sel' = q  BY <1>2, <2>1, <2>6, <3>6
      <4> QED  BY <1>3, <2>3, <2>4, <2>6, <3>2, <3>6, <4>1, <4>2, <4>3, <4>4
    <3> QED  BY <3>5, <3>6
  <2> QED  BY <2>5, <2>6
<1>6. FifosInv'
  <2>1. traffic' \in Traffic  BY DEF FifosInv
  <2> QED  BY <1>1, <1>2, <1>3, <1>4, <1>5, <2>1 DEF FifosInv
<1> QED  BY <1>5, <1>6

--------------------------------------------------------------------------------
\* The three producers seen alike: what each has to send, and how far it is.
Sources == Fifos \cup {"esc"}
Whole(s) == IF s = "esc" THEN Packet ELSE Current(s).payload
Place(s) == IF s = "esc" THEN Given + 1 ELSE pos[s]
SourceMeta(s) == IF s = "esc" THEN EscMeta ELSE Meta(s, Current(s))

\* What the packetizer holds is a sequence.
LEMMA PacketIs ==
  ASSUME PacketizerInv
  PROVE  /\ pk_count \in Nat /\ IsSeq(Packet) /\ Len(Packet) = pk_count
         /\ pk_count <= MAX_PAYLOAD_LEN
         /\ \A j \in 1 .. pk_count : Packet[j] = pk_mem[j - 1] /\ Packet[j] \in Byte \cup {0}
<1>0. PICK len \in Nat : pk_count = len /\ len <= MAX_LEN  BY TrafficAssumption DEF PacketizerInv
<1>1. Len(Packet) = len /\ Packet = [j \in 1 .. len |-> pk_mem[j - 1]]
  BY <1>0 DEF Packet
<1>2. \A j \in 1 .. len : Packet[j] = pk_mem[j - 1]  BY <1>1
<1>3. Packet = [j \in 1 .. len |-> Packet[j]]  BY <1>1
<1>4. ASSUME NEW j \in 1 .. len PROVE pk_mem[j - 1] \in Byte \cup {0}
  <2>1. j - 1 \in 0 .. MAX_LEN - 1  BY <1>0, TrafficAssumption
  <2> QED  BY <2>1 DEF PacketizerInv
<1>5. len <= MAX_PAYLOAD_LEN  BY <1>0, TrafficAssumption
<1> QED  BY <1>0, <1>1, <1>2, <1>3, <1>4, <1>5 DEF IsSeq

\* The offer is the next byte of what the source with the grant has.
LEMMA OfferIs ==
  ASSUME FifosInv, PacketizerInv, Offer.valid
  PROVE  /\ sel \in Sources
         /\ IsSeq(Whole(sel)) /\ Len(Whole(sel)) \in Nat /\ Place(sel) \in 1 .. Len(Whole(sel))
         /\ Offer.data = Whole(sel)[Place(sel)] /\ Offer.data \in Byte \cup {0}
         /\ Offer.last = (Place(sel) = Len(Whole(sel)))
         /\ Offer.meta = SourceMeta(sel)
<1>1. CASE sel = "esc"
  <2>1. Offer = [valid |-> pk_tvalid, data |-> pk_tdata, last |-> pk_tlast, meta |-> EscMeta]
    BY <1>1 DEF Offer, Fifos
  <2>2. pk_tvalid  BY <2>1
  <2>3. /\ Given + 1 \in 1 .. pk_count /\ pk_tdata = pk_mem[Given]
        /\ pk_tlast = (Given + 1 = pk_count) /\ (Given + 1) - 1 = Given
    BY <2>2, GivenIs
  <2>4. /\ IsSeq(Packet) /\ Len(Packet) = pk_count /\ pk_count \in Nat
        /\ Packet[Given + 1] = pk_mem[Given] /\ Packet[Given + 1] \in Byte \cup {0}
    <3>1. /\ IsSeq(Packet) /\ Len(Packet) = pk_count /\ pk_count \in Nat
          /\ Packet[Given + 1] = pk_mem[(Given + 1) - 1] /\ Packet[Given + 1] \in Byte \cup {0}
      BY <2>3, PacketIs
    <3> QED  BY <2>3, <3>1
  <2> QED  BY <1>1, <2>1, <2>3, <2>4 DEF Sources, Whole, Place, SourceMeta
<1>2. CASE sel \in Fifos
  <2>0. sel # "esc"  BY <1>2 DEF Fifos
  <2>1. tvalid[sel]  BY <1>2, <2>0 DEF Offer
  <2>2. Offer = [valid |-> TRUE, data |-> Current(sel).payload[pos[sel]],
                 last |-> pos[sel] = Len(Current(sel).payload), meta |-> Meta(sel, Current(sel))]
    BY <1>2, <2>0, <2>1 DEF Offer
  <2>3. /\ Current(sel).payload \in Seq(Byte) /\ Len(Current(sel).payload) \in Nat
        /\ pos[sel] \in 1 .. Len(Current(sel).payload)
    BY <1>2, <2>1, CurrentIs DEF FifosInv
  <2>4. Current(sel).payload[pos[sel]] \in Byte  BY <2>3
  <2>5. IsSeq(Current(sel).payload)  BY <2>3, TypedIsSeq
  <2> QED
    BY <1>2, <2>0, <2>2, <2>3, <2>4, <2>5 DEF Sources, Whole, Place, SourceMeta
<1>3. CASE sel = "none"  BY <1>3, NotTakenFromNone
<1> QED  BY <1>1, <1>2, <1>3 DEF FifosInv, Selections

\* Only the source with the grant is in the middle of something.
LEMMA PlaceIs ==
  ASSUME FifosInv, PacketizerInv, NEW s \in Sources
  PROVE  Place(s) \in Nat \ {0} /\ (Place(s) > 1 => sel = s)
<1>1. CASE s = "esc"
  <2>1. Given \in Nat /\ (Given > 0 => sel = "esc")  BY GivenIs DEF PacketizerInv
  <2> QED  BY <1>1, <2>1 DEF Place
<1>2. CASE s \in Fifos /\ s # "esc"  BY <1>2 DEF FifosInv, Place
<1> QED  BY <1>1, <1>2 DEF Sources

\* What a clock edge does to the source.
LEMMA SourceStep ==
  ASSUME FifosInv, PacketizerInv, EscTyped, NEW u, NEW c, NEW l, Edge(u, c, l)
  PROVE  /\ FifosInv' /\ PacketizerInv'
         /\ \A s \in Sources :
              /\ ~(sel = s /\ Taken) => Place(s)' = Place(s)
              /\ sel = s /\ Taken /\ ~Offer.last => Place(s)' = Place(s) + 1
              /\ sel = s /\ Taken /\ Offer.last => Place(s)' = 1
              /\ Place(s) > 1 /\ ~(sel = s /\ Taken /\ Offer.last)
                   => Whole(s)' = Whole(s) /\ SourceMeta(s)' = SourceMeta(s)
              /\ sel = s /\ Taken /\ ~Offer.last =>
                   Whole(s)' = Whole(s) /\ SourceMeta(s)' = SourceMeta(s)
<1>1. /\ PacketizerClock(esc_tvalid, EscByte, sel = "esc" /\ fr_tready)
      /\ Arbiter /\ FifosOut /\ traffic' = traffic /\ sel \in Selections
  BY DEF Edge, FifosInv
<1>2. /\ FifosInv'
      /\ \A q \in Fifos :
           /\ ~(sel = q /\ Taken) => frame_no'[q] = frame_no[q] /\ pos'[q] = pos[q]
           /\ sel = q /\ Taken /\ ~Offer.last =>
                frame_no'[q] = frame_no[q] /\ pos'[q] = pos[q] + 1
           /\ sel = q /\ Taken /\ Offer.last =>
                frame_no'[q] = frame_no[q] + 1 /\ pos'[q] = 1
  BY <1>1, FifosInvStep
<1> DEFINE byte == esc_tvalid /\ pk_tready
<1>3. /\ PacketizerInv'
      /\ byte => Given = 0 /\ Given' = 0 /\ ~(sel = "esc" /\ Taken)
      /\ ~byte => pk_mem' = pk_mem
      /\ ~byte /\ ~(sel = "esc" /\ Taken) => Given' = Given /\ pk_count' = pk_count
      /\ sel = "esc" /\ Taken /\ ~Offer.last => Given' = Given + 1 /\ pk_count' = pk_count
      /\ sel = "esc" /\ Taken /\ Offer.last => Given' = 0
  BY <1>1, PacketizerStep
<1> HIDE DEF byte
<1>4. ASSUME NEW s \in Sources, s = "esc"
      PROVE  /\ ~(sel = s /\ Taken) => Place(s)' = Place(s)
             /\ sel = s /\ Taken /\ ~Offer.last => Place(s)' = Place(s) + 1
             /\ sel = s /\ Taken /\ Offer.last => Place(s)' = 1
             /\ Place(s) > 1 /\ ~(sel = s /\ Taken /\ Offer.last)
                  => Whole(s)' = Whole(s) /\ SourceMeta(s)' = SourceMeta(s)
             /\ sel = s /\ Taken /\ ~Offer.last =>
                  Whole(s)' = Whole(s) /\ SourceMeta(s)' = SourceMeta(s)
  <2>1. Given \in Nat  BY GivenIs
  <2>2. SourceMeta(s)' = SourceMeta(s)  BY <1>1, <1>4 DEF SourceMeta, EscMeta
  <2>3. pk_mem' = pk_mem /\ pk_count' = pk_count => Whole(s)' = Whole(s)
    BY <1>4 DEF Whole, Packet
  <2>4. Place(s) = Given + 1 /\ Place(s)' = Given' + 1  BY <1>4 DEF Place
  <2>5. ~(sel = s /\ Taken) => Given' = Given  BY <1>3, <1>4
  <2>6. Given > 0 /\ ~(sel = s /\ Taken /\ Offer.last) => Whole(s)' = Whole(s)
    BY <1>3, <1>4, <2>3
  <2>7. sel = s /\ Taken /\ ~Offer.last => Whole(s)' = Whole(s)
    BY <1>3, <1>4, <2>3
  <2> QED  BY <1>3, <1>4, <2>1, <2>2, <2>4, <2>5, <2>6, <2>7
<1>5. ASSUME NEW s \in Sources, s # "esc"
      PROVE  /\ ~(sel = s /\ Taken) => Place(s)' = Place(s)
             /\ sel = s /\ Taken /\ ~Offer.last => Place(s)' = Place(s) + 1
             /\ sel = s /\ Taken /\ Offer.last => Place(s)' = 1
             /\ Place(s) > 1 /\ ~(sel = s /\ Taken /\ Offer.last)
                  => Whole(s)' = Whole(s) /\ SourceMeta(s)' = SourceMeta(s)
             /\ sel = s /\ Taken /\ ~Offer.last =>
                  Whole(s)' = Whole(s) /\ SourceMeta(s)' = SourceMeta(s)
  <2>1. s \in Fifos  BY <1>5 DEF Sources
  <2>2. frame_no'[s] = frame_no[s] => Current(s)' = Current(s)
    BY <1>1 DEF Current, Plan
  <2>3. Current(s)' = Current(s) => Whole(s)' = Whole(s) /\ SourceMeta(s)' = SourceMeta(s)
    BY <1>5 DEF Whole, SourceMeta, Meta, CtrlMeta, DbgMeta
  <2>4. Place(s) = pos[s] /\ Place(s)' = pos'[s]  BY <1>5 DEF Place
  <2> QED  BY <1>2, <2>1, <2>2, <2>3, <2>4
<1> QED  BY <1>2, <1>3, <1>4, <1>5

--------------------------------------------------------------------------------
(* The framer while it captures. *)

\* The framer while it captures: it has what the source with the grant has given, as far as
\* that fits.  A frame that does not fit is the last of all.
Over == (\A q \in Fifos : frame_no[q] > Len(Plan(q))) /\ traffic.esc = <<>>
Captures(s) ==
  /\ sel = s /\ Place(s) > 1
  /\ frame_meta = SourceMeta(s)
  /\ IF Place(s) - 1 <= MAX_PAYLOAD_LEN
       THEN /\ payload_count = Place(s) - 1 /\ ~drop_frame
            /\ \A j \in 1 .. payload_count : payload_mem[j - 1] = Whole(s)[j]
       ELSE drop_frame /\ payload_count = MAX_PAYLOAD_LEN
CaptureInv ==
  /\ payload_mem \in [0 .. MAX_PAYLOAD_LEN - 1 -> Byte \cup {0}]
  /\ capture_active \in BOOLEAN /\ drop_frame \in BOOLEAN
  /\ payload_count \in 0 .. MAX_PAYLOAD_LEN /\ fr_state \in FramerStates
  /\ ~capture_active => \A s \in Sources : Place(s) = 1
  /\ capture_active => fr_state = "CAPTURE" /\ \E s \in Sources : Captures(s)
  /\ fr_state = "CAPTURE" /\ ~capture_active => payload_count = 0 /\ (drop_frame => Over)
  /\ fr_state # "CAPTURE" => ~drop_frame

\* A frame of which the last byte is taken: it is on its way, or it was too long.
Complete ==
  /\ fr_state' = "SYNC" /\ emit_index' = 0
  /\ payload_count' = Len(Whole(sel)) /\ Len(Whole(sel)) \in 1 .. MAX_PAYLOAD_LEN
  /\ \A j \in 1 .. Len(Whole(sel)) : payload_mem'[j - 1] = Whole(sel)[j]
  /\ frame_meta' = SourceMeta(sel)
TooLong ==
  /\ fr_state' = "CAPTURE" /\ sel \in Fifos /\ ~Fits(Current(sel))
  /\ frame_no[sel] \in 1 .. Len(Plan(sel))

\* Nothing is offered when all is over.
LEMMA OverNoOffer ==
  ASSUME FifosInv, PacketizerInv, Over
  PROVE  ~Offer.valid
<1> SUFFICES ASSUME Offer.valid PROVE FALSE  OBVIOUS
<1>1. sel \in Sources  BY OfferIs
<1>2. CASE sel = "esc"
  <2>1. pk_tvalid  BY <1>2 DEF PacketizerInv
  <2> QED  BY <2>1 DEF PacketizerInv, Over
<1>3. CASE sel \in Fifos
  <2>0. sel # "esc"  BY <1>3 DEF Fifos
  <2>1. tvalid[sel]  BY <1>3, <2>0 DEF Offer
  <2>2. frame_no[sel] <= Len(Plan(sel)) /\ frame_no[sel] > Len(Plan(sel))
    BY <1>3, <2>1 DEF FifosInv, Over
  <2>3. frame_no[sel] \in Nat /\ Len(Plan(sel)) \in Nat
    <3>1. Plan(sel) \in Seq(Frames)  BY <1>3, TrafficIs DEF FifosInv
    <3> QED  BY <1>3, <3>1 DEF FifosInv
  <2> QED  BY <2>2, <2>3
<1> QED  BY <1>1, <1>2, <1>3 DEF Sources

\* The byte that is taken is stored, or the frame is too long.
LEMMA CaptureStep ==
  ASSUME FifosInv, PacketizerInv, EscTyped, CaptureInv, NEW u, NEW c, NEW l, Edge(u, c, l),
         fr_state = "CAPTURE"
  PROVE  /\ CaptureInv'
         /\ Taken /\ Offer.last => Complete \/ TooLong
         /\ ~(Taken /\ Offer.last) => fr_state' = "CAPTURE"
<1>1. Capture(Offer.valid, Offer.data, Offer.last, Offer.meta)
  BY DEF Edge, FramerClock, Emit
<1>2. /\ FifosInv' /\ PacketizerInv'
      /\ \A s \in Sources :
           /\ ~(sel = s /\ Taken) => Place(s)' = Place(s)
           /\ sel = s /\ Taken /\ ~Offer.last => Place(s)' = Place(s) + 1
           /\ sel = s /\ Taken /\ Offer.last => Place(s)' = 1
           /\ Place(s) > 1 /\ ~(sel = s /\ Taken /\ Offer.last)
                => Whole(s)' = Whole(s) /\ SourceMeta(s)' = SourceMeta(s)
           /\ sel = s /\ Taken /\ ~Offer.last =>
                Whole(s)' = Whole(s) /\ SourceMeta(s)' = SourceMeta(s)
  BY SourceStep
<1>3. /\ sel' \in Selections
      /\ sel # "none" => sel' = IF Taken /\ Offer.last THEN "none" ELSE sel
  BY ArbiterStep DEF Edge, FifosInv
<1>4. PICK max \in Nat : MAX_PAYLOAD_LEN = max /\ max > 0  BY TrafficAssumption
<1>5. Taken <=> Offer.valid  BY DEF Taken, fr_tready
<1>6. \A s \in Sources : s # "none" /\ Place(s) \in Nat \ {0} /\ (Place(s) > 1 => sel = s)
  BY PlaceIs DEF Sources, Fifos
<1>7. /\ \A q \in Fifos : Plan(q)' = Plan(q) /\ Len(Plan(q)) \in Nat
      /\ \A q \in Fifos : frame_no'[q] >= frame_no[q]
      /\ traffic' = traffic
  <2>1. /\ traffic' = traffic /\ FifosOut /\ Arbiter  BY DEF Edge
  <2>2. ASSUME NEW q \in Fifos PROVE frame_no'[q] >= frame_no[q]
    <3>1. frame_no'[q] = frame_no[q] \/ frame_no'[q] = frame_no[q] + 1
      BY <2>1, FifosInvStep
    <3>2. frame_no[q] \in Nat  BY DEF FifosInv
    <3> QED  BY <3>1, <3>2
  <2>3. \A q \in Fifos : Plan(q)' = Plan(q)  BY <2>1 DEF Plan
  <2>4. ASSUME NEW q \in Fifos PROVE Len(Plan(q)) \in Nat
    <3>1. Plan(q) \in Seq(Frames)  BY TrafficIs DEF FifosInv
    <3> QED  BY <3>1
  <2> QED  BY <2>1, <2>2, <2>3, <2>4
<1>8. CASE ~Offer.valid
  <2>1. /\ fr_state' = fr_state /\ payload_mem' = payload_mem /\ payload_count' = payload_count
        /\ frame_meta' = frame_meta /\ capture_active' = capture_active
        /\ drop_frame' = drop_frame
    BY <1>1, <1>8 DEF Capture
  <2>2. \A s \in Sources : /\ Place(s)' = Place(s)
                           /\ Place(s) > 1 => Whole(s)' = Whole(s) /\ SourceMeta(s)' = SourceMeta(s)
    BY <1>2, <1>5, <1>8
  <2>3. capture_active => \E s \in Sources : Captures(s)'
    <3> SUFFICES ASSUME capture_active PROVE \E s \in Sources : Captures(s)'  OBVIOUS
    <3>1. PICK s \in Sources : Captures(s)  BY DEF CaptureInv
    <3>2. sel' = s  BY <1>3, <1>5, <1>6, <1>8, <3>1 DEF Captures
    <3>3. Captures(s)'  BY <2>1, <2>2, <3>1, <3>2 DEF Captures
    <3> QED  BY <3>3
  <2>4. Over => Over'
    <3> SUFFICES ASSUME Over PROVE Over'  OBVIOUS
    <3>1. ASSUME NEW q \in Fifos PROVE frame_no'[q] > Len(Plan(q)')
      <4>1. frame_no[q] > Len(Plan(q)) /\ frame_no[q] \in Nat /\ frame_no'[q] \in Nat
        BY <1>2 DEF Over, FifosInv
      <4> QED  BY <1>7, <4>1
    <3> QED  BY <1>7, <3>1 DEF Over
  <2>5. CaptureInv'
    <3>1. ~capture_active' => \A s \in Sources : Place(s)' = 1
      BY <2>1, <2>2 DEF CaptureInv
    <3> QED  BY <1>4, <2>1, <2>3, <2>4, <3>1 DEF CaptureInv
  <2> QED  BY <1>5, <1>8, <2>1, <2>5
<1>9. CASE Offer.valid
  <2> DEFINE first == ~capture_active
             room  == payload_count < max
             store == ~drop_frame /\ room
             drop  == drop_frame \/ ~room
             last  == Offer.last
  <2>1. /\ frame_meta' = IF first THEN Offer.meta ELSE frame_meta
        /\ payload_mem' = IF store THEN [payload_mem EXCEPT ![payload_count] = Offer.data]
                          ELSE payload_mem
        /\ payload_count' = IF last /\ drop THEN 0
                            ELSE IF store THEN payload_count + 1
                            ELSE IF first THEN 0 ELSE payload_count
        /\ drop_frame' = ((~drop_frame /\ ~room) \/ (drop_frame /\ ~first))
        /\ capture_active' = ~last
        /\ fr_state' = IF last /\ ~drop THEN "SYNC" ELSE "CAPTURE"
        /\ last => emit_index' = 0
    BY <1>1, <1>4, <1>9 DEF Capture, CaptureByte, Room
  <2>2. PICK g \in Sources : sel = g  BY <1>9, OfferIs
  <2>3. PICK len \in Nat : Len(Whole(g)) = len  BY <1>9, <2>2, OfferIs
  <2>4. PICK p \in Nat : Place(g) = p /\ p \in 1 .. len  BY <1>9, <2>2, <2>3, OfferIs
  <2>5. /\ IsSeq(Whole(g)) /\ Offer.data = Whole(g)[p] /\ Offer.data \in Byte \cup {0}
        /\ last <=> p = len
        /\ Offer.meta = SourceMeta(g)
    BY <1>9, <2>2, <2>3, <2>4, OfferIs
  <2>6. Taken  BY <1>5, <1>9
  <2>7. PICK k \in Nat : payload_count = k /\ k <= max  BY <1>4 DEF CaptureInv
  <2>0. /\ drop_frame \in BOOLEAN /\ drop_frame' \in BOOLEAN
        /\ drop_frame' <=> (~drop_frame /\ ~room) \/ (drop_frame /\ ~first)
        /\ capture_active' \in BOOLEAN /\ (capture_active' <=> ~last)
    BY <2>1 DEF CaptureInv
  <2>8. /\ first => p = 1 /\ ~drop_frame /\ k = 0
        /\ ~first => /\ p > 1 /\ frame_meta = SourceMeta(g)
                     /\ p - 1 <= max => k = p - 1 /\ ~drop_frame
                     /\ p - 1 > max => k = max /\ drop_frame
        /\ ~drop_frame => \A j \in 1 .. k : payload_mem[j - 1] = Whole(g)[j]
    <3>1. CASE first
      <4>1. p = 1 /\ k = 0 /\ (drop_frame => Over)  BY <2>4, <2>7, <3>1 DEF CaptureInv
      <4>2. ~drop_frame  BY <1>9, <4>1, OverNoOffer
      <4> QED  BY <2>0, <3>1, <4>1, <4>2
    <3>2. CASE ~first
      <4>1. PICK s \in Sources : Captures(s)  BY <3>2 DEF CaptureInv
      <4>2. s = g  BY <2>2, <4>1 DEF Captures
      <4>3. p > 1 /\ frame_meta = SourceMeta(g)  BY <2>4, <4>1, <4>2 DEF Captures
      <4>4. CASE p - 1 <= max
        BY <1>4, <2>0, <2>4, <2>7, <3>2, <4>1, <4>2, <4>3, <4>4 DEF Captures
      <4>5. CASE ~(p - 1 <= max)
        BY <1>4, <2>0, <2>4, <2>7, <3>2, <4>1, <4>2, <4>3, <4>5 DEF Captures
      <4> QED  BY <4>4, <4>5
    <3> QED  BY <3>1, <3>2 DEF CaptureInv
  <2>9. frame_meta' = SourceMeta(g)  BY <2>1, <2>5, <2>8
  <2>10. payload_mem' \in [0 .. MAX_PAYLOAD_LEN - 1 -> Byte \cup {0}]
    <3>1. payload_mem \in [0 .. MAX_PAYLOAD_LEN - 1 -> Byte \cup {0}]  BY DEF CaptureInv
    <3> HIDE DEF store
    <3> QED  BY <2>1, <2>5, <3>1
  <2>11. CASE store
    <3>1. k = p - 1 /\ p <= max /\ ~drop_frame  BY <1>4, <2>4, <2>7, <2>8, <2>11
    <3>2. payload_mem' = [payload_mem EXCEPT ![p - 1] = Whole(g)[p]]
      BY <2>1, <2>5, <2>7, <2>11, <3>1
    <3>3. ASSUME NEW j \in 1 .. p PROVE payload_mem'[j - 1] = Whole(g)[j]
      <4>1. payload_mem = [i \in 0 .. max - 1 |-> payload_mem[i]]  BY <1>4 DEF CaptureInv
      <4>2. j - 1 \in 0 .. max - 1  BY <1>4, <2>4, <3>1
      <4>3. CASE j = p  BY <3>2, <4>1, <4>2, <4>3
      <4>4. CASE j # p
        <5>1. j \in 1 .. k /\ j - 1 # p - 1  BY <2>4, <3>1, <4>4
        <5>2. payload_mem'[j - 1] = payload_mem[j - 1]  BY <3>2, <4>1, <4>2, <5>1
        <5> QED  BY <2>8, <3>1, <5>1, <5>2
      <4> QED  BY <4>3, <4>4
    <3>4. drop_frame' = FALSE /\ payload_count' = p
      BY <2>0, <2>1, <2>4, <2>7, <2>11, <3>1
    <3>5. CASE last
      <4>1. fr_state' = "SYNC" /\ ~capture_active' /\ emit_index' = 0
        BY <2>0, <2>1, <2>11, <3>5
      <4>2. p = len  BY <2>5, <3>5
      <4>3. Complete  BY <1>4, <2>2, <2>3, <2>4, <2>9, <3>1, <3>3, <3>4, <4>1, <4>2 DEF Complete
      <4>4. \A s \in Sources : Place(s)' = 1
        BY <1>2, <1>6, <2>2, <2>6, <3>5
      <4>5. CaptureInv'
        <5>1. ~capture_active' => \A s \in Sources : Place(s)' = 1  BY <4>4
        <5>2. /\ payload_count' \in 0 .. MAX_PAYLOAD_LEN /\ fr_state' \in FramerStates
              /\ drop_frame' \in BOOLEAN /\ capture_active' \in BOOLEAN
              /\ ~capture_active' /\ ~drop_frame'
          BY <1>4, <2>0, <2>4, <3>1, <3>4, <4>1 DEF FramerStates
        <5> QED  BY <2>10, <4>1, <5>1, <5>2 DEF CaptureInv
      <4> QED  BY <2>6, <3>5, <4>3, <4>5
    <3>6. CASE ~last
      <4>1. fr_state' = "CAPTURE" /\ capture_active' = TRUE  BY <2>1, <3>6
      <4>2. Place(g)' = p + 1 /\ Whole(g)' = Whole(g) /\ SourceMeta(g)' = SourceMeta(g)
        BY <1>2, <2>2, <2>4, <2>6, <3>6
      <4>3. sel' = g  BY <1>3, <1>6, <2>2, <3>6
      <4>4. (p + 1) - 1 = p /\ p + 1 > 1 /\ p <= MAX_PAYLOAD_LEN /\ p \in 0 .. MAX_PAYLOAD_LEN
        BY <1>4, <2>4, <3>1
      <4>5. Captures(g)'
        BY <2>9, <3>3, <3>4, <4>2, <4>3, <4>4 DEF Captures
      <4>6. CaptureInv'
        BY <2>10, <3>4, <4>1, <4>4, <4>5 DEF CaptureInv, FramerStates
      <4> QED  BY <3>6, <4>1, <4>6
    <3> QED  BY <3>5, <3>6
  <2>12. CASE ~store
    <3>0. drop /\ ~first  BY <1>4, <2>7, <2>8, <2>12
    <3>1. k = max /\ p > max  BY <1>4, <2>4, <2>7, <2>8, <3>0
    <3>2. drop_frame' = TRUE /\ fr_state' = "CAPTURE"  BY <2>0, <2>1, <2>12, <3>0
    <3>3. CASE last
      <4>1. payload_count' = 0 /\ ~capture_active'  BY <2>0, <2>1, <3>0, <3>3
      <4>2. p = len /\ len > max  BY <2>5, <3>1, <3>3
      <4>3. g # "esc"
        <5>1. g = "esc" => len <= max  BY <1>4, <2>3, PacketIs DEF Whole
        <5> QED  BY <4>2, <5>1
      <4>4. g \in Fifos /\ Len(Current(g).payload) = len
        BY <2>3, <4>3 DEF Sources, Whole
      <4>5. ~Fits(Current(g))  BY <1>4, <4>2, <4>4 DEF Fits
      <4>6. frame_no[g] <= Len(Plan(g))
        <5>1. tvalid[g]  BY <1>9, <2>2, <4>3, <4>4 DEF Offer
        <5> QED  BY <4>4, <5>1 DEF FifosInv
      <4>7. /\ frame_no[g] \in 1 .. Len(Plan(g)) /\ frame_no[g] = Len(Plan(g))
            /\ traffic.esc = <<>> /\ \A o \in Fifos \ {g} : Plan(o) = <<>>
        BY <4>4, <4>5, <4>6, CurrentIs
      <4>8. TooLong  BY <2>2, <3>2, <4>4, <4>5, <4>7 DEF TooLong
      <4>9. Over'
        <5>1. frame_no'[g] = frame_no[g] + 1
          BY <2>2, <2>6, <3>3, <4>4, FifosInvStep DEF Edge
        <5>2. frame_no'[g] > Len(Plan(g))  BY <1>7, <4>4, <4>7, <5>1
        <5>3. ASSUME NEW o \in Fifos \ {g} PROVE frame_no'[o] > Len(Plan(o))
          <6>1. Len(Plan(o)) = 0  BY <4>7, EmptySeq
          <6>2. frame_no'[o] \in Nat \ {0}  BY <1>2 DEF FifosInv
          <6> QED  BY <6>1, <6>2
        <5>4. \A o \in Fifos : frame_no'[o] > Len(Plan(o)')  BY <1>7, <5>2, <5>3
        <5> QED  BY <1>7, <4>7, <5>4 DEF Over
      <4>10. \A s \in Sources : Place(s)' = 1
        BY <1>2, <1>6, <2>2, <2>6, <3>3
      <4>11. CaptureInv'
        <5>1. ~capture_active' => \A s \in Sources : Place(s)' = 1  BY <4>10
        <5>2. /\ payload_count' \in 0 .. MAX_PAYLOAD_LEN /\ fr_state' \in FramerStates
              /\ drop_frame' \in BOOLEAN /\ capture_active' \in BOOLEAN /\ ~capture_active'
          BY <1>4, <2>0, <3>2, <4>1 DEF FramerStates
        <5> QED  BY <2>10, <3>2, <4>1, <4>9, <5>1, <5>2 DEF CaptureInv
      <4> QED  BY <2>6, <3>2, <3>3, <4>8, <4>11
    <3>4. CASE ~last
      <4>1. capture_active' = TRUE /\ payload_count' = max
        BY <2>1, <2>7, <2>12, <3>0, <3>1, <3>4
      <4>2. Place(g)' = p + 1 /\ Whole(g)' = Whole(g) /\ SourceMeta(g)' = SourceMeta(g)
        BY <1>2, <2>2, <2>4, <2>6, <3>4
      <4>3. sel' = g  BY <1>3, <1>6, <2>2, <3>4
      <4>4. (p + 1) - 1 = p /\ p + 1 > 1 /\ ~(p <= MAX_PAYLOAD_LEN) /\ max \in 0 .. MAX_PAYLOAD_LEN
        BY <1>4, <2>4, <3>1
      <4>5. Captures(g)'
        BY <1>4, <2>9, <3>2, <4>1, <4>2, <4>3, <4>4 DEF Captures
      <4>6. CaptureInv'
        BY <2>10, <3>2, <4>1, <4>4, <4>5 DEF CaptureInv, FramerStates
      <4> QED  BY <3>2, <3>4, <4>6
    <3> QED  BY <3>3, <3>4
  <2> QED  BY <2>11, <2>12
<1> QED  BY <1>8, <1>9

--------------------------------------------------------------------------------
(* The core invariant. *)

\* The producers, the framer and the wire.
CoreInv == FifosInv /\ EscTyped /\ PacketizerInv /\ CaptureInv /\ EmitInv

\* The ESC line never offers a byte it does not have.
LEMMA EscTypedStep == ASSUME EscTyped, EscLine, traffic' = traffic PROVE EscTyped'
<1>1. traffic.esc \in Seq(Byte)  BY TrafficIs DEF EscTyped
<1>2. Len(traffic.esc) \in Nat  BY <1>1
<1> QED  BY <1>2 DEF EscTyped, EscLine

\* A clock edge: the framer stores what it is given, sends what it has, or a frame ends.
Ends(u) == wire_tvalid /\ wire_tready(u) /\ fr_state = "CRC_L"
Stores == fr_state = "CAPTURE" /\ ~(Taken /\ Offer.last) /\ fr_state' = "CAPTURE"
Starts == fr_state = "CAPTURE" /\ Taken /\ Offer.last /\ (Complete \/ TooLong)
Sends(u) ==
  /\ fr_state # "CAPTURE" /\ ~Taken
  /\ frame_meta' = frame_meta
  /\ ~Ends(u) => fr_state' # "CAPTURE" /\ payload_count' = payload_count /\ Payload' = Payload
  /\ Ends(u) => fr_state' = "CAPTURE" /\ Append(wire_line, wire_tdata) = TheImage

\* A clock edge keeps the core invariant and is of one of three kinds.
LEMMA CoreStep ==
  ASSUME CoreInv, NEW u, NEW c, NEW l, Edge(u, c, l)
  PROVE  /\ CoreInv' /\ traffic' = traffic
         /\ Stores \/ Starts \/ Sends(u)
<1>1. /\ FramerClock(Offer.valid, Offer.data, Offer.last, Offer.meta, wire_tready(u))
      /\ EscLine /\ Observe(u) /\ traffic' = traffic
  BY DEF Edge
<1>2. FifosInv' /\ PacketizerInv'  BY SourceStep DEF CoreInv
<1>3. EscTyped'  BY <1>1, EscTypedStep DEF CoreInv
<1>4. CASE fr_state = "CAPTURE"
  <2>1. /\ CaptureInv'
        /\ Taken /\ Offer.last => Complete \/ TooLong
        /\ ~(Taken /\ Offer.last) => fr_state' = "CAPTURE"
    BY <1>4, CaptureStep DEF CoreInv
  <2>2. wire_line' = <<>>
    BY <1>1, <1>4 DEF Observe, wire_tvalid, CoreInv, EmitInv
  <2>3. fr_state' = "CAPTURE" \/ Complete  BY <2>1 DEF TooLong
  <2>4. EmitInv'
    <3>1. CASE fr_state' = "CAPTURE"  BY <2>1, <2>2, <3>1 DEF EmitInv, CaptureInv
    <3>2. CASE Complete
      <4>1. /\ fr_state' = "SYNC" /\ emit_index' = 0
            /\ payload_count' > 0 /\ payload_count' \in Nat
        BY <3>2 DEF Complete
      <4>2. Passed' = 0  BY <4>1 DEF Passed
      <4>3. /\ IsSeq(<<>>) /\ Len(<<>>) = 0
        <5>1. <<>> \in Seq({}) /\ Len(<<>>) = 0  OBVIOUS
        <5> QED  BY <5>1, TypedIsSeq
      <4>4. emit_index' \in 0 .. payload_count' - 1
        <5>1. PICK m \in Nat : payload_count' = m /\ m > 0  BY <4>1
        <5> QED  BY <4>1, <5>1
      <4>5. /\ IsSeq(wire_line') /\ Len(wire_line') = Passed'
            /\ \A n \in 1 .. Passed' : wire_line'[n] = TheImage'[n]
        BY <2>2, <4>2, <4>3
      <4>6. payload_count' \in 0 .. MAX_PAYLOAD_LEN /\ fr_state' \in FramerStates
        BY <2>1 DEF CaptureInv
      <4> QED  BY <4>1, <4>4, <4>5, <4>6 DEF EmitInv
    <3> QED  BY <2>3, <3>1, <3>2
  <2>5. CoreInv'  BY <1>2, <1>3, <2>1, <2>4 DEF CoreInv
  <2>6. Stores \/ Starts  BY <1>4, <2>1 DEF Stores, Starts
  <2> QED  BY <1>1, <2>5, <2>6
<1>5. CASE fr_state # "CAPTURE"
  <2> DEFINE r == wire_tready(u)
  <2>1. r \in BOOLEAN  BY DEF wire_tready
  <2>2. Emit(r) /\ ReadPort(r)  BY <1>1, <1>5 DEF FramerClock, Capture
  <2>3. wire_line' = IF r THEN IF fr_state = "CRC_L" THEN <<>>
                               ELSE Append(wire_line, wire_tdata)
                     ELSE wire_line
    BY <1>1, <1>5 DEF Observe, wire_tvalid
  <2>4. Ends(u) <=> r /\ fr_state = "CRC_L"  BY <1>5 DEF Ends, wire_tvalid
  <2> HIDE DEF r
  <2>5. /\ EmitInv'
        /\ frame_meta' = frame_meta
        /\ ~(r /\ fr_state = "CRC_L") =>
             fr_state' # "CAPTURE" /\ payload_count' = payload_count /\ Payload' = Payload
        /\ r /\ fr_state = "CRC_L" =>
             /\ fr_state' = "CAPTURE" /\ payload_count' = 0
             /\ Append(wire_line, wire_tdata) = TheImage
    BY <1>5, <2>1, <2>2, <2>3, EmitStep DEF CoreInv
  <2>6. ~Taken  BY <1>5 DEF Taken, fr_tready
  <2>7. CaptureInv'
    <3>1. /\ payload_mem' = payload_mem /\ capture_active' = capture_active
          /\ drop_frame' = drop_frame
      BY <2>2 DEF Emit
    <3>2. ~capture_active /\ ~drop_frame  BY <1>5 DEF CoreInv, CaptureInv
    <3>3. \A s \in Sources : Place(s) = 1  BY <3>2 DEF CoreInv, CaptureInv
    <3>4. \A s \in Sources : Place(s)' = Place(s)  BY <2>6, SourceStep DEF CoreInv
    <3>5. ~capture_active' => \A s \in Sources : Place(s)' = 1  BY <3>3, <3>4
    <3>6. /\ payload_count' \in 0 .. MAX_PAYLOAD_LEN /\ fr_state' \in FramerStates
          /\ fr_state' = "CAPTURE" => payload_count' = 0
      BY <2>5 DEF EmitInv
    <3>7. /\ payload_mem' \in [0 .. MAX_PAYLOAD_LEN - 1 -> Byte \cup {0}]
          /\ capture_active' \in BOOLEAN /\ drop_frame' \in BOOLEAN
          /\ ~capture_active' /\ ~drop_frame'
      BY <3>1, <3>2 DEF CoreInv, CaptureInv
    <3> QED  BY <3>5, <3>6, <3>7 DEF CaptureInv
  <2>8. CoreInv'  BY <1>2, <1>3, <2>5, <2>7 DEF CoreInv
  <2>9. Sends(u)  BY <1>5, <2>4, <2>5, <2>6 DEF Sends
  <2> QED  BY <1>1, <2>8, <2>9
<1> QED  BY <1>4, <1>5

\* The core invariant holds at reset.
LEMMA CoreInit == Init => CoreInv
<1> SUFFICES ASSUME Init PROVE CoreInv  OBVIOUS
<1>1. /\ MAX_PAYLOAD_LEN \in Nat \ {0} /\ MAX_LEN \in Nat \ {0}  BY TrafficAssumption
<1>2. traffic \in Traffic /\ (\A q \in Fifos : Len(Plan(q)) \in Nat)
      /\ Len(traffic.esc) \in Nat
  <2>1. traffic \in Traffic  BY DEF Init
  <2>2. \A q \in Fifos : Plan(q) \in Seq(Frames)  BY <2>1, TrafficIs
  <2>3. traffic.esc \in Seq(Byte)  BY <2>1, TrafficIs
  <2> QED  BY <2>1, <2>2, <2>3
<1>3. FifosInv
  <2>1. ASSUME NEW q \in Fifos, frame_no[q] <= Len(Plan(q))
        PROVE  pos[q] <= Len(Current(q).payload)
    <3>1. frame_no[q] = 1 /\ pos[q] = 1  BY DEF Init
    <3>2. 1 \in 1 .. Len(Plan(q))  BY <1>2, <2>1, <3>1
    <3>3. Len(Plan(q)[1].payload) \in Nat \ {0}  BY <1>2, <3>2, TrafficIs
    <3> QED  BY <3>1, <3>3 DEF Current
  <2> QED  BY <1>2, <2>1 DEF Init, FifosInv, Selections
<1>4. EscTyped
  <2>1. esc_no = 1 /\ esc_tvalid = FALSE  BY DEF Init
  <2>2. PICK m \in Nat : Len(traffic.esc) = m  BY <1>2
  <2>3. 1 <= m + 1 /\ 1 \in Nat \ {0}  BY <2>2
  <2> QED  BY <1>2, <2>1, <2>2, <2>3 DEF EscTyped
<1>5. Given = 0  BY DEF Init, PacketizerInit, Given
<1>6. PacketizerInv
  <2>1. /\ pk_state = "FILL" /\ pk_count = 0 /\ pk_tvalid = FALSE /\ sel = "none"
        /\ pk_mem = [i \in 0 .. MAX_LEN - 1 |-> 0]
    BY DEF Init, PacketizerInit
  <2>2. pk_mem \in [0 .. MAX_LEN - 1 -> Byte \cup {0}]  BY <2>1
  <2>3. pk_count \in 0 .. MAX_LEN /\ pk_count < MAX_LEN  BY <1>1, <2>1
  <2>4. ~pk_tvalid /\ ~(Given > 0) /\ sel # "esc"  BY <1>5, <2>1
  <2>6. pk_tvalid \in BOOLEAN  BY DEF Init, PacketizerInit
  <2>5. pk_state = "FILL" /\ pk_count = 0 /\ pk_state # "PUSH"  BY <2>1
  <2> QED  BY <2>2, <2>3, <2>4, <2>5, <2>6 DEF PacketizerInv
<1>7. CaptureInv
  <2>1. \A s \in Sources : Place(s) = 1  BY <1>5 DEF Init, Place, Sources
  <2>2. /\ fr_state = "CAPTURE" /\ payload_count = 0 /\ capture_active = FALSE
        /\ drop_frame = FALSE /\ payload_mem = [i \in 0 .. MAX_PAYLOAD_LEN - 1 |-> 0]
    BY DEF Init, FramerInit
  <2>3. payload_mem \in [0 .. MAX_PAYLOAD_LEN - 1 -> Byte \cup {0}]  BY <2>2
  <2>4. payload_count \in 0 .. MAX_PAYLOAD_LEN /\ fr_state \in FramerStates
    BY <1>1, <2>2 DEF FramerStates
  <2>5. ~capture_active /\ ~drop_frame  BY <2>2
  <2> QED  BY <2>1, <2>2, <2>3, <2>4, <2>5 DEF CaptureInv
<1>8. EmitInv  BY <1>1 DEF Init, FramerInit, EmitInv, FramerStates
<1> QED  BY <1>3, <1>4, <1>6, <1>7, <1>8 DEF CoreInv

--------------------------------------------------------------------------------
(* The log of the wire. *)

\* What was on the wire of a FIFO: its frames that fit, up to the one that the framer has.
Emitting(c) == fr_state # "CAPTURE" /\ frame_meta.channel = c
OnWire(q) ==
  LET f == Plan(q)[frame_no[q] - 1] IN
  frame_no[q] > 1 /\ frame_meta = Meta(q, f) /\ Payload = f.payload
Gone(q) == IF frame_no[q] - 1 <= Len(Fitting(q)) THEN frame_no[q] - 1 ELSE Len(Fitting(q))
FifoLog(q) ==
  /\ Len(sent[Channel(q)]) + One(Emitting(Channel(q))) = Gone(q)
  /\ \A n \in 1 .. Len(sent[Channel(q)]) :
       sent[Channel(q)][n].wire = Image(Meta(q, Plan(q)[n]), Plan(q)[n].payload)
FramesInv ==
  /\ SentTyped
  /\ fr_state # "CAPTURE" => frame_meta = EscMeta \/ \E q \in Fifos : OnWire(q)
  /\ \A q \in Fifos : FifoLog(q)
  /\ \A c \in Byte \ {1, 4, 5} : sent[c] = <<>>

\* The frames that fit are all but perhaps the last.
LEMMA FittingIs ==
  ASSUME traffic \in Traffic, NEW q \in Fifos
  PROVE  /\ Len(Plan(q)) \in Nat /\ Len(Fitting(q)) \in Nat /\ Len(Fitting(q)) <= Len(Plan(q))
         /\ \A n \in 1 .. Len(Plan(q)) : Fits(Plan(q)[n]) <=> n <= Len(Fitting(q))
         /\ \A n \in 1 .. Len(Fitting(q)) : Fitting(q)[n] = Plan(q)[n]
<1>1. Plan(q) \in Seq(Frames)  BY TrafficIs
<1>2. PICK m \in Nat : Len(Plan(q)) = m  BY <1>1
<1>3. \A n \in 1 .. m : ~Fits(Plan(q)[n]) => n = m  BY <1>2, TrafficIs
<1>4. CASE Plan(q) = <<>> \/ Fits(Last(Plan(q)))
  <2>1. Fitting(q) = Plan(q)  BY <1>4 DEF Fitting
  <2>2. Plan(q) = <<>> => m = 0  BY <1>2
  <2>3. m # 0 => Fits(Plan(q)[m])  BY <1>2, <1>4, <2>2 DEF Last
  <2>4. \A n \in 1 .. m : Fits(Plan(q)[n])  BY <1>3, <2>3
  <2> QED  BY <1>2, <2>1, <2>4
<1>5. CASE ~(Plan(q) = <<>> \/ Fits(Last(Plan(q))))
  <2>1. Fitting(q) = SubSeq(Plan(q), 1, m - 1)  BY <1>2, <1>5 DEF Fitting, Front
  <2>2. m > 0  BY <1>1, <1>2, <1>5, EmptySeq
  <2>3. ~Fits(Plan(q)[m])  BY <1>2, <1>5 DEF Last
  <2>4. \A i \in 1 .. m - 1 : Plan(q)[i] \in Frames  BY <1>1, <1>2
  <2>5. /\ Len(SubSeq(Plan(q), 1, m - 1)) = m - 1
        /\ \A i \in 1 .. m - 1 : SubSeq(Plan(q), 1, m - 1)[i] = Plan(q)[i]
    BY <2>2, <2>4, SubSeqProperties
  <2>6. ASSUME NEW n \in 1 .. m PROVE Fits(Plan(q)[n]) <=> n <= m - 1
    BY <1>3, <2>2, <2>3
  <2> QED  BY <1>2, <2>1, <2>2, <2>5, <2>6
<1> QED  BY <1>4, <1>5

\* The three channels differ and are bytes.
LEMMA Channels ==
  /\ \A q \in Fifos : Channel(q) \in Byte /\ Channel(q) \in {1, 4}
  /\ \A q \in Fifos : \A f : Meta(q, f).channel = Channel(q)
  /\ \A q \in Fifos, o \in Fifos : Channel(q) = Channel(o) => q = o
  /\ EscMeta.channel = 5 /\ 5 \in Byte
BY TrafficAssumption DEF Channel, Meta, CtrlMeta, DbgMeta, EscMeta, Fifos

\* The end of a frame: its bytes are logged under the channel that the fourth of them names.
LEMMA LogStep ==
  ASSUME CoreInv, NEW u, NEW c, NEW l, Edge(u, c, l), SentTyped
  PROVE  /\ SentTyped'
         /\ ~Ends(u) => sent' = sent
         /\ Ends(u) => \E rec :
              LET k == frame_meta.channel IN
              /\ rec.wire = TheImage
              /\ \A d \in Byte : d # k => sent'[d] = sent[d]
              /\ k \in Byte => /\ sent'[k] = Append(sent[k], rec)
                               /\ Len(sent'[k]) = Len(sent[k]) + 1
                               /\ \A n \in 1 .. Len(sent[k]) : sent'[k][n] = sent[k][n]
                               /\ sent'[k][Len(sent[k]) + 1] = rec
<1>1. CASE ~Ends(u)
  <2>1. sent' = sent  BY <1>1 DEF Edge, Observe, Ends
  <2> QED  BY <1>1, <2>1 DEF SentTyped
<1>2. CASE Ends(u)
  <2>1. Append(wire_line, wire_tdata) = TheImage
    <3>1. Sends(u)  BY <1>2, CoreStep DEF Stores, Starts, Ends, wire_tvalid
    <3> QED  BY <1>2, <3>1 DEF Sends
  <2> DEFINE takes(p) == IF p = "usb" THEN wire_tvalid /\ u ELSE spi_tx_valid /\ spi_tx_ready
             times(p) == IF takes(p) /\ copies[p] < 2 THEN copies[p] + 1 ELSE copies[p]
             odd  == uneven \cup {p \in Ports : times(p) # 1}
             rec  == [wire |-> TheImage, uneven |-> odd, tdest |-> frame_meta.tdest]
  <2>2. sent' = [sent EXCEPT ![TheImage[4]] = Append(@, rec)]
    BY <1>2, <2>1 DEF Edge, Observe, Ends
  <2>3. TheImage[4] = frame_meta.channel
    <3>1. PICK len \in Nat : payload_count = len  BY TrafficAssumption DEF CoreInv, EmitInv
    <3>2. IsSeq(Payload) /\ Len(Payload) = len  BY <3>1, PayloadIs DEF CoreInv, EmitInv
    <3>3. TheBody[3] = frame_meta.channel  BY <3>2, BodyIs DEF TheBody
    <3>4. 3 \in 1 .. 7 + len /\ 3 + 1 = 4  OBVIOUS
    <3>5. \A n \in 1 .. 7 + len : TheImage[n + 1] = TheBody[n]
      BY <3>2, ImageIs DEF TheImage, TheBody
    <3> QED  BY <3>3, <3>4, <3>5
  <2>4. rec.wire = TheImage  OBVIOUS
  <2> HIDE DEF rec
  <2> DEFINE k == frame_meta.channel
  <2>5. sent' = [sent EXCEPT ![k] = Append(@, rec)]  BY <2>2, <2>3
  <2> HIDE DEF k
  <2>6. /\ SentTyped'
        /\ \A d \in Byte : d # k => sent'[d] = sent[d]
        /\ k \in Byte => /\ sent'[k] = Append(sent[k], rec)
                         /\ Len(sent'[k]) = Len(sent[k]) + 1
                         /\ \A n \in 1 .. Len(sent[k]) : sent'[k][n] = sent[k][n]
                         /\ sent'[k][Len(sent[k]) + 1] = rec
    BY <2>5, SentStep
  <2> QED  BY <1>2, <2>4, <2>6 DEF k
<1> QED  BY <1>1, <1>2

\* What has gone from a FIFO is a number, and at most what fits.
LEMMA FifoNumbers ==
  ASSUME FifosInv, NEW q \in Fifos
  PROVE  frame_no[q] \in Nat \ {0} /\ Gone(q) \in Nat /\ Gone(q) <= Len(Fitting(q))
<1>1. frame_no[q] \in Nat \ {0} /\ Len(Fitting(q)) \in Nat  BY FittingIs DEF FifosInv
<1> QED  BY <1>1 DEF Gone

\* A clock edge adds a frame to the log only if it is the next of its FIFO.
LEMMA FramesStep ==
  ASSUME CoreInv, FramesInv, NEW u, NEW c, NEW l, Edge(u, c, l)
  PROVE  FramesInv'
<1>1. CoreInv' /\ traffic' = traffic /\ (Stores \/ Starts \/ Sends(u))  BY CoreStep
<1>2. /\ SentTyped'
      /\ ~Ends(u) => sent' = sent
      /\ Ends(u) => \E rec :
           LET k == frame_meta.channel IN
           /\ rec.wire = TheImage
           /\ \A d \in Byte : d # k => sent'[d] = sent[d]
           /\ k \in Byte => /\ sent'[k] = Append(sent[k], rec)
                            /\ Len(sent'[k]) = Len(sent[k]) + 1
                            /\ \A n \in 1 .. Len(sent[k]) : sent'[k][n] = sent[k][n]
                            /\ sent'[k][Len(sent[k]) + 1] = rec
  BY LogStep DEF FramesInv
<1>3. \A q \in Fifos :
        /\ ~(sel = q /\ Taken /\ Offer.last) => frame_no'[q] = frame_no[q]
        /\ sel = q /\ Taken /\ Offer.last => frame_no'[q] = frame_no[q] + 1
  BY FifosInvStep DEF Edge, CoreInv
<1>4. \A q \in Fifos : Plan(q)' = Plan(q) /\ Fitting(q)' = Fitting(q)
  BY <1>1 DEF Plan, Fitting
<1>5. EscMeta' = EscMeta  BY <1>1 DEF EscMeta
<1>6. traffic \in Traffic /\ FifosInv /\ FifosInv'  BY <1>1 DEF CoreInv, FifosInv
<1>7. \A q \in Fifos : frame_no'[q] = frame_no[q] => Gone(q)' = Gone(q)
  BY <1>4 DEF Gone
<1>8. CASE Stores
  <2>1. ~Ends(u) /\ sent' = sent /\ \A q \in Fifos : frame_no'[q] = frame_no[q]
    BY <1>2, <1>3, <1>8 DEF Stores, Ends, wire_tvalid
  <2>2. \A d : ~Emitting(d) /\ ~Emitting(d)'  BY <1>8 DEF Stores, Emitting
  <2>3. ASSUME NEW q \in Fifos PROVE FifoLog(q)'
    <3>1. FifoLog(q)  BY DEF FramesInv
    <3>2. One(Emitting(Channel(q)))' = One(Emitting(Channel(q)))  BY <2>2 DEF One
    <3> QED  BY <1>4, <1>7, <2>1, <3>1, <3>2 DEF FifoLog, Channel, Meta, CtrlMeta, DbgMeta
  <2> QED  BY <1>2, <1>8, <2>1, <2>3 DEF FramesInv, Stores
<1>9. CASE Starts /\ sel = "esc"
  <2>0. sel \notin Fifos  BY <1>9 DEF Fifos
  <2>1. ~Ends(u) /\ sent' = sent /\ \A q \in Fifos : frame_no'[q] = frame_no[q]
    BY <1>2, <1>3, <1>9, <2>0 DEF Starts, Ends, wire_tvalid
  <2>2. Complete /\ frame_meta' = EscMeta  BY <1>9, <2>0 DEF Starts, TooLong, Complete, SourceMeta
  <2>3. \A d \in {1, 4} : ~Emitting(d) /\ ~Emitting(d)'
    BY <1>9, <2>2, Channels DEF Starts, Emitting
  <2>4. ASSUME NEW q \in Fifos PROVE FifoLog(q)'
    <3>1. FifoLog(q)  BY DEF FramesInv
    <3>2. One(Emitting(Channel(q)))' = One(Emitting(Channel(q)))
      BY <2>3, Channels DEF One, Channel
    <3> QED  BY <1>4, <1>7, <2>1, <3>1, <3>2 DEF FifoLog, Channel, Meta, CtrlMeta, DbgMeta
  <2> QED  BY <1>2, <1>5, <2>1, <2>2, <2>4 DEF FramesInv
<1>10. CASE Starts /\ sel \in Fifos
  <2>0. PICK g \in Fifos : sel = g  BY <1>10
  <2>1. g # "esc"  BY DEF Fifos
  <2>2. /\ ~Ends(u) /\ sent' = sent
        /\ frame_no'[g] = frame_no[g] + 1
        /\ \A q \in Fifos \ {g} : frame_no'[q] = frame_no[q]
    BY <1>2, <1>3, <1>10, <2>0 DEF Starts, Ends, wire_tvalid
  <2>3. frame_no[g] \in 1 .. Len(Plan(g))
    <3>1. tvalid[g]
      BY <1>6, <1>10, <2>0, TakenFacts DEF Starts, FifosInv
    <3>2. frame_no[g] <= Len(Plan(g))  BY <1>6, <3>1 DEF FifosInv
    <3> QED  BY <1>6, <3>2, CurrentIs
  <2>4. PICK n \in Nat : frame_no[g] = n /\ n \in 1 .. Len(Plan(g))  BY <2>3
  <2>5. \A d : ~Emitting(d)  BY <1>10 DEF Starts, Emitting
  <2>6. CASE Complete
    <3>1. /\ frame_meta' = Meta(g, Plan(g)[n]) /\ Whole(g) = Plan(g)[n].payload
      BY <2>0, <2>1, <2>4, <2>6 DEF Complete, SourceMeta, Whole, Current
    <3>2. PICK len \in Nat : Len(Whole(g)) = len /\ len > 0 /\ len <= MAX_PAYLOAD_LEN
      BY <2>0, <2>6 DEF Complete
    <3>3. /\ fr_state' = "SYNC" /\ payload_count' = len
          /\ \A j \in 1 .. len : payload_mem'[j - 1] = Whole(g)[j]
      BY <2>0, <2>6, <3>2 DEF Complete
    <3>4. Payload' = Whole(g)
      <4>1. Payload' = [j \in 1 .. len |-> payload_mem'[j - 1]]  BY <3>3 DEF Payload
      <4>2. Payload' = [j \in 1 .. len |-> Whole(g)[j]]  BY <3>3, <4>1
      <4>3. Whole(g) \in Seq(Byte)  BY <1>6, <2>3, <3>1, <2>4, TrafficIs
      <4> QED  BY <3>2, <4>2, <4>3
    <3>5. OnWire(g)'
      <4>1. (n + 1) - 1 = n /\ n + 1 > 1 /\ frame_no'[g] = n + 1  BY <2>2, <2>4
      <4>2. Plan(g)'[frame_no'[g] - 1] = Plan(g)[n]  BY <1>4, <4>1
      <4>3. Payload' = Plan(g)[n].payload /\ frame_meta' = Meta(g, Plan(g)[n])
        BY <3>1, <3>4
      <4> QED  BY <4>1, <4>2, <4>3 DEF OnWire, Meta, CtrlMeta, DbgMeta
    <3>6. Fits(Plan(g)[n])  BY <3>1, <3>2 DEF Fits
    <3>7. n <= Len(Fitting(g))  BY <1>6, <2>4, <3>6, FittingIs
    <3>8. Gone(g) = n - 1 /\ Gone(g)' = n
      <4>1. Len(Fitting(g)) \in Nat  BY <1>6, FittingIs
      <4>2. frame_no'[g] - 1 = n /\ n - 1 <= Len(Fitting(g))  BY <2>2, <2>4, <3>7, <4>1
      <4> QED  BY <1>4, <2>4, <3>7, <4>2 DEF Gone
    <3>9. ASSUME NEW q \in Fifos PROVE FifoLog(q)'
      <4>1. FifoLog(q)  BY DEF FramesInv
      <4>2. /\ Emitting(Channel(g))'
            /\ q # g => ~Emitting(Channel(q))'
        BY <3>1, <3>3, Channels DEF Emitting, Channel
      <4>3. One(Emitting(Channel(q))) = 0 /\ One(Emitting(Channel(q)))' = IF q = g THEN 1 ELSE 0
        BY <2>5, <4>2 DEF One
      <4>4. Gone(q)' = Gone(q) + One(Emitting(Channel(q)))'
        <5>1. Gone(q) \in Nat  BY <1>6, FifoNumbers
        <5> QED  BY <1>7, <2>2, <3>8, <4>3, <2>4, <5>1
      <4>5. PICK k : Len(sent[Channel(q)]) = k /\ k \in Nat
        BY Channels DEF FramesInv, SentTyped, IsSeq
      <4>6. Len(sent[Channel(q)])' + One(Emitting(Channel(q)))' = Gone(q)'
        <5>1. k + 0 = Gone(q)  BY <4>1, <4>3, <4>5 DEF FifoLog
        <5>2. k = Gone(q)  BY <4>5, <5>1
        <5>3. Len(sent[Channel(q)])' = k  BY <2>2, <4>5 DEF Channel
        <5> QED  BY <4>4, <5>2, <5>3
      <4> QED  BY <1>4, <2>2, <4>1, <4>6 DEF FifoLog, Channel, Meta, CtrlMeta, DbgMeta
    <3> QED  BY <1>2, <2>2, <3>5, <3>9 DEF FramesInv
  <2>7. CASE TooLong
    <3>1. fr_state' = "CAPTURE" /\ ~Fits(Plan(g)[n])
      BY <2>0, <2>4, <2>7 DEF TooLong, Current
    <3>2. Len(Fitting(g)) \in Nat /\ ~(n <= Len(Fitting(g)))  BY <1>6, <2>4, <3>1, FittingIs
    <3>3. Gone(g)' = Gone(g)
      <4>1. frame_no'[g] - 1 = n  BY <2>2, <2>4
      <4>2. Gone(g)' = Len(Fitting(g))  BY <1>4, <3>2, <4>1 DEF Gone
      <4>3. Gone(g) = Len(Fitting(g))  BY <2>4, <3>2 DEF Gone
      <4> QED  BY <4>2, <4>3
    <3>4. \A d : ~Emitting(d)'  BY <3>1 DEF Emitting
    <3>5. ASSUME NEW q \in Fifos PROVE FifoLog(q)'
      <4>1. FifoLog(q)  BY DEF FramesInv
      <4>2. One(Emitting(Channel(q)))' = One(Emitting(Channel(q)))  BY <2>5, <3>4 DEF One
      <4>3. Gone(q)' = Gone(q)  BY <1>7, <2>2, <3>3
      <4> QED  BY <1>4, <2>2, <4>1, <4>2, <4>3 DEF FifoLog, Channel, Meta, CtrlMeta, DbgMeta
    <3> QED  BY <1>2, <2>2, <3>1, <3>5 DEF FramesInv
  <2> QED  BY <1>10, <2>6, <2>7 DEF Starts
<1>11. CASE Sends(u) /\ ~Ends(u)
  <2>1. /\ sent' = sent /\ \A q \in Fifos : frame_no'[q] = frame_no[q]
    BY <1>2, <1>3, <1>11 DEF Sends
  <2>2. /\ fr_state # "CAPTURE" /\ fr_state' # "CAPTURE" /\ frame_meta' = frame_meta
        /\ Payload' = Payload
    BY <1>11 DEF Sends
  <2>3. \A d : Emitting(d)' <=> Emitting(d)  BY <2>2 DEF Emitting
  <2>4. ASSUME NEW q \in Fifos PROVE FifoLog(q)'
    <3>1. FifoLog(q)  BY DEF FramesInv
    <3>2. One(Emitting(Channel(q)))' = One(Emitting(Channel(q)))  BY <2>3 DEF One, Channel
    <3> QED  BY <1>4, <1>7, <2>1, <3>1, <3>2 DEF FifoLog, Channel, Meta, CtrlMeta, DbgMeta
  <2>5. \A q \in Fifos : OnWire(q) => OnWire(q)'
    BY <1>4, <2>1, <2>2 DEF OnWire, Meta, CtrlMeta, DbgMeta
  <2>6. frame_meta' = EscMeta' \/ \E q \in Fifos : OnWire(q)'
    BY <1>5, <2>2, <2>5 DEF FramesInv
  <2> QED  BY <1>2, <2>1, <2>4, <2>6 DEF FramesInv
<1>12. CASE Sends(u) /\ Ends(u)
  <2>1. /\ \A q \in Fifos : frame_no'[q] = frame_no[q]
        /\ fr_state # "CAPTURE" /\ fr_state' = "CAPTURE"
    BY <1>3, <1>12 DEF Sends
  <2> DEFINE k == frame_meta.channel
  <2>2. PICK rec :
           /\ rec.wire = TheImage
           /\ \A d \in Byte : d # k => sent'[d] = sent[d]
           /\ k \in Byte => /\ Len(sent'[k]) = Len(sent[k]) + 1
                            /\ \A n \in 1 .. Len(sent[k]) : sent'[k][n] = sent[k][n]
                            /\ sent'[k][Len(sent[k]) + 1] = rec
    BY <1>2, <1>12
  <2>3. \A d : ~Emitting(d)' /\ (Emitting(d) <=> d = k)  BY <2>1 DEF Emitting
  <2>4. frame_meta = EscMeta \/ \E q \in Fifos : OnWire(q)  BY <2>1 DEF FramesInv
  <2>5. k \in {1, 4, 5}  BY <2>4, Channels DEF OnWire
  <2>6. ASSUME NEW q \in Fifos PROVE FifoLog(q)'
    <3>1. FifoLog(q)  BY DEF FramesInv
    <3>2. Channel(q) \in Byte  BY Channels
    <3>3. Channel(q)' = Channel(q)  BY DEF Channel
    <3>4. PICK len \in Nat : Len(sent[Channel(q)]) = len
      BY <3>2 DEF FramesInv, SentTyped, IsSeq
    <3>5. Gone(q)' = Gone(q) /\ Gone(q) \in Nat  BY <1>6, <1>7, <2>1, FifoNumbers
    <3>6. One(Emitting(Channel(q)))' = 0 /\ One(Emitting(Channel(q))) = One(Channel(q) = k)
      BY <2>3, <3>3 DEF One
    <3>7. CASE Channel(q) # k
      <4>1. sent'[Channel(q)] = sent[Channel(q)]  BY <2>2, <3>2, <3>7
      <4>2. One(Emitting(Channel(q))) = 0  BY <3>6, <3>7 DEF One
      <4> QED
        BY <1>4, <3>1, <3>3, <3>5, <3>6, <4>1, <4>2 DEF FifoLog, Meta, CtrlMeta, DbgMeta
    <3>8. CASE Channel(q) = k
      <4>1. One(Emitting(Channel(q))) = 1  BY <3>6, <3>8 DEF One
      <4>2. Gone(q) = len + 1  BY <3>1, <3>4, <4>1 DEF FifoLog
      <4>3. /\ Len(sent'[k]) = len + 1
            /\ \A n \in 1 .. len : sent'[k][n] = sent[k][n]
            /\ sent'[k][len + 1] = rec
        BY <2>2, <3>2, <3>4, <3>8
      <4>4. OnWire(q)
        <5>1. frame_meta # EscMeta  BY <3>8, Channels
        <5>2. PICK o \in Fifos : OnWire(o)  BY <2>4, <5>1
        <5>3. Channel(o) = k  BY <5>2, Channels DEF OnWire
        <5> QED  BY <3>8, <5>2, <5>3, Channels
      <4>5. PICK no \in Nat : frame_no[q] = no /\ no > 1  BY <1>6, <4>4, FifoNumbers DEF OnWire
      <4>6. TheImage = Image(Meta(q, Plan(q)[no - 1]), Plan(q)[no - 1].payload)
        BY <4>4, <4>5 DEF OnWire, TheImage
      <4>7. no - 1 = len + 1
        <5>1. no - 1 \in 1 .. Len(Plan(q))
          <6>1. no <= Len(Plan(q)) + 1  BY <1>6, <4>5 DEF FifosInv
          <6>2. Len(Plan(q)) \in Nat  BY <1>6, FittingIs
          <6> QED  BY <4>5, <6>1, <6>2
        <5>2. Fits(Plan(q)[no - 1])
          <6>1. Len(Plan(q)[no - 1].payload) = payload_count
            BY <4>4, <4>5, PayloadIs DEF OnWire, CoreInv, EmitInv
          <6>2. payload_count <= MAX_PAYLOAD_LEN
            BY TrafficAssumption DEF CoreInv, EmitInv
          <6> QED  BY <6>1, <6>2 DEF Fits
        <5>3. no - 1 <= Len(Fitting(q))  BY <1>6, <5>1, <5>2, FittingIs
        <5> QED  BY <4>2, <4>5, <5>3 DEF Gone
      <4>8. ASSUME NEW n \in 1 .. len + 1
            PROVE  sent'[k][n].wire = Image(Meta(q, Plan(q)[n]), Plan(q)[n].payload)
        <5>1. CASE n = len + 1  BY <2>2, <4>3, <4>6, <4>7, <5>1
        <5>2. CASE n # len + 1
          <6>1. n \in 1 .. len  BY <5>2
          <6> QED  BY <3>1, <3>4, <3>8, <4>3, <6>1 DEF FifoLog
        <5> QED  BY <5>1, <5>2
      <4> HIDE DEF k
      <4>9. Len(sent[Channel(q)])' + One(Emitting(Channel(q)))' = Gone(q)'
        BY <3>3, <3>5, <3>6, <3>8, <4>2, <4>3
      <4>10. \A n \in 1 .. Len(sent[Channel(q)])' :
               sent'[Channel(q)][n].wire = Image(Meta(q, Plan(q)[n]), Plan(q)[n].payload)
        BY <3>3, <3>8, <4>3, <4>8
      <4> QED  BY <1>4, <3>3, <4>9, <4>10 DEF FifoLog, Meta, CtrlMeta, DbgMeta
    <3> QED  BY <3>7, <3>8
  <2>7. \A d \in Byte \ {1, 4, 5} : sent'[d] = <<>>  BY <2>2, <2>5 DEF FramesInv
  <2> QED  BY <1>2, <2>1, <2>6, <2>7 DEF FramesInv
<1> QED
  <2>1. Starts => sel \in Fifos \/ sel = "esc"
    BY <1>6, NotTakenFromNone DEF Starts, FifosInv, Selections
  <2> QED  BY <1>1, <1>8, <1>9, <1>10, <1>11, <1>12, <2>1

--------------------------------------------------------------------------------
(* Frames stay intact. *)

\* The sequence of the first so many of another.
LEMMA PrefixIs ==
  ASSUME NEW s, NEW t, NEW n \in Nat, NEW m \in Nat, Len(s) = n, Len(t) = m, n <= m,
         \A i \in 1 .. n : s[i] = t[i]
  PROVE  IsPrefix(s, t)
<1> DEFINE S == {s[i] : i \in 1 .. n}
           T == {t[i] : i \in 1 .. m}
<1>1. (\A i \in 1 .. n : s[i] \in S) /\ (\A i \in 1 .. n : t[i] \in T)  OBVIOUS
<1> HIDE DEF S, T
<1> DEFINE a == SubSeq(s, 1, n)
           b == SubSeq(t, 1, n)
<1>2. /\ a \in Seq(S) /\ Len(a) = n /\ \A i \in 1 .. n : a[i] = s[i]
      /\ b \in Seq(T) /\ Len(b) = n /\ \A i \in 1 .. n : b[i] = t[i]
  <2>1. n - 1 + 1 = n /\ \A i \in Nat : 1 + i - 1 = i  OBVIOUS
  <2>2. a \in Seq(S) /\ Len(a) = n /\ \A i \in 1 .. n : a[i] = s[i]
    BY <1>1, <2>1, SubSeqProperties
  <2>3. b \in Seq(T) /\ Len(b) = n /\ \A i \in 1 .. n : b[i] = t[i]
    BY <1>1, <2>1, SubSeqProperties
  <2> QED  BY <2>2, <2>3
<1>3. a = b
  <2> HIDE DEF a, b
  <2> QED  BY <1>2, SeqEqual
<1> QED  BY <1>3 DEF IsPrefix

\* The frames of a channel, by their places.
LEMMA OnChannelIs ==
  ASSUME SentTyped, NEW c \in Byte
  PROVE  /\ Len(sent[c]) \in Nat /\ IsSeq(OnChannel(c)) /\ Len(OnChannel(c)) = Len(sent[c])
         /\ DOMAIN OnChannel(c) = 1 .. Len(sent[c])
         /\ \A n \in 1 .. Len(sent[c]) : OnChannel(c)[n] = sent[c][n].wire
<1>1. PICK len \in Nat : Len(sent[c]) = len /\ DOMAIN sent[c] = 1 .. len
  BY DEF SentTyped, IsSeq
<1>2. OnChannel(c) = [n \in 1 .. len |-> sent[c][n].wire]  BY <1>1 DEF OnChannel
<1>3. Len(OnChannel(c)) = len  BY <1>2
<1> QED  BY <1>1, <1>2, <1>3 DEF IsSeq

\* What the wire shows of a FIFO is what it had, as far as it fits.
LEMMA FramesIntactFromLog == CoreInv /\ FramesInv => FramesIntact
<1> SUFFICES ASSUME CoreInv, FramesInv PROVE FramesIntact  OBVIOUS
<1>1. SentTyped /\ FifosInv /\ traffic \in Traffic  BY DEF CoreInv, FifosInv, FramesInv
<1>2. ASSUME NEW q \in Fifos PROVE IsPrefix(OnChannel(Channel(q)), Images(q))
  <2> DEFINE s == OnChannel(Channel(q))
  <2>1. PICK n \in Nat : /\ Len(sent[Channel(q)]) = n /\ Len(s) = n
                         /\ \A i \in 1 .. n : s[i] = sent[Channel(q)][i].wire
    <3>1. Channel(q) \in Byte  BY Channels
    <3> QED  BY <1>1, <3>1, OnChannelIs
  <2>2. PICK m \in Nat : Len(Fitting(q)) = m /\ \A i \in 1 .. m : Fitting(q)[i] = Plan(q)[i]
    BY <1>1, FittingIs
  <2>3. /\ Len(Images(q)) = m
        /\ \A i \in 1 .. m : Images(q)[i] = Image(Meta(q, Plan(q)[i]), Plan(q)[i].payload)
    <3>1. DOMAIN Fitting(q) = 1 .. m
      <4>1. Plan(q) \in Seq(Frames)  BY <1>1, TrafficIs
      <4>2. Fitting(q) = Plan(q) \/ Fitting(q) = SubSeq(Plan(q), 1, Len(Plan(q)) - 1)
        BY DEF Fitting, Front
      <4>3. SubSeq(Plan(q), 1, Len(Plan(q)) - 1) \in Seq(Frames)
        <5>1. Len(Plan(q)) \in Nat /\ \A i \in 1 .. Len(Plan(q)) - 1 : Plan(q)[i] \in Frames
          BY <4>1
        <5> QED  BY <5>1, SubSeqProperties
      <4>4. Fitting(q) \in Seq(Frames)  BY <4>1, <4>2, <4>3
      <4> QED  BY <2>2, <4>4
    <3>2. Images(q) = [i \in 1 .. m |-> Image(Meta(q, Fitting(q)[i]), Fitting(q)[i].payload)]
      BY <3>1 DEF Images
    <3> QED  BY <2>2, <3>2
  <2>4. n <= m
    <3>1. n + One(Emitting(Channel(q))) = Gone(q)  BY <2>1 DEF FramesInv, FifoLog
    <3>2. One(Emitting(Channel(q))) \in {0, 1}  BY DEF One
    <3>3. Gone(q) \in Nat /\ Gone(q) <= m  BY <1>1, <2>2, FifoNumbers
    <3> QED  BY <3>1, <3>2, <3>3
  <2>5. \A i \in 1 .. n : s[i] = Images(q)[i]
    BY <2>1, <2>3, <2>4 DEF FramesInv, FifoLog
  <2> HIDE DEF s
  <2> QED  BY <2>1, <2>3, <2>4, <2>5, PrefixIs DEF s
<1> QED  BY <1>2 DEF FramesIntact, FramesInv

\* At reset nothing was on the wire.
LEMMA FramesInit == Init => FramesInv
<1> SUFFICES ASSUME Init PROVE FramesInv  OBVIOUS
<1>1. SentTyped /\ \A c \in Byte : sent[c] = <<>>
  <2>1. \A c \in Byte : sent[c] = <<>>  BY DEF Init
  <2>2. SentTyped  BY <2>1, EmptySeq DEF SentTyped, IsSeq, Init
  <2> QED  BY <2>1, <2>2
<1>2. fr_state = "CAPTURE"  BY DEF Init, FramerInit
<1>3. ASSUME NEW q \in Fifos PROVE FifoLog(q)
  <2>1. Len(sent[Channel(q)]) = 0  BY <1>1, Channels, EmptySeq
  <2>2. One(Emitting(Channel(q))) = 0  BY <1>2 DEF One, Emitting
  <2>3. Gone(q) = 0
    <3>1. frame_no[q] = 1 /\ traffic \in Traffic  BY DEF Init
    <3>2. Len(Fitting(q)) \in Nat  BY <3>1, FittingIs
    <3> QED  BY <3>1, <3>2 DEF Gone
  <2> QED  BY <2>1, <2>2, <2>3 DEF FifoLog
<1> QED  BY <1>1, <1>2, <1>3 DEF FramesInv

\* A step keeps the core invariant.
LEMMA CoreNext == CoreInv /\ [Next]_vars => CoreInv'
<1> SUFFICES ASSUME CoreInv, [Next]_vars PROVE CoreInv'  OBVIOUS
<1>1. CASE UNCHANGED vars
  <2>1. FifosInv'
    BY <1>1 DEF CoreInv, vars, fifoVars, FifosInv, Plan, Current
  <2>2. EscTyped'  BY <1>1 DEF CoreInv, vars, escVars, EscTyped
  <2>3. Given' = Given /\ Packet' = Packet
    BY <1>1 DEF vars, packetizerVars, Given, Packet
  <2>4. PacketizerInv'  BY <1>1, <2>3 DEF CoreInv, vars, packetizerVars, PacketizerInv
  <2>5. /\ \A s : Place(s)' = Place(s)
        /\ \A s : Whole(s)' = Whole(s)
        /\ \A s : SourceMeta(s)' = SourceMeta(s)
    BY <1>1, <2>3
    DEF vars, fifoVars, Place, Whole, SourceMeta, Current, Plan, Meta, CtrlMeta, DbgMeta, EscMeta
  <2>6. CaptureInv'
    <3>1. ASSUME NEW s, Captures(s) PROVE Captures(s)'
      BY <1>1, <2>5, <3>1 DEF vars, framerVars, Captures
    <3>2. (\E s \in Sources : Captures(s)) => \E s \in Sources : Captures(s)'  BY <3>1
    <3>3. Over => Over'  BY <1>1 DEF vars, fifoVars, Over, Plan
    <3>4. (\A s \in Sources : Place(s) = 1) => \A s \in Sources : Place(s)' = 1  BY <2>5
    <3> QED  BY <1>1, <3>2, <3>3, <3>4 DEF CoreInv, vars, framerVars, CaptureInv
  <2>7. EmitInv'
    <3>1. /\ Payload' = Payload /\ TheBody' = TheBody /\ TheImage' = TheImage
          /\ Passed' = Passed /\ CrcDone' = CrcDone
      BY <1>1 DEF vars, framerVars, Payload, TheBody, TheImage, Passed, CrcDone
    <3> QED  BY <1>1, <3>1 DEF CoreInv, vars, framerVars, logVars, EmitInv
  <2> QED  BY <2>1, <2>2, <2>4, <2>6, <2>7 DEF CoreInv
<1>2. CASE Next
  <2>1. PICK u \in traffic.usb, c \in traffic.cs, l \in BOOLEAN : Edge(u, c, l)  BY <1>2 DEF Next
  <2> QED  BY <2>1, CoreStep
<1> QED  BY <1>1, <1>2

\* A step keeps the log of frames.
LEMMA FramesNext == CoreInv /\ FramesInv /\ [Next]_vars => FramesInv'
<1> SUFFICES ASSUME CoreInv, FramesInv, [Next]_vars PROVE FramesInv'  OBVIOUS
<1>1. CASE UNCHANGED vars
  <2>1. /\ sent' = sent /\ fr_state' = fr_state /\ frame_meta' = frame_meta /\ traffic' = traffic
        /\ frame_no' = frame_no /\ Payload' = Payload
    BY <1>1 DEF vars, logVars, framerVars, fifoVars, Payload
  <2>2. ASSUME NEW q \in Fifos PROVE FifoLog(q)' /\ (OnWire(q) => OnWire(q)')
    <3>1. Plan(q)' = Plan(q) /\ Fitting(q)' = Fitting(q)  BY <2>1 DEF Plan, Fitting
    <3>2. Gone(q)' = Gone(q) /\ One(Emitting(Channel(q)))' = One(Emitting(Channel(q)))
      BY <2>1, <3>1 DEF Gone, Emitting, One, Channel
    <3>3. FifoLog(q)  BY DEF FramesInv
    <3>4. FifoLog(q)'
      BY <2>1, <3>1, <3>2, <3>3 DEF FifoLog, Channel, Meta, CtrlMeta, DbgMeta
    <3> QED  BY <2>1, <3>1, <3>4 DEF OnWire, Meta, CtrlMeta, DbgMeta
  <2>3. EscMeta' = EscMeta  BY <2>1 DEF EscMeta
  <2>4. SentTyped'  BY <2>1 DEF FramesInv, SentTyped
  <2>5. fr_state' # "CAPTURE" => frame_meta' = EscMeta' \/ \E q \in Fifos : OnWire(q)'
    BY <2>1, <2>2, <2>3 DEF FramesInv
  <2>6. \A q \in Fifos : FifoLog(q)'  BY <2>2
  <2> QED  BY <2>1, <2>4, <2>5, <2>6 DEF FramesInv
<1>2. CASE Next
  <2>1. PICK u \in traffic.usb, c \in traffic.cs, l \in BOOLEAN : Edge(u, c, l)  BY <1>2 DEF Next
  <2> QED  BY <2>1, FramesStep
<1> QED  BY <1>1, <1>2

\* Whoever competes for the framer and however long the ports make it wait, the wire shows
\* the frames of each FIFO in their order, with their own headers and the CRC of their bytes,
\* for every length and every CRC function.
THEOREM FramesStayIntact == Spec => []FramesIntact
<1>1. CoreInv /\ FramesInv => FramesIntact  BY FramesIntactFromLog
<1> QED  BY <1>1, CoreInit, CoreNext, FramesInit, FramesNext, PTL DEF Spec

--------------------------------------------------------------------------------
(* The bytes of the ESC line. *)

\* The bytes of the ESC line: those on the wire, those in the framer and those in the
\* packetizer follow each other without a gap.
Framed == IF Emitting(5) THEN Payload ELSE <<>>
Shows(s, at) == \A j \in 1 .. Len(s) : s[j] = traffic.esc[at + j]
Parts == [i \in DOMAIN Packets |-> PacketPayload(Packets[i])]
PacketRight(w) ==
  Len(PacketPayload(w)) \in 1 .. MAX_LEN /\ w = Image(EscMeta, PacketPayload(w))
EscInv ==
  /\ IsSeq(PacketBytes) /\ Len(Framed) <= MAX_LEN
  /\ Shows(PacketBytes, 0)
  /\ Shows(Framed, Len(PacketBytes))
  /\ Shows(Packet, Len(PacketBytes) + Len(Framed))
  /\ esc_no = Len(PacketBytes) + Len(Framed) + Len(Packet) + 1
  /\ \A i \in 1 .. Len(sent[5]) : PacketRight(sent[5][i].wire)

\* The payloads of the ESC packets, by their places.
LEMMA PartsAre ==
  ASSUME SentTyped
  PROVE  /\ 5 \in Byte /\ IsSeq(sent[5]) /\ PacketBytes = FlattenSeq(Parts)
         /\ IsSeq(Parts) /\ Len(Parts) = Len(sent[5])
         /\ Parts = [i \in 1 .. Len(sent[5]) |-> PacketPayload(sent[5][i].wire)]
<1>1. 5 \in Byte /\ IsSeq(sent[5])  BY Channels DEF SentTyped
<1>2. PICK n \in Nat : Len(sent[5]) = n /\ DOMAIN Packets = 1 .. n
                       /\ \A i \in 1 .. n : Packets[i] = sent[5][i].wire
  BY <1>1, OnChannelIs DEF Packets
<1>3. Parts = [i \in 1 .. n |-> PacketPayload(sent[5][i].wire)]  BY <1>2 DEF Parts
<1>4. Len(Parts) = n /\ Parts = [i \in 1 .. n |-> Parts[i]]  BY <1>3
<1>5. PacketBytes = FlattenSeq(Parts)  BY DEF PacketBytes, Parts
<1> QED  BY <1>1, <1>2, <1>3, <1>4, <1>5 DEF IsSeq

\* What one more sequence adds to the join, by places.
LEMMA FlattenLonger ==
  ASSUME NEW ps, IsSeq(ps), NEW p, IsSeq(p), IsSeq(FlattenSeq(ps))
  PROVE  LET f == FlattenSeq(ps)
             g == FlattenSeq(Append(ps, p)) IN
         /\ IsSeq(g) /\ Len(g) = Len(f) + Len(p)
         /\ \A i \in 1 .. Len(f) : g[i] = f[i]
         /\ \A i \in 1 .. Len(p) : g[Len(f) + i] = p[i]
<1> DEFINE f == FlattenSeq(ps)
           g == FlattenSeq(Append(ps, p))
<1>1. g = IF Len(ps) = 0 THEN p ELSE f \o p  BY FlattenAppend
<1>2. CASE Len(ps) = 0
  <2>1. f = ps  BY <1>2 DEF FlattenSeq
  <2>2. Len(f) = 0 /\ g = p  BY <1>1, <1>2, <2>1
  <2>3. PICK m \in Nat : Len(p) = m  BY DEF IsSeq
  <2> HIDE DEF f, g
  <2>4. \A i \in 1 .. m : 0 + i = i  OBVIOUS
  <2> QED  BY <2>2, <2>3, <2>4 DEF f, g
<1>3. CASE Len(ps) # 0
  <2>1. g = f \o p  BY <1>1, <1>3
  <2>2. /\ IsSeq(f \o p) /\ Len(f \o p) = Len(f) + Len(p)
        /\ \A i \in 1 .. Len(f) : (f \o p)[i] = f[i]
        /\ \A i \in 1 .. Len(p) : (f \o p)[Len(f) + i] = p[i]
    <3>1. IsSeq(f) /\ IsSeq(p)  OBVIOUS
    <3> HIDE DEF f
    <3> QED  BY ONLY <3>1, ConcatAny
  <2> HIDE DEF f, g
  <2> QED  BY <2>1, <2>2 DEF f, g
<1> QED  BY <1>2, <1>3

\* The payload of a frame on the wire is what was framed.
LEMMA PayloadOfImage ==
  ASSUME NEW m, NEW p, NEW len \in Nat, IsSeq(p), Len(p) = len
  PROVE  PacketPayload(Image(m, p)) = p
<1> DEFINE b == Body(m, p)
           w == Image(m, p)
           x == PacketPayload(w)
<1>1. \A j \in 1 .. len : b[7 + j] = p[j]  BY BodyIs
<1>2. Len(w) = 10 + len /\ \A n \in 1 .. 7 + len : w[n + 1] = b[n]  BY ImageIs
<1> HIDE DEF b, w
<1>3. ASSUME NEW j \in 1 .. len PROVE w[8 + j] = p[j]
  <2>1. 7 + j \in 1 .. 7 + len /\ (7 + j) + 1 = 8 + j  OBVIOUS
  <2> QED  BY <1>1, <1>2, <2>1
<1>4. x = SubSeq(w, 9, 8 + len)  BY <1>2 DEF PacketPayload
<1>5. ASSUME NEW i \in 9 .. 8 + len PROVE w[i] \in {p[j] : j \in 1 .. len}
  <2>1. i - 8 \in 1 .. len /\ 8 + (i - 8) = i  OBVIOUS
  <2> QED  BY <1>3, <2>1
<1>6. /\ x \in Seq({p[j] : j \in 1 .. len})
      /\ Len(x) = IF 9 <= 8 + len THEN 8 + len - 9 + 1 ELSE 0
      /\ \A i \in 1 .. 8 + len - 9 + 1 : x[i] = w[9 + i - 1]
  <2> HIDE DEF x
  <2>1. 9 \in Int /\ 8 + len \in Int  OBVIOUS
  <2> QED  BY <1>4, <1>5, <2>1, SubSeqProperties
<1> HIDE DEF x
<1>7. Len(x) = len  BY <1>6
<1>8. ASSUME NEW i \in 1 .. len PROVE x[i] = p[i]
  <2>1. i \in 1 .. 8 + len - 9 + 1 /\ 9 + i - 1 = 8 + i  OBVIOUS
  <2> QED  BY <1>3, <1>6, <2>1
<1>9. x = [i \in 1 .. len |-> x[i]]  BY <1>6, <1>7
<1>10. p = [i \in 1 .. len |-> p[i]]  BY DEF IsSeq
<1> QED  BY <1>8, <1>9, <1>10 DEF x, w

\* Unless its packet is given away, the packetizer keeps what it has and may take a byte.
LEMMA PacketGrows ==
  ASSUME CoreInv, NEW u, NEW c, NEW l, Edge(u, c, l), ~(sel = "esc" /\ Taken /\ Offer.last)
  PROVE  \/ esc_no' = esc_no /\ Packet' = Packet
         \/ /\ esc_no' = esc_no + 1 /\ Len(Packet') = Len(Packet) + 1
            /\ \A j \in 1 .. Len(Packet) : Packet'[j] = Packet[j]
            /\ Packet'[Len(Packet) + 1] = traffic.esc[esc_no]
<1>1. /\ PacketizerClock(esc_tvalid, EscByte, sel = "esc" /\ fr_tready)
      /\ Arbiter /\ EscLine /\ traffic' = traffic /\ sel \in Selections
      /\ PacketizerInv /\ EscTyped /\ CoreInv'
  BY CoreStep DEF Edge, CoreInv, FifosInv
<1> DEFINE byte == esc_tvalid /\ pk_tready
<1>2. /\ byte => /\ pk_count' = pk_count + 1
                 /\ pk_mem' = [pk_mem EXCEPT ![pk_count] = traffic.esc[esc_no]]
      /\ ~byte => pk_mem' = pk_mem /\ pk_count' = pk_count
  <2>1. /\ byte => /\ pk_count' = pk_count + 1
                   /\ pk_mem' = [pk_mem EXCEPT ![pk_count] = traffic.esc[esc_no]]
        /\ ~byte => pk_mem' = pk_mem
        /\ ~byte /\ ~(sel = "esc" /\ Taken) => pk_count' = pk_count
        /\ sel = "esc" /\ Taken /\ ~Offer.last => pk_count' = pk_count
    BY <1>1, PacketizerStep
  <2> HIDE DEF byte
  <2> QED  BY <2>1
<1>3. esc_no' = IF byte THEN esc_no + 1 ELSE esc_no  BY <1>1 DEF EscLine
<1> HIDE DEF byte
<1>4. CASE ~byte  BY <1>2, <1>3, <1>4 DEF Packet
<1>5. CASE byte
  <2>1. PICK k \in Nat : /\ pk_count = k /\ Len(Packet) = k
                         /\ \A j \in 1 .. k : Packet[j] = pk_mem[j - 1]
    BY <1>1, PacketIs
  <2>2. k + 1 <= MAX_LEN
    BY <1>1, <1>2, <1>5, <2>1, TrafficAssumption DEF CoreInv, PacketizerInv
  <2>3. Packet' = [j \in 1 .. k + 1 |-> pk_mem'[j - 1]]  BY <1>2, <1>5, <2>1 DEF Packet
  <2>4. Len(Packet') = k + 1 /\ \A j \in 1 .. k + 1 : Packet'[j] = pk_mem'[j - 1]  BY <2>3
  <2>5. PICK max \in Nat : MAX_LEN = max /\ k < max  BY <2>2, TrafficAssumption
  <2>6. pk_mem = [i \in 0 .. max - 1 |-> pk_mem[i]]  BY <1>1, <2>5 DEF PacketizerInv
  <2>7. pk_mem' = [pk_mem EXCEPT ![k] = traffic.esc[esc_no]]  BY <1>2, <1>5, <2>1
  <2>8. ASSUME NEW j \in 1 .. k PROVE Packet'[j] = Packet[j]
    <3>1. j - 1 \in 0 .. max - 1 /\ j - 1 # k /\ j \in 1 .. k + 1  BY <2>5
    <3>2. pk_mem'[j - 1] = pk_mem[j - 1]  BY <2>6, <2>7, <3>1
    <3> QED  BY <2>1, <2>4, <3>1, <3>2
  <2>9. Packet'[k + 1] = traffic.esc[esc_no]
    <3>1. k \in 0 .. max - 1 /\ k + 1 \in 1 .. k + 1 /\ (k + 1) - 1 = k  BY <2>5
    <3>2. pk_mem'[k] = traffic.esc[esc_no]  BY <2>6, <2>7, <3>1
    <3> QED  BY <2>4, <3>1, <3>2
  <2> QED  BY <1>3, <1>5, <2>1, <2>4, <2>8, <2>9
<1> QED  BY <1>4, <1>5

--------------------------------------------------------------------------------
\* The three stretches of ESC bytes have lengths.
LEMMA EscLengths ==
  ASSUME CoreInv, EscInv
  PROVE  /\ Len(PacketBytes) \in Nat /\ Len(Framed) \in Nat /\ Len(Packet) \in Nat
         /\ IsSeq(Payload) /\ Len(Payload) \in Nat
         /\ Emitting(5) => Framed = Payload
         /\ ~Emitting(5) => Len(Framed) = 0
<1>1. Len(Packet) \in Nat  BY PacketIs DEF CoreInv
<1>2. IsSeq(Payload) /\ Len(Payload) \in Nat  BY PayloadIs DEF CoreInv, EmitInv, IsSeq
<1>3. Len(<<>>) = 0  OBVIOUS
<1> QED  BY <1>1, <1>2, <1>3 DEF EscInv, IsSeq, Framed

\* The packetizer goes on while what has left it stays where it is.
LEMMA EscGoesOn ==
  ASSUME CoreInv, EscInv, NEW u, NEW c, NEW l, Edge(u, c, l),
         ~(sel = "esc" /\ Taken /\ Offer.last),
         Len(PacketBytes') \in Nat, Len(Framed') \in Nat,
         Len(PacketBytes') + Len(Framed') = Len(PacketBytes) + Len(Framed)
  PROVE  /\ Shows(Packet, Len(PacketBytes) + Len(Framed))'
         /\ esc_no' = Len(PacketBytes') + Len(Framed') + Len(Packet') + 1
<1>1. traffic' = traffic  BY DEF Edge
<1>2. PICK d \in Nat : d = Len(PacketBytes) + Len(Framed)  BY EscLengths
<1>3. PICK k \in Nat : k = Len(Packet)  BY EscLengths
<1>4. esc_no = d + k + 1 /\ \A j \in 1 .. k : Packet[j] = traffic.esc[d + j]
  BY <1>2, <1>3 DEF EscInv, Shows
<1>5. Len(PacketBytes)' + Len(Framed)' = d  BY <1>2
<1>6. CASE esc_no' = esc_no /\ Packet' = Packet
  <2>1. \A j \in 1 .. Len(Packet') : Packet'[j] = traffic'.esc[d + j]
    BY <1>1, <1>3, <1>4, <1>6
  <2> QED  BY <1>3, <1>4, <1>5, <1>6, <2>1 DEF Shows
<1>7. CASE /\ esc_no' = esc_no + 1 /\ Len(Packet') = k + 1
           /\ \A j \in 1 .. k : Packet'[j] = Packet[j]
           /\ Packet'[k + 1] = traffic.esc[esc_no]
  <2>1. esc_no = d + (k + 1)  BY <1>4
  <2>2. ASSUME NEW j \in 1 .. k + 1 PROVE Packet'[j] = traffic'.esc[d + j]
    <3>1. CASE j = k + 1  BY <1>1, <1>7, <2>1, <3>1
    <3>2. CASE j # k + 1
      <4>1. j \in 1 .. k  BY <3>2
      <4> QED  BY <1>1, <1>4, <1>7, <4>1
    <3> QED  BY <3>1, <3>2
  <2>3. \A j \in 1 .. Len(Packet') : Packet'[j] = traffic'.esc[d + j]  BY <1>7, <2>2
  <2>4. Shows(Packet, Len(PacketBytes) + Len(Framed))'  BY <1>5, <2>3 DEF Shows
  <2>5. esc_no' = d + (k + 1) + 1  BY <1>4, <1>7
  <2> QED  BY <1>5, <1>7, <2>4, <2>5
<1> QED  BY <1>3, <1>6, <1>7, PacketGrows

\* A clock edge hands ESC bytes on from stretch to stretch.
LEMMA EscStep ==
  ASSUME CoreInv, FramesInv, EscInv, NEW u, NEW c, NEW l, Edge(u, c, l)
  PROVE  EscInv'
<1>1. /\ CoreInv' /\ traffic' = traffic /\ (Stores \/ Starts \/ Sends(u))
      /\ EscMeta' = EscMeta
  BY CoreStep DEF EscMeta
<1>2. /\ SentTyped /\ SentTyped'
      /\ ~Ends(u) => sent' = sent
      /\ Ends(u) => \E rec :
           LET k == frame_meta.channel IN
           /\ rec.wire = TheImage
           /\ \A d \in Byte : d # k => sent'[d] = sent[d]
           /\ k \in Byte => /\ sent'[k] = Append(sent[k], rec)
                            /\ Len(sent'[k]) = Len(sent[k]) + 1
                            /\ \A n \in 1 .. Len(sent[k]) : sent'[k][n] = sent[k][n]
                            /\ sent'[k][Len(sent[k]) + 1] = rec
  BY LogStep DEF FramesInv
<1>3. PICK a \in Nat, f \in Nat, k \in Nat :
        Len(PacketBytes) = a /\ Len(Framed) = f /\ Len(Packet) = k
  BY EscLengths
<1>4. /\ IsSeq(PacketBytes) /\ f <= MAX_LEN
      /\ \A j \in 1 .. a : PacketBytes[j] = traffic.esc[0 + j]
      /\ \A j \in 1 .. f : Framed[j] = traffic.esc[a + j]
      /\ \A j \in 1 .. k : Packet[j] = traffic.esc[a + f + j]
      /\ esc_no = a + f + k + 1
  BY <1>3 DEF EscInv, Shows
<1>5. sent'[5] = sent[5] =>
        /\ PacketBytes' = PacketBytes
        /\ \A i \in 1 .. Len(sent'[5]) : PacketRight(sent[5][i].wire)'
  <2> SUFFICES ASSUME sent'[5] = sent[5]
               PROVE  /\ PacketBytes' = PacketBytes
                      /\ \A i \in 1 .. Len(sent'[5]) : PacketRight(sent[5][i].wire)'
    OBVIOUS
  <2>1. PacketBytes' = PacketBytes  BY DEF PacketBytes, Packets, OnChannel
  <2>2. \A i \in 1 .. Len(sent[5]) : PacketRight(sent[5][i].wire)  BY DEF EscInv
  <2> QED  BY <1>1, <2>1, <2>2 DEF PacketRight, PacketPayload
<1>6. CASE Starts /\ sel = "esc"
  <2>0. sel \notin Fifos  BY <1>6 DEF Fifos
  <2>1. ~Ends(u) /\ sent' = sent /\ Taken /\ Offer.last /\ fr_state = "CAPTURE"
    BY <1>2, <1>6 DEF Starts, Ends, wire_tvalid
  <2>2. /\ fr_state' = "SYNC" /\ frame_meta' = EscMeta /\ payload_count' = k
        /\ \A j \in 1 .. k : payload_mem'[j - 1] = Packet[j]
    BY <1>3, <1>6, <2>0 DEF Starts, TooLong, Complete, SourceMeta, Whole
  <2>3. f = 0
    <3>1. ~Emitting(5)  BY <2>1 DEF Emitting
    <3> QED  BY <1>3, <3>1, EscLengths
  <2>4. Framed' = Payload'  BY <2>2, Channels DEF Framed, Emitting
  <2>5. Payload' = [j \in 1 .. k |-> Packet[j]]  BY <2>2 DEF Payload
  <2>6. Len(Framed') = k /\ \A j \in 1 .. k : Framed'[j] = Packet[j]  BY <2>4, <2>5
  <2>7. pk_count' = 0 /\ esc_no' = esc_no
    <3>1. /\ PacketizerClock(esc_tvalid, EscByte, sel = "esc" /\ fr_tready)
          /\ Arbiter /\ EscLine /\ sel \in Selections /\ PacketizerInv /\ EscTyped
      BY DEF Edge, CoreInv, FifosInv
    <3>2. ~(esc_tvalid /\ pk_tready) /\ pk_count' = 0
      BY <1>1, <1>6, <2>1, <3>1, PacketizerStep
    <3> QED  BY <3>1, <3>2 DEF EscLine
  <2>8. Len(Packet') = 0
    <3>1. Packet' = [j \in 1 .. 0 |-> pk_mem'[j - 1]]  BY <2>7 DEF Packet
    <3> QED  BY <3>1
  <2>9. PacketBytes' = PacketBytes  BY <1>5, <2>1
  <2>10. Shows(PacketBytes, 0)'  BY <1>1, <1>3, <1>4, <2>9 DEF Shows
  <2>11. Shows(Framed, Len(PacketBytes))'
    <3>1. \A j \in 1 .. k : Framed'[j] = traffic.esc[a + j]
      <4>1. \A j \in 1 .. k : a + f + j = a + j  BY <2>3
      <4> QED  BY <1>4, <2>6, <4>1
    <3> QED  BY <1>1, <1>3, <2>6, <2>9, <3>1 DEF Shows
  <2>12. Shows(Packet, Len(PacketBytes) + Len(Framed))'  BY <2>8 DEF Shows
  <2>13. Len(Framed') <= MAX_LEN
    <3>1. pk_count = k  BY <1>3, PacketIs DEF CoreInv
    <3> QED  BY <2>6, <3>1, TrafficAssumption DEF CoreInv, PacketizerInv
  <2>14. esc_no' = Len(PacketBytes') + Len(Framed') + Len(Packet') + 1
    BY <1>3, <1>4, <2>3, <2>6, <2>7, <2>8, <2>9
  <2> QED
    BY <1>4, <1>5, <2>1, <2>9, <2>10, <2>11, <2>12, <2>13, <2>14 DEF EscInv
<1>7. CASE sent'[5] = sent[5] /\ Framed' = Framed /\ ~(sel = "esc" /\ Taken /\ Offer.last)
  <2>1. PacketBytes' = PacketBytes  BY <1>5, <1>7
  <2>2. /\ Shows(Packet, Len(PacketBytes) + Len(Framed))'
        /\ esc_no' = Len(PacketBytes') + Len(Framed') + Len(Packet') + 1
    BY <1>3, <1>7, <2>1, EscGoesOn
  <2>3. Shows(PacketBytes, 0)' /\ Shows(Framed, Len(PacketBytes))'
    BY <1>1, <1>7, <2>1 DEF EscInv, Shows
  <2> QED  BY <1>3, <1>4, <1>5, <1>7, <2>1, <2>2, <2>3 DEF EscInv
<1>8. CASE Sends(u) /\ Ends(u) /\ frame_meta.channel = 5
  <2>1. /\ fr_state # "CAPTURE" /\ fr_state' = "CAPTURE" /\ ~Taken  BY <1>8 DEF Sends
  <2>2. PICK rec :
           /\ rec.wire = TheImage
           /\ 5 \in Byte => /\ sent'[5] = Append(sent[5], rec)
                            /\ Len(sent'[5]) = Len(sent[5]) + 1
                            /\ \A n \in 1 .. Len(sent[5]) : sent'[5][n] = sent[5][n]
                            /\ sent'[5][Len(sent[5]) + 1] = rec
    BY <1>2, <1>8
  <2>3. frame_meta = EscMeta
    <3>1. \A q \in Fifos : frame_meta # Meta(q, Plan(q)[frame_no[q] - 1])
      BY <1>8, Channels
    <3> QED  BY <2>1, <3>1 DEF FramesInv, OnWire
  <2>4. Framed = Payload /\ IsSeq(Payload) /\ Len(Payload) = f /\ ~Emitting(5)'
    BY <1>3, <1>8, <2>1, EscLengths DEF Emitting
  <2>5. PacketPayload(TheImage) = Payload  BY <2>4, PayloadOfImage DEF TheImage
  <2>6. PICK n \in Nat :
          /\ Len(sent[5]) = n /\ Len(sent'[5]) = n + 1
          /\ sent'[5][n + 1].wire = TheImage
          /\ \A i \in 1 .. n : sent'[5][i] = sent[5][i]
          /\ IsSeq(Parts) /\ Len(Parts) = n
          /\ \A i \in 1 .. n : Parts[i] = PacketPayload(sent[5][i].wire)
          /\ PacketBytes = FlattenSeq(Parts)
    <3>1. PICK n \in Nat : Len(sent[5]) = n  BY <1>2, PartsAre DEF IsSeq
    <3>2. /\ 5 \in Byte /\ PacketBytes = FlattenSeq(Parts)
          /\ IsSeq(Parts) /\ Len(Parts) = n
          /\ Parts = [i \in 1 .. n |-> PacketPayload(sent[5][i].wire)]
      BY <1>2, <3>1, PartsAre
    <3>3. \A i \in 1 .. n : Parts[i] = PacketPayload(sent[5][i].wire)  BY <3>2
    <3> QED  BY <2>2, <3>1, <3>2, <3>3
  <2>7. PacketBytes' = FlattenSeq(Parts')
        /\ Parts' = [i \in 1 .. n + 1 |-> PacketPayload(sent'[5][i].wire)]
    <3>1. SentTyped'  BY <1>2
    <3>2. /\ PacketBytes' = FlattenSeq(Parts')
          /\ DOMAIN Packets' = 1 .. n + 1
          /\ \A i \in 1 .. n + 1 : Packets'[i] = sent'[5][i].wire
      <4>1. PICK m \in Nat : Len(sent'[5]) = m /\ m = n + 1  BY <2>6
      <4>2. DOMAIN sent'[5] = 1 .. m  BY <3>1, <4>1, Channels DEF SentTyped, IsSeq
      <4>3. Packets' = [i \in 1 .. m |-> sent'[5][i].wire]
        BY <4>2 DEF Packets, OnChannel
      <4> QED  BY <4>1, <4>3 DEF PacketBytes, Parts
    <3>3. Parts' = [i \in DOMAIN Packets' |-> PacketPayload(Packets'[i])]
      BY DEF Parts, PacketPayload
    <3> QED  BY <3>2, <3>3
  <2>8. Parts' = Append(Parts, Payload)
    <3> DEFINE ps == Append(Parts, Payload)
    <3>1. /\ IsSeq(ps) /\ Len(ps) = n + 1 /\ ps[n + 1] = Payload
          /\ \A i \in 1 .. n : ps[i] = Parts[i]
      BY <2>6, AppendAny
    <3>2. ps = [i \in 1 .. n + 1 |-> ps[i]]  BY <3>1 DEF IsSeq
    <3> HIDE DEF ps
    <3>3. ASSUME NEW i \in 1 .. n + 1 PROVE ps[i] = PacketPayload(sent'[5][i].wire)
      <4>1. CASE i = n + 1  BY <2>5, <2>6, <3>1, <4>1
      <4>2. CASE i # n + 1
        <5>1. i \in 1 .. n  BY <4>2
        <5> QED  BY <2>6, <3>1, <5>1
      <4> QED  BY <4>1, <4>2
    <3>4. Parts' = ps  BY <2>7, <3>2, <3>3
    <3> QED  BY <3>4 DEF ps
  <2>9. /\ IsSeq(PacketBytes') /\ Len(PacketBytes') = a + f
        /\ \A i \in 1 .. a : PacketBytes'[i] = PacketBytes[i]
        /\ \A i \in 1 .. f : PacketBytes'[a + i] = Payload[i]
    <3>1. IsSeq(FlattenSeq(Parts))  BY <1>4, <2>6
    <3>2. /\ IsSeq(FlattenSeq(Append(Parts, Payload)))
          /\ Len(FlattenSeq(Append(Parts, Payload))) = Len(FlattenSeq(Parts)) + Len(Payload)
          /\ \A i \in 1 .. Len(FlattenSeq(Parts)) :
               FlattenSeq(Append(Parts, Payload))[i] = FlattenSeq(Parts)[i]
          /\ \A i \in 1 .. Len(Payload) :
               FlattenSeq(Append(Parts, Payload))[Len(FlattenSeq(Parts)) + i] = Payload[i]
      <4>1. IsSeq(Parts) /\ IsSeq(Payload)  BY <2>4, <2>6
      <4> QED  BY ONLY <3>1, <4>1, FlattenLonger
    <3> QED  BY <1>3, <2>4, <2>6, <2>7, <2>8, <3>2
  <2>10. Len(Framed') = 0
    <3>1. Framed' = <<>>  BY <2>4 DEF Framed
    <3> QED  BY <3>1
  <2>11. /\ Shows(Packet, Len(PacketBytes) + Len(Framed))'
         /\ esc_no' = Len(PacketBytes') + Len(Framed') + Len(Packet') + 1
    <3>1. a + f \in Nat /\ (a + f) + 0 = a + f  OBVIOUS
    <3>2. Len(PacketBytes') + Len(Framed') = Len(PacketBytes) + Len(Framed)
      BY <1>3, <2>9, <2>10, <3>1
    <3> QED  BY <2>1, <2>9, <2>10, <3>1, <3>2, EscGoesOn
  <2>12. Shows(PacketBytes, 0)'
    <3>1. ASSUME NEW j \in 1 .. a + f PROVE PacketBytes'[j] = traffic'.esc[0 + j]
      <4>1. CASE j \in 1 .. a  BY <1>1, <1>4, <2>9, <4>1
      <4>2. CASE j \notin 1 .. a
        <5>1. PICK i \in 1 .. f : j = a + i
          <6>1. j - a \in 1 .. f /\ j = a + (j - a)  BY <4>2
          <6> QED  BY <6>1
        <5>2. 0 + j = a + i  BY <5>1
        <5> QED  BY <1>1, <1>4, <2>4, <2>9, <5>1, <5>2
      <4> QED  BY <4>1, <4>2
    <3> QED  BY <2>9, <3>1 DEF Shows
  <2>13. Shows(Framed, Len(PacketBytes))' /\ Len(Framed') <= MAX_LEN
    BY <2>10, TrafficAssumption DEF Shows
  <2>14. ASSUME NEW i \in 1 .. n + 1 PROVE PacketRight(sent[5][i].wire)'
    <3>1. CASE i = n + 1
      <4>1. Len(Payload) \in 1 .. MAX_LEN
        <5>1. payload_count > 0 /\ payload_count \in 0 .. MAX_PAYLOAD_LEN
          BY <2>1 DEF CoreInv, EmitInv
        <5>2. Len(Payload) = payload_count  BY <5>1, PayloadIs
        <5> QED  BY <1>4, <2>4, <5>1, <5>2, TrafficAssumption
      <4>2. TheImage = Image(EscMeta, Payload)  BY <2>3 DEF TheImage
      <4>3. PacketRight(TheImage)  BY <2>5, <4>1, <4>2 DEF PacketRight
      <4> QED  BY <1>1, <2>6, <3>1, <4>3 DEF PacketRight, PacketPayload
    <3>2. CASE i # n + 1
      <4>1. i \in 1 .. n  BY <3>2
      <4>2. PacketRight(sent[5][i].wire)  BY <2>6, <4>1 DEF EscInv
      <4>3. sent'[5][i] = sent[5][i]  BY <2>6, <4>1
      <4> QED  BY <1>1, <4>2, <4>3 DEF PacketRight, PacketPayload
    <3> QED  BY <3>1, <3>2
  <2> QED  BY <2>6, <2>9, <2>11, <2>12, <2>13, <2>14 DEF EscInv
<1> QED
  <2>1. CASE Stores
    <3>1. sent' = sent /\ ~Emitting(5) /\ ~Emitting(5)' /\ ~(Taken /\ Offer.last)
      BY <1>2, <2>1 DEF Stores, Emitting, Ends, wire_tvalid
    <3> QED  BY <1>7, <3>1 DEF Framed
  <2>2. CASE Starts /\ sel # "esc"
    <3>1. sent' = sent /\ ~Emitting(5) /\ sel \in Fifos
      <4>1. Starts => sel \in Fifos \/ sel = "esc"
        BY NotTakenFromNone DEF CoreInv, Starts, FifosInv, Selections
      <4> QED  BY <1>2, <2>2, <4>1 DEF Starts, Emitting, Ends, wire_tvalid
    <3>2. ~Emitting(5)'
      <4>1. CASE TooLong  BY <4>1 DEF TooLong, Emitting
      <4>2. CASE Complete
        <5>1. frame_meta' = Meta(sel, Current(sel))  BY <2>2, <4>2 DEF Complete, SourceMeta
        <5>2. frame_meta'.channel \in {1, 4}  BY <3>1, <5>1, Channels
        <5> QED  BY <5>2 DEF Emitting
      <4> QED  BY <2>2, <4>1, <4>2 DEF Starts
    <3> QED  BY <1>7, <2>2, <3>1, <3>2 DEF Framed
  <2>3. CASE Sends(u) /\ ~Ends(u)
    <3>1. sent' = sent /\ ~Taken /\ Payload' = Payload /\ (Emitting(5)' <=> Emitting(5))
      BY <1>2, <2>3 DEF Sends, Emitting
    <3> QED  BY <1>7, <3>1 DEF Framed
  <2>4. CASE Sends(u) /\ Ends(u) /\ frame_meta.channel # 5
    <3>1. sent'[5] = sent[5]  BY <1>2, <2>4, Channels
    <3>2. ~Taken /\ ~Emitting(5) /\ ~Emitting(5)'  BY <2>4 DEF Sends, Emitting
    <3> QED  BY <1>7, <3>1, <3>2 DEF Framed
  <2> QED  BY <1>1, <1>6, <1>8, <2>1, <2>2, <2>3, <2>4

--------------------------------------------------------------------------------
\* At reset the three stretches are empty.
LEMMA EscInit == Init => EscInv
<1> SUFFICES ASSUME Init PROVE EscInv  OBVIOUS
<1>1. /\ sent = [c \in Byte |-> <<>>] /\ fr_state = "CAPTURE" /\ pk_count = 0 /\ esc_no = 1
  BY DEF Init, FramerInit, PacketizerInit
<1>2. CoreInv /\ FramesInv /\ SentTyped  BY CoreInit, FramesInit DEF FramesInv
<1>3. Len(sent[5]) = 0  BY <1>1, Channels
<1>4. IsSeq(Parts) /\ Len(Parts) = 0 /\ PacketBytes = Parts
  BY <1>2, <1>3, PartsAre DEF FlattenSeq
<1>5. Framed = <<>> /\ Len(Framed) = 0
  <2>1. Framed = <<>>  BY <1>1 DEF Framed, Emitting
  <2> QED  BY <2>1
<1>6. Len(Packet) = 0  BY <1>1, <1>2, PacketIs DEF CoreInv
<1> QED  BY <1>1, <1>3, <1>4, <1>5, <1>6, TrafficAssumption DEF EscInv, Shows

\* A step keeps the three stretches in line.
LEMMA EscNext == CoreInv /\ FramesInv /\ EscInv /\ [Next]_vars => EscInv'
<1> SUFFICES ASSUME CoreInv, FramesInv, EscInv, [Next]_vars PROVE EscInv'  OBVIOUS
<1>1. CASE UNCHANGED vars
  <2>1. /\ sent' = sent /\ traffic' = traffic /\ esc_no' = esc_no /\ fr_state' = fr_state
        /\ frame_meta' = frame_meta /\ Payload' = Payload /\ Packet' = Packet
    BY <1>1 DEF vars, logVars, escVars, framerVars, packetizerVars, Payload, Packet
  <2>2. PacketBytes' = PacketBytes /\ Framed' = Framed /\ EscMeta' = EscMeta
    BY <2>1 DEF PacketBytes, Packets, OnChannel, Framed, Emitting, EscMeta
  <2>3. \A i \in 1 .. Len(sent'[5]) : PacketRight(sent[5][i].wire)'
    BY <2>1, <2>2 DEF EscInv, PacketRight, PacketPayload
  <2> QED  BY <2>1, <2>2, <2>3 DEF EscInv, Shows
<1>2. CASE Next
  <2>1. PICK u \in traffic.usb, c \in traffic.cs, l \in BOOLEAN : Edge(u, c, l)  BY <1>2 DEF Next
  <2> QED  BY <2>1, EscStep
<1> QED  BY <1>1, <1>2

\* What is on the wire is a prefix of what the ESC sent.
LEMMA EscIntactFromInv == CoreInv /\ FramesInv /\ EscInv => EscBytesIntact
<1> SUFFICES ASSUME CoreInv, FramesInv, EscInv PROVE EscBytesIntact  OBVIOUS
<1>1. ASSUME NEW i \in DOMAIN Packets PROVE PacketRight(Packets[i])
  <2>1. i \in 1 .. Len(sent[5]) /\ Packets[i] = sent[5][i].wire
    BY Channels, OnChannelIs DEF FramesInv, Packets
  <2> QED  BY <2>1 DEF EscInv
<1>2. IsPrefix(PacketBytes, traffic.esc)
  <2>1. PICK a \in Nat, f \in Nat, k \in Nat :
          Len(PacketBytes) = a /\ Len(Framed) = f /\ Len(Packet) = k
    BY EscLengths
  <2>2. PICK m \in Nat : Len(traffic.esc) = m  BY TrafficIs DEF CoreInv, EscTyped
  <2>3. a <= m
    <3>1. esc_no = a + f + k + 1 /\ esc_no <= m + 1
      BY <2>1, <2>2 DEF EscInv, CoreInv, EscTyped
    <3> QED  BY <3>1
  <2>4. \A i \in 1 .. a : PacketBytes[i] = traffic.esc[i]
    <3>1. \A i \in 1 .. a : PacketBytes[i] = traffic.esc[0 + i]  BY <2>1 DEF EscInv, Shows
    <3> QED  BY <3>1
  <2> QED  BY <2>1, <2>2, <2>3, <2>4, PrefixIs
<1> QED  BY <1>1, <1>2 DEF EscBytesIntact, PacketRight

\* No byte of the ESC line is lost, doubled or moved on its way through packetizer, arbiter
\* and framer, for every length of a packet and wherever silence cuts the packets.
THEOREM EscBytesStayIntact == Spec => []EscBytesIntact
<1> QED
  BY CoreInit, CoreNext, FramesInit, FramesNext, EscInit, EscNext, EscIntactFromInv, PTL DEF Spec

================================================================================

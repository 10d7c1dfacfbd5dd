---------------------------- MODULE FcspIngressProofs ----------------------------
(***************************************************************************)
(* Proofs about FcspIngress, for every set of bytes and frames, every      *)
(* limit and every script of the host: the registers of the parser and of  *)
(* the CRC gate stay in range; a sink only ever gets frames a host made,   *)
(* in the order the host sent them and each at most once.                  *)
(***************************************************************************)
EXTENDS FcspIngress, SequenceTheorems, TLAPS

\* The parser: its registers are in range, it is inside a payload only while bytes of
\* the payload are missing; and its flags.
ParserRegs ==
  /\ parser_state \in ParserStates /\ hdr_idx \in 0 .. 7
  /\ header \in [0 .. 4 -> Byte] /\ len_high \in Byte
  /\ payload_len \in Nat /\ payload_cnt \in 0 .. MAX_PAYLOAD_LEN
  /\ parser_state = "PAYLOAD" =>
       payload_cnt < payload_len /\ payload_len <= MAX_PAYLOAD_LEN
  /\ crc_idx \in {0, 1} /\ recv_crc \in Byte \X Byte
  /\ timeout_cnt \in 0 .. TIMEOUT_CYCLES
  /\ frame_out_data \in Byte
ParserFlags ==
  /\ frame_out_valid \in BOOLEAN /\ sync_seen \in BOOLEAN /\ frame_done \in BOOLEAN
ParserInv == ParserRegs /\ ParserFlags

\* The gate: its registers are in range and the CRC block is fed no byte past the
\* length; its flags; and it streams only a payload whose CRC it has found right.
GateRegs ==
  /\ gate_state \in GateStates
  /\ payload_mem \in [0 .. MAX_PAYLOAD_LEN - 1 -> Byte]
  /\ capture_count \in 0 .. MAX_PAYLOAD_LEN
  /\ meta_header \in [0 .. 4 -> Byte] /\ meta_len \in Nat
  /\ frame_recv_crc_reg \in Byte \X Byte
  /\ crc_feed_idx \in 0 .. 7 /\ crc_payload_idx \in Nat
  /\ gate_state = "FEED_CRC" =>
       IF crc_feed_idx = 7 THEN crc_payload_idx < meta_len ELSE crc_payload_idx = 0
  /\ stream_idx \in 0 .. MAX_PAYLOAD_LEN - 1
GateFlags ==
  /\ meta_latched \in BOOLEAN /\ crc_ok \in BOOLEAN /\ crc_drop \in BOOLEAN
GateVerdict ==
  gate_state = "STREAM" => CrcIsRight /\ stream_idx < meta_len
GateInv == GateRegs /\ GateFlags /\ GateVerdict

\* What a sink has of the current frame is what the gate has streamed of it, byte for
\* byte; nothing at all when no sink has the channel.
LaneInv ==
  /\ lane_bytes \in Seq(Byte)
  /\ gate_state # "STREAM" \/ ~HasSink => lane_bytes = <<>>
  /\ gate_state = "STREAM" /\ HasSink =>
       /\ Len(lane_bytes) = stream_idx
       /\ \A i \in 1 .. stream_idx : lane_bytes[i] = Buffered[i]

HostInv ==
  script \in Scripts /\ item \in 1 .. Len(Items) + 1 /\ pos \in Nat \ {0}

Images == {Image(f) : f \in Frames}
DeliveredInv == delivered \in Seq(Images)

IInv == ParserInv /\ GateInv /\ LaneInv /\ HostInv /\ DeliveredInv

\* An address within the payload memory.
LEMMA Wraps ==
  ASSUME NEW n \in Nat
  PROVE  n % MAX_PAYLOAD_LEN \in 0 .. MAX_PAYLOAD_LEN - 1
BY LimitsAssumption

\* The parser keeps its invariant on every edge, whatever is on its inputs
\* (fcsp_parser.sv).
LEMMA ParserStep ==
  ASSUME ParserInv, NEW clr \in BOOLEAN, NEW v \in BOOLEAN, NEW b \in Byte,
         NEW r \in BOOLEAN, ParserClock(clr, v, b, r)
  PROVE  ParserInv'
<1> USE ByteAssumption, LimitsAssumption
<1>1. CASE clr /\ Clear
  <2>1. ParserRegs'
    BY <1>1 DEF Clear, ParserInv, ParserRegs, ParserStates
  <2>2. ParserFlags'
    BY <1>1 DEF Clear, ParserInv, ParserFlags
  <2> QED
    BY <2>1, <2>2 DEF ParserInv
<1>2. CASE ~v /\ Silence(r)
  <2>1. ParserRegs'
    BY <1>2 DEF Silence, parser_idle, ParserInv, ParserRegs, ParserStates
  <2>2. ParserFlags'
    BY <1>2 DEF Silence, parser_idle, ParserInv, ParserFlags
  <2> QED
    BY <2>1, <2>2 DEF ParserInv
<1>3. CASE timeout_cnt' = 0 /\ SearchSync(b, r)
  <2>1. ParserRegs'
    BY <1>3 DEF SearchSync, Handover, ParserInv, ParserRegs, ParserStates
  <2>2. ParserFlags'
    BY <1>3 DEF SearchSync, Handover, ParserInv, ParserFlags
  <2> QED
    BY <2>1, <2>2 DEF ParserInv
<1>4. CASE timeout_cnt' = 0 /\ ReadHeader(b, r)
  <2>1. ParserRegs'
    BY <1>4 DEF ReadHeader, LengthKnown, Handover, ParserInv, ParserRegs, ParserStates
  <2>2. ParserFlags'
    BY <1>4 DEF ReadHeader, LengthKnown, Handover, ParserInv, ParserFlags
  <2> QED
    BY <2>1, <2>2 DEF ParserInv
<1>5. CASE timeout_cnt' = 0 /\ ReadPayload(b, r)
  <2>1. ParserRegs'
    BY <1>5 DEF ReadPayload, in_ready, ParserInv, ParserRegs, ParserStates
  <2>2. ParserFlags'
    BY <1>5 DEF ReadPayload, in_ready, ParserInv, ParserFlags
  <2> QED
    BY <2>1, <2>2 DEF ParserInv
<1>6. CASE timeout_cnt' = 0 /\ ReadCrc(b, r)
  <2>1. ParserRegs'
    BY <1>6 DEF ReadCrc, Handover, ParserInv, ParserRegs, ParserStates
  <2>2. ParserFlags'
    BY <1>6 DEF ReadCrc, Handover, ParserInv, ParserFlags
  <2> QED
    BY <2>1, <2>2 DEF ParserInv
<1> QED
  BY <1>1, <1>2, <1>3, <1>4, <1>5, <1>6 DEF ParserClock, Receive

\* A payload with a right CRC is one a host made, so it is within the limit.
LEMMA RightIsShort ==
  ASSUME GateRegs, CrcIsRight
  PROVE  meta_len <= MAX_PAYLOAD_LEN
<1>1. PICK f \in Frames : f.payload = Buffered
  BY DEF CrcIsRight
<1>2. Buffered \in [1 .. meta_len -> Byte] /\ meta_len \in Nat
  <2>1. \A i \in 1 .. meta_len :
          (i - 1) % MAX_PAYLOAD_LEN \in 0 .. MAX_PAYLOAD_LEN - 1
    <3> TAKE i \in 1 .. meta_len
    <3>1. i - 1 \in Nat
      BY DEF GateRegs
    <3> QED
      BY <3>1, Wraps
  <2> QED
    BY <2>1 DEF Buffered, GateRegs
<1>3. Len(Buffered) = meta_len
  BY <1>2, LenProperties
<1> QED
  BY <1>1, <1>3, FramesAssumption

\* The gate keeps its invariant on every edge, whatever the parser and the router
\* show it (fcsp_crc_gate.sv).
LEMMA GateStep ==
  ASSUME GateInv, NEW v \in BOOLEAN, NEW d \in Byte, NEW h \in [0 .. 4 -> Byte],
         NEW n \in Nat, NEW c \in Byte \X Byte, NEW done \in BOOLEAN,
         NEW r \in BOOLEAN, GateClock(v, d, h, n, c, done, r)
  PROVE  GateInv'
<1> USE LimitsAssumption
<1>1. CASE Capture(v, d, h, n, c, done)
  <2>1. GateRegs'
    BY <1>1 DEF Capture, GateInv, GateRegs, GateStates
  <2>2. GateFlags'
    BY <1>1 DEF Capture, GateInv, GateFlags
  <2>3. GateVerdict'
    BY <1>1 DEF Capture, GateVerdict
  <2> QED
    BY <2>1, <2>2, <2>3 DEF GateInv
<1>2. CASE FeedCrc
  <2>1. GateRegs'
    BY <1>2 DEF FeedCrc, GateInv, GateRegs, GateStates
  <2>2. GateFlags'
    BY <1>2 DEF FeedCrc, GateInv, GateFlags
  <2>3. GateVerdict'
    BY <1>2 DEF FeedCrc, GateVerdict
  <2> QED
    BY <2>1, <2>2, <2>3 DEF GateInv
<1>3. CASE WaitCrc
  <2>1. GateRegs'
    BY <1>3 DEF WaitCrc, Release, GateInv, GateRegs, GateStates
  <2>2. GateFlags'
    BY <1>3 DEF WaitCrc, Release, GateInv, GateFlags, CrcIsRight
  <2>3. GateVerdict'
    <3>1. CrcIsRight' <=> CrcIsRight
      BY <1>3 DEF WaitCrc, CrcIsRight, Buffered
    <3>2. gate_state' = "STREAM" => CrcIsRight /\ meta_len' # 0 /\ stream_idx' = 0
      BY <1>3 DEF WaitCrc, Release
    <3>3. meta_len' \in Nat
      BY <2>1 DEF GateRegs
    <3> QED
      BY <3>1, <3>2, <3>3 DEF GateVerdict
  <2> QED
    BY <2>1, <2>2, <2>3 DEF GateInv
<1>4. CASE Stream(r)
  <2>1. CrcIsRight /\ stream_idx < meta_len /\ meta_len <= MAX_PAYLOAD_LEN
    BY <1>4, RightIsShort DEF Stream, GateInv, GateVerdict
  <2>2. GateRegs'
    BY <1>4, <2>1 DEF Stream, Release, gate_tlast, GateInv, GateRegs, GateStates
  <2>3. GateFlags'
    BY <1>4 DEF Stream, Release, GateInv, GateFlags
  <2>4. CrcIsRight'
    BY <1>4, <2>1 DEF Stream, CrcIsRight, Buffered
  <2>5. gate_state' = "STREAM" => stream_idx' < meta_len'
    BY <1>4, <2>1 DEF Stream, Release, gate_tlast, GateInv, GateRegs
  <2> QED
    BY <2>2, <2>3, <2>4, <2>5 DEF GateInv, GateVerdict
<1> QED
  BY <1>1, <1>2, <1>3, <1>4 DEF GateClock

--------------------------------------------------------------------------------
\* The byte the gate shows is the next one of the buffered payload.
LEMMA ShownByte ==
  ASSUME GateRegs, gate_tvalid
  PROVE  /\ gate_tdata \in Byte
         /\ stream_idx + 1 \in 1 .. meta_len
         /\ gate_tdata = Buffered[stream_idx + 1]
<1>1. /\ stream_idx \in Nat /\ stream_idx + 1 \in 1 .. meta_len
      /\ stream_idx + 1 - 1 = stream_idx
  BY LimitsAssumption DEF GateRegs, gate_tvalid
<1>2. stream_idx % MAX_PAYLOAD_LEN \in 0 .. MAX_PAYLOAD_LEN - 1
  BY <1>1, Wraps
<1> QED
  BY <1>1, <1>2 DEF GateRegs, gate_tdata, Buffered

\* The frame a CRC can be right for.
IsCrcOf(f, crc) == f \in Frames /\ f.payload # <<>> /\ f.crc = crc

\* With the last byte of a payload, a sink has all of the frame the CRC is of.
LEMMA LastByte ==
  ASSUME GateInv, LaneInv, NEW r \in BOOLEAN, Sink(r), gate_state = "STREAM",
         gate_tvalid, RouterReady(r), HasSink, gate_tlast
  PROVE  \E f : /\ IsCrcOf(f, frame_recv_crc_reg) /\ f.header = meta_header
                /\ delivered' = Append(delivered, Image(f))
<1> DEFINE bytes == Append(lane_bytes, gate_tdata)
<1>1. CrcIsRight /\ GateRegs
  BY DEF GateInv, GateVerdict
<1>2. /\ gate_tdata \in Byte /\ gate_tdata = Buffered[stream_idx + 1]
      /\ stream_idx \in Nat /\ lane_bytes \in Seq(Byte)
      /\ Len(lane_bytes) = stream_idx
      /\ \A i \in 1 .. stream_idx : lane_bytes[i] = Buffered[i]
  BY <1>1, ShownByte, LimitsAssumption DEF LaneInv, GateRegs
<1>3. /\ bytes \in Seq(Byte) /\ Len(bytes) = stream_idx + 1
      /\ \A i \in 1 .. stream_idx + 1 : bytes[i] = Buffered[i]
  BY <1>2, AppendProperties
<1>4. delivered' = Append(delivered, [header |-> meta_header, payload |-> bytes])
  BY DEF Sink
<1> HIDE DEF bytes
<1>5. bytes = Buffered /\ bytes # <<>>
  <2>1. meta_len = stream_idx + 1
    BY DEF gate_tlast
  <2>2. Len(bytes) = meta_len /\ \A i \in 1 .. meta_len : bytes[i] = Buffered[i]
    BY <1>3, <2>1
  <2>3. bytes = [i \in 1 .. meta_len |-> bytes[i]]
    BY <1>3, <2>2
  <2>4. bytes # <<>>
    BY <1>2, <1>3, EmptySeq
  <2> QED
    BY <2>2, <2>3, <2>4 DEF Buffered
<1>6. PICK f \in Frames : /\ f.header = meta_header /\ f.payload = Buffered
                          /\ f.crc = frame_recv_crc_reg
  BY <1>1 DEF CrcIsRight
<1> QED
  BY <1>4, <1>5, <1>6 DEF IsCrcOf, Image

\* The sink follows the gate: it appends exactly the bytes the gate streams, and a
\* frame is delivered only with the last byte of a payload whose CRC is right
\* (fcsp_crc_gate.sv, fcsp_router.sv).
LEMMA SinkStep ==
  ASSUME GateInv, LaneInv, DeliveredInv, NEW r \in BOOLEAN, Sink(r), script' = script,
         NEW v, NEW d, NEW h, NEW n, NEW c, NEW done,
         GateClock(v, d, h, n, c, done, RouterReady(r)), GateInv'
  PROVE  LaneInv' /\ DeliveredInv'
<1> DEFINE bytes == Append(lane_bytes, gate_tdata)
           taken == gate_tvalid /\ RouterReady(r) /\ HasSink
<1>1. CASE gate_state # "STREAM"
  <2>1. UNCHANGED sinkVars /\ lane_bytes = <<>>
    BY <1>1 DEF Sink, gate_tvalid, sinkVars, LaneInv
  <2>2. gate_state' = "STREAM" => stream_idx' = 0
    BY <1>1 DEF GateClock, Capture, FeedCrc, WaitCrc, Stream, Release
  <2> QED
    BY <2>1, <2>2, EmptySeq DEF sinkVars, LaneInv, DeliveredInv
<1>2. CASE gate_state = "STREAM"
  <2>1. Stream(RouterReady(r))
    BY <1>2 DEF GateClock, Capture, FeedCrc, WaitCrc
  <2>2. HasSink' = HasSink /\ Buffered' = Buffered
    BY <2>1 DEF Stream, HasSink, Known, spi_ingress_drop, Channel, Buffered
  <2>3. CrcIsRight /\ GateRegs
    BY <1>2 DEF GateInv, GateVerdict
  <2>4. CASE ~(gate_tvalid /\ RouterReady(r))
    <3>1. UNCHANGED <<sinkVars, gate_state, stream_idx>>
      BY <2>1, <2>4 DEF Stream, Sink, sinkVars
    <3> QED
      BY <3>1, <2>2 DEF sinkVars, LaneInv, DeliveredInv
  <2>5. CASE gate_tvalid /\ RouterReady(r) /\ ~HasSink
    <3>1. UNCHANGED sinkVars /\ lane_bytes = <<>>
      BY <2>5 DEF Sink, sinkVars, LaneInv
    <3> QED
      BY <3>1, <2>2, <2>5 DEF sinkVars, LaneInv, DeliveredInv
  <2>6. CASE gate_tvalid /\ RouterReady(r) /\ HasSink
    <3>1. /\ gate_tdata \in Byte /\ gate_tdata = Buffered[stream_idx + 1]
          /\ stream_idx \in Nat /\ lane_bytes \in Seq(Byte)
          /\ Len(lane_bytes) = stream_idx
          /\ \A i \in 1 .. stream_idx : lane_bytes[i] = Buffered[i]
      BY <1>2, <2>3, <2>6, ShownByte, LimitsAssumption DEF LaneInv, GateRegs
    <3>2. /\ bytes \in Seq(Byte) /\ Len(bytes) = stream_idx + 1
          /\ \A i \in 1 .. stream_idx + 1 : bytes[i] = Buffered[i]
      BY <3>1, AppendProperties
    <3> HIDE DEF bytes
    <3>3. CASE ~gate_tlast
      <4>1. /\ lane_bytes' = bytes /\ stream_idx' = stream_idx + 1
            /\ UNCHANGED <<delivered, gate_state>>
        BY <2>1, <2>6, <3>3 DEF Stream, Sink, bytes
      <4> QED
        BY <1>2, <4>1, <3>2, <2>2, <2>6 DEF LaneInv, DeliveredInv
    <3>4. CASE gate_tlast
      <4>1. lane_bytes' = <<>> /\ gate_state' = "CAPTURE"
        BY <2>1, <2>6, <3>4 DEF Stream, Release, Sink
      <4>2. PICK f \in Frames : delivered' = Append(delivered, Image(f))
        BY <1>2, <2>6, <3>4, LastByte DEF IsCrcOf
      <4>3. DeliveredInv'
        BY <4>2, AppendProperties DEF DeliveredInv, Images
      <4>4. LaneInv'
        BY <4>1, EmptySeq DEF LaneInv
      <4> QED
        BY <4>3, <4>4
    <3> QED
      BY <3>3, <3>4
  <2> QED
    BY <2>4, <2>5, <2>6
<1> QED
  BY <1>1, <1>2

--------------------------------------------------------------------------------
\* The host shows the receive path bytes of its script and stays inside it.
LEMMA HostStep ==
  ASSUME HostInv, NEW r \in BOOLEAN, Tick(r)
  PROVE  /\ HostInv' /\ script' = script
         /\ \E clr \in BOOLEAN, v \in BOOLEAN, b \in Byte : Clock(clr, v, b, r)
<1>1. /\ Len(Items) \in Nat
      /\ \A i \in 1 .. Len(Items) : Items[i].bytes \in Seq(Byte)
  BY ScriptsAssumption DEF HostInv, Items
<1>2. CASE HostByte(r)
  <2>1. Bytes[pos] \in Byte
    <3>1. item \in 1 .. Len(Items) /\ pos \in 1 .. Len(Bytes)
      <4>1. item \in 1 .. Len(Items)
        BY <1>1, <1>2 DEF HostByte, InItem, AllSent, HostInv
      <4>2. Bytes \in Seq(Byte)
        BY <1>1, <4>1 DEF Bytes
      <4> QED
        BY <1>2, <4>1, <4>2, LenProperties DEF HostByte, InItem, HostInv
    <3> QED
      BY <1>1, <3>1, ElementOfSeq DEF Bytes
  <2>2. HostInv' /\ script' = script
    BY <1>2 DEF HostByte, HostInv, Items
  <2> QED
    BY <1>2, <2>1, <2>2 DEF HostByte
<1>3. CASE HostPause(r)
  BY <1>3, ByteAssumption DEF HostPause, hostVars, HostInv, Items
<1>4. CASE HostRest(r)
  BY <1>4, ByteAssumption DEF HostRest, hostVars, HostInv, Items
<1>5. CASE HostEnd(r)
  <2>1. HostInv' /\ script' = script
    BY <1>1, <1>5 DEF HostEnd, NextItem, Ended, AllSent, HostInv, Items
  <2>2. (End = "clr") \in BOOLEAN /\ Clock(End = "clr", FALSE, 0, r)
    BY <1>5 DEF HostEnd
  <2> QED
    BY <2>1, <2>2, ByteAssumption
<1> QED
  BY <1>2, <1>3, <1>4, <1>5 DEF Tick

\* Reset establishes the invariant.
LEMMA InitIInv == Init => IInv
<1> SUFFICES ASSUME Init PROVE IInv
  OBVIOUS
<1> USE ByteAssumption, LimitsAssumption
<1>1. ParserInv
  <2>1. ParserRegs
    BY DEF Init, ParserInit, ParserRegs, ParserStates
  <2>2. ParserFlags
    BY DEF Init, ParserInit, ParserFlags
  <2> QED
    BY <2>1, <2>2 DEF ParserInv
<1>2. GateInv
  <2>1. GateRegs
    BY DEF Init, GateInit, GateRegs, GateStates
  <2>2. GateFlags
    BY DEF Init, GateInit, GateFlags
  <2>3. GateVerdict
    BY DEF Init, GateInit, GateVerdict
  <2> QED
    BY <2>1, <2>2, <2>3 DEF GateInv
<1>3. LaneInv
  BY EmptySeq DEF Init, GateInit, LaneInv
<1>4. HostInv
  BY ScriptsAssumption DEF Init, HostInv, Items
<1>5. DeliveredInv
  BY EmptySeq DEF Init, DeliveredInv
<1> QED
  BY <1>1, <1>2, <1>3, <1>4, <1>5 DEF IInv

\* The invariant is inductive: one clock edge of parser, gate, router and sink.
LEMMA NextIInv == IInv /\ [Next]_vars => IInv'
<1> SUFFICES ASSUME IInv, [Next]_vars PROVE IInv'
  OBVIOUS
<1>1. CASE Next
  <2>1. PICK r \in BOOLEAN : Tick(r)
    BY <1>1 DEF Next
  <2>2. HostInv' /\ script' = script
    BY <2>1, HostStep DEF IInv
  <2>3. PICK clr \in BOOLEAN, v \in BOOLEAN, b \in Byte : Clock(clr, v, b, r)
    BY <2>1, HostStep DEF IInv
  <2>4. s_frame_tready \in BOOLEAN /\ RouterReady(r) \in BOOLEAN
    BY DEF s_frame_tready, RouterReady
  <2>5. ParserInv'
    BY <2>3, <2>4, ParserStep DEF Clock, IInv
  <2>6. /\ GateClock(frame_out_valid, frame_out_data, header, payload_len, recv_crc,
                      frame_done, RouterReady(r))
        /\ Sink(r)
    BY <2>3 DEF Clock
  <2>7. GateInv'
    <3>1. /\ frame_out_valid \in BOOLEAN /\ frame_out_data \in Byte
          /\ header \in [0 .. 4 -> Byte] /\ payload_len \in Nat
          /\ recv_crc \in Byte \X Byte /\ frame_done \in BOOLEAN
      BY DEF IInv, ParserInv, ParserRegs, ParserFlags
    <3> QED
      BY <2>4, <2>6, <3>1, GateStep DEF IInv
  <2>8. LaneInv' /\ DeliveredInv'
    BY <2>2, <2>6, <2>7, SinkStep DEF IInv
  <2> QED
    BY <2>2, <2>5, <2>7, <2>8 DEF IInv
<1>2. CASE UNCHANGED vars
  <2> USE <1>2 DEF vars
  <2>1. ParserInv'
    BY DEF IInv, parserVars, ParserInv, ParserRegs, ParserFlags
  <2>2. GateInv'
    BY DEF IInv, gateVars, GateInv, GateRegs, GateFlags, GateVerdict, CrcIsRight, Buffered
  <2>3. LaneInv' /\ DeliveredInv'
    BY DEF IInv, gateVars, sinkVars, hostVars, LaneInv, DeliveredInv, HasSink, Known,
           spi_ingress_drop, Channel, Buffered
  <2>4. HostInv'
    BY DEF IInv, hostVars, HostInv, Items
  <2> QED
    BY <2>1, <2>2, <2>3, <2>4 DEF IInv
<1> QED
  BY <1>1, <1>2

\* For every limit on the payload and every script, no register of the receive path
\* leaves its range: no address into the payload memory is past its end and the CRC
\* block is fed no byte past the length (fcsp_parser.sv, fcsp_crc_gate.sv).
THEOREM TypeCorrect == Spec => []TypeOK
<1>1. IInv => TypeOK
  <2> SUFFICES ASSUME IInv PROVE TypeOK
    OBVIOUS
  <2>1. ParserTypeOK
    BY DEF IInv, ParserInv, ParserRegs, ParserFlags, ParserTypeOK
  <2>2. GateTypeOK
    <3>1. gate_state = "FEED_CRC" => crc_payload_idx <= meta_len
      BY DEF IInv, GateInv, GateRegs
    <3> QED
      BY <3>1 DEF IInv, GateInv, GateRegs, GateFlags, GateTypeOK
  <2> QED
    BY <2>1, <2>2 DEF IInv, HostInv, LaneInv, TypeOK
<1> QED
  BY <1>1, InitIInv, NextIInv, PTL DEF Spec

\* Whatever bytes a host sends, cuts off or runs together, a sink gets only frames
\* some host made: the gate streams nothing but a payload whose CRC it found right,
\* and streams all of it in order (fcsp_crc_gate.sv, fcsp_router.sv).
THEOREM DeliveredFramesAreGenuine == Spec => []OnlyHostFrames
<1>1. IInv => OnlyHostFrames
  <2> SUFFICES ASSUME IInv, NEW i \in 1 .. Len(delivered)
               PROVE  \E f \in Frames : delivered[i] = Image(f)
    BY DEF OnlyHostFrames
  <2>1. delivered[i] \in Images
    BY ElementOfSeq DEF IInv, DeliveredInv
  <2> QED
    BY <2>1 DEF Images
<1> QED
  BY <1>1, InitIInv, NextIInv, PTL DEF Spec

--------------------------------------------------------------------------------
(***************************************************************************)
(* Order.  A CRC that can be right is the end of one item of the script;   *)
(* from frame_done on, that item goes with the frame through the gate, and *)
(* items are passed in order.                                              *)
(***************************************************************************)
Sent(v) == SentBefore(script, item, pos, v)
Newest(v) == SentNext(script, item, pos, v)

\* The host sends each byte of an item once.
PlaceInv == IF AllSent THEN pos = 1 ELSE pos <= Len(Bytes) + 1

\* The first CRC byte in the parser was sent before, and if the next byte is the second
\* one, it was the newest; or the newest was the low byte of a length of zero.
CrcByteInv ==
  /\ crc_idx = 1 => Sent(recv_crc[1])
  /\ parser_state = "READ_CRC" /\ crc_idx = 1 => Newest(recv_crc[1]) \/ Newest(0)

\* With frame_done the host is at the end of the item.
DoneInv ==
  frame_done => \A f : IsCrcOf(f, recv_crc) =>
    Ended /\ Items[item].frame = f

\* An item whose frame_done is over.
Over(i) == i \in 1 .. Len(Items) /\ (i < item \/ (i = item /\ Ended /\ ~frame_done))

\* What is delivered has its places among the items that are over, in order, and what
\* the gate may deliver next comes after them.
PlacesOf(place, frames) ==
  \A n \in 1 .. Len(frames) :
    /\ place[n] \in DueItems /\ Over(place[n])
    /\ frames[n] = Image(Items[place[n]].frame)
    /\ \A m \in 1 .. n - 1 : place[m] < place[n]
After(place, count, i) == \A n \in 1 .. count : place[n] < i
HeldInv(place) ==
  gate_state # "CAPTURE" => \A f : IsCrcOf(f, frame_recv_crc_reg) =>
    \E i : Over(i) /\ Items[i].frame = f /\ After(place, Len(delivered), i)
OrderInv == \E place : PlacesOf(place, delivered) /\ HeldInv(place)

SequenceInv == PlaceInv /\ CrcByteInv /\ DoneInv /\ OrderInv

\* A step of the host: it stays, its byte is taken, or it goes to the next item, which
\* it does without a byte.
HostStays == UNCHANGED <<script, item, pos>>
HostSends == InItem /\ script' = script /\ item' = item /\ pos' = pos + 1
HostGoesOn == Ended /\ NextItem

\* What one edge of the host is, and that the parser is shown a byte of the script when
\* the host moves on in an item.
LEMMA HostMoves ==
  ASSUME HostInv, NEW r \in BOOLEAN, Tick(r)
  PROVE  \/ HostSends /\ in_ready(s_frame_tready) /\ Clock(FALSE, TRUE, Bytes[pos], r)
         \/ InItem /\ HostStays /\ ~in_ready(s_frame_tready)
              /\ Clock(FALSE, TRUE, Bytes[pos], r)
         \/ HostStays /\ Clock(FALSE, FALSE, 0, r)
         \/ HostGoesOn /\ \E clr \in BOOLEAN : Clock(clr, FALSE, 0, r)
<1>1. CASE HostByte(r)
  BY <1>1 DEF HostByte, HostSends, HostStays
<1>2. CASE HostPause(r)
  BY <1>2 DEF HostPause, hostVars, HostStays
<1>3. CASE HostRest(r)
  BY <1>3 DEF HostRest, hostVars, HostStays
<1>4. CASE HostEnd(r)
  <2>1. (End = "clr") \in BOOLEAN  OBVIOUS
  <2> QED  BY <1>4, <2>1 DEF HostEnd, HostGoesOn
<1> QED
  BY <1>1, <1>2, <1>3, <1>4 DEF Tick

\* The script as it is typed.
LEMMA ScriptType ==
  ASSUME HostInv
  PROVE  /\ Len(Items) \in Nat
         /\ \A i \in 1 .. Len(Items) : /\ Items[i].bytes \in Seq(Byte)
                                       /\ Len(Items[i].bytes) \in Nat
<1>1. /\ Len(Items) \in Nat
      /\ \A i \in 1 .. Len(Items) : Items[i].bytes \in Seq(Byte)
  BY ScriptsAssumption DEF HostInv, Items
<1> QED  BY <1>1, LenProperties

\* The host stays in its script.
LEMMA PlaceStep ==
  ASSUME HostInv, PlaceInv, HostStays \/ HostSends \/ HostGoesOn
  PROVE  PlaceInv'
<1>1. CASE HostStays
  BY <1>1 DEF HostStays, PlaceInv, AllSent, Bytes, Items
<1>2. CASE HostSends
  <2>1. item \in 1 .. Len(Items)
    BY <1>2, ScriptType DEF HostSends, InItem, AllSent, HostInv
  <2>2. Len(Bytes) \in Nat
    BY <2>1, ScriptType DEF Bytes
  <2> QED
    BY <1>2, <2>2 DEF HostSends, InItem, PlaceInv, AllSent, Bytes, Items, HostInv
<1>3. CASE HostGoesOn
  <2>1. item' = item + 1 /\ pos' = 1 /\ Items' = Items /\ item + 1 \in 1 .. Len(Items) + 1
    BY <1>3, ScriptType DEF HostGoesOn, Ended, NextItem, AllSent, HostInv, Items
  <2>2. ~AllSent' => item + 1 \in 1 .. Len(Items)
    BY <2>1, ScriptType DEF AllSent
  <2> QED
    BY <2>1, <2>2, ScriptType DEF PlaceInv, AllSent, Bytes
<1> QED
  BY <1>1, <1>2, <1>3

\* What was sent stays sent, and stays the newest until the next byte.
LEMMA SentStep ==
  ASSUME HostInv, PlaceInv, HostStays \/ HostSends \/ HostGoesOn, NEW v
  PROVE  /\ Sent(v) => Sent(v)'
         /\ ~HostSends /\ Newest(v) => Newest(v)'
         /\ HostSends /\ v = Bytes[pos] => Newest(v)' /\ Sent(v)'
<1> USE DEF Items
<1>1. CASE HostStays
  BY <1>1 DEF HostStays, HostSends, Sent, Newest, HostInv
<1>2. CASE HostSends
  <2>1. item \in 1 .. Len(Items) /\ pos \in 1 .. Len(Bytes) /\ item \in 1 .. item
        /\ pos \in Nat /\ item \in Nat
    <3>1. item \in 1 .. Len(Items)
      BY <1>2, ScriptType DEF HostSends, InItem, AllSent, HostInv
    <3>2. Len(Bytes) \in Nat
      BY <3>1, ScriptType DEF Bytes
    <3> QED
      BY <1>2, <3>1, <3>2, ScriptType DEF HostSends, InItem, HostInv
  <2>2. script' = script /\ item' = item /\ pos' = pos + 1
    BY <1>2 DEF HostSends
  <2>3. Sent(v) => Sent(v)'
    <3> SUFFICES ASSUME Sent(v) PROVE Sent(v)'
      OBVIOUS
    <3>1. PICK j \in 1 .. item : \E m \in 1 .. Len(Items[j].bytes) :
            (j < item \/ m < pos) /\ Items[j].bytes[m] = v
      BY DEF Sent, SentBefore
    <3>2. j \in 1 .. Len(Items) /\ Len(Items[j].bytes) \in Nat
      BY <2>1, ScriptType
    <3>3. \A m \in 1 .. Len(Items[j].bytes) : m < pos => m < pos + 1
      BY <2>1, <3>2
    <3> QED
      BY <2>2, <3>1, <3>3 DEF Sent, SentBefore
  <2>4. v = Bytes[pos] => Newest(v)'
    <3>1. (pos + 1) - 1 = pos /\ pos + 1 > 1
      BY <2>1
    <3> QED
      BY <2>2, <3>1 DEF Newest, SentNext, Bytes
  <2>5. v = Bytes[pos] => Sent(v)'
    BY <2>1, <2>2 DEF Sent, SentBefore, Bytes
  <2> QED
    BY <1>2, <2>3, <2>4, <2>5
<1>3. CASE HostGoesOn
  <2>1. /\ script' = script /\ item' = item + 1 /\ pos' = 1
        /\ item \in 1 .. Len(Items) /\ pos \in Nat /\ item \in Nat
    BY <1>3, ScriptType DEF HostGoesOn, Ended, NextItem, AllSent, HostInv
  <2>2. pos = Len(Bytes) + 1 /\ Bytes \in Seq(Byte) /\ Len(Bytes) \in Nat
    <3>1. Bytes \in Seq(Byte) /\ Len(Bytes) \in Nat
      BY <2>1, ScriptType DEF Bytes
    <3> QED
      BY <1>3, <2>1, <3>1 DEF HostGoesOn, Ended, PlaceInv
  <2>3. Sent(v) => Sent(v)'
    <3> SUFFICES ASSUME Sent(v) PROVE Sent(v)'
      OBVIOUS
    <3>1. PICK j \in 1 .. item : \E m \in 1 .. Len(Items[j].bytes) : Items[j].bytes[m] = v
      BY DEF Sent, SentBefore
    <3>2. j \in 1 .. item + 1 /\ j < item + 1
      BY <2>1, <3>1
    <3> QED
      BY <2>1, <3>1, <3>2 DEF Sent, SentBefore
  <2>4. ASSUME Newest(v) PROVE Newest(v)'
    <3>1. CASE pos > 1
      <4>1. Bytes # <<>> /\ Bytes[Len(Bytes)] = v
        <5>1. Bytes[pos - 1] = v
          BY <2>4, <3>1 DEF Newest, SentNext, Bytes
        <5>2. Len(Bytes) > 0 /\ pos - 1 = Len(Bytes)
          BY <2>2, <3>1
        <5> QED
          BY <2>2, <5>1, <5>2, EmptySeq
      <4>2. item \in 1 .. (item + 1) - 1 /\ \A k \in item + 1 .. (item + 1) - 1 : FALSE
        BY <2>1
      <4> QED
        BY <2>1, <4>1, <4>2 DEF Newest, SentNext, Bytes
    <3>2. CASE ~(pos > 1)
      <4>1. Bytes = <<>>
        BY <2>1, <2>2, <3>2, EmptySeq
      <4>2. PICK j \in 1 .. item - 1 :
               /\ Items[j].bytes # <<>> /\ Items[j].bytes[Len(Items[j].bytes)] = v
               /\ \A k \in j + 1 .. item - 1 : Items[k].bytes = <<>>
        BY <2>4, <3>2 DEF Newest, SentNext
      <4>3. j \in 1 .. (item + 1) - 1
        BY <2>1, <4>2
      <4>4. \A k \in j + 1 .. (item + 1) - 1 : Items[k].bytes = <<>>
        <5> TAKE k \in j + 1 .. (item + 1) - 1
        <5>1. k = item \/ k \in j + 1 .. item - 1
          BY <2>1, <4>2
        <5> QED
          BY <4>1, <4>2, <5>1 DEF Bytes
      <4> QED
        BY <2>1, <4>2, <4>3, <4>4 DEF Newest, SentNext
    <3> QED
      BY <3>1, <3>2
  <2>5. ~HostSends
    BY <2>1 DEF HostSends
  <2> QED
    BY <2>3, <2>4, <2>5
<1> QED
  BY <1>1, <1>2, <1>3

\* The CRC bytes in the parser are bytes of the script (fcsp_parser.sv).
LEMMA CrcByteStep ==
  ASSUME ParserInv, HostInv, PlaceInv, CrcByteInv, NEW r \in BOOLEAN, Tick(r)
  PROVE  CrcByteInv'
<1> DEFINE SentNow(v) == SentBefore(script', item', pos', v)
           NewestNow(v) == SentNext(script', item', pos', v)
<1>1. HostStays \/ HostSends \/ HostGoesOn
  BY HostMoves
<1>2. /\ \A v : Sent(v) => SentNow(v)
      /\ ~HostSends => \A v : Newest(v) => NewestNow(v)
      /\ HostSends => NewestNow(Bytes[pos]) /\ SentNow(Bytes[pos])
  <2>1. \A v : /\ Sent(v) => SentNow(v)
               /\ ~HostSends /\ Newest(v) => NewestNow(v)
               /\ HostSends /\ v = Bytes[pos] => NewestNow(v) /\ SentNow(v)
    <3> TAKE v
    <3> QED
      BY ONLY <1>1, HostInv, PlaceInv, SentStep DEF Sent, Newest
  <2> QED
    BY <2>1
<1> HIDE DEF SentNow, NewestNow
<1>3. SUFFICES /\ crc_idx' = 1 => SentNow(recv_crc'[1])
               /\ parser_state' = "READ_CRC" /\ crc_idx' = 1
                    => NewestNow(recv_crc'[1]) \/ NewestNow(0)
  BY DEF CrcByteInv, Sent, Newest, SentNow, NewestNow
<1>4. ASSUME NEW clr \in BOOLEAN, Clock(clr, FALSE, 0, r), ~HostSends
      PROVE  /\ crc_idx' = 1 => SentNow(recv_crc'[1])
             /\ parser_state' = "READ_CRC" /\ crc_idx' = 1
                  => NewestNow(recv_crc'[1]) \/ NewestNow(0)
  <2>1. /\ UNCHANGED <<crc_idx, recv_crc>>
        /\ parser_state' = "SEARCH_SYNC" \/ parser_state' = parser_state
    BY <1>4 DEF Clock, ParserClock, Clear, Silence
  <2> QED
    BY <1>2, <1>4, <2>1 DEF CrcByteInv
<1>5. CASE HostStays /\ Clock(FALSE, FALSE, 0, r)
  <2>1. ~HostSends
    BY <1>5 DEF HostStays, HostSends, HostInv
  <2> QED
    BY <1>4, <1>5, <2>1
<1>6. CASE HostGoesOn /\ \E clr \in BOOLEAN : Clock(clr, FALSE, 0, r)
  <2>1. ~HostSends
    BY <1>6, ScriptType DEF HostGoesOn, NextItem, HostSends, HostInv
  <2> QED
    BY <1>4, <1>6, <2>1
<1>7. CASE /\ InItem /\ HostStays /\ ~in_ready(s_frame_tready)
           /\ Clock(FALSE, TRUE, Bytes[pos], r)
  <2>1. ~HostSends
    BY <1>7 DEF HostStays, HostSends, HostInv
  <2>2. ReadPayload(Bytes[pos], s_frame_tready)
    BY <1>7 DEF Clock, ParserClock, Receive, SearchSync, ReadHeader, ReadCrc, in_ready
  <2>3. UNCHANGED <<crc_idx, recv_crc, parser_state>>
    BY <1>7, <2>2 DEF ReadPayload
  <2> QED
    BY <1>2, <2>1, <2>3 DEF CrcByteInv
<1>8. CASE HostSends /\ Clock(FALSE, TRUE, Bytes[pos], r)
  <2> DEFINE b == Bytes[pos]
             m == s_frame_tready
  <2>0. NewestNow(b) /\ SentNow(b)
    BY <1>2, <1>8
  <2> HIDE DEF b, m
  <2>1. Receive(b, m)
    BY <1>8 DEF Clock, ParserClock, b, m
  <2>2. CASE SearchSync(b, m)
    BY <1>2, <2>2 DEF SearchSync, CrcByteInv
  <2>3. CASE ReadHeader(b, m)
    <3>1. UNCHANGED <<crc_idx, recv_crc>> /\ parser_state = "READ_HEADER"
      BY <2>3 DEF ReadHeader
    <3>2. ASSUME parser_state' = "READ_CRC" PROVE b = 0
      <4>1. 256 * len_high + b = 0 /\ len_high \in Nat
        BY <2>3, <3>1, <3>2, ByteAssumption
           DEF ReadHeader, LengthKnown, ParserInv, ParserRegs
      <4>2. b \in Nat
        <5>1. item \in 1 .. Len(Items)
          BY <1>8, ScriptType DEF HostSends, InItem, AllSent, HostInv
        <5>2. Bytes \in Seq(Byte) /\ Len(Bytes) \in Nat /\ pos \in 1 .. Len(Bytes)
          BY <1>8, <5>1, ScriptType DEF HostSends, InItem, HostInv, Bytes
        <5> QED
          BY <5>2, ElementOfSeq, ByteAssumption DEF b
      <4> QED
        BY <4>1, <4>2
    <3> QED
      BY <1>2, <2>0, <3>1, <3>2 DEF CrcByteInv
  <2>4. CASE ReadPayload(b, m)
    <3>1. /\ recv_crc' = recv_crc
          /\ crc_idx' = 0 \/ (crc_idx' = crc_idx /\ parser_state' = "PAYLOAD")
      BY <2>4 DEF ReadPayload
    <3> QED
      BY <1>2, <3>1 DEF CrcByteInv
  <2>5. CASE ReadCrc(b, m)
    <3>1. /\ crc_idx \in {0, 1} /\ recv_crc \in Byte \X Byte
      BY DEF ParserInv, ParserRegs
    <3>2. CASE crc_idx = 0
      <4>1. recv_crc'[1] = b
        BY <2>5, <3>2 DEF ReadCrc
      <4> QED
        BY <2>0, <4>1
    <3>3. CASE crc_idx = 1
      <4>1. recv_crc'[1] = recv_crc[1] /\ parser_state' = "SEARCH_SYNC"
        BY <2>5, <3>3 DEF ReadCrc
      <4> QED
        BY <1>2, <3>3, <4>1 DEF CrcByteInv
    <3> QED
      BY <3>1, <3>2, <3>3
  <2> QED
    BY <2>1, <2>2, <2>3, <2>4, <2>5 DEF Receive
<1> QED
  BY <1>5, <1>6, <1>7, <1>8, HostMoves

\* frame_done comes with the last byte of the item the received CRC belongs to.
LEMMA DoneStep ==
  ASSUME ParserInv, HostInv, PlaceInv, CrcByteInv, NEW r \in BOOLEAN, Tick(r)
  PROVE  DoneInv'
<1> SUFFICES ASSUME frame_done', NEW f, f \in Frames, f.payload # <<>>,
                    f.crc = recv_crc'
             PROVE  Ended' /\ Items'[item'].frame = f
  BY DEF DoneInv, IsCrcOf
<1>1. HostSends /\ ReadCrc(Bytes[pos], s_frame_tready)
  BY HostMoves DEF Clock, ParserClock, Clear, Silence, Receive, SearchSync, ReadHeader,
                   ReadPayload, in_ready, ReadCrc
<1>2. /\ parser_state = "READ_CRC" /\ crc_idx = 1
      /\ f.crc[1] = recv_crc[1] /\ f.crc[2] = Bytes[pos]
  <2>1. crc_idx = 1 /\ parser_state = "READ_CRC"
    BY <1>1 DEF ReadCrc
  <2>2. recv_crc' = <<recv_crc[1], Bytes[pos]>>
    BY <1>1, <2>1 DEF ReadCrc
  <2> QED
    BY <2>1, <2>2
<1>3. /\ Sent(f.crc[1])
      /\ Newest(f.crc[1]) \/ Newest(0)
  BY <1>2 DEF CrcByteInv
<1>4. item \in 1 .. Len(Items) /\ pos \in 1 .. Len(Bytes) /\ Len(Bytes) \in Nat
  <2>1. item \in 1 .. Len(Items)
    BY <1>1, ScriptType DEF HostSends, InItem, AllSent, HostInv
  <2> QED
    BY <1>1, <2>1, ScriptType DEF HostSends, InItem, HostInv, Bytes
<1>5. Items[item].frame = f /\ pos = Len(Bytes)
  <2>1. script \in Scripts
    BY DEF HostInv
  <2> QED
    BY <1>2, <1>3, <1>4, <2>1, CrcAssumption DEF Sent, Newest, Items, Bytes
<1>6. Ended'
  BY <1>1, <1>4, <1>5 DEF HostSends, Ended, AllSent, Bytes, Items
<1> QED
  BY <1>1, <1>5, <1>6 DEF HostSends, Items

\* An item that is over stays so; and the host does not stay in one with frame_done.
LEMMA OverStep ==
  ASSUME ParserInv, HostInv, PlaceInv, NEW r \in BOOLEAN, Tick(r), NEW i,
         Over(i) \/ (i = item /\ Ended)
  PROVE  Over(i)'
<1>1. script' = script /\ Items' = Items /\ item \in Nat /\ Len(Items) \in Nat
      /\ (item' = item \/ item' = item + 1)
  <2>1. HostStays \/ HostSends \/ HostGoesOn
    BY HostMoves
  <2>2. /\ script' = script
        /\ item' = item \/ item' = item + 1
    BY <2>1 DEF HostStays, HostSends, HostGoesOn, NextItem
  <2> QED
    BY <2>2, ScriptType DEF HostInv, Items
<1>2. i \in 1 .. Len(Items) /\ (i < item \/ (i = item /\ Ended))
  BY <1>1, ScriptType DEF Over, Ended, AllSent, HostInv
<1>3. CASE i < item
  BY <1>1, <1>2, <1>3 DEF Over
<1>4. CASE i = item /\ Ended
  <2>1. ~InItem /\ ~HostSends
    <3>1. Len(Bytes) \in Nat
      BY <1>2, <1>4, ScriptType DEF Bytes
    <3> QED
      BY <1>4, <3>1 DEF Ended, InItem, HostSends, HostInv
  <2>2. CASE HostStays /\ Clock(FALSE, FALSE, 0, r)
    <3>1. ~frame_done'
      BY <2>2 DEF Clock, ParserClock, Silence
    <3>2. Ended'
      BY <1>4, <2>2 DEF HostStays, Ended, AllSent, Bytes, Items
    <3> QED
      BY <1>1, <1>2, <1>4, <2>2, <3>1, <3>2 DEF HostStays, Over
  <2>3. CASE HostGoesOn
    BY <1>1, <1>2, <1>4, <2>3 DEF HostGoesOn, NextItem, Over
  <2> QED
    BY <2>1, <2>2, <2>3, HostMoves
<1> QED
  BY <1>2, <1>3, <1>4

\* The gate passes items in the order of the script: what it takes over with frame_done
\* comes after what it has delivered, and it delivers what it took over.
LEMMA OrderStep ==
  ASSUME IInv, PlaceInv, DoneInv, OrderInv, NEW r \in BOOLEAN, Tick(r)
  PROVE  OrderInv'
<1>1. PICK place : PlacesOf(place, delivered) /\ HeldInv(place)
  BY DEF OrderInv
<1>2. \A i : Over(i) \/ (i = item /\ Ended) => Over(i)'
  BY OverStep DEF IInv
<1>3. script' = script /\ Items' = Items /\ DueItems' = DueItems
  <2>1. HostStays \/ HostSends \/ HostGoesOn
    BY HostMoves DEF IInv
  <2>2. script' = script
    BY <2>1 DEF HostStays, HostSends, HostGoesOn, NextItem
  <2> QED
    BY <2>2 DEF Items, DueItems, Due
<1>4. /\ GateClock(frame_out_valid, frame_out_data, header, payload_len, recv_crc,
                   frame_done, RouterReady(r))
      /\ Sink(r)
  BY HostMoves DEF IInv, Clock
<1>5. /\ delivered \in Seq(Images) /\ Len(delivered) \in Nat /\ item \in Nat
      /\ GateInv /\ LaneInv
  BY LenProperties DEF IInv, DeliveredInv, HostInv
<1>6. \A n \in 1 .. Len(delivered) :
        /\ place[n] \in DueItems' /\ Over(place[n]) /\ Over(place[n])'
        /\ delivered[n] = Image(Items'[place[n]].frame)
        /\ \A m \in 1 .. n - 1 : place[m] < place[n]
  BY <1>1, <1>2, <1>3 DEF PlacesOf
<1>7. \A f : gate_state # "CAPTURE" /\ IsCrcOf(f, frame_recv_crc_reg) =>
        \E i : /\ Over(i)' /\ Items[i].frame = f /\ After(place, Len(delivered), i)
               /\ i \in 1 .. Len(Items)
  BY <1>1, <1>2 DEF HeldInv, Over
<1>8. CASE /\ delivered' = delivered
           /\ gate_state' # "CAPTURE" =>
                gate_state # "CAPTURE" /\ frame_recv_crc_reg' = frame_recv_crc_reg
  <2>1. PlacesOf(place, delivered)'
    BY <1>6, <1>8 DEF PlacesOf
  <2>2. HeldInv(place)'
    BY <1>3, <1>7, <1>8 DEF HeldInv
  <2> QED
    BY <2>1, <2>2 DEF OrderInv
<1>9. CASE gate_state = "CAPTURE"
  <2>1. delivered' = delivered
    BY <1>4, <1>9 DEF Sink, gate_tvalid
  <2>2. /\ gate_state' # "CAPTURE" => frame_done
        /\ frame_done => frame_recv_crc_reg' = recv_crc
    BY <1>4, <1>9 DEF GateClock, Capture, FeedCrc, WaitCrc, Stream
  <2>3. HeldInv(place)'
    <3> SUFFICES ASSUME gate_state' # "CAPTURE", NEW f, IsCrcOf(f, recv_crc)
                 PROVE  \E i : /\ Over(i)' /\ Items[i].frame = f
                               /\ After(place, Len(delivered), i)
      BY <1>3, <2>1, <2>2 DEF HeldInv
    <3>1. PICK i : i = item
      OBVIOUS
    <3>2. frame_done /\ Ended /\ Items[i].frame = f
      BY <2>2, <3>1 DEF DoneInv
    <3>3. Over(i)'
      BY <1>2, <3>1, <3>2
    <3>4. After(place, Len(delivered), i)
      BY <1>6, <3>1, <3>2 DEF After, Over
    <3> QED
      BY <3>2, <3>3, <3>4
  <2>4. PlacesOf(place, delivered)'
    BY <1>6, <2>1 DEF PlacesOf
  <2> QED
    BY <2>3, <2>4 DEF OrderInv
<1>10. CASE gate_state \in {"FEED_CRC", "WAIT_CRC"}
  <2>1. delivered' = delivered
    BY <1>4, <1>10 DEF Sink, gate_tvalid
  <2>2. frame_recv_crc_reg' = frame_recv_crc_reg
    BY <1>4, <1>10 DEF GateClock, Capture, FeedCrc, WaitCrc, Stream
  <2> QED
    BY <1>8, <1>10, <2>1, <2>2
<1>11. CASE gate_state = "STREAM"
  <2>1. Stream(RouterReady(r))
    BY <1>4, <1>11 DEF GateClock, Capture, FeedCrc, WaitCrc
  <2>2. CASE ~(gate_tvalid /\ RouterReady(r) /\ HasSink /\ gate_tlast)
    <3>1. delivered' = delivered
      BY <1>4, <2>2 DEF Sink
    <3>2. frame_recv_crc_reg' = frame_recv_crc_reg
      BY <2>1 DEF Stream
    <3> QED
      BY <1>8, <1>11, <3>1, <3>2
  <2>3. CASE gate_tvalid /\ RouterReady(r) /\ HasSink /\ gate_tlast
    <3>1. gate_state' = "CAPTURE"
      BY <2>1, <2>3 DEF Stream, Release
    <3>2. PICK f : /\ IsCrcOf(f, frame_recv_crc_reg) /\ f.header = meta_header
                   /\ delivered' = Append(delivered, Image(f))
      BY <1>4, <1>5, <1>11, <2>3, LastByte
    <3>3. PICK i : /\ Over(i)' /\ Items[i].frame = f /\ After(place, Len(delivered), i)
                   /\ i \in 1 .. Len(Items)
      BY <1>7, <1>11, <3>2
    <3>4. i \in DueItems'
      <4>1. /\ f.header[2] \in {CH_CONTROL, CH_ESC_SERIAL} \cup TiedOff
            /\ script.spi => f.header[2] \in {CH_CONTROL, CH_ESC_SERIAL}
        BY <2>3, <3>2 DEF HasSink, Known, spi_ingress_drop, Channel
      <4>2. Due(i)
        BY <3>2, <3>3, <4>1 DEF IsCrcOf, Due, IsWhole
      <4> QED
        BY <1>3, <3>3, <4>2 DEF DueItems
    <3>5. PICK count : count = Len(delivered)
      OBVIOUS
    <3>6. PICK next :
             next = [n \in 1 .. count + 1 |-> IF n = count + 1 THEN i ELSE place[n]]
      OBVIOUS
    <3>7. /\ Len(delivered') = count + 1 /\ delivered'[count + 1] = Image(f)
          /\ \A n \in 1 .. count : delivered'[n] = delivered[n]
      <4>1. Image(f) \in Images
        BY <3>2 DEF IsCrcOf, Images
      <4> QED
        BY <1>5, <3>2, <3>5, <4>1, AppendProperties
    <3>8. /\ \A n \in 1 .. count : next[n] = place[n]
          /\ next[count + 1] = i
      BY <1>5, <3>5, <3>6
    <3>9. ASSUME NEW n \in 1 .. count + 1
          PROVE  /\ next[n] \in DueItems' /\ Over(next[n])'
                 /\ delivered'[n] = Image(Items'[next[n]].frame)
                 /\ \A m \in 1 .. n - 1 : next[m] < next[n]
      <4>1. CASE n = count + 1
        <5>1. \A m \in 1 .. n - 1 : next[m] < i
          BY <1>5, <3>3, <3>8, <3>5, <4>1 DEF After
        <5> QED
          BY <1>3, <3>3, <3>4, <3>7, <3>8, <4>1, <5>1
      <4>2. CASE n # count + 1
        <5>1. n \in 1 .. count /\ \A m \in 1 .. n - 1 : m \in 1 .. count
          BY <1>5, <3>5, <4>2
        <5> QED
          BY <1>6, <3>7, <3>8, <3>5, <5>1
      <4> QED
        BY <4>1, <4>2
    <3>10. PlacesOf(next, delivered)'
      BY <3>7, <3>9 DEF PlacesOf
    <3> QED
      BY <3>1, <3>10 DEF HeldInv, OrderInv
  <2> QED
    BY <2>2, <2>3
<1> QED
  BY <1>9, <1>10, <1>11 DEF IInv, GateInv, GateRegs, GateStates

LEMMA InitSequence == Init => SequenceInv
<1> SUFFICES ASSUME Init PROVE SequenceInv
  OBVIOUS
<1>1. IInv
  BY InitIInv
<1>2. PlaceInv
  <2>1. ~AllSent => Len(Bytes) \in Nat
    BY <1>1, ScriptType DEF IInv, HostInv, AllSent, Bytes, Init
  <2> QED
    BY <2>1 DEF Init, PlaceInv
<1>3. CrcByteInv /\ DoneInv
  BY DEF Init, ParserInit, CrcByteInv, DoneInv
<1>4. OrderInv
  <2>1. PlacesOf(<<>>, delivered) /\ HeldInv(<<>>)
    BY EmptySeq DEF Init, GateInit, PlacesOf, HeldInv
  <2> QED
    BY <2>1 DEF OrderInv
<1> QED
  BY <1>2, <1>3, <1>4 DEF SequenceInv

LEMMA NextSequence == IInv /\ SequenceInv /\ [Next]_vars => SequenceInv'
<1> SUFFICES ASSUME IInv, SequenceInv, [Next]_vars PROVE SequenceInv'
  OBVIOUS
<1>1. CASE Next
  <2>1. PICK r \in BOOLEAN : Tick(r)
    BY <1>1 DEF Next
  <2>2. PlaceInv'
    BY <2>1, HostMoves, PlaceStep DEF IInv, SequenceInv
  <2>3. CrcByteInv' /\ DoneInv'
    BY <2>1, CrcByteStep, DoneStep DEF IInv, SequenceInv
  <2>4. OrderInv'
    BY <2>1, OrderStep DEF SequenceInv
  <2> QED
    BY <2>2, <2>3, <2>4 DEF SequenceInv
<1>2. CASE UNCHANGED vars
  <2> USE <1>2 DEF vars, parserVars, gateVars, hostVars, sinkVars
  <2>1. PlaceInv'
    BY DEF SequenceInv, PlaceInv, AllSent, Bytes, Items
  <2>2. CrcByteInv' /\ DoneInv'
    BY DEF SequenceInv, CrcByteInv, DoneInv, Sent, Newest, Ended, AllSent, Bytes, Items
  <2>3. OrderInv'
    <3>1. PICK place : PlacesOf(place, delivered) /\ HeldInv(place)
      BY DEF SequenceInv, OrderInv
    <3>2. Items' = Items /\ DueItems' = DueItems /\ \A i : Over(i)' <=> Over(i)
      BY DEF Items, DueItems, Due, Over, Ended, AllSent, Bytes
    <3>3. PlacesOf(place, delivered)' /\ HeldInv(place)'
      BY <3>1, <3>2 DEF PlacesOf, HeldInv
    <3> QED
      BY <3>3 DEF OrderInv
  <2> QED
    BY <2>1, <2>2, <2>3 DEF SequenceInv
<1> QED
  BY <1>1, <1>2

\* However the host breaks off, streams or repeats, and whatever it finds the gate busy
\* with, sinks get the frames of its script in the order they were sent and each at most
\* once: a frame is not delivered again when it is taken along by the next, and none
\* overtakes another (fcsp_parser.sv, fcsp_crc_gate.sv, fcsp_router.sv).
THEOREM DeliveredInOrder == Spec => []InOrderAtMostOnce
<1>1. SequenceInv => InOrderAtMostOnce
  <2> SUFFICES ASSUME SequenceInv PROVE InOrderAtMostOnce
    OBVIOUS
  <2>1. PICK p : PlacesOf(p, delivered)
    BY DEF SequenceInv, OrderInv
  <2> DEFINE place == [n \in 1 .. Len(delivered) |-> p[n]]
  <2>2. place \in [1 .. Len(delivered) -> DueItems]
    BY <2>1 DEF PlacesOf
  <2>3. \A n \in 1 .. Len(delivered) :
          /\ delivered[n] = Image(Items[place[n]].frame)
          /\ \A m \in 1 .. n - 1 : place[m] < place[n]
    BY <2>1 DEF PlacesOf
  <2> QED
    BY <2>2, <2>3 DEF InOrderAtMostOnce
<1> QED
  BY <1>1, InitIInv, NextIInv, InitSequence, NextSequence, PTL DEF Spec

================================================================================

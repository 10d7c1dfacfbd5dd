------------------------------- MODULE FcspIngress -------------------------------
(***************************************************************************)
(* The receive path of fcsp_offloader_top: the parser, the CRC gate and    *)
(* the router, clocked together, with a host in front and the sinks of the *)
(* five channels behind.                                                   *)
(*                                                                         *)
(* The host plays a script: a sequence of items, each a run of bytes with  *)
(* what happens after it.  Between items it waits until the path is quiet, *)
(* or it does not.  It may pause between bytes, but inside an item never   *)
(* for TIMEOUT_CYCLES.                                                     *)
(***************************************************************************)
EXTENDS Naturals, Sequences

CONSTANTS
  Byte, SYNC, MAX_PAYLOAD_LEN, TIMEOUT_CYCLES,
  Frames,     \* the frames a host makes: [header, payload, crc]
  Scripts     \* what the host may send: [items, waits, spi], a sequence of items
              \*   [bytes, frame, end], frame \in Frames when the bytes are its
              \*   wire image, end \in {"none", "clr", "silence"}; spi: on the SPI
              \*   port, whose CS makes the clr

ASSUME ByteAssumption == Byte \subseteq Nat /\ 0 \in Byte
ASSUME LimitsAssumption == MAX_PAYLOAD_LEN \in Nat \ {0} /\ TIMEOUT_CYCLES \in Nat
\* A sender keeps to the limit of the protocol.
ASSUME FramesAssumption ==
  \A f \in Frames : f.payload \in Seq(Byte) /\ Len(f.payload) <= MAX_PAYLOAD_LEN
ASSUME ScriptsAssumption ==
  \A s \in Scripts :
    /\ Len(s.items) \in Nat
    /\ \A i \in 1 .. Len(s.items) : s.items[i].bytes \in Seq(Byte)

\* v is sent before byte n of item i of a script; and right before it.
SentBefore(s, i, n, v) ==
  \E j \in 1 .. i : \E m \in 1 .. Len(s.items[j].bytes) :
    (j < i \/ m < n) /\ s.items[j].bytes[m] = v
SentNext(s, i, n, v) ==
  \/ n > 1 /\ s.items[i].bytes[n - 1] = v
  \/ /\ n = 1
     /\ \E j \in 1 .. i - 1 :
          /\ s.items[j].bytes # <<>>
          /\ s.items[j].bytes[Len(s.items[j].bytes)] = v
          /\ \A k \in j + 1 .. i - 1 : s.items[k].bytes = <<>>

\* No accident looks like a CRC: what the parser may take for the CRC of a frame with
\* a payload is sent at the end of that frame only.  The parser takes two bytes in a
\* row, or after a length of zero one byte, with an older one in the place of the
\* first.
ASSUME CrcAssumption ==
  \A s \in Scripts, f \in Frames :
    \A i \in 1 .. Len(s.items) : \A n \in 1 .. Len(s.items[i].bytes) :
      /\ f.payload # <<>> /\ s.items[i].bytes[n] = f.crc[2]
      /\ \/ SentNext(s, i, n, f.crc[1])
         \/ SentNext(s, i, n, 0) /\ SentBefore(s, i, n, f.crc[1])
      => s.items[i].frame = f /\ n = Len(s.items[i].bytes)

VARIABLES
  parser_state, hdr_idx, header, len_high, payload_len, payload_cnt, crc_idx,
  frame_out_valid, frame_out_data, recv_crc, timeout_cnt, sync_seen, frame_done,
  gate_state, payload_mem, capture_count, meta_latched, meta_header, meta_len,
  frame_recv_crc_reg, crc_feed_idx, crc_payload_idx, stream_idx, crc_ok, crc_drop,
  script, item, pos,    \* host: what it sends and how far it is
  lane_bytes,           \* payload bytes of the current frame taken by a sink
  delivered             \* frames taken to the end: [header, payload]

INSTANCE FcspParser
INSTANCE FcspCrcGate

hostVars == <<script, item, pos>>
sinkVars == <<lane_bytes, delivered>>
vars == <<parserVars, gateVars, hostVars, sinkVars>>

\* fcsp_router: the channel byte of the frame chooses the lane, an unknown
\* channel is taken and dropped.
CH_CONTROL    == 1
CH_ESC_SERIAL == 5
TiedOff       == {2, 3, 4}    \* m_tel_, m_log_ and m_dbg_tready are 1'b1
Channel       == meta_header[2]
Known         == Channel \in {CH_CONTROL, CH_ESC_SERIAL} \cup TiedOff

\* A frame of the SPI port on another channel is dropped in front of the router.
\* (frame_from_spi: one port sends all of a script.)
spi_ingress_drop == script.spi /\ Channel \notin {CH_CONTROL, CH_ESC_SERIAL}

\* Readiness seen by the gate, when the sink of a lane with flow control has
\* readiness r: what is dropped is taken.
RouterReady(r) == IF Channel \in {CH_CONTROL, CH_ESC_SERIAL} THEN r ELSE TRUE

\* The byte in front of the router goes to a sink.
HasSink == Known /\ ~spi_ingress_drop

\* A sink takes a byte: with the last one the frame is complete.
Sink(r) ==
  LET taken == gate_tvalid /\ RouterReady(r) /\ HasSink
      bytes == Append(lane_bytes, gate_tdata) IN
  /\ lane_bytes' = IF ~taken THEN lane_bytes
                   ELSE IF gate_tlast THEN <<>> ELSE bytes
  /\ delivered' = IF taken /\ gate_tlast
                  THEN Append(delivered, [header |-> meta_header, payload |-> bytes])
                  ELSE delivered

Clock(clr, in_valid, b, r) ==
  /\ ParserClock(clr, in_valid, b, s_frame_tready)
  /\ GateClock(frame_out_valid, frame_out_data, header, payload_len, recv_crc,
               frame_done, RouterReady(r))
  /\ Sink(r)

--------------------------------------------------------------------------------
\* The host.
Items   == script.items
AllSent == item > Len(Items)
Bytes   == Items[item].bytes
End     == Items[item].end
InItem  == ~AllSent /\ pos <= Len(Bytes)
Ended   == ~AllSent /\ pos > Len(Bytes)

\* Nothing of an earlier frame is on its way.
Quiet ==
  /\ parser_idle /\ ~frame_out_valid /\ ~frame_done
  /\ gate_state = "CAPTURE"

NextItem == item' = item + 1 /\ pos' = 1 /\ UNCHANGED script

\* A byte is on the input; it is gone when the parser takes it.
HostByte(r) ==
  /\ InItem
  /\ pos = 1 /\ script.waits => Quiet
  /\ Clock(FALSE, TRUE, Bytes[pos], r)
  /\ pos' = IF in_ready(s_frame_tready) THEN pos + 1 ELSE pos
  /\ UNCHANGED <<script, item>>

\* A pause inside an item.
HostPause(r) ==
  /\ InItem /\ pos > 1 /\ timeout_cnt < TIMEOUT_CYCLES
  /\ Clock(FALSE, FALSE, 0, r)
  /\ UNCHANGED hostVars

\* Between items, or when there is nothing left to send.
HostRest(r) ==
  /\ InItem => pos = 1 /\ (script.waits => ~Quiet)
  /\ Ended => End = "silence" /\ ~parser_idle
  /\ Clock(FALSE, FALSE, 0, r)
  /\ UNCHANGED hostVars

\* After the last byte of an item: go on, raise CS (clr), or stay silent until
\* the parser has given up.
HostEnd(r) ==
  /\ Ended
  /\ End = "silence" => parser_idle
  /\ Clock(End = "clr", FALSE, 0, r)
  /\ NextItem

Init ==
  /\ ParserInit /\ GateInit
  /\ script \in Scripts /\ item = 1 /\ pos = 1
  /\ lane_bytes = <<>> /\ delivered = <<>>

Tick(r) == HostByte(r) \/ HostPause(r) \/ HostRest(r) \/ HostEnd(r)
Next == \E r \in BOOLEAN : Tick(r)

Spec == Init /\ [][Next]_vars

\* The clock runs, the host goes on sending (it only pauses), and a sink that is
\* offered a byte takes it one day: the command FIFO is drained by the bus master,
\* the ESC UART by its baud clock.
Fairness ==
  /\ WF_vars(Next)
  /\ WF_vars(\E r \in BOOLEAN : HostByte(r))
  /\ WF_vars(gate_tvalid /\ Tick(TRUE))
FairSpec == Spec /\ Fairness

--------------------------------------------------------------------------------
\* Parser and gate keep their registers in range while they feed each other.
TypeOK ==
  /\ ParserTypeOK /\ GateTypeOK
  /\ script \in Scripts /\ item \in 1 .. Len(Items) + 1 /\ pos \in Nat \ {0}
  /\ lane_bytes \in Seq(Byte)

IsWhole(it) == it.frame \in Frames
Image(f) == [header |-> f.header, payload |-> f.payload]

\* An item cut off after the first payload byte leaves that byte in the gate, until
\* the next frame that runs to its end takes it along into its own CRC.
Cut(it) == it.end # "none" /\ Len(it.bytes) > 8
Runs(it) == /\ it.end = "none" /\ Len(it.bytes) >= 10
            /\ Len(it.bytes) = 10 + 256 * it.bytes[7] + it.bytes[8]
AfterCut(i) == \E j \in 1 .. i - 1 :
                 Cut(Items[j]) /\ \A k \in j + 1 .. i - 1 : ~Runs(Items[k])

\* The frames of the script that a sink should see, in order: the whole ones, on a
\* channel some sink has for that port, with a payload to hand over.
Due(i) ==
  LET f == Items[i].frame IN
  /\ IsWhole(Items[i]) /\ f.payload # <<>>
  /\ f.header[2] \in {CH_CONTROL, CH_ESC_SERIAL} \cup (IF script.spi THEN {} ELSE TiedOff)
ImagesOf(S) ==
  LET chosen == SelectSeq([i \in 1 .. Len(Items) |-> i], LAMBDA i : i \in S) IN
  [n \in 1 .. Len(chosen) |-> Image(Items[chosen[n]].frame)]
DueItems == {i \in 1 .. Len(Items) : Due(i)}

\* What a sink gets is what a host made: no frame is put together from pieces of
\* two, whatever is aborted, truncated, oversized or held up in front of the gate.
OnlyHostFrames ==
  \A i \in 1 .. Len(delivered) :
    \E f \in Frames : delivered[i] = Image(f)

\* The frames come out in the order they were sent and no one of them twice: each that
\* is delivered has a place among those that were due, and the places go up.
InOrderAtMostOnce ==
  \E place \in [1 .. Len(delivered) -> DueItems] :
    \A n \in 1 .. Len(delivered) :
      /\ delivered[n] = Image(Items[place[n]].frame)
      /\ \A m \in 1 .. n - 1 : place[m] < place[n]

\* Scripts the code gets over without losing more: nothing stops short of what its
\* header announces without CS or silence to tell the parser; and a host that does
\* not wait cuts nothing off inside a payload and sends no payload of fewer than two
\* bytes, which would end while the gate still has the frame before.
Announced(it) == 256 * it.bytes[7] + it.bytes[8]
Closed(it) == \/ it.end # "none" \/ it.bytes[1] # SYNC
              \/ Len(it.bytes) >= 8 /\ Announced(it) > MAX_PAYLOAD_LEN
              \/ Runs(it)
Gentle(it) == ~Cut(it) /\ (IsWhole(it) => Len(it.frame.payload) >= 2)
Smooth == \A i \in DOMAIN Items : Closed(Items[i]) /\ (script.waits \/ Gentle(Items[i]))

\* In a smooth script every whole frame reaches its sink, except the one frame
\* behind a cut.
EveryFrameArrives ==
  Smooth => <>[](delivered = ImagesOf({i \in DueItems : ~AfterCut(i)}))

\* As the documents have it: once everything is sent and the path is quiet, every
\* whole frame has reached its sink.
QuietMeansDelivered == AllSent /\ Quiet => delivered = ImagesOf(DueItems)

================================================================================

------------------------------ MODULE FcspTransport ------------------------------
(***************************************************************************)
(* The two ways into fcsp_offloader_top: bytes of the USB serial port and  *)
(* bytes of the SPI port share one parser.  The top level chooses which    *)
(* port the parser hears, locks the choice for the length of a frame, tags *)
(* the frame with its port and clears the parser when CS rises.            *)
(*                                                                         *)
(* An action is one clock edge.  A host sends its next byte a number of    *)
(* cycles after the one before, drawn from a set of waits; bits are left   *)
(* out.  A CS or SCLK edge goes through the synchronisers of               *)
(* fcsp_spi_frontend, two of which the top level repeats for CS.           *)
(***************************************************************************)
EXTENDS Naturals, Sequences, FiniteSets, SequencesExt

CONSTANTS
  Byte, SYNC, MAX_PAYLOAD_LEN, TIMEOUT_CYCLES,
  Hosts,      \* what surrounds the design: records of
              \*   usb, spi            what the hosts send: sequences of runs of bytes
              \*   usbWaits, spiWaits  sets of waits
              \*   shim                TRUE: USB comes through fcsp_uart_byte_stream;
              \*                       FALSE: from a driver with the next byte at hand
              \*   order               "usb first", "spi first" or "any"
              \*   ready               levels of the CRC gate's ready
  FrameLen    \* bytes of every frame the hosts send

\* A driver that has its next byte at hand does not stop inside a frame: no run of its ends
\* with a sync byte.
ASSUME HostsAssumption ==
  \A h \in Hosts : ~h.shim =>
    /\ h.usb \in Seq(Seq(Byte) \ {<<>>})
    /\ \A i \in 1 .. Len(h.usb) : h.usb[i][Len(h.usb[i])] # SYNC

NoByte == 256

VARIABLES
  parser_state, hdr_idx, header, len_high, payload_len, payload_cnt, crc_idx,
  frame_out_valid, frame_out_data, recv_crc, timeout_cnt, sync_seen, frame_done,
  usb_rx_valid, usb_rx_byte,                  \* rx_hold_valid, rx_hold_byte
  cs_sync, sclk_byte,                         \* SPI synchronisers
  rx_valid_pending, rx_byte_pending, spi_rx_valid, spi_rx_byte,
  transport_locked, active_transport_usb,
  frame_from_spi,                             \* and ingress_tid, its equal
  hosts,
  usb_run, usb_pos, usb_wait,                 \* USB host
  spi_run, spi_pos, spi_wait, cs_n,           \* SPI host
  sync_port,      \* the port the sync byte of the current frame came from
  sources,        \* the ports its bytes came from
  cs_at_choice,   \* the level of CS in the cycle after the sync byte
  parsed          \* frames the parser completed: [port, seq]

INSTANCE FcspParser

usbVars  == <<usb_rx_valid, usb_rx_byte, usb_run, usb_pos, usb_wait>>
spiVars  == <<cs_sync, sclk_byte, rx_valid_pending, rx_byte_pending, spi_rx_valid,
              spi_rx_byte, spi_run, spi_pos, spi_wait, cs_n>>
topVars  == <<transport_locked, active_transport_usb, frame_from_spi>>
vars == <<parserVars, hosts, usbVars, spiVars, topVars, sync_port, sources, cs_at_choice,
          parsed>>

\* High is TRUE.
spi_cs_n_sync == cs_sync[2]

\* A choice that is not locked.
sel_usb_rx_NoLock == spi_cs_n_sync /\ usb_rx_valid

\* The port the parser hears: the locked one; or SPI while CS is low; or USB when
\* it has a byte.
sel_usb_rx ==
  IF transport_locked THEN active_transport_usb
  ELSE spi_cs_n_sync /\ usb_rx_valid

in_valid == IF sel_usb_rx THEN usb_rx_valid ELSE spi_rx_valid
in_byte  == IF sel_usb_rx THEN usb_rx_byte ELSE spi_rx_byte

\* Lock with the frame, one cycle after its sync byte.
Lock ==
  LET take == ~transport_locked /\ ~parser_idle IN
  /\ transport_locked' = ~parser_idle
  /\ active_transport_usb' = IF take THEN sel_usb_rx ELSE active_transport_usb

\* A tag that is taken too late, from the byte that follows.
Tag_Late ==
  frame_from_spi' = IF ~parser_idle /\ hdr_idx = 1 THEN ~sel_usb_rx ELSE frame_from_spi

\* The tag is taken while o_parser_sync_seen is up, again one cycle after the byte.
Tag == frame_from_spi' = IF sync_seen THEN ~sel_usb_rx ELSE frame_from_spi

\* CS clears the parser whoever is talking.
clr_Always == spi_cs_n_sync

clr == frame_from_spi /\ spi_cs_n_sync

--------------------------------------------------------------------------------
\* USB.  A byte arrives when the host has waited long enough.
UsbLeft == usb_run <= Len(hosts.usb)
SpiLeft == spi_run <= Len(hosts.spi)
UsbArrives ==
  /\ UsbLeft /\ usb_wait = 0
  /\ hosts.order = "spi first" => ~SpiLeft
UsbNext == hosts.usb[usb_run][usb_pos]
UsbAdvance ==
  IF usb_pos < Len(hosts.usb[usb_run])
    THEN usb_run' = usb_run /\ usb_pos' = usb_pos + 1
    ELSE usb_run' = usb_run + 1 /\ usb_pos' = 1

\* fcsp_uart_byte_stream: a byte that finds the hold register full is lost; a byte
\* that is taken leaves it empty until the next one is complete.
UartRx(taken) ==
  /\ usb_rx_valid' = IF usb_rx_valid THEN ~taken ELSE UsbArrives
  /\ usb_rx_byte' = IF UsbArrives /\ ~usb_rx_valid THEN UsbNext ELSE usb_rx_byte
  /\ IF UsbArrives THEN UsbAdvance /\ usb_wait' \in hosts.usbWaits
     ELSE /\ usb_wait' = IF usb_wait = 0 THEN 0 ELSE usb_wait - 1
          /\ UNCHANGED <<usb_run, usb_pos>>

\* A driver that has the next byte of a run on the wires in the cycle after it was
\* rid of the one before, as the tests have.
StreamRx(taken) ==
  LET more == usb_pos > 1 /\ UsbLeft
      load == UsbLeft /\ (IF usb_rx_valid THEN taken /\ more ELSE UsbArrives) IN
  /\ usb_rx_valid' = (load \/ (usb_rx_valid /\ ~taken))
  /\ usb_rx_byte' = IF load THEN UsbNext ELSE usb_rx_byte
  /\ IF load THEN UsbAdvance /\ usb_wait' \in hosts.usbWaits
     ELSE /\ usb_wait' = IF usb_wait = 0 THEN 0 ELSE usb_wait - 1
          /\ UNCHANGED <<usb_run, usb_pos>>

Usb(r) ==
  LET taken == usb_rx_valid /\ sel_usb_rx /\ in_ready(r) IN
  IF hosts.shim THEN UartRx(taken) ELSE StreamRx(taken)

\* Nothing of USB is left in the shim or in the parser.
UsbDone == ~UsbLeft /\ ~usb_rx_valid /\ parser_idle /\ ~transport_locked

--------------------------------------------------------------------------------
\* SPI.  The host lowers CS, clocks the bytes of a burst and raises CS, each step
\* some cycles after the one before.
SpiHost ==
  LET burst == hosts.spi[spi_run]
      act == SpiLeft /\ spi_wait = 0
      lower == act /\ cs_n /\ (hosts.order = "usb first" => UsbDone)
      send  == act /\ ~cs_n /\ spi_pos <= Len(burst)
      raise == act /\ ~cs_n /\ spi_pos > Len(burst) IN
  /\ cs_n' = IF lower THEN FALSE ELSE IF raise THEN TRUE ELSE cs_n
  /\ spi_pos' = IF send THEN spi_pos + 1 ELSE IF raise THEN 1 ELSE spi_pos
  /\ spi_run' = IF raise THEN spi_run + 1 ELSE spi_run
  /\ IF lower \/ send \/ raise THEN spi_wait' \in hosts.spiWaits
     ELSE spi_wait' = IF spi_wait = 0 THEN 0 ELSE spi_wait - 1
  /\ cs_sync' = <<cs_n, cs_sync[1], cs_sync[2]>>
  /\ sclk_byte' = <<IF send THEN burst[spi_pos] ELSE NoByte, sclk_byte[1]>>

\* fcsp_spi_frontend, RX: the last bit of a byte sets the pending byte, which moves
\* to the output when that is free.  The later assignments of the block win.
SpiRx(taken) ==
  LET cs_active == ~cs_sync[3]
      cs_rise   == cs_active /\ cs_sync[2]
      complete  == cs_active /\ sclk_byte[2] # NoByte
      publish   == rx_valid_pending /\ ~spi_rx_valid IN
  /\ spi_rx_valid' = (publish \/ (spi_rx_valid /\ ~taken /\ ~cs_rise))
  /\ spi_rx_byte' = IF publish THEN rx_byte_pending ELSE spi_rx_byte
  /\ rx_valid_pending' = (~publish /\ (complete \/ (rx_valid_pending /\ ~cs_rise)))
  /\ rx_byte_pending' = IF complete THEN sclk_byte[2] ELSE rx_byte_pending

Spi(r) == SpiHost /\ SpiRx(spi_rx_valid /\ ~sel_usb_rx /\ in_ready(r))

--------------------------------------------------------------------------------
\* Bookkeeping: where the bytes of a frame come from, what CS was when its tag was
\* taken, and which frames were completed, with the tag they have then.
Watch(r) ==
  LET taken == in_valid /\ in_ready(r) /\ ~clr
      port  == IF sel_usb_rx THEN "usb" ELSE "spi" IN
  /\ sync_port' = IF taken /\ parser_idle THEN port ELSE sync_port
  /\ sources' = IF ~taken THEN sources
                ELSE IF parser_idle THEN {port} ELSE sources \cup {port}
  /\ cs_at_choice' = IF sync_seen THEN spi_cs_n_sync ELSE cs_at_choice
  /\ parsed' = IF frame_done
               THEN Append(parsed, [port |-> IF frame_from_spi THEN "spi" ELSE "usb",
                                    seq |-> header[4]])
               ELSE parsed

Init ==
  /\ ParserInit
  /\ usb_rx_valid = FALSE /\ usb_rx_byte = 0
  /\ cs_sync = <<TRUE, TRUE, TRUE>> /\ sclk_byte = <<NoByte, NoByte>>
  /\ rx_valid_pending = FALSE /\ rx_byte_pending = 0
  /\ spi_rx_valid = FALSE /\ spi_rx_byte = 0
  /\ transport_locked = FALSE /\ active_transport_usb = FALSE
  /\ frame_from_spi = FALSE
  /\ hosts \in Hosts
  /\ usb_run = 1 /\ usb_pos = 1 /\ usb_wait \in hosts.usbWaits
  /\ spi_run = 1 /\ spi_pos = 1 /\ spi_wait \in hosts.spiWaits
  /\ cs_n = TRUE
  /\ sync_port = "usb" /\ sources = {} /\ cs_at_choice = TRUE
  /\ parsed = <<>>

\* The CRC gate behind the parser takes a byte or not.
Next == \E r \in hosts.ready :
  /\ ParserClock(clr, in_valid, in_byte, r)
  /\ Usb(r) /\ Spi(r) /\ Lock /\ Tag /\ Watch(r)
  /\ UNCHANGED hosts

Spec == Init /\ [][Next]_vars

\* The clock runs; the hosts run on time.
FairSpec == Spec /\ WF_vars(Next)

--------------------------------------------------------------------------------
\* A frame is tagged with the port it comes from: the response goes back there, and
\* CS of SPI only aborts what SPI sent.
TagIsSource ==
  ~parser_idle /\ ~sync_seen => (frame_from_spi <=> "spi" \in sources)

\* What the tag does tell, whatever the other port does meanwhile.  A frame of a USB
\* driver with its next byte at hand has the right tag if and only if CS is high in the
\* cycle after its sync byte; a frame through fcsp_uart_byte_stream has that of SPI in
\* any case; and a frame of SPI has the right tag unless CS rises with its sync byte.
TagTells ==
  ~parser_idle /\ ~sync_seen =>
    /\ sync_port = "usb" /\ ~hosts.shim => (frame_from_spi <=> ~cs_at_choice)
    /\ sync_port = "usb" /\ hosts.shim => frame_from_spi
    /\ sync_port = "spi" /\ ~cs_at_choice => frame_from_spi

\* What the lock does give: when the choice made in the cycle after the sync byte is
\* the port of the sync byte, the rest of the frame is that port's, whatever CS does;
\* and the tag agrees with the lock on every frame, so that CS aborts a frame only when
\* the parser hears SPI for the length of it.
LockedToSyncPort == active_transport_usb = (sync_port = "usb")
LockHolds ==
  transport_locked /\ ~parser_idle =>
    /\ LockedToSyncPort => sources = {sync_port}
    /\ ~sync_seen => (frame_from_spi <=> ~active_transport_usb)

\* The frames in a stream of bytes: runs of FrameLen bytes that begin with a sync
\* byte and hold no other.
FramesIn(stream, port) ==
  {[port |-> port, seq |-> stream[p + 5]] :
     p \in {q \in 1 .. Len(stream) :
             /\ stream[q] = SYNC /\ q + FrameLen <= Len(stream) + 1
             /\ \A k \in q + 1 .. q + FrameLen - 1 : stream[k] # SYNC}}
SentFrames == FramesIn(FlattenSeq(hosts.usb), "usb") \cup FramesIn(FlattenSeq(hosts.spi), "spi")

\* Every frame a host sends is completed by the parser, once, under its port,
\* however the bytes are spread over bursts and runs.
AllParsed ==
  /\ {parsed[i] : i \in DOMAIN parsed} = SentFrames
  /\ Len(parsed) = Cardinality(SentFrames)
EveryFrameParsed == <>[]AllParsed

\* So it is as long as SPI starts when USB is done and USB has its bytes at hand.
EveryFrameParsedInTurn == hosts.order = "usb first" /\ ~hosts.shim => EveryFrameParsed

================================================================================

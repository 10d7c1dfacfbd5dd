--------------------------- MODULE FcspTransportProofs ---------------------------
(***************************************************************************)
(* Proofs about FcspTransport, for every set of hosts, whenever they send  *)
(* and however long they wait: what lock and tag give while both ports are *)
(* busy, and which port the tag of a frame names.                          *)
(***************************************************************************)
EXTENDS FcspTransport, SequenceTheorems, TLAPS

Port == {"usb", "spi"}

\* Inside a frame the top level is locked, but in the one cycle after the sync byte, when
\* the frame has no other byte yet.
Locking ==
  /\ sync_seen \in BOOLEAN /\ transport_locked \in BOOLEAN /\ active_transport_usb \in BOOLEAN
  /\ frame_from_spi \in BOOLEAN /\ sync_port \in Port
  /\ sync_seen => ~parser_idle /\ ~transport_locked
  /\ ~parser_idle /\ ~transport_locked => sync_seen /\ sources = {sync_port}

LockInv == Locking /\ LockHolds

--------------------------------------------------------------------------------
\* A frame begins with a sync byte that is taken, and sync_seen says so a cycle later.
LEMMA FrameBegins ==
  ASSUME NEW c, NEW v, NEW b, NEW r, ParserClock(c, v, b, r)
  PROVE  /\ sync_seen' \in BOOLEAN
         /\ sync_seen' => parser_idle
         /\ sync_seen' => ~parser_idle' /\ ~c /\ v /\ b = SYNC
         /\ parser_idle /\ ~parser_idle' => sync_seen'
<1>1. CASE c /\ Clear  BY <1>1 DEF Clear, parser_idle
<1>2. CASE ~c /\ ~v /\ Silence(r)  BY <1>2 DEF Silence, parser_idle
<1>3. CASE ~c /\ v /\ SearchSync(b, r)  BY <1>3 DEF SearchSync, parser_idle
<1>4. CASE ~c /\ v /\ ReadHeader(b, r)  BY <1>4 DEF ReadHeader, parser_idle
<1>5. CASE ~c /\ v /\ ReadPayload(b, r)  BY <1>5 DEF ReadPayload, parser_idle
<1>6. CASE ~c /\ v /\ ReadCrc(b, r)  BY <1>6 DEF ReadCrc, parser_idle
<1> QED  BY <1>1, <1>2, <1>3, <1>4, <1>5, <1>6 DEF ParserClock, Receive

\* What a clock edge does to the frame, in terms of the level of `taken`.
LEMMA LockingKept == Locking /\ Next => Locking'
<1> SUFFICES ASSUME Locking, Next PROVE Locking'  OBVIOUS
<1>1. PICK r \in hosts.ready :
        ParserClock(clr, in_valid, in_byte, r) /\ Lock /\ Tag /\ Watch(r)
  BY DEF Next
<1>2. /\ sync_seen' \in BOOLEAN
      /\ sync_seen' => parser_idle
      /\ sync_seen' => ~parser_idle' /\ ~clr /\ in_valid /\ in_byte = SYNC
      /\ parser_idle /\ ~parser_idle' => sync_seen'
  BY <1>1, FrameBegins
<1>3. /\ transport_locked' = ~parser_idle
      /\ active_transport_usb' \in BOOLEAN /\ frame_from_spi' \in BOOLEAN
  BY <1>1 DEF Lock, Tag, Locking, sel_usb_rx
<1>4. sync_port' \in Port  BY <1>1 DEF Watch, Locking, Port
<1>5. sync_seen' => sources' = {sync_port'}
  <2> SUFFICES ASSUME sync_seen' PROVE sources' = {sync_port'}  OBVIOUS
  <2>1. in_ready(r)  BY <1>2 DEF in_ready, parser_idle
  <2> QED  BY <1>1, <1>2, <2>1 DEF Watch
<1> QED  BY <1>2, <1>3, <1>4, <1>5 DEF Locking

LEMMA LockHoldsKept == LockInv /\ Next => LockHolds'
<1> SUFFICES ASSUME LockInv, Next, transport_locked', ~parser_idle'
             PROVE  /\ LockedToSyncPort' => sources' = {sync_port'}
                    /\ ~sync_seen' => (frame_from_spi' <=> ~active_transport_usb')
  BY DEF LockHolds
<1> DEFINE port == IF sel_usb_rx THEN "usb" ELSE "spi"
<1>1. PICK r \in hosts.ready : Lock /\ Tag /\ Watch(r)  BY DEF Next
<1>2. ~parser_idle  BY <1>1 DEF Lock
<1>3. sync_port' = sync_port /\ sources' \in {sources, sources \cup {port}}
  BY <1>1, <1>2 DEF Watch
<1>4. active_transport_usb' = sel_usb_rx
  BY <1>1, <1>2 DEF Lock, sel_usb_rx
<1>5. CASE transport_locked
  <2>1. /\ LockedToSyncPort => sources = {sync_port}
        /\ frame_from_spi <=> ~active_transport_usb
        /\ ~sync_seen
    BY <1>2, <1>5 DEF LockInv, LockHolds, Locking
  <2>2. active_transport_usb' = active_transport_usb  BY <1>4, <1>5 DEF sel_usb_rx
  <2>3. frame_from_spi' = frame_from_spi  BY <1>1, <2>1 DEF Tag
  <2>4. LockedToSyncPort' => port = sync_port
    BY <1>3, <1>4 DEF LockedToSyncPort, LockInv, Locking, Port
  <2>5. LockedToSyncPort' <=> LockedToSyncPort  BY <1>3, <2>2 DEF LockedToSyncPort
  <2>6. LockedToSyncPort' => sources' = {sync_port'}  BY <1>3, <2>1, <2>4, <2>5
  <2> QED  BY <2>1, <2>2, <2>3, <2>6
<1>6. CASE ~transport_locked
  <2>1. sync_seen /\ sources = {sync_port}  BY <1>2, <1>6 DEF LockInv, Locking
  <2>2. frame_from_spi' = ~sel_usb_rx  BY <1>1, <2>1 DEF Tag
  <2>3. LockedToSyncPort' => port = sync_port
    BY <1>3, <1>4 DEF LockedToSyncPort, LockInv, Locking, Port
  <2>4. LockedToSyncPort' => sources' = {sync_port'}  BY <1>3, <2>1, <2>3
  <2> QED  BY <1>4, <2>2, <2>4
<1> QED  BY <1>5, <1>6

LEMMA InitLock == Init => LockInv
BY DEF Init, ParserInit, LockInv, Locking, LockHolds, parser_idle, Port

LEMMA NextLock == LockInv /\ [Next]_vars => LockInv'
<1> SUFFICES ASSUME LockInv, [Next]_vars PROVE LockInv'  OBVIOUS
<1>1. CASE Next  BY <1>1, LockingKept, LockHoldsKept DEF LockInv
<1>2. CASE UNCHANGED vars
  BY <1>2 DEF vars, parserVars, topVars, LockInv, Locking, LockHolds, LockedToSyncPort,
              parser_idle
<1> QED  BY <1>1, <1>2

\* transport_locked, active_transport_usb, frame_from_spi (fcsp_offloader_top.sv): once the
\* choice of the cycle after the sync byte has been locked, a frame whose sync byte came from
\* that port has all its bytes from there, whatever the other host and CS do; and the tag
\* says what the lock says.
THEOREM LockAndTagAgree == Spec => []LockHolds
<1>1. LockInv => LockHolds  BY DEF LockInv
<1> QED  BY <1>1, InitLock, NextLock, PTL DEF Spec

--------------------------------------------------------------------------------
\* The tag.  A driver without shim has the byte after a sync byte in its register.
UsbHost ==
  /\ usb_run \in Nat \ {0} /\ usb_pos \in Nat \ {0} /\ usb_rx_valid \in BOOLEAN
  /\ UsbLeft => usb_pos <= Len(hosts.usb[usb_run])
  /\ usb_rx_valid /\ usb_rx_byte = SYNC => usb_pos > 1 /\ UsbLeft

\* In the cycle the tag is taken, the register of USB has the next byte or, with the shim,
\* is empty; afterwards the tag tells what it can.
TagInv ==
  /\ hosts \in Hosts
  /\ ~hosts.shim => UsbHost
  /\ sync_seen /\ sync_port = "usb" => (usb_rx_valid <=> ~hosts.shim)
  /\ TagTells

\* It holds at reset.
LEMMA InitTag == Init => TagInv
<1> SUFFICES ASSUME Init PROVE TagInv  OBVIOUS
<1>1. ASSUME ~hosts.shim PROVE UsbHost
  <2>1. hosts \in Hosts /\ usb_run = 1 /\ usb_pos = 1 /\ usb_rx_valid = FALSE  BY DEF Init
  <2>2. hosts.usb \in Seq(Seq(Byte) \ {<<>>})  BY <1>1, <2>1, HostsAssumption
  <2>3. UsbLeft => Len(hosts.usb[1]) \in Nat \ {0}
    BY <2>1, <2>2, LenProperties, ElementOfSeq, EmptySeq DEF UsbLeft
  <2>4. UsbLeft => usb_pos <= Len(hosts.usb[usb_run])  BY <2>1, <2>3
  <2>5. usb_rx_valid \in BOOLEAN /\ ~usb_rx_valid  BY <2>1
  <2> QED  BY <2>1, <2>4, <2>5 DEF UsbHost
<1>2. hosts \in Hosts /\ ~sync_seen /\ parser_idle  BY DEF Init, ParserInit, parser_idle
<1> QED  BY <1>1, <1>2 DEF TagInv, TagTells

\* The driver loads the next byte of a run with the one that is taken, so that a sync byte
\* in the register has the byte after it still to come.
LEMMA StreamKept ==
  ASSUME hosts \in Hosts, ~hosts.shim, UsbHost, NEW taken \in BOOLEAN, StreamRx(taken),
         hosts' = hosts
  PROVE  UsbHost' /\ (usb_rx_valid /\ usb_rx_byte = SYNC /\ taken => usb_rx_valid')
<1>1. /\ hosts.usb \in Seq(Seq(Byte) \ {<<>>})
      /\ \A i \in 1 .. Len(hosts.usb) : hosts.usb[i][Len(hosts.usb[i])] # SYNC
  BY HostsAssumption
<1>2. \A i \in 1 .. Len(hosts.usb) : Len(hosts.usb[i]) \in Nat \ {0}
  BY <1>1, LenProperties, ElementOfSeq, EmptySeq
<1>3. Len(hosts.usb) \in Nat  BY <1>1, LenProperties
<1> DEFINE load == UsbLeft /\ (IF usb_rx_valid THEN taken /\ usb_pos > 1 /\ UsbLeft
                                               ELSE UsbArrives)
<1>4. /\ usb_rx_valid' = (load \/ (usb_rx_valid /\ ~taken))
      /\ usb_rx_byte' = IF load THEN UsbNext ELSE usb_rx_byte
      /\ IF load THEN UsbAdvance ELSE UNCHANGED <<usb_run, usb_pos>>
  BY DEF StreamRx
<1>5. usb_rx_valid' \in BOOLEAN /\ (usb_rx_valid' <=> load \/ (usb_rx_valid /\ ~taken))
  BY <1>4
<1>6. CASE load
  <2>1. usb_run \in 1 .. Len(hosts.usb)  BY <1>3, <1>6 DEF UsbLeft, UsbHost
  <2>2. CASE usb_pos < Len(hosts.usb[usb_run])
    <3>1. usb_run' = usb_run /\ usb_pos' = usb_pos + 1
      BY <1>4, <1>6, <2>2 DEF UsbAdvance
    <3>2. UsbHost'  BY <1>2, <1>5, <1>6, <2>1, <2>2, <3>1 DEF UsbHost, UsbLeft
    <3> QED  BY <1>5, <1>6, <3>2
  <2>3. CASE ~(usb_pos < Len(hosts.usb[usb_run]))
    <3>1. usb_run' = usb_run + 1 /\ usb_pos' = 1  BY <1>4, <1>6, <2>3 DEF UsbAdvance
    <3>2. usb_pos = Len(hosts.usb[usb_run])  BY <1>2, <1>6, <2>1, <2>3 DEF UsbHost
    <3>3. usb_rx_byte' # SYNC  BY <1>1, <1>4, <1>6, <2>1, <3>2 DEF UsbNext
    <3>4. UsbLeft' => 1 <= Len(hosts.usb[usb_run + 1])
      BY <1>2, <1>3, <2>1, <3>1 DEF UsbLeft
    <3>5. UsbHost'  BY <1>5, <3>1, <3>3, <3>4 DEF UsbHost
    <3> QED  BY <1>5, <1>6, <3>5
  <2> QED  BY <2>2, <2>3
<1>7. CASE ~load
  <2>1. UNCHANGED <<usb_run, usb_pos, usb_rx_byte>>  BY <1>4, <1>7
  <2>2. UsbLeft' <=> UsbLeft  BY <2>1 DEF UsbLeft
  <2>3. usb_rx_valid' => usb_rx_valid /\ ~taken  BY <1>5, <1>7
  <2>4. UsbHost'  BY <1>5, <2>1, <2>2, <2>3 DEF UsbHost
  <2>5. usb_rx_valid /\ usb_rx_byte = SYNC /\ taken => load  BY DEF UsbHost
  <2> QED  BY <1>7, <2>2, <2>3, <2>4, <2>5
<1> QED  BY <1>6, <1>7

\* A clock edge keeps what the tag tells.
LEMMA TagKept == LockInv /\ TagInv /\ Next => TagInv'
<1> SUFFICES ASSUME LockInv, TagInv, Next PROVE TagInv'  OBVIOUS
<1>1. PICK r \in hosts.ready :
        /\ ParserClock(clr, in_valid, in_byte, r)
        /\ Usb(r) /\ Tag /\ Watch(r) /\ hosts' = hosts
  BY DEF Next
<1>2. /\ sync_seen' => parser_idle
      /\ sync_seen' => ~parser_idle' /\ ~clr /\ in_valid /\ in_byte = SYNC
      /\ parser_idle /\ ~parser_idle' => sync_seen'
  BY <1>1, FrameBegins
<1>3. hosts \in Hosts /\ hosts' \in Hosts /\ hosts'.shim = hosts.shim  BY <1>1 DEF TagInv
<1> DEFINE taken == usb_rx_valid /\ sel_usb_rx /\ in_ready(r)
<1>4. ASSUME ~hosts.shim
      PROVE  UsbHost' /\ (usb_rx_byte = SYNC /\ taken => usb_rx_valid')
  <2>1. StreamRx(taken) /\ UsbHost  BY <1>1, <1>4 DEF Usb, TagInv
  <2>2. taken \in BOOLEAN /\ (taken => usb_rx_valid)  BY <2>1 DEF UsbHost
  <2> HIDE DEF taken
  <2> QED  BY <1>1, <1>3, <1>4, <2>1, <2>2, StreamKept
<1>5. ASSUME hosts.shim, taken PROVE ~usb_rx_valid'
  BY <1>1, <1>5 DEF Usb, UartRx
<1>6. ASSUME sync_seen', sync_port' = "usb" PROVE usb_rx_valid' <=> ~hosts.shim
  <2>1. in_ready(r) /\ parser_idle /\ in_valid /\ in_byte = SYNC /\ ~clr
    BY <1>2, <1>6 DEF in_ready, parser_idle
  <2>2. sel_usb_rx  BY <1>1, <1>6, <2>1 DEF Watch
  <2>3. taken /\ usb_rx_byte = SYNC  BY <2>1, <2>2 DEF in_valid, in_byte
  <2> QED  BY <1>4, <1>5, <2>3
<1>7. TagTells'
  <2> SUFFICES ASSUME ~parser_idle', ~sync_seen'
               PROVE  /\ sync_port' = "usb" /\ ~hosts.shim =>
                           (frame_from_spi' <=> ~cs_at_choice')
                      /\ sync_port' = "usb" /\ hosts.shim => frame_from_spi'
                      /\ sync_port' = "spi" /\ ~cs_at_choice' => frame_from_spi'
    BY <1>3 DEF TagTells
  <2>1. ~parser_idle  BY <1>2
  <2>2. sync_port' = sync_port  BY <1>1, <2>1 DEF Watch
  <2>3. CASE sync_seen
    <3>1. sel_usb_rx <=> spi_cs_n_sync /\ usb_rx_valid
      BY <2>3 DEF LockInv, Locking, sel_usb_rx
    <3>2. (frame_from_spi' <=> ~sel_usb_rx) /\ (cs_at_choice' <=> spi_cs_n_sync)
      BY <1>1, <2>3 DEF Tag, Watch
    <3>3. sync_port = "usb" => (usb_rx_valid <=> ~hosts.shim)  BY <2>3 DEF TagInv
    <3> QED  BY <2>2, <3>1, <3>2, <3>3
  <2>4. CASE ~sync_seen
    <3>1. (frame_from_spi' <=> frame_from_spi) /\ (cs_at_choice' <=> cs_at_choice)
      BY <1>1, <2>4 DEF Tag, Watch
    <3> QED  BY <2>1, <2>2, <2>4, <3>1 DEF TagInv, TagTells
  <2> QED  BY <2>3, <2>4
<1> QED  BY <1>3, <1>4, <1>6, <1>7 DEF TagInv

\* Also a step of nothing.
LEMMA NextTag == LockInv /\ TagInv /\ [Next]_vars => TagInv'
<1> SUFFICES ASSUME LockInv, TagInv, UNCHANGED vars PROVE TagInv'  BY TagKept
<1> QED  BY DEF vars, parserVars, usbVars, topVars, TagInv, UsbHost, UsbLeft, TagTells,
                parser_idle

\* frame_from_spi (fcsp_offloader_top.sv): whatever both hosts send and whenever.  A frame of
\* a driver with its next byte at hand is tagged with USB if and only if CS is high in the
\* cycle after its sync byte; behind fcsp_uart_byte_stream every USB frame is tagged with
\* SPI; a frame of SPI is tagged with SPI unless CS is high in that cycle.
THEOREM TagOfEveryFrame == Spec => []TagTells
<1>1. TagInv => TagTells  BY DEF TagInv
<1> QED  BY <1>1, InitLock, NextLock, InitTag, NextTag, PTL DEF Spec

================================================================================

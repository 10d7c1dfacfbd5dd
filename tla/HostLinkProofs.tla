------------------------------ MODULE HostLinkProofs ------------------------------
(***************************************************************************)
(* What holds of the bridge between a host and the ESCs, for any number of  *)
(* motors, any ESCs and any frames of the host: which ESC it asks, and what *)
(* an Ok is worth.  Both follow from the exchanges a job still has before   *)
(* it, which are told from the first of them.                              *)
(***************************************************************************)
EXTENDS HostLink, SequenceTheorems, TLAPS

\* The exchanges left of a job: talk with the bootloader of the ESC in hand, a connection
\* (three attempts), or a reset of the ESC.
Talks     == Seq(Exchange)
Connects  == {<<"select", "connect", "connect", "connect">>, <<"connect", "connect", "connect">>,
              <<"connect", "connect">>, <<"connect">>}
Resets    == {<<"select", "run">>, <<"select", "run", "restart">>, <<"run">>,
              <<"run", "restart">>, <<"restart">>}

\* The records keep their fields.
EscState == [buffer: {"none", "armed", "full"}, did: BOOLEAN]

Shapes ==
  /\ pt = [active |-> pt.active, motor |-> pt.motor,
           block_until |-> pt.block_until, forced_off |-> pt.forced_off]
  /\ job = [frame |-> job.frame, steps |-> job.steps, data |-> job.data, ack |-> job.ack]
  /\ esc \in EscState

\* The ESC in hand is the one that introduced itself on the line of passthrough, but between
\* the selection of another motor for a reset and the command to run that forgets the ESC.
InHand == pt.active /\ linked = pt.motor

Known ==
  /\ job.steps \in Talks \cup Connects \cup Resets
  /\ job.steps \in Talks /\ job.steps # <<>> => InHand
  /\ job.steps \in Connects => g_device_info = 0
  /\ job.steps \in Connects /\ Head(job.steps) = "connect" => pt.active
  /\ job.steps = <<"restart">> => g_device_info = 0
  /\ g_device_info # 0 => InHand \/ job.steps \in {<<"run">>, <<"run", "restart">>}

\* What a job has to show for itself, and the exchange that does it.
Deeds == {kCmd.DeviceWrite, kCmd.DeviceWriteEEprom, kCmd.DeviceVerify, kCmd.DevicePageErase}
Deed  == {"program", "verify", "erase"}

Undone == job.steps \in Talks /\ job.steps # <<>> /\ job.steps[Len(job.steps)] \in Deed

\* A job that found nothing outstanding leaves nothing outstanding behind an exchange that
\* succeeds.
Honest ==
  caught_up /\ job.frame # <<>> /\ job.ack = kAck.Ok /\ cmd(job.frame) \in Deeds =>
    \/ Undone /\ esc_rx = <<>> /\ esc_late = <<>>
    \/ job.steps = <<>> /\ esc.did

HostInv == Shapes /\ Known /\ Honest

--------------------------------------------------------------------------------
\* What the server asks of an ESC.

LEMMA Kinds ==
  /\ <<"restart">> \notin Talks /\ <<"run">> \notin Talks /\ <<"run", "restart">> \notin Talks
  /\ <<"select", "run">> \notin Talks /\ <<"select", "run", "restart">> \notin Talks
  /\ <<"select", "connect", "connect", "connect">> \notin Talks
  /\ <<"connect", "connect", "connect">> \notin Talks
  /\ <<"connect", "connect">> \notin Talks /\ <<"connect">> \notin Talks
  /\ <<>> \in Talks
  /\ \A x \in Exchange : x \notin {"select", "connect", "run", "restart"}
<1>1. \A s \in Talks : s # <<>> => s[1] \in Exchange  BY ElementOfSeq, EmptySeq DEF Talks
<1> QED  BY <1>1 DEF Exchange, Talks

LEMMA Pieces ==
  /\ Head(<<"select", "connect", "connect", "connect">>) = "select"
  /\ Tail(<<"select", "connect", "connect", "connect">>) = <<"connect", "connect", "connect">>
  /\ Head(<<"connect", "connect", "connect">>) = "connect"
  /\ Tail(<<"connect", "connect", "connect">>) = <<"connect", "connect">>
  /\ Head(<<"connect", "connect">>) = "connect"
  /\ Tail(<<"connect", "connect">>) = <<"connect">>
  /\ Head(<<"connect">>) = "connect" /\ Len(<<"connect">>) = 1
  /\ Head(<<"select", "run">>) = "select" /\ Tail(<<"select", "run">>) = <<"run">>
  /\ Head(<<"select", "run", "restart">>) = "select"
  /\ Tail(<<"select", "run", "restart">>) = <<"run", "restart">>
  /\ Head(<<"run">>) = "run" /\ Tail(<<"run">>) = <<>>
  /\ Head(<<"run", "restart">>) = "run" /\ Tail(<<"run", "restart">>) = <<"restart">>
  /\ Head(<<"restart">>) = "restart" /\ Tail(<<"restart">>) = <<>>
OBVIOUS

LEMMA ConnectedIsKnown == Connected => g_device_info # 0
BY DEF Connected

\* A frame that is accepted: nothing, talk with an ESC the server knows, a connection or a
\* reset.  A deed is the last of its exchanges.
LEMMA Accepted ==
  ASSUME NEW f, Verdict(f) = kAck.Ok
  PROVE  /\ \/ Exchanges(f) = <<>>
            \/ Exchanges(f) \in Talks /\ Connected
            \/ /\ Exchanges(f) \in Connects /\ Head(Exchanges(f)) = "select"
               /\ cmd(f) = kCmd.DeviceInitFlash
            \/ Exchanges(f) \in Resets /\ Head(Exchanges(f)) = "select"
         /\ cmd(f) \in Deeds => /\ Exchanges(f) \in Talks /\ Exchanges(f) # <<>>
                                /\ Exchanges(f)[Len(Exchanges(f))] \in Deed
<1> USE DEF kCmd, kAck
<1>1. CASE cmd(f) = kCmd.InterfaceTestAlive
  <2>1. Exchanges(f) = IF Connected THEN <<"keep_alive">> ELSE <<>>  BY <1>1 DEF Exchanges
  <2>2. <<"keep_alive">> \in Talks  BY DEF Talks, Exchange
  <2>3. cmd(f) \notin Deeds  BY <1>1 DEF Deeds
  <2> QED  BY <2>1, <2>2, <2>3
<1>2. CASE cmd(f) = kCmd.DeviceInitFlash
  <2>1. Exchanges(f) = <<"select", "connect", "connect", "connect">>  BY <1>2 DEF Exchanges
  <2> QED  BY <1>2, <2>1 DEF Connects, Deeds
<1>3. CASE cmd(f) = kCmd.DeviceReset
  <2>1. Exchanges(f) = <<"select", "run">> \o IF f[4] = 1 THEN <<"restart">> ELSE <<>>
    BY <1>3 DEF Exchanges
  <2>2. <<"select", "run">> \o <<>> = <<"select", "run">>  OBVIOUS
  <2>3. <<"select", "run">> \o <<"restart">> = <<"select", "run", "restart">>
    <3> DEFINE s == <<"select", "run">> \o <<"restart">>
               t == <<"select", "run", "restart">>
    <3>1. /\ s \in Seq({"select", "run", "restart"}) /\ Len(s) = 3
          /\ s[1] = "select" /\ s[2] = "run" /\ s[3] = "restart"
      OBVIOUS
    <3>2. t \in Seq({"select", "run", "restart"}) /\ Len(t) = 3
      OBVIOUS
    <3>3. \A k \in 1 .. 3 : s[k] = t[k]  BY <3>1
    <3> HIDE DEF s, t
    <3> QED  BY <3>1, <3>2, <3>3, SeqEqual DEF s, t
  <2>4. Exchanges(f) \in Resets /\ Head(Exchanges(f)) = "select"
    BY <2>1, <2>2, <2>3, Pieces, Zenon DEF Resets
  <2> QED  BY <1>3, <2>4 DEF Deeds
<1>4. CASE cmd(f) \in NeedsEsc
  <2>1. Connected  BY <1>4 DEF Verdict, NeedsEsc, NeedsParameter
  <2> DEFINE a == bl_send_cmd_set_address(f)
  <2>2. a \in {<<>>, <<"set_address">>}  BY DEF bl_send_cmd_set_address
  <2> HIDE DEF a
  <2>3. CASE cmd(f) = kCmd.DevicePageErase
    <3>1. Exchanges(f) = <<"set_address", "erase">>  BY <2>3 DEF Exchanges
    <3> QED  BY <2>1, <3>1 DEF Talks, Exchange, Deed
  <2>4. CASE cmd(f) \in {kCmd.DeviceRead, kCmd.DeviceReadEEprom}
    <3>1. Exchanges(f) = a \o <<"read">>  BY <2>4 DEF Exchanges, a
    <3>2. a \o <<"read">> \in Talks
      <4>1. <<>> \in Seq(Exchange) /\ <<"set_address">> \in Seq(Exchange)
            /\ <<"read">> \in Seq(Exchange)
        BY DEF Exchange
      <4> QED  BY <2>2, <4>1, ConcatProperties DEF Talks
    <3>3. cmd(f) \notin Deeds  BY <2>4 DEF Deeds
    <3> QED  BY <2>1, <3>1, <3>2, <3>3
  <2>5. CASE cmd(f) \in {kCmd.DeviceWrite, kCmd.DeviceWriteEEprom, kCmd.DeviceVerify}
    <3>1. Exchanges(f) \in {a \o <<"set_buffer", "data">> \o <<"program">>,
                            a \o <<"set_buffer", "data">> \o <<"verify">>}
      BY <2>5 DEF Exchanges, bl_send_cmd_set_buffer, a
    <3>2. ASSUME NEW d \in {"program", "verify"}, NEW s,
                 s = a \o <<"set_buffer", "data">> \o <<d>>
          PROVE  s \in Talks /\ s # <<>> /\ s[Len(s)] \in Deed
      <4> DEFINE b == a \o <<"set_buffer", "data">>
      <4>1. a \in Talks /\ <<"set_buffer", "data">> \in Talks /\ <<d>> \in Talks
            /\ Len(<<d>>) = 1
        <5>1. <<>> \in Talks /\ <<"set_address">> \in Talks  BY DEF Talks, Exchange
        <5>2. a \in Talks  BY <2>2, <5>1
        <5>3. <<"set_buffer", "data">> \in Talks  BY DEF Talks, Exchange
        <5>4. <<d>> \in Talks /\ Len(<<d>>) = 1  BY DEF Talks, Exchange
        <5> QED  BY <5>2, <5>3, <5>4
      <4>2. b \in Talks  BY <4>1, ConcatProperties DEF Talks
      <4> HIDE DEF b
      <4>3. b \o <<d>> \in Talks /\ Len(b \o <<d>>) = Len(b) + 1
            /\ (b \o <<d>>)[Len(b) + 1] = d
        BY <4>1, <4>2, ConcatProperties DEF Talks
      <4>4. Len(b) \in Nat  BY <4>2, LenProperties DEF Talks
      <4>5. s = b \o <<d>>  BY <3>2 DEF b
      <4> QED  BY <4>3, <4>4, <4>5, EmptySeq DEF Deed
    <3>3. Exchanges(f) \in Talks /\ Exchanges(f) # <<>>
          /\ Exchanges(f)[Len(Exchanges(f))] \in Deed
      BY <3>1, <3>2
    <3> QED  BY <2>1, <3>3
  <2> QED  BY <1>4, <2>3, <2>4, <2>5 DEF NeedsEsc, NeedsParameter
<1>5. CASE cmd(f) \notin NeedsEsc \cup {kCmd.InterfaceTestAlive, kCmd.DeviceInitFlash,
                                       kCmd.DeviceReset}
  <2>1. Exchanges(f) = <<>> /\ cmd(f) \notin Deeds
    BY <1>5 DEF Exchanges, NeedsEsc, NeedsParameter, Deeds
  <2> QED  BY <2>1
<1> QED  BY <1>1, <1>2, <1>3, <1>4, <1>5

\* The exchanges one after the other.
LEMMA TalkOn ==
  ASSUME NEW s \in Talks, s # <<>>
  PROVE  /\ Head(s) \in Exchange /\ Tail(s) \in Talks
         /\ Tail(s) # <<>> => Tail(s)[Len(Tail(s))] = s[Len(s)]
         /\ Tail(s) = <<>> => s[Len(s)] = Head(s)
<1>1. Head(s) \in Exchange /\ Tail(s) \in Talks /\ Len(Tail(s)) = Len(s) - 1
  BY HeadTailProperties DEF Talks
<1>2. Len(s) \in Nat \ {0}  BY EmptySeq, LenProperties DEF Talks
<1>3. CASE Tail(s) # <<>>
  <2>1. Len(Tail(s)) \in 1 .. Len(s) - 1
    BY <1>1, <1>2, <1>3, EmptySeq, LenProperties DEF Talks
  <2>2. Tail(s)[Len(s) - 1] = s[Len(s)]
    BY <1>1, <1>2, <2>1, HeadTailProperties DEF Talks
  <2> QED  BY <1>1, <1>3, <2>2
<1>4. CASE Tail(s) = <<>>
  <2>1. Len(s) = 1  BY <1>1, <1>2, <1>4
  <2> QED  BY <1>1, <1>4, <2>1
<1> QED  BY <1>1, <1>3, <1>4

LEMMA Selecting ==
  ASSUME Known, Working("select")
  PROVE  \/ job.steps \in Connects /\ Tail(job.steps) \in Connects
            /\ Head(Tail(job.steps)) = "connect"
         \/ job.steps \in Resets /\ Tail(job.steps) \in {<<"run">>, <<"run", "restart">>}
<1>1. job.steps \notin Talks
  <2> SUFFICES ASSUME job.steps \in Talks PROVE FALSE  OBVIOUS
  <2> QED  BY TalkOn, Kinds DEF Working
<1> QED  BY <1>1, Pieces, Zenon DEF Known, Working, Connects, Resets

LEMMA Connecting ==
  ASSUME Known, Working("connect")
  PROVE  /\ job.steps \in Connects
         /\ \/ Len(job.steps) = 1
            \/ Tail(job.steps) \in Connects
<1>1. job.steps \notin Talks
  <2> SUFFICES ASSUME job.steps \in Talks PROVE FALSE  OBVIOUS
  <2> QED  BY TalkOn, Kinds DEF Working
<1> QED  BY <1>1, Pieces, Zenon DEF Known, Working, Connects, Resets

LEMMA Running ==
  ASSUME Known, Working("run")
  PROVE  job.steps \in {<<"run">>, <<"run", "restart">>}
         /\ Tail(job.steps) \in {<<>>, <<"restart">>}
<1>1. job.steps \notin Talks
  <2> SUFFICES ASSUME job.steps \in Talks PROVE FALSE  OBVIOUS
  <2> QED  BY TalkOn, Kinds DEF Working
<1> QED  BY <1>1, Pieces, Zenon DEF Known, Working, Connects, Resets

LEMMA Restarting ==
  ASSUME Known, Working("restart")
  PROVE  job.steps = <<"restart">> /\ Tail(job.steps) = <<>>
<1>1. job.steps \notin Talks
  <2> SUFFICES ASSUME job.steps \in Talks PROVE FALSE  OBVIOUS
  <2> QED  BY TalkOn, Kinds DEF Working
<1> QED  BY <1>1, Pieces, Zenon DEF Known, Working, Connects, Resets

LEMMA Talking ==
  ASSUME Known, NEW x \in Exchange, Working(x)
  PROVE  job.steps \in Talks /\ job.steps # <<>> /\ x = Head(job.steps)
<1>1. job.steps \notin Connects \cup Resets
  BY Kinds DEF Working, Connects, Resets
<1> QED  BY <1>1 DEF Known, Working

--------------------------------------------------------------------------------
\* The firmware.

\* A server that knows no ESC and asks nothing.
LEMMA Forgotten ==
  ASSUME job'.steps = <<>>, g_device_info' = 0
  PROVE  Known'
BY Kinds DEF Known, Connects, Resets

LEMMA IdleShape == IdleEsc \in EscState
BY DEF IdleEsc, EscState

LEMMA StepMsp ==
  ASSUME HostInv, job = NoJob, NEW byte, msp_byte(byte)
  PROVE  HostInv'
<1> USE DEF HostInv
<1>1. job' = NoJob /\ linked' = linked  BY DEF msp_byte
<1>2. Honest'  BY <1>1 DEF Honest, NoJob
<1>3. CASE \E q : set_passthrough(q)
  <2>1. PICK q : set_passthrough(q)  BY <1>3
  <2>2. g_device_info' = 0  BY <2>1 DEF set_passthrough, ServerReset
  <2>3. Known'  BY <1>1, <2>2, Forgotten DEF NoJob
  <2>4. Shapes'
    <3> DEFINE ended == IF pt.active THEN Ended(pt, 0) ELSE pt
               m == PassthroughMotor(q.payload)
    <3>1. ended = [active |-> ended.active, motor |-> ended.motor,
                   block_until |-> ended.block_until, forced_off |-> ended.forced_off]
      BY DEF Shapes, Ended
    <3>2. pt' = IF m # NoMotor THEN Begun(ended, m) ELSE ended
      BY <2>1 DEF set_passthrough
    <3> HIDE DEF ended, m
    <3>3. pt' = [active |-> pt'.active, motor |-> pt'.motor,
                 block_until |-> pt'.block_until, forced_off |-> pt'.forced_off]
      BY <3>1, <3>2 DEF Begun
    <3>4. esc' = esc \/ esc' = IdleEsc  BY <2>1 DEF set_passthrough
    <3>5. job' = [frame |-> job'.frame, steps |-> job'.steps, data |-> job'.data,
                 ack |-> job'.ack]
      BY <1>1 DEF NoJob
    <3> QED  BY <3>3, <3>4, <3>5, IdleShape DEF Shapes
  <2> QED  BY <1>2, <2>3, <2>4
<1>4. CASE ~\E q : set_passthrough(q)
  <2>1. UNCHANGED <<pt, g_device_info, esc>>
    BY <1>4 DEF msp_byte, msp_process_command, set_debug_level, set_motor, reply_only, escVars
  <2>2. Known'  BY <1>1, <2>1 DEF Known, InHand
  <2> QED  BY <1>1, <1>2, <2>1, <2>2 DEF Shapes
<1> QED  BY <1>3, <1>4

LEMMA StepIdle ==
  ASSUME HostInv, job = NoJob, four_way_done
  PROVE  HostInv'
<1> USE DEF HostInv
<1>1. job' = NoJob /\ linked' = linked /\ esc' = esc
  BY DEF four_way_done, serverVars, escVars
<1>2. Honest'  BY <1>1 DEF Honest, NoJob
<1>3. CASE had_activity
  <2>1. UNCHANGED <<pt, g_device_info>>  BY <1>3 DEF four_way_done, serverVars
  <2> QED  BY <1>1, <1>2, <2>1 DEF Known, InHand, Shapes
<1>4. CASE ~had_activity
  <2>1. pt' = Ended(pt, 0) /\ g_device_info' = 0  BY <1>4 DEF four_way_done, ServerReset
  <2>2. Known'  BY <1>1, <2>1, Forgotten DEF NoJob
  <2>3. Shapes'  BY <1>1, <2>1 DEF Shapes, Ended
  <2> QED  BY <1>2, <2>2, <2>3
<1> QED  BY <1>3, <1>4

LEMMA StepFrame ==
  ASSUME HostInv, job = NoJob, NEW byte, handle_frame(byte), UNCHANGED linked,
         caught_up' = (job' # NoJob => esc_rx = <<>> /\ esc_late = <<>>)
  PROVE  HostInv'
<1> USE DEF HostInv
<1> DEFINE f == Append(g_rx, byte)
           ack == IF valid_crc(g_rx, byte) THEN Verdict(f) ELSE kAck.InvalidCrc
           exits == ack # kAck.InvalidCrc /\ cmd(f) = kCmd.InterfaceExit
           steps == IF ack = kAck.Ok THEN Exchanges(f) ELSE <<>>
<1>1. CASE exits
  <2>1. /\ pt' = IF pt.active THEN Ended(pt, 0) ELSE pt
        /\ g_device_info' = 0 /\ job' = NoJob /\ esc' = esc
    BY <1>1 DEF handle_frame, ServerReset, escVars
  <2>2. Known'  BY <2>1, Forgotten DEF NoJob
  <2>3. Shapes'  BY <2>1 DEF Shapes, Ended
  <2>4. Honest'  BY <2>1 DEF Honest, NoJob
  <2> QED  BY <2>2, <2>3, <2>4
<1>2. CASE ~exits
  <2>1. /\ g_device_info' = IF ack = kAck.InvalidCrc \/ DeviceKept(cmd(f))
                            THEN g_device_info ELSE 0
        /\ job' = [frame |-> f, data |-> job'.data, steps |-> steps, ack |-> ack]
        /\ UNCHANGED <<pt, escVars>>
    BY <1>2 DEF handle_frame
  <2>2. ack = kAck.Ok => Verdict(f) = kAck.Ok  BY DEF kAck
  <2>3. /\ \/ steps = <<>>
           \/ steps \in Talks /\ Connected
           \/ /\ steps \in Connects /\ Head(steps) = "select"
              /\ cmd(f) = kCmd.DeviceInitFlash /\ ack = kAck.Ok
           \/ steps \in Resets /\ Head(steps) = "select"
        /\ cmd(f) \in Deeds /\ ack = kAck.Ok =>
             steps \in Talks /\ steps # <<>> /\ steps[Len(steps)] \in Deed
    BY <2>2, Accepted
  <2>4. g_device_info # 0 => InHand
    BY Kinds DEF Known, NoJob
  <2> HIDE DEF f, ack, steps
  <2>5. job'.frame = f /\ job'.steps = steps /\ job'.ack = ack  BY <2>1
  <2>6. Shapes'  BY <2>1, <2>5 DEF Shapes, escVars
  <2>7. Known'
    <3>1. g_device_info' # 0 => InHand' /\ g_device_info # 0
      BY <2>1, <2>4 DEF InHand
    <3>2. CASE steps = <<>>  BY <2>5, <3>1, <3>2, Kinds DEF Known, Connects, Resets
    <3>3. CASE steps \in Talks /\ Connected
      <4>1. InHand'  BY <2>1, <2>4, <3>3, ConnectedIsKnown DEF InHand
      <4>2. steps \notin Connects \cup Resets  BY <3>3, Kinds DEF Connects, Resets
      <4> QED  BY <2>5, <3>1, <3>3, <4>1, <4>2 DEF Known, Resets
    <3>4. CASE /\ steps \in Connects /\ Head(steps) = "select"
               /\ cmd(f) = kCmd.DeviceInitFlash /\ ack = kAck.Ok
      <4>1. g_device_info' = 0  BY <2>1, <3>4 DEF DeviceKept, kAck
      <4>2. steps \notin Talks  BY <3>4, Kinds DEF Connects
      <4> QED  BY <2>5, <3>4, <4>1, <4>2, Pieces, Zenon DEF Known
    <3>5. CASE steps \in Resets /\ Head(steps) = "select"
      <4>1. steps \notin Talks  BY <3>5, Kinds DEF Resets
      <4>2. steps \notin Connects  BY <3>5 DEF Resets, Connects
      <4> QED  BY <2>5, <3>1, <3>5, <4>1, <4>2, Pieces, Zenon DEF Known
    <3> QED  BY <2>3, <3>2, <3>3, <3>4, <3>5
  <2>8. Honest'
    <3>1. caught_up' /\ job'.frame # <<>> => esc_rx' = <<>> /\ esc_late' = <<>>
      <4>1. job'.frame # <<>> => job' # NoJob  BY DEF NoJob
      <4>2. UNCHANGED <<esc_rx, esc_late>>  BY <2>1 DEF escVars
      <4> QED  BY <4>1, <4>2, Zenon
    <3> QED  BY <2>3, <2>5, <3>1 DEF Honest, Undone
  <2> QED  BY <2>6, <2>7, <2>8
<1> QED  BY <1>1, <1>2

--------------------------------------------------------------------------------
\* The talk with the ESC.

\* With nothing outstanding, the byte the bridge takes for the answer is the answer: an
\* exchange that succeeds leaves nothing behind, and a deed is done.
LEMMA Answered ==
  ASSUME Shapes, esc_rx = <<>>, esc_late = <<>>, NEW x \in Exchange, NEW t \in Talk(x),
         (IF t.rx = <<>> THEN kBootResult.None ELSE Head(t.rx)) \in Expected(x)
  PROVE  /\ t.late = <<>>
         /\ (IF t.rx = <<>> THEN <<>> ELSE Tail(t.rx)) = <<>>
         /\ x \in Deed => t.esc.did
<1> USE DEF kBootResult, Data
<1>1. ASSUME t.rx = <<>>  PROVE x = "set_buffer"
  BY <1>1 DEF Expected, Exchange
<1>2. CASE \E h \in Heard(x) : t = [esc |-> h.esc, rx |-> esc_rx \o h.says, late |-> <<>>,
                                    left |-> faults]
  <2>1. PICK h \in Heard(x) : t = [esc |-> h.esc, rx |-> esc_rx \o h.says, late |-> <<>>,
                                   left |-> faults]
    BY <1>2
  <2>2. h.says = <<>> \/ \E b : h.says = <<b>>
    BY DEF Heard, Exchange
  <2>3. CASE h.says = <<>>
    <3>1. t.rx = <<>>  BY <2>1, <2>3
    <3> QED  BY <1>1, <2>1, <3>1 DEF Deed
  <2>4. CASE \E b : h.says = <<b>>
    <3>1. PICK b : h.says = <<b>>  BY <2>4
    <3>2. t.rx = <<b>>  BY <2>1, <3>1
    <3>3. Head(<<b>>) = b /\ Tail(<<b>>) = <<>> /\ <<b>> # <<>>  OBVIOUS
    <3>4. b \in Expected(x)  BY <3>2, <3>3
    <3>5. x \in Deed => h.esc.did
      <4> SUFFICES ASSUME x \in Deed PROVE h.esc.did  OBVIOUS
      <4>1. b = kBootResult.Success  BY <3>4 DEF Expected, Deed
      <4>2. h \in {[esc |-> [esc EXCEPT !.buffer = "none", !.did = TRUE],
                    says |-> <<kBootResult.Success>>]}
        BY <3>1, <4>1 DEF Heard, Deed
      <4>3. [esc EXCEPT !.buffer = "none", !.did = TRUE].did = TRUE
        BY DEF Shapes, EscState
      <4>4. h.esc = [esc EXCEPT !.buffer = "none", !.did = TRUE]  BY <4>2
      <4> QED  BY <4>3, <4>4, Zenon
    <3> QED  BY <2>1, <3>2, <3>3, <3>5
  <2> QED  BY <2>2, <2>3, <2>4
<1>3. CASE ~\E h \in Heard(x) : t = [esc |-> h.esc, rx |-> esc_rx \o h.says, late |-> <<>>,
                                     left |-> faults]
  <2>1. t.rx = <<>>
    <3>1. \/ \E h \in Heard(x) : t = [esc |-> h.esc, rx |-> esc_rx, late |-> h.says,
                                      left |-> faults - 1]
          \/ \E d \in {<<esc_late, <<>>>>, <<<<>>, esc_late>>, <<<<>>, <<>>>>} :
               t = [esc |-> esc, rx |-> esc_rx \o d[1], late |-> d[2], left |-> faults]
      BY <1>3 DEF Talk
    <3>2. <<>> \o <<>> = <<>>  OBVIOUS
    <3> QED  BY <3>1, <3>2
  <2>2. x = "set_buffer"  BY <1>1, <2>1
  <2>3. ~\E h \in Heard(x) : Len(h.says) = 1
    BY <2>2 DEF Heard
  <2>4. t.late = <<>>  BY <1>3, <2>3 DEF Talk
  <2> QED  BY <2>1, <2>2, <2>4 DEF Deed
<1> QED  BY <1>2, <1>3

LEMMA TalkKeepsShape ==
  ASSUME Shapes, NEW x \in Exchange, NEW t \in Talk(x)
  PROVE  t.esc \in EscState
<1> USE DEF Shapes, EscState
<1>1. ASSUME NEW b \in {"none", "armed", "full"}
      PROVE  [esc EXCEPT !.buffer = b] \in EscState
  OBVIOUS
<1>2. [esc EXCEPT !.buffer = "none", !.did = TRUE] \in EscState  OBVIOUS
<1>3. ASSUME NEW h \in Heard(x) PROVE h.esc \in EscState
  <2> HIDE DEF EscState
  <2>1. h.esc \in {esc, [esc EXCEPT !.buffer = "none"], [esc EXCEPT !.buffer = "armed"],
                   [esc EXCEPT !.buffer = "full"],
                   [esc EXCEPT !.buffer = "none", !.did = TRUE]}
    <3>1. CASE x \in {"set_address", "erase"}  BY <3>1 DEF Heard
    <3>2. CASE x = "set_buffer"  BY <3>2 DEF Heard
    <3>3. CASE x = "data"  BY <3>3 DEF Heard
    <3>4. CASE x \in {"program", "verify"}  BY <3>4 DEF Heard
    <3>5. CASE x \in {"read", "keep_alive"}  BY <3>5 DEF Heard
    <3> QED  BY <3>1, <3>2, <3>3, <3>4, <3>5 DEF Exchange
  <2> QED  BY <1>1, <1>2, <2>1
<1> HIDE DEF EscState
<1> QED  BY <1>3 DEF Talk

LEMMA StepAsk ==
  ASSUME HostInv, NEW x \in Exchange, ask_esc(x), caught_up' /\ job'.frame # <<>> => caught_up
  PROVE  HostInv'
<1> USE DEF HostInv
<1>1. job.steps \in Talks /\ job.steps # <<>> /\ x = Head(job.steps)
  BY Talking DEF ask_esc
<1>2. InHand /\ InHand'  BY <1>1 DEF Known, InHand, ask_esc
<1>3. PICK t \in Talk(x) :
        LET got == IF t.rx = <<>> THEN kBootResult.None ELSE Head(t.rx)
        IN /\ esc' = t.esc /\ esc_late' = t.late
           /\ esc_rx' = IF x = "read"
                        THEN IF got # Data /\ Contains(t.rx, Data)
                             THEN <<kBootResult.Success>> ELSE <<>>
                        ELSE IF t.rx = <<>> THEN <<>> ELSE Tail(t.rx)
           /\ \/ /\ got \in Expected(x)
                 /\ \E d : job' = [job EXCEPT !.steps = Tail(job.steps), !.data = d]
              \/ /\ got \notin Expected(x)
                 /\ \E d, a : /\ a \in {kAck.VerifyError, kAck.GeneralError}
                              /\ job' = [job EXCEPT !.steps = <<>>, !.ack = a, !.data = d]
           /\ g_device_info' \in {0, g_device_info}
  BY DEF ask_esc, Continue, Fail
<1> DEFINE got == IF t.rx = <<>> THEN kBootResult.None ELSE Head(t.rx)
<1>4. job'.steps \in {Tail(job.steps), <<>>}  BY <1>3 DEF Shapes
<1>5. job'.steps \in Talks  BY <1>1, <1>4, TalkOn, Kinds
<1>6. Known'
  <2>1. job'.steps \notin Connects \cup Resets  BY <1>5, Kinds DEF Connects, Resets
  <2>2. job'.steps # <<"restart">>  BY <2>1 DEF Resets
  <2> QED  BY <1>2, <1>5, <2>1, <2>2 DEF Known
<1>7. Shapes'
  <2>1. job' = [frame |-> job'.frame, steps |-> job'.steps, data |-> job'.data,
                ack |-> job'.ack]
    BY <1>3 DEF Shapes
  <2>2. pt' = pt  BY DEF ask_esc
  <2> QED  BY <1>3, <2>1, <2>2, TalkKeepsShape DEF Shapes
<1>8. Honest'
  <2> SUFFICES ASSUME caught_up, job'.frame # <<>>, job'.ack = kAck.Ok,
                      cmd(job'.frame) \in Deeds
               PROVE  \/ Undone' /\ esc_rx' = <<>> /\ esc_late' = <<>>
                      \/ job'.steps = <<>> /\ esc'.did
    BY DEF Honest
  <2>1. got \in Expected(x) /\ \E d : job' = [job EXCEPT !.steps = Tail(job.steps), !.data = d]
    <3>1. ASSUME NEW d, NEW a \in {kAck.VerifyError, kAck.GeneralError},
                 job' = [job EXCEPT !.steps = <<>>, !.ack = a, !.data = d]
          PROVE  FALSE
      <4>1. job'.ack = a  BY <3>1 DEF Shapes
      <4> QED  BY <3>1, <4>1 DEF kAck
    <3> QED  BY <1>3, <3>1
  <2>2. job'.frame = job.frame /\ job'.ack = job.ack /\ job'.steps = Tail(job.steps)
    BY <2>1 DEF Shapes
  <2>3. Undone /\ esc_rx = <<>> /\ esc_late = <<>>  BY <1>1, <2>2 DEF Honest
  <2>4. x # "read" => esc_rx' = <<>>
    BY <1>3, <2>1, <2>3, Answered
  <2>5. x = "read" => esc_rx' = <<>>
    BY <1>3, <2>1 DEF Expected
  <2>6. esc_late' = <<>> /\ (x \in Deed => esc'.did)
    BY <1>3, <2>1, <2>3, Answered
  <2>7. CASE job'.steps = <<>>
    <3>1. x \in Deed  BY <1>1, <2>2, <2>3, <2>7, TalkOn DEF Undone
    <3> QED  BY <2>6, <2>7, <3>1
  <2>8. CASE job'.steps # <<>>
    <3>1. Undone'  BY <1>1, <1>5, <2>2, <2>3, <2>8, TalkOn DEF Undone
    <3> QED  BY <2>4, <2>5, <2>6, <3>1
  <2> QED  BY <2>7, <2>8
<1> QED  BY <1>6, <1>7, <1>8

--------------------------------------------------------------------------------
\* The other steps of a job.  None of them belongs to a deed.

LEMMA NoDeed ==
  ASSUME Shapes, Honest, job.steps # <<>>, job.steps \notin Talks, caught_up' /\ job'.frame # <<>> => caught_up,
         job'.frame = job.frame, job'.ack = job.ack \/ job'.ack = kAck.GeneralError
  PROVE  Honest'
<1> SUFFICES ASSUME caught_up, job'.frame # <<>>, job'.ack = kAck.Ok,
                    cmd(job'.frame) \in Deeds
             PROVE  FALSE
  BY DEF Honest
<1>1. job.ack = kAck.Ok  BY DEF kAck
<1> QED  BY <1>1 DEF Honest, Undone

LEMMA StepJob ==
  ASSUME HostInv, caught_up' /\ job'.frame # <<>> => caught_up,
         ensure_selected_motor \/ bl_connect \/ run_esc \/ restart_passthrough
  PROVE  HostInv'
<1> USE DEF HostInv
<1>1. CASE ensure_selected_motor
  <2>1. job' = [job EXCEPT !.steps = Tail(job.steps), !.data = job.data]
    BY <1>1 DEF ensure_selected_motor, Continue
  <2>2. /\ job'.steps = Tail(job.steps) /\ job'.frame = job.frame /\ job'.ack = job.ack
        /\ job' = [frame |-> job'.frame, steps |-> job'.steps, data |-> job'.data,
                   ack |-> job'.ack]
    BY <2>1 DEF Shapes
  <2>3. /\ pt' = [active |-> pt'.active, motor |-> pt'.motor,
                  block_until |-> pt'.block_until, forced_off |-> pt'.forced_off]
        /\ pt'.active
    <3> DEFINE m == normalize_motor_index(target_motor(job.frame))
               ended == IF pt.active THEN Ended(pt, 0) ELSE pt
    <3>1. CASE pt.active /\ pt.motor = m
      <4>1. pt' = pt  BY <1>1, <3>1 DEF ensure_selected_motor
      <4> QED  BY <3>1, <4>1 DEF Shapes
    <3>2. CASE ~(pt.active /\ pt.motor = m)
      <4>1. pt' = Begun(ended, m)  BY <1>1, <3>2 DEF ensure_selected_motor
      <4>2. ended = [active |-> ended.active, motor |-> ended.motor,
                     block_until |-> ended.block_until, forced_off |-> ended.forced_off]
        BY DEF Shapes, Ended
      <4> HIDE DEF ended, m
      <4> QED  BY <4>1, <4>2 DEF Begun
    <3> QED  BY <3>1, <3>2
  <2>4. esc' = esc \/ esc' = IdleEsc  BY <1>1 DEF ensure_selected_motor, escVars
  <2>5. Shapes'  BY <2>2, <2>3, <2>4, IdleShape DEF Shapes
  <2>6. g_device_info' = g_device_info  BY <1>1 DEF ensure_selected_motor
  <2>7. Working("select")  BY <1>1 DEF ensure_selected_motor
  <2>8. job.steps # <<>> /\ job.steps \notin Talks
    BY <2>7, Selecting, Kinds DEF Working, Connects, Resets
  <2>9. CASE job.steps \in Connects /\ Tail(job.steps) \in Connects
               /\ Head(Tail(job.steps)) = "connect"
    <3>1. g_device_info = 0  BY <2>9 DEF Known
    <3>2. Tail(job.steps) \notin Talks  BY <2>9, Kinds DEF Connects
    <3> QED  BY <2>2, <2>3, <2>5, <2>6, <2>8, <2>9, <3>1, <3>2, NoDeed DEF Known
  <2>10. CASE job.steps \in Resets /\ Tail(job.steps) \in {<<"run">>, <<"run", "restart">>}
    <3>1. Tail(job.steps) \notin Talks  BY <2>10, Kinds
    <3>2. Tail(job.steps) \notin Connects /\ Tail(job.steps) # <<"restart">>
      BY <2>10 DEF Connects
    <3>3. Tail(job.steps) \in Resets  BY <2>10 DEF Resets
    <3> QED  BY <2>2, <2>5, <2>8, <2>10, <3>1, <3>2, <3>3, NoDeed DEF Known
  <2> QED  BY <2>7, <2>9, <2>10, Selecting
<1>2. CASE bl_connect
  <2>1. Working("connect") /\ job.steps \in Connects  BY <1>2, Connecting DEF bl_connect
  <2>2. job.steps # <<>> /\ job.steps \notin Talks
    BY <2>1, Kinds DEF Working, Connects
  <2>3. g_device_info = 0 /\ pt.active  BY <2>1 DEF Known, Working
  <2>4. pt' = pt /\ (esc' = esc \/ esc' = IdleEsc)  BY <1>2 DEF bl_connect
  <2>5. \/ /\ g_device_info' # 0 => linked' = pt.motor
           /\ \E d : job' = [job EXCEPT !.steps = <<>>, !.data = d]
        \/ /\ g_device_info' = g_device_info
           /\ Len(job.steps) # 1
           /\ job' = [job EXCEPT !.steps = Tail(job.steps), !.data = job.data]
        \/ /\ g_device_info' = g_device_info
           /\ \E d : job' = [job EXCEPT !.steps = <<>>, !.ack = kAck.GeneralError,
                                        !.data = d]
    BY <1>2 DEF bl_connect, Fail, Continue
  <2>6. /\ job'.frame = job.frame
        /\ job'.ack = job.ack \/ job'.ack = kAck.GeneralError
        /\ job' = [frame |-> job'.frame, steps |-> job'.steps, data |-> job'.data,
                   ack |-> job'.ack]
    BY <2>5 DEF Shapes
  <2>7. Shapes'  BY <2>4, <2>6, IdleShape DEF Shapes
  <2>8. Honest'  BY <2>2, <2>6, NoDeed
  <2>9. CASE job'.steps = <<>>
    <3>1. g_device_info' # 0 => InHand'  BY <2>3, <2>4, <2>5 DEF InHand
    <3> QED  BY <2>7, <2>8, <2>9, <3>1, Kinds DEF Known, Connects, Resets
  <2>10. CASE job'.steps # <<>>
    <3>1. job'.steps = Tail(job.steps) /\ Len(job.steps) # 1 /\ g_device_info' = 0
      BY <2>3, <2>5, <2>10 DEF Shapes
    <3>2. job'.steps \in Connects  BY <2>1, <3>1, Connecting
    <3>3. job'.steps \notin Talks \cup Resets  BY <3>2, Kinds DEF Connects, Resets
    <3>4. job'.steps # <<"restart">>  BY <3>3 DEF Resets
    <3> QED  BY <2>3, <2>4, <2>7, <2>8, <3>1, <3>2, <3>3, <3>4 DEF Known
  <2> QED  BY <2>9, <2>10
<1>3. CASE run_esc \/ restart_passthrough
  <2>1. job' = [job EXCEPT !.steps = Tail(job.steps), !.data = job.data]
    BY <1>3 DEF run_esc, restart_passthrough, Continue
  <2>2. /\ job'.steps = Tail(job.steps) /\ job'.frame = job.frame /\ job'.ack = job.ack
        /\ job' = [frame |-> job'.frame, steps |-> job'.steps, data |-> job'.data,
                   ack |-> job'.ack]
    BY <2>1 DEF Shapes
  <2>3. /\ job.steps # <<>> /\ job.steps \notin Talks
        /\ Tail(job.steps) \in {<<>>, <<"restart">>}
        /\ g_device_info' = 0
    <3>1. CASE run_esc
      BY <3>1, Running, Kinds DEF run_esc, Working
    <3>2. CASE restart_passthrough
      BY <3>2, Restarting, Kinds DEF restart_passthrough, Working, Known
    <3> QED  BY <1>3, <3>1, <3>2
  <2>4. Known'
    <3>1. <<"restart">> \in Resets /\ <<"restart">> \notin Connects /\ <<>> \notin Connects
      BY DEF Resets, Connects
    <3> QED  BY <2>2, <2>3, <3>1, Kinds DEF Known
  <2>5. Shapes'
    <3>1. CASE run_esc  BY <2>2, <3>1, IdleShape DEF run_esc, Shapes
    <3>2. CASE restart_passthrough
      <4>1. pt' = [active |-> pt'.active, motor |-> pt'.motor,
                   block_until |-> pt'.block_until, forced_off |-> pt'.forced_off]
        BY <3>2 DEF restart_passthrough, Begun, Ended, Shapes
      <4>2. esc' = esc  BY <3>2 DEF restart_passthrough
      <4> QED  BY <2>2, <4>1, <4>2 DEF Shapes
    <3> QED  BY <1>3, <3>1, <3>2
  <2> QED  BY <2>2, <2>3, <2>4, <2>5, NoDeed
<1> QED  BY <1>1, <1>2, <1>3

--------------------------------------------------------------------------------
\* The whole.

LEMMA InitHost == Init => HostInv
<1> SUFFICES ASSUME Init PROVE HostInv  OBVIOUS
<1>1. Shapes  BY IdleShape DEF Init, Shapes, InitialState, NoJob
<1>2. Known  BY Kinds DEF Init, Known, NoJob, Connects, Resets
<1>3. Honest  BY DEF Init, Honest, NoJob
<1> QED  BY <1>1, <1>2, <1>3 DEF HostInv

LEMMA StepFirmware ==
  ASSUME HostInv, Firmware
  PROVE  HostInv'
<1>1. caught_up' = (job' # NoJob =>
                      IF job = NoJob THEN esc_rx = <<>> /\ esc_late = <<>> ELSE caught_up)
  BY Zenon DEF Firmware
<1>2. CASE job = NoJob /\ Idle
  BY <1>2, StepIdle DEF Idle
<1>3. CASE job = NoJob /\ TakeByte
  <2>1. CASE msp_byte(Head(usb))  BY <1>3, <2>1, StepMsp
  <2>2. CASE four_way_byte(Head(usb))
    <3>1. CASE handle_frame(Head(usb))
      <4>1. caught_up' = (job' # NoJob => esc_rx = <<>> /\ esc_late = <<>>)
        BY <1>1, <1>3, Zenon
      <4>2. UNCHANGED linked  BY <2>2 DEF four_way_byte
      <4> QED  BY <1>3, <3>1, <4>1, <4>2, StepFrame
    <3>2. CASE ~handle_frame(Head(usb))
      <4>1. UNCHANGED <<pt, job, g_device_info, escVars, linked>>
        BY <2>2, <3>2 DEF four_way_byte, process_host_byte
      <4>2. Honest'  BY <1>3, <4>1 DEF Honest, NoJob
      <4>3. Known'  BY <4>1 DEF HostInv, Known, InHand
      <4>4. Shapes'  BY <4>1 DEF HostInv, Shapes, escVars
      <4> QED  BY <4>2, <4>3, <4>4 DEF HostInv
    <3> QED  BY <3>1, <3>2
  <2> QED  BY <1>3, <2>1, <2>2 DEF TakeByte
<1>4. CASE Work
  <2>1. CASE respond
    <3>1. /\ job' = NoJob /\ esc' = [esc EXCEPT !.did = FALSE]
          /\ UNCHANGED <<g_device_info, pt, linked>> /\ job.steps = <<>>
      BY <2>1 DEF respond
    <3>2. esc' \in EscState  BY <3>1 DEF HostInv, Shapes, EscState
    <3>3. job' = [frame |-> job'.frame, steps |-> job'.steps, data |-> job'.data,
                  ack |-> job'.ack]
      BY <3>1 DEF NoJob
    <3>4. Shapes'  BY <3>1, <3>2, <3>3 DEF HostInv, Shapes
    <3>5. Known'
      <4>1. job'.steps = job.steps  BY <3>1 DEF NoJob
      <4> QED  BY <3>1, <4>1 DEF HostInv, Known, InHand
    <3>6. Honest'  BY <3>1 DEF Honest, NoJob
    <3> QED  BY <3>4, <3>5, <3>6 DEF HostInv
  <2>2. CASE ~respond
    <3>1. job.steps # <<>>
      BY <1>4, <2>2 DEF Work, handle_frame_step, ensure_selected_motor, bl_connect, run_esc,
                        restart_passthrough, ask_esc, Working
    <3>2. job # NoJob  BY <3>1 DEF NoJob
    <3>3. job'.frame # <<>> => job' # NoJob  BY DEF NoJob
    <3>4. caught_up' /\ job'.frame # <<>> => caught_up  BY <1>1, <3>2, <3>3, Zenon
    <3> QED  BY <1>4, <2>2, <3>4, StepJob, StepAsk DEF Work, handle_frame_step
  <2> QED  BY <2>1, <2>2
<1> QED  BY <1>2, <1>3, <1>4 DEF Firmware

LEMMA StepHost == HostInv /\ [Next]_vars => HostInv'
<1> SUFFICES ASSUME HostInv, [Next]_vars PROVE HostInv'  OBVIOUS
<1>1. CASE Firmware  BY <1>1, StepFirmware
<1>2. CASE Host \/ Tick \/ UNCHANGED vars
  <2>1. UNCHANGED <<pt, job, esc, esc_rx, esc_late, g_device_info, linked, caught_up>>
    BY <1>2 DEF Host, Tick, vars, fourWayVars, serverVars, escVars, historyVars
  <2> QED  BY <2>1 DEF HostInv, Shapes, Known, InHand, Honest, Undone
<1>3. CASE Esc
  <2>1. UNCHANGED <<pt, job, esc, g_device_info, linked, caught_up>> /\ esc_late # <<>>
    BY <1>3 DEF Esc, LateAnswer, serverVars, historyVars
  <2> QED  BY <2>1 DEF HostInv, Shapes, Known, InHand, Honest, Undone
<1> QED  BY <1>1, <1>2, <1>3 DEF Next

\* esc_4way.cpp, msp.cpp, esc_passthrough.cpp: for any number of motors and any ESCs, hosts,
\* broken frames and late answers, the bridge asks only the ESC that introduced itself on
\* the line passthrough is on.
THEOREM AsksOnlyConnected == Spec => []AsksTheConnectedEsc
<1>1. HostInv => AsksTheConnectedEsc
  <2> SUFFICES ASSUME HostInv, job.steps # <<>>, Head(job.steps) \in Exchange
               PROVE  pt.active /\ linked = pt.motor
    BY DEF AsksTheConnectedEsc
  <2>1. job.steps \in Talks  BY Talking DEF HostInv, Working
  <2> QED  BY <2>1 DEF HostInv, Known, InHand
<1> QED  BY <1>1, InitHost, StepHost, PTL DEF Spec

\* esc_4way.cpp, bl_write_command, bl_verify_flash, bl_page_erase: for any number of late
\* answers and whatever the ESC refuses or does not hear, Ok to a frame that found no answer
\* outstanding means that the ESC has done what the frame asked for.
THEOREM OkMeansDone == Spec => []OkOnlyIfDone
<1>1. HostInv => OkOnlyIfDone
  <2> SUFFICES ASSUME HostInv, caught_up, job.frame # <<>>, job.steps = <<>>,
                      job.ack = kAck.Ok, cmd(job.frame) \in Deeds
               PROVE  esc.did
    BY DEF OkOnlyIfDone, Deeds
  <2> QED  BY DEF HostInv, Honest, Undone
<1> QED  BY <1>1, InitHost, StepHost, PTL DEF Spec
===================================================================================

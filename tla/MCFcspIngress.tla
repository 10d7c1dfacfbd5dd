----------------------------- MODULE MCFcspIngress -----------------------------
(* Hosts for the receive path: payloads of at most two bytes.                 *)
EXTENDS FcspIngress

MCByte == 0 .. 255
MCSync == 165

Fields(ch, seq) == [i \in 0 .. 4 |-> CASE i = 0 -> 1 [] i = 2 -> ch [] i = 4 -> seq
                                      [] OTHER -> 0]
Frame(ch, seq, payload) == [header |-> Fields(ch, seq), payload |-> payload,
                            crc |-> <<20 + seq, 30 + seq>>]

Read  == Frame(1, 1, <<7, 8>>)     \* CONTROL
Esc   == Frame(5, 2, <<9, 7>>)     \* ESC_SERIAL
Tele  == Frame(2, 3, <<8, 9>>)     \* TELEMETRY, tied off
Ping  == Frame(1, 4, <<6>>)
Odd   == Frame(9, 5, <<7, 7>>)     \* no such channel
Empty == Frame(1, 6, <<>>)
MCFrames == {Read, Esc, Tele, Ping, Odd, Empty}

Opening(f, len) == <<MCSync>> \o [i \in 1 .. 5 |-> f.header[i - 1]] \o <<0, len>>
Wire(f) == Opening(f, Len(f.payload)) \o f.payload \o f.crc

None == Frame(0, 0, <<>>)    \* not one of MCFrames
Whole(f)      == [bytes |-> Wire(f), frame |-> f, end |-> "none"]
Noise         == [bytes |-> <<0, 3>>, frame |-> None, end |-> "none"]
Oversize      == [bytes |-> Opening(Read, 3) \o <<7, 8, 9>>, frame |-> None, end |-> "none"]
BadCrc(f)     == [bytes |-> Opening(f, 2) \o f.payload \o <<1, 1>>, frame |-> None,
                  end |-> "none"]
First(f, n, e) == [bytes |-> SubSeq(Wire(f), 1, n), frame |-> None, end |-> e]

Upto(n, menu) == UNION {[1 .. k -> menu] : k \in 1 .. n}

\* A script with CS raised is on the SPI port; one with telemetry, which the ports
\* treat differently, on either; any other on the USB port, the SPI port does the same.
Ports(q) == IF \E i \in DOMAIN q : q[i].end = "clr" THEN {TRUE}
            ELSE IF \E i \in DOMAIN q : q[i].frame = Tele THEN BOOLEAN
            ELSE {FALSE}
Scripted(S, waits) ==
  UNION {{[items |-> q, waits |-> waits, spi |-> p] : p \in Ports(q)} : q \in S}
Waits(S)   == Scripted(S, TRUE)
Streams(S) == Scripted(S, FALSE)

\* A host that waits between items: whole frames, noise, a length over the limit, a
\* bad CRC, a silence inside a header, CS raised inside a payload.
SpacedMenu == {Whole(Ping), Whole(Esc), Whole(Odd), Whole(Empty), Oversize, BadCrc(Read),
               First(Esc, 6, "silence"), First(Read, 9, "clr")}
Spaced == Upto(2, SpacedMenu)
            \cup {<<Noise, Whole(Tele)>>, <<First(Read, 9, "clr"), Whole(Tele)>>,
                  <<First(Read, 9, "clr"), First(Esc, 6, "silence"), Whole(Esc), Whole(Ping)>>,
                  <<First(Read, 4, "clr"), First(Read, 11, "silence"), Whole(Ping), Whole(Esc)>>}

\* A host that sends without waiting, every payload of two bytes.
StreamedMenu == {Whole(Read), Whole(Esc), Whole(Odd), BadCrc(Esc)}
Streamed == Upto(3, StreamedMenu)
              \cup {<<Whole(Esc), Oversize, Whole(Read)>>,
                    <<Whole(Read), Whole(Tele), Whole(Esc)>>,
                    <<Whole(Read), Noise, First(Esc, 5, "clr"), Whole(Esc)>>}

\* A host that sends without waiting things the code does not get over without
\* losing a frame: a frame may be lost, but none may be made up or reordered.
RoughMenu == {Whole(Ping), Whole(Esc), Whole(Empty), First(Read, 9, "clr"),
              First(Read, 4, "none"), First(Esc, 10, "silence")}
Rough == Upto(2, RoughMenu)
           \cup {<<a, b, Whole(Esc)>> : a, b \in {Whole(Ping), First(Read, 9, "clr"),
                                                   First(Read, 4, "none")}}

MCScripts == Waits(Spaced) \cup Streams(Streamed) \cup Streams(Rough)

PingScripts  == Streams({<<Whole(Ping), Whole(Ping)>>})
================================================================================

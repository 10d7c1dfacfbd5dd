---------------------------- MODULE MCFcspTransport ----------------------------
(* Hosts on the two ports; every frame has a payload of one byte.             *)
EXTENDS FcspTransport

MCByte == 0 .. 255
MCSync == 165
Wire(seq) == <<MCSync, 1, 0, 1, 0, seq, 0, 1, 7, 20, 30>>
Part(seq, n) == SubSeq(Wire(seq), 1, n)

Hosting(usb, spi, usbWaits, spiWaits, order, ready) ==
  [usb |-> usb, spi |-> spi, usbWaits |-> usbWaits, spiWaits |-> spiWaits,
   shim |-> FALSE, order |-> order, ready |-> ready]

\* USB first, then SPI: two frames in a burst, padding, a burst that is broken off.
SpiBursts == {<<Wire(3)>>, <<Wire(3) \o <<0>> \o Wire(4)>>, <<<<0>> \o Wire(3), Wire(4)>>,
              <<Part(5, 4), Wire(3)>>, <<Part(5, 9), Wire(3)>>}
Turns == {Hosting(u, s, {1}, {1, 2, 3}, "usb first", {TRUE}) :
            u \in {<<Wire(1)>>, <<Wire(1), Wire(2)>>}, s \in SpiBursts}

\* Both at the same time, with a gate that is not always ready.
Contend == {Hosting(u, s, {1, 2, 3}, {1, 2, 3}, "any", BOOLEAN) :
              u \in {<<Wire(1)>>, <<<<0>>, Wire(2)>>},
              s \in {<<Wire(3)>>, <<Part(5, 4), Wire(3)>>}}

\* USB through fcsp_uart_byte_stream, alone and with SPI.
Uart(spi, spiWaits) ==
  [Hosting(<<Wire(1)>>, spi, {1, 2, 3}, spiWaits, "any", {TRUE}) EXCEPT !.shim = TRUE]
UartHosts == {Uart(<<>>, {1})}

MCHosts == Turns \cup Contend \cup UartHosts \cup {Uart(<<Wire(3)>>, {1, 2, 3})}
AfterSpiHosts == {Hosting(<<Wire(1)>>, <<Wire(3)>>, {1}, {1}, "spi first", {TRUE})}
================================================================================

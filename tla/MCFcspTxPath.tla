------------------------------ MODULE MCFcspTxPath ------------------------------
(* Payloads of at most four bytes, packets of two; CrcStep is any function that    *)
(* tells the orders and values of so few bytes apart.                              *)
EXTENDS FcspTxPath

MCByte == 0 .. 255
MCSync == 165
MCCrcStep(c, b) == (c * 31 + b + 7) % 65536

F(payload, seq, tdest) == [payload |-> payload, seq |-> seq, tdest |-> tdest]
Load(ctrl, esc, dbg, usb, cs) ==
  [ctrl |-> ctrl, esc |-> esc, escdest |-> 0, dbg |-> dbg, usb |-> usb, cs |-> cs]

Ok    == F(<<0>>, 257, 0)
Reply == F(<<0, 9>>, 2, 1)
Trace == F(<<1, 5, 3, 4>>, 3, 0)
Blip  == F(<<4>>, 4, 0)
Big   == F(<<1, 2, 3, 4, 5>>, 5, 0)

MCTraffic ==
  {Load(<<Ok>>, <<7, 8>>, <<Blip, Blip>>, {TRUE}, {TRUE}),         \* everybody at once
   Load(<<>>, <<7, 8, 9>>, <<>>, {TRUE}, {TRUE}),
   [Load(<<>>, <<7, 8>>, <<>>, {TRUE}, {FALSE}) EXCEPT !.escdest = 1],
   Load(<<>>, <<>>, <<Trace, Big>>, BOOLEAN, {TRUE}),
   Load(<<Ok>>, <<>>, <<Blip>>, BOOLEAN, BOOLEAN),                 \* a busy SPI host
   Load(<<Reply, Ok>>, <<>>, <<>>, {TRUE}, {FALSE})}
DualTraffic == {Load(<<Reply>>, <<>>, <<>>, {TRUE}, {FALSE})}
================================================================================

------------------------------- MODULE MCHostLink -------------------------------
(* Two motors, the first with an Atmel ESC, the second with an ARM one.  The checksums *)
(* are compared with their published check values.                                     *)
EXTENDS HostLink

MCSignature == [m \in Motor |-> IF m = 0 THEN 37647 ELSE 13062]

V1(c, body) == LET b == <<Len(body), c>> \o body IN <<36, 77, 60>> \o b \o <<crc_v1(b)>>
V2Inner(c, body) ==
  LET b == <<0, c, 0, Len(body), 0>> \o body IN b \o <<crc_v2(b)>>
V2(c, body) == <<36, 88, 60>> \o V2Inner(c, body)
V2InV1(c, body) == V1(255, V2Inner(c, body))
W4At(c, high, low, body) ==
  LET b == <<47, c, high, low, Len(body)>> \o body
      k == crc_xmodem(b)
  IN b \o <<k \div 256, k % 256>>
W4(c, low, body) == W4At(c, 0, low, body)

MCQuery == V1(1, <<>>)
MCOpeners == {V1(245, <<0, 0>>), V2(245, <<1>>)}
MCMspItems == MCOpeners \cup {V2InV1(214, <<220, 5>>), V1(253, <<1>>)}
MCClosers == {W4(52, 0, <<0>>)}
MCFourWayItems == MCClosers \cup
  {W4(55, 0, <<0>>), W4(55, 0, <<2>>), W4(59, 0, <<7>>), W4(64, 0, <<7>>), W4(57, 0, <<1>>),
   W4(58, 0, <<1>>), W4(53, 1, <<2>>), W4(48, 0, <<0>>), W4(63, 0, <<4>>),
   W4At(59, 255, 255, <<7>>)}

MCBreakable == {V2(245, <<1>>), V2InV1(214, <<220, 5>>), W4(59, 0, <<7>>)}

CheckText == [k \in 1 .. 9 |-> 48 + k]
ASSUME crc_xmodem(CheckText) = 12739
ASSUME crc_v2(CheckText) = 188
================================================================================

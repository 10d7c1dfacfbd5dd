-------------------------- MODULE MCFcspWishboneMaster --------------------------
(* Registers at 256 .. 284 and 1024; nobody answers at 1028.                    *)
EXTENDS FcspWishboneMaster, FiniteSets

MCByte == 0 .. 255
MCAnswering == {256 + 4 * i : i \in 0 .. 7} \cup {1024}

Cmd(bytes, tid) == [bytes |-> bytes, tid |-> tid]
At(a) == <<0, 0, a \div 256, a % 256>>
ReadAt(a, n) == <<OP_READ_BLOCK, 1>> \o At(a) \o <<0, n>>
WriteAt(a, n, data) == <<OP_WRITE_BLOCK, 1>> \o At(a) \o <<0, n>> \o data

Ping      == Cmd(<<OP_PING>>, 1)
PingLong  == Cmd(<<OP_PING, 9, OP_PING, 9>>, 0)
Unknown   == Cmd(<<255, 1>>, 1)
ReadWord  == Cmd(ReadAt(256, 4), 0)
ReadSix   == Cmd(ReadAt(260, 6) \o <<OP_PING>>, 1)      \* a byte too many
ReadAll   == Cmd(ReadAt(256, 40), 0)                    \* more than fits
ReadNone  == Cmd(ReadAt(1028, 0), 1)                    \* nobody answers
WriteWord == Cmd(WriteAt(256, 4, <<1, 2, 3, 4>>), 1)
WriteFive == Cmd(WriteAt(256, 5, <<5, 6, 7, 8, 9, OP_PING>>), 0)   \* a byte too many
WriteLost == Cmd(WriteAt(1024, 8, <<1, 1, 1, 1, 2, 2, 2, 2>>), 1)  \* the second word

Menu == {Ping, PingLong, Unknown, ReadWord, ReadSix, ReadAll, ReadNone, WriteWord, WriteFive,
         WriteLost}
Steady(S) == {[cmds |-> q, gaps |-> FALSE] : q \in S}
Gappy(S)  == {[cmds |-> q, gaps |-> TRUE] : q \in S}

\* A FIFO that runs empty inside commands: no operation is followed by bytes it has
\* no use for.
GapMenu == {Ping, ReadSix, ReadNone, WriteFive, WriteLost}

MCPlans == Steady(UNION {[1 .. n -> Menu] : n \in {2, 3}}) \cup Gappy([1 .. 2 -> GapMenu])

================================================================================

------------------------ MODULE FcspWishboneMasterProofs ------------------------
(***************************************************************************)
(* Proofs about FcspWishboneMaster, for every sequence of commands, every  *)
(* pace of the FIFO, the bus and the reader: the master stays in step with *)
(* the commands, answers each as it should and leaves the registers as the *)
(* commands have them.                                                     *)
(***************************************************************************)
EXTENDS FcspWishboneMaster, SequenceTheorems, WellFoundedInduction, TLAPS

Octet == 0 .. 255
Half  == 0 .. 65535

\* The command being taken or answered, and the registers before it.
Number == Len(responses) + 1
Cmd    == Commands[Number]
Base   == Field(Cmd).base
Before == After(Commands)[Number - 1]

\* How much of it has been taken: everything up to byte p, or all of it.
Upto(p) == cmd_no = Number /\ cmd_pos = p
Whole   == cmd_no = Number + 1 /\ cmd_pos = 1

FifoInv ==
  /\ plan \in Plans /\ s_cmd_tvalid \in BOOLEAN
  /\ cmd_no \in 1 .. Len(Commands) + 1 /\ cmd_pos \in Nat \ {0}
  /\ s_cmd_tvalid => cmd_no <= Len(Commands)
  /\ cmd_no <= Len(Commands) => cmd_pos <= Len(Commands[cmd_no].bytes)
  /\ ~plan.gaps /\ cmd_no <= Len(Commands) /\ cmd_pos > 1 => s_cmd_tvalid

HeaderTypes ==
  /\ op \in Octet /\ addr \in Seq(Octet) /\ Len(addr) = 4 /\ len \in Half /\ byte_idx \in 0 .. 3
  /\ tid_latched \in {0, 1}
Flag == cmd_was_last \in BOOLEAN
BusTypes ==
  /\ wb_adr \in Nat /\ wb_dat \in [Lanes -> Octet] /\ wb_sel \in SUBSET Lanes
  /\ wb_byte_offset \in Nat /\ wb_timeout_cnt \in Nat
  /\ regs \in [Answering -> [Lanes -> Octet]]
AnswerTypes ==
  /\ rsp_buf \in [0 .. 31 -> Octet] /\ rsp_len \in 0 .. 32 /\ rsp_idx \in Nat
  /\ sent \in Seq(Octet)
  /\ responses \in Seq([bytes : Seq(Octet), tid : {0, 1}])
Types == FifoInv /\ HeaderTypes /\ Flag /\ BusTypes /\ AnswerTypes

\* Where the master is in the command.
Reading == op = OP_READ_BLOCK
Writing == op = OP_WRITE_BLOCK
Place ==
  /\ st \in States
  /\ st = "IDLE" => Upto(1)
  /\ st # "IDLE" => Number <= Len(Commands) /\ op = Cmd.bytes[1] /\ tid_latched = Cmd.tid
  /\ st = "GET_HEADER" => Upto(2)
  /\ st = "GET_ADDR" => (Reading \/ Writing) /\ Upto(3 + byte_idx)
  /\ st = "GET_LEN" => (Reading \/ Writing) /\ byte_idx \in {0, 1} /\ Upto(7 + byte_idx)
  /\ st = "WB_WRITE_DATA" =>
       Writing /\ byte_idx = 0 /\ Upto(9 + wb_byte_offset) /\ wb_byte_offset < Written(Cmd)
  /\ st = "WB_WRITE_EXEC" =>
       /\ Writing /\ wb_byte_offset \in 1 .. Written(Cmd)
       /\ wb_byte_offset % 4 = 0 \/ wb_byte_offset = Written(Cmd)
       /\ IF cmd_was_last THEN Whole /\ wb_byte_offset = Len(Cmd.bytes) - 8
                          ELSE Upto(9 + wb_byte_offset)
  /\ st = "WB_READ_EXEC" =>
       /\ Reading /\ wb_byte_offset % 4 = 0 /\ wb_byte_offset < ReadLen(Cmd)
       /\ IF cmd_was_last THEN Whole /\ Len(Cmd.bytes) = 8 ELSE Upto(9)
  /\ st = "DISCARD_CMD" => /\ cmd_no = Number /\ cmd_pos > 1
                           /\ plan.gaps => ~cmd_was_last
  /\ st = "RSP_SEND" => Whole
  /\ st \in {"DISCARD_CMD", "RSP_SEND"} => rsp_idx < rsp_len

\* The first byte of the word on the bus, or of the one being collected.
First == IF st = "WB_WRITE_EXEC" THEN 4 * ((wb_byte_offset - 1) \div 4)
                                 ELSE 4 * (wb_byte_offset \div 4)

\* What the header has become.
Fields ==
  /\ st = "GET_ADDR" => \A j \in 1 .. byte_idx : addr[4 - byte_idx + j] = Cmd.bytes[2 + j]
  /\ st = "GET_LEN" => \A j \in 1 .. 4 : addr[j] = Cmd.bytes[2 + j]
  /\ st \in {"GET_HEADER", "GET_ADDR"} \/ (st = "GET_LEN" /\ byte_idx = 0) => len = 0
  /\ st = "GET_LEN" /\ byte_idx = 1 => len = Cmd.bytes[7]
  /\ st = "WB_WRITE_DATA" \/ Busy =>
       /\ len = Field(Cmd).len
       /\ wb_adr = Base + First /\ Answers(Base, First)
  /\ st = "WB_WRITE_DATA" => wb_timeout_cnt = 0
  /\ Busy /\ wb_adr \in Answering => wb_timeout_cnt < WB_TIMEOUT_CYCLES

InStepInv == Types /\ Place /\ Fields

\* The registers when the first m bytes of a block are written.
WrittenUpto(c, R, m) ==
  [a \in Answering |-> [i \in Lanes |->
     LET d == a - Field(c).base
     IN  IF d >= 0 /\ d % 4 = 0 /\ d + i < m THEN c.bytes[9 + d + i] ELSE R[a][i]]]

Registers ==
  /\ st \in {"IDLE", "GET_HEADER", "GET_ADDR", "GET_LEN", "WB_READ_EXEC"} => regs = Before
  /\ st \in {"WB_WRITE_DATA", "WB_WRITE_EXEC"} =>
       /\ regs = WrittenUpto(Cmd, Before, First)
       /\ wb_sel = {i \in Lanes : First + i < wb_byte_offset}
       /\ \A i \in wb_sel : wb_dat[i] = Cmd.bytes[9 + First + i]
  /\ st \in {"DISCARD_CMD", "RSP_SEND"} => regs = After(Commands)[Number]

\* The response, in the buffer while it is made and while it is sent.
Expected == Response(Cmd, Before)
InBuffer ==
  /\ Expected \in Seq(Octet) /\ rsp_len = Len(Expected)
  /\ \A i \in 1 .. rsp_len : rsp_buf[i - 1] = Expected[i]
Answered ==
  /\ st # "RSP_SEND" => sent = <<>>
  /\ st = "WB_READ_EXEC" =>
       \A k \in 0 .. wb_byte_offset - 1 : k < READ_MAX =>
         rsp_buf[3 + k] = Before[Word(Base, k)][k % 4]
  /\ st \in {"DISCARD_CMD", "RSP_SEND"} => InBuffer
  /\ st = "DISCARD_CMD" => rsp_idx = 0
  /\ st = "RSP_SEND" =>
       Len(sent) = rsp_idx /\ \A i \in 1 .. rsp_idx : sent[i] = Expected[i]

IInv == InStepInv /\ Registers /\ Answered /\ ResponsesAreRight

--------------------------------------------------------------------------------
\* Commands.

LEMMA CommandFacts ==
  ASSUME plan \in Plans
  PROVE  /\ Len(Commands) \in Nat
         /\ \A n \in 1 .. Len(Commands) :
              /\ Commands[n].bytes \in Seq(Octet) /\ Len(Commands[n].bytes) \in Nat \ {0}
              /\ \A i \in 1 .. Len(Commands[n].bytes) : Commands[n].bytes[i] \in Octet
              /\ Commands[n].tid \in {0, 1}
              /\ TakenWhole(Commands[n], plan.gaps)
<1>1. /\ plan.cmds \in Seq([bytes : Seq(Byte) \ {<<>>}, tid : {0, 1}])
      /\ \A n \in 1 .. Len(plan.cmds) : TakenWhole(plan.cmds[n], plan.gaps)
      /\ Byte \subseteq Octet
  BY PlansAssumption DEF Octet
<1>2. Len(Commands) \in Nat  BY <1>1, LenProperties DEF Commands
<1> SUFFICES ASSUME NEW n \in 1 .. Len(Commands)
             PROVE  /\ Commands[n].bytes \in Seq(Octet)
                    /\ Len(Commands[n].bytes) \in Nat \ {0}
                    /\ \A i \in 1 .. Len(Commands[n].bytes) : Commands[n].bytes[i] \in Octet
                    /\ Commands[n].tid \in {0, 1}
                    /\ TakenWhole(Commands[n], plan.gaps)
  BY <1>2
<1>3. Commands[n] \in [bytes : Seq(Byte) \ {<<>>}, tid : {0, 1}]
  BY <1>1, ElementOfSeq DEF Commands
<1>4. Commands[n].bytes \in Seq(Byte) /\ Commands[n].bytes # <<>>  BY <1>3
<1>5. Len(Commands[n].bytes) \in Nat \ {0}  BY <1>4, LenProperties, EmptySeq
<1>6. \A i \in 1 .. Len(Commands[n].bytes) : Commands[n].bytes[i] \in Octet
  BY <1>1, <1>4, ElementOfSeq
<1>7. Commands[n].bytes \in Seq(Octet)  BY <1>1, <1>4
<1> QED  BY <1>1, <1>3, <1>5, <1>6, <1>7 DEF Commands

--------------------------------------------------------------------------------
\* After is what it says: the library's theorems about recursive functions take the step as
\* an operator, so this one is shown to exist from the order of the numbers.

BelowNat == {ss \in Nat \X Nat : ss[1] < ss[2]}

LEMMA SetInduction ==
  ASSUME NEW T, 0 \in T, \A n \in Nat : n \in T => n + 1 \in T
  PROVE  \A n \in Nat : n \in T
<1>1. IsWellFoundedOn(BelowNat, Nat)
  BY NatLessThanWellFounded, Zenon DEF OpToRel, BelowNat
<1> SUFFICES ASSUME Nat \ T # {} PROVE FALSE  OBVIOUS
<1>2. Nat \ T \subseteq Nat  OBVIOUS
<1>3. PICK x \in Nat \ T : \A y \in Nat \ T : ~(<<y, x>> \in BelowNat)
  BY <1>1, <1>2, WFMin, Zenon
<1>4. x # 0  OBVIOUS
<1>5. x - 1 \in Nat /\ (x - 1) + 1 = x /\ x - 1 < x  BY <1>4
<1>6. x - 1 \in Nat \ T /\ <<x - 1, x>> \in BelowNat  BY <1>5 DEF BelowNat
<1> QED  BY <1>3, <1>6

Good(cmds, g, n) ==
  /\ g = [i \in 0 .. n |-> g[i]]
  /\ g[0] = InitialRegs
  /\ \A i \in 1 .. n : g[i] = Leaves(cmds[i], g[i - 1])

LEMMA GoodExists == ASSUME NEW cmds PROVE \A n \in Nat : \E g : Good(cmds, g, n)
<1> DEFINE T == {n \in Nat : \E g : Good(cmds, g, n)}
<1>1. 0 \in T
  <2> DEFINE g == [i \in 0 .. 0 |-> InitialRegs]
  <2>1. g[0] = InitialRegs /\ g = [i \in 0 .. 0 |-> g[i]]  OBVIOUS
  <2>2. Good(cmds, g, 0)  BY <2>1 DEF Good
  <2> QED  BY <2>2
<1>2. ASSUME NEW n \in Nat, n \in T PROVE n + 1 \in T
  <2>1. PICK g : Good(cmds, g, n)  BY <1>2
  <2> DEFINE h == [i \in 0 .. n + 1 |-> IF i = n + 1 THEN Leaves(cmds[n + 1], g[n]) ELSE g[i]]
  <2>2. h = [i \in 0 .. n + 1 |-> h[i]]  OBVIOUS
  <2>3. h[0] = InitialRegs  BY <2>1 DEF Good
  <2>4. ASSUME NEW i \in 1 .. n + 1 PROVE h[i] = Leaves(cmds[i], h[i - 1])
    <3>1. CASE i = n + 1
      <4>1. i - 1 = n /\ n \in 0 .. n + 1 /\ n # n + 1 /\ i \in 0 .. n + 1  BY <3>1
      <4>2. h[i] = Leaves(cmds[i], g[n]) /\ h[i - 1] = g[n]  BY <3>1, <4>1
      <4> QED  BY <4>2
    <3>2. CASE i # n + 1
      <4>1. i \in 1 .. n /\ i - 1 \in 0 .. n + 1 /\ i - 1 # n + 1 /\ i \in 0 .. n + 1
        BY <3>2
      <4>2. h[i] = g[i] /\ h[i - 1] = g[i - 1]  BY <3>2, <4>1
      <4> QED  BY <2>1, <4>1, <4>2 DEF Good
    <3> QED  BY <3>1, <3>2
  <2> HIDE DEF h
  <2>5. Good(cmds, h, n + 1)  BY <2>2, <2>3, <2>4 DEF Good
  <2> QED  BY <2>5
<1> HIDE DEF T
<1>3. \A n \in Nat : n \in T  BY <1>1, <1>2, SetInduction
<1> QED  BY <1>3 DEF T

LEMMA GoodUnique ==
  ASSUME NEW cmds, NEW g, NEW h, NEW n \in Nat, NEW m \in Nat,
         Good(cmds, g, n), Good(cmds, h, m)
  PROVE  \A i \in Nat : i <= n /\ i <= m => g[i] = h[i]
<1> DEFINE T == {i \in Nat : i <= n /\ i <= m => g[i] = h[i]}
<1>1. 0 \in T  BY DEF Good
<1>2. ASSUME NEW i \in Nat, i \in T PROVE i + 1 \in T
  <2> SUFFICES ASSUME i + 1 <= n, i + 1 <= m PROVE g[i + 1] = h[i + 1]  OBVIOUS
  <2>1. g[i] = h[i]  BY <1>2
  <2>2. i + 1 \in 1 .. n /\ i + 1 \in 1 .. m /\ (i + 1) - 1 = i  OBVIOUS
  <2>3. g[i + 1] = Leaves(cmds[i + 1], g[(i + 1) - 1])  BY <2>2 DEF Good
  <2>4. h[i + 1] = Leaves(cmds[i + 1], h[(i + 1) - 1])  BY <2>2 DEF Good
  <2> QED  BY <2>1, <2>2, <2>3, <2>4
<1> HIDE DEF T
<1>3. \A i \in Nat : i \in T  BY <1>1, <1>2, SetInduction
<1> QED  BY <1>3 DEF T

LEMMA AfterStep ==
  ASSUME NEW cmds
  PROVE  /\ After(cmds)[0] = InitialRegs
         /\ \A n \in Nat : After(cmds)[n + 1] = Leaves(cmds[n + 1], After(cmds)[n])
<1> DEFINE w(n) == CHOOSE g : Good(cmds, g, n)
           F == [n \in Nat |-> w(n)[n]]
<1>1. ASSUME NEW n \in Nat PROVE Good(cmds, w(n), n)
  BY GoodExists, Zenon
<1> HIDE DEF w
<1>2. F[0] = InitialRegs  BY <1>1 DEF Good
<1>3. ASSUME NEW n \in Nat PROVE F[n + 1] = Leaves(cmds[n + 1], F[n])
  <2>1. n + 1 \in Nat /\ n + 1 \in 1 .. n + 1 /\ (n + 1) - 1 = n /\ n <= n + 1 /\ n <= n
    OBVIOUS
  <2>2. F[n + 1] = w(n + 1)[n + 1] /\ F[n] = w(n)[n]  BY <2>1
  <2>3. w(n + 1)[n + 1] = Leaves(cmds[n + 1], w(n + 1)[n])
    <3>1. Good(cmds, w(n + 1), n + 1)  BY <1>1, <2>1
    <3>2. w(n + 1)[n + 1] = Leaves(cmds[n + 1], w(n + 1)[(n + 1) - 1])
      BY <2>1, <3>1 DEF Good
    <3> QED  BY <2>1, <3>2
  <2>4. w(n + 1)[n] = w(n)[n]
    <3>1. Good(cmds, w(n + 1), n + 1) /\ Good(cmds, w(n), n)  BY <1>1, <2>1
    <3> QED  BY <2>1, <3>1, GoodUnique
  <2> QED  BY <2>2, <2>3, <2>4
<1> DEFINE Fixed(f) == f = [n \in Nat |-> IF n = 0 THEN InitialRegs
                                                   ELSE Leaves(cmds[n], f[n - 1])]
<1> HIDE DEF F
<1>4. Fixed(F)
  <2>1. F = [n \in Nat |-> F[n]]  BY DEF F
  <2>2. ASSUME NEW n \in Nat
        PROVE  F[n] = IF n = 0 THEN InitialRegs ELSE Leaves(cmds[n], F[n - 1])
    <3>1. CASE n = 0  BY <1>2, <3>1
    <3>2. CASE n # 0
      <4>1. n - 1 \in Nat /\ (n - 1) + 1 = n  BY <3>2
      <4>2. F[(n - 1) + 1] = Leaves(cmds[(n - 1) + 1], F[n - 1])  BY <1>3, <4>1
      <4> QED  BY <3>2, <4>1, <4>2
    <3> QED  BY <3>1, <3>2
  <2> QED  BY <2>1, <2>2, Zenon
<1>5. Fixed(After(cmds))
  <2>1. After(cmds) = CHOOSE f : Fixed(f)  BY Zenon DEF After
  <2> HIDE DEF Fixed
  <2> QED  BY <1>4, <2>1, Zenon
<1> DEFINE A == After(cmds)
<1> HIDE DEF A
<1>6. A = [n \in Nat |-> IF n = 0 THEN InitialRegs ELSE Leaves(cmds[n], A[n - 1])]
  BY <1>5 DEF A
<1>7. A[0] = InitialRegs  BY <1>6
<1>8. ASSUME NEW n \in Nat PROVE A[n + 1] = Leaves(cmds[n + 1], A[n])
  <2>1. n + 1 \in Nat /\ n + 1 # 0 /\ (n + 1) - 1 = n  OBVIOUS
  <2>2. A[n + 1] = IF n + 1 = 0 THEN InitialRegs ELSE Leaves(cmds[n + 1], A[(n + 1) - 1])
    BY <1>6, <2>1, Zenon
  <2> QED  BY <2>1, <2>2
<1> QED  BY <1>7, <1>8 DEF A

--------------------------------------------------------------------------------
\* Numbers.

LEMMA TwoOctets == ASSUME NEW x \in Nat, NEW y \in Nat, x <= 255, y <= 255
                   PROVE  256 * x + y \in Nat /\ 256 * x + y <= 65535
OBVIOUS

LEMMA OctetIsNat == ASSUME NEW x \in Octet PROVE x \in Nat /\ x <= 255
BY SMT DEF Octet

LEMMA HalfIsNat == ASSUME NEW n \in Half PROVE n \in Nat /\ n <= 65535
BY SMT DEF Half

LEMMA UptoIs == ASSUME NEW m \in Nat, NEW n \in Nat, n <= m PROVE n \in 0 .. m
BY SMT

LEMMA NatIsHalf == ASSUME NEW n \in Nat, n <= 65535 PROVE n \in Half
<1> DEFINE M == 65535
<1>2. M \in Nat /\ n <= M  BY SMT
<1>3. Half = 0 .. M  BY SMT DEF Half
<1> HIDE DEF M
<1> QED  BY <1>2, <1>3, UptoIs

LEMMA AddrIsNat ==
  ASSUME NEW a, a[1] \in Nat, a[2] \in Nat, a[3] \in Nat, a[4] \in Nat
  PROVE  AddrOf(a) \in Nat
<1>1. PICK w \in Nat : a[1] = w  OBVIOUS
<1>2. PICK x \in Nat : a[2] = x  OBVIOUS
<1>3. PICK y \in Nat : a[3] = y  OBVIOUS
<1>4. PICK z \in Nat : a[4] = z  OBVIOUS
<1>5. w * 16777216 + x * 65536 + y * 256 + z \in Nat  BY SMT
<1> QED  BY <1>1, <1>2, <1>3, <1>4, <1>5, SMT DEF AddrOf

LEMMA FieldFacts ==
  ASSUME NEW c, c.bytes \in Seq(Octet), Len(c.bytes) >= 8
  PROVE  /\ Field(c).len = 256 * c.bytes[7] + c.bytes[8]
         /\ Field(c).len \in Nat /\ Field(c).len <= 65535
         /\ Field(c).base \in Nat
         /\ \A a : (\A j \in 1 .. 4 : a[j] = c.bytes[2 + j]) => AddrOf(a) = Field(c).base
<1> DEFINE d == c.bytes
<1> HIDE DEF d
<1>1. ASSUME NEW i \in 1 .. 8 PROVE d[i] \in Nat /\ d[i] <= 255
  <2>1. d \in Seq(Octet) /\ i \in 1 .. Len(d)  BY LenProperties DEF d
  <2>2. d[i] \in Octet  BY <2>1, ElementOfSeq
  <2> QED  BY <2>2, OctetIsNat
<1> DEFINE s == SubSeq(d, 3, 6)
<1>2. Field(c).len = 256 * d[7] + d[8]  BY SMT DEF Field, d
<1>3. Field(c).base = AddrOf(s)  BY SMT DEF Field, d
<1>4. Field(c).len \in Nat /\ Field(c).len <= 65535
  <2>1. d[7] \in Nat /\ d[7] <= 255  BY <1>1
  <2>2. d[8] \in Nat /\ d[8] <= 255  BY <1>1
  <2> QED  BY <2>1, <2>2, <1>2, TwoOctets, SMT
<1>5. s[1] = d[3] /\ s[2] = d[4] /\ s[3] = d[5] /\ s[4] = d[6]
  <2>1. d \in Seq(Octet) /\ Len(d) \in Nat /\ Len(d) >= 8  BY LenProperties DEF d
  <2> QED  BY <2>1, SubSeqProperties, SMT
<1> HIDE DEF s
<1>6. AddrOf(s) \in Nat
  <2>1. d[3] \in Nat /\ d[4] \in Nat /\ d[5] \in Nat /\ d[6] \in Nat  BY <1>1
  <2> QED  BY <1>5, <2>1, AddrIsNat, SMT
<1>7. ASSUME NEW a, \A j \in 1 .. 4 : a[j] = d[2 + j] PROVE AddrOf(a) = AddrOf(s)
  <2>1. a[1] = d[3] /\ a[2] = d[4] /\ a[3] = d[5] /\ a[4] = d[6]
    <3>1. a[1] = d[2 + 1] /\ a[2] = d[2 + 2] /\ a[3] = d[2 + 3] /\ a[4] = d[2 + 4]
      BY <1>7, SMT
    <3> QED  BY <3>1, SMT
  <2> QED  BY <1>5, <2>1, SMT DEF AddrOf
<1> QED  BY <1>2, <1>3, <1>4, <1>6, <1>7, SMT DEF d

\* The FIFO hands over the bytes of a command in order.
LEMMA FifoStep ==
  ASSUME FifoInv, Fifo
  PROVE  /\ FifoInv' /\ plan' = plan
         /\ ~Take => cmd_no' = cmd_no /\ cmd_pos' = cmd_pos
         /\ Take => /\ cmd_no <= Len(Commands) /\ s_cmd_tdata \in Octet
                    /\ IF s_cmd_tlast THEN cmd_no' = cmd_no + 1 /\ cmd_pos' = 1
                                      ELSE cmd_no' = cmd_no /\ cmd_pos' = cmd_pos + 1
<1>0. plan' = plan  BY DEF Fifo
<1>1. plan' = plan /\ Commands' = Commands  BY <1>0 DEF Commands
<1>2. /\ Len(Commands) \in Nat
      /\ \A n \in 1 .. Len(Commands) : Len(Commands[n].bytes) \in Nat \ {0}
      /\ \A n \in 1 .. Len(Commands) :
           \A i \in 1 .. Len(Commands[n].bytes) : Commands[n].bytes[i] \in Octet
  BY CommandFacts DEF FifoInv
<1>3. ~Take => cmd_no' = cmd_no /\ cmd_pos' = cmd_pos  BY DEF Fifo
<1>4. Take => /\ cmd_no <= Len(Commands) /\ s_cmd_tdata \in Octet
              /\ IF s_cmd_tlast THEN cmd_no' = cmd_no + 1 /\ cmd_pos' = 1
                                ELSE cmd_no' = cmd_no /\ cmd_pos' = cmd_pos + 1
  BY <1>2 DEF Fifo, FifoInv, Take, s_cmd_tdata
<1>5. /\ cmd_no' \in 1 .. Len(Commands) + 1 /\ cmd_pos' \in Nat \ {0}
      /\ cmd_no' <= Len(Commands) => cmd_pos' <= Len(Commands[cmd_no'].bytes)
  BY <1>2, <1>3, <1>4 DEF FifoInv, s_cmd_tlast
<1>6. /\ s_cmd_tvalid' \in BOOLEAN
      /\ s_cmd_tvalid' => cmd_no' <= Len(Commands)
      /\ ~plan.gaps /\ cmd_no' <= Len(Commands) /\ cmd_pos' > 1 => s_cmd_tvalid'
  BY <1>2, <1>5 DEF Fifo
<1> QED  BY <1>1, <1>3, <1>4, <1>5, <1>6 DEF FifoInv

LEMMA CmdFacts ==
  ASSUME Types, Number <= Len(Commands)
  PROVE  /\ Number \in 1 .. Len(Commands)
         /\ Cmd.bytes \in Seq(Octet) /\ Len(Cmd.bytes) \in Nat \ {0}
         /\ \A i \in 1 .. Len(Cmd.bytes) : Cmd.bytes[i] \in Octet
         /\ Cmd.tid \in {0, 1}
         /\ TakenWhole(Cmd, plan.gaps)
<1>1. Len(responses) \in Nat  BY LenProperties DEF Types, AnswerTypes
<1>2. plan \in Plans  BY DEF Types, FifoInv
<1>3. Number \in 1 .. Len(Commands)  BY <1>1, <1>2, CommandFacts DEF Number
<1> QED  BY <1>2, <1>3, CommandFacts DEF Cmd

LEMMA OtherFacts ==
  ASSUME Types, Number <= Len(Commands), Cmd.bytes[1] \notin {OP_READ_BLOCK, OP_WRITE_BLOCK},
         plan.gaps
  PROVE  Len(Cmd.bytes) <= 2
<1>1. TakenWhole(Cmd, plan.gaps)  BY CmdFacts
<1> QED  BY <1>1 DEF TakenWhole

LEMMA ReadFacts ==
  ASSUME Types, Number <= Len(Commands), Cmd.bytes[1] = OP_READ_BLOCK
  PROVE  /\ Len(Cmd.bytes) >= 8
         /\ Len(Cmd.bytes) = 8 \/ Answers(Base, ReadLen(Cmd))
<1>1. TakenWhole(Cmd, plan.gaps)  BY CmdFacts
<1> QED  BY <1>1 DEF TakenWhole, Base, OP_READ_BLOCK, OP_WRITE_BLOCK

LEMMA WriteFacts ==
  ASSUME Types, Number <= Len(Commands), Cmd.bytes[1] = OP_WRITE_BLOCK
  PROVE  /\ Len(Cmd.bytes) >= 9 /\ Field(Cmd).len >= 1
         /\ Answers(Base, 4 * ((Written(Cmd) - 1) \div 4))
         /\ Answers(Base, Written(Cmd)) \/ Written(Cmd) = Len(Cmd.bytes) - 8
<1>1. TakenWhole(Cmd, plan.gaps)  BY CmdFacts
<1> QED  BY <1>1 DEF TakenWhole, Base, OP_READ_BLOCK, OP_WRITE_BLOCK

LEMMA BlockFacts ==
  ASSUME Types, Number <= Len(Commands), Cmd.bytes[1] \in {OP_READ_BLOCK, OP_WRITE_BLOCK}
  PROVE  /\ Len(Cmd.bytes) >= 8
         /\ Field(Cmd).len = 256 * Cmd.bytes[7] + Cmd.bytes[8] /\ Field(Cmd).len \in Half
         /\ Base \in Nat
         /\ \A a : (\A j \in 1 .. 4 : a[j] = Cmd.bytes[2 + j]) => AddrOf(a) = Base
<1>1. Cmd.bytes \in Seq(Octet)  BY CmdFacts
<1>2. Len(Cmd.bytes) >= 8
  <2>1. CASE Cmd.bytes[1] = OP_READ_BLOCK  BY <2>1, ReadFacts
  <2>2. CASE Cmd.bytes[1] = OP_WRITE_BLOCK
    <3>1. Len(Cmd.bytes) >= 9  BY <2>2, WriteFacts
    <3>2. PICK n \in Nat : Len(Cmd.bytes) = n  BY <1>1, LenProperties
    <3> QED  BY <3>1, <3>2
  <2> QED  BY <2>1, <2>2
<1>3. /\ Field(Cmd).len = 256 * Cmd.bytes[7] + Cmd.bytes[8]
      /\ Field(Cmd).len \in Nat /\ Field(Cmd).len <= 65535
      /\ Base \in Nat
      /\ \A a : (\A j \in 1 .. 4 : a[j] = Cmd.bytes[2 + j]) => AddrOf(a) = Base
  BY <1>1, <1>2, FieldFacts, SMT DEF Base
<1>4. Field(Cmd).len \in Half  BY <1>3, NatIsHalf, SMT
<1> QED  BY <1>2, <1>3, <1>4, SMT

LEMMA ReadLenFacts ==
  ASSUME Types, Number <= Len(Commands), Cmd.bytes[1] = OP_READ_BLOCK
  PROVE  ReadLen(Cmd) \in 1 .. READ_MAX
<1>1. Field(Cmd).len \in Half  BY BlockFacts
<1>2. PICK n \in Nat : Field(Cmd).len = n  BY <1>1, HalfIsNat
<1>3. ReadLen(Cmd) = IF n = 0 THEN 4 ELSE IF n > READ_MAX THEN READ_MAX ELSE n
  BY <1>2 DEF ReadLen
<1> QED  BY <1>3 DEF READ_MAX

LEMMA WrittenFacts ==
  ASSUME Types, Number <= Len(Commands), Cmd.bytes[1] = OP_WRITE_BLOCK
  PROVE  \E size, n, w \in Nat :
           /\ Len(Cmd.bytes) = size /\ Field(Cmd).len = n /\ Written(Cmd) = w
           /\ size >= 9 /\ 1 <= w /\ w <= n /\ w <= size - 8
           /\ w = n \/ w = size - 8
<1>1. Field(Cmd).len \in Half  BY BlockFacts
<1>2. PICK n \in Nat : Field(Cmd).len = n  BY <1>1, HalfIsNat
<1>3. PICK size \in Nat : Len(Cmd.bytes) = size  BY CmdFacts
<1>4. n >= 1 /\ size >= 9  BY <1>2, <1>3, WriteFacts
<1> DEFINE w == IF n < size - 8 THEN n ELSE size - 8
<1>5. w \in Nat /\ 1 <= w /\ w <= n /\ w <= size - 8 /\ (w = n \/ w = size - 8)  BY <1>4
<1>6. Written(Cmd) = w  BY <1>2, <1>3 DEF Written
<1> HIDE DEF w
<1> QED  BY <1>2, <1>3, <1>4, <1>5, <1>6

\* While nothing is answered, the command stays the same one.
LEMMA SameCommand ==
  ASSUME NEW ready, st # "RSP_SEND", Reader(ready), Fifo
  PROVE  /\ responses' = responses /\ sent' = sent /\ plan' = plan
         /\ Number' = Number /\ Cmd' = Cmd /\ Base' = Base /\ Before' = Before
         /\ Commands' = Commands
<1>1. ~m_rsp_tvalid  BY DEF m_rsp_tvalid
<1>2. responses' = responses /\ sent' = sent  BY <1>1 DEF Reader
<1>3. plan' = plan  BY DEF Fifo
<1>4. Commands' = Commands  BY <1>3 DEF Commands
<1>5. Number' = Number  BY <1>2 DEF Number
<1>6. Cmd' = Cmd  BY <1>4, <1>5 DEF Cmd
<1>7. Base' = Base  BY <1>6 DEF Base
<1>8. Before' = Before  BY <1>4, <1>5 DEF Before
<1> QED  BY <1>2, <1>3, <1>4, <1>5, <1>6, <1>7, <1>8

\* How a cycle of the FIFO moves through the command.
LEMMA TakeStep ==
  ASSUME Types, Fifo, Number <= Len(Commands), Number' = Number,
         NEW p, Upto(p)
  PROVE  /\ p \in 1 .. Len(Cmd.bytes)
         /\ s_cmd_tdata = Cmd.bytes[p] /\ s_cmd_tdata \in Octet
         /\ s_cmd_tlast <=> p = Len(Cmd.bytes)
         /\ s_tid = Cmd.tid
         /\ ~Take => Upto(p)'
         /\ Take /\ ~s_cmd_tlast => cmd_no' = Number' /\ cmd_pos' = p + 1
         /\ Take /\ s_cmd_tlast => Whole'
<1>1. FifoInv  BY DEF Types
<1>2. /\ Number \in 1 .. Len(Commands) /\ Len(Cmd.bytes) \in Nat \ {0}
      /\ \A i \in 1 .. Len(Cmd.bytes) : Cmd.bytes[i] \in Octet
  BY CmdFacts
<1>3. cmd_no = Number /\ cmd_pos = p  BY DEF Upto
<1>4. Commands[cmd_no] = Cmd  BY <1>3 DEF Cmd
<1>5. p \in 1 .. Len(Cmd.bytes)  BY <1>1, <1>2, <1>3, <1>4 DEF FifoInv
<1>6. /\ s_cmd_tdata = Cmd.bytes[p] /\ s_tid = Cmd.tid
      /\ s_cmd_tlast <=> p = Len(Cmd.bytes)
  BY <1>3, <1>4 DEF s_cmd_tdata, s_cmd_tlast, s_tid
<1>7. /\ ~Take => cmd_no' = cmd_no /\ cmd_pos' = cmd_pos
      /\ Take /\ ~s_cmd_tlast => cmd_no' = cmd_no /\ cmd_pos' = cmd_pos + 1
      /\ Take /\ s_cmd_tlast => cmd_no' = cmd_no + 1 /\ cmd_pos' = 1
  BY <1>1, FifoStep
<1> QED  BY <1>2, <1>3, <1>5, <1>6, <1>7 DEF Upto, Whole

\* A response fits in the buffer.
LEMMA AnswerTyped ==
  ASSUME AnswerTypes, NEW b, b \in Seq(Octet), Len(b) <= 32, Answer(b)
  PROVE  /\ rsp_buf' \in [0 .. 31 -> Octet] /\ rsp_len' \in 0 .. 32 /\ rsp_idx' \in Nat
         /\ rsp_len' = Len(b) /\ rsp_idx' = 0
         /\ \A i \in 0 .. Len(b) - 1 : rsp_buf'[i] = b[i + 1]
<1>1. Len(b) \in Nat  BY LenProperties
<1>2. \A i \in 1 .. Len(b) : b[i] \in Octet  BY ElementOfSeq
<1>3. \A i \in 0 .. 31 : i < Len(b) => b[i + 1] \in Octet  BY <1>1, <1>2
<1>4. rsp_buf' = [i \in 0 .. 31 |-> IF i < Len(b) THEN b[i + 1] ELSE rsp_buf[i]]
  BY DEF Answer
<1>5. rsp_buf' \in [0 .. 31 -> Octet]  BY <1>3, <1>4 DEF AnswerTypes
<1>6. ASSUME NEW i \in 0 .. Len(b) - 1 PROVE rsp_buf'[i] = b[i + 1]
  <2>1. i \in 0 .. 31 /\ i < Len(b)  BY <1>1
  <2> QED  BY <1>4, <2>1
<1>7. rsp_len' = Len(b) /\ rsp_idx' = 0  BY DEF Answer
<1>8. rsp_len' \in 0 .. 32
  <2>1. PICK n \in Nat : Len(b) = n  BY <1>1
  <2>2. n <= 32  BY <2>1
  <2> QED  BY <1>7, <2>1, <2>2
<1> QED  BY <1>5, <1>6, <1>7, <1>8

LEMMA AppendOctet ==
  ASSUME NEW s \in Seq(Octet), NEW x \in Octet
  PROVE  /\ Append(s, x) \in Seq(Octet) /\ Len(Append(s, x)) = Len(s) + 1
         /\ \A i \in 1 .. Len(s) : Append(s, x)[i] = s[i]
         /\ Append(s, x)[Len(s) + 1] = x
BY AppendProperties

LEMMA ShiftIn ==
  ASSUME NEW a \in Seq(Octet), Len(a) = 4, NEW x \in Octet
  PROVE  /\ Append(Tail(a), x) \in Seq(Octet) /\ Len(Append(Tail(a), x)) = 4
         /\ Append(Tail(a), x)[1] = a[2] /\ Append(Tail(a), x)[2] = a[3]
         /\ Append(Tail(a), x)[3] = a[4] /\ Append(Tail(a), x)[4] = x
<1> DEFINE t == Tail(a)
<1>1. a # <<>>  BY EmptySeq
<1>2. /\ t \in Seq(Octet) /\ Len(t) = Len(a) - 1
      /\ \A i \in 1 .. Len(t) : t[i] = a[i + 1]
  BY <1>1, HeadTailProperties
<1> HIDE DEF t
<1>3. Len(t) = 3  BY <1>2
<1>4. t[1] = a[2] /\ t[2] = a[3] /\ t[3] = a[4]
  <2>1. t[1] = a[1 + 1] /\ t[2] = a[2 + 1] /\ t[3] = a[3 + 1]  BY <1>2, <1>3
  <2> QED  BY <2>1
<1>5. t \in Seq(Octet)  BY <1>2
<1> DEFINE b == Append(t, x)
<1>7. /\ b \in Seq(Octet) /\ Len(b) = Len(t) + 1
      /\ \A i \in 1 .. Len(t) : b[i] = t[i]
      /\ b[Len(t) + 1] = x
  BY <1>5, AppendOctet, Zenon
<1> HIDE DEF b
<1>6. Len(b) = 4 /\ b[1] = t[1] /\ b[2] = t[2] /\ b[3] = t[3] /\ b[4] = x
  BY <1>3, <1>7
<1> QED  BY <1>4, <1>7, <1>6 DEF t, b

LEMMA ShiftInLow ==
  ASSUME NEW n \in Half, NEW x \in Octet
  PROVE  (n % 256) * 256 + x \in Half
<1>1. PICK k \in Nat : n = k  BY HalfIsNat, SMT
<1>2. PICK y \in Nat : x = y /\ y <= 255  BY OctetIsNat
<1>3. PICK m \in Nat : k % 256 = m /\ m <= 255  BY SMT
<1>4. m * 256 + y \in Nat /\ m * 256 + y <= 65535  BY <1>2, <1>3, SMT
<1> DEFINE z == m * 256 + y
<1>5. (n % 256) * 256 + x = z  BY <1>1, <1>2, <1>3, SMT
<1> HIDE DEF z
<1>6. z \in Nat /\ z <= 65535  BY <1>4, SMT DEF z
<1>7. z \in Half  BY <1>6, NatIsHalf, SMT
<1> QED  BY <1>5, <1>7, SMT

LEMMA HeaderTypesKept ==
  ASSUME Types, Place, Fifo, NEW ack, NEW ready, Master(ack, ready)
  PROVE  HeaderTypes' /\ Flag'
<1>0. HeaderTypes /\ Flag /\ FifoInv  BY DEF Types
<1>1. Take => s_cmd_tdata \in Octet  BY <1>0, FifoStep
<1>2. s_cmd_tlast \in BOOLEAN  BY DEF s_cmd_tlast
<1>3. CASE Idle /\ s_cmd_tvalid
  <2>1. Take  BY <1>3 DEF Take, s_cmd_tready, Idle
  <2>2. s_tid \in {0, 1}  BY <1>0, <1>3, CommandFacts DEF FifoInv, s_tid
  <2>3. /\ op' = s_cmd_tdata /\ tid_latched' = s_tid
        /\ addr' = <<0, 0, 0, 0>> /\ len' = 0 /\ byte_idx' \in {byte_idx, 0}
        /\ cmd_was_last' = cmd_was_last
    BY <1>3 DEF Idle
  <2>4. addr' \in Seq(Octet) /\ Len(addr') = 4  BY <2>3, SMT DEF Octet
  <2>5. len' \in Half  BY <2>3, SMT DEF Half
  <2>6. HeaderTypes'  BY <1>0, <1>1, <2>1, <2>2, <2>3, <2>4, <2>5 DEF HeaderTypes
  <2>7. Flag'  BY <1>0, <2>3 DEF Flag
  <2> QED  BY <2>6, <2>7
<1>4. CASE Idle /\ ~s_cmd_tvalid
  <2>1. UNCHANGED <<op, addr, len, byte_idx, tid_latched, cmd_was_last>>
    BY <1>4 DEF Idle, hdrVars
  <2> QED  BY <1>0, <2>1 DEF HeaderTypes, Flag
<1>5. CASE GetHeader
  <2>1. UNCHANGED <<op, addr, len, tid_latched, cmd_was_last>> /\ byte_idx' \in {0, byte_idx}
    BY <1>5 DEF GetHeader
  <2> QED  BY <1>0, <2>1 DEF HeaderTypes, Flag
<1>6. CASE GetAddr
  <2>1. s_cmd_tdata \in Octet  BY <1>1, <1>6 DEF GetAddr, Take, s_cmd_tready
  <2>2. /\ UNCHANGED <<op, len, tid_latched, cmd_was_last>>
        /\ addr' = Append(Tail(addr), s_cmd_tdata) /\ byte_idx' = (byte_idx + 1) % 4
    BY <1>6 DEF GetAddr
  <2>3. addr' \in Seq(Octet) /\ Len(addr') = 4
    BY <1>0, <2>1, <2>2, ShiftIn DEF HeaderTypes
  <2>4. byte_idx' \in 0 .. 3  BY <1>0, <2>2 DEF HeaderTypes
  <2> QED  BY <1>0, <2>2, <2>3, <2>4 DEF HeaderTypes, Flag
<1>7. CASE GetLen
  <2>1. s_cmd_tdata \in Octet  BY <1>1, <1>7 DEF GetLen, Take, s_cmd_tready
  <2>2. /\ UNCHANGED <<op, addr, tid_latched>> /\ cmd_was_last' \in {cmd_was_last, s_cmd_tlast}
        /\ len' = (len % 256) * 256 + s_cmd_tdata /\ byte_idx' \in {0, 2, byte_idx + 1}
    BY <1>7 DEF GetLen
  <2>3. byte_idx \in {0, 1}  BY <1>7 DEF GetLen, Place
  <2>4. len' \in Half  BY <1>0, <2>1, <2>2, ShiftInLow DEF HeaderTypes
  <2>5. byte_idx' \in 0 .. 3  BY <2>2, <2>3
  <2> QED  BY <1>0, <1>2, <2>2, <2>4, <2>5 DEF HeaderTypes, Flag
<1>8. CASE WriteData
  <2>1. /\ UNCHANGED <<op, addr, len, byte_idx, tid_latched>>
        /\ cmd_was_last' \in {cmd_was_last, s_cmd_tlast}
    BY <1>8 DEF WriteData, hdrVars
  <2> QED  BY <1>0, <1>2, <2>1 DEF HeaderTypes, Flag
<1>9. CASE ack /\ WriteExec
  <2>1. UNCHANGED <<op, addr, len, tid_latched, cmd_was_last>> /\ byte_idx' \in {byte_idx, 0}
    BY <1>9 DEF WriteExec
  <2> QED  BY <1>0, <2>1 DEF HeaderTypes, Flag
<1>10. CASE \/ WaitForByte \/ GiveUp \/ WaitForAck \/ ReadExec(regs[wb_adr])
            \/ DiscardCmd \/ RspSend(ready)
  <2>1. UNCHANGED <<op, addr, len, byte_idx, tid_latched, cmd_was_last>>
    BY <1>10 DEF WaitForByte, GiveUp, WaitForAck, ReadExec, DiscardCmd, RspSend, hdrVars
  <2> QED  BY <1>0, <2>1 DEF HeaderTypes, Flag
<1> QED  BY <1>3, <1>4, <1>5, <1>6, <1>7, <1>8, <1>9, <1>10 DEF Master

LEMMA BusTypesKept ==
  ASSUME Types, Fifo, NEW ack, NEW ready, Master(ack, ready), Slave(ack)
  PROVE  BusTypes'
<1>0. HeaderTypes /\ FifoInv /\ BusTypes  BY DEF Types
<1>1. /\ wb_adr \in Nat /\ wb_dat \in [Lanes -> Octet] /\ wb_sel \in SUBSET Lanes
      /\ wb_byte_offset \in Nat /\ wb_timeout_cnt \in Nat
      /\ regs \in [Answering -> [Lanes -> Octet]]
  BY <1>0 DEF BusTypes
<1>2. regs' \in [Answering -> [Lanes -> Octet]]
  <2>1. CASE ack /\ st = "WB_WRITE_EXEC"
    <3> DEFINE w == [i \in Lanes |-> IF i \in wb_sel THEN wb_dat[i] ELSE regs[wb_adr][i]]
    <3>1. wb_adr \in Answering  BY <2>1 DEF Slave
    <3>2. regs[wb_adr] \in [Lanes -> Octet]  BY <1>1, <3>1
    <3>3. w \in [Lanes -> Octet]  BY <1>1, <3>2
    <3>4. regs' = [regs EXCEPT ![wb_adr] = w]  BY <2>1 DEF Slave
    <3> HIDE DEF w
    <3> QED  BY <1>1, <3>1, <3>3, <3>4
  <2>2. CASE ~(ack /\ st = "WB_WRITE_EXEC")
    <3>1. regs' = regs  BY <2>2 DEF Slave
    <3> QED  BY <1>1, <3>1
  <2> QED  BY <2>1, <2>2
<1>3. CASE Idle
  <2>1. UNCHANGED <<wb_adr, wb_dat, wb_sel, wb_byte_offset>> /\ wb_timeout_cnt' = 0
    BY <1>3 DEF Idle
  <2> QED  BY <1>1, <1>2, <2>1 DEF BusTypes
<1>4. CASE GetLen
  <2>1. /\ wb_dat' \in {Zeros, wb_dat} /\ wb_sel' \in {{}, wb_sel}
        /\ wb_adr' \in {AddrOf(addr), wb_adr}
        /\ wb_byte_offset' \in {0, wb_byte_offset} /\ wb_timeout_cnt' \in {0, wb_timeout_cnt}
    BY <1>4 DEF GetLen, busVars
  <2>2. AddrOf(addr) \in Nat
    <3>1. addr \in Seq(Octet) /\ Len(addr) = 4  BY <1>0 DEF HeaderTypes
    <3>2. addr[1] \in Octet /\ addr[2] \in Octet /\ addr[3] \in Octet /\ addr[4] \in Octet
      BY <3>1, ElementOfSeq
    <3> QED  BY <3>2, OctetIsNat, AddrIsNat
  <2>3. Zeros \in [Lanes -> Octet]  BY DEF Zeros, Octet
  <2> QED  BY <1>1, <1>2, <2>1, <2>2, <2>3 DEF BusTypes
<1>5. CASE WriteData
  <2>1. /\ wb_dat' = [wb_dat EXCEPT ![wb_byte_offset % 4] = s_cmd_tdata]
        /\ wb_sel' = wb_sel \cup {wb_byte_offset % 4}
        /\ wb_byte_offset' = wb_byte_offset + 1 /\ UNCHANGED <<wb_adr, wb_timeout_cnt>>
    BY <1>5 DEF WriteData
  <2>2. wb_byte_offset % 4 \in Lanes  BY <1>1 DEF Lanes
  <2>3. s_cmd_tdata \in Octet
    <3>1. cmd_no \in 1 .. Len(Commands) /\ cmd_pos \in 1 .. Len(Commands[cmd_no].bytes)
      BY <1>0, <1>5, CommandFacts DEF WriteData, FifoInv
    <3> QED  BY <1>0, <3>1, CommandFacts DEF s_cmd_tdata, FifoInv
  <2> QED  BY <1>1, <1>2, <2>1, <2>2, <2>3 DEF BusTypes
<1>6. CASE WaitForAck
  <2>1. UNCHANGED <<wb_adr, wb_dat, wb_sel, wb_byte_offset>>
        /\ wb_timeout_cnt' = wb_timeout_cnt + 1
    BY <1>6 DEF WaitForAck
  <2> QED  BY <1>1, <1>2, <2>1 DEF BusTypes
<1>7. CASE ack /\ WriteExec
  <2>1. /\ wb_timeout_cnt' = 0 /\ wb_byte_offset' = wb_byte_offset
        /\ wb_adr' \in {wb_adr, wb_adr + 4} /\ wb_dat' \in {wb_dat, Zeros}
        /\ wb_sel' \in {wb_sel, {}}
    BY <1>7 DEF WriteExec
  <2>2. Zeros \in [Lanes -> Octet]  BY DEF Zeros, Octet
  <2> QED  BY <1>1, <1>2, <2>1, <2>2 DEF BusTypes
<1>8. CASE ReadExec(regs[wb_adr])
  <2>1. /\ wb_timeout_cnt' = 0 /\ wb_byte_offset' = wb_byte_offset + 4
        /\ wb_adr' \in {wb_adr, wb_adr + 4} /\ UNCHANGED <<wb_dat, wb_sel>>
    BY <1>8 DEF ReadExec
  <2> QED  BY <1>1, <1>2, <2>1 DEF BusTypes
<1>9. CASE \/ GetHeader \/ GetAddr \/ WaitForByte \/ GiveUp \/ DiscardCmd \/ RspSend(ready)
  <2>1. UNCHANGED <<wb_adr, wb_dat, wb_sel, wb_byte_offset, wb_timeout_cnt>>
    BY <1>9 DEF GetHeader, GetAddr, WaitForByte, GiveUp, DiscardCmd, RspSend, busVars
  <2> QED  BY <1>1, <1>2, <2>1 DEF BusTypes
<1> QED  BY <1>3, <1>4, <1>5, <1>6, <1>7, <1>8, <1>9 DEF Master

LEMMA ActualFits ==
  ASSUME len \in Half, NEW got \in Nat, got >= len \/ got >= READ_MAX
  PROVE  Actual(got) \in 1 .. READ_MAX
<1>1. PICK n \in Nat : len = n  BY HalfIsNat
<1> QED  BY <1>1 DEF Actual, READ_MAX

LEMMA SimpleTyped == ASSUME NEW o PROVE Simple(o) \in Seq(Octet) /\ Len(Simple(o)) = 1
<1>1. <<RES_OK>> \in Seq(Octet) /\ <<RES_NOT_SUPPORTED>> \in Seq(Octet)
  BY DEF RES_OK, RES_NOT_SUPPORTED, Octet
<1> QED  BY <1>1 DEF Simple

LEMMA OkTyped ==
  ASSUME NEW n \in Half
  PROVE  /\ <<RES_OK>> \o Len16(n) \in Seq(Octet) /\ Len(<<RES_OK>> \o Len16(n)) = 3
         /\ (<<RES_OK>> \o Len16(n))[1] = RES_OK
         /\ (<<RES_OK>> \o Len16(n))[2] = (n \div 256) % 256
         /\ (<<RES_OK>> \o Len16(n))[3] = n % 256
<1>1. PICK k \in Nat : n = k  BY HalfIsNat
<1> DEFINE x == (n \div 256) % 256
           y == n % 256
           r == <<RES_OK>>
           l == Len16(n)
<1>2. x \in Octet /\ y \in Octet  BY <1>1 DEF Octet
<1>3. l = <<x, y>>  BY DEF Len16
<1> HIDE DEF x, y
<1>4. /\ r \in Seq(Octet) /\ Len(r) = 1 /\ r[1] = RES_OK
      /\ l \in Seq(Octet) /\ Len(l) = 2 /\ l[1] = x /\ l[2] = y
  <2>1. RES_OK \in Octet  BY DEF RES_OK, Octet
  <2> QED  BY <1>2, <1>3, <2>1
<1> HIDE DEF r, l
<1>5. /\ r \o l \in Seq(Octet) /\ Len(r \o l) = Len(r) + Len(l)
      /\ \A i \in 1 .. Len(r) + Len(l) :
           (r \o l)[i] = IF i <= Len(r) THEN r[i] ELSE l[i - Len(r)]
  BY <1>4, ConcatProperties
<1>6. /\ Len(r \o l) = 3 /\ (r \o l)[1] = RES_OK /\ (r \o l)[2] = x /\ (r \o l)[3] = y
  BY <1>4, <1>5
<1> QED  BY <1>5, <1>6 DEF x, y, r, l

LEMMA AnswerTypesKept ==
  ASSUME Types, Place, Fifo, NEW ack, NEW ready, Master(ack, ready), Reader(ready)
  PROVE  AnswerTypes'
<1>0. HeaderTypes /\ BusTypes /\ AnswerTypes  BY DEF Types
<1>1. /\ rsp_buf \in [0 .. 31 -> Octet] /\ rsp_len \in 0 .. 32 /\ rsp_idx \in Nat
      /\ sent \in Seq(Octet) /\ responses \in Seq([bytes : Seq(Octet), tid : {0, 1}])
  BY <1>0 DEF AnswerTypes
<1>11. rsp_len \in 0 .. 32 /\ rsp_idx \in Nat  BY <1>0 DEF AnswerTypes
<1>2. sent' \in Seq(Octet) /\ responses' \in Seq([bytes : Seq(Octet), tid : {0, 1}])
  <2>1. CASE ~(m_rsp_tvalid /\ ready)
    <3>1. sent' = sent /\ responses' = responses  BY <2>1 DEF Reader
    <3> QED  BY <1>1, <3>1
  <2>2. CASE m_rsp_tvalid /\ ready
    <3> DEFINE b == Append(sent, rsp_buf[rsp_idx])
    <3>1. rsp_idx \in 0 .. 31
      <4>1. rsp_idx < rsp_len  BY <2>2, Zenon DEF m_rsp_tvalid
      <4> QED  BY <1>11, <4>1
    <3>2. rsp_buf[rsp_idx] \in Octet  BY <1>1, <3>1
    <3>3. b \in Seq(Octet)  BY <1>1, <3>2, AppendOctet
    <3> HIDE DEF b
    <3>4. <<>> \in Seq(Octet)  BY EmptySeq
    <3>5. sent' \in {<<>>, b}  BY <2>2 DEF Reader, b
    <3>6. responses' \in {responses, Append(responses, [bytes |-> b, tid |-> tid_latched])}
      BY <2>2 DEF Reader, b
    <3>7. [bytes |-> b, tid |-> tid_latched] \in [bytes : Seq(Octet), tid : {0, 1}]
      BY <1>0, <3>3 DEF HeaderTypes
    <3> DEFINE r == [bytes |-> b, tid |-> tid_latched]
               R == [bytes : Seq(Octet), tid : {0, 1}]
    <3> HIDE DEF r, R
    <3>8. Append(responses, r) \in Seq(R)  BY <1>1, <3>7, AppendProperties DEF r, R
    <3> QED  BY <1>1, <3>3, <3>4, <3>5, <3>6, <3>8 DEF r, R
  <2> QED  BY <2>1, <2>2
<1>3. ASSUME NEW b, Answer(b), b \in Seq(Octet), Len(b) \in {1, 3} PROVE AnswerTypes'
  <2>1. Len(b) <= 32
    <3>1. PICK n \in {1, 3} : Len(b) = n  BY <1>3
    <3> QED  BY <3>1
  <2>2. rsp_buf' \in [0 .. 31 -> Octet] /\ rsp_len' \in 0 .. 32 /\ rsp_idx' \in Nat
    BY <1>0, <1>3, <2>1, AnswerTyped
  <2> QED  BY <1>2, <2>2 DEF AnswerTypes
<1>4. ASSUME UNCHANGED rspVars PROVE AnswerTypes'
  BY <1>1, <1>2, <1>4 DEF AnswerTypes, rspVars
<1>5. CASE Idle \/ GetHeader
  <2>1. PICK o : UNCHANGED rspVars \/ Answer(Simple(o))  BY <1>5 DEF Idle, GetHeader
  <2> QED  BY <1>3, <1>4, <2>1, SimpleTyped
<1>6. CASE GiveUp
  <2>1. Answer(<<RES_NOT_SUPPORTED>>)  BY <1>6 DEF GiveUp
  <2>2. <<RES_NOT_SUPPORTED>> \in Seq(Octet) /\ Len(<<RES_NOT_SUPPORTED>>) = 1
    BY DEF RES_NOT_SUPPORTED, Octet
  <2> QED  BY <1>3, <2>1, <2>2
<1>7. CASE ack /\ WriteExec
  <2>1. UNCHANGED rspVars \/ Answer(<<RES_OK>> \o Len16(len))  BY <1>7 DEF WriteExec
  <2>2. len \in Half  BY <1>0 DEF HeaderTypes
  <2> QED  BY <1>3, <1>4, <2>1, <2>2, OkTyped
<1>8. CASE ack /\ wb_adr \in Answering /\ ReadExec(regs[wb_adr])
  <2> DEFINE word == regs[wb_adr]
             got == wb_byte_offset + 4
             actual == Actual(got)
             body == [i \in 0 .. 31 |-> IF i \in wb_byte_offset + 3 .. wb_byte_offset + 6
                                        THEN word[i - wb_byte_offset - 3] ELSE rsp_buf[i]]
  <2>1. word \in [Lanes -> Octet] /\ wb_byte_offset \in Nat  BY <1>0, <1>8 DEF BusTypes
  <2> HIDE DEF word
  <2>2. body \in [0 .. 31 -> Octet]
    <3> SUFFICES ASSUME NEW i \in 0 .. 31, i \in wb_byte_offset + 3 .. wb_byte_offset + 6
                 PROVE  word[i - wb_byte_offset - 3] \in Octet
      BY <1>1
    <3>1. i - wb_byte_offset - 3 \in Lanes  BY <2>1 DEF Lanes
    <3> QED  BY <2>1, <3>1
  <2>3. CASE got >= len \/ got >= READ_MAX
    <3>1. /\ rsp_buf' = [body EXCEPT ![0] = RES_OK, ![1] = actual \div 256, ![2] = actual % 256]
          /\ rsp_len' = actual + 3 /\ rsp_idx' = 0
      BY <1>8, <2>3, Zenon DEF ReadExec, word
    <3>2. PICK n \in 1 .. 29 : actual = n
      BY <1>0, <2>1, <2>3, ActualFits DEF HeaderTypes, READ_MAX
    <3> HIDE DEF body, actual
    <3>3. RES_OK \in Octet /\ n \div 256 \in Octet /\ n % 256 \in Octet
      BY DEF RES_OK, Octet
    <3>4. rsp_buf' \in [0 .. 31 -> Octet]  BY <2>2, <3>1, <3>2, <3>3
    <3>5. rsp_len' \in 0 .. 32 /\ rsp_idx' \in Nat  BY <3>1, <3>2
    <3> QED  BY <1>2, <3>4, <3>5 DEF AnswerTypes
  <2>4. CASE ~(got >= len \/ got >= READ_MAX)
    <3>1. rsp_buf' = body /\ UNCHANGED <<rsp_len, rsp_idx>>
      BY <1>8, <2>4, Zenon DEF ReadExec, word
    <3> QED  BY <1>1, <1>2, <2>2, <3>1 DEF AnswerTypes
  <2> QED  BY <2>3, <2>4
<1>9. CASE RspSend(ready)
  <2>1. UNCHANGED <<rsp_buf, rsp_len>> /\ rsp_idx' \in {rsp_idx, rsp_idx + 1}
    BY <1>9 DEF RspSend
  <2>2. rsp_idx' \in Nat  BY <1>11, <2>1
  <2> QED  BY <1>1, <1>2, <2>1, <2>2 DEF AnswerTypes
<1>10. CASE GetAddr \/ GetLen \/ WriteData \/ WaitForByte \/ WaitForAck \/ DiscardCmd
  <2>1. UNCHANGED rspVars
    BY <1>10 DEF GetAddr, GetLen, WriteData, WaitForByte, WaitForAck, DiscardCmd
  <2> QED  BY <1>4, <2>1
<1> QED  BY <1>5, <1>6, <1>7, <1>8, <1>9, <1>10 DEF Master

--------------------------------------------------------------------------------
\* The place in the command and what the header has become, action by action.

LEMMA IdleInStep ==
  ASSUME InStepInv, Idle, Fifo, NEW ready, Reader(ready)
  PROVE  Place' /\ Fields'
<1>0. Types /\ FifoInv  BY DEF InStepInv, Types
<1>1. st = "IDLE" /\ Upto(1)  BY DEF InStepInv, Place, Idle
<1>2. Number' = Number /\ Cmd' = Cmd /\ Base' = Base /\ Commands' = Commands
  BY <1>1, SameCommand
<1>3. CASE s_cmd_tvalid
  <2>1. Take  BY <1>1, <1>3 DEF Take, s_cmd_tready
  <2>2. Number <= Len(Commands)  BY <1>0, <1>1, <1>3 DEF Upto, FifoInv
  <2>3. /\ s_cmd_tdata = Cmd.bytes[1] /\ s_tid = Cmd.tid
        /\ ~s_cmd_tlast => cmd_no' = Number' /\ cmd_pos' = 2
        /\ s_cmd_tlast => Whole'
    BY <1>0, <1>1, <1>2, <2>1, <2>2, TakeStep
  <2>4. op' = Cmd.bytes[1] /\ tid_latched' = Cmd.tid  BY <1>3, <2>3 DEF Idle
  <2>5. CASE s_cmd_tlast
    <3>1. st' = "RSP_SEND" /\ Answer(Simple(s_cmd_tdata))  BY <1>3, <2>5 DEF Idle
    <3>2. rsp_idx' = 0 /\ rsp_len' = 1  BY <3>1, SimpleTyped DEF Answer
    <3>3. Place'  BY <1>2, <2>2, <2>3, <2>4, <2>5, <3>1, <3>2 DEF Place, States
    <3>4. Fields'  BY <3>1 DEF Fields, Busy
    <3> QED  BY <3>3, <3>4
  <2>6. CASE ~s_cmd_tlast
    <3>1. st' = "GET_HEADER" /\ len' = 0  BY <1>3, <2>6 DEF Idle
    <3>2. Place'  BY <1>2, <2>2, <2>3, <2>4, <2>6, <3>1 DEF Place, States, Upto
    <3>3. Fields'  BY <3>1 DEF Fields, Busy
    <3> QED  BY <3>2, <3>3
  <2> QED  BY <2>5, <2>6
<1>4. CASE ~s_cmd_tvalid
  <2>1. cmd_no' = cmd_no /\ cmd_pos' = cmd_pos  BY <1>0, <1>4, FifoStep DEF Take
  <2>2. st' = "IDLE"  BY <1>1, <1>4 DEF Idle
  <2>3. Place'  BY <1>1, <1>2, <2>1, <2>2 DEF Place, States, Upto
  <2>4. Fields'  BY <2>2 DEF Fields, Busy
  <2> QED  BY <2>3, <2>4
<1> QED  BY <1>3, <1>4

LEMMA GetHeaderInStep ==
  ASSUME InStepInv, GetHeader, Fifo, NEW ready, Reader(ready)
  PROVE  Place' /\ Fields'
<1>0. Types /\ FifoInv  BY DEF InStepInv, Types
<1>1. /\ st = "GET_HEADER" /\ Upto(2) /\ Number <= Len(Commands)
      /\ op = Cmd.bytes[1] /\ tid_latched = Cmd.tid /\ len = 0
  BY DEF InStepInv, Place, Fields, GetHeader
<1>2. /\ Number' = Number /\ Cmd' = Cmd /\ Base' = Base /\ Commands' = Commands
      /\ plan' = plan
  BY <1>1, SameCommand
<1>3. Take  BY <1>1 DEF Take, s_cmd_tready, GetHeader
<1>4. /\ ~s_cmd_tlast => cmd_no' = Number' /\ cmd_pos' = 3
      /\ s_cmd_tlast => Whole'
      /\ s_cmd_tlast <=> 2 = Len(Cmd.bytes)
      /\ 2 \in 1 .. Len(Cmd.bytes)
  <2>1. /\ ~s_cmd_tlast => cmd_no' = Number' /\ cmd_pos' = 2 + 1
        /\ s_cmd_tlast => Whole'
        /\ s_cmd_tlast <=> 2 = Len(Cmd.bytes)
        /\ 2 \in 1 .. Len(Cmd.bytes)
    BY <1>0, <1>1, <1>2, <1>3, TakeStep, Zenon
  <2> QED  BY <2>1
<1>5. UNCHANGED <<op, len, tid_latched, cmd_was_last>>  BY DEF GetHeader
<1>6. CASE op \in {OP_WRITE_BLOCK, OP_READ_BLOCK}
  <2>1. Len(Cmd.bytes) # 2
    <3>1. PICK n \in Nat : Len(Cmd.bytes) = n  BY <1>0, <1>1, CmdFacts
    <3>2. Len(Cmd.bytes) >= 8  BY <1>0, <1>1, <1>6, BlockFacts
    <3> QED  BY <3>1, <3>2
  <2>2. st' = "GET_ADDR" /\ byte_idx' = 0  BY <1>4, <1>6, <2>1 DEF GetHeader
  <2>3. Reading' \/ Writing'  BY <1>5, <1>6 DEF Reading, Writing
  <2>4. Place'  BY <1>1, <1>2, <1>4, <1>5, <2>1, <2>2, <2>3 DEF Place, States, Upto
  <2>5. Fields'  BY <1>1, <1>5, <2>2 DEF Fields, Busy
  <2> QED  BY <2>4, <2>5
<1>7. CASE op \notin {OP_WRITE_BLOCK, OP_READ_BLOCK}
  <2>1. /\ Answer(Simple(op))
        /\ st' = IF s_cmd_tlast THEN "RSP_SEND" ELSE "DISCARD_CMD"
    BY <1>7 DEF GetHeader
  <2>2. rsp_idx' = 0 /\ rsp_len' = 1  BY <2>1, SimpleTyped DEF Answer
  <2>3. plan.gaps => s_cmd_tlast
    <3>1. plan.gaps => Len(Cmd.bytes) <= 2  BY <1>0, <1>1, <1>7, OtherFacts
    <3>2. PICK n \in Nat : Len(Cmd.bytes) = n  BY <1>0, <1>1, CmdFacts
    <3> QED  BY <1>4, <3>1, <3>2
  <2>4. CASE s_cmd_tlast
    <3>1. st' = "RSP_SEND"  BY <2>1, <2>4
    <3>2. Place'  BY <1>1, <1>2, <1>4, <1>5, <2>2, <2>4, <3>1 DEF Place, States
    <3>3. Fields'  BY <3>1 DEF Fields, Busy
    <3> QED  BY <3>2, <3>3
  <2>5. CASE ~s_cmd_tlast
    <3>1. st' = "DISCARD_CMD" /\ ~plan'.gaps  BY <1>2, <2>1, <2>3, <2>5
    <3>2. Place'  BY <1>1, <1>2, <1>4, <1>5, <2>2, <2>5, <3>1 DEF Place, States
    <3>3. Fields'  BY <3>1 DEF Fields, Busy
    <3> QED  BY <3>2, <3>3
  <2> QED  BY <2>4, <2>5
<1> QED  BY <1>6, <1>7

LEMMA GetAddrInStep ==
  ASSUME InStepInv, GetAddr, Fifo, NEW ready, Reader(ready)
  PROVE  Place' /\ Fields'
<1>0. Types /\ FifoInv  BY DEF InStepInv, Types
<1>1. /\ st = "GET_ADDR" /\ Upto(3 + byte_idx) /\ Number <= Len(Commands)
      /\ op = Cmd.bytes[1] /\ tid_latched = Cmd.tid /\ len = 0 /\ (Reading \/ Writing)
      /\ \A j \in 1 .. byte_idx : addr[4 - byte_idx + j] = Cmd.bytes[2 + j]
  BY DEF InStepInv, Place, Fields, GetAddr
<1>2. Number' = Number /\ Cmd' = Cmd /\ Base' = Base /\ Commands' = Commands
  BY <1>1, SameCommand
<1>3. Take  BY <1>1 DEF Take, s_cmd_tready, GetAddr
<1>4. /\ ~s_cmd_tlast => cmd_no' = Number' /\ cmd_pos' = (3 + byte_idx) + 1
      /\ s_cmd_tlast <=> 3 + byte_idx = Len(Cmd.bytes)
      /\ s_cmd_tdata = Cmd.bytes[3 + byte_idx] /\ s_cmd_tdata \in Octet
  BY <1>0, <1>1, <1>2, <1>3, TakeStep, Zenon
<1>5. byte_idx \in 0 .. 3 /\ addr \in Seq(Octet) /\ Len(addr) = 4
  BY <1>0 DEF Types, HeaderTypes
<1>6. ~s_cmd_tlast
  <2>1. PICK n \in Nat : Len(Cmd.bytes) = n  BY <1>0, <1>1, CmdFacts
  <2>2. Len(Cmd.bytes) >= 8  BY <1>0, <1>1, BlockFacts DEF Reading, Writing
  <2> QED  BY <1>4, <1>5, <2>1, <2>2
<1>7. /\ UNCHANGED <<op, len, tid_latched, cmd_was_last>>
      /\ addr' = Append(Tail(addr), s_cmd_tdata) /\ byte_idx' = (byte_idx + 1) % 4
      /\ st' = IF byte_idx = 3 THEN "GET_LEN" ELSE "GET_ADDR"
  BY <1>6 DEF GetAddr
<1>8. Reading' \/ Writing'  BY <1>1, <1>7 DEF Reading, Writing
<1>9. /\ addr'[1] = addr[2] /\ addr'[2] = addr[3] /\ addr'[3] = addr[4]
      /\ addr'[4] = Cmd.bytes[3 + byte_idx]
  BY <1>4, <1>5, <1>7, ShiftIn, Zenon
<1>10. CASE byte_idx = 3
  <2>1. st' = "GET_LEN" /\ byte_idx' = 0 /\ cmd_pos' = 7  BY <1>4, <1>6, <1>7, <1>10
  <2>2. Place'  BY <1>1, <1>2, <1>4, <1>6, <1>7, <1>8, <2>1 DEF Place, States, Upto
  <2>3. addr[2] = Cmd.bytes[3] /\ addr[3] = Cmd.bytes[4] /\ addr[4] = Cmd.bytes[5]
    <3>1. /\ addr[4 - 3 + 1] = Cmd.bytes[2 + 1] /\ addr[4 - 3 + 2] = Cmd.bytes[2 + 2]
          /\ addr[4 - 3 + 3] = Cmd.bytes[2 + 3]
      BY <1>1, <1>10
    <3> QED  BY <3>1
  <2>4. \A j \in 1 .. 4 : addr'[j] = Cmd.bytes[2 + j]  BY <1>9, <1>10, <2>3
  <2>5. byte_idx' # 1  BY <2>1
  <2>6. \A j \in 1 .. 4 : addr'[j] = Cmd'.bytes[2 + j]  BY <1>2, <2>4
  <2>7. len' = 0  BY <1>1, <1>7
  <2>8. Fields'  BY <2>1, <2>5, <2>6, <2>7 DEF Fields, Busy
  <2> QED  BY <2>2, <2>8
<1>11. CASE byte_idx # 3
  <2>1. st' = "GET_ADDR" /\ byte_idx' = byte_idx + 1 /\ cmd_pos' = 3 + byte_idx'
    <3>1. byte_idx' = byte_idx + 1 /\ st' = "GET_ADDR"  BY <1>5, <1>7, <1>11
    <3>2. cmd_pos' = (3 + byte_idx) + 1  BY <1>4, <1>6
    <3> QED  BY <1>5, <3>1, <3>2
  <2>2. Place'  BY <1>1, <1>2, <1>4, <1>6, <1>7, <1>8, <2>1 DEF Place, States, Upto
  <2>3. \A j \in 1 .. byte_idx' : addr'[4 - byte_idx' + j] = Cmd.bytes[2 + j]
    <3>1. CASE byte_idx = 0  BY <1>9, <2>1, <3>1
    <3>2. CASE byte_idx = 1
      <4>1. addr[4] = Cmd.bytes[3]
        <5>1. addr[4 - 1 + 1] = Cmd.bytes[2 + 1]  BY <1>1, <3>2
        <5> QED  BY <5>1
      <4> QED  BY <1>9, <2>1, <3>2, <4>1
    <3>3. CASE byte_idx = 2
      <4>1. addr[3] = Cmd.bytes[3] /\ addr[4] = Cmd.bytes[4]
        <5>1. addr[4 - 2 + 1] = Cmd.bytes[2 + 1] /\ addr[4 - 2 + 2] = Cmd.bytes[2 + 2]
          BY <1>1, <3>3
        <5> QED  BY <5>1
      <4> QED  BY <1>9, <2>1, <3>3, <4>1
    <3> QED  BY <1>5, <1>11, <3>1, <3>2, <3>3
  <2>4. Fields'  BY <1>1, <1>2, <1>7, <2>1, <2>3 DEF Fields, Busy
  <2> QED  BY <2>2, <2>4
<1> QED  BY <1>10, <1>11

LEMMA GetLenInStep ==
  ASSUME InStepInv, GetLen, Fifo, NEW ready, Reader(ready)
  PROVE  Place' /\ Fields'
<1>0. Types /\ FifoInv  BY DEF InStepInv, Types
<1>1. /\ st = "GET_LEN" /\ Upto(7 + byte_idx) /\ Number <= Len(Commands)
      /\ op = Cmd.bytes[1] /\ tid_latched = Cmd.tid /\ (Reading \/ Writing)
      /\ byte_idx \in {0, 1}
  BY DEF InStepInv, Place, GetLen
<1>2. /\ \A j \in 1 .. 4 : addr[j] = Cmd.bytes[2 + j]
      /\ byte_idx = 0 => len = 0
      /\ byte_idx = 1 => len = Cmd.bytes[7]
  BY <1>1 DEF InStepInv, Fields
<1>3. Number' = Number /\ Cmd' = Cmd /\ Base' = Base /\ Commands' = Commands
  BY <1>1, SameCommand
<1>4. Take  BY <1>1 DEF Take, s_cmd_tready, GetLen
<1>5. /\ ~s_cmd_tlast => cmd_no' = Number' /\ cmd_pos' = (7 + byte_idx) + 1
      /\ s_cmd_tlast => Whole'
      /\ s_cmd_tlast <=> 7 + byte_idx = Len(Cmd.bytes)
      /\ s_cmd_tdata = Cmd.bytes[7 + byte_idx] /\ s_cmd_tdata \in Octet
  BY <1>0, <1>1, <1>3, <1>4, TakeStep, Zenon
<1>6. PICK size \in Nat : Len(Cmd.bytes) = size  BY <1>0, <1>1, CmdFacts
<1>7. /\ size >= 8
      /\ Field(Cmd).len = 256 * Cmd.bytes[7] + Cmd.bytes[8] /\ Field(Cmd).len \in Half
      /\ AddrOf(addr) = Base /\ Base \in Nat
  BY <1>0, <1>1, <1>2, <1>6, BlockFacts DEF Reading, Writing
<1>8. UNCHANGED <<op, addr, tid_latched>>  BY DEF GetLen
<1>9. CASE byte_idx = 0
  <2>1. ~s_cmd_tlast  BY <1>5, <1>6, <1>7, <1>9
  <2>2. cmd_pos' = 8 /\ cmd_no' = Number'  BY <1>5, <1>9, <2>1
  <2>3. st' = "GET_LEN" /\ byte_idx' = 1 /\ len' = (len % 256) * 256 + s_cmd_tdata
    BY <1>9, <2>1 DEF GetLen
  <2>4. len' = Cmd.bytes[7]
    <3>1. s_cmd_tdata = Cmd.bytes[7] /\ len = 0  BY <1>2, <1>5, <1>9
    <3>2. PICK y \in Nat : s_cmd_tdata = y  BY <1>5, OctetIsNat
    <3>3. (0 % 256) * 256 + y = y  OBVIOUS
    <3> QED  BY <2>3, <3>1, <3>2, <3>3
  <2>5. Reading' \/ Writing'  BY <1>1, <1>8 DEF Reading, Writing
  <2>6. Place'  BY <1>1, <1>3, <1>8, <2>2, <2>3, <2>5 DEF Place, States, Upto
  <2>7. \A j \in 1 .. 4 : addr'[j] = Cmd'.bytes[2 + j]  BY <1>2, <1>3, <1>8
  <2>8. byte_idx' # 0 /\ len' = Cmd'.bytes[7]  BY <1>3, <2>3, <2>4
  <2>9. Fields'  BY <2>3, <2>7, <2>8 DEF Fields, Busy
  <2> QED  BY <2>6, <2>9
<1>10. CASE byte_idx = 1
  <2>1. len' = Field(Cmd).len
    <3>1. s_cmd_tdata = Cmd.bytes[8] /\ len = Cmd.bytes[7]  BY <1>2, <1>5, <1>10
    <3>2. len' = (len % 256) * 256 + s_cmd_tdata  BY DEF GetLen
    <3>3. PICK y \in Nat : s_cmd_tdata = y  BY <1>5, OctetIsNat
    <3>4. Cmd.bytes[7] \in Octet
      <4>1. 7 \in 1 .. Len(Cmd.bytes)  BY <1>6, <1>7
      <4> QED  BY <1>0, <1>1, <4>1, CmdFacts
    <3>5. PICK x \in Nat : len = x /\ x <= 255  BY <3>1, <3>4, OctetIsNat
    <3>6. (x % 256) * 256 + y = 256 * x + y  BY <3>5
    <3> QED  BY <1>7, <3>1, <3>2, <3>3, <3>5, <3>6
  <2>2. wb_adr' = Base /\ wb_byte_offset' = 0 /\ wb_timeout_cnt' = 0
    BY <1>7, <1>10 DEF GetLen
  <2>3. First' = 0 /\ wb_adr' = Base' + First' /\ Answers(Base', First')
    <3>1. st' # "WB_WRITE_EXEC"  BY <1>10 DEF GetLen
    <3>2. First' = 4 * (0 \div 4)  BY <2>2, <3>1 DEF First
    <3>3. First' = 0  BY <3>2
    <3>4. Answers(Base', 0)  BY DEF Answers
    <3> QED  BY <1>3, <1>7, <2>2, <3>3, <3>4
  <2>4. WB_TIMEOUT_CYCLES > 0  BY PlansAssumption
  <2>5. CASE Writing
    <3>1. st' = "WB_WRITE_DATA" /\ byte_idx' = 0 /\ Writing'
      BY <1>8, <1>10, <2>5 DEF GetLen, Writing
    <3>2. PICK w \in Nat : w >= 1 /\ Written(Cmd) = w
      BY <1>0, <1>1, <2>5, WrittenFacts DEF Writing
    <3>3. ~s_cmd_tlast
      <4>1. size >= 9  BY <1>0, <1>1, <1>6, <2>5, WriteFacts DEF Writing
      <4> QED  BY <1>5, <1>6, <1>10, <4>1
    <3>4. cmd_pos' = 9 + wb_byte_offset' /\ cmd_no' = Number'
      BY <1>5, <1>10, <2>2, <3>3
    <3>5. wb_byte_offset' < Written(Cmd')  BY <1>3, <2>2, <3>2
    <3>6. Place'  BY <1>1, <1>3, <1>8, <3>1, <3>4, <3>5 DEF Place, States, Upto
    <3>7. ~Busy'  BY <3>1 DEF Busy
    <3>8. Fields'  BY <1>3, <2>1, <2>2, <2>3, <3>1, <3>7 DEF Fields
    <3> QED  BY <3>6, <3>8
  <2>6. CASE ~Writing
    <3>1. st' = "WB_READ_EXEC" /\ (cmd_was_last' <=> s_cmd_tlast) /\ Reading'
      BY <1>1, <1>8, <1>10, <2>6, Zenon DEF GetLen, Reading, Writing
    <3>2. PICK n \in 1 .. READ_MAX : ReadLen(Cmd) = n
      BY <1>0, <1>1, <2>6, ReadLenFacts DEF Reading, Writing
    <3>3. wb_byte_offset' < ReadLen(Cmd') /\ wb_byte_offset' % 4 = 0
      BY <1>3, <2>2, <3>2 DEF READ_MAX
    <3>4. IF cmd_was_last' THEN Whole' /\ Len(Cmd'.bytes) = 8 ELSE Upto(9)'
      <4>1. CASE s_cmd_tlast  BY <1>3, <1>5, <1>6, <1>10, <3>1, <4>1
      <4>2. CASE ~s_cmd_tlast  BY <1>5, <1>10, <3>1, <4>2 DEF Upto
      <4> QED  BY <4>1, <4>2
    <3>5. Place'  BY <1>1, <1>3, <1>8, <3>1, <3>3, <3>4 DEF Place, States
    <3>6. Fields'
      <4>1. wb_timeout_cnt' < WB_TIMEOUT_CYCLES  BY <2>2, <2>4
      <4> QED  BY <1>3, <2>1, <2>3, <3>1, <4>1 DEF Fields
    <3> QED  BY <3>5, <3>6
  <2> QED  BY <2>5, <2>6
<1> QED  BY <1>1, <1>9, <1>10

LEMMA WaitForByteInStep ==
  ASSUME InStepInv, WaitForByte, Fifo, NEW ready, Reader(ready)
  PROVE  Place' /\ Fields'
<1>0. Types /\ FifoInv  BY DEF InStepInv, Types
<1>1. st \in {"GET_HEADER", "GET_ADDR", "GET_LEN", "WB_WRITE_DATA"} /\ ~Take
  BY DEF WaitForByte, Take
<1>2. Number' = Number /\ Cmd' = Cmd /\ Base' = Base /\ Commands' = Commands
  BY <1>1, SameCommand
<1>3. cmd_no' = cmd_no /\ cmd_pos' = cmd_pos  BY <1>0, <1>1, FifoStep
<1>4. UNCHANGED <<st, op, addr, len, byte_idx, tid_latched, wb_adr, wb_byte_offset,
                  wb_timeout_cnt>>
  BY DEF WaitForByte, hdrVars, busVars
<1>5. Place'
  <2>1. Place  BY DEF InStepInv
  <2> QED  BY <1>1, <1>2, <1>3, <1>4, <2>1 DEF Place, Upto, Reading, Writing
<1>6. Fields'
  <2>1. Fields /\ First' = First  BY <1>4 DEF InStepInv, First
  <2> QED  BY <1>1, <1>2, <1>4, <2>1 DEF Fields, Busy
<1> QED  BY <1>5, <1>6

\* Bytes and words of a block.
LEMMA Quads ==
  ASSUME NEW o \in Nat
  PROVE  /\ 4 * (o \div 4) \in Nat /\ 4 * (o \div 4) + (o % 4) = o /\ o % 4 \in 0 .. 3
         /\ o % 4 # 3 => 4 * ((o + 1) \div 4) = 4 * (o \div 4)
         /\ o % 4 = 0 => 4 * (o \div 4) = o
         /\ o % 4 = 3 => 4 * ((o + 1) \div 4) = 4 * (o \div 4) + 4
         /\ o % 4 = 3 <=> (o + 1) % 4 = 0
OBVIOUS

LEMMA QuadOf ==
  ASSUME NEW f \in Nat, NEW k \in Nat, f % 4 = 0, f <= k, k < f + 4
  PROVE  4 * (k \div 4) = f /\ k % 4 = k - f
OBVIOUS

LEMMA AnswersNext ==
  ASSUME NEW base \in Nat, NEW f \in Nat, f % 4 = 0, Answers(base, f), base + f \in Answering
  PROVE  Answers(base, f + 4)
<1> SUFFICES ASSUME NEW k \in 0 .. (f + 4) - 1 PROVE Word(base, k) \in Answering
  BY DEF Answers
<1>1. CASE k < f
  <2>1. k \in 0 .. f - 1  BY <1>1
  <2> QED  BY <2>1 DEF Answers
<1>2. CASE k >= f
  <2>1. 4 * (k \div 4) = f  BY <1>2, QuadOf
  <2> QED  BY <2>1 DEF Word
<1> QED  BY <1>1, <1>2

LEMMA AnswersFewer ==
  ASSUME NEW base, NEW m \in Nat, NEW n \in Nat, m <= n, Answers(base, n)
  PROVE  Answers(base, m)
<1> SUFFICES ASSUME NEW k \in 0 .. m - 1 PROVE Word(base, k) \in Answering  BY DEF Answers
<1>1. k \in 0 .. n - 1  OBVIOUS
<1> QED  BY <1>1 DEF Answers

LEMMA WriteDataInStep ==
  ASSUME InStepInv, WriteData, Fifo, NEW ready, Reader(ready)
  PROVE  Place' /\ Fields'
<1>0. Types /\ FifoInv  BY DEF InStepInv, Types
<1>1. /\ st = "WB_WRITE_DATA" /\ Upto(9 + wb_byte_offset) /\ Number <= Len(Commands)
      /\ op = Cmd.bytes[1] /\ tid_latched = Cmd.tid /\ Writing
      /\ byte_idx = 0 /\ wb_byte_offset < Written(Cmd)
  BY DEF InStepInv, Place, WriteData
<1>2. /\ len = Field(Cmd).len /\ wb_adr = Base + First /\ Answers(Base, First)
      /\ wb_timeout_cnt = 0
  BY <1>1 DEF InStepInv, Fields
<1>3. Number' = Number /\ Cmd' = Cmd /\ Base' = Base /\ Commands' = Commands
  BY <1>1, SameCommand
<1>4. Take  BY <1>1 DEF Take, s_cmd_tready, WriteData
<1>5. /\ ~s_cmd_tlast => cmd_no' = Number' /\ cmd_pos' = (9 + wb_byte_offset) + 1
      /\ s_cmd_tlast => Whole'
      /\ s_cmd_tlast <=> 9 + wb_byte_offset = Len(Cmd.bytes)
  BY <1>0, <1>1, <1>3, <1>4, TakeStep, Zenon
<1>6. PICK size, n, w \in Nat :
        /\ Len(Cmd.bytes) = size /\ Field(Cmd).len = n /\ Written(Cmd) = w
        /\ size >= 9 /\ 1 <= w /\ w <= n /\ w <= size - 8
        /\ w = n \/ w = size - 8
  BY <1>0, <1>1, WrittenFacts DEF Writing
<1>7. PICK o \in Nat : wb_byte_offset = o /\ o < w  BY <1>0, <1>1, <1>6 DEF Types, BusTypes
<1>8. /\ UNCHANGED <<op, addr, len, byte_idx, tid_latched, wb_adr, wb_timeout_cnt>>
      /\ wb_byte_offset' = o + 1 /\ Writing'
  BY <1>1, <1>7 DEF WriteData, hdrVars, Writing
<1>9. First = 4 * (o \div 4)  BY <1>1, <1>7 DEF First
<1> DEFINE full == o % 4 = 3 \/ o + 1 = n \/ 9 + o = size
<1>10. CASE full
  <2>1. st' = "WB_WRITE_EXEC" /\ (cmd_was_last' <=> s_cmd_tlast)
    BY <1>2, <1>5, <1>6, <1>7, <1>10 DEF WriteData
  <2>2. First' = First
    <3>1. First' = 4 * (((o + 1) - 1) \div 4)  BY <1>8, <2>1 DEF First
    <3> QED  BY <1>9, <3>1
  <2>3. o + 1 \in 1 .. w /\ ((o + 1) % 4 = 0 \/ o + 1 = w)
    BY <1>6, <1>7, <1>10, Quads
  <2>4. IF cmd_was_last' THEN Whole' /\ wb_byte_offset' = Len(Cmd'.bytes) - 8
                         ELSE Upto(9 + wb_byte_offset)'
    <3>1. CASE s_cmd_tlast  BY <1>3, <1>5, <1>6, <1>7, <1>8, <2>1, <3>1
    <3>2. CASE ~s_cmd_tlast
      <4>1. cmd_no' = Number' /\ cmd_pos' = 9 + wb_byte_offset'  BY <1>5, <1>7, <1>8, <3>2
      <4> QED  BY <2>1, <3>2, <4>1 DEF Upto
    <3> QED  BY <3>1, <3>2
  <2>5. wb_byte_offset' \in 1 .. Written(Cmd')
        /\ (wb_byte_offset' % 4 = 0 \/ wb_byte_offset' = Written(Cmd'))
    BY <1>3, <1>6, <1>8, <2>3
  <2>6. Place'  BY <1>1, <1>3, <1>8, <2>1, <2>4, <2>5 DEF Place, States
  <2>7. wb_timeout_cnt' < WB_TIMEOUT_CYCLES  BY <1>2, <1>8, PlansAssumption
  <2>8. Fields'  BY <1>2, <1>3, <1>8, <2>1, <2>2, <2>7 DEF Fields
  <2> QED  BY <2>6, <2>8
<1>11. CASE ~full
  <2>1. st' = "WB_WRITE_DATA" /\ ~s_cmd_tlast
    BY <1>1, <1>2, <1>5, <1>6, <1>7, <1>11 DEF WriteData
  <2>2. First' = First
    <3>1. First' = 4 * ((o + 1) \div 4)  BY <1>8, <2>1 DEF First
    <3> QED  BY <1>9, <1>11, <3>1, Quads
  <2>3. wb_byte_offset' < Written(Cmd')  BY <1>3, <1>6, <1>7, <1>8, <1>11
  <2>4. Upto(9 + wb_byte_offset)'
    <3>1. cmd_no' = Number' /\ cmd_pos' = 9 + wb_byte_offset'  BY <1>5, <1>7, <1>8, <2>1
    <3> QED  BY <3>1 DEF Upto
  <2>5. Place'  BY <1>1, <1>3, <1>8, <2>1, <2>3, <2>4 DEF Place, States
  <2>6. ~Busy'  BY <2>1 DEF Busy
  <2>7. Fields'  BY <1>2, <1>3, <1>8, <2>1, <2>2, <2>6 DEF Fields
  <2> QED  BY <2>5, <2>7
<1> QED  BY <1>10, <1>11

\* On the bus nothing is taken.
LEMMA BusyFacts ==
  ASSUME InStepInv, Busy, Fifo, NEW ready, Reader(ready)
  PROVE  /\ Types /\ st # "RSP_SEND" /\ Number <= Len(Commands)
         /\ op = Cmd.bytes[1] /\ tid_latched = Cmd.tid
         /\ Number' = Number /\ Cmd' = Cmd /\ Base' = Base /\ Commands' = Commands
         /\ plan' = plan /\ cmd_no' = cmd_no /\ cmd_pos' = cmd_pos
         /\ len = Field(Cmd).len /\ wb_adr = Base + First /\ Answers(Base, First)
         /\ wb_adr \in Answering => wb_timeout_cnt < WB_TIMEOUT_CYCLES
         /\ Base \in Nat
<1>1. st \in {"WB_WRITE_EXEC", "WB_READ_EXEC"}  BY DEF Busy
<1>2. Types /\ Place /\ Fields  BY DEF InStepInv
<1>3. /\ Number <= Len(Commands) /\ op = Cmd.bytes[1] /\ tid_latched = Cmd.tid
      /\ Reading \/ Writing
  BY <1>1, <1>2 DEF Place
<1>4. /\ Number' = Number /\ Cmd' = Cmd /\ Base' = Base /\ Commands' = Commands
      /\ plan' = plan
  BY <1>1, SameCommand
<1>5. cmd_no' = cmd_no /\ cmd_pos' = cmd_pos
  BY <1>1, <1>2, FifoStep DEF Types, Take, s_cmd_tready
<1>6. /\ len = Field(Cmd).len /\ wb_adr = Base + First /\ Answers(Base, First)
      /\ wb_adr \in Answering => wb_timeout_cnt < WB_TIMEOUT_CYCLES
  BY <1>2 DEF Fields
<1>7. Base \in Nat  BY <1>2, <1>3, BlockFacts DEF Reading, Writing
<1> QED  BY <1>1, <1>2, <1>3, <1>4, <1>5, <1>6, <1>7

LEMMA WaitForAckInStep ==
  ASSUME InStepInv, WaitForAck, Fifo, NEW ready, Reader(ready), Slave(FALSE)
  PROVE  Place' /\ Fields'
<1>1. Busy /\ ~Expired  BY DEF WaitForAck
<1>2. /\ Types /\ st # "RSP_SEND" /\ Number <= Len(Commands)
      /\ Number' = Number /\ Cmd' = Cmd /\ Base' = Base /\ Commands' = Commands
      /\ cmd_no' = cmd_no /\ cmd_pos' = cmd_pos
  BY <1>1, BusyFacts
<1>3. /\ UNCHANGED <<st, op, addr, len, byte_idx, tid_latched, wb_adr, wb_byte_offset,
                     cmd_was_last>>
      /\ wb_timeout_cnt' = wb_timeout_cnt + 1
  BY DEF WaitForAck, hdrVars
<1>4. st \in {"WB_WRITE_EXEC", "WB_READ_EXEC"}  BY <1>1 DEF Busy
<1>5. Place'
  <2>1. Place  BY DEF InStepInv
  <2>2. Whole' <=> Whole  BY <1>2 DEF Whole
  <2>3. Upto(9)' <=> Upto(9)  BY <1>2 DEF Upto
  <2>4. Upto(9 + wb_byte_offset)' <=> Upto(9 + wb_byte_offset)  BY <1>2, <1>3 DEF Upto
  <2>5. Reading' <=> Reading  BY <1>3 DEF Reading
  <2>6. Writing' <=> Writing  BY <1>3 DEF Writing
  <2>7. CASE st = "WB_WRITE_EXEC"
    BY <1>2, <1>3, <2>1, <2>2, <2>4, <2>6, <2>7 DEF Place
  <2>8. CASE st = "WB_READ_EXEC"
    BY <1>2, <1>3, <2>1, <2>2, <2>3, <2>5, <2>8 DEF Place
  <2> QED  BY <1>4, <2>7, <2>8
<1>6. Fields'
  <2>1. Fields /\ First' = First  BY <1>3 DEF InStepInv, First
  <2>2. wb_adr \in Answering => wb_timeout_cnt' < WB_TIMEOUT_CYCLES
    <3>1. wb_adr \in Answering => ~(wb_timeout_cnt + 1 >= WB_TIMEOUT_CYCLES)
      BY <1>1 DEF Slave
    <3>2. wb_timeout_cnt \in Nat /\ WB_TIMEOUT_CYCLES \in Nat
      BY <1>2, PlansAssumption DEF Types, BusTypes
    <3> QED  BY <1>3, <3>1, <3>2
  <2>3. /\ len' = Field(Cmd').len /\ wb_adr' = Base' + First' /\ Answers(Base', First')
        /\ wb_adr' \in Answering => wb_timeout_cnt' < WB_TIMEOUT_CYCLES
    BY <1>1, <1>2, <1>3, <2>1, <2>2, BusyFacts
  <2>4. st' \in {"WB_WRITE_EXEC", "WB_READ_EXEC"}  BY <1>3, <1>4
  <2> QED  BY <2>3, <2>4 DEF Fields
<1> QED  BY <1>5, <1>6

LEMMA GiveUpInStep ==
  ASSUME InStepInv, GiveUp, Fifo, NEW ready, Reader(ready)
  PROVE  Place' /\ Fields'
<1>1. Busy /\ Expired  BY DEF GiveUp
<1>2. /\ Types /\ Number <= Len(Commands) /\ op = Cmd.bytes[1] /\ tid_latched = Cmd.tid
      /\ Number' = Number /\ Cmd' = Cmd /\ Commands' = Commands
      /\ cmd_no' = cmd_no /\ cmd_pos' = cmd_pos
      /\ wb_adr = Base + First /\ Answers(Base, First) /\ Base \in Nat
      /\ wb_adr \in Answering => wb_timeout_cnt < WB_TIMEOUT_CYCLES
  BY <1>1, BusyFacts
<1>3. wb_adr \notin Answering
  <2>1. wb_timeout_cnt \in Nat /\ WB_TIMEOUT_CYCLES \in Nat
    BY <1>2, PlansAssumption DEF Types, BusTypes
  <2> QED  BY <1>1, <1>2, <2>1 DEF Expired
<1>4. /\ st' = "RSP_SEND" /\ rsp_idx' = 0 /\ rsp_len' = 1
      /\ UNCHANGED <<op, tid_latched>>
  BY DEF GiveUp, Answer, hdrVars
<1>5. PICK o \in Nat : wb_byte_offset = o  BY <1>2 DEF Types, BusTypes
<1>6. PICK size \in Nat : Len(Cmd.bytes) = size  BY <1>2, CmdFacts
<1>7. cmd_no \in 1 .. Len(Commands) + 1
      /\ (cmd_no <= Len(Commands) => cmd_pos <= Len(Commands[cmd_no].bytes))
  BY <1>2 DEF Types, FifoInv
<1>8. Whole
  <2>1. CASE st = "WB_READ_EXEC"
    <3>1. /\ Reading /\ o % 4 = 0 /\ o < ReadLen(Cmd)
          /\ IF cmd_was_last THEN Whole ELSE Upto(9)
      BY <1>5, <2>1 DEF InStepInv, Place
    <3>2. PICK n \in Nat : ReadLen(Cmd) = n /\ o < n
      BY <1>2, <3>1, ReadLenFacts DEF Reading
    <3>3. First = o  BY <1>5, <2>1, <3>1, Quads DEF First
    <3>4. Word(Base, o) = wb_adr  BY <1>2, <3>1, <3>3, Quads DEF Word
    <3>5. ~Answers(Base, ReadLen(Cmd))
      <4>1. o \in 0 .. n - 1  BY <3>2
      <4> QED  BY <1>3, <3>2, <3>4, <4>1 DEF Answers
    <3>6. size = 8  BY <1>2, <1>6, <3>1, <3>5, ReadFacts DEF Reading
    <3>7. ~Upto(9)
      <4> SUFFICES ASSUME cmd_no = Number, cmd_pos = 9 PROVE FALSE  BY DEF Upto
      <4>1. 9 <= size  BY <1>2, <1>6, <1>7 DEF Cmd
      <4> QED  BY <3>6, <4>1
    <3> QED  BY <3>1, <3>7
  <2>2. CASE st = "WB_WRITE_EXEC"
    <3>1. /\ Writing /\ o \in 1 .. Written(Cmd) /\ (o % 4 = 0 \/ o = Written(Cmd))
          /\ IF cmd_was_last THEN Whole ELSE Upto(9 + o)
      BY <1>5, <2>2 DEF InStepInv, Place
    <3>2. PICK w \in Nat : Written(Cmd) = w /\ 1 <= o /\ o <= w
      BY <1>2, <3>1, WrittenFacts DEF Writing
    <3>3. First = 4 * ((o - 1) \div 4)  BY <1>5, <2>2 DEF First
    <3>4. PICK q \in Nat : q = o - 1  BY <3>2
    <3>5. Word(Base, q) \notin Answering  BY <1>2, <1>3, <3>3, <3>4 DEF Word
    <3>6. ~Answers(Base, w)
      <4>1. q \in 0 .. w - 1  BY <3>2, <3>4
      <4> QED  BY <3>5, <4>1 DEF Answers
    <3>7. w = size - 8  BY <1>2, <1>6, <3>1, <3>2, <3>6, WriteFacts DEF Writing
    <3>8. 4 * ((w - 1) \div 4) <= q
      <4>1. Answers(Base, 4 * ((w - 1) \div 4))
        BY <1>2, <3>1, <3>2, WriteFacts DEF Writing
      <4>2. PICK v \in Nat : v = 4 * ((w - 1) \div 4)  BY <3>2
      <4>3. ~(q < v)
        <5> SUFFICES ASSUME q < v PROVE FALSE  OBVIOUS
        <5>1. q \in 0 .. v - 1  OBVIOUS
        <5> QED  BY <3>5, <4>1, <4>2, <5>1 DEF Answers
      <4> QED  BY <4>2, <4>3
    <3>9. o = w
      <4>1. CASE o % 4 = 0
        <5>1. q % 4 = 3 /\ q < w  BY <3>2, <3>4, <4>1, Quads
        <5>2. 4 * ((w - 1) \div 4) <= q => q = w - 1  BY <3>2, <5>1
        <5> QED  BY <3>2, <3>4, <3>8, <5>2
      <4> QED  BY <3>1, <3>2, <4>1
    <3>10. ~Upto(9 + o)  BY <1>2, <1>6, <1>7, <3>7, <3>9 DEF Upto, Cmd
    <3> QED  BY <3>1, <3>10
  <2> QED  BY <1>1, <2>1, <2>2 DEF Busy
<1>9. Whole'  BY <1>2, <1>8 DEF Whole
<1>10. Place'  BY <1>2, <1>4, <1>9 DEF Place, States
<1>11. Fields'  BY <1>4 DEF Fields, Busy
<1> QED  BY <1>10, <1>11

LEMMA WriteExecInStep ==
  ASSUME InStepInv, WriteExec, Fifo, NEW ready, Reader(ready), Slave(TRUE)
  PROVE  Place' /\ Fields'
<1>1. Busy /\ st = "WB_WRITE_EXEC" /\ wb_adr \in Answering  BY DEF WriteExec, Busy, Slave
<1>2. /\ Types /\ Number <= Len(Commands) /\ op = Cmd.bytes[1] /\ tid_latched = Cmd.tid
      /\ Number' = Number /\ Cmd' = Cmd /\ Base' = Base /\ Commands' = Commands
      /\ plan' = plan /\ cmd_no' = cmd_no /\ cmd_pos' = cmd_pos
      /\ len = Field(Cmd).len /\ wb_adr = Base + First /\ Answers(Base, First) /\ Base \in Nat
  BY <1>1, BusyFacts
<1>3. PICK o \in Nat : wb_byte_offset = o  BY <1>2 DEF Types, BusTypes
<1>4. /\ Writing /\ o \in 1 .. Written(Cmd) /\ (o % 4 = 0 \/ o = Written(Cmd))
      /\ IF cmd_was_last THEN Whole /\ o = Len(Cmd.bytes) - 8 ELSE Upto(9 + o)
  BY <1>1, <1>3 DEF InStepInv, Place
<1>5. PICK size, n, w \in Nat :
        /\ Len(Cmd.bytes) = size /\ Field(Cmd).len = n /\ Written(Cmd) = w
        /\ size >= 9 /\ 1 <= w /\ w <= n /\ w <= size - 8
        /\ w = n \/ w = size - 8
  BY <1>2, <1>4, WrittenFacts DEF Writing
<1>6. 1 <= o /\ o <= w  BY <1>4, <1>5
<1>7. UNCHANGED <<op, tid_latched, len, wb_byte_offset, cmd_was_last>> /\ wb_timeout_cnt' = 0
  BY DEF WriteExec
<1>8. CASE wb_byte_offset = len \/ cmd_was_last
  <2>1. Answer(<<RES_OK>> \o Len16(len)) /\ Done  BY <1>8 DEF WriteExec
  <2>2. rsp_idx' = 0 /\ rsp_len' = 3
    <3>1. len \in Half  BY <1>2 DEF Types, HeaderTypes
    <3> QED  BY <2>1, <3>1, OkTyped DEF Answer
  <2>3. CASE cmd_was_last
    <3>1. st' = "RSP_SEND"  BY <2>1, <2>3 DEF Done
    <3>2. Whole'  BY <1>2, <1>4, <2>3 DEF Whole
    <3>3. Place'  BY <1>2, <1>7, <2>2, <3>1, <3>2 DEF Place, States
    <3>4. Fields'  BY <3>1 DEF Fields, Busy
    <3> QED  BY <3>3, <3>4
  <2>4. CASE ~cmd_was_last
    <3>1. st' = "DISCARD_CMD"  BY <2>1, <2>4 DEF Done
    <3>2. cmd_no' = Number' /\ cmd_pos' > 1  BY <1>2, <1>4, <2>4 DEF Upto
    <3>3. ~cmd_was_last'  BY <1>7, <2>4
    <3>4. Place'  BY <1>2, <1>7, <2>2, <3>1, <3>2, <3>3 DEF Place, States
    <3>5. Fields'  BY <3>1 DEF Fields, Busy
    <3> QED  BY <3>4, <3>5
  <2> QED  BY <2>3, <2>4
<1>9. CASE ~(wb_byte_offset = len \/ cmd_was_last)
  <2>1. /\ st' = "WB_WRITE_DATA" /\ byte_idx' = 0 /\ wb_adr' = wb_adr + 4
        /\ Writing'
    BY <1>4, <1>7, <1>9 DEF WriteExec, Writing
  <2>2. Upto(9 + o) /\ o # n  BY <1>2, <1>3, <1>4, <1>5, <1>9
  <2>3. o < w /\ o % 4 = 0
    <3>1. 9 + o <= size  BY <1>2, <1>5, <2>2 DEF Upto, Types, FifoInv, Cmd
    <3> QED  BY <1>4, <1>5, <1>6, <2>2, <3>1
  <2>4. PICK f \in Nat : f + 4 = o /\ f % 4 = 0 /\ First = f
    <3>1. First = 4 * ((o - 1) \div 4)  BY <1>1, <1>3 DEF First
    <3>2. 4 * ((o - 1) \div 4) = o - 4 /\ o - 4 \in Nat /\ (o - 4) % 4 = 0
      <4>1. PICK q \in Nat : q + 1 = o  BY <1>6
      <4>2. q % 4 = 3  BY <2>3, <4>1, Quads
      <4>3. 4 * (q \div 4) + 4 = o  BY <2>3, <4>1, <4>2, Quads
      <4> QED  BY <2>3, <4>1, <4>3
    <3> QED  BY <3>1, <3>2
  <2>5. First' = o
    <3>1. First' = 4 * (o \div 4)  BY <1>3, <1>7, <2>1 DEF First
    <3> QED  BY <2>3, <3>1, Quads
  <2>6. wb_adr' = Base' + First'  BY <1>2, <2>1, <2>4, <2>5
  <2>7. Answers(Base', First')
    <3>1. Answers(Base, f + 4)  BY <1>1, <1>2, <2>4, AnswersNext
    <3> QED  BY <1>2, <2>4, <2>5, <3>1
  <2>8. Upto(9 + wb_byte_offset)'  BY <1>2, <1>3, <1>7, <2>2 DEF Upto
  <2>9. wb_byte_offset' < Written(Cmd')  BY <1>2, <1>3, <1>5, <1>7, <2>3
  <2>10. Place'  BY <1>2, <1>7, <2>1, <2>8, <2>9 DEF Place, States
  <2>11. ~Busy' /\ len' = Field(Cmd').len  BY <1>2, <1>7, <2>1 DEF Busy
  <2>12. Fields'  BY <1>7, <2>1, <2>6, <2>7, <2>11 DEF Fields
  <2> QED  BY <2>10, <2>12
<1> QED  BY <1>8, <1>9

LEMMA ReadExecInStep ==
  ASSUME InStepInv, NEW word, ReadExec(word), Fifo, NEW ready, Reader(ready), Slave(TRUE)
  PROVE  Place' /\ Fields'
<1>1. Busy /\ st = "WB_READ_EXEC" /\ wb_adr \in Answering  BY DEF ReadExec, Busy, Slave
<1>2. /\ Types /\ Number <= Len(Commands) /\ op = Cmd.bytes[1] /\ tid_latched = Cmd.tid
      /\ Number' = Number /\ Cmd' = Cmd /\ Base' = Base /\ Commands' = Commands
      /\ plan' = plan /\ cmd_no' = cmd_no /\ cmd_pos' = cmd_pos
      /\ len = Field(Cmd).len /\ wb_adr = Base + First /\ Answers(Base, First) /\ Base \in Nat
  BY <1>1, BusyFacts
<1>3. PICK o \in Nat : wb_byte_offset = o  BY <1>2 DEF Types, BusTypes
<1>4. /\ Reading /\ o % 4 = 0 /\ o < ReadLen(Cmd)
      /\ IF cmd_was_last THEN Whole /\ Len(Cmd.bytes) = 8 ELSE Upto(9)
  BY <1>1, <1>3 DEF InStepInv, Place
<1>5. PICK n \in Nat : len = n  BY <1>2, HalfIsNat DEF Types, HeaderTypes
<1>6. /\ UNCHANGED <<op, addr, len, byte_idx, tid_latched, cmd_was_last>>
      /\ wb_byte_offset' = o + 4 /\ wb_timeout_cnt' = 0
  BY <1>3, Zenon DEF ReadExec, hdrVars
<1> DEFINE got == o + 4
<1>7. CASE got >= n \/ got >= READ_MAX
  <2>1. rsp_len' = Actual(got) + 3 /\ rsp_idx' = 0 /\ Done
    BY <1>3, <1>5, <1>7, Zenon DEF ReadExec
  <2>2. rsp_idx' < rsp_len'
    <3>1. PICK a \in 1 .. READ_MAX : Actual(got) = a
      BY <1>2, <1>5, <1>7, ActualFits DEF Types, HeaderTypes
    <3> QED  BY <2>1, <3>1 DEF READ_MAX
  <2>3. CASE cmd_was_last
    <3>1. st' = "RSP_SEND"  BY <2>1, <2>3 DEF Done
    <3>2. Whole'  BY <1>2, <1>4, <2>3 DEF Whole
    <3>3. Place'  BY <1>2, <1>6, <2>2, <3>1, <3>2 DEF Place, States
    <3>4. Fields'  BY <3>1 DEF Fields, Busy
    <3> QED  BY <3>3, <3>4
  <2>4. CASE ~cmd_was_last
    <3>1. st' = "DISCARD_CMD"  BY <2>1, <2>4 DEF Done
    <3>2. cmd_no' = Number' /\ cmd_pos' > 1  BY <1>2, <1>4, <2>4 DEF Upto
    <3>3. ~cmd_was_last'  BY <1>6, <2>4
    <3>4. Place'  BY <1>2, <1>6, <2>2, <3>1, <3>2, <3>3 DEF Place, States
    <3>5. Fields'  BY <3>1 DEF Fields, Busy
    <3> QED  BY <3>4, <3>5
  <2> QED  BY <2>3, <2>4
<1>8. CASE ~(got >= n \/ got >= READ_MAX)
  <2>1. st' = "WB_READ_EXEC" /\ wb_adr' = wb_adr + 4 /\ Reading'
    <3>1. UNCHANGED st /\ wb_adr' = wb_adr + 4
      BY <1>3, <1>5, <1>8, Zenon DEF ReadExec
    <3> QED  BY <1>1, <1>4, <1>6, <3>1 DEF Reading
  <2>2. got % 4 = 0 /\ got < ReadLen(Cmd')
    <3>1. got % 4 = 0 /\ got < n /\ got < 29  BY <1>4, <1>8 DEF READ_MAX
    <3>2. ReadLen(Cmd) = IF n = 0 THEN 4 ELSE IF n > 29 THEN 29 ELSE n
      BY <1>2, <1>5 DEF ReadLen, READ_MAX
    <3> QED  BY <1>2, <3>1, <3>2
  <2>3. First = o /\ First' = got
    <3>1. First = 4 * (o \div 4) /\ First' = 4 * (got \div 4)
      BY <1>1, <1>3, <1>6, <2>1 DEF First
    <3> QED  BY <1>4, <2>2, <3>1, Quads
  <2>4. wb_adr' = Base' + First'  BY <1>2, <2>1, <2>3
  <2>5. Answers(Base', First')
    <3>1. Answers(Base, o + 4)  BY <1>1, <1>2, <1>4, <2>3, AnswersNext
    <3> QED  BY <1>2, <2>3, <3>1
  <2>6. IF cmd_was_last' THEN Whole' /\ Len(Cmd'.bytes) = 8 ELSE Upto(9)'
    <3>1. CASE cmd_was_last  BY <1>2, <1>4, <1>6, <3>1 DEF Whole
    <3>2. CASE ~cmd_was_last  BY <1>2, <1>4, <1>6, <3>2 DEF Upto
    <3> QED  BY <3>1, <3>2
  <2>7. Place'  BY <1>2, <1>6, <2>1, <2>2, <2>6 DEF Place, States
  <2>8. wb_timeout_cnt' < WB_TIMEOUT_CYCLES  BY <1>6, PlansAssumption
  <2>9. len' = Field(Cmd').len  BY <1>2, <1>6
  <2>10. Fields'  BY <2>1, <2>4, <2>5, <2>8, <2>9 DEF Fields
  <2> QED  BY <2>7, <2>10
<1> QED  BY <1>7, <1>8

LEMMA DiscardCmdInStep ==
  ASSUME InStepInv, DiscardCmd, Fifo, NEW ready, Reader(ready)
  PROVE  Place' /\ Fields'
<1>0. Types /\ FifoInv  BY DEF InStepInv, Types
<1>1. /\ st = "DISCARD_CMD" /\ Number <= Len(Commands)
      /\ op = Cmd.bytes[1] /\ tid_latched = Cmd.tid
      /\ cmd_no = Number /\ cmd_pos > 1 /\ (plan.gaps => ~cmd_was_last)
      /\ rsp_idx < rsp_len
  BY DEF InStepInv, Place, DiscardCmd
<1>2. /\ Number' = Number /\ Cmd' = Cmd /\ Base' = Base /\ Commands' = Commands
      /\ plan' = plan
  BY <1>1, SameCommand
<1>3. /\ UNCHANGED <<op, tid_latched, rsp_idx, rsp_len, cmd_was_last>>
      /\ st' = IF (IF s_cmd_tvalid THEN s_cmd_tlast ELSE cmd_was_last) THEN "RSP_SEND" ELSE st
  BY DEF DiscardCmd, hdrVars, rspVars
<1>4. PICK p \in Nat : cmd_pos = p /\ p > 1  BY <1>0, <1>1 DEF FifoInv
<1>5. CASE s_cmd_tvalid
  <2>1. Take  BY <1>1, <1>5 DEF Take, s_cmd_tready
  <2>2. /\ ~s_cmd_tlast => cmd_no' = Number' /\ cmd_pos' = p + 1
        /\ s_cmd_tlast => Whole'
    BY <1>0, <1>1, <1>2, <1>4, <2>1, TakeStep, Zenon DEF Upto
  <2>3. CASE s_cmd_tlast
    <3>1. st' = "RSP_SEND"  BY <1>3, <1>5, <2>3
    <3>2. Place'  BY <1>1, <1>2, <1>3, <2>2, <2>3, <3>1 DEF Place, States
    <3>3. Fields'  BY <3>1 DEF Fields, Busy
    <3> QED  BY <3>2, <3>3
  <2>4. CASE ~s_cmd_tlast
    <3>1. st' = "DISCARD_CMD"  BY <1>1, <1>3, <1>5, <2>4
    <3>2. cmd_no' = Number' /\ cmd_pos' > 1  BY <1>4, <2>2, <2>4
    <3>3. plan'.gaps => ~cmd_was_last'  BY <1>1, <1>2, <1>3
    <3>4. Place'  BY <1>1, <1>2, <1>3, <3>1, <3>2, <3>3 DEF Place, States
    <3>5. Fields'  BY <3>1 DEF Fields, Busy
    <3> QED  BY <3>4, <3>5
  <2> QED  BY <2>3, <2>4
<1>6. CASE ~s_cmd_tvalid
  <2>1. plan.gaps  BY <1>0, <1>1, <1>6 DEF FifoInv
  <2>2. st' = "DISCARD_CMD" /\ ~cmd_was_last'  BY <1>1, <1>3, <1>6, <2>1
  <2>3. cmd_no' = cmd_no /\ cmd_pos' = cmd_pos  BY <1>0, <1>6, FifoStep DEF Take
  <2>4. Place'  BY <1>1, <1>2, <1>3, <2>2, <2>3 DEF Place, States
  <2>5. Fields'  BY <2>2 DEF Fields, Busy
  <2> QED  BY <2>4, <2>5
<1> QED  BY <1>5, <1>6

\* The answer goes out a byte at a time; with its last byte the next command is due.
LEMMA Sending ==
  ASSUME InStepInv, NEW ready, RspSend(ready), Reader(ready)
  PROVE  /\ st = "RSP_SEND" /\ m_rsp_tvalid /\ rsp_idx < rsp_len
         /\ IF ready /\ m_rsp_tlast
            THEN /\ st' = "IDLE" /\ sent' = <<>>
                 /\ responses' = Append(responses, [bytes |-> Append(sent, rsp_buf[rsp_idx]),
                                                    tid |-> tid_latched])
                 /\ Len(responses') = Len(responses) + 1
            ELSE /\ st' = "RSP_SEND" /\ responses' = responses
                 /\ IF ready THEN /\ rsp_idx' = rsp_idx + 1 /\ rsp_idx' < rsp_len
                                  /\ sent' = Append(sent, rsp_buf[rsp_idx])
                             ELSE rsp_idx' = rsp_idx /\ sent' = sent
         /\ UNCHANGED <<rsp_buf, rsp_len>>
<1>1. st = "RSP_SEND" /\ rsp_idx < rsp_len
  BY DEF InStepInv, Place, RspSend
<1>2. rsp_len \in 0 .. 32 /\ rsp_idx \in Nat  BY DEF InStepInv, Types, AnswerTypes
<1>3. m_rsp_tvalid /\ rsp_len # 0  BY <1>1, <1>2 DEF m_rsp_tvalid
<1>4. UNCHANGED <<rsp_buf, rsp_len>>  BY DEF RspSend
<1>5. CASE ready /\ m_rsp_tlast
  <2>1. st' = "IDLE"  BY <1>1, <1>3, <1>5 DEF RspSend
  <2>2. /\ sent' = <<>>
        /\ responses' = Append(responses, [bytes |-> Append(sent, rsp_buf[rsp_idx]),
                                           tid |-> tid_latched])
    BY <1>3, <1>5 DEF Reader
  <2>3. responses \in Seq([bytes : Seq(Octet), tid : {0, 1}])
    BY DEF InStepInv, Types, AnswerTypes
  <2> DEFINE r == [bytes |-> Append(sent, rsp_buf[rsp_idx]), tid |-> tid_latched]
  <2>4. Len(Append(responses, r)) = Len(responses) + 1
    <3> HIDE DEF r
    <3> QED  BY <2>3
  <2> QED  BY <1>1, <1>3, <1>4, <1>5, <2>1, <2>2, <2>4
<1>6. CASE ~(ready /\ m_rsp_tlast)
  <2>1. st' = "RSP_SEND"  BY <1>1, <1>3, <1>6 DEF RspSend
  <2>2. responses' = responses  BY <1>6 DEF Reader
  <2>3. CASE ready
    <3>1. rsp_idx' = rsp_idx + 1  BY <1>3, <1>6, <2>3 DEF RspSend
    <3>2. rsp_idx' < rsp_len
      <4>1. rsp_idx + 1 # rsp_len  BY <1>6, <2>3 DEF m_rsp_tlast
      <4> QED  BY <1>1, <1>2, <3>1, <4>1
    <3>3. sent' = Append(sent, rsp_buf[rsp_idx])  BY <1>3, <1>6, <2>3 DEF Reader
    <3> QED  BY <1>1, <1>3, <1>4, <1>6, <2>1, <2>2, <2>3, <3>1, <3>2, <3>3
  <2>4. CASE ~ready
    <3>1. rsp_idx' = rsp_idx /\ sent' = sent  BY <2>4 DEF RspSend, Reader
    <3> QED  BY <1>1, <1>3, <1>4, <1>6, <2>1, <2>2, <2>4, <3>1
  <2> QED  BY <2>3, <2>4
<1> QED  BY <1>5, <1>6

LEMMA RspSendInStep ==
  ASSUME InStepInv, Fifo, NEW ready, RspSend(ready), Reader(ready)
  PROVE  Place' /\ Fields'
<1>0. Types /\ FifoInv  BY DEF InStepInv, Types
<1>1. st = "RSP_SEND" /\ rsp_len' = rsp_len  BY Sending
<1>2. /\ Number <= Len(Commands) /\ op = Cmd.bytes[1] /\ tid_latched = Cmd.tid /\ Whole
  BY <1>1 DEF InStepInv, Place
<1>3. /\ plan' = plan /\ Commands' = Commands /\ cmd_no' = cmd_no /\ cmd_pos' = cmd_pos
  BY <1>0, <1>1, FifoStep DEF Take, s_cmd_tready, Commands
<1>4. UNCHANGED <<op, tid_latched>>  BY DEF RspSend, hdrVars
<1>5. CASE ready /\ m_rsp_tlast
  <2>1. st' = "IDLE" /\ Len(responses') = Len(responses) + 1  BY <1>5, Sending
  <2>2. Upto(1)'  BY <1>2, <1>3, <2>1 DEF Upto, Whole, Number
  <2>3. Place'  BY <2>1, <2>2 DEF Place, States
  <2>4. Fields'  BY <2>1 DEF Fields, Busy
  <2> QED  BY <2>3, <2>4
<1>6. CASE ~(ready /\ m_rsp_tlast)
  <2>1. st' = "RSP_SEND" /\ responses' = responses  BY <1>6, Sending, Zenon
  <2>2. rsp_idx' < rsp_len'  BY <1>1, <1>6, Sending, Zenon
  <2>3. Number' = Number  BY <2>1 DEF Number
  <2>4. Cmd' = Cmd /\ Whole'  BY <1>2, <1>3, <2>3 DEF Cmd, Whole
  <2>5. Place'  BY <1>2, <1>3, <1>4, <2>1, <2>2, <2>3, <2>4 DEF Place, States
  <2>6. Fields'  BY <2>1 DEF Fields, Busy
  <2> QED  BY <2>5, <2>6
<1> QED  BY <1>5, <1>6

LEMMA EdgeInStep ==
  ASSUME InStepInv, NEW ack \in BOOLEAN, NEW ready \in BOOLEAN, Edge(ack, ready)
  PROVE  InStepInv'
<1>1. Master(ack, ready) /\ Fifo /\ Slave(ack) /\ Reader(ready)  BY DEF Edge
<1>2. Types /\ Place  BY DEF InStepInv
<1>3. FifoInv'  BY <1>1, <1>2, FifoStep DEF Types
<1>4. HeaderTypes' /\ Flag'  BY <1>1, <1>2, HeaderTypesKept
<1>5. BusTypes'  BY <1>1, <1>2, BusTypesKept
<1>6. AnswerTypes'  BY <1>1, <1>2, AnswerTypesKept
<1>7. Place' /\ Fields'
  <2>1. CASE Idle  BY <1>1, <2>1, IdleInStep
  <2>2. CASE GetHeader  BY <1>1, <2>2, GetHeaderInStep
  <2>3. CASE GetAddr  BY <1>1, <2>3, GetAddrInStep
  <2>4. CASE GetLen  BY <1>1, <2>4, GetLenInStep
  <2>5. CASE WriteData  BY <1>1, <2>5, WriteDataInStep
  <2>6. CASE WaitForByte  BY <1>1, <2>6, WaitForByteInStep
  <2>7. CASE GiveUp  BY <1>1, <2>7, GiveUpInStep
  <2>8. CASE ~ack /\ WaitForAck
    <3>1. ack = FALSE  BY <2>8
    <3>2. Slave(FALSE)  BY <1>1, <3>1
    <3> QED  BY <1>1, <2>8, <3>2, WaitForAckInStep
  <2>9. CASE ack /\ WriteExec
    <3>1. ack = TRUE  BY <2>9
    <3>2. Slave(TRUE)  BY <1>1, <3>1
    <3> QED  BY <1>1, <2>9, <3>2, WriteExecInStep
  <2>10. CASE ack /\ wb_adr \in Answering /\ ReadExec(regs[wb_adr])
    <3>1. ack = TRUE  BY <2>10
    <3>2. Slave(TRUE)  BY <1>1, <3>1
    <3> QED  BY <1>1, <2>10, <3>2, ReadExecInStep
  <2>11. CASE DiscardCmd  BY <1>1, <2>11, DiscardCmdInStep
  <2>12. CASE RspSend(ready)  BY <1>1, <2>12, RspSendInStep
  <2> QED
    BY <1>1, <2>1, <2>2, <2>3, <2>4, <2>5, <2>6, <2>7, <2>8, <2>9, <2>10, <2>11, <2>12
       DEF Master
<1> QED  BY <1>3, <1>4, <1>5, <1>6, <1>7 DEF InStepInv, Types

LEMMA InitInStep == Init => InStepInv
<1> SUFFICES ASSUME Init PROVE InStepInv  OBVIOUS
<1>1. /\ plan \in Plans /\ cmd_no = 1 /\ cmd_pos = 1 /\ s_cmd_tvalid = FALSE
      /\ st = "IDLE" /\ responses = <<>> /\ sent = <<>> /\ regs = InitialRegs
  BY DEF Init
<1>2. FifoInv
  <2>1. Len(Commands) \in Nat  BY <1>1, CommandFacts
  <2>2. 1 <= Len(Commands) => 1 <= Len(Commands[1].bytes)
    <3> SUFFICES ASSUME 1 <= Len(Commands) PROVE 1 <= Len(Commands[1].bytes)  OBVIOUS
    <3>1. 1 \in 1 .. Len(Commands)  BY <2>1
    <3>2. Len(Commands[1].bytes) \in Nat \ {0}  BY <1>1, <3>1, CommandFacts
    <3>3. PICK n \in Nat \ {0} : Len(Commands[1].bytes) = n  BY <3>2
    <3> QED  BY <3>3
  <2>3. s_cmd_tvalid \in BOOLEAN /\ ~s_cmd_tvalid  BY <1>1
  <2> QED  BY <1>1, <2>1, <2>2, <2>3 DEF FifoInv
<1>3. HeaderTypes
  <2>1. op = 0 /\ addr = <<0, 0, 0, 0>> /\ len = 0 /\ byte_idx = 0 /\ tid_latched = 0
    BY DEF Init
  <2>2. addr \in Seq(Octet) /\ Len(addr) = 4 /\ op \in Octet  BY <2>1, SMT DEF Octet
  <2>3. len \in Half  BY <2>1, NatIsHalf
  <2> QED  BY <2>1, <2>2, <2>3 DEF HeaderTypes
<1>4. Flag  BY DEF Init, Flag
<1>5. BusTypes
  <2>1. /\ wb_adr = 0 /\ wb_dat = Zeros /\ wb_sel = {} /\ wb_byte_offset = 0
        /\ wb_timeout_cnt = 0
    BY DEF Init
  <2>2. Zeros \in [Lanes -> Octet]  BY DEF Zeros, Octet
  <2>3. InitialRegs \in [Answering -> [Lanes -> Octet]]
    <3>1. ASSUME NEW a \in Answering, NEW i \in Lanes PROVE (a + i) % 256 \in Octet
      <4>1. a \in Nat /\ i \in Nat  BY PlansAssumption DEF Lanes
      <4> QED  BY <4>1 DEF Octet
    <3> QED  BY <3>1 DEF InitialRegs
  <2> QED  BY <1>1, <2>1, <2>2, <2>3 DEF BusTypes
<1>6. AnswerTypes
  <2>1. rsp_buf = [i \in 0 .. 31 |-> 0] /\ rsp_len = 0 /\ rsp_idx = 0  BY DEF Init
  <2>2. rsp_buf \in [0 .. 31 -> Octet]  BY <2>1 DEF Octet
  <2> QED  BY <1>1, <2>1, <2>2, EmptySeq DEF AnswerTypes
<1>7. Place
  <2>1. Number = 1  BY <1>1 DEF Number
  <2> QED  BY <1>1, <2>1 DEF Place, States, Upto
<1>8. Fields  BY <1>1 DEF Fields, Busy
<1> QED  BY <1>2, <1>3, <1>4, <1>5, <1>6, <1>7, <1>8 DEF InStepInv, Types

LEMMA NextInStep == InStepInv /\ [Next]_vars => InStepInv'
<1> SUFFICES ASSUME InStepInv, [Next]_vars PROVE InStepInv'  OBVIOUS
<1>1. CASE Next  BY <1>1, EdgeInStep DEF Next
<1>2. CASE UNCHANGED vars
  <2>1. /\ UNCHANGED <<plan, cmd_no, cmd_pos, s_cmd_tvalid, responses, sent, regs>>
        /\ UNCHANGED <<st, op, addr, len, byte_idx, tid_latched, cmd_was_last>>
        /\ UNCHANGED <<rsp_buf, rsp_len, rsp_idx>>
        /\ UNCHANGED <<wb_adr, wb_dat, wb_sel, wb_byte_offset, wb_timeout_cnt>>
    BY <1>2 DEF vars, hdrVars, rspVars, busVars, fifoVars
  <2>2. /\ Commands' = Commands /\ Number' = Number /\ Cmd' = Cmd /\ Base' = Base
        /\ First' = First
    BY <2>1 DEF Commands, Number, Cmd, Base, First
  <2>3. FifoInv'  BY <2>1, <2>2 DEF InStepInv, Types, FifoInv
  <2>4. HeaderTypes'  BY <2>1 DEF InStepInv, Types, HeaderTypes
  <2>5. Flag'  BY <2>1 DEF InStepInv, Types, Flag
  <2>6. BusTypes'  BY <2>1 DEF InStepInv, Types, BusTypes
  <2>7. AnswerTypes'  BY <2>1 DEF InStepInv, Types, AnswerTypes
  <2>8. Place'  BY <2>1, <2>2 DEF InStepInv, Place, Upto, Whole, Reading, Writing
  <2>9. Fields'  BY <2>1, <2>2 DEF InStepInv, Fields, Busy
  <2> QED  BY <2>3, <2>4, <2>5, <2>6, <2>7, <2>8, <2>9 DEF InStepInv, Types
<1> QED  BY <1>1, <1>2

\* "State machines must always drain payloads until TLAST" (fcsp_wishbone_master.sv): a first
\* byte is taken as an operation, and nothing else is.
THEOREM StaysInStep == Spec => InStep
<1>1. ASSUME InStepInv PROVE [Take => (cmd_pos = 1 <=> st = "IDLE")]_vars
  <2> SUFFICES ASSUME Take PROVE cmd_pos = 1 <=> st = "IDLE"  OBVIOUS
  <2>1. CASE st = "IDLE"  BY <1>1, <2>1 DEF InStepInv, Place, Upto
  <2>2. CASE st # "IDLE"
    <3>1. \/ st \in {"GET_HEADER", "GET_ADDR", "GET_LEN", "DISCARD_CMD"}
          \/ st = "WB_WRITE_DATA"
      BY <2>2 DEF Take, s_cmd_tready
    <3>2. byte_idx \in Nat /\ wb_byte_offset \in Nat
      BY <1>1 DEF InStepInv, Types, HeaderTypes, BusTypes
    <3>3. CASE st = "GET_HEADER"  BY <1>1, <3>3 DEF InStepInv, Place, Upto
    <3>4. CASE st = "GET_ADDR"  BY <1>1, <3>2, <3>4 DEF InStepInv, Place, Upto
    <3>5. CASE st = "GET_LEN"  BY <1>1, <3>2, <3>5 DEF InStepInv, Place, Upto
    <3>6. CASE st = "DISCARD_CMD"
      <4>1. cmd_pos > 1  BY <1>1, <3>6 DEF InStepInv, Place
      <4>2. PICK p \in Nat : cmd_pos = p  BY <1>1 DEF InStepInv, Types, FifoInv
      <4> QED  BY <2>2, <4>1, <4>2
    <3>7. CASE st = "WB_WRITE_DATA"  BY <1>1, <3>2, <3>7 DEF InStepInv, Place, Upto
    <3> QED  BY <3>1, <3>3, <3>4, <3>5, <3>6, <3>7
  <2> QED  BY <2>1, <2>2
<1> QED  BY <1>1, InitInStep, NextInStep, PTL DEF Spec, InStep

--------------------------------------------------------------------------------
\* What a command leaves in the registers.

LEMMA LeavesCmd ==
  ASSUME Types
  PROVE  After(Commands)[Number] = Leaves(Cmd, Before)
<1>1. PICK n \in Nat : Len(responses) = n  BY LenProperties DEF Types, AnswerTypes
<1>2. Number = n + 1 /\ Number - 1 = n  BY <1>1 DEF Number
<1>3. After(Commands)[n + 1] = Leaves(Commands[n + 1], After(Commands)[n])  BY AfterStep
<1> QED  BY <1>2, <1>3 DEF Cmd, Before

\* Byte k of a block lies in the word d bytes behind its first one.
LEMMA ByteAt ==
  ASSUME NEW base \in Nat, NEW a \in Nat, NEW i \in Lanes, NEW k \in Nat
  PROVE  (Word(base, k) = a /\ k % 4 = i)
           <=> (a - base >= 0 /\ (a - base) % 4 = 0 /\ k = (a - base) + i)
<1>1. PICK q \in Nat : q = k \div 4 /\ 4 * q + (k % 4) = k /\ k % 4 \in 0 .. 3  BY Quads
<1>2. Word(base, k) = base + 4 * q  BY <1>1 DEF Word
<1>3. ASSUME Word(base, k) = a, k % 4 = i
      PROVE  a - base >= 0 /\ (a - base) % 4 = 0 /\ k = (a - base) + i
  <2>1. a - base = 4 * q  BY <1>2, <1>3
  <2> QED  BY <1>1, <1>3, <2>1
<1>4. ASSUME a - base >= 0, (a - base) % 4 = 0, k = (a - base) + i
      PROVE  Word(base, k) = a /\ k % 4 = i
  <2>1. PICK d \in Nat : d = a - base /\ d % 4 = 0  BY <1>4
  <2>2. d <= k /\ k < d + 4  BY <1>4, <2>1 DEF Lanes
  <2>3. 4 * (k \div 4) = d /\ k % 4 = k - d  BY <2>1, <2>2, QuadOf
  <2> QED  BY <1>4, <2>1, <2>3 DEF Word, Lanes
<1> QED  BY <1>3, <1>4

\* A write has written everything up to its end, or up to the first word at which nobody
\* answers.
LEMMA WriteIs ==
  ASSUME NEW c, NEW R, NEW w \in Nat, NEW m \in Nat, NEW base \in Nat,
         Field(c).base = base, Written(c) = w, m <= w, Answers(base, m),
         m = w \/ (m % 4 = 0 /\ base + m \notin Answering)
  PROVE  Write(c, R) = WrittenUpto(c, R, m)
<1> DEFINE hits(a) == {k \in 0 .. w - 1 : Word(base, k) = a /\ Answers(base, k + 1)}
           byte(a, i) == {k \in hits(a) : k % 4 = i}
<1>1. ASSUME NEW a \in Answering, NEW i \in Lanes
      PROVE  byte(a, i) = IF a - base >= 0 /\ (a - base) % 4 = 0 /\ (a - base) + i < m
                          THEN {(a - base) + i} ELSE {}
  <2>1. a \in Nat  BY PlansAssumption
  <2>2. ASSUME NEW k, k \in byte(a, i)
        PROVE  a - base >= 0 /\ (a - base) % 4 = 0 /\ (a - base) + i < m /\ k = (a - base) + i
    <3>1. k \in Nat /\ k < w /\ Word(base, k) = a /\ k % 4 = i /\ Answers(base, k + 1)
      BY <2>2
    <3> HIDE DEF byte
    <3>2. a - base >= 0 /\ (a - base) % 4 = 0 /\ k = (a - base) + i  BY <2>1, <3>1, ByteAt
    <3>3. k < m
      <4> SUFFICES ASSUME k >= m PROVE FALSE  BY <3>1
      <4>1. m % 4 = 0 /\ base + m \notin Answering  BY <3>1
      <4>2. m \in 0 .. (k + 1) - 1  BY <3>1
      <4>3. Word(base, m) \in Answering  BY <3>1, <4>2 DEF Answers
      <4>4. 4 * (m \div 4) = m  BY <4>1, Quads
      <4> QED  BY <4>1, <4>3, <4>4 DEF Word
    <3> QED  BY <3>2, <3>3
  <2>3. ASSUME a - base >= 0, (a - base) % 4 = 0, (a - base) + i < m
        PROVE  (a - base) + i \in byte(a, i)
    <3>1. PICK k \in Nat : k = (a - base) + i /\ k < m  BY <2>1, <2>3 DEF Lanes
    <3>2. Word(base, k) = a /\ k % 4 = i  BY <2>1, <2>3, <3>1, ByteAt
    <3>3. k + 1 \in Nat /\ k + 1 <= m /\ k \in 0 .. w - 1  BY <3>1
    <3>4. Answers(base, k + 1)  BY <3>3, AnswersFewer
    <3> QED  BY <3>1, <3>2, <3>3, <3>4
  <2> HIDE DEF byte
  <2> QED  BY <2>2, <2>3
<1>2. ASSUME NEW a \in Answering, NEW i \in Lanes
      PROVE  (IF byte(a, i) = {} THEN R[a][i] ELSE c.bytes[9 + CHOOSE k \in byte(a, i) : TRUE])
               = WrittenUpto(c, R, m)[a][i]
  <2> DEFINE d == a - base
             ok == d >= 0 /\ d % 4 = 0 /\ d + i < m
             B == byte(a, i)
  <2>0. a \in Nat /\ i \in Nat  BY PlansAssumption DEF Lanes
  <2>1. WrittenUpto(c, R, m)[a][i] = IF ok THEN c.bytes[9 + d + i] ELSE R[a][i]
    BY DEF WrittenUpto
  <2>2. B = IF ok THEN {d + i} ELSE {}  BY <1>1
  <2>3. 9 + d + i = 9 + (d + i)  BY <2>0
  <2> HIDE DEF ok, B, d
  <2>4. CASE ok
    <3>1. B = {d + i} /\ B # {}  BY <2>2, <2>4
    <3>2. (CHOOSE k \in B : TRUE) = d + i  BY <3>1
    <3> QED  BY <2>1, <2>3, <2>4, <3>1, <3>2 DEF B
  <2>5. CASE ~ok  BY <2>1, <2>2, <2>5 DEF B
  <2> QED  BY <2>4, <2>5
<1> DEFINE v(a, i) == IF byte(a, i) = {} THEN R[a][i]
                      ELSE c.bytes[9 + CHOOSE k \in byte(a, i) : TRUE]
           U == WrittenUpto(c, R, m)
<1>3. Write(c, R) = [a \in Answering |-> [i \in Lanes |-> v(a, i)]]  BY DEF Write
<1>4. U = [a \in Answering |-> [i \in Lanes |-> U[a][i]]]  BY DEF WrittenUpto
<1>5. ASSUME NEW a \in Answering, NEW i \in Lanes PROVE v(a, i) = U[a][i]  BY <1>2
<1> HIDE DEF v, U
<1>6. ASSUME NEW a \in Answering
      PROVE  [i \in Lanes |-> v(a, i)] = [i \in Lanes |-> U[a][i]]
  BY <1>5
<1>7. Write(c, R) = U  BY <1>3, <1>4, <1>6, Zenon
<1> QED  BY <1>7 DEF U

LEMMA NothingWritten ==
  ASSUME NEW c, NEW R \in [Answering -> [Lanes -> Octet]], Field(c).base \in Nat
  PROVE  WrittenUpto(c, R, 0) = R
<1>1. ASSUME NEW a \in Answering, NEW i \in Lanes
      PROVE  WrittenUpto(c, R, 0)[a][i] = R[a][i]
  <2>1. PICK b \in Nat : Field(c).base = b  OBVIOUS
  <2>2. a \in Nat /\ i \in Nat  BY PlansAssumption DEF Lanes
  <2>3. ~(a - b >= 0 /\ (a - b) + i < 0)  BY <2>2
  <2> QED  BY <2>1, <2>3 DEF WrittenUpto
<1> DEFINE U == WrittenUpto(c, R, 0)
<1>2. U = [a \in Answering |-> [i \in Lanes |-> U[a][i]]]  BY DEF WrittenUpto
<1>3. R = [a \in Answering |-> [i \in Lanes |-> R[a][i]]]  OBVIOUS
<1> HIDE DEF U
<1> QED  BY <1>1, <1>2, <1>3, Zenon DEF U

\* The word a slave takes is the next one of the block.
Stored(new, old, adr, sel, dat) ==
  new = [old EXCEPT ![adr] = [i \in Lanes |-> IF i \in sel THEN dat[i] ELSE @[i]]]
OnLanes(c, f, o, sel, dat) ==
  sel = {i \in Lanes : f + i < o} /\ \A i \in sel : dat[i] = c.bytes[9 + f + i]
LEMMA WordWritten ==
  ASSUME NEW c, NEW R, NEW f \in Nat, NEW o \in Nat, f % 4 = 0, f < o, o <= f + 4,
         Field(c).base \in Nat, Field(c).base + f \in Answering,
         NEW sel, NEW dat, OnLanes(c, f, o, sel, dat),
         NEW new, Stored(new, WrittenUpto(c, R, f), Field(c).base + f, sel, dat)
  PROVE  new = WrittenUpto(c, R, o)
<1>9. PICK base \in Nat : base = Field(c).base  OBVIOUS
<1> DEFINE U == WrittenUpto(c, R, f)
           V == WrittenUpto(c, R, o)
           word == [i \in Lanes |-> IF i \in sel THEN dat[i] ELSE U[base + f][i]]
<1>0. sel = {i \in Lanes : f + i < o} /\ \A i \in sel : dat[i] = c.bytes[9 + f + i]
  BY DEF OnLanes
<1>1. /\ U = [a \in Answering |-> [i \in Lanes |-> U[a][i]]]
      /\ V = [a \in Answering |-> [i \in Lanes |-> V[a][i]]]
  BY DEF WrittenUpto
<1>2. ASSUME NEW a \in Answering, NEW i \in Lanes, a # base + f PROVE U[a][i] = V[a][i]
  <2>1. a \in Nat /\ i \in 0 .. 3  BY PlansAssumption DEF Lanes
  <2>2. PICK d \in Int : d = a - base  BY <2>1
  <2>3. (d >= 0 /\ d % 4 = 0 /\ d + i < f) <=> (d >= 0 /\ d % 4 = 0 /\ d + i < o)
    BY <1>2, <2>1, <2>2
  <2>4. /\ U[a][i] = IF d >= 0 /\ d % 4 = 0 /\ d + i < f THEN c.bytes[9 + d + i] ELSE R[a][i]
        /\ V[a][i] = IF d >= 0 /\ d % 4 = 0 /\ d + i < o THEN c.bytes[9 + d + i] ELSE R[a][i]
    BY <1>9, <2>2 DEF WrittenUpto
  <2> QED  BY <2>3, <2>4, Zenon
<1>3. ASSUME NEW i \in Lanes PROVE word[i] = V[base + f][i]
  <2>1. i \in 0 .. 3  BY DEF Lanes
  <2>2. (base + f) - base = f  OBVIOUS
  <2>3. V[base + f][i] = IF f >= 0 /\ f % 4 = 0 /\ f + i < o THEN c.bytes[9 + f + i]
                                                             ELSE R[base + f][i]
    BY <1>9, <2>2 DEF WrittenUpto
  <2>4. U[base + f][i] = IF f >= 0 /\ f % 4 = 0 /\ f + i < f THEN c.bytes[9 + f + i]
                                                             ELSE R[base + f][i]
    BY <1>9, <2>2 DEF WrittenUpto
  <2>5. ~(f + i < f)  BY <2>1
  <2>6. U[base + f][i] = R[base + f][i]  BY <2>4, <2>5, Zenon
  <2> HIDE DEF U, V
  <2> QED  BY <1>0, <2>3, <2>6
<1> HIDE DEF U, V
<1>4. word = [i \in Lanes |-> word[i]]  OBVIOUS
<1>5. V[base + f] = [i \in Lanes |-> V[base + f][i]]
  <2>1. base + f \in Answering  BY <1>9
  <2> QED  BY <1>1, <2>1, Zenon
<1>6. word = V[base + f]
  <2> HIDE DEF word
  <2> QED  BY <1>3, <1>4, <1>5
<1>7. ASSUME NEW a \in Answering, a # base + f PROVE U[a] = V[a]
  <2>1. U[a] = [i \in Lanes |-> U[a][i]] /\ V[a] = [i \in Lanes |-> V[a][i]]  BY <1>1
  <2> QED  BY <1>2, <1>7, <2>1
<1> HIDE DEF word
<1>8. new = V
  <2>1. new = [U EXCEPT ![base + f] = word]  BY <1>9 DEF U, word, Stored
  <2> QED  BY <1>9, <1>1, <1>6, <1>7, <2>1
<1> QED  BY <1>8 DEF V

--------------------------------------------------------------------------------
\* The registers and the response, action by action.

\* With the last word of a command, or in place of it, the response is in the buffer and the
\* registers are what the command leaves.
LEMMA Concludes ==
  ASSUME InStepInv, Answered, Fifo, NEW ready, Reader(ready), st # "RSP_SEND",
         st' \in {"DISCARD_CMD", "RSP_SEND"}, regs' = Leaves(Cmd, Before),
         NEW b \in Seq(Octet), b = Expected, rsp_len' = Len(b), rsp_idx' = 0,
         \A i \in 1 .. Len(b) : rsp_buf'[i - 1] = b[i]
  PROVE  Registers' /\ Answered'
<1>1. /\ sent' = sent /\ Number' = Number /\ Cmd' = Cmd /\ Before' = Before
      /\ Commands' = Commands
  BY SameCommand
<1>2. Expected' = Expected  BY <1>1 DEF Expected
<1>3. sent = <<>>  BY DEF Answered
<1>4. InBuffer'  BY <1>2 DEF InBuffer
<1>5. Answered'
  <2>1. Len(sent') = rsp_idx' /\ \A i \in 1 .. rsp_idx' : sent'[i] = Expected'[i]
    BY <1>1, <1>3
  <2> QED  BY <1>1, <1>3, <1>4, <2>1 DEF Answered
<1>6. regs' = After(Commands')[Number']  BY <1>1, LeavesCmd DEF InStepInv, Types
<1>7. Registers'  BY <1>6 DEF Registers
<1> QED  BY <1>5, <1>7

LEMMA NotAnswering ==
  ASSUME Answered, Fifo, NEW ready, Reader(ready), st # "RSP_SEND",
         st' \notin {"DISCARD_CMD", "RSP_SEND", "WB_READ_EXEC"}
  PROVE  Answered'
<1>1. sent' = sent  BY SameCommand
<1> QED  BY <1>1 DEF Answered

LEMMA AnswerGives ==
  ASSUME Types, NEW b \in Seq(Octet), Len(b) \in {1, 3}, Answer(b)
  PROVE  /\ rsp_len' = Len(b) /\ rsp_idx' = 0
         /\ \A i \in 1 .. Len(b) : rsp_buf'[i - 1] = b[i]
<1>1. PICK n \in {1, 3} : Len(b) = n  OBVIOUS
<1>2. AnswerTypes  BY DEF Types
<1>3. Len(b) <= 32  BY <1>1
<1>4. /\ rsp_len' = Len(b) /\ rsp_idx' = 0
      /\ \A i \in 0 .. Len(b) - 1 : rsp_buf'[i] = b[i + 1]
  BY <1>2, <1>3, AnswerTyped
<1>5. ASSUME NEW i \in 1 .. Len(b) PROVE rsp_buf'[i - 1] = b[i]
  <2>1. i \in 1 .. n /\ i - 1 \in 0 .. n - 1 /\ (i - 1) + 1 = i  BY <1>1
  <2>2. rsp_buf'[i - 1] = b[(i - 1) + 1]  BY <1>1, <1>4, <2>1
  <2> QED  BY <2>1, <2>2
<1> QED  BY <1>4, <1>5

LEMMA SimpleExpected ==
  ASSUME Cmd.bytes[1] \notin {OP_READ_BLOCK, OP_WRITE_BLOCK}
  PROVE  Expected = Simple(Cmd.bytes[1]) /\ Leaves(Cmd, Before) = Before
BY DEF Expected, Response, Leaves

LEMMA SameRegs ==
  ASSUME NEW ack, Slave(ack), st # "WB_WRITE_EXEC"
  PROVE  regs' = regs
BY DEF Slave

LEMMA IdleRight ==
  ASSUME InStepInv, Registers, Answered, Idle, Fifo, NEW ack, Slave(ack), NEW ready, Reader(ready)
  PROVE  Registers' /\ Answered'
<1>0. Types /\ FifoInv  BY DEF InStepInv, Types
<1>1. st = "IDLE" /\ Upto(1)  BY DEF InStepInv, Place, Idle
<1>2. /\ Number' = Number /\ Cmd' = Cmd /\ Base' = Base /\ Before' = Before
      /\ regs = Before /\ regs' = regs
  BY <1>1, SameCommand, SameRegs DEF Registers
<1>3. CASE s_cmd_tvalid /\ s_cmd_tlast
  <2>1. Number <= Len(Commands)  BY <1>0, <1>1, <1>3 DEF Upto, FifoInv
  <2>2. s_cmd_tdata = Cmd.bytes[1] /\ 1 = Len(Cmd.bytes)
    BY <1>0, <1>1, <1>2, <1>3, <2>1, TakeStep
  <2>3. Cmd.bytes[1] \notin {OP_READ_BLOCK, OP_WRITE_BLOCK}
    <3> SUFFICES ASSUME Cmd.bytes[1] \in {OP_READ_BLOCK, OP_WRITE_BLOCK} PROVE FALSE  OBVIOUS
    <3>1. Len(Cmd.bytes) >= 8  BY <1>0, <2>1, BlockFacts
    <3>2. PICK n \in Nat : Len(Cmd.bytes) = n  BY <1>0, <2>1, CmdFacts
    <3> QED  BY <2>2, <3>1, <3>2
  <2>4. st' = "RSP_SEND" /\ Answer(Simple(Cmd.bytes[1]))  BY <1>3, <2>2 DEF Idle
  <2>5. Simple(Cmd.bytes[1]) \in Seq(Octet) /\ Len(Simple(Cmd.bytes[1])) \in {1, 3}
    BY SimpleTyped
  <2> DEFINE b == Simple(Cmd.bytes[1])
  <2>6. b = Expected /\ regs' = Leaves(Cmd, Before)  BY <1>2, <2>3, SimpleExpected
  <2> HIDE DEF b
  <2>7. b \in Seq(Octet) /\ Len(b) \in {1, 3} /\ Answer(b)  BY <2>4, <2>5 DEF b
  <2>8. rsp_len' = Len(b) /\ rsp_idx' = 0 /\ \A i \in 1 .. Len(b) : rsp_buf'[i - 1] = b[i]
    BY <1>0, <2>7, AnswerGives
  <2> QED  BY <1>1, <2>4, <2>6, <2>7, <2>8, Concludes
<1>4. CASE ~(s_cmd_tvalid /\ s_cmd_tlast)
  <2>1. st' \in {"IDLE", "GET_HEADER"}  BY <1>1, <1>4 DEF Idle
  <2>2. Answered'  BY <1>1, <2>1, NotAnswering
  <2>3. Registers'  BY <1>2, <2>1 DEF Registers
  <2> QED  BY <2>2, <2>3
<1> QED  BY <1>3, <1>4

LEMMA GetHeaderRight ==
  ASSUME InStepInv, Registers, Answered, GetHeader, Fifo, NEW ack, Slave(ack),
         NEW ready, Reader(ready)
  PROVE  Registers' /\ Answered'
<1>0. Types  BY DEF InStepInv
<1>1. /\ st = "GET_HEADER" /\ Number <= Len(Commands) /\ op = Cmd.bytes[1]
  BY DEF InStepInv, Place, GetHeader
<1>2. Before' = Before /\ regs = Before /\ regs' = regs
  BY <1>1, SameCommand, SameRegs DEF Registers
<1>3. CASE op \in {OP_WRITE_BLOCK, OP_READ_BLOCK}
  <2>1. st' \in {"GET_ADDR", "DISCARD_CMD"} /\ st' # "DISCARD_CMD"
    <3>1. st' \in {"GET_ADDR", "DISCARD_CMD"} /\ (s_cmd_tlast <=> st' = "DISCARD_CMD")
      BY <1>3 DEF GetHeader
    <3>2. ~s_cmd_tlast
      <4>1. s_cmd_tlast <=> 2 = Len(Cmd.bytes)
        BY <1>0, <1>1, SameCommand, TakeStep DEF InStepInv, Place
      <4>2. Len(Cmd.bytes) >= 8  BY <1>0, <1>1, <1>3, BlockFacts
      <4>3. PICK n \in Nat : Len(Cmd.bytes) = n  BY <1>0, <1>1, CmdFacts
      <4> QED  BY <4>1, <4>2, <4>3
    <3> QED  BY <3>1, <3>2
  <2>2. Answered'  BY <1>1, <2>1, NotAnswering
  <2>3. Registers'  BY <1>2, <2>1 DEF Registers
  <2> QED  BY <2>2, <2>3
<1>4. CASE op \notin {OP_WRITE_BLOCK, OP_READ_BLOCK}
  <2>1. st' \in {"RSP_SEND", "DISCARD_CMD"} /\ Answer(Simple(Cmd.bytes[1]))
    BY <1>1, <1>4 DEF GetHeader
  <2> DEFINE b == Simple(Cmd.bytes[1])
  <2>2. b = Expected /\ regs' = Leaves(Cmd, Before)  BY <1>1, <1>2, <1>4, SimpleExpected
  <2>3. b \in Seq(Octet) /\ Len(b) \in {1, 3}  BY SimpleTyped
  <2> HIDE DEF b
  <2>4. Answer(b)  BY <2>1 DEF b
  <2>5. rsp_len' = Len(b) /\ rsp_idx' = 0 /\ \A i \in 1 .. Len(b) : rsp_buf'[i - 1] = b[i]
    BY <1>0, <2>3, <2>4, AnswerGives
  <2> QED  BY <1>1, <2>1, <2>2, <2>3, <2>5, Concludes
<1> QED  BY <1>3, <1>4

LEMMA GetAddrRight ==
  ASSUME InStepInv, Registers, Answered, GetAddr, Fifo, NEW ack, Slave(ack), NEW ready, Reader(ready)
  PROVE  Registers' /\ Answered'
<1>0. Types  BY DEF InStepInv
<1>1. /\ st = "GET_ADDR" /\ Upto(3 + byte_idx) /\ Number <= Len(Commands)
      /\ op = Cmd.bytes[1] /\ (Reading \/ Writing)
  BY DEF InStepInv, Place, GetAddr
<1>2. Number' = Number /\ Before' = Before /\ regs = Before /\ regs' = regs
  BY <1>1, SameCommand, SameRegs DEF Registers
<1>3. ~s_cmd_tlast
  <2>1. s_cmd_tlast <=> 3 + byte_idx = Len(Cmd.bytes)
    BY <1>0, <1>1, <1>2, TakeStep, Zenon
  <2>2. PICK n \in Nat : Len(Cmd.bytes) = n  BY <1>0, <1>1, CmdFacts
  <2>3. Len(Cmd.bytes) >= 8  BY <1>0, <1>1, BlockFacts DEF Reading, Writing
  <2>4. byte_idx \in 0 .. 3  BY <1>0 DEF Types, HeaderTypes
  <2> QED  BY <2>1, <2>2, <2>3, <2>4
<1>4. st' \in {"GET_ADDR", "GET_LEN"}  BY <1>3 DEF GetAddr
<1>5. Answered'  BY <1>1, <1>4, NotAnswering
<1>6. Registers'  BY <1>2, <1>4 DEF Registers
<1> QED  BY <1>5, <1>6

LEMMA GetLenRight ==
  ASSUME InStepInv, Registers, Answered, GetLen, Fifo, NEW ack, Slave(ack), NEW ready, Reader(ready)
  PROVE  Registers' /\ Answered'
<1>0. Types  BY DEF InStepInv
<1>1. st = "GET_LEN" /\ Number <= Len(Commands) /\ op = Cmd.bytes[1] /\ (Reading \/ Writing)
  BY DEF InStepInv, Place, GetLen
<1>2. /\ Cmd' = Cmd /\ Before' = Before /\ regs = Before /\ regs' = regs
      /\ sent' = sent /\ sent = <<>>
  BY <1>1, SameCommand, SameRegs DEF Registers, Answered
<1>3. CASE st' \in {"GET_LEN", "IDLE"}
  <2>1. Answered'  BY <1>1, <1>3, NotAnswering
  <2>2. Registers'  BY <1>2, <1>3 DEF Registers
  <2> QED  BY <2>1, <2>2
<1>4. CASE st' = "WB_WRITE_DATA"
  <2>1. wb_byte_offset' = 0 /\ wb_sel' = {}  BY <1>4 DEF GetLen
  <2>2. First' = 0
    <3>1. First' = 4 * (0 \div 4)  BY <1>4, <2>1 DEF First
    <3> QED  BY <3>1
  <2>3. WrittenUpto(Cmd, Before, 0) = Before
    <3>1. Field(Cmd).base \in Nat  BY <1>0, <1>1, BlockFacts DEF Base, Reading, Writing
    <3>2. Before \in [Answering -> [Lanes -> Octet]]  BY <1>0, <1>2 DEF Types, BusTypes
    <3> QED  BY <3>1, <3>2, NothingWritten
  <2>4. {i \in Lanes : 0 + i < 0} = {}  BY DEF Lanes
  <2>5. Registers'  BY <1>2, <1>4, <2>1, <2>2, <2>3, <2>4 DEF Registers
  <2>6. Answered'  BY <1>1, <1>4, NotAnswering
  <2> QED  BY <2>5, <2>6
<1>5. CASE st' = "WB_READ_EXEC"
  <2>1. wb_byte_offset' = 0  BY <1>5 DEF GetLen
  <2>2. Answered'  BY <1>2, <1>5, <2>1 DEF Answered
  <2>3. Registers'  BY <1>2, <1>5 DEF Registers
  <2> QED  BY <2>2, <2>3
<1>6. st' \in {"GET_LEN", "IDLE", "WB_WRITE_DATA", "WB_READ_EXEC"}  BY DEF GetLen
<1> QED  BY <1>3, <1>4, <1>5, <1>6

LEMMA WriteDataRight ==
  ASSUME InStepInv, Registers, Answered, WriteData, Fifo, NEW ack, Slave(ack),
         NEW ready, Reader(ready)
  PROVE  Registers' /\ Answered'
<1>0. Types  BY DEF InStepInv
<1>1. st = "WB_WRITE_DATA" /\ Upto(9 + wb_byte_offset) /\ Number <= Len(Commands)
  BY DEF InStepInv, Place, WriteData
<1>2. /\ Number' = Number /\ Cmd' = Cmd /\ Before' = Before /\ regs' = regs
      /\ regs = WrittenUpto(Cmd, Before, First)
      /\ wb_sel = {i \in Lanes : First + i < wb_byte_offset}
      /\ \A i \in wb_sel : wb_dat[i] = Cmd.bytes[9 + First + i]
  BY <1>1, SameCommand, SameRegs DEF Registers
<1>3. s_cmd_tdata = Cmd.bytes[9 + wb_byte_offset]
  BY <1>0, <1>1, <1>2, TakeStep, Zenon
<1>4. PICK o \in Nat : wb_byte_offset = o  BY <1>0 DEF Types, BusTypes
<1>5. PICK f \in Nat : First = f /\ f + (o % 4) = o /\ o % 4 \in Lanes
  BY <1>1, <1>4, Quads DEF First, Lanes
<1> DEFINE l == o % 4
<1>6. /\ wb_dat' = [wb_dat EXCEPT ![l] = Cmd.bytes[9 + o]] /\ wb_sel' = wb_sel \cup {l}
      /\ wb_byte_offset' = o + 1
  BY <1>3, <1>4 DEF WriteData
<1>7. st' \in {"WB_WRITE_DATA", "WB_WRITE_EXEC"}  BY <1>1 DEF WriteData
<1>8. First' = f
  <2>1. CASE st' = "WB_WRITE_EXEC"
    <3>1. First' = 4 * (((o + 1) - 1) \div 4)  BY <1>6, <2>1 DEF First
    <3>2. First = 4 * (o \div 4)  BY <1>1, <1>4 DEF First
    <3> QED  BY <1>5, <3>1, <3>2
  <2>2. CASE st' = "WB_WRITE_DATA"
    <3>1. o % 4 # 3  BY <1>1, <1>4, <2>2 DEF WriteData
    <3>2. First' = 4 * ((o + 1) \div 4)  BY <1>6, <2>2 DEF First
    <3>3. First = 4 * (o \div 4)  BY <1>1, <1>4 DEF First
    <3> QED  BY <1>5, <3>1, <3>2, <3>3, Quads
  <2> QED  BY <1>7, <2>1, <2>2
<1>9. wb_dat \in [Lanes -> Octet]  BY <1>0 DEF Types, BusTypes
<1> HIDE DEF l
<1>10. l \in Lanes /\ l \in Nat /\ f + l = o  BY <1>5 DEF l, Lanes
<1>11. wb_sel' = {i \in Lanes : f + i < o + 1}
  <2>1. ASSUME NEW i \in Lanes PROVE f + i < o + 1 <=> (f + i < o \/ i = l)
    BY <1>10 DEF Lanes
  <2> QED  BY <1>2, <1>4, <1>5, <1>6, <1>10, <2>1
<1>12. ASSUME NEW i \in wb_sel' PROVE wb_dat'[i] = Cmd.bytes[9 + f + i]
  <2>1. i \in Lanes  BY <1>11
  <2>2. CASE i = l
    <3>1. 9 + f + l = 9 + o  BY <1>10
    <3>2. wb_dat'[l] = Cmd.bytes[9 + o]  BY <1>6, <1>9, <1>10
    <3> QED  BY <2>2, <3>1, <3>2
  <2>3. CASE i # l
    <3>1. i \in wb_sel  BY <1>6, <2>3
    <3>2. wb_dat'[i] = wb_dat[i]  BY <1>6, <1>9, <2>1, <2>3
    <3> QED  BY <1>2, <1>5, <3>1, <3>2
  <2> QED  BY <2>2, <2>3
<1>13. Registers'
  <2>1. regs' = WrittenUpto(Cmd', Before', First')  BY <1>2, <1>5, <1>8
  <2>2. wb_sel' = {i \in Lanes : First' + i < wb_byte_offset'}  BY <1>6, <1>8, <1>11
  <2>3. \A i \in wb_sel' : wb_dat'[i] = Cmd'.bytes[9 + First' + i]  BY <1>2, <1>8, <1>12
  <2> QED  BY <1>7, <2>1, <2>2, <2>3 DEF Registers
<1>14. Answered'  BY <1>1, <1>7, NotAnswering
<1> QED  BY <1>13, <1>14

LEMMA WaitRight ==
  ASSUME InStepInv, Registers, Answered, WaitForByte \/ WaitForAck, Fifo,
         NEW ack, ack = FALSE \/ WaitForByte, Slave(ack), NEW ready, Reader(ready)
  PROVE  Registers' /\ Answered'
<1>1. st \in {"GET_HEADER", "GET_ADDR", "GET_LEN", "WB_WRITE_DATA", "WB_WRITE_EXEC",
              "WB_READ_EXEC"}
  BY DEF WaitForByte, WaitForAck, Busy
<1>2. /\ sent' = sent /\ Number' = Number /\ Cmd' = Cmd /\ Base' = Base /\ Before' = Before
      /\ Commands' = Commands
  BY <1>1, SameCommand
<1>3. UNCHANGED <<st, wb_dat, wb_sel, wb_byte_offset, rsp_buf>>
  BY DEF WaitForByte, WaitForAck, busVars, rspVars
<1>4. regs' = regs
  <2>1. ~(ack /\ st = "WB_WRITE_EXEC")  BY DEF WaitForByte
  <2> QED  BY <2>1 DEF Slave
<1>5. First' = First  BY <1>3 DEF First
<1>6. Registers'
  <2>1. CASE st \in {"WB_WRITE_DATA", "WB_WRITE_EXEC"}
    BY <1>2, <1>3, <1>4, <1>5, <2>1 DEF Registers
  <2>2. CASE st \notin {"WB_WRITE_DATA", "WB_WRITE_EXEC"}
    BY <1>1, <1>2, <1>3, <1>4, <2>2 DEF Registers
  <2> QED  BY <2>1, <2>2
<1>7. Answered'  BY <1>1, <1>2, <1>3 DEF Answered
<1> QED  BY <1>6, <1>7

\* A block with a word at which nobody answers.
LEMMA EndUnanswered ==
  ASSUME NEW base \in Nat, NEW f \in Nat, NEW n \in Nat, f % 4 = 0, f < n,
         base + f \notin Answering
  PROVE  ~Answers(base, n)
<1>1. f \in 0 .. n - 1  OBVIOUS
<1>2. Word(base, f) = base + f  BY Quads DEF Word
<1> QED  BY <1>1, <1>2 DEF Answers

LEMMA GiveUpRight ==
  ASSUME InStepInv, Registers, Answered, GiveUp, Fifo, NEW ack, Slave(ack), NEW ready, Reader(ready)
  PROVE  Registers' /\ Answered'
<1>1. Busy /\ Expired /\ st # "RSP_SEND"  BY DEF GiveUp, Busy
<1>2. /\ Types /\ Number <= Len(Commands) /\ op = Cmd.bytes[1]
      /\ wb_adr = Base + First /\ Answers(Base, First) /\ Base \in Nat
      /\ wb_adr \in Answering => wb_timeout_cnt < WB_TIMEOUT_CYCLES
  BY <1>1, BusyFacts
<1>3. wb_adr \notin Answering
  <2>1. wb_timeout_cnt \in Nat /\ WB_TIMEOUT_CYCLES \in Nat
    BY <1>2, PlansAssumption DEF Types, BusTypes
  <2> QED  BY <1>1, <1>2, <2>1 DEF Expired
<1>4. st' = "RSP_SEND" /\ Answer(<<RES_NOT_SUPPORTED>>)  BY DEF GiveUp
<1>5. regs' = regs  BY <1>3 DEF Slave
<1>6. PICK o \in Nat : wb_byte_offset = o  BY <1>2 DEF Types, BusTypes
<1> DEFINE b == <<RES_NOT_SUPPORTED>>
<1>7. b = Expected /\ regs' = Leaves(Cmd, Before)
  <2>1. CASE st = "WB_READ_EXEC"
    <3>1. Reading /\ o % 4 = 0 /\ o < ReadLen(Cmd)  BY <1>6, <2>1 DEF InStepInv, Place
    <3>2. Cmd.bytes[1] = OP_READ_BLOCK /\ Cmd.bytes[1] # OP_WRITE_BLOCK
      BY <1>2, <3>1 DEF Reading, OP_READ_BLOCK, OP_WRITE_BLOCK
    <3>3. PICK n \in Nat : ReadLen(Cmd) = n /\ o < n  BY <1>2, <3>1, <3>2, ReadLenFacts
    <3>4. First = o  BY <1>6, <2>1, <3>1, Quads DEF First
    <3>5. ~Answers(Base, ReadLen(Cmd))  BY <1>2, <1>3, <3>1, <3>3, <3>4, EndUnanswered
    <3>6. Read(Cmd, Before) = b  BY <3>5 DEF Read, Base
    <3>7. regs = Before  BY <2>1 DEF Registers
    <3> QED  BY <1>5, <3>2, <3>6, <3>7 DEF Expected, Response, Leaves
  <2>2. CASE st = "WB_WRITE_EXEC"
    <3>1. Writing /\ o \in 1 .. Written(Cmd)  BY <1>6, <2>2 DEF InStepInv, Place
    <3>2. Cmd.bytes[1] # OP_READ_BLOCK /\ Cmd.bytes[1] = OP_WRITE_BLOCK
      BY <1>2, <3>1 DEF Writing, OP_READ_BLOCK, OP_WRITE_BLOCK
    <3>3. PICK w \in Nat : Written(Cmd) = w /\ 1 <= o /\ o <= w
      BY <1>2, <3>1, <3>2, WrittenFacts
    <3>4. PICK f \in Nat : First = f /\ f % 4 = 0 /\ f < w
      <4>1. First = 4 * ((o - 1) \div 4)  BY <1>6, <2>2 DEF First
      <4>2. PICK q \in Nat : q = o - 1 /\ q < w  BY <3>3
      <4>3. 4 * (q \div 4) \in Nat /\ 4 * (q \div 4) <= q /\ (4 * (q \div 4)) % 4 = 0
        BY <4>2
      <4> QED  BY <4>1, <4>2, <4>3
    <3>5. ~Answers(Base, Written(Cmd))  BY <1>2, <1>3, <3>3, <3>4, EndUnanswered
    <3>6. Expected = b  BY <3>2, <3>5 DEF Expected, Response, Base
    <3>7. Write(Cmd, Before) = WrittenUpto(Cmd, Before, f)
      <4>1. Answers(Base, f) /\ Base + f \notin Answering /\ f <= w  BY <1>2, <1>3, <3>4
      <4>2. Field(Cmd).base = Base  BY DEF Base
      <4> QED  BY <1>2, <3>3, <3>4, <4>1, <4>2, WriteIs, Zenon
    <3>8. regs = WrittenUpto(Cmd, Before, f)  BY <2>2, <3>4 DEF Registers
    <3> QED  BY <1>5, <3>2, <3>6, <3>7, <3>8 DEF Leaves
  <2> QED  BY <1>1, <2>1, <2>2 DEF Busy
<1>8. b \in Seq(Octet) /\ Len(b) \in {1, 3}  BY DEF RES_NOT_SUPPORTED, Octet
<1> HIDE DEF b
<1>9. Answer(b)  BY <1>4 DEF b
<1>10. rsp_len' = Len(b) /\ rsp_idx' = 0 /\ \A i \in 1 .. Len(b) : rsp_buf'[i - 1] = b[i]
  BY <1>2, <1>8, <1>9, AnswerGives
<1> QED  BY <1>1, <1>4, <1>7, <1>8, <1>10, Concludes

LEMMA WriteExecRight ==
  ASSUME InStepInv, Registers, Answered, WriteExec, Fifo, Slave(TRUE), NEW ready, Reader(ready)
  PROVE  Registers' /\ Answered'
<1>1. Busy /\ st = "WB_WRITE_EXEC" /\ wb_adr \in Answering  BY DEF WriteExec, Busy, Slave
<1>2. /\ Types /\ Number <= Len(Commands) /\ op = Cmd.bytes[1]
      /\ len = Field(Cmd).len /\ wb_adr = Base + First /\ Answers(Base, First) /\ Base \in Nat
  BY <1>1, BusyFacts
<1>3. Cmd' = Cmd /\ Before' = Before  BY <1>1, SameCommand
<1>4. PICK o \in Nat : wb_byte_offset = o  BY <1>2 DEF Types, BusTypes
<1>5. /\ Writing /\ o \in 1 .. Written(Cmd) /\ (o % 4 = 0 \/ o = Written(Cmd))
      /\ cmd_was_last => o = Len(Cmd.bytes) - 8
  BY <1>1, <1>4 DEF InStepInv, Place
<1>6. Cmd.bytes[1] # OP_READ_BLOCK /\ Cmd.bytes[1] = OP_WRITE_BLOCK
  BY <1>2, <1>5 DEF Writing, OP_READ_BLOCK, OP_WRITE_BLOCK
<1>7. PICK size, n, w \in Nat :
        /\ Len(Cmd.bytes) = size /\ Field(Cmd).len = n /\ Written(Cmd) = w
        /\ size >= 9 /\ 1 <= w /\ w <= n /\ w <= size - 8
        /\ w = n \/ w = size - 8
  BY <1>2, <1>6, WrittenFacts
<1>8. 1 <= o /\ o <= w  BY <1>5, <1>7
<1>9. PICK f \in Nat : First = f /\ f % 4 = 0 /\ f < o /\ o <= f + 4
  <2>1. First = 4 * ((o - 1) \div 4)  BY <1>1, <1>4 DEF First
  <2>2. PICK q \in Nat : q = o - 1  BY <1>8
  <2>3. /\ 4 * (q \div 4) \in Nat /\ 4 * (q \div 4) <= q /\ (4 * (q \div 4)) % 4 = 0
        /\ q < 4 * (q \div 4) + 4
    OBVIOUS
  <2> QED  BY <1>8, <2>1, <2>2, <2>3
<1>10. regs' = WrittenUpto(Cmd, Before, o)
  <2>1. /\ regs = WrittenUpto(Cmd, Before, f) /\ wb_sel = {i \in Lanes : f + i < o}
        /\ \A i \in wb_sel : wb_dat[i] = Cmd.bytes[9 + f + i]
    BY <1>1, <1>4, <1>9 DEF Registers
  <2>2. regs' = [regs EXCEPT ![wb_adr] =
                   [i \in Lanes |-> IF i \in wb_sel THEN wb_dat[i] ELSE @[i]]]
    BY <1>1 DEF Slave
  <2>3. Field(Cmd).base = Base /\ wb_adr = Base + f  BY <1>2, <1>9 DEF Base
  <2>4. Stored(regs', WrittenUpto(Cmd, Before, f), Field(Cmd).base + f, wb_sel, wb_dat)
    BY <2>1, <2>2, <2>3 DEF Stored
  <2>5. OnLanes(Cmd, f, o, wb_sel, wb_dat)  BY <2>1 DEF OnLanes
  <2>6. Field(Cmd).base \in Nat /\ Field(Cmd).base + f \in Answering  BY <1>1, <1>2, <2>3
  <2>7. f % 4 = 0 /\ f < o /\ o <= f + 4  BY <1>9
  <2> QED  BY <2>4, <2>5, <2>6, <2>7, WordWritten, Zenon
<1>11. CASE wb_byte_offset = len \/ cmd_was_last
  <2> DEFINE b == <<RES_OK>> \o Len16(len)
  <2>1. Answer(b) /\ st' \in {"RSP_SEND", "DISCARD_CMD"}  BY <1>11 DEF WriteExec, Done
  <2>2. o = w  BY <1>2, <1>4, <1>5, <1>7, <1>8, <1>11
  <2>3. Answers(Base, w)
    <3>1. Answers(Base, f + 4)  BY <1>1, <1>2, <1>9, AnswersNext
    <3> QED  BY <1>9, <2>2, <3>1, AnswersFewer
  <2>4. Expected = b  BY <1>2, <1>6, <1>7, <2>3 DEF Expected, Response, Base
  <2>5. regs' = Leaves(Cmd, Before)
    <3>1. Write(Cmd, Before) = WrittenUpto(Cmd, Before, w)
      BY <1>2, <1>7, <2>3, WriteIs DEF Base
    <3> QED  BY <1>6, <1>10, <2>2, <3>1 DEF Leaves
  <2>6. b \in Seq(Octet) /\ Len(b) \in {1, 3}
    <3>1. len \in Half  BY <1>2 DEF Types, HeaderTypes
    <3> QED  BY <3>1, OkTyped
  <2> HIDE DEF b
  <2>7. rsp_len' = Len(b) /\ rsp_idx' = 0 /\ \A i \in 1 .. Len(b) : rsp_buf'[i - 1] = b[i]
    BY <1>2, <2>1, <2>6, AnswerGives
  <2> QED  BY <1>1, <2>1, <2>4, <2>5, <2>6, <2>7, Concludes
<1>12. CASE ~(wb_byte_offset = len \/ cmd_was_last)
  <2>1. st' = "WB_WRITE_DATA" /\ wb_sel' = {} /\ wb_byte_offset' = o
    BY <1>4, <1>12 DEF WriteExec
  <2>2. Writing' /\ Place'  BY <1>5, WriteExecInStep DEF WriteExec, Writing
  <2>3. o < w  BY <1>3, <1>7, <2>1, <2>2 DEF Place
  <2>4. First' = o
    <3>1. First' = 4 * (o \div 4)  BY <2>1 DEF First
    <3> QED  BY <1>5, <1>7, <2>3, <3>1, Quads
  <2>5. {i \in Lanes : o + i < o} = {}  BY DEF Lanes
  <2>6. Registers'  BY <1>3, <1>10, <2>1, <2>4, <2>5 DEF Registers
  <2>7. Answered'  BY <1>1, <2>1, NotAnswering
  <2> QED  BY <2>6, <2>7
<1> QED  BY <1>11, <1>12

LEMMA ConcatOctets ==
  ASSUME NEW s \in Seq(Octet), NEW t \in Seq(Octet)
  PROVE  /\ s \o t \in Seq(Octet) /\ Len(s \o t) = Len(s) + Len(t)
         /\ \A i \in 1 .. Len(s) + Len(t) :
              (s \o t)[i] = IF i <= Len(s) THEN s[i] ELSE t[i - Len(s)]
BY ConcatProperties

\* The response of a read.
LEMMA BlockResponse ==
  ASSUME NEW n \in Nat, 1 <= n, n <= 29, NEW W, W \in [1 .. n -> Octet]
  PROVE  LET b == <<RES_OK>> \o Len16(n) \o W
         IN  /\ b \in Seq(Octet) /\ Len(b) = n + 3
             /\ b[1] = RES_OK /\ b[2] = n \div 256 /\ b[3] = n % 256
             /\ \A k \in 0 .. n - 1 : b[4 + k] = W[k + 1]
<1> DEFINE h == <<RES_OK>> \o Len16(n)
           b == h \o W
<1>1. n \in Half  BY NatIsHalf
<1>2. /\ h \in Seq(Octet) /\ Len(h) = 3
      /\ h[1] = RES_OK /\ h[2] = (n \div 256) % 256 /\ h[3] = n % 256
  BY <1>1, OkTyped
<1>3. (n \div 256) % 256 = n \div 256  OBVIOUS
<1>4. W \in Seq(Octet) /\ Len(W) = n
  BY IsASeq
<1> HIDE DEF h
<1>5. /\ b \in Seq(Octet) /\ Len(b) = Len(h) + Len(W)
      /\ \A i \in 1 .. Len(h) + Len(W) : b[i] = IF i <= Len(h) THEN h[i] ELSE W[i - Len(h)]
  BY <1>2, <1>4, ConcatOctets
<1> HIDE DEF b
<1>6. b[1] = h[1] /\ b[2] = h[2] /\ b[3] = h[3]  BY <1>2, <1>4, <1>5
<1>7. ASSUME NEW k \in 0 .. n - 1 PROVE b[4 + k] = W[k + 1]
  <2>1. 4 + k \in 1 .. 3 + n /\ ~(4 + k <= 3) /\ (4 + k) - 3 = k + 1  OBVIOUS
  <2> QED  BY <1>2, <1>4, <1>5, <2>1
<1>8. Len(b) = n + 3  BY <1>2, <1>4, <1>5
<1> QED  BY <1>2, <1>3, <1>5, <1>6, <1>7, <1>8 DEF b, h

LEMMA ReadIs ==
  ASSUME NEW c, NEW R \in [Answering -> [Lanes -> Octet]], NEW base, NEW n \in Nat,
         Field(c).base = base, ReadLen(c) = n, 1 <= n, n <= 29, Answers(base, n)
  PROVE  /\ Read(c, R) \in Seq(Octet) /\ Len(Read(c, R)) = n + 3
         /\ Read(c, R)[1] = RES_OK /\ Read(c, R)[2] = n \div 256 /\ Read(c, R)[3] = n % 256
         /\ \A k \in 0 .. n - 1 : Read(c, R)[4 + k] = R[Word(base, k)][k % 4]
<1> DEFINE W == [k \in 1 .. n |-> R[Word(base, k - 1)][(k - 1) % 4]]
<1>1. W \in [1 .. n -> Octet]
  <2> SUFFICES ASSUME NEW k \in 1 .. n PROVE R[Word(base, k - 1)][(k - 1) % 4] \in Octet
    OBVIOUS
  <2>1. k - 1 \in 0 .. n - 1 /\ (k - 1) % 4 \in Lanes  BY DEF Lanes
  <2>2. Word(base, k - 1) \in Answering  BY <2>1 DEF Answers
  <2> QED  BY <2>1, <2>2
<1>2. ASSUME NEW k \in 0 .. n - 1 PROVE W[k + 1] = R[Word(base, k)][k % 4]
  <2>1. k + 1 \in 1 .. n /\ (k + 1) - 1 = k  OBVIOUS
  <2>2. W[k + 1] = R[Word(base, (k + 1) - 1)][((k + 1) - 1) % 4]  BY <2>1
  <2> QED  BY <2>1, <2>2
<1>3. Read(c, R) = <<RES_OK>> \o Len16(n) \o W  BY Zenon DEF Read
<1> HIDE DEF W
<1> QED  BY <1>1, <1>2, <1>3, BlockResponse

LEMMA ReadExecRight ==
  ASSUME InStepInv, Registers, Answered, ReadExec(regs[wb_adr]), Fifo, NEW ready, Reader(ready),
         Slave(TRUE)
  PROVE  Registers' /\ Answered'
<1>1. Busy /\ st = "WB_READ_EXEC" /\ wb_adr \in Answering  BY DEF ReadExec, Busy, Slave
<1>2. /\ Types /\ Number <= Len(Commands) /\ op = Cmd.bytes[1]
      /\ len = Field(Cmd).len /\ wb_adr = Base + First /\ Answers(Base, First) /\ Base \in Nat
  BY <1>1, BusyFacts
<1>3. /\ Cmd' = Cmd /\ Base' = Base /\ Before' = Before /\ regs = Before /\ regs' = regs
      /\ sent' = sent /\ sent = <<>>
  BY <1>1, SameCommand, SameRegs DEF Registers, Answered
<1>4. PICK o \in Nat : wb_byte_offset = o  BY <1>2 DEF Types, BusTypes
<1>5. Reading /\ o % 4 = 0 /\ o < ReadLen(Cmd)  BY <1>1, <1>4 DEF InStepInv, Place
<1>6. Cmd.bytes[1] = OP_READ_BLOCK /\ Cmd.bytes[1] # OP_WRITE_BLOCK
  BY <1>2, <1>5 DEF Reading, OP_READ_BLOCK, OP_WRITE_BLOCK
<1>7. PICK n \in Nat : ReadLen(Cmd) = n /\ 1 <= n /\ n <= 29 /\ o < n
  <2>1. PICK n \in 1 .. READ_MAX : ReadLen(Cmd) = n  BY <1>2, <1>6, ReadLenFacts
  <2>2. n \in Nat /\ 1 <= n /\ n <= 29 /\ o < n  BY <1>5, <2>1 DEF READ_MAX
  <2> QED  BY <2>1, <2>2
<1>8. First = o  BY <1>1, <1>4, <1>5, Quads DEF First
<1>9. wb_adr = Base + o /\ Before \in [Answering -> [Lanes -> Octet]]
  BY <1>2, <1>3, <1>8 DEF Types, BusTypes
<1>10. rsp_buf \in [0 .. 31 -> Octet]  BY <1>2 DEF Types, AnswerTypes
<1> DEFINE got == o + 4
           body == [i \in 0 .. 31 |-> IF i \in o + 3 .. o + 6
                                      THEN regs[wb_adr][i - o - 3] ELSE rsp_buf[i]]
<1>11. ASSUME NEW k \in 0 .. got - 1, k < 29
       PROVE  3 + k \in 0 .. 31 /\ body[3 + k] = Before[Word(Base, k)][k % 4]
  <2>1. 3 + k \in 0 .. 31  BY <1>7, <1>11
  <2>2. CASE k < o
    <3>1. k \in 0 .. wb_byte_offset - 1 /\ k < READ_MAX  BY <1>4, <1>11, <2>2 DEF READ_MAX
    <3>2. rsp_buf[3 + k] = Before[Word(Base, k)][k % 4]  BY <1>1, <3>1 DEF Answered
    <3>3. 3 + k \notin o + 3 .. o + 6  BY <2>2
    <3> QED  BY <2>1, <3>2, <3>3
  <2>3. CASE ~(k < o)
    <3>1. 4 * (k \div 4) = o /\ k % 4 = k - o  BY <1>5, <2>3, QuadOf
    <3>2. 3 + k \in o + 3 .. o + 6 /\ (3 + k) - o - 3 = k - o  BY <2>3
    <3>3. body[3 + k] = regs[wb_adr][k - o]  BY <2>1, <3>2
    <3>4. Word(Base, k) = wb_adr  BY <1>9, <3>1 DEF Word
    <3> QED  BY <1>3, <2>1, <3>1, <3>3, <3>4
  <2> QED  BY <2>2, <2>3
<1>12. PICK l \in Nat : len = l  BY <1>2, HalfIsNat DEF Types, HeaderTypes
<1>13. n = IF l = 0 THEN 4 ELSE IF l > 29 THEN 29 ELSE l
  BY <1>2, <1>7, <1>12 DEF ReadLen, READ_MAX
<1>14. IF got >= len \/ got >= READ_MAX
         THEN /\ rsp_buf' = [body EXCEPT ![0] = RES_OK, ![1] = Actual(got) \div 256,
                                        ![2] = Actual(got) % 256]
              /\ rsp_len' = Actual(got) + 3 /\ rsp_idx' = 0 /\ Done
         ELSE rsp_buf' = body /\ UNCHANGED st
  <2> DEFINE g == wb_byte_offset + 4
             w == [i \in 0 .. 31 |-> IF i \in wb_byte_offset + 3 .. wb_byte_offset + 6
                                     THEN regs[wb_adr][i - wb_byte_offset - 3]
                                     ELSE rsp_buf[i]]
  <2>1. g = got /\ w = body  BY <1>4
  <2>2. IF g >= len \/ g >= READ_MAX
          THEN /\ rsp_buf' = [w EXCEPT ![0] = RES_OK, ![1] = Actual(g) \div 256,
                                       ![2] = Actual(g) % 256]
               /\ rsp_len' = Actual(g) + 3 /\ rsp_idx' = 0
               /\ Done /\ UNCHANGED wb_adr
          ELSE /\ rsp_buf' = w /\ wb_adr' = wb_adr + 4
               /\ UNCHANGED <<st, rsp_len, rsp_idx>>
    BY Zenon DEF ReadExec
  <2> HIDE DEF g, w, got, body
  <2>3. CASE g >= len \/ g >= READ_MAX  BY <2>1, <2>2, <2>3, Zenon
  <2>4. CASE ~(g >= len \/ g >= READ_MAX)  BY <2>1, <2>2, <2>4, Zenon
  <2> QED  BY <2>3, <2>4
<1>15. CASE got >= len \/ got >= READ_MAX
  <2>1. Actual(got) = n
    <3>1. got >= l \/ got >= 29  BY <1>12, <1>15 DEF READ_MAX
    <3>2. Actual(got) = IF got >= 29 THEN 29 ELSE IF l > 0 THEN l ELSE 4
      BY <1>12 DEF Actual, READ_MAX
    <3> QED  BY <1>5, <1>7, <1>13, <3>1, <3>2
  <2>2. n <= got
    <3>1. got >= l \/ got >= 29  BY <1>12, <1>15 DEF READ_MAX
    <3> QED  BY <1>13, <3>1
  <2>3. /\ rsp_buf' = [body EXCEPT ![0] = RES_OK, ![1] = n \div 256, ![2] = n % 256]
        /\ rsp_len' = n + 3 /\ rsp_idx' = 0 /\ Done
    <3>1. /\ rsp_buf' = [body EXCEPT ![0] = RES_OK, ![1] = Actual(got) \div 256,
                                     ![2] = Actual(got) % 256]
          /\ rsp_len' = Actual(got) + 3 /\ rsp_idx' = 0 /\ Done
      BY <1>14, <1>15, Zenon
    <3> HIDE DEF body
    <3> QED  BY <2>1, <3>1
  <2>4. st' \in {"RSP_SEND", "DISCARD_CMD"}  BY <2>3 DEF Done
  <2>5. Answers(Base, n)
    <3>1. Answers(Base, got)  BY <1>1, <1>2, <1>5, <1>8, <1>9, AnswersNext
    <3> QED  BY <2>2, <3>1, AnswersFewer
  <2> DEFINE b == Read(Cmd, Before)
  <2>6. /\ b \in Seq(Octet) /\ Len(b) = n + 3
        /\ b[1] = RES_OK /\ b[2] = n \div 256 /\ b[3] = n % 256
        /\ \A k \in 0 .. n - 1 : b[4 + k] = Before[Word(Base, k)][k % 4]
    <3>1. Field(Cmd).base = Base  BY DEF Base
    <3>2. Before \in [Answering -> [Lanes -> Octet]]  BY <1>9
    <3>3. ReadLen(Cmd) = n /\ 1 <= n /\ n <= 29  BY <1>7
    <3> HIDE DEF body
    <3> QED  BY <2>5, <3>1, <3>2, <3>3, ReadIs
  <2>7. b = Expected /\ regs' = Leaves(Cmd, Before)
    BY <1>3, <1>6 DEF Expected, Response, Leaves
  <2>8. body = [i \in 0 .. 31 |-> body[i]]  OBVIOUS
  <2> HIDE DEF b, body
  <2>9. /\ rsp_buf'[0] = RES_OK /\ rsp_buf'[1] = n \div 256 /\ rsp_buf'[2] = n % 256
        /\ \A i \in 3 .. 31 : rsp_buf'[i] = body[i]
    BY <2>3, <2>8
  <2>10. ASSUME NEW i \in 1 .. Len(b) PROVE rsp_buf'[i - 1] = b[i]
    <3>0. i \in 1 .. n + 3  BY <2>6
    <3>5. 1 - 1 = 0 /\ 2 - 1 = 1 /\ 3 - 1 = 2  OBVIOUS
    <3>1. CASE i = 1  BY <2>6, <2>9, <3>5, <3>1, Zenon
    <3>2. CASE i = 2  BY <2>6, <2>9, <3>5, <3>2, Zenon
    <3>3. CASE i = 3  BY <2>6, <2>9, <3>5, <3>3, Zenon
    <3>4. CASE i > 3
      <4>1. PICK k \in 0 .. n - 1 : i = 4 + k /\ i - 1 = 3 + k /\ k < 29 /\ k \in 0 .. got - 1
        <5>1. i - 4 \in 0 .. n - 1 /\ i = 4 + (i - 4) /\ i - 1 = 3 + (i - 4) /\ i - 4 < 29
              /\ i - 4 \in 0 .. got - 1
          BY <1>7, <2>2, <3>0, <3>4
        <5> QED  BY <5>1
      <4>2. 3 + k \in 3 .. 31  BY <1>7
      <4>3. rsp_buf'[3 + k] = body[3 + k]  BY <2>9, <4>2
      <4> QED  BY <1>11, <2>6, <4>1, <4>3
    <3> QED  BY <3>0, <3>1, <3>2, <3>3, <3>4
  <2>11. rsp_len' = Len(b) /\ rsp_idx' = 0  BY <2>3, <2>6
  <2>12. b \in Seq(Octet)  BY <2>6
  <2> QED  BY <1>1, <2>4, <2>7, <2>10, <2>11, <2>12, Concludes
<1>16. CASE ~(got >= len \/ got >= READ_MAX)
  <2>1. /\ st' = "WB_READ_EXEC" /\ rsp_buf' = body /\ wb_byte_offset' = got
    <3>1. UNCHANGED st /\ rsp_buf' = body  BY <1>14, <1>16, Zenon
    <3>2. wb_byte_offset' = got  BY <1>4 DEF ReadExec
    <3> QED  BY <1>1, <3>1, <3>2
  <2>2. Registers'  BY <1>3, <2>1 DEF Registers
  <2>3. \A k \in 0 .. got - 1 : k < READ_MAX => body[3 + k] = Before[Word(Base, k)][k % 4]
    BY <1>11 DEF READ_MAX
  <2> HIDE DEF got, body
  <2>4. Answered'  BY <1>3, <2>1, <2>3 DEF Answered
  <2> QED  BY <2>2, <2>4
<1> QED  BY <1>15, <1>16

LEMMA DiscardCmdRight ==
  ASSUME InStepInv, Registers, Answered, DiscardCmd, Fifo, NEW ack, Slave(ack),
         NEW ready, Reader(ready)
  PROVE  Registers' /\ Answered'
<1>1. st = "DISCARD_CMD" /\ st' \in {"DISCARD_CMD", "RSP_SEND"}  BY DEF DiscardCmd
<1>2. /\ sent' = sent /\ Number' = Number /\ Cmd' = Cmd /\ Before' = Before
      /\ Commands' = Commands /\ regs' = regs
  BY <1>1, SameCommand, SameRegs
<1>3. UNCHANGED <<rsp_buf, rsp_len, rsp_idx>>  BY DEF DiscardCmd, rspVars
<1>4. sent = <<>> /\ InBuffer /\ rsp_idx = 0  BY <1>1 DEF Answered
<1>5. InBuffer' /\ Expected' = Expected  BY <1>2, <1>3, <1>4 DEF InBuffer, Expected
<1>6. Len(sent') = rsp_idx' /\ \A i \in 1 .. rsp_idx' : sent'[i] = Expected'[i]
  BY <1>2, <1>3, <1>4
<1>7. Answered'  BY <1>1, <1>2, <1>3, <1>4, <1>5, <1>6 DEF Answered
<1>8. Registers'  BY <1>1, <1>2 DEF Registers
<1> QED  BY <1>7, <1>8

\* A byte more of the response is sent.
LEMMA OneMore ==
  ASSUME NEW s \in Seq(Octet), NEW e \in Seq(Octet), NEW n \in Nat, Len(s) = n, n < Len(e),
         \A i \in 1 .. n : s[i] = e[i], NEW x, x = e[n + 1]
  PROVE  /\ Len(Append(s, x)) = n + 1 /\ \A i \in 1 .. n + 1 : Append(s, x)[i] = e[i]
         /\ n + 1 = Len(e) => Append(s, x) = e
<1>1. PICK m \in Nat : Len(e) = m  BY LenProperties
<1>2. x \in Octet
  <2>1. n + 1 \in 1 .. Len(e)  BY <1>1
  <2> QED  BY <2>1, ElementOfSeq
<1> DEFINE a == Append(s, x)
<1>3. /\ a \in Seq(Octet) /\ Len(a) = Len(s) + 1
      /\ \A i \in 1 .. Len(s) : a[i] = s[i]
      /\ a[Len(s) + 1] = x
  BY <1>2, AppendOctet, Zenon
<1> HIDE DEF a
<1>4. \A i \in 1 .. n + 1 : a[i] = e[i]
  <2> SUFFICES ASSUME NEW i \in 1 .. n + 1 PROVE a[i] = e[i]  OBVIOUS
  <2>1. CASE i = n + 1  BY <1>3, <2>1
  <2>2. CASE i # n + 1
    <3>1. i \in 1 .. n  BY <2>2
    <3> QED  BY <1>3, <3>1
  <2> QED  BY <2>1, <2>2
<1>5. ASSUME n + 1 = Len(e) PROVE a = e
  <2>1. Len(a) = Len(e)  BY <1>3, <1>5
  <2>2. \A i \in 1 .. Len(a) : a[i] = e[i]  BY <1>3, <1>4
  <2> QED  BY <1>3, <2>1, <2>2, SeqEqual
<1> QED  BY <1>3, <1>4, <1>5 DEF a

LEMMA RspSendRight ==
  ASSUME IInv, Fifo, NEW ack, Slave(ack), NEW ready, RspSend(ready), Reader(ready)
  PROVE  Registers' /\ Answered' /\ ResponsesAreRight'
<1>0. InStepInv /\ Registers /\ Answered /\ ResponsesAreRight  BY DEF IInv
<1>1. st = "RSP_SEND" /\ rsp_idx < rsp_len /\ UNCHANGED <<rsp_buf, rsp_len>>
  BY <1>0, Sending
<1>2. tid_latched = Cmd.tid  BY <1>0, <1>1 DEF InStepInv, Place
<1>3. Commands' = Commands  BY DEF Fifo, Commands
<1>4. regs' = regs /\ regs = After(Commands)[Number]  BY <1>0, <1>1, SameRegs DEF Registers
<1>5. /\ Expected \in Seq(Octet) /\ rsp_len = Len(Expected)
      /\ \A i \in 1 .. rsp_len : rsp_buf[i - 1] = Expected[i]
      /\ Len(sent) = rsp_idx /\ \A i \in 1 .. rsp_idx : sent[i] = Expected[i]
  BY <1>0, <1>1 DEF Answered, InBuffer
<1>6. /\ sent \in Seq(Octet) /\ responses \in Seq([bytes : Seq(Octet), tid : {0, 1}])
      /\ Len(responses) \in Nat
  BY <1>0, LenProperties DEF InStepInv, Types, AnswerTypes
<1>7. PICK n \in Nat : rsp_idx = n  BY <1>0 DEF InStepInv, Types, AnswerTypes
<1>8. PICK m \in Nat : rsp_len = m  BY <1>0 DEF InStepInv, Types, AnswerTypes
<1>9. rsp_buf[n] = Expected[n + 1]
  <2>1. n + 1 \in 1 .. rsp_len /\ (n + 1) - 1 = n  BY <1>1, <1>7, <1>8
  <2>2. rsp_buf[(n + 1) - 1] = Expected[n + 1]  BY <1>5, <2>1
  <2> QED  BY <2>1, <2>2
<1> DEFINE x == rsp_buf[rsp_idx]
           b == Append(sent, x)
<1>10. /\ Len(b) = n + 1 /\ \A i \in 1 .. n + 1 : b[i] = Expected[i]
       /\ n + 1 = Len(Expected) => b = Expected
  BY <1>1, <1>5, <1>6, <1>7, <1>9, OneMore
<1> HIDE DEF x, b
<1>11. CASE ready /\ m_rsp_tlast
  <2>1. /\ st' = "IDLE" /\ sent' = <<>> /\ Len(responses') = Len(responses) + 1
        /\ responses' = Append(responses, [bytes |-> b, tid |-> tid_latched])
    BY <1>0, <1>11, Sending DEF b, x
  <2>2. b = Expected  BY <1>5, <1>7, <1>10, <1>11 DEF m_rsp_tlast
  <2>3. Answered'  BY <2>1 DEF Answered
  <2>4. Registers'
    <3>1. Number' - 1 = Number  BY <1>6, <2>1 DEF Number
    <3>2. regs' = Before'  BY <1>3, <1>4, <3>1 DEF Before
    <3> QED  BY <2>1, <3>2 DEF Registers
  <2>5. ResponsesAreRight'
    <3> DEFINE r == [bytes |-> Expected, tid |-> Cmd.tid]
    <3>1. responses' = Append(responses, r)  BY <1>2, <2>1, <2>2
    <3>2. r = [bytes |-> Response(Commands[Number], After(Commands)[Number - 1]),
               tid |-> Commands[Number].tid]
      BY DEF Expected, Cmd, Before
    <3>3. r \in [bytes : Seq(Octet), tid : {0, 1}]
      <4>1. tid_latched \in {0, 1}  BY <1>0 DEF InStepInv, Types, HeaderTypes
      <4> QED  BY <1>2, <1>5, <4>1
    <3> HIDE DEF r
    <3>4. /\ \A j \in 1 .. Len(responses) : responses'[j] = responses[j]
          /\ responses'[Len(responses) + 1] = r
      BY <1>6, <3>1, <3>3, AppendProperties
    <3> SUFFICES ASSUME NEW k \in 1 .. Len(responses')
                 PROVE  responses'[k] = [bytes |-> Response(Commands[k], After(Commands)[k - 1]),
                                         tid |-> Commands[k].tid]
      BY <1>3 DEF ResponsesAreRight
    <3>5. CASE k = Number  BY <3>2, <3>4, <3>5 DEF Number
    <3>6. CASE k # Number
      <4>1. k \in 1 .. Len(responses)  BY <1>6, <2>1, <3>6 DEF Number
      <4> QED  BY <1>0, <3>4, <4>1 DEF ResponsesAreRight
    <3> QED  BY <3>5, <3>6
  <2> QED  BY <2>3, <2>4, <2>5
<1>12. CASE ~(ready /\ m_rsp_tlast)
  <2>1. /\ st' = "RSP_SEND" /\ responses' = responses
        /\ IF ready THEN rsp_idx' = rsp_idx + 1 /\ sent' = b
                    ELSE rsp_idx' = rsp_idx /\ sent' = sent
    <3>1. st' = "RSP_SEND" /\ responses' = responses  BY <1>0, <1>12, Sending, Zenon
    <3>2. CASE ready
      <4>1. rsp_idx' = rsp_idx + 1 /\ sent' = Append(sent, rsp_buf[rsp_idx])
        BY <1>0, <1>12, <3>2, Sending, Zenon
      <4> QED  BY <3>1, <3>2, <4>1 DEF b, x
    <3>3. CASE ~ready
      <4>1. rsp_idx' = rsp_idx /\ sent' = sent  BY <3>3 DEF RspSend, Reader
      <4> QED  BY <3>1, <3>3, <4>1
    <3> QED  BY <3>2, <3>3
  <2>2. Number' = Number  BY <2>1 DEF Number
  <2>3. Cmd' = Cmd /\ Before' = Before  BY <1>3, <2>2 DEF Cmd, Before
  <2>4. Expected' = Expected  BY <2>3 DEF Expected
  <2>5. InBuffer'  BY <1>1, <1>5, <2>4 DEF InBuffer
  <2>6. Len(sent') = rsp_idx' /\ \A i \in 1 .. rsp_idx' : sent'[i] = Expected[i]
    BY <1>5, <1>7, <1>10, <2>1
  <2>7. Answered'  BY <2>1, <2>4, <2>5, <2>6 DEF Answered
  <2>8. Registers'  BY <1>3, <1>4, <2>1, <2>2 DEF Registers
  <2>9. ResponsesAreRight'  BY <1>0, <1>3, <2>1 DEF ResponsesAreRight
  <2> QED  BY <2>7, <2>8, <2>9
<1> QED  BY <1>11, <1>12

LEMMA EdgeRight ==
  ASSUME IInv, NEW ack \in BOOLEAN, NEW ready \in BOOLEAN, Edge(ack, ready)
  PROVE  IInv'
<1>1. Master(ack, ready) /\ Fifo /\ Slave(ack) /\ Reader(ready)  BY DEF Edge
<1>2. InStepInv /\ Registers /\ Answered /\ ResponsesAreRight  BY DEF IInv
<1>3. InStepInv'  BY <1>2, EdgeInStep
<1>4. ASSUME st # "RSP_SEND" PROVE ResponsesAreRight'
  <2>1. responses' = responses /\ Commands' = Commands  BY <1>1, <1>4, SameCommand
  <2> QED  BY <1>2, <2>1 DEF ResponsesAreRight
<1>5. CASE RspSend(ready)  BY <1>1, <1>3, <1>5, RspSendRight DEF IInv
<1>6. ASSUME ~RspSend(ready) PROVE st # "RSP_SEND" /\ Registers' /\ Answered'
  <2>1. CASE Idle  BY <1>1, <1>2, <2>1, IdleRight DEF Idle
  <2>2. CASE GetHeader  BY <1>1, <1>2, <2>2, GetHeaderRight DEF GetHeader
  <2>3. CASE GetAddr  BY <1>1, <1>2, <2>3, GetAddrRight DEF GetAddr
  <2>4. CASE GetLen  BY <1>1, <1>2, <2>4, GetLenRight DEF GetLen
  <2>5. CASE WriteData  BY <1>1, <1>2, <2>5, WriteDataRight DEF WriteData
  <2>6. CASE WaitForByte
    <3>1. st # "RSP_SEND"  BY <2>6 DEF WaitForByte
    <3> QED  BY <1>1, <1>2, <2>6, <3>1, WaitRight
  <2>7. CASE GiveUp
    <3>1. st # "RSP_SEND"  BY <2>7 DEF GiveUp, Busy
    <3> QED  BY <1>1, <1>2, <2>7, <3>1, GiveUpRight
  <2>8. CASE ~ack /\ WaitForAck
    <3>1. st # "RSP_SEND" /\ ack = FALSE  BY <2>8 DEF WaitForAck, Busy
    <3> QED  BY <1>1, <1>2, <2>8, <3>1, WaitRight
  <2>9. CASE ack /\ WriteExec
    <3>1. ack = TRUE /\ st # "RSP_SEND"  BY <2>9 DEF WriteExec
    <3>2. Slave(TRUE)  BY <1>1, <3>1
    <3> QED  BY <1>1, <1>2, <2>9, <3>1, <3>2, WriteExecRight
  <2>10. CASE ack /\ wb_adr \in Answering /\ ReadExec(regs[wb_adr])
    <3>1. ack = TRUE /\ st # "RSP_SEND"  BY <2>10 DEF ReadExec
    <3>2. Slave(TRUE)  BY <1>1, <3>1
    <3> QED  BY <1>1, <1>2, <2>10, <3>1, <3>2, ReadExecRight
  <2>11. CASE DiscardCmd  BY <1>1, <1>2, <2>11, DiscardCmdRight DEF DiscardCmd
  <2> QED
    BY <1>1, <1>6, <2>1, <2>2, <2>3, <2>4, <2>5, <2>6, <2>7, <2>8, <2>9, <2>10, <2>11
       DEF Master
<1> QED  BY <1>3, <1>4, <1>5, <1>6 DEF IInv

LEMMA InitRight == Init => IInv
<1> SUFFICES ASSUME Init PROVE IInv  OBVIOUS
<1>1. st = "IDLE" /\ responses = <<>> /\ sent = <<>> /\ regs = InitialRegs  BY DEF Init
<1>2. Number = 1  BY <1>1 DEF Number
<1>3. Registers  BY <1>1, <1>2, AfterStep DEF Registers, Before
<1>4. Answered  BY <1>1 DEF Answered
<1>5. ResponsesAreRight  BY <1>1 DEF ResponsesAreRight
<1> QED  BY <1>3, <1>4, <1>5, InitInStep DEF IInv

LEMMA NextRight == IInv /\ [Next]_vars => IInv'
<1> SUFFICES ASSUME IInv, [Next]_vars PROVE IInv'  OBVIOUS
<1>1. CASE Next  BY <1>1, EdgeRight DEF Next
<1>2. CASE UNCHANGED vars
  <2>1. UNCHANGED <<plan, responses, sent, regs, st, rsp_buf, rsp_len, rsp_idx, wb_dat, wb_sel,
                    wb_byte_offset>>
    BY <1>2 DEF vars, rspVars, busVars, fifoVars
  <2>2. Commands' = Commands /\ Number' = Number /\ First' = First
    BY <2>1 DEF Commands, Number, First
  <2>3. Cmd' = Cmd /\ Before' = Before  BY <2>2 DEF Cmd, Before
  <2>4. Base' = Base /\ Expected' = Expected  BY <2>3 DEF Base, Expected
  <2>5. InStepInv'  BY <1>2, NextInStep DEF IInv
  <2>6. Registers'  BY <2>1, <2>2, <2>3 DEF IInv, Registers
  <2>7. InBuffer' <=> InBuffer  BY <2>1, <2>4 DEF InBuffer
  <2>8. Answered'  BY <2>1, <2>3, <2>4, <2>7 DEF IInv, Answered
  <2>9. ResponsesAreRight'  BY <2>1, <2>2 DEF IInv, ResponsesAreRight
  <2> QED  BY <2>5, <2>6, <2>8, <2>9 DEF IInv
<1> QED  BY <1>1, <1>2

\* Every response is the one its command asks for, from the registers as the commands before it
\* have left them, and it carries the port its command came from: whatever the lengths, the
\* words nobody answers for, and the pace of the FIFO, the slaves and the reader.
THEOREM ResponsesRight == Spec => []ResponsesAreRight
<1>1. IInv => ResponsesAreRight  BY DEF IInv
<1> QED  BY <1>1, InitRight, NextRight, PTL DEF Spec

\* Between commands the registers are what the commands answered so far make of them: a write
\* has put every byte of its block where it belongs, up to the first word nobody answers for,
\* and a read nothing.
THEOREM RegistersRight == Spec => []RegistersAreRight
<1>1. ASSUME IInv PROVE RegistersAreRight
  <2> SUFFICES ASSUME st = "IDLE" PROVE regs = After(Commands)[Len(responses)]
    BY DEF RegistersAreRight
  <2>1. Len(responses) \in Nat
    BY <1>1, LenProperties DEF IInv, InStepInv, Types, AnswerTypes
  <2>2. Number - 1 = Len(responses)  BY <2>1 DEF Number
  <2> QED  BY <1>1, <2>2 DEF IInv, Registers, Before
<1> QED  BY <1>1, InitRight, NextRight, PTL DEF Spec

================================================================================

--------------------------- MODULE FcspWishboneMaster ---------------------------
(***************************************************************************)
(* fcsp_wishbone_master: takes the payloads of CONTROL frames byte by byte *)
(* from the receive FIFO, carries the operations out on the Wishbone bus   *)
(* and answers each with a response.                                       *)
(*                                                                         *)
(* An action is one clock edge.  In front stands the FIFO with the         *)
(* payloads of a sequence of commands, behind it the registers on the bus  *)
(* and the reader of the responses.  A word is four bytes, the first the   *)
(* most significant; a byte enable is a lane 0 .. 3 in that order.  The     *)
(* debug stream, tied off, and o_wb_timeout are left out.                  *)
(***************************************************************************)
EXTENDS Naturals, Sequences

CONSTANTS
  Byte,
  Plans,               \* [cmds, gaps]: a sequence of commands [bytes, tid];
                       \* gaps: TRUE when the FIFO may run empty inside a command
  WB_TIMEOUT_CYCLES,
  Answering            \* word addresses at which a slave gives an acknowledge

OP_PING == 6
OP_READ_BLOCK == 16
OP_WRITE_BLOCK == 17
OP_GET_CAPS == 18
OP_HELLO == 19
RES_OK == 0
RES_NOT_SUPPORTED == 4
READ_MAX == 29                      \* bytes a response has room for
Lanes == 0 .. 3
Zeros == [i \in Lanes |-> 0]

VARIABLES
  st, op, addr, len, byte_idx,      \* op_is_write is op = OP_WRITE_BLOCK
  rsp_buf, rsp_len, rsp_idx,
  wb_adr, wb_dat, wb_sel, wb_byte_offset, wb_timeout_cnt,
  cmd_was_last, tid_latched,
  plan, cmd_no, cmd_pos, s_cmd_tvalid,  \* FIFO: the next byte to be taken
  regs,                                 \* registers: word address -> word
  sent, responses                       \* response being read, responses read

hdrVars == <<op, addr, len, byte_idx, tid_latched>>
rspVars == <<rsp_buf, rsp_len, rsp_idx>>
busVars == <<wb_adr, wb_dat, wb_sel, wb_byte_offset, wb_timeout_cnt>>
fifoVars == <<plan, cmd_no, cmd_pos, s_cmd_tvalid>>
vars == <<st, hdrVars, rspVars, busVars, cmd_was_last, fifoVars, regs, sent, responses>>

States == {"IDLE", "GET_HEADER", "GET_ADDR", "GET_LEN", "WB_WRITE_DATA", "WB_WRITE_EXEC",
           "WB_READ_EXEC", "RSP_SEND", "DISCARD_CMD"}

Commands    == plan.cmds
s_cmd_tdata == Commands[cmd_no].bytes[cmd_pos]
s_cmd_tlast == cmd_pos = Len(Commands[cmd_no].bytes)
s_tid       == Commands[cmd_no].tid
s_cmd_tready ==
  \/ st \in {"IDLE", "GET_HEADER", "GET_ADDR", "GET_LEN", "DISCARD_CMD"}
  \/ st = "WB_WRITE_DATA" /\ byte_idx = 0
m_rsp_tvalid == st = "RSP_SEND" /\ rsp_idx < rsp_len
m_rsp_tlast  == rsp_idx + 1 = rsp_len
Busy         == st \in {"WB_WRITE_EXEC", "WB_READ_EXEC"}    \* wb_cyc_o, wb_stb_o

\* A response that goes on where the one before stopped.
Answer_KeepIdx(bytes) ==
  /\ rsp_buf' = [i \in 0 .. 31 |-> IF i < Len(bytes) THEN bytes[i + 1] ELSE rsp_buf[i]]
  /\ rsp_len' = Len(bytes) /\ UNCHANGED rsp_idx

\* rsp_buf from its start on.
Answer(bytes) ==
  /\ rsp_buf' = [i \in 0 .. 31 |-> IF i < Len(bytes) THEN bytes[i + 1] ELSE rsp_buf[i]]
  /\ rsp_len' = Len(bytes) /\ rsp_idx' = 0
Simple(o) == IF o \in {OP_PING, OP_HELLO, OP_GET_CAPS} THEN <<RES_OK>>
             ELSE <<RES_NOT_SUPPORTED>>
AddrOf(a) == a[1] * 16777216 + a[2] * 65536 + a[3] * 256 + a[4]

--------------------------------------------------------------------------------
\* ST_IDLE: the operation; a command of one byte is answered at once.
Idle ==
  /\ st = "IDLE"
  /\ wb_timeout_cnt' = 0
  /\ IF s_cmd_tvalid
       THEN /\ op' = s_cmd_tdata /\ tid_latched' = s_tid
            /\ addr' = <<0, 0, 0, 0>> /\ len' = 0
            /\ IF s_cmd_tlast
                 THEN st' = "RSP_SEND" /\ Answer(Simple(s_cmd_tdata)) /\ UNCHANGED byte_idx
                 ELSE st' = "GET_HEADER" /\ byte_idx' = 0 /\ UNCHANGED rspVars
       ELSE UNCHANGED <<st, hdrVars, rspVars>>
  /\ UNCHANGED <<wb_adr, wb_dat, wb_sel, wb_byte_offset, cmd_was_last>>

\* ST_GET_HEADER: the space byte, which is not used, or the first byte of a payload
\* the operation has no use for.
GetHeader ==
  /\ st = "GET_HEADER" /\ s_cmd_tvalid
  /\ IF op \in {OP_WRITE_BLOCK, OP_READ_BLOCK}
       THEN /\ st' = IF s_cmd_tlast THEN "DISCARD_CMD" ELSE "GET_ADDR"
            /\ byte_idx' = 0
            /\ UNCHANGED rspVars
       ELSE /\ st' = IF s_cmd_tlast THEN "RSP_SEND" ELSE "DISCARD_CMD"
            /\ Answer(Simple(op))
            /\ UNCHANGED byte_idx
  /\ UNCHANGED <<op, addr, len, tid_latched, busVars, cmd_was_last>>

\* ST_GET_ADDR: four bytes.
GetAddr ==
  /\ st = "GET_ADDR" /\ s_cmd_tvalid
  /\ addr' = Append(Tail(addr), s_cmd_tdata)
  /\ byte_idx' = (byte_idx + 1) % 4
  /\ st' = IF s_cmd_tlast THEN "DISCARD_CMD"
           ELSE IF byte_idx = 3 THEN "GET_LEN" ELSE "GET_ADDR"
  /\ UNCHANGED <<op, len, tid_latched, rspVars, busVars, cmd_was_last>>

\* ST_GET_LEN: two bytes.  Whether the command ends here is remembered for a read
\* only; a command that ends with the first of them is dropped.
GetLen ==
  /\ st = "GET_LEN" /\ s_cmd_tvalid
  /\ len' = (len % 256) * 256 + s_cmd_tdata
  /\ IF byte_idx = 1
       THEN /\ wb_adr' = AddrOf(addr) /\ wb_byte_offset' = 0 /\ wb_timeout_cnt' = 0
            /\ IF op = OP_WRITE_BLOCK
                 THEN /\ st' = "WB_WRITE_DATA" /\ byte_idx' = 0
                      /\ wb_dat' = Zeros /\ wb_sel' = {}
                      /\ UNCHANGED cmd_was_last
                 ELSE /\ st' = "WB_READ_EXEC" /\ byte_idx' = 2
                      /\ cmd_was_last' = s_cmd_tlast
                      /\ UNCHANGED <<wb_dat, wb_sel>>
       ELSE /\ st' = IF s_cmd_tlast THEN "IDLE" ELSE "GET_LEN"
            /\ byte_idx' = byte_idx + 1
            /\ UNCHANGED <<busVars, cmd_was_last>>
  /\ UNCHANGED <<op, addr, tid_latched, rspVars>>

\* ST_WB_WRITE_DATA: a byte goes into its lane; the word is written when it is full,
\* the length is reached or the command ends.
WriteData ==
  LET lane == wb_byte_offset % 4 IN
  /\ st = "WB_WRITE_DATA" /\ s_cmd_tvalid
  /\ wb_dat' = [wb_dat EXCEPT ![lane] = s_cmd_tdata]
  /\ wb_sel' = wb_sel \cup {lane}
  /\ wb_byte_offset' = wb_byte_offset + 1
  /\ IF lane = 3 \/ wb_byte_offset + 1 = len \/ s_cmd_tlast
       THEN st' = "WB_WRITE_EXEC" /\ cmd_was_last' = s_cmd_tlast
       ELSE UNCHANGED <<st, cmd_was_last>>
  /\ UNCHANGED <<hdrVars, rspVars, wb_adr, wb_timeout_cnt>>

\* No acknowledge in WB_TIMEOUT_CYCLES: the command is answered with an error, and
\* what is left of it stays in the FIFO.
Expired == wb_timeout_cnt >= WB_TIMEOUT_CYCLES
GiveUp ==
  /\ Busy /\ Expired
  /\ Answer(<<RES_NOT_SUPPORTED>>)
  /\ st' = "RSP_SEND"
  /\ UNCHANGED <<hdrVars, busVars, cmd_was_last>>

\* A master without a timeout.
WaitForAck_Forever ==
  /\ Busy /\ ~Expired
  /\ UNCHANGED <<st, hdrVars, rspVars, busVars, cmd_was_last>>

WaitForAck ==
  /\ Busy /\ ~Expired
  /\ wb_timeout_cnt' = wb_timeout_cnt + 1
  /\ UNCHANGED <<st, hdrVars, rspVars, wb_adr, wb_dat, wb_sel, wb_byte_offset, cmd_was_last>>

\* A master that answers before the command has come to its end.
Done_Early == st' = "RSP_SEND"

Done == st' = IF cmd_was_last THEN "RSP_SEND" ELSE "DISCARD_CMD"
Len16(n) == <<(n \div 256) % 256, n % 256>>

\* A master that keeps the lanes of the word before.
WriteExec_KeepSel ==
  /\ st = "WB_WRITE_EXEC" /\ ~Expired
  /\ wb_timeout_cnt' = 0
  /\ IF wb_byte_offset = len \/ cmd_was_last
       THEN /\ Answer(<<RES_OK>> \o Len16(len)) /\ Done
            /\ UNCHANGED <<wb_adr, wb_dat, wb_sel, byte_idx>>
       ELSE /\ wb_adr' = wb_adr + 4 /\ wb_dat' = Zeros
            /\ byte_idx' = 0 /\ st' = "WB_WRITE_DATA"
            /\ UNCHANGED <<rspVars, wb_sel>>
  /\ UNCHANGED <<op, addr, len, tid_latched, wb_byte_offset, cmd_was_last>>

\* ST_WB_WRITE_EXEC with an acknowledge.
WriteExec ==
  /\ st = "WB_WRITE_EXEC" /\ ~Expired
  /\ wb_timeout_cnt' = 0
  /\ IF wb_byte_offset = len \/ cmd_was_last
       THEN /\ Answer(<<RES_OK>> \o Len16(len)) /\ Done
            /\ UNCHANGED <<wb_adr, wb_dat, wb_sel, byte_idx>>
       ELSE /\ wb_adr' = wb_adr + 4 /\ wb_dat' = Zeros /\ wb_sel' = {}
            /\ byte_idx' = 0 /\ st' = "WB_WRITE_DATA"
            /\ UNCHANGED rspVars
  /\ UNCHANGED <<op, addr, len, tid_latched, wb_byte_offset, cmd_was_last>>

\* The bytes a read returns when it has got so many.
Actual(got) == IF got >= READ_MAX THEN READ_MAX ELSE IF len > 0 THEN len ELSE 4

\* ST_WB_READ_EXEC with an acknowledge: a word goes into the response behind its
\* three bytes of head, until there is enough of it or no more room.
ReadExec(word) ==
  LET got == wb_byte_offset + 4
      actual == Actual(got)
      body == [i \in 0 .. 31 |-> IF i \in wb_byte_offset + 3 .. wb_byte_offset + 6
                                 THEN word[i - wb_byte_offset - 3] ELSE rsp_buf[i]] IN
  /\ st = "WB_READ_EXEC" /\ ~Expired
  /\ wb_timeout_cnt' = 0 /\ wb_byte_offset' = got
  /\ IF got >= len \/ got >= READ_MAX
       THEN /\ rsp_buf' = [body EXCEPT ![0] = RES_OK, ![1] = actual \div 256,
                                       ![2] = actual % 256]
            /\ rsp_len' = actual + 3 /\ rsp_idx' = 0
            /\ Done /\ UNCHANGED wb_adr
       ELSE /\ rsp_buf' = body /\ wb_adr' = wb_adr + 4
            /\ UNCHANGED <<st, rsp_len, rsp_idx>>
  /\ UNCHANGED <<hdrVars, wb_dat, wb_sel, cmd_was_last>>

\* ST_DISCARD_CMD: to the end of the command, or, when nothing is there to take, if
\* the last read or write that got that far had come to its end.
DiscardCmd ==
  /\ st = "DISCARD_CMD"
  /\ st' = IF (IF s_cmd_tvalid THEN s_cmd_tlast ELSE cmd_was_last) THEN "RSP_SEND" ELSE st
  /\ UNCHANGED <<hdrVars, rspVars, busVars, cmd_was_last>>

\* ST_RSP_SEND: a byte at a time, at the pace of the reader.
RspSend(ready) ==
  /\ st = "RSP_SEND"
  /\ st' = IF rsp_len = 0 \/ (m_rsp_tvalid /\ ready /\ m_rsp_tlast) THEN "IDLE" ELSE st
  /\ rsp_idx' = IF m_rsp_tvalid /\ ready /\ ~m_rsp_tlast THEN rsp_idx + 1 ELSE rsp_idx
  /\ UNCHANGED <<rsp_buf, rsp_len, hdrVars, busVars, cmd_was_last>>

\* A cycle in which a byte is waited for.
WaitForByte ==
  /\ st \in {"GET_HEADER", "GET_ADDR", "GET_LEN", "WB_WRITE_DATA"} /\ ~s_cmd_tvalid
  /\ UNCHANGED <<st, hdrVars, rspVars, busVars, cmd_was_last>>
Master(ack, ready) ==
  \/ Idle \/ GetHeader \/ GetAddr \/ GetLen \/ WriteData \/ WaitForByte
  \/ GiveUp
  \/ ~ack /\ WaitForAck
  \/ ack /\ WriteExec
  \/ ack /\ wb_adr \in Answering /\ ReadExec(regs[wb_adr])
  \/ DiscardCmd
  \/ RspSend(ready)

--------------------------------------------------------------------------------
\* The receive FIFO: a byte it offers stays until it is taken.
Take == s_cmd_tvalid /\ s_cmd_tready
Fifo ==
  /\ cmd_no' = IF Take /\ s_cmd_tlast THEN cmd_no + 1 ELSE cmd_no
  /\ cmd_pos' = IF ~Take THEN cmd_pos ELSE IF s_cmd_tlast THEN 1 ELSE cmd_pos + 1
  /\ s_cmd_tvalid' \in BOOLEAN
  /\ s_cmd_tvalid /\ ~Take => s_cmd_tvalid'
  /\ cmd_no' > Len(Commands) => ~s_cmd_tvalid'
  /\ cmd_no' <= Len(Commands) /\ cmd_pos' > 1 /\ ~plan.gaps => s_cmd_tvalid'
  /\ UNCHANGED plan

\* The slaves: a register takes the enabled lanes with the acknowledge, which comes
\* in time or, where nobody answers, never.
Slave(ack) ==
  /\ ack => Busy /\ ~Expired /\ wb_adr \in Answering
  /\ Busy /\ wb_adr \in Answering /\ wb_timeout_cnt + 1 >= WB_TIMEOUT_CYCLES => ack
  /\ regs' = IF ack /\ st = "WB_WRITE_EXEC"
             THEN [regs EXCEPT ![wb_adr] =
                    [i \in Lanes |-> IF i \in wb_sel THEN wb_dat[i] ELSE @[i]]]
             ELSE regs

Reader(ready) ==
  LET taken == m_rsp_tvalid /\ ready
      bytes == Append(sent, rsp_buf[rsp_idx]) IN
  /\ sent' = IF ~taken THEN sent ELSE IF m_rsp_tlast THEN <<>> ELSE bytes
  /\ responses' = IF taken /\ m_rsp_tlast
                  THEN Append(responses, [bytes |-> bytes, tid |-> tid_latched])
                  ELSE responses

InitialRegs == [a \in Answering |-> [i \in Lanes |-> (a + i) % 256]]

Init ==
  /\ st = "IDLE" /\ op = 0 /\ addr = <<0, 0, 0, 0>> /\ len = 0 /\ byte_idx = 0
  /\ rsp_buf = [i \in 0 .. 31 |-> 0]     \* not reset; never read before it is set
  /\ rsp_len = 0 /\ rsp_idx = 0
  /\ wb_adr = 0 /\ wb_dat = Zeros /\ wb_sel = {} /\ wb_byte_offset = 0
  /\ wb_timeout_cnt = 0 /\ cmd_was_last = FALSE /\ tid_latched = 0
  /\ plan \in Plans /\ cmd_no = 1 /\ cmd_pos = 1 /\ s_cmd_tvalid = FALSE
  /\ regs = InitialRegs
  /\ sent = <<>> /\ responses = <<>>

Edge(ack, ready) == Master(ack, ready) /\ Fifo /\ Slave(ack) /\ Reader(ready)
Next == \E ack, ready \in BOOLEAN : Edge(ack, ready)

Spec == Init /\ [][Next]_vars

\* The clock runs; the FIFO hands over what it has; the reader takes a byte that it
\* is offered one day.
Offered == s_cmd_tvalid' \/ cmd_no > Len(Commands)
Fairness ==
  /\ WF_vars(Next)
  /\ WF_vars(\E ack, ready \in BOOLEAN : Edge(ack, ready) /\ Offered)
  /\ WF_vars(m_rsp_tvalid /\ \E ack \in BOOLEAN : Edge(ack, TRUE))
FairSpec == Spec /\ Fairness

--------------------------------------------------------------------------------
\* What a command asks for: the response it gets and the registers it leaves.
Field(c) == [base |-> AddrOf(SubSeq(c.bytes, 3, 6)), len |-> 256 * c.bytes[7] + c.bytes[8]]
Word(base, k) == base + 4 * (k \div 4)         \* the address of byte k of a block
Answers(base, n) == \A k \in 0 .. n - 1 : Word(base, k) \in Answering
ReadLen(c) ==
  LET n == Field(c).len IN IF n = 0 THEN 4 ELSE IF n > READ_MAX THEN READ_MAX ELSE n
Read(c, R) ==
  LET f == Field(c)
      n == ReadLen(c) IN
  IF Answers(f.base, n)
    THEN <<RES_OK>> \o Len16(n) \o [k \in 1 .. n |-> R[Word(f.base, k - 1)][(k - 1) % 4]]
    ELSE <<RES_NOT_SUPPORTED>>
Written(c) ==
  LET have == Len(c.bytes) - 8 IN
  IF Field(c).len < have THEN Field(c).len ELSE have
Write(c, R) ==
  LET f == Field(c)
      hits(a) == {k \in 0 .. Written(c) - 1 :
                    Word(f.base, k) = a /\ Answers(f.base, k + 1)}
      byte(a, i) == {k \in hits(a) : k % 4 = i} IN
  [a \in Answering |-> [i \in Lanes |->
     IF byte(a, i) = {} THEN R[a][i] ELSE c.bytes[9 + CHOOSE k \in byte(a, i) : TRUE]]]
Response(c, R) ==
  CASE c.bytes[1] = OP_READ_BLOCK  -> Read(c, R)
    [] c.bytes[1] = OP_WRITE_BLOCK ->
         IF Answers(Field(c).base, Written(c)) THEN <<RES_OK>> \o Len16(Field(c).len)
         ELSE <<RES_NOT_SUPPORTED>>
    [] OTHER -> Simple(c.bytes[1])
Leaves(c, R) == IF c.bytes[1] = OP_WRITE_BLOCK THEN Write(c, R) ELSE R
After(cmds) ==           \* of the first n commands
  LET after[n \in Nat] ==
        IF n = 0 THEN InitialRegs ELSE Leaves(cmds[n], after[n - 1])
  IN  after

\* The commands of a plan: the master takes them whole.  A block has its whole header, a write
\* has data, and no bytes are left when the bus times out; where the FIFO may run empty, an
\* operation without a block has one byte at most that it has no use for.
TakenWhole(c, gaps) ==
  LET size == Len(c.bytes)
      base == Field(c).base
      n    == Written(c) IN
  CASE c.bytes[1] = OP_READ_BLOCK  -> size >= 8 /\ (size = 8 \/ Answers(base, ReadLen(c)))
    [] c.bytes[1] = OP_WRITE_BLOCK -> /\ size >= 9 /\ Field(c).len >= 1
                                      /\ Answers(base, 4 * ((n - 1) \div 4))
                                      /\ Answers(base, n) \/ n = size - 8
    [] OTHER -> gaps => size <= 2

ASSUME PlansAssumption ==
  /\ Byte \subseteq 0 .. 255 /\ Answering \subseteq Nat
  /\ WB_TIMEOUT_CYCLES \in Nat \ {0}
  /\ \A p \in Plans :
       /\ p.cmds \in Seq([bytes : Seq(Byte) \ {<<>>}, tid : {0, 1}])
       /\ \A n \in 1 .. Len(p.cmds) : TakenWhole(p.cmds[n], p.gaps)

\* Every response is the one its command asks for, from the registers as the
\* commands before it have left them, and goes to the port its command came from.
ResponsesAreRight ==
  \A n \in 1 .. Len(responses) :
    responses[n] = [bytes |-> Response(Commands[n], After(Commands)[n - 1]), tid |-> Commands[n].tid]

\* Between commands the registers are what the commands answered so far make them.
RegistersAreRight == st = "IDLE" => regs = After(Commands)[Len(responses)]

\* "State machines must always drain payloads until TLAST": the master and the
\* commands stay in step.  A first byte is taken as an operation, and nothing else is.
InStep == [][Take => (cmd_pos = 1 <=> st = "IDLE")]_vars

\* Every command is answered, also when no slave answers.
EveryCommandAnswered == <>(Len(responses) = Len(Commands))

================================================================================

------------------------------- MODULE DcCmds -------------------------------
(***************************************************************************)
(* The Debug Controller's commands on the target (src-rp/dc/cmd/cmds.c,    *)
(* src-rp/dc/dc.c), on core 1.                                             *)
(*                                                                         *)
(* A command fills the one operation buffer, notes what it will print,     *)
(* sets the two completion slots and posts a request; it prints when the   *)
(* answer has come back, by way of three messages of core 1's own queue.   *)
(* The disassembler asks for a byte or two at a time, so one command is a  *)
(* chain of requests, each posted by the completion of the one before.     *)
(*                                                                         *)
(* The link (DmLink, DBusC) and the monitor are external here: a request   *)
(* is served when they get to it, with the data that is in the buffer      *)
(* then.  The layout of what is printed is left out.  The user waits for   *)
(* the answer to a command, and gives none while the target goes (DmLink   *)
(* has a user who does not).                                               *)
(***************************************************************************)
EXTENDS Z80DasmText, Z80Regs, Calc, FiniteSets

CONSTANTS
  MemSize,   \* the target's addresses wrap here, at 2^16 in the code
  Page,      \* PAGE, and the range of a byte count
  Starts,    \* how it may start: [mem, regs, left], left the commands to come
  Offers,    \* left -> what the user may ask then: [cmd, loc, args]
  Garbage    \* high bytes a word register may get from the stack when it is loaded

ASSUME PageFits == MemSize \in Nat /\ Page \in 2..MemSize   \* EXAM gets a word at once
ASSUME StartsTyped ==
  /\ \A s \in Starts : s.mem \in [0..MemSize - 1 -> Byte] /\ s.regs \in RegBuf
                       /\ s.left \in DOMAIN Offers
  /\ Garbage \subseteq Byte
\* A load and an output have at least one value, or they are not carried out.
ASSUME OffersTyped ==
  \A n \in DOMAIN Offers :
    /\ \A c \in Offers[n] : /\ c.loc \in Tokens /\ c.args \in Seq(Tokens)
                            /\ c.cmd \in {"load", "out"} => c.args # <<>>
    /\ Offers[n] # {} => n - 1 \in DOMAIN Offers

VARIABLES
  mem, io,   \* the target's memory, and what its ports were given
  tregs,     \* its registers, as the monitor has saved them
  tgt,       \* "held" by the monitor, "stepping", or "going"
  link,      \* the request core 0 and the monitor have: [cmd, recv, at, addr, cnt]
  app,       \* core 1's message queue
  opbuf,     \* _dm_mp_opbuf: [addr, cnt, buf]
  regs,      \* zregbuf: the debugger's copy of the registers
  slot,      \* _dc_op_complete
  rcv,       \* _dm_buf_rcv_cmplt
  vals,      \* _addrcnt_vals and _addrind_vals
  da,        \* _da_ctx: [ctx, caddr, bc, stmt_cnt, oc]
  dasm_addr, dump_addr,
  prompten,  \* _prompten
  calc,      \* the calculator: its stack, registers and settings
  left,      \* bound: the commands the user has left
  asked,     \* history: the command under way
  answer     \* history: what it has printed

targetVars == <<mem, io, tregs, tgt>>
slotVars == <<slot, rcv>>
addrVars == <<dasm_addr, dump_addr>>
histVars == <<left, asked, answer>>
vars == <<targetVars, link, app, opbuf, regs, slotVars, vals, da, addrVars, prompten,
          calc, histVars>>

Addr == 0..MemSize - 1
NONE == "NULL"
NoCmd == [cmd |-> "none", loc |-> Here, args |-> <<>>]
NoReq == [cmd |-> "none", recv |-> 0, at |-> "none", addr |-> 0, cnt |-> 0]

-----------------------------------------------------------------------------
(* dc.c: requests *)

\* _dm_cmd_send; a request that is still waiting would be overwritten.
Send(cmd, recv) == link' = [NoReq EXCEPT !.cmd = cmd, !.recv = recv, !.at = "posted"]

dm_mem_get(cnt, on_cmplt) ==
  /\ rcv' = on_cmplt
  /\ slot' = "mget_done"
  /\ Send("DCGM", cnt)

dm_port_get(cnt, on_cmplt) ==
  /\ rcv' = on_cmplt
  /\ slot' = "pget_done"
  /\ Send("DCGP", cnt)

dm_getallreg(on_cmplt) ==
  /\ slot' = on_cmplt
  /\ Send("DCGREGALL", 0)
  /\ UNCHANGED rcv

\* dc_mp_opbuf_fill; the count is a byte, and 0 means a page.
Filled(addr, cnt) == [opbuf EXCEPT !.addr = addr % MemSize, !.cnt = cnt % Page]

-----------------------------------------------------------------------------
(* cmds.c: the commands *)

MayAsk ==
  /\ asked = NoCmd /\ link = NoReq /\ app = <<>> /\ tgt = "held"
  /\ left' = left - 1
UserAsks(c) == MayAsk /\ asked' = c /\ answer' = <<>>

\* Commands that ask the target for nothing are answered where they are given.
AtOnce(a) ==
  /\ MayAsk
  /\ answer' = <<a>>
  /\ UNCHANGED <<targetVars, link, app, slotVars, addrVars, asked>>
UserSees(c, val) == AtOnce([to |-> c, val |-> val]) /\ UNCHANGED calc
Printed == 0                         \* done, with nothing of interest printed
Refuse(c) == UserSees(c, NoValue) /\ UNCHANGED <<opbuf, regs, vals, da, prompten>>

Value(tok, sz) == reg_num_valprov(regs, tok, sz)
From(c, start) == IF c.loc = Here THEN start ELSE Value(c.loc, RS_WORD)
Count(c, default) == IF c.args = <<>> THEN default ELSE Value(c.args[1], RS_WORD)

\* The transfer is of the whole count, though the buffer holds its low byte.
ToReceive_LowByte(cnt) == cnt % Page
ToReceive(cnt) == cnt

Dump(c) ==
  LET addr == From(c, dump_addr)
      v    == Count(c, Page)
      cnt  == IF c.args = <<>> THEN Page
              ELSE IF c.cmd = "dumpa" THEN v % Page      \* PAGE_MASK, ONEK_MASK
              ELSE IF v % (4 * Page) > Page THEN Page ELSE v % (4 * Page)
  IN  /\ c.cmd \in {"dump", "dumpa"}
      /\ IF NoValue \in {addr, v} THEN Refuse(c)
         ELSE /\ UserAsks(c)
              /\ opbuf' = Filled(addr, cnt)
              /\ dm_mem_get(ToReceive(cnt), "dump_c")
              /\ vals' = [vals EXCEPT !.addr = addr, !.cnt = cnt]
              /\ prompten' = FALSE
              /\ UNCHANGED <<targetVars, app, regs, da, addrVars, calc>>

\* A register is shown at once.  Behind { is a word, everything else a byte.
Examine(c) ==
  LET addr == _get_addr16(regs, c.loc)
      cnt  == IF c.loc.ind = "{" THEN 2 ELSE 1
  IN  /\ c.cmd = "exam"
      /\ IF RegOf(c.loc) # NoReg
           THEN /\ UserSees(c, getval(regs, RegOf(c.loc)))
                /\ UNCHANGED <<opbuf, regs, vals, da, prompten>>
         ELSE IF addr = NoValue THEN Refuse(c)
         ELSE /\ UserAsks(c)
              /\ opbuf' = Filled(addr, cnt)
              /\ dm_mem_get(cnt, "exam_c")
              /\ vals' = [vals EXCEPT !.iaddr = addr, !.ind = cnt]
              /\ prompten' = FALSE
              /\ UNCHANGED <<targetVars, app, regs, da, addrVars, calc>>

Input(c) ==
  LET addr == _get_port_addr(regs, c.loc)
  IN  /\ c.cmd = "in"
      /\ IF addr = NoValue THEN Refuse(c)
         ELSE /\ UserAsks(c)
              /\ opbuf' = Filled(addr, 1)
              /\ dm_port_get(1, "in_c")
              /\ vals' = [vals EXCEPT !.iaddr = addr, !.ind = 1]
              /\ prompten' = FALSE
              /\ UNCHANGED <<targetVars, app, regs, da, addrVars, calc>>

\* The size of the value is read though it was never set: a word register may
\* get its low byte only, and what was on the stack above it.
LoadReg(c, r) ==
  LET v == Value(c.args[1], r.sz)
      high == IF r.sz = RS_WORD THEN {v \div 256} \cup Garbage ELSE {0}
  IN  IF Len(c.args) > 1 \/ v = NoValue THEN Refuse(c)
      ELSE /\ UserSees(c, Printed)
           /\ \E h \in high : regs' = setval(regs, r, (v % 256) + 256 * h)
           /\ UNCHANGED <<opbuf, vals, da, prompten>>

\* The buffer is written value by value, a page at most; a value that is none
\* of size sz ends the command before anything is sent.
Bytes(args, sz) ==
  LET n == sz \div 8
      v(i) == Value(args[((i - 1) \div n) + 1], sz)
      all == n * Len(args)
  IN  [i \in 1..(IF all > Page THEN Page ELSE all) |->
         IF v(i) = NoValue THEN NoValue
         ELSE IF n = 2 /\ i % 2 = 0 THEN (v(i) \div 256) % 256 ELSE v(i) % 256]
Written(bytes) ==
  LET bad == {i \in DOMAIN bytes : bytes[i] = NoValue}
      upto == IF bad = {} THEN Len(bytes) ELSE (CHOOSE i \in bad : \A j \in bad : i <= j) - 1
  IN  [i \in 1..Page |-> IF i <= upto THEN bytes[i] ELSE opbuf.buf[i]]

\* dm_mem_set and dm_port_put leave the slots alone, and nothing is printed.
Put(c, cmd, addr, bytes) ==
  IF addr = NoValue THEN Refuse(c)
  ELSE IF \E i \in DOMAIN bytes : bytes[i] = NoValue
    THEN /\ UserSees(c, NoValue)
         /\ opbuf' = [opbuf EXCEPT !.buf = Written(bytes)]
         /\ UNCHANGED <<regs, da, prompten>>
  ELSE /\ UserAsks(c)
       /\ opbuf' = [Filled(addr, Len(bytes)) EXCEPT !.buf = Written(bytes)]
       /\ Send(cmd, 0)
       /\ UNCHANGED <<targetVars, app, regs, slotVars, da, addrVars, prompten, calc>>

Load(c) ==
  /\ c.cmd = "load"
  /\ IF RegOf(c.loc) # NoReg THEN LoadReg(c, RegOf(c.loc))
     ELSE /\ Put(c, "DCPM", _get_addr16(regs, c.loc),
                 Bytes(c.args, IF c.loc.ind = "{" THEN RS_WORD ELSE RS_BYTE))
          /\ UNCHANGED vals

Output(c) ==
  LET addr == _get_port_addr(regs, c.loc)
  IN  /\ c.cmd = "out"
      /\ Put(c, "DCPP", addr, Bytes(c.args, RS_BYTE))
      /\ vals' = IF addr = NoValue THEN vals ELSE [vals EXCEPT !.iaddr = addr, !.ind = 1]

\* _exec_inc and _exec_dec: the result is as wide as the register.
IncDec(c) ==
  LET r  == RegOf(c.loc)
      by == IF c.args = <<>> THEN 1 ELSE Value(c.args[1], r.sz)
      v  == getval(regs, r) + (IF c.cmd = "inc" THEN by ELSE -by)
  IN  /\ c.cmd \in {"inc", "dec"}
      /\ IF r = NoReg \/ by = NoValue THEN Refuse(c)
         ELSE /\ regs' = setval(regs, r, v)
              /\ UserSees(c, getval(regs', r))
              /\ UNCHANGED <<opbuf, vals, da, prompten>>

\* _disasm_c: ask for bc bytes from caddr.
DisasmC(d) ==
  /\ da' = d
  /\ opbuf' = Filled(d.caddr, d.bc)
  /\ dm_mem_get(d.bc, "disasm_c_d")
Disasm(addr, count, oc) ==
  DisasmC([da EXCEPT !.caddr = addr % MemSize, !.stmt_cnt = count, !.oc = oc, !.bc = 1,
                     !.ctx.status = 0])

Dasm(c) ==
  LET addr == From(c, dasm_addr)
      cnt  == Count(c, 16)
  IN  /\ c.cmd = "dasm"
      /\ IF NoValue \in {addr, cnt} THEN Refuse(c)
         ELSE /\ UserAsks(c)
              /\ Disasm(addr, cnt, TRUE)
              /\ prompten' = FALSE
              /\ UNCHANGED <<targetVars, app, regs, vals, addrVars, calc>>

GetRegs(c) ==
  /\ c.cmd = "getreg"
  /\ UserAsks(c)
  /\ dm_getallreg("getregs")
  /\ UNCHANGED <<targetVars, app, opbuf, regs, vals, da, addrVars, prompten, calc>>

PutRegs(c) ==
  /\ c.cmd = "putreg"
  /\ UserAsks(c)
  /\ slot' = "putregs"
  /\ Send("DCPREGALL", 0)
  /\ UNCHANGED <<targetVars, app, opbuf, regs, rcv, vals, da, addrVars, prompten, calc>>

regpc == z80_ra_for_token("PC")

\* dm_go, dm_goat, dm_step and dm_stepat: nothing is to be run at completion.
Go(c) ==
  LET pc == From(c, getval(regs, regpc))
  IN  /\ c.cmd \in {"go", "step"}
      /\ IF pc = NoValue THEN Refuse(c)
         ELSE /\ UserAsks(c)
              /\ slot' = NONE
              /\ prompten' = FALSE
              /\ regs' = setval(regs, regpc, pc)
              /\ Send(CASE c.cmd = "step" /\ c.loc = Here -> "DCSTEP"
                        [] c.cmd = "step"                 -> "DCSTEPWREG"
                        [] c.loc = Here                   -> "DCGO"
                        [] OTHER                          -> "DCGOWREG", 0)
              /\ UNCHANGED <<targetVars, app, opbuf, rcv, vals, da, addrVars, calc>>

\* What dcc_cpudisp shows.
CpuNames ==
  {"A", "B", "C", "D", "E", "H", "L", "F", "A*", "B*", "C*", "D*", "E*", "H*", "L*", "F*",
   "I", "IX", "IY", "PC", "SP"}
CpuDisp == [n \in CpuNames |-> getval(regs, z80_ra_for_token(n))]

\* It asks the target for nothing but the statement at the PC.  A setting would
\* leave that out (dccfg.c:62-64), but it is on and no command turns it off.
Cpu(c) ==
  /\ c.cmd = "cpu"
  /\ MayAsk
  /\ asked' = c
  /\ answer' = <<[regs |-> CpuDisp]>>
  /\ Disasm(getval(regs, regpc), 1, FALSE)
  /\ prompten' = FALSE
  /\ UNCHANGED <<targetVars, app, regs, vals, addrVars, calc>>

\* The calculator's commands: what they show of it is X.
Calculate(c) ==
  LET names  == [i \in DOMAIN c.args |-> IF c.args[i].ind = "" THEN c.args[i].name ELSE ""]
      values == [i \in DOMAIN c.args |-> Value(c.args[i], RS_UNLIMIT)]
      done   == CASE c.cmd = "calc" -> _exec_calc(calc, names, values)
                  [] c.cmd = "add"  -> SumUp(calc, values, 1)
                  [] c.cmd = "sub"  -> SumUp(calc, values, -1)
  IN  /\ c.cmd \in {"calc", "add", "sub"}
      /\ calc' = done.calc
      /\ AtOnce([to |-> c, val |-> IF done.ok THEN calc'.X ELSE NoValue])
      /\ UNCHANGED <<opbuf, regs, vals, da, prompten>>

User ==
  \E c \in Offers[left] :
    \/ Dump(c) \/ Examine(c) \/ Input(c) \/ Load(c) \/ Output(c) \/ IncDec(c) \/ Dasm(c)
    \/ GetRegs(c) \/ PutRegs(c) \/ Go(c) \/ Cpu(c) \/ Calculate(c)

-----------------------------------------------------------------------------
(* Core 1: the completions and the statuses *)

Arrives(m) == app # <<>> /\ Head(app) = m /\ app' = Tail(app)
Prints(a) == answer' = a /\ asked' = NoCmd /\ UNCHANGED left

\* What is to be run at completion is taken out of the slot when it is posted.
Taken_Left == UNCHANGED slot
Taken == slot' = NONE

\* _handle_dm_cmddone.  A load and an output have nothing to run then: they are over.
CmdDone ==
  /\ app # <<>> /\ Head(app) = "CMDDONE"
  /\ app' = Tail(app) \o IF slot = NONE THEN <<>> ELSE <<slot>>
  /\ Taken
  /\ asked' = IF asked.cmd \in {"load", "out"} THEN NoCmd ELSE asked
  /\ UNCHANGED <<targetVars, link, opbuf, regs, rcv, vals, da, addrVars, prompten, calc,
                 left, answer>>

\* _handle_dm_mget_done and _handle_dm_pget_done.
MgetDone ==
  /\ app # <<>> /\ Head(app) \in {"mget_done", "pget_done"}
  /\ app' = Append(Tail(app), rcv)
  /\ Taken
  /\ UNCHANGED <<targetVars, link, opbuf, regs, rcv, vals, da, addrVars, prompten, calc,
                 histVars>>

Cells(addr, cnt) ==
  [i \in 1..cnt |-> [addr |-> (addr + i - 1) % MemSize, byte |-> opbuf.buf[i]]]

DumpC ==
  /\ Arrives("dump_c")
  /\ Prints(Cells(vals.addr, vals.cnt))
  /\ dump_addr' = (vals.addr + vals.cnt) % MemSize
  /\ prompten' = TRUE
  /\ UNCHANGED <<targetVars, link, opbuf, regs, slotVars, vals, da, dasm_addr, calc>>

\* _exam_c and _in_c.
ExamC ==
  /\ Arrives("exam_c") \/ Arrives("in_c")
  /\ Prints(Cells(vals.iaddr, vals.ind))
  /\ prompten' = TRUE
  /\ UNCHANGED <<targetVars, link, opbuf, regs, slotVars, vals, da, addrVars, calc>>

PutRegsDone ==
  /\ Arrives("putregs")
  /\ Prints(<<>>)
  /\ UNCHANGED <<targetVars, link, opbuf, regs, slotVars, vals, da, addrVars, prompten,
                 calc>>

\* _handle_dm_getregs: dcc_cpudisp, and the statement at the PC is still to come.
ShowRegs ==
  /\ Arrives("getregs")
  /\ answer' = <<[regs |-> CpuDisp]>>
  /\ Disasm(getval(regs, regpc), 1, FALSE)
  /\ prompten' = FALSE
  /\ UNCHANGED <<targetVars, regs, vals, addrVars, calc, left, asked>>

\* _disasm_c_d: the context when the bytes of the buffer have been fed to it,
\* as many as it wanted, how many these were, and the function that had the last.
Fed ==
  LET f[k \in 0..da.bc] ==
        IF k = 0 THEN da.ctx
        ELSE IF f[k - 1].status > 0 THEN zda_next(f[k - 1], opbuf.buf[k])
        ELSE f[k - 1]
  IN  IF da.ctx.status = 0
        THEN [ctx |-> zda_begin(da.caddr, opbuf.buf[1]), used |-> 1, df |-> "_dis_b1"]
        ELSE LET used == Cardinality({k \in 1..da.bc : f[k - 1].status > 0})
             IN [ctx |-> f[da.bc], used |-> used, df |-> f[used - 1].df]

Shown(ctx, df) ==
  [addr |-> ctx.addr, len |-> Len(ctx.d), ok |-> ctx.status = 0, stmt |-> stmt(ctx, df)]

More(ctx) == ctx.status > 0 \/ (ctx.status = 0 /\ da.stmt_cnt > 1)
Wanted_OneMore(ctx) == IF ctx.status = 0 THEN 1 ELSE ctx.status + 1
Wanted(ctx) == IF ctx.status = 0 THEN 1 ELSE ctx.status

DisasmCD ==
  LET c == Fed.ctx
      d == [da EXCEPT !.ctx = c, !.caddr = (@ + Fed.used) % MemSize,
                      !.stmt_cnt = IF c.status = 0 THEN @ - 1 ELSE @]
  IN  /\ Arrives("disasm_c_d")
      /\ answer' = IF c.status > 0 THEN answer ELSE Append(answer, Shown(c, Fed.df))
      /\ IF More(c)
           THEN /\ DisasmC([d EXCEPT !.bc = Wanted(c)])
                /\ UNCHANGED <<dasm_addr, prompten, asked>>
           ELSE /\ da' = [d EXCEPT !.bc = 0, !.oc = FALSE]   \* _disasm_cmplt
                /\ dasm_addr' = IF da.oc THEN d.caddr ELSE dasm_addr
                /\ prompten' = TRUE
                /\ asked' = NoCmd
                /\ UNCHANGED <<link, opbuf, slotVars>>
      /\ UNCHANGED <<targetVars, regs, vals, dump_addr, calc, left>>

\* _handle_dm_statusrcvd: the target has started.  The prompt is turned on again
\* for a go, not for a step.
TargetStarted ==
  /\ Arrives("TGTGO")
  /\ prompten' = (prompten \/ asked.cmd # "step")
  /\ UNCHANGED <<targetVars, link, opbuf, regs, slotVars, vals, da, addrVars, calc, histVars>>

\* It has stopped, which is told by DMINIT: nothing is done about that, and the
\* prompt stays off behind a step.
TargetStopped ==
  /\ Arrives("DMINIT")
  /\ asked' = NoCmd
  /\ UNCHANGED <<targetVars, link, opbuf, regs, slotVars, vals, da, addrVars, prompten, calc,
                 left, answer>>

Core1 ==
  \/ CmdDone \/ MgetDone \/ DumpC \/ ExamC \/ PutRegsDone \/ ShowRegs \/ DisasmCD
  \/ TargetStopped \/ TargetStarted

-----------------------------------------------------------------------------
(* The link, the monitor and the target *)

dcVars == <<opbuf, slotVars, vals, da, addrVars, prompten, calc, histVars>>

Starting == {"DCGO", "DCGOWREG", "DCSTEP", "DCSTEPWREG"}

\* The monitor reads the command and what is sent with it; a count of 0 is a page.
Whole(cnt) == IF cnt = 0 THEN Page ELSE cnt
Told ==
  LET n == Whole(opbuf.cnt)
  IN  /\ link.at = "posted" /\ link.cmd \notin Starting
      /\ link' = [link EXCEPT !.at = "told", !.addr = opbuf.addr, !.cnt = opbuf.cnt]
      /\ mem' = IF link.cmd # "DCPM" THEN mem
                ELSE [a \in Addr |-> LET i == ((a - opbuf.addr) % MemSize) + 1
                                     IN IF i <= n THEN opbuf.buf[i] ELSE mem[a]]
      /\ io' = IF link.cmd # "DCPP" THEN io ELSE [io EXCEPT ![opbuf.addr] = opbuf.buf[n]]
      /\ tregs' = IF link.cmd = "DCPREGALL" THEN regs ELSE tregs
      /\ UNCHANGED <<dcVars, tgt, app, regs>>

ToldToStart ==
  /\ link.at = "posted" /\ link.cmd \in Starting
  /\ link' = NoReq
  /\ tgt' = IF link.cmd \in {"DCSTEP", "DCSTEPWREG"} THEN "stepping" ELSE "going"
  /\ tregs' = IF link.cmd \in {"DCGOWREG", "DCSTEPWREG"} THEN regs ELSE tregs
  /\ app' = Append(app, "TGTGO")
  /\ UNCHANGED <<dcVars, mem, io, regs>>

\* It sends what was asked for, and reports; if it sends more or less than is
\* received, the transfer does not end.
Reports ==
  LET n == Whole(link.cnt)
      sent(i) == IF link.cmd = "DCGP" THEN io[link.addr]
                 ELSE mem[(link.addr + i - 1) % MemSize]
  IN  /\ link.at = "told"
      /\ link.cmd \in {"DCGM", "DCGP"} => link.recv = n
      /\ opbuf' = IF link.cmd \notin {"DCGM", "DCGP"} THEN opbuf
                  ELSE [opbuf EXCEPT !.buf =
                          [i \in 1..Page |-> IF i <= n THEN sent(i) ELSE @[i]]]
      /\ regs' = IF link.cmd = "DCGREGALL" THEN tregs ELSE regs
      /\ app' = Append(app, "CMDDONE")
      /\ link' = NoReq
      /\ UNCHANGED <<targetVars, slotVars, vals, da, addrVars, prompten, calc, histVars>>

\* The target stops by a reset that the monitor takes for a full one: it has NMI
\* disabled since it was last called (nmivec), so bahdlr goes to doinit, which
\* fills its RAM with 0, the saved registers too, and reports DMINIT.
Stopped(running) ==
  /\ tgt = running
  /\ tgt' = "held"
  /\ tregs' = [i \in 0..ZREGALLBYTES - 1 |-> 0]
  /\ app' = Append(app, "DMINIT")
  /\ UNCHANGED <<dcVars, mem, io, link, regs>>
StepEnds == Stopped("stepping")
GoEnds == Stopped("going")            \* by a break, ATTN or the button

Monitor == Told \/ ToldToStart \/ Reports

-----------------------------------------------------------------------------

\* dc_modinit: what the registers are before the target's have been got.
InitRegs ==
  <<255, 85,  0, 26, 28, 27, 30, 29, 17, 18,   44, 43, 46, 45, 33, 34, 255, 10,
    74, 84,  91, 85,  108, 86,  125, 87>>

Init ==
  /\ \E s \in Starts : mem = s.mem /\ tregs = s.regs /\ left = s.left
  /\ io = [a \in Addr |-> 0]
  /\ tgt = "held"
  /\ link = NoReq /\ app = <<>>
  /\ opbuf = [addr |-> 0, cnt |-> 0, buf |-> [i \in 1..Page |-> (i - 1) % 256]]
  /\ regs = [i \in 0..ZREGALLBYTES - 1 |-> InitRegs[i + 1]]
  /\ slot = NONE /\ rcv = NONE
  /\ vals = [addr |-> 0, cnt |-> 0, iaddr |-> 0, ind |-> 0]
  /\ da = [ctx |-> NoCtx, caddr |-> 0, bc |-> 0, stmt_cnt |-> 0, oc |-> FALSE]
  /\ dasm_addr = 0 /\ dump_addr = 0
  /\ prompten = TRUE
  /\ calc = calc_modinit
  /\ asked = NoCmd /\ answer = <<>>

Next == User \/ Core1 \/ Monitor \/ StepEnds \/ GoEnds

Spec == Init /\ [][Next]_vars

\* Both ends serve what has come; a step ends, but a program need not.
FairSpec == Spec /\ WF_vars(Core1) /\ WF_vars(Monitor) /\ WF_vars(StepEnds)

-----------------------------------------------------------------------------

\* Types of the variables (dc.c, cmds.c): the slots hold completions only, the
\* disassembler asks for two bytes at most, and the counts fit the buffer.
TypeOK ==
  /\ mem \in [Addr -> Byte] /\ io \in [Addr -> Byte] /\ tregs \in RegBuf /\ regs \in RegBuf
  /\ tgt \in {"held", "stepping", "going"}
  /\ link = NoReq \/ (link.at \in {"posted", "told"} /\ link.recv \in 0..Page)
  /\ \A i \in DOMAIN app :
       app[i] \in {"CMDDONE", "TGTGO", "DMINIT", "mget_done", "pget_done",
                   "dump_c", "exam_c", "in_c", "disasm_c_d", "getregs", "putregs"}
  /\ opbuf.addr \in Addr /\ opbuf.cnt \in 0..Page - 1 /\ opbuf.buf \in [1..Page -> Byte]
  /\ slot \in {NONE, "mget_done", "pget_done", "getregs", "putregs"}
  /\ rcv \in {NONE, "dump_c", "exam_c", "in_c", "disasm_c_d"}
  /\ da.bc \in 0..2 /\ da.stmt_cnt \in Int /\ da.caddr \in Addr
  /\ da.ctx.status \in {ZDAE_INVALID_INSTRUCTION} \cup 0..2 /\ Len(da.ctx.d) <= MaxBytes
  /\ dasm_addr \in Addr /\ dump_addr \in Addr
  /\ prompten \in BOOLEAN
  /\ {calc.X, calc.Y, calc.Z, calc.T} \subseteq 0..2^Bits[calc.wsize] - 1

\* A dump of 0 bytes, or of what is 0 behind the mask (cmds.c:985, 1096): nothing is
\* received of the page that the monitor sends, and it waits for ever.
DumpsNone == asked.cmd \in {"dump", "dumpa"} /\ vals.cnt = 0

\* Every command that turns the prompt off, but a step, has it back (_disasm_cmplt
\* and the printers turn it on, and TGTGO for a go), and every command but a go is
\* over in the end; a dump of no bytes never is.  Behind a step the prompt stays off:
\* dc.c:305-309 leaves it to the report of the step, and the target stops with DMINIT
\* only (dc.c:154-157).
PromptReturns ==
  /\ asked.cmd \in {"dump", "dumpa", "exam", "in", "dasm", "getreg", "cpu"}
       ~> DumpsNone \/ (asked = NoCmd /\ prompten)
  /\ asked.cmd = "go" ~> prompten
  /\ asked # NoCmd /\ asked.cmd # "go" ~> DumpsNone \/ asked = NoCmd

\* Whose turn it is: a request, a message and the running target exclude each other,
\* but for the messages that the target has started and stopped; and a completion
\* that is set belongs to the request that is out, or to its end.
Turn ==
  /\ link # NoReq => app = <<>> /\ tgt = "held"
  /\ link.cmd \in Starting => slot = NONE
  /\ tgt # "held" => app \in {<<>>, <<"TGTGO">>} /\ slot = NONE
  /\ Len(app) <= 1 \/ app = <<"TGTGO", "DMINIT">>
  /\ slot # NONE => link # NoReq \/ app = <<"CMDDONE">>

\* A step posts a request only where there is none, sets a completion only where
\* there is none, and leaves what an outstanding request uses alone.
Kept ==
  /\ link' # link =>
       \/ link = NoReq \/ link' = NoReq
       \/ /\ link.at = "posted" /\ link'.at = "told"
          /\ link'.cmd = link.cmd /\ link'.recv = link.recv
  /\ slot' # slot => slot = NONE \/ slot' = NONE
  /\ link # NoReq /\ ~Reports => UNCHANGED <<opbuf, regs, slotVars>>

\* Nothing that is under way is overwritten, though nothing checks it (dmcomm.c:141,
\* dc.c:242-258, 386-427): the chains of requests, their completions and the reports
\* of the target share one request, one buffer and two slots, in turn.
NothingOverwritten == [][Kept]_vars

\* The monitor's layout of the registers (storage.z80), words low byte first.
ByteNames == <<"IED", "I", "F*", "A*", "C*", "B*", "E*", "D*", "L*", "H*",
               "C", "B", "E", "D", "L", "H", "F", "A">>
WordNames == <<"SP", "PC", "IX", "IY">>
Place(n, names) == CHOOSE i \in DOMAIN names : names[i] = n
Named(buf) ==
  [n \in {ByteNames[i] : i \in 1..18} \cup {WordNames[i] : i \in 1..4} |->
     IF n \in {WordNames[i] : i \in 1..4}
       THEN LET k == 16 + 2 * Place(n, WordNames) IN buf[k] + 256 * buf[k + 1]
       ELSE buf[Place(n, ByteNames) - 1]]

\* A go or a step is over, and core 1 has not been told.
Stopping == asked.cmd \in {"go", "step"} /\ tgt = "held" /\ link.cmd \notin Starting

Abstract == INSTANCE Debugger WITH
  tregs  <- Named(tregs),
  regs   <- Named(regs),
  tgt    <- IF tgt # "held" THEN "running" ELSE "held",
  calc   <- [s |-> <<calc.X, calc.Y, calc.Z, calc.T>>, last |-> calc.lstX, sto |-> calc.reg,
             lifts |-> calc.sliften, bits |-> Bits[calc.wsize]],
  next   <- [dump |-> dump_addr, dasm |-> dasm_addr],
  asked  <- IF Stopping THEN NoCmd ELSE asked,
  answer <- IF asked = NoCmd THEN answer ELSE <<>>

\* A command is answered from the target's memory and registers as they are,
\* and one with no place given goes on where the last one ended, whatever the
\* requests it takes (cmds.c:237-343, 836-1128; dc.c:101-224).  Where the code
\* falls short of the manual of the Z80 or of its own help, Debugger promises what
\* the code does, and says so.
ImplementsDebugger == Abstract!Spec
=============================================================================

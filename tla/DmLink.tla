------------------------------- MODULE DmLink -------------------------------
(***************************************************************************)
(* The command link between the Debug Controller and the Z80 Debug Monitor *)
(* (src-rp/dc/dc.c, src-rp/dc/dmcomm.c, src-z/dbm/dbmon.z80, and the mode, *)
(* attention and reset logic of pld/zid_main.pld).                         *)
(*                                                                         *)
(* Core 1 (dc.c) posts command requests to core 0 and is posted the        *)
(* monitor's statuses.  Core 0 (dmcomm.c) prepares the command and raises  *)
(* ATTN.  The monitor is woken by ATTN, through NMI in Debug mode and      *)
(* through a special reset in Target mode, writes its status to the CTRL   *)
(* port and reads the command from it.  Reads and writes of the CTRL port  *)
(* hold the Z80 until core 0's interrupt handler has served them, so each  *)
(* is one step here; what the handler posts is handled later.              *)
(*                                                                         *)
(* A request stands for its command: request r is of kind[r], and the      *)
(* value 0 is DMNOP (which is DC_INITRDY as well).  Left out are the data  *)
(* a command transfers, _dm_lastcmd (for messages only), _mode and the     *)
(* prompt, the simulation of a monitor, and programs of the target that    *)
(* use the CTRL port themselves.                                           *)
(***************************************************************************)
EXTENDS Naturals, Sequences

CONSTANTS
  MaxRequests,   \* bound: the requests of a behaviour
  MaxMishaps,    \* bound: cancels, breakpoints and presses of the reset button
  InTime         \* the monitor and the cores are as quick as PromptMonitor and
                 \* SlowInit say

ASSUME DmLinkAssumption ==
  MaxRequests \in Nat /\ MaxMishaps \in Nat /\ InTime \in BOOLEAN

VARIABLES
  hwrt,      \* core 0's message queue
  core0,     \* what core 0 is handling: [at, msg]
  cmdstat,   \* _dm_cmdstat: the request to hand the monitor, or NOP
  expctd,    \* _dm_ctrlrd_expctd
  app,       \* core 1's message queue
  core1,     \* "loop", or the store of dmc_op_cancel core 1 has come to
  slot,      \* _dc_op_complete: the request whose handler is set, or NONE
  rcv,       \* _dm_buf_rcv_cmplt, likewise
  attn,      \* the ATTN line
  attn_tms,  \* attn_tms_R: the target was running when ATTN was raised
  tgtmode,   \* tgtmode_R
  zid_init,  \* zid_init_R: the NMI enable bit of BRDCTRL
  sstep,     \* sngl_step_R
  zsr_req,   \* zsr_req_R: a special reset is requested
  sr_brk,    \* sr_frmhbrk_R or sr_frmsbrk_R: it was a break that requested it
  nmi,       \* the Z80 has latched an NMI
  dm,        \* where the monitor is in its program
  doc_cmd,   \* the command the monitor works on
  doc_stat,  \* the status it is about to send
  kind,      \* the kinds of the requests made so far, in order
  mishaps,   \* how many cancels, breakpoints and resets there have been
  special,   \* history: the latest reset was a special one
  taken,     \* history: request -> how often the monitor read it
  executed,  \* history: the requests the monitor has carried out
  completed, \* history: request -> how often its handler was run
  excused    \* history: requests cancelled or hit by a (re)initialisation

dcVars  == <<app, core1, slot, rcv, kind>>
commVars == <<hwrt, core0, cmdstat, expctd>>
pldVars == <<attn, attn_tms, tgtmode, zid_init, sstep, zsr_req, sr_brk, nmi>>
dmVars  == <<dm, doc_cmd, doc_stat>>
histVars == <<special, taken, executed, completed, excused>>
vars == <<dcVars, commVars, pldVars, dmVars, mishaps, histVars>>

NOP == 0                      \* DMNOP = DC_INITRDY, DOCREADY to the monitor
NONE == 0                     \* a NULL handler
Reqs == 1..MaxRequests
Kinds == {"get", "mget", "put", "go", "step"}
Asked == 1..Len(kind)         \* the requests made so far
Outstanding == Asked \ (executed \cup excused)

Statuses == {"DMINIT", "DMOKCMDRD", "DMOPDONE", "DMSSDONE", "DMBRKHIT", "DMTGTGO"}
Write(st, r) == [id |-> "CTRL_WRITE", st |-> st, req |-> r]
AttnOff == [id |-> "ATTN_OFF", st |-> "none", req |-> NOP]
CmdReq(r) == [id |-> "CMD_REQ", st |-> "none", req |-> r]
Status(st) == [id |-> "STATUSRCVD", st |-> st, req |-> NOP]
CmdDone(r) == [id |-> "CMDDONE", st |-> "none", req |-> r]
OpComplete(r) == [id |-> "OP_COMPLETE", st |-> "none", req |-> r]
BufComplete(r) == [id |-> "BUF_COMPLETE", st |-> "none", req |-> r]
Nothing == [id |-> "none", st |-> "none", req |-> NOP]

-----------------------------------------------------------------------------
(* The board logic. *)

\* The NMI request of the board: ATTN in Debug mode, once initialised.
Znmi(attn_, attn_tms_, tgtmode_, zid_init_) ==
  attn_ /\ ~tgtmode_ /\ ~attn_tms_ /\ zid_init_

\* The Z80 latches an NMI on its rising edge; the arguments are the new inputs.
LatchNmi(attn_, attn_tms_, tgtmode_, zid_init_) ==
  nmi' = \/ nmi
         \/ /\ ~Znmi(attn, attn_tms, tgtmode, zid_init)
            /\ Znmi(attn_, attn_tms_, tgtmode_, zid_init_)

\* attn_set_on: the CPLD notes the mode at the rising edge; ATTN in Target mode
\* requests a special reset.
SetAttn(on) ==
  /\ attn' = on
  /\ attn_tms' = IF on /\ ~attn THEN tgtmode ELSE attn_tms
  /\ zsr_req' = (zsr_req \/ (on /\ tgtmode))
  /\ LatchNmi(attn', attn_tms', tgtmode, zid_init)

\* The Z80 is reset, by the special reset or by the full one.
ZReset_StaysInTarget ==
  /\ UNCHANGED tgtmode
  /\ zsr_req' = FALSE
  /\ nmi' = FALSE
  /\ dm' = "bahdlr"
ZReset ==
  /\ tgtmode' = FALSE
  /\ zsr_req' = FALSE
  /\ nmi' = FALSE
  /\ dm' = "bahdlr"

-----------------------------------------------------------------------------
(* Core 0: dmcomm.c *)

\* _dm_cmd_prep is two stores that matter, the interrupt may come between.
PreparesNop_AnyStatus(m) == m.id = "CTRL_WRITE"
PreparesNop(m) ==
  /\ m.id = "CTRL_WRITE"
  /\ \/ m.st = "DMINIT"
     \/ m.st \in {"DMBRKHIT", "DMSSDONE"} /\ ~expctd
Prepares(m) == PreparesNop(m) \/ m.id = "CMD_REQ"
Prepared(m) == IF m.id = "CMD_REQ" THEN m.req ELSE NOP

\* A status goes on to core 1, and DMOPDONE posts Command Done as well.
Forwarded(m) ==
  <<Status(m.st)>> \o IF m.st = "DMOPDONE" THEN <<CmdDone(m.req)>> ELSE <<>>

\* A message that prepares no command is handled at once: a status is passed on,
\* ATTN is turned off (_handle_ctrlrd_attnoff).
HandleMsg ==
  /\ core0.at = "loop"
  /\ hwrt # <<>>
  /\ ~Prepares(Head(hwrt))
  /\ IF Head(hwrt).id = "ATTN_OFF"
       THEN SetAttn(FALSE) /\ UNCHANGED app
       ELSE /\ app' = app \o Forwarded(Head(hwrt))
            /\ UNCHANGED <<attn, attn_tms, zsr_req, nmi>>
  /\ hwrt' = Tail(hwrt)
  /\ UNCHANGED <<core0, cmdstat, expctd, core1, slot, rcv, kind, tgtmode, zid_init,
                 sstep, sr_brk, dmVars, mishaps, histVars>>

\* The first store of _dm_cmd_prep: the command, with no regard to one that waits.
StoreCommand ==
  /\ core0.at = "loop"
  /\ hwrt # <<>>
  /\ Prepares(Head(hwrt))
  /\ cmdstat' = Prepared(Head(hwrt))
  /\ core0' = [at |-> "expect", msg |-> Head(hwrt)]
  /\ hwrt' = Tail(hwrt)
  /\ UNCHANGED <<expctd, dcVars, pldVars, dmVars, mishaps, histVars>>

\* The second store of _dm_cmd_prep: the monitor is expected to read it.
ExpectRead ==
  /\ core0.at = "expect"
  /\ expctd' = TRUE
  /\ core0' = [core0 EXCEPT !.at = "finish"]
  /\ UNCHANGED <<hwrt, cmdstat, dcVars, pldVars, dmVars, mishaps, histVars>>

\* ATTN is low for longer than the monitor takes from seeing it low to enabling
\* its NMI: a new request comes by way of three messages (see README).
PromptMonitor ==
  InTime /\ dm \in {"attn_clr_chk", "nmi_enable"} /\ ~attn => zid_init

\* What the handler does after it: the status is passed on, or ATTN raised.
FinishMsg ==
  /\ core0.at = "finish"
  /\ IF core0.msg.id = "CMD_REQ"
       THEN PromptMonitor /\ SetAttn(TRUE) /\ UNCHANGED app
       ELSE /\ app' = app \o Forwarded(core0.msg)
            /\ UNCHANGED <<attn, attn_tms, zsr_req, nmi>>
  /\ core0' = [at |-> "loop", msg |-> Nothing]
  /\ UNCHANGED <<hwrt, cmdstat, expctd, core1, slot, rcv, kind, tgtmode,
                 zid_init, sstep, sr_brk, dmVars, mishaps, histVars>>

Core0 == HandleMsg \/ StoreCommand \/ ExpectRead \/ FinishMsg

-----------------------------------------------------------------------------
(* The interrupt handler of the CTRL port, with the monitor held meanwhile. *)

\* The Z80 writes a status.
CtrlWrite(st, r) == hwrt' = Append(hwrt, Write(st, r))

\* The Z80 reads: a prepared command is handed out once, otherwise DC_INITRDY
\* (the default status is the same), and ATTN is to be turned off.
HandedOut_Kept == UNCHANGED <<expctd, cmdstat>>
HandedOut == expctd' = FALSE /\ cmdstat' = NOP
CtrlReadValue == IF expctd THEN cmdstat ELSE NOP
CtrlRead_AttnLeftOn ==
  /\ IF expctd THEN HandedOut ELSE UNCHANGED <<expctd, cmdstat>>
  /\ UNCHANGED <<hwrt, taken>>
CtrlRead ==
  /\ hwrt' = Append(hwrt, AttnOff)
  /\ IF expctd THEN HandedOut ELSE UNCHANGED <<expctd, cmdstat>>
  /\ taken' = IF CtrlReadValue = NOP THEN taken
              ELSE [taken EXCEPT ![CtrlReadValue] = @ + 1]

-----------------------------------------------------------------------------
(* Core 1: dc.c, and the shell commands of dc/cmd/cmds.c that use it *)

\* Request number Len(kind) + 1.  dm_mem_set, dm_port_put and dm_dbgr_mp leave
\* the completion of an earlier operation in place; GO and STEP pass NULL.
SlotFor(k, r) ==
  CASE k \in {"get", "mget"} -> r
    [] k = "put" -> slot
    [] k \in {"go", "step"} -> NONE

Request(k) ==
  LET r == Len(kind) + 1
  IN  /\ Len(kind) < MaxRequests
      /\ kind' = Append(kind, k)
      /\ slot' = SlotFor(k, r)
      /\ rcv' = IF k = "mget" THEN r ELSE rcv
      /\ hwrt' = Append(hwrt, CmdReq(r))

\* Nothing is under way: what a user waits for before the next command.
Quiet ==
  /\ hwrt = <<>> /\ app = <<>>
  /\ core0.at = "loop" /\ core1 = "loop"
  /\ ~attn /\ ~nmi
  /\ dm \in {"idle", "target"}

UserCommand(k) ==
  /\ Quiet
  /\ Request(k)
  /\ UNCHANGED <<app, core0, core1, cmdstat, expctd, pldVars, dmVars, mishaps,
                 histVars>>

\* dmc_op_cancel: ATTN off, then the stores of _dm_cmd_prep(DMNOP, false).
CancelAttn ==
  /\ core1 = "loop"
  /\ mishaps < MaxMishaps
  /\ Outstanding # {}
  /\ SetAttn(FALSE)
  /\ core1' = "cancel_cmdstat"
  /\ mishaps' = mishaps + 1
  /\ excused' = excused \cup Outstanding
  /\ UNCHANGED <<app, slot, rcv, kind, commVars, tgtmode, zid_init, sstep,
                 sr_brk, dmVars, special, taken, executed, completed>>

CancelCmdstat ==
  /\ core1 = "cancel_cmdstat"
  /\ cmdstat' = NOP
  /\ core1' = "cancel_expctd"
  /\ UNCHANGED <<app, slot, rcv, kind, hwrt, core0, expctd, pldVars, dmVars,
                 mishaps, histVars>>

CancelExpctd ==
  /\ core1 = "cancel_expctd"
  /\ expctd' = FALSE
  /\ core1' = "loop"
  /\ UNCHANGED <<app, slot, rcv, kind, hwrt, core0, cmdstat, pldVars, dmVars,
                 mishaps, histVars>>

\* _handle_dm_statusrcvd: a break or a step gets all the registers at once.
StatusRcvd(m) ==
  /\ m.id = "STATUSRCVD"
  /\ app' = Tail(app)
  /\ IF m.st \in {"DMBRKHIT", "DMSSDONE"}
       THEN Request("get")
       ELSE UNCHANGED <<kind, slot, rcv, hwrt>>
  /\ UNCHANGED completed

\* _handle_dm_cmddone: the handler that is set is posted, and unset.
Unset_Forgotten == UNCHANGED slot
Unset == slot' = NONE
CmdDoneRcvd(m) ==
  /\ m.id = "CMDDONE"
  /\ app' = Tail(app) \o IF slot = NONE THEN <<>> ELSE <<OpComplete(slot)>>
  /\ Unset
  /\ UNCHANGED <<kind, rcv, hwrt, completed>>

\* The posted handler runs.  For memory and ports that is _handle_dm_mget_done
\* (pget_done), which posts the user's handler and unsets the slot once more.
OpCompleteRcvd(m) ==
  /\ m.id = "OP_COMPLETE"
  /\ IF kind[m.req] = "mget"
       THEN /\ app' = Append(Tail(app), BufComplete(rcv))
            /\ slot' = NONE
            /\ UNCHANGED completed
       ELSE /\ app' = Tail(app)
            /\ completed' = [completed EXCEPT ![m.req] = @ + 1]
            /\ UNCHANGED slot
  /\ UNCHANGED <<kind, rcv, hwrt>>

\* The user's handler: the disassembler's asks for the next bytes (_disasm_c).
BufCompleteRcvd(m) ==
  /\ m.id = "BUF_COMPLETE"
  /\ app' = Tail(app)
  /\ completed' = [completed EXCEPT ![m.req] = @ + 1]
  /\ \/ Request("mget")
     \/ UNCHANGED <<kind, slot, rcv, hwrt>>

HandleApp ==
  /\ core1 = "loop"
  /\ app # <<>>
  /\ LET m == Head(app)
     IN StatusRcvd(m) \/ CmdDoneRcvd(m) \/ OpCompleteRcvd(m) \/ BufCompleteRcvd(m)
  /\ UNCHANGED <<core0, core1, cmdstat, expctd, pldVars, dmVars, mishaps,
                 special, taken, executed, excused>>

Core1 == CancelCmdstat \/ CancelExpctd \/ HandleApp

-----------------------------------------------------------------------------
(* The Debug Monitor: dbmon.z80 *)

Monitor(at) == dm = at /\ ~tgtmode /\ ~nmi   \* an NMI is taken before the next

notLink == <<core0, dcVars>>   \* what no step of the monitor changes

\* bahdlr: a reset.  The NMI enable bit tells the special reset of an initialised
\* board from a full one.
Bahdlr ==
  /\ Monitor("bahdlr")
  /\ zid_init' = FALSE
  /\ IF zid_init /\ (sstep \/ sr_brk \/ attn)
       THEN /\ dm' = IF attn THEN "cmdrd_out" ELSE "doc_statsend"
            /\ doc_stat' = IF sr_brk THEN "DMBRKHIT" ELSE "DMSSDONE"
            /\ sstep' = FALSE
            /\ UNCHANGED excused
       ELSE /\ dm' = "doinit"
            /\ excused' = excused \cup Outstanding
            /\ UNCHANGED <<doc_stat, sstep>>
  /\ UNCHANGED <<hwrt, cmdstat, expctd, notLink, attn, attn_tms, tgtmode, zsr_req,
                 sr_brk, nmi, doc_cmd, mishaps, special, taken, executed, completed>>

\* The RAM test takes long enough for both cores to handle what was posted before
\* the reset (see README).
SlowInit == InTime => hwrt = <<>> /\ core0.at = "loop" /\ app = <<>>

\* doinit: the RAM is tested and wiped and the NMI enabled, before DOC knows.
DoInit ==
  /\ Monitor("doinit")
  /\ SlowInit
  /\ zid_init' = TRUE
  /\ sstep' = FALSE
  /\ LatchNmi(attn, attn_tms, tgtmode, TRUE)
  /\ dm' = "wrdy_out"
  /\ UNCHANGED <<hwrt, cmdstat, expctd, notLink, attn, attn_tms, tgtmode, zsr_req,
                 sr_brk, doc_cmd, doc_stat, mishaps, histVars>>

\* The steps that write a status and go on.
Send(at, st, r, next) ==
  /\ Monitor(at)
  /\ CtrlWrite(st, r)
  /\ dm' = next
  /\ UNCHANGED <<cmdstat, expctd, notLink, pldVars, doc_cmd, doc_stat, mishaps,
                 special, taken, completed, excused>>

\* doc_wrdy sends DMINIT until DOC answers that it is ready.
WrdyOut == Send("wrdy_out", "DMINIT", NOP, "wrdy_in") /\ UNCHANGED executed
WrdyIn ==
  /\ Monitor("wrdy_in")
  /\ CtrlRead
  /\ dm' = IF CtrlReadValue = NOP THEN "attn_clr_chk" ELSE "wrdy_out"
  /\ UNCHANGED <<notLink, pldVars, doc_cmd, doc_stat, mishaps, special, executed,
                 completed, excused>>

\* go_idle waits for ATTN to be low, then enables the NMI, then halts.
AttnClrChk ==
  /\ Monitor("attn_clr_chk")
  /\ ~attn
  /\ dm' = "nmi_enable"
  /\ UNCHANGED <<hwrt, cmdstat, expctd, notLink, pldVars, doc_cmd, doc_stat, mishaps,
                 histVars>>
NmiEnable ==
  /\ Monitor("nmi_enable")
  /\ zid_init' = TRUE
  /\ LatchNmi(attn, attn_tms, tgtmode, TRUE)
  /\ dm' = "idle"
  /\ UNCHANGED <<hwrt, cmdstat, expctd, notLink, attn, attn_tms, tgtmode, sstep,
                 zsr_req, sr_brk, doc_cmd, doc_stat, mishaps, histVars>>

\* nmivec: the NMI is disabled, and a command asked for.
NmiVec ==
  /\ nmi
  /\ ~tgtmode
  /\ nmi' = FALSE
  /\ zid_init' = FALSE
  /\ dm' = "cmdrd_out"
  /\ UNCHANGED <<hwrt, cmdstat, expctd, notLink, attn, attn_tms, tgtmode, sstep,
                 zsr_req, sr_brk, doc_cmd, doc_stat, mishaps, histVars>>

\* doc_cmdrd: the status, then the read.  READY in place of a command is
\* answered like a start.
CmdrdOut == Send("cmdrd_out", "DMOKCMDRD", NOP, "cmdrd_in") /\ UNCHANGED executed
CmdrdIn ==
  /\ Monitor("cmdrd_in")
  /\ CtrlRead
  /\ doc_cmd' = CtrlReadValue
  /\ dm' = IF CtrlReadValue = NOP THEN "wrdy_out" ELSE "doccmdprc"
  /\ UNCHANGED <<notLink, pldVars, doc_stat, mishaps, special, executed, completed,
                 excused>>

\* doccmdprc and do_*: the command is carried out; GO and STEP set single step
\* and send DMTGTGO, the others end with DMOPDONE.
DoCommand ==
  /\ Monitor("doccmdprc")
  /\ kind[doc_cmd] \in {"get", "mget", "put"}
  /\ doc_stat' = "DMOPDONE"
  /\ dm' = "doc_statsend"
  /\ UNCHANGED <<hwrt, cmdstat, expctd, notLink, pldVars, doc_cmd, mishaps, histVars>>
DoGo ==
  /\ Monitor("doccmdprc")
  /\ kind[doc_cmd] \in {"go", "step"}
  /\ sstep' = (kind[doc_cmd] = "step")
  /\ CtrlWrite("DMTGTGO", NOP)
  /\ dm' = "tgthop"
  /\ executed' = executed \cup {doc_cmd}
  /\ UNCHANGED <<cmdstat, expctd, notLink, attn, attn_tms, tgtmode, zid_init,
                 zsr_req, sr_brk, nmi, doc_cmd, doc_stat, mishaps, special, taken,
                 completed, excused>>

\* doc_statsend: a command done, a break or a step is told DOC.
StatSend ==
  /\ Send("doc_statsend", doc_stat, doc_cmd, "attn_clr_chk")
  /\ executed' = IF doc_stat = "DMOPDONE" THEN executed \cup {doc_cmd} ELSE executed

\* TGTGO and the jump: the board enters Target mode.  Single step, or an ATTN that
\* is still on, ends it after one instruction.
TgtHop ==
  /\ Monitor("tgthop")
  /\ tgtmode' = TRUE
  /\ zsr_req' = (attn \/ sstep)
  /\ sr_brk' = FALSE
  /\ LatchNmi(attn, attn_tms, TRUE, zid_init)
  /\ dm' = "target"
  /\ UNCHANGED <<hwrt, cmdstat, expctd, notLink, attn, attn_tms, zid_init, sstep,
                 doc_cmd, doc_stat, mishaps, histVars>>

-----------------------------------------------------------------------------
(* Resets *)

\* A breakpoint is hit.
Break ==
  /\ tgtmode
  /\ ~zsr_req
  /\ mishaps < MaxMishaps
  /\ mishaps' = mishaps + 1
  /\ zsr_req' = TRUE
  /\ sr_brk' = TRUE
  /\ UNCHANGED <<hwrt, cmdstat, expctd, notLink, attn, attn_tms, tgtmode, zid_init,
                 sstep, nmi, dmVars, histVars>>

\* Target mode ends by a special reset.
SpecialReset ==
  /\ zsr_req
  /\ special' = TRUE
  /\ ZReset
  /\ UNCHANGED <<hwrt, cmdstat, expctd, notLink, attn, attn_tms, zid_init, sstep,
                 sr_brk, doc_cmd, doc_stat, mishaps, taken, executed, completed,
                 excused>>

\* The reset button.
FullReset ==
  /\ mishaps < MaxMishaps
  /\ mishaps' = mishaps + 1
  /\ zid_init' = FALSE
  /\ sstep' = FALSE
  /\ special' = FALSE
  /\ ZReset
  /\ excused' = excused \cup Outstanding
  /\ UNCHANGED <<hwrt, cmdstat, expctd, notLink, attn, attn_tms, sr_brk, doc_cmd,
                 doc_stat, taken, executed, completed>>

-----------------------------------------------------------------------------

Init ==
  /\ hwrt = <<>> /\ core0 = [at |-> "loop", msg |-> Nothing]
  /\ cmdstat = NOP /\ expctd = TRUE
  /\ app = <<>> /\ core1 = "loop" /\ slot = NONE /\ rcv = NONE /\ kind = <<>>
  /\ attn = FALSE /\ attn_tms = FALSE /\ tgtmode = FALSE /\ zid_init = FALSE
  /\ sstep = FALSE /\ zsr_req = FALSE /\ sr_brk = FALSE /\ nmi = FALSE
  /\ dm = "bahdlr" /\ doc_cmd = NOP /\ doc_stat = "DMOPDONE"
  /\ mishaps = 0
  /\ special = FALSE
  /\ taken = [r \in Reqs |-> 0] /\ completed = [r \in Reqs |-> 0]
  /\ executed = {} /\ excused = {}

DebugMonitor ==
  \/ Bahdlr \/ DoInit \/ WrdyOut \/ WrdyIn \/ AttnClrChk \/ NmiEnable \/ NmiVec
  \/ CmdrdOut \/ CmdrdIn \/ DoCommand \/ DoGo \/ StatSend \/ TgtHop
  \/ SpecialReset

\* Nothing is left to do.
Rest == Quiet /\ ~zsr_req /\ UNCHANGED vars

Next ==
  \/ Core0 \/ Core1 \/ DebugMonitor
  \/ \E k \in Kinds : UserCommand(k)
  \/ CancelAttn
  \/ Break
  \/ FullReset
  \/ Rest

Spec == Init /\ [][Next]_vars

\* The cores and the Z80 go on; users, breakpoints and buttons need not.
FairSpec ==
  Spec /\ WF_vars(Core0) /\ WF_vars(Core1) /\ WF_vars(DebugMonitor)

-----------------------------------------------------------------------------
(* Properties *)

Messages ==
  [id : {"CTRL_WRITE", "STATUSRCVD"}, st : Statuses, req : Reqs \cup {NOP}]
  \cup [id : {"ATTN_OFF", "CMD_REQ", "CMDDONE", "OP_COMPLETE", "BUF_COMPLETE", "none"},
        st : {"none"}, req : Reqs \cup {NOP}]

TypeOK ==
  /\ hwrt \in Seq(Messages) /\ app \in Seq(Messages)
  /\ core0 \in [at : {"loop", "expect", "finish"}, msg : Messages]
  /\ core1 \in {"loop", "cancel_cmdstat", "cancel_expctd"}
  /\ {cmdstat, doc_cmd} \subseteq Asked \cup {NOP}
  /\ {slot, rcv} \subseteq Asked \cup {NONE}
  /\ {expctd, attn, attn_tms, tgtmode, zid_init, sstep, zsr_req, sr_brk, nmi,
    special} \subseteq BOOLEAN
  /\ mishaps \in 0..MaxMishaps
  /\ kind \in Seq(Kinds) /\ Len(kind) <= MaxRequests
  /\ dm \in {"bahdlr", "doinit", "wrdy_out", "wrdy_in", "attn_clr_chk", "nmi_enable",
             "idle", "cmdrd_out", "cmdrd_in", "doccmdprc", "doc_statsend", "tgthop",
             "target"}
  /\ doc_stat \in Statuses
  /\ tgtmode <=> dm = "target"
  /\ dm = "doccmdprc" => doc_cmd # NOP
  /\ executed \cup excused \subseteq Asked

\* No command reaches the monitor twice, though the interrupt hands commands out
\* between the stores that prepare the next one and those that cancel it.
TakenOnce == \A r \in Reqs : taken[r] <= 1

\* No completion handler runs twice, and none runs for a command the monitor has
\* not carried out, but for one that a reset or a cancel hit before.
CompletedMeansExecuted ==
  \A r \in Reqs : /\ completed[r] <= 1
                  /\ completed[r] = 1 => r \in executed \cup excused

\* When all has fallen quiet every command has been carried out and has had its
\* handler run, but for those a reset, a return to Debug mode or a cancel hit:
\* no command is overwritten, and no wake-up or completion is lost.
QuietMeansServed ==
  Quiet => \A r \in Asked \ excused :
             /\ r \in executed
             /\ kind[r] \in {"get", "mget"} => completed[r] = 1

\* The link falls quiet again whatever happens: the monitor is never left waiting
\* for ATTN to clear, nor the two cores for a monitor that does not wake.
FallsQuiet == []<>Quiet

\* dbmon.z80:928: the NMI enable bit is left set in Target mode, "so we can use it
\* as an indicator that we've already initialized".  The code clears it on the
\* way to every GO (nmivec, _brkattn).
SpecialResetFindsInit == dm = "bahdlr" /\ special => zid_init
=============================================================================

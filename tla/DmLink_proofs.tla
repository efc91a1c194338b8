---------------------------- MODULE DmLink_proofs ----------------------------
(***************************************************************************)
(* Proofs about DmLink for any number of requests, cancels, breakpoints    *)
(* and resets.                                                             *)
(*                                                                         *)
(* That no command is taken twice needs no assumption on timing.  It       *)
(* follows from what a request is at any moment: a message in core 0's     *)
(* queue, then what _dm_cmdstat holds, then taken.  It never is two of     *)
(* these, and never goes back.                                             *)
(*                                                                         *)
(* That completions are right, and that a quiet link has served every      *)
(* command, holds under InTime only.  It follows from where the one        *)
(* command under way is: in the queue, in preparation, prepared with ATTN  *)
(* on, in the monitor, or done and on its way back to its handler.         *)
(***************************************************************************)
EXTENDS DmLink, TLAPS

\* The messages in the queues of the cores: requests are ones that were made.
HwrtMsgs ==
  {m \in Messages : /\ m.id \in {"CTRL_WRITE", "ATTN_OFF", "CMD_REQ"}
                    /\ m.req \in Asked \cup {NOP}
                    /\ m.id = "CMD_REQ" => m.req # NOP
                    /\ m.id = "CTRL_WRITE" => m.st \in Statuses}
AppMsgs ==
  {m \in Messages : /\ m.id \in {"STATUSRCVD", "CMDDONE", "OP_COMPLETE", "BUF_COMPLETE"}
                    /\ m.req \in Asked \cup {NOP}
                    /\ m.id = "STATUSRCVD" => m.st \in Statuses}

QueuesOK ==
  /\ hwrt \in Seq(HwrtMsgs)
  /\ app \in Seq(AppMsgs)
  /\ core0.at # "loop" => core0.msg \in HwrtMsgs /\ core0.msg.id # "ATTN_OFF"

\* A request waits in the queue, waits in _dm_cmdstat or has been taken.
Untaken ==
  /\ taken \in [Reqs -> 0..1]
  /\ \A i, j \in 1..Len(hwrt) :
       hwrt[i].id = "CMD_REQ" /\ hwrt[j].id = "CMD_REQ" /\ hwrt[i].req = hwrt[j].req
         => i = j
  /\ \A i \in 1..Len(hwrt) :
       hwrt[i].id = "CMD_REQ" => taken[hwrt[i].req] = 0 /\ cmdstat # hwrt[i].req
  /\ cmdstat # NOP => taken[cmdstat] = 0
  /\ \A r \in Reqs : r > Len(kind) => taken[r] = 0

\* The monitor sends "operation done" only for a command it has read.
DoneIsOfCommand == dm = "doc_statsend" /\ doc_stat = "DMOPDONE" => doc_cmd # NOP

IInv == TypeOK /\ QueuesOK /\ Untaken /\ DoneIsOfCommand

\* TypeOK and the rest by what steps change together: the cores, and the board
\* with the monitor.
CoresOK ==
  /\ QueuesOK
  /\ core0 \in [at : {"loop", "expect", "finish"}, msg : Messages]
  /\ core1 \in {"loop", "cancel_cmdstat", "cancel_expctd"}
  /\ cmdstat \in Asked \cup {NOP}
  /\ slot \in Asked \cup {NONE} /\ rcv \in Asked \cup {NONE}
  /\ expctd \in BOOLEAN
  /\ kind \in Seq(Kinds) /\ Len(kind) <= MaxRequests

DmStates == {"bahdlr", "doinit", "wrdy_out", "wrdy_in", "attn_clr_chk", "nmi_enable",
             "idle", "cmdrd_out", "cmdrd_in", "doccmdprc", "doc_statsend", "tgthop",
             "target"}
BoardOK ==
  /\ {attn, attn_tms, tgtmode, zid_init, sstep, zsr_req, sr_brk, nmi, special}
       \subseteq BOOLEAN
  /\ mishaps \in 0..MaxMishaps
  /\ dm \in DmStates
  /\ doc_cmd \in Asked \cup {NOP}
  /\ doc_stat \in Statuses
  /\ tgtmode <=> dm = "target"
  /\ dm = "doccmdprc" => doc_cmd # NOP
  /\ DoneIsOfCommand
  /\ executed \subseteq Asked /\ excused \subseteq Asked

-----------------------------------------------------------------------------
(* What a step does to the queues. *)

\* The queues are typed whether or not requests are made meanwhile.
LEMMA QueuesTyped ==
  ASSUME IInv
  PROVE  /\ hwrt \in Seq(Messages) /\ app \in Seq(Messages)
         /\ Len(hwrt) \in Nat /\ Len(app) \in Nat
         /\ \A i \in 1..Len(hwrt) : hwrt[i] \in HwrtMsgs
         /\ \A i \in 1..Len(app) : app[i] \in AppMsgs
         /\ hwrt # <<>> => /\ Head(hwrt) = hwrt[1] /\ Head(hwrt) \in HwrtMsgs
                           /\ Tail(hwrt) \in Seq(HwrtMsgs)
         /\ app # <<>> => /\ Head(app) \in AppMsgs /\ Tail(app) \in Seq(AppMsgs)
  BY DEF IInv, TypeOK, QueuesOK

\* The messages the handlers post.
LEMMA MessagesMade ==
  ASSUME NEW r \in Asked \cup {NOP}, Asked \subseteq Reqs
  PROVE  /\ \A st \in Statuses : Write(st, r) \in HwrtMsgs /\ Status(st) \in AppMsgs
         /\ AttnOff \in HwrtMsgs
         /\ CmdDone(r) \in AppMsgs
         /\ OpComplete(r) \in AppMsgs
         /\ BufComplete(r) \in AppMsgs
         /\ r # NOP => CmdReq(r) \in HwrtMsgs
<1>1. r \in Reqs \cup {NOP} /\ NOP \in Asked \cup {NOP} /\ NOP \in Reqs \cup {NOP}
  OBVIOUS
<1>2. \A st \in Statuses : Write(st, r) \in HwrtMsgs
  BY <1>1 DEF Write, HwrtMsgs, Messages
<1>3. \A st \in Statuses : Status(st) \in AppMsgs
  BY <1>1 DEF Status, AppMsgs, Messages
<1>4. AttnOff \in HwrtMsgs
  BY <1>1 DEF AttnOff, HwrtMsgs, Messages
<1>5. CmdDone(r) \in AppMsgs /\ OpComplete(r) \in AppMsgs /\ BufComplete(r) \in AppMsgs
  BY <1>1 DEF CmdDone, OpComplete, BufComplete, AppMsgs, Messages
<1>6. r # NOP => CmdReq(r) \in HwrtMsgs
  BY <1>1 DEF CmdReq, HwrtMsgs, Messages
<1>7. QED BY <1>2, <1>3, <1>4, <1>5, <1>6

\* What is known of the requests made.
LEMMA AskedFacts ==
  ASSUME IInv
  PROVE  /\ Len(kind) \in Nat /\ Asked \subseteq Reqs
         /\ \A r \in Reqs : r \in Asked <=> r <= Len(kind)
         /\ NOP \notin Reqs
  BY DmLinkAssumption DEF IInv, TypeOK, Asked, Reqs, NOP

\* A queue may hold what it held before more requests were made.
LEMMA QueuesGrow ==
  ASSUME IInv, NEW k \in Kinds, kind' = Append(kind, k), Len(kind) < MaxRequests
  PROVE  /\ kind' \in Seq(Kinds) /\ Len(kind') = Len(kind) + 1
         /\ Asked \subseteq Asked' /\ Asked' \subseteq Reqs
         /\ Len(kind) + 1 \in Asked' /\ Len(kind) + 1 \in Reqs
         /\ HwrtMsgs \subseteq HwrtMsgs' /\ AppMsgs \subseteq AppMsgs'
         /\ \A q : q \in Seq(HwrtMsgs) => q \in Seq(HwrtMsgs')
         /\ \A q : q \in Seq(AppMsgs) => q \in Seq(AppMsgs')
<1>1. /\ kind' \in Seq(Kinds) /\ Len(kind') = Len(kind) + 1
      /\ Len(kind) \in Nat
  BY DEF IInv, TypeOK
<1>2. Asked \subseteq Asked' /\ Asked' \subseteq Reqs
      /\ Len(kind) + 1 \in Asked' /\ Len(kind) + 1 \in Reqs
  BY <1>1, DmLinkAssumption DEF Asked, Reqs
<1>3. HwrtMsgs \subseteq HwrtMsgs' /\ AppMsgs \subseteq AppMsgs'
  BY <1>2 DEF HwrtMsgs, AppMsgs
<1>4. \A q : q \in Seq(HwrtMsgs) => q \in Seq(HwrtMsgs')
  BY <1>3
<1>5. \A q : q \in Seq(AppMsgs) => q \in Seq(AppMsgs')
  BY <1>3
<1>6. QED BY <1>1, <1>2, <1>3, <1>4, <1>5

-----------------------------------------------------------------------------
(* Untaken: what may happen to a request. *)

\* A message that is no request changes nothing for the requests, at either end
\* of the queue.
LEMMA AppendUntaken ==
  ASSUME IInv, NEW m, m.id # "CMD_REQ", hwrt' = Append(hwrt, m),
         UNCHANGED <<cmdstat, taken, kind>>
  PROVE  Untaken'
<1>1. /\ Len(hwrt') = Len(hwrt) + 1
      /\ \A i \in 1..Len(hwrt) : hwrt'[i] = hwrt[i]
      /\ hwrt'[Len(hwrt) + 1] = m /\ Len(hwrt) \in Nat
  BY DEF IInv, TypeOK
<1>2. \A i \in 1..Len(hwrt') : hwrt'[i].id = "CMD_REQ" => i \in 1..Len(hwrt)
  BY <1>1
<1>3. QED BY <1>1, <1>2 DEF IInv, Untaken

LEMMA TailUntaken ==
  ASSUME IInv, hwrt # <<>>, hwrt' = Tail(hwrt), UNCHANGED <<cmdstat, taken, kind>>
  PROVE  Untaken'
<1>1. /\ Len(hwrt') = Len(hwrt) - 1 /\ Len(hwrt) \in Nat
      /\ \A i \in 1..Len(hwrt') : hwrt'[i] = hwrt[i + 1] /\ i + 1 \in 1..Len(hwrt)
  BY DEF IInv, TypeOK
<1>2. QED BY <1>1 DEF IInv, Untaken

LEMMA UnchangedUntaken ==
  ASSUME IInv, UNCHANGED <<hwrt, cmdstat, taken, kind>>
  PROVE  Untaken'
  BY DEF IInv, Untaken

\* A new request waits in the queue and nowhere else.
LEMMA RequestUntaken ==
  ASSUME IInv, NEW k \in Kinds, Request(k), UNCHANGED <<cmdstat, taken>>
  PROVE  Untaken'
<1> DEFINE r == Len(kind) + 1
<1>1. /\ kind' = Append(kind, k) /\ Len(kind) < MaxRequests
      /\ hwrt' = Append(hwrt, CmdReq(r))
  BY DEF Request
<1>2. Len(kind') = r /\ r \in Reqs /\ Len(kind) \in Nat
  BY <1>1, QueuesGrow DEF IInv, TypeOK
<1>3. /\ Len(hwrt') = Len(hwrt) + 1 /\ Len(hwrt) \in Nat
      /\ \A i \in 1..Len(hwrt) : hwrt'[i] = hwrt[i]
      /\ hwrt'[Len(hwrt) + 1] = CmdReq(r)
  BY <1>1 DEF IInv, TypeOK
<1>4. taken[r] = 0
  BY <1>2 DEF IInv, Untaken
<1>5. CmdReq(r).req = r
  BY DEF CmdReq
<1>6. \A i \in 1..Len(hwrt) : hwrt[i].id = "CMD_REQ" => hwrt[i].req # r
  BY <1>2, QueuesTyped, AskedFacts DEF HwrtMsgs, Asked
<1>7. cmdstat # r
  BY <1>2, AskedFacts DEF IInv, TypeOK, Asked, NOP
<1>8. \A i, j \in 1..Len(hwrt') :
        hwrt'[i].id = "CMD_REQ" /\ hwrt'[j].id = "CMD_REQ" /\ hwrt'[i].req = hwrt'[j].req
          => i = j
  BY <1>3, <1>5, <1>6 DEF IInv, Untaken
<1>9. \A i \in 1..Len(hwrt') :
        hwrt'[i].id = "CMD_REQ" => taken[hwrt'[i].req] = 0 /\ cmdstat # hwrt'[i].req
  BY <1>3, <1>4, <1>5, <1>7 DEF IInv, Untaken
<1>10. \A q \in Reqs : q > Len(kind') => taken[q] = 0
  BY <1>2 DEF IInv, Untaken, Reqs
<1>11. QED BY <1>8, <1>9, <1>10 DEF IInv, Untaken

\* The interrupt's read: what it hands out was in _dm_cmdstat and is no longer.
LEMMA CtrlReadUntaken ==
  ASSUME IInv, CtrlRead, UNCHANGED kind
  PROVE  Untaken'
<1>1. hwrt' = Append(hwrt, AttnOff) /\ AttnOff.id # "CMD_REQ"
  BY DEF CtrlRead, AttnOff
<1>2. CASE CtrlReadValue = NOP
  <2>1. taken' = taken /\ cmdstat' \in {cmdstat, NOP}
    BY <1>2 DEF CtrlRead, HandedOut
  <2>2. CASE cmdstat' = cmdstat
    BY <2>1, <2>2, <1>1, AppendUntaken
  <2>3. CASE cmdstat' = NOP
    <3>1. /\ Len(hwrt') = Len(hwrt) + 1 /\ Len(hwrt) \in Nat
          /\ \A i \in 1..Len(hwrt) : hwrt'[i] = hwrt[i]
          /\ hwrt'[Len(hwrt) + 1] = AttnOff
      BY <1>1 DEF IInv, TypeOK
    <3>2. \A i \in 1..Len(hwrt') : hwrt'[i].id = "CMD_REQ" => i \in 1..Len(hwrt)
      BY <1>1, <3>1
    <3>3. \A i \in 1..Len(hwrt) : hwrt[i].id = "CMD_REQ" => hwrt[i].req # NOP
      BY QueuesTyped DEF HwrtMsgs
    <3>4. QED BY <2>1, <2>3, <3>1, <3>2, <3>3 DEF IInv, Untaken
  <2>4. QED BY <2>1, <2>2, <2>3
<1>3. CASE CtrlReadValue # NOP
  <2>1. CtrlReadValue = cmdstat /\ cmdstat' = NOP
        /\ taken' = [taken EXCEPT ![cmdstat] = @ + 1]
    BY <1>3 DEF CtrlRead, CtrlReadValue, HandedOut
  <2>2. cmdstat \in Asked /\ cmdstat \in Reqs /\ taken[cmdstat] = 0
    BY <1>3, <2>1, AskedFacts DEF IInv, TypeOK, Untaken
  <2>3. /\ Len(hwrt') = Len(hwrt) + 1 /\ Len(hwrt) \in Nat
        /\ \A i \in 1..Len(hwrt) : hwrt'[i] = hwrt[i]
        /\ hwrt'[Len(hwrt) + 1] = AttnOff
    BY <1>1 DEF IInv, TypeOK
  <2>4. \A i \in 1..Len(hwrt') : hwrt'[i].id = "CMD_REQ" => i \in 1..Len(hwrt)
    BY <1>1, <2>3
  <2>5. \A i \in 1..Len(hwrt) : hwrt[i].id = "CMD_REQ" => hwrt[i].req \in Reqs
    BY QueuesTyped, AskedFacts DEF HwrtMsgs
  <2>6. taken \in [Reqs -> 0..1] /\ taken' \in [Reqs -> 0..1]
    BY <2>1, <2>2 DEF IInv, Untaken
  <2>7. \A q \in Reqs : q # cmdstat => taken'[q] = taken[q]
    BY <2>1, <2>6
  <2>8. \A i \in 1..Len(hwrt') :
          hwrt'[i].id = "CMD_REQ" => taken'[hwrt'[i].req] = 0 /\ NOP # hwrt'[i].req
    BY <2>3, <2>4, <2>5, <2>7, AskedFacts DEF IInv, Untaken
  <2>9. \A q \in Reqs : q > Len(kind) => taken'[q] = 0
    <3>1. cmdstat <= Len(kind) /\ cmdstat \in Nat /\ Len(kind) \in Nat
      BY <2>2, AskedFacts DEF Asked
    <3>2. \A q \in Reqs : q > Len(kind) => q # cmdstat
      BY <3>1 DEF Reqs
    <3>3. QED BY <3>2, <2>7 DEF IInv, Untaken
  <2>10. \A i, j \in 1..Len(hwrt') :
           hwrt'[i].id = "CMD_REQ" /\ hwrt'[j].id = "CMD_REQ" /\ hwrt'[i].req = hwrt'[j].req
             => i = j
    BY <2>3, <2>4 DEF IInv, Untaken
  <2>11. QED BY <2>1, <2>6, <2>8, <2>9, <2>10 DEF Untaken
<1>4. QED BY <1>2, <1>3

-----------------------------------------------------------------------------
(* The invariant by its parts. *)

\* The parts make up the invariant.
LEMMA PartsOfIInv == IInv => CoresOK /\ BoardOK /\ Untaken
  BY DEF IInv, TypeOK, CoresOK, BoardOK, DmStates
\* And nothing else is in it.
LEMMA PartsMakeIInv == (CoresOK /\ BoardOK /\ Untaken)' => IInv'
<1>1. SUFFICES ASSUME (CoresOK /\ BoardOK /\ Untaken)' PROVE TypeOK'
  BY DEF IInv, CoresOK, BoardOK
<1>2. HwrtMsgs' \subseteq Messages /\ AppMsgs' \subseteq Messages
  BY DEF HwrtMsgs, AppMsgs
<1>3. (hwrt \in Seq(Messages) /\ app \in Seq(Messages))'
  BY <1>1, <1>2 DEF CoresOK, QueuesOK
<1>4. QED BY <1>1, <1>3 DEF CoresOK, BoardOK, DmStates, TypeOK

\* A step of the monitor or of the board that leaves the port alone.
LEMMA CoresKept ==
  ASSUME IInv, UNCHANGED <<hwrt, core0, cmdstat, expctd, dcVars, taken>>
  PROVE  CoresOK' /\ Untaken'
<1>1. UNCHANGED <<HwrtMsgs, AppMsgs, Asked>>
  BY DEF HwrtMsgs, AppMsgs, Asked, dcVars
<1>2. CoresOK'
  BY <1>1, PartsOfIInv DEF CoresOK, QueuesOK, dcVars
<1>3. Untaken'
  BY UnchangedUntaken DEF dcVars
<1>4. QED BY <1>2, <1>3

\* A step of the cores that leaves the board alone; requests may be made.
LEMMA BoardKept ==
  ASSUME IInv, Asked \subseteq Asked',
         UNCHANGED <<pldVars, dmVars, mishaps, special, executed, excused>>
  PROVE  BoardOK'
  BY PartsOfIInv DEF BoardOK, DoneIsOfCommand, pldVars, dmVars

\* A switch of ATTN leaves the rest of the board alone.
LEMMA AttnKept ==
  ASSUME IInv, NEW on \in BOOLEAN, SetAttn(on), UNCHANGED Asked,
         UNCHANGED <<tgtmode, zid_init, sstep, sr_brk, dmVars, special, executed>>,
         mishaps' \in 0..MaxMishaps, excused' \subseteq Asked
  PROVE  BoardOK'
<1>1. {attn', attn_tms', zsr_req', nmi'} \subseteq BOOLEAN
  BY PartsOfIInv DEF BoardOK, SetAttn, LatchNmi, Znmi
<1>2. QED BY <1>1, PartsOfIInv DEF BoardOK, DoneIsOfCommand, dmVars

-----------------------------------------------------------------------------
(* The steps of the monitor and of the board. *)

\* The steps of the monitor that leave the CTRL port alone.
LEMMA MonitorKeeps ==
  ASSUME IInv,
         Bahdlr \/ DoInit \/ AttnClrChk \/ NmiEnable \/ NmiVec \/ DoCommand \/ TgtHop
  PROVE  IInv'
<1>1. UNCHANGED <<hwrt, core0, cmdstat, expctd, dcVars, taken>>
  BY DEF Bahdlr, DoInit, AttnClrChk, NmiEnable, NmiVec, DoCommand, TgtHop, notLink,
         histVars
<1>2. UNCHANGED Asked
  BY <1>1 DEF Asked, dcVars
<1>3. BoardOK'
  <2>1. CASE Bahdlr
    BY <2>1, <1>2, PartsOfIInv DEF Bahdlr, BoardOK, DmStates, Statuses, Monitor,
       DoneIsOfCommand, Outstanding
  <2>2. CASE DoInit
    BY <2>2, <1>2, PartsOfIInv DEF DoInit, BoardOK, DmStates, Monitor, LatchNmi,
       DoneIsOfCommand, histVars
  <2>3. CASE AttnClrChk
    BY <2>3, <1>2, PartsOfIInv DEF AttnClrChk, BoardOK, DmStates, Monitor, pldVars,
       DoneIsOfCommand, histVars
  <2>4. CASE NmiEnable
    BY <2>4, <1>2, PartsOfIInv DEF NmiEnable, BoardOK, DmStates, Monitor, LatchNmi,
       DoneIsOfCommand, histVars
  <2>5. CASE NmiVec
    BY <2>5, <1>2, PartsOfIInv DEF NmiVec, BoardOK, DmStates, DoneIsOfCommand, histVars
  <2>6. CASE DoCommand
    BY <2>6, <1>2, PartsOfIInv DEF DoCommand, BoardOK, DmStates, Statuses, Monitor,
       pldVars, DoneIsOfCommand, histVars
  <2>7. CASE TgtHop
    BY <2>7, <1>2, PartsOfIInv DEF TgtHop, BoardOK, DmStates, Monitor, LatchNmi,
       DoneIsOfCommand, histVars
  <2>8. QED BY <2>1, <2>2, <2>3, <2>4, <2>5, <2>6, <2>7
<1>4. QED BY <1>1, <1>3, CoresKept, PartsMakeIInv

\* Breakpoints and resets.
LEMMA ResetsKeep ==
  ASSUME IInv, Break \/ SpecialReset \/ FullReset
  PROVE  IInv'
<1>1. UNCHANGED <<hwrt, core0, cmdstat, expctd, dcVars, taken>>
  BY DEF Break, SpecialReset, FullReset, notLink, histVars
<1>2. UNCHANGED Asked
  BY <1>1 DEF Asked, dcVars
<1>3. BoardOK'
  <2>1. CASE Break
    BY <2>1, <1>2, PartsOfIInv, DmLinkAssumption
    DEF Break, BoardOK, DoneIsOfCommand, dmVars, histVars
  <2>2. CASE SpecialReset
    BY <2>2, <1>2, PartsOfIInv
    DEF SpecialReset, ZReset, BoardOK, DmStates, DoneIsOfCommand
  <2>3. CASE FullReset
    <3>1. mishaps' \in 0..MaxMishaps
      BY <2>3, PartsOfIInv, DmLinkAssumption DEF FullReset, BoardOK
    <3>2. excused' \subseteq Asked
      BY <2>3, PartsOfIInv DEF FullReset, BoardOK, Outstanding
    <3>3. QED
      BY <2>3, <1>2, <3>1, <3>2, PartsOfIInv
      DEF FullReset, ZReset, BoardOK, DmStates, DoneIsOfCommand
  <2>4. QED BY <2>1, <2>2, <2>3
<1>4. QED BY <1>1, <1>3, CoresKept, PartsMakeIInv

-----------------------------------------------------------------------------
(* The steps at the CTRL port. *)

\* A message at the end of core 0's queue.
LEMMA CoresPosted ==
  ASSUME IInv, NEW m \in HwrtMsgs, hwrt' = Append(hwrt, m),
         UNCHANGED <<core0, dcVars>>,
         cmdstat' \in {cmdstat, NOP}, expctd' \in BOOLEAN
  PROVE  CoresOK'
<1>1. UNCHANGED <<HwrtMsgs, AppMsgs, Asked>>
  BY DEF HwrtMsgs, AppMsgs, Asked, dcVars
<1>2. hwrt' \in Seq(HwrtMsgs)
  BY DEF IInv, QueuesOK
<1>3. QED BY <1>1, <1>2, PartsOfIInv DEF CoresOK, QueuesOK, dcVars

\* The steps of the monitor that write a status.
LEMMA SendsKeep ==
  ASSUME IInv, WrdyOut \/ CmdrdOut \/ StatSend \/ DoGo
  PROVE  IInv'
<1>1. PICK st \in Statuses, r \in Asked \cup {NOP} : CtrlWrite(st, r)
  <2>1. CASE WrdyOut
    BY <2>1 DEF WrdyOut, Send, Statuses
  <2>2. CASE CmdrdOut
    BY <2>2 DEF CmdrdOut, Send, Statuses
  <2>3. CASE StatSend
    BY <2>3, PartsOfIInv DEF StatSend, Send, BoardOK
  <2>4. CASE DoGo
    BY <2>4 DEF DoGo, Statuses
  <2>5. QED BY <2>1, <2>2, <2>3, <2>4
<1>2. UNCHANGED <<core0, dcVars, cmdstat, expctd, taken>> /\ UNCHANGED Asked
  BY DEF WrdyOut, CmdrdOut, StatSend, DoGo, Send, notLink, Asked, dcVars
<1>3. hwrt' = Append(hwrt, Write(st, r)) /\ Write(st, r) \in HwrtMsgs
  BY <1>1, MessagesMade, AskedFacts DEF CtrlWrite
<1>4. Write(st, r).id # "CMD_REQ"
  BY DEF Write
<1>5. CoresOK'
  <2>1. PICK m \in HwrtMsgs : m = Write(st, r)
    BY <1>3
  <2>2. QED BY <2>1, <1>2, <1>3, CoresPosted, PartsOfIInv DEF CoresOK
<1>6. Untaken'
  <2>1. PICK m : m = Write(st, r)
    OBVIOUS
  <2>2. QED BY <2>1, <1>2, <1>3, <1>4, AppendUntaken DEF dcVars
<1>7. BoardOK'
  <2>1. CASE WrdyOut
    BY <2>1, <1>2, PartsOfIInv DEF WrdyOut, Send, BoardOK, DmStates, Monitor, pldVars,
       DoneIsOfCommand
  <2>2. CASE CmdrdOut
    BY <2>2, <1>2, PartsOfIInv DEF CmdrdOut, Send, BoardOK, DmStates, Monitor, pldVars,
       DoneIsOfCommand
  <2>3. CASE StatSend
    <3>1. executed' \subseteq Asked
      BY <2>3, PartsOfIInv DEF StatSend, Send, BoardOK, DoneIsOfCommand, Monitor
    <3>2. QED
      BY <2>3, <3>1, <1>2, PartsOfIInv DEF StatSend, Send, BoardOK, DmStates, Monitor,
         pldVars, DoneIsOfCommand
  <2>4. CASE DoGo
    <3>1. executed' \subseteq Asked
      BY <2>4, PartsOfIInv DEF DoGo, BoardOK, Monitor
    <3>2. sstep' \in BOOLEAN
      BY <2>4 DEF DoGo
    <3>3. QED
      BY <2>4, <3>1, <3>2, <1>2, PartsOfIInv DEF DoGo, BoardOK, DmStates, Monitor,
         DoneIsOfCommand
  <2>5. QED BY <2>1, <2>2, <2>3, <2>4
<1>8. QED BY <1>5, <1>6, <1>7, PartsMakeIInv

\* The steps of the monitor that read the port.
LEMMA ReadsKeep ==
  ASSUME IInv, WrdyIn \/ CmdrdIn
  PROVE  IInv'
<1>1. CtrlRead /\ UNCHANGED <<core0, dcVars>> /\ UNCHANGED <<kind, Asked>>
  BY DEF WrdyIn, CmdrdIn, notLink, Asked, dcVars
<1>2. Untaken'
  BY <1>1, CtrlReadUntaken
<1>3. CoresOK'
  <2>1. cmdstat' \in {cmdstat, NOP} /\ expctd' \in BOOLEAN
    BY <1>1, PartsOfIInv DEF CtrlRead, HandedOut, CoresOK
  <2>2. AttnOff \in HwrtMsgs
    BY MessagesMade, AskedFacts
  <2>3. PICK m \in HwrtMsgs : m = AttnOff
    BY <2>2
  <2>4. QED BY <1>1, <2>1, <2>3, CoresPosted DEF CtrlRead
<1>4. BoardOK'
  <2>1. CtrlReadValue \in Asked \cup {NOP}
    BY PartsOfIInv DEF CtrlReadValue, CoresOK
  <2>2. CASE WrdyIn
    BY <2>2, <1>1, PartsOfIInv DEF WrdyIn, BoardOK, DmStates, Monitor, pldVars,
       DoneIsOfCommand
  <2>3. CASE CmdrdIn
    BY <2>3, <2>1, <1>1, PartsOfIInv DEF CmdrdIn, BoardOK, DmStates, Monitor, pldVars,
       DoneIsOfCommand
  <2>4. QED BY <2>2, <2>3
<1>5. QED BY <1>2, <1>3, <1>4, PartsMakeIInv

-----------------------------------------------------------------------------
(* The steps of core 0. *)

\* What is passed on to core 1 is made of the monitor's statuses.
LEMMA ForwardedTyped ==
  ASSUME IInv, NEW m \in HwrtMsgs, m.id = "CTRL_WRITE"
  PROVE  Forwarded(m) \in Seq(AppMsgs)
<1>1. m.st \in Statuses /\ m.req \in Asked \cup {NOP}
  BY DEF HwrtMsgs
<1>2. PICK r \in Asked \cup {NOP} : r = m.req
  BY <1>1
<1>3. Status(m.st) \in AppMsgs /\ CmdDone(m.req) \in AppMsgs
  BY <1>1, <1>2, MessagesMade, AskedFacts
<1>4. QED BY <1>3 DEF Forwarded

\* A step of core 0, given what it leaves in the queues.
LEMMA CoresHandled ==
  ASSUME IInv, hwrt' \in Seq(HwrtMsgs), app' \in Seq(AppMsgs),
         core0' \in [at : {"loop", "expect", "finish"}, msg : Messages],
         core0'.at # "loop" => core0'.msg \in HwrtMsgs /\ core0'.msg.id # "ATTN_OFF",
         cmdstat' \in Asked \cup {NOP}, expctd' \in BOOLEAN,
         UNCHANGED <<core1, slot, rcv, kind>>
  PROVE  CoresOK'
<1>1. UNCHANGED <<HwrtMsgs, AppMsgs, Asked>>
  BY DEF HwrtMsgs, AppMsgs, Asked
<1>2. QED BY <1>1, PartsOfIInv DEF CoresOK, QueuesOK

\* A message handled at once.
LEMMA HandleMsgKeeps == ASSUME IInv, HandleMsg PROVE IInv'
<1>1. /\ hwrt # <<>> /\ ~Prepares(Head(hwrt)) /\ hwrt' = Tail(hwrt)
      /\ UNCHANGED <<core0, cmdstat, expctd, core1, slot, rcv, kind, tgtmode,
                     zid_init, sstep, sr_brk, dmVars, mishaps, special, taken,
                     executed, excused>>
  BY DEF HandleMsg, histVars
<1>2. PICK m \in HwrtMsgs : m = Head(hwrt)
  BY <1>1, QueuesTyped
<1>3. UNCHANGED Asked /\ Tail(hwrt) \in Seq(HwrtMsgs)
  BY <1>1, QueuesTyped DEF Asked
<1>4. Untaken'
  BY <1>1, TailUntaken
<1>5. core0 \in [at : {"loop", "expect", "finish"}, msg : Messages]
      /\ core0.at = "loop" /\ cmdstat \in Asked \cup {NOP} /\ expctd \in BOOLEAN
  BY PartsOfIInv DEF CoresOK, HandleMsg
<1>6. CASE m.id = "ATTN_OFF"
  <2>1. SetAttn(FALSE) /\ app' = app
    BY <1>2, <1>6 DEF HandleMsg
  <2>2. CoresOK'
    BY <1>1, <1>3, <1>5, <2>1, CoresHandled DEF IInv, QueuesOK
  <2>3. BoardOK'
    BY <1>1, <1>3, <2>1, AttnKept, PartsOfIInv DEF BoardOK
  <2>4. QED BY <1>4, <2>2, <2>3, PartsMakeIInv
<1>7. CASE m.id # "ATTN_OFF"
  <2>1. app' = app \o Forwarded(m) /\ UNCHANGED <<attn, attn_tms, zsr_req, nmi>>
    BY <1>2, <1>7 DEF HandleMsg
  <2>2. m.id = "CTRL_WRITE"
    BY <1>1, <1>2, <1>7 DEF HwrtMsgs, Prepares
  <2>3. app' \in Seq(AppMsgs)
    BY <2>1, <2>2, ForwardedTyped DEF IInv, QueuesOK
  <2>4. CoresOK'
    BY <1>1, <1>3, <1>5, <2>3, CoresHandled
  <2>5. BoardOK'
    BY <1>1, <1>3, <2>1, BoardKept DEF pldVars
  <2>6. QED BY <1>4, <2>4, <2>5, PartsMakeIInv
<1>8. QED BY <1>6, <1>7

\* The first store of a preparation: a request moves from the queue's head to
\* _dm_cmdstat, over whatever is there.
LEMMA StoreUntaken ==
  ASSUME IInv, hwrt # <<>>, hwrt' = Tail(hwrt), cmdstat' = Prepared(Head(hwrt)),
         UNCHANGED <<taken, kind>>
  PROVE  Untaken'
<1>1. /\ Len(hwrt') = Len(hwrt) - 1 /\ Len(hwrt) \in Nat
      /\ \A i \in 1..Len(hwrt') : hwrt'[i] = hwrt[i + 1] /\ i + 1 \in 1..Len(hwrt)
      /\ Head(hwrt) = hwrt[1] /\ 1 \in 1..Len(hwrt)
  BY DEF IInv, TypeOK
<1>2. \A i \in 1..Len(hwrt) : hwrt[i].id = "CMD_REQ" => hwrt[i].req # NOP
  BY QueuesTyped DEF HwrtMsgs
<1>3. /\ \A i, j \in 1..Len(hwrt') :
           hwrt'[i].id = "CMD_REQ" /\ hwrt'[j].id = "CMD_REQ"
             /\ hwrt'[i].req = hwrt'[j].req => i = j
      /\ \A i \in 1..Len(hwrt') : hwrt'[i].id = "CMD_REQ" => taken[hwrt'[i].req] = 0
  BY <1>1 DEF IInv, Untaken
<1>4. CASE hwrt[1].id = "CMD_REQ"
  <2>1. cmdstat' = hwrt[1].req /\ taken[hwrt[1].req] = 0
    BY <1>1, <1>4 DEF Prepared, IInv, Untaken
  <2>2. \A i \in 1..Len(hwrt') : hwrt'[i].id = "CMD_REQ" => hwrt[1].req # hwrt'[i].req
    BY <1>1, <1>4 DEF IInv, Untaken
  <2>3. QED BY <1>3, <2>1, <2>2 DEF IInv, Untaken
<1>5. CASE hwrt[1].id # "CMD_REQ"
  <2>1. cmdstat' = NOP
    BY <1>1, <1>5 DEF Prepared
  <2>2. QED BY <1>1, <1>2, <1>3, <2>1 DEF IInv, Untaken
<1>6. QED BY <1>4, <1>5

\* The first store keeps the invariant.
LEMMA StoreCommandKeeps == ASSUME IInv, StoreCommand PROVE IInv'
<1>1. /\ hwrt # <<>> /\ hwrt' = Tail(hwrt) /\ cmdstat' = Prepared(Head(hwrt))
      /\ core0' = [at |-> "expect", msg |-> Head(hwrt)] /\ Prepares(Head(hwrt))
      /\ UNCHANGED <<expctd, app, core1, slot, rcv, kind, pldVars, dmVars, mishaps,
                     special, taken, executed, excused>>
  BY DEF StoreCommand, histVars, dcVars
<1>2. PICK m \in HwrtMsgs : m = Head(hwrt)
  BY <1>1, QueuesTyped
<1>3. UNCHANGED Asked /\ Tail(hwrt) \in Seq(HwrtMsgs) /\ m \in Messages
  BY <1>1, <1>2, QueuesTyped DEF Asked, HwrtMsgs
<1>4. Untaken'
  BY <1>1, StoreUntaken
<1>5. m.id # "ATTN_OFF"
  BY <1>1, <1>2 DEF Prepares, PreparesNop
<1>6. cmdstat' \in Asked \cup {NOP}
  BY <1>1, <1>2 DEF Prepared, HwrtMsgs
<1>7. CoresOK'
  BY <1>1, <1>2, <1>3, <1>5, <1>6, CoresHandled, PartsOfIInv DEF CoresOK, QueuesOK
<1>8. BoardOK'
  BY <1>1, <1>3, BoardKept
<1>9. QED BY <1>4, <1>7, <1>8, PartsMakeIInv

\* The second store of a preparation.
LEMMA ExpectReadKeeps == ASSUME IInv, ExpectRead PROVE IInv'
<1>1. /\ expctd' = TRUE /\ core0' = [core0 EXCEPT !.at = "finish"]
      /\ core0.at = "expect"
      /\ UNCHANGED <<hwrt, cmdstat, app, core1, slot, rcv, kind, pldVars, dmVars,
                     mishaps, special, taken, executed, excused>>
  BY DEF ExpectRead, histVars, dcVars
<1>2. UNCHANGED Asked
  BY <1>1 DEF Asked
<1>3. CoresOK'
  BY <1>1, CoresHandled, PartsOfIInv DEF CoresOK, QueuesOK
<1>4. QED BY <1>1, <1>2, <1>3, BoardKept, UnchangedUntaken, PartsMakeIInv

\* What follows it: ATTN is raised or the status passed on.
LEMMA FinishMsgKeeps == ASSUME IInv, FinishMsg PROVE IInv'
<1>1. /\ core0.at = "finish" /\ core0' = [at |-> "loop", msg |-> Nothing]
      /\ UNCHANGED <<hwrt, cmdstat, expctd, core1, slot, rcv, kind, tgtmode,
                     zid_init, sstep, sr_brk, dmVars, mishaps, special, taken,
                     executed, excused>>
  BY DEF FinishMsg, histVars
<1>2. UNCHANGED Asked
  BY <1>1 DEF Asked
<1>3. PICK m \in HwrtMsgs : m = core0.msg /\ m.id # "ATTN_OFF"
  BY <1>1 DEF IInv, QueuesOK
<1>4. Nothing \in Messages
  BY DEF Nothing, Messages
<1>5. core0' \in [at : {"loop", "expect", "finish"}, msg : Messages]
      /\ core0'.at = "loop"
  BY <1>1, <1>4
<1>6. Untaken'
  BY <1>1, UnchangedUntaken
<1>7. CASE m.id = "CMD_REQ"
  <2>1. SetAttn(TRUE) /\ app' = app
    BY <1>3, <1>7 DEF FinishMsg
  <2>2. CoresOK'
    BY <1>1, <1>5, <2>1, CoresHandled, PartsOfIInv DEF CoresOK, QueuesOK
  <2>3. BoardOK'
    BY <1>1, <1>2, <2>1, AttnKept, PartsOfIInv DEF BoardOK
  <2>4. QED BY <1>6, <2>2, <2>3, PartsMakeIInv
<1>8. CASE m.id # "CMD_REQ"
  <2>1. app' = app \o Forwarded(m) /\ UNCHANGED <<attn, attn_tms, zsr_req, nmi>>
    BY <1>3, <1>8 DEF FinishMsg
  <2>2. m.id = "CTRL_WRITE"
    BY <1>3, <1>8 DEF HwrtMsgs
  <2>3. app' \in Seq(AppMsgs)
    BY <2>1, <2>2, ForwardedTyped DEF IInv, QueuesOK
  <2>4. CoresOK'
    BY <1>1, <1>5, <2>3, CoresHandled, PartsOfIInv DEF CoresOK, QueuesOK
  <2>5. BoardOK'
    BY <1>1, <1>2, <2>1, BoardKept DEF pldVars
  <2>6. QED BY <1>6, <2>4, <2>5, PartsMakeIInv
<1>9. QED BY <1>7, <1>8

-----------------------------------------------------------------------------
(* The steps of core 1. *)

\* A step of core 1 that makes a request.
LEMMA RequestKeeps ==
  ASSUME IInv, NEW k \in Kinds, Request(k), app' \in Seq(AppMsgs),
         UNCHANGED <<core0, core1, cmdstat, expctd, pldVars, dmVars, mishaps, special,
                     taken, executed, excused>>
  PROVE  IInv'
<1> DEFINE r == Len(kind) + 1
<1>1. /\ kind' = Append(kind, k) /\ Len(kind) < MaxRequests
      /\ hwrt' = Append(hwrt, CmdReq(r)) /\ slot' = SlotFor(k, r)
      /\ rcv' = IF k = "mget" THEN r ELSE rcv
  BY DEF Request
<1>2. /\ kind' \in Seq(Kinds) /\ Len(kind') = r /\ r \in Asked'
      /\ Asked \subseteq Asked' /\ Asked' \subseteq Reqs
      /\ hwrt \in Seq(HwrtMsgs') /\ app' \in Seq(AppMsgs')
      /\ HwrtMsgs \subseteq HwrtMsgs'
  BY <1>1, QueuesGrow DEF IInv, QueuesOK
<1>3. Untaken'
  BY RequestUntaken
<1>4. r # NOP /\ r \in Reqs
  BY <1>2, AskedFacts
<1>5. CmdReq(r) \in HwrtMsgs'
  BY <1>2, <1>4 DEF CmdReq, HwrtMsgs, Messages
<1>6. hwrt' \in Seq(HwrtMsgs')
  BY <1>1, <1>2, <1>5
<1>7. (slot \in Asked \cup {NONE})' /\ (rcv \in Asked \cup {NONE})'
  BY <1>1, <1>2, PartsOfIInv DEF SlotFor, Kinds, CoresOK
<1>8. (core0.at # "loop" => core0.msg \in HwrtMsgs /\ core0.msg.id # "ATTN_OFF")'
  BY <1>2 DEF IInv, QueuesOK
<1>9. Len(kind') <= MaxRequests
  BY <1>1, <1>2, DmLinkAssumption DEF IInv, TypeOK
<1>10. CoresOK'
  BY <1>2, <1>6, <1>7, <1>8, <1>9, PartsOfIInv DEF CoresOK, QueuesOK
<1>11. BoardOK'
  BY <1>2, BoardKept
<1>12. QED BY <1>3, <1>10, <1>11, PartsMakeIInv

\* A step of core 1 that makes none.
LEMMA Core1Keeps ==
  ASSUME IInv, app' \in Seq(AppMsgs), slot' \in Asked \cup {NONE},
         core1' \in {"loop", "cancel_cmdstat", "cancel_expctd"},
         UNCHANGED <<hwrt, core0, cmdstat, expctd, rcv, kind, pldVars, dmVars, mishaps,
                     special, taken, executed, excused>>
  PROVE  IInv'
<1>1. UNCHANGED <<HwrtMsgs, AppMsgs, Asked>>
  BY DEF HwrtMsgs, AppMsgs, Asked
<1>2. CoresOK'
  BY <1>1, PartsOfIInv DEF CoresOK, QueuesOK
<1>3. QED BY <1>1, <1>2, BoardKept, UnchangedUntaken, PartsMakeIInv

\* The user's commands, when all is quiet.
LEMMA UserCommandKeeps ==
  ASSUME IInv, NEW k \in Kinds, UserCommand(k)
  PROVE  IInv'
  BY RequestKeeps DEF UserCommand, histVars, IInv, QueuesOK

\* The messages core 1 handles.
LEMMA HandleAppKeeps == ASSUME IInv, HandleApp PROVE IInv'
<1>1. /\ app # <<>> /\ core1' = core1
      /\ UNCHANGED <<core0, core1, cmdstat, expctd, pldVars, dmVars, mishaps, special,
                     taken, executed, excused>>
  BY DEF HandleApp
<1>2. Tail(app) \in Seq(AppMsgs)
  BY <1>1, QueuesTyped
<1>3. /\ slot \in Asked \cup {NONE} /\ rcv \in Asked \cup {NONE}
      /\ core1 \in {"loop", "cancel_cmdstat", "cancel_expctd"}
  BY PartsOfIInv DEF CoresOK
<1>4. PICK m : /\ m = Head(app)
               /\ StatusRcvd(m) \/ CmdDoneRcvd(m) \/ OpCompleteRcvd(m) \/ BufCompleteRcvd(m)
  BY DEF HandleApp
<1>5. CASE StatusRcvd(m)
  <2>1. app' = Tail(app)
        /\ (Request("get") \/ UNCHANGED <<kind, slot, rcv, hwrt>>)
    BY <1>5 DEF StatusRcvd
  <2>2. "get" \in Kinds
    BY DEF Kinds
  <2>3. CASE Request("get")
    BY <1>1, <1>2, <2>1, <2>2, <2>3, RequestKeeps
  <2>4. CASE UNCHANGED <<kind, slot, rcv, hwrt>>
    BY <1>1, <1>2, <1>3, <2>1, <2>4, Core1Keeps
  <2>5. QED BY <2>1, <2>3, <2>4
<1>6. CASE CmdDoneRcvd(m)
  <2>1. /\ app' = Tail(app) \o IF slot = NONE THEN <<>> ELSE <<OpComplete(slot)>>
        /\ slot' = NONE /\ UNCHANGED <<kind, rcv, hwrt>>
    BY <1>6 DEF CmdDoneRcvd, Unset
  <2>2. PICK q \in Asked \cup {NOP} : q = slot
    BY <1>3 DEF NONE, NOP
  <2>3. OpComplete(slot) \in AppMsgs
    BY <2>2, MessagesMade, AskedFacts
  <2>4. app' \in Seq(AppMsgs)
    BY <1>2, <2>1, <2>3
  <2>5. QED BY <1>1, <1>3, <2>1, <2>4, Core1Keeps
<1>7. CASE OpCompleteRcvd(m)
  <2>1. /\ app' \in {Tail(app), Append(Tail(app), BufComplete(rcv))}
        /\ slot' \in {slot, NONE} /\ UNCHANGED <<kind, rcv, hwrt>>
    BY <1>7 DEF OpCompleteRcvd
  <2>2. PICK q \in Asked \cup {NOP} : q = rcv
    BY <1>3 DEF NONE, NOP
  <2>3. BufComplete(rcv) \in AppMsgs
    BY <2>2, MessagesMade, AskedFacts
  <2>4. app' \in Seq(AppMsgs)
    BY <1>2, <2>1, <2>3
  <2>5. QED BY <1>1, <1>3, <2>1, <2>4, Core1Keeps
<1>8. CASE BufCompleteRcvd(m)
  <2>1. app' = Tail(app)
        /\ (Request("mget") \/ UNCHANGED <<kind, slot, rcv, hwrt>>)
    BY <1>8 DEF BufCompleteRcvd
  <2>2. "mget" \in Kinds
    BY DEF Kinds
  <2>3. CASE Request("mget")
    BY <1>1, <1>2, <2>1, <2>2, <2>3, RequestKeeps
  <2>4. CASE UNCHANGED <<kind, slot, rcv, hwrt>>
    BY <1>1, <1>2, <1>3, <2>1, <2>4, Core1Keeps
  <2>5. QED BY <2>1, <2>3, <2>4
<1>9. QED BY <1>4, <1>5, <1>6, <1>7, <1>8

\* The three stores of a cancel.
LEMMA CancelKeeps ==
  ASSUME IInv, CancelAttn \/ CancelCmdstat \/ CancelExpctd
  PROVE  IInv'
<1>1. UNCHANGED <<hwrt, core0, app, slot, rcv, kind, taken>>
      /\ core1' \in {"loop", "cancel_cmdstat", "cancel_expctd"}
  BY DEF CancelAttn, CancelCmdstat, CancelExpctd, commVars, histVars
<1>2. UNCHANGED <<HwrtMsgs, AppMsgs, Asked>>
  BY <1>1 DEF HwrtMsgs, AppMsgs, Asked
<1>3. cmdstat' \in {cmdstat, NOP} /\ expctd' \in {expctd, FALSE}
  BY DEF CancelAttn, CancelCmdstat, CancelExpctd, commVars
<1>4. CoresOK'
  BY <1>1, <1>2, <1>3, PartsOfIInv DEF CoresOK, QueuesOK
<1>5. Untaken'
  <2>1. CASE cmdstat' = cmdstat
    BY <2>1, <1>1, UnchangedUntaken
  <2>2. CASE cmdstat' = NOP
    <3>1. \A i \in 1..Len(hwrt) : hwrt[i].id = "CMD_REQ" => hwrt[i].req # NOP
      BY QueuesTyped DEF HwrtMsgs
    <3>2. QED BY <2>2, <3>1, <1>1 DEF IInv, Untaken
  <2>3. QED BY <1>3, <2>1, <2>2
<1>6. BoardOK'
  <2>1. CASE CancelAttn
    <3>1. SetAttn(FALSE) /\ mishaps < MaxMishaps /\ mishaps' = mishaps + 1
          /\ excused' = excused \cup Outstanding
          /\ UNCHANGED <<tgtmode, zid_init, sstep, sr_brk, dmVars, special, executed>>
      BY <2>1 DEF CancelAttn
    <3>2. mishaps' \in 0..MaxMishaps
      BY <3>1, PartsOfIInv, DmLinkAssumption DEF BoardOK
    <3>3. excused' \subseteq Asked
      BY <3>1, PartsOfIInv DEF BoardOK, Outstanding
    <3>4. QED BY <1>2, <3>1, <3>2, <3>3, AttnKept
  <2>2. CASE CancelCmdstat
    BY <2>2, <1>2, BoardKept DEF CancelCmdstat, histVars
  <2>3. CASE CancelExpctd
    BY <2>3, <1>2, BoardKept DEF CancelExpctd, histVars
  <2>4. QED BY <2>1, <2>2, <2>3
<1>7. QED BY <1>4, <1>5, <1>6, PartsMakeIInv

-----------------------------------------------------------------------------
(* The theorems. *)

\* The invariant holds at power-up.
LEMMA InitIInv == Init => IInv
<1>1. SUFFICES ASSUME Init PROVE IInv
  OBVIOUS
<1>2. Len(kind) = 0 /\ kind \in Seq(Kinds) /\ hwrt = <<>> /\ app = <<>>
  BY <1>1 DEF Init
<1>3. Nothing \in Messages
  BY DEF Nothing, Messages
<1>4. TypeOK
  <2>1. /\ hwrt \in Seq(Messages) /\ app \in Seq(Messages)
        /\ core0 \in [at : {"loop", "expect", "finish"}, msg : Messages]
    BY <1>1, <1>2, <1>3 DEF Init
  <2>2. Len(kind) <= MaxRequests /\ mishaps \in 0..MaxMishaps
    BY <1>1, <1>2, DmLinkAssumption DEF Init
  <2>3. {cmdstat, doc_cmd} \subseteq {NOP} /\ {slot, rcv} \subseteq {NONE}
    BY <1>1 DEF Init
  <2>4. executed = {} /\ excused = {} /\ doc_stat \in Statuses
    BY <1>1 DEF Init, Statuses
  <2>5. QED BY <1>1, <1>2, <2>1, <2>2, <2>3, <2>4 DEF Init, TypeOK
<1>5. QueuesOK
  BY <1>1 DEF Init, QueuesOK
<1>6. Untaken
  BY <1>1, <1>2 DEF Init, Untaken
<1>7. QED BY <1>1, <1>4, <1>5, <1>6 DEF Init, IInv, DoneIsOfCommand

\* Every step keeps it.
LEMMA NextIInv == IInv /\ [Next]_vars => IInv'
<1>1. SUFFICES ASSUME IInv, [Next]_vars PROVE IInv'
  OBVIOUS
<1>2. CASE Core0
  BY <1>1, <1>2, HandleMsgKeeps, StoreCommandKeeps, ExpectReadKeeps, FinishMsgKeeps
  DEF Core0
<1>3. CASE Core1
  BY <1>1, <1>3, CancelKeeps, HandleAppKeeps DEF Core1
<1>4. CASE DebugMonitor
  BY <1>1, <1>4, MonitorKeeps, ResetsKeep, SendsKeep, ReadsKeep DEF DebugMonitor
<1>5. CASE \E k \in Kinds : UserCommand(k)
  BY <1>1, <1>5, UserCommandKeeps
<1>6. CASE CancelAttn \/ Break \/ FullReset
  BY <1>1, <1>6, CancelKeeps, ResetsKeep
<1>7. CASE UNCHANGED vars
  <2>1. UNCHANGED <<hwrt, core0, cmdstat, expctd, dcVars, taken, pldVars, dmVars,
                    mishaps, special, executed, excused>>
    BY <1>7 DEF vars, commVars, histVars
  <2>2. UNCHANGED Asked
    BY <2>1 DEF Asked, dcVars
  <2>3. QED BY <1>1, <2>1, <2>2, CoresKept, BoardKept, PartsMakeIInv
<1>8. QED BY <1>1, <1>2, <1>3, <1>4, <1>5, <1>6, <1>7 DEF Next, Rest

\* The inductive invariant of the link.
THEOREM LinkInvariant == Spec => []IInv
  BY InitIInv, NextIInv, PTL DEF Spec

\* Type correctness of the link: its queues, the board's latches and the monitor.
THEOREM LinkTypeOK == Spec => []TypeOK
<1>1. IInv => TypeOK
  BY DEF IInv
<1>2. QED BY <1>1, LinkInvariant, PTL

\* The monitor reads no command twice, whatever the interrupt, the cores, a cancel
\* and the resets do in between, and however late they come.
THEOREM LinkTakenOnce == Spec => []TakenOnce
<1>1. IInv => TakenOnce
  BY DEF IInv, Untaken, TakenOnce
<1>2. QED BY <1>1, LinkInvariant, PTL

-----------------------------------------------------------------------------
(* What is in a queue. *)

Has(q, S) == \E i \in 1..Len(q) : q[i] \in S
Once(q, S) == \A i, j \in 1..Len(q) : q[i] \in S /\ q[j] \in S => i = j
\* All of S are handled before any of T.
Ahead(q, S, T) == \A i, j \in 1..Len(q) : q[i] \in S /\ q[j] \in T => i < j

LEMMA EmptyQueue == \A S, T : ~Has(<<>>, S) /\ Once(<<>>, S) /\ Ahead(<<>>, S, T)
BY DEF Has, Once, Ahead

LEMMA PostedTo ==
  ASSUME NEW X, NEW q \in Seq(X), NEW m
  PROVE  /\ \A S : Has(Append(q, m), S) <=> Has(q, S) \/ m \in S
         /\ \A S : Once(q, S) /\ (m \in S => ~Has(q, S)) => Once(Append(q, m), S)
         /\ \A S, T : Ahead(q, S, T) /\ (m \in S => ~Has(q, T) /\ m \notin T)
                        => Ahead(Append(q, m), S, T)
<1> DEFINE a == Append(q, m)
<1>1. /\ Len(q) \in Nat /\ Len(a) = Len(q) + 1 /\ a[Len(q) + 1] = m
      /\ \A i \in 1..Len(q) : a[i] = q[i]
  OBVIOUS
<1> HIDE DEF a
<1>2. ASSUME NEW S PROVE Has(a, S) <=> Has(q, S) \/ m \in S
  <2>1. Has(q, S) => Has(a, S)
    BY <1>1 DEF Has
  <2>2. m \in S => Has(a, S)
    <3>1. Len(q) + 1 \in 1..Len(a) BY <1>1
    <3> QED BY <1>1, <3>1 DEF Has
  <2>3. ASSUME NEW i \in 1..Len(a), a[i] \in S PROVE Has(q, S) \/ m \in S
    BY <1>1, <2>3 DEF Has
  <2> QED BY <2>1, <2>2, <2>3 DEF Has
<1>3. ASSUME NEW S, Once(q, S), m \in S => ~Has(q, S) PROVE Once(a, S)
  BY <1>1, <1>3 DEF Has, Once
<1>4. ASSUME NEW S, NEW T, Ahead(q, S, T), m \in S => ~Has(q, T) /\ m \notin T
      PROVE  Ahead(a, S, T)
  BY <1>1, <1>4 DEF Has, Ahead
<1> QED BY <1>2, <1>3, <1>4 DEF a

LEMMA TakenFrom ==
  ASSUME NEW X, NEW q \in Seq(X), q # <<>>
  PROVE  /\ \A S : Has(q, S) <=> Head(q) \in S \/ Has(Tail(q), S)
         /\ \A S : Once(q, S) => Once(Tail(q), S) /\ (Head(q) \in S => ~Has(Tail(q), S))
         /\ \A S, T : Ahead(q, S, T) => Ahead(Tail(q), S, T)
                                        /\ (Head(q) \in T => ~Has(Tail(q), S))
<1> DEFINE t == Tail(q)
           h == Head(q)
<1>1. /\ Len(q) \in Nat /\ Len(t) = Len(q) - 1 /\ h = q[1]
      /\ \A i \in 1..Len(t) : t[i] = q[i + 1] /\ i + 1 \in 1..Len(q)
      /\ 1 \in 1..Len(q)
  OBVIOUS
<1>0. Len(t) \in Nat BY <1>1
<1> HIDE DEF t, h
<1>2. ASSUME NEW S PROVE Has(q, S) <=> h \in S \/ Has(t, S)
  <2>1. h \in S => Has(q, S) BY <1>1 DEF Has
  <2>2. Has(t, S) => Has(q, S) BY <1>1 DEF Has
  <2>3. ASSUME NEW i \in 1..Len(q), q[i] \in S, i # 1 PROVE Has(t, S)
    <3>1. i - 1 \in 1..Len(t) /\ (i - 1) + 1 = i BY <1>1, <2>3
    <3>2. t[i - 1] = q[i] BY <1>1, <3>1
    <3> QED BY <2>3, <3>1, <3>2 DEF Has
  <2> QED BY <1>1, <2>1, <2>2, <2>3 DEF Has
<1>3. ASSUME NEW S, Once(q, S) PROVE Once(t, S) /\ (h \in S => ~Has(t, S))
  <2>1. \A i, j \in 1..Len(t) : t[i] \in S /\ t[j] \in S => i + 1 = j + 1
    BY <1>1, <1>3 DEF Once
  <2>2. \A i, j \in 1..Len(t) : i + 1 = j + 1 => i = j
    BY <1>0
  <2>3. \A i \in 1..Len(t) : t[i] \in S /\ h \in S => 1 = i + 1
    BY <1>1, <1>3 DEF Once
  <2>4. \A i \in 1..Len(t) : 1 # i + 1
    BY <1>0
  <2> QED BY <2>1, <2>2, <2>3, <2>4 DEF Once, Has
<1>4. ASSUME NEW S, NEW T, Ahead(q, S, T)
      PROVE  Ahead(t, S, T) /\ (h \in T => ~Has(t, S))
  <2>1. \A i, j \in 1..Len(t) : t[i] \in S /\ t[j] \in T => i + 1 < j + 1
    BY <1>1, <1>4 DEF Ahead
  <2>2. \A i, j \in 1..Len(t) : i + 1 < j + 1 => i < j
    BY <1>0
  <2>3. \A i \in 1..Len(t) : t[i] \in S /\ h \in T => i + 1 < 1
    BY <1>1, <1>4 DEF Ahead
  <2>4. \A i \in 1..Len(t) : ~(i + 1 < 1)
    BY <1>0
  <2> QED BY <2>1, <2>2, <2>3, <2>4 DEF Ahead, Has
<1> QED BY <1>2, <1>3, <1>4 DEF t, h

-----------------------------------------------------------------------------
(* The invariant: where the one command under way is. *)

CmdReqs == {m \in Messages : m.id = "CMD_REQ"}
OpDones == {m \in Messages : m.id = "CTRL_WRITE" /\ m.st = "DMOPDONE"}
AttnOffs == {m \in Messages : m.id = "ATTN_OFF"}
Inits == {m \in Messages : m.id = "CTRL_WRITE" /\ m.st = "DMINIT"}
CmdDones == {m \in Messages : m.id = "CMDDONE"}
Completions(r) ==
  {m \in Messages : m.id \in {"OP_COMPLETE", "BUF_COMPLETE"} /\ m.req = r}
Breaks == {m \in Messages : m.st \in {"DMBRKHIT", "DMSSDONE"}}
Dones == {m \in Messages : m.id \in {"CMDDONE", "OP_COMPLETE", "BUF_COMPLETE"}}

\* What is under way, in core 0's queue: a request, or the report of one done.
OnWay == CmdReqs \cup OpDones
\* What takes back a command core 0 has prepared, or the ATTN it has raised.
Stale == AttnOffs \cup Inits

\* The NMI enable bit is clear from the wake-up on, so each return to Debug mode is
\* taken for a full reset, and no break or step is ever reported.
BoardInv ==
  /\ dm \in {"bahdlr", "doinit", "cmdrd_out", "cmdrd_in", "doccmdprc", "doc_statsend",
             "tgthop", "target"} => ~zid_init
  /\ dm = "idle" => zid_init
  /\ dm = "nmi_enable" /\ ~zid_init => ~attn
  /\ zsr_req => tgtmode
  /\ nmi => dm \in {"wrdy_out", "wrdy_in", "attn_clr_chk", "nmi_enable", "idle"}
  /\ doc_stat = "DMOPDONE"
  /\ ~Has(hwrt, Breaks) /\ ~Has(app, Breaks)
  /\ core0.at # "loop" => core0.msg.id = "CMD_REQ" \/ core0.msg.st = "DMINIT"

InCore0 == core0.at # "loop" /\ core0.msg.id = "CMD_REQ"
\* An ATTN nobody is about to turn off, or the command it has woken the monitor for.
InMonitor ==
  \/ attn /\ ~Has(hwrt, AttnOffs)
  \/ nmi
  \/ dm \in {"cmdrd_out", "cmdrd_in", "doccmdprc", "doc_statsend"}

\* One command at most is under way, if only one that was cancelled or reset, and it
\* is in one place: when the monitor has read it, its ATTN is on the way off.
OneAtATime ==
  /\ Once(hwrt, OnWay) /\ Once(app, Dones)
  /\ Has(hwrt, OnWay) => ~InCore0 /\ ~InMonitor /\ ~Has(app, Dones)
  /\ InCore0 => ~InMonitor /\ ~Has(app, Dones)
  /\ InMonitor => ~Has(app, Dones)
  /\ dm \in {"doccmdprc", "doc_statsend"} /\ attn => Has(hwrt, AttnOffs)

\* What is stale is handled before what is under way.
StaleFirst ==
  /\ Ahead(hwrt, Stale, OnWay)
  /\ InCore0 => ~Has(hwrt, Stale)
  /\ dm \in {"wrdy_out", "wrdy_in"} /\ ~nmi =>
       ~Has(hwrt, OnWay) /\ ~InCore0 /\ ~Has(app, Dones)

\* With ATTN on the monitor comes for the command, or is reset.
Woken ==
  \/ nmi
  \/ dm \in {"cmdrd_out", "cmdrd_in", "bahdlr", "tgthop"}
  \/ dm = "doinit" /\ ~attn_tms
  \/ dm = "target" /\ zsr_req

\* The stages of a command that is neither carried out nor excused: in the queue,
\* in preparation, prepared with ATTN on, in the monitor.
Stage(r) ==
  \/ Has(hwrt, {CmdReq(r)})
  \/ InCore0 /\ core0.msg.req = r /\ cmdstat = r /\ (core0.at = "finish" => expctd)
  \/ /\ attn /\ cmdstat = r /\ expctd /\ Woken
     /\ ~Has(hwrt, Stale) /\ core0.at = "loop"
  \/ dm \in {"doccmdprc", "doc_statsend"} /\ doc_cmd = r
UnderWay ==
  /\ \A r \in Outstanding : Stage(r)
  /\ core1 # "loop" => Outstanding = {}

\* A handler that is set, posted or run is none of the others, and those of a
\* command that is done are one of them.
HandlerOf(r) ==
  /\ completed[r] = 1 => r \notin Outstanding /\ slot # r /\ ~Has(app, Completions(r))
  /\ Has(app, Completions(r)) => slot # r
  /\ slot = r /\ kind[r] = "mget" => rcv = r
  /\ Has(app, {OpComplete(r)}) /\ kind[r] = "mget" => rcv = r
  /\ r \in Asked \ excused /\ kind[r] \in {"get", "mget"} =>
       \/ slot = r /\ (r \in executed => Has(hwrt, OpDones) \/ Has(app, CmdDones))
       \/ r \in executed /\ Has(app, Completions(r))
       \/ r \in executed /\ completed[r] = 1
Handlers ==
  /\ completed \in [Reqs -> 0..1]
  /\ ~Has(app, Completions(NONE))
  /\ \A r \in Asked : HandlerOf(r)
  /\ \A r \in Reqs : r > Len(kind) => completed[r] = 0

Tracked == IInv /\ BoardInv /\ OneAtATime /\ StaleFirst /\ UnderWay /\ Handlers

LEMMA InitTracked == Init => Tracked
<1> SUFFICES ASSUME Init PROVE Tracked
  OBVIOUS
<1>1. IInv BY InitIInv
<1>2. hwrt = <<>> /\ app = <<>> /\ Len(kind) = 0 /\ core0.at = "loop" /\ core1 = "loop"
  BY DEF Init
<1>3. Asked = {} /\ Outstanding = {}
  BY <1>2 DEF Asked, Outstanding
<1>4. BoardInv /\ OneAtATime /\ StaleFirst
  BY <1>2, EmptyQueue DEF Init, BoardInv, OneAtATime, StaleFirst, InCore0, InMonitor
<1>5. UnderWay /\ Handlers
  BY <1>2, <1>3, EmptyQueue DEF Init, UnderWay, Handlers
<1> QED BY <1>1, <1>4, <1>5 DEF Tracked

-----------------------------------------------------------------------------
(* What follows from it. *)

\* Which messages are of which sort.
LEMMA Sorts ==
  ASSUME NEW r \in Reqs \cup {NOP}
  PROVE  /\ AttnOff \in AttnOffs /\ AttnOff \notin Inits \cup OnWay \cup Breaks
         /\ \A st \in Statuses : LET w == Write(st, r)
              IN  /\ w \notin CmdReqs \cup AttnOffs
                  /\ w \in OpDones <=> st = "DMOPDONE"
                  /\ w \in Inits <=> st = "DMINIT"
                  /\ w \in Breaks <=> st \in {"DMBRKHIT", "DMSSDONE"}
         /\ CmdReq(r) \in CmdReqs /\ CmdReq(r) \notin OpDones \cup Stale \cup Breaks
         /\ \A st \in Statuses : LET w == Status(st)
              IN  /\ w \notin Dones
                  /\ w \in Breaks <=> st \in {"DMBRKHIT", "DMSSDONE"}
         /\ CmdDone(r) \in CmdDones /\ CmdDone(r) \notin Breaks
         /\ OpComplete(r) \in Completions(r) /\ OpComplete(r) \notin CmdDones \cup Breaks
         /\ BufComplete(r) \in Completions(r) /\ BufComplete(r) \notin CmdDones \cup Breaks
<1>1. NOP \in Reqs \cup {NOP}
  OBVIOUS
<1>2. AttnOff \in AttnOffs /\ AttnOff \notin Inits \cup OnWay \cup Breaks
  BY <1>1 DEF AttnOff, AttnOffs, Inits, OnWay, CmdReqs, OpDones, Breaks, Messages
<1>3. ASSUME NEW st \in Statuses
      PROVE  LET w == Write(st, r)
             IN  /\ w \notin CmdReqs \cup AttnOffs
                 /\ w \in OpDones <=> st = "DMOPDONE"
                 /\ w \in Inits <=> st = "DMINIT"
                 /\ w \in Breaks <=> st \in {"DMBRKHIT", "DMSSDONE"}
  BY DEF Write, AttnOffs, Inits, CmdReqs, OpDones, Breaks, Messages
<1>4. CmdReq(r) \in CmdReqs /\ CmdReq(r) \notin OpDones \cup Stale \cup Breaks
  BY DEF CmdReq, CmdReqs, OpDones, Stale, AttnOffs, Inits, Breaks, Messages
<1>5. ASSUME NEW st \in Statuses
      PROVE  LET w == Status(st)
             IN  /\ w \notin Dones
                 /\ w \in Breaks <=> st \in {"DMBRKHIT", "DMSSDONE"}
  BY <1>1 DEF Status, Dones, Breaks, Messages
<1>6. CmdDone(r) \in CmdDones /\ CmdDone(r) \notin Breaks
  BY DEF CmdDone, CmdDones, Breaks, Messages
<1>7. OpComplete(r) \in Completions(r) /\ OpComplete(r) \notin CmdDones \cup Breaks
  BY DEF OpComplete, Completions, CmdDones, Breaks, Messages
<1>8. BufComplete(r) \in Completions(r) /\ BufComplete(r) \notin CmdDones \cup Breaks
  BY DEF BufComplete, Completions, CmdDones, Breaks, Messages
<1> QED BY <1>2, <1>3, <1>4, <1>5, <1>6, <1>7, <1>8

\* A message is told by its fields: which request's it is, and which handler's.
LEMMA Told ==
  ASSUME NEW q
  PROVE  /\ \A r, p : CmdReq(r) = CmdReq(p) <=> r = p
         /\ AttnOff # CmdReq(q)
         /\ \A st, r : Write(st, r) # CmdReq(q)
         /\ \A r, p : OpComplete(r) = OpComplete(p) <=> r = p
         /\ \A st : Status(st) # OpComplete(q)
         /\ \A r : CmdDone(r) # OpComplete(q)
         /\ \A r : BufComplete(r) # OpComplete(q)
         /\ \A st : Status(st) \notin Completions(q)
         /\ \A r : CmdDone(r) \notin Completions(q)
         /\ \A r : OpComplete(r) \in Completions(q) => r = q
         /\ \A r : BufComplete(r) \in Completions(q) => r = q
BY DEF CmdReq, AttnOff, Write, OpComplete, Status, CmdDone, BufComplete, Completions

\* A queue with a message of a sort has one of the wider sort.
LEMMA Wider ==
  ASSUME NEW q
  PROVE  /\ Has(q, OnWay) <=> Has(q, CmdReqs) \/ Has(q, OpDones)
         /\ Has(q, Stale) <=> Has(q, AttnOffs) \/ Has(q, Inits)
         /\ \A r \in Reqs : Has(q, {CmdReq(r)}) => Has(q, CmdReqs)
         /\ \A r \in Reqs : Has(q, {OpComplete(r)}) => Has(q, Completions(r))
         /\ \A r : Has(q, Completions(r)) => Has(q, Dones)
         /\ Has(q, CmdDones) => Has(q, Dones)
<1>1. \A r \in Reqs : CmdReq(r) \in CmdReqs /\ OpComplete(r) \in Completions(r)
  BY Sorts
<1>2. /\ \A r : Completions(r) \subseteq Dones
      /\ CmdDones \subseteq Dones
  BY DEF Completions, CmdDones, Dones
<1> QED BY <1>1, <1>2 DEF Has, OnWay, Stale

\* Once a command is reported done none is left to be.
LEMMA NoneLeft ==
  ASSUME Tracked, Has(hwrt, OpDones) \/ Has(app, Dones)
  PROVE  Outstanding = {}
<1> SUFFICES ASSUME NEW r \in Outstanding PROVE FALSE
  OBVIOUS
<1>1. r \in Reqs /\ Stage(r)
  BY AskedFacts DEF Tracked, UnderWay, Outstanding
<1>2. ~(Has(hwrt, OpDones) /\ Has(hwrt, {CmdReq(r)}))
  <2> SUFFICES ASSUME NEW i \in 1..Len(hwrt), NEW j \in 1..Len(hwrt),
                      hwrt[i] \in OpDones, hwrt[j] = CmdReq(r)
               PROVE  FALSE
    BY DEF Has
  <2>1. CmdReq(r) \in CmdReqs /\ CmdReq(r) \notin OpDones
    BY <1>1, Sorts
  <2>2. i = j
    BY <2>1 DEF Tracked, OneAtATime, Once, OnWay
  <2> QED BY <2>1, <2>2
<1> QED BY <1>1, <1>2, Wider DEF Tracked, OneAtATime, Stage, InMonitor

\* Steps that leave the handlers as they are, or carry a command out.
LEMMA HandlersKept ==
  ASSUME Tracked, UNCHANGED <<slot, rcv, kind, completed>>,
         excused \subseteq excused', executed \subseteq executed',
         \A r \in executed' : \/ r \in executed
                              \/ kind[r] \notin {"get", "mget"}
                              \/ Has(hwrt', OpDones),
         \A r : /\ Has(app', Completions(r)) <=> Has(app, Completions(r))
                /\ Has(app', {OpComplete(r)}) <=> Has(app, {OpComplete(r)}),
         Has(hwrt, OpDones) \/ Has(app, CmdDones)
           => Has(hwrt', OpDones) \/ Has(app', CmdDones)
  PROVE  Handlers'
<1>1. Asked' = Asked /\ Outstanding' \subseteq Outstanding
  BY DEF Asked, Outstanding
<1>2. \A r \in Asked : HandlerOf(r)'
  BY <1>1 DEF Tracked, Handlers, HandlerOf
<1> QED BY <1>1, <1>2 DEF Tracked, Handlers

-----------------------------------------------------------------------------
(* The steps of the monitor and the board that leave the queues alone. *)

\* Such a step keeps the invariant when it wakes the monitor for nothing new, lets it
\* say it is ready only if nothing is under way, and loses no command.
LEMMA QueuesLeft ==
  ASSUME Tracked, IInv', BoardInv',
         UNCHANGED <<hwrt, commVars, dcVars, attn, completed, executed>>,
         excused' \in {excused, excused \cup Outstanding},
         InMonitor' => InMonitor,
         dm' \in {"doccmdprc", "doc_statsend"} => dm \in {"doccmdprc", "doc_statsend"},
         (dm \in {"wrdy_out", "wrdy_in"} /\ ~nmi)' =>
           \/ dm \in {"wrdy_out", "wrdy_in"} /\ ~nmi
           \/ hwrt = <<>> /\ core0.at = "loop" /\ app = <<>>,
         \/ Outstanding' = {}
         \/ /\ attn /\ Woken /\ core0.at = "loop" => Woken'
            /\ dm \in {"doccmdprc", "doc_statsend"} =>
                 dm' \in {"doccmdprc", "doc_statsend"} /\ doc_cmd' = doc_cmd
  PROVE  Tracked'
<1>1. UNCHANGED <<hwrt, core0, cmdstat, expctd, app, core1, slot, rcv, kind>>
  BY DEF commVars, dcVars
<1>2. Asked' = Asked /\ Outstanding' \subseteq Outstanding
  BY <1>1 DEF Asked, Outstanding
<1>3. Handlers'
  BY <1>1, HandlersKept
<1>4. OneAtATime'
  BY <1>1 DEF Tracked, OneAtATime, InCore0
<1>5. StaleFirst'
  BY <1>1, EmptyQueue DEF Tracked, StaleFirst, InCore0
<1>6. ASSUME NEW r \in Outstanding' PROVE Stage(r)'
  <2>1. Stage(r)
    BY <1>2 DEF Tracked, UnderWay
  <2> QED BY <1>1, <2>1 DEF Stage, InCore0
<1>7. UnderWay'
  BY <1>1, <1>2, <1>6 DEF Tracked, UnderWay
<1> QED BY <1>3, <1>4, <1>5, <1>7 DEF Tracked

LEMMA ResetsTracked ==
  ASSUME Tracked, IInv', Break \/ SpecialReset \/ FullReset
  PROVE  Tracked'
<1>1. /\ UNCHANGED <<hwrt, commVars, dcVars, attn, completed, executed>>
      /\ excused' \in {excused, excused \cup Outstanding}
  BY DEF Break, SpecialReset, FullReset, notLink, histVars, dcVars, commVars
<1>2. /\ nmi' \in {nmi, FALSE} /\ UNCHANGED <<hwrt, app, core0, doc_stat>>
      /\ dm' \in {dm, "bahdlr"}
  BY <1>1 DEF Break, SpecialReset, FullReset, ZReset, dmVars, dcVars, commVars
<1>3. CASE Break
  <2>1. dm' = dm /\ nmi' = nmi /\ zid_init' = zid_init /\ zsr_req' /\ tgtmode' = tgtmode /\ tgtmode
        /\ attn_tms' = attn_tms /\ doc_cmd' = doc_cmd
    BY <1>3 DEF Break, dmVars
  <2>2. BoardInv'
    BY <1>1, <1>2, <2>1 DEF Tracked, BoardInv
  <2>3. InMonitor' => InMonitor
    BY <1>1, <1>2, <2>1 DEF InMonitor
  <2>4. Woken => Woken'
    BY <2>1 DEF Woken
  <2> QED BY <1>1, <2>1, <2>2, <2>3, <2>4, QueuesLeft
<1>4. CASE SpecialReset
  <2>1. dm' = "bahdlr" /\ nmi' = FALSE /\ zid_init' = zid_init /\ zsr_req' = FALSE /\ tgtmode' = FALSE
        /\ zsr_req /\ doc_cmd' = doc_cmd
    BY <1>4 DEF SpecialReset, ZReset
  <2>2. dm = "target"
    BY <2>1, PartsOfIInv DEF Tracked, BoardInv, BoardOK
  <2>3. BoardInv'
    BY <1>2, <2>1, <2>2 DEF Tracked, BoardInv
  <2>4. InMonitor' => InMonitor
    BY <1>1, <1>2, <2>1 DEF InMonitor
  <2>5. Woken'
    BY <2>1 DEF Woken
  <2> QED BY <1>1, <2>1, <2>2, <2>3, <2>4, <2>5, QueuesLeft
<1>5. CASE FullReset
  <2>1. dm' = "bahdlr" /\ nmi' = FALSE /\ zid_init' = FALSE /\ zsr_req' = FALSE
        /\ excused' = excused \cup Outstanding
    BY <1>5 DEF FullReset, ZReset
  <2>2. Outstanding' = {}
    BY <1>1, <2>1 DEF Outstanding, Asked, dcVars
  <2>3. BoardInv'
    BY <1>2, <2>1 DEF Tracked, BoardInv
  <2>4. InMonitor' => InMonitor
    BY <1>1, <1>2, <2>1 DEF InMonitor
  <2> QED BY <1>1, <2>1, <2>2, <2>3, <2>4, QueuesLeft
<1> QED BY <1>3, <1>4, <1>5

\* The start of the monitor's program, by which it is excused from every command.
LEMMA StartTracked ==
  ASSUME Tracked, InTime, IInv', Bahdlr \/ DoInit
  PROVE  Tracked'
<1>1. /\ UNCHANGED <<hwrt, commVars, dcVars, attn, attn_tms, tgtmode, zsr_req, completed, executed>>
      /\ excused' \in {excused, excused \cup Outstanding}
      /\ UNCHANGED <<hwrt, app, core0>> /\ ~nmi
  BY DEF Bahdlr, DoInit, notLink, histVars, dcVars, commVars, Monitor
<1>2. CASE Bahdlr
  <2>1. ~zid_init
    BY <1>2 DEF Bahdlr, Monitor, Tracked, BoardInv
  <2>2. dm' = "doinit" /\ nmi' = nmi /\ zid_init' = FALSE /\ doc_stat' = doc_stat
        /\ excused' = excused \cup Outstanding
    BY <1>2, <2>1 DEF Bahdlr
  <2>3. Outstanding' = {}
    BY <1>1, <2>2 DEF Outstanding, Asked, dcVars
  <2>4. BoardInv'
    BY <1>1, <2>2 DEF Tracked, BoardInv
  <2>5. InMonitor' => InMonitor
    BY <1>1, <2>2 DEF InMonitor
  <2> QED BY <1>1, <2>2, <2>3, <2>4, <2>5, QueuesLeft
<1>3. CASE DoInit
  <2>1. /\ dm = "doinit" /\ ~tgtmode /\ hwrt = <<>> /\ core0.at = "loop" /\ app = <<>>
        /\ dm' = "wrdy_out" /\ zid_init' = TRUE /\ doc_stat' = doc_stat /\ doc_cmd' = doc_cmd
        /\ LatchNmi(attn, attn_tms, tgtmode, TRUE)
    BY <1>3 DEF DoInit, Monitor, SlowInit
  <2>2. ~zid_init
    BY <2>1 DEF Tracked, BoardInv
  <2>3. nmi' <=> attn /\ ~attn_tms
    BY <1>1, <2>1, <2>2 DEF LatchNmi, Znmi
  <2>4. BoardInv'
    BY <1>1, <2>1 DEF Tracked, BoardInv
  <2>5. InMonitor' => InMonitor
    BY <1>1, <2>1, <2>3, EmptyQueue DEF InMonitor
  <2>6. attn /\ Woken => Woken'
    BY <1>1, <2>1, <2>3 DEF Woken
  <2> QED BY <1>1, <2>1, <2>4, <2>5, <2>6, QueuesLeft
<1> QED BY <1>2, <1>3

\* The rest of its program, but for what it writes and reads.
LEMMA IdlingTracked ==
  ASSUME Tracked, IInv', AttnClrChk \/ NmiEnable \/ NmiVec \/ DoCommand \/ TgtHop
  PROVE  Tracked'
<1>1. /\ UNCHANGED <<hwrt, commVars, dcVars, attn, attn_tms, completed, executed, excused>>
      /\ UNCHANGED <<hwrt, app, core0, doc_cmd>> /\ ~tgtmode
      /\ dm' \notin {"wrdy_out", "wrdy_in"}
  BY DEF AttnClrChk, NmiEnable, NmiVec, DoCommand, TgtHop, notLink, histVars, dcVars,
         commVars, pldVars, Monitor
<1>0. BoardOK
  BY PartsOfIInv DEF Tracked
<1>2. CASE AttnClrChk
  <2>1. /\ dm = "attn_clr_chk" /\ ~nmi /\ ~attn /\ dm' = "nmi_enable"
        /\ UNCHANGED <<zid_init, zsr_req, tgtmode, nmi, doc_stat>>
    BY <1>2 DEF AttnClrChk, Monitor, pldVars
  <2>2. BoardInv'
    BY <1>1, <2>1 DEF Tracked, BoardInv
  <2>3. InMonitor' => InMonitor
    BY <1>1, <2>1 DEF InMonitor
  <2> QED BY <1>1, <2>1, <2>2, <2>3, QueuesLeft
<1>3. CASE NmiEnable
  <2>1. /\ dm = "nmi_enable" /\ ~nmi /\ dm' = "idle" /\ zid_init' = TRUE
        /\ UNCHANGED <<zsr_req, tgtmode, doc_stat>> /\ LatchNmi(attn, attn_tms, tgtmode, TRUE)
    BY <1>3 DEF NmiEnable, Monitor
  <2>2. BoardInv'
    BY <1>1, <2>1 DEF Tracked, BoardInv
  <2>3. nmi' = FALSE
    BY <1>0, <2>1 DEF LatchNmi, Znmi, Tracked, BoardInv, BoardOK
  <2>4. InMonitor' => InMonitor
    BY <1>1, <2>1, <2>3 DEF InMonitor
  <2>5. ~Woken
    BY <2>1 DEF Woken
  <2> QED BY <1>1, <2>1, <2>2, <2>4, <2>5, QueuesLeft
<1>4. CASE NmiVec
  <2>1. /\ nmi /\ nmi' = FALSE /\ zid_init' = FALSE /\ dm' = "cmdrd_out"
        /\ UNCHANGED <<zsr_req, tgtmode, doc_stat>>
    BY <1>4 DEF NmiVec
  <2>2. BoardInv'
    BY <1>1, <2>1 DEF Tracked, BoardInv
  <2>3. InMonitor
    BY <2>1 DEF InMonitor
  <2>4. Woken' /\ dm \notin {"doccmdprc", "doc_statsend"}
    BY <2>1 DEF Woken, Tracked, BoardInv
  <2> QED BY <1>1, <2>1, <2>2, <2>3, <2>4, QueuesLeft
<1>5. CASE DoCommand
  <2>1. /\ dm = "doccmdprc" /\ dm' = "doc_statsend" /\ doc_stat' = "DMOPDONE" /\ ~nmi
        /\ UNCHANGED <<zid_init, zsr_req, tgtmode, nmi>>
    BY <1>5 DEF DoCommand, Monitor, pldVars
  <2>2. BoardInv'
    BY <1>1, <2>1 DEF Tracked, BoardInv
  <2>3. InMonitor /\ ~Woken
    BY <2>1 DEF InMonitor, Woken
  <2> QED BY <1>1, <2>1, <2>2, <2>3, QueuesLeft
<1>6. CASE TgtHop
  <2>1. /\ dm = "tgthop" /\ ~nmi /\ dm' = "target" /\ tgtmode' = TRUE
        /\ zsr_req' = (attn \/ sstep)
        /\ UNCHANGED <<zid_init, doc_stat>> /\ LatchNmi(attn, attn_tms, TRUE, zid_init)
    BY <1>6 DEF TgtHop, Monitor
  <2>2. nmi' = FALSE
    BY <1>0, <2>1 DEF LatchNmi, Znmi, BoardOK
  <2>3. BoardInv'
    BY <1>1, <2>1, <2>2 DEF Tracked, BoardInv
  <2>4. InMonitor' => InMonitor
    BY <1>1, <2>1, <2>2 DEF InMonitor
  <2>5. attn => Woken'
    BY <2>1 DEF Woken
  <2> QED BY <1>1, <2>1, <2>3, <2>4, <2>5, QueuesLeft
<1> QED BY <1>2, <1>3, <1>4, <1>5, <1>6

-----------------------------------------------------------------------------
(* The statuses the monitor writes. *)

LEMMA SendsTracked ==
  ASSUME Tracked, IInv', WrdyOut \/ CmdrdOut \/ StatSend \/ DoGo
  PROVE  Tracked'
<1>1. PICK st \in {"DMINIT", "DMOKCMDRD", "DMOPDONE", "DMTGTGO"}, r \in Reqs \cup {NOP} :
        CtrlWrite(st, r) /\ (WrdyOut => st = "DMINIT") /\ (CmdrdOut => st = "DMOKCMDRD")
        /\ (StatSend => st = "DMOPDONE") /\ (DoGo => st = "DMTGTGO")
  <2>1. doc_stat = "DMOPDONE" /\ doc_cmd \in Reqs \cup {NOP}
    BY PartsOfIInv, AskedFacts DEF Tracked, BoardInv, BoardOK
  <2>2. CASE WrdyOut
    BY <2>2 DEF WrdyOut, Send, CmdrdOut, StatSend, DoGo, Monitor
  <2>3. CASE CmdrdOut
    BY <2>3 DEF WrdyOut, Send, CmdrdOut, StatSend, DoGo, Monitor
  <2>4. CASE StatSend
    BY <2>1, <2>4 DEF WrdyOut, Send, CmdrdOut, StatSend, DoGo, Monitor
  <2>5. CASE DoGo
    BY <2>5 DEF WrdyOut, Send, CmdrdOut, StatSend, DoGo, Monitor
  <2> QED BY <2>2, <2>3, <2>4, <2>5
<1> DEFINE w == Write(st, r)
<1>2. /\ hwrt' = Append(hwrt, w) /\ hwrt \in Seq(Messages)
  BY <1>1 DEF CtrlWrite, Tracked, IInv, TypeOK
<1>3. /\ w \notin CmdReqs \cup AttnOffs \cup Breaks
      /\ w \in OpDones <=> st = "DMOPDONE"
      /\ w \in Inits <=> st = "DMINIT"
      /\ \A q : w # CmdReq(q)
  BY Sorts, Told DEF Statuses
<1>4. /\ UNCHANGED <<cmdstat, expctd, core0, app, core1, slot, rcv, kind, attn, attn_tms, tgtmode,
                     zid_init, zsr_req, nmi, doc_cmd, doc_stat, completed, excused>>
      /\ ~tgtmode /\ ~nmi
  BY DEF WrdyOut, CmdrdOut, StatSend, DoGo, Send, Monitor, notLink, dcVars, pldVars
<1> HIDE DEF w
<1>5. /\ \A S : Has(hwrt', S) <=> Has(hwrt, S) \/ w \in S
      /\ \A S : Once(hwrt, S) /\ (w \in S => ~Has(hwrt, S)) => Once(hwrt', S)
      /\ \A S, T : Ahead(hwrt, S, T) /\ (w \in S => ~Has(hwrt, T) /\ w \notin T)
                     => Ahead(hwrt', S, T)
  BY <1>2, PostedTo
<1>6. /\ Has(hwrt', OnWay) <=> Has(hwrt, OnWay) \/ st = "DMOPDONE"
      /\ Has(hwrt', Stale) <=> Has(hwrt, Stale) \/ st = "DMINIT"
      /\ Has(hwrt', AttnOffs) <=> Has(hwrt, AttnOffs)
      /\ Has(hwrt', OpDones) <=> Has(hwrt, OpDones) \/ st = "DMOPDONE"
      /\ Has(hwrt', Breaks) <=> Has(hwrt, Breaks)
      /\ \A q : Has(hwrt', {CmdReq(q)}) <=> Has(hwrt, {CmdReq(q)})
  BY <1>3, <1>5 DEF OnWay, Stale
<1>7. /\ dm = (CASE st = "DMINIT" -> "wrdy_out" [] st = "DMOKCMDRD" -> "cmdrd_out"
                 [] st = "DMOPDONE" -> "doc_statsend" [] st = "DMTGTGO" -> "doccmdprc")
      /\ dm' = (CASE st = "DMINIT" -> "wrdy_in" [] st = "DMOKCMDRD" -> "cmdrd_in"
                 [] st = "DMOPDONE" -> "attn_clr_chk" [] st = "DMTGTGO" -> "tgthop")
      /\ executed' = IF st \in {"DMOPDONE", "DMTGTGO"} THEN executed \cup {doc_cmd} ELSE executed
      /\ st = "DMTGTGO" => kind[doc_cmd] \in {"go", "step"}
  BY <1>1 DEF WrdyOut, CmdrdOut, StatSend, DoGo, Send, Monitor, Tracked, BoardInv
<1>8. BoardInv'
  BY <1>4, <1>6, <1>7 DEF Tracked, BoardInv
<1>9. Once(hwrt', OnWay) /\ Ahead(hwrt', Stale, OnWay)
  <2>1. w \in OnWay => st = "DMOPDONE"
    BY <1>3 DEF OnWay
  <2>2. w \in OnWay => ~Has(hwrt, OnWay)
    BY <1>7, <2>1 DEF Tracked, OneAtATime, InMonitor
  <2>3. w \in Stale => st = "DMINIT"
    BY <1>3 DEF Stale
  <2>4. w \in Stale => ~Has(hwrt, OnWay) /\ w \notin OnWay
    BY <1>4, <1>7, <2>1, <2>3 DEF Tracked, StaleFirst
  <2> QED BY <1>5, <2>2, <2>4 DEF Tracked, OneAtATime, StaleFirst
<1>10. OneAtATime'
  BY <1>4, <1>6, <1>7, <1>9 DEF Tracked, OneAtATime, InCore0, InMonitor
<1>11. StaleFirst'
  BY <1>4, <1>6, <1>7, <1>9 DEF Tracked, StaleFirst, OneAtATime, InCore0, InMonitor
<1>12. ASSUME NEW q \in Outstanding' PROVE Stage(q)'
  <2>1. q \in Outstanding /\ Stage(q) /\ q \notin executed'
    BY <1>4, <1>7, <1>12 DEF Tracked, UnderWay, Outstanding, Asked
  <2> QED BY <1>4, <1>6, <1>7, <2>1 DEF Stage, InCore0, Woken
<1>13. UnderWay'
  BY <1>4, <1>7, <1>12 DEF Tracked, UnderWay, Outstanding, Asked
<1>14. Handlers'
  BY <1>4, <1>6, <1>7, HandlersKept
<1> QED BY <1>8, <1>10, <1>11, <1>13, <1>14 DEF Tracked

-----------------------------------------------------------------------------
(* What the monitor reads. *)

LEMMA ReadsTracked ==
  ASSUME Tracked, IInv', WrdyIn \/ CmdrdIn
  PROVE  Tracked'
<1>1. /\ hwrt' = Append(hwrt, AttnOff) /\ hwrt \in Seq(Messages)
      /\ IF expctd THEN HandedOut ELSE UNCHANGED <<expctd, cmdstat>>
  BY DEF WrdyIn, CmdrdIn, CtrlRead, Tracked, IInv, TypeOK
<1>2. /\ UNCHANGED <<core0, app, core1, slot, rcv, kind, attn, attn_tms, tgtmode, zid_init,
                     zsr_req, nmi, doc_stat, executed, completed, excused>>
      /\ ~nmi
  BY DEF WrdyIn, CmdrdIn, Monitor, notLink, dcVars, pldVars
<1>3. /\ AttnOff \in AttnOffs /\ AttnOff \notin Inits \cup OnWay \cup Breaks
      /\ \A q : AttnOff # CmdReq(q)
  BY Sorts, Told
<1>4. /\ \A S : Has(hwrt', S) <=> Has(hwrt, S) \/ AttnOff \in S
      /\ \A S : Once(hwrt, S) /\ (AttnOff \in S => ~Has(hwrt, S)) => Once(hwrt', S)
      /\ \A S, T : Ahead(hwrt, S, T) /\ (AttnOff \in S => ~Has(hwrt, T) /\ AttnOff \notin T)
                     => Ahead(hwrt', S, T)
  BY <1>1, PostedTo
<1>5. /\ Has(hwrt', OnWay) <=> Has(hwrt, OnWay)
      /\ Has(hwrt', AttnOffs)
      /\ Has(hwrt', OpDones) <=> Has(hwrt, OpDones)
      /\ Has(hwrt', Breaks) <=> Has(hwrt, Breaks)
  BY <1>3, <1>4 DEF OnWay
<1>6. /\ dm \in {"wrdy_in", "cmdrd_in"}
      /\ dm = "wrdy_in" => dm' \in {"attn_clr_chk", "wrdy_out"}
      /\ dm = "cmdrd_in" =>
           /\ doc_cmd' = CtrlReadValue
           /\ dm' = IF CtrlReadValue = NOP THEN "wrdy_out" ELSE "doccmdprc"
  BY DEF WrdyIn, CmdrdIn, Monitor
<1>7. ~Has(hwrt, OnWay) /\ ~InCore0 /\ ~Has(app, Dones)
  BY <1>2, <1>6 DEF Tracked, OneAtATime, StaleFirst, InMonitor
<1>8. BoardInv'
  BY <1>2, <1>5, <1>6 DEF Tracked, BoardInv
<1>9. Once(hwrt', OnWay) /\ Ahead(hwrt', Stale, OnWay)
  BY <1>3, <1>4, <1>7 DEF Tracked, OneAtATime, StaleFirst
<1>10. OneAtATime'
  BY <1>2, <1>5, <1>6, <1>7, <1>9 DEF Tracked, OneAtATime, InCore0, InMonitor
<1>11. StaleFirst'
  BY <1>2, <1>5, <1>6, <1>7, <1>9 DEF Tracked, StaleFirst, InCore0
<1>12. Asked' = Asked /\ Outstanding' = Outstanding
  BY <1>2 DEF Asked, Outstanding
<1>13. ASSUME NEW q \in Outstanding' PROVE Stage(q)'
  <2>1. q \in Reqs /\ Stage(q) /\ q # NOP
    BY <1>12, AskedFacts DEF Tracked, UnderWay, Outstanding
  <2>2. dm = "cmdrd_in" /\ expctd /\ cmdstat = q
    BY <1>2, <1>6, <1>7, <2>1, Wider DEF Stage, Woken
  <2> QED BY <1>6, <2>1, <2>2 DEF Stage, CtrlReadValue
<1>14. UnderWay'
  BY <1>2, <1>12, <1>13 DEF Tracked, UnderWay
<1>15. Handlers'
  BY <1>2, <1>5, HandlersKept
<1> QED BY <1>8, <1>10, <1>11, <1>14, <1>15 DEF Tracked

-----------------------------------------------------------------------------
(* Core 0. *)

\* The message core 0 takes, and what remains.
LEMMA Core0Takes ==
  ASSUME Tracked, hwrt # <<>>
  PROVE  LET m == Head(hwrt)
             t == Tail(hwrt)
         IN  /\ m \in HwrtMsgs /\ m \in Messages /\ m \notin Breaks
             /\ \A S : Has(hwrt, S) <=> m \in S \/ Has(t, S)
             /\ Once(t, OnWay) /\ Ahead(t, Stale, OnWay) /\ ~Has(t, Breaks)
             /\ m \in OnWay => ~Has(t, OnWay) /\ ~Has(t, Stale)
<1>1. hwrt \in Seq(Messages) /\ Head(hwrt) \in HwrtMsgs
  BY QueuesTyped DEF Tracked
<1>2. Head(hwrt) \in Messages
  BY <1>1 DEF HwrtMsgs
<1> QED BY <1>1, <1>2, TakenFrom DEF Tracked, BoardInv, OneAtATime, StaleFirst

\* The types of core 0's messages.
LEMMA Core0Sorts ==
  ASSUME NEW m \in HwrtMsgs
  PROVE  /\ m \in Messages
         /\ m.id = "CMD_REQ" <=> m \in CmdReqs
         /\ m.id = "ATTN_OFF" <=> m \in AttnOffs
         /\ m.id \in {"CTRL_WRITE", "ATTN_OFF", "CMD_REQ"}
         /\ m.id = "CTRL_WRITE" => m.st \in Statuses
         /\ m \in OpDones <=> m.id = "CTRL_WRITE" /\ m.st = "DMOPDONE"
         /\ m \in Inits <=> m.id = "CTRL_WRITE" /\ m.st = "DMINIT"
         /\ m \in Breaks <=> m.st \in {"DMBRKHIT", "DMSSDONE"}
         /\ \A q : m = CmdReq(q) => m.id = "CMD_REQ" /\ m.req = q
         /\ m.req \in Reqs \cup {NOP}
BY DEF HwrtMsgs, CmdReqs, AttnOffs, OpDones, Inits, Breaks, CmdReq, Messages

\* The statuses core 0 passes on.
LEMMA PassedOn ==
  ASSUME Tracked, NEW m \in HwrtMsgs, m.id = "CTRL_WRITE", m \notin Breaks,
         app' = app \o Forwarded(m)
  PROVE  /\ ~Has(app', Breaks)
         /\ \A q : /\ Has(app', Completions(q)) <=> Has(app, Completions(q))
                   /\ Has(app', {OpComplete(q)}) <=> Has(app, {OpComplete(q)})
         /\ Has(app', CmdDones) <=> Has(app, CmdDones) \/ m \in OpDones
         /\ Has(app', Dones) <=> Has(app, Dones) \/ m \in OpDones
         /\ Once(app, Dones) /\ (m \in OpDones => ~Has(app, Dones)) => Once(app', Dones)
<1>1. /\ m.st \in Statuses /\ m.st \notin {"DMBRKHIT", "DMSSDONE"}
      /\ m.req \in Reqs \cup {NOP}
      /\ m \in OpDones <=> m.st = "DMOPDONE"
  BY Core0Sorts
<1>2. app \in Seq(Messages)
  BY DEF Tracked, IInv, TypeOK
<1> DEFINE s == Status(m.st)
           d == CmdDone(m.req)
           a == Append(app, s)
<1>3. /\ s \notin Dones /\ s \notin CmdDones /\ s \notin Breaks /\ s \in Messages
      /\ \A q : s \notin Completions(q) /\ s # OpComplete(q)
  <2>1. s \notin Dones /\ s \notin Breaks
    BY <1>1, Sorts
  <2>2. \A q : s \notin Completions(q) /\ s # OpComplete(q)
    BY Told
  <2>3. CmdDones \subseteq Dones
    BY DEF CmdDones, Dones
  <2>4. s \in Messages
    BY <1>1 DEF Status, Messages
  <2> QED BY <2>1, <2>2, <2>3, <2>4
<1>4. /\ d \in Dones /\ d \in CmdDones /\ d \notin Breaks
      /\ \A q : d \notin Completions(q) /\ d # OpComplete(q)
  <2>1. d \in CmdDones /\ d \notin Breaks
    BY <1>1, Sorts
  <2>2. \A q : d \notin Completions(q) /\ d # OpComplete(q)
    BY Told
  <2>3. CmdDones \subseteq Dones
    BY DEF CmdDones, Dones
  <2> QED BY <2>1, <2>2, <2>3
<1> HIDE DEF s, d
<1>5. app' = IF m \in OpDones THEN Append(a, d) ELSE a
  BY <1>1, <1>2 DEF Forwarded, s, d
<1>6. /\ a \in Seq(Messages)
      /\ \A S : Has(a, S) <=> Has(app, S) \/ s \in S
      /\ \A S : Once(app, S) /\ (s \in S => ~Has(app, S)) => Once(a, S)
  BY <1>2, <1>3, PostedTo
<1> HIDE DEF a
<1>7. /\ ~Has(a, Breaks)
      /\ \A q : /\ Has(a, Completions(q)) <=> Has(app, Completions(q))
                /\ Has(a, {OpComplete(q)}) <=> Has(app, {OpComplete(q)})
      /\ Has(a, CmdDones) <=> Has(app, CmdDones)
      /\ Has(a, Dones) <=> Has(app, Dones)
      /\ Once(app, Dones) => Once(a, Dones)
  BY <1>3, <1>6 DEF Tracked, BoardInv
<1>8. CASE m \notin OpDones
  BY <1>5, <1>7, <1>8
<1>9. CASE m \in OpDones
  <2>1. app' = Append(a, d)
    BY <1>5, <1>9
  <2>2. /\ \A S : Has(app', S) <=> Has(a, S) \/ d \in S
        /\ \A S : Once(a, S) /\ (d \in S => ~Has(a, S)) => Once(app', S)
    BY <1>6, <2>1, PostedTo
  <2> QED BY <1>4, <1>7, <1>9, <2>2
<1> QED BY <1>8, <1>9

LEMMA HandleMsgTracked ==
  ASSUME Tracked, IInv', HandleMsg
  PROVE  Tracked'
<1> DEFINE m == Head(hwrt)
<1>1. /\ core0.at = "loop" /\ hwrt # <<>> /\ ~Prepares(m) /\ hwrt' = Tail(hwrt)
      /\ IF m.id = "ATTN_OFF"
           THEN SetAttn(FALSE) /\ UNCHANGED app
           ELSE /\ app' = app \o Forwarded(m)
                /\ UNCHANGED <<attn, attn_tms, zsr_req, nmi>>
      /\ UNCHANGED <<core0, cmdstat, expctd, core1, slot, rcv, kind, tgtmode, zid_init, dm,
                     doc_cmd, doc_stat, executed, completed, excused>>
  BY DEF HandleMsg, dmVars, histVars
<1>2. /\ m \in HwrtMsgs /\ m \notin Breaks
      /\ \A S : Has(hwrt, S) <=> m \in S \/ Has(hwrt', S)
      /\ Once(hwrt', OnWay) /\ Ahead(hwrt', Stale, OnWay) /\ ~Has(hwrt', Breaks)
      /\ m \in OnWay => ~Has(hwrt', OnWay) /\ ~Has(hwrt', Stale)
  BY <1>1, Core0Takes
<1>0. BoardOK
  BY PartsOfIInv DEF Tracked
<1>3. Asked' = Asked /\ Outstanding' = Outstanding
  BY <1>1 DEF Asked, Outstanding
<1> HIDE DEF m
<1>4. m.id \in {"CTRL_WRITE", "ATTN_OFF"} /\ m \notin CmdReqs \cup Inits
  BY <1>1, <1>2, Core0Sorts DEF Prepares, PreparesNop
<1>5. \A q : m # CmdReq(q)
  BY <1>2, <1>4, Core0Sorts
<1>6. \A q : Has(hwrt', {CmdReq(q)}) <=> Has(hwrt, {CmdReq(q)})
  BY <1>2, <1>5
<1>7. CASE m.id = "ATTN_OFF"
  <2>1. /\ attn' = FALSE /\ attn_tms' = attn_tms /\ zsr_req' = zsr_req /\ nmi' = nmi
        /\ app' = app
    BY <1>0, <1>1, <1>7 DEF SetAttn, LatchNmi, Znmi, BoardOK
  <2>2. m \in AttnOffs /\ m \notin OpDones /\ m \notin OnWay
    BY <1>2, <1>4, <1>7, Core0Sorts DEF OnWay
  <2>3. /\ Has(hwrt', OnWay) <=> Has(hwrt, OnWay)
        /\ Has(hwrt', OpDones) <=> Has(hwrt, OpDones)
        /\ Has(hwrt, Stale)
    BY <1>2, <2>2 DEF Stale
  <2>4. BoardInv'
    BY <1>1, <1>2, <2>1 DEF Tracked, BoardInv
  <2>5. OneAtATime'
    BY <1>1, <1>2, <2>1, <2>3 DEF Tracked, OneAtATime, InCore0, InMonitor
  <2>6. StaleFirst'
    BY <1>1, <1>2, <2>1, <2>3 DEF Tracked, StaleFirst, InCore0
  <2>7. ASSUME NEW q \in Outstanding' PROVE Stage(q)'
    <3>1. Stage(q)
      BY <1>3 DEF Tracked, UnderWay
    <3> QED BY <1>1, <1>6, <2>1, <2>3, <3>1 DEF Stage, InCore0
  <2>8. UnderWay'
    BY <1>1, <1>3, <2>7 DEF Tracked, UnderWay
  <2>9. Handlers'
    BY <1>1, <2>1, <2>3, HandlersKept
  <2> QED BY <2>4, <2>5, <2>6, <2>8, <2>9 DEF Tracked
<1>8. CASE m.id = "CTRL_WRITE"
  <2>1. app' = app \o Forwarded(m) /\ UNCHANGED <<attn, attn_tms, zsr_req, nmi>>
    BY <1>1, <1>8
  <2>2. m \notin AttnOffs /\ m \notin Stale /\ (m \in OnWay <=> m \in OpDones)
    BY <1>2, <1>4, <1>8, Core0Sorts DEF OnWay, Stale
  <2>3. /\ ~Has(app', Breaks)
        /\ \A q : /\ Has(app', Completions(q)) <=> Has(app, Completions(q))
                  /\ Has(app', {OpComplete(q)}) <=> Has(app, {OpComplete(q)})
        /\ Has(app', CmdDones) <=> Has(app, CmdDones) \/ m \in OpDones
        /\ Has(app', Dones) <=> Has(app, Dones) \/ m \in OpDones
        /\ Once(app, Dones) /\ (m \in OpDones => ~Has(app, Dones)) => Once(app', Dones)
    BY <1>2, <1>8, <2>1, PassedOn
  <2>4. /\ Has(hwrt', AttnOffs) <=> Has(hwrt, AttnOffs)
        /\ Has(hwrt', Stale) <=> Has(hwrt, Stale)
        /\ Has(hwrt, OnWay) <=> Has(hwrt', OnWay) \/ m \in OpDones
        /\ Has(hwrt, OpDones) <=> Has(hwrt', OpDones) \/ m \in OpDones
    BY <1>2, <2>2
  <2>5. BoardInv'
    BY <1>1, <1>2, <2>1, <2>3 DEF Tracked, BoardInv
  <2>6. m \in OpDones => /\ ~Has(hwrt', OnWay) /\ ~InCore0 /\ ~InMonitor /\ ~Has(app, Dones)
                         /\ ~Has(hwrt, AttnOffs)
    BY <1>2, <2>2, <2>4, Wider DEF Tracked, OneAtATime
  <2>7. OneAtATime'
    BY <1>1, <1>2, <2>1, <2>3, <2>4, <2>6 DEF Tracked, OneAtATime, InCore0, InMonitor
  <2>8. StaleFirst'
    BY <1>1, <1>2, <2>1, <2>3, <2>4 DEF Tracked, StaleFirst, InCore0
  <2>9. ASSUME NEW q \in Outstanding' PROVE Stage(q)'
    <3>1. Stage(q)
      BY <1>3 DEF Tracked, UnderWay
    <3> QED BY <1>1, <1>6, <2>1, <2>4, <3>1 DEF Stage, InCore0, Woken
  <2>10. UnderWay'
    BY <1>1, <1>3, <2>9 DEF Tracked, UnderWay
  <2>11. Handlers'
    BY <1>1, <2>3, <2>4, HandlersKept
  <2> QED BY <2>5, <2>7, <2>8, <2>10, <2>11 DEF Tracked
<1> QED BY <1>4, <1>7, <1>8

LEMMA StoreCommandTracked ==
  ASSUME Tracked, IInv', StoreCommand
  PROVE  Tracked'
<1> DEFINE m == Head(hwrt)
<1>1. /\ core0.at = "loop" /\ hwrt # <<>> /\ Prepares(m) /\ hwrt' = Tail(hwrt)
      /\ cmdstat' = Prepared(m) /\ core0' = [at |-> "expect", msg |-> m]
      /\ UNCHANGED <<app, expctd, core1, slot, rcv, kind, tgtmode, zid_init, dm, attn, attn_tms,
                     zsr_req, nmi, doc_cmd, doc_stat, executed, completed, excused>>
  BY DEF StoreCommand, dmVars, histVars, dcVars, pldVars
<1>2. /\ m \in HwrtMsgs /\ m \notin Breaks
      /\ \A S : Has(hwrt, S) <=> m \in S \/ Has(hwrt', S)
      /\ Once(hwrt', OnWay) /\ Ahead(hwrt', Stale, OnWay) /\ ~Has(hwrt', Breaks)
      /\ m \in OnWay => ~Has(hwrt', OnWay) /\ ~Has(hwrt', Stale)
  BY <1>1, Core0Takes
<1>3. Asked' = Asked /\ Outstanding' = Outstanding
  BY <1>1 DEF Asked, Outstanding
<1> HIDE DEF m
<1>4. core0'.at = "expect" /\ core0'.msg = m
  BY <1>1
<1>5. m.id = "CMD_REQ" \/ (m.id = "CTRL_WRITE" /\ m.st = "DMINIT")
  BY <1>1, <1>2, Core0Sorts DEF Prepares, PreparesNop
<1>6. m \notin OpDones /\ m \notin AttnOffs
  BY <1>2, <1>5, Core0Sorts
<1>7. BoardInv'
  BY <1>1, <1>2, <1>4, <1>5 DEF Tracked, BoardInv
<1>8. Handlers'
  BY <1>1, <1>2, <1>6, HandlersKept
<1>9. /\ Has(hwrt', OnWay) => Has(hwrt, OnWay)
      /\ Has(hwrt', AttnOffs) <=> Has(hwrt, AttnOffs)
      /\ Has(hwrt', Stale) => Has(hwrt, Stale)
  BY <1>2, <1>6
<1>10. CASE m.id = "CMD_REQ"
  <2>1. m \in OnWay /\ m \in CmdReqs
    BY <1>2, <1>10, Core0Sorts DEF OnWay
  <2>2. /\ Has(hwrt, OnWay) /\ ~InCore0 /\ ~InMonitor /\ ~Has(app, Dones)
        /\ ~Has(hwrt', OnWay) /\ ~Has(hwrt', Stale) /\ ~Has(hwrt, AttnOffs)
    BY <1>2, <1>9, <2>1, Wider DEF Tracked, OneAtATime
  <2>3. InCore0' /\ ~InMonitor'
    BY <1>1, <1>4, <1>10, <2>2 DEF InCore0, InMonitor
  <2>4. OneAtATime'
    BY <1>1, <1>2, <1>9, <2>2, <2>3 DEF Tracked, OneAtATime
  <2>5. StaleFirst'
    BY <1>1, <1>2, <2>2 DEF Tracked, StaleFirst
  <2>6. ASSUME NEW q \in Outstanding' PROVE Stage(q)'
    <3>1. q \in Reqs /\ Stage(q)
      BY <1>3, AskedFacts DEF Tracked, UnderWay, Outstanding
    <3>2. Has(hwrt, {CmdReq(q)})
      BY <2>2, <3>1 DEF Stage, InMonitor
    <3>3. ~Has(hwrt', {CmdReq(q)})
      BY <2>2, <3>1, Wider
    <3>4. m = CmdReq(q)
      BY <1>2, <3>2, <3>3
    <3>5. m.req = q /\ cmdstat' = q
      BY <1>1, <1>2, <1>10, <3>4, Core0Sorts DEF Prepared
    <3> QED BY <1>4, <2>3, <3>5 DEF Stage
  <2>7. UnderWay'
    BY <1>1, <1>3, <2>6 DEF Tracked, UnderWay
  <2> QED BY <1>7, <1>8, <2>4, <2>5, <2>7 DEF Tracked
<1>11. CASE m.id = "CTRL_WRITE" /\ m.st = "DMINIT"
  <2>1. m \in Inits /\ m \notin CmdReqs /\ m \notin OnWay
    BY <1>2, <1>6, <1>11, Core0Sorts DEF OnWay
  <2>2. /\ ~InCore0' /\ (InMonitor' <=> InMonitor) /\ Has(hwrt, Stale)
        /\ Has(hwrt', OnWay) <=> Has(hwrt, OnWay)
    BY <1>1, <1>2, <1>4, <1>9, <1>11, <2>1 DEF InCore0, InMonitor, Stale
  <2>3. OneAtATime'
    BY <1>1, <1>2, <1>9, <2>2 DEF Tracked, OneAtATime
  <2>4. StaleFirst'
    BY <1>1, <1>2, <2>2 DEF Tracked, StaleFirst
  <2>5. ASSUME NEW q \in Outstanding' PROVE Stage(q)'
    <3>1. Stage(q)
      BY <1>3 DEF Tracked, UnderWay
    <3>2. m # CmdReq(q)
      BY <1>2, <1>11, Core0Sorts
    <3> QED BY <1>1, <1>2, <2>2, <3>1, <3>2 DEF Stage, InCore0
  <2>6. UnderWay'
    BY <1>1, <1>3, <2>5 DEF Tracked, UnderWay
  <2> QED BY <1>7, <1>8, <2>3, <2>4, <2>6 DEF Tracked
<1> QED BY <1>5, <1>10, <1>11

LEMMA ExpectReadTracked ==
  ASSUME Tracked, IInv', ExpectRead
  PROVE  Tracked'
<1>1. /\ core0.at = "expect" /\ core0'.at = "finish" /\ core0'.msg = core0.msg /\ expctd' = TRUE
      /\ UNCHANGED <<hwrt, cmdstat, app, core1, slot, rcv, kind, tgtmode, zid_init, dm, attn,
                     attn_tms, zsr_req, nmi, doc_cmd, doc_stat, executed, completed, excused>>
  BY DEF ExpectRead, dmVars, histVars, dcVars, pldVars, Tracked, IInv, TypeOK
<1>2. Asked' = Asked /\ Outstanding' = Outstanding
  BY <1>1 DEF Asked, Outstanding
<1>3. BoardInv' /\ (InCore0' <=> InCore0)
  BY <1>1 DEF Tracked, BoardInv, InCore0
<1>4. OneAtATime' /\ StaleFirst'
  BY <1>1, <1>3 DEF Tracked, OneAtATime, StaleFirst, InMonitor
<1>5. ASSUME NEW q \in Outstanding' PROVE Stage(q)'
  <2>1. Stage(q)
    BY <1>2 DEF Tracked, UnderWay
  <2> QED BY <1>1, <1>3, <2>1 DEF Stage
<1>6. UnderWay'
  BY <1>1, <1>2, <1>5 DEF Tracked, UnderWay
<1>7. Handlers'
  BY <1>1, HandlersKept
<1> QED BY <1>3, <1>4, <1>6, <1>7 DEF Tracked

\* ATTN goes on, and the monitor comes for the command or is reset.
LEMMA AttnRaisedTracked ==
  ASSUME Tracked, InTime, IInv', FinishMsg, core0.msg.id = "CMD_REQ"
  PROVE  Tracked'
<1>1. /\ core0.at = "finish" /\ core0'.at = "loop" /\ PromptMonitor /\ SetAttn(TRUE)
      /\ UNCHANGED <<hwrt, cmdstat, expctd, app, core1, slot, rcv, kind, tgtmode, zid_init, dm,
                     doc_cmd, doc_stat, executed, completed, excused>>
  BY DEF FinishMsg, dmVars, histVars
<1>0. BoardOK
  BY PartsOfIInv DEF Tracked
<1>2. InCore0 /\ ~InCore0'
  BY <1>1 DEF InCore0
<1>3. /\ ~Has(hwrt, OnWay) /\ ~InMonitor /\ ~Has(app, Dones) /\ ~Has(hwrt, Stale)
      /\ ~Has(hwrt, AttnOffs)
  BY <1>2, Wider DEF Tracked, OneAtATime, StaleFirst
<1>4. ~attn /\ ~nmi /\ dm \notin {"cmdrd_out", "cmdrd_in", "doccmdprc", "doc_statsend"}
  BY <1>3 DEF InMonitor
<1>5. dm \notin {"wrdy_out", "wrdy_in"}
  BY <1>2, <1>4 DEF Tracked, StaleFirst
<1>6. /\ attn' = TRUE /\ attn_tms' = tgtmode /\ zsr_req' = (zsr_req \/ tgtmode)
      /\ nmi' <=> ~tgtmode /\ zid_init
  BY <1>0, <1>1, <1>4 DEF SetAttn, LatchNmi, Znmi, BoardOK
<1>7. dm \in {"attn_clr_chk", "nmi_enable"} => zid_init
  BY <1>1, <1>4 DEF PromptMonitor
<1>8. dm \in {"bahdlr", "doinit", "attn_clr_chk", "nmi_enable", "idle", "tgthop", "target"}
  BY <1>0, <1>4, <1>5 DEF BoardOK, DmStates
<1>9. Woken'
  BY <1>0, <1>1, <1>6, <1>7, <1>8 DEF Woken, BoardOK, Tracked, BoardInv
<1>10. BoardInv'
  BY <1>0, <1>1, <1>6, <1>7, <1>8 DEF Tracked, BoardInv, BoardOK
<1>11. OneAtATime'
  BY <1>1, <1>2, <1>3, <1>8 DEF Tracked, OneAtATime
<1>12. StaleFirst'
  BY <1>1, <1>2, <1>5 DEF Tracked, StaleFirst
<1>13. Asked' = Asked /\ Outstanding' = Outstanding
  BY <1>1 DEF Asked, Outstanding
<1>14. ASSUME NEW q \in Outstanding' PROVE Stage(q)'
  <2>1. q \in Reqs /\ Stage(q)
    BY <1>13, AskedFacts DEF Tracked, UnderWay, Outstanding
  <2>2. cmdstat = q /\ expctd
    BY <1>1, <1>3, <1>4, <2>1, Wider DEF Stage
  <2> QED BY <1>1, <1>3, <1>6, <1>9, <2>2 DEF Stage
<1>15. UnderWay'
  BY <1>1, <1>13, <1>14 DEF Tracked, UnderWay
<1>16. Handlers'
  BY <1>1, HandlersKept
<1> QED BY <1>10, <1>11, <1>12, <1>15, <1>16 DEF Tracked

LEMMA FinishMsgTracked ==
  ASSUME Tracked, InTime, IInv', FinishMsg
  PROVE  Tracked'
<1>1. CASE core0.msg.id = "CMD_REQ"
  BY <1>1, AttnRaisedTracked
<1>2. CASE core0.msg.id # "CMD_REQ"
  <2>1. /\ core0.at = "finish" /\ core0'.at = "loop" /\ app' = app \o Forwarded(core0.msg)
        /\ UNCHANGED <<hwrt, cmdstat, expctd, core1, slot, rcv, kind, tgtmode, zid_init, dm, attn,
                       attn_tms, zsr_req, nmi, doc_cmd, doc_stat, executed, completed, excused>>
    BY <1>2 DEF FinishMsg, dmVars, histVars
  <2>2. PICK m \in HwrtMsgs : m = core0.msg /\ m.id # "ATTN_OFF"
    BY <2>1 DEF Tracked, IInv, QueuesOK
  <2>3. m.id = "CTRL_WRITE" /\ m.st = "DMINIT"
    BY <1>2, <2>1, <2>2, Core0Sorts DEF Tracked, BoardInv
  <2>4. m \notin OpDones /\ m \notin Breaks
    BY <2>2, <2>3, Core0Sorts
  <2>5. /\ ~Has(app', Breaks)
        /\ \A q : /\ Has(app', Completions(q)) <=> Has(app, Completions(q))
                  /\ Has(app', {OpComplete(q)}) <=> Has(app, {OpComplete(q)})
        /\ Has(app', CmdDones) <=> Has(app, CmdDones)
        /\ Has(app', Dones) <=> Has(app, Dones)
        /\ Once(app, Dones) => Once(app', Dones)
    BY <2>1, <2>2, <2>3, <2>4, PassedOn
  <2>6. ~InCore0 /\ ~InCore0'
    BY <1>2, <2>1 DEF InCore0
  <2>7. BoardInv'
    BY <2>1, <2>5 DEF Tracked, BoardInv
  <2>8. OneAtATime' /\ StaleFirst'
    BY <2>1, <2>5, <2>6 DEF Tracked, OneAtATime, StaleFirst, InMonitor
  <2>9. Asked' = Asked /\ Outstanding' = Outstanding
    BY <2>1 DEF Asked, Outstanding
  <2>10. ASSUME NEW q \in Outstanding' PROVE Stage(q)'
    <3>1. Stage(q)
      BY <2>9 DEF Tracked, UnderWay
    <3> QED BY <2>1, <2>6, <3>1 DEF Stage
  <2>11. UnderWay'
    BY <2>1, <2>9, <2>10 DEF Tracked, UnderWay
  <2>12. Handlers'
    BY <2>1, <2>5, HandlersKept
  <2> QED BY <2>7, <2>8, <2>11, <2>12 DEF Tracked
<1> QED BY <1>1, <1>2

-----------------------------------------------------------------------------
(* Core 1. *)

\* The three stores of a cancel, each of which finds no command left.
LEMMA CancelTracked ==
  ASSUME Tracked, IInv', CancelAttn \/ CancelCmdstat \/ CancelExpctd
  PROVE  Tracked'
<1>1. /\ UNCHANGED <<hwrt, app, core0, slot, rcv, kind, tgtmode, zid_init, dm, doc_cmd, doc_stat,
                     executed, completed>>
      /\ excused' \in {excused, excused \cup Outstanding}
  BY DEF CancelAttn, CancelCmdstat, CancelExpctd, dmVars, histVars, commVars, pldVars
<1>2. (attn' => attn) /\ zsr_req' = zsr_req /\ nmi' = nmi
  <2>1. CASE CancelAttn
    BY <2>1, PartsOfIInv DEF CancelAttn, SetAttn, LatchNmi, Znmi, Tracked, BoardOK
  <2>2. CASE CancelCmdstat \/ CancelExpctd
    BY <2>2 DEF CancelCmdstat, CancelExpctd, pldVars
  <2> QED BY <2>1, <2>2
<1>3. Asked' = Asked
  BY <1>1 DEF Asked
<1>4. Outstanding' = {}
  <2>1. CASE CancelAttn
    BY <1>1, <1>3, <2>1 DEF CancelAttn, Outstanding
  <2>2. CASE CancelCmdstat \/ CancelExpctd
    BY <1>1, <1>3, <2>2 DEF CancelCmdstat, CancelExpctd, Tracked, UnderWay, Outstanding
  <2> QED BY <2>1, <2>2
<1>5. BoardInv'
  BY <1>1, <1>2 DEF Tracked, BoardInv
<1>6. (InCore0' <=> InCore0) /\ (InMonitor' => InMonitor)
  BY <1>1, <1>2 DEF InCore0, InMonitor
<1>7. OneAtATime' /\ StaleFirst'
  BY <1>1, <1>2, <1>6 DEF Tracked, OneAtATime, StaleFirst
<1>8. UnderWay'
  BY <1>4 DEF UnderWay
<1>9. Handlers'
  BY <1>1, HandlersKept
<1> QED BY <1>5, <1>7, <1>8, <1>9 DEF Tracked

LEMMA NothingUnderWay ==
  ASSUME Tracked, ~Has(hwrt, OnWay), ~InCore0, ~InMonitor
  PROVE  Outstanding = {}
<1> SUFFICES ASSUME NEW r \in Outstanding PROVE FALSE
  OBVIOUS
<1>1. r \in Reqs /\ Stage(r)
  BY AskedFacts DEF Tracked, UnderWay, Outstanding
<1> QED BY <1>1, Wider DEF Stage, InMonitor

LEMMA NotHasOnce == \A q, S : ~Has(q, S) => Once(q, S)
BY DEF Has, Once

\* A request is made when nothing is under way, and all handlers are done.
LEMMA RequestTracked ==
  ASSUME Tracked, IInv', NEW k \in Kinds, Request(k), core1 = "loop",
         UNCHANGED <<core0, core1, cmdstat, expctd, pldVars, dmVars, executed, excused>>,
         ~Has(hwrt, OnWay), ~InCore0, ~InMonitor, dm \notin {"wrdy_out", "wrdy_in"},
         ~Has(app', Dones), ~Has(app', Breaks),
         completed' \in [Reqs -> 0..1],
         \A r \in Reqs : r > Len(kind) => completed'[r] = 0,
         \A r \in Asked : completed'[r] = 1 => slot # r,
         \A r \in Asked \ excused : kind[r] \in {"get", "mget"} => completed'[r] = 1
  PROVE  Tracked'
<1> DEFINE n == Len(kind) + 1
           w == CmdReq(n)
<1>1. /\ kind' = Append(kind, k) /\ Len(kind) < MaxRequests
      /\ hwrt' = Append(hwrt, w) /\ slot' = SlotFor(k, n)
      /\ rcv' = IF k = "mget" THEN n ELSE rcv
  BY DEF Request
<1>2. /\ kind \in Seq(Kinds) /\ Len(kind) \in Nat /\ hwrt \in Seq(Messages)
      /\ executed \subseteq Asked /\ excused \subseteq Asked
      /\ slot \in Asked \cup {NONE}
  BY DEF Tracked, IInv, TypeOK
<1>3. /\ Len(kind') = n /\ kind'[n] = k /\ n \in Reqs /\ n # NONE
      /\ \A r \in Asked : kind'[r] = kind[r] /\ r # n /\ r # NONE /\ r \in Reqs
      /\ Asked' = Asked \cup {n} /\ n \notin Asked
  BY <1>1, <1>2, DmLinkAssumption DEF Asked, Reqs, NONE
<1>4. Outstanding = {} /\ Outstanding' = {n}
  BY <1>2, <1>3, NothingUnderWay DEF Outstanding
<1>5. w \in CmdReqs /\ w \notin OpDones \cup Stale \cup Breaks
  BY <1>3, Sorts
<1>6. UNCHANGED <<attn, attn_tms, tgtmode, zid_init, zsr_req, nmi, dm, doc_cmd, doc_stat>>
  BY DEF pldVars, dmVars
<1> HIDE DEF n, w
<1>7. /\ \A S : Has(hwrt', S) <=> Has(hwrt, S) \/ w \in S
      /\ \A S : Once(hwrt, S) /\ (w \in S => ~Has(hwrt, S)) => Once(hwrt', S)
      /\ \A S, T : Ahead(hwrt, S, T) /\ (w \in S => ~Has(hwrt, T) /\ w \notin T)
                     => Ahead(hwrt', S, T)
  BY <1>1, <1>2, PostedTo
<1>8. /\ Has(hwrt', AttnOffs) <=> Has(hwrt, AttnOffs)
      /\ ~Has(hwrt', Breaks)
      /\ Once(hwrt', OnWay) /\ Ahead(hwrt', Stale, OnWay)
  BY <1>5, <1>7 DEF Stale, Tracked, BoardInv, OneAtATime, StaleFirst
<1>9. BoardInv'
  BY <1>6, <1>8 DEF Tracked, BoardInv
<1>10. ~InCore0' /\ ~InMonitor'
  BY <1>6, <1>8 DEF InCore0, InMonitor
<1>11. dm \notin {"doccmdprc", "doc_statsend"}
  BY DEF InMonitor
<1>12. OneAtATime'
  BY <1>6, <1>8, <1>10, <1>11, NotHasOnce DEF OneAtATime
<1>13. StaleFirst'
  BY <1>6, <1>8, <1>10 DEF StaleFirst
<1>14. UnderWay'
  <2>1. Has(hwrt', {CmdReq(n)})
    BY <1>7 DEF w
  <2> QED BY <1>4, <2>1 DEF UnderWay, Stage
<1>15. Handlers'
  <2>1. \A r : ~Has(app', Completions(r))
    BY Wider
  <2>2. \A r \in Reqs : ~Has(app', {OpComplete(r)})
    BY <2>1, Wider
  <2>3. slot' \in {n, slot, NONE}
    BY <1>1 DEF SlotFor, Kinds
  <2>4. ASSUME NEW r \in Asked PROVE HandlerOf(r)'
    <3>1. slot' = r => slot = r /\ k = "put" /\ rcv' = rcv
      BY <1>1, <1>3 DEF SlotFor, Kinds
    <3>2. slot = r /\ kind[r] = "mget" => rcv = r
      BY DEF Tracked, Handlers, HandlerOf
    <3>3. r \in executed \cup excused /\ r \notin Outstanding'
      BY <1>3, <1>4 DEF Outstanding
    <3> QED BY <1>3, <2>1, <2>2, <3>1, <3>2, <3>3 DEF HandlerOf
  <2>5. ASSUME NEW r, r = n PROVE HandlerOf(r)'
    <3>1. completed'[n] = 0
      BY <1>2, <1>3 DEF n
    <3>2. n \notin executed'
      BY <1>2, <1>3
    <3>3. k \in {"get", "mget"} => slot' = n
      BY <1>1 DEF SlotFor
    <3>4. k = "mget" => rcv' = n
      BY <1>1
    <3>5. ~Has(app', Completions(n)) /\ ~Has(app', {OpComplete(n)})
      BY <1>3, <2>1, <2>2
    <3>6. kind'[n] = k
      BY <1>3
    <3> QED BY <2>5, <3>1, <3>2, <3>3, <3>4, <3>5, <3>6 DEF HandlerOf
  <2>6. \A r \in Reqs : r > Len(kind') => completed'[r] = 0
    BY <1>2, <1>3 DEF n, Reqs
  <2>7. ~Has(app', Completions(NONE))
    BY <2>1
  <2>8. \A r \in Asked' : HandlerOf(r)'
    BY <1>3, <2>4, <2>5
  <2>9. completed' \in [Reqs -> 0..1]
    OBVIOUS
  <2>10. Reqs' = Reqs /\ NONE' = NONE
    OBVIOUS
  <2> QED BY <2>6, <2>7, <2>8, <2>9, <2>10 DEF Handlers
<1> QED BY <1>9, <1>12, <1>13, <1>14, <1>15 DEF Tracked

\* The user's command.
LEMMA UserCommandTracked ==
  ASSUME Tracked, IInv', NEW k \in Kinds, UserCommand(k)
  PROVE  Tracked'
<1>1. /\ hwrt = <<>> /\ app = <<>> /\ app' = app /\ core0.at = "loop" /\ core1 = "loop"
      /\ ~attn /\ ~nmi /\ dm \in {"idle", "target"} /\ Request(k)
      /\ UNCHANGED <<core0, core1, cmdstat, expctd, pldVars, dmVars, executed, excused, completed>>
  BY DEF UserCommand, Quiet, histVars
<1>2. ~InCore0 /\ ~InMonitor /\ \A S : ~Has(hwrt, S) /\ ~Has(app', S)
  BY <1>1, EmptyQueue DEF InCore0, InMonitor
<1>3. Outstanding = {}
  BY <1>2, NothingUnderWay
<1>4. \A r \in Asked \ excused : kind[r] \in {"get", "mget"} => completed[r] = 1
  BY <1>1, <1>2, <1>3 DEF Tracked, Handlers, HandlerOf, Outstanding
<1>5. /\ completed' \in [Reqs -> 0..1]
      /\ \A r \in Reqs : r > Len(kind) => completed'[r] = 0
      /\ \A r \in Asked : completed'[r] = 1 => slot # r
  BY <1>1 DEF Tracked, Handlers, HandlerOf
<1> QED BY <1>1, <1>2, <1>4, <1>5, RequestTracked

\* The message core 1 takes, and what remains.
LEMMA Core1Takes ==
  ASSUME Tracked, app # <<>>
  PROVE  LET m == Head(app)
             t == Tail(app)
         IN  /\ m \in AppMsgs /\ m \notin Breaks /\ t \in Seq(Messages)
             /\ \A S : Has(app, S) <=> m \in S \/ Has(t, S)
             /\ Once(t, Dones) /\ ~Has(t, Breaks)
             /\ m \in Dones => ~Has(t, Dones)
<1>1. app \in Seq(Messages) /\ Head(app) \in AppMsgs /\ Tail(app) \in Seq(Messages)
  BY QueuesTyped DEF Tracked
<1> QED BY <1>1, TakenFrom DEF Tracked, BoardInv, OneAtATime

LEMMA Core1Sorts ==
  ASSUME NEW m \in AppMsgs
  PROVE  /\ m.id \in {"STATUSRCVD", "CMDDONE", "OP_COMPLETE", "BUF_COMPLETE"}
         /\ m.req \in Asked \cup {NOP}
         /\ m.id = "CMDDONE" <=> m \in CmdDones
         /\ m \in Dones <=> m.id # "STATUSRCVD"
         /\ m \in Breaks <=> m.st \in {"DMBRKHIT", "DMSSDONE"}
         /\ \A q : m \in Completions(q) <=> m.id \in {"OP_COMPLETE", "BUF_COMPLETE"} /\ m.req = q
         /\ \A q : m = OpComplete(q) <=> m.id = "OP_COMPLETE" /\ m.req = q
<1>1. /\ m \in Messages /\ m.req \in Asked \cup {NOP}
      /\ m.id \in {"STATUSRCVD", "CMDDONE", "OP_COMPLETE", "BUF_COMPLETE"}
  BY DEF AppMsgs
<1>2. /\ m.id = "CMDDONE" <=> m \in CmdDones
      /\ m \in Dones <=> m.id # "STATUSRCVD"
      /\ m \in Breaks <=> m.st \in {"DMBRKHIT", "DMSSDONE"}
      /\ \A q : m \in Completions(q) <=> m.id \in {"OP_COMPLETE", "BUF_COMPLETE"} /\ m.req = q
  BY <1>1 DEF CmdDones, Dones, Breaks, Completions
<1>3. ASSUME m.id = "OP_COMPLETE" PROVE m = OpComplete(m.req)
  BY <1>1, <1>3 DEF Messages, OpComplete
<1>4. \A q : OpComplete(q).id = "OP_COMPLETE" /\ OpComplete(q).req = q
  BY DEF OpComplete
<1>5. \A q : m = OpComplete(q) <=> m.id = "OP_COMPLETE" /\ m.req = q
  BY <1>3, <1>4
<1> QED BY <1>1, <1>2, <1>5

\* A message handled without a request leaves the link as it is.
LEMMA Core1Only ==
  ASSUME Tracked, IInv', Handlers',
         UNCHANGED <<hwrt, core0, core1, cmdstat, expctd, kind, pldVars, dmVars, executed, excused>>,
         Has(app', Dones) => Has(app, Dones), Once(app', Dones), ~Has(app', Breaks)
  PROVE  Tracked'
<1>1. /\ Asked' = Asked /\ Outstanding' = Outstanding
      /\ UNCHANGED <<attn, attn_tms, tgtmode, zid_init, zsr_req, nmi, dm, doc_cmd, doc_stat>>
  BY DEF Asked, Outstanding, pldVars, dmVars
<1>2. BoardInv'
  BY <1>1 DEF Tracked, BoardInv
<1>3. OneAtATime' /\ StaleFirst'
  BY <1>1 DEF Tracked, OneAtATime, StaleFirst, InCore0, InMonitor
<1>4. ASSUME NEW q \in Outstanding' PROVE Stage(q)'
  <2>1. Stage(q)
    BY <1>1 DEF Tracked, UnderWay
  <2> QED BY <1>1, <2>1 DEF Stage, InCore0, Woken
<1>5. UnderWay'
  BY <1>1, <1>4 DEF Tracked, UnderWay
<1> QED BY <1>2, <1>3, <1>5 DEF Tracked

\* A status is passed on: none of these is of a break or a step.
LEMMA StatusRcvdTracked ==
  ASSUME Tracked, IInv', HandleApp, StatusRcvd(Head(app))
  PROVE  Tracked'
<1> DEFINE m == Head(app)
           t == Tail(app)
<1>1. /\ app # <<>> /\ app' = t /\ m.id = "STATUSRCVD"
      /\ m.st \in {"DMBRKHIT", "DMSSDONE"} \/ UNCHANGED <<kind, slot, rcv, hwrt>>
      /\ UNCHANGED <<completed, core0, core1, cmdstat, expctd, pldVars, dmVars, executed, excused>>
  BY DEF HandleApp, StatusRcvd
<1>2. /\ m \in AppMsgs /\ m \notin Breaks
      /\ \A S : Has(app, S) <=> m \in S \/ Has(t, S)
      /\ Once(t, Dones) /\ ~Has(t, Breaks)
  BY <1>1, Core1Takes
<1> HIDE DEF m, t
<1>3. /\ m \notin Dones /\ m \notin CmdDones /\ m.st \notin {"DMBRKHIT", "DMSSDONE"}
      /\ \A q : m \notin Completions(q) /\ m # OpComplete(q)
  BY <1>1, <1>2, Core1Sorts
<1>4. UNCHANGED <<kind, slot, rcv, hwrt>>
  BY <1>1, <1>3
<1>5. /\ \A r : /\ Has(app', Completions(r)) <=> Has(app, Completions(r))
                /\ Has(app', {OpComplete(r)}) <=> Has(app, {OpComplete(r)})
      /\ Has(app', Dones) <=> Has(app, Dones)
      /\ Has(app', CmdDones) <=> Has(app, CmdDones)
  BY <1>1, <1>2, <1>3
<1>6. Handlers'
  BY <1>1, <1>4, <1>5, HandlersKept
<1> QED BY <1>1, <1>2, <1>4, <1>5, <1>6, Core1Only

\* The command is done: the handler that is set is posted, and unset.
LEMMA CmdDoneRcvdTracked ==
  ASSUME Tracked, IInv', HandleApp, CmdDoneRcvd(Head(app))
  PROVE  Tracked'
<1> DEFINE m == Head(app)
           t == Tail(app)
<1>1. /\ app # <<>> /\ m.id = "CMDDONE"
      /\ app' = t \o IF slot = NONE THEN <<>> ELSE <<OpComplete(slot)>>
      /\ slot' = NONE
      /\ UNCHANGED <<kind, rcv, hwrt>>
      /\ UNCHANGED <<completed, core0, core1, cmdstat, expctd, pldVars, dmVars, executed, excused>>
  BY DEF HandleApp, CmdDoneRcvd, Unset
<1>2. /\ m \in AppMsgs /\ t \in Seq(Messages)
      /\ \A S : Has(app, S) <=> m \in S \/ Has(t, S)
      /\ Once(t, Dones) /\ ~Has(t, Breaks)
      /\ m \in Dones => ~Has(t, Dones)
  BY <1>1, Core1Takes
<1>0. app' = IF slot = NONE THEN t ELSE Append(t, OpComplete(slot))
  BY <1>1, <1>2
<1> HIDE DEF m, t
<1>3. m \in Dones /\ m \in CmdDones
  BY <1>1, <1>2, Core1Sorts
<1>4. Has(app, Dones) /\ ~Has(t, Dones)
  BY <1>2, <1>3
<1>5. Outstanding = {} /\ Asked' = Asked /\ Outstanding' = {}
  BY <1>1, <1>4, NoneLeft DEF Outstanding, Asked
<1>6. /\ slot \in Asked \cup {NONE} /\ Asked \subseteq Reqs /\ NONE \notin Reqs
      /\ executed \subseteq Asked /\ excused \subseteq Asked
  BY AskedFacts DEF Tracked, IInv, TypeOK, NONE, Reqs
<1>7. \A r : ~Has(t, Completions(r)) /\ ~Has(app, Completions(r))
  <2>1. \A r : m \notin Completions(r)
    BY <1>1, <1>2, Core1Sorts
  <2>2. \A r : ~Has(t, Completions(r))
    BY <1>4, Wider
  <2> QED BY <1>2, <2>1, <2>2
<1>8. \A r \in Reqs : ~Has(t, {OpComplete(r)})
  BY <1>7, Wider
<1>9. CASE slot = NONE
  <2>1. app' = t
    BY <1>0, <1>9
  <2>2. ASSUME NEW r \in Asked PROVE HandlerOf(r)'
    <3>1. slot # r /\ r \in Reqs
      BY <1>6, <1>9
    <3>2. ~Has(app', Completions(r)) /\ ~Has(app', {OpComplete(r)})
      BY <1>7, <1>8, <2>1, <3>1
    <3> QED BY <1>1, <1>5, <3>1, <3>2, <1>6, <1>9, <1>7
            DEF Tracked, Handlers, HandlerOf
  <2>3. Handlers'
    BY <1>1, <1>5, <1>7, <2>1, <2>2 DEF Tracked, Handlers
  <2>4. ~Has(app', Dones) /\ Once(app', Dones) /\ ~Has(app', Breaks)
    BY <1>2, <1>4, <2>1
  <2> QED BY <1>1, <2>3, <2>4, Core1Only
<1>10. CASE slot # NONE
  <2> DEFINE o == OpComplete(slot)
  <2>1. app' = Append(t, o) /\ slot \in Asked /\ slot \in Reqs
    BY <1>0, <1>6, <1>10
  <2>2. /\ o \in Completions(slot) /\ o \notin CmdDones \cup Breaks
        /\ \A r : o \in Completions(r) => r = slot
        /\ \A r : o = OpComplete(r) => r = slot
    BY <2>1, Sorts, Told
  <2> HIDE DEF o
  <2>3. /\ \A S : Has(app', S) <=> Has(t, S) \/ o \in S
        /\ \A S : Once(t, S) /\ (o \in S => ~Has(t, S)) => Once(app', S)
    BY <1>2, <2>1, PostedTo
  <2>4. Once(app', Dones) /\ ~Has(app', Breaks)
    BY <1>2, <1>4, <2>2, <2>3
  <2>5. ASSUME NEW r \in Asked PROVE HandlerOf(r)'
    <3>1. /\ slot' # r /\ r \in Reqs
      BY <1>1, <1>6
    <3>2. /\ Has(app', Completions(r)) => r = slot
          /\ r = slot => Has(app', Completions(r))
          /\ Has(app', {OpComplete(r)}) => r = slot
      BY <1>7, <1>8, <2>2, <2>3, <3>1
    <3>3. r = slot => completed[r] # 1 /\ (kind[r] = "mget" => rcv = r)
      BY DEF Tracked, Handlers, HandlerOf
    <3>4. r \in excused \/ r \in executed
      BY <1>5 DEF Outstanding
    <3>5. r # slot /\ r \in Asked \ excused /\ kind[r] \in {"get", "mget"} =>
            r \in executed /\ completed[r] = 1
      BY <1>7 DEF Tracked, Handlers, HandlerOf
    <3> QED BY <1>1, <1>5, <3>1, <3>2, <3>3, <3>4, <3>5 DEF HandlerOf
  <2>6. ~Has(app', Completions(NONE))
    BY <1>6, <1>7, <2>1, <2>2, <2>3
  <2>7. Handlers'
    BY <1>1, <1>5, <2>5, <2>6 DEF Tracked, Handlers
  <2> QED BY <1>1, <1>4, <2>4, <2>7, Core1Only
<1> QED BY <1>9, <1>10

\* What holds when a completion is taken from the queue: nothing is under way, and
\* every other command has had its handler run.
LEMMA CompletionTaken ==
  ASSUME Tracked, app # <<>>, Head(app).id \in {"OP_COMPLETE", "BUF_COMPLETE"},
         NEW q, q = Head(app).req
  PROVE  /\ q \in Asked /\ q \in Reqs /\ Outstanding = {}
         /\ slot # q /\ completed[q] = 0 /\ q \in executed \cup excused
         /\ Tail(app) \in Seq(Messages) /\ Has(app, Dones)
         /\ ~Has(Tail(app), Dones) /\ ~Has(Tail(app), Breaks)
         /\ \A r : ~Has(Tail(app), Completions(r))
         /\ \A r \in Reqs : ~Has(Tail(app), {OpComplete(r)})
         /\ \A r \in Asked \ excused :
              r # q /\ kind[r] \in {"get", "mget"} => r \in executed /\ completed[r] = 1
         /\ Head(app).id = "OP_COMPLETE" /\ kind[q] = "mget" => rcv = q
         /\ ~Has(hwrt, OnWay) /\ ~InCore0 /\ ~InMonitor
         /\ dm \notin {"wrdy_out", "wrdy_in"}
<1> DEFINE m == Head(app)
           t == Tail(app)
<1>1. /\ m \in AppMsgs /\ t \in Seq(Messages)
      /\ \A S : Has(app, S) <=> m \in S \/ Has(t, S)
      /\ ~Has(t, Breaks)
      /\ m \in Dones => ~Has(t, Dones)
  BY Core1Takes
<1>2. m.id \in {"OP_COMPLETE", "BUF_COMPLETE"} /\ m.req = q
  OBVIOUS
<1> HIDE DEF m, t
<1>3. /\ m \in Dones /\ m \notin CmdDones /\ q \in Asked \cup {NOP}
      /\ \A r : m \in Completions(r) <=> r = q
      /\ \A r : m = OpComplete(r) <=> m.id = "OP_COMPLETE" /\ r = q
  BY <1>1, <1>2, Core1Sorts
<1>4. Has(app, Dones) /\ ~Has(t, Dones)
  BY <1>1, <1>3
<1>5. \A r : ~Has(t, Completions(r)) /\ (Has(app, Completions(r)) <=> r = q)
  BY <1>1, <1>3, <1>4, Wider
<1>6. NONE = NOP
  BY DEF NONE, NOP
<1>7. q \in Asked /\ q \in Reqs
  <2>1. q # NONE
    BY <1>5 DEF Tracked, Handlers
  <2>2. q \in Asked
    BY <1>3, <1>6, <2>1
  <2> QED BY <2>2, AskedFacts DEF Tracked
<1>8. Outstanding = {} /\ q \in executed \cup excused
  <2>1. Outstanding = {}
    BY <1>4, NoneLeft
  <2> QED BY <1>7, <2>1 DEF Outstanding
<1>9. \A r \in Reqs : ~Has(t, {OpComplete(r)})
  BY <1>5, Wider
<1>10. ~Has(hwrt, OnWay) /\ ~InCore0 /\ ~InMonitor
  BY <1>4 DEF Tracked, OneAtATime
<1>11. dm \notin {"wrdy_out", "wrdy_in"}
  BY <1>4, <1>10 DEF Tracked, StaleFirst, InMonitor
<1>12. slot # q /\ completed[q] = 0
  <2>1. completed[q] \in 0..1 /\ completed[q] # 1 /\ slot # q
    BY <1>5, <1>7 DEF Tracked, Handlers, HandlerOf
  <2> QED BY <2>1
<1>13. ~Has(hwrt, OpDones) /\ ~Has(app, CmdDones)
  <2>1. ~Has(t, CmdDones)
    BY <1>4, Wider
  <2> QED BY <1>1, <1>3, <1>10, <2>1, Wider
<1>14. ASSUME NEW r \in Asked \ excused, r # q, kind[r] \in {"get", "mget"}
       PROVE  r \in executed /\ completed[r] = 1
  <2>1. r \in executed
    BY <1>8, <1>14 DEF Outstanding
  <2>2. \/ slot = r /\ (r \in executed => Has(hwrt, OpDones) \/ Has(app, CmdDones))
        \/ r \in executed /\ Has(app, Completions(r))
        \/ r \in executed /\ completed[r] = 1
    BY <1>14 DEF Tracked, Handlers, HandlerOf
  <2> QED BY <1>5, <1>13, <1>14, <2>1, <2>2
<1>15. m.id = "OP_COMPLETE" /\ kind[q] = "mget" => rcv = q
  <2>1. m.id = "OP_COMPLETE" => Has(app, {OpComplete(q)})
    BY <1>1, <1>3
  <2> QED BY <1>7, <2>1 DEF Tracked, Handlers, HandlerOf
<1> QED BY <1>1, <1>4, <1>5, <1>7, <1>8, <1>9, <1>10, <1>11, <1>12, <1>14, <1>15 DEF m, t

\* A user's handler runs, and asks for nothing.
LEMMA HandlerRuns ==
  ASSUME Tracked, IInv', app # <<>>, Head(app).id \in {"OP_COMPLETE", "BUF_COMPLETE"},
         NEW q, q = Head(app).req, app' = Tail(app),
         completed' = [completed EXCEPT ![q] = @ + 1],
         UNCHANGED <<kind, slot, rcv, hwrt>>,
         UNCHANGED <<core0, core1, cmdstat, expctd, pldVars, dmVars, executed, excused>>
  PROVE  Tracked'
<1>1. /\ q \in Asked /\ q \in Reqs /\ Outstanding = {}
      /\ slot # q /\ completed[q] = 0 /\ q \in executed \cup excused
      /\ Has(app, Dones)
      /\ ~Has(app', Dones) /\ ~Has(app', Breaks)
      /\ \A r : ~Has(app', Completions(r))
      /\ \A r \in Reqs : ~Has(app', {OpComplete(r)})
      /\ \A r \in Asked \ excused :
           r # q /\ kind[r] \in {"get", "mget"} => r \in executed /\ completed[r] = 1
  BY CompletionTaken
<1>2. completed' \in [Reqs -> 0..1] /\ completed'[q] = 1
      /\ \A r \in Reqs : r # q => completed'[r] = completed[r]
  BY <1>1 DEF Tracked, Handlers
<1>3. Asked' = Asked /\ Outstanding' = {}
  BY <1>1 DEF Asked, Outstanding
<1>4. ASSUME NEW r \in Asked PROVE HandlerOf(r)'
  <2>1. r \in Reqs
    BY AskedFacts DEF Tracked
  <2>2. completed'[r] = 1 => slot # r
    BY <1>1, <1>2, <2>1 DEF Tracked, Handlers, HandlerOf
  <2>3. slot = r /\ kind[r] = "mget" => rcv = r
    BY DEF Tracked, Handlers, HandlerOf
  <2>4. ~Has(app', Completions(r)) /\ ~Has(app', {OpComplete(r)})
    BY <1>1, <2>1
  <2>5. r \in Asked \ excused /\ kind[r] \in {"get", "mget"} =>
          r \in executed /\ completed'[r] = 1
    BY <1>1, <1>2, <2>1
  <2> QED BY <1>3, <2>2, <2>3, <2>4, <2>5 DEF HandlerOf
<1>5. \A r \in Reqs : r > Len(kind) => completed'[r] = 0
  <2> SUFFICES ASSUME NEW r \in Reqs, r > Len(kind) PROVE completed'[r] = 0
    OBVIOUS
  <2>1. r \notin Asked
    BY AskedFacts DEF Tracked, Asked
  <2>2. completed[r] = 0
    BY DEF Tracked, Handlers
  <2> QED BY <1>1, <1>2, <2>1, <2>2
<1>6. Handlers'
  BY <1>1, <1>2, <1>3, <1>4, <1>5 DEF Handlers
<1>7. Once(app', Dones)
  BY <1>1, NotHasOnce
<1> QED BY <1>1, <1>6, <1>7, Core1Only

\* The posted handler runs: the user's, or the one that posts the user's.
LEMMA OpCompleteRcvdTracked ==
  ASSUME Tracked, IInv', HandleApp, OpCompleteRcvd(Head(app))
  PROVE  Tracked'
<1>1. PICK q : q = Head(app).req
  OBVIOUS
<1>2. /\ app # <<>> /\ Head(app).id \in {"OP_COMPLETE", "BUF_COMPLETE"}
      /\ Head(app).id = "OP_COMPLETE"
      /\ UNCHANGED <<kind, rcv, hwrt>>
      /\ UNCHANGED <<core0, core1, cmdstat, expctd, pldVars, dmVars, executed, excused>>
  BY DEF HandleApp, OpCompleteRcvd
<1>3. CASE kind[q] # "mget"
  <2>1. /\ app' = Tail(app) /\ completed' = [completed EXCEPT ![q] = @ + 1]
        /\ slot' = slot
    BY <1>1, <1>3 DEF OpCompleteRcvd
  <2> QED BY <1>1, <1>2, <2>1, HandlerRuns
<1>4. CASE kind[q] = "mget"
  <2> DEFINE t == Tail(app)
  <2>1. /\ app' = Append(t, BufComplete(rcv)) /\ slot' = NONE
        /\ completed' = completed
    BY <1>1, <1>4 DEF OpCompleteRcvd
  <2>2. /\ q \in Asked /\ q \in Reqs /\ Outstanding = {}
        /\ completed[q] = 0 /\ q \in executed \cup excused
        /\ t \in Seq(Messages) /\ Has(app, Dones)
        /\ ~Has(t, Dones) /\ ~Has(t, Breaks)
        /\ \A r : ~Has(t, Completions(r))
        /\ \A r \in Reqs : ~Has(t, {OpComplete(r)})
        /\ \A r \in Asked \ excused :
             r # q /\ kind[r] \in {"get", "mget"} => r \in executed /\ completed[r] = 1
        /\ rcv = q
    BY <1>1, <1>2, <1>4, CompletionTaken
  <2> DEFINE b == BufComplete(q)
  <2>3. /\ b \in Completions(q) /\ b \notin CmdDones \cup Breaks
        /\ \A r : b \in Completions(r) => r = q
        /\ \A r : b # OpComplete(r)
    BY <2>2, Sorts, Told
  <2>4. app' = Append(t, b)
    BY <2>1, <2>2
  <2> HIDE DEF t, b
  <2>5. /\ \A S : Has(app', S) <=> Has(t, S) \/ b \in S
        /\ \A S : Once(t, S) /\ (b \in S => ~Has(t, S)) => Once(app', S)
    BY <2>2, <2>4, PostedTo
  <2>6. Once(app', Dones) /\ ~Has(app', Breaks)
    BY <2>2, <2>3, <2>5, NotHasOnce
  <2>7. /\ \A r : Has(app', Completions(r)) <=> r = q
        /\ \A r \in Reqs : ~Has(app', {OpComplete(r)})
    BY <2>2, <2>3, <2>5
  <2>8. NONE \notin Reqs /\ Asked \subseteq Reqs /\ Asked' = Asked /\ Outstanding' = {}
    BY <1>2, <2>2, AskedFacts DEF Tracked, NONE, NOP, Asked, Outstanding
  <2>9. ASSUME NEW r \in Asked PROVE HandlerOf(r)'
    <3>1. r \in Reqs /\ slot' # r
      BY <2>1, <2>8
    <3>2. completed'[r] = 1 => r # q
      BY <2>1, <2>2
    <3>3. r \in Asked \ excused /\ kind[r] \in {"get", "mget"} =>
            /\ r \in executed
            /\ r = q \/ completed[r] = 1
      BY <2>2
    <3> QED BY <1>2, <2>1, <2>7, <2>8, <3>1, <3>2, <3>3 DEF HandlerOf
  <2>10. Handlers'
    BY <1>2, <2>1, <2>2, <2>7, <2>8, <2>9 DEF Tracked, Handlers
  <2> QED BY <1>2, <2>2, <2>6, <2>10, Core1Only
<1> QED BY <1>3, <1>4

\* The user's handler runs, and may ask for the next bytes.
LEMMA BufCompleteRcvdTracked ==
  ASSUME Tracked, IInv', HandleApp, BufCompleteRcvd(Head(app))
  PROVE  Tracked'
<1>1. PICK q : q = Head(app).req
  OBVIOUS
<1>2. /\ app # <<>> /\ Head(app).id \in {"OP_COMPLETE", "BUF_COMPLETE"}
      /\ app' = Tail(app) /\ completed' = [completed EXCEPT ![q] = @ + 1]
      /\ core1 = "loop"
      /\ UNCHANGED <<core0, core1, cmdstat, expctd, pldVars, dmVars, executed, excused>>
  BY <1>1 DEF HandleApp, BufCompleteRcvd
<1>3. CASE UNCHANGED <<kind, slot, rcv, hwrt>>
  BY <1>1, <1>2, <1>3, HandlerRuns
<1>4. CASE Request("mget")
  <2>1. /\ q \in Asked /\ q \in Reqs
        /\ slot # q /\ completed[q] = 0
        /\ ~Has(app', Dones) /\ ~Has(app', Breaks)
        /\ \A r \in Asked \ excused :
             r # q /\ kind[r] \in {"get", "mget"} => r \in executed /\ completed[r] = 1
        /\ ~Has(hwrt, OnWay) /\ ~InCore0 /\ ~InMonitor
        /\ dm \notin {"wrdy_out", "wrdy_in"}
    BY <1>1, <1>2, CompletionTaken
  <2>2. completed' \in [Reqs -> 0..1] /\ completed'[q] = 1
        /\ \A r \in Reqs : r # q => completed'[r] = completed[r]
    BY <1>2, <2>1 DEF Tracked, Handlers
  <2>3. Asked \subseteq Reqs /\ \A r \in Reqs : r > Len(kind) => r \notin Asked
    <3>1. Asked \subseteq Reqs
      BY AskedFacts DEF Tracked
    <3>2. Len(kind) \in Nat /\ \A r \in Reqs : r \in Asked => r <= Len(kind)
      BY AskedFacts DEF Tracked
    <3>3. \A r \in Reqs : r \in Nat
      BY DmLinkAssumption DEF Reqs
    <3> QED BY <3>1, <3>2, <3>3
  <2>4. \A r \in Reqs : r > Len(kind) => completed'[r] = 0
    BY <2>1, <2>2, <2>3 DEF Tracked, Handlers
  <2>5. \A r \in Asked : completed'[r] = 1 => slot # r
    BY <2>1, <2>2, <2>3 DEF Tracked, Handlers, HandlerOf
  <2>6. \A r \in Asked \ excused : kind[r] \in {"get", "mget"} => completed'[r] = 1
    BY <2>1, <2>2, <2>3
  <2>7. "mget" \in Kinds
    BY DEF Kinds
  <2> QED BY <1>2, <1>4, <2>1, <2>2, <2>4, <2>5, <2>6, <2>7, RequestTracked
<1> QED BY <1>3, <1>4 DEF BufCompleteRcvd

LEMMA HandleAppTracked ==
  ASSUME Tracked, IInv', HandleApp
  PROVE  Tracked'
<1>1. \/ StatusRcvd(Head(app)) \/ CmdDoneRcvd(Head(app))
      \/ OpCompleteRcvd(Head(app)) \/ BufCompleteRcvd(Head(app))
  BY DEF HandleApp
<1> QED BY <1>1, StatusRcvdTracked, CmdDoneRcvdTracked, OpCompleteRcvdTracked,
           BufCompleteRcvdTracked

LEMMA RestTracked ==
  ASSUME Tracked, IInv', UNCHANGED vars
  PROVE  Tracked'
<1>1. Asked' = Asked /\ Outstanding' = Outstanding
  BY DEF vars, commVars, dcVars, pldVars, dmVars, histVars, Asked, Outstanding
<1>2. InCore0' = InCore0 /\ InMonitor' = InMonitor /\ Woken' = Woken
  BY DEF vars, commVars, dcVars, pldVars, dmVars, histVars, InCore0, InMonitor, Woken
<1>3. \A r : Stage(r)' = Stage(r)
  BY <1>2 DEF vars, commVars, dcVars, pldVars, dmVars, histVars, Stage
<1>4. \A r : HandlerOf(r)' = HandlerOf(r)
  BY <1>1 DEF vars, commVars, dcVars, pldVars, dmVars, histVars, HandlerOf
<1>5. BoardInv' /\ OneAtATime' /\ StaleFirst'
  BY <1>2 DEF vars, commVars, dcVars, pldVars, dmVars, histVars, Tracked,
              BoardInv, OneAtATime, StaleFirst
<1>6. UnderWay' /\ Handlers'
  BY <1>1, <1>3, <1>4 DEF vars, commVars, dcVars, pldVars, dmVars, histVars, Tracked,
                          UnderWay, Handlers
<1> QED BY <1>5, <1>6 DEF Tracked

LEMMA NextTracked ==
  ASSUME InTime
  PROVE  Tracked /\ [Next]_vars => Tracked'
<1> SUFFICES ASSUME Tracked, [Next]_vars PROVE Tracked'
  OBVIOUS
<1>1. IInv'
  BY NextIInv DEF Tracked
<1>2. CASE Core0
  BY <1>1, <1>2, HandleMsgTracked, StoreCommandTracked, ExpectReadTracked, FinishMsgTracked
  DEF Core0
<1>3. CASE Core1
  BY <1>1, <1>3, CancelTracked, HandleAppTracked DEF Core1
<1>4. CASE DebugMonitor
  BY <1>1, <1>4, ResetsTracked, StartTracked, IdlingTracked, SendsTracked, ReadsTracked
  DEF DebugMonitor
<1>5. CASE \E k \in Kinds : UserCommand(k)
  BY <1>1, <1>5, UserCommandTracked
<1>6. CASE CancelAttn \/ Break \/ FullReset
  BY <1>1, <1>6, CancelTracked, ResetsTracked
<1>7. CASE UNCHANGED vars
  BY <1>1, <1>7, RestTracked
<1> QED BY <1>2, <1>3, <1>4, <1>5, <1>6, <1>7 DEF Next, Rest

\* Under the timing assumption, the one command under way is in one place.
THEOREM LinkTracked == ASSUME InTime PROVE Spec => []Tracked
<1>1. Init => Tracked
  BY InitTracked
<1>2. Tracked /\ [Next]_vars => Tracked'
  BY NextTracked
<1> QED BY <1>1, <1>2, PTL DEF Spec

\* Under the timing assumption, no completion handler runs twice, and none runs for a
\* command the monitor has not carried out, but for one a reset or a cancel hit before.
THEOREM LinkCompletedMeansExecuted == ASSUME InTime PROVE Spec => []CompletedMeansExecuted
<1>1. Tracked => CompletedMeansExecuted
  <2> SUFFICES ASSUME Tracked, NEW r \in Reqs
               PROVE  /\ completed[r] <= 1
                      /\ completed[r] = 1 => r \in executed \cup excused
    BY DEF CompletedMeansExecuted
  <2>1. completed[r] \in 0..1
    BY DEF Tracked, Handlers
  <2>2. completed[r] = 1 => r \in Asked
    BY AskedFacts DEF Tracked, Handlers, Reqs, Asked
  <2>3. completed[r] = 1 => r \in executed \cup excused
    BY <2>2 DEF Tracked, Handlers, HandlerOf, Outstanding
  <2> QED BY <2>1, <2>3
<1>2. Spec => []Tracked
  BY LinkTracked
<1> QED BY <1>1, <1>2, PTL

\* Under the timing assumption, once all is quiet every command has been carried out
\* and has had its handler run, but for those a reset, a return to Debug mode or a
\* cancel hit: none is overwritten, and no wake-up or completion is lost.
THEOREM LinkQuietMeansServed == ASSUME InTime PROVE Spec => []QuietMeansServed
<1>1. Tracked => QuietMeansServed
  <2> SUFFICES ASSUME Tracked, Quiet, NEW r \in Asked \ excused
               PROVE  /\ r \in executed
                      /\ kind[r] \in {"get", "mget"} => completed[r] = 1
    BY DEF QuietMeansServed
  <2>1. \A S : ~Has(hwrt, S) /\ ~Has(app, S)
    BY EmptyQueue DEF Quiet
  <2>2. ~InCore0 /\ ~InMonitor
    BY <2>1 DEF Quiet, InCore0, InMonitor
  <2>3. Outstanding = {}
    BY <2>1, <2>2, NothingUnderWay
  <2>4. r \in executed
    BY <2>3 DEF Outstanding
  <2>5. kind[r] \in {"get", "mget"} => completed[r] = 1
    BY <2>1, <2>4 DEF Tracked, Handlers, HandlerOf
  <2> QED BY <2>4, <2>5
<1>2. Spec => []Tracked
  BY LinkTracked
<1> QED BY <1>1, <1>2, PTL

-----------------------------------------------------------------------------
(* The resets, with no assumption on timing. *)

\* From the NMI on, and from a full reset, the NMI enable bit is clear.
ResetInv ==
  /\ dm \in {"bahdlr", "doinit", "cmdrd_out", "cmdrd_in", "doccmdprc", "doc_statsend",
             "tgthop", "target"} => ~zid_init
  /\ zsr_req => tgtmode
  /\ doc_stat = "DMOPDONE"
  /\ ~Has(hwrt, Breaks)

\* Steps of the cores.
LEMMA CoresResetInv ==
  ASSUME IInv, ResetInv, UNCHANGED <<dm, zid_init, doc_stat, tgtmode>>,
         zsr_req' => zsr_req \/ tgtmode,
         \/ hwrt' = hwrt
         \/ hwrt # <<>> /\ hwrt' = Tail(hwrt)
         \/ \E q : hwrt' = Append(hwrt, CmdReq(q))
  PROVE  ResetInv'
<1>1. hwrt \in Seq(Messages)
  BY DEF IInv, TypeOK
<1>2. ~Has(hwrt', Breaks)
  <2>1. CASE hwrt # <<>> /\ hwrt' = Tail(hwrt)
    BY <1>1, <2>1, TakenFrom DEF ResetInv
  <2>2. CASE \E q : hwrt' = Append(hwrt, CmdReq(q))
    <3>1. PICK q : hwrt' = Append(hwrt, CmdReq(q))
      BY <2>2
    <3>2. CmdReq(q) \notin Breaks
      BY DEF CmdReq, Breaks
    <3>3. Has(hwrt', Breaks) <=> Has(hwrt, Breaks) \/ CmdReq(q) \in Breaks
      BY <1>1, <3>1, PostedTo
    <3> QED BY <3>2, <3>3 DEF ResetInv
  <2> QED BY <2>1, <2>2 DEF ResetInv
<1> QED BY <1>2 DEF ResetInv

LEMMA RequestsResetInv ==
  ASSUME IInv, ResetInv, HandleApp \/ \E k \in Kinds : UserCommand(k)
  PROVE  ResetInv'
<1>1. UNCHANGED <<dm, zid_init, doc_stat, tgtmode, zsr_req>>
  BY DEF HandleApp, UserCommand, dmVars, pldVars
<1>2. hwrt' = hwrt \/ \E k \in Kinds : Request(k)
  BY DEF HandleApp, UserCommand, StatusRcvd, CmdDoneRcvd, OpCompleteRcvd, BufCompleteRcvd, Kinds
<1>3. hwrt' = hwrt \/ \E q : hwrt' = Append(hwrt, CmdReq(q))
  BY <1>2 DEF Request
<1> QED BY <1>1, <1>3, CoresResetInv

LEMMA Core0ResetInv ==
  ASSUME IInv, ResetInv, Core0 \/ CancelAttn \/ CancelCmdstat \/ CancelExpctd
  PROVE  ResetInv'
<1>1. CASE HandleMsg
  BY <1>1, CoresResetInv DEF HandleMsg, SetAttn, dmVars
<1>2. CASE StoreCommand
  BY <1>2, CoresResetInv DEF StoreCommand, dmVars, pldVars
<1>3. CASE ExpectRead
  BY <1>3, CoresResetInv DEF ExpectRead, dmVars, pldVars
<1>4. CASE FinishMsg
  BY <1>4, CoresResetInv DEF FinishMsg, SetAttn, dmVars
<1>5. CASE CancelAttn
  BY <1>5, CoresResetInv DEF CancelAttn, SetAttn, dmVars, commVars
<1>6. CASE CancelCmdstat
  BY <1>6, CoresResetInv DEF CancelCmdstat, dmVars, pldVars
<1>7. CASE CancelExpctd
  BY <1>7, CoresResetInv DEF CancelExpctd, dmVars, pldVars
<1> QED BY <1>1, <1>2, <1>3, <1>4, <1>5, <1>6, <1>7 DEF Core0

\* What the monitor writes to the port, and its read.
LEMMA PortResetInv ==
  ASSUME IInv, ResetInv, WrdyOut \/ CmdrdOut \/ StatSend \/ DoGo \/ WrdyIn \/ CmdrdIn
  PROVE  ResetInv'
<1>1. PICK w : hwrt' = Append(hwrt, w) /\ w \notin Breaks
  <2>1. AttnOff \notin Breaks /\ \A st \in {"DMINIT", "DMOKCMDRD", "DMOPDONE", "DMTGTGO"} :
          \A r : Write(st, r) \notin Breaks
    BY DEF AttnOff, Write, Breaks
  <2>2. CASE WrdyOut \/ CmdrdOut \/ StatSend \/ DoGo
    BY <2>1, <2>2 DEF WrdyOut, CmdrdOut, StatSend, DoGo, Send, CtrlWrite, ResetInv
  <2>3. CASE WrdyIn \/ CmdrdIn
    BY <2>1, <2>3 DEF WrdyIn, CmdrdIn, CtrlRead
  <2> QED BY <2>2, <2>3
<1>2. ~Has(hwrt', Breaks)
  <2>1. hwrt \in Seq(Messages)
    BY DEF IInv, TypeOK
  <2>2. Has(hwrt', Breaks) <=> Has(hwrt, Breaks) \/ w \in Breaks
    BY <1>1, <2>1, PostedTo
  <2> QED BY <1>1, <2>2 DEF ResetInv
<1>3. UNCHANGED <<zid_init, tgtmode, zsr_req, doc_stat>>
  BY DEF WrdyOut, CmdrdOut, StatSend, DoGo, Send, WrdyIn, CmdrdIn, pldVars
<1>4. dm' \in {"wrdy_in", "attn_clr_chk", "wrdy_out"} \/ ~zid_init
  BY DEF WrdyOut, CmdrdOut, StatSend, DoGo, Send, WrdyIn, CmdrdIn, Monitor, ResetInv
<1> QED BY <1>2, <1>3, <1>4 DEF ResetInv

\* The monitor's other steps, and the resets.
LEMMA BoardResetInv ==
  ASSUME IInv, ResetInv,
         \/ Bahdlr \/ DoInit \/ AttnClrChk \/ NmiEnable \/ NmiVec \/ DoCommand \/ TgtHop
         \/ SpecialReset \/ FullReset \/ Break
  PROVE  ResetInv'
<1>0. tgtmode <=> dm = "target"
  BY DEF IInv, TypeOK
<1>1. CASE Bahdlr
  BY <1>1 DEF Bahdlr, ResetInv, Monitor
<1>2. CASE DoInit
  BY <1>2 DEF DoInit, ResetInv, Monitor
<1>3. CASE AttnClrChk \/ NmiEnable \/ NmiVec \/ DoCommand
  <2>1. CASE AttnClrChk
    BY <2>1 DEF AttnClrChk, ResetInv, pldVars
  <2>2. CASE NmiEnable
    BY <2>2 DEF NmiEnable, ResetInv
  <2>3. CASE NmiVec
    BY <2>3 DEF NmiVec, ResetInv
  <2>4. CASE DoCommand
    BY <2>4 DEF DoCommand, ResetInv, Monitor, pldVars
  <2> QED BY <1>3, <2>1, <2>2, <2>3, <2>4
<1>4. CASE TgtHop
  BY <1>4 DEF TgtHop, ResetInv, Monitor
<1>5. CASE SpecialReset
  BY <1>0, <1>5 DEF SpecialReset, ZReset, ResetInv
<1>6. CASE FullReset
  BY <1>6 DEF FullReset, ZReset, ResetInv
<1>7. CASE Break
  BY <1>7 DEF Break, ResetInv, dmVars
<1> QED BY <1>1, <1>2, <1>3, <1>4, <1>5, <1>6, <1>7

LEMMA LinkResetInv == Spec => []ResetInv
<1>1. Init => ResetInv
  BY EmptyQueue DEF Init, ResetInv
<1>2. IInv /\ ResetInv /\ [Next]_vars => ResetInv'
  <2> SUFFICES ASSUME IInv, ResetInv, [Next]_vars PROVE ResetInv'
    OBVIOUS
  <2>1. CASE UNCHANGED vars
    BY <2>1 DEF vars, commVars, pldVars, dmVars, ResetInv
  <2>2. CASE DebugMonitor
    BY <2>2, PortResetInv, BoardResetInv DEF DebugMonitor
  <2> QED BY <2>1, <2>2, RequestsResetInv, Core0ResetInv, BoardResetInv
          DEF Next, Rest, Core1
<1> QED BY <1>1, <1>2, LinkInvariant, PTL DEF Spec

\* Whatever the order of events, every reset, the one that ends Target mode too, finds
\* the NMI enable bit clear, so bahdlr takes each one for a full reset.
THEOREM EveryResetIsFull == Spec => [](dm = "bahdlr" => ~zid_init)
<1>1. ResetInv => (dm = "bahdlr" => ~zid_init)
  BY DEF ResetInv
<1> QED BY <1>1, LinkResetInv, PTL

\* So the monitor never writes DMBRKHIT or DMSSDONE: core 0 is never told of a
\* breakpoint or of a step that is done.
THEOREM NoBreakReported == Spec => [](~Has(hwrt, Breaks))
<1>1. ResetInv => ~Has(hwrt, Breaks)
  BY DEF ResetInv
<1> QED BY <1>1, LinkResetInv, PTL
=============================================================================

---------------------------- MODULE DBusC_proofs ----------------------------
(***************************************************************************)
(* Safety of the bus driver for FIFOs of any depth, any transfers and any  *)
(* number of cancels: its types, that a cancelled transfer stays dead, and *)
(* that the monitor is never starved of a byte.                            *)
(*                                                                         *)
(* The second half shows that it implements DBusXfer: the Z80 reads the    *)
(* bytes of the send buffers once and in order, what it writes lands in    *)
(* the receive buffer once and in order, and a transfer that is reported   *)
(* done is complete.  Its end is posted at most once in each direction,    *)
(* and the receiver is set up again after it.                              *)
(***************************************************************************)
EXTENDS DBusC, FiniteSetTheorems, TLAPS

Channel == [k : 0..MaxRequests, pos : Nat, left : Nat, reload : Nat]
Monitor == [at : {"idle", "ctrl", "data", "report", "stray"},
            k : 0..MaxRequests, take : Nat, give : Nat]

-----------------------------------------------------------------------------
(* The inductive invariant.                                                *)

\* What the monitor does and what holds the Z80 in WAIT belong together.
MonOK ==
  /\ mon.k = 0 => mon.take = 0 /\ mon.give = 0
  /\ mon.k # 0 => mon.k \in Asked /\ mon.give <= req[mon.k].recv
  /\ mon.at \in {"idle", "ctrl", "stray"} => mon.k = 0
  /\ bus = "data_in" => mon.at = "stray" \/ (mon.at = "data" /\ mon.give > 0)
  /\ bus \in {"data_needed", "data_out"} => mon.at = "data" /\ mon.take > 0
  /\ bus = "ctrl_ready" => mon.at = "report"
  /\ bus \in {"ctrl_needed", "ctrl_out"} => mon.at = "ctrl"

\* A transfer that was cancelled after it was started is on no channel that
\* runs, will be started or will report.
DeadOK ==
  /\ dead \subseteq Asked
  /\ cpu = "prepared" => Current > 0 /\ Current \notin dead
  /\ ch["R"].left > 0 \/ ch["SR"].left > 0 => ch["R"].k \notin dead
  /\ \A d \in donemsg : ch[d].k \notin dead
  /\ cpu = "prepared" /\ to_start \in {"R", "SR"} /\ req[Current].kind # "none"
       => ch["R"].k \notin dead

\* No sending channel runs.
Silent == ch["S"].left = 0 /\ ch["SS"].left = 0 /\ ch["SR"].left = 0

\* The command of a request is in one place: CTRL status, FIFO, or monitor.
New == Current > 0 /\ Current \notin over /\ cpu = "idle" /\ got[Current] = <<>>
CommandOK ==
  /\ over \subseteq Asked
  /\ \A k \in 1..MaxRequests : k > Len(req) => got[k] = <<>>
  /\ cpu = "prepared" =>
       /\ mon.at = "idle" /\ bus = "idle" /\ cmdstat = 0 /\ ~attn
       /\ Current > 0 /\ Current \notin over /\ got[Current] = <<>>
  /\ ctrlf # <<>> =>
       /\ Len(ctrlf) = 1
       /\ bus = "ctrl_out" \/ (bus = "data_out" /\ txf = <<>> /\ Silent)
       /\ ctrlf[1][1] # 0 => /\ ctrlf[1][1] = Current /\ New /\ mon.k = 0
                             /\ cmdstat = 0 /\ bus = "ctrl_out"
  /\ cmdstat # 0 => cmdstat = Current /\ New /\ mon.k = 0
  /\ mon.k # 0 => /\ mon.k = Current /\ Current \notin over /\ cpu = "idle"
                  /\ cmdstat = 0
                  /\ mon.take + Len(got[Current]) = req[Current].send

\* SR runs only while it is the channel to start, and what it sends fits.
ChainOK ==
  /\ to_start # "SR" => ch["SR"].left = 0
  /\ to_start = "SR" =>
       /\ ch["S"].left = 0 /\ ch["SS"].left = 0
       /\ ch["SR"].reload <= FifoDepth
       /\ Len(txf) + ch["SR"].left <= FifoDepth
       /\ cpu = "prepared" /\ req[Current].kind # "none"
            => txf = <<>> /\ ch["SR"].left = 0
  /\ cpu = "idle" /\ cmdstat = 0 /\ mon.at \in {"idle", "stray", "report"}
       => ch["SR"].left = 0

\* The channels of the current transfer, and nothing else, send.
Unsent ==
  CASE req[Current].kind = "send1" -> ch["S"].left
    [] req[Current].kind = "send2" ->
         IF ch["SS"].left > 0 THEN ch["SS"].left + ch["S"].reload ELSE ch["S"].left
    [] req[Current].kind = "sendrecv" -> ch["SR"].left
    [] OTHER -> 0

SendOK ==
  Current > 0 =>
    LET r == req[Current] IN
    /\ r.kind = "send1" => ch["SS"].left = 0 /\ ch["SR"].left = 0
    /\ r.kind = "send2" => ch["SR"].left = 0 /\ (ch["SS"].left > 0 => ch["S"].left = 0)
    /\ r.kind = "sendrecv" => ch["S"].left = 0 /\ ch["SS"].left = 0
    /\ cpu = "prepared" /\ r.send > 0 =>
         /\ txf = <<>> /\ Silent
         /\ r.kind = "send1" => to_start = "S" /\ ch["S"].reload = r.send
         /\ r.kind = "send2" => /\ to_start = "SS" /\ ch["SS"].reload > 0
                                /\ ch["SS"].reload + ch["S"].reload = r.send
         /\ r.kind = "sendrecv" => to_start = "SR" /\ ch["SR"].reload = r.send

Balance ==
  cpu = "idle" /\ Current > 0 /\ req[Current].send > 0
      /\ Current \notin over \cup excused
    => Len(txf) + Unsent + Len(got[Current]) = req[Current].send

StarvedOK == bus = "data_needed" => txf = <<>> /\ Silent /\ mon.k \in excused

IInv ==
  /\ TypeOK /\ MonOK /\ DeadOK /\ CommandOK
  /\ ChainOK /\ SendOK /\ Balance /\ StarvedOK

-----------------------------------------------------------------------------
(* What the parts of the invariant depend on.                              *)

LEMMA RequestFacts ==
  ASSUME TypeOK, NEW k \in Asked
  PROVE  /\ req[k] \in Requests /\ k \in 1..MaxRequests
         /\ req[k].send \in Nat /\ req[k].recv \in Nat /\ req[k].second \in Nat
         /\ req[k].kind \in {"none", "send1", "send2", "recv", "sendrecv"}
         /\ req[k].kind \in {"none", "recv"} <=> req[k].send = 0
         /\ req[k].kind \in {"recv", "sendrecv"} <=> req[k].recv > 0
         /\ req[k].kind = "sendrecv" => req[k].send <= FifoDepth
         /\ req[k].second < req[k].send \/ req[k].second = 0
<1>1. req \in Seq(Requests) /\ Len(req) <= MaxRequests BY DEF TypeOK
<1>2. k \in 1..Len(req) BY DEF Asked
<1>3. req[k] \in Requests BY <1>1, <1>2
<1>4. k \in 1..MaxRequests
  <2>1. Len(req) \in Nat /\ MaxRequests \in Nat BY <1>1, DBusCAssumption
  <2> QED BY <1>1, <1>2, <2>1
<1> QED BY <1>3, <1>4, DBusCAssumption

LEMMA DeadFrame ==
  ASSUME IInv, UNCHANGED <<req, cpu, to_start, ch, donemsg, dead>>
  PROVE  DeadOK'
  BY DEF IInv, DeadOK, Asked, Current

LEMMA ChainFrame ==
  ASSUME IInv, UNCHANGED <<req, cpu, to_start, ch, txf>>,
         cpu = "idle" /\ cmdstat' = 0 /\ mon'.at \in {"idle", "stray", "report"}
           => ch["SR"].left = 0
  PROVE  ChainOK'
  BY DEF IInv, ChainOK, Current

LEMMA SendFrame ==
  ASSUME IInv, UNCHANGED <<req, cpu, to_start, ch, txf>>
  PROVE  SendOK'
  BY DEF IInv, SendOK, Current, Silent

LEMMA BalanceFrame ==
  ASSUME IInv, UNCHANGED <<req, cpu, ch, txf, got>>,
         over \subseteq over', excused \subseteq excused'
  PROVE  Balance'
  BY DEF IInv, Balance, Unsent, Current

\* A channel configured, and started.
LEMMA ConfiguredFacts ==
  ASSUME NEW c \in Channel, NEW k \in 0..MaxRequests, NEW p \in Nat, NEW n \in Nat
  PROVE  /\ Configured(c, k, p, n) \in Channel
         /\ Configured(c, k, p, n).k = k /\ Configured(c, k, p, n).left = 0
         /\ Configured(c, k, p, n).reload = n
<1>1. Configured(c, k, p, n) = [c EXCEPT !.k = k, !.pos = p, !.left = 0, !.reload = n]
  BY DEF Configured
<1>2. c = [k |-> c.k, pos |-> c.pos, left |-> c.left, reload |-> c.reload]
  BY DEF Channel
<1>3. Configured(c, k, p, n) = [k |-> k, pos |-> p, left |-> 0, reload |-> n]
  BY <1>1, <1>2
<1> QED BY <1>3 DEF Channel

LEMMA StartedFacts ==
  ASSUME NEW c \in Channel
  PROVE  /\ Started(c) \in Channel /\ Started(c).k = c.k /\ Started(c).left = c.reload
         /\ Started(c).reload = c.reload
  BY DEF Started, Channel

\* Where no byte can be sent, no channel sends.
LEMMA SettledSilent ==
  ASSUME IInv, Settled PROVE ch["SR"].left = 0 /\ (txf = <<>> => Silent)
<1>1. FifoDepth \in Nat \ {0} BY DBusCAssumption
<1>2. \A c \in {"S", "SS", "SR"} : ch[c].left \in Nat /\ ~(ch[c].left > 0 /\ Len(txf) < FifoDepth)
  BY DEF Settled, CanSend, Senders, Channels, IInv, TypeOK
<1>3. Len(txf) \in Nat /\ (txf = <<>> => Len(txf) = 0) BY DEF IInv, TypeOK
<1>4. ch["SR"].left = 0
  <2>1. to_start # "SR" => ch["SR"].left = 0 BY DEF IInv, ChainOK
  <2>2. to_start = "SR" => Len(txf) + ch["SR"].left <= FifoDepth BY DEF IInv, ChainOK
  <2> QED BY <1>1, <1>2, <1>3, <2>1, <2>2
<1>5. txf = <<>> => Silent
  BY <1>1, <1>2, <1>3 DEF Silent
<1> QED BY <1>4, <1>5

-----------------------------------------------------------------------------
(* The monitor.                                                            *)

LEMMA MonReadCtrlIInv == ASSUME IInv, MonReadCtrl PROVE IInv'
<1>1. /\ bus = "idle" /\ mon.at = "idle" /\ bus' = "ctrl_needed"
      /\ mon' = [mon EXCEPT !.at = "ctrl"]
      /\ UNCHANGED <<cpuVars, core1, dmaVars, txf, rxf, ctrlf, linkVars, histVars>>
  BY DEF MonReadCtrl
<1>2. mon' \in Monitor /\ mon'.at = "ctrl" /\ mon'.k = 0 /\ mon'.take = 0 /\ mon'.give = 0
  BY <1>1 DEF IInv, TypeOK, MonOK, Monitor
<1>3. mon.k = 0 /\ ctrlf = <<>> BY <1>1 DEF IInv, MonOK, CommandOK
<1>4. cpu = "idle" BY DEF MonReadCtrl, IInv, TypeOK, CommandOK
<1>a. TypeOK' BY <1>1, <1>2
        DEF IInv, TypeOK, Monitor, cpuVars, dmaVars, linkVars, histVars
<1>b. MonOK' BY <1>1, <1>2 DEF MonOK
<1>c. DeadOK' BY <1>1, DeadFrame DEF cpuVars, dmaVars, histVars
<1>d. CommandOK' BY <1>1, <1>2, <1>3, <1>4
        DEF IInv, CommandOK, New, Asked, Current, cpuVars, dmaVars, linkVars, histVars
<1>e. ChainOK' BY <1>1, <1>2, ChainFrame DEF cpuVars, dmaVars
<1>f. SendOK' BY <1>1, SendFrame DEF cpuVars, dmaVars
<1>g. Balance' BY <1>1, BalanceFrame DEF cpuVars, dmaVars, histVars
<1>h. StarvedOK' BY <1>1 DEF StarvedOK
<1> QED BY <1>a, <1>b, <1>c, <1>d, <1>e, <1>f, <1>g, <1>h DEF IInv

LEMMA IrqCtrlReadIInv == ASSUME IInv, IrqCtrlRead PROVE IInv'
<1>1. /\ bus = "ctrl_needed" /\ bus' = "ctrl_out" /\ mon' = mon /\ txf' = txf
      /\ ctrlf' = Append(ctrlf, <<cmdstat, 0>>) /\ cmdstat' = 0 /\ attn' = FALSE
      /\ UNCHANGED <<cpuVars, core1, dmaVars, txf, rxf, mon, histVars>>
  BY DEF IrqCtrlRead
<1>2. mon.at = "ctrl" /\ mon.k = 0 /\ ctrlf = <<>>
  BY <1>1 DEF IInv, MonOK, CommandOK
<1>3. ctrlf' = << <<cmdstat, 0>> >> /\ ctrlf' \in Seq(Bytes)
  <2>1. cmdstat \in 0..MaxRequests BY DEF IInv, TypeOK
  <2>2. <<cmdstat, 0>> \in Bytes BY <2>1 DEF Bytes
  <2> QED BY <1>1, <1>2, <2>2
<1>a. TypeOK'
  <2>1. ctrlf' \in Seq(Bytes) /\ cmdstat' \in 0..MaxRequests
    BY <1>1, <1>3, DBusCAssumption
  <2>2. bus' = "ctrl_out" /\ attn' = FALSE
        /\ UNCHANGED <<cpuVars, core1, dmaVars, txf, rxf, mon, histVars>>
    BY <1>1
  <2> QED BY <2>1, <2>2 DEF IInv, TypeOK, cpuVars, dmaVars, histVars
<1>b. MonOK' BY <1>1, <1>2 DEF IInv, MonOK, Asked, cpuVars
<1>c. DeadOK' BY <1>1, DeadFrame DEF cpuVars, dmaVars, histVars
<1>d. CommandOK'
  <2>1. cmdstat # 0 => cmdstat = Current /\ New
    BY DEF IInv, CommandOK
  <2>2. New => New' BY <1>1 DEF New, Current, cpuVars, histVars
  <2>3. cpu = "idle" BY <1>1 DEF IInv, TypeOK, CommandOK
  <2>4. Len(ctrlf') = 1 /\ ctrlf'[1][1] = cmdstat BY <1>3
  <2> QED BY <1>1, <1>2, <2>1, <2>2, <2>3, <2>4
        DEF IInv, CommandOK, Asked, Current, cpuVars, histVars
<1>e. ChainOK' BY <1>1, <1>2, ChainFrame DEF cpuVars, dmaVars
<1>f. SendOK' BY <1>1, SendFrame DEF cpuVars, dmaVars
<1>g. Balance' BY <1>1, BalanceFrame DEF cpuVars, dmaVars, histVars
<1>h. StarvedOK' BY <1>1 DEF StarvedOK
<1> QED BY <1>a, <1>b, <1>c, <1>d, <1>e, <1>f, <1>g, <1>h DEF IInv

LEMMA CtrlOutIInv == ASSUME IInv, CtrlOut PROVE IInv'
<1> DEFINE k == ctrlf[1][1]
<1>1. /\ bus = "ctrl_out" /\ bus' = "idle" /\ ctrlf # <<>> /\ ctrlf' = Tail(ctrlf)
      /\ mon' = Accepted(k)
      /\ UNCHANGED <<cpuVars, core1, dmaVars, txf, rxf, linkVars, histVars>>
  BY DEF CtrlOut
<1>2. mon.at = "ctrl" /\ mon.k = 0 /\ ctrlf' = <<>> /\ ctrlf' \in Seq(Bytes) /\ cpu = "idle"
  <2>1. Len(ctrlf) = 1 /\ ctrlf \in Seq(Bytes) BY <1>1 DEF IInv, TypeOK, CommandOK
  <2>2. ctrlf' \in Seq(Bytes) /\ Len(ctrlf') = 0 BY <1>1, <2>1
  <2>3. cpu = "idle" BY <1>1 DEF IInv, TypeOK, CommandOK
  <2> QED BY <1>1, <2>2, <2>3 DEF IInv, MonOK
<1>3. k # 0 => k = Current /\ New /\ cmdstat = 0
  BY <1>1 DEF IInv, CommandOK
<1>4. k \notin Asked => mon' = [at |-> "data", k |-> 0, take |-> 0, give |-> 0]
  BY <1>1 DEF Accepted, MonIdle
<1>5. k \in Asked => /\ k # 0 /\ k \in 1..MaxRequests
                     /\ mon' = [at |-> "data", k |-> k, take |-> req[k].send,
                                give |-> req[k].recv]
                     /\ req[k].send \in Nat /\ req[k].recv \in Nat
  <2>1. k \in Asked => k # 0 BY DEF Asked
  <2> QED BY <1>1, <2>1, RequestFacts DEF Accepted, IInv
<1> HIDE DEF k
<1>6. mon' \in Monitor /\ mon'.at = "data" BY <1>4, <1>5, DBusCAssumption DEF Monitor
<1>a. TypeOK' BY <1>1, <1>2, <1>6
        DEF IInv, TypeOK, Monitor, cpuVars, dmaVars, linkVars, histVars
<1>b. MonOK'
  <2>1. k \in Asked => MonOK'
    BY <1>1, <1>5 DEF IInv, MonOK, Asked, cpuVars
  <2>2. k \notin Asked => MonOK'
    BY <1>1, <1>4 DEF MonOK
  <2> QED BY <2>1, <2>2
<1>c. DeadOK' BY <1>1, DeadFrame DEF cpuVars, dmaVars, histVars
<1>d. CommandOK'
  <2>1. mon'.k # 0 => /\ mon'.k = Current /\ Current \notin over /\ cmdstat = 0
                      /\ Current \in Asked /\ mon'.take = req[Current].send
                      /\ Len(got[Current]) = 0
    BY <1>3, <1>4, <1>5 DEF New
  <2>2. mon'.k # 0 => mon'.take + Len(got[Current]) = req[Current].send
    BY <2>1, RequestFacts DEF IInv
  <2>3. cmdstat # 0 => mon'.k = 0 /\ cmdstat = Current /\ New
    BY <2>1 DEF IInv, CommandOK
  <2>4. New' <=> New BY <1>1 DEF New, Current, cpuVars, histVars
  <2>5. UNCHANGED <<req, cpu, got, over, cmdstat>> /\ Current' = Current
    BY <1>1 DEF Current, cpuVars, linkVars, histVars
  <2> QED BY <1>2, <2>1, <2>2, <2>3, <2>4, <2>5 DEF IInv, CommandOK, Asked
<1>e. ChainOK' BY <1>1, <1>6, ChainFrame DEF cpuVars, dmaVars
<1>f. SendOK' BY <1>1, SendFrame DEF cpuVars, dmaVars
<1>g. Balance' BY <1>1, BalanceFrame DEF cpuVars, dmaVars, histVars
<1>h. StarvedOK' BY <1>1 DEF StarvedOK
<1> QED BY <1>a, <1>b, <1>c, <1>d, <1>e, <1>f, <1>g, <1>h DEF IInv

\* Only a byte that no channel will bring, of a transfer given up, is missing.
LEMMA MonReadDataIInv == ASSUME IInv, MonReadData PROVE IInv'
<1>1. /\ bus = "idle" /\ mon.at = "data" /\ mon.take > 0 /\ Settled
      /\ bus' = IF txf = <<>> THEN "data_needed" ELSE "data_out"
      /\ UNCHANGED <<cpuVars, core1, dmaVars, txf, rxf, ctrlf, linkVars, mon, histVars>>
  BY DEF MonReadData
<1>2. bus' \in {"data_needed", "data_out"} BY <1>1
<1>3. mon.k # 0 /\ ctrlf = <<>> /\ cpu = "idle"
  BY <1>1 DEF IInv, TypeOK, MonOK, CommandOK
<1>a. TypeOK' BY <1>1, <1>2
        DEF IInv, TypeOK, cpuVars, dmaVars, linkVars, histVars
<1>b. MonOK' BY <1>1, <1>2 DEF IInv, MonOK, Asked, cpuVars
<1>c. DeadOK' BY <1>1, DeadFrame DEF cpuVars, dmaVars, histVars
<1>d. CommandOK' BY <1>1, <1>3
        DEF IInv, CommandOK, New, Asked, Current, cpuVars, linkVars, histVars
<1>e. ChainOK' BY <1>1, ChainFrame DEF cpuVars, dmaVars
<1>f. SendOK' BY <1>1, SendFrame DEF cpuVars, dmaVars
<1>g. Balance' BY <1>1, BalanceFrame DEF cpuVars, dmaVars, histVars
<1>h. StarvedOK'
  <2> SUFFICES ASSUME txf = <<>> PROVE Silent /\ mon.k \in excused
    BY <1>1 DEF StarvedOK, Silent, dmaVars, histVars
  <2>1. Silent BY <1>1, SettledSilent
  <2>2. /\ mon.k = Current /\ Current > 0 /\ Current \notin over /\ Current \in Asked
        /\ mon.take + Len(got[Current]) = req[Current].send
    BY <1>3 DEF IInv, CommandOK, MonOK, Asked, Current
  <2>3. Unsent = 0 /\ Len(txf) = 0 BY <2>1 DEF Unsent, Silent
  <2>4. Len(got[Current]) \in Nat /\ mon.take \in Nat /\ req[Current].send > 0
    <3>1. got[Current] \in Seq(Bytes) /\ mon.take \in Nat /\ req[Current].send \in Nat
      BY <2>2, RequestFacts DEF IInv, TypeOK
    <3> QED BY <1>1, <2>2, <3>1
  <2>5. Current \notin excused => Len(txf) + Unsent + Len(got[Current]) = req[Current].send
    BY <1>3, <2>2, <2>4 DEF IInv, Balance
  <2> QED BY <1>1, <2>1, <2>2, <2>3, <2>4, <2>5
<1> QED BY <1>a, <1>b, <1>c, <1>d, <1>e, <1>f, <1>g, <1>h DEF IInv

LEMMA MonReportIInv == ASSUME IInv, MonReport PROVE IInv'
<1>1. /\ bus = "idle" /\ mon.at = "data" /\ Settled /\ bus' = "ctrl_ready"
      /\ mon.take = 0 /\ mon.give = 0 /\ mon' = [mon EXCEPT !.at = "report"]
      /\ UNCHANGED <<cpuVars, core1, dmaVars, txf, rxf, ctrlf, linkVars, histVars>>
  BY DEF MonReport
<1>2. /\ mon' \in Monitor /\ mon'.at = "report" /\ mon'.k = mon.k
      /\ mon'.take = mon.take /\ mon'.give = mon.give
  BY <1>1 DEF IInv, TypeOK, Monitor
<1>3. ctrlf = <<>> /\ cpu = "idle"
  BY <1>1 DEF IInv, TypeOK, CommandOK
<1>a. TypeOK' BY <1>1, <1>2
        DEF IInv, TypeOK, Monitor, cpuVars, dmaVars, linkVars, histVars
<1>b. MonOK' BY <1>1, <1>2 DEF IInv, MonOK, Asked, cpuVars
<1>c. DeadOK' BY <1>1, DeadFrame DEF cpuVars, dmaVars, histVars
<1>d. CommandOK' BY <1>1, <1>2, <1>3
        DEF IInv, CommandOK, New, Asked, Current, cpuVars, linkVars, histVars
<1>e. ChainOK' BY <1>1, SettledSilent, ChainFrame DEF cpuVars, dmaVars
<1>f. SendOK' BY <1>1, SendFrame DEF cpuVars, dmaVars
<1>g. Balance' BY <1>1, BalanceFrame DEF cpuVars, dmaVars, histVars
<1>h. StarvedOK' BY <1>1 DEF StarvedOK
<1> QED BY <1>a, <1>b, <1>c, <1>d, <1>e, <1>f, <1>g, <1>h DEF IInv

LEMMA IrqDataReadIInv == ASSUME IInv, IrqDataRead PROVE IInv'
<1>1. /\ bus = "data_needed" /\ bus' = "data_out" /\ ctrlf' = Append(ctrlf, Default)
      /\ UNCHANGED <<cpuVars, core1, dmaVars, txf, rxf, linkVars, mon, histVars>>
  BY DEF IrqDataRead
<1>2. ctrlf = <<>> /\ txf = <<>> /\ Silent
  BY <1>1 DEF IInv, CommandOK, StarvedOK
<1>3. ctrlf' \in Seq(Bytes) /\ Len(ctrlf') = 1 /\ ctrlf'[1][1] = 0
  <2>1. ctrlf' = << <<0, 0>> >> BY <1>1, <1>2 DEF Default
  <2>2. <<0, 0>> \in Bytes BY DBusCAssumption DEF Bytes
  <2> QED BY <2>1, <2>2
<1>4. bus' = "data_out" /\ bus = "data_needed"
      /\ UNCHANGED <<cpuVars, core1, dmaVars, txf, rxf, linkVars, mon, histVars>>
  BY <1>1
<1>a. TypeOK' BY <1>3, <1>4
        DEF IInv, TypeOK, cpuVars, dmaVars, linkVars, histVars
<1>b. MonOK' BY <1>4 DEF IInv, MonOK, Asked, cpuVars
<1>c. DeadOK' BY <1>4, DeadFrame DEF cpuVars, dmaVars, histVars
<1>d. CommandOK'
  <2>1. Silent' BY <1>2, <1>4 DEF Silent, dmaVars
  <2> QED BY <1>2, <1>3, <1>4, <2>1
        DEF IInv, CommandOK, New, Asked, Current, cpuVars, linkVars, histVars
<1>e. ChainOK' BY <1>4, ChainFrame DEF IInv, ChainOK, cpuVars, dmaVars, linkVars
<1>f. SendOK' BY <1>4, SendFrame DEF cpuVars, dmaVars
<1>g. Balance' BY <1>4, BalanceFrame DEF cpuVars, dmaVars, histVars
<1>h. StarvedOK' BY <1>4 DEF StarvedOK
<1> QED BY <1>a, <1>b, <1>c, <1>d, <1>e, <1>f, <1>g, <1>h DEF IInv

LEMMA DataOutIInv == ASSUME IInv, DataOut PROVE IInv'
<1> DEFINE k == mon.k
<1>1. /\ bus = "data_out" /\ bus' = "idle" /\ txf # <<>> /\ txf' = Tail(txf)
      /\ mon' = [mon EXCEPT !.take = @ - 1]
      /\ got' = [got EXCEPT ![k] = Append(@, Head(txf))]
      /\ UNCHANGED <<cpuVars, core1, dmaVars, rxf, ctrlf, linkVars,
                     buf, posted, over, excused, dead, cancels, strays>>
  BY DEF DataOut
<1>2. /\ mon.at = "data" /\ mon.take > 0 /\ k # 0 /\ ctrlf = <<>> /\ cmdstat = 0
      /\ cpu = "idle" /\ k = Current /\ Current \notin over /\ k \in Asked
      /\ mon.take + Len(got[k]) = req[k].send
  BY <1>1 DEF IInv, MonOK, CommandOK
<1>3. k \in 1..MaxRequests /\ req[k].send \in Nat
  BY <1>2, RequestFacts DEF IInv
<1> HIDE DEF k
<1>4. txf' \in Seq(Bytes) /\ Len(txf') = Len(txf) - 1 /\ Head(txf) \in Bytes /\ Len(txf) \in Nat
  BY <1>1 DEF IInv, TypeOK
<1>5. /\ mon' \in Monitor /\ mon'.take = mon.take - 1 /\ mon'.at = mon.at
      /\ mon'.k = mon.k /\ mon'.give = mon.give /\ mon.take \in Nat
  <2>1. mon \in Monitor /\ mon.take \in Nat BY DEF IInv, TypeOK, Monitor
  <2>2. mon.take - 1 \in Nat BY <1>2, <2>1
  <2>3. mon' = [mon EXCEPT !.take = mon.take - 1] BY <1>1
  <2> QED BY <2>1, <2>2, <2>3 DEF Monitor
<1>6. got' \in [1..MaxRequests -> Seq(Bytes)] /\ Len(got'[k]) = Len(got[k]) + 1
      /\ (\A j \in 1..MaxRequests : j # k => got'[j] = got[j]) /\ Len(got[k]) \in Nat
  <2>1. got \in [1..MaxRequests -> Seq(Bytes)] BY DEF IInv, TypeOK
  <2>2. got[k] \in Seq(Bytes) BY <2>1, <1>3
  <2>3. Append(got[k], Head(txf)) \in Seq(Bytes)
        /\ Len(Append(got[k], Head(txf))) = Len(got[k]) + 1 BY <2>2, <1>4
  <2> QED BY <2>1, <2>2, <2>3, <1>1, <1>3
<1>7. bus' = "idle" /\ bus = "data_out"
      /\ UNCHANGED <<cpuVars, core1, dmaVars, rxf, ctrlf, linkVars,
                     buf, posted, over, excused, dead, cancels, strays>>
  BY <1>1
<1>a. TypeOK' BY <1>4, <1>5, <1>6, <1>7
        DEF IInv, TypeOK, Monitor, cpuVars, dmaVars, linkVars
<1>b. MonOK' BY <1>2, <1>5, <1>7 DEF IInv, MonOK, Asked, cpuVars, k
<1>c. DeadOK' BY <1>7, DeadFrame DEF cpuVars, dmaVars
<1>d. CommandOK'
  <2>1. UNCHANGED <<req, cpu, over, ctrlf, cmdstat>> /\ Current' = Current
    BY <1>7 DEF Current, cpuVars, linkVars
  <2>2. \A j \in 1..MaxRequests : j > Len(req) => got'[j] = <<>>
    BY <1>2, <1>6 DEF IInv, CommandOK, Asked
  <2>3. mon'.take + Len(got'[k]) = req[k].send
    <3> DEFINE t == mon.take
               l == Len(got[k])
    <3>1. t \in Nat /\ l \in Nat /\ t + l = req[k].send BY <1>2, <1>5, <1>6
    <3>2. mon'.take = t - 1 /\ Len(got'[k]) = l + 1 BY <1>5, <1>6
    <3> HIDE DEF t, l
    <3> QED BY <3>1, <3>2
  <2>4. mon'.k = k BY <1>5 DEF k
  <2> QED BY <1>2, <2>1, <2>2, <2>3, <2>4 DEF IInv, CommandOK, Asked
<1>e. ChainOK'
  <2>1. ch["SR"].left \in Nat /\ FifoDepth \in Nat
    BY DBusCAssumption DEF IInv, TypeOK, Channels
  <2>2. UNCHANGED <<req, cpu, to_start, ch, cmdstat>> /\ mon'.at = "data" /\ cpu = "idle"
    BY <1>2, <1>5, <1>7 DEF cpuVars, dmaVars, linkVars
  <2> QED BY <1>4, <2>1, <2>2 DEF IInv, ChainOK, Current
<1>f. SendOK'
  <2>1. UNCHANGED <<req, cpu, to_start, ch>> /\ cpu = "idle"
    BY <1>2, <1>7 DEF cpuVars, dmaVars
  <2> QED BY <2>1 DEF IInv, SendOK, Current
<1>g. Balance'
  <2>1. UNCHANGED <<req, cpu, over, excused, ch>> BY <1>7 DEF cpuVars, dmaVars
  <2>2. Current' = Current /\ Unsent' = Unsent BY <2>1 DEF Current, Unsent
  <2>3. Unsent \in Nat
    <3>1. \A c \in Channels : ch[c].left \in Nat /\ ch[c].reload \in Nat
      BY DEF IInv, TypeOK
    <3> QED BY <3>1 DEF Unsent, Channels
  <2>4. Len(txf') + Unsent + Len(got'[k]) = Len(txf) + Unsent + Len(got[k])
    <3>1. \A x, u, y \in Nat : (x - 1) + u + (y + 1) = x + u + y OBVIOUS
    <3>2. Len(txf) \in Nat /\ Len(got[k]) \in Nat BY <1>4, <1>6
    <3>3. (Len(txf) - 1) + Unsent + (Len(got[k]) + 1) = Len(txf) + Unsent + Len(got[k])
      BY <3>1, <3>2, <2>3
    <3> QED BY <3>3, <1>4, <1>6
  <2>5. Current \notin excused /\ req[Current].send > 0
          => Len(txf) + Unsent + Len(got[k]) = req[Current].send
    BY <1>2, <1>3 DEF IInv, Balance, Asked
  <2> QED BY <1>2, <2>1, <2>2, <2>4, <2>5 DEF Balance
<1>h. StarvedOK' BY <1>7 DEF StarvedOK
<1> QED BY <1>a, <1>b, <1>c, <1>d, <1>e, <1>f, <1>g, <1>h DEF IInv

LEMMA MonWriteDataIInv == ASSUME IInv, MonWriteData PROVE IInv'
<1>1. /\ bus = "idle" /\ bus' = "data_in"
      /\ UNCHANGED <<cpuVars, core1, dmaVars, txf, rxf, ctrlf, linkVars,
                     got, buf, posted, over, excused, dead, cancels>>
  BY DEF MonWriteData
<1>2. ctrlf = <<>> BY <1>1 DEF IInv, CommandOK
<1>3. CASE mon.at = "data" /\ mon.take = 0 /\ mon.give > 0 /\ UNCHANGED <<mon, strays>>
  <2>1. cpu = "idle" BY <1>3 DEF IInv, TypeOK, CommandOK
  <2>a. TypeOK' BY <1>1, <1>3 DEF IInv, TypeOK, cpuVars, dmaVars, linkVars
  <2>b. MonOK' BY <1>1, <1>3 DEF IInv, MonOK, Asked, cpuVars
  <2>c. DeadOK' BY <1>1, DeadFrame DEF cpuVars, dmaVars
  <2>d. CommandOK' BY <1>1, <1>2, <1>3, <2>1
          DEF IInv, CommandOK, New, Asked, Current, cpuVars, linkVars
  <2>e. ChainOK' BY <1>1, <1>3, ChainFrame DEF cpuVars, dmaVars
  <2>f. SendOK' BY <1>1, SendFrame DEF cpuVars, dmaVars
  <2>g. Balance' BY <1>1, BalanceFrame DEF cpuVars, dmaVars
  <2>h. StarvedOK' BY <1>1 DEF StarvedOK
  <2> QED BY <2>a, <2>b, <2>c, <2>d, <2>e, <2>f, <2>g, <2>h DEF IInv
<1>4. CASE /\ Quiet /\ strays < MaxStrays /\ strays' = strays + 1
           /\ mon' = [mon EXCEPT !.at = "stray"]
  <2>1. cpu = "idle" /\ mon.at = "idle" /\ cmdstat = 0 BY <1>4 DEF Quiet
  <2>2. /\ mon' \in Monitor /\ mon'.at = "stray" /\ mon'.k = 0 /\ mon'.take = 0
        /\ mon'.give = 0 /\ mon.k = 0
    BY <1>4, <2>1 DEF IInv, TypeOK, MonOK, Monitor
  <2>3. strays' \in 0..MaxStrays
    <3>1. strays \in 0..MaxStrays /\ MaxStrays \in Nat BY DBusCAssumption DEF IInv, TypeOK
    <3> QED BY <3>1, <1>4
  <2>a. TypeOK' BY <1>1, <2>2, <2>3 DEF IInv, TypeOK, Monitor, cpuVars, dmaVars, linkVars
  <2>b. MonOK' BY <1>1, <2>2 DEF MonOK
  <2>c. DeadOK' BY <1>1, DeadFrame DEF cpuVars, dmaVars
  <2>d. CommandOK'
    <3>1. UNCHANGED <<req, cpu, over, ctrlf, cmdstat, got>> /\ Current' = Current
      BY <1>1 DEF Current, cpuVars, linkVars
    <3> QED BY <3>1, <1>2, <2>1, <2>2 DEF IInv, CommandOK, New, Asked
  <2>e. ChainOK'
    <3>1. ch["SR"].left = 0 BY <2>1 DEF IInv, ChainOK
    <3> QED BY <3>1, <1>1, ChainFrame DEF cpuVars, dmaVars
  <2>f. SendOK' BY <1>1, SendFrame DEF cpuVars, dmaVars
  <2>g. Balance' BY <1>1, BalanceFrame DEF cpuVars, dmaVars
  <2>h. StarvedOK' BY <1>1 DEF StarvedOK
  <2> QED BY <2>a, <2>b, <2>c, <2>d, <2>e, <2>f, <2>g, <2>h DEF IInv
<1> QED BY <1>3, <1>4 DEF MonWriteData

LEMMA DataInIInv == ASSUME IInv, DataIn PROVE IInv'
<1>1. /\ bus = "data_in" /\ bus' = "idle"
      /\ UNCHANGED <<cpuVars, core1, dmaVars, txf, ctrlf, linkVars, histVars>>
  BY DEF DataIn
<1>2. ctrlf = <<>> /\ rxf \in Seq(Bytes) /\ mon \in Monitor
  BY <1>1 DEF IInv, CommandOK, TypeOK, Monitor
<1>3. CASE mon.at = "stray"
  <2>1. rxf' = Append(rxf, Default) /\ mon' = MonIdle BY <1>3 DEF DataIn
  <2>2. rxf' \in Seq(Bytes)
    <3>1. Default \in Bytes BY DBusCAssumption DEF Default, Bytes
    <3> QED BY <1>2, <2>1, <3>1
  <2>3. mon' \in Monitor /\ mon'.at = "idle" /\ mon'.k = 0 /\ mon'.take = 0 /\ mon'.give = 0
    BY <2>1, DBusCAssumption DEF MonIdle, Monitor
  <2>a. TypeOK' BY <1>1, <2>2, <2>3
          DEF IInv, TypeOK, Monitor, cpuVars, dmaVars, linkVars, histVars
  <2>b. MonOK' BY <1>1, <2>3 DEF MonOK
  <2>c. DeadOK' BY <1>1, DeadFrame DEF cpuVars, dmaVars, histVars
  <2>d. CommandOK'
    <3>1. mon.k = 0 /\ cpu = "idle" BY <1>1, <1>3 DEF IInv, MonOK, CommandOK, TypeOK
    <3> QED BY <1>1, <1>2, <2>3, <3>1
          DEF IInv, CommandOK, New, Asked, Current, cpuVars, linkVars, histVars
  <2>e. ChainOK' BY <1>1, <1>3, ChainFrame DEF IInv, ChainOK, cpuVars, dmaVars, linkVars
  <2>f. SendOK' BY <1>1, SendFrame DEF cpuVars, dmaVars
  <2>g. Balance' BY <1>1, BalanceFrame DEF cpuVars, dmaVars, histVars
  <2>h. StarvedOK' BY <1>1 DEF StarvedOK
  <2> QED BY <2>a, <2>b, <2>c, <2>d, <2>e, <2>f, <2>g, <2>h DEF IInv
<1>4. CASE mon.at # "stray"
  <2>1. /\ rxf' = Append(rxf, <<mon.k, req[mon.k].recv - mon.give + 1>>)
        /\ mon' = [mon EXCEPT !.give = @ - 1]
    BY <1>4 DEF DataIn
  <2>2. /\ mon.at = "data" /\ mon.give > 0 /\ mon.give \in Nat /\ mon.k # 0
        /\ mon.k \in Asked /\ mon.give <= req[mon.k].recv /\ mon.k \in 0..MaxRequests
    BY <1>1, <1>2, <1>4 DEF IInv, MonOK, Monitor
  <2>3. req[mon.k].recv \in Nat BY <2>2, RequestFacts DEF IInv
  <2>4. rxf' \in Seq(Bytes)
    <3>1. <<mon.k, req[mon.k].recv - mon.give + 1>> \in Bytes BY <2>2, <2>3 DEF Bytes
    <3> QED BY <1>2, <2>1, <3>1
  <2>5. /\ mon' \in Monitor /\ mon'.at = mon.at /\ mon'.k = mon.k
        /\ mon'.take = mon.take /\ mon'.give = mon.give - 1
    <3>1. mon.give - 1 \in Nat BY <2>2
    <3>2. mon' = [mon EXCEPT !.give = mon.give - 1] BY <2>1
    <3> QED BY <1>2, <3>1, <3>2 DEF Monitor
  <2>a. TypeOK' BY <1>1, <2>4, <2>5
          DEF IInv, TypeOK, Monitor, cpuVars, dmaVars, linkVars, histVars
  <2>b. MonOK'
    <3>1. mon'.k \in Asked' /\ mon'.k # 0 BY <1>1, <2>2, <2>5 DEF Asked, cpuVars
    <3>2. mon'.give <= req'[mon'.k].recv BY <1>1, <2>2, <2>3, <2>5 DEF cpuVars
    <3> QED BY <1>1, <2>2, <2>5, <3>1, <3>2 DEF MonOK
  <2>c. DeadOK' BY <1>1, DeadFrame DEF cpuVars, dmaVars, histVars
  <2>d. CommandOK' BY <1>1, <1>2, <2>2, <2>5
          DEF IInv, CommandOK, New, Asked, Current, cpuVars, linkVars, histVars
  <2>e. ChainOK' BY <1>1, <2>2, <2>5, ChainFrame DEF cpuVars, dmaVars
  <2>f. SendOK' BY <1>1, SendFrame DEF cpuVars, dmaVars
  <2>g. Balance' BY <1>1, BalanceFrame DEF cpuVars, dmaVars, histVars
  <2>h. StarvedOK' BY <1>1 DEF StarvedOK
  <2> QED BY <2>a, <2>b, <2>c, <2>d, <2>e, <2>f, <2>g, <2>h DEF IInv
<1> QED BY <1>3, <1>4

LEMMA IrqCtrlWriteIInv == ASSUME IInv, IrqCtrlWrite PROVE IInv'
<1>1. /\ bus = "ctrl_ready" /\ bus' = "idle" /\ mon' = MonIdle
      /\ over' = (over \cup {mon.k}) \ ({0} \cup excused)
      /\ UNCHANGED <<cpuVars, core1, dmaVars, txf, rxf, ctrlf, linkVars,
                     got, buf, posted, excused, dead, cancels, strays>>
  BY DEF IrqCtrlWrite
<1>2. mon.at = "report" /\ ctrlf = <<>> /\ cpu = "idle" /\ mon.k \in 0..MaxRequests
  BY <1>1 DEF IInv, MonOK, CommandOK, TypeOK
<1>3. mon' \in Monitor /\ mon'.at = "idle" /\ mon'.k = 0 /\ mon'.take = 0 /\ mon'.give = 0
  BY <1>1, DBusCAssumption DEF MonIdle, Monitor
<1>4. over' \subseteq 1..MaxRequests
  <2>1. over \subseteq 1..MaxRequests BY DEF IInv, TypeOK
  <2>2. mon.k # 0 => mon.k \in 1..MaxRequests BY <1>2, DBusCAssumption
  <2> QED BY <1>1, <2>1, <2>2
<1>5. ch["SR"].left = 0 \/ cmdstat # 0 BY <1>2 DEF IInv, ChainOK
<1>6. mon.k # 0 => mon.k = Current /\ cmdstat = 0 /\ mon.k \in Asked
  BY DEF IInv, CommandOK, MonOK
<1>a. TypeOK' BY <1>1, <1>3, <1>4 DEF IInv, TypeOK, Monitor, cpuVars, dmaVars, linkVars
<1>b. MonOK' BY <1>1, <1>3 DEF MonOK
<1>c. DeadOK' BY <1>1, DeadFrame DEF cpuVars, dmaVars
<1>d. CommandOK'
  <2>1. UNCHANGED <<req, cpu, got, cmdstat, ctrlf, attn>> /\ Current' = Current
    BY <1>1 DEF Current, cpuVars, linkVars
  <2>2. over' \subseteq Asked'
    <3>1. Asked' = Asked BY <2>1 DEF Asked
    <3> QED BY <1>1, <1>2, <1>6, <3>1 DEF IInv, CommandOK
  <2>3. cmdstat # 0 => mon.k = 0 /\ cmdstat = Current /\ New BY DEF IInv, CommandOK
  <2>4. cmdstat # 0 => New'
    <3>1. cmdstat # 0 => Current \notin over' BY <1>1, <2>3 DEF New
    <3> QED BY <2>1, <2>3, <3>1 DEF New
  <2> QED BY <1>2, <1>3, <2>1, <2>2, <2>3, <2>4 DEF IInv, CommandOK
<1>e. ChainOK' BY <1>1, <1>5, ChainFrame DEF cpuVars, dmaVars, linkVars
<1>f. SendOK' BY <1>1, SendFrame DEF cpuVars, dmaVars
<1>g. Balance'
  <2>1. Current \notin over' \cup excused => Current \notin over
    BY <1>1 DEF IInv, TypeOK
  <2>2. UNCHANGED <<req, cpu, ch, txf, got, excused>> /\ Current' = Current
    BY <1>1 DEF Current, cpuVars, dmaVars
  <2>3. Unsent' = Unsent BY <2>2 DEF Unsent
  <2>4. Current > 0 => Current # 0 BY DEF IInv, TypeOK, Current
  <2> QED BY <1>1, <2>1, <2>2, <2>3, <2>4 DEF IInv, Balance
<1>h. StarvedOK' BY <1>1 DEF StarvedOK
<1> QED BY <1>a, <1>b, <1>c, <1>d, <1>e, <1>f, <1>g, <1>h DEF IInv

-----------------------------------------------------------------------------
(* The cancel.                                                             *)

LEMMA CancelStopIInv == ASSUME IInv, CancelStop PROVE IInv'
<1>1. /\ bus' = CASE bus = "ctrl_needed" -> "ctrl_out"
                  [] bus = "data_needed" -> "data_out"
                  [] bus = "ctrl_ready" -> "idle"
                  [] OTHER -> bus
      /\ mon' = IF bus = "ctrl_ready" THEN MonIdle ELSE mon
      /\ txf' = <<>> /\ rxf' = <<>> /\ ctrlf' = <<>> /\ attn' = FALSE
      /\ excused' = excused \cup (Asked \ over)
      /\ core1' = "stopped" /\ cancels < MaxCancels /\ cancels' = cancels + 1
      /\ UNCHANGED <<cpuVars, dmaVars, cmdstat, got, buf, posted, over, dead, strays>>
  BY DEF CancelStop, Cleared
<1>2. /\ bus' \in {"idle", "ctrl_out", "data_out", "data_in"}
      /\ bus' = "data_in" => bus = "data_in"
      /\ bus' = "data_out" => bus \in {"data_needed", "data_out"}
      /\ bus' = "ctrl_out" => bus \in {"ctrl_needed", "ctrl_out"}
      /\ bus = "idle" => bus' = "idle"
  BY <1>1 DEF IInv, TypeOK
<1>3. /\ mon' \in Monitor /\ mon \in Monitor
      /\ mon' = mon \/ (mon.at = "report" /\ mon'.at = "idle" /\ mon'.k = 0
                        /\ mon'.take = 0 /\ mon'.give = 0)
  <2>1. MonIdle \in Monitor /\ MonIdle.at = "idle" /\ MonIdle.k = 0
        /\ MonIdle.take = 0 /\ MonIdle.give = 0
    BY DBusCAssumption DEF MonIdle, Monitor
  <2>2. mon \in Monitor /\ (bus = "ctrl_ready" => mon.at = "report")
    BY DEF IInv, TypeOK, MonOK, Monitor
  <2> QED BY <1>1, <2>1, <2>2
<1>4. /\ txf' = <<>> /\ rxf' = <<>> /\ ctrlf' = <<>> /\ attn' = FALSE
      /\ core1' = "stopped" /\ excused \subseteq excused' /\ Asked \subseteq over \cup excused'
      /\ UNCHANGED <<cpuVars, dmaVars, cmdstat, got, buf, posted, over, dead, strays>>
  BY <1>1
<1>5. bus = "ctrl_ready" => bus' = "idle" BY <1>1
<1>a. TypeOK'
  <2>1. excused' \subseteq 1..MaxRequests
    <3>1. Asked \subseteq 1..MaxRequests BY DBusCAssumption DEF IInv, TypeOK, Asked
    <3> QED BY <1>1, <3>1 DEF IInv, TypeOK
  <2>2. cancels' \in 0..MaxCancels
    <3>1. cancels \in 0..MaxCancels /\ MaxCancels \in Nat
      BY DBusCAssumption DEF IInv, TypeOK
    <3> QED BY <3>1, <1>1
  <2>3. <<>> \in Seq(Bytes) OBVIOUS
  <2> QED BY <1>2, <1>3, <1>4, <2>1, <2>2, <2>3
        DEF IInv, TypeOK, Monitor, cpuVars, dmaVars
<1>b. MonOK' BY <1>2, <1>3, <1>4, <1>5 DEF IInv, MonOK, Asked, cpuVars
<1>c. DeadOK'
  <2>1. UNCHANGED <<req, cpu, to_start, ch, donemsg, dead>>
    BY <1>4 DEF cpuVars, dmaVars
  <2> QED BY <2>1, DeadFrame
<1>d. CommandOK'
  <2>1. UNCHANGED <<req, cpu, over, got, cmdstat>> /\ Current' = Current /\ (New' <=> New)
    BY <1>4 DEF New, Current, cpuVars
  <2>2. cpu = "prepared" => mon' = mon
    BY <1>3 DEF IInv, CommandOK
  <2> QED BY <1>2, <1>3, <1>4, <2>1, <2>2 DEF IInv, CommandOK, Asked
<1>e. ChainOK'
  <2>1. UNCHANGED <<req, cpu, to_start, ch, cmdstat>> /\ Current' = Current
    BY <1>4 DEF cpuVars, dmaVars, Current
  <2>2. Len(txf) \in Nat /\ Len(txf') = 0 /\ ch["SR"].left \in Nat /\ FifoDepth \in Nat
    <3>1. Len(txf) \in Nat /\ Len(txf') = 0 BY <1>4 DEF IInv, TypeOK
    <3>2. ch["SR"].left \in Nat BY DEF IInv, TypeOK, Channels
    <3> QED BY <3>1, <3>2, DBusCAssumption
  <2>3. Len(txf) + ch["SR"].left <= FifoDepth => Len(txf') + ch["SR"].left <= FifoDepth
    BY <2>2
  <2> QED BY <1>3, <1>4, <2>1, <2>3 DEF IInv, ChainOK
<1>f. SendOK'
  <2>1. UNCHANGED <<req, cpu, to_start, ch>> /\ Current' = Current
    BY <1>4 DEF cpuVars, dmaVars, Current
  <2> QED BY <1>4, <2>1 DEF IInv, SendOK, Silent
<1>g. Balance'
  <2>1. UNCHANGED <<req, over>> /\ Current' = Current
    BY <1>4 DEF cpuVars, Current
  <2>2. Current > 0 => Current \in Asked BY DEF IInv, TypeOK, Asked, Current
  <2> QED BY <1>4, <2>1, <2>2 DEF Balance
<1>h. StarvedOK' BY <1>2 DEF StarvedOK
<1> QED BY <1>a, <1>b, <1>c, <1>d, <1>e, <1>f, <1>g, <1>h DEF IInv

LEMMA CancelAbortIInv == ASSUME IInv, CancelAbort PROVE IInv'
<1>1. /\ ch' = Stopped({"S", "R"}) /\ irqen' = {} /\ intr' = intr \ {"S", "R"}
      /\ donemsg' = {} /\ cmdstat' = 0 /\ core1' = "idle"
      /\ excused' = excused \cup (Asked \ over)
      /\ dead' = IF cpu = "idle" THEN dead \cup (Asked \ over) ELSE dead
      /\ UNCHANGED <<cpuVars, pioVars, attn, mon, got, buf, posted, over,
                     cancels, strays>>
  BY DEF CancelAbort
<1>2. \A c \in Channels : /\ ch'[c].k = ch[c].k /\ ch'[c].pos = ch[c].pos
                          /\ ch'[c].left = 0 /\ ch'[c].reload = ch[c].reload
                          /\ ch'[c] \in Channel
  <2>1. ch \in [Channels -> Channel] BY DEF IInv, TypeOK, Channel
  <2>2. \A c \in Channels : ch'[c] = [ch[c] EXCEPT !.left = 0]
    BY <1>1 DEF Stopped, Aborted, Channels
  <2> SUFFICES ASSUME NEW c \in Channels
               PROVE  /\ ch'[c].k = ch[c].k /\ ch'[c].pos = ch[c].pos
                      /\ ch'[c].left = 0 /\ ch'[c].reload = ch[c].reload
                      /\ ch'[c] \in Channel
    OBVIOUS
  <2>3. ch[c] \in Channel /\ ch'[c] = [ch[c] EXCEPT !.left = 0] BY <2>1, <2>2
  <2> QED BY <2>3 DEF Channel
<1>3. ch' \in [Channels -> Channel]
  <2>1. DOMAIN ch' = Channels /\ ch' = [c \in Channels |-> ch'[c]] BY <1>1 DEF Stopped
  <2> QED BY <2>1, <1>2
<1>4. Silent' /\ ch'["R"].left = 0 BY <1>2 DEF Silent, Channels
<1>5. Asked \subseteq 1..MaxRequests BY DBusCAssumption DEF IInv, TypeOK, Asked
<1>6. UNCHANGED <<cpuVars, pioVars, attn, mon, got, buf, posted, over, cancels, strays>>
  BY <1>1
<1>a. TypeOK'
  <2>1. excused' \subseteq 1..MaxRequests /\ dead' \subseteq excused'
    BY <1>1, <1>5 DEF IInv, TypeOK
  <2>2. intr' \subseteq Channels /\ cmdstat' \in 0..MaxRequests
    BY <1>1, DBusCAssumption DEF IInv, TypeOK
  <2>3. core1' = "idle" /\ irqen' = {} /\ donemsg' = {} BY <1>1
  <2> QED BY <1>3, <1>6, <2>1, <2>2, <2>3 DEF IInv, TypeOK, Channel, cpuVars, pioVars
<1>b. MonOK' BY <1>6 DEF IInv, MonOK, Asked, cpuVars, pioVars
<1>c. DeadOK'
  <2>1. UNCHANGED <<req, cpu, to_start>> BY <1>6 DEF cpuVars
  <2>2. dead' \subseteq Asked' BY <1>1, <2>1 DEF IInv, DeadOK, Asked
  <2>3. cpu = "prepared" => dead' = dead BY <1>1
  <2>4. donemsg' = {} /\ ch'["R"].k = ch["R"].k /\ ch'["SR"].left = 0
    BY <1>1, <1>2 DEF Channels
  <2> QED BY <1>4, <2>1, <2>2, <2>3, <2>4 DEF IInv, DeadOK, Current
<1>d. CommandOK'
  <2>1. UNCHANGED <<req, cpu, over, got, ctrlf, mon, bus, txf, attn>> /\ cmdstat' = 0
    BY <1>1, <1>6 DEF cpuVars, pioVars
  <2>2. Current' = Current /\ (New' <=> New) BY <2>1 DEF New, Current
  <2> QED BY <1>4, <2>1, <2>2 DEF IInv, CommandOK, Asked
<1>e. ChainOK'
  <2>1. UNCHANGED <<req, cpu, to_start, txf>> /\ Current' = Current
    BY <1>6 DEF cpuVars, pioVars, Current
  <2>2. /\ ch'["SR"].left = 0 /\ ch'["S"].left = 0 /\ ch'["SS"].left = 0
        /\ ch'["SR"].reload = ch["SR"].reload
    BY <1>2 DEF Channels
  <2>3. Len(txf) \in Nat /\ ch["SR"].left \in Nat /\ FifoDepth \in Nat
    <3>1. Len(txf) \in Nat BY DEF IInv, TypeOK
    <3>2. ch["SR"].left \in Nat BY DEF IInv, TypeOK, Channels
    <3> QED BY <3>1, <3>2, DBusCAssumption
  <2>4. Len(txf) + ch["SR"].left <= FifoDepth => Len(txf) + 0 <= FifoDepth
    BY <2>3
  <2> QED BY <2>1, <2>2, <2>4 DEF IInv, ChainOK
<1>f. SendOK'
  <2>1. UNCHANGED <<req, cpu, to_start, txf>> /\ Current' = Current
    BY <1>6 DEF cpuVars, pioVars, Current
  <2>2. \A c \in {"S", "SS", "SR"} : ch'[c].left = 0 /\ ch'[c].reload = ch[c].reload
    BY <1>2 DEF Channels
  <2> QED BY <1>4, <2>1, <2>2 DEF IInv, SendOK
<1>g. Balance'
  <2>1. UNCHANGED <<req, over>> /\ Current' = Current
    BY <1>6 DEF cpuVars, Current
  <2>2. Current > 0 => Current \in Asked BY DEF IInv, TypeOK, Asked, Current
  <2> QED BY <1>1, <2>1, <2>2 DEF Balance
<1>h. StarvedOK'
  <2>1. UNCHANGED <<bus, txf, mon>> /\ excused \subseteq excused' BY <1>1, <1>6 DEF pioVars
  <2> QED BY <1>4, <2>1 DEF IInv, StarvedOK
<1> QED BY <1>a, <1>b, <1>c, <1>d, <1>e, <1>f, <1>g, <1>h DEF IInv

-----------------------------------------------------------------------------
(* The DMA channels.                                                       *)

\* What only the receiving channel does disturbs the sending part nowhere.
LEMMA ReceiverFrame ==
  ASSUME IInv, \A c \in Senders : ch'[c] = ch[c],
         UNCHANGED <<cpuVars, core1, txf, ctrlf, bus, linkVars, mon, got, over,
                     excused, dead, cancels, strays>>
  PROVE  MonOK' /\ CommandOK' /\ ChainOK' /\ SendOK' /\ Balance' /\ StarvedOK'
<1>1. ch'["S"] = ch["S"] /\ ch'["SS"] = ch["SS"] /\ ch'["SR"] = ch["SR"]
  BY DEF Senders, Channels
<1>2. /\ UNCHANGED <<req, cpu, to_start, txf, ctrlf, bus, cmdstat, attn, mon, got,
                     over, excused>>
      /\ Current' = Current
  BY DEF cpuVars, linkVars, Current
<1>3. Silent' = Silent /\ Unsent' = Unsent BY <1>1, <1>2 DEF Silent, Unsent
<1>a. MonOK' BY <1>2 DEF IInv, MonOK, Asked
<1>d. CommandOK' BY <1>2, <1>3 DEF IInv, CommandOK, New, Asked
<1>e. ChainOK' BY <1>1, <1>2 DEF IInv, ChainOK
<1>f. SendOK' BY <1>1, <1>2, <1>3 DEF IInv, SendOK
<1>g. Balance' BY <1>2, <1>3 DEF IInv, Balance
<1>h. StarvedOK' BY <1>2, <1>3 DEF IInv, StarvedOK
<1> QED BY <1>a, <1>d, <1>e, <1>f, <1>g, <1>h

LEMMA DmaReceiveIInv == ASSUME IInv, DmaReceive PROVE IInv'
<1>1. /\ ch["R"].left > 0 /\ rxf # <<>> /\ rxf' = Tail(rxf)
      /\ ch' = [ch EXCEPT !["R"] = [ch["R"] EXCEPT !.pos = @ + 1, !.left = @ - 1]]
      /\ intr' = IF ch["R"].left = 1 THEN intr \cup {"R"} ELSE intr
      /\ buf' = IF ch["R"].k = 0 THEN buf
                ELSE [buf EXCEPT ![ch["R"].k] = Append(@, Head(rxf))]
      /\ UNCHANGED <<cpuVars, core1, irqen, donemsg, txf, ctrlf, bus, linkVars, mon,
                     got, posted, over, excused, dead, cancels, strays>>
  BY DEF DmaReceive, CanReceive
<1>2. ch \in [Channels -> Channel] /\ ch["R"] \in Channel /\ ch["R"].left \in Nat
      /\ ch["R"].pos \in Nat /\ ch["R"].k \in 0..MaxRequests
  BY DEF IInv, TypeOK, Channel, Channels
<1>3. /\ ch'["R"] \in Channel /\ ch'["R"].k = ch["R"].k /\ ch' \in [Channels -> Channel]
      /\ \A c \in Senders : ch'[c] = ch[c]
  <2> DEFINE r == [ch["R"] EXCEPT !.pos = @ + 1, !.left = @ - 1]
  <2>1. ch["R"].left - 1 \in Nat /\ ch["R"].pos + 1 \in Nat BY <1>1, <1>2
  <2>2. r \in Channel /\ r.k = ch["R"].k BY <1>2, <2>1 DEF Channel
  <2>3. ch' = [ch EXCEPT !["R"] = r] BY <1>1
  <2> HIDE DEF r
  <2> QED BY <1>2, <2>2, <2>3 DEF Senders, Channels
<1>4. rxf' \in Seq(Bytes) /\ Head(rxf) \in Bytes BY <1>1 DEF IInv, TypeOK
<1>5. buf' \in [1..MaxRequests -> Seq(Bytes)]
  <2>1. buf \in [1..MaxRequests -> Seq(Bytes)] BY DEF IInv, TypeOK
  <2>2. CASE ch["R"].k # 0
    <3>1. ch["R"].k \in 1..MaxRequests BY <1>2, <2>2, DBusCAssumption
    <3>2. Append(buf[ch["R"].k], Head(rxf)) \in Seq(Bytes) BY <1>4, <2>1, <3>1
    <3> QED BY <1>1, <2>1, <2>2, <3>1, <3>2
  <2> QED BY <1>1, <2>1, <2>2
<1>6. UNCHANGED <<cpuVars, core1, irqen, donemsg, txf, ctrlf, bus, linkVars, mon,
                  got, posted, over, excused, dead, cancels, strays>>
  BY <1>1
<1>a. TypeOK'
  <2>1. intr' \subseteq Channels BY <1>1 DEF IInv, TypeOK, Channels
  <2> QED BY <1>3, <1>4, <1>5, <1>6, <2>1 DEF IInv, TypeOK, Channel, cpuVars, linkVars
<1>c. DeadOK'
  <2>1. ch["R"].k \notin dead BY <1>1 DEF IInv, DeadOK
  <2>2. \A c \in Channels : ch'[c].k = ch[c].k BY <1>3 DEF Senders, Channels
  <2>3. UNCHANGED <<req, cpu, to_start, donemsg, dead>> BY <1>6 DEF cpuVars
  <2>4. donemsg \subseteq Channels BY DEF IInv, TypeOK, Channels
  <2> QED BY <2>1, <2>2, <2>3, <2>4 DEF IInv, DeadOK, Asked, Current, Channels
<1> QED BY <1>a, <1>c, <1>3, <1>6, ReceiverFrame DEF IInv

LEMMA IrqDmaIInv == ASSUME IInv, IrqDma PROVE IInv'
<1>1. /\ intr' = intr \ Pending /\ donemsg' = donemsg \ Pending
      /\ posted' = [m \in Reports |-> posted[m] +
           (IF m[1] \in Pending \cap donemsg /\ ch[m[1]].k = m[2] THEN 1 ELSE 0)]
      /\ IF "R" \in Pending THEN rxf' = <<>> /\ ch' = Rearmed ELSE UNCHANGED <<rxf, ch>>
      /\ UNCHANGED <<cpuVars, core1, irqen, txf, ctrlf, bus, linkVars, mon,
                     got, buf, over, excused, dead, cancels, strays>>
  BY DEF IrqDma
<1>2. /\ ch' \in [Channels -> Channel] /\ \A c \in Senders : ch'[c] = ch[c]
      /\ ch'["R"].k = ch["R"].k \/ (ch'["R"].k = 0 /\ "R" \notin donemsg')
      /\ ch'["R"] = ch["R"] \/ ch'["R"].k = 0
  <2> DEFINE r == Started(Configured(ch["R"], 0, 0, 1))
  <2>1. ch \in [Channels -> Channel] /\ ch["R"] \in Channel
    BY DEF IInv, TypeOK, Channel, Channels
  <2>2. r \in Channel /\ r.k = 0
    <3>1. 0 \in 0..MaxRequests /\ 0 \in Nat /\ 1 \in Nat BY DBusCAssumption
    <3>2. Configured(ch["R"], 0, 0, 1) \in Channel /\ Configured(ch["R"], 0, 0, 1).k = 0
      BY <2>1, <3>1, ConfiguredFacts
    <3> QED BY <3>2, StartedFacts
  <2>3. "R" \in Pending => ch' = [ch EXCEPT !["R"] = r] BY <1>1 DEF Rearmed
  <2> HIDE DEF r
  <2> QED BY <1>1, <2>1, <2>2, <2>3 DEF Senders, Channels
<1>3. rxf' \in Seq(Bytes)
  <2>1. rxf \in Seq(Bytes) /\ <<>> \in Seq(Bytes) BY DEF IInv, TypeOK
  <2> QED BY <1>1, <2>1
<1>4. posted' \in [Reports -> Nat]
  <2>1. posted \in [Reports -> Nat] BY DEF IInv, TypeOK
  <2>2. \A m \in Reports : posted[m] \in Nat /\ posted[m] + 1 \in Nat /\ posted[m] + 0 \in Nat
    BY <2>1
  <2> QED BY <1>1, <2>2
<1>5. UNCHANGED <<cpuVars, core1, irqen, txf, ctrlf, bus, linkVars, mon,
                  got, buf, over, excused, dead, cancels, strays>>
  BY <1>1
<1>a. TypeOK'
  <2>1. intr' \subseteq Channels /\ donemsg' \subseteq {"S", "R"} BY <1>1 DEF IInv, TypeOK
  <2> QED BY <1>2, <1>3, <1>4, <1>5, <2>1 DEF IInv, TypeOK, Channel, cpuVars, linkVars
<1>c. DeadOK'
  <2>1. 0 \notin dead BY DEF IInv, DeadOK, Asked
  <2>2. UNCHANGED <<req, cpu, to_start, dead>> /\ donemsg' \subseteq donemsg
    BY <1>1, <1>5 DEF cpuVars
  <2>3. donemsg \subseteq {"S", "R"} BY DEF IInv, TypeOK
  <2>4. ch'["S"] = ch["S"] /\ ch'["SR"] = ch["SR"] BY <1>2 DEF Senders, Channels
  <2> QED BY <1>2, <2>1, <2>2, <2>3, <2>4 DEF IInv, DeadOK, Asked, Current
<1> QED BY <1>a, <1>c, <1>2, <1>5, ReceiverFrame DEF IInv

\* A sending channel moves a byte; at the end of its block it starts the channel
\* chained to it.
LEMMA SendFacts ==
  ASSUME IInv, NEW c \in Senders, DmaSend(c)
  PROVE  /\ ch[c].left > 0 /\ Len(txf) < FifoDepth
         /\ ch' \in [Channels -> Channel]
         /\ \A d \in Channels : ch'[d].k = ch[d].k /\ ch'[d].reload = ch[d].reload
         /\ ch'[c].left = ch[c].left - 1
         /\ \A d \in Channels \ {c} :
              ch'[d].left = IF ch[c].left = 1 /\ <<c, d>> \in {<<"SS", "S">>, <<"SR", "R">>}
                            THEN ch[d].reload ELSE ch[d].left
<1> DEFINE m == [ch[c] EXCEPT !.pos = @ + 1, !.left = @ - 1]
           moved == [ch EXCEPT ![c] = m]
<1>1. /\ ch[c].left > 0 /\ Len(txf) < FifoDepth
      /\ ch' = IF moved[c].left = 0 THEN Ended(c, moved) ELSE moved
  BY DEF DmaSend, CanSend
<1>2. ch \in [Channels -> Channel] /\ c \in Channels /\ ch[c] \in Channel
      /\ c \in {"S", "SS", "SR"}
  BY DEF IInv, TypeOK, Channel, Channels, Senders
<1>3. m \in Channel /\ m.k = ch[c].k /\ m.reload = ch[c].reload /\ m.left = ch[c].left - 1
  <2>1. ch[c].left - 1 \in Nat /\ ch[c].pos + 1 \in Nat BY <1>1, <1>2 DEF Channel
  <2> QED BY <1>2, <2>1 DEF Channel
<1> HIDE DEF m
<1>4. /\ moved \in [Channels -> Channel] /\ moved[c] = m
      /\ \A d \in Channels \ {c} : moved[d] = ch[d]
  BY <1>2, <1>3
<1>5. ch[c].left = 1 <=> moved[c].left = 0
  BY <1>2, <1>3, <1>4 DEF Channel
<1> HIDE DEF moved
<1>6. CASE ch[c].left = 1 /\ c = "SS"
  <2>1. ch' = [moved EXCEPT !["S"] = Started(moved["S"])] BY <1>1, <1>5, <1>6 DEF Ended
  <2>2. moved["S"] \in Channel BY <1>4 DEF Channels
  <2> QED BY <1>1, <1>2, <1>3, <1>4, <1>6, <2>1, <2>2, StartedFacts DEF Channels
<1>7. CASE ch[c].left = 1 /\ c = "SR"
  <2>1. ch' = [moved EXCEPT !["R"] = Started(moved["R"])] BY <1>1, <1>5, <1>7 DEF Ended
  <2>2. moved["R"] \in Channel BY <1>4 DEF Channels
  <2> QED BY <1>1, <1>2, <1>3, <1>4, <1>7, <2>1, <2>2, StartedFacts DEF Channels
<1>8. CASE ch[c].left # 1 \/ c = "S"
  <2>1. ch' = moved BY <1>1, <1>5, <1>8 DEF Ended
  <2> QED BY <1>1, <1>2, <1>3, <1>4, <1>8, <2>1
<1> QED BY <1>2, <1>6, <1>7, <1>8

LEMMA DmaSendIInv == ASSUME IInv, NEW c \in Senders, DmaSend(c) PROVE IInv'
<1>1. /\ txf' = Append(txf, <<ch[c].k, ch[c].pos + 1>>)
      /\ intr' = intr \cup {c} \/ intr' = intr
      /\ UNCHANGED <<cpuVars, core1, irqen, donemsg, rxf, ctrlf, bus, linkVars, mon,
                     histVars>>
  BY DEF DmaSend
<1>2. /\ c \in {"S", "SS", "SR"} /\ ch[c].left > 0
      /\ \A d \in Channels : ch[d].left \in Nat /\ ch[d].reload \in Nat
  BY SendFacts DEF Senders, Channels, IInv, TypeOK
<1>3. /\ ch' \in [Channels -> Channel]
      /\ \A d \in Channels : ch'[d].k = ch[d].k /\ ch'[d].reload = ch[d].reload
      /\ ch'[c].left = ch[c].left - 1
      /\ \A d \in Channels \ {c} :
           ch'[d].left = IF ch[c].left = 1 /\ <<c, d>> \in {<<"SS", "S">>, <<"SR", "R">>}
                         THEN ch[d].reload ELSE ch[d].left
  BY SendFacts
<1>4. txf' \in Seq(Bytes) /\ Len(txf') = Len(txf) + 1 /\ Len(txf) \in Nat /\ txf' # <<>>
  <2>1. txf \in Seq(Bytes) BY DEF IInv, TypeOK
  <2>2. ch[c].k \in 0..MaxRequests /\ ch[c].pos + 1 \in Nat
    <3>1. ch \in [Channels -> Channel] BY DEF IInv, TypeOK, Channel
    <3>2. ch[c] \in Channel BY <3>1 DEF Senders
    <3> QED BY <3>2 DEF Channel
  <2>3. <<ch[c].k, ch[c].pos + 1>> \in Bytes BY <2>2 DEF Bytes
  <2> QED BY <1>1, <2>1, <2>3
<1>5. UNCHANGED <<cpuVars, core1, irqen, donemsg, rxf, ctrlf, bus, linkVars, mon, histVars>>
  BY <1>1
<1>6. ~Silent BY <1>2 DEF Silent
<1>7. bus # "data_needed" BY <1>6 DEF IInv, StarvedOK
\* The other channels of the pair.
<1>8. /\ c = "S" => ch'["SS"].left = ch["SS"].left /\ ch'["SR"].left = ch["SR"].left
      /\ c = "SS" => /\ ch'["SR"].left = ch["SR"].left
                     /\ ch'["S"].left = IF ch["SS"].left = 1 THEN ch["S"].reload
                                        ELSE ch["S"].left
      /\ c = "SR" => ch'["S"].left = ch["S"].left /\ ch'["SS"].left = ch["SS"].left
      /\ c # "SR" => ch'["R"].left = ch["R"].left
  BY <1>2, <1>3 DEF Channels
<1>9. UNCHANGED <<req, cpu, to_start, ctrlf, bus, cmdstat, attn, mon, got, over, excused,
                  dead, donemsg>> /\ Current' = Current
  BY <1>5 DEF cpuVars, linkVars, histVars, Current
<1>a. TypeOK'
  <2>1. intr' \subseteq Channels BY <1>1 DEF IInv, TypeOK, Senders
  <2> QED BY <1>3, <1>4, <1>5, <2>1 DEF IInv, TypeOK, Channel, cpuVars, linkVars, histVars
<1>b. MonOK' BY <1>9 DEF IInv, MonOK, Asked
<1>c. DeadOK'
  <2>1. donemsg \subseteq Channels BY DEF IInv, TypeOK, Channels
  <2>2. ch'["R"].left > 0 \/ ch'["SR"].left > 0 => ch["R"].left > 0 \/ ch["SR"].left > 0
    BY <1>2, <1>3, <1>8 DEF Channels
  <2>3. ch'["R"].k = ch["R"].k /\ \A d \in donemsg : ch'[d].k = ch[d].k
    BY <1>3, <2>1 DEF Channels
  <2> QED BY <1>9, <2>2, <2>3 DEF IInv, DeadOK, Asked
<1>d. CommandOK'
  <2>1. ctrlf # <<>> => bus = "ctrl_out" BY <1>6 DEF IInv, CommandOK
  <2>2. New' <=> New BY <1>9 DEF New
  <2> QED BY <1>9, <2>1, <2>2 DEF IInv, CommandOK, Asked
<1>e. ChainOK'
  <2>1. to_start # "SR" => c # "SR" BY <1>2 DEF IInv, ChainOK
  <2>2. to_start = "SR" => c = "SR" BY <1>2 DEF IInv, ChainOK
  <2>3. cpu = "idle" /\ cmdstat = 0 /\ mon.at \in {"idle", "stray", "report"} => c # "SR"
    BY <1>2 DEF IInv, ChainOK
  <2>4. cpu = "prepared" /\ req[Current].kind # "none" => c # "SR" \/ to_start # "SR"
    BY <1>2 DEF IInv, ChainOK
  <2>5. c = "SR" => Len(txf') + ch'["SR"].left = Len(txf) + ch["SR"].left
    <3>1. \A x, y \in Nat : (x + 1) + (y - 1) = x + y OBVIOUS
    <3>2. c = "SR" => ch["SR"].left \in Nat /\ ch'["SR"].left = ch["SR"].left - 1
      BY <1>2, <1>3 DEF Channels
    <3> QED BY <1>4, <3>1, <3>2
  <2>6. ch'["SR"].reload = ch["SR"].reload BY <1>3 DEF Channels
  <2>7. c # "SR" => ch'["SR"].left = ch["SR"].left BY <1>2, <1>8
  <2> QED BY <1>8, <1>9, <2>1, <2>2, <2>3, <2>4, <2>5, <2>6, <2>7 DEF IInv, ChainOK
<1>f. SendOK'
  <2>1. SUFFICES ASSUME Current > 0 PROVE SendOK' BY <1>9 DEF SendOK
  <2>2. cpu = "prepared" => ~(req[Current].send > 0) BY <1>6, <2>1 DEF IInv, SendOK
  <2>3. req[Current].kind = "send1" => c = "S" BY <1>2, <2>1 DEF IInv, SendOK
  <2>4. req[Current].kind = "sendrecv" => c = "SR" BY <1>2, <2>1 DEF IInv, SendOK
  <2>5. req[Current].kind = "send2" =>
          /\ c # "SR" /\ ch["SR"].left = 0
          /\ ch["SS"].left > 0 => c = "SS" /\ ch["S"].left = 0
    BY <1>2, <2>1 DEF IInv, SendOK
  <2>6. c = "SS" /\ ch'["SS"].left > 0 => ch'["S"].left = ch["S"].left
    BY <1>2, <1>3, <1>8 DEF Channels
  <2> QED BY <1>2, <1>8, <1>9, <2>1, <2>2, <2>3, <2>4, <2>5, <2>6 DEF IInv, SendOK
<1>g. Balance'
  <2>1. SUFFICES ASSUME cpu = "idle", Current > 0, req[Current].send > 0,
                        Current \notin over \cup excused
                 PROVE  Len(txf') + Unsent' + Len(got[Current]) = req[Current].send
    BY <1>9 DEF Balance
  <2>2. Len(txf) + Unsent + Len(got[Current]) = req[Current].send
    BY <2>1 DEF IInv, Balance
  <2>3. Current \in Asked BY <2>1 DEF IInv, TypeOK, Asked, Current
  <2>4. req[Current].kind \in {"send1", "send2", "sendrecv"}
    BY <2>1, <2>3, RequestFacts DEF IInv
  <2>5. Unsent \in Nat /\ Unsent' = Unsent - 1
    <3>1. CASE req[Current].kind = "send1"
      <4>1. c = "S" BY <1>2, <2>1, <3>1 DEF IInv, SendOK
      <4>2. ch["S"].left \in Nat /\ ch["S"].left > 0 BY <1>2, <4>1 DEF Channels
      <4>3. ch'["S"].left = ch["S"].left - 1 BY <1>3, <4>1
      <4>4. Unsent = ch["S"].left /\ Unsent' = ch'["S"].left BY <1>9, <3>1 DEF Unsent
      <4> QED BY <4>2, <4>3, <4>4
    <3>2. CASE req[Current].kind = "sendrecv"
      <4>1. c = "SR" BY <1>2, <2>1, <3>2 DEF IInv, SendOK
      <4>2. ch["SR"].left \in Nat /\ ch["SR"].left > 0 BY <1>2, <4>1 DEF Channels
      <4>3. ch'["SR"].left = ch["SR"].left - 1 BY <1>3, <4>1
      <4>4. Unsent = ch["SR"].left /\ Unsent' = ch'["SR"].left BY <1>9, <3>2 DEF Unsent
      <4> QED BY <4>2, <4>3, <4>4
    <3>3. CASE req[Current].kind = "send2"
      <4>1. c # "SR" /\ (ch["SS"].left > 0 => c = "SS" /\ ch["S"].left = 0)
        BY <1>2, <2>1, <3>3 DEF IInv, SendOK
      <4>2. /\ ch'["S"].reload = ch["S"].reload /\ ch["S"].left \in Nat
            /\ ch["SS"].left \in Nat /\ ch["S"].reload \in Nat
        BY <1>2, <1>3 DEF Channels
      <4>3. /\ Unsent = IF ch["SS"].left > 0 THEN ch["SS"].left + ch["S"].reload
                        ELSE ch["S"].left
            /\ Unsent' = IF ch'["SS"].left > 0 THEN ch'["SS"].left + ch'["S"].reload
                         ELSE ch'["S"].left
        BY <1>9, <3>3 DEF Unsent
      <4>4. CASE c = "SS"
        <5>1. ch'["SS"].left = ch["SS"].left - 1 BY <1>3, <4>4
        <5> QED BY <1>2, <1>8, <4>2, <4>3, <4>4, <5>1
      <4>5. CASE c = "S"
        <5>1. ch'["S"].left = ch["S"].left - 1 /\ ch["SS"].left = 0 /\ ch'["SS"].left = 0
          BY <1>3, <1>8, <4>1, <4>2, <4>5
        <5> QED BY <1>2, <4>2, <4>3, <4>5, <5>1
      <4> QED BY <1>2, <4>1, <4>4, <4>5
    <3> QED BY <2>4, <3>1, <3>2, <3>3
  <2>6. \A x, u \in Nat : (x + 1) + (u - 1) = x + u OBVIOUS
  <2>7. Len(txf') + Unsent' = Len(txf) + Unsent BY <1>4, <2>5, <2>6
  <2> QED BY <2>2, <2>7
<1>h. StarvedOK' BY <1>7, <1>9 DEF StarvedOK
<1> QED BY <1>a, <1>b, <1>c, <1>d, <1>e, <1>f, <1>g, <1>h DEF IInv

-----------------------------------------------------------------------------
(* Core 0.                                                                 *)

LEMMA BeginIInv == ASSUME IInv, Begin PROVE IInv'
<1> DEFINE r == req[Current]
<1>1. /\ cpu = "prepared" /\ cmdstat' = Current /\ attn' = TRUE /\ cpu' = "idle"
      /\ IF r.kind = "none" THEN UNCHANGED <<ch, irqen>>
         ELSE /\ irqen' = irqen \cup {to_irqen}
              /\ ch' = [ch EXCEPT ![to_start] = Started(@)]
      /\ UNCHANGED <<req, to_start, to_irqen, core1, intr, donemsg, pioVars, mon, histVars>>
  BY DEF Begin
<1>2. /\ mon.at = "idle" /\ bus = "idle" /\ cmdstat = 0 /\ Current > 0
      /\ Current \notin over /\ got[Current] = <<>> /\ mon.k = 0 /\ ctrlf = <<>>
  BY <1>1 DEF IInv, CommandOK, MonOK
<1>3. Current \in Asked /\ Current \in 1..MaxRequests /\ Current \in 0..MaxRequests
  <2>1. Current \in Asked BY <1>2 DEF IInv, TypeOK, Asked, Current
  <2>2. Current \in 1..MaxRequests BY <2>1, RequestFacts DEF IInv
  <2> QED BY <2>1, <2>2, DBusCAssumption
<1>4. /\ r.send \in Nat /\ r.second \in Nat
      /\ r.kind \in {"none", "send1", "send2", "recv", "sendrecv"}
      /\ r.kind \in {"none", "recv"} <=> r.send = 0
      /\ r.kind = "sendrecv" => r.send <= FifoDepth
  BY <1>3, RequestFacts DEF IInv
<1>5. ch \in [Channels -> Channel] /\ to_start \in Channels
      /\ \A c \in Channels : ch[c].left \in Nat /\ ch[c].reload \in Nat
  BY DEF IInv, TypeOK, Channel
<1>6. /\ ch' \in [Channels -> Channel]
      /\ \A c \in Channels : /\ ch'[c].k = ch[c].k /\ ch'[c].reload = ch[c].reload
                             /\ ch'[c].left = IF c = to_start /\ r.kind # "none"
                                              THEN ch[c].reload ELSE ch[c].left
  <2>1. CASE r.kind = "none" BY <1>1, <1>5, <2>1
  <2>2. CASE r.kind # "none"
    <3>1. ch' = [ch EXCEPT ![to_start] = Started(ch[to_start])] BY <1>1, <2>2
    <3>2. ch[to_start] \in Channel BY <1>5
    <3> QED BY <1>5, <2>2, <3>1, <3>2, StartedFacts
  <2> QED BY <2>1, <2>2
<1>7. UNCHANGED <<req, to_start, to_irqen, core1, intr, donemsg, pioVars, mon, histVars>>
      /\ Current' = Current
  BY <1>1 DEF Current
<1>8. \A c \in {"R", "S", "SS", "SR"} :
        /\ ch'[c].k = ch[c].k /\ ch'[c].reload = ch[c].reload
        /\ ch'[c].left = IF c = to_start /\ r.kind # "none" THEN ch[c].reload
                         ELSE ch[c].left
        /\ ch[c].left \in Nat /\ ch[c].reload \in Nat
  BY <1>5, <1>6 DEF Channels
<1>9. r.send > 0 =>
        /\ txf = <<>> /\ Silent
        /\ r.kind = "send1" => to_start = "S" /\ ch["S"].reload = r.send
        /\ r.kind = "send2" => /\ to_start = "SS" /\ ch["SS"].reload > 0
                               /\ ch["SS"].reload + ch["S"].reload = r.send
        /\ r.kind = "sendrecv" => to_start = "SR" /\ ch["SR"].reload = r.send
  BY <1>1, <1>2 DEF IInv, SendOK
<1> HIDE DEF r
<1>a. TypeOK'
  <2>1. irqen' \subseteq {"S", "R"} BY <1>1 DEF IInv, TypeOK
  <2>2. cmdstat' \in 0..MaxRequests /\ attn' \in BOOLEAN /\ cpu' = "idle" BY <1>1, <1>3
  <2> QED BY <1>6, <1>7, <2>1, <2>2 DEF IInv, TypeOK, Channel, pioVars, histVars
<1>b. MonOK' BY <1>7 DEF IInv, MonOK, Asked, pioVars
<1>c. DeadOK'
  <2>1. donemsg \subseteq {"S", "R"} BY DEF IInv, TypeOK
  <2>2. to_start \in {"R", "SR"} /\ r.kind # "none" => ch["R"].k \notin dead
    BY <1>1 DEF IInv, DeadOK, r
  <2>3. ch["R"].left > 0 \/ ch["SR"].left > 0 => ch["R"].k \notin dead
    BY DEF IInv, DeadOK
  <2>4. ch'["R"].left > 0 \/ ch'["SR"].left > 0 => ch'["R"].k \notin dead
    BY <1>8, <2>2, <2>3
  <2>5. UNCHANGED <<req, dead, donemsg>> /\ cpu' = "idle" BY <1>1, <1>7 DEF histVars
  <2>6. \A d \in donemsg : ch'[d].k = ch[d].k BY <1>8, <2>1
  <2> QED BY <2>4, <2>5, <2>6 DEF IInv, DeadOK, Asked
<1>d. CommandOK'
  <2>1. UNCHANGED <<req, over, got, ctrlf, mon>> BY <1>7 DEF pioVars, histVars
  <2>2. New' BY <1>1, <1>2, <1>7, <2>1 DEF New
  <2> QED BY <1>1, <1>2, <1>7, <2>1, <2>2 DEF IInv, CommandOK, Asked
<1>e. ChainOK'
  <2>1. cmdstat' # 0 /\ cpu' = "idle" BY <1>1, <1>2
  <2>2. UNCHANGED <<to_start, txf>> BY <1>7 DEF pioVars
  <2>3. to_start # "SR" => ch'["SR"].left = 0 BY <1>8 DEF IInv, ChainOK
  <2>4. ASSUME to_start = "SR"
        PROVE  /\ ch'["S"].left = 0 /\ ch'["SS"].left = 0
               /\ ch'["SR"].reload <= FifoDepth
               /\ Len(txf) + ch'["SR"].left <= FifoDepth
    <3>1. /\ ch["S"].left = 0 /\ ch["SS"].left = 0 /\ ch["SR"].reload <= FifoDepth
          /\ Len(txf) + ch["SR"].left <= FifoDepth
          /\ r.kind # "none" => Len(txf) = 0
      BY <1>1, <2>4 DEF IInv, ChainOK, r
    <3>2. ch'["S"].left = 0 /\ ch'["SS"].left = 0 /\ ch'["SR"].reload = ch["SR"].reload
      BY <1>8, <2>4, <3>1
    <3>3. r.kind # "none" => ch'["SR"].left = ch["SR"].reload /\ ch["SR"].reload \in Nat
      BY <1>8, <2>4
    <3>4. r.kind = "none" => ch'["SR"].left = ch["SR"].left BY <1>8
    <3>5. r.kind # "none" => Len(txf) + ch'["SR"].left <= FifoDepth
      <4>1. \A x \in Nat : 0 + x = x OBVIOUS
      <4> QED BY <3>1, <3>3, <4>1
    <3> QED BY <3>1, <3>2, <3>4, <3>5
  <2> QED BY <2>1, <2>2, <2>3, <2>4 DEF ChainOK
<1>f. SendOK'
  <2>1. req'[Current'] = r /\ cpu' = "idle" BY <1>1, <1>7 DEF r
  <2>2. r.kind = "send1" => ch'["SS"].left = 0 /\ ch'["SR"].left = 0
    BY <1>4, <1>8, <1>9 DEF Silent
  <2>3. r.kind = "send2" => ch'["SR"].left = 0 /\ ch'["S"].left = 0
    BY <1>4, <1>8, <1>9 DEF Silent
  <2>4. r.kind = "sendrecv" => ch'["S"].left = 0 /\ ch'["SS"].left = 0
    BY <1>4, <1>8, <1>9 DEF Silent
  <2> QED BY <2>1, <2>2, <2>3, <2>4 DEF SendOK
<1>g. Balance'
  <2>1. req'[Current'] = r /\ txf' = txf /\ got'[Current'] = <<>>
    BY <1>2, <1>7 DEF r, pioVars, histVars
  <2>2. SUFFICES ASSUME r.send > 0 PROVE Len(txf) + Unsent' + Len(<<>>) = r.send
    BY <2>1 DEF Balance
  <2>3. Len(txf) = 0 /\ Len(<<>>) = 0 BY <1>9, <2>2
  <2>4. r.kind \in {"send1", "send2", "sendrecv"} BY <1>4, <2>2
  <2>5. Unsent' = r.send
    <3>1. CASE r.kind = "send1"
      <4>1. ch'["S"].left = r.send BY <1>8, <1>9, <2>2, <3>1
      <4> QED BY <2>1, <3>1, <4>1 DEF Unsent
    <3>2. CASE r.kind = "send2"
      <4>1. /\ ch'["SS"].left = ch["SS"].reload /\ ch["SS"].reload > 0
            /\ ch'["S"].reload = ch["S"].reload
            /\ ch["SS"].reload + ch["S"].reload = r.send
        BY <1>8, <1>9, <2>2, <3>2
      <4> QED BY <2>1, <3>2, <4>1 DEF Unsent
    <3>3. CASE r.kind = "sendrecv"
      <4>1. ch'["SR"].left = r.send BY <1>8, <1>9, <2>2, <3>3
      <4> QED BY <2>1, <3>3, <4>1 DEF Unsent
    <3> QED BY <2>4, <3>1, <3>2, <3>3
  <2> QED BY <1>4, <2>3, <2>5
<1>h. StarvedOK' BY <1>2, <1>7 DEF StarvedOK, pioVars
<1> QED BY <1>a, <1>b, <1>c, <1>d, <1>e, <1>f, <1>g, <1>h DEF IInv

\* The channels after a preparation: those of the kind configured anew for the
\* new transfer, the others of the directions it cancels stopped.
LEMMA PreparedFacts ==
  ASSUME IInv, NEW r \in Requests, NEW k \in 0..MaxRequests,
         NEW chs, chs = Prepared(r, k, Stopped(Cancelled(r)))
  PROVE  /\ chs \in [Channels -> Channel]
         /\ \A c \in {"S", "SS", "SR", "R"} : chs[c].left = 0 \/ chs[c].left = ch[c].left
         /\ r.kind = "none" => chs = ch
         /\ r.kind = "send1" =>
              /\ chs["S"].left = 0 /\ chs["SS"].left = 0
              /\ chs["S"].k = k /\ chs["S"].reload = r.send
              /\ chs["R"] = ch["R"] /\ chs["SR"] = ch["SR"]
         /\ r.kind = "send2" =>
              /\ chs["S"].left = 0 /\ chs["SS"].left = 0 /\ chs["S"].k = k
              /\ chs["S"].reload = r.second /\ chs["SS"].reload = r.send - r.second
              /\ chs["R"] = ch["R"] /\ chs["SR"] = ch["SR"]
         /\ r.kind = "recv" =>
              /\ chs["R"].left = 0 /\ chs["SR"].left = 0 /\ chs["R"].k = k
              /\ chs["SR"].reload = ch["SR"].reload
              /\ chs["S"] = ch["S"] /\ chs["SS"] = ch["SS"]
         /\ r.kind = "sendrecv" =>
              /\ \A c \in {"S", "SS", "SR", "R"} : chs[c].left = 0
              /\ chs["R"].k = k /\ chs["SR"].reload = r.send
<1> DEFINE st == Stopped(Cancelled(r))
<1>1. ch \in [Channels -> Channel] BY DEF IInv, TypeOK, Channel
<1>2. /\ r.kind \in {"none", "send1", "send2", "recv", "sendrecv"}
      /\ r.send \in Nat /\ r.second \in Nat /\ r.recv \in Nat /\ r.send - r.second \in Nat
  <2>1. /\ r.send \in Nat /\ r.second \in Nat /\ r.recv \in Nat
        /\ r.kind \in {"none", "send1", "send2", "recv", "sendrecv"}
        /\ r.second < r.send \/ r.second = 0
    BY DBusCAssumption
  <2> QED BY <2>1
<1>3. /\ st \in [Channels -> Channel]
      /\ \A c \in Channels :
           /\ st[c] = ch[c] \/ (st[c].left = 0 /\ st[c].k = ch[c].k
                                /\ st[c].reload = ch[c].reload)
           /\ c \in {"S", "SS"} => IF "S" \in Cancelled(r) THEN st[c].left = 0
                                   ELSE st[c] = ch[c]
           /\ c \in {"R", "SR"} => IF "R" \in Cancelled(r) THEN st[c].left = 0
                                   ELSE st[c] = ch[c]
  <2>1. \A c \in Channels : Aborted(ch[c]) \in Channel /\ Aborted(ch[c]).left = 0
          /\ Aborted(ch[c]).k = ch[c].k /\ Aborted(ch[c]).reload = ch[c].reload
    <3> SUFFICES ASSUME NEW c \in Channels
                 PROVE  Aborted(ch[c]) \in Channel /\ Aborted(ch[c]).left = 0
                        /\ Aborted(ch[c]).k = ch[c].k /\ Aborted(ch[c]).reload = ch[c].reload
      OBVIOUS
    <3>1. ch[c] \in Channel BY <1>1
    <3> QED BY <3>1 DEF Aborted, Channel
  <2>2. \A c \in Channels : st[c] = IF \/ c \in {"SS", "S"} /\ "S" \in Cancelled(r)
                                       \/ c \in {"SR", "R"} /\ "R" \in Cancelled(r)
                                    THEN Aborted(ch[c]) ELSE ch[c]
    BY DEF Stopped
  <2>3. st \in [Channels -> Channel] BY <1>1, <2>1 DEF Stopped
  <2> QED BY <2>1, <2>2, <2>3
<1>4. /\ st["S"] \in Channel /\ st["SS"] \in Channel /\ st["SR"] \in Channel
      /\ st["R"] \in Channel
  BY <1>3 DEF Channels
<1> HIDE DEF st
<1>5. chs = Prepared(r, k, st) BY DEF st
<1>0. 0 \in Nat OBVIOUS
<1>a. r.send \in Nat BY <1>2
<1>b. r.second \in Nat BY <1>2
<1>c. r.send - r.second \in Nat BY <1>2
<1>d. r.recv \in Nat BY <1>2
<1>S. st["S"] \in Channel BY <1>4
<1>E. st["SS"] \in Channel BY <1>4
<1>F. st["SR"] \in Channel BY <1>4
<1>R. st["R"] \in Channel BY <1>4
<1>7. CASE r.kind = "none"
  <2>1. chs = st /\ \A c \in Channels : st[c] = ch[c]
    BY <1>3, <1>5, <1>7 DEF Prepared, Cancelled, Channels
  <2>2. chs = ch BY <1>1, <1>3, <2>1
  <2> QED BY <1>1, <1>7, <2>2
<1>8. CASE r.kind = "send1"
  <2>1. Cancelled(r) = {"S"} BY <1>8 DEF Cancelled
  <2>2. chs = [st EXCEPT !["S"] = Configured(st["S"], k, 0, r.send)]
    BY <1>5, <1>8 DEF Prepared
  <2>3. /\ Configured(st["S"], k, 0, r.send) \in Channel
        /\ Configured(st["S"], k, 0, r.send).k = k
        /\ Configured(st["S"], k, 0, r.send).left = 0
        /\ Configured(st["S"], k, 0, r.send).reload = r.send
    BY <1>S, <1>0, <1>a, ConfiguredFacts
  <2> QED BY <1>3, <1>8, <2>1, <2>2, <2>3 DEF Channels
<1>9. CASE r.kind = "send2"
  <2> DEFINE ss == Configured(st["SS"], k, 0, r.send - r.second)
             s == Configured(st["S"], k, r.send - r.second, r.second)
  <2>1. Cancelled(r) = {"S"} BY <1>9 DEF Cancelled
  <2>2. chs = [st EXCEPT !["SS"] = ss, !["S"] = s]
    BY <1>5, <1>9 DEF Prepared
  <2>3. /\ ss \in Channel /\ ss.k = k /\ ss.left = 0 /\ ss.reload = r.send - r.second
        /\ s \in Channel /\ s.k = k /\ s.left = 0 /\ s.reload = r.second
    <3>1. ss \in Channel /\ ss.k = k /\ ss.left = 0 /\ ss.reload = r.send - r.second
      BY <1>E, <1>0, <1>c, ConfiguredFacts
    <3>2. s \in Channel /\ s.k = k /\ s.left = 0 /\ s.reload = r.second
      BY <1>S, <1>b, <1>c, ConfiguredFacts
    <3> HIDE DEF ss, s
    <3> QED BY <3>1, <3>2
  <2> HIDE DEF ss, s
  <2> QED BY <1>3, <1>9, <2>1, <2>2, <2>3 DEF Channels
<1>10. CASE r.kind = "recv"
  <2> DEFINE q == Configured(st["R"], k, 0, r.recv)
  <2>1. Cancelled(r) = {"R"} BY <1>10 DEF Cancelled
  <2>2. chs = [st EXCEPT !["R"] = q] BY <1>5, <1>10 DEF Prepared
  <2>3. q \in Channel /\ q.k = k /\ q.left = 0 BY <1>R, <1>0, <1>d, ConfiguredFacts
  <2> HIDE DEF q
  <2> QED BY <1>3, <1>10, <2>1, <2>2, <2>3 DEF Channels
<1>11. CASE r.kind = "sendrecv"
  <2> DEFINE sr == Configured(st["SR"], k, 0, r.send)
             q == Configured(st["R"], k, 0, r.recv)
  <2>1. Cancelled(r) = {"S", "R"} BY <1>11 DEF Cancelled
  <2>2. chs = [st EXCEPT !["SR"] = sr, !["R"] = q] BY <1>5, <1>11 DEF Prepared
  <2>3. /\ sr \in Channel /\ sr.k = k /\ sr.left = 0 /\ sr.reload = r.send
        /\ q \in Channel /\ q.k = k /\ q.left = 0
    <3>1. sr \in Channel /\ sr.k = k /\ sr.left = 0 /\ sr.reload = r.send
      BY <1>F, <1>0, <1>a, ConfiguredFacts
    <3>2. q \in Channel /\ q.k = k /\ q.left = 0
      BY <1>R, <1>0, <1>d, ConfiguredFacts
    <3> QED BY <3>1, <3>2
  <2> HIDE DEF sr, q
  <2> QED BY <1>3, <1>11, <2>1, <2>2, <2>3 DEF Channels
<1> QED BY <1>2, <1>7, <1>8, <1>9, <1>10, <1>11

LEMMA PrepareIInv == ASSUME IInv, Prepare PROVE IInv'
<1> DEFINE k == Len(req) + 1
<1>1. PICK r \in Requests :
        /\ req' = Append(req, r)
        /\ ch' = Prepared(r, Len(req'), Stopped(Cancelled(r)))
        /\ irqen' = irqen \ Cancelled(r) /\ intr' = intr \ Cancelled(r)
        /\ donemsg' = IF r.kind = "sendrecv" THEN {"R"} ELSE donemsg \cup Cancelled(r)
        /\ to_start' = First(r)
        /\ to_irqen' = CASE r.kind \in {"none", "recv"} -> to_irqen
                         [] r.kind \in {"send1", "send2"} -> "S"
                         [] r.kind = "sendrecv" -> "R"
        /\ IF r.kind = "none" THEN UNCHANGED <<txf, rxf>>
           ELSE txf' = <<>> /\ rxf' = <<>>
  BY DEF Prepare, Cleared
<1>2. /\ cpu = "idle" /\ bus = "idle" /\ mon.at = "idle" /\ ~attn /\ cmdstat = 0
      /\ Len(req) < MaxRequests /\ cpu' = "prepared"
      /\ UNCHANGED <<core1, ctrlf, bus, linkVars, mon, histVars>>
  BY DEF Prepare, Quiet
<1>3. /\ req' \in Seq(Requests) /\ Len(req') = k /\ req'[k] = r
      /\ \A j \in 1..Len(req) : req'[j] = req[j]
      /\ Len(req) \in Nat /\ k \in 1..MaxRequests /\ k \in 0..MaxRequests
  <2>1. req \in Seq(Requests) BY DEF IInv, TypeOK
  <2>2. Len(req) \in Nat BY <2>1
  <2> QED BY <1>1, <1>2, <2>1, <2>2, DBusCAssumption
<1> HIDE DEF k
<1>4. Current' = k /\ Asked \subseteq Asked' /\ k \in Asked' /\ k \notin Asked
      /\ Len(req) < k
  BY <1>3 DEF Current, Asked, k
<1>5. /\ r.kind \in {"none", "send1", "send2", "recv", "sendrecv"}
      /\ r.send \in Nat /\ r.second \in Nat
      /\ r.second < r.send \/ r.second = 0
      /\ r.kind \in {"none", "recv"} <=> r.send = 0
      /\ r.kind = "sendrecv" => r.send <= FifoDepth
  BY DBusCAssumption
<1>6. ch' = Prepared(r, k, Stopped(Cancelled(r))) BY <1>1, <1>3
<1>7. /\ ch' \in [Channels -> Channel]
      /\ \A c \in {"S", "SS", "SR", "R"} : ch'[c].left = 0 \/ ch'[c].left = ch[c].left
  BY <1>3, <1>6, PreparedFacts
<1>8. /\ r.kind = "none" => ch' = ch
      /\ r.kind = "send1" =>
           /\ ch'["S"].left = 0 /\ ch'["SS"].left = 0
           /\ ch'["S"].k = k /\ ch'["S"].reload = r.send
           /\ ch'["R"] = ch["R"] /\ ch'["SR"] = ch["SR"]
      /\ r.kind = "send2" =>
           /\ ch'["S"].left = 0 /\ ch'["SS"].left = 0 /\ ch'["S"].k = k
           /\ ch'["S"].reload = r.second /\ ch'["SS"].reload = r.send - r.second
           /\ ch'["R"] = ch["R"] /\ ch'["SR"] = ch["SR"]
      /\ r.kind = "recv" =>
           /\ ch'["R"].left = 0 /\ ch'["SR"].left = 0 /\ ch'["R"].k = k
           /\ ch'["SR"].reload = ch["SR"].reload
           /\ ch'["S"] = ch["S"] /\ ch'["SS"] = ch["SS"]
      /\ r.kind = "sendrecv" =>
           /\ \A c \in {"S", "SS", "SR", "R"} : ch'[c].left = 0
           /\ ch'["R"].k = k /\ ch'["SR"].reload = r.send
  BY <1>3, <1>6, PreparedFacts
<1>9. ch["SR"].left = 0 /\ ch'["SR"].left = 0
  <2>1. ch["SR"].left = 0 BY <1>2 DEF IInv, ChainOK
  <2> QED BY <1>7, <2>1
<1>10. mon.k = 0 /\ ctrlf = <<>> BY <1>2 DEF IInv, MonOK, CommandOK
<1>11. UNCHANGED <<core1, ctrlf, bus, linkVars, mon, histVars>> BY <1>2
<1>a. TypeOK'
  <2>1. Cancelled(r) \subseteq {"S", "R"} BY <1>5 DEF Cancelled
  <2>2. irqen' \subseteq {"S", "R"} /\ intr' \subseteq Channels /\ donemsg' \subseteq {"S", "R"}
    BY <1>1, <2>1 DEF IInv, TypeOK
  <2>3. to_start' \in Channels BY <1>1, <1>5 DEF First, IInv, TypeOK, Channels
  <2>4. to_irqen' \in {"S", "R"} BY <1>1, <1>5 DEF IInv, TypeOK
  <2>5. txf' \in Seq(Bytes) /\ rxf' \in Seq(Bytes)
    <3>1. txf \in Seq(Bytes) /\ rxf \in Seq(Bytes) /\ <<>> \in Seq(Bytes)
      BY DEF IInv, TypeOK
    <3> QED BY <1>1, <3>1
  <2>6. Len(req') <= MaxRequests /\ cpu' = "prepared" BY <1>2, <1>3
  <2> QED BY <1>3, <1>7, <1>11, <2>2, <2>3, <2>4, <2>5, <2>6
        DEF IInv, TypeOK, Channel, linkVars, histVars
<1>b. MonOK' BY <1>2, <1>10, <1>11 DEF IInv, MonOK
<1>c. DeadOK'
  <2>1. k \notin dead /\ dead' = dead /\ dead \subseteq Asked'
    BY <1>4, <1>11 DEF IInv, DeadOK, histVars
  <2>2. Current' > 0 /\ Current' \notin dead BY <1>3, <1>4, <2>1
  <2>3. ch'["R"].k = k \/ (ch'["R"].k = ch["R"].k /\ ch'["R"].left = ch["R"].left)
    BY <1>5, <1>8
  <2>4. ch'["R"].left > 0 \/ ch'["SR"].left > 0 => ch'["R"].k \notin dead
    BY <1>9, <2>1, <2>3 DEF IInv, DeadOK
  <2>5. \A d \in donemsg' : ch'[d].k \notin dead
    <3>1. \A d \in donemsg : ch[d].k \notin dead BY DEF IInv, DeadOK
    <3>2. donemsg \subseteq {"S", "R"} BY DEF IInv, TypeOK
    <3>3. CASE r.kind = "none"
      <4>1. donemsg' = donemsg /\ ch' = ch BY <1>1, <1>8, <3>3 DEF Cancelled
      <4> QED BY <3>1, <4>1
    <3>4. CASE r.kind \in {"send1", "send2"}
      <4>1. donemsg' = donemsg \cup {"S"} /\ ch'["S"].k = k /\ ch'["R"] = ch["R"]
        BY <1>1, <1>8, <3>4 DEF Cancelled
      <4> QED BY <2>1, <3>1, <3>2, <4>1
    <3>5. CASE r.kind = "recv"
      <4>1. donemsg' = donemsg \cup {"R"} /\ ch'["R"].k = k /\ ch'["S"] = ch["S"]
        BY <1>1, <1>8, <3>5 DEF Cancelled
      <4> QED BY <2>1, <3>1, <3>2, <4>1
    <3>6. CASE r.kind = "sendrecv"
      <4>1. donemsg' = {"R"} /\ ch'["R"].k = k BY <1>1, <1>8, <3>6
      <4> QED BY <2>1, <4>1
    <3> QED BY <1>5, <3>3, <3>4, <3>5, <3>6
  <2>6. to_start' \in {"R", "SR"} /\ r.kind # "none" => ch'["R"].k \notin dead
    <3>1. r.kind = "send1" => to_start' = "S" BY <1>1 DEF First
    <3>2. r.kind = "send2" => to_start' = "SS" BY <1>1 DEF First
    <3> QED BY <1>5, <1>8, <2>1, <3>1, <3>2
  <2>7. req'[Current'] = r BY <1>3, <1>4
  <2> QED BY <2>1, <2>2, <2>4, <2>5, <2>6, <2>7 DEF DeadOK
<1>d. CommandOK'
  <2>1. got[k] = <<>> /\ k \notin over /\ over \subseteq Asked'
    BY <1>3, <1>4 DEF IInv, CommandOK
  <2>2. \A j \in 1..MaxRequests : j > Len(req') => got[j] = <<>>
    <3>1. \A j \in 1..MaxRequests : j > k => j > Len(req) BY <1>3 DEF k
    <3> QED BY <1>3, <3>1 DEF IInv, CommandOK
  <2>3. UNCHANGED <<ctrlf, bus, cmdstat, attn, mon, got, over>>
    BY <1>11 DEF linkVars, histVars
  <2>4. Current' > 0 BY <1>3, <1>4
  <2> QED BY <1>2, <1>4, <1>10, <2>1, <2>2, <2>3, <2>4 DEF CommandOK
<1>e. ChainOK'
  <2>1. req'[Current'] = r /\ cpu' = "prepared" BY <1>2, <1>3, <1>4
  <2>2. r.kind # "none" => txf' = <<>> BY <1>1
  <2>3. ASSUME to_start' = "SR"
        PROVE  /\ ch'["S"].left = 0 /\ ch'["SS"].left = 0
               /\ ch'["SR"].reload <= FifoDepth
               /\ Len(txf') + ch'["SR"].left <= FifoDepth
    <3>0. FifoDepth \in Nat \ {0} /\ Len(<<>>) = 0 BY DBusCAssumption
    <3>1. CASE r.kind \in {"none", "recv"}
      <4>1. to_start = "SR" BY <1>1, <2>3, <3>1 DEF First
      <4>2. /\ ch["S"].left = 0 /\ ch["SS"].left = 0 /\ ch["SR"].reload <= FifoDepth
            /\ Len(txf) + ch["SR"].left <= FifoDepth
        BY <4>1 DEF IInv, ChainOK
      <4>3. /\ ch'["S"].left = 0 /\ ch'["SS"].left = 0
            /\ ch'["SR"].reload = ch["SR"].reload
        BY <1>8, <3>1, <4>2
      <4>4. Len(txf') + 0 <= FifoDepth
        <5>1. r.kind = "none" => txf' = txf BY <1>1
        <5> QED BY <1>9, <2>2, <3>0, <4>2, <5>1
      <4> QED BY <1>9, <4>2, <4>3, <4>4
    <3>2. CASE r.kind = "sendrecv"
      <4>1. Len(txf') + 0 <= FifoDepth BY <2>2, <3>0, <3>2
      <4> QED BY <1>5, <1>8, <1>9, <3>2, <4>1
    <3>3. r.kind # "send1" /\ r.kind # "send2" BY <1>1, <2>3 DEF First
    <3> QED BY <1>5, <3>1, <3>2, <3>3
  <2> QED BY <1>9, <2>1, <2>2, <2>3 DEF ChainOK
<1>f. SendOK'
  <2>1. req'[Current'] = r /\ cpu' = "prepared" BY <1>2, <1>3, <1>4
  <2>2. r.kind # "none" => txf' = <<>> BY <1>1
  <2>3. r.kind \in {"send1", "send2", "sendrecv"} => Silent' BY <1>8, <1>9 DEF Silent
  <2>4. /\ r.kind = "send1" => to_start' = "S" /\ ch'["S"].reload = r.send
        /\ r.kind = "sendrecv" => to_start' = "SR" /\ ch'["SR"].reload = r.send
    BY <1>1, <1>8 DEF First
  <2>5. r.kind = "send2" =>
          /\ to_start' = "SS" /\ ch'["SS"].reload > 0
          /\ ch'["SS"].reload + ch'["S"].reload = r.send
    <3>1. r.kind = "send2" => /\ to_start' = "SS" /\ ch'["S"].reload = r.second
                              /\ ch'["SS"].reload = r.send - r.second
      BY <1>1, <1>8 DEF First
    <3>2. r.kind = "send2" => r.send - r.second > 0
      BY <1>5
    <3>3. (r.send - r.second) + r.second = r.send BY <1>5
    <3> QED BY <3>1, <3>2, <3>3
  <2>6. r.send > 0 => r.kind \in {"send1", "send2", "sendrecv"} BY <1>5
  <2> QED BY <2>1, <2>2, <2>3, <2>4, <2>5, <2>6 DEF SendOK, Silent
<1>g. Balance' BY <1>2 DEF Balance
<1>h. StarvedOK' BY <1>2 DEF StarvedOK
<1> QED BY <1>a, <1>b, <1>c, <1>d, <1>e, <1>f, <1>g, <1>h DEF IInv

-----------------------------------------------------------------------------
(* The theorems.                                                           *)

LEMMA InitIInv == ASSUME Init PROVE IInv
<1>1. /\ req = <<>> /\ cpu = "idle" /\ Len(req) = 0
      /\ ch = [c \in Channels |-> [k |-> 0, pos |-> 0, reload |-> 1,
                                   left |-> IF c = "R" THEN 1 ELSE 0]]
      /\ to_start = "R" /\ donemsg = {} /\ txf = <<>> /\ ctrlf = <<>> /\ bus = "idle"
      /\ cmdstat = 0 /\ mon = MonIdle /\ over = {} /\ dead = {} /\ attn = FALSE
      /\ got = [k \in 1..MaxRequests |-> <<>>]
  BY DEF Init
<1>2. Current = 0 /\ Asked = {} BY <1>1 DEF Current, Asked
<1>3. ch \in [Channels -> Channel] BY <1>1, DBusCAssumption DEF Channel
<1>4. mon \in Monitor /\ mon.at = "idle" /\ mon.k = 0 /\ mon.take = 0 /\ mon.give = 0
  BY <1>1, DBusCAssumption DEF MonIdle, Monitor
<1>a. TypeOK
  <2>1. posted \in [Reports -> Nat] BY DEF Init
  <2>2. got \in [1..MaxRequests -> Seq(Bytes)] /\ buf \in [1..MaxRequests -> Seq(Bytes)]
    BY DEF Init
  <2>3. core1 = "idle" /\ to_irqen = "R" /\ irqen = {"R", "S"} /\ intr = {} /\ rxf = <<>>
        /\ excused = {} /\ cancels = 0 /\ strays = 0
    BY DEF Init
  <2>4. /\ 0 \in 0..MaxRequests /\ 0 \in 0..MaxCancels /\ 0 \in 0..MaxStrays
        /\ 0 <= MaxRequests
    BY DBusCAssumption
  <2>5. req \in Seq(Requests) /\ txf \in Seq(Bytes) /\ rxf \in Seq(Bytes)
        /\ ctrlf \in Seq(Bytes)
    BY <1>1, <2>3
  <2> QED BY <1>1, <1>3, <1>4, <2>1, <2>2, <2>3, <2>4, <2>5
        DEF TypeOK, Channel, Monitor, Channels
<1>b. MonOK BY <1>1, <1>4 DEF MonOK
<1>c. DeadOK BY <1>1 DEF DeadOK
<1>d. CommandOK BY <1>1, <1>4 DEF CommandOK
<1>e. ChainOK BY <1>1 DEF ChainOK, Channels
<1>f. SendOK BY <1>2 DEF SendOK
<1>g. Balance BY <1>2 DEF Balance
<1>h. StarvedOK BY <1>1 DEF StarvedOK
<1> QED BY <1>a, <1>b, <1>c, <1>d, <1>e, <1>f, <1>g, <1>h DEF IInv

LEMMA StutterIInv == ASSUME IInv, UNCHANGED vars PROVE IInv'
<1>1. UNCHANGED <<req, cpu, core1, ch, to_start, to_irqen, irqen, intr, donemsg, txf, rxf,
                  ctrlf, bus, attn, cmdstat, mon, got, buf, posted, over, excused, dead,
                  cancels, strays>>
  BY DEF vars, cpuVars, dmaVars, pioVars, linkVars, histVars
<1>2. TypeOK' BY <1>1 DEF IInv, TypeOK
<1>3. DeadOK' BY <1>1, DeadFrame
<1>4. Current' = Current /\ Asked' = Asked /\ Silent' = Silent /\ Unsent' = Unsent
  BY <1>1 DEF Current, Asked, Silent, Unsent
<1>5. MonOK' /\ StarvedOK' /\ Balance' BY <1>1, <1>4 DEF IInv, MonOK, StarvedOK, Balance
<1>6. CommandOK' BY <1>1, <1>4 DEF IInv, CommandOK, New
<1>7. ChainOK' /\ SendOK' BY <1>1, <1>4 DEF IInv, ChainOK, SendOK
<1> QED BY <1>2, <1>3, <1>5, <1>6, <1>7 DEF IInv

LEMMA NextIInv == ASSUME IInv, [Next]_vars PROVE IInv'
<1>1. CASE Prepare BY <1>1, PrepareIInv
<1>2. CASE Begin BY <1>2, BeginIInv
<1>3. CASE DmaNext BY <1>3, DmaReceiveIInv, DmaSendIInv DEF DmaNext
<1>4. CASE IrqNext
  BY <1>4, IrqDmaIInv, IrqCtrlReadIInv, IrqDataReadIInv, IrqCtrlWriteIInv DEF IrqNext
<1>5. CASE PioNext BY <1>5, CtrlOutIInv, DataOutIInv, DataInIInv DEF PioNext
<1>6. CASE MonReadCtrl \/ MonReadData \/ MonWriteData \/ MonReport
  BY <1>6, MonReadCtrlIInv, MonReadDataIInv, MonWriteDataIInv, MonReportIInv
<1>7. CASE CancelStop \/ CancelAbort BY <1>7, CancelStopIInv, CancelAbortIInv
<1>8. CASE UNCHANGED vars BY <1>8, StutterIInv
<1> QED BY <1>1, <1>2, <1>3, <1>4, <1>5, <1>6, <1>7, <1>8 DEF Next

\* The driver keeps its invariant: commands, channels, FIFO and monitor agree
\* (dbus_prep_*, dbus_start_dataop, the interrupts and the cancel of dbusc.c).
THEOREM DBusInvariant == Spec => []IInv
<1>1. Init => IInv BY InitIInv
<1>2. IInv /\ [Next]_vars => IInv' BY NextIInv
<1> QED BY <1>1, <1>2, PTL DEF Spec

\* Every variable of the driver keeps its type.
THEOREM DBusTypeOK == Spec => []TypeOK
<1>1. IInv => TypeOK BY DEF IInv
<1> QED BY <1>1, DBusInvariant, PTL

\* _irqp_data_op_hdlr (dbusc.c:239) never has to answer a read of the monitor for a
\* transfer that was not given up: the channels bring every byte it asks for.
THEOREM DBusNeverStarved == Spec => []NeverStarved
<1>1. IInv => NeverStarved BY DEF IInv, StarvedOK, NeverStarved
<1> QED BY <1>1, DBusInvariant, PTL

\* The buffer and the reports of a transfer that dmc_op_cancel (dmc.c) gave up when
\* it was fully started are never touched again.
THEOREM DBusNothingAfterCancel == Spec => NothingAfterCancel
<1> DEFINE Kept2 == \A k \in dead : /\ buf'[k] = buf[k]
                                    /\ \A d \in {"S", "R"} :
                                         posted'[<<d, k>>] = posted[<<d, k>>]
<1>1. IInv /\ [Next]_vars => [Kept2]_vars
  <2> SUFFICES ASSUME IInv, Next, NEW k \in dead
               PROVE  /\ buf'[k] = buf[k]
                      /\ \A d \in {"S", "R"} : posted'[<<d, k>>] = posted[<<d, k>>]
    OBVIOUS
  <2>1. CASE DmaReceive
    <3>1. ch["R"].k # k BY <2>1 DEF IInv, DeadOK, DmaReceive, CanReceive
    <3> QED BY <2>1, <3>1 DEF DmaReceive
  <2>2. CASE IrqDma
    <3>1. k \in 1..MaxRequests BY DEF IInv, TypeOK
    <3> SUFFICES ASSUME NEW d \in {"S", "R"} PROVE posted'[<<d, k>>] = posted[<<d, k>>]
      BY <2>2 DEF IrqDma
    <3>2. ~(d \in Pending \cap donemsg /\ ch[d].k = k) BY DEF IInv, DeadOK
    <3>3. <<d, k>> \in Reports BY <3>1 DEF Reports
    <3>4. posted'[<<d, k>>] = posted[<<d, k>>] + 0 BY <2>2, <3>2, <3>3 DEF IrqDma
    <3>5. posted[<<d, k>>] \in Nat BY <3>3 DEF IInv, TypeOK
    <3> QED BY <3>4, <3>5
  <2>3. CASE \E c \in Senders : DmaSend(c) BY <2>3 DEF DmaSend, histVars
  <2>4. CASE Prepare \/ Begin BY <2>4 DEF Prepare, Begin, histVars
  <2>5. CASE IrqCtrlRead \/ IrqDataRead \/ IrqCtrlWrite
    BY <2>5 DEF IrqCtrlRead, IrqDataRead, IrqCtrlWrite, histVars
  <2>6. CASE PioNext BY <2>6 DEF PioNext, CtrlOut, DataOut, DataIn, histVars
  <2>7. CASE MonReadCtrl \/ MonReadData \/ MonWriteData \/ MonReport
    BY <2>7 DEF MonReadCtrl, MonReadData, MonWriteData, MonReport, histVars
  <2>8. CASE CancelStop \/ CancelAbort BY <2>8 DEF CancelStop, CancelAbort
  <2> QED BY <2>1, <2>2, <2>3, <2>4, <2>5, <2>6, <2>7, <2>8 DEF Next, DmaNext, IrqNext
<1> QED BY <1>1, DBusInvariant, PTL DEF Spec, NothingAfterCancel

-----------------------------------------------------------------------------
(* The transfers: what DBusXfer, ReportedOnce and ReceiverArmed need. *)

-----------------------------------------------------------------------------
(* The inductive invariant.                                                *)

\* The transfer that is neither over nor given up is the latest.
Live == Current > 0 /\ Current \notin over \cup excused
Sending == Live /\ req[Current].send > 0
Receiving == Live /\ req[Current].recv > 0

HistOK ==
  /\ over \cap excused = {} /\ excused \subseteq Asked
  /\ Asked \ {Current} \subseteq over \cup excused
  /\ \A k \in 1..MaxRequests : k > Len(req) => buf[k] = <<>>
  /\ Live /\ ~Receiving => buf[Current] = <<>>

\* The monitor writes when it has read all, and reports when it has written all.
MonDone ==
  /\ mon.at = "stray" => ~Live
  /\ bus = "data_in" /\ mon.at = "data" => mon.take = 0
  /\ mon.at = "report" => mon.take = 0 /\ mon.give = 0

\* The FIFO holds the next bytes to be read, and the channels those behind them.
SentOK ==
  Sending =>
    LET r == req[Current] IN
    /\ \A i \in 1..Len(txf) : txf[i] = <<Current, Len(got[Current]) + i>>
    /\ cpu = "idle" => \A c \in Senders : ch[c].left > 0 =>
         ch[c].k = Current /\ ch[c].pos + Unsent = r.send
    /\ cpu = "prepared" => ch[to_start].k = Current /\ ch[to_start].pos = 0
    /\ r.kind = "send2" /\ (cpu = "prepared" \/ ch["SS"].left > 0) =>
         ch["S"].k = Current /\ ch["S"].pos + ch["S"].reload = r.send

\* The receiver waits to be started, is at work, or has received everything.
Waiting ==
  /\ cpu = "prepared" \/ ch["SR"].left > 0
  /\ ch["R"].k = Current /\ ch["R"].left = 0 /\ ch["R"].reload = req[Current].recv
  /\ "R" \notin intr /\ buf[Current] = <<>>
Running ==
  /\ cpu = "idle" /\ ch["SR"].left = 0
  /\ ch["R"].k = Current /\ ch["R"].left > 0 /\ "R" \notin intr
  /\ Len(buf[Current]) + ch["R"].left = req[Current].recv
Landed ==
  /\ cpu = "idle" /\ ch["SR"].left = 0 /\ rxf = <<>>
  /\ ch["R"].k = 0 \/ ch["R"].left = 0
  /\ Len(buf[Current]) = req[Current].recv

ReceivedOK ==
  Receiving =>
    /\ \A i \in 1..Len(rxf) : rxf[i] = <<Current, Len(buf[Current]) + i>>
    /\ mon.k = Current =>
         Len(buf[Current]) + Len(rxf) + mon.give = req[Current].recv
    /\ mon.k # Current => buf[Current] = <<>> /\ rxf = <<>>
    /\ Waiting \/ Running \/ Landed
    /\ mon.at = "report" /\ mon.k = Current => Landed

\* What else is in the FIFO, or is received, is nobody's or was given up.
OthersOK ==
  /\ \A i \in 1..Len(rxf) :
       \/ rxf[i][1] \in {0} \cup excused
       \/ Receiving /\ rxf[i][1] = Current
  /\ ch["R"].left > 0 \/ ch["SR"].left > 0 =>
       \/ ch["R"].k \in {0} \cup excused
       \/ Receiving /\ ch["R"].k = Current

\* What is to be started is the receiver of the current transfer, if it has one.
StartOK ==
  /\ to_start = "SR" => ch["SR"].reload > 0
  /\ cpu = "prepared" /\ req[Current].recv > 0 =>
       to_start \in {"R", "SR"} /\ ch["R"].k = Current

XInv == HistOK /\ MonDone /\ SentOK /\ ReceivedOK /\ OthersOK /\ StartOK

-----------------------------------------------------------------------------
(* What the parts of the invariant depend on.                              *)

LEMMA SameTransfer ==
  ASSUME UNCHANGED <<req, over, excused>>
  PROVE  /\ Current' = Current /\ Asked' = Asked /\ (Live' <=> Live)
         /\ (Sending' <=> Sending) /\ (Receiving' <=> Receiving)
<1>1. Current' = Current /\ Asked' = Asked BY DEF Current, Asked
<1>2. Live' <=> Live BY <1>1 DEF Live
<1> QED BY <1>1, <1>2 DEF Sending, Receiving

LEMMA HistFrame ==
  ASSUME XInv, UNCHANGED <<req, over, excused, buf>>
  PROVE  HistOK'
  BY SameTransfer DEF XInv, HistOK

LEMMA SentFrame ==
  ASSUME IInv, XInv, UNCHANGED <<req, over, excused, txf, got, cpu, to_start>>,
         \A c \in Senders : ch'[c] = ch[c]
  PROVE  SentOK'
<1> SUFFICES ASSUME Sending PROVE SentOK'
  BY SameTransfer DEF SentOK
<1>1. Current' = Current /\ req' = req /\ req[Current].send > 0 /\ Current \in Asked
  BY SameTransfer DEF Sending, Live, Current, Asked, IInv, TypeOK
<1>2. Unsent' = Unsent
  BY <1>1 DEF Unsent, Senders, Channels
<1>3. cpu = "prepared" => to_start \in Senders
  <2>1. req[Current].kind \in {"send1", "send2", "sendrecv"}
    BY <1>1, RequestFacts DEF IInv
  <2>2. Current > 0 BY DEF Sending, Live
  <2> QED BY <1>1, <2>1, <2>2 DEF IInv, SendOK, Senders, Channels
<1> QED
  BY <1>1, <1>2, <1>3 DEF XInv, SentOK, Senders, Channels

LEMMA ReceivedFrame ==
  ASSUME XInv, UNCHANGED <<req, over, excused, rxf, buf, cpu, ch>>,
         mon'.k = mon.k, mon'.give = mon.give,
         mon'.at = "report" => mon.at = "report",
         "R" \in intr' <=> "R" \in intr
  PROVE  ReceivedOK'
  BY SameTransfer DEF XInv, ReceivedOK, Waiting, Running, Landed

LEMMA OthersFrame ==
  ASSUME XInv, UNCHANGED <<req, over, excused, rxf, ch>>
  PROVE  OthersOK'
  BY SameTransfer DEF XInv, OthersOK

LEMMA StartFrame ==
  ASSUME XInv, UNCHANGED <<req, cpu, to_start, ch>>
  PROVE  StartOK'
  BY DEF XInv, StartOK, Current

\* What DBusXfer sees of the driver.
LEMMA AboveFrame ==
  ASSUME UNCHANGED <<req, got, buf, rxf, over, excused>>
  PROVE  UNCHANGED Xfer!vars
  BY DEF Xfer!vars, Kept, Written, Of

-----------------------------------------------------------------------------
(* The monitor.                                                            *)

quiet == <<req, got, buf, rxf, over, excused, txf, cpu, to_start, ch, intr>>

\* A step of the monitor that moves no byte.
LEMMA MonFrame ==
  ASSUME IInv, XInv, UNCHANGED quiet, MonDone',
         mon'.k = mon.k, mon'.give = mon.give, mon'.at = "report" => mon.at = "report"
  PROVE  XInv' /\ UNCHANGED Xfer!vars
<1>1. UNCHANGED <<req, got, buf, rxf, over, excused, txf, cpu, to_start, ch, intr>>
  BY DEF quiet
<1>2. HistOK' BY <1>1, HistFrame
<1>3. SentOK' BY <1>1, SentFrame
<1>4. ReceivedOK' BY <1>1, ReceivedFrame
<1>5. OthersOK' /\ StartOK' BY <1>1, OthersFrame, StartFrame
<1> QED BY <1>1, <1>2, <1>3, <1>4, <1>5, AboveFrame DEF XInv

LEMMA MonReadCtrlAbove ==
  ASSUME IInv, XInv, MonReadCtrl PROVE XInv' /\ UNCHANGED Xfer!vars
<1>1. /\ mon' = [mon EXCEPT !.at = "ctrl"] /\ bus' = "ctrl_needed" /\ UNCHANGED quiet
      /\ UNCHANGED <<req, over, excused>>
  BY DEF MonReadCtrl, cpuVars, dmaVars, histVars, quiet
<1>2. mon'.at = "ctrl" /\ mon'.k = mon.k /\ mon'.give = mon.give
  BY <1>1 DEF IInv, TypeOK
<1>3. MonDone' BY <1>1, <1>2 DEF MonDone
<1> QED BY <1>1, <1>2, <1>3, MonFrame

LEMMA MonReadDataAbove ==
  ASSUME IInv, XInv, MonReadData PROVE XInv' /\ UNCHANGED Xfer!vars
<1>1. mon' = mon /\ bus' # "data_in" /\ UNCHANGED quiet /\ mon.at = "data"
  BY DEF MonReadData, cpuVars, dmaVars, histVars, quiet
<1>2. MonDone' BY <1>1 DEF MonDone
<1> QED BY <1>1, <1>2, MonFrame

LEMMA IrqReadAbove ==
  ASSUME IInv, XInv, IrqCtrlRead \/ IrqDataRead PROVE XInv' /\ UNCHANGED Xfer!vars
<1>1. mon' = mon /\ bus' # "data_in" /\ UNCHANGED quiet
  BY DEF IrqCtrlRead, IrqDataRead, cpuVars, dmaVars, histVars, quiet
<1>2. Live' <=> Live BY <1>1, SameTransfer DEF quiet
<1>3. MonDone' BY <1>1, <1>2 DEF XInv, MonDone
<1> QED BY <1>1, <1>3, MonFrame

\* While nothing is asked for no transfer is live.
LEMMA QuietNotLive == ASSUME Quiet PROVE ~Live
  BY DEF Quiet, Live, Asked, Current

LEMMA MonWriteDataAbove ==
  ASSUME IInv, XInv, MonWriteData PROVE XInv' /\ UNCHANGED Xfer!vars
<1>1. /\ bus' = "data_in" /\ UNCHANGED quiet
      /\ \/ mon.at = "data" /\ mon.take = 0 /\ mon' = mon
         \/ Quiet /\ mon' = [mon EXCEPT !.at = "stray"]
  BY DEF MonWriteData, cpuVars, dmaVars, quiet
<1>2. Live' <=> Live BY <1>1, SameTransfer DEF quiet
<1>3. CASE mon.at = "data" /\ mon.take = 0 /\ mon' = mon
  <2>1. MonDone' BY <1>3 DEF MonDone
  <2> QED BY <1>1, <1>3, <2>1, MonFrame
<1>4. CASE Quiet /\ mon' = [mon EXCEPT !.at = "stray"]
  <2>1. mon'.at = "stray" /\ mon'.k = mon.k /\ mon'.give = mon.give
    BY <1>4 DEF IInv, TypeOK
  <2>2. MonDone' BY <1>2, <1>4, <2>1, QuietNotLive DEF MonDone
  <2> QED BY <1>1, <2>1, <2>2, MonFrame
<1> QED BY <1>1, <1>3, <1>4

LEMMA CtrlOutAbove ==
  ASSUME IInv, XInv, CtrlOut PROVE XInv' /\ UNCHANGED Xfer!vars
<1> DEFINE k == ctrlf[1][1]
<1>1. mon' = Accepted(k) /\ bus = "ctrl_out" /\ bus' = "idle" /\ UNCHANGED quiet
  BY DEF CtrlOut, cpuVars, dmaVars, histVars, quiet
<1>2. mon.at = "ctrl" /\ mon.k = 0
  BY <1>1 DEF IInv, MonOK
<1>3. mon'.at = "data" /\ (mon'.k # 0 => mon'.k \in Asked /\ mon'.give = req[mon'.k].recv)
  BY <1>1 DEF Accepted, MonIdle, Asked
<1>4. UNCHANGED <<req, got, buf, rxf, over, excused, txf, cpu, to_start, ch, intr>>
  BY <1>1 DEF quiet
<1>5. HistOK' /\ SentOK' BY <1>4, HistFrame, SentFrame
<1>6. MonDone' BY <1>1, <1>3 DEF MonDone
<1>7. ReceivedOK'
  <2> SUFFICES ASSUME Receiving PROVE ReceivedOK'
    BY <1>4, SameTransfer DEF ReceivedOK
  <2>1. Current > 0 /\ Current' = Current /\ Current \in Asked
    BY <1>4, SameTransfer DEF Receiving, Live, Asked, Current, IInv, TypeOK
  <2>2. buf[Current] = <<>> /\ rxf = <<>> BY <1>2, <2>1 DEF XInv, ReceivedOK
  <2>3. mon'.k = Current => Len(buf[Current]) + Len(rxf) + mon'.give = req[Current].recv
    BY <1>3, <2>1, <2>2, RequestFacts DEF IInv
  <2>4. Waiting \/ Running \/ Landed BY DEF XInv, ReceivedOK
  <2> QED BY <1>3, <1>4, <2>1, <2>2, <2>3, <2>4 DEF ReceivedOK, Waiting, Running, Landed
<1>8. OthersOK' /\ StartOK' BY <1>4, OthersFrame, StartFrame
<1> QED BY <1>4, <1>5, <1>6, <1>7, <1>8, AboveFrame DEF XInv

LEMMA MonReportAbove ==
  ASSUME IInv, XInv, MonReport PROVE XInv' /\ UNCHANGED Xfer!vars
<1>1. /\ mon.at = "data" /\ mon.take = 0 /\ mon.give = 0 /\ Settled
      /\ bus' = "ctrl_ready" /\ mon' = [mon EXCEPT !.at = "report"] /\ UNCHANGED quiet
  BY DEF MonReport, cpuVars, dmaVars, histVars, quiet
<1>2. mon'.at = "report" /\ mon'.k = mon.k /\ mon'.take = 0 /\ mon'.give = 0
  BY <1>1 DEF IInv, TypeOK
<1>3. UNCHANGED <<req, got, buf, rxf, over, excused, txf, cpu, to_start, ch, intr>>
  BY <1>1 DEF quiet
<1>4. HistOK' /\ SentOK' BY <1>3, HistFrame, SentFrame
<1>5. MonDone' BY <1>1, <1>2 DEF MonDone
<1>6. ReceivedOK'
  <2> SUFFICES ASSUME Receiving PROVE ReceivedOK'
    BY <1>3, SameTransfer DEF ReceivedOK
  <2>1. Current > 0 /\ Current' = Current /\ Current \in Asked
    BY <1>3, SameTransfer DEF Receiving, Live, Asked, Current, IInv, TypeOK
  <2>2. ASSUME mon.k = Current PROVE Landed
    <3>1. cpu = "idle" BY <2>1, <2>2 DEF IInv, CommandOK
    <3>2. ch["SR"].left = 0 BY <1>1, SettledSilent
    <3>3. ~Waiting BY <3>1, <3>2 DEF Waiting, IInv, TypeOK, Channels
    <3>4. rxf \in Seq(Bytes) /\ buf[Current] \in Seq(Bytes) /\ req[Current].recv \in Nat
      BY <2>1, RequestFacts DEF IInv, TypeOK
    <3>5. Len(buf[Current]) + Len(rxf) + 0 = req[Current].recv
      BY <1>1, <2>2 DEF XInv, ReceivedOK
    <3>6. ~Running
      <4> SUFFICES ASSUME Running PROVE FALSE
        OBVIOUS
      <4>1. ch["R"].left > 0 /\ rxf = <<>>
        BY <1>1 DEF Running, Settled, CanReceive
      <4>2. Len(rxf) = 0 /\ Len(buf[Current]) \in Nat
        BY <3>4, <4>1
      <4>3. ch["R"].left \in Nat
        BY DEF IInv, TypeOK, Channels
      <4> QED BY <3>4, <3>5, <4>1, <4>2, <4>3 DEF Running
    <3> QED BY <3>3, <3>6 DEF XInv, ReceivedOK
  <2> QED BY <1>1, <1>2, <1>3, <2>1, <2>2
          DEF XInv, ReceivedOK, Waiting, Running, Landed
<1>7. OthersOK' /\ StartOK' BY <1>3, OthersFrame, StartFrame
<1> QED BY <1>3, <1>4, <1>5, <1>6, <1>7, AboveFrame DEF XInv

-----------------------------------------------------------------------------
(* The bytes the Z80 reads and writes.                                     *)

LEMMA OfIs ==
  ASSUME NEW f \in Seq(Bytes), NEW k
  PROVE  /\ (\A i \in 1..Len(f) : f[i][1] = k) => Of(k, f) = Len(f)
         /\ (\A i \in 1..Len(f) : f[i][1] # k) => Of(k, f) = 0
<1>1. DOMAIN f = 1..Len(f) /\ Len(f) \in Nat
  OBVIOUS
<1>2. ASSUME \A i \in 1..Len(f) : f[i][1] = k PROVE Of(k, f) = Len(f)
  <2>1. {i \in DOMAIN f : f[i][1] = k} = 1..Len(f) BY <1>1, <1>2
  <2>2. Cardinality(1..Len(f)) = Len(f)
    <3>1. 1 \in Int /\ Len(f) \in Int BY <1>1
    <3>2. Cardinality(1..Len(f)) = IF 1 > Len(f) THEN 0 ELSE Len(f) - 1 + 1
      BY <3>1, FS_Interval
    <3> QED BY <1>1, <3>2
  <2> QED BY <2>1, <2>2 DEF Of
<1>3. ASSUME \A i \in 1..Len(f) : f[i][1] # k PROVE Of(k, f) = 0
  <2>1. {i \in DOMAIN f : f[i][1] = k} = {} BY <1>1, <1>3
  <2> QED BY <2>1, FS_EmptySet DEF Of
<1> QED BY <1>2, <1>3

\* The current transfer, when it is live.
LEMMA LiveFacts ==
  ASSUME IInv, XInv, Live
  PROVE  /\ Current \in Asked /\ Current \in 1..MaxRequests /\ Current > 0
         /\ Current \notin over /\ Current \notin excused
         /\ req[Current].send \in Nat /\ req[Current].recv \in Nat
         /\ got[Current] \in Seq(Bytes) /\ buf[Current] \in Seq(Bytes)
         /\ Xfer!Live(Current)
<1>1. Current \in Asked /\ Current > 0 /\ Current \notin over /\ Current \notin excused
  BY DEF Live, Asked, Current, IInv, TypeOK
<1>2. Current \in 1..MaxRequests /\ req[Current].send \in Nat /\ req[Current].recv \in Nat
  BY <1>1, RequestFacts DEF IInv
<1>3. got[Current] \in Seq(Bytes) /\ buf[Current] \in Seq(Bytes)
  BY <1>2 DEF IInv, TypeOK
<1>4. Xfer!Live(Current) BY <1>1 DEF Xfer!Live
<1> QED BY <1>1, <1>2, <1>3, <1>4

\* How many bytes DBusXfer sees written: those in the buffer and in the FIFO.
LEMMA WrittenIs ==
  ASSUME IInv, XInv, NEW k \in 1..MaxRequests, k \notin excused
  PROVE  /\ Receiving /\ k = Current => Of(k, rxf) = Len(rxf)
         /\ ~(Receiving /\ k = Current) => Of(k, rxf) = 0
<1>1. rxf \in Seq(Bytes) BY DEF IInv, TypeOK
<1>2. ASSUME Receiving, k = Current PROVE Of(k, rxf) = Len(rxf)
  <2>1. \A i \in 1..Len(rxf) : rxf[i][1] = k
    BY <1>2 DEF XInv, ReceivedOK
  <2> QED BY <1>1, <2>1, OfIs
<1>3. ASSUME ~(Receiving /\ k = Current) PROVE Of(k, rxf) = 0
  <2>1. \A i \in 1..Len(rxf) : rxf[i][1] # k
    BY <1>3 DEF XInv, OthersOK
  <2> QED BY <1>1, <2>1, OfIs
<1> QED BY <1>2, <1>3

LEMMA DataOutAbove ==
  ASSUME IInv, XInv, DataOut PROVE XInv' /\ [Xfer!Next]_(Xfer!vars)
<1>1. /\ bus = "data_out" /\ bus' = "idle" /\ txf # <<>> /\ txf' = Tail(txf)
      /\ mon' = [mon EXCEPT !.take = @ - 1]
      /\ got' = [got EXCEPT ![mon.k] = Append(@, Head(txf))]
      /\ UNCHANGED <<req, buf, rxf, over, excused, cpu, to_start, ch, intr>>
  BY DEF DataOut, cpuVars, dmaVars
<1>2. mon.at = "data" /\ mon.take > 0 /\ mon.k = Current /\ Current \notin over
      /\ Current \in Asked /\ mon.take + Len(got[Current]) = req[Current].send
  <2>1. mon.at = "data" /\ mon.take > 0 BY <1>1 DEF IInv, MonOK
  <2>2. mon.k # 0 BY <2>1 DEF IInv, MonOK
  <2> QED BY <2>1, <2>2 DEF IInv, MonOK, CommandOK
<1>3. mon'.at = mon.at /\ mon'.k = mon.k /\ mon'.give = mon.give
  BY <1>1 DEF IInv, TypeOK
<1>4. HistOK' /\ OthersOK' /\ StartOK' BY <1>1, HistFrame, OthersFrame, StartFrame
<1>5. ReceivedOK' BY <1>1, <1>3, ReceivedFrame
<1>6. MonDone' BY <1>1, <1>2, <1>3 DEF MonDone
<1>7. got \in [1..MaxRequests -> Seq(Bytes)] /\ Current \in 1..MaxRequests
      /\ txf \in Seq(Bytes) /\ mon.take \in Nat
  BY <1>2, RequestFacts DEF IInv, TypeOK
<1>8. CASE Current \in excused
  <2>1. ~Live BY <1>8 DEF Live
  <2>2. SentOK' BY <1>1, <2>1, SameTransfer DEF SentOK, Sending
  <2>3. \A k \in 1..MaxRequests : k \notin excused => got'[k] = got[k]
    BY <1>1, <1>2, <1>7, <1>8
  <2>4. UNCHANGED Xfer!vars BY <1>1, <2>3 DEF Xfer!vars, Kept, Written, Of
  <2> QED BY <1>4, <1>5, <1>6, <2>2, <2>4 DEF XInv
<1>9. CASE Current \notin excused
  <2>1. Live BY <1>2, <1>9, <1>7 DEF Live
  <2>2. got[Current] \in Seq(Bytes) /\ Len(got[Current]) \in Nat BY <1>7
  <2>3. Sending /\ Len(got[Current]) < req[Current].send
    BY <1>2, <1>7, <2>1, <2>2 DEF Sending
  <2>4. \A i \in 1..Len(txf) : txf[i] = <<Current, Len(got[Current]) + i>>
    BY <2>3 DEF XInv, SentOK
  <2>5. Head(txf) = <<Current, Len(got[Current]) + 1>>
    <3>1. Head(txf) = txf[1] /\ Len(txf) \in Nat /\ Len(txf) > 0 BY <1>1, <1>7
    <3> QED BY <2>4, <3>1
  <2>6. got'[Current] = Append(got[Current], <<Current, Len(got[Current]) + 1>>)
        /\ \A k \in 1..MaxRequests : k # Current => got'[k] = got[k]
    BY <1>1, <1>2, <1>7, <2>5
  <2>7. SentOK'
    <3>1. Current' = Current /\ Len(got'[Current]) = Len(got[Current]) + 1
      BY <1>1, <2>2, <2>6, SameTransfer
    <3>2. \A i \in 1..Len(txf') : txf'[i] = <<Current, Len(got'[Current]) + i>>
      <4> SUFFICES ASSUME NEW i \in 1..Len(txf')
                   PROVE  txf'[i] = <<Current, Len(got'[Current]) + i>>
        OBVIOUS
      <4>1. txf'[i] = txf[i + 1] /\ i + 1 \in 1..Len(txf) BY <1>1, <1>7
      <4>2. (Len(got[Current]) + 1) + i = Len(got[Current]) + (i + 1)
        <5> DEFINE n == Len(got[Current])
        <5>1. n \in Nat /\ i \in Int BY <2>2
        <5> HIDE DEF n
        <5>2. (n + 1) + i = n + (i + 1) BY <5>1
        <5> QED BY <5>2 DEF n
      <4> QED BY <2>4, <3>1, <4>1, <4>2
    <3>3. Unsent' = Unsent /\ req' = req /\ cpu' = cpu /\ ch' = ch /\ to_start' = to_start
      BY <1>1, <3>1 DEF Unsent
    <3> QED BY <2>3, <3>1, <3>2, <3>3 DEF XInv, SentOK
  <2>8. Xfer!Take(Current)
    <3>1. Kept(got, <<>>)[Current] = got[Current] BY <1>7, <1>9 DEF Kept
    <3>2. Kept(got, <<>>)' = [Kept(got, <<>>) EXCEPT
             ![Current] = Append(got[Current], <<Current, Len(got[Current]) + 1>>)]
      BY <1>1, <1>7, <1>9, <2>6 DEF Kept
    <3>3. UNCHANGED <<req, Kept(Written, 0), Kept(buf, <<>>), over, excused>>
      BY <1>1 DEF Kept, Written, Of
    <3>4. Xfer!Live(Current) BY <2>1, LiveFacts
    <3> QED BY <2>3, <3>1, <3>2, <3>3, <3>4 DEF Xfer!Take
  <2>9. Xfer!Next BY <1>2, <2>8 DEF Xfer!Next, Asked
  <2> QED BY <1>4, <1>5, <1>6, <2>7, <2>9 DEF XInv
<1> QED BY <1>8, <1>9

LEMMA DataInAbove ==
  ASSUME IInv, XInv, DataIn PROVE XInv' /\ [Xfer!Next]_(Xfer!vars)
<1> DEFINE byte == IF mon.at = "stray" THEN Default
                   ELSE <<mon.k, req[mon.k].recv - mon.give + 1>>
<1>1. /\ bus = "data_in" /\ bus' = "idle" /\ rxf' = Append(rxf, byte)
      /\ mon' = IF mon.at = "stray" THEN MonIdle ELSE [mon EXCEPT !.give = @ - 1]
      /\ UNCHANGED <<req, got, buf, over, excused, txf, cpu, to_start, ch, intr>>
  BY DEF DataIn, cpuVars, dmaVars, histVars
<1>2. rxf \in Seq(Bytes) /\ mon.give \in Nat /\ mon.k \in 0..MaxRequests
      /\ buf \in [1..MaxRequests -> Seq(Bytes)]
  BY DEF IInv, TypeOK
<1>3. mon.at = "stray" \/ (mon.at = "data" /\ mon.take = 0 /\ mon.give > 0)
  BY <1>1 DEF IInv, MonOK, XInv, MonDone
<1>4. mon.at = "data" =>
        /\ mon.k = Current /\ Current \in Asked /\ Current \notin over
        /\ mon.take + Len(got[Current]) = req[Current].send
        /\ mon.give <= req[Current].recv
  <2>1. mon.at = "data" => mon.k # 0 BY <1>3 DEF IInv, MonOK
  <2> QED BY <2>1 DEF IInv, MonOK, CommandOK
<1>5. mon'.at # "report" /\ (mon.at = "stray" => mon'.at = "idle")
      /\ (mon.at = "data" => /\ mon'.at = "data" /\ mon'.k = mon.k
                             /\ mon'.give = mon.give - 1 /\ mon'.take = mon.take)
  BY <1>1, <1>3 DEF IInv, TypeOK, MonIdle
<1>6. HistOK' /\ StartOK' /\ SentOK' BY <1>1, HistFrame, StartFrame, SentFrame
<1>7. MonDone' BY <1>1, <1>3, <1>5 DEF MonDone
<1>8. Len(rxf') = Len(rxf) + 1 /\ Len(rxf) \in Nat /\ rxf'[Len(rxf) + 1] = byte
      /\ \A i \in 1..Len(rxf) : rxf'[i] = rxf[i]
  BY <1>1, <1>2
<1>9. /\ Current' = Current /\ (Live' <=> Live) /\ (Receiving' <=> Receiving)
  BY <1>1, SameTransfer
<1>10. \A i \in 1..Len(rxf') : i \in 1..Len(rxf) \/ i = Len(rxf) + 1
  BY <1>8
<1>11. CASE ~Live
  <2>1. byte[1] \in {0} \cup excused
    <3>1. mon.at = "stray" => byte[1] = 0 BY DEF Default
    <3>2. mon.at = "data" => byte[1] = Current /\ Current \in excused
      <4>1. mon.at = "data" => Current \in excused
        BY <1>4, <1>11 DEF Live, Asked, Current, IInv, TypeOK
      <4> QED BY <1>4, <4>1
    <3> QED BY <1>3, <3>1, <3>2
  <2> HIDE DEF byte
  <2>2. \A i \in 1..Len(rxf') : rxf'[i][1] \in {0} \cup excused
    <3>1. \A i \in 1..Len(rxf) : rxf[i][1] \in {0} \cup excused
      BY <1>11 DEF XInv, OthersOK, Receiving
    <3> QED BY <1>8, <1>10, <2>1, <3>1
  <2>3. OthersOK' BY <1>1, <1>9, <1>11, <2>2 DEF XInv, OthersOK, Receiving
  <2>4. ReceivedOK' BY <1>9, <1>11 DEF ReceivedOK, Receiving
  <2>5. \A k \in 1..MaxRequests : k \notin excused => Of(k, rxf') = 0 /\ Of(k, rxf) = 0
    <3>1. rxf' \in Seq(Bytes)
      BY DataInIInv DEF IInv, TypeOK
    <3>2. \A i \in 1..Len(rxf) : rxf[i][1] \in {0} \cup excused
      BY <1>11 DEF XInv, OthersOK, Receiving
    <3> SUFFICES ASSUME NEW k \in 1..MaxRequests, k \notin excused
                 PROVE  Of(k, rxf') = 0 /\ Of(k, rxf) = 0
      OBVIOUS
    <3>3. k # 0 /\ k \notin {0} \cup excused BY DBusCAssumption
    <3>4. \A i \in 1..Len(rxf') : rxf'[i][1] # k BY <2>2, <3>3
    <3>5. \A i \in 1..Len(rxf) : rxf[i][1] # k BY <3>2, <3>3
    <3> QED BY <1>2, <3>1, <3>4, <3>5, OfIs
  <2>6. UNCHANGED Xfer!vars BY <1>1, <2>5 DEF Xfer!vars, Kept, Written
  <2> QED BY <1>6, <1>7, <2>3, <2>4, <2>6 DEF XInv
<1>12. CASE Live
  <2>1. mon.at = "data" /\ mon'.at = "data" /\ mon.k = Current /\ mon.take = 0
        /\ mon'.k = Current /\ mon'.give = mon.give - 1
    BY <1>3, <1>4, <1>5, <1>12 DEF XInv, MonDone
  <2>2. Receiving /\ req[Current].recv \in Nat /\ Len(buf[Current]) \in Nat
    BY <1>2, <1>3, <1>4, <1>12, <2>1, LiveFacts DEF Receiving
  <2>3. Len(buf[Current]) + Len(rxf) + mon.give = req[Current].recv
    BY <2>1, <2>2 DEF XInv, ReceivedOK
  <2>4. byte = <<Current, Len(buf[Current]) + (Len(rxf) + 1)>>
    <3>1. byte = <<Current, req[Current].recv - mon.give + 1>> BY <2>1
    <3>2. req[Current].recv - mon.give + 1 = Len(buf[Current]) + (Len(rxf) + 1)
      <4> DEFINE b == Len(buf[Current])
                 x == Len(rxf)
                 g == mon.give
                 n == req[Current].recv
      <4>1. b \in Nat /\ x \in Nat /\ g \in Nat /\ n \in Nat /\ g > 0 /\ b + x + g = n
        BY <1>2, <1>3, <1>8, <2>1, <2>2, <2>3
      <4> HIDE DEF b, x, g, n
      <4>2. n - g + 1 = b + (x + 1) BY <4>1
      <4> QED BY <4>2 DEF b, x, g, n
    <3> QED BY <3>1, <3>2
  <2> HIDE DEF byte
  <2>5. \A i \in 1..Len(rxf') : rxf'[i] = <<Current, Len(buf[Current]) + i>>
    <3>1. \A i \in 1..Len(rxf) : rxf[i] = <<Current, Len(buf[Current]) + i>>
      BY <2>2 DEF XInv, ReceivedOK
    <3> QED BY <1>8, <1>10, <2>4, <3>1
  <2>6. Len(buf[Current]) + Len(rxf') + mon'.give = req[Current].recv
    <3> DEFINE b == Len(buf[Current])
               x == Len(rxf)
               g == mon.give
               n == req[Current].recv
    <3>1. b \in Nat /\ x \in Nat /\ g \in Nat /\ n \in Nat /\ g > 0 /\ b + x + g = n
        BY <1>2, <1>3, <1>8, <2>1, <2>2, <2>3
    <3> HIDE DEF b, x, g, n
    <3>2. b + (x + 1) + (g - 1) = n BY <3>1
    <3>3. Len(rxf') = x + 1 /\ mon'.give = g - 1 BY <1>8, <2>1 DEF x, g
    <3> QED BY <3>2, <3>3 DEF b, n
  <2>7. ReceivedOK'
    <3>1. Waiting \/ Running
      <4>1. rxf' # <<>> /\ Len(rxf) \in Nat BY <1>8
      <4>2. ~Landed
        <5> SUFFICES ASSUME Landed PROVE FALSE
          OBVIOUS
        <5>1. rxf = <<>> /\ Len(buf[Current]) = req[Current].recv BY DEF Landed
        <5>2. Len(rxf) = 0 BY <5>1, <1>2
        <5>3. req[Current].recv + 0 + mon.give = req[Current].recv /\ mon.give > 0
          BY <1>3, <2>1, <2>3, <5>1, <5>2
        <5> QED BY <1>2, <2>2, <5>3
      <4> QED BY <2>2, <4>2 DEF XInv, ReceivedOK
    <3>2. (Waiting \/ Running)' BY <1>1, <1>9, <3>1 DEF Waiting, Running
    <3> QED BY <1>1, <1>9, <2>1, <2>5, <2>6, <3>2 DEF ReceivedOK
  <2>8. OthersOK'
    <3>1. \A i \in 1..Len(rxf') : rxf'[i][1] = Current BY <2>5
    <3> QED BY <1>1, <1>9, <2>2, <3>1 DEF XInv, OthersOK
  <2>9. Of(Current, rxf) = Len(rxf) /\ Of(Current, rxf') = Len(rxf) + 1
    <3>1. rxf' \in Seq(Bytes) BY DataInIInv DEF IInv, TypeOK
    <3>2. \A i \in 1..Len(rxf') : rxf'[i][1] = Current BY <2>5
    <3>3. Of(Current, rxf) = Len(rxf) BY <2>2, LiveFacts, WrittenIs, <1>12
    <3> QED BY <1>8, <3>1, <3>2, <3>3, OfIs
  <2>10. \A k \in 1..MaxRequests : k # Current /\ k \notin excused
           => Of(k, rxf) = 0 /\ Of(k, rxf') = 0
    <3>1. rxf' \in Seq(Bytes) BY DataInIInv DEF IInv, TypeOK
    <3>2. \A k \in 1..MaxRequests : k # Current /\ k \notin excused => Of(k, rxf) = 0
      BY WrittenIs
    <3>3. \A i \in 1..Len(rxf') : rxf'[i][1] = Current BY <2>5
    <3> QED BY <3>1, <3>2, <3>3, OfIs
  <2>11. Xfer!Give(Current)
    <3>1. Kept(got, <<>>)[Current] = got[Current] /\ Current \in 1..MaxRequests
          /\ Current \notin excused /\ Len(got[Current]) = req[Current].send
      <4>1. Current \in 1..MaxRequests /\ Current \notin excused /\ req[Current].send \in Nat
            /\ Len(got[Current]) \in Nat
        BY <1>12, LiveFacts
      <4>2. 0 + Len(got[Current]) = req[Current].send BY <1>4, <2>1
      <4> QED BY <4>1, <4>2 DEF Kept
    <3>2. Kept(Written, 0)[Current] = Len(buf[Current]) + Len(rxf)
      BY <2>9, <3>1 DEF Kept, Written
    <3>3. Len(buf[Current]) + Len(rxf) < req[Current].recv
      <4> DEFINE b == Len(buf[Current])
                 x == Len(rxf)
                 g == mon.give
                 n == req[Current].recv
      <4>1. b \in Nat /\ x \in Nat /\ g \in Nat /\ n \in Nat /\ g > 0 /\ b + x + g = n
        BY <1>2, <1>3, <1>8, <2>1, <2>2, <2>3
      <4> HIDE DEF b, x, g, n
      <4>2. b + x < n BY <4>1
      <4> QED BY <4>2 DEF b, x, n
    <3>4. Kept(Written, 0)' = [Kept(Written, 0) EXCEPT ![Current] = @ + 1]
      <4>1. Kept(Written, 0)' = [k \in 1..MaxRequests |->
               IF k \in excused THEN 0 ELSE Len(buf[k]) + Of(k, rxf')]
        BY <1>1 DEF Kept, Written
      <4>2. Kept(Written, 0) = [k \in 1..MaxRequests |->
               IF k \in excused THEN 0 ELSE Len(buf[k]) + Of(k, rxf)]
        BY DEF Kept, Written
      <4>3. Len(buf[Current]) + (Len(rxf) + 1) = (Len(buf[Current]) + Len(rxf)) + 1
        <5> DEFINE b == Len(buf[Current])
                   x == Len(rxf)
        <5>1. b \in Nat /\ x \in Nat BY <1>8, <2>2
        <5> HIDE DEF b, x
        <5>2. b + (x + 1) = (b + x) + 1 BY <5>1
        <5> QED BY <5>2 DEF b, x
      <4>4. Kept(Written, 0)'[Current] = Kept(Written, 0)[Current] + 1
        BY <2>9, <3>1, <3>2, <4>1, <4>3
      <4>5. \A k \in 1..MaxRequests : k # Current =>
              Kept(Written, 0)'[k] = Kept(Written, 0)[k]
        BY <2>10, <4>1, <4>2
      <4>6. Kept(Written, 0)' = [k \in 1..MaxRequests |-> Kept(Written, 0)'[k]]
        BY <4>1
      <4>7. Kept(Written, 0) = [k \in 1..MaxRequests |-> Kept(Written, 0)[k]]
        BY <4>2
      <4> HIDE DEF Current
      <4> QED BY <3>1, <4>4, <4>5, <4>6, <4>7
    <3>5. UNCHANGED <<req, Kept(got, <<>>), Kept(buf, <<>>), over, excused>>
      BY <1>1 DEF Kept
    <3>6. Xfer!Live(Current) BY <1>12, LiveFacts
    <3> QED BY <3>1, <3>2, <3>3, <3>4, <3>5, <3>6 DEF Xfer!Give
  <2>12. Xfer!Next BY <1>4, <2>1, <2>11 DEF Xfer!Next, Asked
  <2> QED BY <1>6, <1>7, <2>7, <2>8, <2>12 DEF XInv
<1> QED BY <1>11, <1>12

-----------------------------------------------------------------------------
(* The end of a transfer, and giving it up.                                *)

LEMMA IrqCtrlWriteAbove ==
  ASSUME IInv, XInv, IrqCtrlWrite PROVE XInv' /\ [Xfer!Next]_(Xfer!vars)
<1>1. /\ bus = "ctrl_ready" /\ bus' = "idle" /\ mon' = MonIdle
      /\ over' = (over \cup {mon.k}) \ ({0} \cup excused)
      /\ UNCHANGED <<req, got, buf, rxf, excused, txf, cpu, to_start, ch, intr>>
  BY DEF IrqCtrlWrite, cpuVars, dmaVars
<1>2. mon.at = "report" /\ mon'.at = "idle" /\ mon'.k = 0 /\ mon'.give = 0
      /\ mon.take = 0 /\ mon.give = 0
  BY <1>1 DEF IInv, MonOK, XInv, MonDone, MonIdle
<1>3. mon.k # 0 => /\ mon.k = Current /\ Current \in Asked /\ Current \notin over
                   /\ mon.take + Len(got[Current]) = req[Current].send
  BY DEF IInv, CommandOK, MonOK
<1>4. 0 \notin over /\ over \cap excused = {} BY DEF IInv, TypeOK, XInv, HistOK
<1>5. MonDone' BY <1>1, <1>2 DEF MonDone
<1>6. StartOK' BY <1>1, StartFrame
<1>7. CASE ~Live \/ mon.k = 0
  <2>1. mon.k = 0 \/ mon.k \in excused
    BY <1>3, <1>7 DEF Live, Asked, Current, IInv, TypeOK
  <2>2. over' = over BY <1>1, <1>4, <2>1
  <2>3. HistOK' /\ SentOK' /\ OthersOK'
    BY <1>1, <2>2, HistFrame, SentFrame, OthersFrame
  <2>4. ReceivedOK'
    <3>1. CASE ~Live
      BY <1>1, <2>2, <3>1, SameTransfer DEF ReceivedOK, Receiving
    <3>2. CASE mon.k = 0
      BY <1>1, <1>2, <2>2, <3>2, ReceivedFrame
    <3> QED BY <1>7, <3>1, <3>2
  <2>5. UNCHANGED Xfer!vars BY <1>1, <2>2, AboveFrame
  <2> QED BY <1>5, <1>6, <2>3, <2>4, <2>5 DEF XInv
<1>8. CASE Live /\ mon.k # 0
  <2>1. /\ Current \in 1..MaxRequests /\ Current \in Asked /\ mon.k = Current
        /\ Current \notin excused /\ Current > 0 /\ Current' = Current /\ Asked' = Asked
        /\ Xfer!Live(Current)
    BY <1>1, <1>3, <1>8, LiveFacts DEF Current, Asked
  <2>2. over' = over \cup {Current} /\ ~Live' /\ ~Receiving' /\ ~Sending'
    <3>1. over' = over \cup {Current} BY <1>1, <1>4, <2>1
    <3> QED BY <2>1, <3>1 DEF Live, Receiving, Sending
  <2>3. HistOK' BY <1>1, <2>1, <2>2 DEF XInv, HistOK
  <2>4. SentOK' /\ ReceivedOK' BY <2>2 DEF SentOK, ReceivedOK
  <2>5. Receiving => Landed BY <1>2, <2>1 DEF XInv, ReceivedOK
  <2>6. OthersOK'
    <3>1. CASE Receiving
      <4>1. rxf' = <<>> /\ ch'["SR"].left = 0 /\ (ch'["R"].k = 0 \/ ch'["R"].left = 0)
        BY <1>1, <2>5, <3>1 DEF Landed
      <4>2. 1..Len(rxf') = {} BY <4>1
      <4>3. ch'["R"].left > 0 \/ ch'["SR"].left > 0 => ch'["R"].k \in {0} \cup excused'
        BY <4>1
      <4> QED BY <4>2, <4>3 DEF OthersOK
    <3>2. CASE ~Receiving
      BY <1>1, <2>2, <3>2 DEF XInv, OthersOK
    <3> QED BY <3>1, <3>2
  <2>7. Xfer!Finish(Current)
    <3>1. /\ Kept(got, <<>>)[Current] = got[Current] /\ Kept(buf, <<>>)[Current] = buf[Current]
      BY <2>1 DEF Kept
    <3>2. Len(got[Current]) = req[Current].send
      <4>1. got[Current] \in Seq(Bytes) /\ req[Current].send \in Nat BY <1>8, LiveFacts
      <4>2. 0 + Len(got[Current]) = req[Current].send BY <1>2, <1>3, <1>8
      <4> QED BY <4>1, <4>2
    <3>3. Len(buf[Current]) = req[Current].recv
      <4>1. CASE Receiving BY <2>5, <4>1 DEF Landed
      <4>2. CASE ~Receiving
        <5>1. buf[Current] = <<>> BY <1>8, <4>2 DEF XInv, HistOK
        <5>2. req[Current].recv = 0 BY <1>8, <4>2, LiveFacts DEF Receiving
        <5> QED BY <5>1, <5>2
      <4> QED BY <4>1, <4>2
    <3>4. UNCHANGED <<req, Kept(got, <<>>), Kept(Written, 0), Kept(buf, <<>>), excused>>
      BY <1>1 DEF Kept, Written, Of
    <3> QED BY <2>1, <2>2, <3>1, <3>2, <3>3, <3>4 DEF Xfer!Finish
  <2>8. Xfer!Next BY <2>1, <2>7 DEF Xfer!Next, Asked
  <2> QED BY <1>5, <1>6, <2>3, <2>4, <2>6, <2>8 DEF XInv
<1> QED BY <1>7, <1>8

\* What both steps of the cancel have in common: every transfer is over or
\* given up, and DBusXfer gives up the live one.
LEMMA GivenUp ==
  ASSUME IInv, XInv, UNCHANGED <<req, got, buf, over>>,
         excused' = excused \cup (Asked \ over), rxf' = rxf \/ rxf' = <<>>
  PROVE  /\ ~Live' /\ ~Receiving' /\ ~Sending' /\ HistOK'
         /\ {0} \cup excused \subseteq {0} \cup excused'
         /\ Receiving => Current \in excused'
         /\ [Xfer!Next]_(Xfer!vars)
<1>1. Current' = Current /\ Asked' = Asked /\ Asked \subseteq over \cup excused'
  BY DEF Current, Asked
<1>2. ~Live' /\ ~Receiving' /\ ~Sending'
  <2>1. Current > 0 => Current \in Asked BY DEF Asked, Current, IInv, TypeOK
  <2>2. ~Live' BY <1>1, <2>1 DEF Live
  <2> QED BY <2>2 DEF Receiving, Sending
<1>3. HistOK' BY <1>1, <1>2 DEF XInv, HistOK
<1>4. Receiving => Current \in excused' BY LiveFacts DEF Receiving
<1>5. \A k \in 1..MaxRequests : k \notin excused' => k \notin excused /\ Of(k, rxf') = Of(k, rxf)
  <2> SUFFICES ASSUME NEW k \in 1..MaxRequests, k \notin excused'
               PROVE  k \notin excused /\ Of(k, rxf') = Of(k, rxf)
    OBVIOUS
  <2>1. k \notin excused /\ k # 0 /\ (Receiving => k # Current)
    BY <1>4, DBusCAssumption
  <2>2. Of(k, rxf) = 0 BY <2>1, WrittenIs
  <2>3. Of(k, <<>>) = 0
    <3>1. <<>> \in Seq(Bytes) /\ 1..Len(<<>>) = {} OBVIOUS
    <3> QED BY <3>1, OfIs
  <2> QED BY <2>1, <2>2, <2>3
<1>6. CASE ~Live
  <2>1. excused' = excused
    <3>1. Asked \subseteq over \cup excused
      BY <1>6 DEF XInv, HistOK, Live, Asked, Current, IInv, TypeOK
    <3> QED BY <3>1
  <2>2. UNCHANGED Xfer!vars
    BY <1>5, <2>1 DEF Xfer!vars, Kept, Written
  <2> QED BY <1>2, <1>3, <1>4, <2>2
<1>7. CASE Live
  <2>1. /\ Current \in Asked /\ Current \in 1..MaxRequests /\ Current \notin excused
        /\ Xfer!Live(Current)
    BY <1>7, LiveFacts
  <2>2. excused' = excused \cup {Current}
    <3>1. Asked \ {Current} \subseteq over \cup excused /\ Current \notin over
      BY <1>7 DEF XInv, HistOK, Live
    <3> QED BY <2>1, <3>1
  <2>3. Kept(got, <<>>)' = [Kept(got, <<>>) EXCEPT ![Current] = <<>>]
        /\ Kept(buf, <<>>)' = [Kept(buf, <<>>) EXCEPT ![Current] = <<>>]
    BY <2>1, <2>2 DEF Kept
  <2>4. Kept(Written, 0)' = [Kept(Written, 0) EXCEPT ![Current] = 0]
    <3>1. Kept(Written, 0)' = [k \in 1..MaxRequests |->
             IF k \in excused' THEN 0 ELSE Len(buf[k]) + Of(k, rxf')]
      BY DEF Kept, Written
    <3>2. Kept(Written, 0) = [k \in 1..MaxRequests |->
             IF k \in excused THEN 0 ELSE Len(buf[k]) + Of(k, rxf)]
      BY DEF Kept, Written
    <3>3. \A k \in 1..MaxRequests : k # Current =>
            Kept(Written, 0)'[k] = Kept(Written, 0)[k]
      BY <1>5, <2>2, <3>1, <3>2
    <3>4. Kept(Written, 0)'[Current] = 0 BY <2>1, <2>2, <3>1
    <3>5. Kept(Written, 0)' = [k \in 1..MaxRequests |-> Kept(Written, 0)'[k]]
      BY <3>1
    <3>6. Kept(Written, 0) = [k \in 1..MaxRequests |-> Kept(Written, 0)[k]]
      BY <3>2
    <3> QED BY <2>1, <3>3, <3>4, <3>5, <3>6
  <2>5. Xfer!GiveUp(Current) BY <2>1, <2>2, <2>3, <2>4 DEF Xfer!GiveUp
  <2>6. Xfer!Next BY <2>1, <2>5 DEF Xfer!Next, Asked
  <2> QED BY <1>2, <1>3, <1>4, <2>6
<1> QED BY <1>6, <1>7

LEMMA CancelStopAbove ==
  ASSUME IInv, XInv, CancelStop PROVE XInv' /\ [Xfer!Next]_(Xfer!vars)
<1>1. /\ bus' = CASE bus = "ctrl_needed" -> "ctrl_out"
                  [] bus = "data_needed" -> "data_out"
                  [] bus = "ctrl_ready" -> "idle"
                  [] OTHER -> bus
      /\ mon' = IF bus = "ctrl_ready" THEN MonIdle ELSE mon
      /\ rxf' = <<>> /\ excused' = excused \cup (Asked \ over)
      /\ UNCHANGED <<req, got, buf, over, cpu, to_start, ch>>
  BY DEF CancelStop, Cleared, cpuVars, dmaVars
<1>2. /\ ~Live' /\ ~Receiving' /\ ~Sending' /\ HistOK'
      /\ {0} \cup excused \subseteq {0} \cup excused'
      /\ Receiving => Current \in excused'
      /\ [Xfer!Next]_(Xfer!vars)
  BY <1>1, GivenUp
<1>3. MonDone'
  <2>1. bus' = "data_in" => bus = "data_in" BY <1>1 DEF IInv, TypeOK
  <2>2. mon' = mon \/ mon'.at = "idle" BY <1>1 DEF MonIdle
  <2> QED BY <1>2, <2>1, <2>2 DEF XInv, MonDone
<1>4. SentOK' /\ ReceivedOK' BY <1>2 DEF SentOK, ReceivedOK
<1>5. OthersOK'
  <2>1. 1..Len(rxf') = {} BY <1>1
  <2>2. ch["R"].left > 0 \/ ch["SR"].left > 0 =>
          ch["R"].k \in {0} \cup excused \/ (Receiving /\ ch["R"].k = Current)
    BY DEF XInv, OthersOK
  <2> QED BY <1>1, <1>2, <2>1, <2>2 DEF OthersOK
<1>6. StartOK' BY <1>1, StartFrame
<1> QED BY <1>2, <1>3, <1>4, <1>5, <1>6 DEF XInv

LEMMA CancelAbortAbove ==
  ASSUME IInv, XInv, CancelAbort PROVE XInv' /\ [Xfer!Next]_(Xfer!vars)
<1>1. /\ ch' = Stopped({"S", "R"}) /\ excused' = excused \cup (Asked \ over)
      /\ UNCHANGED <<req, got, buf, rxf, over, cpu, to_start, mon, bus>>
  BY DEF CancelAbort, cpuVars, pioVars
<1>2. \A c \in Channels : /\ ch'[c].k = ch[c].k /\ ch'[c].left = 0
                          /\ ch'[c].reload = ch[c].reload
  <2>1. ch \in [Channels -> Channel] BY DEF IInv, TypeOK, Channel
  <2>2. \A c \in Channels : ch'[c] = [ch[c] EXCEPT !.left = 0]
    BY <1>1 DEF Stopped, Aborted, Channels
  <2> QED BY <2>1, <2>2 DEF Channel
<1>3. /\ ~Live' /\ ~Receiving' /\ ~Sending' /\ HistOK'
      /\ {0} \cup excused \subseteq {0} \cup excused'
      /\ Receiving => Current \in excused'
      /\ [Xfer!Next]_(Xfer!vars)
  BY <1>1, GivenUp
<1>4. MonDone' BY <1>1, <1>3 DEF XInv, MonDone
<1>5. SentOK' /\ ReceivedOK' BY <1>3 DEF SentOK, ReceivedOK
<1>6. OthersOK'
  <2>1. ch'["R"].left = 0 /\ ch'["SR"].left = 0 BY <1>2 DEF Channels
  <2>2. \A i \in 1..Len(rxf) : rxf[i][1] \in {0} \cup excused
                               \/ (Receiving /\ rxf[i][1] = Current)
    BY DEF XInv, OthersOK
  <2>3. \A i \in 1..Len(rxf) : rxf[i][1] \in {0} \cup excused'
    BY <1>3, <2>2
  <2> QED BY <1>1, <2>1, <2>3 DEF OthersOK
<1>7. StartOK' BY <1>1, <1>2 DEF XInv, StartOK, Current, Channels
<1> QED BY <1>3, <1>4, <1>5, <1>6, <1>7 DEF XInv

-----------------------------------------------------------------------------
(* The receiving channel and its interrupt.                                *)

LEMMA DmaReceiveAbove ==
  ASSUME IInv, XInv, DmaReceive PROVE XInv' /\ [Xfer!Next]_(Xfer!vars)
<1>1. /\ ch["R"].left > 0 /\ rxf # <<>> /\ rxf' = Tail(rxf)
      /\ ch' = [ch EXCEPT !["R"] = [ch["R"] EXCEPT !.pos = @ + 1, !.left = @ - 1]]
      /\ intr' = IF ch["R"].left = 1 THEN intr \cup {"R"} ELSE intr
      /\ buf' = IF ch["R"].k = 0 THEN buf
                ELSE [buf EXCEPT ![ch["R"].k] = Append(@, Head(rxf))]
      /\ UNCHANGED <<req, got, over, excused, txf, cpu, to_start, mon, bus>>
  BY DEF DmaReceive, CanReceive, cpuVars
<1>2. /\ ch'["R"].k = ch["R"].k /\ ch'["R"].left = ch["R"].left - 1
      /\ ch'["R"].reload = ch["R"].reload
      /\ \A c \in Senders : ch'[c] = ch[c]
  <2>1. ch \in [Channels -> Channel] BY DEF IInv, TypeOK, Channel
  <2> QED BY <1>1, <2>1 DEF Channel, Senders, Channels
<1>3. /\ rxf \in Seq(Bytes) /\ rxf' \in Seq(Bytes) /\ Len(rxf) \in Nat /\ Len(rxf) > 0
      /\ Len(rxf') = Len(rxf) - 1 /\ Head(rxf) = rxf[1]
      /\ \A i \in 1..Len(rxf') : rxf'[i] = rxf[i + 1] /\ i + 1 \in 1..Len(rxf)
  <2>1. rxf \in Seq(Bytes) BY DEF IInv, TypeOK
  <2> QED BY <1>1, <2>1
<1>4. /\ buf \in [1..MaxRequests -> Seq(Bytes)] /\ ch["R"].left \in Nat
      /\ ch["R"].k \in 0..MaxRequests
  BY DEF IInv, TypeOK, Channels
<1>5. /\ Current' = Current /\ Asked' = Asked /\ (Live' <=> Live)
      /\ (Receiving' <=> Receiving)
  BY <1>1, SameTransfer
<1>6. SentOK' BY <1>1, <1>2, SentFrame
<1>7. MonDone' BY <1>1, <1>5 DEF XInv, MonDone
<1>8. StartOK' BY <1>1, <1>2, <1>5 DEF XInv, StartOK, Senders, Channels
<1>9. ch'["R"].left > 0 \/ ch'["SR"].left > 0 => ch["R"].left > 0 \/ ch["SR"].left > 0
  BY <1>1
<1>10. OthersOK'
  <2>1. \A i \in 1..Len(rxf') : \/ rxf'[i][1] \in {0} \cup excused
                                \/ Receiving /\ rxf'[i][1] = Current
    BY <1>3 DEF XInv, OthersOK
  <2> QED BY <1>1, <1>2, <1>5, <1>9, <2>1 DEF XInv, OthersOK
<1>11. CASE ~Receiving
  <2>1. ch["R"].k \in {0} \cup excused BY <1>1, <1>11 DEF XInv, OthersOK
  <2>2. \A k \in 1..MaxRequests : k \notin excused => buf'[k] = buf[k]
    BY <1>1, <1>4, <2>1
  <2>3. HistOK'
    <3>1. excused \subseteq Asked BY DEF XInv, HistOK
    <3>2. \A k \in 1..MaxRequests : k > Len(req) => k \notin excused
      BY <3>1 DEF Asked, IInv, TypeOK
    <3>3. Live => Current \in 1..MaxRequests /\ Current \notin excused
      BY LiveFacts
    <3> QED BY <1>1, <1>5, <2>2, <3>2, <3>3 DEF XInv, HistOK
  <2>4. ReceivedOK' BY <1>5, <1>11 DEF ReceivedOK
  <2>5. \A k \in 1..MaxRequests : k \notin excused => Of(k, rxf) = 0 /\ Of(k, rxf') = 0
    <3> SUFFICES ASSUME NEW k \in 1..MaxRequests, k \notin excused
                 PROVE  Of(k, rxf) = 0 /\ Of(k, rxf') = 0
      OBVIOUS
    <3>1. Of(k, rxf) = 0 BY <1>11, WrittenIs
    <3>2. \A i \in 1..Len(rxf') : rxf'[i][1] # k
      BY <1>1, <1>5, <1>10, <1>11, DBusCAssumption DEF OthersOK
    <3> QED BY <1>3, <3>1, <3>2, OfIs
  <2>6. UNCHANGED <<Kept(got, <<>>), Kept(buf, <<>>)>> BY <1>1, <2>2 DEF Kept
  <2>7. UNCHANGED Kept(Written, 0)
    <3>1. \A k \in 1..MaxRequests : k \notin excused =>
            Len(buf'[k]) + Of(k, rxf') = Len(buf[k]) + Of(k, rxf)
      BY <2>2, <2>5
    <3> QED BY <1>1, <3>1 DEF Kept, Written
  <2>8. UNCHANGED Xfer!vars BY <1>1, <2>6, <2>7 DEF Xfer!vars
  <2> QED BY <1>6, <1>7, <1>8, <1>10, <2>3, <2>4, <2>8 DEF XInv
<1>12. CASE Receiving
  <2>1. /\ Current \in Asked /\ Current \in 1..MaxRequests /\ Current > 0
        /\ Current \notin over /\ Current \notin excused /\ Xfer!Live(Current)
        /\ buf[Current] \in Seq(Bytes) /\ Len(buf[Current]) \in Nat
        /\ req[Current].recv \in Nat
    BY <1>12, LiveFacts DEF Receiving
  <2>2. Running
    <3>1. ~Waiting BY <1>1 DEF Waiting
    <3>2. ~Landed BY <1>1 DEF Landed
    <3> QED BY <1>12, <3>1, <3>2 DEF XInv, ReceivedOK
  <2>3. /\ cpu = "idle" /\ ch["SR"].left = 0 /\ ch["R"].k = Current /\ "R" \notin intr
        /\ Len(buf[Current]) + ch["R"].left = req[Current].recv
    BY <2>2 DEF Running
  <2>4. /\ mon.k = Current /\ Len(buf[Current]) + Len(rxf) + mon.give = req[Current].recv
        /\ mon.give \in Nat
        /\ \A i \in 1..Len(rxf) : rxf[i] = <<Current, Len(buf[Current]) + i>>
    BY <1>1, <1>12 DEF XInv, ReceivedOK, IInv, TypeOK
  <2>5. /\ buf'[Current] = Append(buf[Current], <<Current, Len(buf[Current]) + 1>>)
        /\ Len(buf'[Current]) = Len(buf[Current]) + 1
        /\ \A k \in 1..MaxRequests : k # Current => buf'[k] = buf[k]
    <3>1. Head(rxf) = <<Current, Len(buf[Current]) + 1>> BY <1>3, <2>4
    <3>2. buf' = [buf EXCEPT ![Current] = Append(@, Head(rxf))] BY <1>1, <2>1, <2>3
    <3>3. buf'[Current] = Append(buf[Current], <<Current, Len(buf[Current]) + 1>>)
          /\ \A k \in 1..MaxRequests : k # Current => buf'[k] = buf[k]
      BY <1>4, <2>1, <3>1, <3>2
    <3> QED BY <2>1, <3>3
  <2>6. HistOK'
    <3>1. \A k \in 1..MaxRequests : k > Len(req) => k # Current BY DEF Current, IInv, TypeOK
    <3> QED BY <1>1, <1>5, <1>12, <2>5, <3>1 DEF XInv, HistOK
  <2>7. \A i \in 1..Len(rxf') : rxf'[i] = <<Current, Len(buf'[Current]) + i>>
    <3> SUFFICES ASSUME NEW i \in 1..Len(rxf')
                 PROVE  rxf'[i] = <<Current, Len(buf'[Current]) + i>>
      OBVIOUS
    <3>1. rxf'[i] = <<Current, Len(buf[Current]) + (i + 1)>> BY <1>3, <2>4
    <3>2. Len(buf[Current]) + (i + 1) = (Len(buf[Current]) + 1) + i
      <4> DEFINE b == Len(buf[Current])
      <4>1. b \in Nat /\ i \in Int BY <2>1
      <4> HIDE DEF b
      <4>2. b + (i + 1) = (b + 1) + i BY <4>1
      <4> QED BY <4>2 DEF b
    <3> QED BY <2>5, <3>1, <3>2
  <2>8. /\ Len(buf'[Current]) + Len(rxf') + mon.give = req[Current].recv
        /\ Len(buf'[Current]) + ch'["R"].left = req[Current].recv
        /\ ch["R"].left = 1 => Len(buf'[Current]) = req[Current].recv /\ Len(rxf') = 0
    <3> DEFINE b == Len(buf[Current])
               x == Len(rxf)
               g == mon.give
               n == req[Current].recv
               l == ch["R"].left
    <3>1. /\ b \in Nat /\ x \in Nat /\ g \in Nat /\ n \in Nat /\ l \in Nat
          /\ x > 0 /\ l > 0 /\ b + x + g = n /\ b + l = n
      BY <1>1, <1>3, <1>4, <2>1, <2>3, <2>4
    <3>2. Len(buf'[Current]) = b + 1 /\ Len(rxf') = x - 1 /\ ch'["R"].left = l - 1
      BY <1>2, <1>3, <2>5
    <3> HIDE DEF b, x, g, n, l
    <3>3. (b + 1) + (x - 1) + g = n /\ (b + 1) + (l - 1) = n
          /\ (l = 1 => b + 1 = n /\ x - 1 = 0)
      BY <3>1
    <3>4. Len(buf'[Current]) + Len(rxf') + g = n /\ Len(buf'[Current]) + ch'["R"].left = n
          /\ (l = 1 => Len(buf'[Current]) = n /\ Len(rxf') = 0)
      BY <3>2, <3>3
    <3> QED BY <3>4 DEF g, n, l
  <2>9. (Running \/ Landed)'
    <3>1. CASE ch["R"].left = 1
      <4>1. rxf' = <<>> BY <1>3, <2>8, <3>1
      <4>2. ch'["R"].left = 0 /\ ch'["SR"].left = 0 BY <1>2, <2>3, <3>1 DEF Senders, Channels
      <4>3. Landed' BY <1>1, <1>5, <2>3, <2>8, <3>1, <4>1, <4>2 DEF Landed
      <4> QED BY <4>3
    <3>2. CASE ch["R"].left # 1
      <4>1. ch'["R"].left > 0 /\ "R" \notin intr' BY <1>1, <1>2, <1>4, <2>3, <3>2
      <4>2. ch'["R"].k = Current /\ ch'["SR"].left = 0
        BY <1>2, <2>3 DEF Senders, Channels
      <4>3. Running' BY <1>1, <1>5, <2>3, <2>8, <4>1, <4>2 DEF Running
      <4> QED BY <4>3
    <3> QED BY <3>1, <3>2
  <2>10. ReceivedOK'
    <3>1. mon.at = "report" => FALSE
      <4>1. mon.at = "report" => Landed BY <1>12, <2>4 DEF XInv, ReceivedOK
      <4> QED BY <1>1, <4>1 DEF Landed
    <3> QED BY <1>1, <1>5, <2>4, <2>7, <2>8, <2>9, <3>1 DEF ReceivedOK
  <2>11. Of(Current, rxf) = Len(rxf) /\ Of(Current, rxf') = Len(rxf) - 1
    <3>1. \A i \in 1..Len(rxf') : rxf'[i][1] = Current BY <2>7
    <3> QED BY <1>3, <1>12, <2>1, <3>1, WrittenIs, OfIs
  <2>12. \A k \in 1..MaxRequests : k # Current /\ k \notin excused
            => Of(k, rxf) = 0 /\ Of(k, rxf') = 0
    <3>1. \A k \in 1..MaxRequests : k # Current /\ k \notin excused => Of(k, rxf) = 0
      BY WrittenIs
    <3>2. \A i \in 1..Len(rxf') : rxf'[i][1] = Current BY <2>7
    <3> QED BY <1>3, <3>1, <3>2, OfIs
  <2>13. Xfer!Land(Current)
    <3>1. Kept(buf, <<>>)[Current] = buf[Current] BY <2>1 DEF Kept
    <3>2. Kept(Written, 0)[Current] = Len(buf[Current]) + Len(rxf)
      BY <2>1, <2>11 DEF Kept, Written
    <3>3. Len(buf[Current]) < Len(buf[Current]) + Len(rxf) BY <1>3, <2>1
    <3>4. Kept(buf, <<>>)' = [Kept(buf, <<>>) EXCEPT
             ![Current] = Append(buf[Current], <<Current, Len(buf[Current]) + 1>>)]
      BY <1>1, <1>4, <2>1, <2>5 DEF Kept
    <3>5. Kept(Written, 0)' = Kept(Written, 0)
      <4>1. Kept(Written, 0)' = [k \in 1..MaxRequests |->
               IF k \in excused THEN 0 ELSE Len(buf'[k]) + Of(k, rxf')]
        BY <1>1 DEF Kept, Written
      <4>2. Kept(Written, 0) = [k \in 1..MaxRequests |->
               IF k \in excused THEN 0 ELSE Len(buf[k]) + Of(k, rxf)]
        BY DEF Kept, Written
      <4>3. Len(buf'[Current]) + Of(Current, rxf') = Len(buf[Current]) + Of(Current, rxf)
        <5> DEFINE b == Len(buf[Current])
                   x == Len(rxf)
        <5>1. b \in Nat /\ x \in Nat BY <1>3, <2>1
        <5> HIDE DEF b, x
        <5>2. (b + 1) + (x - 1) = b + x BY <5>1
        <5> QED BY <2>5, <2>11, <5>2 DEF b, x
      <4> QED BY <2>5, <2>12, <4>1, <4>2, <4>3
    <3>6. UNCHANGED <<req, Kept(got, <<>>), over, excused>> BY <1>1 DEF Kept
    <3> QED BY <2>1, <3>1, <3>2, <3>3, <3>4, <3>5, <3>6 DEF Xfer!Land
  <2>14. Xfer!Next BY <2>1, <2>13 DEF Xfer!Next, Asked
  <2> QED BY <1>6, <1>7, <1>8, <1>10, <2>6, <2>10, <2>14 DEF XInv
<1> QED BY <1>11, <1>12

\* The interrupt clears the FIFO when the receiver ends: nothing is lost.
LEMMA IrqDmaAbove ==
  ASSUME IInv, XInv, IrqDma PROVE XInv' /\ [Xfer!Next]_(Xfer!vars)
<1>1. /\ intr' = intr \ Pending /\ Pending \subseteq intr /\ SystemIrqOn
      /\ IF "R" \in Pending THEN rxf' = <<>> /\ ch' = Rearmed ELSE UNCHANGED <<rxf, ch>>
      /\ UNCHANGED <<req, got, buf, over, excused, txf, cpu, to_start, mon, bus>>
  BY DEF IrqDma, cpuVars, Pending
<1>2. HistOK' BY <1>1, HistFrame
<1>3. /\ Current' = Current /\ Asked' = Asked /\ (Live' <=> Live)
      /\ (Receiving' <=> Receiving)
  BY <1>1, SameTransfer
<1>4. MonDone' BY <1>1, <1>3 DEF XInv, MonDone
<1>5. CASE "R" \notin Pending
  <2>1. UNCHANGED <<rxf, ch>> /\ ("R" \in intr' <=> "R" \in intr) BY <1>1, <1>5
  <2>2. SentOK' /\ ReceivedOK' /\ OthersOK' /\ StartOK'
    BY <1>1, <2>1, SentFrame, ReceivedFrame, OthersFrame, StartFrame
  <2> QED BY <1>1, <1>2, <1>4, <2>1, <2>2, AboveFrame DEF XInv
<1>6. CASE "R" \in Pending
  <2>1. rxf' = <<>> /\ ch' = Rearmed /\ "R" \in intr BY <1>1, <1>6
  <2>2. ch'["R"].k = 0 /\ ch'["R"].left = 1 /\ \A c \in Senders : ch'[c] = ch[c]
    <3>1. ch \in [Channels -> Channel] BY DEF IInv, TypeOK, Channel
    <3>2. ch["R"] \in Channel BY <3>1 DEF Channels
    <3>3. 0 \in 0..MaxRequests /\ 0 \in Nat /\ 1 \in Nat BY DBusCAssumption
    <3>4. LET c == Configured(ch["R"], 0, 0, 1)
          IN  c \in Channel /\ c.k = 0 /\ c.reload = 1
      BY <3>2, <3>3, ConfiguredFacts
    <3>5. ch'["R"] = Started(Configured(ch["R"], 0, 0, 1))
          /\ \A c \in Senders : ch'[c] = ch[c]
      BY <2>1, <3>1 DEF Rearmed, Senders, Channels
    <3> QED BY <3>4, <3>5, StartedFacts
  <2>3. SentOK' BY <1>1, <2>2, SentFrame
  <2>4. ch'["SR"].left = ch["SR"].left /\ ch'["SR"].reload = ch["SR"].reload
    BY <2>2 DEF Senders, Channels
  <2>5. Receiving => Landed
    BY <2>1 DEF XInv, ReceivedOK, Waiting, Running
  <2>6. ReceivedOK'
    <3> SUFFICES ASSUME Receiving PROVE ReceivedOK'
      BY <1>3 DEF ReceivedOK
    <3>1. Landed' BY <1>1, <1>3, <2>1, <2>2, <2>4, <2>5 DEF Landed
    <3>2. rxf' = rxf BY <2>1, <2>5 DEF Landed
    <3> QED BY <1>1, <1>3, <3>1, <3>2 DEF XInv, ReceivedOK
  <2>7. OthersOK'
    <3>1. 1..Len(rxf') = {} BY <2>1
    <3> QED BY <2>2, <3>1 DEF OthersOK
  <2>8. StartOK'
    <3>1. ~(cpu = "prepared" /\ req[Current].recv > 0)
      <4> SUFFICES ASSUME cpu = "prepared", req[Current].recv > 0 PROVE FALSE
        OBVIOUS
      <4>1. req[Current].kind = "none" BY <1>1 DEF SystemIrqOn
      <4>2. Current \in Asked
        BY DEF IInv, CommandOK, Asked, Current, TypeOK
      <4> QED BY <4>1, <4>2, RequestFacts DEF IInv
    <3> QED BY <1>1, <1>3, <2>4, <3>1 DEF XInv, StartOK
  <2>9. \A k \in 1..MaxRequests : k \notin excused => Of(k, rxf') = Of(k, rxf)
    <3> SUFFICES ASSUME NEW k \in 1..MaxRequests, k \notin excused
                 PROVE  Of(k, rxf') = Of(k, rxf)
      OBVIOUS
    <3>1. CASE Receiving BY <2>1, <2>5, <3>1 DEF Landed
    <3>2. CASE ~Receiving
      <4>1. Of(k, rxf) = 0 BY <3>2, WrittenIs
      <4>2. rxf' \in Seq(Bytes) /\ 1..Len(rxf') = {} BY <2>1
      <4> QED BY <4>1, <4>2, OfIs
    <3> QED BY <3>1, <3>2
  <2>10. UNCHANGED Xfer!vars BY <1>1, <2>9 DEF Xfer!vars, Kept, Written
  <2> QED BY <1>2, <1>4, <2>3, <2>6, <2>7, <2>8, <2>10 DEF XInv
<1> QED BY <1>5, <1>6

-----------------------------------------------------------------------------
(* The sending channels.                                                   *)

\* Where the channels are in their blocks after a byte was sent.
LEMMA SendPositions ==
  ASSUME IInv, NEW c \in Senders, DmaSend(c)
  PROVE  /\ ch'[c].pos = ch[c].pos + 1
         /\ \A d \in Channels \ {c} : ch'[d].pos = ch[d].pos
<1> DEFINE m == [ch[c] EXCEPT !.pos = @ + 1, !.left = @ - 1]
           moved == [ch EXCEPT ![c] = m]
<1>1. ch' = IF moved[c].left = 0 THEN Ended(c, moved) ELSE moved
  BY DEF DmaSend, CanSend
<1>2. ch \in [Channels -> Channel] /\ c \in Channels /\ ch[c] \in Channel /\ ch[c].left > 0
  BY DEF IInv, TypeOK, Channel, Channels, Senders, DmaSend, CanSend
<1>3. m \in Channel /\ m.pos = ch[c].pos + 1
  <2>1. ch[c].left - 1 \in Nat /\ ch[c].pos + 1 \in Nat BY <1>2 DEF Channel
  <2> QED BY <1>2, <2>1 DEF Channel
<1> HIDE DEF m
<1>4. /\ moved \in [Channels -> Channel] /\ moved[c] = m
      /\ \A d \in Channels \ {c} : moved[d] = ch[d]
  BY <1>2, <1>3
<1> HIDE DEF moved
<1>5. \A d \in Channels : Ended(c, moved)[d].pos = moved[d].pos
  <2>1. \A d \in Channels : Started(moved[d]).pos = moved[d].pos
    <3> SUFFICES ASSUME NEW d \in Channels PROVE Started(moved[d]).pos = moved[d].pos
      OBVIOUS
    <3>1. moved[d] \in Channel BY <1>4
    <3> QED BY <3>1 DEF Started, Channel
  <2>2. CASE c = "SS"
    <3>1. Ended(c, moved) = [moved EXCEPT !["S"] = Started(moved["S"])] BY <2>2 DEF Ended
    <3> QED BY <1>4, <2>1, <3>1 DEF Channels
  <2>3. CASE c = "SR"
    <3>1. Ended(c, moved) = [moved EXCEPT !["R"] = Started(moved["R"])] BY <2>3 DEF Ended
    <3> QED BY <1>4, <2>1, <3>1 DEF Channels
  <2>4. CASE c # "SS" /\ c # "SR"
    BY <2>4 DEF Ended
  <2> QED BY <2>2, <2>3, <2>4
<1> QED BY <1>1, <1>2, <1>3, <1>4, <1>5

\* A byte goes behind those in the FIFO, and the rest of the block behind it.
LEMMA DmaSendSent ==
  ASSUME IInv, XInv, NEW c \in Senders, DmaSend(c), Sending PROVE SentOK'
<1> DEFINE r == req[Current]
           g == Len(got[Current])
           x == Len(txf)
           p == ch[c].pos
           u == Unsent
           n == r.send
<1>1. /\ txf' = Append(txf, <<ch[c].k, ch[c].pos + 1>>)
      /\ UNCHANGED <<req, got, over, excused, cpu, to_start>>
  BY DEF DmaSend, cpuVars, histVars
<1>2. /\ Current \in Asked /\ Current \in 1..MaxRequests /\ Current > 0
      /\ Current \notin over /\ Current \notin excused
      /\ n \in Nat /\ g \in Nat /\ n > 0
      /\ Current' = Current /\ (Sending' <=> Sending)
  BY <1>1, LiveFacts, SameTransfer DEF Sending
<1>3. /\ r.kind \in {"send1", "send2", "sendrecv"}
      /\ c \in {"S", "SS", "SR"} /\ txf \in Seq(Bytes) /\ x \in Nat /\ p \in Nat
  <2>1. r.kind \in {"send1", "send2", "sendrecv"} BY <1>2, RequestFacts DEF IInv
  <2>2. c \in {"S", "SS", "SR"} /\ c \in Channels BY DEF Senders, Channels
  <2> QED BY <2>1, <2>2 DEF IInv, TypeOK
<1>4. /\ ch[c].left > 0 /\ ch'[c].left = ch[c].left - 1 /\ ch'[c].pos = ch[c].pos + 1
      /\ \A d \in {"R", "S", "SS", "SR"} : ch'[d].k = ch[d].k /\ ch'[d].reload = ch[d].reload
      /\ \A d \in {"R", "S", "SS", "SR"} \ {c} :
           /\ ch'[d].pos = ch[d].pos
           /\ ch'[d].left = IF ch[c].left = 1 /\ <<c, d>> \in {<<"SS", "S">>, <<"SR", "R">>}
                            THEN ch[d].reload ELSE ch[d].left
  BY SendFacts, SendPositions DEF Channels
<1>5. /\ r.kind = "send1" => ch["SS"].left = 0 /\ ch["SR"].left = 0
      /\ r.kind = "send2" => ch["SR"].left = 0 /\ (ch["SS"].left > 0 => ch["S"].left = 0)
      /\ r.kind = "sendrecv" => ch["S"].left = 0 /\ ch["SS"].left = 0
      /\ cpu = "prepared" => Silent
  BY <1>2 DEF IInv, SendOK
<1>6. cpu = "idle"
  <2>1. Silent => ch[c].left = 0 BY <1>3 DEF Silent
  <2> QED BY <1>4, <1>5, <2>1 DEF IInv, TypeOK
<1>7. ch[c].k = Current /\ p + u = n
  BY <1>4, <1>6 DEF XInv, SentOK
<1>8. x + u + g = n
  BY <1>2, <1>6 DEF IInv, Balance
<1>9. Len(txf') + Unsent' + g = n
  <2>1. Balance' BY DmaSendIInv DEF IInv
  <2> QED BY <1>1, <1>2, <1>6, <2>1 DEF Balance
<1>10. u \in Nat /\ Unsent' \in Nat
  <2>1. \A d \in {"S", "SS", "SR"} : /\ ch[d].left \in Nat /\ ch[d].reload \in Nat
                                     /\ ch'[d].left \in Nat /\ ch'[d].reload \in Nat
    <3>1. ch \in [Channels -> Channel] BY DEF IInv, TypeOK, Channel
    <3>2. ch' \in [Channels -> Channel] BY SendFacts
    <3> QED BY <3>1, <3>2 DEF Channels, Channel
  <2>2. u \in Nat BY <1>3, <2>1 DEF Unsent
  <2>3. Unsent' \in Nat
    <3>1. req'[Current'] = r BY <1>1, <1>2
    <3> QED BY <1>3, <2>1, <3>1 DEF Unsent
  <2> QED BY <2>2, <2>3
<1>11. Len(txf') = x + 1 /\ txf'[x + 1] = <<Current, p + 1>>
       /\ \A i \in 1..x : txf'[i] = txf[i]
  BY <1>1, <1>3, <1>7
<1> DEFINE v == Unsent'
<1>12. \A i \in 1..Len(txf') : txf'[i] = <<Current, g + i>>
  <2>1. \A i \in 1..x : txf[i] = <<Current, g + i>> BY DEF XInv, SentOK
  <2>2. p + 1 = g + (x + 1)
    <3> HIDE DEF g, x, p, u, n
    <3> QED BY <1>2, <1>3, <1>7, <1>8, <1>10
  <2>3. \A i \in 1..Len(txf') : i \in 1..x \/ i = x + 1
    <3> HIDE DEF x
    <3> QED BY <1>3, <1>11
  <2> HIDE DEF g, x, p
  <2> QED BY <1>11, <2>1, <2>2, <2>3
<1>13. (p + 1) + v = n
  <2>1. (x + 1) + v + g = n BY <1>9, <1>11
  <2>2. v \in Nat BY <1>10
  <2> HIDE DEF g, x, p, u, n, v
  <2> QED BY <1>2, <1>3, <1>7, <1>8, <1>10, <2>1, <2>2
<1>14. ASSUME NEW d \in Senders, ch'[d].left > 0
       PROVE  ch'[d].k = Current /\ ch'[d].pos + v = n
  <2>0. d \in {"S", "SS", "SR"} BY DEF Senders, Channels
  <2>1. CASE d = c BY <1>3, <1>4, <1>7, <1>13, <2>1
  <2>2. CASE d # c
    <3>1. r.kind = "send2" /\ c = "SS" /\ d = "S" /\ ch[c].left = 1
      <4>1. ~(r.kind = "send1") BY <1>3, <1>4, <1>5, <1>14, <2>0, <2>2
      <4>2. ~(r.kind = "sendrecv") BY <1>3, <1>4, <1>5, <1>14, <2>0, <2>2
      <4> QED BY <1>3, <1>4, <1>5, <1>14, <2>0, <2>2, <4>1, <4>2
    <3>2. ch["S"].k = Current /\ ch["S"].pos + ch["S"].reload = n
      BY <1>4, <3>1 DEF XInv, SentOK
    <3>3. v = ch["S"].reload
      <4>1. req'[Current'] = r BY <1>1, <1>2
      <4>2. ch'["SS"].left = 0 /\ ch'["S"].left = ch["S"].reload BY <1>4, <3>1
      <4> QED BY <3>1, <4>1, <4>2 DEF Unsent
    <3> QED BY <1>4, <2>2, <3>1, <3>2, <3>3
  <2> QED BY <2>1, <2>2
<1>15. r.kind = "send2" /\ ch'["SS"].left > 0 =>
         ch'["S"].k = Current /\ ch'["S"].pos + ch'["S"].reload = n
  <2> SUFFICES ASSUME r.kind = "send2", ch'["SS"].left > 0
               PROVE  ch'["S"].k = Current /\ ch'["S"].pos + ch'["S"].reload = n
    OBVIOUS
  <2>1. ch["SS"].left > 0 /\ c # "S"
    <3>1. CASE c = "SS" BY <1>4, <3>1
    <3>2. CASE c # "SS"
      <4>1. ch["SS"].left > 0 BY <1>4, <3>2
      <4> QED BY <1>4, <1>5, <4>1
    <3> QED BY <3>1, <3>2
  <2>2. ch["S"].k = Current /\ ch["S"].pos + ch["S"].reload = n
    BY <2>1 DEF XInv, SentOK
  <2> QED BY <1>4, <2>1, <2>2
<1>16. cpu' = "idle" /\ req'[Current'] = r /\ got' = got BY <1>1, <1>2, <1>6
<1> HIDE DEF r
<1> QED BY <1>2, <1>12, <1>14, <1>15, <1>16 DEF SentOK, r

LEMMA DmaSendAbove ==
  ASSUME IInv, XInv, NEW c \in Senders, DmaSend(c) PROVE XInv' /\ UNCHANGED Xfer!vars
<1>1. /\ intr' = intr \cup {c} \/ intr' = intr
      /\ UNCHANGED <<req, got, buf, rxf, over, excused, cpu, to_start, mon, bus>>
  BY DEF DmaSend, cpuVars, histVars
<1>2. c # "R" BY DEF Senders
<1>3. /\ ch[c].left > 0
      /\ \A d \in {"R", "S", "SS", "SR"} : ch'[d].k = ch[d].k /\ ch'[d].reload = ch[d].reload
      /\ c = "SR" => ch'["SR"].left = ch["SR"].left - 1
      /\ c # "SR" => ch'["SR"].left = ch["SR"].left /\ ch'["R"].left = ch["R"].left
      /\ c = "SR" => ch'["R"].left = IF ch["SR"].left = 1 THEN ch["R"].reload
                                     ELSE ch["R"].left
  BY <1>2, SendFacts DEF Channels, Senders
<1>4. /\ Current' = Current /\ Asked' = Asked /\ (Live' <=> Live)
      /\ (Receiving' <=> Receiving) /\ (Sending' <=> Sending)
  BY <1>1, SameTransfer
<1>5. HistOK' BY <1>1, HistFrame
<1>6. SentOK'
  <2>1. CASE Sending BY <2>1, DmaSendSent
  <2>2. CASE ~Sending BY <1>4, <2>2 DEF SentOK
  <2> QED BY <2>1, <2>2
<1>7. MonDone' BY <1>1, <1>4 DEF XInv, MonDone
<1>8. ReceivedOK'
  <2> SUFFICES ASSUME Receiving PROVE ReceivedOK'
    BY <1>4 DEF ReceivedOK
  <2>0. /\ req[Current].recv > 0 /\ req[Current].recv \in Nat /\ Current \in Asked
        /\ Current > 0 /\ req[Current].kind # "none"
    <3>1. /\ req[Current].recv > 0 /\ req[Current].recv \in Nat /\ Current \in Asked
          /\ Current > 0
      BY LiveFacts DEF Receiving
    <3> QED BY <3>1, RequestFacts DEF IInv
  <2>1. CASE c = "SR"
    <3>1. Waiting BY <1>3, <2>1 DEF XInv, ReceivedOK, Running, Landed
    <3>2. cpu = "idle"
      <4>1. ch["SR"].left > 0 BY <1>3, <2>1
      <4>2. to_start = "SR" BY <4>1 DEF IInv, ChainOK
      <4>3. ~(cpu = "prepared") BY <2>0, <4>1, <4>2 DEF IInv, ChainOK
      <4> QED BY <4>3 DEF IInv, TypeOK
    <3>3. ch["SR"].left \in Nat BY DEF IInv, TypeOK, Channels
    <3>4. CASE ch["SR"].left = 1
      <4>1. ch'["SR"].left = 0 /\ ch'["R"].left = req[Current].recv
        BY <1>3, <2>1, <3>1, <3>4 DEF Waiting
      <4>2. Len(buf[Current]) = 0 BY <3>1 DEF Waiting
      <4>3. Len(buf[Current]) + ch'["R"].left = req[Current].recv BY <2>0, <4>1, <4>2
      <4>4. Running'
        BY <1>1, <1>2, <1>3, <1>4, <2>0, <3>1, <3>2, <4>1, <4>3 DEF Running, Waiting
      <4>5. mon.at = "report" /\ mon.k = Current => FALSE
        BY <1>3, <2>1 DEF XInv, ReceivedOK, Landed
      <4> QED BY <1>1, <1>4, <4>4, <4>5 DEF XInv, ReceivedOK
    <3>5. CASE ch["SR"].left # 1
      <4>1. ch'["SR"].left > 0 BY <1>3, <2>1, <3>3, <3>5
      <4>2. Waiting' BY <1>1, <1>2, <1>3, <1>4, <2>1, <3>1, <3>5, <4>1 DEF Waiting
      <4>3. mon.at = "report" /\ mon.k = Current => FALSE
        BY <1>3, <2>1 DEF XInv, ReceivedOK, Landed
      <4> QED BY <1>1, <1>4, <4>2, <4>3 DEF XInv, ReceivedOK
    <3> QED BY <3>4, <3>5
  <2>2. CASE c # "SR"
    <3>1. Waiting => Waiting' BY <1>1, <1>2, <1>3, <1>4, <2>2 DEF Waiting
    <3>2. Running => Running' BY <1>1, <1>2, <1>3, <1>4, <2>2 DEF Running
    <3>3. Landed => Landed' BY <1>1, <1>3, <1>4, <2>2 DEF Landed
    <3> QED BY <1>1, <1>4, <3>1, <3>2, <3>3 DEF XInv, ReceivedOK
  <2> QED BY <2>1, <2>2
<1>9. OthersOK'
  <2>1. ch'["R"].left > 0 \/ ch'["SR"].left > 0 => ch["R"].left > 0 \/ ch["SR"].left > 0
    <3>1. CASE c = "SR" BY <1>3, <3>1
    <3>2. CASE c # "SR" BY <1>3, <3>2
    <3> QED BY <3>1, <3>2
  <2> QED BY <1>1, <1>3, <1>4, <2>1 DEF XInv, OthersOK
<1>10. StartOK' BY <1>1, <1>3, <1>4 DEF XInv, StartOK
<1> QED BY <1>1, <1>5, <1>6, <1>7, <1>8, <1>9, <1>10, AboveFrame DEF XInv

-----------------------------------------------------------------------------
(* The preparation and the start of a transfer.                            *)

LEMMA BeginAbove ==
  ASSUME IInv, XInv, Begin PROVE XInv' /\ UNCHANGED Xfer!vars
<1> DEFINE r == req[Current]
<1>1. /\ cpu = "prepared" /\ cpu' = "idle"
      /\ IF r.kind = "none" THEN ch' = ch
         ELSE ch' = [ch EXCEPT ![to_start] = Started(ch[to_start])]
      /\ UNCHANGED <<req, to_start, intr, txf, rxf, bus, mon, got, buf, over, excused>>
  BY DEF Begin, pioVars, histVars
<1>2. /\ mon.at = "idle" /\ bus = "idle" /\ mon.k = 0 /\ Current > 0
      /\ Current \notin over /\ got[Current] = <<>>
  BY <1>1 DEF IInv, CommandOK, MonOK
<1>3. Current \in Asked BY <1>2 DEF IInv, TypeOK, Asked, Current
<1>4. /\ r.send \in Nat /\ r.recv \in Nat
      /\ r.kind \in {"none", "send1", "send2", "recv", "sendrecv"}
      /\ r.kind \in {"none", "recv"} <=> r.send = 0
      /\ r.kind \in {"recv", "sendrecv"} <=> r.recv > 0
  BY <1>3, RequestFacts DEF IInv
<1>5. \A c \in {"R", "S", "SS", "SR"} :
        /\ ch'[c].k = ch[c].k /\ ch'[c].reload = ch[c].reload /\ ch'[c].pos = ch[c].pos
        /\ ch'[c].left = IF c = to_start /\ r.kind # "none" THEN ch[c].reload
                         ELSE ch[c].left
  <2>1. ch \in [Channels -> Channel] /\ to_start \in Channels
    BY DEF IInv, TypeOK, Channel
  <2>2. CASE r.kind = "none" BY <1>1, <2>2
  <2>3. CASE r.kind # "none"
    <3>1. ch[to_start] \in Channel /\ Started(ch[to_start]).pos = ch[to_start].pos
      BY <2>1 DEF Started, Channel
    <3> QED BY <1>1, <2>1, <2>3, <3>1, StartedFacts DEF Channels
  <2> QED BY <2>2, <2>3
<1>6. /\ Current' = Current /\ Asked' = Asked /\ (Live' <=> Live)
      /\ (Receiving' <=> Receiving) /\ (Sending' <=> Sending) /\ req'[Current'] = r
  BY <1>1, SameTransfer
<1>7. r.send > 0 =>
        /\ txf = <<>> /\ Silent
        /\ r.kind = "send1" => to_start = "S"
        /\ r.kind = "send2" => to_start = "SS"
        /\ r.kind = "sendrecv" => to_start = "SR"
  BY <1>1, <1>2 DEF IInv, SendOK
<1>8. HistOK' BY <1>1, HistFrame
<1>9. MonDone' BY <1>1, <1>6 DEF XInv, MonDone
<1> HIDE DEF r
<1>10. SentOK'
  <2> SUFFICES ASSUME Sending PROVE SentOK'
    BY <1>6 DEF SentOK
  <2>1. r.send > 0 /\ Current \notin excused BY DEF Sending, Live, r
  <2>2. Unsent' = r.send
    <3>1. Balance' BY BeginIInv DEF IInv
    <3>2. Len(txf') + Unsent' + Len(got'[Current']) = r.send
      BY <1>1, <1>2, <1>6, <2>1, <3>1 DEF Balance
    <3>3. Len(txf') = 0 /\ Len(got'[Current']) = 0 BY <1>1, <1>2, <1>6, <1>7, <2>1
    <3>4. Unsent' \in Nat
      <4>1. \A c \in {"S", "SS", "SR"} : ch'[c].left \in Nat /\ ch'[c].reload \in Nat
        BY BeginIInv DEF IInv, TypeOK, Channels
      <4> QED BY <1>4, <1>6, <4>1 DEF Unsent
    <3> DEFINE u == Unsent'
    <3>5. 0 + u + 0 = r.send BY <3>2, <3>3
    <3>6. u \in Nat BY <3>4
    <3> HIDE DEF u
    <3>7. u = r.send BY <3>5, <3>6
    <3> QED BY <3>7 DEF u
  <2>3. ASSUME NEW c \in Senders, ch'[c].left > 0
        PROVE  ch'[c].k = Current /\ ch'[c].pos + Unsent' = r.send
    <3>1. c \in {"S", "SS", "SR"} BY DEF Senders, Channels
    <3>2. c = to_start BY <1>5, <1>7, <2>1, <2>3, <3>1 DEF Silent
    <3>3. ch[to_start].k = Current /\ ch[to_start].pos = 0
      BY <1>1 DEF XInv, SentOK
    <3> QED BY <1>4, <1>5, <2>2, <3>1, <3>2, <3>3
  <2>4. r.kind = "send2" => ch'["S"].k = Current /\ ch'["S"].pos + ch'["S"].reload = r.send
    BY <1>1, <1>5 DEF XInv, SentOK, r
  <2>5. \A i \in 1..Len(txf') : txf'[i] = <<Current', Len(got'[Current']) + i>>
    BY <1>1, <1>7, <2>1
  <2> QED BY <1>1, <1>6, <2>3, <2>4, <2>5 DEF SentOK
<1>11. ReceivedOK'
  <2> SUFFICES ASSUME Receiving PROVE ReceivedOK'
    BY <1>6 DEF ReceivedOK
  <2>1. r.recv > 0 /\ r.kind # "none" BY <1>4 DEF Receiving, r
  <2>2. Waiting BY <1>1 DEF XInv, ReceivedOK, Running, Landed
  <2>3. to_start \in {"R", "SR"} BY <1>1, <2>1 DEF XInv, StartOK, r
  <2>4. (Waiting \/ Running \/ Landed)'
    <3>1. CASE to_start = "R"
      <4>1. ch'["R"].left = r.recv BY <1>5, <2>1, <2>2, <3>1 DEF Waiting, r
      <4>2. ch'["SR"].left = 0 BY <1>5, <3>1 DEF IInv, ChainOK
      <4>3. Len(buf[Current]) + ch'["R"].left = r.recv BY <1>4, <2>2, <4>1 DEF Waiting
      <4> QED BY <1>1, <1>5, <1>6, <2>1, <2>2, <4>1, <4>2, <4>3 DEF Waiting, Running
    <3>2. CASE to_start = "SR"
      <4>1. ch'["SR"].left > 0 BY <1>5, <2>1, <3>2 DEF XInv, StartOK
      <4> QED BY <1>1, <1>5, <1>6, <2>2, <3>2, <4>1 DEF Waiting, r
    <3> QED BY <2>3, <3>1, <3>2
  <2> QED BY <1>1, <1>2, <1>6, <2>4 DEF XInv, ReceivedOK
<1>12. OthersOK'
  <2>1. ASSUME ch'["R"].left > 0 \/ ch'["SR"].left > 0
        PROVE  ch'["R"].k \in {0} \cup excused \/ (Receiving /\ ch'["R"].k = Current)
    <3>1. CASE to_start \in {"R", "SR"} /\ r.kind # "none"
      <4>1. r.recv > 0
        <5>1. r.kind # "send1" /\ r.kind # "send2" BY <1>4, <1>7, <3>1
        <5> QED BY <1>4, <3>1, <5>1
      <4>2. ch["R"].k = Current BY <1>1, <4>1 DEF XInv, StartOK, r
      <4>3. Current \notin excused => Receiving
        BY <1>2, <4>1 DEF Receiving, Live, r
      <4> QED BY <1>5, <4>2, <4>3
    <3>2. CASE ~(to_start \in {"R", "SR"} /\ r.kind # "none")
      <4>1. ch'["R"].left = ch["R"].left /\ ch'["SR"].left = ch["SR"].left BY <1>5, <3>2
      <4> QED BY <1>5, <2>1, <4>1 DEF XInv, OthersOK
    <3> QED BY <3>1, <3>2
  <2> QED BY <1>1, <1>6, <2>1 DEF XInv, OthersOK
<1>13. StartOK' BY <1>1, <1>5, <1>6 DEF XInv, StartOK
<1> QED BY <1>1, <1>8, <1>9, <1>10, <1>11, <1>12, <1>13, AboveFrame DEF XInv

\* Where in which blocks the channels start after a preparation; those it does not
\* configure belong to whom they belonged.
LEMMA PreparedBlocks ==
  ASSUME IInv, NEW r \in Requests, NEW k \in 0..MaxRequests,
         NEW chs, chs = Prepared(r, k, Stopped(Cancelled(r)))
  PROVE  /\ r.kind = "send1" => chs["S"].pos = 0 /\ chs["SS"].k = ch["SS"].k
         /\ r.kind = "send2" => /\ chs["SS"].k = k /\ chs["SS"].pos = 0
                                /\ chs["S"].pos = r.send - r.second
         /\ r.kind = "recv" => chs["R"].reload = r.recv /\ chs["SR"].k = ch["SR"].k
         /\ r.kind = "sendrecv" => /\ chs["SR"].k = k /\ chs["SR"].pos = 0
                                   /\ chs["R"].reload = r.recv
                                   /\ chs["S"].k = ch["S"].k /\ chs["SS"].k = ch["SS"].k
<1> DEFINE st == Stopped(Cancelled(r))
<1>1. /\ r.send \in Nat /\ r.second \in Nat /\ r.recv \in Nat /\ r.send - r.second \in Nat
  <2>1. /\ r.send \in Nat /\ r.second \in Nat /\ r.recv \in Nat
        /\ r.second < r.send \/ r.second = 0
    BY DBusCAssumption
  <2> QED BY <2>1
<1>2. st \in [Channels -> Channel] /\ \A c \in Channels : st[c].k = ch[c].k
  <2>1. \A c \in Channels : ch[c] \in Channel BY DEF IInv, TypeOK, Channel
  <2>2. \A c \in Channels : Aborted(ch[c]) \in Channel /\ Aborted(ch[c]).k = ch[c].k
    <3> SUFFICES ASSUME NEW c \in Channels
                 PROVE  Aborted(ch[c]) \in Channel /\ Aborted(ch[c]).k = ch[c].k
      OBVIOUS
    <3>1. ch[c] \in Channel BY <2>1
    <3> QED BY <3>1 DEF Aborted, Channel
  <2> QED BY <2>1, <2>2 DEF Stopped
<1>3. \A c \in Channel, p, n \in Nat :
        /\ Configured(c, k, p, n).k = k /\ Configured(c, k, p, n).pos = p
        /\ Configured(c, k, p, n).reload = n
  <2> SUFFICES ASSUME NEW c \in Channel, NEW p \in Nat, NEW n \in Nat
               PROVE  /\ Configured(c, k, p, n).k = k /\ Configured(c, k, p, n).pos = p
                      /\ Configured(c, k, p, n).reload = n
    OBVIOUS
  <2> QED BY DEF Configured, Channel
<1>4. st["S"] \in Channel /\ st["SS"] \in Channel /\ st["SR"] \in Channel /\ st["R"] \in Channel
      /\ DOMAIN st = Channels
      /\ st["S"].k = ch["S"].k /\ st["SS"].k = ch["SS"].k /\ st["SR"].k = ch["SR"].k
  BY <1>2 DEF Channels
<1> HIDE DEF st
<1>5. chs = Prepared(r, k, st) BY DEF st
<1>6. CASE r.kind = "send1"
  <2>1. chs = [st EXCEPT !["S"] = Configured(st["S"], k, 0, r.send)]
    BY <1>5, <1>6 DEF Prepared
  <2>2. Configured(st["S"], k, 0, r.send).pos = 0 BY <1>1, <1>3, <1>4
  <2> QED BY <1>4, <1>6, <2>1, <2>2 DEF Channels
<1>7. CASE r.kind = "send2"
  <2> DEFINE ss == Configured(st["SS"], k, 0, r.send - r.second)
             s == Configured(st["S"], k, r.send - r.second, r.second)
  <2>1. chs = [st EXCEPT !["SS"] = ss, !["S"] = s] BY <1>5, <1>7 DEF Prepared
  <2>2. ss.k = k /\ ss.pos = 0 BY <1>1, <1>3, <1>4
  <2>3. s.pos = r.send - r.second BY <1>1, <1>3, <1>4
  <2> HIDE DEF ss, s
  <2> QED BY <1>4, <1>7, <2>1, <2>2, <2>3 DEF Channels
<1>8. CASE r.kind = "recv"
  <2>1. chs = [st EXCEPT !["R"] = Configured(st["R"], k, 0, r.recv)]
    BY <1>5, <1>8 DEF Prepared
  <2>2. Configured(st["R"], k, 0, r.recv).reload = r.recv BY <1>1, <1>3, <1>4
  <2> QED BY <1>4, <1>8, <2>1, <2>2 DEF Channels
<1>9. CASE r.kind = "sendrecv"
  <2> DEFINE sr == Configured(st["SR"], k, 0, r.send)
             q == Configured(st["R"], k, 0, r.recv)
  <2>1. chs = [st EXCEPT !["SR"] = sr, !["R"] = q] BY <1>5, <1>9 DEF Prepared
  <2>2. sr.k = k /\ sr.pos = 0 BY <1>1, <1>3, <1>4
  <2>3. q.reload = r.recv BY <1>1, <1>3, <1>4
  <2> HIDE DEF sr, q
  <2> QED BY <1>4, <1>9, <2>1, <2>2, <2>3 DEF Channels
<1> QED BY <1>6, <1>7, <1>8, <1>9

LEMMA PrepareAbove ==
  ASSUME IInv, XInv, Prepare, ~RecvAfterSend PROVE XInv' /\ [Xfer!Next]_(Xfer!vars)
<1> DEFINE k == Len(req) + 1
<1>1. PICK r \in Requests :
        /\ r.kind = "recv" /\ to_start \in {"S", "SS"} => RecvAfterSend
        /\ req' = Append(req, r)
        /\ ch' = Prepared(r, Len(req'), Stopped(Cancelled(r)))
        /\ intr' = intr \ Cancelled(r)
        /\ to_start' = First(r)
        /\ IF r.kind = "none" THEN UNCHANGED <<txf, rxf>>
           ELSE txf' = <<>> /\ rxf' = <<>>
  BY DEF Prepare, Cleared
<1>2. /\ cpu = "idle" /\ bus = "idle" /\ mon.at = "idle" /\ cmdstat = 0
      /\ Asked \subseteq over \cup excused
      /\ Len(req) < MaxRequests /\ cpu' = "prepared"
      /\ UNCHANGED <<bus, mon, got, buf, over, excused>>
  BY DEF Prepare, Quiet, histVars
<1>3. /\ req' \in Seq(Requests) /\ Len(req') = k /\ req'[k] = r
      /\ \A j \in 1..Len(req) : req'[j] = req[j]
      /\ Len(req) \in Nat /\ k \in 1..MaxRequests /\ k \in 0..MaxRequests
      /\ Len(req) < k
  <2>1. req \in Seq(Requests) BY DEF IInv, TypeOK
  <2>2. Len(req) \in Nat BY <2>1
  <2> QED BY <1>1, <1>2, <2>1, <2>2, DBusCAssumption
<1>4. /\ Current' = k /\ Asked' = Asked \cup {k} /\ k \notin Asked /\ k > 0
  BY <1>3 DEF Current, Asked
<1>5. \A j \in 1..MaxRequests : j > k => j > Len(req) BY <1>3
<1> HIDE DEF k
<1>6. /\ r.kind \in {"none", "send1", "send2", "recv", "sendrecv"}
      /\ r.send \in Nat /\ r.recv \in Nat /\ r.second \in Nat
      /\ r.second < r.send \/ r.second = 0
      /\ r.kind \in {"none", "recv"} <=> r.send = 0
      /\ r.kind \in {"recv", "sendrecv"} <=> r.recv > 0
  BY DBusCAssumption
<1>7. ch' = Prepared(r, k, Stopped(Cancelled(r))) BY <1>1, <1>3
<1>8. /\ \A c \in {"S", "SS", "SR", "R"} : ch'[c].left = 0 \/ ch'[c].left = ch[c].left
      /\ r.kind = "none" => ch' = ch
      /\ r.kind = "send1" =>
           ch'["S"].k = k /\ ch'["R"] = ch["R"] /\ ch'["SR"] = ch["SR"]
      /\ r.kind = "send2" =>
           /\ ch'["S"].k = k /\ ch'["S"].reload = r.second
           /\ ch'["R"] = ch["R"] /\ ch'["SR"] = ch["SR"]
      /\ r.kind = "recv" =>
           /\ ch'["R"].left = 0 /\ ch'["R"].k = k
           /\ ch'["SR"].reload = ch["SR"].reload
      /\ r.kind = "sendrecv" =>
           ch'["R"].left = 0 /\ ch'["R"].k = k /\ ch'["SR"].reload = r.send
  BY <1>3, <1>7, PreparedFacts
<1>9. /\ r.kind = "send1" => ch'["S"].pos = 0
      /\ r.kind = "send2" => /\ ch'["SS"].k = k /\ ch'["SS"].pos = 0
                             /\ ch'["S"].pos = r.send - r.second
      /\ r.kind = "recv" => ch'["R"].reload = r.recv
      /\ r.kind = "sendrecv" => /\ ch'["SR"].k = k /\ ch'["SR"].pos = 0
                                /\ ch'["R"].reload = r.recv
  BY <1>3, <1>7, PreparedBlocks
<1>10. ch'["SR"].left = 0
  <2>1. ch["SR"].left = 0 BY <1>2 DEF IInv, ChainOK
  <2> QED BY <1>8, <2>1
<1>11. ~Live BY QuietNotLive DEF Prepare
<1>12. over \subseteq Asked /\ excused \subseteq Asked
  BY DEF IInv, CommandOK, XInv, HistOK
<1>13. /\ Live' /\ req'[Current'] = r
       /\ (Sending' <=> r.send > 0) /\ (Receiving' <=> r.recv > 0)
  <2>1. Live' /\ req'[Current'] = r BY <1>2, <1>3, <1>4, <1>12 DEF Live
  <2> QED BY <2>1 DEF Sending, Receiving
<1>14. buf[k] = <<>> /\ mon.k = 0
  BY <1>2, <1>3 DEF XInv, HistOK, IInv, MonOK
<1>15. HistOK'
  <2>1. \A j \in 1..MaxRequests : j > Len(req') => buf'[j] = <<>>
    BY <1>2, <1>3, <1>5 DEF XInv, HistOK
  <2> QED BY <1>2, <1>4, <1>12, <1>14, <2>1 DEF XInv, HistOK
<1>16. MonDone' BY <1>2 DEF MonDone
<1>17. SentOK'
  <2> SUFFICES ASSUME r.send > 0 PROVE SentOK'
    BY <1>13 DEF SentOK
  <2>1. r.kind \in {"send1", "send2", "sendrecv"} BY <1>6
  <2>2. txf' = <<>> BY <1>1, <2>1
  <2>3. ch'[to_start'].k = k /\ ch'[to_start'].pos = 0
    <3>1. CASE r.kind = "send1" BY <1>1, <1>8, <1>9, <3>1 DEF First
    <3>2. CASE r.kind = "send2" BY <1>1, <1>8, <1>9, <3>2 DEF First
    <3>3. CASE r.kind = "sendrecv" BY <1>1, <1>8, <1>9, <3>3 DEF First
    <3> QED BY <2>1, <3>1, <3>2, <3>3
  <2>4. r.kind = "send2" => ch'["S"].k = k /\ ch'["S"].pos + ch'["S"].reload = r.send
    <3>1. (r.send - r.second) + r.second = r.send BY <1>6
    <3> QED BY <1>8, <1>9, <3>1
  <2>5. \A i \in 1..Len(txf') : txf'[i] = <<Current', Len(got'[Current']) + i>>
    BY <2>2
  <2> QED BY <1>2, <1>4, <1>13, <2>3, <2>4, <2>5 DEF SentOK
<1>18. ReceivedOK'
  <2> SUFFICES ASSUME r.recv > 0 PROVE ReceivedOK'
    BY <1>13 DEF ReceivedOK
  <2>1. r.kind \in {"recv", "sendrecv"} BY <1>6
  <2>2. rxf' = <<>> /\ "R" \notin intr' BY <1>1, <2>1 DEF Cancelled
  <2>3. Waiting'
    BY <1>2, <1>4, <1>8, <1>9, <1>13, <1>14, <2>1, <2>2 DEF Waiting
  <2>4. mon'.k # Current' /\ mon'.k = 0 BY <1>2, <1>4, <1>14
  <2>5. \A i \in 1..Len(rxf') : rxf'[i] = <<Current', Len(buf'[Current']) + i>>
    BY <2>2
  <2> QED BY <1>2, <1>4, <1>14, <2>2, <2>3, <2>4, <2>5 DEF ReceivedOK
<1>19. \A i \in 1..Len(rxf) : rxf[i][1] \in {0} \cup excused
  BY <1>11 DEF XInv, OthersOK, Receiving
<1>20. OthersOK'
  <2>1. \A i \in 1..Len(rxf') : rxf'[i][1] \in {0} \cup excused
    <3>1. CASE r.kind = "none" BY <1>1, <1>19, <3>1
    <3>2. CASE r.kind # "none" BY <1>1, <3>2
    <3> QED BY <3>1, <3>2
  <2>2. ch'["R"].left > 0 \/ ch'["SR"].left > 0 => ch'["R"].k \in {0} \cup excused
    <3>1. ch["R"].left > 0 \/ ch["SR"].left > 0 => ch["R"].k \in {0} \cup excused
      BY <1>11 DEF XInv, OthersOK, Receiving
    <3>2. CASE r.kind \in {"none", "send1", "send2"}
      <4>1. ch'["R"] = ch["R"] BY <1>8, <3>2
      <4> QED BY <1>10, <3>1, <4>1
    <3>3. CASE r.kind \in {"recv", "sendrecv"} BY <1>8, <1>10, <3>3
    <3> QED BY <1>6, <3>2, <3>3
  <2> QED BY <1>2, <2>1, <2>2 DEF OthersOK
<1>21. StartOK'
  <2>1. ASSUME to_start' = "SR" PROVE ch'["SR"].reload > 0
    <3>1. CASE r.kind \in {"none", "recv"}
      <4>1. to_start = "SR" /\ ch'["SR"].reload = ch["SR"].reload
        BY <1>1, <1>8, <2>1, <3>1 DEF First
      <4> QED BY <4>1 DEF XInv, StartOK
    <3>2. CASE r.kind = "sendrecv"
      <4>1. r.send > 0 BY <1>6, <3>2
      <4> QED BY <1>8, <3>2, <4>1
    <3>3. r.kind # "send1" /\ r.kind # "send2" BY <1>1, <2>1 DEF First
    <3> QED BY <1>6, <3>1, <3>2, <3>3
  <2>2. ASSUME r.recv > 0 PROVE to_start' \in {"R", "SR"} /\ ch'["R"].k = k
    <3>1. CASE r.kind = "recv"
      <4>1. to_start' = to_start /\ to_start \notin {"S", "SS"}
        BY <1>1, <3>1 DEF First
      <4>2. to_start \in {"R", "S", "SR", "SS"} BY DEF IInv, TypeOK, Channels
      <4> QED BY <1>8, <3>1, <4>1, <4>2
    <3>2. CASE r.kind = "sendrecv" BY <1>1, <1>8, <3>2 DEF First
    <3> QED BY <1>6, <2>2, <3>1, <3>2
  <2> QED BY <1>4, <1>13, <2>1, <2>2 DEF StartOK
<1>22. Xfer!Ask
  <2>1. \A j \in 1..MaxRequests : j \notin excused => Of(j, rxf) = 0 /\ Of(j, rxf') = 0
    <3> SUFFICES ASSUME NEW j \in 1..MaxRequests, j \notin excused
                 PROVE  Of(j, rxf) = 0 /\ Of(j, rxf') = 0
      OBVIOUS
    <3>1. rxf \in Seq(Bytes) /\ rxf' \in Seq(Bytes)
      <4>1. rxf \in Seq(Bytes) /\ <<>> \in Seq(Bytes) BY DEF IInv, TypeOK
      <4> QED BY <1>1, <4>1
    <3>2. \A i \in 1..Len(rxf) : rxf[i][1] # j BY <1>19
    <3>3. \A i \in 1..Len(rxf') : rxf'[i][1] # j
      <4>1. CASE r.kind = "none" BY <1>1, <3>2, <4>1
      <4>2. CASE r.kind # "none" BY <1>1, <4>2
      <4> QED BY <4>1, <4>2
    <3> QED BY <3>1, <3>2, <3>3, OfIs
  <2>2. Kept(Written, 0)' = Kept(Written, 0)
    BY <1>2, <2>1 DEF Kept, Written
  <2>3. UNCHANGED <<Kept(got, <<>>), Kept(buf, <<>>)>> BY <1>2 DEF Kept
  <2> QED BY <1>1, <1>2, <2>2, <2>3 DEF Xfer!Ask
<1>23. Xfer!Next BY <1>22 DEF Xfer!Next
<1> QED BY <1>15, <1>16, <1>17, <1>18, <1>20, <1>21, <1>23 DEF XInv

-----------------------------------------------------------------------------
(* The theorem.                                                            *)

LEMMA InitAbove == ASSUME Init PROVE XInv /\ Xfer!Init
<1>1. /\ req = <<>> /\ Len(req) = 0 /\ cpu = "idle" /\ to_start = "R"
      /\ ch = [c \in Channels |-> [k |-> 0, pos |-> 0, reload |-> 1,
                                   left |-> IF c = "R" THEN 1 ELSE 0]]
      /\ rxf = <<>> /\ bus = "idle" /\ mon = MonIdle /\ over = {} /\ excused = {}
      /\ got = [k \in 1..MaxRequests |-> <<>>] /\ buf = [k \in 1..MaxRequests |-> <<>>]
  BY DEF Init
<1>2. Current = 0 /\ Asked = {} /\ ~Live BY <1>1 DEF Current, Asked, Live
<1>3. HistOK BY <1>1, <1>2 DEF HistOK
<1>4. MonDone BY <1>1 DEF MonDone, MonIdle
<1>5. SentOK /\ ReceivedOK BY <1>2 DEF SentOK, ReceivedOK, Sending, Receiving
<1>6. OthersOK BY <1>1 DEF OthersOK, Channels
<1>7. StartOK BY <1>1 DEF StartOK
<1>8. Xfer!Init
  <2>1. \A k \in 1..MaxRequests : Written[k] = 0
    <3>1. \A k \in 1..MaxRequests : Of(k, rxf) = 0
      <4>1. rxf \in Seq(Bytes) /\ \A k : \A i \in 1..Len(rxf) : rxf[i][1] # k BY <1>1
      <4> QED BY <4>1, OfIs
    <3> QED BY <1>1, <3>1 DEF Written
  <2>2. Kept(Written, 0) = [k \in 1..MaxRequests |-> 0] BY <1>1, <2>1 DEF Kept
  <2>3. /\ Kept(got, <<>>) = [k \in 1..MaxRequests |-> <<>>]
        /\ Kept(buf, <<>>) = [k \in 1..MaxRequests |-> <<>>]
    BY <1>1 DEF Kept
  <2> QED BY <1>1, <2>2, <2>3 DEF Xfer!Init
<1> QED BY <1>3, <1>4, <1>5, <1>6, <1>7, <1>8 DEF XInv

LEMMA StutterAbove ==
  ASSUME IInv, XInv, UNCHANGED vars PROVE XInv' /\ UNCHANGED Xfer!vars
<1>1. UNCHANGED quiet /\ UNCHANGED <<req, over, excused, bus, mon>>
  BY DEF vars, cpuVars, dmaVars, pioVars, histVars, quiet
<1>2. MonDone' BY <1>1, SameTransfer DEF XInv, MonDone
<1> QED BY <1>1, <1>2, MonFrame

LEMMA NextAbove ==
  ASSUME ~RecvAfterSend, IInv, XInv, [Next]_vars
  PROVE  XInv' /\ [Xfer!Next]_(Xfer!vars)
<1>1. CASE Prepare BY <1>1, PrepareAbove
<1>2. CASE Begin BY <1>2, BeginAbove
<1>3. CASE DmaNext BY <1>3, DmaReceiveAbove, DmaSendAbove DEF DmaNext
<1>4. CASE IrqNext BY <1>4, IrqDmaAbove, IrqReadAbove, IrqCtrlWriteAbove DEF IrqNext
<1>5. CASE PioNext BY <1>5, CtrlOutAbove, DataOutAbove, DataInAbove DEF PioNext
<1>6. CASE MonReadCtrl \/ MonReadData \/ MonWriteData \/ MonReport
  BY <1>6, MonReadCtrlAbove, MonReadDataAbove, MonWriteDataAbove, MonReportAbove
<1>7. CASE CancelStop \/ CancelAbort BY <1>7, CancelStopAbove, CancelAbortAbove
<1>8. CASE UNCHANGED vars BY <1>8, StutterAbove
<1> QED BY <1>1, <1>2, <1>3, <1>4, <1>5, <1>6, <1>7, <1>8 DEF Next

\* The bus driver (dbus_prep_*, dbus_start_dataop and _irq_dma_pio of dbusc.c) keeps
\* the promise of dbusc.h: unless it is cancelled, the bytes of a transfer are read
\* and received each once and in order, and all of them have been by the time the
\* operation is over.  A plain receive must not follow a plain send, for then
\* _dma_to_start (dbusc.c:74) starts the wrong channel.
THEOREM DBusCImplementsXfer ==
  ASSUME ~RecvAfterSend
  PROVE  Spec => ImplementsXfer
<1>1. Spec => []IInv BY DBusInvariant
<1>2. Init => XInv /\ Xfer!Init BY InitAbove
<1>3. IInv /\ XInv /\ [Next]_vars => XInv' /\ [Xfer!Next]_(Xfer!vars)
  BY NextAbove
<1> QED BY <1>1, <1>2, <1>3, PTL DEF Spec, ImplementsXfer, Xfer!Spec

-----------------------------------------------------------------------------
(* What is reported.                                                       *)

\* A channel works for a transfer of its kind.
OwnersOK ==
  /\ \A c \in Channels : ch[c].k \in {0} \cup Asked
  /\ \A c \in {"S", "SS"} : ch[c].k > 0 => req[ch[c].k].kind \in {"send1", "send2"}
  /\ ch["SR"].k > 0 => req[ch["SR"].k].kind = "sendrecv"

\* A channel that may report has not yet reported its transfer.
ReportsOK ==
  /\ \A m \in Reports : posted[m] > 0 => m[2] \in Asked
  /\ \A k \in 1..MaxRequests :
       posted[<<"S", k>>] > 0 => req[k].kind \in {"send1", "send2"}
  /\ \A m \in Reports : posted[m] <= 1
  /\ \A m \in Reports : m[1] \in donemsg /\ ch[m[1]].k = m[2] => posted[m] = 0

\* What is over was complete.
OverOK ==
  \A k \in over \ excused : /\ Len(got[k]) = req[k].send
                            /\ Len(buf[k]) = req[k].recv

\* What S and SS send, or will, is of nobody, given up or of the current transfer.
Owned(k) == k \in {0} \cup excused \/ (Sending /\ k = Current)
StaleOK ==
  /\ \A i \in 1..Len(txf) :
       /\ txf[i][1] \in {0} \cup Asked
       /\ Owned(txf[i][1]) \/ req[txf[i][1]].kind = "sendrecv"
  /\ \A c \in {"S", "SS"} : ch[c].left > 0 => Owned(ch[c].k)
  /\ ch["SS"].left > 0 => Owned(ch["S"].k)
  /\ cpu = "prepared" /\ req[Current].kind \in {"send1", "send2"} =>
       ch["S"].k = Current /\ ch[to_start].k = Current

\* An interrupt of the current transfer, and its report, come at the end of it.
EndOK ==
  /\ Sending /\ req[Current].kind # "sendrecv"
       /\ ("S" \in intr \/ posted[<<"S", Current>>] > 0) => cpu = "idle" /\ Silent
  /\ Receiving /\ posted[<<"R", Current>>] > 0 =>
       Len(buf[Current]) = req[Current].recv

RInv == OwnersOK /\ ReportsOK /\ OverOK /\ StaleOK /\ EndOK

-----------------------------------------------------------------------------
(* What its parts depend on.                                               *)

LEMMA OwnersFrame ==
  ASSUME RInv, req' = req, \A c \in Channels : ch'[c].k = ch[c].k
  PROVE  OwnersOK'
  BY DEF RInv, OwnersOK, Asked, Channels

LEMMA ReportsFrame ==
  ASSUME RInv, UNCHANGED <<req, posted>>, donemsg' \subseteq donemsg,
         ch'["S"].k = ch["S"].k, ch'["R"].k = ch["R"].k
  PROVE  ReportsOK'
<1>1. \A m \in Reports : m[1] \in {"S", "R"} BY DEF Reports
<1>2. \A m \in Reports : ch'[m[1]].k = ch[m[1]].k BY <1>1
<1>3. Asked' = Asked BY DEF Asked
<1> QED BY <1>2, <1>3 DEF RInv, ReportsOK

LEMMA OverFrame ==
  ASSUME RInv, UNCHANGED <<req, over, got, buf>>, excused \subseteq excused'
  PROVE  OverOK'
  BY DEF RInv, OverOK

\* Nothing new is to be sent, and what becomes of the current transfer is known.
LEMMA StaleFrame ==
  ASSUME IInv, RInv, UNCHANGED <<req, to_start>>, cpu' = "prepared" => cpu = "prepared",
         excused \subseteq excused', Sending => Sending' \/ Current \in excused',
         \A i \in 1..Len(txf') : \E j \in 1..Len(txf) : txf'[i] = txf[j],
         \A c \in {"S", "SS", "SR"} : ch'[c].k = ch[c].k,
         \A c \in {"S", "SS"} : ch'[c].left > 0 => ch[c].left > 0
  PROVE  StaleOK'
<1> DEFINE Later(k) == k \in {0} \cup excused' \/ (Sending' /\ k = Current')
<1>1. Current' = Current /\ Asked' = Asked BY DEF Current, Asked
<1>2. \A k : Owned(k) => Later(k) BY <1>1 DEF Owned
<1> HIDE DEF Later
<1>3. \A i \in 1..Len(txf') : /\ txf'[i][1] \in {0} \cup Asked'
                              /\ Later(txf'[i][1]) \/ req'[txf'[i][1]].kind = "sendrecv"
  <2> SUFFICES ASSUME NEW i \in 1..Len(txf')
               PROVE  /\ txf'[i][1] \in {0} \cup Asked'
                      /\ Later(txf'[i][1]) \/ req'[txf'[i][1]].kind = "sendrecv"
    OBVIOUS
  <2>1. PICK j \in 1..Len(txf) : txf'[i] = txf[j] OBVIOUS
  <2>2. /\ txf[j][1] \in {0} \cup Asked
        /\ Owned(txf[j][1]) \/ req[txf[j][1]].kind = "sendrecv"
    BY DEF RInv, StaleOK
  <2> QED BY <1>1, <1>2, <2>1, <2>2
<1>4. /\ \A c \in {"S", "SS"} : ch'[c].left > 0 => Later(ch'[c].k)
      /\ ch'["SS"].left > 0 => Later(ch'["S"].k)
  <2>1. /\ \A c \in {"S", "SS"} : ch'[c].left > 0 => Owned(ch[c].k)
        /\ ch'["SS"].left > 0 => Owned(ch["S"].k)
    BY DEF RInv, StaleOK
  <2> QED BY <1>2, <2>1
<1>5. cpu' = "prepared" /\ req'[Current'].kind \in {"send1", "send2"} =>
        ch'["S"].k = Current' /\ ch'[to_start'].k = Current'
  <2> SUFFICES ASSUME cpu = "prepared", req[Current].kind \in {"send1", "send2"}
               PROVE  ch'["S"].k = Current /\ ch'[to_start].k = Current
    BY <1>1
  <2>1. Current \in Asked BY DEF IInv, CommandOK, Asked, Current, TypeOK
  <2>2. to_start \in {"S", "SS"}
    BY <2>1, RequestFacts DEF IInv, SendOK, CommandOK
  <2> QED BY <2>2 DEF RInv, StaleOK
<1> QED BY <1>3, <1>4, <1>5 DEF StaleOK, Owned, Later

LEMMA EndFrame ==
  ASSUME RInv, UNCHANGED <<req, posted, buf>>, Sending' => Sending, Receiving' => Receiving,
         "S" \in intr' => "S" \in intr, cpu = "idle" => cpu' = "idle", Silent => Silent'
  PROVE  EndOK'
<1>1. Current' = Current BY DEF Current
<1> QED BY <1>1 DEF RInv, EndOK

sent == <<req, ch, posted, donemsg, over, excused, got, buf, txf, cpu, to_start, intr>>

LEMMA QuietReports ==
  ASSUME IInv, RInv, UNCHANGED sent PROVE RInv'
<1>1. UNCHANGED <<req, ch, posted, donemsg, over, excused, got, buf, txf, cpu, to_start, intr>>
  BY DEF sent
<1>2. (Sending' <=> Sending) /\ (Receiving' <=> Receiving) BY <1>1, SameTransfer
<1>3. OwnersOK' /\ ReportsOK' /\ OverOK'
  BY <1>1, OwnersFrame, ReportsFrame, OverFrame
<1>4. StaleOK' BY <1>1, <1>2, StaleFrame
<1>5. EndOK' BY <1>1, <1>2, EndFrame DEF Silent
<1> QED BY <1>3, <1>4, <1>5 DEF RInv

-----------------------------------------------------------------------------
(* The steps that move or take away bytes.                                 *)

LEMMA DataOutReports ==
  ASSUME IInv, XInv, RInv, DataOut PROVE RInv'
<1>1. /\ bus = "data_out" /\ txf # <<>> /\ txf' = Tail(txf)
      /\ got' = [got EXCEPT ![mon.k] = Append(@, Head(txf))]
      /\ UNCHANGED <<req, ch, posted, donemsg, over, excused, buf, cpu, to_start, intr>>
  BY DEF DataOut, cpuVars, dmaVars
<1>2. mon.k # 0 BY <1>1 DEF IInv, MonOK
<1>3. mon.k \notin over BY <1>2 DEF IInv, CommandOK
<1>4. got \in [1..MaxRequests -> Seq(Bytes)] /\ txf \in Seq(Bytes) /\ over \subseteq 1..MaxRequests
  BY DEF IInv, TypeOK
<1>5. (Sending' <=> Sending) /\ (Receiving' <=> Receiving) BY <1>1, SameTransfer
<1>6. OwnersOK' /\ ReportsOK' BY <1>1, OwnersFrame, ReportsFrame
<1>7. OverOK'
  <2>1. \A k \in over : got'[k] = got[k] BY <1>1, <1>3, <1>4
  <2> QED BY <1>1, <2>1 DEF RInv, OverOK
<1>8. StaleOK'
  <2>1. \A i \in 1..Len(txf') : \E j \in 1..Len(txf) : txf'[i] = txf[j]
    <3>1. \A i \in 1..Len(txf') : txf'[i] = txf[i + 1] /\ i + 1 \in 1..Len(txf)
      BY <1>1, <1>4
    <3> QED BY <3>1
  <2> QED BY <1>1, <1>5, <2>1, StaleFrame
<1>9. EndOK' BY <1>1, <1>5, EndFrame DEF Silent
<1> QED BY <1>6, <1>7, <1>8, <1>9 DEF RInv

LEMMA CancelStopReports ==
  ASSUME IInv, XInv, RInv, CancelStop PROVE RInv'
<1>1. /\ txf' = <<>> /\ rxf' = <<>> /\ excused' = excused \cup (Asked \ over)
      /\ UNCHANGED <<req, ch, posted, donemsg, over, got, buf, cpu, to_start, intr>>
  BY DEF CancelStop, Cleared, cpuVars, dmaVars
<1>2. ~Sending' /\ ~Receiving' BY <1>1, GivenUp
<1>3. Sending => Current \in excused'
  BY <1>1, LiveFacts DEF Sending
<1>4. OwnersOK' /\ ReportsOK' BY <1>1, OwnersFrame, ReportsFrame
<1>5. OverOK' BY <1>1, OverFrame
<1>6. StaleOK'
  <2>1. 1..Len(txf') = {} BY <1>1
  <2> QED BY <1>1, <1>3, <2>1, StaleFrame
<1>7. EndOK' BY <1>2 DEF EndOK
<1> QED BY <1>4, <1>5, <1>6, <1>7 DEF RInv

LEMMA CancelAbortReports ==
  ASSUME IInv, XInv, RInv, CancelAbort PROVE RInv'
<1>1. /\ ch' = Stopped({"S", "R"}) /\ excused' = excused \cup (Asked \ over)
      /\ donemsg' = {}
      /\ UNCHANGED <<req, posted, over, got, buf, rxf, txf, cpu, to_start>>
  BY DEF CancelAbort, cpuVars, pioVars
<1>2. \A c \in Channels : ch'[c].k = ch[c].k /\ ch'[c].left = 0
  <2>1. ch \in [Channels -> Channel] BY DEF IInv, TypeOK, Channel
  <2>2. \A c \in Channels : ch'[c] = [ch[c] EXCEPT !.left = 0]
    BY <1>1 DEF Stopped, Aborted, Channels
  <2> QED BY <2>1, <2>2 DEF Channel
<1>3. \A c \in {"S", "SS", "SR", "R"} : ch'[c].k = ch[c].k /\ ch'[c].left = 0
  BY <1>2 DEF Channels
<1>4. ~Sending' /\ ~Receiving' BY <1>1, GivenUp
<1>5. Sending => Current \in excused'
  BY <1>1, LiveFacts DEF Sending
<1>6. OwnersOK' BY <1>1, <1>2, OwnersFrame
<1>7. ReportsOK' BY <1>1, <1>3, ReportsFrame
<1>8. OverOK' BY <1>1, OverFrame
<1>9. StaleOK' BY <1>1, <1>3, <1>5, StaleFrame
<1>10. EndOK' BY <1>4 DEF EndOK
<1> QED BY <1>6, <1>7, <1>8, <1>9, <1>10 DEF RInv

LEMMA DmaReceiveReports ==
  ASSUME IInv, XInv, RInv, DmaReceive PROVE RInv'
<1>1. /\ ch["R"].left > 0
      /\ ch' = [ch EXCEPT !["R"] = [ch["R"] EXCEPT !.pos = @ + 1, !.left = @ - 1]]
      /\ intr' = IF ch["R"].left = 1 THEN intr \cup {"R"} ELSE intr
      /\ buf' = IF ch["R"].k = 0 THEN buf
                ELSE [buf EXCEPT ![ch["R"].k] = Append(@, Head(rxf))]
      /\ UNCHANGED <<req, posted, donemsg, got, over, excused, txf, cpu, to_start>>
  BY DEF DmaReceive, CanReceive, cpuVars
<1>2. ch'["R"].k = ch["R"].k /\ \A c \in Senders : ch'[c] = ch[c]
  <2>1. ch \in [Channels -> Channel] BY DEF IInv, TypeOK, Channel
  <2> QED BY <1>1, <2>1 DEF Channel, Senders, Channels
<1>3. \A c \in {"S", "SS", "SR"} : ch'[c] = ch[c] BY <1>2 DEF Senders, Channels
<1>4. (Sending' <=> Sending) /\ (Receiving' <=> Receiving) /\ Current' = Current
  BY <1>1, SameTransfer
<1>5. /\ buf \in [1..MaxRequests -> Seq(Bytes)] /\ over \subseteq 1..MaxRequests
      /\ ch["R"].k \in 0..MaxRequests /\ ch["R"].left \in Nat
  BY DEF IInv, TypeOK, Channels
<1>6. ch["R"].k \in {0} \cup excused \/ (Receiving /\ ch["R"].k = Current)
  BY <1>1 DEF XInv, OthersOK
<1>7. OwnersOK' /\ ReportsOK'
  BY <1>1, <1>2, <1>3, OwnersFrame, ReportsFrame DEF Channels
<1>8. OverOK'
  <2>1. \A k \in over \ excused : k # ch["R"].k
    BY <1>5, <1>6, DBusCAssumption DEF Receiving, Live, IInv, CommandOK, Asked
  <2>2. \A k \in over \ excused : buf'[k] = buf[k] BY <1>1, <1>5, <2>1
  <2> QED BY <1>1, <2>2 DEF RInv, OverOK
<1>9. StaleOK' BY <1>1, <1>3, <1>4, StaleFrame
<1>10. EndOK'
  <2>1. "S" \in intr' <=> "S" \in intr BY <1>1
  <2>2. Silent' <=> Silent BY <1>3 DEF Silent
  <2>3. ASSUME Receiving, posted[<<"R", Current>>] > 0
        PROVE  Len(buf'[Current]) = req[Current].recv
    <3>1. Len(buf[Current]) = req[Current].recv BY <2>3 DEF RInv, EndOK
    <3>2. ch["R"].k # Current
      <4> SUFFICES ASSUME ch["R"].k = Current PROVE FALSE
        OBVIOUS
      <4>1. Running BY <1>1, <2>3, LiveFacts DEF XInv, ReceivedOK, Waiting, Landed, Receiving
      <4>2. Len(buf[Current]) \in Nat BY <2>3, LiveFacts DEF Receiving
      <4>3. Len(buf[Current]) + ch["R"].left = Len(buf[Current])
        BY <3>1, <4>1 DEF Running
      <4> QED BY <1>1, <1>5, <4>2, <4>3
    <3>3. buf'[Current] = buf[Current] BY <1>1, <1>5, <3>2
    <3> QED BY <3>1, <3>3
  <2> QED BY <1>1, <1>4, <2>1, <2>2, <2>3 DEF RInv, EndOK
<1> QED BY <1>7, <1>8, <1>9, <1>10 DEF RInv

\* The interrupt reports a channel once, when its block has ended.
LEMMA IrqDmaReports ==
  ASSUME IInv, XInv, RInv, IrqDma PROVE RInv'
<1> DEFINE due(m) == m[1] \in Pending \cap donemsg /\ ch[m[1]].k = m[2]
<1>1. /\ intr' = intr \ Pending /\ donemsg' = donemsg \ Pending /\ Pending \subseteq intr
      /\ posted' = [m \in Reports |-> posted[m] + (IF due(m) THEN 1 ELSE 0)]
      /\ IF "R" \in Pending THEN ch' = Rearmed ELSE ch' = ch
      /\ UNCHANGED <<req, got, buf, over, excused, txf, cpu, to_start>>
  BY DEF IrqDma, cpuVars, Pending
<1>2. /\ \A c \in {"S", "SS", "SR"} : ch'[c] = ch[c]
      /\ "R" \notin Pending => ch'["R"] = ch["R"]
      /\ ch'["R"].k = ch["R"].k \/ ch'["R"].k = 0
  <2>1. ch \in [Channels -> Channel] /\ ch["R"] \in Channel
    BY DEF IInv, TypeOK, Channel, Channels
  <2>2. CASE "R" \in Pending
    <3> DEFINE r == Started(Configured(ch["R"], 0, 0, 1))
    <3>1. r.k = 0
      <4>1. 0 \in 0..MaxRequests /\ 0 \in Nat /\ 1 \in Nat BY DBusCAssumption
      <4>2. Configured(ch["R"], 0, 0, 1) \in Channel /\ Configured(ch["R"], 0, 0, 1).k = 0
        BY <2>1, <4>1, ConfiguredFacts
      <4> QED BY <4>2, StartedFacts
    <3>2. ch' = [ch EXCEPT !["R"] = r] BY <1>1, <2>2 DEF Rearmed
    <3> HIDE DEF r
    <3> QED BY <2>1, <2>2, <3>1, <3>2 DEF Channels
  <2>3. CASE "R" \notin Pending BY <1>1, <2>3
  <2> QED BY <2>2, <2>3
<1>3. (Sending' <=> Sending) /\ (Receiving' <=> Receiving) /\ Current' = Current
      /\ Asked' = Asked
  BY <1>1, SameTransfer
<1>4. \A m \in Reports :
        /\ posted[m] \in Nat /\ m[1] \in {"S", "R"} /\ m[2] \in 1..MaxRequests
        /\ m = <<m[1], m[2]>>
        /\ posted'[m] = IF due(m) THEN posted[m] + 1 ELSE posted[m]
        /\ due(m) => posted[m] = 0
  <2> SUFFICES ASSUME NEW m \in Reports
               PROVE  /\ posted[m] \in Nat /\ m[1] \in {"S", "R"} /\ m[2] \in 1..MaxRequests
                      /\ m = <<m[1], m[2]>>
                      /\ posted'[m] = IF due(m) THEN posted[m] + 1 ELSE posted[m]
                      /\ due(m) => posted[m] = 0
    OBVIOUS
  <2>1. posted[m] \in Nat BY DEF IInv, TypeOK
  <2>2. m[1] \in {"S", "R"} /\ m[2] \in 1..MaxRequests /\ m = <<m[1], m[2]>>
    BY DEF Reports
  <2>3. posted'[m] = posted[m] + (IF due(m) THEN 1 ELSE 0) BY <1>1
  <2>4. due(m) => posted[m] = 0 BY DEF RInv, ReportsOK
  <2> QED BY <2>1, <2>2, <2>3, <2>4
<1>5. OwnersOK' BY <1>2, <1>3, <1>1 DEF RInv, OwnersOK, Channels
<1>6. ReportsOK'
  <2>1. \A m \in Reports : posted'[m] > 0 => m[2] \in Asked'
    <3> SUFFICES ASSUME NEW m \in Reports, posted'[m] > 0 PROVE m[2] \in Asked
      BY <1>3
    <3>1. CASE due(m)
      <4>1. ch[m[1]].k \in {0} \cup Asked BY <1>4 DEF RInv, OwnersOK, Channels
      <4> QED BY <1>4, <3>1, <4>1, DBusCAssumption
    <3>2. CASE ~due(m) BY <1>4, <3>2 DEF RInv, ReportsOK
    <3> QED BY <3>1, <3>2
  <2>2. \A k \in 1..MaxRequests :
          posted'[<<"S", k>>] > 0 => req[k].kind \in {"send1", "send2"}
    <3> SUFFICES ASSUME NEW k \in 1..MaxRequests, posted'[<<"S", k>>] > 0
                 PROVE  req[k].kind \in {"send1", "send2"}
      OBVIOUS
    <3>0. <<"S", k>> \in Reports /\ k > 0 BY DBusCAssumption DEF Reports
    <3>1. CASE due(<<"S", k>>)
      <4>1. ch["S"].k = k BY <3>1
      <4> QED BY <3>0, <4>1 DEF RInv, OwnersOK
    <3>2. CASE ~due(<<"S", k>>) BY <1>4, <3>0, <3>2 DEF RInv, ReportsOK
    <3> QED BY <3>1, <3>2
  <2>3. \A m \in Reports : posted'[m] <= 1
    <3> SUFFICES ASSUME NEW m \in Reports PROVE posted'[m] <= 1
      OBVIOUS
    <3>1. posted[m] <= 1 BY DEF RInv, ReportsOK
    <3> QED BY <1>4, <3>1
  <2>4. \A m \in Reports : m[1] \in donemsg' /\ ch'[m[1]].k = m[2] => posted'[m] = 0
    <3> SUFFICES ASSUME NEW m \in Reports, m[1] \in donemsg', ch'[m[1]].k = m[2]
                 PROVE  posted'[m] = 0
      OBVIOUS
    <3>1. m[1] \in donemsg /\ m[1] \notin Pending BY <1>1
    <3>2. ch'[m[1]] = ch[m[1]] BY <1>2, <1>4, <3>1
    <3>3. posted[m] = 0 BY <3>1, <3>2 DEF RInv, ReportsOK
    <3> QED BY <1>4, <3>1, <3>3
  <2> QED BY <1>1, <2>1, <2>2, <2>3, <2>4 DEF ReportsOK
<1>7. OverOK' BY <1>1, OverFrame
<1>8. StaleOK' BY <1>1, <1>2, <1>3, StaleFrame
<1>9. EndOK'
  <2>1. ASSUME Sending, req[Current].kind # "sendrecv",
               "S" \in intr' \/ posted'[<<"S", Current>>] > 0
        PROVE  cpu = "idle" /\ Silent
    <3>1. <<"S", Current>> \in Reports BY <2>1, LiveFacts DEF Sending, Reports
    <3>2. "S" \in intr \/ posted[<<"S", Current>>] > 0
      <4>1. due(<<"S", Current>>) => "S" \in intr BY <1>1
      <4> QED BY <1>1, <1>4, <2>1, <3>1, <4>1
    <3> QED BY <2>1, <3>2 DEF RInv, EndOK
  <2>2. ASSUME Receiving, posted'[<<"R", Current>>] > 0
        PROVE  Len(buf[Current]) = req[Current].recv
    <3>1. <<"R", Current>> \in Reports BY <2>2, LiveFacts DEF Receiving, Reports
    <3>2. CASE due(<<"R", Current>>)
      <4>1. "R" \in intr BY <1>1, <3>2
      <4> QED BY <2>2, <4>1 DEF XInv, ReceivedOK, Waiting, Running, Landed
    <3>3. CASE ~due(<<"R", Current>>)
      BY <1>4, <2>2, <3>1, <3>3 DEF RInv, EndOK
    <3> QED BY <3>2, <3>3
  <2>3. Silent' <=> Silent BY <1>2 DEF Silent
  <2> QED BY <1>1, <1>3, <2>1, <2>2, <2>3 DEF EndOK
<1> QED BY <1>5, <1>6, <1>7, <1>8, <1>9 DEF RInv

LEMMA IrqCtrlWriteReports ==
  ASSUME IInv, XInv, RInv, IrqCtrlWrite PROVE RInv'
<1>1. /\ bus = "ctrl_ready" /\ over' = (over \cup {mon.k}) \ ({0} \cup excused)
      /\ UNCHANGED <<req, got, buf, excused, txf, cpu, to_start, ch, intr, posted, donemsg>>
  BY DEF IrqCtrlWrite, cpuVars, dmaVars
<1>2. mon.at = "report" /\ mon.take = 0
  BY <1>1 DEF IInv, MonOK, XInv, MonDone
<1>3. mon.k # 0 => /\ mon.k = Current /\ Current \in Asked /\ Current \notin over
                   /\ cpu = "idle" /\ mon.take + Len(got[Current]) = req[Current].send
  BY DEF IInv, CommandOK, MonOK
<1>4. 0 \notin over /\ over \cap excused = {} BY DEF IInv, TypeOK, XInv, HistOK
<1>5. CASE ~Live \/ mon.k = 0
  <2>1. mon.k = 0 \/ mon.k \in excused
    BY <1>3, <1>5 DEF Live, Asked, Current, IInv, TypeOK
  <2>2. over' = over BY <1>1, <1>4, <2>1
  <2> QED BY <1>1, <2>2, QuietReports DEF sent
<1>6. CASE Live /\ mon.k # 0
  <2>1. /\ Current \in Asked /\ mon.k = Current /\ Current \notin excused /\ Current > 0
        /\ Current' = Current
    BY <1>1, <1>3, <1>6, LiveFacts DEF Current
  <2>2. over' = over \cup {Current} /\ ~Receiving' /\ ~Sending'
    <3>1. over' = over \cup {Current} BY <1>1, <1>4, <2>1
    <3> QED BY <2>1, <3>1 DEF Live, Receiving, Sending
  <2>3. Len(got[Current]) = req[Current].send /\ req[Current].send \in Nat
        /\ got[Current] \in Seq(Bytes)
    <3>1. got[Current] \in Seq(Bytes) /\ req[Current].send \in Nat BY <1>6, LiveFacts
    <3>2. 0 + Len(got[Current]) = req[Current].send BY <1>2, <1>3, <1>6
    <3> QED BY <3>1, <3>2
  <2>4. Len(buf[Current]) = req[Current].recv
    <3>1. CASE Receiving BY <1>2, <2>1, <3>1 DEF XInv, ReceivedOK, Landed
    <3>2. CASE ~Receiving
      <4>1. buf[Current] = <<>> BY <1>6, <3>2 DEF XInv, HistOK
      <4>2. req[Current].recv = 0 BY <1>6, <3>2, LiveFacts DEF Receiving
      <4> QED BY <4>1, <4>2
    <3> QED BY <3>1, <3>2
  <2>5. OwnersOK' /\ ReportsOK' BY <1>1, OwnersFrame, ReportsFrame
  <2>6. OverOK' BY <1>1, <2>2, <2>3, <2>4 DEF RInv, OverOK
  <2>7. EndOK' BY <2>2 DEF EndOK
  <2>8. CASE ~Sending
    <3>1. StaleOK' BY <1>1, <2>8, StaleFrame
    <3> QED BY <2>5, <2>6, <2>7, <3>1 DEF RInv
  <2>9. CASE Sending
    <3> DEFINE x == Len(txf)
               u == Unsent
               n == Len(got[Current])
    <3>1. /\ ch["S"].left \in Nat /\ ch["SS"].left \in Nat /\ ch["SR"].left \in Nat
          /\ ch["S"].reload \in Nat /\ txf \in Seq(Bytes)
      BY DEF IInv, TypeOK, Channels
    <3>2. x \in Nat /\ n \in Nat BY <2>3, <3>1
    <3>3. u \in Nat BY <3>1 DEF Unsent
    <3>4. x + u + n = n
      BY <1>3, <2>1, <2>3, <2>9, <1>6 DEF IInv, Balance, Sending, Live
    <3>5. x = 0 /\ u = 0
      <4> HIDE DEF x, u, n
      <4> QED BY <3>2, <3>3, <3>4
    <3>6. req[Current].kind \in {"send1", "send2", "sendrecv"}
      BY <2>1, <2>9, RequestFacts DEF Sending, IInv
    <3>7. ch["S"].left = 0 /\ ch["SS"].left = 0
      BY <2>1, <3>1, <3>5, <3>6 DEF IInv, SendOK, Unsent
    <3>8. 1..Len(txf') = {} BY <1>1, <3>5
    <3>9. cpu' = "idle" BY <1>1, <1>3, <1>6
    <3>10. StaleOK' BY <1>1, <3>7, <3>8, <3>9 DEF StaleOK
    <3> QED BY <2>5, <2>6, <2>7, <3>10 DEF RInv
  <2> QED BY <2>8, <2>9
<1> QED BY <1>5, <1>6

LEMMA DmaSendReports ==
  ASSUME IInv, XInv, RInv, NEW c \in Senders, DmaSend(c) PROVE RInv'
<1>1. /\ txf' = Append(txf, <<ch[c].k, ch[c].pos + 1>>)
      /\ UNCHANGED <<req, got, buf, over, excused, cpu, to_start, posted, donemsg>>
  BY DEF DmaSend, cpuVars, histVars
<1>2. c \in {"S", "SS", "SR"} /\ txf \in Seq(Bytes)
  BY DEF Senders, Channels, IInv, TypeOK
<1>3. /\ ch[c].left > 0 /\ ch'[c].left = ch[c].left - 1
      /\ \A d \in Channels : ch'[d].k = ch[d].k
      /\ \A d \in {"R", "S", "SS", "SR"} : ch'[d].k = ch[d].k
      /\ \A d \in {"R", "S", "SS", "SR"} \ {c} :
           ch'[d].left = IF ch[c].left = 1 /\ <<c, d>> \in {<<"SS", "S">>, <<"SR", "R">>}
                         THEN ch[d].reload ELSE ch[d].left
  BY SendFacts DEF Channels
<1>4. "S" \in intr' => "S" \in intr \/ (c = "S" /\ ch["S"].left = 1)
  <2> DEFINE m == [ch[c] EXCEPT !.pos = @ + 1, !.left = @ - 1]
             moved == [ch EXCEPT ![c] = m]
  <2>1. intr' = IF moved[c].left = 0 THEN intr \cup {c} ELSE intr
    BY DEF DmaSend
  <2>2. moved[c].left = ch[c].left - 1 /\ ch[c].left \in Nat
    <3>1. ch \in [Channels -> Channel] /\ c \in Channels
      BY DEF IInv, TypeOK, Channel, Senders
    <3> QED BY <3>1 DEF Channel
  <2> HIDE DEF moved
  <2> QED BY <2>1, <2>2
<1>5. (Sending' <=> Sending) /\ (Receiving' <=> Receiving) /\ Current' = Current
      /\ Asked' = Asked
  BY <1>1, SameTransfer
<1>6. OwnersOK' /\ ReportsOK' /\ OverOK'
  BY <1>1, <1>3, OwnersFrame, ReportsFrame, OverFrame
<1>7. StaleOK'
  <2> DEFINE Later(k) == k \in {0} \cup excused' \/ (Sending' /\ k = Current')
  <2>1. \A k : Owned(k) => Later(k) BY <1>1, <1>5 DEF Owned
  <2> HIDE DEF Later
  <2>2. \A i \in 1..Len(txf') : /\ txf'[i][1] \in {0} \cup Asked'
                                /\ Later(txf'[i][1]) \/ req'[txf'[i][1]].kind = "sendrecv"
    <3>1. ch[c].k \in {0} \cup Asked BY <1>2 DEF RInv, OwnersOK, Channels
    <3>2. Owned(ch[c].k) \/ req[ch[c].k].kind = "sendrecv"
      <4>1. CASE c \in {"S", "SS"} BY <1>3, <4>1 DEF RInv, StaleOK
      <4>2. CASE c = "SR"
        <5>1. ch[c].k = 0 \/ ch[c].k > 0 BY <3>1 DEF Asked
        <5> QED BY <4>2, <5>1 DEF RInv, OwnersOK, Owned
      <4> QED BY <1>2, <4>1, <4>2
    <3>3. \A i \in 1..Len(txf) : /\ txf[i][1] \in {0} \cup Asked
                                 /\ Owned(txf[i][1]) \/ req[txf[i][1]].kind = "sendrecv"
      BY DEF RInv, StaleOK
    <3>4. \A i \in 1..Len(txf') : txf'[i][1] = ch[c].k \/ (i \in 1..Len(txf) /\ txf'[i] = txf[i])
      BY <1>1, <1>2
    <3> QED BY <1>1, <1>5, <2>1, <3>1, <3>2, <3>3, <3>4
  <2>3. \A d \in {"S", "SS"} : ch'[d].left > 0 => Owned(ch[d].k)
    <3>1. CASE c = "S" BY <1>3, <3>1 DEF RInv, StaleOK
    <3>2. CASE c = "SS" BY <1>3, <3>2 DEF RInv, StaleOK
    <3>3. CASE c = "SR" BY <1>3, <3>3 DEF RInv, StaleOK
    <3> QED BY <1>2, <3>1, <3>2, <3>3
  <2>4. ch'["SS"].left > 0 => Owned(ch["S"].k)
    <3>1. CASE c = "SS" BY <1>3, <3>1 DEF RInv, StaleOK
    <3>2. CASE c # "SS"
      <4>1. ch'["SS"].left = ch["SS"].left BY <1>2, <1>3, <3>2
      <4> QED BY <4>1 DEF RInv, StaleOK
    <3> QED BY <3>1, <3>2
  <2>5. cpu' = "prepared" /\ req'[Current'].kind \in {"send1", "send2"} =>
          ch'["S"].k = Current' /\ ch'[to_start'].k = Current'
    <3>1. to_start \in Channels BY DEF IInv, TypeOK
    <3> QED BY <1>1, <1>3, <1>5, <3>1 DEF RInv, StaleOK
  <2> QED BY <1>3, <2>1, <2>2, <2>3, <2>4, <2>5 DEF StaleOK, Owned, Later
<1>8. EndOK'
  <2>1. ASSUME Sending, req[Current].kind # "sendrecv",
               "S" \in intr' \/ posted[<<"S", Current>>] > 0
        PROVE  cpu = "idle" /\ Silent'
    <3>1. Current > 0 /\ Current \in Asked /\ req[Current].send > 0
      BY <2>1, LiveFacts DEF Sending
    <3>2. req[Current].kind \in {"send1", "send2"}
      BY <2>1, <3>1, RequestFacts DEF IInv
    <3>3. ~Silent BY <1>2, <1>3 DEF Silent
    <3>4. c = "S" /\ ch["S"].left = 1 BY <1>4, <2>1, <3>3 DEF RInv, EndOK
    <3>5. ch["SS"].left = 0 /\ ch["SR"].left = 0
      <4>1. ch["SS"].left \in Nat /\ ch["S"].left # 0 BY <3>4 DEF IInv, TypeOK, Channels
      <4> QED BY <3>1, <3>2, <4>1 DEF IInv, SendOK
    <3>6. cpu = "idle" BY <3>1, <3>3 DEF IInv, SendOK, TypeOK
    <3> QED BY <1>3, <3>4, <3>5, <3>6 DEF Silent
  <2> QED BY <1>1, <1>5, <2>1 DEF RInv, EndOK
<1> QED BY <1>6, <1>7, <1>8 DEF RInv

-----------------------------------------------------------------------------
(* The start and the preparation.                                          *)

LEMMA BeginReports ==
  ASSUME IInv, XInv, RInv, Begin PROVE RInv'
<1> DEFINE r == req[Current]
<1>1. /\ cpu = "prepared" /\ cpu' = "idle"
      /\ IF r.kind = "none" THEN ch' = ch
         ELSE ch' = [ch EXCEPT ![to_start] = Started(ch[to_start])]
      /\ UNCHANGED <<req, intr, txf, got, buf, over, excused, posted, donemsg>>
  BY DEF Begin, pioVars, histVars
<1>2. Current > 0 /\ Current \notin over BY <1>1 DEF IInv, CommandOK
<1>3. Current \in Asked BY <1>2 DEF IInv, TypeOK, Asked, Current
<1>4. /\ r.kind \in {"none", "send1", "send2", "recv", "sendrecv"}
      /\ r.kind \in {"none", "recv"} <=> r.send = 0
      /\ r.kind \in {"recv", "sendrecv"} <=> r.recv > 0
      /\ r.send \in Nat
  BY <1>3, RequestFacts DEF IInv
<1>5. \A c \in Channels :
        /\ ch'[c].k = ch[c].k
        /\ c # to_start \/ r.kind = "none" => ch'[c].left = ch[c].left
  <2>1. ch \in [Channels -> Channel] /\ to_start \in Channels
    BY DEF IInv, TypeOK, Channel
  <2>2. CASE r.kind = "none" BY <1>1, <2>2
  <2>3. CASE r.kind # "none"
    <3>1. ch[to_start] \in Channel BY <2>1
    <3> QED BY <1>1, <2>1, <2>3, <3>1, StartedFacts
  <2> QED BY <2>2, <2>3
<1>6. \A c \in {"S", "SS", "SR", "R"} :
        /\ ch'[c].k = ch[c].k
        /\ c # to_start \/ r.kind = "none" => ch'[c].left = ch[c].left
  BY <1>5 DEF Channels
<1>7. /\ Current' = Current /\ Asked' = Asked
      /\ (Receiving' <=> Receiving) /\ (Sending' <=> Sending)
  BY <1>1, SameTransfer
<1>8. OwnersOK' /\ ReportsOK' /\ OverOK'
  BY <1>1, <1>5, <1>6, OwnersFrame, ReportsFrame, OverFrame
<1>9. StaleOK'
  <2> DEFINE Later(k) == k \in {0} \cup excused' \/ (Sending' /\ k = Current')
  <2>1. \A k : Owned(k) => Later(k) BY <1>1, <1>7 DEF Owned
  <2>2. r.kind \in {"send1", "send2"} => Later(Current)
    BY <1>1, <1>2, <1>4, <1>7 DEF Sending, Live
  <2> HIDE DEF Later
  <2>3. ASSUME to_start \in {"S", "SS"}, r.kind # "none"
        PROVE  Later(ch["S"].k) /\ Later(ch[to_start].k)
    <3>1. ~(r.recv > 0) BY <1>1, <2>3 DEF XInv, StartOK
    <3>2. r.kind \in {"send1", "send2"} BY <1>4, <2>3, <3>1
    <3> QED BY <1>1, <2>2, <3>2 DEF RInv, StaleOK
  <2>4. \A c \in {"S", "SS"} : ch'[c].left > 0 => Later(ch'[c].k)
    <3> SUFFICES ASSUME NEW c \in {"S", "SS"}, ch'[c].left > 0 PROVE Later(ch[c].k)
      BY <1>6
    <3>1. CASE c = to_start /\ r.kind # "none" BY <2>3, <3>1
    <3>2. CASE c # to_start \/ r.kind = "none"
      <4>1. ch[c].left > 0 BY <1>6, <3>2
      <4> QED BY <2>1, <4>1 DEF RInv, StaleOK
    <3> QED BY <3>1, <3>2
  <2>5. ch'["SS"].left > 0 => Later(ch'["S"].k)
    <3> SUFFICES ASSUME ch'["SS"].left > 0 PROVE Later(ch["S"].k)
      BY <1>6
    <3>1. CASE to_start = "SS" /\ r.kind # "none" BY <2>3, <3>1
    <3>2. CASE to_start # "SS" \/ r.kind = "none"
      <4>1. ch["SS"].left > 0 BY <1>6, <3>2
      <4> QED BY <2>1, <4>1 DEF RInv, StaleOK
    <3> QED BY <3>1, <3>2
  <2>6. \A i \in 1..Len(txf') : /\ txf'[i][1] \in {0} \cup Asked'
                                /\ Later(txf'[i][1]) \/ req'[txf'[i][1]].kind = "sendrecv"
    BY <1>1, <1>7, <2>1 DEF RInv, StaleOK
  <2> QED BY <1>1, <2>4, <2>5, <2>6 DEF StaleOK, Owned, Later
<1>10. EndOK'
  <2>1. ~(cpu = "idle") BY <1>1
  <2> QED BY <1>1, <1>7, <2>1 DEF RInv, EndOK
<1> QED BY <1>8, <1>9, <1>10 DEF RInv

LEMMA PrepareReports ==
  ASSUME IInv, XInv, RInv, Prepare PROVE RInv'
<1> DEFINE k == Len(req) + 1
<1>1. PICK r \in Requests :
        /\ req' = Append(req, r)
        /\ ch' = Prepared(r, Len(req'), Stopped(Cancelled(r)))
        /\ intr' = intr \ Cancelled(r)
        /\ donemsg' = IF r.kind = "sendrecv" THEN {"R"} ELSE donemsg \cup Cancelled(r)
        /\ to_start' = First(r)
        /\ IF r.kind = "none" THEN UNCHANGED txf ELSE txf' = <<>>
  BY DEF Prepare, Cleared
<1>2. /\ Len(req) < MaxRequests /\ cpu' = "prepared"
      /\ UNCHANGED <<got, buf, over, excused, posted>>
  BY DEF Prepare, histVars
<1>3. /\ Len(req') = k /\ req'[k] = r
      /\ \A j \in 1..Len(req) : req'[j] = req[j]
      /\ Len(req) \in Nat /\ k \in 1..MaxRequests /\ k \in 0..MaxRequests
      /\ Len(req) < k
  <2>1. req \in Seq(Requests) BY DEF IInv, TypeOK
  <2>2. Len(req) \in Nat BY <2>1
  <2> QED BY <1>1, <1>2, <2>1, <2>2, DBusCAssumption
<1>4. /\ Current' = k /\ Asked' = Asked \cup {k} /\ k \notin Asked /\ k > 0
      /\ \A j \in Asked : req'[j] = req[j] /\ j > 0
  BY <1>3 DEF Current, Asked
<1> HIDE DEF k
<1>5. /\ r.kind \in {"none", "send1", "send2", "recv", "sendrecv"}
      /\ r.kind \in {"none", "recv"} <=> r.send = 0
      /\ r.kind \in {"recv", "sendrecv"} <=> r.recv > 0
  BY DBusCAssumption
<1>6. ch' = Prepared(r, k, Stopped(Cancelled(r))) BY <1>1, <1>3
<1>7. /\ r.kind = "none" => ch' = ch
      /\ r.kind = "send1" =>
           /\ ch'["S"].left = 0 /\ ch'["SS"].left = 0 /\ ch'["S"].k = k
           /\ ch'["R"] = ch["R"] /\ ch'["SR"] = ch["SR"]
      /\ r.kind = "send2" =>
           /\ ch'["S"].left = 0 /\ ch'["SS"].left = 0 /\ ch'["S"].k = k
           /\ ch'["R"] = ch["R"] /\ ch'["SR"] = ch["SR"]
      /\ r.kind = "recv" =>
           /\ ch'["R"].k = k /\ ch'["S"] = ch["S"] /\ ch'["SS"] = ch["SS"]
      /\ r.kind = "sendrecv" =>
           /\ ch'["S"].left = 0 /\ ch'["SS"].left = 0 /\ ch'["R"].k = k
  BY <1>3, <1>6, PreparedFacts
<1>8. /\ r.kind = "send1" => ch'["SS"].k = ch["SS"].k
      /\ r.kind = "send2" => ch'["SS"].k = k
      /\ r.kind = "recv" => ch'["SR"].k = ch["SR"].k
      /\ r.kind = "sendrecv" => /\ ch'["SR"].k = k /\ ch'["S"].k = ch["S"].k
                                /\ ch'["SS"].k = ch["SS"].k
  BY <1>3, <1>6, PreparedBlocks
<1>9. /\ ch'["S"].k = ch["S"].k \/ (ch'["S"].k = k /\ r.kind \in {"send1", "send2"})
      /\ ch'["SS"].k = ch["SS"].k \/ (ch'["SS"].k = k /\ r.kind \in {"send1", "send2"})
      /\ ch'["SR"].k = ch["SR"].k \/ (ch'["SR"].k = k /\ r.kind = "sendrecv")
      /\ ch'["R"].k = ch["R"].k \/ ch'["R"].k = k
  BY <1>5, <1>7, <1>8
<1>10. ~Sending
  BY QuietNotLive DEF Prepare, Sending
<1>11. over \subseteq Asked BY DEF IInv, CommandOK
<1>12. \A m \in Reports : /\ m[1] \in {"S", "R"} /\ m[2] \in 1..MaxRequests
                          /\ posted[m] \in Nat /\ (m[2] \notin Asked => posted[m] = 0)
  <2>1. \A m \in Reports : m[1] \in {"S", "R"} /\ m[2] \in 1..MaxRequests BY DEF Reports
  <2>2. \A m \in Reports : posted[m] \in Nat BY DEF IInv, TypeOK
  <2> QED BY <2>1, <2>2 DEF RInv, ReportsOK
<1>13. OwnersOK'
  <2>1. \A c \in Channels : ch'[c].k \in {0} \cup Asked'
    BY <1>4, <1>9 DEF RInv, OwnersOK, Channels
  <2>2. \A c \in {"S", "SS"} : ch'[c].k > 0 => req'[ch'[c].k].kind \in {"send1", "send2"}
    BY <1>3, <1>4, <1>9 DEF RInv, OwnersOK, Channels
  <2>3. ch'["SR"].k > 0 => req'[ch'["SR"].k].kind = "sendrecv"
    BY <1>3, <1>4, <1>9 DEF RInv, OwnersOK, Channels
  <2> QED BY <2>1, <2>2, <2>3 DEF OwnersOK
<1>14. ReportsOK'
  <2>1. \A j \in 1..MaxRequests :
          posted[<<"S", j>>] > 0 => req'[j].kind \in {"send1", "send2"}
    <3> SUFFICES ASSUME NEW j \in 1..MaxRequests, posted[<<"S", j>>] > 0
                 PROVE  req'[j].kind \in {"send1", "send2"}
      OBVIOUS
    <3>1. <<"S", j>> \in Reports BY DEF Reports
    <3>2. j \in Asked BY <1>12, <3>1
    <3> QED BY <1>4, <3>2 DEF RInv, ReportsOK
  <2>2. \A d \in donemsg' : ch'[d].k = k \/ (d \in donemsg /\ ch'[d].k = ch[d].k)
    <3>1. donemsg \subseteq {"S", "R"} BY DEF IInv, TypeOK
    <3>2. CASE r.kind = "none" BY <1>1, <1>7, <3>2 DEF Cancelled
    <3>3. CASE r.kind \in {"send1", "send2"}
      <4>1. donemsg' = donemsg \cup {"S"} BY <1>1, <3>3 DEF Cancelled
      <4> QED BY <1>7, <3>1, <3>3, <4>1
    <3>4. CASE r.kind = "recv"
      <4>1. donemsg' = donemsg \cup {"R"} BY <1>1, <3>4 DEF Cancelled
      <4> QED BY <1>7, <3>1, <3>4, <4>1
    <3>5. CASE r.kind = "sendrecv" BY <1>1, <1>7, <3>5
    <3> QED BY <1>5, <3>2, <3>3, <3>4, <3>5
  <2>3. ASSUME NEW m \in Reports, m[1] \in donemsg', ch'[m[1]].k = m[2]
        PROVE  posted[m] = 0
    <3>1. CASE ch'[m[1]].k = k BY <1>4, <1>12, <2>3, <3>1
    <3>2. CASE m[1] \in donemsg /\ ch'[m[1]].k = ch[m[1]].k
      BY <2>3, <3>2 DEF RInv, ReportsOK
    <3> QED BY <2>2, <2>3, <3>1, <3>2
  <2>4. /\ \A m \in Reports : posted[m] > 0 => m[2] \in Asked'
        /\ \A m \in Reports : posted[m] <= 1
    BY <1>4 DEF RInv, ReportsOK
  <2> QED BY <1>2, <2>1, <2>3, <2>4 DEF ReportsOK
<1>15. OverOK' BY <1>2, <1>4, <1>11 DEF RInv, OverOK
<1>16. StaleOK'
  <2> DEFINE Later(j) == j \in {0} \cup excused' \/ (Sending' /\ j = Current')
  <2>1. \A j : Owned(j) => Later(j) BY <1>2, <1>10 DEF Owned
  <2>2. Later(0) OBVIOUS
  <2> HIDE DEF Later
  <2>3. \A i \in 1..Len(txf') : /\ txf'[i][1] \in {0} \cup Asked'
                                /\ Later(txf'[i][1]) \/ req'[txf'[i][1]].kind = "sendrecv"
    <3>1. CASE r.kind = "none"
      <4> SUFFICES ASSUME NEW i \in 1..Len(txf)
                   PROVE  /\ txf[i][1] \in {0} \cup Asked'
                          /\ Later(txf[i][1]) \/ req'[txf[i][1]].kind = "sendrecv"
        BY <1>1, <3>1
      <4>1. /\ txf[i][1] \in {0} \cup Asked
            /\ Owned(txf[i][1]) \/ req[txf[i][1]].kind = "sendrecv"
        BY DEF RInv, StaleOK
      <4> QED BY <1>4, <2>1, <2>2, <4>1
    <3>2. CASE r.kind # "none"
      <4>1. 1..Len(txf') = {} BY <1>1, <3>2
      <4> QED BY <4>1
    <3> QED BY <3>1, <3>2
  <2>4. /\ \A c \in {"S", "SS"} : ch'[c].left > 0 => Later(ch'[c].k)
        /\ ch'["SS"].left > 0 => Later(ch'["S"].k)
    <3>1. CASE r.kind \in {"none", "recv"}
      <4>1. ch'["S"] = ch["S"] /\ ch'["SS"] = ch["SS"] BY <1>7, <3>1
      <4>2. /\ \A c \in {"S", "SS"} : ch[c].left > 0 => Owned(ch[c].k)
            /\ ch["SS"].left > 0 => Owned(ch["S"].k)
        BY DEF RInv, StaleOK
      <4> QED BY <2>1, <4>1, <4>2
    <3>2. CASE r.kind \in {"send1", "send2", "sendrecv"}
      <4>1. ch'["S"].left = 0 /\ ch'["SS"].left = 0 BY <1>7, <3>2
      <4> QED BY <4>1
    <3> QED BY <1>5, <3>1, <3>2
  <2>5. req'[Current'].kind \in {"send1", "send2"} =>
          ch'["S"].k = Current' /\ ch'[to_start'].k = Current'
    <3>1. r.kind = "send1" => ch'["S"].k = k /\ to_start' = "S" BY <1>1, <1>7 DEF First
    <3>2. r.kind = "send2" => ch'["S"].k = k /\ ch'["SS"].k = k /\ to_start' = "SS"
      BY <1>1, <1>7, <1>8 DEF First
    <3> QED BY <1>3, <1>4, <3>1, <3>2
  <2> QED BY <2>3, <2>4, <2>5 DEF StaleOK, Owned, Later
<1>17. EndOK'
  <2>1. posted[<<"S", k>>] = 0 /\ posted[<<"R", k>>] = 0
    BY <1>3, <1>4, <1>12 DEF Reports
  <2>2. r.send > 0 /\ r.kind # "sendrecv" => "S" \notin intr'
    BY <1>1, <1>5 DEF Cancelled
  <2>3. req'[Current'] = r BY <1>3, <1>4
  <2>4. Sending' => r.send > 0 BY <2>3 DEF Sending
  <2> QED BY <1>2, <1>4, <2>1, <2>2, <2>3, <2>4 DEF EndOK
<1> QED BY <1>13, <1>14, <1>15, <1>16, <1>17 DEF RInv

LEMMA InitReports == ASSUME Init PROVE RInv
<1>1. /\ req = <<>> /\ Len(req) = 0 /\ cpu = "idle"
      /\ \A c \in Channels : ch[c].k = 0 /\ (c # "R" => ch[c].left = 0)
      /\ txf = <<>> /\ over = {} /\ excused = {} /\ intr = {} /\ donemsg = {}
      /\ posted = [m \in Reports |-> 0]
  BY DEF Init
<1>2. ~Sending /\ ~Receiving BY <1>1 DEF Sending, Receiving, Live, Current
<1>3. OwnersOK BY <1>1 DEF OwnersOK, Channels
<1>4. ReportsOK
  <2>1. \A k \in 1..MaxRequests : <<"S", k>> \in Reports BY DEF Reports
  <2> QED BY <1>1, <2>1 DEF ReportsOK
<1>5. StaleOK BY <1>1 DEF StaleOK, Channels
<1> QED BY <1>1, <1>2, <1>3, <1>4, <1>5 DEF RInv, OverOK, EndOK

LEMMA NextReports ==
  ASSUME IInv, XInv, RInv, [Next]_vars PROVE RInv'
<1>1. CASE Prepare BY <1>1, PrepareReports
<1>2. CASE Begin BY <1>2, BeginReports
<1>3. CASE DmaNext BY <1>3, DmaReceiveReports, DmaSendReports DEF DmaNext
<1>4. CASE IrqNext
  <2>1. CASE IrqCtrlRead \/ IrqDataRead
    <3>1. UNCHANGED sent
      BY <2>1 DEF IrqCtrlRead, IrqDataRead, sent, cpuVars, dmaVars, histVars
    <3> QED BY <3>1, QuietReports
  <2> QED BY <1>4, <2>1, IrqDmaReports, IrqCtrlWriteReports DEF IrqNext
<1>5. CASE PioNext
  <2>1. CASE CtrlOut \/ DataIn
    <3>1. UNCHANGED sent
      BY <2>1 DEF CtrlOut, DataIn, sent, cpuVars, dmaVars, histVars
    <3> QED BY <3>1, QuietReports
  <2> QED BY <1>5, <2>1, DataOutReports DEF PioNext
<1>6. CASE MonReadCtrl \/ MonReadData \/ MonWriteData \/ MonReport \/ UNCHANGED vars
  <2>1. UNCHANGED sent
    BY <1>6 DEF MonReadCtrl, MonReadData, MonWriteData, MonReport, vars, sent,
                cpuVars, dmaVars, pioVars, histVars
  <2> QED BY <2>1, QuietReports
<1>7. CASE CancelStop \/ CancelAbort BY <1>7, CancelStopReports, CancelAbortReports
<1> QED BY <1>1, <1>2, <1>3, <1>4, <1>5, <1>6, <1>7 DEF Next

\* What is left of the block when it is reported, and what came of it.
LEMMA ReportIsTrue ==
  ASSUME IInv, XInv, RInv PROVE ReportedOnce
<1> SUFFICES ASSUME NEW k \in Asked
             PROVE  /\ posted[<<"S", k>>] <= 1 /\ posted[<<"R", k>>] <= 1
                    /\ k \notin excused =>
                         /\ posted[<<"S", k>>] = 1 =>
                              Len(got[k]) + Of(k, txf) = req[k].send
                         /\ posted[<<"R", k>>] = 1 => Len(buf[k]) = req[k].recv
  BY DEF ReportedOnce
<1>1. /\ k \in 1..MaxRequests /\ k > 0 /\ req[k].send \in Nat /\ req[k].recv \in Nat
      /\ req[k].kind \in {"none", "recv"} <=> req[k].send = 0
  BY RequestFacts DEF IInv, Asked
<1>2. <<"S", k>> \in Reports /\ <<"R", k>> \in Reports BY <1>1 DEF Reports
<1>3. posted[<<"S", k>>] <= 1 /\ posted[<<"R", k>>] <= 1
  BY <1>2 DEF RInv, ReportsOK
<1>4. ASSUME k \notin excused, k \notin over PROVE k = Current /\ Live
  BY <1>1, <1>4 DEF XInv, HistOK, Live
<1>5. txf \in Seq(Bytes) /\ got[k] \in Seq(Bytes) /\ buf[k] \in Seq(Bytes)
  BY <1>1 DEF IInv, TypeOK
<1>6. ASSUME k \notin excused, posted[<<"S", k>>] = 1
      PROVE  Len(got[k]) + Of(k, txf) = req[k].send
  <2>1. req[k].kind \in {"send1", "send2"} BY <1>1, <1>6 DEF RInv, ReportsOK
  <2>2. CASE k \in over
    <3>1. Len(got[k]) = req[k].send BY <1>6, <2>2 DEF RInv, OverOK
    <3>2. \A i \in 1..Len(txf) : txf[i][1] # k
      <4> SUFFICES ASSUME NEW i \in 1..Len(txf), txf[i][1] = k PROVE FALSE
        OBVIOUS
      <4>1. Owned(k) \/ req[k].kind = "sendrecv" BY DEF RInv, StaleOK
      <4> QED BY <1>1, <1>6, <2>1, <2>2, <4>1 DEF Owned, Sending, Live
    <3>3. Of(k, txf) = 0 BY <1>5, <3>2, OfIs
    <3> QED BY <1>1, <3>1, <3>3
  <2>3. CASE k \notin over
    <3>1. k = Current /\ Sending
      <4>1. req[k].send > 0 BY <1>1, <2>1
      <4> QED BY <1>4, <1>6, <2>3, <4>1 DEF Sending
    <3>2. cpu = "idle" /\ Silent BY <1>6, <2>1, <3>1 DEF RInv, EndOK
    <3>3. Unsent = 0 BY <2>1, <3>1, <3>2 DEF Unsent, Silent
    <3>4. Len(txf) + 0 + Len(got[k]) = req[k].send
      BY <1>6, <2>3, <3>1, <3>2, <3>3 DEF IInv, Balance, Sending, Live
    <3>5. Of(k, txf) = Len(txf)
      <4>1. \A i \in 1..Len(txf) : txf[i][1] = k BY <3>1 DEF XInv, SentOK
      <4> QED BY <1>5, <4>1, OfIs
    <3> QED BY <1>1, <1>5, <3>4, <3>5
  <2> QED BY <2>2, <2>3
<1>7. ASSUME k \notin excused, posted[<<"R", k>>] = 1
      PROVE  Len(buf[k]) = req[k].recv
  <2>1. CASE k \in over BY <1>7, <2>1 DEF RInv, OverOK
  <2>2. CASE k \notin over
    <3>1. k = Current /\ Live BY <1>4, <1>7, <2>2
    <3>2. CASE Receiving BY <1>7, <3>1, <3>2 DEF RInv, EndOK
    <3>3. CASE ~Receiving
      <4>1. buf[k] = <<>> BY <3>1, <3>3 DEF XInv, HistOK
      <4>2. req[k].recv = 0 BY <1>1, <3>1, <3>3 DEF Receiving
      <4> QED BY <4>1, <4>2
    <3> QED BY <3>2, <3>3
  <2> QED BY <2>1, <2>2
<1> QED BY <1>3, <1>6, <1>7

\* _irq_dma_pio (dbusc.c) posts the end of a transfer at most once in its direction,
\* and only when all its bytes are in the FIFO or have been read, or are in the
\* receive buffer, whatever interrupts were pending when the next was prepared.
THEOREM DBusReportedOnce ==
  ASSUME ~RecvAfterSend
  PROVE  Spec => []ReportedOnce
<1>1. Spec => []IInv BY DBusInvariant
<1>2. Init => XInv BY InitAbove
<1>3. IInv /\ XInv /\ [Next]_vars => XInv' BY NextAbove
<1>4. Init => RInv BY InitReports
<1>5. IInv /\ XInv /\ RInv /\ [Next]_vars => RInv' BY NextReports
<1>6. IInv /\ XInv /\ RInv => ReportedOnce BY ReportIsTrue
<1> QED BY <1>1, <1>2, <1>3, <1>4, <1>5, <1>6, PTL DEF Spec

-----------------------------------------------------------------------------
(* The receiver, as long as nothing has been cancelled.                    *)

\* It waits for a byte nobody expects, has an interrupt to come that lets it wait
\* for one again, or is busy for the current transfer.
Busy ==
  /\ Receiving /\ ch["R"].k = Current
  /\ cpu = "prepared" \/ ch["SR"].left > 0 \/ ch["R"].left > 0
Receiver ==
  \/ ch["R"].k = 0 /\ ch["R"].left = 1
  \/ ch["R"].left = 0 /\ "R" \in intr
  \/ Busy
ArmInv ==
  cancels = 0 =>
    /\ excused = {} /\ core1 = "idle"
    /\ to_start \in {"R", "SR"} => to_irqen = "R"
    /\ \/ "R" \in irqen
       \/ cpu = "prepared" /\ to_irqen = "R" /\ req[Current].kind # "none"
    /\ ch["SR"].left > 0 => Receiving
    /\ Receiver

armed == <<req, over, excused, cancels, core1, to_start, to_irqen, irqen, cpu, ch, intr>>

LEMMA ArmFrame ==
  ASSUME ArmInv, UNCHANGED armed PROVE ArmInv'
<1>1. UNCHANGED <<req, over, excused, cancels, core1, to_start, to_irqen, irqen, cpu, ch, intr>>
  BY DEF armed
<1>2. (Receiving' <=> Receiving) /\ Current' = Current BY <1>1, SameTransfer
<1> QED BY <1>1, <1>2 DEF ArmInv, Receiver, Busy

LEMMA CancelArm ==
  ASSUME IInv, ArmInv, CancelStop \/ CancelAbort PROVE ArmInv'
<1>1. CASE CancelStop
  <2>1. cancels' = cancels + 1 /\ cancels \in Nat
    BY <1>1 DEF CancelStop, IInv, TypeOK
  <2> QED BY <2>1 DEF ArmInv
<1>2. CASE CancelAbort
  <2>1. core1 = "stopped" /\ cancels' = cancels BY <1>2 DEF CancelAbort
  <2> QED BY <2>1 DEF ArmInv
<1> QED BY <1>1, <1>2

LEMMA DmaReceiveArm ==
  ASSUME IInv, XInv, ArmInv, DmaReceive PROVE ArmInv'
<1>1. /\ ch["R"].left > 0
      /\ ch' = [ch EXCEPT !["R"] = [ch["R"] EXCEPT !.pos = @ + 1, !.left = @ - 1]]
      /\ intr' = IF ch["R"].left = 1 THEN intr \cup {"R"} ELSE intr
      /\ UNCHANGED <<req, over, excused, cancels, core1, to_start, to_irqen, irqen, cpu>>
  BY DEF DmaReceive, CanReceive, cpuVars
<1>2. /\ ch'["R"].k = ch["R"].k /\ ch'["R"].left = ch["R"].left - 1
      /\ ch'["SR"] = ch["SR"] /\ ch["R"].left \in Nat
  <2>1. ch \in [Channels -> Channel] BY DEF IInv, TypeOK, Channel
  <2> QED BY <1>1, <2>1 DEF Channel, Channels
<1>3. (Receiving' <=> Receiving) /\ Current' = Current BY <1>1, SameTransfer
<1>4. cancels = 0 => Receiver'
  <2> SUFFICES ASSUME cancels = 0 PROVE Receiver'
    OBVIOUS
  <2>1. CASE ch["R"].left = 1
    <3>1. ch'["R"].left = 0 /\ "R" \in intr' BY <1>1, <1>2, <2>1
    <3> QED BY <3>1 DEF Receiver
  <2>2. CASE ch["R"].left # 1
    <3>1. ch'["R"].left > 0 BY <1>1, <1>2, <2>2
    <3>2. Busy BY <1>1, <2>2 DEF ArmInv, Receiver
    <3> QED BY <1>1, <1>2, <1>3, <3>1, <3>2 DEF Receiver, Busy
  <2> QED BY <2>1, <2>2
<1> QED BY <1>1, <1>2, <1>3, <1>4 DEF ArmInv

LEMMA IrqDmaArm ==
  ASSUME IInv, ArmInv, IrqDma PROVE ArmInv'
<1>1. /\ intr' = intr \ Pending
      /\ IF "R" \in Pending THEN ch' = Rearmed ELSE ch' = ch
      /\ UNCHANGED <<req, over, excused, cancels, core1, to_start, to_irqen, irqen, cpu>>
  BY DEF IrqDma, cpuVars
<1>2. (Receiving' <=> Receiving) /\ Current' = Current BY <1>1, SameTransfer
<1>3. CASE "R" \in Pending
  <2> DEFINE q == Configured(ch["R"], 0, 0, 1)
  <2>1. ch \in [Channels -> Channel] /\ ch["R"] \in Channel
    BY DEF IInv, TypeOK, Channel, Channels
  <2>2. Started(q).k = 0 /\ Started(q).left = 1
    <3>1. 0 \in 0..MaxRequests /\ 0 \in Nat /\ 1 \in Nat BY DBusCAssumption
    <3>2. q \in Channel /\ q.k = 0 /\ q.reload = 1 BY <2>1, <3>1, ConfiguredFacts
    <3> QED BY <3>2, StartedFacts
  <2>3. ch' = [ch EXCEPT !["R"] = Started(q)] BY <1>1, <1>3 DEF Rearmed
  <2> HIDE DEF q
  <2>4. ch'["R"].k = 0 /\ ch'["R"].left = 1 /\ ch'["SR"] = ch["SR"]
    BY <2>1, <2>2, <2>3 DEF Channels
  <2> QED BY <1>1, <1>2, <2>4 DEF ArmInv, Receiver
<1>4. CASE "R" \notin Pending
  <2>1. ch' = ch /\ ("R" \in intr' <=> "R" \in intr) BY <1>1, <1>4
  <2> QED BY <1>1, <1>2, <2>1 DEF ArmInv, Receiver, Busy
<1> QED BY <1>3, <1>4

LEMMA IrqCtrlWriteArm ==
  ASSUME IInv, XInv, ArmInv, IrqCtrlWrite PROVE ArmInv'
<1>1. /\ bus = "ctrl_ready" /\ over' = (over \cup {mon.k}) \ ({0} \cup excused)
      /\ UNCHANGED <<req, excused, cancels, core1, to_start, to_irqen, irqen, cpu, ch, intr>>
  BY DEF IrqCtrlWrite, cpuVars, dmaVars
<1>2. mon.at = "report" BY <1>1 DEF IInv, MonOK
<1>3. mon.k # 0 => mon.k = Current BY DEF IInv, CommandOK
<1>4. Current' = Current /\ 0 \notin over /\ over \cap excused = {}
  BY <1>1 DEF Current, IInv, TypeOK, XInv, HistOK
<1>5. CASE mon.k = 0 \/ ~Receiving
  <2>1. Receiving' <=> Receiving
    BY <1>1, <1>3, <1>4, <1>5 DEF Receiving, Live
  <2> QED BY <1>1, <1>4, <2>1 DEF ArmInv, Receiver, Busy
<1>6. CASE mon.k # 0 /\ Receiving
  <2>1. Landed BY <1>2, <1>3, <1>6 DEF XInv, ReceivedOK
  <2>2. ch["SR"].left = 0 /\ cpu = "idle" /\ (ch["R"].k = 0 \/ ch["R"].left = 0)
    BY <2>1 DEF Landed
  <2>3. Current > 0 BY <1>6 DEF Receiving, Live
  <2>4. cancels = 0 => Receiver' BY <1>1, <2>2, <2>3 DEF ArmInv, Receiver, Busy
  <2> QED BY <1>1, <1>4, <2>2, <2>4 DEF ArmInv
<1> QED BY <1>5, <1>6

LEMMA DmaSendArm ==
  ASSUME IInv, XInv, ArmInv, NEW c \in Senders, DmaSend(c) PROVE ArmInv'
<1>1. /\ intr' = intr \cup {c} \/ intr' = intr
      /\ UNCHANGED <<req, over, excused, cancels, core1, to_start, to_irqen, irqen, cpu>>
  BY DEF DmaSend, cpuVars, histVars
<1>2. c # "R" BY DEF Senders
<1>3. /\ ch[c].left > 0 /\ ch'["R"].k = ch["R"].k
      /\ c = "SR" => ch'["SR"].left = ch["SR"].left - 1
      /\ c # "SR" => ch'["SR"].left = ch["SR"].left /\ ch'["R"].left = ch["R"].left
      /\ c = "SR" => ch'["R"].left = IF ch["SR"].left = 1 THEN ch["R"].reload
                                     ELSE ch["R"].left
      /\ ch["SR"].left \in Nat
  <2>1. ch["SR"].left \in Nat BY DEF IInv, TypeOK, Channels
  <2> QED BY <1>2, <2>1, SendFacts DEF Channels, Senders
<1>4. (Receiving' <=> Receiving) /\ Current' = Current BY <1>1, SameTransfer
<1>5. ("R" \in intr' <=> "R" \in intr) BY <1>1, <1>2
<1>6. CASE c # "SR"
  BY <1>1, <1>3, <1>4, <1>5, <1>6 DEF ArmInv, Receiver, Busy
<1>7. CASE c = "SR" /\ cancels = 0
  <2>1. Receiving BY <1>3, <1>7 DEF ArmInv
  <2>2. Waiting BY <1>3, <1>7, <2>1 DEF XInv, ReceivedOK, Running, Landed
  <2>3. ch["R"].reload > 0 BY <2>1, <2>2 DEF Waiting, Receiving
  <2>4. ch'["SR"].left > 0 \/ ch'["R"].left > 0 BY <1>3, <1>7, <2>3
  <2>5. Receiver' BY <1>3, <1>4, <2>1, <2>2, <2>4 DEF Receiver, Busy, Waiting
  <2> QED BY <1>1, <1>4, <2>1, <2>5 DEF ArmInv
<1> QED BY <1>1, <1>6, <1>7 DEF ArmInv

LEMMA BeginArm ==
  ASSUME IInv, XInv, ArmInv, Begin PROVE ArmInv'
<1> DEFINE r == req[Current]
<1>1. /\ cpu = "prepared" /\ cpu' = "idle"
      /\ IF r.kind = "none" THEN ch' = ch /\ irqen' = irqen
         ELSE /\ irqen' = irqen \cup {to_irqen}
              /\ ch' = [ch EXCEPT ![to_start] = Started(ch[to_start])]
      /\ UNCHANGED <<req, over, excused, cancels, core1, to_start, to_irqen, intr>>
  BY DEF Begin, histVars
<1>2. Current > 0 /\ Current \notin over BY <1>1 DEF IInv, CommandOK
<1>3. Current \in Asked BY <1>2 DEF IInv, TypeOK, Asked, Current
<1>4. /\ r.kind \in {"none", "send1", "send2", "recv", "sendrecv"}
      /\ r.kind \in {"none", "recv"} <=> r.send = 0
      /\ r.kind \in {"recv", "sendrecv"} <=> r.recv > 0
      /\ r.send \in Nat
  BY <1>3, RequestFacts DEF IInv
<1>5. \A c \in {"SR", "R"} :
        /\ ch'[c].k = ch[c].k
        /\ ch'[c].left = IF c = to_start /\ r.kind # "none" THEN ch[c].reload ELSE ch[c].left
  <2>1. ch \in [Channels -> Channel] /\ to_start \in Channels
    BY DEF IInv, TypeOK, Channel
  <2>2. CASE r.kind = "none" BY <1>1, <2>2
  <2>3. CASE r.kind # "none"
    <3>1. ch[to_start] \in Channel BY <2>1
    <3> QED BY <1>1, <2>1, <2>3, <3>1, StartedFacts DEF Channels
  <2> QED BY <2>2, <2>3
<1>6. (Receiving' <=> Receiving) /\ Current' = Current BY <1>1, SameTransfer
<1> SUFFICES ASSUME cancels = 0 PROVE ArmInv'
  BY <1>1 DEF ArmInv
<1>7. Receiving <=> r.recv > 0 BY <1>2 DEF ArmInv, Receiving, Live
<1>8. to_start \in {"R", "SR"} /\ r.kind # "none" => Receiving
  <2>1. r.kind \in {"send1", "send2"} => to_start \in {"S", "SS"}
    BY <1>1, <1>2, <1>4 DEF IInv, SendOK
  <2> QED BY <1>4, <1>7, <2>1
<1>9. "R" \in irqen' BY <1>1 DEF ArmInv
<1>10. ch'["SR"].left > 0 => Receiving BY <1>5, <1>8 DEF ArmInv
<1>11. Receiver'
  <2>1. CASE Receiving
    <3>1. Waiting BY <1>1, <2>1 DEF XInv, ReceivedOK, Running, Landed
    <3>2. r.recv > 0 /\ r.kind # "none" BY <1>4, <1>7, <2>1
    <3>3. to_start \in {"R", "SR"} BY <1>1, <3>2 DEF XInv, StartOK
    <3>4. ch'["SR"].left > 0 \/ ch'["R"].left > 0
      <4>1. CASE to_start = "R" BY <1>5, <3>1, <3>2, <4>1 DEF Waiting
      <4>2. CASE to_start = "SR" BY <1>5, <3>2, <4>2 DEF XInv, StartOK
      <4> QED BY <3>3, <4>1, <4>2
    <3> QED BY <1>5, <1>6, <2>1, <3>1, <3>4 DEF Receiver, Busy, Waiting
  <2>2. CASE ~Receiving
    <3>1. ch'["R"].left = ch["R"].left /\ ch'["R"].k = ch["R"].k BY <1>5, <1>8, <2>2
    <3> QED BY <1>1, <2>2, <3>1 DEF ArmInv, Receiver, Busy
  <2> QED BY <2>1, <2>2
<1> QED BY <1>1, <1>6, <1>9, <1>10, <1>11 DEF ArmInv

LEMMA PrepareArm ==
  ASSUME IInv, XInv, ArmInv, Prepare, ~RecvAfterSend PROVE ArmInv'
<1> DEFINE k == Len(req) + 1
<1>1. PICK r \in Requests :
        /\ r.kind = "recv" /\ to_start \in {"S", "SS"} => RecvAfterSend
        /\ req' = Append(req, r)
        /\ ch' = Prepared(r, Len(req'), Stopped(Cancelled(r)))
        /\ irqen' = irqen \ Cancelled(r) /\ intr' = intr \ Cancelled(r)
        /\ to_start' = First(r)
        /\ to_irqen' = CASE r.kind \in {"none", "recv"} -> to_irqen
                         [] r.kind \in {"send1", "send2"} -> "S"
                         [] r.kind = "sendrecv" -> "R"
  BY DEF Prepare
<1>2. /\ cpu = "idle" /\ mon.at = "idle" /\ cmdstat = 0
      /\ cpu' = "prepared" /\ Len(req) < MaxRequests
      /\ UNCHANGED <<core1, over, excused, cancels>>
  BY DEF Prepare, Quiet, histVars
<1>3. /\ Len(req') = k /\ req'[k] = r /\ Len(req) \in Nat
      /\ k \in 1..MaxRequests /\ k \in 0..MaxRequests /\ Len(req) < k
  <2>1. req \in Seq(Requests) BY DEF IInv, TypeOK
  <2>2. Len(req) \in Nat BY <2>1
  <2> QED BY <1>1, <1>2, <2>1, <2>2, DBusCAssumption
<1>4. Current' = k /\ k > 0 /\ k \notin Asked BY <1>3 DEF Current, Asked
<1> HIDE DEF k
<1>5. /\ r.kind \in {"none", "send1", "send2", "recv", "sendrecv"}
      /\ r.kind \in {"recv", "sendrecv"} <=> r.recv > 0
  BY DBusCAssumption
<1>6. /\ r.kind = "none" => ch' = ch
      /\ r.kind \in {"send1", "send2"} => ch'["R"] = ch["R"]
      /\ r.kind \in {"recv", "sendrecv"} => ch'["R"].k = k
      /\ ch'["SR"].left = 0 \/ ch'["SR"].left = ch["SR"].left
  BY <1>1, <1>3, PreparedFacts
<1>7. ch'["SR"].left = 0
  <2>1. ch["SR"].left = 0 BY <1>2 DEF IInv, ChainOK
  <2> QED BY <1>6, <2>1
<1>8. Receiving' <=> r.recv > 0
  <2>1. over \subseteq Asked /\ excused \subseteq Asked
    BY DEF IInv, CommandOK, XInv, HistOK
  <2>2. Live' /\ req'[Current'] = r BY <1>2, <1>3, <1>4, <2>1 DEF Live
  <2> QED BY <2>2 DEF Receiving
<1> SUFFICES ASSUME cancels = 0 PROVE ArmInv'
  BY <1>2 DEF ArmInv
<1>9. /\ excused = {} /\ core1 = "idle" /\ "R" \in irqen
      /\ to_start \in {"R", "SR"} => to_irqen = "R"
  BY <1>2 DEF ArmInv
<1>10. \/ ch["R"].k = 0 /\ ch["R"].left = 1
       \/ ch["R"].left = 0 /\ "R" \in intr
  <2>1. ~Receiving BY QuietNotLive DEF Prepare, Receiving
  <2> QED BY <2>1 DEF ArmInv, Receiver, Busy
<1>11. to_start' \in {"R", "SR"} => to_irqen' = "R"
  <2>1. CASE r.kind \in {"none", "recv"} BY <1>1, <1>9, <2>1 DEF First
  <2>2. CASE r.kind \in {"send1", "send2"}
    <3>1. to_start' \in {"S", "SS"} BY <1>1, <2>2 DEF First
    <3> QED BY <3>1
  <2>3. CASE r.kind = "sendrecv" BY <1>1, <2>3
  <2> QED BY <1>5, <2>1, <2>2, <2>3
<1>12. "R" \in irqen' \/ (to_irqen' = "R" /\ r.kind # "none")
  <2>1. CASE r.kind \in {"none", "send1", "send2"}
    <3>1. "R" \notin Cancelled(r) BY <2>1 DEF Cancelled
    <3> QED BY <1>1, <1>9, <3>1
  <2>2. CASE r.kind = "recv"
    <3>1. to_start \in {"R", "SR"}
      <4>1. to_start \in Channels BY DEF IInv, TypeOK
      <4> QED BY <1>1, <2>2, <4>1 DEF Channels
    <3> QED BY <1>1, <1>9, <2>2, <3>1
  <2>3. CASE r.kind = "sendrecv" BY <1>1, <2>3
  <2> QED BY <1>5, <2>1, <2>2, <2>3
<1>13. Receiver'
  <2>1. CASE r.kind \in {"none", "send1", "send2"}
    <3>1. "R" \notin Cancelled(r) /\ ch'["R"] = ch["R"]
      BY <1>6, <2>1 DEF Cancelled
    <3> QED BY <1>1, <1>10, <3>1 DEF Receiver
  <2>2. CASE r.kind \in {"recv", "sendrecv"}
    <3>1. Receiving' /\ ch'["R"].k = Current' BY <1>4, <1>5, <1>6, <1>8, <2>2
    <3> QED BY <1>2, <3>1 DEF Receiver, Busy
  <2> QED BY <1>5, <2>1, <2>2
<1> QED BY <1>2, <1>3, <1>4, <1>7, <1>9, <1>11, <1>12, <1>13 DEF ArmInv

LEMMA InitArm == ASSUME Init PROVE ArmInv
<1>1. /\ ch["R"].k = 0 /\ ch["R"].left = 1 /\ ch["SR"].left = 0
      /\ excused = {} /\ core1 = "idle" /\ to_irqen = "R" /\ irqen = {"R", "S"}
  BY DEF Init, Channels
<1> QED BY <1>1 DEF ArmInv, Receiver

LEMMA NextArm ==
  ASSUME ~RecvAfterSend, IInv, XInv, ArmInv, [Next]_vars PROVE ArmInv'
<1>1. CASE Prepare BY <1>1, PrepareArm
<1>2. CASE Begin BY <1>2, BeginArm
<1>3. CASE DmaNext BY <1>3, DmaReceiveArm, DmaSendArm DEF DmaNext
<1>4. CASE IrqDma \/ IrqCtrlWrite BY <1>4, IrqDmaArm, IrqCtrlWriteArm
<1>5. CASE CancelStop \/ CancelAbort BY <1>5, CancelArm
<1>6. ASSUME IrqCtrlRead \/ IrqDataRead \/ PioNext \/ MonReadCtrl \/ MonReadData
             \/ MonWriteData \/ MonReport \/ UNCHANGED vars
      PROVE  ArmInv'
  <2>1. CASE IrqCtrlRead \/ IrqDataRead
    BY <2>1, ArmFrame DEF IrqCtrlRead, IrqDataRead, armed, cpuVars, dmaVars, histVars
  <2>2. CASE CtrlOut
    BY <2>2, ArmFrame DEF CtrlOut, armed, cpuVars, dmaVars, histVars
  <2>3. CASE DataOut
    BY <2>3, ArmFrame DEF DataOut, armed, cpuVars, dmaVars
  <2>4. CASE DataIn
    BY <2>4, ArmFrame DEF DataIn, armed, cpuVars, dmaVars, histVars
  <2>5. CASE MonReadCtrl \/ MonReadData \/ MonReport
    BY <2>5, ArmFrame
       DEF MonReadCtrl, MonReadData, MonReport, armed, cpuVars, dmaVars, histVars
  <2>6. CASE MonWriteData
    BY <2>6, ArmFrame DEF MonWriteData, armed, cpuVars, dmaVars
  <2>7. CASE UNCHANGED vars
    BY <2>7, ArmFrame DEF vars, armed, cpuVars, dmaVars, histVars
  <2> QED BY <1>6, <2>1, <2>2, <2>3, <2>4, <2>5, <2>6, <2>7 DEF PioNext
<1> QED BY <1>1, <1>2, <1>3, <1>4, <1>5, <1>6 DEF Next, IrqNext

LEMMA ArmedWhenQuiet ==
  ASSUME IInv, ArmInv PROVE ReceiverArmed
<1> SUFFICES ASSUME cancels = 0, Quiet, Pending = {}
             PROVE  ch["R"].k = 0 /\ ch["R"].left = 1
  BY DEF ReceiverArmed
<1>1. ~Receiving BY QuietNotLive DEF Receiving
<1>2. "R" \in irqen BY DEF ArmInv, Quiet
<1>3. "R" \notin intr BY <1>2 DEF Pending
<1> QED BY <1>1, <1>3 DEF ArmInv, Receiver, Busy

\* Whatever was transferred before, _irq_dma_pio (dbusc.c) has set the receiver up
\* for the default byte again whenever nothing is going on, and its interrupt is
\* enabled: as long as no command is cancelled and no plain receive follows a
\* plain send.
THEOREM DBusReceiverArmed ==
  ASSUME ~RecvAfterSend
  PROVE  Spec => []ReceiverArmed
<1>1. Spec => []IInv BY DBusInvariant
<1>2. Init => XInv /\ ArmInv BY InitAbove, InitArm
<1>3. IInv /\ XInv /\ ArmInv /\ [Next]_vars => XInv' /\ ArmInv'
  BY NextAbove, NextArm
<1>4. IInv /\ ArmInv => ReceiverArmed BY ArmedWhenQuiet
<1> QED BY <1>1, <1>2, <1>3, <1>4, PTL DEF Spec
=============================================================================

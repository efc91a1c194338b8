------------------------------- MODULE DBusC -------------------------------
(***************************************************************************)
(* The data bus of the debugger (src-rp/dbusc/dbusc.c and dbusc.pio): the  *)
(* transfers core 0 prepares for a command (dmcomm.c), four DMA channels,  *)
(* the state machines that hold the Z80 in WAIT until a byte is there, the *)
(* interrupt handlers, the monitor's side of a transfer (dbmon.z80), and   *)
(* a cancel by core 1.                                                     *)
(*                                                                         *)
(* Byte i of the send buffers of transfer k is <<k, i>>, and so is the     *)
(* i-th byte the monitor has for it; Default is _def_databuf.  A channel   *)
(* that is started again after its block goes on behind the buffer: bytes  *)
(* with an i past the end.  The shift register of the data state machine   *)
(* counts as the head of its FIFO.                                         *)
(***************************************************************************)
EXTENDS Naturals, Sequences, FiniteSets

CONSTANTS
  FifoDepth,      \* 4 in the RP2350
  Requests,       \* the transfers a command may ask for: [kind, send, second,
                  \* recv], where the last `second' bytes of `send' are chained
  MaxRequests, MaxCancels, MaxStrays,   \* bounds
  RecvAfterSend   \* a plain receive may be asked for after a plain send

ASSUME DBusCAssumption ==
  /\ FifoDepth \in Nat \ {0} /\ MaxRequests \in Nat
  /\ MaxCancels \in Nat /\ MaxStrays \in Nat /\ RecvAfterSend \in BOOLEAN
  /\ Requests \subseteq [kind : {"none", "send1", "send2", "recv", "sendrecv"},
                         send : Nat, second : Nat, recv : Nat]
  /\ \A r \in Requests :
       /\ r.second < r.send \/ r.second = 0
       /\ r.kind \in {"none", "recv"} <=> r.send = 0
       /\ r.kind \in {"recv", "sendrecv"} <=> r.recv > 0
       \* _dm_mp_opbuf: 3 bytes, less than the FIFO holds
       /\ r.kind = "sendrecv" => r.send <= FifoDepth

VARIABLES
  req,       \* the transfers prepared so far
  cpu,       \* core 0: "idle", or "prepared" in _handle_dmc_cmd_req
  core1,     \* core 1: "idle", or "stopped" in dbus_clear_wait
  ch,        \* DMA channel -> [k, pos, left, reload]
  to_start, to_irqen,  \* _dma_to_start, _dma_to_irqen
  irqen, intr,         \* the channels whose interrupt is enabled; is raised
  donemsg,   \* _dma_dsnddone_msg and _dma_drcvdone_msg are ..._XFER_DONE
  txf, rxf,  \* the FIFOs of the data state machine, to and from the Z80
  ctrlf,     \* the FIFO of the control state machine, to the Z80
  bus,       \* what the state machines wait for, the Z80 being held
  attn, cmdstat,   \* ATTN, and the command the CTRL port will give
  mon,       \* the monitor: [at, k, take, give]
  got, buf,  \* transfer -> bytes the monitor has read; its receive buffer
  posted,    \* <<channel, transfer>> -> XFER_DONE messages posted
  over, excused,   \* the transfers reported done; cancelled while not done
  dead,      \* those of the latter that were cancelled when fully started
  cancels, strays

cpuVars  == <<req, cpu, to_start, to_irqen>>
dmaVars  == <<ch, irqen, intr, donemsg>>
pioVars  == <<txf, rxf, ctrlf, bus>>
linkVars == <<attn, cmdstat>>
histVars == <<got, buf, posted, over, excused, dead, cancels, strays>>
vars == <<cpuVars, core1, dmaVars, pioVars, linkVars, mon, histVars>>

Channels == {"R", "S", "SR", "SS"}
Senders == Channels \ {"R"}
Default == <<0, 0>>
Asked == 1..Len(req)
Current == Len(req)
Reports == {"S", "R"} \X (1..MaxRequests)
MonIdle == [at |-> "idle", k |-> 0, take |-> 0, give |-> 0]

\* dma_channel_configure, dma_channel_start (and chaining), dma_channel_abort,
\* pio_sm_clear_fifos.
Configured_OneShort(c, k, p, n) ==
  [c EXCEPT !.k = k, !.pos = p, !.left = 0, !.reload = n - 1]
Configured(c, k, p, n) == [c EXCEPT !.k = k, !.pos = p, !.left = 0, !.reload = n]
Started(c) == [c EXCEPT !.left = c.reload]
Aborted(c) == [c EXCEPT !.left = 0]
Cleared_Not(fifo) == fifo
Cleared(fifo) == <<>>

Init ==
  /\ req = <<>> /\ cpu = "idle" /\ core1 = "idle"
  /\ ch = [c \in Channels |-> [k |-> 0, pos |-> 0, reload |-> 1,
                               left |-> IF c = "R" THEN 1 ELSE 0]]
  /\ to_start = "R" /\ to_irqen = "R" /\ irqen = {"R", "S"} /\ intr = {}
  /\ donemsg = {}
  /\ txf = <<>> /\ rxf = <<>> /\ ctrlf = <<>> /\ bus = "idle"
  /\ attn = FALSE /\ cmdstat = 0 /\ mon = MonIdle
  /\ got = [k \in 1..MaxRequests |-> <<>>] /\ buf = got
  /\ posted = [m \in Reports |-> 0]
  /\ over = {} /\ excused = {} /\ dead = {} /\ cancels = 0 /\ strays = 0

-----------------------------------------------------------------------------
(* Core 0: _handle_dmc_cmd_req. *)

\* The user waits for a command to be done before the next, and after a cancel
\* until the monitor has left the command he gave up.
Quiet ==
  /\ cpu = "idle" /\ bus = "idle" /\ mon.at = "idle" /\ ~attn /\ cmdstat = 0
  /\ Asked \subseteq over \cup excused

Cancelled(r) ==
  CASE r.kind = "none" -> {}
    [] r.kind \in {"send1", "send2"} -> {"S"}
    [] r.kind = "recv" -> {"R"}
    [] r.kind = "sendrecv" -> {"S", "R"}

\* dbus_cancel_send stops SS and S, dbus_cancel_recv SR and R.
Stopped_NotChained(cs) ==
  [c \in Channels |-> IF c \in cs THEN Aborted(ch[c]) ELSE ch[c]]
Stopped(cs) ==
  [c \in Channels |-> IF \/ c \in {"SS", "S"} /\ "S" \in cs
                         \/ c \in {"SR", "R"} /\ "R" \in cs
                      THEN Aborted(ch[c]) ELSE ch[c]]

\* dbus_prep_send1, send2, recv and sendrecv.
Prepared(r, k, c) ==
  CASE r.kind = "none" -> c
    [] r.kind = "send1" -> [c EXCEPT !["S"] = Configured(@, k, 0, r.send)]
    [] r.kind = "send2" ->
         [c EXCEPT !["SS"] = Configured(@, k, 0, r.send - r.second),
                   !["S"] = Configured(@, k, r.send - r.second, r.second)]
    [] r.kind = "recv" -> [c EXCEPT !["R"] = Configured(@, k, 0, r.recv)]
    [] r.kind = "sendrecv" ->
         [c EXCEPT !["SR"] = Configured(@, k, 0, r.send),
                   !["R"] = Configured(@, k, 0, r.recv)]

First(r) ==
  CASE r.kind \in {"none", "recv"} -> to_start
    [] r.kind = "send1" -> "S"
    [] r.kind = "send2" -> "SS"
    [] r.kind = "sendrecv" -> "SR"

Prepare ==
  /\ Quiet /\ Len(req) < MaxRequests
  /\ \E r \in Requests :
       /\ r.kind = "recv" /\ to_start \in {"S", "SS"} => RecvAfterSend
       /\ req' = Append(req, r)
       /\ ch' = Prepared(r, Len(req'), Stopped(Cancelled(r)))
       /\ irqen' = irqen \ Cancelled(r) /\ intr' = intr \ Cancelled(r)
       /\ donemsg' = IF r.kind = "sendrecv" THEN {"R"}
                     ELSE donemsg \cup Cancelled(r)
       /\ to_start' = First(r)
       /\ to_irqen' = CASE r.kind \in {"none", "recv"} -> to_irqen
                        [] r.kind \in {"send1", "send2"} -> "S"
                        [] r.kind = "sendrecv" -> "R"
       /\ IF r.kind = "none" THEN UNCHANGED <<txf, rxf>>
          ELSE txf' = Cleared(txf) /\ rxf' = Cleared(rxf)
  /\ cpu' = "prepared"
  /\ UNCHANGED <<core1, ctrlf, bus, linkVars, mon, histVars>>

\* _dm_cmd_prep, dbus_start_dataop and ATTN on.
Begin ==
  /\ cpu = "prepared"
  /\ IF req[Current].kind = "none" THEN UNCHANGED <<ch, irqen>>
     ELSE /\ irqen' = irqen \cup {to_irqen}
          /\ ch' = [ch EXCEPT ![to_start] = Started(@)]
  /\ cmdstat' = Current /\ attn' = TRUE /\ cpu' = "idle"
  /\ UNCHANGED <<req, to_start, to_irqen, core1, intr, donemsg, pioVars, mon,
                 histVars>>

-----------------------------------------------------------------------------
(* The DMA channels. *)

\* A block of a sending channel ends by starting the channel chained to it.
Ended_NoSecondBlock(c, chs) ==
  IF c = "SR" THEN [chs EXCEPT !["R"] = Started(@)] ELSE chs
Ended(c, chs) ==
  CASE c = "SS" -> [chs EXCEPT !["S"] = Started(@)]
    [] c = "SR" -> [chs EXCEPT !["R"] = Started(@)]
    [] OTHER -> chs

CanSend(c) == ch[c].left > 0 /\ Len(txf) < FifoDepth
CanReceive == ch["R"].left > 0 /\ rxf # <<>>

DmaSend(c) ==
  /\ CanSend(c)
  /\ txf' = Append(txf, <<ch[c].k, ch[c].pos + 1>>)
  /\ LET moved == [ch EXCEPT ![c].pos = @ + 1, ![c].left = @ - 1]
     IN IF moved[c].left = 0
        THEN ch' = Ended(c, moved) /\ intr' = intr \cup {c}
        ELSE ch' = moved /\ UNCHANGED intr
  /\ UNCHANGED <<cpuVars, core1, irqen, donemsg, rxf, ctrlf, bus, linkVars, mon,
                 histVars>>

DmaReceive ==
  /\ CanReceive
  /\ rxf' = Tail(rxf)
  /\ ch' = [ch EXCEPT !["R"].pos = @ + 1, !["R"].left = @ - 1]
  /\ intr' = IF ch["R"].left = 1 THEN intr \cup {"R"} ELSE intr
  /\ buf' = IF ch["R"].k = 0 THEN buf
            ELSE [buf EXCEPT ![ch["R"].k] = Append(@, Head(rxf))]
  /\ UNCHANGED <<cpuVars, core1, irqen, donemsg, txf, ctrlf, bus, linkVars, mon,
                 got, posted, over, excused, dead, cancels, strays>>

\* The DMA moves a byte within a few cycles of 8 ns, far faster than the Z80
\* comes to its next access.
Settled == ~CanReceive /\ \A c \in Senders : ~CanSend(c)

\* _irq_dma_pio.  The receiver goes on with the default byte, the sender does
\* not.  The preparation keeps the interrupt off until the transfer is begun.
Pending == intr \cap irqen \cap {"S", "R"}
SystemIrqOn == cpu = "prepared" => req[Current].kind = "none"
Rearmed_NotStarted == [ch EXCEPT !["R"] = Configured(@, 0, 0, 1)]
Rearmed == [ch EXCEPT !["R"] = Started(Configured(@, 0, 0, 1))]
IrqDma ==
  /\ SystemIrqOn /\ Pending # {}
  /\ intr' = intr \ Pending
  /\ posted' = [m \in Reports |-> posted[m] +
       (IF m[1] \in Pending \cap donemsg /\ ch[m[1]].k = m[2] THEN 1 ELSE 0)]
  /\ donemsg' = donemsg \ Pending
  /\ IF "R" \in Pending THEN rxf' = <<>> /\ ch' = Rearmed
     ELSE UNCHANGED <<rxf, ch>>
  /\ UNCHANGED <<cpuVars, core1, irqen, txf, ctrlf, bus, linkVars, mon,
                 got, buf, over, excused, dead, cancels, strays>>

-----------------------------------------------------------------------------
(* Accesses of the Z80, which MODSEL holds in WAIT until they are served.    *)
(* The state machines stand still while core 1 has stopped them.            *)

\* The command the CTRL port gives, and what it asks of the monitor: the bytes
\* of its operation (doc_gaddrcnt, doc_gdata, doc_sdata and do_*).
Accepted(k) ==
  IF k \in Asked
  THEN [at |-> "data", k |-> k, take |-> req[k].send, give |-> req[k].recv]
  ELSE [MonIdle EXCEPT !.at = "data"]

\* ATTN: the monitor reads the CTRL port ...
MonReadCtrl ==
  /\ core1 = "idle" /\ bus = "idle" /\ mon.at = "idle" /\ attn /\ Settled
  /\ bus' = "ctrl_needed" /\ mon' = [mon EXCEPT !.at = "ctrl"]
  /\ UNCHANGED <<cpuVars, core1, dmaVars, txf, rxf, ctrlf, linkVars, histVars>>

\* ... _irqp_ctrl_op_hdlr with _ctrl_rd_hdlr gives it the command, once, and
\* posts for ATTN to be turned off ...
IrqCtrlRead ==
  /\ bus = "ctrl_needed" /\ core1 = "idle"
  /\ ctrlf' = Append(ctrlf, <<cmdstat, 0>>)
  /\ cmdstat' = 0 /\ attn' = FALSE /\ bus' = "ctrl_out"
  /\ UNCHANGED <<cpuVars, core1, dmaVars, txf, rxf, mon, histVars>>

\* ... and the state machine puts it on the bus.
CtrlOut ==
  /\ bus = "ctrl_out" /\ core1 = "idle" /\ ctrlf # <<>>
  /\ ctrlf' = Tail(ctrlf) /\ bus' = "idle"
  /\ mon' = Accepted(Head(ctrlf)[1])
  /\ UNCHANGED <<cpuVars, core1, dmaVars, txf, rxf, linkVars, histVars>>

MonReadData_Uncounted ==
  /\ core1 = "idle" /\ bus = "idle" /\ mon.at = "data" /\ Settled
  /\ bus' = IF txf = <<>> THEN "data_needed" ELSE "data_out"
  /\ UNCHANGED <<cpuVars, core1, dmaVars, txf, rxf, ctrlf, linkVars, mon, histVars>>

\* `in' of the DATA port: an empty FIFO calls for the processor.
MonReadData ==
  /\ core1 = "idle" /\ bus = "idle" /\ mon.at = "data" /\ mon.take > 0 /\ Settled
  /\ bus' = IF txf = <<>> THEN "data_needed" ELSE "data_out"
  /\ UNCHANGED <<cpuVars, core1, dmaVars, txf, rxf, ctrlf, linkVars, mon, histVars>>

\* _irqp_data_op_hdlr gives the byte to the control state machine.
IrqDataRead ==
  /\ bus = "data_needed" /\ core1 = "idle"
  /\ ctrlf' = Append(ctrlf, Default) /\ bus' = "data_out"
  /\ UNCHANGED <<cpuVars, core1, dmaVars, txf, rxf, linkVars, mon, histVars>>

DataOut ==
  /\ bus = "data_out" /\ core1 = "idle" /\ txf # <<>>
  /\ txf' = Tail(txf) /\ bus' = "idle"
  /\ mon' = [mon EXCEPT !.take = @ - 1]
  /\ got' = [got EXCEPT ![mon.k] = Append(@, Head(txf))]
  /\ UNCHANGED <<cpuVars, core1, dmaVars, rxf, ctrlf, linkVars,
                 buf, posted, over, excused, dead, cancels, strays>>

\* `out' to the DATA port, by the monitor or by a program of the target.
MonWriteData ==
  /\ core1 = "idle" /\ bus = "idle" /\ Settled
  /\ \/ mon.at = "data" /\ mon.take = 0 /\ mon.give > 0 /\ UNCHANGED <<mon, strays>>
     \/ /\ Quiet /\ strays < MaxStrays /\ strays' = strays + 1
        /\ mon' = [mon EXCEPT !.at = "stray"]
  /\ bus' = "data_in"
  /\ UNCHANGED <<cpuVars, core1, dmaVars, txf, rxf, ctrlf, linkVars,
                 got, buf, posted, over, excused, dead, cancels>>

\* The byte is taken when the FIFO has room.
DataIn ==
  /\ bus = "data_in" /\ core1 = "idle" /\ Len(rxf) < FifoDepth
  /\ bus' = "idle"
  /\ IF mon.at = "stray" THEN rxf' = Append(rxf, Default) /\ mon' = MonIdle
     ELSE /\ rxf' = Append(rxf, <<mon.k, req[mon.k].recv - mon.give + 1>>)
          /\ mon' = [mon EXCEPT !.give = @ - 1]
  /\ UNCHANGED <<cpuVars, core1, dmaVars, txf, ctrlf, linkVars, histVars>>

\* The operation done, the monitor writes DMOPDONE to the CTRL port ...
MonReport ==
  /\ core1 = "idle" /\ bus = "idle" /\ Settled
  /\ mon.at = "data" /\ mon.take = 0 /\ mon.give = 0
  /\ bus' = "ctrl_ready" /\ mon' = [mon EXCEPT !.at = "report"]
  /\ UNCHANGED <<cpuVars, core1, dmaVars, txf, rxf, ctrlf, linkVars, histVars>>

\* ... and core 1 is told that the command is done.
IrqCtrlWrite ==
  /\ bus = "ctrl_ready" /\ core1 = "idle"
  /\ bus' = "idle" /\ mon' = MonIdle
  /\ over' = (over \cup {mon.k}) \ ({0} \cup excused)
  /\ UNCHANGED <<cpuVars, core1, dmaVars, txf, rxf, ctrlf, linkVars,
                 got, buf, posted, excused, dead, cancels, strays>>

-----------------------------------------------------------------------------
(* Core 1: dmc_op_cancel.  ATTN off, the state machines stopped, their       *)
(* interrupt flags and FIFOs cleared; an access that waited for a flag goes  *)
(* on when they are restarted ...                                           *)
CancelStop ==
  /\ core1 = "idle" /\ cancels < MaxCancels
  /\ core1' = "stopped" /\ cancels' = cancels + 1
  /\ attn' = FALSE
  /\ bus' = CASE bus = "ctrl_needed" -> "ctrl_out"
              [] bus = "data_needed" -> "data_out"
              [] bus = "ctrl_ready" -> "idle"
              [] OTHER -> bus
  /\ mon' = IF bus = "ctrl_ready" THEN MonIdle ELSE mon
  /\ txf' = Cleared(txf) /\ rxf' = Cleared(rxf) /\ ctrlf' = Cleared(ctrlf)
  /\ excused' = excused \cup (Asked \ over)
  /\ UNCHANGED <<cpuVars, dmaVars, cmdstat, got, buf, posted, over, dead, strays>>

\* ... then both directions cancelled and the command withdrawn.
CancelAbort ==
  /\ core1 = "stopped"
  /\ core1' = "idle"
  /\ ch' = Stopped({"S", "R"})
  /\ irqen' = {} /\ intr' = intr \ {"S", "R"} /\ donemsg' = {}
  /\ cmdstat' = 0
  /\ excused' = excused \cup (Asked \ over)
  /\ dead' = IF cpu = "idle" THEN dead \cup (Asked \ over) ELSE dead
  /\ UNCHANGED <<cpuVars, pioVars, attn, mon, got, buf, posted, over,
                 cancels, strays>>

DmaNext == DmaReceive \/ \E c \in Senders : DmaSend(c)
IrqNext == IrqDma \/ IrqCtrlRead \/ IrqDataRead \/ IrqCtrlWrite
PioNext == CtrlOut \/ DataOut \/ DataIn
MonServes == MonReadCtrl \/ MonReadData \/ MonReport
             \/ (mon.at = "data" /\ MonWriteData)

Next ==
  \/ Prepare \/ Begin \/ DmaNext \/ IrqNext \/ PioNext
  \/ MonReadCtrl \/ MonReadData \/ MonWriteData \/ MonReport
  \/ CancelStop \/ CancelAbort

\* Interrupts, hardware and started handlers go on; the monitor carries out the
\* operation it began and answers ATTN.  The user need not ask for anything.
Fairness ==
  /\ WF_vars(Begin) /\ WF_vars(CancelAbort)
  /\ WF_vars(DmaNext) /\ WF_vars(IrqNext) /\ WF_vars(PioNext)
  /\ WF_vars(MonServes)

Spec == Init /\ [][Next]_vars
FairSpec == Spec /\ Fairness

-----------------------------------------------------------------------------
(* Properties. *)

Bytes == (0..MaxRequests) \X Nat

\* Types of all variables.
TypeOK ==
  /\ req \in Seq(Requests) /\ Len(req) <= MaxRequests
  /\ cpu \in {"idle", "prepared"} /\ core1 \in {"idle", "stopped"}
  /\ ch \in [Channels -> [k : 0..MaxRequests, pos : Nat, left : Nat, reload : Nat]]
  /\ to_start \in Channels /\ to_irqen \in {"S", "R"}
  /\ irqen \subseteq {"S", "R"} /\ intr \subseteq Channels
  /\ donemsg \subseteq {"S", "R"}
  /\ txf \in Seq(Bytes) /\ rxf \in Seq(Bytes)
  /\ ctrlf \in Seq(Bytes)
  /\ bus \in {"idle", "ctrl_needed", "ctrl_out", "ctrl_ready",
              "data_needed", "data_out", "data_in"}
  /\ attn \in BOOLEAN /\ cmdstat \in 0..MaxRequests
  /\ mon \in [at : {"idle", "ctrl", "data", "report", "stray"},
              k : 0..MaxRequests, take : Nat, give : Nat]
  /\ got \in [1..MaxRequests -> Seq(Bytes)]
  /\ buf \in [1..MaxRequests -> Seq(Bytes)]
  /\ posted \in [Reports -> Nat]
  /\ over \subseteq 1..MaxRequests /\ excused \subseteq 1..MaxRequests
  /\ dead \subseteq excused
  /\ cancels \in 0..MaxCancels /\ strays \in 0..MaxStrays

\* The monitor is never made to wait for a byte that no channel will bring, which
\* the code answers into the wrong FIFO: ATTN must not be raised before the
\* transfer is started, and the block must be as long as the monitor expects.
NeverStarved == bus = "data_needed" => mon.k \in excused

\* The receiver is armed for a byte nobody expects whenever nothing is going on,
\* whatever transfers were made before (unless a cancel stopped it).
ReceiverArmed ==
  cancels = 0 /\ Quiet /\ Settled /\ Pending = {}
    => ch["R"].k = 0 /\ ch["R"].left = 1

\* Each transfer is reported at most once in its direction, when its last byte
\* has been moved, and never after a cancel that found it started.
Of(k, f) == Cardinality({i \in DOMAIN f : f[i][1] = k})
ReportedOnce ==
  \A k \in Asked :
    /\ posted[<<"S", k>>] <= 1 /\ posted[<<"R", k>>] <= 1
    /\ k \notin excused =>
         /\ posted[<<"S", k>>] = 1 => Len(got[k]) + Of(k, txf) = req[k].send
         /\ posted[<<"R", k>>] = 1 => Len(buf[k]) = req[k].recv

\* When a plain receive has been started and the DMA has settled, the receiver
\* works on its buffer or has filled it.  dbusc.c:74 says of _dma_to_start "DMA channel to start for
\* the prep'ed operation R/S/SR/SS".
ReceiveIsStarted ==
  Current > 0 /\ Current \notin over \cup excused /\ cpu = "idle" /\ Settled
      /\ req[Current].kind = "recv"
    => \/ ch["R"].k = Current /\ ch["R"].left > 0
       \/ Len(buf[Current]) = req[Current].recv

\* After a cancel that found the transfer started, not a byte reaches its buffer
\* and its end is not reported.
NothingAfterCancel ==
  [][\A k \in dead : /\ buf'[k] = buf[k]
                     /\ \A d \in {"S", "R"} :
                          posted'[<<d, k>>] = posted[<<d, k>>]]_vars

\* What was asked for is carried out, unless it is cancelled.
RequestsServed ==
  \A k \in 1..MaxRequests : k \in Asked ~> k \in over \cup excused

\* The driver implements the transfers dbusc.h promises: the bytes in order and
\* once, and all of them landed when the operation is reported done.
Kept(f, none) == [k \in 1..MaxRequests |-> IF k \in excused THEN none ELSE f[k]]
Written == [k \in 1..MaxRequests |-> Len(buf[k]) + Of(k, rxf)]
Xfer == INSTANCE DBusXfer WITH
  got <- Kept(got, <<>>), put <- Kept(Written, 0), buf <- Kept(buf, <<>>),
  given_up <- excused
ImplementsXfer == Xfer!Spec

=============================================================================

# Formal verification of the ZID firmware

ZID is an in-circuit debugger for the Z80. Three programs and a set of CPLDs make it up: firmware for an RP2350 with two
cores (`src-rp/`), a Debug Monitor that runs on the debugger's own Z80 (`src-z/dbm/`), and the board logic (`pld/`). This
directory holds TLA+ models of the parts where these run side by side, TLC configurations that check them on small
instances, and proofs checked by TLAPS that hold for every instance. Paths below are relative to `src/`.

## 1. Inventory

### Components, their state, and how they interact

| Component | Source | State it keeps | Operations | Interacts with |
|---|---|---|---|---|
| Scheduled messages | `src-rp/cmt/cmt.c`, `cmt_heap.c` | delta list `cmt_smd_ll`, pool `smdllent_free`, `sm_mutex` | schedule, cancel, 1 ms interrupt; query (not modelled: changes nothing) | posts to both queues; called from both cores |
| Message loops, inter-core queues | `cmt.c` `message_loop`, `multicore.c` | one queue per core, hardware FIFOs, pending flags, tick count, `_no_qadd_panic` | post, get, dispatch, housekeeping, `runon_core0` | every module posts here |
| Handler registry | `cmt.c`, `cmt_heap.c` | a linked list per message id, pool `mhllent_free` | add, remove, walk | message loops of both cores |
| Start-up | `main.c`, `hwrt/hwrt.c`, `app/app.c` | start flags | launch core 1, run start functions | loops, registry |
| Debug-monitor link | `dc/dmcomm.c` (core 0), `dc/dc.c` (core 1) | command to send, read expected, completion slots | request, status, cancel, handler of the CTRL read | bus driver below, commands above, monitor opposite |
| Debug Controller commands | `dc/cmd/cmds.c`, `dc/dc.c` | operation buffer, completion slots, prompt, disassembly context, configuration | dump, exam, load, in, out, inc, dec, dasm, cpu, go, step, register transfer | link |
| Debug Monitor | `src-z/dbm/dbmon.z80` | registers of the target, flags, command | reset, NMI, command loop, GO, STEP | link through the CTRL port, board logic |
| Board logic | `pld/*.pld` | Target mode, NMI enable, single step, attention and break latches | special and full reset, NMI, break | Z80, ATTN line |
| Debug bus driver | `dbusc/dbusc.c`, `.pio` | DMA channels, state machines, output-port shadow | transfers, cancel, timeout, ATTN | link |
| Shell and terminal | `lib/shell/` | input ring, line buffer, history, one-shot notification | input interrupt, edit, dispatch | core 1's loop |
| Register view | `dc/z80reg.c` | the debugger's copy of the registers | get and set by name | commands |
| Numbers, calculator | `number/`, `calculator/` | number base; value stack, last X, ten registers, word size | parse, format; enter, operate | commands, register view |
| Disassembler | `lib/z80dasm/` | context of one statement | begin, next | commands |
| SD card operations | `dskops/` | mounted flag | mount, unmount, reset | `runon_core0` |
| Board support, debugging support, vendored code | `board.c`, `util.c`, `debugging/`, `lib/sd_card`, `lib/regex` | pins, clock | I/O | all |

### Behaviours that are hard, and what makes each part correct

* **The scheduled list.** The interrupt of core 0 takes entries off the list the callers insert into and remove from.
  Correct: every message is posted on exactly the tick it was scheduled for, no entry of the pool is lost, and the
  structure in memory is a list at every moment another party may look at it.
* **The loops.** Two cores and an interrupt post to bounded queues; a full queue halts the board (or drops the message in
  debug mode). Correct: housekeeping neither floods a slow core nor dies out, `runon_core0` is a faithful handshake and
  returns, the start-up chain completes and launches core 1 once.
* **The registry.** Core 1 registers handlers without a lock while core 0 walks the same lists. Correct: each dispatch calls
  the handlers registered before it, once each, and ends; no entry is lost.
* **The link.** Four parties run at once: core 1 posts requests, core 0 prepares them in two stores, the bus interrupt
  hands commands out between those stores, and the monitor waits for a line that core 0 raises and lowers by queued
  messages. A cancel, a breakpoint and the reset button come at any moment. Correct: a command is taken once, is not lost,
  is reported done only when it is done, and nobody waits for ever.
* **The bus driver.** Core 0 prepares up to three DMA channels for a transfer before it tells the monitor to come; the end of
  one starts the next or posts a message from an interrupt; core 1 may cancel while the last interrupt is pending.
  Correct: each byte arrives once and in order, the Z80 is never held in WAIT for a byte nobody will send, a transfer is
  reported done once and a cancelled one is not reported at all.
* **Shell and terminal.** An interrupt fills a ring and tests a one-shot hook that the reader on core 1 sets after it has found
  the ring empty; the editor runs inside the callback of the line before. Correct: keys are acted on once and in order, the
  line executed is the line on the screen, and no key stays in the ring with nobody told.
* **The commands.** A command is a chain of requests and messages through one buffer, two slots and one disassembly context.
  Correct: each is answered from the target as it is, an instruction across the end of a page or of the memory is read whole,
  the copy of the registers and the target's never mix, no request overwrites one that is out, and the prompt returns.
* **The disassembler.** It is given a byte or two at a time and says how many more it needs. Correct: the number of bytes and the
  text are those of the Z80's instruction, whichever way the bytes came.

The complete list of hazards, each with its line and the properties that would catch it, is in `PROJECT.json`.

## 2. The modules

| Module | What it is |
|---|---|
| `CmtDeadline` | Abstract specification: what `cmt.h` promises of a scheduled message. |
| `CmtSched` | The delta list as a sequence, one step per iteration of each loop of the code. Implements `CmtDeadline`. |
| `CmtSched_proofs` | Its invariants, for any pool, messages and positive delays, and that it implements `CmtDeadline`. |
| `Chains` | Lists in memory: what hangs from a pointer, and what it takes for a list to end. |
| `Chains_proofs` | That a set with a rank is a list, and how linking, unlinking and changing entries keep it one. |
| `CmtSchedList` | The same list as cells in memory, one step per load or store the other party could see. Implements `CmtDeadline` with callers on core 0. |
| `CmtSchedList_proofs` | Its types whoever calls; with callers on core 0 that the list stays whole and implements `CmtDeadline`. |
| `CmtLoop` | Queues, both loops, housekeeping, `runon_core0`, start-up and halt. |
| `CmtHandlers` | The handler registry and the walk of `message_loop`. |
| `CmtKernel_proofs` | The safety invariants of `CmtLoop`, for any queue length and housekeeping period, and the properties of `CmtHandlers`, for any pool, messages and handlers. |
| `DmLink` | Core 1, core 0, the bus interrupt, the Debug Monitor and the board logic, together. |
| `DmLink_proofs` | Its types, that no command is taken twice however late anyone is, and, with the timing assumed, that completions are right and a quiet link has served all. |
| `DBusXfer` | Abstract specification: what `dbusc.h` promises of a transfer. |
| `DBusC` | The bus driver: preparation, DMA channels, state machines, interrupts, cancel, and the monitor's side. Implements `DBusXfer`. |
| `DBusC_proofs` | Its invariants, for any FIFO, any transfers that fit and any number of cancels; that it implements `DBusXfer`, reports each transfer once and leaves the receiver armed, as long as no plain receive follows a plain send. |
| `LineEdit` | Abstract specification: what the user of the shell is promised. |
| `Shell` | Input ring, notification, line editor, history, greeting. Implements `LineEdit` for a patient user. |
| `Shell_proofs` | Its line buffer and that it implements `LineEdit`, for any keys and sizes. |
| `Debugger` | Abstract specification: what each command answers, with the Z80's instructions by the layout of their opcodes. |
| `DcCmds` | The commands as chains of requests and completions. Implements `Debugger`; extends `Z80DasmText`, `Z80Regs` and `Calc`. |
| `Z80Dasm` | The disassembler's state machine: how many bytes, which are invalid. |
| `Z80DasmText` | The mnemonic and operands it writes. |
| `Z80Regs` | The copy of the registers, the accessors, the values of arguments. |
| `Calc` | The calculator. |
| `DcCmds_proofs` | The types of `DcCmds`, with the calculator, the registers and the context of the disassembler; that one request is under way at a time; and that what is shown is the target's and what is written is what was asked. |
| `MC*` | The instances TLC checks. |

Variables and operators carry the names of the C, Z80 and CUPL sources where TLA+ allows it; `PROJECT.json` maps every
definition to its lines. A definition whose name is another one's with `_Something` appended is a plausible wrong version
of it. No specification uses these: they exist so that each property can be seen to fail when the code is wrong.

### CmtSched and CmtSchedList

`CmtSched` has the list as a sequence of pool entries with a `remaining` each. `ScheduleBegin/Walk/Link` are the insertion
(`cmt.c:144-178`), `CancelBegin/Walk/Unlink/Miss` the cancel (`302-330`), `TickBegin/Post/End` the interrupt (`78-97`).
`SchedulePanic` is the empty pool. The history variable `left` counts the ticks a message truly has left, without looking
at the list; it is what the deltas are compared with. Interrupts are disabled on core 0 during a list operation, so a tick
needs `pc = "idle"`.

`CmtSchedList` splits each of these into accesses to memory, with `head`, `next` and the free chain as cells. Whether core 1
calls too is the constant `Callers`. It is the module that can tell what disabling the interrupts of one core protects.

The abstract state is `held` and `left` of `CmtDeadline`; the refinement maps an entry to its message once it is linked.

### CmtLoop

A message is one of four kinds named for what its handlers do to this state: `START`, `HK`, `APPS` and `WORK`, where `WORK`
stands for all others and its handlers may post any number of messages to either core and, on core 1, call
`runon_core0`. `Tick`, `HousekeepTest` and `HousekeepPost` are the housekeeping half of the interrupt, which suspends core 0;
`PollFifo/RunDone`, `Get`, `HousekeepClear` and `HandlerEnd` are the loop, `Runon/RunonReturn` the call, and
`HwrtStart/Tell/Test` and `AppsStart` the start-up. A post to a full queue empties it and halts the core that posts
(`board_panic`), or drops the message if `_no_qadd_panic`.

### CmtHandlers

`Alloc`, `Link` and `Publish` are the three stages of `cmt_msg_hdlr_add_for_core`: only the last makes the entry visible to
the other core. `Dispatch`, `Visit`, `Return`, `Advance` and `EndWalk` are the walk. `Remove` is
`cmt_msg_hdlr_rm_for_core`, which no code of the firmware calls; the model lets core 0 call it in its start function. The constant
`FirstOnly` says whether it may name any handler or only the newest of a message, and the run and the theorems have it: `prev` is never set
(`cmt.c:231`), so naming an older one drops the newer ones. No property is claimed of removal itself.

### DmLink

One module for four parties, since every hazard of the link lies between them.

| Part | Variables | Actions | Source |
|---|---|---|---|
| Core 1 | `app`, `core1`, `slot`, `rcv`, `kind` | `UserCommand`, `HandleApp`, `CancelAttn`, `CancelCmdstat`, `CancelExpctd` | `dc.c`, `cmd/cmds.c`, `dmcomm.c:276-280` |
| Core 0 | `hwrt`, `core0`, `cmdstat`, `expctd` | `HandleMsg`, `StoreCommand`, `ExpectRead`, `FinishMsg` | `dmcomm.c:52-174` |
| CTRL interrupt | (the same) | `CtrlRead`, `CtrlWrite`, as part of the monitor's steps | `dmcomm.c:222-255`, `dbusc.c:178-225` |
| Monitor | `dm`, `doc_cmd`, `doc_stat` | `Bahdlr` .. `TgtHop` | `dbmon.z80` |
| Board | `attn`, `attn_tms`, `tgtmode`, `zid_init`, `sstep`, `zsr_req`, `sr_brk`, `nmi` | `Break`, `SpecialReset`, `FullReset` | `zid_main.pld` |

A request is a number and `kind[r]` what it asks: `get` and `mget` have completion handlers (`mget` also one for the
buffer), `put` leaves the handler of an earlier operation in place, `go` and `step` set none. 0 is DMNOP, which is the
same byte as the ready status. A read or write of the CTRL port holds the Z80 until the interrupt handler has served it,
so it is one step with what the handler does; the message it posts is handled later, in order with everything else in
core 0's queue. `_dm_cmd_prep` is two steps, because the interrupt may come between its stores; the cancel on core 1 is
three.

Left out: the data a command transfers (the bus driver's), `_dm_lastcmd`, `_dm_cmd_ip`, `_mode` and the prompt, the
simulated monitor, and target programs that use the CTRL port themselves. `MSG_DBUS_CTRL_READ` does nothing in the firmware
(its handler acts only on `CHA_VALUE_TBD`, which no code returns). Core 1's handlers are taken to be registered when the
monitor first speaks.

### DBusC

`req` is the list of transfers asked for, `ch` the four channels (receive, send, and the two of a chained send), `txf`, `rxf` and `ctrlf`
the FIFOs. Byte `i` of transfer `k` is the pair `<<k, i>>`, so that a byte that comes twice, late or from the wrong buffer
shows. Core 0 prepares (`dbusc.c:557-651`) and core 1 cancels (`468-551`); the DMA moves a byte whenever a FIFO allows it and
its last byte raises an interrupt (`131-176`); the interrupts of the two ports answer the Z80 (`178-252`); the monitor reads and writes one byte at a time and is held in WAIT
(`bus`) until a FIFO has room or a byte. What the model takes from the hardware:

* `Settled`: the DMA fills or empties a FIFO before the Z80's next access; it is some hundred times faster.
* `irq_set_enabled` acts on the calling core, so a cancel on core 1 leaves core 0's interrupts as they are; `pio_sm_restart` keeps
  the program counter, so an access that waits when it is cancelled goes on waiting; the shift register of the data state
  machine counts as the head of its FIFO.
* A transfer that sends before it receives sends fewer bytes than the FIFO holds (three of four): the assumption on
  `sendrecv`, without which the receiver would be started late.

`RecvAfterSend = FALSE` keeps the environment away from the finding of `dbus_recv`; the proofs do not need it.

### Shell

`Read`, `Store`, `ReadAll` and `Notify` are the interrupt that takes what the user types into `ring` and tells core 1 once (`term.c:113-142`);
`CharReady`, `Key` and the rest are `_getline_continue` and its callbacks on core 1: editor, escape and control keys, history and greeting
(`shell.c:232-492`, `cmd.c:180-335`, `app.c`). `stack` holds the calls that have not
returned: a line is executed inside the editor that read it. The race of `term_input_buf_clear` with the interrupt is
`cleared`. `Patient` says the user types nothing behind the end of a line until it has been executed. The lookup and execution of a command
is left out: `did` is the line that was passed to it. So is what the terminal shows, `shell_prompt_again` with it. `BS` and `DEL` are two keys: both go back,
but DEL behind ESC is looked up in the table of control characters, 95 places behind its end, and `at = "fault"` says what was found there was called.

`LineEdit` is a promise to a user who types nothing ahead, and in two places it promises less than one would expect, since the code does no better: the line that
recalling saves (`Saved`) may have the tail of an older and longer one behind it, and comes back with it; and ESC keeps the line (`Ignore`).

### DcCmds, Debugger and their helpers

A command fills `opbuf`, notes its place in `vals`, sets `slot` and `rcv` and posts a request (`link`); `Told` and `Reports` are the
monitor taking it and answering, `CmdDone`, `MgetDone` and the completions are core 1's messages. `DisasmCD` feeds the bytes that came to the
disassembler's context and asks for as many as it still wants. Registers and the calculator are answered at once; `cpu` asks the target for the statement at the PC.
The target stops by `StepEnds` or `GoEnds`, which are what `DmLink` proves of every stop (`EveryResetIsFull`, `NoBreakReported`): the monitor takes it for a full
reset, fills its RAM with 0, the saved registers too, and reports `DMINIT`, about which core 1 does nothing (`TargetStopped`). The handlers of a breakpoint and of a
finished step (`dc.c:172-189`, `_print_cpu`) never run, and are not in `DcCmds`.
The user waits for the answer to a command and gives none while the target goes: `MayAsk` has nothing asked, no request or message under way and the target held. That is
more than the prompt says, which load, out and the register commands never turn off.

`Debugger` knows nothing of requests: a command is asked, and answered in one step from the memory, ports and registers. Its disassembler is a definition
over the whole memory by the fields x, y, z of an opcode, not by the code's tables; its registers are numbers by name, while the code
has bytes in the monitor's order (`storage.z80`), and the refinement reads the latter by the monitor's layout and not by the
accessors; its calculator is the HP-16C's stack as a sequence. Where the code is known to fall short of the Z80's manual or of its own help, `Debugger` promises what the
code does, beside a comment that begins with "Known:", and section 3 lists the same places: a port given by a byte register, `LD A,R` and `LD R,A`, a negative index,
`LD (IX+d),n`, `.s0`, the high byte of a word loaded into a register, and the registers behind a stop. So the run leaves none of these cases out: it shows
that the code does this and nothing else there.

Left out: `dump -`, the digits and base of numbers, the developer's commands (`.dmmp`, `.dmsim`, `.dmcancel`, `.clrwait`, `.altscr`) and the layout.

## 3. What the runs check

| Run | Instance | Distinct states | Shows |
|---|---|---|---|
| `sched` | 3 entries, 1 message for 2 cores, delays 1-3 | 63,173 | Pool conserved, deltas add up to the true deadlines, every message posted on its tick, nothing stays for ever, `CmtDeadline` implemented |
| `sched_list` | 3 entries, delays 1-2, callers on core 0 | 270,303 | The cells form disjoint lists wherever they may be seen, and `CmtDeadline` is implemented |
| `sched_list_race` | same, callers on both cores | violation | The interrupt and a caller on core 1 corrupt the list |
| `loop` | queues of 2, housekeeping every 2 ticks | 230,888 | Housekeeping, `runon_core0` and start-up are right whatever fills up; in debug mode, where a full queue loses the message, a start message that got into its queue has its effect |
| `loop_runon_answer` | same | violation | Core 0 gives the handler its own message |
| `handlers` | 3 entries, 2 messages, 2 handlers | 387,648 | Registration without a lock is safe as the firmware does it |
| `dm_link` | 3 commands, 1 mishap (cancel, breakpoint or reset button) | 460,339 | No command lost, taken twice or falsely reported done; the link falls quiet again |
| `dm_link_target` | 2 commands, 1 mishap | violation | The way back from Target mode is a full initialisation |
| `dbus` | 3 transfers of 5 kinds, FIFO of 2, 1 cancel, 1 unexpected write | 315,990 | Bytes once and in order, nobody starved, a cancelled transfer stays dead, requests are served, `DBusXfer` implemented |
| `dbus_recv` | 2 transfers, a receive after a send | violation | `dbus_start_dataop` starts the wrong channel |
| `shell` | 6 keys of 10, ring of 4, lines of 2, history of 2 | 1,480,589 | The buffer is terminated, keys are served, `LineEdit` implemented |
| `dc_cmds` | every opcode behind every prefix; five commands over two memories; three calculator commands | 169,312 | Every command is answered as `Debugger` says, none overwrites another, and the prompt returns, but behind a step |

### Findings

Each violation run is a place where the code and what is said of it differ; the quotation and the line are in
`PROJECT.json`. In short: (1) the interrupt takes no mutex while core 1 schedules (`cmt.c:84`); (2) `message_loop` passes the wrong
message to a handler run for core 1 (`cmt.c:448`); (3) the NMI enable bit is clear when Target mode is entered, so the special
reset is taken for a full one (`dbmon.z80:80`); (4) `dbus_prep_recv` does not say which channel to start, so a receive after a plain
send starts the sender again (`dbusc.c:557`).

Observations made while modelling, without a run of their own:

* Timer list: `scheduled_msg_cancel3` returns the delta of the entry, not the time left (`cmt.c:313`, `cmt.h:205`). `scheduled_msgs_waiting` reads the head of
  the list before it takes the lock (`cmt.c:358`). In debug mode a dropped housekeeping message is never followed by another (`cmt.c:103`).
* Registry: `MSG_HDLR_CORE_BOTH` is stored as core 1 (`cmt.c:217`); removal never sets `prev`, so removing an older handler drops the newer
  ones (`cmt.c:231`). No caller does either today.
* Bus driver: after a cancel the receiver is not armed again, unlike `dbusc.h:94` says; an unexpected read is answered into the
  CTRL FIFO (`dbusc.c:239`), which takes a cancel to happen.
* Shell: a line typed ahead, or the second half of a CR LF, is executed with the line before in front of it (`shell.c:240-242`;
  `shell.h:181` says "Get a line of user input."), and each one deepens the recursion. `shell_prompt_again` and the saved line of the history
  can show the stale tail of the buffer (`shell.c:471`, `cmd.c:266`). `shell.h:66-67` says ESC "is used to erase the line if a handler is not registered"; none is, and ESC
  begins an escape sequence and keeps the line. ESC DEL indexes the table of 32 handlers with 127 (`shell.c:35`, `123`). The left-arrow handler is never registered although
  `_cmd_keys` lists it (`cmd.c:239`), so the key types a D into the line. A key behind ESC that ends the line or goes back is swallowed.
* Commands: behind `step` the prompt never returns: it is left to the report of the step (`dc.c:305-309`, `437-448`), and the target stops with `DMINIT` only
  (finding 3), about which nothing is done (`dc.c:154-157`); the registers and the place of the stop are lost with it. Loading a word register reads a size that was never
  set (`cmds.c:1332`, the constant `Garbage`). Load, out and getregs never turn the prompt off. `dump x 0`, `dump x 1024`, `dascii x 0` and `dascii x 256`
  ask for no byte and never end. `dump -` goes back from the wrong place after `dump <addr>` (`cmds.c:959`). A port given as a byte never
  has B put above it (`cmds.c:460`, help at 1650 and 1680).
* Disassembler: CB statements list a wrong first byte (`z80disasm.c:1411`); `LD (IX+d),n` shows d as n; a negative index is
  shown in two's complement behind its sign (`cmds.c:351`); `LD A,R` and `LD R,A` are taken for invalid (`z80disasm.c:1758`).
* Calculator and numbers: `.s0` cannot be reached, its entry is named ".r0" (`calculator/cmd/cmds.c:141`); a division by 0 drops both operands; with 32-bit
  words `num_binstr` shifts by 32 and, below that, masks with the bound instead of the bound less one (`num.c:72-75`); a decimal number of 2^32 and
  above wraps without an error where 32 bits are asked for (`num.c:242`); the result of `calc` in binary is longer than its buffer of 13.
* Monitor: the path of RST 8 is taken for every entry and loads SP from where AF was saved (`dbmon.z80:165-186`); GO does not restore the
  alternate registers and I, so setting them has no effect on the target.

### Bounds, and why they are enough

* Three pool entries make a list with a head, a middle and an end, ties, an insertion at each place, a removal at each
  place, and the empty pool. Delays up to 3 allow deltas of 0 to 3. The proofs lift the bounds for safety.
* A queue of 2 is full with one housekeeping message and one other, which is where the posts compete; the proofs lift
  the bound here as well.
* Three handler entries on two messages give a list of two while a third is being inserted, and the empty pool.
* Three commands are the shortest chain in which a command follows a lost one (put after get: a stale handler) and is
  itself followed by one. The bound `MaxMishaps` is shared by cancels, breakpoints and the reset button. With two mishaps
  the same properties hold too (2.4 million states); the run uses one to stay short.

* A FIFO of 2 is exceeded by blocks of 3, as the FIFO of 4 is by pages. Three transfers are one to leave something behind, one that
  is cancelled and one after it. The proof lifts these bounds.
* A ring of 4 holds 3 keys and six keys overfill it; the keys are two characters, which are also those of an arrow behind ESC, and each control key with a meaning; a line of 2 characters is full, and two history buffers wrap. `MaxPosted` only bounds notifications
  that core 1 has not got to. `TERM_INPUT_BUF_SIZE` is a power of two in the code, and so here.
* `dc_cmds`: addresses wrap at 8 and a page is 4, so that every kind of transfer crosses the end. Every opcode behind every prefix lies across
  the end of the memory once, with positive indexes, and some with negative ones and backward jumps beside. No opcode, operation or count is left out for what the code makes of it. The commands come in levels (get registers, two changes, a look, a disassembly), since it is what an earlier command leaves behind that matters.
  Counts go from 0 to more than a page, and for `dumpa` to what is 0 behind its mask. The calculator's 32-bit words have 15 bits and those of 16 have 12, as TLC's numbers end at 2^31; its commands start
  from a stack of four different values with 0, 8 or a value beyond 8 bits in X, try each operation after each, and end with a sum.

Deadlock is not checked in the `Cmt*` runs: `board_panic` really stops a core for good. Nor in `dbus`, `shell` and `dc_cmds`, where the
users' transfers, keys and commands run out. It is checked in `dm_link`, where only a quiet link may rest (`Rest`).

### Fairness, and why the code justifies it

* `CmtSched`: weak fairness of a loop that has begun (straight C code with interrupts off) and strong fairness of the tick,
  which is possible whenever no list operation runs: callers cannot keep interrupts off for ever, as an interrupt that
  came in the meantime is taken the moment they are on again.
* `CmtLoop`: weak fairness of the interrupt and strong fairness of each core's program: the interrupt suspends core 0 again
  and again, but a tick takes far less than the millisecond between two, and a post to a full queue does not wait.
  Handlers are assumed to return.
* `CmtHandlers`: weak fairness of each core's walk and registration.
* `DmLink`: weak fairness of core 0, core 1 and the Z80. Users, breakpoints and buttons need never act.
* `DBusC`: weak fairness of core 0, the DMA, the interrupts, the state machines and the monitor; a cancel need never come.
* `Shell`: weak fairness of core 1 and of the interrupt's steps, and strong fairness of its end, which further characters can put off but not
  for ever: they are read faster than they come. The user need not type.
* `DcCmds`: weak fairness of core 1 (`Core1`), of the monitor's answer (`Monitor`) and of the end of a single step (`StepEnds`). A program that goes need never stop (`GoEnds`).

### The environment of DmLink

The link's properties hold under three assumptions on what is around it, each named in the module:

* `Quiet`: the user gives the next command when nothing is under way, which is when the prompt returns. Chained requests
  (the disassembler's, the registers after a break) need not wait. A user who types ahead replaces the outstanding
  command (`dmcomm.c:141` says so itself).
* `PromptMonitor`: when core 0 has lowered ATTN and the monitor is between its status and enabling its NMI, the monitor gets
  there before core 0 raises ATTN again. From the write of the status to the sample of ATTN are about 21 clock cycles;
  the chained request needs three messages, interrupt to core 0, core 0 to core 1 and core 1 to core 0. With
  `InTime = FALSE` TLC shows the deadlock otherwise: the monitor polls for ATTN to fall with NMI off, and core 0 waits for
  it to read.
* `SlowInit`: the monitor's RAM test (about 100 ms) outlasts the messages that were queued at a reset. With
  `InTime = FALSE` TLC shows a queued "ATTN off" from before the reset turning off the ATTN of a command made after it.

`InTime` is a constant, so that both assumptions can be taken away with one line of a `.cfg`.

## 4. What is proved

Most theorems are of the form `Spec => []Inv` or `Spec => [][Step]_vars`, with the usual three steps: the initial states satisfy an inductive
invariant, each action preserves it, and it implies the property. They assume what the modules' `ASSUME`s state
(finite pool, delays in milliseconds; queue length and housekeeping period positive; printing characters apart from control keys; sizes, word masks and
the commands on offer of the kind the code has, see `DcCmds` below). Some have a hypothesis of their own,
each of which the instance of the run satisfies and the code justifies, or is known to break:

| Hypothesis | Theorems about | Why |
|---|---|---|
| `0 \notin Delays` | `CmtSched`, `CmtSchedList`, `CmtDeadline` | no caller passes 0; see below for what would happen |
| `Callers = {0}` | `CmtSchedList`, not its types | with core 1 calling the list breaks: the finding of `sched_list_race` |
| `FirstOnly` | `CmtHandlers`, not its types | a removal of an older handler drops the newer ones; nothing in the firmware removes any |
| `Askable \subseteq Corenums` | `HandlersCalledOnce` | what is registered for "both" is stored as core 1's; all callers name one core |
| `InTime` | `CompletedMeansExecuted`, `QuietMeansServed` | the timing of the hardware, see "The environment of DmLink"; without it TLC finds a completion for a command not carried out |
| `~RecvAfterSend` | `DBusXfer`, `ReportedOnce`, `ReceiverArmed` | the finding of `dbus_recv` |

* **CmtSched** (`CmtSched_proofs`). `TypeOK`, `PoolConserved`, `DeltasKeepDeadlines` and `PostedOnItsTick`. None of these is
  inductive alone. The invariant `IInv` adds: the list and the pool partition the entries without repetition; the
  deadline of each linked entry is that of the one in front plus its own delta; deadlines do not decrease along the list;
  and for each running loop what it has established about the places it has passed (for the insertion: what is charged
  to the new entry so far is what is in front of it). The argument for the insertion is that the walk stops at the first
  entry with more time left, and that the subtraction from that entry keeps the sum. A tick decrements the head
  only: it suffices because all other deadlines are sums through the head. A delay of 0 would put an entry with no
  time in the list that the next decrement makes negative, and its successors late; no caller passes one.
* **CmtLoop** (`CmtKernel_proofs`). `TypeOK`, `OneHousekeeping`, `PendingIsOnItsWay`, `RunonHandshake` and
  `CoreOneStartsOnce`, for any queue length. The invariant is their conjunction, with `START` messages counted like the
  housekeeping ones: a `START` is queued once per core, at the entry of its loop, and core 0's start function is what takes core 1
  out of "off".
* **CmtSched implements CmtDeadline** (the same module). `ImplementsDeadline`, again without delays of 0. The
  refinement maps an entry to its message once it is linked or about to be. The invariant `RInv` adds to the above that these
  entries hold messages, that the time of an entry being inserted is still the delay it was scheduled for, and
  that nothing has been posted since an insertion or a cancel began. Every step then is a step of `CmtDeadline` or leaves
  its variables alone: a walk does nothing, a link schedules, an unlink cancels, a post of the interrupt posts.
* **Chains** (`Chains_proofs`). What follows from a pointer is a recursive function over memory, about which induction over data would be
  needed. `Ranked` avoids it: a set `S` hangs from `p` when each of its entries has a rank, the number of entries behind it, `p` the greatest, each
  next entry one less, and no two the same. `RankedChain` shows that then the walk of the code from `p` meets `S` and nothing else and ends within the
  size of the pool; the other lemmas say how a rank is kept when an entry is taken off the front, put in behind a cell, or taken out from behind one.
* **CmtSchedList** (`CmtSchedList_proofs`). `TypeOK` for all callers, and with callers on core 0 `ListIntact` and `ImplementsDeadline`, for any pool and delays. The
  invariant says that there are a set in the list, a set in the pool and a rank for both (`Whole`), such that: list, pool and the one entry in hand share out the
  entries (`Lists`); the time left of each entry is that of the entry in front plus its `remaining`, where between the two stores of a link or an unlink the
  entry counts from the one that is coming or going (`From`), and the list is in that order (`Counted`); the interrupt has the entry it posts at the head, and its time has come
  (`Ticking`); and a schedule has charged its entry exactly what is in front of the cell it has come to (`Working`). An interrupt between two statements
  of an operation is excluded by `disabled`, and this is where the callers matter: `Ticking` needs the operations idle. There is one lemma for each
  statement of the code, and each also says what happens to the messages that wait (`Outcome`), from which the refinement follows.
* **CmtHandlers** (`CmtKernel_proofs`). `RegistryTypeOK`, `RegistryIntact` and `HandlersCalledOnce`, for any pool, messages and handlers. The invariant
  gives each entry one holder, a message's list, the pool, or the hand of the core that registers, and a rank among those with its holder. Registration
  without a lock is safe since `Link` writes an entry nobody else can see and `Publish` makes it visible with one store of the head: a walk that has begun is behind it, and what
  is behind an entry does not change. So what a walk has still to call is what it met at its beginning and has a smaller rank than the entry it is at.
* **DmLink** (`DmLink_proofs`). `TypeOK` and `TakenOnce`, for any number of requests and mishaps and for both values of
  `InTime`: that no command is taken twice does not depend on anyone being quick. `Untaken` says what a request is at any
  moment: a message in core 0's queue, then what `_dm_cmdstat` holds, then taken; never two of these, and never back. The
  interrupt may hand out what core 0 has stored before core 0 says it expects a read, but it takes it out of `_dm_cmdstat`
  in the same step, and a cancel only takes away. `QueuesOK` types what is in the queues, and `DoneIsOfCommand` is
  what makes `TypeOK` inductive: "operation done" is only sent with a command in hand.
  With `InTime`, `CompletedMeansExecuted` and `QuietMeansServed`, by the invariant `Tracked`, which follows the one command under way through every
  party. `UnderWay` names its stages: a message in core 0's queue; in preparation by core 0; prepared, with ATTN on and the monitor on its way (`Woken`: an NMI, a
  reset, or the jump to Target mode that ATTN ends at once); read by the monitor. `OneAtATime` says that these, and the reports of what is done, exclude each other, and
  `StaleFirst` that what could take back a command (the ATTN_OFF of an earlier read, the DMINIT of a reset) is handled before it. The two assumptions on timing are needed
  here and only here: a RAM test shorter than what the cores have to handle would let DMINIT overtake a request, and an ATTN raised before the
  monitor has enabled its NMI would wake nobody. `Handlers` says that the handler of a command is set, posted or has run, never two of these, and that of a command
  that is done one of them. `BoardInv` holds what the wake-up needs of the NMI enable bit. TLC checked all parts with up to three mishaps first.
  `EveryResetIsFull` needs no timing: in `ResetInv` the NMI enable bit is clear on every path from the NMI to Target mode. So what `dm_link_target`
  finds is no matter of a rare order of events: no reset is ever taken for the return from Target mode, and `NoBreakReported`.

* **DBusC** (`DBusC_proofs`). `TypeOK`, `NeverStarved` and `NothingAfterCancel`, for any FIFO depth, requests, cancels and unexpected
  writes, with and without a receive after a send. The invariant says where each byte is: what the monitor has taken, the FIFO and
  what the channels still have add up to the block (`Balance`), while the monitor is due exactly what remains (`MonOK`); which channels may be started in which
  state of core 0 (`CommandOK`, `ChainOK`, `SendOK`); and that a channel of a cancelled transfer is stopped and its message taken back
  (`DeadOK`), which is what survives an interrupt that was pending. The whole invariant was checked by TLC on 3.0 million states first.
* **DBusC implements DBusXfer** (the same module). `ImplementsXfer`, for any FIFO depth, requests, cancels and unexpected writes, under
  `~RecvAfterSend`: with a receive after a send the wrong channel is started (`dbusc.c:74`), no byte lands, and the run `dbus_recv` shows it. The refinement
  gives `DBusXfer` the buffers of the transfers that were not given up; a byte is written when it enters the FIFO and lands when the
  channel moves it. `Balance` counts bytes, and the refinement needs to know which: the invariant `XInv` adds that the FIFO holds exactly the next bytes the monitor
  will read and each sending channel stands right behind them (`SentOK`); that the receiver of the current transfer waits to be started, is at work
  with what it has, what is in the FIFO and what the monitor still gives adding up to the block, or has everything, the last being so when the end is reported
  (`ReceivedOK`: the monitor reports only once the DMA has settled); and that whatever else a channel or the FIFO holds is of nobody or was given up
  (`OthersOK`), so that it can be dropped without `DBusXfer` noticing. Every action then reads, writes, lands, finishes, asks, gives up, or changes nothing it sees.
  Two invariants of the same module build on `XInv`. `RInv` is for `ReportedOnce`: each channel works for a transfer of its kind, a channel that may
  still report has not reported its transfer yet, what the sending channels and the FIFO hold is of nobody, given up or of the current transfer, and an interrupt
  of the current transfer is raised only at its end; so neither an interrupt left over from before nor one that comes during a cancel is counted for it.
  `ArmInv` is for `ReceiverArmed`: as long as nothing is cancelled the receiver waits for a byte nobody expects, or has an interrupt raised, and enabled, that sets
  it up again, or is busy for the current transfer. It was checked by TLC on the same states first.
* **Z80Dasm** (`DcCmds_proofs`). `DasmBegin` and `DasmNext`: whatever bytes come, the context always awaits a second byte, awaits the
  arguments its opcode has, or has ended; it never asks for more than two bytes, never holds more than four, and never calls a function
  it does not have. `TablesAgree` is the lemma that the two tables of argument bytes, for plain and for IX/IY instructions, agree where both apply.
* **DcCmds** (`DcCmds_proofs`). `TypeOK`, for any commands on offer, target memory and registers, sizes of memory and page. Four assumptions on the constants: a page has
  at least two bytes and fits the memory (`PageFits`; an examination gets a word at once), memory, registers and what the monitor sends are bytes (`StartsTyped`), a load or an
  output has something to store (`OffersTyped`; the code refuses one that has not), and the word sizes are positive (`BitsOfWords` in `Calc`). `IInv` types what
  `TypeOK` does not: that a message or a completion that waits is one `rcv` has a printer for, that the count of what is to be printed fits the page (`Vals`), and
  that the disassembler's context is done or in want of a byte when a completion of it is due (`Disassemblies`), so that `DasmNext` applies. For the calculator
  `ExecCalcTyped` says that any line of entries, good or bad, leaves all four levels of the stack words of the size that is set (the invariant does not hold
  without the masking at a change of the size), and last X and the registers numbers. For the registers the lemmas say that an accessor stays inside the register bytes for all names.
  `RequestsInTurn` and `OneRequest` are about the slots. `dc.c` has one completion handler, one buffer and one request, and no check that they are free
  (`dmcomm.c:141`). `Turn` says which of them may be in use together, and `NothingOverwritten`, an action property and one of the run, that none is ever taken while it is, through the
  chain of requests of a disassembly, the statement that follows the registers when they are shown, and a stop of the target. What it needs is the user who waits: `MayAsk` has no
  command, request or message under way and the target held. TLC checked `Turn` on the instance of `dc_cmds` first.

  `AnswersFromTarget` and `WrittenAsAsked` are about the bytes, and need all of `Turn`. The code of an answer knows nothing of its request: it reads one buffer, one count,
  one slot and statics that were set two or three messages before. The theorems say that this is enough: a dump, an examination, an input, a disassembly and a display of the registers show what the
  target has at the moment they are shown, from the place and in the amount that was asked for (a disassembly begins there and gets as many bytes as its opcodes want), wrapping at the end of memory; and memory and ports change only as the load or
  output under way asked, low byte first for words. The invariant is `Answers`: a get that is out is for what will print it, and the buffer's address and count say
  the same (`GetOut`); what it brought is still what the target has (`GetBrought`, which is where the target being held matters); it is for what the user asked, or where the disassembly has come to (`Meant`);
  a completion belongs to its request (`Paired`); and what is to be written is in the buffer (`PutOut`). TLC checked the invariant and both properties on that instance before.
  These two are no properties of a run, as `Debugger` says what they do on the instance.
* **Shell** (`Shell_proofs`). `TypeOK` and `BufferTerminated`, for any keys, ring, line and history sizes and any interleaving of the
  interrupt with core 1. The invariant `IInv` adds `Room`: the interrupt stores only where it has seen a place, and core 1 can only make
  more of it meanwhile. `StringIsLine` is what the history needs: an array of printing characters and NULs with a NUL in it holds a line
  that fits; its proof takes the first NUL, which exists because the naturals are well-founded. `ShellAssumption` says for this that no
  printing character is a control key, nor is called `NUL` or `CSI`.

  `ImplementsLineEdit`: each step of core 1 that takes a key is one step of `LineEdit`, the one `Editor!Meaning` names, a key stored by the interrupt
  is its `Type`, and all else stutters (`KeyEdits`, `InterruptEdits`, `BetweenKeysEdits`). The invariant `EInv` has three parts beside `IInv`.
  `NothingAhead`: while a line is executed the ring is empty and the interrupt holds no key, because the end of the line was the last key
  (`Patient`), so the index, which is set back only when the callback has returned, is not seen before it is; and the call of a line is always the
  innermost of those that have not returned. `LineKept`: what lies before the index are characters, so that the string in the buffer, whatever is
  left behind the index, begins with the line, and is the line once the end of it has put the NUL there (`StringBegins`).
  `PosKept`: every buffer between `_cmd_ndx` and the one recalled holds a line, so that going back to `_cmdhist_ndx` never passes an empty one.
  What the theorem does not say is in `LineEdit`: the saved line may have a tail (`Saved`), and a user who types ahead (`Patient`) is promised nothing.
  The history is read backwards from `_cmd_ndx`: `Walk` and `OnePlaceOn` are what the two indexes and a new line do to the places counted so,
  and `Past` is as long as `Count` says. `EInv` was checked by TLC first, on the instance of the run and on one with other sizes.

Out of reach of the prover, and only model-checked: liveness (`EventuallyLeaves`, `RunonReturns`,
`HousekeepingGoesOnUnlessDebug`, `StartupCompletes`, `FallsQuiet`, `RequestsServed`, `InputServed`, `PromptReturns`), and `ImplementsDebugger`: that the tables of the
disassembler give each of some 1500 opcodes the text the Z80 manual gives it is a matter of data, which TLC goes through opcode by opcode, and what
`Debugger` makes of the operations of the calculator and of the accessors for registers are recursive functions and a choice over tables. Every other
property of a passing run is proved.

## 5. Not modelled, and why

* Vendored and generated code: FatFs, the SD card driver and the regular expressions make up more than half of all lines (`ffunicode.c` alone, a table, has a
  third), and it is not this project's. `dskops/` is a thin layer over it; the call on core 0 it makes is in `CmtLoop`.
* The digits of numbers, number bases, and everything that is layout on the terminal.
* Board support, clock, tone, LED, pins: I/O. The LED bits that share a port with ATTN are left out of `DmLink`.
* CUPL address decoding and the keyboard matrix: stateless. The PC capture, the breakpoint comparators and the CPLDs' own clocks.
* In the monitor, how each command moves memory, ports and registers (taken in `DcCmds` for what it does), and its simulation in `dmsim`.
* The sample programs for the target.

## 6. Plan

Done, in the order of importance: `CmtSched` with `CmtDeadline`, `CmtSchedList`, `CmtLoop`, `CmtHandlers`, `DmLink`, `DBusC` with `DBusXfer`, `Shell` with `LineEdit`,
`DcCmds` with `Debugger`, the disassembler, the registers and the calculator.

What is left:

1. `DcCmds` with a user who does not wait, and a break while a command is outstanding, over `DmLink` instead of a link that always answers.
2. The CPLD in its own clocks: special reset, operation counter to Target mode, PC capture.
3. The output-port shadow written by both cores, together with the LEDs.

------------------------------ MODULE Debugger ------------------------------
(***************************************************************************)
(* What the Debug Controller's commands promise: one command at a time is  *)
(* asked for and answered from the target's memory and registers.  A dump  *)
(* or a disassembly with no place given goes on where the last one ended.  *)
(*                                                                         *)
(* A disassembly is defined over the whole memory, by the layout of the    *)
(* Z80's opcodes: x, y and z are bits 7-6, 5-3 and 2-0.  The registers are *)
(* numbers by name; a pair is made of its bytes.                           *)
(*                                                                         *)
(* Where the code is known to fall short of the Z80's manual or of its own *)
(* help, this is a promise of what the code does, and the comment at the   *)
(* definition begins with "Known:".                                        *)
(***************************************************************************)
EXTENDS Integers, Sequences, TLC
LOCAL INSTANCE FiniteSetsExt

CONSTANTS
  MemSize,   \* the target's memory has the addresses 0..MemSize-1 and wraps
  Page,      \* what is dumped at once, and by default
  Bits       \* the bits of a word of 8, 16 and 32

VARIABLES
  mem, io,   \* the target's memory, and what its ports were given last
  tregs,     \* the target's registers
  regs,      \* the debugger's copy of them
  tgt,       \* "held" or "running"
  calc,      \* the calculator: [s, last, sto, lifts, bits], s is X, Y, Z, T
  next,      \* where to go on: [dump, dasm]
  asked,     \* the command under way: [cmd, loc, args], or NoCmd
  answer     \* what it has shown

vars == <<mem, io, tregs, regs, tgt, calc, next, asked, answer>>

Addr == 0..MemSize - 1
At(a) == mem[a % MemSize]

-----------------------------------------------------------------------------
(* Registers, and the arguments of a command: a number or a register, or    *)
(* either with a bracket before it, which says "what is there".             *)

PairOf ==
  [p \in {"BC", "DE", "HL", "BC*", "DE*", "HL*"} |->
     CASE p = "BC"  -> <<"B", "C">>   [] p = "DE"  -> <<"D", "E">>   [] p = "HL"  -> <<"H", "L">>
       [] p = "BC*" -> <<"B*", "C*">> [] p = "DE*" -> <<"D*", "E*">> [] p = "HL*" -> <<"H*", "L*">>]
Wides == {"SP", "PC", "IX", "IY"}
Shown == {"I"} \cup Wides
         \cup {r \o x : r \in {"A", "B", "C", "D", "E", "F", "H", "L"}, x \in {"", "*"}}
Width(r) == IF r \in Wides \cup DOMAIN PairOf THEN 16 ELSE 8

R(r) == IF r \in DOMAIN PairOf THEN 256 * regs[PairOf[r][1]] + regs[PairOf[r][2]] ELSE regs[r]
With(r, v) ==
  IF r \in DOMAIN PairOf
    THEN [regs EXCEPT ![PairOf[r][1]] = v \div 256, ![PairOf[r][2]] = v % 256]
    ELSE [regs EXCEPT ![r] = v]

Here == [ind |-> "", name |-> ".", n |-> 0]
NoCmd == [cmd |-> "none", loc |-> Here, args |-> <<>>]
IsReg(arg) == arg.ind = "" /\ arg.name \in Shown \cup DOMAIN PairOf

None == -1
Value(arg, width) ==
  CASE IsReg(arg) /\ Width(arg.name) <= width                      -> R(arg.name)
    [] arg.ind = "" /\ arg.name = "" /\ arg.n < 2^width            -> arg.n
    [] OTHER                                                       -> None
\* A place in memory, or a port.
Where(arg) ==
  CASE arg.name = "" /\ arg.n < 65536                              -> arg.n
    [] arg.name \in Shown \cup DOMAIN PairOf /\ Width(arg.name) = 16 -> R(arg.name)
    [] OTHER                                                       -> None
\* Known: a byte has nothing above it, where the help has B in the upper half of
\* the port for a byte register (cmds.c:1645-1655, 1675-1685, 441-481).
Port(arg) == IF IsReg(arg) THEN R(arg.name) ELSE Where(arg)
Unit(arg) == IF arg.ind = "{" THEN 16 ELSE 8

-----------------------------------------------------------------------------
(* The length of an instruction, and whether there is such an instruction. *)

X(op) == op \div 64
Y(op) == (op \div 8) % 8
Z(op) == op % 8

Immediates(op) ==
  CASE X(op) = 0 /\ Z(op) = 0 /\ Y(op) >= 2              -> 1
    [] X(op) = 0 /\ Z(op) = 1 /\ Y(op) % 2 = 0           -> 2
    [] X(op) = 0 /\ Z(op) = 2 /\ Y(op) >= 4              -> 2
    [] X(op) \in {0, 3} /\ Z(op) = 6                     -> 1
    [] X(op) = 3 /\ Z(op) \in {2, 4}                     -> 2
    [] op \in {195, 205}                                 -> 2
    [] X(op) = 3 /\ Z(op) = 3 /\ Y(op) \in {2, 3}        -> 1
    [] OTHER                                             -> 0

\* The documented instructions DD and FD turn from (HL) or HL to IX and IY.
UsesMemHL(op) ==
  \/ X(op) = 0 /\ Z(op) \in {4, 5, 6} /\ Y(op) = 6
  \/ X(op) = 1 /\ ((Y(op) = 6) # (Z(op) = 6))
  \/ X(op) = 2 /\ Z(op) = 6
UsesHL(op) ==
  \/ X(op) = 0 /\ Z(op) = 1 /\ (Y(op) % 2 = 1 \/ Y(op) = 4)
  \/ X(op) = 0 /\ Z(op) \in {2, 3} /\ Y(op) \in {4, 5}
  \/ X(op) = 3 /\ Z(op) \in {1, 3, 5} /\ Y(op) = 4
  \/ X(op) = 3 /\ Z(op) = 1 /\ Y(op) \in {5, 7}

IsShift6(op) == X(op) = 0 /\ Y(op) = 6
\* Known: LD R,A and LD A,R (79 and 95) are taken for no instructions.
IsEd(op) ==
  \/ X(op) = 1 /\ Z(op) \in {0, 1} /\ Y(op) # 6
  \/ X(op) = 1 /\ Z(op) \in {2, 3}
  \/ X(op) = 2 /\ Z(op) < 4 /\ Y(op) >= 4
  \/ op \in {68, 69, 77, 70, 86, 94, 71, 87, 103, 111}

\* What is written: the mnemonic, and the operands with the numbers in them.
Text(inst, ops) == [inst |-> inst, ops |-> ops]
Str(s) == [as |-> s, n |-> 0]
Num(v) == [as |-> "n", n |-> v]
Word(v) == [as |-> "nn", n |-> v]
Mem(o) == [o EXCEPT !.as = "(" \o @ \o ")"]
Signed(b) == IF b < 128 THEN b ELSE b - 256

Cc(y) == Str(<<"nz", "z", "nc", "c", "po", "pe", "p", "m">>[y + 1])
Alu(y, o) ==
  CASE y \in {0, 1, 3} -> Text(<<"add", "adc", "", "sbc">>[y + 1], <<Str("a"), o>>)
    [] OTHER -> Text(<<"", "", "sub", "", "and", "xor", "or", "cp">>[y + 1], <<o>>)

\* The instruction op with its arguments behind p, at the address a, where
\* HL stands for hl and (HL) for the operand m.
BaseText(a, op, p, hl, m) ==
  LET y == Y(op)
      z == Z(op)
      even == y % 2 = 0
      n == Num(At(p))
      nn == Word(At(p) + 256 * At(p + 1))
      to == Word((a + 2 + Signed(At(p))) % 65536)
      A == Str("a")
      r(i) == IF i = 6 THEN m ELSE Str(<<"b", "c", "d", "e", "h", "l", "", "a">>[i + 1])
      rp == <<Str("bc"), Str("de"), hl, Str("sp")>>[y \div 2 + 1]
      rp2 == IF y \div 2 = 3 THEN Str("af") ELSE rp
      T(inst) == Text(inst, <<>>)
  IN  CASE X(op) = 1 -> IF op = 118 THEN T("halt") ELSE Text("ld", <<r(y), r(z)>>)
        [] X(op) = 2 -> Alu(y, r(z))
        [] X(op) = 0 /\ z = 0 ->
             (CASE y = 0 -> T("nop")
                [] y = 1 -> Text("ex", <<Str("af"), Str("af'")>>)
                [] y = 2 -> Text("djnz", <<to>>)
                [] y = 3 -> Text("jr", <<to>>)
                [] OTHER -> Text("jr", <<Cc(y - 4), to>>))
        [] X(op) = 0 /\ z = 1 -> IF even THEN Text("ld", <<rp, nn>>) ELSE Text("add", <<hl, rp>>)
        [] X(op) = 0 /\ z = 2 ->
             LET place == IF y < 4 THEN Mem(rp) ELSE Mem(nn)
                 reg == IF y \in {4, 5} THEN hl ELSE A
             IN Text("ld", IF even THEN <<place, reg>> ELSE <<reg, place>>)
        [] X(op) = 0 /\ z = 3 -> Text(IF even THEN "inc" ELSE "dec", <<rp>>)
        [] X(op) = 0 /\ z \in {4, 5} -> Text(IF z = 4 THEN "inc" ELSE "dec", <<r(y)>>)
        [] X(op) = 0 /\ z = 6 -> Text("ld", <<r(y), n>>)
        [] X(op) = 0 /\ z = 7 ->
             T(<<"rlca", "rrca", "rla", "rra", "daa", "cpl", "scf", "ccf">>[y + 1])
        [] X(op) = 3 /\ z = 0 -> Text("ret", <<Cc(y)>>)
        [] X(op) = 3 /\ z = 1 ->
             (CASE even  -> Text("pop", <<rp2>>)
                [] y = 1 -> T("ret")
                [] y = 3 -> T("exx")
                [] y = 5 -> Text("jp", <<Mem(hl)>>)
                [] y = 7 -> Text("ld", <<Str("sp"), hl>>))
        [] X(op) = 3 /\ z = 2 -> Text("jp", <<Cc(y), nn>>)
        [] X(op) = 3 /\ z = 3 ->
             (CASE y = 0 -> Text("jp", <<nn>>)
                [] y = 2 -> Text("out", <<Mem(n), A>>)
                [] y = 3 -> Text("in", <<A, Mem(n)>>)
                [] y = 4 -> Text("ex", <<Str("(sp)"), hl>>)
                [] y = 5 -> Text("ex", <<Str("de"), Str("hl")>>)
                [] y = 6 -> T("di")
                [] y = 7 -> T("ei"))
        [] X(op) = 3 /\ z = 4 -> Text("call", <<Cc(y), nn>>)
        [] X(op) = 3 /\ z = 5 -> IF even THEN Text("push", <<rp2>>) ELSE Text("call", <<nn>>)
        [] X(op) = 3 /\ z = 6 -> Alu(y, n)
        [] X(op) = 3 /\ z = 7 -> Text("rst", <<Num(8 * y)>>)

CbText(op, m) ==
  LET o == IF Z(op) = 6 THEN m
           ELSE Str(<<"b", "c", "d", "e", "h", "l", "", "a">>[Z(op) + 1])
  IN  IF X(op) = 0
        THEN Text(<<"rlc", "rrc", "rl", "rr", "sla", "sra", "", "srl">>[Y(op) + 1], <<o>>)
        ELSE Text(<<"bit", "res", "set">>[X(op)], <<Num(Y(op)), o>>)

EdText(op, p) ==
  LET even == Y(op) % 2 = 0
      r == Str(<<"b", "c", "d", "e", "h", "l", "", "a">>[Y(op) + 1])
      rp == Str(<<"bc", "de", "hl", "sp">>[Y(op) \div 2 + 1])
      nn == Mem(Word(At(p) + 256 * At(p + 1)))
      either(inst, first, other) ==
        Text(inst, IF even THEN <<first, other>> ELSE <<other, first>>)
  IN  CASE X(op) = 2 ->                        \* the block instructions
             LET what == IF Z(op) = 3 THEN <<"outi", "outd", "otir", "otdr">>
                         ELSE <<"i", "d", "ir", "dr">>
             IN Text((IF Z(op) = 3 THEN "" ELSE <<"ld", "cp", "in">>[Z(op) + 1])
                        \o what[Y(op) - 3], <<>>)
        [] Z(op) = 0 -> Text("in", <<r, Str("(c)")>>)
        [] Z(op) = 1 -> Text("out", <<Str("(c)"), r>>)
        [] Z(op) = 2 -> Text(IF even THEN "sbc" ELSE "adc", <<Str("hl"), rp>>)
        [] Z(op) = 3 -> either("ld", nn, rp)
        [] Z(op) = 4 -> Text("neg", <<>>)
        [] Z(op) = 5 -> Text(IF Y(op) = 1 THEN "reti" ELSE "retn", <<>>)
        [] Z(op) = 6 -> Text("im", <<Num(IF Y(op) = 0 THEN 0 ELSE Y(op) - 1)>>)
        [] Y(op) \in {0, 2} -> Text("ld", IF Y(op) = 0 THEN <<Str("i"), Str("a")>>
                                         ELSE <<Str("a"), Str("i")>>)
        [] OTHER -> Text(IF Y(op) = 4 THEN "rrd" ELSE "rld", <<>>)

\* The statement at a: its address, length, whether it is valid, and its text.
\* Known: the index behind a "-" is the byte as it is, in two's complement
\* (cmds.c:351-355); and LD (IX+d),n is written with d for the n.
Stmt(a) ==
  LET b(j) == At(a + j)
      s(n, ok, text) ==
        [addr |-> a, len |-> n, ok |-> ok, stmt |-> IF ok THEN text ELSE Text("none", <<>>)]
      xy == Str(IF b(0) = 221 THEN "ix" ELSE "iy")
      index == [xy EXCEPT !.as = (IF Signed(b(2)) < 0 THEN "-" ELSE "+") \o @, !.n = b(2)]
      first == IF b(1) = 54 THEN a + 2 ELSE a + 3
  IN  CASE b(0) = 203 -> s(2, ~IsShift6(b(1)), CbText(b(1), Str("(hl)")))
        [] b(0) = 237 -> s(IF IsEd(b(1)) /\ X(b(1)) = 1 /\ Z(b(1)) = 3 THEN 4 ELSE 2,
                           IsEd(b(1)), EdText(b(1), a + 2))
        [] b(0) \in {221, 253} ->
             IF b(1) = 203 THEN s(4, Z(b(3)) = 6 /\ ~IsShift6(b(3)), CbText(b(3), index))
             ELSE IF UsesMemHL(b(1))
               THEN s(3 + Immediates(b(1)), TRUE, BaseText(a, b(1), first, xy, index))
             ELSE IF UsesHL(b(1))
               THEN s(2 + Immediates(b(1)), TRUE, BaseText(a, b(1), a + 2, xy, index))
             ELSE s(2, FALSE, Text("none", <<>>))
        [] OTHER -> s(1 + Immediates(b(0)), TRUE,
                      BaseText(a, b(0), a + 1, Str("hl"), Str("(hl)")))

Behind(stmt) == (stmt.addr + stmt.len) % MemSize

\* n statements from a, at least one; the first that is not valid ends it.
Statements(a, n) ==
  LET s[k \in 1..n + 1] ==
        IF k = 1 THEN <<Stmt(a)>>
        ELSE LET last == s[k - 1][Len(s[k - 1])]
             IN IF last.ok THEN Append(s[k - 1], Stmt(Behind(last))) ELSE s[k - 1]
  IN s[IF n = 0 THEN 1 ELSE n]

Cells(a, n) == [i \in 1..n |-> [addr |-> (a + i - 1) % MemSize, byte |-> At(a + i - 1)]]
Regs == [r \in Shown |-> R(r)]
Cpu == <<[regs |-> Regs]>> \o Statements(R("PC") % MemSize, 1)

-----------------------------------------------------------------------------
(* The calculator: a stack of four whose last cell stays when one is taken  *)
(* off, as in the HP-16C it is named for; words of `bits` bits.             *)

Blank(bits) ==
  [s |-> <<0, 0, 0, 0>>, last |-> 0, sto |-> [n \in 0..9 |-> 0], lifts |-> FALSE, bits |-> bits]

Without(s, n) == [i \in 1..4 |-> s[IF i + n > 4 THEN 4 ELSE i + n]]
Put(k, s, v) == [k EXCEPT !.s = <<v % 2^k.bits>> \o SubSeq(s, 1, 3), !.lifts = TRUE]

Digits(v) == {i \in 0..30 : (v \div 2^i) % 2 = 1}
Made(S) == MapThenSumSet(LAMBDA i : 2^i, S)
Of(op, y, x) ==
  CASE op = "+" -> y + x [] op = "-" -> y - x [] op = "*" -> y * x [] op = "/" -> y \div x
    [] op \in {"&", ".and"} -> Made(Digits(y) \cap Digits(x))
    [] op \in {"|", ".or"}  -> Made(Digits(y) \cup Digits(x))

\* What a key does to k.  A division by 0 costs its operands.
Key(k, key) ==
  LET s == k.s
      x == s[1]
      now(t) == [k EXCEPT !.s = t, !.lifts = TRUE]
      l == [k EXCEPT !.last = x]
      small == {b \in {8, 16, 32} : x % 256 >= b} \cup {8}
      size == Bits[IF x % 256 = 0 THEN 32 ELSE CHOOSE b \in small : \A d \in small : d <= b]
      reg == CHOOSE n \in 0..9 : key \in {".r" \o ToString(n), ".s" \o ToString(n)}
  IN  CASE key = "/" /\ x = 0 -> [now(Without(s, 2)) EXCEPT !.last = x]
        [] key \in {"+", "-", "*", "/", "&", "|", ".and", ".or"} ->
             Put(l, Without(s, 2), Of(key, s[2], x))
        [] key = ".sl" -> Put(l, Without(s, 1), 2 * x)
        [] key = ".sr" -> Put(l, Without(s, 1), x \div 2)
        [] key = ".clr" -> Blank(k.bits)
        [] key = ".clx" -> [k EXCEPT !.s[1] = 0, !.lifts = FALSE]
        [] key = ".lx" -> Put(k, s, k.last)
        [] key \in {".y", ".z", ".t"} ->
             [now([s EXCEPT ![1] = s[CASE key = ".y" -> 2 [] key = ".z" -> 3 [] key = ".t" -> 4]])
                EXCEPT !.last = x]
        [] key = ".xy" -> now(<<s[2], x, s[3], s[4]>>)
        [] key = ".rd" -> now(Tail(s) \o <<x>>)
        [] key = ".ru" -> now(<<s[4]>> \o SubSeq(s, 1, 3))
        [] key = ".wsz" -> [l EXCEPT !.s = [i \in 1..4 |-> s[i] % 2^size], !.bits = size,
                                     !.lifts = TRUE]
        [] key \in {".r" \o ToString(n) : n \in 0..9} -> Put(l, s, k.sto[reg])
        [] key \in {".s" \o ToString(n) : n \in 1..9} -> [now(s) EXCEPT !.sto[reg] = x]
        [] OTHER -> now(s)

\* Known: 0 cannot be stored, for its entry is called ".r0" (calculator/cmd/cmds.c:141).
Keys ==
  {"+", "-", "*", "/", "&", "|", ".and", ".or", ".clr", ".clx", ".lx", ".rd", ".ru", ".sl",
   ".sr", ".t", ".x", ".y", ".z", ".wsz", ".xy", ".stk", ".bin", ".dab", "ops"}
    \cup {".r" \o ToString(n) : n \in 0..9} \cup {".s" \o ToString(n) : n \in 1..9}
IsKey(arg) == arg.ind = "" /\ arg.name \in Keys
NumberOf(arg) == IF arg.ind = "" /\ arg.name = "" THEN arg.n ELSE Value(arg, 16)
IsEntry(c, arg) == (c.cmd = "calc" /\ IsKey(arg)) \/ NumberOf(arg) # None

\* A number is put on the stack, or in place of X where that was cleared.
Entered(k, arg) ==
  IF IsKey(arg) THEN Key(k, arg.name)
  ELSE IF k.lifts THEN Put(k, k.s, NumberOf(arg))
  ELSE Put(k, Tail(k.s) \o <<0>>, NumberOf(arg))

\* calc takes the entries up to one that is none; add and sub take all or none.
Result(c) ==
  LET n == Len(c.args)
      runs[i \in 0..n] ==
        IF i = 0 THEN [k |-> calc, on |-> TRUE]
        ELSE IF runs[i - 1].on /\ IsEntry(c, c.args[i])
          THEN [k |-> Entered(runs[i - 1].k, c.args[i]), on |-> TRUE]
        ELSE [runs[i - 1] EXCEPT !.on = FALSE]
      sum == FoldSet(LAMBDA i, t : t + (IF c.cmd = "sub" /\ i > 1 THEN -1 ELSE 1)
                                         * NumberOf(c.args[i]), 0, 1..n)
      x == calc.s[1]
  IN  IF c.cmd = "calc"
        THEN IF n > 0 THEN runs[n].k
             ELSE IF calc.lifts THEN Put(calc, calc.s, x) ELSE calc
      ELSE IF n = 0 \/ \E i \in 1..n : ~IsEntry(c, c.args[i]) THEN calc
      ELSE [calc EXCEPT !.s[1] = sum % 2^calc.bits, !.last = x]

-----------------------------------------------------------------------------

AllOf(args, width) == \A i \in DOMAIN args : Value(args[i], width) # None

\* Whether a command can be done, and whether it can without the target.
Makes(c) ==
  CASE c.cmd \in {"dump", "dumpa", "dasm", "go", "step"} ->
         (c.loc = Here \/ Value(c.loc, 16) # None) /\ AllOf(c.args, 16)
    [] c.cmd \in {"inc", "dec"} -> IsReg(c.loc) /\ AllOf(c.args, Width(c.loc.name))
    [] c.cmd \in {"exam", "load"} /\ IsReg(c.loc) -> AllOf(c.args, Width(c.loc.name))
    [] c.cmd \in {"exam", "load"} -> Where(c.loc) # None /\ AllOf(c.args, Unit(c.loc))
    [] c.cmd \in {"in", "out"} -> Port(c.loc) # None /\ AllOf(c.args, 8)
    [] c.cmd \in {"getreg", "putreg", "cpu"} -> TRUE
    [] OTHER -> FALSE
AtOnce(c) ==
  \/ ~Makes(c)
  \/ c.cmd \in {"inc", "dec"}
  \/ c.cmd \in {"exam", "load"} /\ IsReg(c.loc)

Ask ==
  /\ asked = NoCmd
  /\ asked' # NoCmd /\ Makes(asked') /\ ~AtOnce(asked')
  /\ answer' = <<>>
  /\ regs' = IF asked'.cmd \in {"go", "step"} /\ asked'.loc # Here
               THEN With("PC", Value(asked'.loc, 16)) ELSE regs
  /\ UNCHANGED <<mem, io, tregs, tgt, calc, next>>

\* A command that is not understood changes nothing, and what is done to a
\* register is done to its bits, whatever else is made of them.
New(c) ==
  LET by == IF c.args = <<>> THEN 1 ELSE Value(c.args[1], Width(c.loc.name))
      wrap == 2^Width(c.loc.name)
  IN  CASE c.cmd = "load" -> by
        [] c.cmd = "inc"  -> (R(c.loc.name) + by) % wrap
        [] c.cmd = "dec"  -> (R(c.loc.name) - by) % wrap
\* Known: a load of a word may set the low byte only, and the high one is then
\* anything: its size is read though it was never set (cmds.c:1332-1334).
MayLoad(c) ==
  IF Width(c.loc.name) = 16 THEN {(New(c) % 256) + 256 * high : high \in 0..255} ELSE {New(c)}
AnswerAtOnce ==
  /\ asked = NoCmd
  /\ Len(answer') = 1 /\ "to" \in DOMAIN answer'[1]
  /\ LET c == answer'[1].to
         sees(v) == answer'[1].val = v
     IN  /\ AtOnce(c)
         /\ IF ~Makes(c) THEN sees(None) /\ UNCHANGED regs
            ELSE IF c.cmd = "exam" THEN sees(R(c.loc.name)) /\ UNCHANGED regs
            ELSE IF c.cmd = "load"
              THEN sees(0) /\ \E v \in MayLoad(c) : regs' = With(c.loc.name, v)
            ELSE sees(New(c)) /\ regs' = With(c.loc.name, New(c))
  /\ UNCHANGED <<mem, io, tregs, tgt, calc, next, asked>>

Compute ==
  /\ asked = NoCmd
  /\ Len(answer') = 1 /\ "to" \in DOMAIN answer'[1]
  /\ LET c == answer'[1].to
     IN  /\ c.cmd \in {"calc", "add", "sub"}
         /\ calc' = Result(c)
         /\ answer'[1].val = IF \A i \in DOMAIN c.args : IsEntry(c, c.args[i]) THEN calc'.s[1]
                             ELSE None
  /\ UNCHANGED <<mem, io, tregs, regs, tgt, next, asked>>

From(start) == IF asked.loc = Here THEN start ELSE Value(asked.loc, 16) % MemSize
Count(default) == IF asked.args = <<>> THEN default ELSE Value(asked.args[1], 16)
Answered(a) == asked' = NoCmd /\ answer' = a

Dump ==
  LET n == IF Count(Page) > Page THEN Page ELSE Count(Page)
  IN  /\ asked.cmd \in {"dump", "dumpa"}
      /\ Answered(Cells(From(next.dump), n))
      /\ next' = [next EXCEPT !.dump = (From(@) + n) % MemSize]
      /\ UNCHANGED <<mem, io, tregs, regs, tgt, calc>>

Dasm ==
  /\ asked.cmd = "dasm"
  /\ LET s == Statements(From(next.dasm), Count(16))
     IN /\ Answered(s)
        /\ next' = [next EXCEPT !.dasm = Behind(s[Len(s)])]
  /\ UNCHANGED <<mem, io, tregs, regs, tgt, calc>>

Examine ==
  /\ asked.cmd = "exam"
  /\ Answered(Cells(Where(asked.loc), Unit(asked.loc) \div 8))
  /\ UNCHANGED <<mem, io, tregs, regs, tgt, calc, next>>

Input ==
  /\ asked.cmd = "in"
  /\ LET p == Port(asked.loc) % MemSize IN Answered(<<[addr |-> p, byte |-> io[p]]>>)
  /\ UNCHANGED <<mem, io, tregs, regs, tgt, calc, next>>

\* The memory with the values of a load in it, words low byte first.
Loaded ==
  LET n == Unit(asked.loc) \div 8
      byte(k) == (Value(asked.args[(k \div n) + 1], Unit(asked.loc)) \div 256^(k % n)) % 256
      nth(a) == (a - Where(asked.loc)) % MemSize
  IN  [a \in Addr |-> IF nth(a) < n * Len(asked.args) THEN byte(nth(a)) ELSE mem[a]]
Given ==
  [io EXCEPT ![Port(asked.loc) % MemSize] = Value(asked.args[Len(asked.args)], 8)]

Load ==
  /\ asked.cmd = "load"
  /\ mem' = Loaded
  /\ UNCHANGED <<io, tregs, regs, tgt, calc, next, asked, answer>>
Output ==
  /\ asked.cmd = "out"
  /\ io' = Given
  /\ UNCHANGED <<mem, tregs, regs, tgt, calc, next, asked, answer>>
PutRegs ==
  /\ asked.cmd = "putreg"
  /\ tregs' = regs
  /\ UNCHANGED <<mem, io, regs, tgt, calc, next, asked, answer>>

\* A load, an output or the sending of the registers is over when it is done.
PutDone ==
  /\ \/ asked.cmd = "putreg" /\ tregs = regs
     \/ asked.cmd = "load" /\ mem = Loaded
     \/ asked.cmd = "out" /\ io = Given
  /\ Answered(<<>>)
  /\ UNCHANGED <<mem, io, tregs, regs, tgt, calc, next>>

GetRegs ==
  /\ asked.cmd = "getreg"
  /\ regs' = tregs
  /\ UNCHANGED <<mem, io, tregs, tgt, calc, next, asked, answer>>

\* The registers are shown as they are, but for "cpu" as they were last got.
ShowCpu ==
  /\ \/ asked.cmd = "cpu"
     \/ asked.cmd = "getreg" /\ regs = tregs
  /\ Answered(Cpu)
  /\ UNCHANGED <<mem, io, tregs, regs, tgt, calc, next>>

\* GO and STEP: the target runs until something stops it.
Start ==
  /\ asked.cmd \in {"go", "step"} /\ tgt = "held"
  /\ tgt' = "running"
  /\ tregs' = IF asked.loc = Here THEN tregs ELSE regs
  /\ UNCHANGED <<mem, io, regs, calc, next, asked, answer>>
\* Known: that is always a full reset of the monitor, so its registers are gone,
\* and nothing is shown of where it stopped (dbmon.z80:77-83, 104-128, 898-938).
Stop ==
  /\ tgt = "running"
  /\ tgt' = "held"
  /\ tregs' = [r \in DOMAIN tregs |-> 0]
  /\ Answered(<<>>)
  /\ UNCHANGED <<mem, io, regs, calc, next>>

Init ==
  /\ mem \in [Addr -> 0..255] /\ io \in [Addr -> 0..255]
  /\ \A r \in Shown : {tregs[r], regs[r]} \subseteq 0..2^Width(r) - 1
  /\ tgt = "held"
  /\ next = [dump |-> 0, dasm |-> 0]
  /\ calc = Blank(Bits[32])
  /\ asked = NoCmd /\ answer = <<>>

Next ==
  \/ Ask \/ AnswerAtOnce \/ Compute \/ Dump \/ Dasm \/ Examine \/ Input \/ Load
  \/ Output \/ PutRegs \/ PutDone \/ GetRegs \/ ShowCpu \/ Start \/ Stop

Spec == Init /\ [][Next]_vars
=============================================================================

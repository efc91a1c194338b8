------------------------------ MODULE MCDcCmds ------------------------------
(* Every opcode after every prefix, laid across the end of the memory, for  *)
(* one disassembly, with positive indexes and, for some, negative ones; and *)
(* two small memories for five commands: one that gets registers, two that  *)
(* change something, one that looks, a disassembly; and the calculator:     *)
(* entries and a key, a key and a value, and a sum.  Its words of 32 bits   *)
(* have 15 here, and those of 16 have 12.                                   *)
EXTENDS DcCmds

MCMemSize == 8
MCPage == 4
MCGarbage == {90}
MCBits == [n \in {8, 16, 32} |-> CASE n = 8 -> 8 [] n = 16 -> 12 [] n = 32 -> 15]

\* All bytes of the registers differ, and PC is pc.
File(k, pc) == [i \in 0..25 |-> IF i = 20 THEN pc ELSE IF i = 21 THEN 0 ELSE 7 * i + k]

Image(code) ==
  [a \in 0..7 |-> LET i == (a + 2) % 8 IN IF i < Len(code) THEN code[i + 1] ELSE 16 + i]
Prefixes == {<<>>, <<CB>>, <<DD>>, <<ED>>, <<FD>>, <<DD, CB, 5>>, <<FD, CB, 5>>}
Start(code, n) == [mem |-> Image(code), regs |-> File(4, 6), left |-> n]

MCStarts ==
  {Start(Append(p, op), 1) : p \in Prefixes, op \in Byte}
    \cup {Start(p \o <<251>>, 1) : p \in {<<DD, 70>>, <<FD, 54>>, <<DD, 117>>}}   \* -5
    \cup {Start(<<p, CB, 251, op>>, 1) : p \in {DD, FD}, op \in {6, 70, 71}}
    \cup {Start(<<op, 240>>, 1) : op \in {16, 24, 32, 40, 48, 56}}   \* backwards
    \cup {Start(<<62, 1, DD, 203, 2, 198, DD, 0>>, 5),   \* DD 00 is invalid
          Start(<<205, 6, 0, FD, CB, 1, 70, 237>>, 5),
          Start(<<>>, 9)}

Cmd(cmd, loc, args) == [cmd |-> cmd, loc |-> loc, args |-> args]
To(cmd, loc) == Cmd(cmd, loc, <<>>)
Last == {Cmd("dasm", Num(6), <<Num(2)>>), Cmd("dasm", Here, <<Num(1)>>)}
Gets == {To("getreg", Here), To("step", Here), To("go", Num(2)),
         Cmd("dump", Num(5), <<Num(9)>>), Cmd("dump", Here, <<Num(0)>>)}
Changes ==
  {Cmd("load", Num(7), <<Num(DD), Num(2)>>), Cmd("load", Behind("{", Num(7)), <<Num(513)>>),
   Cmd("load", Behind("(", Reg("HL")), <<Reg("E"), Num(256)>>),      \* 256 is no byte
   Cmd("load", Reg("D*"), <<Reg("L")>>), Cmd("load", Reg("BC"), <<Reg("IX")>>),
   Cmd("inc", Reg("C"), <<Num(255)>>), To("dec", Reg("HL*")),
   Cmd("out", Reg("B"), <<Num(1), Reg("A")>>), To("putreg", Here), To("step", Reg("DE"))}
Looks ==
  {Cmd("dumpa", Here, <<Num(3)>>), Cmd("dumpa", Here, <<Num(4)>>), To("exam", Behind("{", Reg("SP"))), To("exam", Num(3)),
   To("exam", Reg("HL")), To("exam", Behind("(", Reg("B"))),         \* no word register
   To("in", Reg("B")), To("cpu", Here), To("go", Here), To("getreg", Here)}
\* Entries: all four cells differ, and X is 8, 0, or larger than a word of 8 bits.
Enters(keys) == [i \in DOMAIN keys |-> Reg(keys[i])]
Filled4 == {<<Num(600), Num(77), Num(9), Num(x)>> : x \in {0, 8, 300}}
Keys == Others \cup {".r1", ".s1", ".s0", "H", "(B", "HL"}
Entries == {<<>>, <<Num(5)>>} \cup {f \o Enters(<<k>>) : f \in Filled4, k \in Keys}
KeyThen == {<<k>> : k \in Keys} \cup {<<k, "H">> : k \in Keys}
Sums ==
  {Cmd(c, Here, a) : c \in {"add", "sub", "calc"},
                     a \in {<<>>, <<Num(1), Reg("HL"), Num(32767)>>, <<Num(5), Reg("+")>>}}
MCOffers ==
  [n \in 0..9 |-> CASE n \in {0, 6} -> {}
                    [] n = 1 -> Last
                    [] n = 2 -> Looks
                    [] n = 5 -> Gets
                    [] n \in {3, 4} -> Changes
                    [] n = 7 -> Sums
                    [] n = 8 -> {Cmd("calc", Here, Enters(k)) : k \in KeyThen}
                    [] n = 9 -> {Cmd("calc", Here, e) : e \in Entries}]
=============================================================================

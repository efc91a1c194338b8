---------------------------- MODULE Z80DasmText ----------------------------
(***************************************************************************)
(* What the disassembler writes for a complete statement (src-rp/lib/      *)
(* z80dasm/z80disasm.c).  A text is a mnemonic and its operands, each of   *)
(* them how it is written and the number that is written in it; the case,  *)
(* the number base and the comment are left out.                           *)
(***************************************************************************)
EXTENDS Z80Dasm

Text(inst, ops) == [inst |-> inst, ops |-> ops]
NoText == Text("none", <<>>)
Str(s) == [as |-> s, n |-> 0]
Lit(s, n) == [as |-> s, n |-> n]

_ccstrs  == <<"nz", "z", "nc", "c", "po", "pe", "p", "m">>
_regstrs == <<"b", "c", "d", "e", "h", "l", "(hl)", "a">>
_rp1strs == <<"bc", "de", "hl", "sp">>
_rp2strs == <<"bc", "de", "hl", "af">>

_regn1(op) == (op \div 8) % 8        \* bits 5..3
_regn2(op) == op % 8                 \* bits 2..0
_condstr(op) == Str(_ccstrs[_regn1(op) + 1])

\* Whether the first byte was DD or FD, and which one.
Xy(c) == c.i > 1 /\ c.d[1] # ED
_hlixiy(c) == CASE c.d[1] = DD -> "ix" [] c.d[1] = FD -> "iy" [] OTHER -> "hl"
_rp1(c) == LET i == (Inst(c) \div 16) % 4 IN IF i = 2 THEN _hlixiy(c) ELSE _rp1strs[i + 1]
_rp2(c) == LET i == (Inst(c) \div 16) % 4 IN IF i = 2 THEN _hlixiy(c) ELSE _rp2strs[i + 1]

\* (ix+n): the sign and, for a negative index too, the byte as it is.
_catcixiyi(c) ==
  LET reg == IF c.d[1] = DD THEN "ix" ELSE "iy"
  IN  Lit((IF c.d[3] < 128 THEN "+" ELSE "-") \o reg, c.d[3])
_catreg(r, c) == IF r = 6 /\ Xy(c) THEN _catcixiyi(c) ELSE Str(_regstrs[r + 1])

_mkword(c, k) == c.d[k] + 256 * c.d[k + 1]
Arg(c, k) == Lit("n", c.d[k])
ArgWord(c, k) == Lit("nn", _mkword(c, k))
InParens(o) == Lit("(" \o o.as \o ")", o.n)

\* A displacement is written as the address it leads to.
_catdispaddr(c) ==
  LET b == c.d[2]
      disp == IF b < 128 THEN b ELSE b - 256
  IN  Lit("nn", (c.addr + 2 + disp) % 65536)

-----------------------------------------------------------------------------
(* The functions of the first byte's table; most have no number. *)

NoArgs ==
  [op \in {0, 7, 15, 23, 31, 39, 47, 55, 63, 118, 201, 217, 243, 251} |->
     CASE op = 0 -> "nop"  [] op = 7 -> "rlca"  [] op = 15 -> "rrca" [] op = 23 -> "rla"
       [] op = 31 -> "rra" [] op = 39 -> "daa"  [] op = 47 -> "cpl"  [] op = 55 -> "scf"
       [] op = 63 -> "ccf" [] op = 118 -> "halt" [] op = 201 -> "ret"
       [] op = 217 -> "exx" [] op = 243 -> "di" [] op = 251 -> "ei"]

\* addar, adcar, subar, sbcar, andar, xorar, orar, cpar; and opan.
OpOnA(op, o) ==
  LET inst == <<"add", "adc", "sub", "sbc", "and", "xor", "or", "cp">>[_regn1(op) + 1]
  IN  Text(inst, IF inst \in {"add", "adc", "sbc"} THEN <<Str("a"), o>> ELSE <<o>>)

LdText(c) ==
  LET op == Inst(c)
      a  == Str("a")
      nn == ArgWord(c, c.i + 1)
      hl == Str(_hlixiy(c))
      rp == Str(_rp1(c))
      ld(to, from) == Text("ld", <<to, from>>)
  IN  CASE op \in _d_ldrpnn  -> ld(rp, nn)
        [] op \in {2, 18}    -> ld(InParens(rp), a)
        [] op \in {10, 26}   -> ld(a, InParens(rp))
        [] op \in _d_ldregn  -> ld(_catreg(_regn1(op), c), Arg(c, c.i + 1))
        [] op = 34           -> ld(InParens(nn), hl)
        [] op = 42           -> ld(hl, InParens(nn))
        [] op = 50           -> ld(InParens(ArgWord(c, 2)), a)
        [] op = 58           -> ld(a, InParens(nn))
        [] op = 249          -> ld(Str("sp"), hl)
        [] OTHER             -> ld(_catreg(_regn1(op), c), _catreg(_regn2(op), c))
Lds == _d_ldrpnn \cup _d_ldregn \cup _d_ld_nn \cup {2, 18, 10, 26, 249}
       \cup (64..127 \ {118})

_dis_fntbl(c) ==
  LET op == Inst(c)
      hl == Str(_hlixiy(c))
      r1 == _catreg(_regn1(op), c)
  IN  CASE op \in DOMAIN NoArgs        -> Text(NoArgs[op], <<>>)
        [] op \in Lds                  -> LdText(c)
        [] op \in 128..191             -> OpOnA(op, _catreg(_regn2(op), c))
        [] op \in _d_opan              -> OpOnA(op, Arg(c, 2))
        [] op \in {3, 19, 35, 51}      -> Text("inc", <<Str(_rp1(c))>>)
        [] op \in {11, 27, 43, 59}     -> Text("dec", <<Str(_rp1(c))>>)
        [] op < 64 /\ op % 8 = 4       -> Text("inc", <<r1>>)
        [] op < 64 /\ op % 8 = 5       -> Text("dec", <<r1>>)
        [] op \in {9, 25, 41, 57}      -> Text("add", <<hl, Str(_rp1(c))>>)
        [] op = 8                      -> Text("ex", <<Str("af"), Str("af'")>>)
        [] op = 227                    -> Text("ex", <<Str("(sp)"), hl>>)
        [] op = 235                    -> Text("ex", <<Str("de"), Str("hl")>>)
        [] op = 16                     -> Text("djnz", <<_catdispaddr(c)>>)
        [] op = 24                     -> Text("jr", <<_catdispaddr(c)>>)
        [] op \in {32, 40, 48, 56}     -> Text("jr", <<_condstr(op % 32), _catdispaddr(c)>>)
        [] op = 195                    -> Text("jp", <<ArgWord(c, 2)>>)
        [] op \in _d_jp \ {195}        -> Text("jp", <<_condstr(op), ArgWord(c, 2)>>)
        [] op = 233                    -> Text("jp", <<InParens(hl)>>)
        [] op = 205                    -> Text("call", <<ArgWord(c, 2)>>)
        [] op \in _d_call \ {205}      -> Text("call", <<_condstr(op), ArgWord(c, 2)>>)
        [] op > 191 /\ op % 8 = 0      -> Text("ret", <<_condstr(op)>>)
        [] op > 191 /\ op % 8 = 7      -> Text("rst", <<Lit("n", 8 * _regn1(op))>>)
        [] op \in {193, 209, 225, 241} -> Text("pop", <<Str(_rp2(c))>>)
        [] op \in {197, 213, 229, 245} -> Text("push", <<Str(_rp2(c))>>)
        [] op = 211                    -> Text("out", <<InParens(Arg(c, 2)), Str("a")>>)
        [] op = 219                    -> Text("in", <<Str("a"), InParens(Arg(c, c.i + 1))>>)

-----------------------------------------------------------------------------
(* The groups of the second byte. *)

CbText(c) ==
  LET bitmov == _regn1(Inst(c))
      reg == _catreg(_regn2(Inst(c)), c)
      mov == <<"rlc", "rrc", "rl", "rr", "sla", "sra", "", "srl">>
      bit == <<"bit", "res", "set">>
      group == Inst(c) \div 64
  IN  IF group = 0 THEN Text(mov[bitmov + 1], <<reg>>)
      ELSE Text(bit[group], <<Lit("n", bitmov), reg>>)

_edoprt == <<"ldi", "cpi", "ini", "outi", "ldd", "cpd", "ind", "outd",
             "ldir", "cpir", "inir", "otir", "lddr", "cpdr", "indr", "otdr">>

_d_edld(c) ==
  LET nn == InParens(ArgWord(c, 3))
      rp == Str(_rp1(c))
  IN  Text("ld", IF (Inst(c) \div 8) % 2 = 1 THEN <<rp, nn>> ELSE <<nn, rp>>)

EdText(c) ==
  LET op == Inst(c)
      r == Str(_regstrs[_regn1(op) + 1])
      key == IF op \in 64..127 THEN op % 8 ELSE 8
  IN  CASE key = 3 -> _d_edld(c)
        [] key = 0 -> Text("in", <<r, Str("(c)")>>)
        [] key = 1 -> Text("out", <<Str("(c)"), r>>)
        [] key = 2 -> Text(IF (op \div 8) % 2 = 1 THEN "adc" ELSE "sbc",
                           <<Str("hl"), Str(_rp1(c))>>)
        [] key = 8 -> Text(_edoprt[4 * ((op \div 8) % 4) + (op % 4) + 1], <<>>)
        [] op = 68 -> Text("neg", <<>>)
        [] op = 69 -> Text("retn", <<>>)
        [] op = 77 -> Text("reti", <<>>)
        [] op = 103 -> Text("rrd", <<>>)
        [] op = 111 -> Text("rld", <<>>)
        [] op \in {70, 86, 94} -> Text("im", <<Lit("n", CASE op = 70 -> 0 [] op = 86 -> 1
                                                          [] op = 94 -> 2)>>)
        [] op = 71 -> Text("ld", <<Str("i"), Str("a")>>)
        [] op = 87 -> Text("ld", <<Str("a"), Str("i")>>)

\* df is the function that was given the last byte.
stmt(c, df) ==
  IF c.status # 0 THEN NoText
  ELSE IF df = "_d_cb2" \/ c.cf = "_d_ixiycb_c" THEN CbText(c)
  ELSE IF c.i = 2 /\ c.d[1] = ED THEN EdText(c)
  ELSE _dis_fntbl(c)
=============================================================================

------------------------------ MODULE Z80Regs ------------------------------
(***************************************************************************)
(* The debugger's copy of the target's registers (src-rp/dc/z80reg.c): the *)
(* bytes the Debug Monitor sends, in the monitor's order, and accessors by *)
(* name that read and write a byte or, low byte first, a word of them.     *)
(* A register's name is in the case and with the * of the table.           *)
(***************************************************************************)
EXTENDS Integers, Sequences

ZREGALLBYTES == 26
RegBuf == [0..ZREGALLBYTES - 1 -> 0..255]

RS_UNLIMIT == 0                      \* the sizes, in bits
RS_BYTE == 8
RS_WORD == 16

-----------------------------------------------------------------------------
(* The accessors: name, index and size. *)

Acc(name, ndx, sz) == [name |-> name, ndx |-> ndx, sz |-> sz]
NoReg == Acc("NULL", 0, 0)

regi == Acc("I", 1, RS_BYTE)
AltRegs ==
  <<Acc("A*", 3, RS_BYTE), Acc("B*", 5, RS_BYTE), Acc("C*", 4, RS_BYTE), Acc("D*", 7, RS_BYTE),
    Acc("E*", 6, RS_BYTE), Acc("H*", 9, RS_BYTE), Acc("L*", 8, RS_BYTE), Acc("F*", 2, RS_BYTE)>>
MainRegs ==
  <<Acc("A", 17, RS_BYTE), Acc("B", 11, RS_BYTE), Acc("C", 10, RS_BYTE), Acc("D", 13, RS_BYTE),
    Acc("E", 12, RS_BYTE), Acc("H", 15, RS_BYTE), Acc("L", 14, RS_BYTE), Acc("F", 16, RS_BYTE)>>
Pairs == <<Acc("BC", 10, RS_WORD), Acc("DE", 12, RS_WORD), Acc("HL", 14, RS_WORD)>>
AltPairs == <<Acc("BC*", 4, RS_WORD), Acc("DE*", 6, RS_WORD), Acc("HL*", 8, RS_WORD)>>
WordRegs ==
  <<Acc("PC", 20, RS_WORD), Acc("SP", 18, RS_WORD), Acc("IX", 22, RS_WORD),
    Acc("IY", 24, RS_WORD)>>

_regaccessors == MainRegs \o AltRegs \o Pairs \o AltPairs \o WordRegs \o <<regi>>

getval(buf, r) ==
  IF r.sz = RS_BYTE THEN buf[r.ndx] ELSE buf[r.ndx] + 256 * buf[r.ndx + 1]

setval(buf, r, v) ==
  IF r.sz = RS_BYTE THEN [buf EXCEPT ![r.ndx] = v % 256]
  ELSE [buf EXCEPT ![r.ndx] = v % 256, ![r.ndx + 1] = (v \div 256) % 256]

\* The first of the table that has the name; a number has none.
z80_ra_for_token(name) ==
  LET found == {i \in DOMAIN _regaccessors : _regaccessors[i].name = name}
  IN  IF found = {} THEN NoReg
      ELSE _regaccessors[CHOOSE i \in found : \A j \in found : i <= j]

-----------------------------------------------------------------------------
(* Arguments: a number or a name, with the [, { or ( before it, if any. *)

Tokens == [ind : STRING, name : STRING, n : Nat]
Num(n) == [ind |-> "", name |-> "", n |-> n]
Reg(name) == [ind |-> "", name |-> name, n |-> 0]
Behind(ind, tok) == [tok EXCEPT !.ind = ind]
Here == Reg(".")                     \* "." or no place given
IsNumber(tok) == tok.name = ""
RegOf(tok) == IF tok.ind = "" THEN z80_ra_for_token(tok.name) ELSE NoReg

NoValue == -1
num_valprovider(tok, sz) == IF sz # RS_UNLIMIT /\ tok.n >= 2^sz THEN NoValue ELSE tok.n

\* reg_num_valprov (dc.c): the value of an argument that may have sz bits.
reg_num_valprov(buf, tok, sz) ==
  LET r == RegOf(tok)
  IN  IF IsNumber(tok) /\ tok.ind = "" THEN num_valprovider(tok, sz)
      ELSE IF r = NoReg \/ (sz # RS_UNLIMIT /\ r.sz > sz) THEN NoValue
      ELSE getval(buf, r)

\* _get_addr16 (cmds.c): a number or a word register, indirect or not.
_get_addr16(buf, tok) ==
  LET r == z80_ra_for_token(tok.name)
  IN  IF IsNumber(tok) THEN num_valprovider(tok, RS_WORD)
      ELSE IF r.sz = RS_WORD THEN getval(buf, r) ELSE NoValue

\* _get_port_addr (cmds.c): a byte register too, and B is never put above it.
_get_port_addr(buf, tok) ==
  IF RegOf(tok).sz = RS_BYTE THEN getval(buf, RegOf(tok)) ELSE _get_addr16(buf, tok)
=============================================================================

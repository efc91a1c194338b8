------------------------------ MODULE Z80Dasm ------------------------------
(***************************************************************************)
(* The disassembler library (src-rp/lib/z80dasm/z80disasm.c) as far as it  *)
(* decides how many bytes a statement has and which ones are invalid.  It  *)
(* is given one byte at a time: zda_begin the first, zda_next the others,  *)
(* and the status of the context says how many more it needs at least (0   *)
(* for a complete statement, negative for an error).                       *)
(*                                                                         *)
(* The context's df and cf are functions of the library; one name stands   *)
(* for all those that only write the text of a statement.                  *)
(***************************************************************************)
EXTENDS Integers, Sequences

Byte == 0..255
CB == 203
DD == 221
ED == 237
FD == 253

MaxBytes == 4                        \* Z80INST_MAX_BYTES
ZDAE_UNNEEDED == -3
ZDAE_TOO_MANY_BYTES == -4
ZDAE_INVALID_INSTRUCTION == -5
ZDAE_DF_NULL == -6

Inst(c) == c.d[c.i]                  \* the instruction byte
Done(c) == [c EXCEPT !.status = 0, !.df = "NULL"]
Error(c, e) == [c EXCEPT !.status = e]

-----------------------------------------------------------------------------
(* The table of the first byte, _dis_fntbl, and the argument bytes its      *)
(* functions ask for.                                                       *)

_d_ldrpnn == {1, 17, 33, 49}
_d_ld_nn  == {34, 42, 50, 58}        \* ldcnnhl, ldhlcnn, ldcnna, ldacnn
_d_ldregn == {6, 14, 22, 30, 38, 46, 54, 62}
_d_jr     == {16, 24, 32, 40, 48, 56}                  \* djnz, jr, jrcc
_d_jp     == {194, 195, 202, 210, 218, 226, 234, 242, 250}
_d_call   == {196, 204, 205, 212, 220, 228, 236, 244, 252}
_d_opan   == {198, 206, 214, 222, 230, 238, 246, 254}
_d_inout  == {211, 219}              \* outna, inan

ArgBytes(op) ==
  IF op \in _d_ldrpnn \cup _d_ld_nn \cup _d_jp \cup _d_call THEN 2
  ELSE IF op \in _d_ldregn \cup _d_jr \cup _d_opan \cup _d_inout THEN 1
  ELSE 0

\* _ixiy_instneeds: what may follow DD and FD, with index and argument bytes.
IxiyNeeds_JpWithIndex(op) ==
  IF op \in {33, 34, 42, 54} THEN 2
  ELSE IF op \in {9, 25, 35, 41, 43, 57, 225, 227, 229, 249} THEN 0 ELSE 1
IxiyNeeds(op) ==
  IF op \in {33, 34, 42, 54} THEN 2
  ELSE IF op \in {9, 25, 35, 41, 43, 57, 225, 227, 229, 233, 249} THEN 0 ELSE 1
IxiyInst ==
  {9, 25, 33, 34, 35, 41, 42, 43, 52, 53, 54, 57, 70, 78, 86, 94, 102, 110,
   112, 113, 114, 115, 116, 117, 119, 126, 134, 142, 150, 158, 166, 174, 182,
   190, 225, 227, 229, 233, 249}

\* _assure_argbytes, when the bytes are not there yet; cf is to go on.
Ask(n, c, cf) ==
  [c EXCEPT !.abn = n, !.cf = cf, !.df = "_gab", !.status = n - c.ab]

_dis_b1(c) ==
  CASE Inst(c) = CB -> [c EXCEPT !.df = "_d_cb2", !.status = 1]
    [] Inst(c) \in {DD, FD} -> [c EXCEPT !.df = "_d_ddfd2", !.status = 1]
    [] Inst(c) = ED -> [c EXCEPT !.df = "_d_ed2", !.status = 1]
    [] OTHER -> LET n == ArgBytes(Inst(c))
                IN IF c.ab < n THEN Ask(n, c, "write") ELSE Done(c)

-----------------------------------------------------------------------------
(* The second byte. *)

\* Of the CB group only 30..37 is not valid.
_d_cb_process(c) ==
  IF Inst(c) \div 8 = 6
    THEN Error([c EXCEPT !.df = "NULL"], ZDAE_INVALID_INSTRUCTION)
    ELSE Done(c)

\* The second byte is made the instruction byte by storing it over the first.
_d_cb2(c) == _d_cb_process([c EXCEPT !.d[c.i] = c.d[2]])

_d_ddfd2(c0) ==
  LET c == [c0 EXCEPT !.i = 2]
      op == Inst(c)
  IN  IF op = CB THEN Ask(2, c, "_d_ixiycb_c")
      ELSE IF op \notin IxiyInst THEN Error(c, ZDAE_INVALID_INSTRUCTION)
      ELSE IF IxiyNeeds(op) > 0 THEN Ask(IxiyNeeds(op), c, "_d_ixiy_c")
      ELSE _dis_b1(c)

_d_ixiycb_c(c) ==
  IF c.d[4] % 8 # 6 THEN Error(c, ZDAE_INVALID_INSTRUCTION)
  ELSE _d_cb_process([c EXCEPT !.i = 4])

\* IN, OUT, ADC, SBC; the repeated ones; and the more unique instructions.
EdInst ==
  {op \in 64..127 : op % 8 = 2 \/ (op % 8 \in {0, 1} /\ (op \div 8) % 8 # 6)}
  \cup {op \in 160..191 : op % 8 < 4}
  \cup {68, 69, 70, 71, 77, 86, 87, 94, 103, 111}

_d_ed2(c0) ==
  LET c == [c0 EXCEPT !.i = 2]
  IN  IF Inst(c) \in 64..127 /\ Inst(c) % 8 = 3 THEN Ask(2, c, "write")
      ELSE IF Inst(c) \in EdInst THEN Done(c)
      ELSE Error(c, ZDAE_INVALID_INSTRUCTION)

-----------------------------------------------------------------------------

\* _gab counts an argument byte, and goes on when it was the last one.
_gab(c0) ==
  LET c == [c0 EXCEPT !.ab = @ + 1]
  IN  IF c.ab < c.abn THEN [c EXCEPT !.status = c.abn - c.ab]
      ELSE CASE c.cf = "_d_ixiy_c"   -> _dis_b1([c EXCEPT !.df = c.cf])
             [] c.cf = "_d_ixiycb_c" -> _d_ixiycb_c([c EXCEPT !.df = c.cf])
             [] c.cf = "write"       -> Done(c)

_disassemble(c) ==
  CASE c.df = "NULL"     -> Error(c, ZDAE_DF_NULL)
    [] c.df = "_d_cb2"   -> _d_cb2(c)
    [] c.df = "_d_ddfd2" -> _d_ddfd2(c)
    [] c.df = "_d_ed2"   -> _d_ed2(c)
    [] c.df = "_gab"     -> _gab(c)

NoCtx == [addr |-> 0, status |-> 0, d |-> <<>>, i |-> 1, ab |-> 0, abn |-> 0,
          df |-> "NULL", cf |-> "NULL"]

zda_begin(addr, b) == _dis_b1([NoCtx EXCEPT !.addr = addr, !.d = <<b>>])

zda_next(c, b) ==
  IF c.status < 0 THEN c
  ELSE IF c.status = 0 THEN Error(c, ZDAE_UNNEEDED)
  ELSE IF Len(c.d) >= MaxBytes THEN Error(c, ZDAE_TOO_MANY_BYTES)
  ELSE _disassemble([c EXCEPT !.d = Append(@, b)])

=============================================================================

-------------------------------- MODULE Calc --------------------------------
(***************************************************************************)
(* The programmer's calculator of the shell (src-rp/calculator/cmd/cmds.c): *)
(* a stack of four cells and ten registers, entered value by value and     *)
(* operation by operation.  What is displayed, and in which base, is left  *)
(* out, but for the value of X.                                            *)
(***************************************************************************)
EXTENDS Integers, Sequences, TLC

CONSTANT Bits   \* the bits of a word of 8, of 16 and of 32: Bits[n] = n in the code

ASSUME BitsOfWords ==
  \A n \in {8, 16, 32} : Bits[n] \in Nat /\ 2^Bits[n] \in Nat \ {0}

REGCNT == 10
NoEntry == -1   \* the value of an entry that is none

Cleared(wsize) ==
  [T |-> 0, Z |-> 0, Y |-> 0, X |-> 0, lstX |-> 0, reg |-> [n \in 0..REGCNT - 1 |-> 0],
   sliften |-> FALSE, wsize |-> wsize]
calc_modinit == Cleared(32)

_saveX(c) == [c EXCEPT !.lstX = c.X]
Masked(c, v) == v % 2^Bits[c.wsize]
_setX(c, v) == [c EXCEPT !.X = Masked(c, v)]
_drop(c) == [c EXCEPT !.X = c.Y, !.Y = c.Z, !.Z = c.T]
_lift(c, v) ==
  _setX(IF c.sliften THEN [c EXCEPT !.T = c.Z, !.Z = c.Y, !.Y = c.X] ELSE c, v)

\* An operation on X, and one on Y and X: LAST X keeps X.
Monadic(c, r) == _lift(_drop(_saveX(c)), r)
Dyadic(c, r) == _lift(_drop(_drop(_saveX(c))), r)

_op_clrx(c) == [c EXCEPT !.X = 0, !.sliften = FALSE]
_op_exy(c) == [_setX(c, c.Y) EXCEPT !.Y = c.X]
_op_rolldn(c) == [c EXCEPT !.T = c.X, !.X = c.Y, !.Y = c.Z, !.Z = c.T]
_op_rollup(c) == [c EXCEPT !.X = c.T, !.T = c.Z, !.Z = c.Y, !.Y = c.X]
_op_rN(c, n) == _lift(_saveX(c), c.reg[n])
_op_sN(c, n) == [c EXCEPT !.reg[n] = c.X]

\* 0 is a word of 32 bits too.
_op_wsize(c) ==
  LET x == c.X % 256
      d == [_saveX(c) EXCEPT !.wsize = IF x >= 32 \/ x = 0 THEN 32 ELSE IF x >= 16 THEN 16 ELSE 8]
  IN  [d EXCEPT !.X = Masked(d, @), !.Y = Masked(d, @), !.Z = Masked(d, @), !.T = Masked(d, @)]

\* & and |, bit by bit from the lowest: a bit of the result is set where `least`
\* of the two are.
BitByBit(c, least) ==
  LET n == Bits[c.wsize]
      s[i \in 0..n] ==
        IF i = 0 THEN [y |-> c.Y, x |-> c.X, bit |-> 1, sum |-> 0]
        ELSE LET p == s[i - 1]
             IN  [y |-> p.y \div 2, x |-> p.x \div 2, bit |-> 2 * p.bit,
                  sum |-> p.sum + IF (p.y % 2) + (p.x % 2) >= least THEN p.bit ELSE 0]
  IN  s[n].sum

\* The ten recalls; the store of register 0 is in the table under ".r0".
Recall(n) == ".r" \o ToString(n)
Store(n) == ".s" \o ToString(n)
Recalls == {Recall(n) : n \in 0..REGCNT - 1}
Stores == {Store(n) : n \in 1..REGCNT - 1}
Others ==
  {"+", "-", "*", "/", "&", "|", ".and", ".or", ".clr", ".clx", ".lx", ".rd", ".ru", ".sl",
   ".sr", ".t", ".x", ".y", ".z", ".wsz", ".xy", ".stk", ".bin", ".dab", "ops"}
IsOp(name) == name \in Recalls \cup Stores \cup Others

\* The operation called name; a division by 0 has dropped both by then.
Operate(c, name) ==
  CASE name = "+"               -> Dyadic(c, c.Y + c.X)
    [] name = "-"               -> Dyadic(c, c.Y - c.X)
    [] name = "*"               -> Dyadic(c, c.Y * c.X)
    [] name = "/"               -> IF c.X = 0 THEN _drop(_drop(_saveX(c)))
                                   ELSE Dyadic(c, c.Y \div c.X)
    [] name \in {"&", ".and"}   -> Dyadic(c, BitByBit(c, 2))
    [] name \in {"|", ".or"}    -> Dyadic(c, BitByBit(c, 1))
    [] name = ".sl"             -> Monadic(c, 2 * c.X)
    [] name = ".sr"             -> Monadic(c, c.X \div 2)
    [] name = ".clr"            -> Cleared(c.wsize)
    [] name = ".clx"            -> _op_clrx(c)
    [] name = ".lx"             -> _lift(c, c.lstX)
    [] name = ".t"              -> _setX(_saveX(c), c.T)
    [] name = ".y"              -> _setX(_saveX(c), c.Y)
    [] name = ".z"              -> _setX(_saveX(c), c.Z)
    [] name = ".xy"             -> _op_exy(c)
    [] name = ".rd"             -> _op_rolldn(c)
    [] name = ".ru"             -> _op_rollup(c)
    [] name = ".wsz"            -> _op_wsize(c)
    [] name \in Recalls         -> _op_rN(c, CHOOSE n \in 0..9 : name = Recall(n))
    [] name \in Stores          -> _op_sN(c, CHOOSE n \in 1..9 : name = Store(n))
    [] OTHER                    -> c

\* One entry: an operation by its name, or a value.  Every operation enables
\* the lift before it runs.
Enter(c, name, v) ==
  IF IsOp(name) THEN Operate([c EXCEPT !.sliften = TRUE], name)
  ELSE [_lift(c, v) EXCEPT !.sliften = TRUE]

\* _exec_calc: the entries before the one that is invalid have taken effect.
\* No entry at all enters X again.
_exec_calc(c, names, values) ==
  LET bad == {i \in DOMAIN names : ~IsOp(names[i]) /\ values[i] = NoEntry}
      n   == IF bad = {} THEN Len(names) ELSE (CHOOSE i \in bad : \A j \in bad : i <= j) - 1
      d[i \in 0..n] == IF i = 0 THEN c ELSE Enter(d[i - 1], names[i], values[i])
  IN  [ok |-> bad = {}, calc |-> IF names = <<>> THEN _lift(c, c.X) ELSE d[n]]

\* _exec_add and _exec_sub: all or nothing.
SumUp(c, values, sign) ==
  LET t[i \in 0..Len(values)] ==
        IF i = 0 THEN 0 ELSE t[i - 1] + (IF i = 1 THEN 1 ELSE sign) * values[i]
      ok == \A i \in DOMAIN values : values[i] # NoEntry
  IN  [ok |-> ok, calc |-> IF ~ok \/ values = <<>> THEN c
                           ELSE _setX(_saveX(c), t[Len(values)])]
=============================================================================

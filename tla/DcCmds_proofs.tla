---------------------------- MODULE DcCmds_proofs ----------------------------
(***************************************************************************)
(* Proofs about the Debug Controller's commands (DcCmds) and what they are *)
(* made of: the numbers, the calculators, the register view and the        *)
(* disassembler.  They hold for any memory and page size, any registers    *)
(* and bytes the target may have, and any commands in any order.           *)
(*                                                                         *)
(* The invariant types every variable, and relates three of them: a get    *)
(* may only complete when what prints it has been set, the disassembler's  *)
(* context is one its functions leave, and the calculators' stack fits     *)
(* their word.  On it rests that one request is under way at a time.       *)
(*                                                                         *)
(* What a calculator command or a disassembly does byte by byte is a       *)
(* function over 0..n; a function that keeps a set from each place to the  *)
(* next keeps it throughout (Throughout, by the least place where it does  *)
(* not), and that there is such a function at all needs the same argument  *)
(* (Recursion).                                                            *)
(***************************************************************************)
EXTENDS DcCmds, FiniteSetTheorems, WellFoundedInduction, TLAPS

-----------------------------------------------------------------------------
\* What a minimal element is when the relation is the order of the numbers.
LEMMA LeastOf ==
  ASSUME NEW T \in SUBSET Nat, NEW R,
         \E n \in T : \A m \in T : ~(<<m, n>> \in R),
         \A m, n \in Nat : <<m, n>> \in R <=> m < n
  PROVE  \E n \in T : \A m \in T : n <= m
<1>1. PICK n \in T : \A m \in T : ~(<<m, n>> \in R)
  OBVIOUS
<1>2. \A m \in T : ~(m < n)
  BY <1>1, Zenon
<1>3. \A m \in T : n <= m
  BY <1>2
<1> QED BY <1>3

\* Every set of numbers that is not empty has a least one.
LEMMA LeastNat ==
  ASSUME NEW T \in SUBSET Nat, T # {}
  PROVE  \E n \in T : \A m \in T : n <= m
<1> DEFINE R == OpToRel(<, Nat)
<1>1. \E n \in T : \A m \in T : ~(<<m, n>> \in R)
  BY NatLessThanWellFounded, WFMin, Zenon
<1>2. \A m, n \in Nat : <<m, n>> \in R <=> m < n
  BY Zenon DEF OpToRel
<1> HIDE DEF R
<1> QED BY <1>1, <1>2, LeastOf

\* What a function on 0..n is at 0, and stays from each place to the next, it
\* is everywhere.
LEMMA Throughout ==
  ASSUME NEW n \in Nat, NEW T, NEW f, f[0] \in T,
         \A i \in 1..n : f[i - 1] \in T => f[i] \in T
  PROVE  \A i \in 0..n : f[i] \in T
<1> DEFINE bad == {i \in 0..n : f[i] \notin T}
<1>1. SUFFICES ASSUME bad # {} PROVE FALSE
  OBVIOUS
<1>2. bad \in SUBSET Nat
  OBVIOUS
<1>3. PICK k \in bad : \A m \in bad : k <= m
  <2> HIDE DEF bad
  <2> QED BY <1>1, <1>2, LeastNat
<1>4. k \in 1..n
  BY <1>3
<1>5. k - 1 \in 0..n /\ ~(k <= k - 1)
  BY <1>4
<1>6. f[k - 1] \in T
  BY <1>3, <1>5
<1> QED BY <1>3, <1>4, <1>6

\* f is the function on 0..n that F makes from t0.
Recurs(f, n, t0, F) == f[0] = t0 /\ \A i \in 1..n : f[i] = F[i][f[i - 1]]

\* There is a function defined by its value at 0 and by each one before.
LEMMA Recursion ==
  ASSUME NEW n \in Nat, NEW T, NEW t0 \in T, NEW F \in [1..n -> [T -> T]]
  PROVE  \E f \in [0..n -> T] : Recurs(f, n, t0, F)
<1> DEFINE Good(k, f) == Recurs(f, k, t0, F)
           bad == {k \in 0..n : ~\E f \in [0..k -> T] : Good(k, f)}
<1>1. SUFFICES ASSUME bad # {} PROVE FALSE
  OBVIOUS
<1>2. bad \in SUBSET Nat
  OBVIOUS
<1>3. PICK k \in bad : \A m \in bad : k <= m
  <2> HIDE DEF bad
  <2> QED BY <1>1, <1>2, LeastNat
<1>4. k # 0
  <2> DEFINE z == [i \in 0..0 |-> t0]
  <2>0. 0 \in 0..0 /\ \A i \in 0..0 : i = 0
    OBVIOUS
  <2>1. z \in [0..0 -> T] /\ z[0] = t0
    BY <2>0, Zenon
  <2>2. \A i \in 1..0 : FALSE
    OBVIOUS
  <2>3. Good(0, z)
    BY <2>1, <2>2 DEF Recurs
  <2> HIDE DEF Good
  <2>4. ASSUME k = 0 PROVE FALSE
    <3>1. \E f \in [0..k -> T] : Good(k, f)
      BY <2>1, <2>3, <2>4
    <3> QED BY <1>3, <3>1
  <2> QED BY <2>4
<1>5. k \in 1..n /\ k - 1 \in 0..n /\ k - 1 \notin bad
  BY <1>3, <1>4
<1>6. PICK g \in [0..(k - 1) -> T] : Good(k - 1, g)
  BY <1>5
<1> DEFINE f == [i \in 0..k |-> IF i = k THEN F[k][g[k - 1]] ELSE g[i]]
<1>7. F[k][g[k - 1]] \in T
  BY <1>5, <1>6
<1>8. f \in [0..k -> T]
  BY <1>5, <1>6, <1>7
<1>9. f[0] = t0
  BY <1>5, <1>6 DEF Recurs
<1>10. ASSUME NEW i \in 1..k PROVE f[i] = F[i][f[i - 1]]
  <2>1. f[i - 1] = g[i - 1] /\ i - 1 \in 0..k
    BY <1>5
  <2>2. CASE i = k
    <3>1. f[k] = F[k][g[k - 1]]
      BY <1>5
    <3>2. f[k - 1] = g[k - 1]
      BY <2>1, <2>2
    <3> HIDE DEF f
    <3> QED BY <2>2, <3>1, <3>2
  <2>3. CASE i # k
    BY <1>5, <1>6, <2>1, <2>3 DEF Recurs
  <2> QED BY <2>2, <2>3
<1>11. Good(k, f)
  BY <1>9, <1>10 DEF Recurs
<1> QED BY <1>3, <1>8, <1>11

-----------------------------------------------------------------------------

\* An accessor's bytes are in the buffer.
Labels ==
  {"NULL", "A", "B", "C", "D", "E", "H", "L", "F", "A*", "B*", "C*", "D*", "E*", "H*", "L*", "F*",
   "BC", "DE", "HL", "BC*", "DE*", "HL*", "PC", "SP", "IX", "IY", "I"}
Indexes == 0..24
Sizes == {0, 8, 16}
Accessors == [name : Labels, ndx : Indexes, sz : Sizes]

\* An accessor made from a name, a place and a size is one.
LEMMA AccTyped ==
  ASSUME NEW name \in Labels, NEW ndx \in Indexes, NEW sz \in Sizes
  PROVE  Acc(name, ndx, sz) \in Accessors
BY DEF Acc, Accessors

\* The table holds accessors only.
LEMMA TableTyped == _regaccessors \in Seq(Accessors)
<1>1. MainRegs \in Seq(Accessors)
  <2>1. {"A", "B", "C", "D", "E", "H", "L", "F"} \subseteq Labels
    BY DEF Labels
  <2>2. {17, 11, 10, 13, 12, 15, 14, 16} \subseteq Indexes /\ 8 \in Sizes
    BY DEF Indexes, Sizes
  <2>3. /\ Acc("A", 17, 8) \in Accessors /\ Acc("B", 11, 8) \in Accessors
        /\ Acc("C", 10, 8) \in Accessors /\ Acc("D", 13, 8) \in Accessors
        /\ Acc("E", 12, 8) \in Accessors /\ Acc("H", 15, 8) \in Accessors
        /\ Acc("L", 14, 8) \in Accessors /\ Acc("F", 16, 8) \in Accessors
    BY <2>1, <2>2, AccTyped
  <2> QED BY <2>3 DEF MainRegs, RS_BYTE
<1>2. AltRegs \in Seq(Accessors)
  <2>1. {"A*", "B*", "C*", "D*", "E*", "H*", "L*", "F*"} \subseteq Labels
    BY DEF Labels
  <2>2. {3, 5, 4, 7, 6, 9, 8, 2} \subseteq Indexes /\ 8 \in Sizes
    BY DEF Indexes, Sizes
  <2>3. /\ Acc("A*", 3, 8) \in Accessors /\ Acc("B*", 5, 8) \in Accessors
        /\ Acc("C*", 4, 8) \in Accessors /\ Acc("D*", 7, 8) \in Accessors
        /\ Acc("E*", 6, 8) \in Accessors /\ Acc("H*", 9, 8) \in Accessors
        /\ Acc("L*", 8, 8) \in Accessors /\ Acc("F*", 2, 8) \in Accessors
    BY <2>1, <2>2, AccTyped
  <2> QED BY <2>3 DEF AltRegs, RS_BYTE
<1>3. Pairs \in Seq(Accessors) /\ AltPairs \in Seq(Accessors) /\ WordRegs \in Seq(Accessors)
  <2>1. {"BC", "DE", "HL", "BC*", "DE*", "HL*", "PC", "SP", "IX", "IY"} \subseteq Labels
    BY DEF Labels
  <2>2. {10, 12, 14, 4, 6, 8, 20, 18, 22, 24} \subseteq Indexes /\ 16 \in Sizes
    BY DEF Indexes, Sizes
  <2>3. /\ Acc("BC", 10, 16) \in Accessors /\ Acc("DE", 12, 16) \in Accessors
        /\ Acc("HL", 14, 16) \in Accessors /\ Acc("BC*", 4, 16) \in Accessors
        /\ Acc("DE*", 6, 16) \in Accessors /\ Acc("HL*", 8, 16) \in Accessors
        /\ Acc("PC", 20, 16) \in Accessors /\ Acc("SP", 18, 16) \in Accessors
        /\ Acc("IX", 22, 16) \in Accessors /\ Acc("IY", 24, 16) \in Accessors
    BY <2>1, <2>2, AccTyped
  <2> QED BY <2>3 DEF Pairs, AltPairs, WordRegs, RS_WORD
<1>4. <<regi>> \in Seq(Accessors)
  <2>1. {"I"} \subseteq Labels
    BY DEF Labels
  <2>2. {1} \subseteq Indexes /\ 8 \in Sizes
    BY DEF Indexes, Sizes
  <2>3. /\ Acc("I", 1, 8) \in Accessors
    BY <2>1, <2>2, AccTyped
  <2> QED BY <2>3 DEF regi, RS_BYTE
<1>5. ASSUME NEW s \in Seq(Accessors), NEW t \in Seq(Accessors) PROVE s \o t \in Seq(Accessors)
  OBVIOUS
<1> QED BY <1>1, <1>2, <1>3, <1>4, <1>5 DEF _regaccessors

\* The accessor that stands for no register is typed as the others are.
LEMMA NoRegTyped == NoReg \in Accessors
<1>1. "NULL" \in Labels /\ 0 \in Indexes /\ 0 \in Sizes
  BY DEF Labels, Indexes, Sizes
<1> QED BY <1>1, AccTyped DEF NoReg

\* z80_ra_for_token finds an accessor, or none.
LEMMA FoundTyped ==
  ASSUME NEW name
  PROVE  z80_ra_for_token(name) \in Accessors
<1> DEFINE found == {i \in DOMAIN _regaccessors : _regaccessors[i].name = name}
<1>1. CASE found = {}
  BY <1>1, NoRegTyped DEF z80_ra_for_token
<1>2. CASE found # {}
  <2>1. found \in SUBSET Nat /\ found \in SUBSET DOMAIN _regaccessors
    BY TableTyped
  <2>2. \E i \in found : \A j \in found : i <= j
    <3> HIDE DEF found
    <3> QED BY <1>2, <2>1, LeastNat
  <2> DEFINE least == CHOOSE i \in found : \A j \in found : i <= j
  <2>3. least \in found
    <3> HIDE DEF found
    <3> QED BY <2>2
  <2>4. z80_ra_for_token(name) = _regaccessors[least]
    BY <1>2 DEF z80_ra_for_token
  <2>5. ASSUME NEW i \in DOMAIN _regaccessors PROVE _regaccessors[i] \in Accessors
    BY TableTyped
  <2> HIDE DEF least
  <2> QED BY <2>1, <2>3, <2>4, <2>5
<1> QED BY <1>1, <1>2

\* RegOf of a token, and a read and a write through what either finds.
LEMMA RegOfTyped ==
  ASSUME NEW tok
  PROVE  RegOf(tok) \in Accessors
BY FoundTyped, NoRegTyped DEF RegOf

\* What is read from a register is a number.
LEMMA GetTyped ==
  ASSUME NEW buf \in RegBuf, NEW r \in Accessors
  PROVE  getval(buf, r) \in Nat
<1>1. r.ndx \in 0..24
  BY DEF Accessors, Indexes
<1>2. \A i \in 0..25 : buf[i] \in 0..255
  BY DEF RegBuf, ZREGALLBYTES
<1>3. buf[r.ndx] \in Nat /\ buf[r.ndx + 1] \in Nat
  <2>1. r.ndx \in 0..25 /\ r.ndx + 1 \in 0..25
    BY <1>1
  <2>2. buf[r.ndx] \in 0..255 /\ buf[r.ndx + 1] \in 0..255
    BY <1>2, <2>1
  <2> QED BY <2>2
<1> QED BY <1>3 DEF getval

\* A register that is set leaves bytes only, whatever is put into it.
LEMMA SetTyped ==
  ASSUME NEW buf \in RegBuf, NEW r \in Accessors, NEW v \in Int
  PROVE  setval(buf, r, v) \in RegBuf
<1>1. v % 256 \in 0..255 /\ (v \div 256) % 256 \in 0..255
  OBVIOUS
<1> QED BY <1>1 DEF setval, RegBuf, ZREGALLBYTES

\* What a token stands for is a number, -1 for none.
LEMMA ValueTyped ==
  ASSUME NEW buf \in RegBuf, NEW tok \in Tokens, NEW sz
  PROVE  /\ reg_num_valprov(buf, tok, sz) \in Int
         /\ _get_addr16(buf, tok) \in Int
         /\ _get_port_addr(buf, tok) \in Int
<1>1. num_valprovider(tok, sz) \in Int /\ num_valprovider(tok, RS_WORD) \in Int
  BY DEF num_valprovider, NoValue, Tokens
<1>2. NoValue \in Int
  BY DEF NoValue
<1>3. ASSUME NEW r \in Accessors PROVE getval(buf, r) \in Int
  <2>1. getval(buf, r) \in Nat
    BY GetTyped
  <2> QED BY <2>1
<1>4. RegOf(tok) \in Accessors /\ z80_ra_for_token(tok.name) \in Accessors
  BY RegOfTyped, FoundTyped
<1>5. reg_num_valprov(buf, tok, sz) \in Int
  BY <1>1, <1>2, <1>3, <1>4 DEF reg_num_valprov
<1>6. _get_addr16(buf, tok) \in Int
  BY <1>1, <1>2, <1>3, <1>4 DEF _get_addr16
<1>7. _get_port_addr(buf, tok) \in Int
  BY <1>3, <1>4, <1>6 DEF _get_port_addr
<1> QED BY <1>5, <1>6, <1>7

-----------------------------------------------------------------------------

\* A word of the size that is set, and the calculator's state: its cells are
\* words, LAST X and the registers numbers.
Wsizes == {8, 16, 32}
Words(ws) == 0..2^Bits[ws] - 1
Numbers == Int
RegFile == [0..9 -> Int]
Calcs ==
  [T : Numbers, Z : Numbers, Y : Numbers, X : Numbers, lstX : Numbers, reg : RegFile,
   sliften : BOOLEAN, wsize : Wsizes]
Fits(c) ==
  /\ c.T \in Words(c.wsize) /\ c.Z \in Words(c.wsize) /\ c.Y \in Words(c.wsize)
  /\ c.X \in Words(c.wsize)
Calculators == {c \in Calcs : Fits(c)}

\* A number masked to the size of a word is one of its words.
LEMMA MaskedTyped ==
  ASSUME NEW c \in Calcs, NEW v \in Int
  PROVE  Masked(c, v) \in Words(c.wsize)
<1>1. c.wsize \in {8, 16, 32}
  BY DEF Calcs, Wsizes
<1>2. 2^Bits[c.wsize] \in Nat \ {0}
  BY <1>1, BitsOfWords
<1>3. ASSUME NEW m \in Nat \ {0} PROVE v % m \in 0..m - 1
  OBVIOUS
<1>4. v % 2^Bits[c.wsize] \in 0..2^Bits[c.wsize] - 1
  BY <1>2, <1>3
<1> QED BY <1>4 DEF Masked, Words

\* A word of any size is a number.
LEMMA WordsAreNumbers ==
  ASSUME NEW ws \in Wsizes, NEW v \in Words(ws)
  PROVE  v \in Nat
<1>1. 2^Bits[ws] \in Nat
  BY BitsOfWords DEF Wsizes
<1> QED BY <1>1 DEF Words

\* Zero is a word of every size.
LEMMA ZeroIsWord ==
  ASSUME NEW ws \in Wsizes
  PROVE  0 \in Words(ws)
<1>1. 2^Bits[ws] \in Nat \ {0}
  BY BitsOfWords DEF Wsizes
<1> QED BY <1>1 DEF Words

\* A calculator by its parts.
LEMMA Parts ==
  ASSUME NEW c \in Calculators
  PROVE  /\ c.wsize \in Wsizes
         /\ c.T \in Words(c.wsize) /\ c.Z \in Words(c.wsize)
         /\ c.Y \in Words(c.wsize) /\ c.X \in Words(c.wsize)
         /\ c.T \in Numbers /\ c.Z \in Numbers /\ c.Y \in Numbers /\ c.X \in Numbers
         /\ c.lstX \in Numbers /\ c.reg \in RegFile /\ c.sliften \in BOOLEAN
         /\ c = [T |-> c.T, Z |-> c.Z, Y |-> c.Y, X |-> c.X, lstX |-> c.lstX, reg |-> c.reg,
                 sliften |-> c.sliften, wsize |-> c.wsize]
BY DEF Calculators, Calcs, Fits

\* A calculator with such parts is one.
LEMMA Made ==
  ASSUME NEW ws \in Wsizes, NEW t \in Words(ws), NEW z \in Words(ws), NEW y \in Words(ws),
         NEW x \in Words(ws), NEW lx \in Numbers, NEW r \in RegFile, NEW l \in BOOLEAN
  PROVE  [T |-> t, Z |-> z, Y |-> y, X |-> x, lstX |-> lx, reg |-> r, sliften |-> l,
          wsize |-> ws] \in Calculators
<1>1. t \in Numbers /\ z \in Numbers /\ y \in Numbers /\ x \in Numbers
  BY WordsAreNumbers DEF Numbers
<1> QED BY <1>1 DEF Calculators, Calcs, Fits

\* The calculator as it starts, and as it is cleared, is one.
LEMMA ClearedTyped ==
  ASSUME NEW ws \in Wsizes
  PROVE  Cleared(ws) \in Calculators
<1>1. 0 \in Words(ws) /\ 0 \in Numbers /\ FALSE \in BOOLEAN
  BY ZeroIsWord DEF Numbers
<1>2. [n \in 0..REGCNT - 1 |-> 0] \in RegFile
  BY DEF RegFile, REGCNT
<1> QED BY <1>1, <1>2, Made DEF Cleared

\* Keeping X for LSTx leaves a calculator.
LEMMA SaveXTyped ==
  ASSUME NEW c \in Calculators
  PROVE  _saveX(c) \in Calculators /\ _saveX(c).wsize = c.wsize
<1>1. _saveX(c) = [T |-> c.T, Z |-> c.Z, Y |-> c.Y, X |-> c.X, lstX |-> c.X, reg |-> c.reg,
                   sliften |-> c.sliften, wsize |-> c.wsize]
  BY Parts DEF _saveX
<1> QED BY <1>1, Parts, Made

\* What a change of one cell leaves.
LEMMA WithT ==
  ASSUME NEW c \in Calcs, NEW v \in Numbers
  PROVE  LET e == [c EXCEPT !.T = v]
         IN  /\ e \in Calcs /\ e.T = v /\ e.Z = c.Z /\ e.Y = c.Y /\ e.X = c.X
             /\ e.lstX = c.lstX /\ e.reg = c.reg /\ e.sliften = c.sliften /\ e.wsize = c.wsize
BY DEF Calcs

LEMMA WithZ ==
  ASSUME NEW c \in Calcs, NEW v \in Numbers
  PROVE  LET e == [c EXCEPT !.Z = v]
         IN  /\ e \in Calcs /\ e.Z = v /\ e.T = c.T /\ e.Y = c.Y /\ e.X = c.X
             /\ e.lstX = c.lstX /\ e.reg = c.reg /\ e.sliften = c.sliften /\ e.wsize = c.wsize
BY DEF Calcs

LEMMA WithY ==
  ASSUME NEW c \in Calcs, NEW v \in Numbers
  PROVE  LET e == [c EXCEPT !.Y = v]
         IN  /\ e \in Calcs /\ e.Y = v /\ e.T = c.T /\ e.Z = c.Z /\ e.X = c.X
             /\ e.lstX = c.lstX /\ e.reg = c.reg /\ e.sliften = c.sliften /\ e.wsize = c.wsize
BY DEF Calcs

LEMMA WithX ==
  ASSUME NEW c \in Calcs, NEW v \in Numbers
  PROVE  LET e == [c EXCEPT !.X = v]
         IN  /\ e \in Calcs /\ e.X = v /\ e.T = c.T /\ e.Z = c.Z /\ e.Y = c.Y
             /\ e.lstX = c.lstX /\ e.reg = c.reg /\ e.sliften = c.sliften /\ e.wsize = c.wsize
BY DEF Calcs

\* The stack drops, and what is put into X is masked.
LEMMA DropTyped ==
  ASSUME NEW c \in Calculators
  PROVE  _drop(c) \in Calculators /\ _drop(c).wsize = c.wsize
<1> DEFINE d == [c EXCEPT !.X = c.Y]
           e == [d EXCEPT !.Y = c.Z]
           g == [e EXCEPT !.Z = c.T]
<1>1. g = _drop(c)
  BY DEF _drop
<1>2. c \in Calcs /\ Fits(c)
  BY DEF Calculators
<1> HIDE DEF g
<1>3. d \in Calcs /\ d.X = c.Y /\ d.T = c.T /\ d.wsize = c.wsize
  BY <1>2, WithX, Parts
<1> HIDE DEF d
<1>4. e \in Calcs /\ e.X = c.Y /\ e.Y = c.Z /\ e.T = c.T /\ e.wsize = c.wsize
  BY <1>3, WithY, Parts
<1> HIDE DEF e
<1>5. g \in Calcs /\ g.X = c.Y /\ g.Y = c.Z /\ g.Z = c.T /\ g.T = c.T /\ g.wsize = c.wsize
  BY <1>4, WithZ, Parts DEF g
<1> QED BY <1>1, <1>2, <1>5 DEF Calculators, Fits

LEMMA SetXTyped ==
  ASSUME NEW c \in Calculators, NEW v \in Int
  PROVE  _setX(c, v) \in Calculators
<1>1. _setX(c, v) = [T |-> c.T, Z |-> c.Z, Y |-> c.Y, X |-> Masked(c, v), lstX |-> c.lstX,
                     reg |-> c.reg, sliften |-> c.sliften, wsize |-> c.wsize]
  BY Parts DEF _setX
<1>2. Masked(c, v) \in Words(c.wsize)
  BY MaskedTyped DEF Calculators
<1> QED BY <1>1, <1>2, Parts, Made

\* The stack lifts, whether a value was entered before or not.
LEMMA LiftTyped ==
  ASSUME NEW c \in Calculators, NEW v \in Int
  PROVE  _lift(c, v) \in Calculators
<1> DEFINE d == [c EXCEPT !.T = c.Z]
           e == [d EXCEPT !.Z = c.Y]
           g == [e EXCEPT !.Y = c.X]
<1>1. _lift(c, v) = _setX(IF c.sliften THEN g ELSE c, v)
  BY DEF _lift
<1>2. c \in Calcs /\ Fits(c)
  BY DEF Calculators
<1> HIDE DEF g
<1>3. d \in Calcs /\ d.T = c.Z /\ d.X = c.X /\ d.wsize = c.wsize
  BY <1>2, WithT, Parts
<1> HIDE DEF d
<1>4. e \in Calcs /\ e.Z = c.Y /\ e.X = c.X /\ e.T = c.Z /\ e.wsize = c.wsize
  BY <1>3, WithZ, Parts
<1> HIDE DEF e
<1>5. g \in Calcs /\ g.X = c.X /\ g.Y = c.X /\ g.Z = c.Y /\ g.T = c.Z /\ g.wsize = c.wsize
  BY <1>4, WithY, Parts DEF g
<1>6. g \in Calculators
  BY <1>2, <1>5 DEF Calculators, Fits
<1> QED BY <1>1, <1>6, SetXTyped

LEMMA LiftEnabled ==
  ASSUME NEW c \in Calculators, NEW l \in BOOLEAN
  PROVE  [c EXCEPT !.sliften = l] \in Calculators
<1>1. [c EXCEPT !.sliften = l]
        = [T |-> c.T, Z |-> c.Z, Y |-> c.Y, X |-> c.X, lstX |-> c.lstX, reg |-> c.reg,
           sliften |-> l, wsize |-> c.wsize]
  BY Parts
<1> QED BY <1>1, Parts, Made

\* An operation on X, and one on X and Y.
LEMMA MonadicTyped ==
  ASSUME NEW c \in Calculators, NEW r \in Int
  PROVE  Monadic(c, r) \in Calculators
BY SaveXTyped, DropTyped, LiftTyped DEF Monadic

LEMMA DyadicTyped ==
  ASSUME NEW c \in Calculators, NEW r \in Int
  PROVE  Dyadic(c, r) \in Calculators
BY SaveXTyped, DropTyped, LiftTyped DEF Dyadic

\* .wsz: what is in the cells is cut to the new size.
LEMMA WsizeTyped ==
  ASSUME NEW c \in Calculators
  PROVE  _op_wsize(c) \in Calculators
<1> DEFINE x == c.X % 256
           ws == IF x >= 32 \/ x = 0 THEN 32 ELSE IF x >= 16 THEN 16 ELSE 8
           d == [_saveX(c) EXCEPT !.wsize = ws]
           e == [d EXCEPT !.X = Masked(d, @)]
           f == [e EXCEPT !.Y = Masked(d, @)]
           g == [f EXCEPT !.Z = Masked(d, @)]
           h == [g EXCEPT !.T = Masked(d, @)]
<1>1. h = _op_wsize(c)
  BY DEF _op_wsize
<1>2. ws \in Wsizes
  BY DEF Wsizes
<1> HIDE DEF ws
<1>3. d \in Calcs /\ d.wsize = ws
  <2>1. _saveX(c) \in Calcs
    BY SaveXTyped DEF Calculators
  <2> QED BY <1>2, <2>1 DEF Calcs
<1>4. \A v \in Numbers : Masked(d, v) \in Words(ws) /\ Masked(d, v) \in Numbers
  <2>1. ASSUME NEW v \in Numbers PROVE Masked(d, v) \in Words(ws)
    BY <1>3, MaskedTyped DEF Numbers
  <2>2. \A w \in Words(ws) : w \in Numbers
    BY <1>2, WordsAreNumbers DEF Numbers
  <2> QED BY <2>1, <2>2
<1> HIDE DEF d
<1>5. d.X \in Numbers /\ d.Y \in Numbers /\ d.Z \in Numbers /\ d.T \in Numbers
  BY <1>3 DEF Calcs
<1>6. /\ e \in Calcs /\ e.X = Masked(d, d.X) /\ e.Y = d.Y /\ e.Z = d.Z /\ e.T = d.T
      /\ e.wsize = ws
  BY <1>3, <1>4, <1>5, WithX
<1> HIDE DEF e
<1>7. /\ f \in Calcs /\ f.X = e.X /\ f.Y = Masked(d, d.Y) /\ f.Z = d.Z /\ f.T = d.T
      /\ f.wsize = ws
  BY <1>4, <1>5, <1>6, WithY
<1> HIDE DEF f
<1>8. /\ g \in Calcs /\ g.X = e.X /\ g.Y = f.Y /\ g.Z = Masked(d, d.Z) /\ g.T = d.T
      /\ g.wsize = ws
  BY <1>4, <1>5, <1>7, WithZ
<1> HIDE DEF g
<1>9. /\ h \in Calcs /\ h.X = e.X /\ h.Y = f.Y /\ h.Z = g.Z /\ h.T = Masked(d, d.T)
      /\ h.wsize = ws
  BY <1>4, <1>5, <1>8, WithT
<1> HIDE DEF h
<1>10. Fits(h)
  BY <1>4, <1>5, <1>6, <1>7, <1>8, <1>9 DEF Fits
<1> QED BY <1>1, <1>9, <1>10 DEF Calculators

\* & and | are numbers.
LEMMA BitsTyped ==
  ASSUME NEW c \in Calculators, NEW least
  PROVE  BitByBit(c, least) \in Int
<1> DEFINE n == Bits[c.wsize]
           S == [y : Numbers, x : Numbers, bit : Numbers, sum : Numbers]
           s0 == [y |-> c.Y, x |-> c.X, bit |-> 1, sum |-> 0]
           Step(p) == [y |-> p.y \div 2, x |-> p.x \div 2, bit |-> 2 * p.bit,
                       sum |-> p.sum + IF (p.y % 2) + (p.x % 2) >= least THEN p.bit ELSE 0]
           F == [i \in 1..n |-> [p \in S |-> Step(p)]]
           Is(f) == f = [i \in 0..n |-> IF i = 0 THEN s0 ELSE Step(f[i - 1])]
<1>1. n \in Nat
  BY Parts, BitsOfWords DEF Wsizes
<1> HIDE DEF n
<1>2. s0 \in S
  <2>1. c.Y \in Numbers /\ c.X \in Numbers /\ 1 \in Numbers /\ 0 \in Numbers
    BY Parts DEF Numbers
  <2> QED BY <2>1
<1>3. ASSUME NEW p \in S PROVE Step(p) \in S
  <2>1. p.y \in Int /\ p.x \in Int /\ p.bit \in Int /\ p.sum \in Int
    BY DEF Numbers
  <2>2. /\ p.y \div 2 \in Numbers /\ p.x \div 2 \in Numbers /\ 2 * p.bit \in Numbers
        /\ p.sum + (IF (p.y % 2) + (p.x % 2) >= least THEN p.bit ELSE 0) \in Numbers
    BY <2>1 DEF Numbers
  <2> QED BY <2>2
<1> HIDE DEF S, s0, Step
<1>4. F \in [1..n -> [S -> S]]
  BY <1>3
<1>5. PICK f \in [0..n -> S] : Recurs(f, n, s0, F)
  <2> HIDE DEF F
  <2> QED BY <1>1, <1>2, <1>4, Recursion
<1>6. Is(f)
  <2>1. ASSUME NEW i \in 1..n PROVE f[i] = Step(f[i - 1])
    <3>1. f[i - 1] \in S
      BY <1>1
    <3> QED BY <1>5, <3>1 DEF Recurs
  <2>2. ASSUME NEW i \in 0..n PROVE f[i] = IF i = 0 THEN s0 ELSE Step(f[i - 1])
    BY <1>1, <1>5, <2>1 DEF Recurs
  <2> QED BY <1>5, <2>2
<1> DEFINE s == CHOOSE g : Is(g)
<1>7. Is(s)
  <2> HIDE DEF Is
  <2> QED BY <1>6
<1>8. BitByBit(c, least) = s[n].sum
  BY DEF BitByBit, n, s0, Step
<1> HIDE DEF s
<1>9. s[0] = s0 /\ \A i \in 1..n : s[i] = Step(s[i - 1])
  BY <1>1, <1>7
<1>10. s[n] \in S
  <2>1. \A i \in 1..n : s[i - 1] \in S => s[i] \in S
    BY <1>3, <1>9
  <2>2. \A i \in 0..n : s[i] \in S
    BY <1>1, <1>2, <1>9, <2>1, Throughout
  <2> QED BY <1>1, <2>2
<1> QED BY <1>8, <1>10 DEF S, Numbers

\* Recalling and storing.
LEMMA RecallTyped ==
  ASSUME NEW c \in Calculators, NEW n \in 0..9
  PROVE  _op_rN(c, n) \in Calculators
<1>1. c.reg[n] \in Int
  BY Parts DEF RegFile
<1> QED BY <1>1, SaveXTyped, LiftTyped DEF _op_rN

\* Storing X in a register.
LEMMA StoreTyped ==
  ASSUME NEW c \in Calculators, NEW n
  PROVE  _op_sN(c, n) \in Calculators
<1> DEFINE r == [c.reg EXCEPT ![n] = c.X]
<1>1. _op_sN(c, n)
        = [T |-> c.T, Z |-> c.Z, Y |-> c.Y, X |-> c.X, lstX |-> c.lstX, reg |-> r,
           sliften |-> c.sliften, wsize |-> c.wsize]
  BY Parts DEF _op_sN
<1>2. r \in RegFile
  BY Parts DEF RegFile, Numbers
<1> HIDE DEF r
<1> QED BY <1>1, <1>2, Parts, Made

\* Exchanging X and Y, and rolling the stack.
LEMMA ExchangeTyped ==
  ASSUME NEW c \in Calculators
  PROVE  _op_exy(c) \in Calculators
<1> DEFINE d == _setX(c, c.Y)
<1>1. d = [c EXCEPT !.X = Masked(c, c.Y)]
  BY DEF _setX
<1>2. c \in Calcs /\ Fits(c)
  BY DEF Calculators
<1>3. Masked(c, c.Y) \in Words(c.wsize) /\ Masked(c, c.Y) \in Numbers
  <2>1. Masked(c, c.Y) \in Words(c.wsize)
    BY <1>2, Parts, MaskedTyped DEF Numbers
  <2> QED BY <2>1, Parts, WordsAreNumbers DEF Numbers
<1>4. /\ d \in Calcs /\ d.X = Masked(c, c.Y) /\ d.T = c.T /\ d.Z = c.Z /\ d.wsize = c.wsize
  BY <1>1, <1>2, <1>3, WithX
<1> HIDE DEF d
<1> DEFINE e == [d EXCEPT !.Y = c.X]
<1>5. e \in Calcs /\ e.X = d.X /\ e.Y = c.X /\ e.T = c.T /\ e.Z = c.Z /\ e.wsize = c.wsize
  BY <1>4, WithY, Parts
<1> HIDE DEF e
<1>6. e \in Calculators
  BY <1>2, <1>3, <1>4, <1>5 DEF Calculators, Fits
<1> QED BY <1>6 DEF d, e, _op_exy

\* The stack rolled down and up.
LEMMA RollTyped ==
  ASSUME NEW c \in Calculators
  PROVE  _op_rolldn(c) \in Calculators /\ _op_rollup(c) \in Calculators
<1>1. c \in Calcs /\ Fits(c)
  BY DEF Calculators
<1>2. ASSUME NEW t, NEW x, NEW y, NEW z, t \in {c.T, c.Z, c.Y, c.X}, x \in {c.T, c.Z, c.Y, c.X},
             y \in {c.T, c.Z, c.Y, c.X}, z \in {c.T, c.Z, c.Y, c.X}
      PROVE  /\ [[[[c EXCEPT !.T = t] EXCEPT !.X = x] EXCEPT !.Y = y] EXCEPT !.Z = z]
                  \in Calculators
             /\ [[[[c EXCEPT !.X = x] EXCEPT !.T = t] EXCEPT !.Z = z] EXCEPT !.Y = y]
                  \in Calculators
  <2>1. /\ t \in Numbers /\ x \in Numbers /\ y \in Numbers /\ z \in Numbers
        /\ t \in Words(c.wsize) /\ x \in Words(c.wsize)
        /\ y \in Words(c.wsize) /\ z \in Words(c.wsize)
    BY <1>2, Parts
  <2>2. [[[[c EXCEPT !.T = t] EXCEPT !.X = x] EXCEPT !.Y = y] EXCEPT !.Z = z] \in Calculators
    <3> DEFINE d == [c EXCEPT !.T = t]
               e == [d EXCEPT !.X = x]
               f == [e EXCEPT !.Y = y]
               g == [f EXCEPT !.Z = z]
    <3>1. d \in Calcs /\ d.T = t /\ d.wsize = c.wsize
      BY <1>1, <2>1, WithT
    <3> HIDE DEF d
    <3>2. e \in Calcs /\ e.T = t /\ e.X = x /\ e.wsize = c.wsize
      BY <2>1, <3>1, WithX
    <3> HIDE DEF e
    <3>3. f \in Calcs /\ f.T = t /\ f.X = x /\ f.Y = y /\ f.wsize = c.wsize
      BY <2>1, <3>2, WithY
    <3> HIDE DEF f
    <3>4. g \in Calcs /\ g.T = t /\ g.X = x /\ g.Y = y /\ g.Z = z /\ g.wsize = c.wsize
      BY <2>1, <3>3, WithZ
    <3> HIDE DEF g
    <3>5. g \in Calculators
      BY <2>1, <3>4 DEF Calculators, Fits
    <3> QED BY <3>5 DEF d, e, f, g
  <2>3. [[[[c EXCEPT !.X = x] EXCEPT !.T = t] EXCEPT !.Z = z] EXCEPT !.Y = y] \in Calculators
    <3> DEFINE d == [c EXCEPT !.X = x]
               e == [d EXCEPT !.T = t]
               f == [e EXCEPT !.Z = z]
               g == [f EXCEPT !.Y = y]
    <3>1. d \in Calcs /\ d.X = x /\ d.wsize = c.wsize
      BY <1>1, <2>1, WithX
    <3> HIDE DEF d
    <3>2. e \in Calcs /\ e.T = t /\ e.X = x /\ e.wsize = c.wsize
      BY <2>1, <3>1, WithT
    <3> HIDE DEF e
    <3>3. f \in Calcs /\ f.T = t /\ f.X = x /\ f.Z = z /\ f.wsize = c.wsize
      BY <2>1, <3>2, WithZ
    <3> HIDE DEF f
    <3>4. g \in Calcs /\ g.T = t /\ g.X = x /\ g.Y = y /\ g.Z = z /\ g.wsize = c.wsize
      BY <2>1, <3>3, WithY
    <3> HIDE DEF g
    <3>5. g \in Calculators
      BY <2>1, <3>4 DEF Calculators, Fits
    <3> QED BY <3>5 DEF d, e, f, g
  <2> QED BY <2>2, <2>3
<1>3. _op_rolldn(c)
        = [[[[c EXCEPT !.T = c.X] EXCEPT !.X = c.Y] EXCEPT !.Y = c.Z] EXCEPT !.Z = c.T]
  BY DEF _op_rolldn
<1>4. _op_rollup(c)
        = [[[[c EXCEPT !.X = c.T] EXCEPT !.T = c.Z] EXCEPT !.Z = c.Y] EXCEPT !.Y = c.X]
  BY DEF _op_rollup
<1>5. [[[[c EXCEPT !.T = c.X] EXCEPT !.X = c.Y] EXCEPT !.Y = c.Z] EXCEPT !.Z = c.T] \in Calculators
  BY <1>2
<1>6. [[[[c EXCEPT !.X = c.T] EXCEPT !.T = c.Z] EXCEPT !.Z = c.Y] EXCEPT !.Y = c.X] \in Calculators
  BY <1>2
<1> QED BY <1>3, <1>4, <1>5, <1>6

\* X cleared.
LEMMA ClearXTyped ==
  ASSUME NEW c \in Calculators
  PROVE  _op_clrx(c) \in Calculators
<1> DEFINE d == [c EXCEPT !.X = 0]
           e == [d EXCEPT !.sliften = FALSE]
<1>1. d = [T |-> c.T, Z |-> c.Z, Y |-> c.Y, X |-> 0, lstX |-> c.lstX, reg |-> c.reg,
           sliften |-> c.sliften, wsize |-> c.wsize]
  BY Parts
<1>2. d \in Calculators
  BY <1>1, Parts, ZeroIsWord, Made
<1> HIDE DEF d
<1>3. FALSE \in BOOLEAN /\ e \in Calculators
  BY <1>2, LiftEnabled
<1> QED BY <1>3 DEF d, _op_clrx

\* An operation leaves a calculator, whatever was in its cells.
LEMMA OperateTyped ==
  ASSUME NEW c \in Calculators, NEW name
  PROVE  Operate(c, name) \in Calculators
<1>1. _saveX(c) \in Calculators /\ _drop(_drop(_saveX(c))) \in Calculators
  BY SaveXTyped, DropTyped
<1>2. /\ c.T \in Int /\ c.Z \in Int /\ c.Y \in Int /\ c.X \in Int /\ c.lstX \in Int
      /\ c.wsize \in Wsizes
  BY Parts DEF Numbers
<1>3. /\ Dyadic(c, c.Y + c.X) \in Calculators /\ Dyadic(c, c.Y - c.X) \in Calculators
      /\ Dyadic(c, c.Y * c.X) \in Calculators
  <2>1. c.Y + c.X \in Int /\ c.Y - c.X \in Int /\ c.Y * c.X \in Int
    BY <1>2
  <2> QED BY <2>1, DyadicTyped
<1>4. (IF c.X = 0 THEN _drop(_drop(_saveX(c))) ELSE Dyadic(c, c.Y \div c.X)) \in Calculators
  <2>1. CASE c.X = 0
    BY <1>1, <2>1
  <2>2. CASE c.X # 0
    <3>1. c.X \in Nat /\ c.Y \in Int
      BY <1>2, Parts, WordsAreNumbers
    <3>2. c.Y \div c.X \in Int
      BY <2>2, <3>1
    <3>3. Dyadic(c, c.Y \div c.X) \in Calculators
      BY <3>2, DyadicTyped
    <3> QED BY <2>2, <3>3
  <2> QED BY <2>1, <2>2
<1>5. Dyadic(c, BitByBit(c, 1)) \in Calculators /\ Dyadic(c, BitByBit(c, 2)) \in Calculators
  BY BitsTyped, DyadicTyped
<1>6. Monadic(c, 2 * c.X) \in Calculators /\ Monadic(c, c.X \div 2) \in Calculators
  <2>1. 2 * c.X \in Int /\ c.X \div 2 \in Int
    BY <1>2
  <2> QED BY <2>1, MonadicTyped
<1>7. Cleared(c.wsize) \in Calculators
  BY <1>2, ClearedTyped
<1>8. _op_clrx(c) \in Calculators
  BY ClearXTyped
<1>9. /\ _lift(c, c.lstX) \in Calculators /\ _setX(_saveX(c), c.T) \in Calculators
      /\ _setX(_saveX(c), c.Y) \in Calculators /\ _setX(_saveX(c), c.Z) \in Calculators
  BY <1>1, <1>2, LiftTyped, SetXTyped
<1>10. /\ _op_exy(c) \in Calculators /\ _op_rolldn(c) \in Calculators
       /\ _op_rollup(c) \in Calculators /\ _op_wsize(c) \in Calculators
  BY ExchangeTyped, RollTyped, WsizeTyped
<1>11. name \in Recalls => _op_rN(c, CHOOSE n \in 0..9 : name = Recall(n)) \in Calculators
  <2>1. ASSUME name \in Recalls PROVE (CHOOSE n \in 0..9 : name = Recall(n)) \in 0..9
    <3>1. \E n \in 0..9 : name = Recall(n)
      BY <2>1 DEF Recalls, REGCNT
    <3> QED BY <3>1, Zenon
  <2> QED BY <2>1, RecallTyped
<1>12. _op_sN(c, CHOOSE n \in 1..9 : name = Store(n)) \in Calculators
  BY StoreTyped
<1> QED BY <1>3, <1>4, <1>5, <1>6, <1>7, <1>8, <1>9, <1>10, <1>11, <1>12, ZenonT(60) DEF Operate

\* A number entered.
LEMMA EnterTyped ==
  ASSUME NEW c \in Calculators, NEW name, NEW v \in Int
  PROVE  Enter(c, name, v) \in Calculators
<1>1. [c EXCEPT !.sliften = TRUE] \in Calculators
  BY LiftEnabled
<1>2. Operate([c EXCEPT !.sliften = TRUE], name) \in Calculators
  BY <1>1, OperateTyped
<1>3. [_lift(c, v) EXCEPT !.sliften = TRUE] \in Calculators
  BY LiftTyped, LiftEnabled
<1> QED BY <1>2, <1>3, Zenon DEF Enter

\* The place of the first value that is none, less one, or the number of them all.
LEMMA UpTo ==
  ASSUME NEW n \in Nat, NEW bad \in SUBSET (1..n)
  PROVE  (IF bad = {} THEN n ELSE (CHOOSE i \in bad : \A j \in bad : i <= j) - 1) \in 0..n
<1>1. CASE bad = {}
  BY <1>1
<1>2. CASE bad # {}
  <2>1. bad \in SUBSET Nat
    OBVIOUS
  <2>2. \E i \in bad : \A j \in bad : i <= j
    BY <1>2, <2>1, LeastNat
  <2> DEFINE least == CHOOSE i \in bad : \A j \in bad : i <= j
  <2>3. least \in bad
    <3> HIDE DEF least
    <3> QED BY <2>2 DEF least
  <2> HIDE DEF least
  <2>4. least - 1 \in 0..n
    BY <2>3
  <2> QED BY <1>2, <2>4 DEF least
<1> QED BY <1>1, <1>2

\* The entries of a line leave a calculator, as many as they are and whatever
\* they are.
LEMMA ExecCalcTyped ==
  ASSUME NEW c \in Calculators, NEW len \in Nat, NEW names, NEW values,
         DOMAIN names = 1..len, Len(names) = len,
         \A i \in 1..len : values[i] \in Int
  PROVE  _exec_calc(c, names, values).calc \in Calculators
<1> DEFINE bad == {i \in DOMAIN names : ~IsOp(names[i]) /\ values[i] = NoEntry}
           n == IF bad = {} THEN Len(names)
                ELSE (CHOOSE i \in bad : \A j \in bad : i <= j) - 1
           Step(p, i) == Enter(p, names[i], values[i])
           F == [i \in 1..n |-> [p \in Calculators |-> Step(p, i)]]
           Is(f) == f = [i \in 0..n |-> IF i = 0 THEN c ELSE Step(f[i - 1], i)]
           d == CHOOSE f : Is(f)
<1>1. n \in 0..len
  <2>1. bad \in SUBSET (1..len)
    OBVIOUS
  <2> HIDE DEF bad
  <2> QED BY <2>1, UpTo
<1>2. _exec_calc(c, names, values).calc = IF names = <<>> THEN _lift(c, c.X) ELSE d[n]
  BY DEF _exec_calc
<1> HIDE DEF n
<1>3. ASSUME NEW p \in Calculators, NEW i \in 1..n PROVE Step(p, i) \in Calculators
  <2>1. values[i] \in Int
    BY <1>1
  <2> QED BY <2>1, EnterTyped
<1> HIDE DEF Step
<1>4. F \in [1..n -> [Calculators -> Calculators]]
  BY <1>3
<1>5. PICK f \in [0..n -> Calculators] : Recurs(f, n, c, F)
  <2> HIDE DEF F
  <2> QED BY <1>1, <1>4, Recursion
<1>6. Is(f)
  <2>1. ASSUME NEW i \in 1..n PROVE f[i] = Step(f[i - 1], i)
    <3>1. f[i - 1] \in Calculators
      BY <1>1
    <3> QED BY <1>5, <3>1 DEF Recurs
  <2>2. ASSUME NEW i \in 0..n PROVE f[i] = IF i = 0 THEN c ELSE Step(f[i - 1], i)
    BY <1>1, <1>5, <2>1 DEF Recurs
  <2> QED BY <1>5, <2>2
<1>7. Is(d)
  <2> HIDE DEF Is
  <2> QED BY <1>6
<1> HIDE DEF d
<1>8. d[0] = c /\ \A i \in 1..n : d[i] = Step(d[i - 1], i)
  BY <1>1, <1>7
<1>9. d[n] \in Calculators
  <2>1. \A i \in 1..n : d[i - 1] \in Calculators => d[i] \in Calculators
    BY <1>3, <1>8
  <2>2. n \in Nat /\ d[0] \in Calculators
    BY <1>1, <1>8
  <2>3. \A i \in 0..n : d[i] \in Calculators
    BY <2>1, <2>2, Throughout
  <2> QED BY <2>2, <2>3
<1>10. _lift(c, c.X) \in Calculators
  BY Parts, LiftTyped DEF Numbers
<1> QED BY <1>2, <1>9, <1>10

\* So does a sum.
LEMMA SumUpTyped ==
  ASSUME NEW c \in Calculators, NEW values \in Seq(Int), NEW sign \in Int
  PROVE  SumUp(c, values, sign).calc \in Calculators
<1> DEFINE n == Len(values)
           Step(p, i) == p + (IF i = 1 THEN 1 ELSE sign) * values[i]
           F == [i \in 1..n |-> [p \in Int |-> Step(p, i)]]
           Is(f) == f = [i \in 0..n |-> IF i = 0 THEN 0 ELSE Step(f[i - 1], i)]
           t == CHOOSE f : Is(f)
           ok == \A i \in DOMAIN values : values[i] # NoEntry
<1>1. n \in Nat
  OBVIOUS
<1>2. SumUp(c, values, sign).calc = IF ~ok \/ values = <<>> THEN c ELSE _setX(_saveX(c), t[n])
  BY DEF SumUp
<1>3. ASSUME NEW p \in Int, NEW i \in 1..n PROVE Step(p, i) \in Int
  <2>1. values[i] \in Int
    OBVIOUS
  <2>2. CASE i = 1
    BY <2>1, <2>2
  <2>3. CASE i # 1
    <3>1. sign * values[i] \in Int
      BY <2>1
    <3> QED BY <2>3, <3>1
  <2> QED BY <2>2, <2>3
<1> HIDE DEF n, Step, ok
<1>4. F \in [1..n -> [Int -> Int]]
  BY <1>3
<1>5. PICK f \in [0..n -> Int] : Recurs(f, n, 0, F)
  <2>1. 0 \in Int
    OBVIOUS
  <2> HIDE DEF F
  <2> QED BY <1>1, <1>4, <2>1, Recursion
<1>6. Is(f)
  <2>1. ASSUME NEW i \in 1..n PROVE f[i] = Step(f[i - 1], i)
    <3>1. f[i - 1] \in Int
      BY <1>1
    <3> QED BY <1>5, <3>1 DEF Recurs
  <2>2. ASSUME NEW i \in 0..n PROVE f[i] = IF i = 0 THEN 0 ELSE Step(f[i - 1], i)
    BY <1>1, <1>5, <2>1 DEF Recurs
  <2> QED BY <1>5, <2>2
<1>7. Is(t)
  <2> HIDE DEF Is
  <2> QED BY <1>6
<1> HIDE DEF t
<1>8. t[0] = 0 /\ \A i \in 1..n : t[i] = Step(t[i - 1], i)
  BY <1>1, <1>7
<1>9. t[n] \in Int
  <2>1. \A i \in 1..n : t[i - 1] \in Int => t[i] \in Int
    BY <1>3, <1>8
  <2>2. t[0] \in Int
    BY <1>8
  <2>3. \A i \in 0..n : t[i] \in Int
    BY <1>1, <2>1, <2>2, Throughout
  <2> QED BY <1>1, <2>3
<1>10. _setX(_saveX(c), t[n]) \in Calculators
  BY <1>9, SaveXTyped, SetXTyped
<1> QED BY <1>2, <1>10

-----------------------------------------------------------------------------

Names ==
  {"NULL", "write", "_d_cb2", "_d_ddfd2", "_d_ed2", "_gab", "_d_ixiy_c", "_d_ixiycb_c"}
Counts == Nat
Data == Seq(Byte)
Contexts ==
  [addr : Numbers, status : Numbers, d : Data, i : Counts, ab : Counts, abn : Counts,
   df : Names, cf : Names]

\* It waits for the second byte of a CB, DD, ED or FD instruction.
AwaitsSecond(c) ==
  /\ c.df \in {"_d_cb2", "_d_ddfd2", "_d_ed2"}
  /\ c.status = 1 /\ Len(c.d) = 1 /\ c.i = 1 /\ c.ab = 0

\* It waits for arguments; behind DD and FD, for all that the instruction needs.
AwaitsArguments(c) ==
  /\ c.df = "_gab" /\ c.abn \in 1..2
  /\ c.ab < c.abn /\ c.status = c.abn - c.ab
  /\ \/ c.cf = "write" /\ Len(c.d) \in 1..MaxBytes - c.status
     \/ /\ c.cf = "_d_ixiy_c" /\ c.i = 2
        /\ Inst(c) \in IxiyInst /\ c.abn = IxiyNeeds(Inst(c))
        /\ Len(c.d) = 2 + c.ab
     \/ /\ c.cf = "_d_ixiycb_c" /\ c.i = 2
        /\ c.abn = 2 /\ Len(c.d) = 2 + c.ab

Ended(c) ==
  /\ c.status \in {0, ZDAE_INVALID_INSTRUCTION}
  /\ Len(c.d) \in 1..MaxBytes

Context(c) == c \in Contexts /\ (AwaitsSecond(c) \/ AwaitsArguments(c) \/ Ended(c))

-----------------------------------------------------------------------------

\* The two tables agree: an instruction behind DD or FD has been given all the
\* arguments the table of the first byte asks for, and is no prefix itself.
LEMMA TablesAgree ==
  ASSUME NEW op \in IxiyInst
  PROVE  /\ op \in Byte \ {CB, DD, ED, FD}
         /\ ArgBytes(op) <= IxiyNeeds(op)
         /\ IxiyNeeds(op) \in 0..2 /\ ArgBytes(op) \in 0..2
BY DEF IxiyInst, Byte, CB, DD, ED, FD, ArgBytes, IxiyNeeds, _d_ldrpnn, _d_ld_nn,
       _d_ldregn, _d_jr, _d_jp, _d_call, _d_opan, _d_inout

\* An opcode takes two argument bytes at most.
LEMMA ArgBytesType == ASSUME NEW op PROVE ArgBytes(op) \in 0..2
BY DEF ArgBytes

\* The types of a context's fields, and that an update of some leaves the others.
LEMMA ContextType ==
  ASSUME NEW c \in Contexts
  PROVE  /\ c.addr \in Int /\ c.status \in Int /\ c.d \in Seq(Byte) /\ Len(c.d) \in Nat
         /\ c.i \in Nat /\ c.ab \in Nat /\ c.abn \in Nat
BY DEF Contexts, Numbers, Counts, Data

LEMMA WithIndex ==
  ASSUME NEW c \in Contexts, NEW n \in Nat
  PROVE  LET e == [c EXCEPT !.i = n]
         IN  /\ e \in Contexts /\ e.d = c.d /\ e.i = n /\ e.ab = c.ab /\ e.abn = c.abn
             /\ e.df = c.df /\ e.cf = c.cf
BY DEF Contexts, Counts

LEMMA WithData ==
  ASSUME NEW c \in Contexts, NEW s \in Seq(Byte)
  PROVE  LET e == [c EXCEPT !.d = s]
         IN  /\ e \in Contexts /\ e.d = s /\ e.i = c.i /\ e.ab = c.ab /\ e.abn = c.abn
             /\ e.df = c.df /\ e.cf = c.cf
BY DEF Contexts, Data

LEMMA WithCount ==
  ASSUME NEW c \in Contexts, NEW n \in Nat
  PROVE  LET e == [c EXCEPT !.ab = n]
         IN  /\ e \in Contexts /\ e.d = c.d /\ e.i = c.i /\ e.ab = n /\ e.abn = c.abn
             /\ e.df = c.df /\ e.cf = c.cf
BY DEF Contexts, Counts

LEMMA WithFunction ==
  ASSUME NEW c \in Contexts, NEW f \in Names
  PROVE  LET e == [c EXCEPT !.df = f]
         IN  /\ e \in Contexts /\ e.d = c.d /\ e.i = c.i /\ e.ab = c.ab /\ e.abn = c.abn
             /\ e.df = f /\ e.cf = c.cf
BY DEF Contexts

LEMMA WithStatus ==
  ASSUME NEW c \in Contexts, NEW n \in Int
  PROVE  LET e == [c EXCEPT !.status = n]
         IN  /\ e \in Contexts /\ e.d = c.d /\ e.i = c.i /\ e.ab = c.ab /\ e.abn = c.abn
             /\ e.df = c.df /\ e.cf = c.cf /\ e.status = n
BY DEF Contexts, Numbers

LEMMA WithSecond ==
  ASSUME NEW c \in Contexts, NEW f \in Names
  PROVE  LET e == [c EXCEPT !.df = f, !.status = 1]
         IN  /\ e \in Contexts /\ e.d = c.d /\ e.i = c.i /\ e.ab = c.ab
             /\ e.df = f /\ e.status = 1
<1>1. 1 \in Numbers
  BY DEF Numbers
<1> QED BY <1>1 DEF Contexts

\* A context that asks for argument bytes is one that awaits them.
LEMMA Asks ==
  ASSUME NEW c \in Contexts, NEW f \in Names, NEW n \in Nat
  PROVE  LET a == Ask(n, c, f)
         IN  /\ a \in Contexts /\ a.d = c.d /\ a.i = c.i /\ a.ab = c.ab /\ a.abn = n
             /\ a.df = "_gab" /\ a.cf = f /\ a.status = n - c.ab
<1>1. c.ab \in Nat
  BY ContextType
<1>2. "_gab" \in Names /\ n \in Counts /\ n - c.ab \in Numbers
  BY <1>1 DEF Names, Counts, Numbers
<1> QED BY <1>2 DEF Contexts, Ask

\* A statement that is complete, and one that is invalid, has ended.
LEMMA DoneEnds ==
  ASSUME NEW c \in Contexts, Len(c.d) \in 1..MaxBytes
  PROVE  Context(Done(c)) /\ Done(c).d = c.d
<1>1. "NULL" \in Names /\ 0 \in Numbers
  BY DEF Names, Numbers
<1>2. Done(c) \in Contexts /\ Done(c).d = c.d /\ Done(c).status = 0
  BY <1>1 DEF Contexts, Done
<1> QED BY <1>2 DEF Context, Ended

LEMMA ErrorEnds ==
  ASSUME NEW c \in Contexts, Len(c.d) \in 1..MaxBytes
  PROVE  /\ Context(Error(c, ZDAE_INVALID_INSTRUCTION))
         /\ Error(c, ZDAE_INVALID_INSTRUCTION).d = c.d
<1>1. ZDAE_INVALID_INSTRUCTION \in Int
  BY DEF ZDAE_INVALID_INSTRUCTION
<1> QED BY <1>1, WithStatus DEF Error, Context, Ended

\* The first byte, by itself or behind DD or FD with its arguments.
LEMMA FirstByte ==
  ASSUME NEW c \in Contexts,
         \/ Len(c.d) = 1 /\ c.i = 1 /\ c.ab = 0
         \/ /\ Inst(c) \in IxiyInst /\ c.ab = IxiyNeeds(Inst(c))
            /\ Len(c.d) \in 1..MaxBytes
  PROVE  Context(_dis_b1(c)) /\ _dis_b1(c).d = c.d
<1>0. Len(c.d) \in 1..MaxBytes /\ MaxBytes = 4
  BY DEF MaxBytes
<1>1. CASE Inst(c) \in {CB, DD, ED, FD}
  <2>1. Len(c.d) = 1 /\ c.i = 1 /\ c.ab = 0
    BY <1>1, TablesAgree
  <2> DEFINE n(f) == [c EXCEPT !.df = f, !.status = 1]
  <2>2. ASSUME NEW f \in {"_d_cb2", "_d_ddfd2", "_d_ed2"}
        PROVE  Context(n(f)) /\ n(f).d = c.d
    <3>1. f \in Names
      BY DEF Names
    <3>2. n(f) \in Contexts /\ n(f).d = c.d /\ n(f).i = 1 /\ n(f).ab = 0
          /\ n(f).df = f /\ n(f).status = 1
      BY <2>1, <3>1, WithSecond
    <3> QED BY <2>1, <3>2 DEF Context, AwaitsSecond
  <2>3. _dis_b1(c) \in {n(f) : f \in {"_d_cb2", "_d_ddfd2", "_d_ed2"}}
    BY <1>1 DEF _dis_b1, CB, DD, ED, FD
  <2> QED BY <2>2, <2>3
<1>2. CASE Inst(c) \notin {CB, DD, ED, FD}
  <2> DEFINE m == ArgBytes(Inst(c))
  <2>1. _dis_b1(c) = IF c.ab < m THEN Ask(m, c, "write") ELSE Done(c)
    BY <1>2 DEF _dis_b1, CB, DD, ED, FD
  <2>2. m \in 0..2
    BY ArgBytesType
  <2>3. CASE c.ab < m
    <3>1. Len(c.d) = 1 /\ c.ab = 0
      BY <2>2, <2>3, TablesAgree, ContextType
    <3> DEFINE a == Ask(m, c, "write")
    <3> HIDE DEF m
    <3>2. /\ a \in Contexts /\ a.d = c.d /\ a.ab = 0 /\ a.abn = m /\ a.status = m
          /\ a.df = "_gab" /\ a.cf = "write"
      <4>1. "write" \in Names /\ m \in Nat
        BY <2>2 DEF Names
      <4> QED BY <2>2, <3>1, <4>1, Asks
    <3> HIDE DEF a
    <3>3. AwaitsArguments(a)
      <4>1. a.ab < a.abn /\ a.status = a.abn - a.ab
        BY <2>2, <2>3, <3>1, <3>2
      <4>2. 1 \in 1..4 - m
        BY <2>2
      <4>3. Len(a.d) \in 1..MaxBytes - a.status
        BY <1>0, <3>1, <3>2, <4>2, Zenon
      <4>4. a.abn \in 1..2
        BY <2>2, <2>3, <3>1, <3>2
      <4> QED BY <3>2, <4>1, <4>3, <4>4 DEF AwaitsArguments
    <3> QED BY <2>1, <2>3, <3>2, <3>3 DEF Context, a
  <2>4. CASE ~(c.ab < m)
    BY <2>1, <2>4, <1>0, DoneEnds
  <2> QED BY <2>3, <2>4
<1> QED BY <1>1, <1>2

\* The opcodes behind CB are complete with their second byte.
LEMMA CbProcess ==
  ASSUME NEW c \in Contexts, Len(c.d) \in 1..MaxBytes
  PROVE  Context(_d_cb_process(c)) /\ _d_cb_process(c).d = c.d
<1> DEFINE e == [c EXCEPT !.df = "NULL"]
<1>1. e \in Contexts /\ e.d = c.d
  BY WithFunction DEF Names
<1>2. Context(Error(e, ZDAE_INVALID_INSTRUCTION)) /\ Error(e, ZDAE_INVALID_INSTRUCTION).d = c.d
  BY <1>1, ErrorEnds
<1> QED BY <1>2, DoneEnds DEF _d_cb_process

-----------------------------------------------------------------------------

\* zda_begin hands back such a context for any byte (z80disasm.c:1818-1830).
THEOREM DasmBegin ==
  ASSUME NEW addr \in Int, NEW b \in Byte
  PROVE  Context(zda_begin(addr, b)) /\ Len(zda_begin(addr, b).d) = 1
<1> DEFINE c == [NoCtx EXCEPT !.addr = addr, !.d = <<b>>]
<1>1. /\ addr \in Numbers /\ 0 \in Numbers /\ <<b>> \in Data /\ 0 \in Counts /\ 1 \in Counts
      /\ "NULL" \in Names
  BY DEF Numbers, Data, Counts, Names
<1>2. NoCtx \in Contexts /\ NoCtx.i = 1 /\ NoCtx.ab = 0
  <2>1. << >> \in Data
    BY DEF Data
  <2> QED BY <1>1, <2>1 DEF NoCtx, Contexts
<1>3. c \in Contexts /\ c.d = <<b>> /\ c.i = 1 /\ c.ab = 0
  BY <1>1, <1>2 DEF Contexts
<1>4. Len(c.d) = 1
  BY <1>3
<1>5. Context(_dis_b1(c)) /\ _dis_b1(c).d = c.d
  <2> HIDE DEF c
  <2> QED BY <1>3, <1>4, FirstByte
<1> QED BY <1>4, <1>5 DEF zda_begin

\* The second byte of CB, DD, ED and FD.
LEMMA SecondByte ==
  ASSUME NEW c \in Contexts, Len(c.d) = 2, c.i = 1, c.ab = 0,
         c.df \in {"_d_cb2", "_d_ddfd2", "_d_ed2"}
  PROVE  Context(_disassemble(c)) /\ Len(_disassemble(c).d) = 2
<1>0. MaxBytes = 4
  BY DEF MaxBytes
<1>1. CASE c.df = "_d_cb2"
  <2> DEFINE e == [c EXCEPT !.d[c.i] = c.d[2]]
  <2>1. e \in Contexts /\ Len(e.d) = 2
    <3> DEFINE s == [c.d EXCEPT ![c.i] = c.d[2]]
    <3>1. s \in Seq(Byte) /\ Len(s) = 2
      BY ContextType
    <3>2. e = [c EXCEPT !.d = s]
      OBVIOUS
    <3> HIDE DEF s, e
    <3> QED BY <3>1, <3>2, WithData
  <2>2. Context(_d_cb_process(e)) /\ Len(_d_cb_process(e).d) = 2
    <3> HIDE DEF e
    <3> QED BY <1>0, <2>1, CbProcess
  <2> QED BY <1>1, <2>2 DEF _disassemble, _d_cb2
<1> DEFINE e == [c EXCEPT !.i = 2]
<1>2. e \in Contexts /\ e.d = c.d /\ e.i = 2 /\ e.ab = 0
  BY WithIndex
<1>3. CASE c.df = "_d_ddfd2"
  <2> HIDE DEF e
  <2>1. _disassemble(c) =
          IF Inst(e) = CB THEN Ask(2, e, "_d_ixiycb_c")
          ELSE IF Inst(e) \notin IxiyInst THEN Error(e, ZDAE_INVALID_INSTRUCTION)
          ELSE IF IxiyNeeds(Inst(e)) > 0 THEN Ask(IxiyNeeds(Inst(e)), e, "_d_ixiy_c")
          ELSE _dis_b1(e)
    BY <1>3 DEF _disassemble, _d_ddfd2, e
  <2>2. Context(Ask(2, e, "_d_ixiycb_c")) /\ Ask(2, e, "_d_ixiycb_c").d = e.d
    <3> DEFINE a == Ask(2, e, "_d_ixiycb_c")
    <3>1. /\ a \in Contexts /\ a.d = e.d /\ a.i = 2 /\ a.ab = 0 /\ a.abn = 2 /\ a.status = 2
          /\ a.df = "_gab" /\ a.cf = "_d_ixiycb_c"
      <4>1. "_d_ixiycb_c" \in Names /\ 2 \in Nat
        BY DEF Names
      <4>2. 2 - e.ab = 2
        BY <1>2
      <4> QED BY <1>2, <4>1, <4>2, Asks
    <3> HIDE DEF a
    <3>2. AwaitsArguments(a)
      BY <1>2, <3>1 DEF AwaitsArguments
    <3> QED BY <3>1, <3>2 DEF Context, a
  <2>3. Context(Error(e, ZDAE_INVALID_INSTRUCTION)) /\ Error(e, ZDAE_INVALID_INSTRUCTION).d = e.d
    BY <1>0, <1>2, ErrorEnds
  <2>4. ASSUME Inst(e) \in IxiyInst, IxiyNeeds(Inst(e)) > 0
        PROVE  LET a == Ask(IxiyNeeds(Inst(e)), e, "_d_ixiy_c")
               IN  Context(a) /\ a.d = e.d
    <3> DEFINE n == IxiyNeeds(Inst(e))
               a == Ask(n, e, "_d_ixiy_c")
    <3>1. n \in 1..2
      BY <2>4, TablesAgree
    <3>2. a \in Contexts /\ a.d = e.d /\ a.i = 2 /\ a.ab = 0 /\ a.abn = n /\ a.status = n
          /\ a.df = "_gab" /\ a.cf = "_d_ixiy_c"
      <4>1. "_d_ixiy_c" \in Names /\ n \in Nat
        BY <3>1 DEF Names
      <4>2. n - e.ab = n
        BY <1>2, <3>1
      <4> HIDE DEF n
      <4> QED BY <1>2, <4>1, <4>2, Asks
    <3>3. Inst(a) = Inst(e)
      BY <1>2, <3>2 DEF Inst
    <3> HIDE DEF a
    <3>4. AwaitsArguments(a)
      BY <1>2, <2>4, <3>1, <3>2, <3>3 DEF AwaitsArguments
    <3> QED BY <3>2, <3>4 DEF Context, a
  <2>5. ASSUME Inst(e) \in IxiyInst, ~(IxiyNeeds(Inst(e)) > 0)
        PROVE  Context(_dis_b1(e)) /\ _dis_b1(e).d = e.d
    BY <1>0, <1>2, <2>5, TablesAgree, FirstByte
  <2> QED BY <1>2, <2>1, <2>2, <2>3, <2>4, <2>5
<1>4. CASE c.df = "_d_ed2"
  <2> HIDE DEF e
  <2>1. _disassemble(c) \in {Ask(2, e, "write"), Done(e), Error(e, ZDAE_INVALID_INSTRUCTION)}
    BY <1>4 DEF _disassemble, _d_ed2, e
  <2>2. Context(Ask(2, e, "write")) /\ Ask(2, e, "write").d = e.d
    <3> DEFINE a == Ask(2, e, "write")
    <3>1. /\ a \in Contexts /\ a.d = e.d /\ a.ab = 0 /\ a.abn = 2 /\ a.status = 2
          /\ a.df = "_gab" /\ a.cf = "write"
      <4>1. "write" \in Names /\ 2 \in Nat
        BY DEF Names
      <4>2. 2 - e.ab = 2
        BY <1>2
      <4> QED BY <1>2, <4>1, <4>2, Asks
    <3> HIDE DEF a
    <3>2. Len(a.d) \in 1..MaxBytes - a.status
      <4>1. 2 \in 1..4 - 2
        OBVIOUS
      <4> QED BY <1>0, <1>2, <3>1, <4>1, Zenon
    <3>3. AwaitsArguments(a)
      BY <3>1, <3>2 DEF AwaitsArguments
    <3> QED BY <3>1, <3>3 DEF Context, a
  <2> QED BY <1>0, <1>2, <2>1, <2>2, DoneEnds, ErrorEnds
<1> QED BY <1>1, <1>3, <1>4

\* An argument byte; the last one completes the statement or shows it invalid.
LEMMA ArgumentByte ==
  ASSUME NEW c \in Contexts, c.df = "_gab", c.ab < c.abn, c.abn \in 1..2,
         \/ c.cf = "write" /\ Len(c.d) \in 1..MaxBytes - (c.abn - (c.ab + 1))
         \/ /\ c.cf = "_d_ixiy_c" /\ c.i = 2
            /\ Inst(c) \in IxiyInst /\ c.abn = IxiyNeeds(Inst(c))
            /\ Len(c.d) = 3 + c.ab
         \/ /\ c.cf = "_d_ixiycb_c" /\ c.i = 2
            /\ c.abn = 2 /\ Len(c.d) = 3 + c.ab
  PROVE  Context(_disassemble(c)) /\ Len(_disassemble(c).d) = Len(c.d)
<1> DEFINE e == [c EXCEPT !.ab = @ + 1]
           g == [e EXCEPT !.df = e.cf]
<1>0. MaxBytes = 4 /\ Len(c.d) \in Nat
  BY ContextType DEF MaxBytes
<1>1. /\ e \in Contexts /\ e.d = c.d /\ e.i = c.i /\ e.ab = c.ab + 1 /\ e.abn = c.abn
      /\ e.df = "_gab" /\ e.cf = c.cf
  <2>1. c.ab + 1 \in Nat
    BY ContextType
  <2> QED BY <2>1, WithCount
<1>2. g \in Contexts /\ g.d = c.d /\ g.i = c.i /\ g.ab = c.ab + 1
  <2>1. e.cf \in Names
    BY <1>1 DEF Names
  <2> HIDE DEF e
  <2> QED BY <1>1, <2>1, WithFunction
<1>3. Inst(e) = Inst(c) /\ Inst(g) = Inst(c)
  BY <1>1, <1>2 DEF Inst
<1>4. Inst(c) \in IxiyInst => IxiyNeeds(Inst(c)) \in 0..2
  BY TablesAgree
<1>5. c.ab \in Nat /\ c.abn \in Nat
  BY ContextType
<1>6. _disassemble(c) =
        IF e.ab < e.abn THEN [e EXCEPT !.status = e.abn - e.ab]
        ELSE CASE e.cf = "_d_ixiy_c"   -> _dis_b1(g)
               [] e.cf = "_d_ixiycb_c" -> _d_ixiycb_c(g)
               [] e.cf = "write"       -> Done(e)
  BY DEF _disassemble, _gab
<1> HIDE DEF e, g
<1>7. CASE e.ab < e.abn
  <2> DEFINE h == [e EXCEPT !.status = e.abn - e.ab]
  <2>1. /\ h \in Contexts /\ h.d = c.d /\ h.i = c.i /\ h.ab = c.ab + 1 /\ h.abn = c.abn
        /\ h.df = "_gab" /\ h.cf = c.cf /\ h.status = c.abn - (c.ab + 1)
    <3>1. e.abn - e.ab \in Int
      BY <1>1, <1>5
    <3> QED BY <1>1, <3>1, WithStatus
  <2>2. Inst(h) = Inst(c)
    BY <2>1 DEF Inst
  <2>3. _disassemble(c) = h
    BY <1>6, <1>7
  <2> HIDE DEF h
  <2>4. AwaitsArguments(h)
    BY <1>0, <1>1, <1>5, <1>7, <2>1, <2>2 DEF AwaitsArguments
  <2> QED BY <2>1, <2>3, <2>4 DEF Context
<1>8. CASE ~(e.ab < e.abn)
  <2>1. c.ab + 1 = c.abn
    BY <1>1, <1>5, <1>8
  <2>2. Len(c.d) \in 1..MaxBytes
    <3>1. \/ Len(c.d) \in 1..MaxBytes - (c.abn - (c.ab + 1))
          \/ Len(c.d) = 3 + c.ab /\ c.abn \in 0..2
      BY <1>4
    <3>2. CASE Len(c.d) \in 1..MaxBytes - (c.abn - (c.ab + 1))
      <4>1. c.abn - (c.ab + 1) = 0
        BY <1>5, <2>1
      <4>2. 4 - 0 = 4
        OBVIOUS
      <4> QED BY <1>0, <3>2, <4>1, <4>2, Zenon
    <3>3. CASE Len(c.d) = 3 + c.ab /\ c.abn \in 0..2
      <4>1. 3 + c.ab \in 1..4
        BY <1>5, <2>1, <3>3
      <4> QED BY <1>0, <3>3, <4>1, Zenon
    <3> QED BY <3>1, <3>2, <3>3
  <2>3. CASE c.cf = "_d_ixiy_c"
    <3>1. Context(_dis_b1(g)) /\ _dis_b1(g).d = g.d
      BY <1>2, <1>3, <2>1, <2>2, <2>3, FirstByte
    <3> QED BY <1>1, <1>2, <1>6, <1>8, <2>3, <3>1
  <2>4. CASE c.cf = "_d_ixiycb_c"
    <3> DEFINE k == [g EXCEPT !.i = 4]
    <3>1. k \in Contexts /\ k.d = c.d
      BY <1>2, WithIndex
    <3>2. Context(_d_cb_process(k)) /\ _d_cb_process(k).d = c.d
      <4> HIDE DEF k
      <4> QED BY <2>2, <3>1, CbProcess
    <3>3. /\ Context(Error(g, ZDAE_INVALID_INSTRUCTION))
          /\ Error(g, ZDAE_INVALID_INSTRUCTION).d = c.d
      BY <1>2, <2>2, ErrorEnds
    <3>4. _disassemble(c) = _d_ixiycb_c(g)
      BY <1>1, <1>6, <1>8, <2>4
    <3> QED BY <3>2, <3>3, <3>4 DEF _d_ixiycb_c
  <2>5. CASE c.cf = "write"
    <3>1. Context(Done(e)) /\ Done(e).d = c.d
      BY <1>1, <2>2, DoneEnds
    <3> QED BY <1>1, <1>6, <1>8, <2>5, <3>1
  <2> QED BY <2>3, <2>4, <2>5
<1> QED BY <1>7, <1>8

\* zda_next, given a context in want of a byte, takes it and hands back such a
\* context again: no byte is stored outside the four of the context, and the
\* errors for a byte that is not needed, for too many bytes and for a missing
\* function do not occur (z80disasm.c:1832-1845).
THEOREM DasmNext ==
  ASSUME NEW c, Context(c), c.status > 0, NEW b \in Byte
  PROVE  Context(zda_next(c, b)) /\ Len(zda_next(c, b).d) = Len(c.d) + 1
<1> DEFINE e == [c EXCEPT !.d = Append(@, b)]
<1>0. /\ MaxBytes = 4 /\ c \in Contexts /\ c.status \in Int /\ Len(c.d) \in Nat
      /\ c.ab \in Nat /\ c.abn \in Nat
  BY ContextType DEF MaxBytes, Context
<1>1. AwaitsSecond(c) \/ AwaitsArguments(c)
  BY <1>0 DEF Context, Ended, ZDAE_INVALID_INSTRUCTION
<1>2. /\ e \in Contexts /\ Len(e.d) = Len(c.d) + 1 /\ e.i = c.i /\ e.ab = c.ab
      /\ e.abn = c.abn /\ e.df = c.df /\ e.cf = c.cf /\ e.d = Append(c.d, b)
  <2>1. Append(c.d, b) \in Seq(Byte) /\ Len(Append(c.d, b)) = Len(c.d) + 1
    BY <1>0, ContextType
  <2> QED BY <1>0, <2>1, WithData
<1>3. c.i \in 1..Len(c.d) => Inst(e) = Inst(c)
  BY <1>0, <1>2, ContextType DEF Inst
<1>4. Len(c.d) \in 1..3
  <2>1. CASE AwaitsSecond(c)
    <3>1. 1 \in 1..3
      OBVIOUS
    <3> QED BY <2>1, <3>1, Zenon DEF AwaitsSecond
  <2>2. CASE AwaitsArguments(c)
    <3>1. Inst(c) \in IxiyInst => IxiyNeeds(Inst(c)) \in 0..2
      BY TablesAgree
    <3>2. \/ Len(c.d) \in 1..MaxBytes - c.status
          \/ Len(c.d) = 2 + c.ab /\ c.ab < c.abn /\ c.abn \in 0..2
      BY <2>2, <3>1 DEF AwaitsArguments
    <3>3. CASE Len(c.d) \in 1..MaxBytes - c.status
      <4>1. 1..4 - c.status \subseteq 1..3
        BY <1>0
      <4> QED BY <1>0, <3>3, <4>1, Zenon
    <3>4. CASE Len(c.d) = 2 + c.ab /\ c.ab < c.abn /\ c.abn \in 0..2
      <4>1. 2 + c.ab \in 1..3
        BY <1>0, <3>4
      <4> QED BY <3>4, <4>1, Zenon
    <3> QED BY <3>2, <3>3, <3>4
  <2> QED BY <1>1, <2>1, <2>2
<1>5. zda_next(c, b) = _disassemble(e)
  <2>1. ~(c.status < 0) /\ c.status # 0
    BY <1>0
  <2>2. ~(Len(c.d) >= MaxBytes)
    <3>1. \A n \in 1..3 : ~(n >= 4)
      OBVIOUS
    <3> QED BY <1>0, <1>4, <3>1, Zenon
  <2> QED BY <2>1, <2>2, Zenon DEF zda_next
<1> HIDE DEF e
<1>6. CASE AwaitsSecond(c)
  <2>1. /\ Len(c.d) = 1 /\ Len(e.d) = 2 /\ e.i = 1 /\ e.ab = 0
        /\ e.df \in {"_d_cb2", "_d_ddfd2", "_d_ed2"}
    BY <1>0, <1>2, <1>6 DEF AwaitsSecond
  <2>2. Context(_disassemble(e)) /\ Len(_disassemble(e).d) = 2
    BY <1>2, <2>1, SecondByte
  <2> QED BY <1>5, <2>1, <2>2
<1>7. CASE AwaitsArguments(c)
  <2>1. \/ e.cf = "write" /\ Len(e.d) \in 1..MaxBytes - (e.abn - (e.ab + 1))
        \/ /\ e.cf = "_d_ixiy_c" /\ e.i = 2
           /\ Inst(e) \in IxiyInst /\ e.abn = IxiyNeeds(Inst(e))
           /\ Len(e.d) = 3 + e.ab
        \/ /\ e.cf = "_d_ixiycb_c" /\ e.i = 2
           /\ e.abn = 2 /\ Len(e.d) = 3 + e.ab
    <3>1. CASE c.cf = "write"
      <4>1. Len(c.d) \in 1..MaxBytes - (c.abn - c.ab)
        BY <1>7, <3>1 DEF AwaitsArguments
      <4>2. Len(c.d) + 1 \in 1..MaxBytes - (c.abn - (c.ab + 1))
        BY <1>0, <4>1
      <4> QED BY <1>2, <3>1, <4>2, Zenon
    <3>2. CASE c.cf = "_d_ixiy_c"
      <4>1. c.i \in 1..Len(c.d)
        BY <1>0, <1>7, <3>2 DEF AwaitsArguments
      <4> QED BY <1>0, <1>2, <1>3, <1>7, <3>2, <4>1 DEF AwaitsArguments
    <3>3. CASE c.cf = "_d_ixiycb_c"
      BY <1>0, <1>2, <1>7, <3>3 DEF AwaitsArguments
    <3> QED BY <1>7, <3>1, <3>2, <3>3 DEF AwaitsArguments
  <2>2. Context(_disassemble(e)) /\ Len(_disassemble(e).d) = Len(e.d)
    BY <1>2, <1>7, <2>1, ArgumentByte DEF AwaitsArguments
  <2> QED BY <1>2, <1>5, <2>2
<1> QED BY <1>1, <1>6, <1>7

-----------------------------------------------------------------------------
(* The debugger's commands *)

\* What a message, a request and a completion can be; a get of memory or of a
\* port may only complete when what is to be run then has been set.
Statuses == {"CMDDONE", "TGTGO", "DMINIT"}
Gets == {"mget_done", "pget_done"}
Completions == {"getregs", "putregs"}
Printers == {"dump_c", "exam_c", "in_c", "disasm_c_d"}
Messages(r) == Statuses \cup Completions \cup Printers \cup (IF r = NONE THEN {} ELSE Gets)
Slots(r) == {NONE} \cup Completions \cup (IF r = NONE THEN {} ELSE Gets)

Cmds == {"none", "DCGM", "DCGP", "DCPM", "DCPP", "DCGREGALL", "DCPREGALL"} \cup Starting
Waits == {"none", "posted", "told"}
Receivable == 0..Page
PageCnt == 0..Page - 1
Requests == [cmd : Cmds, recv : Receivable, at : Waits, addr : Addr, cnt : PageCnt]
LinkOK(l) == l \in Requests /\ (l = NoReq \/ l.at \in {"posted", "told"})

Pages == [1..Page -> Byte]
Buffers == [addr : Addr, cnt : PageCnt, buf : Pages]
Vals == [addr : Numbers, cnt : Numbers, iaddr : Numbers, ind : Numbers]

\* The context between two bytes: in want of one or two, or done with.
ContextOK(c) ==
  /\ c \in Contexts /\ Len(c.d) <= MaxBytes
  /\ c.status \in {ZDAE_INVALID_INSTRUCTION} \cup 0..2
  /\ c.status > 0 => Context(c)
CtxSet == {c \in Contexts : ContextOK(c)}
Wants == 0..2
Disassemblies ==
  [ctx : CtxSet, caddr : Addr, bc : Wants, stmt_cnt : Numbers, oc : BOOLEAN]
Memory == [Addr -> Byte]

IInv ==
  /\ mem \in Memory /\ io \in Memory /\ tregs \in RegBuf /\ regs \in RegBuf
  /\ tgt \in {"held", "stepping", "going"}
  /\ LinkOK(link)
  /\ rcv \in {NONE} \cup Printers /\ slot \in Slots(rcv) /\ app \in Seq(Messages(rcv))
  /\ opbuf \in Buffers /\ vals \in Vals /\ da \in Disassemblies
  /\ dasm_addr \in Addr /\ dump_addr \in Addr
  /\ prompten \in BOOLEAN
  /\ calc \in Calculators
  /\ left \in DOMAIN Offers

\* What the assumption on the sizes gives: addresses and counts wrap into their ranges.
LEMMA Bounds ==
  /\ MemSize \in Nat /\ Page \in Nat /\ 2 <= Page /\ Page <= MemSize
  /\ \A x \in Int : x % MemSize \in Addr
  /\ \A x \in Int : x % Page \in PageCnt
<1>1. MemSize \in Nat /\ Page \in Nat /\ 2 <= Page /\ Page <= MemSize
  BY PageFits
<1>2. ASSUME NEW x \in Int PROVE x % MemSize \in Addr
  BY <1>1 DEF Addr
<1>3. ASSUME NEW x \in Int PROVE x % Page \in PageCnt
  BY <1>1 DEF PageCnt
<1> QED BY <1>1, <1>2, <1>3

\* The invariant implies the types.
LEMMA TypesFollow == IInv => TypeOK
<1> SUFFICES ASSUME IInv PROVE TypeOK
  OBVIOUS
<1>1. link = NoReq \/ (link.at \in {"posted", "told"} /\ link.recv \in 0..Page)
  BY DEF IInv, LinkOK, Requests, Receivable
<1>2. \A i \in DOMAIN app :
       app[i] \in {"CMDDONE", "TGTGO", "DMINIT", "mget_done", "pget_done",
                   "dump_c", "exam_c", "in_c", "disasm_c_d", "getregs", "putregs"}
  <2>1. \A i \in DOMAIN app : app[i] \in Messages(rcv)
    BY DEF IInv
  <2>2. Messages(rcv) \subseteq
                  {"CMDDONE", "TGTGO", "DMINIT", "mget_done", "pget_done",
                   "dump_c", "exam_c", "in_c", "disasm_c_d", "getregs", "putregs"}
    BY DEF Messages, Statuses, Gets, Completions, Printers
  <2> QED BY <2>1, <2>2, Zenon
<1>3. opbuf.addr \in Addr /\ opbuf.cnt \in 0..Page - 1 /\ opbuf.buf \in [1..Page -> Byte]
  BY DEF IInv, Buffers, PageCnt, Pages
<1>4. slot \in {NONE, "mget_done", "pget_done", "getregs", "putregs"}
  BY DEF IInv, Slots, Completions, Gets
<1>5. rcv \in {NONE, "dump_c", "exam_c", "in_c", "disasm_c_d"}
  BY DEF IInv, Printers
<1>6. da.ctx \in CtxSet /\ da.bc \in 0..2 /\ da.stmt_cnt \in Int /\ da.caddr \in Addr
  BY DEF IInv, Disassemblies, Wants, Numbers
<1>7. da.ctx.status \in {ZDAE_INVALID_INSTRUCTION} \cup 0..2 /\ Len(da.ctx.d) <= MaxBytes
  BY <1>6 DEF CtxSet, ContextOK
<1>8. {calc.X, calc.Y, calc.Z, calc.T} \subseteq 0..2^Bits[calc.wsize] - 1
  BY DEF IInv, Calculators, Fits, Words
<1> QED BY <1>1, <1>2, <1>3, <1>4, <1>5, <1>6, <1>7, <1>8 DEF IInv, TypeOK, Memory

\* No request is one that may stand in the link.
LEMMA NoReqOK == LinkOK(NoReq)
<1>1. /\ "none" \in Cmds /\ "none" \in Waits /\ 0 \in Receivable /\ 0 \in Addr /\ 0 \in PageCnt
  BY Bounds DEF Cmds, Waits, Receivable, PageCnt, Addr
<1> QED BY <1>1 DEF NoReq, LinkOK, Requests

\* A request that is posted is one.
LEMMA SendOK ==
  ASSUME NEW cmd \in Cmds, NEW recv \in Receivable, Send(cmd, recv)
  PROVE  LinkOK(link') /\ link'.cmd = cmd /\ link'.at = "posted"
<1>1. /\ "posted" \in Waits /\ 0 \in Addr /\ 0 \in PageCnt
  BY Bounds DEF Waits, PageCnt, Addr
<1>2. link' = [cmd |-> cmd, recv |-> recv, at |-> "posted", addr |-> 0, cnt |-> 0]
  BY DEF Send, NoReq
<1> QED BY <1>1, <1>2 DEF LinkOK, Requests

\* The operation buffer, filled for a request, and with other bytes.
LEMMA FilledOK ==
  ASSUME opbuf \in Buffers, NEW addr \in Int, NEW cnt \in Int
  PROVE  Filled(addr, cnt) \in Buffers
<1> DEFINE e == [opbuf EXCEPT !.addr = addr % MemSize]
           g == [e EXCEPT !.cnt = cnt % Page]
<1>1. g = Filled(addr, cnt)
  BY DEF Filled
<1>2. addr % MemSize \in Addr /\ cnt % Page \in PageCnt
  BY Bounds
<1>3. e \in Buffers
  BY <1>2 DEF Buffers
<1> HIDE DEF e
<1>4. g \in Buffers
  BY <1>2, <1>3 DEF Buffers
<1> QED BY <1>1, <1>4

LEMMA BufferOK ==
  ASSUME NEW b \in Buffers, NEW p \in Pages
  PROVE  [b EXCEPT !.buf = p] \in Buffers
BY DEF Buffers

\* A place, a count, a value given with a command.
LEMMA ArgumentsTyped ==
  ASSUME regs \in RegBuf, NEW c, c.loc \in Tokens, c.args \in Seq(Tokens)
  PROVE  /\ \A tok \in Tokens, sz \in {RS_BYTE, RS_WORD, RS_UNLIMIT} : Value(tok, sz) \in Int
         /\ \A start \in Int : From(c, start) \in Int
         /\ \A default \in Int : Count(c, default) \in Int
<1>1. ASSUME NEW tok \in Tokens, NEW sz PROVE Value(tok, sz) \in Int
  BY ValueTyped DEF Value
<1>2. c.args # <<>> => c.args[1] \in Tokens
  OBVIOUS
<1> QED BY <1>1, <1>2 DEF From, Count

\* A context the library hands back is in want of two bytes at most.
LEMMA ContextFits ==
  ASSUME NEW c, Context(c)
  PROVE  ContextOK(c)
<1>0. /\ MaxBytes = 4 /\ c \in Contexts /\ c.status \in Int /\ Len(c.d) \in Nat
      /\ c.ab \in Nat /\ c.abn \in Nat
  BY ContextType DEF MaxBytes, Context
<1>1. CASE AwaitsSecond(c)
  <2>1. c.status = 1 /\ Len(c.d) = 1
    BY <1>1 DEF AwaitsSecond
  <2>2. 1 \in 0..2 /\ 1 <= 4
    OBVIOUS
  <2> QED BY <1>0, <2>1, <2>2, Zenon DEF ContextOK
<1>2. CASE AwaitsArguments(c)
  <2>1. c.abn \in 1..2 /\ c.ab < c.abn /\ c.status = c.abn - c.ab
    BY <1>2 DEF AwaitsArguments
  <2>2. c.status \in 1..2
    BY <1>0, <2>1
  <2>3. Len(c.d) \in 1..MaxBytes - c.status \/ Len(c.d) = 2 + c.ab
    BY <1>2 DEF AwaitsArguments
  <2>4. Len(c.d) <= 4
    BY <1>0, <2>1, <2>2, <2>3
  <2>5. c.status \in 0..2
    BY <2>2
  <2> QED BY <1>0, <2>4, <2>5, Zenon DEF ContextOK
<1>3. CASE Ended(c)
  <2>1. c.status \in {0, ZDAE_INVALID_INSTRUCTION} /\ Len(c.d) \in 1..4
    BY <1>0, <1>3 DEF Ended
  <2>2. 0 \in 0..2 /\ \A k \in 1..4 : k <= 4
    OBVIOUS
  <2> QED BY <1>0, <2>1, <2>2, Zenon DEF ContextOK
<1> QED BY <1>1, <1>2, <1>3 DEF Context

\* The bytes of the buffer, fed to a context until it wants no more, leave one.
LEMMA FedTyped ==
  ASSUME opbuf \in Buffers, da \in Disassemblies
  PROVE  Fed.ctx \in CtxSet /\ Fed.used \in Nat
<1> DEFINE n == da.bc
           Step(p, k) == IF p.status > 0 THEN zda_next(p, opbuf.buf[k]) ELSE p
           F == [k \in 1..n |-> [p \in CtxSet |-> Step(p, k)]]
           Is(g) == g = [k \in 0..n |-> IF k = 0 THEN da.ctx ELSE Step(g[k - 1], k)]
           f == CHOOSE g : Is(g)
           used == Cardinality({k \in 1..n : f[k - 1].status > 0})
<1>1. n \in 0..2 /\ da.ctx \in CtxSet /\ da.caddr \in Int
  BY Bounds DEF Disassemblies, Wants, Addr
<1>2. \A k \in 1..2 : opbuf.buf[k] \in Byte
  <2>1. opbuf.buf \in [1..Page -> Byte]
    BY DEF Buffers, Pages
  <2>2. 1..2 \subseteq 1..Page
    BY Bounds
  <2> QED BY <2>1, <2>2
<1>3. CASE da.ctx.status = 0
  <2>1. Context(zda_begin(da.caddr, opbuf.buf[1]))
    BY <1>1, <1>2, DasmBegin
  <2>2. zda_begin(da.caddr, opbuf.buf[1]) \in CtxSet
    BY <2>1, ContextFits DEF CtxSet, Context
  <2>3. Fed = [ctx |-> zda_begin(da.caddr, opbuf.buf[1]), used |-> 1, df |-> "_dis_b1"]
    BY <1>3, Zenon DEF Fed
  <2> QED BY <2>2, <2>3
<1>4. CASE da.ctx.status # 0
  <2>1. Fed = [ctx |-> f[n], used |-> used, df |-> f[used - 1].df]
    BY <1>4, Zenon DEF Fed
  <2>2. ASSUME NEW p \in CtxSet, NEW k \in 1..n PROVE Step(p, k) \in CtxSet
    <3>1. CASE p.status > 0
      <4>1. Context(p)
        BY <3>1 DEF CtxSet, ContextOK
      <4>2. opbuf.buf[k] \in Byte
        BY <1>1, <1>2
      <4>3. Context(zda_next(p, opbuf.buf[k]))
        BY <3>1, <4>1, <4>2, DasmNext
      <4>4. zda_next(p, opbuf.buf[k]) \in CtxSet
        BY <4>3, ContextFits DEF CtxSet, Context
      <4> QED BY <3>1, <4>4
    <3>2. CASE ~(p.status > 0)
      BY <3>2
    <3> QED BY <3>1, <3>2
  <2> HIDE DEF n, Step
  <2>3. F \in [1..n -> [CtxSet -> CtxSet]]
    BY <2>2
  <2>4. n \in Nat
    BY <1>1
  <2>5. PICK g \in [0..n -> CtxSet] : Recurs(g, n, da.ctx, F)
    <3> HIDE DEF F
    <3> QED BY <1>1, <2>3, <2>4, Recursion
  <2>6. Is(g)
    <3>1. ASSUME NEW k \in 1..n PROVE g[k] = Step(g[k - 1], k)
      <4>1. g[k - 1] \in CtxSet
        BY <2>4
      <4> QED BY <2>5, <4>1 DEF Recurs
    <3>2. ASSUME NEW k \in 0..n
          PROVE  g[k] = IF k = 0 THEN da.ctx ELSE Step(g[k - 1], k)
      BY <2>4, <2>5, <3>1 DEF Recurs
    <3> QED BY <2>5, <3>2
  <2>7. Is(f)
    <3> HIDE DEF Is
    <3> QED BY <2>6
  <2> HIDE DEF f
  <2>8. f[0] = da.ctx /\ \A k \in 1..n : f[k] = Step(f[k - 1], k)
    BY <2>4, <2>7
  <2>9. f[n] \in CtxSet
    <3>1. \A k \in 1..n : f[k - 1] \in CtxSet => f[k] \in CtxSet
      BY <2>2, <2>8
    <3>2. f[0] \in CtxSet
      BY <1>1, <2>8
    <3>3. \A k \in 0..n : f[k] \in CtxSet
      BY <2>4, <3>1, <3>2, Throughout
    <3> QED BY <2>4, <3>3
  <2>10. used \in Nat
    <3>1. IsFiniteSet(1..n)
      BY <2>4, FS_Interval
    <3>2. {k \in 1..n : f[k - 1].status > 0} \subseteq 1..n
      OBVIOUS
    <3>3. IsFiniteSet({k \in 1..n : f[k - 1].status > 0})
      BY <3>1, <3>2, FS_Subset
    <3> QED BY <3>3, FS_CardinalityType
  <2> QED BY <2>1, <2>9, <2>10
<1> QED BY <1>3, <1>4

\* What a disassembly under way can become.
LEMMA WithCaddr ==
  ASSUME NEW d \in Disassemblies, NEW a \in Addr
  PROVE  [d EXCEPT !.caddr = a] \in Disassemblies
BY DEF Disassemblies

LEMMA WithCtx ==
  ASSUME NEW d \in Disassemblies, NEW c \in CtxSet
  PROVE  [d EXCEPT !.ctx = c] \in Disassemblies
BY DEF Disassemblies

LEMMA WithStatements ==
  ASSUME NEW d \in Disassemblies, NEW n \in Numbers
  PROVE  [d EXCEPT !.stmt_cnt = n] \in Disassemblies
BY DEF Disassemblies

LEMMA WithBytes ==
  ASSUME NEW d \in Disassemblies, NEW n \in Wants
  PROVE  [d EXCEPT !.bc = n] \in Disassemblies /\ [d EXCEPT !.bc = n].bc = n
         /\ [d EXCEPT !.bc = n].caddr = d.caddr
BY DEF Disassemblies

LEMMA WithCmplt ==
  ASSUME NEW d \in Disassemblies, NEW b \in BOOLEAN
  PROVE  [d EXCEPT !.oc = b] \in Disassemblies
BY DEF Disassemblies

\* What a command does to the link and to the slots, and to core 1's queue.
LinkAndSlotsOK ==
  /\ LinkOK(link)
  /\ rcv \in {NONE} \cup Printers /\ slot \in Slots(rcv) /\ app \in Seq(Messages(rcv))
TargetOK ==
  /\ mem \in Memory /\ io \in Memory /\ tregs \in RegBuf
  /\ tgt \in {"held", "stepping", "going"}
DebuggerOK ==
  /\ opbuf \in Buffers /\ vals \in Vals /\ da \in Disassemblies /\ regs \in RegBuf
  /\ dasm_addr \in Addr /\ dump_addr \in Addr
  /\ prompten \in BOOLEAN
  /\ calc \in Calculators
  /\ left \in DOMAIN Offers

\* The invariant by whose state it is.
LEMMA ByParts == IInv <=> TargetOK /\ LinkAndSlotsOK /\ DebuggerOK
BY DEF IInv, TargetOK, LinkAndSlotsOK, DebuggerOK

\* What may be in the queue stays so when a printer is set.
LEMMA MoreMessages ==
  ASSUME NEW r, NEW m \in Printers, NEW q \in Seq(Messages(r))
  PROVE  q \in Seq(Messages(m))
<1>1. Messages(r) \subseteq Messages(m)
  BY DEF Messages, Printers, NONE
<1>2. ASSUME NEW S, NEW T, S \subseteq T, NEW s \in Seq(S) PROVE s \in Seq(T)
  BY <1>2
<1> QED BY <1>1, <1>2

\* A get of memory or of a port, or of the registers, is posted.
LEMMA MemGetOK ==
  ASSUME NEW cnt \in Receivable, NEW m \in Printers, app' \in Seq(Messages(rcv)),
         dm_mem_get(cnt, m) \/ dm_port_get(cnt, m)
  PROVE  LinkAndSlotsOK'
<1>1. "DCGM" \in Cmds /\ "DCGP" \in Cmds
  BY DEF Cmds
<1>2. LinkOK(link')
  BY <1>1, SendOK DEF dm_mem_get, dm_port_get
<1>3. rcv' = m /\ slot' \in Gets
  BY DEF dm_mem_get, dm_port_get, Gets
<1>4. slot' \in Slots(rcv') /\ rcv' \in {NONE} \cup Printers
  BY <1>3 DEF Slots, Printers, NONE
<1>5. app' \in Seq(Messages(rcv'))
  BY <1>3, MoreMessages
<1> QED BY <1>2, <1>4, <1>5 DEF LinkAndSlotsOK

\* A get of all registers posts a request and a completion.
LEMMA GetAllRegOK ==
  ASSUME NEW m \in Completions, app' \in Seq(Messages(rcv)), rcv \in {NONE} \cup Printers,
         dm_getallreg(m)
  PROVE  LinkAndSlotsOK'
<1>1. "DCGREGALL" \in Cmds /\ 0 \in Receivable
  BY Bounds DEF Cmds, Receivable
<1>2. LinkOK(link')
  BY <1>1, SendOK DEF dm_getallreg
<1>3. rcv' = rcv /\ slot' = m
  BY DEF dm_getallreg
<1> QED BY <1>2, <1>3 DEF LinkAndSlotsOK, Slots

\* _disasm_c and what begins a disassembly.
LEMMA DisasmCOK ==
  ASSUME opbuf \in Buffers, NEW d \in Disassemblies, app' \in Seq(Messages(rcv)), DisasmC(d)
  PROVE  opbuf' \in Buffers /\ da' \in Disassemblies /\ LinkAndSlotsOK'
<1>1. d.caddr \in Int /\ d.bc \in Int /\ d.bc \in Receivable
  <2>1. d.caddr \in Addr /\ d.bc \in Wants
    BY DEF Disassemblies
  <2>2. Page \in Nat /\ 2 <= Page /\ MemSize \in Nat
    BY Bounds
  <2> QED BY <2>1, <2>2 DEF Addr, Wants, Receivable
<1>2. opbuf' \in Buffers
  BY <1>1, FilledOK DEF DisasmC
<1>3. "disasm_c_d" \in Printers
  BY DEF Printers
<1>4. dm_mem_get(d.bc, "disasm_c_d") /\ da' \in Disassemblies
  BY DEF DisasmC
<1> QED BY <1>1, <1>2, <1>3, <1>4, MemGetOK

\* A disassembly begun leaves all as it should be.
LEMMA DisasmOK ==
  ASSUME opbuf \in Buffers, da \in Disassemblies, app' \in Seq(Messages(rcv)),
         NEW addr \in Int, NEW count \in Int, NEW oc \in BOOLEAN, Disasm(addr, count, oc)
  PROVE  opbuf' \in Buffers /\ da' \in Disassemblies /\ LinkAndSlotsOK'
<1> DEFINE d1 == [da EXCEPT !.caddr = addr % MemSize]
           d2 == [d1 EXCEPT !.stmt_cnt = count]
           d3 == [d2 EXCEPT !.oc = oc]
           d4 == [d3 EXCEPT !.bc = 1]
           c  == [d4.ctx EXCEPT !.status = 0]
           d5 == [d4 EXCEPT !.ctx = c]
<1>1. d5 = [da EXCEPT !.caddr = addr % MemSize, !.stmt_cnt = count, !.oc = oc, !.bc = 1,
                      !.ctx.status = 0]
  OBVIOUS
<1>2. addr % MemSize \in Addr /\ count \in Numbers /\ 1 \in Wants
  BY Bounds DEF Numbers, Wants
<1> HIDE DEF d5
<1>3. d1 \in Disassemblies
  BY <1>2, WithCaddr
<1> HIDE DEF d1
<1>4. d2 \in Disassemblies
  BY <1>2, <1>3, WithStatements
<1> HIDE DEF d2
<1>5. d3 \in Disassemblies
  BY <1>4, WithCmplt
<1> HIDE DEF d3
<1>6. d4 \in Disassemblies
  BY <1>2, <1>5, WithBytes
<1> HIDE DEF d4
<1>7. c \in CtxSet
  <2>1. d4.ctx \in Contexts /\ Len(d4.ctx.d) <= MaxBytes
    BY <1>6 DEF Disassemblies, CtxSet, ContextOK
  <2>2. c \in Contexts /\ c.d = d4.ctx.d /\ c.status = 0
    <3>1. 0 \in Int
      OBVIOUS
    <3> QED BY <2>1, <3>1, WithStatus
  <2> HIDE DEF c
  <2>3. c.status \in 0..2 /\ ~(c.status > 0)
    BY <2>2
  <2>4. ContextOK(c)
    BY <2>1, <2>2, <2>3 DEF ContextOK
  <2> QED BY <2>2, <2>4 DEF CtxSet
<1> HIDE DEF c
<1>8. d5 \in Disassemblies
  BY <1>6, <1>7, WithCtx DEF d5
<1>9. DisasmC(d5)
  BY <1>1 DEF Disasm
<1> QED BY <1>8, <1>9, DisasmCOK

\* A command that may be asked, and what is left to ask after it.
LEMMA OfferTyped ==
  ASSUME IInv, NEW c \in Offers[left], MayAsk
  PROVE  /\ c.loc \in Tokens /\ c.args \in Seq(Tokens)
         /\ c.cmd \in {"load", "out"} => c.args # <<>>
         /\ left' \in DOMAIN Offers
BY OffersTyped DEF IInv, MayAsk

\* A command answered at once leaves the link alone, and what it leaves of the
\* debugger's own state is as it should be.
LEMMA AtOnceOK ==
  ASSUME IInv, NEW c \in Offers[left], NEW a, AtOnce(a),
         opbuf' \in Buffers, vals' \in Vals, da' \in Disassemblies, regs' \in RegBuf,
         prompten' = prompten, calc' \in Calculators
  PROVE  IInv'
<1>1. left' \in DOMAIN Offers
  BY OfferTyped DEF AtOnce
<1>2. TargetOK'
  BY DEF AtOnce, IInv, TargetOK, targetVars
<1>3. LinkAndSlotsOK'
  BY DEF AtOnce, IInv, LinkAndSlotsOK, slotVars
<1>4. DebuggerOK'
  BY <1>1 DEF AtOnce, IInv, DebuggerOK, addrVars
<1> QED BY <1>2, <1>3, <1>4 DEF IInv, TargetOK, LinkAndSlotsOK, DebuggerOK

\* A command refused changes nothing but what the user may ask next.
LEMMA RefuseOK ==
  ASSUME IInv, NEW c \in Offers[left], Refuse(c)
  PROVE  IInv'
<1>1. AtOnce([to |-> c, val |-> NoValue])
  BY DEF Refuse, UserSees
<1>2. /\ opbuf' = opbuf /\ regs' = regs /\ vals' = vals /\ da' = da /\ prompten' = prompten
      /\ calc' = calc
  BY DEF Refuse, UserSees
<1> QED BY <1>1, <1>2, AtOnceOK DEF IInv

\* A command that is asked of the target.
LEMMA UserAsksOK ==
  ASSUME IInv, NEW c \in Offers[left], MayAsk, UNCHANGED <<targetVars, addrVars, calc>>,
         LinkAndSlotsOK', opbuf' \in Buffers, vals' \in Vals, da' \in Disassemblies,
         regs' \in RegBuf, prompten' \in BOOLEAN
  PROVE  IInv'
<1>1. left' \in DOMAIN Offers
  BY OfferTyped
<1>2. TargetOK'
  BY DEF IInv, TargetOK, targetVars
<1>3. DebuggerOK'
  BY <1>1 DEF IInv, DebuggerOK, addrVars
<1> QED BY <1>2, <1>3 DEF IInv, TargetOK, LinkAndSlotsOK, DebuggerOK

\* The notes of what is to be printed.
LEMMA WithAddrCnt ==
  ASSUME vals \in Vals, NEW a \in Int, NEW n \in Int
  PROVE  /\ [vals EXCEPT !.addr = a, !.cnt = n] \in Vals
         /\ [vals EXCEPT !.iaddr = a, !.ind = n] \in Vals
<1>1. /\ a \in Numbers /\ n \in Numbers
  BY DEF Numbers
<1> QED BY <1>1 DEF Vals

\* A dump.
LEMMA DumpOK ==
  ASSUME IInv, NEW c \in Offers[left], Dump(c)
  PROVE  IInv'
<1> DEFINE addr == From(c, dump_addr)
           v    == Count(c, Page)
           cnt  == IF c.args = <<>> THEN Page
                   ELSE IF c.cmd = "dumpa" THEN v % Page
                   ELSE IF v % (4 * Page) > Page THEN Page ELSE v % (4 * Page)
<1>1. CASE NoValue \in {addr, v}
  <2>1. Refuse(c)
    BY <1>1 DEF Dump
  <2> QED BY <2>1, RefuseOK
<1>2. CASE ~(NoValue \in {addr, v})
  <2>1. /\ UserAsks(c)
        /\ opbuf' = Filled(addr, cnt)
        /\ dm_mem_get(cnt, "dump_c")
        /\ vals' = [vals EXCEPT !.addr = addr, !.cnt = cnt]
        /\ prompten' = FALSE
        /\ UNCHANGED <<targetVars, app, regs, da, addrVars, calc>>
    BY <1>2 DEF Dump, ToReceive
  <2>2. MayAsk
    BY <2>1 DEF UserAsks
  <2>3. addr \in Int /\ v \in Int
    <3>1. c.loc \in Tokens /\ c.args \in Seq(Tokens)
      BY <2>2, OfferTyped
    <3>2. regs \in RegBuf /\ dump_addr \in Int /\ Page \in Int
      BY Bounds DEF IInv, Addr
    <3> QED BY <3>1, <3>2, ArgumentsTyped
  <2> HIDE DEF v, addr
  <2>4. cnt \in Receivable /\ cnt \in Int
    <3>1. v % Page \in Receivable /\ v % (4 * Page) \in Nat
      BY <2>3, Bounds DEF Receivable
    <3> QED BY <3>1, Bounds DEF Receivable
  <2> HIDE DEF cnt
  <2>5. LinkAndSlotsOK'
    <3>1. app' \in Seq(Messages(rcv)) /\ "dump_c" \in Printers
      BY <2>1 DEF IInv, Printers
    <3> QED BY <2>1, <2>4, <3>1, MemGetOK
  <2>6. opbuf' \in Buffers /\ vals' \in Vals
    BY <2>1, <2>3, <2>4, FilledOK, WithAddrCnt DEF IInv
  <2>7. UNCHANGED <<targetVars, addrVars, calc>>
    BY <2>1
  <2>8. da' \in Disassemblies /\ regs' \in RegBuf /\ prompten' \in BOOLEAN
    BY <2>1 DEF IInv
  <2> QED BY <2>2, <2>5, <2>6, <2>7, <2>8, UserAsksOK
<1> QED BY <1>1, <1>2

\* A get of a few bytes of memory, or of a port, from a place that is one.
LEMMA GetOK ==
  ASSUME IInv, NEW c \in Offers[left], UserAsks(c), NEW addr \in Int, NEW cnt \in 1..2,
         NEW m \in Printers, opbuf' = Filled(addr, cnt), dm_mem_get(cnt, m) \/ dm_port_get(cnt, m),
         vals' = [vals EXCEPT !.iaddr = addr, !.ind = cnt], prompten' = FALSE,
         UNCHANGED <<targetVars, app, regs, da, addrVars, calc>>
  PROVE  IInv'
<1>1. cnt \in Receivable /\ cnt \in Int
  <2>1. Page \in Nat /\ 2 <= Page
    BY Bounds
  <2> QED BY <2>1 DEF Receivable
<1>2. app' \in Seq(Messages(rcv))
  BY DEF IInv
<1>3. LinkAndSlotsOK'
  BY <1>1, <1>2, MemGetOK
<1>4. opbuf' \in Buffers /\ vals' \in Vals
  BY <1>1, FilledOK, WithAddrCnt DEF IInv
<1>5. da' \in Disassemblies /\ regs' \in RegBuf /\ prompten' \in BOOLEAN
  BY DEF IInv
<1> QED BY <1>3, <1>4, <1>5, UserAsksOK DEF UserAsks

\* An examination of memory or of a register.
LEMMA ExamineOK ==
  ASSUME IInv, NEW c \in Offers[left], Examine(c)
  PROVE  IInv'
<1> DEFINE addr == _get_addr16(regs, c.loc)
           cnt  == IF c.loc.ind = "{" THEN 2 ELSE 1
<1>1. CASE RegOf(c.loc) # NoReg
  <2>1. AtOnce([to |-> c, val |-> getval(regs, RegOf(c.loc))])
    BY <1>1 DEF Examine, UserSees
  <2>2. UNCHANGED <<opbuf, regs, vals, da, prompten, calc>>
    BY <1>1 DEF Examine, UserSees
  <2> QED BY <2>1, <2>2, AtOnceOK DEF IInv
<1>2. CASE RegOf(c.loc) = NoReg /\ addr = NoValue
  BY <1>2, RefuseOK DEF Examine
<1>3. CASE RegOf(c.loc) = NoReg /\ addr # NoValue
  <2>1. /\ UserAsks(c) /\ opbuf' = Filled(addr, cnt) /\ dm_mem_get(cnt, "exam_c")
        /\ vals' = [vals EXCEPT !.iaddr = addr, !.ind = cnt] /\ prompten' = FALSE
        /\ UNCHANGED <<targetVars, app, regs, da, addrVars, calc>>
    BY <1>3 DEF Examine
  <2>2. c.loc \in Tokens /\ regs \in RegBuf
    BY <2>1, OfferTyped DEF UserAsks, IInv
  <2>3. addr \in Int /\ cnt \in 1..2 /\ "exam_c" \in Printers
    BY <2>2, ValueTyped DEF Printers
  <2> HIDE DEF addr, cnt
  <2> QED BY <2>1, <2>3, GetOK
<1> QED BY <1>1, <1>2, <1>3

\* An input from a port.
LEMMA InputOK ==
  ASSUME IInv, NEW c \in Offers[left], Input(c)
  PROVE  IInv'
<1> DEFINE addr == _get_port_addr(regs, c.loc)
<1>1. CASE addr = NoValue
  BY <1>1, RefuseOK DEF Input
<1>2. CASE addr # NoValue
  <2>1. /\ UserAsks(c) /\ opbuf' = Filled(addr, 1) /\ dm_port_get(1, "in_c")
        /\ vals' = [vals EXCEPT !.iaddr = addr, !.ind = 1] /\ prompten' = FALSE
        /\ UNCHANGED <<targetVars, app, regs, da, addrVars, calc>>
    BY <1>2 DEF Input
  <2>2. c.loc \in Tokens /\ regs \in RegBuf
    BY <2>1, OfferTyped DEF UserAsks, IInv
  <2>3. addr \in Int /\ 1 \in 1..2 /\ "in_c" \in Printers
    BY <2>2, ValueTyped DEF Printers
  <2> HIDE DEF addr
  <2> QED BY <2>1, <2>3, GetOK
<1> QED BY <1>1, <1>2

\* A register is loaded with a number, whatever its high byte comes from.
LEMMA LoadRegOK ==
  ASSUME IInv, NEW c \in Offers[left], NEW r \in Accessors, LoadReg(c, r), c.cmd = "load"
  PROVE  IInv'
<1> DEFINE v == Value(c.args[1], r.sz)
           high == IF r.sz = RS_WORD THEN {v \div 256} \cup Garbage ELSE {0}
<1>1. CASE Len(c.args) > 1 \/ v = NoValue
  BY <1>1, RefuseOK DEF LoadReg
<1>2. CASE ~(Len(c.args) > 1 \/ v = NoValue)
  <2>1. PICK h \in high : regs' = setval(regs, r, (v % 256) + 256 * h)
    BY <1>2 DEF LoadReg
  <2>2. /\ AtOnce([to |-> c, val |-> Printed])
        /\ calc' = calc /\ opbuf' = opbuf /\ vals' = vals /\ da' = da /\ prompten' = prompten
    BY <1>2 DEF LoadReg, UserSees
  <2>3. v \in Int
    <3>1. c.args \in Seq(Tokens) /\ regs \in RegBuf
      BY <2>2, OfferTyped DEF AtOnce, IInv
    <3>2. c.args[1] \in Tokens
      BY <2>2, <3>1, OfferTyped DEF AtOnce
    <3> QED BY <3>1, <3>2, ValueTyped DEF Value
  <2>4. h \in Int
    <3>1. Garbage \subseteq Int
      BY StartsTyped DEF Byte
    <3>2. v \div 256 \in Int /\ 0 \in Int
      BY <2>3
    <3> HIDE DEF v
    <3> QED BY <3>1, <3>2
  <2> HIDE DEF v, high
  <2>5. (v % 256) + 256 * h \in Int
    BY <2>3, <2>4
  <2>6. regs' \in RegBuf
    BY <2>1, <2>5, SetTyped DEF IInv
  <2> QED BY <2>2, <2>6, AtOnceOK DEF IInv
<1> QED BY <1>1, <1>2

\* The bytes that are written are bytes, or none for a value that does not fit.
LEMMA BytesTyped ==
  ASSUME regs \in RegBuf, NEW args \in Seq(Tokens), NEW sz \in {RS_BYTE, RS_WORD}
  PROVE  \E k \in 0..Page : Bytes(args, sz) \in [1..k -> Byte \cup {NoValue}]
<1> DEFINE n == sz \div 8
           v(i) == Value(args[((i - 1) \div n) + 1], sz)
           all == n * Len(args)
           k == IF all > Page THEN Page ELSE all
<1>1. n \in {1, 2}
  BY DEF RS_BYTE, RS_WORD
<1>2. all \in Nat
  BY <1>1
<1>3. k \in 0..Page
  BY <1>2, Bounds
<1>4. ASSUME NEW i \in 1..k PROVE v(i) \in Int
  <2>1. i \in Nat /\ 1 <= i /\ i <= n * Len(args)
    BY <1>2, <1>3, Bounds
  <2>2. ((i - 1) \div n) + 1 \in 1..Len(args)
    <3>1. CASE n = 1
      BY <2>1, <3>1
    <3>2. CASE n = 2
      BY <2>1, <3>2
    <3> QED BY <1>1, <3>1, <3>2
  <2>3. args[((i - 1) \div n) + 1] \in Tokens
    <3> HIDE DEF n
    <3> QED BY <2>2
  <2> QED BY <2>3, ValueTyped DEF Value
<1> DEFINE e(i) == IF v(i) = NoValue THEN NoValue
                   ELSE IF n = 2 /\ i % 2 = 0 THEN (v(i) \div 256) % 256 ELSE v(i) % 256
<1>5. Bytes(args, sz) = [i \in 1..k |-> e(i)]
  BY DEF Bytes
<1> HIDE DEF v, k, n
<1>6. ASSUME NEW i \in 1..k PROVE e(i) \in Byte \cup {NoValue}
  <2>1. v(i) \in Int
    BY <1>4
  <2>2. ASSUME NEW x \in Int PROVE (x \div 256) % 256 \in Byte /\ x % 256 \in Byte
    BY DEF Byte
  <2>3. (v(i) \div 256) % 256 \in Byte /\ v(i) % 256 \in Byte
    BY <2>1, <2>2
  <2> QED BY <2>3, Zenon
<1> HIDE DEF e
<1> QED BY <1>3, <1>5, <1>6

\* The buffer written up to the first value that does not fit is a page of bytes.
LEMMA WrittenTyped ==
  ASSUME opbuf \in Buffers, NEW k \in 0..Page, NEW b \in [1..k -> Byte \cup {NoValue}]
  PROVE  Written(b) \in Pages /\ Len(b) = k
<1> DEFINE bad == {i \in DOMAIN b : b[i] = NoValue}
           upto == IF bad = {} THEN Len(b) ELSE (CHOOSE i \in bad : \A j \in bad : i <= j) - 1
<1>1. k \in Nat /\ k <= Page /\ Page \in Nat /\ DOMAIN b = 1..k /\ Len(b) = k
  BY Bounds
<1>2. Written(b) = [i \in 1..Page |-> IF i <= upto THEN b[i] ELSE opbuf.buf[i]]
  BY DEF Written
<1>3. upto \in 0..k /\ \A i \in 1..k : i <= upto => i \notin bad
  <2>1. CASE bad = {}
    BY <1>1, <2>1
  <2>2. CASE bad # {}
    <3>1. bad \in SUBSET Nat
      BY <1>1
    <3>2. \E i \in bad : \A j \in bad : i <= j
      <4> HIDE DEF bad
      <4> QED BY <2>2, <3>1, LeastNat
    <3> DEFINE least == CHOOSE i \in bad : \A j \in bad : i <= j
    <3>3. least \in bad /\ \A j \in bad : least <= j
      <4> HIDE DEF bad
      <4> QED BY <3>2
    <3>4. least \in 1..k
      <4> HIDE DEF least
      <4> QED BY <1>1, <3>3
    <3>5. upto = least - 1
      BY <2>2
    <3> HIDE DEF least, bad, upto
    <3> QED BY <1>1, <3>3, <3>4, <3>5
  <2> QED BY <2>1, <2>2
<1> HIDE DEF upto
<1>4. opbuf.buf \in [1..Page -> Byte]
  BY DEF Buffers, Pages
<1>5. ASSUME NEW i \in 1..Page PROVE (IF i <= upto THEN b[i] ELSE opbuf.buf[i]) \in Byte
  <2>1. CASE i <= upto
    <3>1. i \in 1..k
      BY <1>1, <1>3, <2>1
    <3> QED BY <1>1, <1>3, <2>1, <3>1
  <2>2. CASE ~(i <= upto)
    BY <1>4, <2>2
  <2> QED BY <2>1, <2>2
<1> QED BY <1>1, <1>2, <1>5 DEF Pages

\* What is put into memory or out to a port, or refused on the way.
LEMMA PutOK ==
  ASSUME IInv, NEW c \in Offers[left], NEW cmd \in {"DCPM", "DCPP"}, NEW addr \in Int,
         NEW k \in 0..Page, NEW b \in [1..k -> Byte \cup {NoValue}],
         Put(c, cmd, addr, b), vals' \in Vals
  PROVE  IInv'
<1>1. CASE addr = NoValue
  BY <1>1, RefuseOK DEF Put
<1>2. CASE addr # NoValue /\ \E i \in DOMAIN b : b[i] = NoValue
  <2>1. /\ AtOnce([to |-> c, val |-> NoValue]) /\ calc' = calc
        /\ opbuf' = [opbuf EXCEPT !.buf = Written(b)]
        /\ UNCHANGED <<regs, da, prompten>>
    BY <1>2 DEF Put, UserSees
  <2>2. opbuf' \in Buffers
    BY <2>1, WrittenTyped, BufferOK DEF IInv
  <2> QED BY <2>1, <2>2, AtOnceOK DEF IInv
<1>3. CASE addr # NoValue /\ ~\E i \in DOMAIN b : b[i] = NoValue
  <2>1. /\ UserAsks(c) /\ opbuf' = [Filled(addr, Len(b)) EXCEPT !.buf = Written(b)]
        /\ Send(cmd, 0)
        /\ UNCHANGED <<targetVars, app, regs, slotVars, da, addrVars, prompten, calc>>
    BY <1>3, Zenon DEF Put
  <2>2. opbuf' \in Buffers
    <3>1. Written(b) \in Pages /\ Len(b) \in Int
      <4>1. Written(b) \in Pages /\ Len(b) = k
        BY WrittenTyped DEF IInv
      <4>2. k \in Int
        BY Bounds
      <4> QED BY <4>1, <4>2
    <3>2. Filled(addr, Len(b)) \in Buffers
      BY <3>1, FilledOK DEF IInv
    <3> QED BY <2>1, <3>1, <3>2, BufferOK
  <2>3. LinkAndSlotsOK'
    <3>1. cmd \in Cmds /\ 0 \in Receivable
      BY Bounds DEF Cmds, Receivable
    <3>2. LinkOK(link')
      BY <2>1, <3>1, SendOK
    <3> QED BY <2>1, <3>2 DEF IInv, LinkAndSlotsOK, slotVars
  <2>4. UNCHANGED <<targetVars, addrVars, calc>> /\ MayAsk
    BY <2>1 DEF UserAsks
  <2>5. da' \in Disassemblies /\ regs' \in RegBuf /\ prompten' \in BOOLEAN
    BY <2>1 DEF IInv
  <2> QED BY <2>2, <2>3, <2>4, <2>5, UserAsksOK
<1> QED BY <1>1, <1>2, <1>3

\* A load of memory or of a register.
LEMMA LoadOK ==
  ASSUME IInv, NEW c \in Offers[left], Load(c)
  PROVE  IInv'
<1>1. CASE RegOf(c.loc) # NoReg
  <2>1. LoadReg(c, RegOf(c.loc)) /\ c.cmd = "load"
    BY <1>1 DEF Load
  <2>2. RegOf(c.loc) \in Accessors
    BY RegOfTyped
  <2> QED BY <2>1, <2>2, LoadRegOK
<1>2. CASE RegOf(c.loc) = NoReg
  <2> DEFINE addr == _get_addr16(regs, c.loc)
             sz == IF c.loc.ind = "{" THEN RS_WORD ELSE RS_BYTE
  <2>1. Put(c, "DCPM", addr, Bytes(c.args, sz)) /\ vals' = vals
    BY <1>2 DEF Load
  <2>2. CASE addr = NoValue
    BY <2>1, <2>2, RefuseOK DEF Put
  <2>3. CASE addr # NoValue
    <3>1. MayAsk
      BY <2>1, <2>3 DEF Put, UserSees, AtOnce, UserAsks
    <3>2. c.loc \in Tokens /\ c.args \in Seq(Tokens) /\ regs \in RegBuf
      BY <3>1, OfferTyped DEF IInv
    <3>3. addr \in Int /\ sz \in {RS_BYTE, RS_WORD}
      BY <3>2, ValueTyped
    <3> HIDE DEF addr, sz
    <3>4. PICK k \in 0..Page : Bytes(c.args, sz) \in [1..k -> Byte \cup {NoValue}]
      BY <3>2, <3>3, BytesTyped
    <3>5. vals' \in Vals
      BY <2>1 DEF IInv
    <3> QED BY <2>1, <3>3, <3>4, <3>5, PutOK
  <2> QED BY <2>2, <2>3
<1> QED BY <1>1, <1>2

\* An output to a port.
LEMMA OutputOK ==
  ASSUME IInv, NEW c \in Offers[left], Output(c)
  PROVE  IInv'
<1> DEFINE addr == _get_port_addr(regs, c.loc)
<1>1. /\ Put(c, "DCPP", addr, Bytes(c.args, RS_BYTE))
      /\ vals' = IF addr = NoValue THEN vals ELSE [vals EXCEPT !.iaddr = addr, !.ind = 1]
  BY DEF Output
<1>2. CASE addr = NoValue
  BY <1>1, <1>2, RefuseOK DEF Put
<1>3. CASE addr # NoValue
  <2>1. MayAsk
    BY <1>1, <1>3 DEF Put, UserSees, AtOnce, UserAsks
  <2>2. c.loc \in Tokens /\ c.args \in Seq(Tokens) /\ regs \in RegBuf
    BY <2>1, OfferTyped DEF IInv
  <2>3. addr \in Int
    BY <2>2, ValueTyped
  <2> HIDE DEF addr
  <2>4. PICK k \in 0..Page : Bytes(c.args, RS_BYTE) \in [1..k -> Byte \cup {NoValue}]
    BY <2>2, BytesTyped
  <2>5. vals' \in Vals
    <3>1. vals \in Vals /\ 1 \in Int
      BY DEF IInv
    <3>2. [vals EXCEPT !.iaddr = addr, !.ind = 1] \in Vals
      BY <2>3, <3>1, WithAddrCnt
    <3>3. vals' = vals \/ vals' = [vals EXCEPT !.iaddr = addr, !.ind = 1]
      BY <1>1
    <3> QED BY <3>1, <3>2, <3>3
  <2> QED BY <1>1, <2>3, <2>4, <2>5, PutOK
<1> QED BY <1>2, <1>3

\* A register incremented or decremented.
LEMMA IncDecOK ==
  ASSUME IInv, NEW c \in Offers[left], IncDec(c)
  PROVE  IInv'
<1> DEFINE r  == RegOf(c.loc)
           by == IF c.args = <<>> THEN 1 ELSE Value(c.args[1], r.sz)
           v  == getval(regs, r) + (IF c.cmd = "inc" THEN by ELSE -by)
<1>1. CASE r = NoReg \/ by = NoValue
  BY <1>1, RefuseOK DEF IncDec
<1>2. CASE ~(r = NoReg \/ by = NoValue)
  <2>1. /\ regs' = setval(regs, r, v)
        /\ AtOnce([to |-> c, val |-> getval(regs', r)])
        /\ calc' = calc
        /\ opbuf' = opbuf /\ vals' = vals /\ da' = da /\ prompten' = prompten
    BY <1>2 DEF IncDec, UserSees
  <2>2. c.args \in Seq(Tokens) /\ regs \in RegBuf
    BY <2>1, OfferTyped DEF AtOnce, IInv
  <2>3. by \in Int
    <3>1. ASSUME c.args # <<>> PROVE Value(c.args[1], r.sz) \in Int
      <4>1. c.args[1] \in Tokens
        BY <2>2, <3>1
      <4> QED BY <2>2, <4>1, ValueTyped DEF Value
    <3> QED BY <3>1
  <2>4. r \in Accessors
    BY RegOfTyped
  <2> HIDE DEF r, by
  <2>5. getval(regs, r) \in Int
    <3>1. getval(regs, r) \in Nat
      BY <2>2, <2>4, GetTyped
    <3> QED BY <3>1
  <2>6. v \in Int
    BY <2>3, <2>5
  <2> HIDE DEF v
  <2>7. regs' \in RegBuf
    BY <2>1, <2>2, <2>4, <2>6, SetTyped
  <2> QED BY <2>1, <2>7, AtOnceOK DEF IInv
<1> QED BY <1>1, <1>2

\* What a disassembly begun by a command needs.
LEMMA BegunOK ==
  ASSUME IInv, NEW c \in Offers[left], MayAsk, NEW addr \in Int, NEW count \in Int,
         NEW oc \in BOOLEAN, Disasm(addr, count, oc), prompten' = FALSE,
         UNCHANGED <<targetVars, app, regs, vals, addrVars, calc>>
  PROVE  IInv'
<1>1. app' \in Seq(Messages(rcv)) /\ opbuf \in Buffers /\ da \in Disassemblies
  BY DEF IInv
<1>2. opbuf' \in Buffers /\ da' \in Disassemblies /\ LinkAndSlotsOK'
  BY <1>1, DisasmOK
<1>3. vals' \in Vals /\ regs' \in RegBuf /\ prompten' \in BOOLEAN
  BY DEF IInv
<1>4. UNCHANGED <<targetVars, addrVars, calc>>
  OBVIOUS
<1> QED BY <1>2, <1>3, <1>4, UserAsksOK

\* A disassembly the user asks for.
LEMMA DasmOK ==
  ASSUME IInv, NEW c \in Offers[left], Dasm(c)
  PROVE  IInv'
<1> DEFINE addr == From(c, dasm_addr)
           cnt  == Count(c, 16)
<1>1. CASE NoValue \in {addr, cnt}
  <2>1. Refuse(c)
    BY <1>1 DEF Dasm
  <2> QED BY <2>1, RefuseOK
<1>2. CASE ~(NoValue \in {addr, cnt})
  <2>1. /\ UserAsks(c) /\ Disasm(addr, cnt, TRUE) /\ prompten' = FALSE
        /\ UNCHANGED <<targetVars, app, regs, vals, addrVars, calc>>
    BY <1>2 DEF Dasm
  <2>2. MayAsk
    BY <2>1 DEF UserAsks
  <2>3. c.loc \in Tokens /\ c.args \in Seq(Tokens)
    BY <2>2, OfferTyped
  <2>4. addr \in Int /\ cnt \in Int
    <3>1. regs \in RegBuf /\ dasm_addr \in Int /\ 16 \in Int
      BY Bounds DEF IInv, Addr
    <3> QED BY <2>3, <3>1, ArgumentsTyped
  <2> HIDE DEF addr, cnt
  <2>5. TRUE \in BOOLEAN
    OBVIOUS
  <2> QED BY <2>1, <2>2, <2>4, <2>5, BegunOK
<1> QED BY <1>1, <1>2

\* The registers fetched from the target, or put there.
LEMMA RegsOfTargetOK ==
  ASSUME IInv, NEW c \in Offers[left], GetRegs(c) \/ PutRegs(c)
  PROVE  IInv'
<1>1. CASE GetRegs(c)
  <2>1. MayAsk /\ dm_getallreg("getregs")
        /\ UNCHANGED <<targetVars, app, opbuf, regs, vals, da, addrVars, prompten, calc>>
    BY <1>1 DEF GetRegs, UserAsks
  <2>2. "getregs" \in Completions /\ app' \in Seq(Messages(rcv)) /\ rcv \in {NONE} \cup Printers
    BY <2>1 DEF Completions, IInv
  <2>3. LinkAndSlotsOK'
    BY <2>1, <2>2, GetAllRegOK
  <2>4. /\ opbuf' \in Buffers /\ vals' \in Vals /\ da' \in Disassemblies /\ regs' \in RegBuf
        /\ prompten' \in BOOLEAN
    BY <2>1 DEF IInv
  <2>5. UNCHANGED <<targetVars, addrVars, calc>>
    BY <2>1
  <2> QED BY <2>1, <2>3, <2>4, <2>5, UserAsksOK
<1>2. CASE PutRegs(c)
  <2>1. MayAsk /\ slot' = "putregs" /\ Send("DCPREGALL", 0)
        /\ UNCHANGED <<targetVars, app, opbuf, regs, rcv, vals, da, addrVars, prompten, calc>>
    BY <1>2 DEF PutRegs, UserAsks
  <2>2. LinkAndSlotsOK'
    <3>1. "DCPREGALL" \in Cmds /\ 0 \in Receivable
      BY Bounds DEF Cmds, Receivable
    <3>2. LinkOK(link')
      BY <2>1, <3>1, SendOK
    <3>3. slot' \in Slots(rcv')
      BY <2>1 DEF Slots, Completions
    <3> QED BY <2>1, <3>2, <3>3 DEF IInv, LinkAndSlotsOK
  <2>3. /\ opbuf' \in Buffers /\ vals' \in Vals /\ da' \in Disassemblies /\ regs' \in RegBuf
        /\ prompten' \in BOOLEAN
    BY <2>1 DEF IInv
  <2>4. UNCHANGED <<targetVars, addrVars, calc>>
    BY <2>1
  <2> QED BY <2>1, <2>2, <2>3, <2>4, UserAsksOK
<1> QED BY <1>1, <1>2

\* The program counter is a number.
LEMMA PcTyped ==
  ASSUME regs \in RegBuf
  PROVE  regpc \in Accessors /\ getval(regs, regpc) \in Int
<1>1. regpc \in Accessors
  BY FoundTyped DEF regpc
<1>2. getval(regs, regpc) \in Nat
  BY <1>1, GetTyped
<1> QED BY <1>1, <1>2

\* A start or a step of the target.
LEMMA GoOK ==
  ASSUME IInv, NEW c \in Offers[left], Go(c)
  PROVE  IInv'
<1> DEFINE pc == From(c, getval(regs, regpc))
           cmd == CASE c.cmd = "step" /\ c.loc = Here -> "DCSTEP"
                    [] c.cmd = "step"                 -> "DCSTEPWREG"
                    [] c.loc = Here                   -> "DCGO"
                    [] OTHER                          -> "DCGOWREG"
<1>1. CASE pc = NoValue
  BY <1>1, RefuseOK DEF Go
<1>2. CASE pc # NoValue
  <2>1. /\ MayAsk /\ slot' = NONE /\ prompten' = FALSE /\ regs' = setval(regs, regpc, pc)
        /\ Send(cmd, 0)
        /\ UNCHANGED <<targetVars, app, opbuf, rcv, vals, da, addrVars, calc>>
    BY <1>2 DEF Go, UserAsks
  <2>2. c.loc \in Tokens /\ c.args \in Seq(Tokens) /\ regs \in RegBuf
    BY <2>1, OfferTyped DEF IInv
  <2>3. pc \in Int
    BY <2>2, PcTyped, ArgumentsTyped
  <2> HIDE DEF pc
  <2>4. regs' \in RegBuf
    BY <2>1, <2>2, <2>3, PcTyped, SetTyped
  <2>5. cmd \in Cmds
    <3>1. cmd \in Starting
      BY DEF Starting
    <3> HIDE DEF cmd
    <3> QED BY <3>1 DEF Cmds
  <2> HIDE DEF cmd
  <2>6. LinkAndSlotsOK'
    <3>1. 0 \in Receivable
      BY Bounds DEF Receivable
    <3>2. LinkOK(link')
      BY <2>1, <2>5, <3>1, SendOK
    <3>3. slot' \in Slots(rcv')
      BY <2>1 DEF Slots
    <3> QED BY <2>1, <3>2, <3>3 DEF IInv, LinkAndSlotsOK
  <2>7. /\ opbuf' \in Buffers /\ vals' \in Vals /\ da' \in Disassemblies /\ prompten' \in BOOLEAN
    BY <2>1 DEF IInv
  <2>8. UNCHANGED <<targetVars, addrVars, calc>>
    BY <2>1
  <2> QED BY <2>1, <2>4, <2>6, <2>7, <2>8, UserAsksOK
<1> QED BY <1>1, <1>2

\* The CPU display.
LEMMA CpuOK ==
  ASSUME IInv, NEW c \in Offers[left], Cpu(c)
  PROVE  IInv'
<1>1. /\ MayAsk /\ Disasm(getval(regs, regpc), 1, FALSE) /\ prompten' = FALSE
      /\ UNCHANGED <<targetVars, app, regs, vals, addrVars, calc>>
  BY DEF Cpu
<1>2. getval(regs, regpc) \in Int /\ 1 \in Int /\ FALSE \in BOOLEAN
  BY PcTyped DEF IInv
<1> QED BY <1>1, <1>2, BegunOK

\* The calculator's commands.
LEMMA CalculateOK ==
  ASSUME IInv, NEW c \in Offers[left], Calculate(c)
  PROVE  IInv'
<1> DEFINE names  == [i \in DOMAIN c.args |-> IF c.args[i].ind = "" THEN c.args[i].name ELSE ""]
           values == [i \in DOMAIN c.args |-> Value(c.args[i], RS_UNLIMIT)]
           done   == CASE c.cmd = "calc" -> _exec_calc(calc, names, values)
                       [] c.cmd = "add"  -> SumUp(calc, values, 1)
                       [] c.cmd = "sub"  -> SumUp(calc, values, -1)
<1>1. /\ calc' = done.calc
      /\ AtOnce([to |-> c, val |-> IF done.ok THEN calc'.X ELSE NoValue])
      /\ opbuf' = opbuf /\ regs' = regs /\ vals' = vals /\ da' = da /\ prompten' = prompten
      /\ c.cmd \in {"calc", "add", "sub"}
  BY DEF Calculate
<1>2. c.args \in Seq(Tokens) /\ regs \in RegBuf /\ calc \in Calculators
  BY <1>1, OfferTyped DEF AtOnce, IInv
<1>3. \A i \in DOMAIN c.args : Value(c.args[i], RS_UNLIMIT) \in Int
  BY <1>2, ValueTyped DEF Value
<1>4. Len(c.args) \in Nat /\ DOMAIN c.args = 1..Len(c.args)
  BY <1>2
<1>5. DOMAIN names = 1..Len(c.args) /\ Len(names) = Len(c.args)
  BY <1>4
<1>6. values \in Seq(Int) /\ \A i \in 1..Len(c.args) : values[i] \in Int
  BY <1>3, <1>4
<1>7. _exec_calc(calc, names, values).calc \in Calculators
  <2> HIDE DEF names, values
  <2> QED BY <1>2, <1>4, <1>5, <1>6, ExecCalcTyped
<1>8. /\ SumUp(calc, values, 1).calc \in Calculators
      /\ SumUp(calc, values, -1).calc \in Calculators
  <2>1. 1 \in Int /\ -1 \in Int
    OBVIOUS
  <2> HIDE DEF values
  <2> QED BY <1>2, <1>6, <2>1, SumUpTyped
<1> HIDE DEF names, values
<1>9. calc' \in Calculators
  <2>1. CASE c.cmd = "calc"
    BY <1>1, <1>7, <2>1, Zenon
  <2>2. CASE c.cmd = "add"
    BY <1>1, <1>8, <2>2, Zenon
  <2>3. CASE c.cmd = "sub"
    BY <1>1, <1>8, <2>3, Zenon
  <2> QED BY <1>1, <2>1, <2>2, <2>3
<1> QED BY <1>1, <1>9, AtOnceOK DEF IInv

\* Whatever the user asks for.
LEMMA UserOK == IInv /\ User => IInv'
<1> SUFFICES ASSUME IInv, User PROVE IInv'
  OBVIOUS
<1>1. PICK c \in Offers[left] :
        \/ Dump(c) \/ Examine(c) \/ Input(c) \/ Load(c) \/ Output(c) \/ IncDec(c) \/ Dasm(c)
        \/ GetRegs(c) \/ PutRegs(c) \/ Go(c) \/ Cpu(c)
        \/ Calculate(c)
  BY DEF User
<1> QED BY <1>1, DumpOK, ExamineOK, InputOK, LoadOK, OutputOK, IncDecOK, DasmOK, RegsOfTargetOK,
           GoOK, CpuOK, CalculateOK

\* What is taken off a queue, and what is put behind it.
LEMMA Took ==
  ASSUME NEW S, NEW q \in Seq(S), q # <<>>
  PROVE  Head(q) \in S /\ Tail(q) \in Seq(S)
OBVIOUS

LEMMA Added ==
  ASSUME NEW S, NEW q \in Seq(S), NEW m \in S
  PROVE  Append(q, m) \in Seq(S) /\ q \o <<m>> \in Seq(S)
OBVIOUS

\* The message that a request has ended.
LEMMA CmdDoneOK == IInv /\ CmdDone => IInv'
<1> SUFFICES ASSUME IInv, CmdDone PROVE IInv'
  OBVIOUS
<1>1. /\ app # <<>> /\ app' = Tail(app) \o IF slot = NONE THEN <<>> ELSE <<slot>>
      /\ slot' = NONE
      /\ UNCHANGED <<targetVars, link, opbuf, regs, rcv, vals, da, addrVars, prompten, calc,
                     left>>
  BY DEF CmdDone, Taken
<1>2. Tail(app) \in Seq(Messages(rcv))
  BY <1>1, Took DEF IInv
<1>3. app' \in Seq(Messages(rcv))
  <2>1. CASE slot = NONE
    <3>1. app' = Tail(app) \o <<>>
      BY <1>1, <2>1, Zenon
    <3>2. ASSUME NEW S, NEW q \in Seq(S) PROVE q \o <<>> \in Seq(S)
      OBVIOUS
    <3> QED BY <1>2, <3>1, <3>2
  <2>2. CASE slot # NONE
    <3>1. slot \in Messages(rcv)
      BY <2>2 DEF IInv, Slots, Messages
    <3>2. app' = Tail(app) \o <<slot>>
      BY <1>1, <2>2, Zenon
    <3> QED BY <1>2, <3>1, <3>2, Added
  <2> QED BY <2>1, <2>2
<1>4. slot' \in Slots(rcv')
  BY <1>1 DEF Slots
<1> QED BY <1>1, <1>3, <1>4 DEF IInv, targetVars, addrVars

\* The message that the bytes asked for are there: what prints them has been set.
LEMMA MgetDoneOK == IInv /\ MgetDone => IInv'
<1> SUFFICES ASSUME IInv, MgetDone PROVE IInv'
  OBVIOUS
<1>1. /\ app # <<>> /\ Head(app) \in Gets /\ app' = Append(Tail(app), rcv)
      /\ slot' = NONE
      /\ UNCHANGED <<targetVars, link, opbuf, regs, rcv, vals, da, addrVars, prompten, calc,
                     histVars>>
  BY DEF MgetDone, Taken, Gets
<1>2. Tail(app) \in Seq(Messages(rcv)) /\ Head(app) \in Messages(rcv)
  BY <1>1, Took DEF IInv
<1>3. rcv \in Printers
  BY <1>1, <1>2 DEF IInv, Messages, Statuses, Gets, Completions, Printers
<1>4. app' \in Seq(Messages(rcv))
  <2>1. rcv \in Messages(rcv)
    BY <1>3 DEF Messages
  <2> QED BY <1>1, <1>2, <2>1, Added
<1>5. slot' \in Slots(rcv')
  BY <1>1 DEF Slots
<1> QED BY <1>1, <1>4, <1>5 DEF IInv, targetVars, addrVars, histVars

\* A message taken leaves such messages.
LEMMA ArrivesOK ==
  ASSUME app \in Seq(Messages(rcv)), NEW m, Arrives(m)
  PROVE  app' \in Seq(Messages(rcv))
BY Took DEF Arrives

\* The printers and the statuses that ask for nothing.
LEMMA PrintersOK == IInv /\ (DumpC \/ ExamC \/ PutRegsDone \/ TargetStarted) => IInv'
<1> SUFFICES ASSUME IInv, DumpC \/ ExamC \/ PutRegsDone \/ TargetStarted PROVE IInv'
  OBVIOUS
<1>1. CASE DumpC
  <2>1. /\ Arrives("dump_c") /\ left' = left
        /\ dump_addr' = (vals.addr + vals.cnt) % MemSize /\ prompten' = TRUE
        /\ UNCHANGED <<targetVars, link, opbuf, regs, slotVars, vals, da, dasm_addr, calc>>
    BY <1>1 DEF DumpC, Prints
  <2>2. app' \in Seq(Messages(rcv))
    BY <2>1, ArrivesOK DEF IInv
  <2>3. dump_addr' \in Addr
    <3>1. vals.addr + vals.cnt \in Int
      BY DEF IInv, Vals, Numbers
    <3> QED BY <2>1, <3>1, Bounds
  <2> QED BY <2>1, <2>2, <2>3 DEF IInv, targetVars, slotVars
<1>2. CASE ExamC
  <2>1. /\ Arrives("exam_c") \/ Arrives("in_c")
        /\ left' = left /\ prompten' = TRUE
        /\ UNCHANGED <<targetVars, link, opbuf, regs, slotVars, vals, da, addrVars, calc>>
    BY <1>2 DEF ExamC, Prints
  <2>2. app' \in Seq(Messages(rcv))
    BY <2>1, ArrivesOK DEF IInv
  <2> QED BY <2>1, <2>2 DEF IInv, targetVars, slotVars, addrVars
<1>3. CASE PutRegsDone
  <2>1. /\ Arrives("putregs") /\ left' = left
        /\ UNCHANGED <<targetVars, link, opbuf, regs, slotVars, vals, da, addrVars, prompten,
                       calc>>
    BY <1>3 DEF PutRegsDone, Prints
  <2>2. app' \in Seq(Messages(rcv))
    BY <2>1, ArrivesOK DEF IInv
  <2> QED BY <2>1, <2>2 DEF IInv, targetVars, slotVars, addrVars
<1>4. CASE TargetStarted
  <2>1. /\ Arrives("TGTGO") /\ prompten' = (prompten \/ asked.cmd # "step")
        /\ UNCHANGED <<targetVars, link, opbuf, regs, slotVars, vals, da, addrVars, calc,
                       histVars>>
    BY <1>4 DEF TargetStarted
  <2>2. app' \in Seq(Messages(rcv)) /\ prompten' \in BOOLEAN
    BY <2>1, ArrivesOK DEF IInv
  <2> QED BY <2>1, <2>2 DEF IInv, targetVars, slotVars, addrVars, histVars
<1> QED BY <1>1, <1>2, <1>3, <1>4

\* The registers are shown, and the statement at the PC is asked for.
LEMMA ShowRegsOK == IInv /\ ShowRegs => IInv'
<1> SUFFICES ASSUME IInv, ShowRegs PROVE IInv'
  OBVIOUS
<1>1. /\ Arrives("getregs") /\ Disasm(getval(regs, regpc), 1, FALSE) /\ prompten' = FALSE
      /\ left' = left
      /\ UNCHANGED <<targetVars, regs, vals, addrVars, calc>>
  BY DEF ShowRegs
<1>2. app' \in Seq(Messages(rcv))
  BY <1>1, ArrivesOK DEF IInv
<1>3. getval(regs, regpc) \in Int /\ 1 \in Int /\ FALSE \in BOOLEAN /\ opbuf \in Buffers
      /\ da \in Disassemblies
  BY PcTyped DEF IInv
<1>4. opbuf' \in Buffers /\ da' \in Disassemblies /\ LinkAndSlotsOK'
  BY <1>1, <1>2, <1>3, DisasmOK
<1> QED BY <1>1, <1>4 DEF IInv, LinkAndSlotsOK, targetVars, addrVars

\* Bytes of a statement have come: it is shown, or more are asked for.
LEMMA DisasmCDOK == IInv /\ DisasmCD => IInv'
<1> SUFFICES ASSUME IInv, DisasmCD PROVE IInv'
  OBVIOUS
<1> DEFINE c == Fed.ctx
           a == (da.caddr + Fed.used) % MemSize
           n == IF c.status = 0 THEN da.stmt_cnt - 1 ELSE da.stmt_cnt
           d1 == [da EXCEPT !.ctx = c]
           d2 == [d1 EXCEPT !.caddr = a]
           d3 == [d2 EXCEPT !.stmt_cnt = n]
           d == [da EXCEPT !.ctx = c, !.caddr = (@ + Fed.used) % MemSize,
                           !.stmt_cnt = IF c.status = 0 THEN @ - 1 ELSE @]
<1>1. /\ Arrives("disasm_c_d")
      /\ IF More(c)
           THEN /\ DisasmC([d EXCEPT !.bc = Wanted(c)])
                /\ UNCHANGED <<dasm_addr, prompten, asked>>
           ELSE /\ da' = [d EXCEPT !.bc = 0, !.oc = FALSE]
                /\ dasm_addr' = IF da.oc THEN d.caddr ELSE dasm_addr
                /\ prompten' = TRUE
                /\ asked' = NoCmd
                /\ UNCHANGED <<link, opbuf, slotVars>>
      /\ UNCHANGED <<targetVars, regs, vals, dump_addr, calc, left>>
  BY DEF DisasmCD
<1>2. opbuf \in Buffers /\ da \in Disassemblies
  BY DEF IInv
<1>3. c \in CtxSet /\ Fed.used \in Nat
  BY <1>2, FedTyped
<1>4. d = d3
  OBVIOUS
<1>5. a \in Addr /\ n \in Numbers
  <2>1. da.caddr \in Int /\ da.stmt_cnt \in Int
    BY <1>2, Bounds DEF Disassemblies, Addr, Numbers
  <2>2. da.caddr + Fed.used \in Int
    BY <1>3, <2>1
  <2> QED BY <2>1, <2>2, Bounds DEF Numbers
<1> HIDE DEF c, a, n, d
<1>6. d1 \in Disassemblies
  BY <1>2, <1>3, WithCtx
<1> HIDE DEF d1
<1>7. d2 \in Disassemblies
  BY <1>5, <1>6, WithCaddr
<1> HIDE DEF d2
<1>8. d \in Disassemblies
  BY <1>4, <1>5, <1>7, WithStatements
<1> HIDE DEF d3
<1>9. app' \in Seq(Messages(rcv))
  BY <1>1, ArrivesOK DEF IInv
<1>10. CASE More(c)
  <2> DEFINE e == [d EXCEPT !.bc = Wanted(c)]
  <2>1. Wanted(c) \in Wants
    <3>1. c.status \in {ZDAE_INVALID_INSTRUCTION} \cup 0..2
      BY <1>3 DEF CtxSet, ContextOK
    <3>2. c.status = 0 \/ c.status > 0
      BY <1>10 DEF More
    <3> QED BY <3>1, <3>2 DEF Wanted, Wants, ZDAE_INVALID_INSTRUCTION
  <2>2. e \in Disassemblies
    BY <1>8, <2>1, WithBytes
  <2>3. DisasmC(e) /\ dasm_addr' = dasm_addr /\ prompten' = prompten
    BY <1>1, <1>10
  <2> HIDE DEF e
  <2>4. opbuf' \in Buffers /\ da' \in Disassemblies /\ LinkAndSlotsOK'
    BY <1>2, <1>9, <2>2, <2>3, DisasmCOK
  <2> QED BY <1>1, <2>3, <2>4 DEF IInv, LinkAndSlotsOK, targetVars
<1>11. CASE ~More(c)
  <2> DEFINE e == [d EXCEPT !.bc = 0]
             g == [e EXCEPT !.oc = FALSE]
  <2>1. /\ da' = g /\ dasm_addr' = IF da.oc THEN d.caddr ELSE dasm_addr
        /\ prompten' = TRUE
        /\ UNCHANGED <<link, opbuf, slotVars>>
    BY <1>1, <1>11
  <2>2. e \in Disassemblies
    <3>1. 0 \in Wants
      BY DEF Wants
    <3> QED BY <1>8, <3>1, WithBytes
  <2> HIDE DEF e
  <2>3. da' \in Disassemblies
    <3>1. FALSE \in BOOLEAN
      OBVIOUS
    <3> QED BY <2>1, <2>2, <3>1, WithCmplt
  <2>4. dasm_addr' \in Addr
    <3>1. d.caddr \in Addr /\ dasm_addr \in Addr
      BY <1>8 DEF Disassemblies, IInv
    <3> QED BY <2>1, <3>1
  <2> QED BY <1>1, <1>9, <2>1, <2>3, <2>4 DEF IInv, targetVars, slotVars
<1> QED BY <1>10, <1>11

\* The target has stopped: there is nothing to do.
LEMMA TargetStoppedOK == IInv /\ TargetStopped => IInv'
<1> SUFFICES ASSUME IInv, TargetStopped PROVE IInv'
  OBVIOUS
<1>1. /\ Arrives("DMINIT") /\ left' = left
      /\ UNCHANGED <<targetVars, link, opbuf, regs, slotVars, vals, da, addrVars, prompten,
                     calc>>
  BY DEF TargetStopped
<1>2. app' \in Seq(Messages(rcv))
  BY <1>1, ArrivesOK DEF IInv
<1> QED BY <1>1, <1>2 DEF IInv, targetVars, slotVars, addrVars

\* Whatever message core 1 handles.
LEMMA Core1OK == IInv /\ Core1 => IInv'
BY CmdDoneOK, MgetDoneOK, PrintersOK, ShowRegsOK, DisasmCDOK, TargetStoppedOK DEF Core1

\* A page whole or in part is of a page's bytes.
LEMMA WholeTyped ==
  ASSUME NEW cnt \in PageCnt
  PROVE  Whole(cnt) \in 1..Page
<1>1. Page \in Nat /\ 2 <= Page
  BY Bounds
<1> QED BY <1>1 DEF Whole, PageCnt

\* A request that has been read is the one that was posted.
LEMMA WithTold ==
  ASSUME NEW l \in Requests, NEW a \in Addr, NEW n \in PageCnt
  PROVE  LET t == [l EXCEPT !.at = "told", !.addr = a, !.cnt = n]
         IN  LinkOK(t) /\ t.cmd = l.cmd /\ t.recv = l.recv /\ t.at = "told"
<1> DEFINE d == [l EXCEPT !.at = "told"]
           e == [d EXCEPT !.addr = a]
           g == [e EXCEPT !.cnt = n]
<1>1. g = [l EXCEPT !.at = "told", !.addr = a, !.cnt = n]
  OBVIOUS
<1> HIDE DEF g
<1>2. "told" \in Waits
  BY DEF Waits
<1>3. d \in Requests /\ d.at = "told" /\ d.cmd = l.cmd /\ d.recv = l.recv
  BY <1>2 DEF Requests
<1> HIDE DEF d
<1>4. e \in Requests /\ e.at = "told" /\ e.cmd = l.cmd /\ e.recv = l.recv
  BY <1>3 DEF Requests
<1> HIDE DEF e
<1>5. g \in Requests /\ g.at = "told" /\ g.cmd = l.cmd /\ g.recv = l.recv
  BY <1>4 DEF Requests, g
<1> QED BY <1>1, <1>5 DEF LinkOK

\* The monitor reads a request, and takes what is sent with it.
LEMMA ToldOK == IInv /\ Told => IInv'
<1> SUFFICES ASSUME IInv, Told PROVE IInv'
  OBVIOUS
<1> DEFINE n == Whole(opbuf.cnt)
           i(a) == ((a - opbuf.addr) % MemSize) + 1
<1>1. /\ link' = [link EXCEPT !.at = "told", !.addr = opbuf.addr, !.cnt = opbuf.cnt]
      /\ mem' = IF link.cmd # "DCPM" THEN mem
                ELSE [a \in Addr |-> IF i(a) <= n THEN opbuf.buf[i(a)] ELSE mem[a]]
      /\ io' = IF link.cmd # "DCPP" THEN io ELSE [io EXCEPT ![opbuf.addr] = opbuf.buf[n]]
      /\ tregs' = IF link.cmd = "DCPREGALL" THEN regs ELSE tregs
      /\ UNCHANGED <<dcVars, tgt, app, regs>>
  BY DEF Told
<1>2. /\ opbuf.addr \in Addr /\ opbuf.cnt \in PageCnt /\ opbuf.buf \in [1..Page -> Byte]
      /\ link \in Requests
  BY DEF IInv, Buffers, Pages, LinkOK
<1>3. n \in 1..Page
  BY <1>2, WholeTyped
<1> HIDE DEF n
<1>4. mem' \in Memory
  <2>1. ASSUME NEW a \in Addr PROVE (IF i(a) <= n THEN opbuf.buf[i(a)] ELSE mem[a]) \in Byte
    <3>1. MemSize \in Nat \ {0} /\ Page \in Nat
      <4>1. MemSize \in Nat /\ Page \in Nat /\ 2 <= Page /\ Page <= MemSize
        BY Bounds
      <4> QED BY <4>1
    <3>2. a - opbuf.addr \in Int
      BY <1>2, <3>1 DEF Addr
    <3>3. i(a) \in Nat /\ 1 <= i(a)
      <4>1. ASSUME NEW x \in Int, NEW m \in Nat \ {0} PROVE (x % m) + 1 \in Nat /\ 1 <= (x % m) + 1
        OBVIOUS
      <4> QED BY <3>1, <3>2, <4>1
    <3> HIDE DEF i
    <3>4. i(a) <= n => i(a) \in 1..Page
      BY <1>3, <3>1, <3>3
    <3>5. mem[a] \in Byte
      BY DEF IInv, Memory
    <3> QED BY <1>2, <3>4, <3>5
  <2> HIDE DEF i
  <2>2. [a \in Addr |-> IF i(a) <= n THEN opbuf.buf[i(a)] ELSE mem[a]] \in Memory
    BY <2>1 DEF Memory
  <2> QED BY <1>1, <2>2 DEF IInv
<1>5. io' \in Memory
  <2>1. opbuf.buf[n] \in Byte
    BY <1>2, <1>3
  <2> QED BY <1>1, <2>1 DEF IInv, Memory
<1>6. LinkOK(link')
  BY <1>1, <1>2, WithTold
<1>7. tregs' \in RegBuf
  BY <1>1 DEF IInv
<1>8. UNCHANGED <<opbuf, slotVars, vals, da, addrVars, prompten, calc, histVars>>
  BY <1>1 DEF dcVars
<1> HIDE DEF i
<1> QED BY <1>1, <1>4, <1>5, <1>6, <1>7, <1>8 DEF IInv, slotVars, addrVars, histVars

\* The monitor reads a request to start the target.
LEMMA ToldToStartOK == IInv /\ ToldToStart => IInv'
<1> SUFFICES ASSUME IInv, ToldToStart PROVE IInv'
  OBVIOUS
<1>1. /\ link' = NoReq
      /\ tgt' = IF link.cmd \in {"DCSTEP", "DCSTEPWREG"} THEN "stepping" ELSE "going"
      /\ tregs' = IF link.cmd \in {"DCGOWREG", "DCSTEPWREG"} THEN regs ELSE tregs
      /\ app' = Append(app, "TGTGO")
      /\ UNCHANGED <<dcVars, mem, io, regs>>
  BY DEF ToldToStart
<1>2. app' \in Seq(Messages(rcv))
  <2>1. "TGTGO" \in Messages(rcv)
    BY DEF Messages, Statuses
  <2> QED BY <1>1, <2>1, Added DEF IInv
<1>3. LinkOK(link')
  BY <1>1, NoReqOK
<1>4. tregs' \in RegBuf /\ tgt' \in {"held", "stepping", "going"}
  BY <1>1 DEF IInv
<1>5. UNCHANGED <<opbuf, slotVars, vals, da, addrVars, prompten, calc, histVars>>
  BY <1>1 DEF dcVars
<1> QED BY <1>1, <1>2, <1>3, <1>4, <1>5 DEF IInv, slotVars, addrVars, histVars

\* The monitor answers: what it sends are bytes, as many as the buffer holds at most.
LEMMA ReportsOK == IInv /\ Reports => IInv'
<1> SUFFICES ASSUME IInv, Reports PROVE IInv'
  OBVIOUS
<1> DEFINE n == Whole(link.cnt)
           sent(i) == IF link.cmd = "DCGP" THEN io[link.addr]
                      ELSE mem[(link.addr + i - 1) % MemSize]
           p == [i \in 1..Page |-> IF i <= n THEN sent(i) ELSE opbuf.buf[i]]
<1>1. /\ opbuf' = IF link.cmd \notin {"DCGM", "DCGP"} THEN opbuf
                  ELSE [opbuf EXCEPT !.buf = p]
      /\ regs' = IF link.cmd = "DCGREGALL" THEN tregs ELSE regs
      /\ app' = Append(app, "CMDDONE")
      /\ link' = NoReq
      /\ UNCHANGED <<targetVars, slotVars, vals, da, addrVars, prompten, calc, histVars>>
  BY DEF Reports
<1>2. opbuf' \in Buffers
  <2>1. link.addr \in Addr /\ opbuf.buf \in [1..Page -> Byte]
    BY DEF IInv, LinkOK, Requests, Buffers, Pages
  <2>2. ASSUME NEW i \in 1..Page PROVE sent(i) \in Byte
    <3>1. link.addr + i - 1 \in Int
      <4>1. MemSize \in Nat /\ Page \in Nat
        BY Bounds
      <4> QED BY <2>1, <4>1 DEF Addr
    <3>2. (link.addr + i - 1) % MemSize \in Addr
      BY <3>1, Bounds
    <3>3. io \in [Addr -> Byte] /\ mem \in [Addr -> Byte]
      BY DEF IInv, Memory
    <3>4. io[link.addr] \in Byte /\ mem[(link.addr + i - 1) % MemSize] \in Byte
      BY <2>1, <3>2, <3>3
    <3> QED BY <3>4
  <2> HIDE DEF sent, n
  <2>3. p \in Pages
    BY <2>1, <2>2 DEF Pages
  <2> HIDE DEF p
  <2>4. [opbuf EXCEPT !.buf = p] \in Buffers
    BY <2>3, BufferOK DEF IInv
  <2> QED BY <1>1, <2>4 DEF IInv
<1>3. app' \in Seq(Messages(rcv))
  <2>1. "CMDDONE" \in Messages(rcv)
    BY DEF Messages, Statuses
  <2> QED BY <1>1, <2>1, Added DEF IInv
<1>4. LinkOK(link') /\ regs' \in RegBuf
  BY <1>1, NoReqOK DEF IInv
<1> QED BY <1>1, <1>2, <1>3, <1>4
    DEF IInv, targetVars, slotVars, addrVars, histVars

\* The target comes to a stop.
LEMMA StoppedOK == IInv /\ (StepEnds \/ GoEnds) => IInv'
<1> SUFFICES ASSUME IInv, NEW running, Stopped(running) PROVE IInv'
  BY DEF StepEnds, GoEnds
<1>1. /\ tgt' = "held" /\ tregs' = [i \in 0..ZREGALLBYTES - 1 |-> 0]
      /\ app' = Append(app, "DMINIT")
      /\ UNCHANGED <<dcVars, mem, io, link, regs>>
  BY DEF Stopped
<1>2. app' \in Seq(Messages(rcv))
  <2>1. "DMINIT" \in Messages(rcv)
    BY DEF Messages, Statuses
  <2> QED BY <1>1, <2>1, Added DEF IInv
<1>3. tregs' \in RegBuf
  BY <1>1 DEF RegBuf, Byte
<1>4. UNCHANGED <<opbuf, slotVars, vals, da, addrVars, prompten, calc, histVars>>
  BY <1>1 DEF dcVars
<1> QED BY <1>1, <1>2, <1>3, <1>4 DEF IInv, slotVars, addrVars, histVars

\* The invariant holds at the start.
LEMMA InitOK == Init => IInv
<1> SUFFICES ASSUME Init PROVE IInv
  OBVIOUS
<1>1. mem \in Memory /\ tregs \in RegBuf /\ left \in DOMAIN Offers
  BY StartsTyped DEF Init, Memory, Addr
<1>2. io \in Memory
  BY DEF Init, Memory, Byte
<1>3. LinkOK(link)
  BY NoReqOK DEF Init
<1>4. rcv \in {NONE} \cup Printers /\ slot \in Slots(rcv) /\ app \in Seq(Messages(rcv))
  BY DEF Init, Slots
<1>5. opbuf \in Buffers
  <2>1. 0 \in Addr /\ 0 \in PageCnt
    BY Bounds DEF Addr, PageCnt
  <2>2. [i \in 1..Page |-> (i - 1) % 256] \in Pages
    <3>1. ASSUME NEW i \in 1..Page PROVE (i - 1) % 256 \in Byte
      <4>1. i - 1 \in Int
        BY Bounds
      <4> QED BY <4>1 DEF Byte
    <3> QED BY <3>1 DEF Pages
  <2> QED BY <2>1, <2>2 DEF Init, Buffers
<1>6. regs \in RegBuf
  <2>1. ASSUME NEW i \in 0..ZREGALLBYTES - 1 PROVE InitRegs[i + 1] \in Byte
    BY DEF InitRegs, ZREGALLBYTES, Byte
  <2> QED BY <2>1 DEF Init, RegBuf, Byte
<1>7. vals \in Vals
  <2>1. 0 \in Numbers
    BY DEF Numbers
  <2> QED BY <2>1 DEF Init, Vals
<1>8. da \in Disassemblies
  <2>1. NoCtx \in CtxSet
    <3>1. /\ 0 \in Numbers /\ <<>> \in Data /\ 0 \in Counts /\ 1 \in Counts /\ "NULL" \in Names
      BY DEF Numbers, Data, Counts, Names
    <3>2. NoCtx \in Contexts /\ NoCtx.d = <<>> /\ NoCtx.status = 0
      BY <3>1 DEF NoCtx, Contexts
    <3>3. Len(<<>>) <= MaxBytes /\ 0 \in 0..2 /\ ~(0 > 0)
      BY DEF MaxBytes
    <3> QED BY <3>2, <3>3 DEF CtxSet, ContextOK
  <2>2. 0 \in Addr /\ 0 \in Wants /\ 0 \in Numbers /\ FALSE \in BOOLEAN
    BY Bounds DEF Addr, Wants, Numbers
  <2> QED BY <2>1, <2>2 DEF Init, Disassemblies
<1>9. dasm_addr \in Addr /\ dump_addr \in Addr
  <2>1. 0 \in Addr
    BY Bounds DEF Addr
  <2> QED BY <2>1 DEF Init
<1>10. calc \in Calculators
  <2>1. 32 \in Wsizes
    BY DEF Wsizes
  <2> QED BY <2>1, ClearedTyped DEF Init, calc_modinit
<1>11. tgt = "held" /\ prompten \in BOOLEAN
  BY DEF Init
<1> QED BY <1>1, <1>2, <1>3, <1>4, <1>5, <1>6, <1>7, <1>8, <1>9, <1>10, <1>11 DEF IInv

\* Every step keeps the invariant.
LEMMA NextOK == IInv /\ [Next]_vars => IInv'
<1>1. IInv /\ UNCHANGED vars => IInv'
  BY DEF IInv, vars, targetVars, slotVars, addrVars, histVars
<1> QED BY <1>1, UserOK, Core1OK, ToldOK, ToldToStartOK, ReportsOK, StoppedOK DEF Next, Monitor

\* The invariant holds in every behaviour.
LEMMA SpecIInv == Spec => []IInv
BY InitOK, NextOK, PTL DEF Spec

\* Types of the variables (dc.c, cmds.c), for any commands in any order, any memory
\* and page size: the slots hold completions only, a count fits the buffer, the
\* disassembler asks for two bytes at most and takes no more than it has room for,
\* and the calculator's values fit its word.
THEOREM DcCmdsTypeOK == Spec => []TypeOK
<1>1. Spec => []IInv
  BY SpecIInv
<1> QED BY <1>1, TypesFollow, PTL

-----------------------------------------------------------------------------
(* One request at a time *)

\* A message that is alone in the queue, and one that is the first of two.
LEMMA Alone ==
  ASSUME NEW S, NEW q \in Seq(S), q # <<>>, Len(q) <= 1
  PROVE  Tail(q) = <<>>
<1>1. Len(q) \in Nat /\ Len(q) # 0
  OBVIOUS
<1>2. Len(q) = 1
  BY <1>1
<1>3. Tail(q) \in Seq(S) /\ Len(Tail(q)) = 0
  BY <1>2
<1> QED BY <1>3

LEMMA Pair ==
  ASSUME NEW a, NEW b
  PROVE  /\ Head(<<a, b>>) = a /\ Tail(<<a, b>>) = <<b>> /\ <<a, b>> # <<>>
         /\ Len(<<b>>) <= 1 /\ <<b>> # <<>> /\ Head(<<b>>) = b
OBVIOUS

\* The queue with one message.
LEMMA Short ==
  ASSUME NEW m
  PROVE  /\ Len(Append(<<>>, m)) <= 1 /\ Len(<<>> \o <<m>>) <= 1 /\ Len(<<>> \o <<>>) <= 1
         /\ Append(<<>>, m) = <<m>> /\ <<>> # <<m>> /\ Len(<<>>) <= 1
         /\ <<>> \o <<m>> = <<m>> /\ <<>> \o <<>> = <<>> /\ Len(<<m>>) <= 1
OBVIOUS

\* A step that leaves the target alone and the queue empty, and either leaves no
\* completion or posts what it is for.
Requested ==
  /\ app' = <<>> /\ tgt' = "held"
  /\ \/ slot' = NONE
     \/ link' # NoReq /\ link'.cmd \notin Starting

\* Such a step keeps the turns.
LEMMA RequestedTurn == Requested => Turn'
<1>1. Len(<<>>) <= 1 /\ <<>> \in {<<>>, <<"TGTGO">>}
  BY Short
<1> QED BY <1>1 DEF Requested, Turn

\* What is posted is no start, unless the command is one.
LEMMA Posted ==
  ASSUME NEW cmd, NEW recv, Send(cmd, recv)
  PROVE  link' # NoReq /\ link'.cmd = cmd
<1>1. link'.cmd = cmd /\ link'.at = "posted"
  BY DEF Send, NoReq
<1> QED BY <1>1 DEF NoReq

\* A get of memory or of a port is no start.
LEMMA PostedGet ==
  ASSUME NEW cnt, NEW m, dm_mem_get(cnt, m) \/ dm_port_get(cnt, m)
  PROVE  link' # NoReq /\ link'.cmd \notin Starting
<1>1. "DCGM" \notin Starting /\ "DCGP" \notin Starting
  BY DEF Starting
<1>2. Send("DCGM", cnt) \/ Send("DCGP", cnt)
  BY DEF dm_mem_get, dm_port_get
<1> QED BY <1>1, <1>2, Posted

\* A get of all registers is no start.
LEMMA PostedGetRegs ==
  ASSUME NEW m, dm_getallreg(m)
  PROVE  link' # NoReq /\ link'.cmd \notin Starting
<1>1. "DCGREGALL" \notin Starting
  BY DEF Starting
<1> QED BY <1>1, Posted DEF dm_getallreg

\* A command of the user's: given when nothing is under way, it leaves a request
\* or no completion, and the target and the queue to the others.
InOrder ==
  /\ MayAsk /\ app' = app /\ tgt' = tgt
  /\ \/ slot' = slot \/ slot' = NONE
     \/ link' # NoReq /\ link'.cmd \notin Starting

\* A command answered at once, or refused, is given in order.
LEMMA AtOnceInOrder ==
  ASSUME NEW a, AtOnce(a)
  PROVE  InOrder
BY DEF AtOnce, InOrder, slotVars, targetVars

LEMMA RefuseInOrder ==
  ASSUME NEW c, Refuse(c)
  PROVE  InOrder
BY AtOnceInOrder DEF Refuse, UserSees

\* So is one that gets bytes.
LEMMA GetInOrder ==
  ASSUME NEW c, UserAsks(c), UNCHANGED <<targetVars, app>>, NEW cnt, NEW m,
         dm_mem_get(cnt, m) \/ dm_port_get(cnt, m)
  PROVE  InOrder
BY PostedGet DEF UserAsks, InOrder, targetVars

\* A disassembly posts a request that is no start.
LEMMA DisasmInOrder ==
  ASSUME NEW a, NEW n, NEW oc, Disasm(a, n, oc)
  PROVE  link' # NoReq /\ link'.cmd \notin Starting
<1>1. PICK cnt : dm_mem_get(cnt, "disasm_c_d")
  BY DEF Disasm, DisasmC
<1> QED BY <1>1, PostedGet

\* So is one that puts bytes, though it leaves the completion as it is.
LEMMA PutInOrder ==
  ASSUME NEW c, NEW cmd, NEW addr, NEW b, Put(c, cmd, addr, b)
  PROVE  InOrder
<1>1. CASE addr = NoValue
  BY <1>1, RefuseInOrder DEF Put
<1>2. CASE addr # NoValue /\ \E i \in DOMAIN b : b[i] = NoValue
  <2>1. AtOnce([to |-> c, val |-> NoValue])
    BY <1>2 DEF Put, UserSees
  <2> QED BY <2>1, AtOnceInOrder
<1>3. CASE addr # NoValue /\ ~\E i \in DOMAIN b : b[i] = NoValue
  <2>1. UserAsks(c) /\ UNCHANGED <<targetVars, app, slotVars>>
    BY <1>3, Zenon DEF Put
  <2> QED BY <2>1 DEF UserAsks, InOrder, targetVars, slotVars
<1> QED BY <1>1, <1>2, <1>3

\* Every command is given in order.
LEMMA UserTurn ==
  ASSUME User
  PROVE  InOrder
<1>0. PICK c \in Offers[left] :
        \/ Dump(c) \/ Examine(c) \/ Input(c) \/ Load(c) \/ Output(c) \/ IncDec(c) \/ Dasm(c)
        \/ GetRegs(c) \/ PutRegs(c) \/ Go(c) \/ Cpu(c)
        \/ Calculate(c)
  BY DEF User
<1>1. CASE Dump(c)
  <2>1. CASE Refuse(c)
    BY <2>1, RefuseInOrder
  <2>2. CASE ~Refuse(c)
    <3>1. UserAsks(c) /\ UNCHANGED <<targetVars, app>> /\ \E n : dm_mem_get(n, "dump_c")
      BY <1>1, <2>2, Zenon DEF Dump
    <3> QED BY <3>1, GetInOrder
  <2> QED BY <2>1, <2>2
<1>2. CASE Examine(c)
  <2>1. CASE RegOf(c.loc) # NoReg
    <3>1. AtOnce([to |-> c, val |-> getval(regs, RegOf(c.loc))])
      BY <1>2, <2>1 DEF Examine, UserSees
    <3> QED BY <3>1, AtOnceInOrder
  <2>2. CASE Refuse(c)
    BY <2>2, RefuseInOrder
  <2>3. CASE RegOf(c.loc) = NoReg /\ ~Refuse(c)
    <3>1. UserAsks(c) /\ UNCHANGED <<targetVars, app>> /\ \E n : dm_mem_get(n, "exam_c")
      BY <1>2, <2>3, Zenon DEF Examine
    <3> QED BY <3>1, GetInOrder
  <2> QED BY <2>1, <2>2, <2>3
<1>3. CASE Input(c)
  <2>1. CASE Refuse(c)
    BY <2>1, RefuseInOrder
  <2>2. CASE ~Refuse(c)
    <3>1. UserAsks(c) /\ UNCHANGED <<targetVars, app>> /\ dm_port_get(1, "in_c")
      BY <1>3, <2>2, Zenon DEF Input
    <3> QED BY <3>1, GetInOrder
  <2> QED BY <2>1, <2>2
<1>4. CASE Load(c)
  <2>1. CASE RegOf(c.loc) = NoReg
    BY <1>4, <2>1, PutInOrder DEF Load
  <2>2. CASE Refuse(c)
    BY <2>2, RefuseInOrder
  <2>3. CASE RegOf(c.loc) # NoReg /\ ~Refuse(c)
    <3>1. AtOnce([to |-> c, val |-> Printed])
      BY <1>4, <2>3 DEF Load, LoadReg, UserSees
    <3> QED BY <3>1, AtOnceInOrder
  <2> QED BY <2>1, <2>2, <2>3
<1>5. CASE Output(c)
  BY <1>5, PutInOrder DEF Output
<1>6. CASE IncDec(c)
  <2>1. CASE Refuse(c)
    BY <2>1, RefuseInOrder
  <2>2. CASE ~Refuse(c)
    <3>1. AtOnce([to |-> c, val |-> getval(regs', RegOf(c.loc))])
      BY <1>6, <2>2 DEF IncDec, UserSees
    <3> QED BY <3>1, AtOnceInOrder
  <2> QED BY <2>1, <2>2
<1>7. CASE Dasm(c)
  <2>1. CASE Refuse(c)
    BY <2>1, RefuseInOrder
  <2>2. CASE ~Refuse(c)
    <3>1. /\ UserAsks(c) /\ UNCHANGED <<targetVars, app>>
          /\ Disasm(From(c, dasm_addr), Count(c, 16), TRUE)
      BY <1>7, <2>2, Zenon DEF Dasm
    <3> QED BY <3>1, DisasmInOrder DEF UserAsks, InOrder, targetVars
  <2> QED BY <2>1, <2>2
<1>8. CASE GetRegs(c)
  <2>1. UserAsks(c) /\ UNCHANGED <<targetVars, app>> /\ dm_getallreg("getregs")
    BY <1>8 DEF GetRegs
  <2> QED BY <2>1, PostedGetRegs DEF UserAsks, InOrder, targetVars
<1>9. CASE PutRegs(c)
  <2>1. UserAsks(c) /\ UNCHANGED <<targetVars, app>> /\ Send("DCPREGALL", 0)
    BY <1>9 DEF PutRegs
  <2>2. "DCPREGALL" \notin Starting
    BY DEF Starting
  <2> QED BY <2>1, <2>2, Posted DEF UserAsks, InOrder, targetVars
<1>10. CASE Go(c)
  <2>1. CASE Refuse(c)
    BY <2>1, RefuseInOrder
  <2>2. CASE ~Refuse(c)
    <3>1. UserAsks(c) /\ UNCHANGED <<targetVars, app>> /\ slot' = NONE
      BY <1>10, <2>2, Zenon DEF Go
    <3> QED BY <3>1 DEF UserAsks, InOrder, targetVars
  <2> QED BY <2>1, <2>2
<1>11. CASE Cpu(c)
  <2>1. /\ MayAsk /\ UNCHANGED <<targetVars, app>>
        /\ Disasm(getval(regs, regpc), 1, FALSE)
    BY <1>11 DEF Cpu
  <2> QED BY <2>1, DisasmInOrder DEF InOrder, targetVars
<1>12. CASE Calculate(c)
  <2>1. PICK a : AtOnce(a)
    BY <1>12 DEF Calculate
  <2> QED BY <2>1, AtOnceInOrder
<1> QED BY <1>0, <1>1, <1>2, <1>3, <1>4, <1>5, <1>6, <1>7, <1>8, <1>9, <1>10, <1>11,
           <1>12

\* A step of core 1's.
LEMMA ArrivesAlone ==
  ASSUME IInv, Turn, NEW m, Arrives(m), m # "TGTGO"
  PROVE  app' = <<>>
<1>1. app \in Seq(Messages(rcv)) /\ app # <<>> /\ Head(app) = m /\ app' = Tail(app)
  BY DEF IInv, Arrives
<1>2. Len(app) <= 1
  <2>1. app # <<"TGTGO", "DMINIT">>
    BY <1>1, Pair
  <2> QED BY <2>1 DEF Turn
<1> QED BY <1>1, <1>2, Alone

\* While a message waits there is no request; only a start comes while the target
\* runs, and only the end of a request with a completion still to be posted.
LEMMA MessageWaits ==
  ASSUME Turn, app # <<>>
  PROVE  /\ link = NoReq /\ link.cmd \notin Starting
         /\ Head(app) # "TGTGO" => tgt = "held"
         /\ Head(app) # "CMDDONE" => slot = NONE
<1>1. link = NoReq
  BY DEF Turn
<1>2. link.cmd \notin Starting
  BY <1>1 DEF NoReq, Starting
<1>3. Head(app) # "TGTGO" => tgt = "held"
  BY Pair DEF Turn
<1>4. Head(app) # "CMDDONE" => slot = NONE
  BY <1>1, Pair DEF Turn
<1> QED BY <1>1, <1>2, <1>3, <1>4

\* A step that takes a message and leaves no completion, or posts a request.
LEMMA TakenTurn ==
  ASSUME IInv, Turn, NEW m, Arrives(m), m # "TGTGO", m # "CMDDONE", UNCHANGED targetVars,
         \/ slot' = slot
         \/ link' # NoReq /\ link'.cmd \notin Starting
  PROVE  Requested
<1>1. app # <<>> /\ Head(app) = m
  BY DEF Arrives
<1> QED BY <1>1, ArrivesAlone, MessageWaits DEF Requested, targetVars

\* The end of a request posts its completion, if there is one.
LEMMA CmdDoneTurn ==
  ASSUME IInv, Turn, CmdDone
  PROVE  Turn'
<1>1. /\ app # <<>> /\ Head(app) = "CMDDONE" /\ slot' = NONE /\ link' = link /\ tgt' = tgt
      /\ app' = Tail(app) \o IF slot = NONE THEN <<>> ELSE <<slot>>
  BY DEF CmdDone, Taken, targetVars
<1>2. Arrives("CMDDONE") => Tail(app) = <<>>
  <2>1. "CMDDONE" \notin {"TGTGO"}
    OBVIOUS
  <2>2. app \in Seq(Messages(rcv)) /\ Len(app) <= 1
    <3>1. app # <<"TGTGO", "DMINIT">>
      BY <1>1, Pair
    <3> QED BY <3>1 DEF Turn, IInv
  <2> QED BY <1>1, <2>2, Alone
<1>3. Tail(app) = <<>>
  <2>1. app \in Seq(Messages(rcv)) /\ Len(app) <= 1
    <3>1. app # <<"TGTGO", "DMINIT">>
      BY <1>1, Pair
    <3> QED BY <3>1 DEF Turn, IInv
  <2> QED BY <1>1, <2>1, Alone
<1>4. Len(app') <= 1
  <2>1. CASE slot = NONE
    BY <1>1, <1>3, <2>1, Short
  <2>2. CASE slot # NONE
    BY <1>1, <1>3, <2>2, Short
  <2> QED BY <2>1, <2>2
<1>5. link' = NoReq /\ link'.cmd \notin Starting /\ tgt' = "held"
  BY <1>1, MessageWaits
<1> QED BY <1>1, <1>4, <1>5 DEF Turn

\* The completion of a get posts the printer.
LEMMA MgetDoneTurn ==
  ASSUME IInv, Turn, MgetDone
  PROVE  Turn'
<1>1. /\ app # <<>> /\ Head(app) \in {"mget_done", "pget_done"} /\ slot' = NONE
      /\ link' = link /\ tgt' = tgt /\ app' = Append(Tail(app), rcv)
  BY DEF MgetDone, Taken, targetVars
<1>2. Tail(app) = <<>>
  <2>1. app \in Seq(Messages(rcv)) /\ Len(app) <= 1
    <3>1. app # <<"TGTGO", "DMINIT">>
      BY <1>1, Pair
    <3> QED BY <3>1 DEF Turn, IInv
  <2> QED BY <1>1, <2>1, Alone
<1>3. Len(app') <= 1
  BY <1>1, <1>2, Short
<1>4. link' = NoReq /\ link'.cmd \notin Starting /\ tgt' = "held"
  BY <1>1, MessageWaits
<1> QED BY <1>1, <1>3, <1>4 DEF Turn

\* The message that the target has started may have the next one behind it.
LEMMA TargetStartedTurn ==
  ASSUME IInv, Turn, TargetStarted
  PROVE  Turn'
<1>1. /\ app # <<>> /\ Head(app) = "TGTGO" /\ app' = Tail(app)
      /\ slot' = slot /\ link' = link /\ tgt' = tgt
  BY DEF TargetStarted, Arrives, targetVars, slotVars
<1>2. link' = NoReq /\ link'.cmd \notin Starting /\ slot' = NONE
  BY <1>1, MessageWaits
<1>3. CASE Len(app) <= 1
  <2>1. app' = <<>>
    BY <1>1, <1>3, Alone DEF IInv
  <2> QED BY <1>2, <2>1, Short DEF Turn
<1>4. CASE ~(Len(app) <= 1)
  <2>1. \E m : app = <<"TGTGO", m>>
    BY <1>4 DEF Turn
  <2>2. tgt = "held"
    <3>1. ASSUME NEW m PROVE <<"TGTGO", m>> \notin {<<>>, <<"TGTGO">>}
      OBVIOUS
    <3> QED BY <2>1, <3>1 DEF Turn
  <2>3. Len(app') <= 1
    BY <1>1, <2>1, Pair
  <2> QED BY <1>1, <1>2, <2>2, <2>3 DEF Turn
<1> QED BY <1>3, <1>4

\* Showing the registers, and a statement that has come, leave no completion but
\* that of the request they post.
LEMMA ShowRegsTurn ==
  ASSUME IInv, Turn, ShowRegs
  PROVE  Requested
<1>1. Arrives("getregs") /\ Disasm(getval(regs, regpc), 1, FALSE) /\ UNCHANGED targetVars
  BY DEF ShowRegs
<1>2. link' # NoReq /\ link'.cmd \notin Starting
  BY <1>1, DisasmInOrder
<1> QED BY <1>1, <1>2, TakenTurn

LEMMA DisasmCDTurn ==
  ASSUME IInv, Turn, DisasmCD
  PROVE  Requested
<1>1. /\ Arrives("disasm_c_d") /\ UNCHANGED targetVars
      /\ (\E d : DisasmC(d)) \/ UNCHANGED slotVars
  BY Zenon DEF DisasmCD
<1>2. slot' = slot \/ (link' # NoReq /\ link'.cmd \notin Starting)
  BY <1>1, PostedGet DEF slotVars, DisasmC
<1> QED BY <1>1, <1>2, TakenTurn

\* Every message core 1 handles keeps the turns.
LEMMA Core1Turn ==
  ASSUME IInv, Turn, Core1
  PROVE  Turn'
<1>1. CASE DumpC
  <2>1. Arrives("dump_c") /\ UNCHANGED <<targetVars, slotVars>>
    BY <1>1 DEF DumpC
  <2> QED BY <2>1, TakenTurn, RequestedTurn DEF slotVars
<1>2. CASE ExamC
  <2>1. (Arrives("exam_c") \/ Arrives("in_c")) /\ UNCHANGED <<targetVars, slotVars>>
    BY <1>2 DEF ExamC
  <2> QED BY <2>1, TakenTurn, RequestedTurn DEF slotVars
<1>3. CASE PutRegsDone
  <2>1. Arrives("putregs") /\ UNCHANGED <<targetVars, slotVars>>
    BY <1>3 DEF PutRegsDone
  <2> QED BY <2>1, TakenTurn, RequestedTurn DEF slotVars
<1>4. CASE TargetStopped
  <2>1. Arrives("DMINIT") /\ UNCHANGED <<targetVars, slotVars>>
    BY <1>4 DEF TargetStopped
  <2> QED BY <2>1, TakenTurn, RequestedTurn DEF slotVars
<1> QED BY <1>1, <1>2, <1>3, <1>4, CmdDoneTurn, MgetDoneTurn, TargetStartedTurn, ShowRegsTurn,
           DisasmCDTurn, RequestedTurn DEF Core1

\* The user's part, in the terms of Turn.
LEMMA UserRequested ==
  ASSUME Turn, User
  PROVE  Requested /\ link = NoReq /\ slot = NONE
<1>1. InOrder
  BY UserTurn
<1>2. link = NoReq /\ app = <<>> /\ tgt = "held"
  BY <1>1 DEF InOrder, MayAsk
<1>3. <<>> # <<"CMDDONE">>
  OBVIOUS
<1>4. slot = NONE
  BY <1>2, <1>3 DEF Turn
<1> QED BY <1>1, <1>2, <1>4 DEF InOrder, Requested

\* The link's and the target's part.
LEMMA ToldTurn ==
  ASSUME IInv, Turn, Told
  PROVE  Turn'
<1>1. /\ link.at = "posted" /\ link.cmd \notin Starting
      /\ link' = [link EXCEPT !.at = "told", !.addr = opbuf.addr, !.cnt = opbuf.cnt]
      /\ app' = app /\ tgt' = tgt /\ slot' = slot
  BY DEF Told, dcVars, slotVars
<1>2. link # NoReq
  BY <1>1 DEF NoReq
<1>3. link'.cmd = link.cmd /\ link'.at = "told"
  <2>1. /\ opbuf.addr \in Addr /\ opbuf.cnt \in PageCnt /\ link \in Requests
    BY DEF IInv, Buffers, LinkOK
  <2> QED BY <1>1, <2>1, WithTold
<1>4. link' # NoReq
  BY <1>3 DEF NoReq
<1>5. app = <<>> /\ tgt = "held" /\ Len(<<>>) <= 1
  BY <1>2, Short DEF Turn
<1> QED BY <1>1, <1>3, <1>4, <1>5 DEF Turn

\* A start leaves the message that the target has started, and no request.
LEMMA ToldToStartTurn ==
  ASSUME IInv, Turn, ToldToStart
  PROVE  Turn'
<1>1. /\ link.at = "posted" /\ link.cmd \in Starting /\ link' = NoReq /\ slot' = slot
      /\ app' = Append(app, "TGTGO")
  BY DEF ToldToStart, dcVars, slotVars
<1>2. link # NoReq /\ link'.cmd \notin Starting
  BY <1>1 DEF NoReq, Starting
<1>3. app = <<>> /\ slot' = NONE
  BY <1>1, <1>2 DEF Turn
<1>4. app' = <<"TGTGO">> /\ Len(app') <= 1
  BY <1>1, <1>3, Short
<1> QED BY <1>1, <1>2, <1>3, <1>4 DEF Turn

\* A request that is reported leaves the message that it has ended.
LEMMA ReportsTurn ==
  ASSUME IInv, Turn, Reports
  PROVE  Turn'
<1>1. /\ link.at = "told" /\ link' = NoReq /\ tgt' = tgt /\ app' = Append(app, "CMDDONE")
  BY DEF Reports, targetVars
<1>2. link # NoReq /\ link'.cmd \notin Starting
  BY <1>1 DEF NoReq, Starting
<1>3. app = <<>> /\ tgt' = "held"
  BY <1>1, <1>2 DEF Turn
<1>4. app' = <<"CMDDONE">> /\ Len(app') <= 1
  BY <1>1, <1>3, Short
<1> QED BY <1>1, <1>2, <1>3, <1>4 DEF Turn

\* What comes behind the message that the target has started.
LEMMA GoneAndStopped ==
  ASSUME NEW b
  PROVE  Append(<<"TGTGO">>, b) = <<"TGTGO", b>>
<1> DEFINE S == {"TGTGO", b}
           s == <<"TGTGO">>
           t == <<"TGTGO", b>>
<1>1. s \in Seq(S) /\ b \in S
  OBVIOUS
<1>2. t = s \o <<b>>
  OBVIOUS
<1>3. ASSUME NEW q \in Seq(S) PROVE Append(q, b) = q \o <<b>>
  <2> HIDE DEF S
  <2> QED BY <1>1
<1> HIDE DEF S, s, t
<1>4. Append(s, b) = s \o <<b>>
  BY <1>1, <1>3
<1>5. Append(s, b) = t
  BY <1>2, <1>4, Zenon
<1> QED BY <1>5, Zenon DEF s, t

\* A stop may come while the message of the start still waits.
LEMMA StoppedTurn ==
  ASSUME IInv, Turn, StepEnds \/ GoEnds
  PROVE  Turn'
<1>1. /\ tgt # "held" /\ tgt' = "held" /\ app' = Append(app, "DMINIT")
      /\ link' = link /\ slot' = slot
  BY DEF StepEnds, GoEnds, Stopped, dcVars, slotVars
<1>2. link = NoReq /\ link.cmd \notin Starting /\ slot = NONE
  <2>1. link = NoReq /\ slot = NONE
    BY <1>1 DEF Turn
  <2> QED BY <2>1 DEF NoReq, Starting
<1>3. app \in {<<>>, <<"TGTGO">>}
  BY <1>1 DEF Turn
<1>4. Len(app') <= 1 \/ app' = <<"TGTGO", "DMINIT">>
  <2>1. CASE app = <<>>
    BY <1>1, <2>1, Short
  <2>2. CASE app = <<"TGTGO">>
    <3>1. Append(<<"TGTGO">>, "DMINIT") = <<"TGTGO", "DMINIT">>
      BY GoneAndStopped, Zenon
    <3> QED BY <1>1, <2>2, <3>1
  <2> QED BY <1>3, <2>1, <2>2
<1> QED BY <1>1, <1>2, <1>4 DEF Turn

\* Every step keeps the turns.
LEMMA TurnStep == IInv /\ Turn /\ [Next]_vars => Turn'
<1>1. Turn /\ UNCHANGED vars => Turn'
  BY DEF Turn, vars, targetVars, slotVars
<1> QED BY <1>1, UserRequested, RequestedTurn, Core1Turn, ToldTurn, ToldToStartTurn, ReportsTurn,
           StoppedTurn DEF Next, Monitor

\* There is nothing under way at the start.
LEMMA TurnInit == Init => Turn
<1>1. NoReq.cmd \notin Starting /\ Len(<<>>) <= 1
  BY Short DEF NoReq, Starting
<1> QED BY <1>1 DEF Init, Turn

\* A message of core 1's leaves a request alone, and a completion is set where
\* there is none.
LEMMA Core1Keeps ==
  ASSUME Turn, Core1
  PROVE  link = NoReq /\ (slot = NONE \/ slot' = NONE)
<1>1. app # <<>>
  BY DEF Core1, CmdDone, MgetDone, DumpC, ExamC, PutRegsDone, ShowRegs, DisasmCD, TargetStopped,
         TargetStarted, Arrives
<1>2. CmdDone => slot' = NONE
  BY DEF CmdDone, Taken
<1>3. ~CmdDone => Head(app) # "CMDDONE"
  BY DEF Core1, MgetDone, DumpC, ExamC, PutRegsDone, ShowRegs, DisasmCD, TargetStopped,
         TargetStarted, Arrives
<1> QED BY <1>1, <1>2, <1>3, MessageWaits

\* Every step keeps what is under way.
LEMMA KeptStep == IInv /\ Turn /\ [Next]_vars => Kept
<1> SUFFICES ASSUME IInv, Turn, [Next]_vars PROVE Kept
  OBVIOUS
<1>1. CASE UNCHANGED vars
  BY <1>1 DEF Kept, vars, slotVars
<1>2. CASE User
  BY <1>2, UserRequested DEF Kept
<1>3. CASE Core1
  BY <1>3, Core1Keeps DEF Kept
<1>4. CASE Told
  <2>1. /\ link.at = "posted" /\ slot' = slot /\ UNCHANGED <<opbuf, regs, slotVars>>
        /\ link' = [link EXCEPT !.at = "told", !.addr = opbuf.addr, !.cnt = opbuf.cnt]
    BY <1>4 DEF Told, dcVars, slotVars
  <2>2. link'.cmd = link.cmd /\ link'.at = "told" /\ link'.recv = link.recv
    <3>1. /\ opbuf.addr \in Addr /\ opbuf.cnt \in PageCnt /\ link \in Requests
      BY DEF IInv, Buffers, LinkOK
    <3> QED BY <2>1, <3>1, WithTold
  <2> QED BY <2>1, <2>2 DEF Kept
<1>5. CASE ToldToStart
  BY <1>5 DEF ToldToStart, Kept, dcVars, slotVars
<1>6. CASE Reports
  BY <1>6 DEF Reports, Kept, slotVars
<1>7. CASE StepEnds \/ GoEnds
  BY <1>7 DEF StepEnds, GoEnds, Stopped, Kept, dcVars, slotVars
<1> QED BY <1>1, <1>2, <1>3, <1>4, <1>5, <1>6, <1>7 DEF Next, Monitor

\* The debugger has one thing under way at a time (dc.c, dmcomm.c): while a request
\* waits there is no message, and no completion is left over from one before.
THEOREM RequestsInTurn == Spec => []Turn
<1>1. Spec => []IInv
  BY SpecIInv
<1> QED BY <1>1, TurnInit, TurnStep, PTL DEF Spec

\* Nothing that is under way is overwritten (dmcomm.c:141 and dc.c have no check): a
\* request is replaced only when it has been served, a completion only when it has
\* been posted, and while a request is out the one buffer, the copy of the registers
\* and the slots are as the command that posted it left them.
THEOREM OneRequest == Spec => NothingOverwritten
<1>1. Spec => []IInv
  BY SpecIInv
<1>2. Spec => []Turn
  BY RequestsInTurn
<1>3. Spec => [][Kept]_vars
  BY <1>1, <1>2, KeptStep, PTL DEF Spec
<1> QED BY <1>3 DEF NothingOverwritten

-----------------------------------------------------------------------------
(* What is answered, and what is written *)

\* A get of memory or of a port is out; what it was to bring has been brought.
Reads == {"DCGM", "DCGP"}
GetIsOut == link.cmd \in Reads
Brought ==
  /\ app # <<>>
  /\ Head(app) \in Gets \cup Printers \/ (Head(app) = "CMDDONE" /\ slot \in Gets)
RegShows == {"getregs"}
RegsBrought ==
  /\ app # <<>>
  /\ Head(app) \in RegShows \/ (Head(app) = "CMDDONE" /\ slot \in RegShows)

\* Where the bytes of a get come from, and how many they are: by what prints them.
Whence ==
  CASE rcv = "dump_c" -> vals.addr [] rcv = "disasm_c_d" -> da.caddr [] OTHER -> vals.iaddr
Amount ==
  CASE rcv = "dump_c" -> vals.cnt [] rcv = "disasm_c_d" -> da.bc [] OTHER -> vals.ind
Source(i) == IF rcv = "in_c" THEN io[Whence % MemSize] ELSE mem[(Whence + i - 1) % MemSize]

\* What a command is for: as many bytes, or these.
DumpSize(c) ==
  LET v == Count(c, Page)
  IN  IF c.args = <<>> THEN Page
      ELSE IF c.cmd = "dumpa" THEN v % Page
      ELSE IF v % (4 * Page) > Page THEN Page ELSE v % (4 * Page)
ExamSize(c) == IF c.loc.ind = "{" THEN 2 ELSE 1
LoadBytes(c) == Bytes(c.args, IF c.loc.ind = "{" THEN RS_WORD ELSE RS_BYTE)
OutBytes(c) == Bytes(c.args, RS_BYTE)

\* A get that is out is for what will print it, and the buffer says the same.
GetOut ==
  GetIsOut =>
    /\ slot \in Gets /\ rcv \in Printers /\ (link.cmd = "DCGP" <=> rcv = "in_c")
    /\ link.recv = Amount /\ opbuf.addr = Whence % MemSize /\ opbuf.cnt = Amount % Page
    /\ link.at = "told" => link.addr = opbuf.addr /\ link.cnt = opbuf.cnt

\* What has been brought is still what the target has.
GetBrought ==
  Brought =>
    /\ rcv \in Printers /\ (Head(app) \in Printers => Head(app) = rcv)
    /\ \A i \in 1..Amount : opbuf.buf[i] = Source(i)

\* It is for what the user has asked, or where the disassembly is.
Meant ==
  /\ rcv = "dump_c" =>
       /\ asked.cmd \in {"dump", "dumpa"}
       /\ vals.addr = From(asked, dump_addr) /\ vals.cnt = DumpSize(asked)
  /\ rcv = "exam_c" =>
       /\ asked.cmd = "exam"
       /\ vals.iaddr = _get_addr16(regs, asked.loc) /\ vals.ind = ExamSize(asked)
  /\ rcv = "in_c" =>
       /\ asked.cmd = "in"
       /\ vals.iaddr = _get_port_addr(regs, asked.loc) /\ vals.ind = 1
  /\ rcv = "disasm_c_d" /\ da.oc =>
       /\ asked.cmd = "dasm"
       /\ answer = <<>> /\ da.ctx.status = 0 => da.caddr = From(asked, dasm_addr) % MemSize
  /\ rcv = "disasm_c_d" /\ ~da.oc =>
       /\ da.stmt_cnt = 1
       /\ da.ctx.status = 0 => da.caddr = getval(regs, regpc) % MemSize

\* A completion belongs to its request, and the registers it shows are the target's.
Paired ==
  link # NoReq => /\ slot \in Gets <=> GetIsOut
                  /\ slot \in RegShows => link.cmd = "DCGREGALL"

\* What is to be written is in the buffer: the bytes b.
BytesOut(b) ==
  /\ Len(b) \in 1..Page /\ Whole(opbuf.cnt) = Len(b)
  /\ \A i \in 1..Len(b) : opbuf.buf[i] = b[i]
PutOut ==
  /\ link.cmd = "DCPM" => /\ opbuf.addr = _get_addr16(regs, asked.loc) % MemSize
                          /\ BytesOut(LoadBytes(asked))
  /\ link.cmd = "DCPP" => /\ opbuf.addr = _get_port_addr(regs, asked.loc) % MemSize
                          /\ BytesOut(OutBytes(asked))

\* The invariant: a request, what it brought and what the user asked agree.
Answers ==
  /\ GetOut /\ GetBrought
  /\ GetIsOut \/ Brought => Meant
  /\ Paired
  /\ RegsBrought => regs = tregs
  /\ PutOut

\* Memory from addr on.
MemoryAt(addr, n) ==
  [i \in 1..n |-> [addr |-> (addr + i - 1) % MemSize, byte |-> mem[(addr + i - 1) % MemSize]]]

\* What is shown is the target's, when it is shown, from where it was asked for.
FromTarget ==
  /\ DumpC => answer' = MemoryAt(From(asked, dump_addr), DumpSize(asked))
  /\ ExamC /\ Head(app) = "exam_c"
       => answer' = MemoryAt(_get_addr16(regs, asked.loc), ExamSize(asked))
  /\ ExamC /\ Head(app) = "in_c"
       => LET a == _get_port_addr(regs, asked.loc) % MemSize
          IN answer' = [i \in 1..1 |-> [addr |-> a, byte |-> io[a]]]
  /\ DisasmCD => /\ \A i \in 1..da.bc : opbuf.buf[i] = mem[(da.caddr + i - 1) % MemSize]
                 /\ Meant /\ rcv = "disasm_c_d"
  /\ ShowRegs => regs = tregs

\* What is written is what was asked to be, there and nowhere else.
AsAsked ==
  /\ mem' # mem =>
       LET b == LoadBytes(asked)
           place == _get_addr16(regs, asked.loc) % MemSize
           nth(a) == ((a - place) % MemSize) + 1
       IN  mem' = [a \in Addr |-> IF nth(a) <= Len(b) THEN b[nth(a)] ELSE mem[a]]
  /\ io' # io =>
       LET b == OutBytes(asked)
       IN  io' = [io EXCEPT ![_get_port_addr(regs, asked.loc) % MemSize] = b[Len(b)]]

-----------------------------------------------------------------------------
\* A stretch of the address space, and the bytes brought from it

\* A multiple of M that is less than M away from 0 is 0.
LEMMA Multiple ==
  ASSUME NEW M \in Nat \ {0}, NEW d \in Int, NEW r \in Int, M * d = r, -M < r, r < M
  PROVE  d = 0
<1>1. CASE d >= 1
  <2>1. PICK e \in Nat : d = e + 1
    BY <1>1
  <2>2. M * (e + 1) = M * e + M /\ M * e >= 0
    OBVIOUS
  <2> QED BY <2>1, <2>2
<1>2. CASE d <= -1
  <2>1. PICK e \in Nat : d = -(e + 1)
    <3>1. -d - 1 \in Nat /\ d = -((-d - 1) + 1)
      BY <1>2
    <3> QED BY <3>1
  <2>2. M * (-(e + 1)) = -(M * e) - M /\ M * e >= 0
    OBVIOUS
  <2> QED BY <2>1, <2>2
<1> QED BY <1>1, <1>2

\* Whole turns around the memory lead back.
LEMMA Wraps ==
  ASSUME NEW M \in Nat \ {0}, NEW y \in Int, NEW k \in Int
  PROVE  (y + M * k) % M = y % M
<1> DEFINE x == y + M * k
<1>1. x \in Int
  OBVIOUS
<1>2. ASSUME NEW z \in Int PROVE /\ z = M * (z \div M) + (z % M) /\ z \div M \in Int
                                 /\ z % M \in Int /\ 0 <= z % M /\ z % M < M
  OBVIOUS
<1> DEFINE d == (x \div M) - (y \div M) - k
           r == (y % M) - (x % M)
<1>3. /\ x = M * (x \div M) + (x % M) /\ x \div M \in Int /\ x % M \in Int /\ 0 <= x % M /\ x % M < M
      /\ y = M * (y \div M) + (y % M) /\ y \div M \in Int /\ y % M \in Int /\ 0 <= y % M /\ y % M < M
  BY <1>1, <1>2
<1>4. d \in Int /\ r \in Int /\ -M < r /\ r < M
  BY <1>3
<1>5. ASSUME NEW p \in Int, NEW q \in Int, NEW s \in Int PROVE M * (p - q - s) = M * p - M * q - M * s
  OBVIOUS
<1>6. M * d = M * (x \div M) - M * (y \div M) - M * k
  BY <1>3, <1>5
<1>7. M * k = x - y /\ M * k \in Int
  OBVIOUS
<1>8. M * d = r
  BY <1>3, <1>6, <1>7
<1>9. d = 0
  <2> HIDE DEF d, r
  <2> QED BY <1>4, <1>8, Multiple
<1>10. M * 0 = 0
  OBVIOUS
<1> QED BY <1>3, <1>8, <1>9, <1>10

\* An address may be wrapped at once or at the end.
LEMMA Wrapped ==
  ASSUME NEW M \in Nat \ {0}, NEW a \in Int, NEW i \in Int
  PROVE  ((a % M) + i - 1) % M = (a + i - 1) % M
<1> DEFINE k == a \div M
           y == (a % M) + i - 1
<1>1. k \in Int /\ a % M \in Int /\ a = M * k + (a % M) /\ M * k \in Int
  OBVIOUS
<1>2. y \in Int /\ a + i - 1 = y + M * k
  <2> HIDE DEF k
  <2> QED BY <1>1
<1>3. (y + M * k) % M = y % M
  <2> HIDE DEF k, y
  <2> QED BY <1>1, <1>2, Wraps
<1> QED BY <1>2, <1>3

\* With no request, and no message of a completion, there is nothing to keep.
LEMMA IdleAnswers ==
  ASSUME link' = NoReq, app' = <<>> \/ Head(app') \in {"TGTGO", "DMINIT"}
  PROVE  Answers'
<1>1. link'.cmd = "none"
  BY DEF NoReq
<1>2. ~GetIsOut' /\ ~Brought' /\ ~RegsBrought'
  BY <1>1 DEF GetIsOut, Reads, Brought, RegsBrought, Gets, Printers, RegShows
<1> QED BY <1>1, <1>2 DEF Answers, GetOut, GetBrought, Paired, PutOut

\* What the buffer is filled with for a request.
LEMMA FilledIs ==
  ASSUME opbuf \in Buffers, NEW addr, NEW cnt
  PROVE  /\ Filled(addr, cnt).addr = addr % MemSize /\ Filled(addr, cnt).cnt = cnt % Page
         /\ Filled(addr, cnt).buf = opbuf.buf
BY DEF Filled, Buffers

\* A get that is posted for what the user means.
LEMMA GetAnswers ==
  ASSUME IInv, NEW addr, NEW cnt, NEW r,
         \/ r \in {"dump_c", "exam_c", "disasm_c_d"} /\ dm_mem_get(cnt, r)
         \/ r = "in_c" /\ dm_port_get(cnt, r),
         app' = <<>>, opbuf' = Filled(addr, cnt), Whence' = addr, Amount' = cnt, Meant'
  PROVE  Answers'
<1>1. /\ rcv' = r /\ r \in Printers /\ slot' \in Gets
      /\ link'.cmd = IF r = "in_c" THEN "DCGP" ELSE "DCGM"
      /\ link'.recv = cnt /\ link'.at = "posted"
  BY DEF dm_mem_get, dm_port_get, Send, NoReq, Printers, Gets
<1>2. opbuf'.addr = addr % MemSize /\ opbuf'.cnt = cnt % Page
  BY FilledIs DEF IInv
<1>3. GetIsOut' /\ ~Brought' /\ ~RegsBrought'
  BY <1>1 DEF GetIsOut, Reads, Brought, RegsBrought
<1>4. slot' \notin RegShows
  BY <1>1 DEF Gets, RegShows
<1>5. GetOut'
  BY <1>1, <1>2 DEF GetOut
<1> QED BY <1>1, <1>3, <1>4, <1>5 DEF Answers, GetBrought, Paired, PutOut

\* The bytes a disassembly asks for.
LEMMA DisasmAnswers ==
  ASSUME IInv, NEW d, DisasmC(d), app' = <<>>, Meant'
  PROVE  Answers'
<1>1. dm_mem_get(d.bc, "disasm_c_d") /\ opbuf' = Filled(d.caddr, d.bc) /\ da' = d
  BY DEF DisasmC
<1>2. rcv' = "disasm_c_d"
  BY <1>1 DEF dm_mem_get
<1>3. Whence' = d.caddr /\ Amount' = d.bc
  BY <1>1, <1>2 DEF Whence, Amount
<1> QED BY <1>1, <1>3, GetAnswers

\* A request that brings no bytes and takes none.
LEMMA PlainAnswers ==
  ASSUME NEW cmd, NEW recv, Send(cmd, recv), app' = <<>>,
         cmd \in Starting \cup {"DCGREGALL", "DCPREGALL"}, slot' \notin Gets,
         slot' \in RegShows => cmd = "DCGREGALL"
  PROVE  Answers'
<1>1. link'.cmd = cmd
  BY DEF Send, NoReq
<1>2. ~GetIsOut' /\ ~Brought' /\ ~RegsBrought'
  BY <1>1 DEF GetIsOut, Reads, Brought, RegsBrought, Starting
<1> QED BY <1>1, <1>2 DEF Answers, GetOut, GetBrought, Paired, PutOut, Starting

\* A command answered at once leaves nothing to keep.
LEMMA AtOnceAnswers ==
  ASSUME NEW a, AtOnce(a)
  PROVE  Answers'
<1>1. link' = NoReq /\ app' = <<>>
  BY DEF AtOnce, MayAsk
<1> QED BY <1>1, IdleAnswers

\* A command that is refused leaves nothing either.
LEMMA RefuseAnswers ==
  ASSUME NEW c, Refuse(c)
  PROVE  Answers'
BY AtOnceAnswers DEF Refuse, UserSees

\* A dump asks for the place and the count of the command.
LEMMA DumpAnswers ==
  ASSUME IInv, NEW c \in Offers[left], Dump(c)
  PROVE  Answers'
<1> DEFINE addr == From(c, dump_addr)
           v    == Count(c, Page)
           cnt  == IF c.args = <<>> THEN Page
                   ELSE IF c.cmd = "dumpa" THEN v % Page
                   ELSE IF v % (4 * Page) > Page THEN Page ELSE v % (4 * Page)
<1>1. CASE NoValue \in {addr, v}
  <2>1. Refuse(c)
    BY <1>1 DEF Dump
  <2> QED BY <2>1, RefuseAnswers
<1>2. CASE ~(NoValue \in {addr, v})
  <2>1. /\ UserAsks(c)
        /\ opbuf' = Filled(addr, cnt)
        /\ dm_mem_get(cnt, "dump_c")
        /\ vals' = [vals EXCEPT !.addr = addr, !.cnt = cnt]
        /\ UNCHANGED <<app, regs, addrVars>>
        /\ c.cmd \in {"dump", "dumpa"}
    BY <1>2 DEF Dump, ToReceive
  <2>2. asked' = c /\ app' = <<>> /\ rcv' = "dump_c" /\ regs' = regs /\ dump_addr' = dump_addr
    BY <2>1 DEF UserAsks, MayAsk, dm_mem_get, addrVars
  <2>3. From(asked, dump_addr)' = addr
    BY <2>2 DEF From, Value
  <2>4. DumpSize(asked)' = cnt
    BY <2>2 DEF DumpSize, Count, Value
  <2> HIDE DEF addr, v, cnt
  <2>5. vals'.addr = addr /\ vals'.cnt = cnt
    BY <2>1 DEF IInv, Vals
  <2>6. Meant'
    BY <2>1, <2>2, <2>3, <2>4, <2>5 DEF Meant
  <2>7. Whence' = addr /\ Amount' = cnt
    BY <2>2, <2>5 DEF Whence, Amount
  <2> QED BY <2>1, <2>2, <2>6, <2>7, GetAnswers
<1> QED BY <1>1, <1>2

\* An examination of memory asks for its place, one byte or two.
LEMMA ExamineAnswers ==
  ASSUME IInv, NEW c \in Offers[left], Examine(c)
  PROVE  Answers'
<1> DEFINE addr == _get_addr16(regs, c.loc)
           cnt  == IF c.loc.ind = "{" THEN 2 ELSE 1
<1>1. CASE RegOf(c.loc) # NoReg
  <2>1. AtOnce([to |-> c, val |-> getval(regs, RegOf(c.loc))])
    BY <1>1 DEF Examine, UserSees
  <2> QED BY <2>1, AtOnceAnswers
<1>2. CASE RegOf(c.loc) = NoReg /\ addr = NoValue
  BY <1>2, RefuseAnswers DEF Examine
<1>3. CASE RegOf(c.loc) = NoReg /\ addr # NoValue
  <2>1. /\ UserAsks(c) /\ opbuf' = Filled(addr, cnt) /\ dm_mem_get(cnt, "exam_c")
        /\ vals' = [vals EXCEPT !.iaddr = addr, !.ind = cnt]
        /\ UNCHANGED <<app, regs>> /\ c.cmd = "exam"
    BY <1>3 DEF Examine
  <2>2. asked' = c /\ app' = <<>> /\ rcv' = "exam_c" /\ regs' = regs
    BY <2>1 DEF UserAsks, MayAsk, dm_mem_get
  <2>3. _get_addr16(regs, asked.loc)' = addr /\ ExamSize(asked)' = cnt
    BY <2>2 DEF ExamSize
  <2> HIDE DEF addr, cnt
  <2>4. vals'.iaddr = addr /\ vals'.ind = cnt
    BY <2>1 DEF IInv, Vals
  <2>5. Meant'
    BY <2>1, <2>2, <2>3, <2>4 DEF Meant
  <2>6. Whence' = addr /\ Amount' = cnt
    BY <2>2, <2>4 DEF Whence, Amount
  <2> QED BY <2>1, <2>2, <2>5, <2>6, GetAnswers
<1> QED BY <1>1, <1>2, <1>3

\* An input asks for one byte of its port.
LEMMA InputAnswers ==
  ASSUME IInv, NEW c \in Offers[left], Input(c)
  PROVE  Answers'
<1> DEFINE addr == _get_port_addr(regs, c.loc)
<1>1. CASE addr = NoValue
  BY <1>1, RefuseAnswers DEF Input
<1>2. CASE addr # NoValue
  <2>1. /\ UserAsks(c) /\ opbuf' = Filled(addr, 1) /\ dm_port_get(1, "in_c")
        /\ vals' = [vals EXCEPT !.iaddr = addr, !.ind = 1]
        /\ UNCHANGED <<app, regs>> /\ c.cmd = "in"
    BY <1>2 DEF Input
  <2>2. asked' = c /\ app' = <<>> /\ rcv' = "in_c" /\ regs' = regs
    BY <2>1 DEF UserAsks, MayAsk, dm_port_get
  <2>3. _get_port_addr(regs, asked.loc)' = addr
    BY <2>2
  <2> HIDE DEF addr
  <2>4. vals'.iaddr = addr /\ vals'.ind = 1
    BY <2>1 DEF IInv, Vals
  <2>5. Meant'
    BY <2>1, <2>2, <2>3, <2>4 DEF Meant
  <2>6. Whence' = addr /\ Amount' = 1
    BY <2>2, <2>4 DEF Whence, Amount
  <2> QED BY <2>1, <2>2, <2>5, <2>6, GetAnswers
<1> QED BY <1>1, <1>2

\* A disassembly begins at the place it is given.
LEMMA BegunAnswers ==
  ASSUME IInv, NEW addr \in Int, NEW count \in Int, NEW oc \in BOOLEAN, Disasm(addr, count, oc),
         app' = <<>>,
         oc => /\ asked'.cmd = "dasm"
               /\ answer' = <<>> => addr % MemSize = (From(asked, dasm_addr) % MemSize)',
         ~oc => count = 1 /\ addr = getval(regs, regpc)'
  PROVE  Answers'
<1> DEFINE d == [da EXCEPT !.caddr = addr % MemSize, !.stmt_cnt = count, !.oc = oc, !.bc = 1,
                           !.ctx.status = 0]
           d1 == [da EXCEPT !.caddr = addr % MemSize]
           d2 == [d1 EXCEPT !.stmt_cnt = count]
           d3 == [d2 EXCEPT !.oc = oc]
           d4 == [d3 EXCEPT !.bc = 1]
<1>1. DisasmC(d)
  BY DEF Disasm
<1>2. da' = d /\ rcv' = "disasm_c_d"
  BY <1>1 DEF DisasmC, dm_mem_get
<1>3. d = [d4 EXCEPT !.ctx.status = 0]
  OBVIOUS
<1>4. d1.caddr = addr % MemSize /\ DOMAIN d1 = {"ctx", "caddr", "bc", "stmt_cnt", "oc"}
  BY DEF IInv, Disassemblies
<1> HIDE DEF d1
<1>5. d2.caddr = addr % MemSize /\ d2.stmt_cnt = count /\ DOMAIN d2 = DOMAIN d1
  BY <1>4
<1> HIDE DEF d2
<1>6. d3.caddr = addr % MemSize /\ d3.stmt_cnt = count /\ d3.oc = oc /\ DOMAIN d3 = DOMAIN d1
  BY <1>4, <1>5
<1> HIDE DEF d3
<1>7. d4.caddr = addr % MemSize /\ d4.stmt_cnt = count /\ d4.oc = oc
  BY <1>4, <1>6
<1> HIDE DEF d4
<1>8. d.caddr = addr % MemSize /\ d.stmt_cnt = count /\ d.oc = oc
  BY <1>3, <1>7
<1> HIDE DEF d
<1>9. Meant'
  BY <1>2, <1>8 DEF Meant
<1> QED BY <1>1, <1>9, DisasmAnswers

\* The command to disassemble begins where it says, or where the last one ended.
LEMMA DasmAnswers ==
  ASSUME IInv, NEW c \in Offers[left], Dasm(c)
  PROVE  Answers'
<1> DEFINE addr == From(c, dasm_addr)
           cnt  == Count(c, 16)
<1>1. CASE NoValue \in {addr, cnt}
  <2>1. Refuse(c)
    BY <1>1 DEF Dasm
  <2> QED BY <2>1, RefuseAnswers
<1>2. CASE ~(NoValue \in {addr, cnt})
  <2>1. /\ UserAsks(c) /\ Disasm(addr, cnt, TRUE)
        /\ UNCHANGED <<app, regs, addrVars>> /\ c.cmd = "dasm"
    BY <1>2 DEF Dasm
  <2>2. asked' = c /\ app' = <<>> /\ regs' = regs /\ dasm_addr' = dasm_addr /\ MayAsk
    BY <2>1 DEF UserAsks, MayAsk, addrVars
  <2>3. From(asked, dasm_addr)' = addr
    BY <2>2 DEF From, Value
  <2>4. addr \in Int /\ cnt \in Int
    <3>1. c.loc \in Tokens /\ c.args \in Seq(Tokens)
      BY <2>2, OfferTyped
    <3>2. regs \in RegBuf /\ dasm_addr \in Int /\ 16 \in Int
      BY Bounds DEF IInv, Addr
    <3> QED BY <3>1, <3>2, ArgumentsTyped
  <2> HIDE DEF addr, cnt
  <2> QED BY <2>1, <2>2, <2>3, <2>4, BegunAnswers
<1> QED BY <1>1, <1>2

\* The display of the registers begins a disassembly at the program counter.
LEMMA CpuAnswers ==
  ASSUME IInv, NEW c \in Offers[left], Cpu(c)
  PROVE  Answers'
<1>1. /\ MayAsk /\ Disasm(getval(regs, regpc), 1, FALSE) /\ UNCHANGED <<app, regs>>
  BY DEF Cpu
<1>2. getval(regs, regpc) \in Int /\ app' = <<>>
  BY <1>1, PcTyped DEF IInv, MayAsk
<1>3. getval(regs, regpc) = getval(regs, regpc)'
  BY <1>1
<1> DEFINE pc == getval(regs, regpc)
<1>4. pc \in Int /\ Disasm(pc, 1, FALSE) /\ pc = getval(regs, regpc)'
  BY <1>1, <1>2, <1>3
<1>5. FALSE \in BOOLEAN /\ 1 \in Int
  OBVIOUS
<1> HIDE DEF pc
<1> QED BY <1>2, <1>4, <1>5, BegunAnswers

\* A list that is not empty gives at least one byte.
LEMMA BytesAtLeastOne ==
  ASSUME NEW args \in Seq(Tokens), args # <<>>, NEW sz \in {RS_BYTE, RS_WORD}
  PROVE  1 \in DOMAIN Bytes(args, sz)
<1> DEFINE n == sz \div 8
           all == n * Len(args)
<1>1. n \in {1, 2}
  BY DEF RS_BYTE, RS_WORD
<1>2. Len(args) \in Nat /\ Len(args) # 0
  OBVIOUS
<1>3. all \in Nat /\ all >= 1
  BY <1>1, <1>2
<1>4. Page \in Nat /\ 2 <= Page
  BY Bounds
<1>5. DOMAIN Bytes(args, sz) = 1..(IF all > Page THEN Page ELSE all)
  BY DEF Bytes
<1> QED BY <1>3, <1>4, <1>5

\* When all values fit, what is written is what was given.
LEMMA WrittenIs ==
  ASSUME NEW k \in 0..Page, NEW b \in [1..k -> Byte \cup {NoValue}],
         \A i \in 1..k : b[i] # NoValue
  PROVE  \A i \in 1..k : Written(b)[i] = b[i]
<1>1. {i \in DOMAIN b : b[i] = NoValue} = {} /\ Len(b) = k /\ k \in Nat /\ k <= Page /\ Page \in Nat
  BY Bounds
<1>2. Written(b) = [i \in 1..Page |-> IF i <= k THEN b[i] ELSE opbuf.buf[i]]
  BY <1>1 DEF Written
<1> QED BY <1>1, <1>2

\* Bytes that are put are those that were given, at the place that was.
LEMMA PutAnswers ==
  ASSUME IInv, NEW c \in Offers[left], NEW cmd \in {"DCPM", "DCPP"}, NEW addr \in Int,
         NEW k \in 1..Page, NEW b \in [1..k -> Byte \cup {NoValue}],
         Put(c, cmd, addr, b), slot = NONE,
         asked' = c /\ regs' = regs =>
           /\ cmd = "DCPM" => _get_addr16(regs, asked.loc)' = addr /\ LoadBytes(asked)' = b
           /\ cmd = "DCPP" => _get_port_addr(regs, asked.loc)' = addr /\ OutBytes(asked)' = b
  PROVE  Answers'
<1>1. CASE addr = NoValue
  BY <1>1, RefuseAnswers DEF Put
<1>2. CASE addr # NoValue /\ \E i \in DOMAIN b : b[i] = NoValue
  <2>1. AtOnce([to |-> c, val |-> NoValue])
    BY <1>2 DEF Put, UserSees
  <2> QED BY <2>1, AtOnceAnswers
<1>3. CASE addr # NoValue /\ ~\E i \in DOMAIN b : b[i] = NoValue
  <2>1. /\ UserAsks(c) /\ opbuf' = [Filled(addr, Len(b)) EXCEPT !.buf = Written(b)]
        /\ Send(cmd, 0) /\ UNCHANGED <<app, regs, slotVars>>
    BY <1>3, Zenon DEF Put
  <2>2. /\ app' = <<>> /\ asked' = c /\ regs' = regs /\ slot' = NONE /\ link'.cmd = cmd
    BY <2>1 DEF UserAsks, MayAsk, slotVars, Send, NoReq
  <2>3. Page \in Nat /\ 2 <= Page /\ k \in Nat /\ 1 <= k /\ k <= Page /\ Len(b) = k
    BY Bounds
  <2>4. Whole(k % Page) = k
    <3>1. CASE k = Page
      BY <2>3, <3>1 DEF Whole
    <3>2. CASE k # Page
      BY <2>3, <3>2 DEF Whole
    <3> QED BY <3>1, <3>2
  <2>5. /\ opbuf'.addr = addr % MemSize /\ opbuf'.cnt = k % Page /\ opbuf'.buf = Written(b)
    <3> DEFINE f == Filled(addr, Len(b))
    <3>1. f.addr = addr % MemSize /\ f.cnt = k % Page /\ DOMAIN f = {"addr", "cnt", "buf"}
      BY <2>3 DEF IInv, Filled, Buffers
    <3>2. opbuf' = [f EXCEPT !.buf = Written(b)]
      BY <2>1
    <3> HIDE DEF f
    <3> QED BY <3>1, <3>2
  <2>6. \A i \in 1..k : Written(b)[i] = b[i]
    <3>1. \A i \in 1..k : b[i] # NoValue
      BY <1>3
    <3>2. k \in 0..Page
      BY <2>3
    <3> QED BY <3>1, <3>2, WrittenIs
  <2>7. BytesOut(b)'
    BY <2>3, <2>4, <2>5, <2>6 DEF BytesOut, Whole
  <2>8. PutOut'
    <3>1. CASE cmd = "DCPM"
      <4>1. LoadBytes(asked)' = b /\ _get_addr16(regs, asked.loc)' = addr
        BY <2>2, <3>1
      <4>2. BytesOut(LoadBytes(asked))'
        BY <2>7, <4>1 DEF BytesOut
      <4> QED BY <2>2, <2>5, <3>1, <4>1, <4>2 DEF PutOut
    <3>2. CASE cmd = "DCPP"
      <4>1. OutBytes(asked)' = b /\ _get_port_addr(regs, asked.loc)' = addr
        BY <2>2, <3>2
      <4>2. BytesOut(OutBytes(asked))'
        BY <2>7, <4>1 DEF BytesOut
      <4> QED BY <2>2, <2>5, <3>2, <4>1, <4>2 DEF PutOut
    <3> QED BY <3>1, <3>2
  <2>9. ~GetIsOut' /\ ~Brought' /\ ~RegsBrought'
    BY <2>2 DEF GetIsOut, Reads, Brought, RegsBrought
  <2>10. slot' \notin Gets /\ slot' \notin RegShows
    BY <2>2 DEF NONE, Gets, RegShows
  <2> QED BY <2>8, <2>9, <2>10 DEF Answers, GetOut, GetBrought, Paired
<1> QED BY <1>1, <1>2, <1>3

\* A load of memory puts its values where the command says.
LEMMA LoadAnswers ==
  ASSUME IInv, NEW c \in Offers[left], Load(c), slot = NONE
  PROVE  Answers'
<1>1. CASE RegOf(c.loc) # NoReg
  <2>1. LoadReg(c, RegOf(c.loc))
    BY <1>1 DEF Load
  <2>2. Refuse(c) \/ UserSees(c, Printed)
    BY <2>1 DEF LoadReg
  <2> QED BY <2>2, RefuseAnswers, AtOnceAnswers DEF UserSees
<1>2. CASE RegOf(c.loc) = NoReg
  <2> DEFINE addr == _get_addr16(regs, c.loc)
             sz == IF c.loc.ind = "{" THEN RS_WORD ELSE RS_BYTE
             b == Bytes(c.args, sz)
  <2>1. Put(c, "DCPM", addr, b) /\ c.cmd = "load"
    BY <1>2 DEF Load
  <2>2. CASE addr = NoValue
    BY <2>1, <2>2, RefuseAnswers DEF Put
  <2>3. CASE addr # NoValue
    <3>1. MayAsk
      BY <2>1, <2>3 DEF Put, UserSees, AtOnce, UserAsks
    <3>2. c.loc \in Tokens /\ c.args \in Seq(Tokens) /\ regs \in RegBuf /\ c.args # <<>>
      BY <2>1, <3>1, OfferTyped DEF IInv
    <3>3. addr \in Int /\ sz \in {RS_BYTE, RS_WORD}
      BY <3>2, ValueTyped
    <3>4. asked' = c /\ regs' = regs =>
            _get_addr16(regs, asked.loc)' = addr /\ LoadBytes(asked)' = b
      BY DEF LoadBytes, Bytes, Value
    <3> HIDE DEF addr, sz
    <3>5. PICK k \in 0..Page : b \in [1..k -> Byte \cup {NoValue}]
      BY <3>2, <3>3, BytesTyped
    <3>6. k \in 1..Page
      <4>1. 1 \in DOMAIN b
        BY <3>2, <3>3, BytesAtLeastOne
      <4> HIDE DEF b
      <4> QED BY <3>5, <4>1
    <3> HIDE DEF b
    <3> QED BY <2>1, <3>3, <3>4, <3>5, <3>6, PutAnswers
  <2> QED BY <2>2, <2>3
<1> QED BY <1>1, <1>2

\* An output puts its values to the port the command says.
LEMMA OutputAnswers ==
  ASSUME IInv, NEW c \in Offers[left], Output(c), slot = NONE
  PROVE  Answers'
<1> DEFINE addr == _get_port_addr(regs, c.loc)
           b == Bytes(c.args, RS_BYTE)
<1>1. Put(c, "DCPP", addr, b) /\ c.cmd = "out"
  BY DEF Output
<1>2. CASE addr = NoValue
  BY <1>1, <1>2, RefuseAnswers DEF Put
<1>3. CASE addr # NoValue
  <2>1. MayAsk
    BY <1>1, <1>3 DEF Put, UserSees, AtOnce, UserAsks
  <2>2. c.loc \in Tokens /\ c.args \in Seq(Tokens) /\ regs \in RegBuf /\ c.args # <<>>
    BY <1>1, <2>1, OfferTyped DEF IInv
  <2>3. addr \in Int
    BY <2>2, ValueTyped
  <2>4. asked' = c /\ regs' = regs =>
          _get_port_addr(regs, asked.loc)' = addr /\ OutBytes(asked)' = b
    BY DEF OutBytes, Bytes, Value
  <2> HIDE DEF addr
  <2>5. PICK k \in 0..Page : b \in [1..k -> Byte \cup {NoValue}]
    BY <2>2, BytesTyped
  <2>6. k \in 1..Page
    <3>1. 1 \in DOMAIN b
      BY <2>2, BytesAtLeastOne
    <3> HIDE DEF b
    <3> QED BY <2>5, <3>1
  <2> HIDE DEF b
  <2> QED BY <1>1, <2>3, <2>4, <2>5, <2>6, PutAnswers
<1> QED BY <1>2, <1>3

\* Every command the user may give.
LEMMA UserAnswers ==
  ASSUME IInv, Turn, User
  PROVE  Answers'
<1>0. PICK c \in Offers[left] :
        \/ Dump(c) \/ Examine(c) \/ Input(c) \/ Load(c) \/ Output(c) \/ IncDec(c) \/ Dasm(c)
        \/ GetRegs(c) \/ PutRegs(c) \/ Go(c) \/ Cpu(c)
        \/ Calculate(c)
  BY DEF User
<1>1. slot = NONE /\ app' = <<>>
  BY UserRequested DEF Requested
<1>2. CASE GetRegs(c)
  <2>1. Send("DCGREGALL", 0) /\ slot' = "getregs"
    BY <1>2 DEF GetRegs, dm_getallreg
  <2> QED BY <1>1, <2>1, PlainAnswers DEF Gets
<1>3. CASE PutRegs(c)
  <2>1. Send("DCPREGALL", 0) /\ slot' = "putregs"
    BY <1>3 DEF PutRegs
  <2> QED BY <1>1, <2>1, PlainAnswers DEF Gets, RegShows
<1>4. CASE Go(c)
  <2>1. CASE Refuse(c)
    BY <2>1, RefuseAnswers
  <2>2. CASE ~Refuse(c)
    <3> DEFINE cmd == CASE c.cmd = "step" /\ c.loc = Here -> "DCSTEP"
                        [] c.cmd = "step"                 -> "DCSTEPWREG"
                        [] c.loc = Here                   -> "DCGO"
                        [] OTHER                          -> "DCGOWREG"
    <3>1. slot' = NONE /\ Send(cmd, 0)
      BY <1>4, <2>2, Zenon DEF Go
    <3>2. cmd \in Starting
      BY DEF Starting
    <3> HIDE DEF cmd
    <3>3. slot' \notin Gets /\ slot' \notin RegShows
      BY <3>1 DEF NONE, Gets, RegShows
    <3> QED BY <1>1, <3>1, <3>2, <3>3, PlainAnswers
  <2> QED BY <2>1, <2>2
<1>5. CASE Calculate(c)
  BY <1>5, AtOnceAnswers DEF Calculate
<1>6. CASE IncDec(c)
  <2>1. CASE Refuse(c)
    BY <2>1, RefuseAnswers
  <2>2. CASE ~Refuse(c)
    <3>1. AtOnce([to |-> c, val |-> getval(regs', RegOf(c.loc))])
      BY <1>6, <2>2 DEF IncDec, UserSees
    <3> QED BY <3>1, AtOnceAnswers
  <2> QED BY <2>1, <2>2
<1> QED BY <1>0, <1>1, <1>2, <1>3, <1>4, <1>5, <1>6, DumpAnswers, ExamineAnswers,
           InputAnswers, LoadAnswers, OutputAnswers, DasmAnswers, CpuAnswers

\* The message that is handled is the only one, but for that of a start.
LEMMA OnlyMessage ==
  ASSUME IInv, Turn, app # <<>>, Head(app) # "TGTGO"
  PROVE  Tail(app) = <<>> /\ link = NoReq /\ (Head(app) # "CMDDONE" => slot = NONE)
<1>1. app \in Seq(Messages(rcv)) /\ Len(app) <= 1
  <2>1. app # <<"TGTGO", "DMINIT">>
    BY Pair
  <2> QED BY <2>1 DEF Turn, IInv
<1> QED BY <1>1, Alone, MessageWaits

\* What is meant stays so while the command is under way.
LEMMA MeantSame ==
  ASSUME Meant, UNCHANGED <<rcv, vals, regs, da, answer, addrVars>>,
         asked' = asked \/ (asked.cmd \in {"load", "out"} /\ rcv \in Printers)
  PROVE  Meant'
<1>1. CASE asked' = asked
  BY <1>1 DEF Meant, addrVars, DumpSize, Count, Value, From, ExamSize
<1>2. CASE asked' # asked
  <2>1. rcv = "disasm_c_d" /\ ~da.oc
    BY <1>2 DEF Meant, Printers
  <2> QED BY <2>1 DEF Meant, addrVars
<1> QED BY <1>1, <1>2

\* The end of a request: its completion is posted, for the same bytes.
LEMMA CmdDoneAnswers ==
  ASSUME IInv, Turn, Answers, CmdDone
  PROVE  Answers'
<1>1. /\ app # <<>> /\ Head(app) = "CMDDONE" /\ slot' = NONE
      /\ app' = Tail(app) \o IF slot = NONE THEN <<>> ELSE <<slot>>
      /\ asked' = IF asked.cmd \in {"load", "out"} THEN NoCmd ELSE asked
      /\ UNCHANGED <<targetVars, link, opbuf, regs, rcv, vals, da, addrVars, answer>>
  BY DEF CmdDone, Taken
<1>2. Tail(app) = <<>> /\ link' = NoReq
  BY <1>1, OnlyMessage
<1>3. CASE slot = NONE
  <2>1. app' = <<>>
    BY <1>1, <1>2, <1>3, Short
  <2> QED BY <1>2, <2>1, IdleAnswers
<1>4. CASE slot # NONE
  <2>1. app' = <<slot>> /\ app' # <<>> /\ Head(app') = slot
    <3>1. ASSUME NEW m PROVE Head(<<m>>) = m
      OBVIOUS
    <3>2. app' = <<slot>>
      BY <1>1, <1>2, <1>4, Short
    <3> QED BY <3>1, <3>2, Short
  <2>2. slot \in Completions \cup Gets
    BY <1>4 DEF IInv, Slots
  <2>3. link'.cmd = "none"
    BY <1>2 DEF NoReq
  <2>4. Brought' => slot \in Gets
    BY <2>1, <2>2 DEF Brought, Completions, Gets, Printers
  <2>5. slot \in Gets => Brought
    BY <1>1 DEF Brought
  <2>6. GetBrought'
    <3> SUFFICES ASSUME Brought' PROVE GetBrought'
      BY DEF GetBrought
    <3>1. slot \in Gets /\ Brought
      BY <2>4, <2>5
    <3>2. rcv \in Printers /\ \A i \in 1..Amount : opbuf.buf[i] = Source(i)
      BY <3>1 DEF Answers, GetBrought
    <3>3. Head(app') \notin Printers
      BY <2>1, <3>1 DEF Gets, Printers
    <3>4. Amount' = Amount /\ \A i : Source(i)' = Source(i)
      BY <1>1 DEF Amount, Source, Whence, targetVars
    <3> QED BY <1>1, <3>2, <3>3, <3>4 DEF GetBrought
  <2>7. Brought' => Meant'
    <3> SUFFICES ASSUME Brought' PROVE Meant'
      OBVIOUS
    <3>1. Brought
      BY <2>4, <2>5
    <3>2. Meant /\ rcv \in Printers
      BY <3>1 DEF Answers, GetBrought
    <3> QED BY <1>1, <3>2, MeantSame
  <2>8. RegsBrought' => regs' = tregs'
    <3> SUFFICES ASSUME RegsBrought' PROVE regs' = tregs'
      OBVIOUS
    <3>1. slot \in RegShows
      BY <2>1, <2>2 DEF RegsBrought, Completions, Gets, RegShows
    <3>2. RegsBrought
      BY <1>1, <3>1 DEF RegsBrought
    <3> QED BY <1>1, <3>2 DEF Answers, targetVars
  <2> QED BY <1>2, <2>3, <2>6, <2>7, <2>8 DEF Answers, GetOut, GetIsOut, Reads, Paired, PutOut
<1> QED BY <1>3, <1>4

\* The end of a get posts the printer that was set for it.
LEMMA MgetDoneAnswers ==
  ASSUME IInv, Turn, Answers, MgetDone
  PROVE  Answers'
<1>1. /\ app # <<>> /\ Head(app) \in Gets /\ slot' = NONE
      /\ app' = Append(Tail(app), rcv)
      /\ UNCHANGED <<targetVars, link, opbuf, regs, rcv, vals, da, addrVars, asked, answer>>
  BY DEF MgetDone, Taken, Gets, histVars
<1>2. Tail(app) = <<>> /\ link' = NoReq
  BY <1>1, OnlyMessage DEF Gets
<1>3. app' = <<rcv>> /\ app' # <<>> /\ Head(app') = rcv
  <2>1. ASSUME NEW m PROVE Head(<<m>>) = m
    OBVIOUS
  <2>2. app' = <<rcv>>
    BY <1>1, <1>2, Short
  <2> QED BY <2>1, <2>2, Short
<1>4. Brought
  BY <1>1 DEF Brought
<1>5. rcv \in Printers /\ \A i \in 1..Amount : opbuf.buf[i] = Source(i)
  BY <1>4 DEF Answers, GetBrought
<1>6. GetBrought'
  <2>1. Amount' = Amount /\ \A i : Source(i)' = Source(i)
    BY <1>1 DEF Amount, Source, Whence, targetVars
  <2> QED BY <1>1, <1>3, <1>5, <2>1 DEF GetBrought
<1>7. Meant'
  BY <1>1, <1>4, MeantSame DEF Answers
<1>8. ~RegsBrought'
  BY <1>3, <1>5 DEF RegsBrought, RegShows, Printers
<1>9. link'.cmd = "none"
  BY <1>2 DEF NoReq
<1> QED BY <1>2, <1>6, <1>7, <1>8, <1>9 DEF Answers, GetOut, GetIsOut, Reads, Paired, PutOut

\* The message of a start leaves at most the one that the target has stopped.
LEMMA TargetStartedAnswers ==
  ASSUME IInv, Turn, TargetStarted
  PROVE  Answers'
<1>1. /\ app # <<>> /\ Head(app) = "TGTGO" /\ app' = Tail(app) /\ link' = link
  BY DEF TargetStarted, Arrives
<1>2. link' = NoReq
  BY <1>1, MessageWaits
<1>3. CASE Len(app) <= 1
  <2>1. app' = <<>>
    BY <1>1, <1>3, Alone DEF IInv
  <2> QED BY <1>2, <2>1, IdleAnswers
<1>4. CASE ~(Len(app) <= 1)
  <2>1. app = <<"TGTGO", "DMINIT">>
    BY <1>4 DEF Turn
  <2>2. Head(app') = "DMINIT"
    BY <1>1, <2>1, Pair
  <2> QED BY <1>2, <2>2, IdleAnswers
<1> QED BY <1>3, <1>4

\* The display of the registers begins a disassembly.
LEMMA ShowRegsAnswers ==
  ASSUME IInv, Turn, ShowRegs
  PROVE  Answers'
<1>1. Arrives("getregs") /\ Disasm(getval(regs, regpc), 1, FALSE) /\ regs' = regs
  BY DEF ShowRegs
<1>2. app' = <<>>
  BY <1>1, ArrivesAlone
<1> DEFINE pc == getval(regs, regpc)
<1>3. pc \in Int
  BY PcTyped DEF IInv
<1>4. Disasm(pc, 1, FALSE) /\ pc = getval(regs, regpc)'
  BY <1>1
<1>5. FALSE \in BOOLEAN /\ 1 \in Int
  OBVIOUS
<1> HIDE DEF pc
<1> QED BY <1>2, <1>3, <1>4, <1>5, BegunAnswers

\* A disassembly goes on where its last byte was, for the same command.
LEMMA DisasmCDAnswers ==
  ASSUME IInv, Turn, Answers, DisasmCD
  PROVE  Answers'
<1> DEFINE c == Fed.ctx
           d == [da EXCEPT !.ctx = c, !.caddr = (@ + Fed.used) % MemSize,
                           !.stmt_cnt = IF c.status = 0 THEN @ - 1 ELSE @]
           a == Shown(c, Fed.df)
<1>1. /\ Arrives("disasm_c_d")
      /\ answer' = IF c.status > 0 THEN answer ELSE Append(answer, a)
      /\ IF More(c)
           THEN /\ DisasmC([d EXCEPT !.bc = Wanted(c)])
                /\ UNCHANGED <<dasm_addr, prompten, asked>>
           ELSE UNCHANGED <<link, opbuf, slotVars>>
      /\ UNCHANGED <<targetVars, regs, vals, dump_addr, calc, left>>
  BY DEF DisasmCD
<1>2. app' = <<>> /\ link = NoReq /\ app # <<>> /\ Head(app) = "disasm_c_d"
  <2>1. app # <<>> /\ Head(app) = "disasm_c_d"
    BY <1>1 DEF Arrives
  <2> QED BY <1>1, <2>1, ArrivesAlone, MessageWaits
<1>3. CASE ~More(c)
  BY <1>1, <1>2, <1>3, IdleAnswers
<1>4. CASE More(c)
  <2> DEFINE e == [d EXCEPT !.bc = Wanted(c)]
             d1 == [da EXCEPT !.ctx = c]
             d2 == [d1 EXCEPT !.caddr = (@ + Fed.used) % MemSize]
  <2>1. Brought
    BY <1>2 DEF Brought, Printers
  <2>2. Meant /\ rcv = "disasm_c_d"
    BY <1>2, <2>1 DEF Answers, GetBrought, Printers
  <2>3. e.ctx = c /\ e.oc = da.oc /\ e.stmt_cnt = IF c.status = 0 THEN da.stmt_cnt - 1 ELSE da.stmt_cnt
    <3> DEFINE n == IF c.status = 0 THEN da.stmt_cnt - 1 ELSE da.stmt_cnt
    <3>1. e = [[d2 EXCEPT !.stmt_cnt = IF c.status = 0 THEN @ - 1 ELSE @] EXCEPT !.bc = Wanted(c)]
      OBVIOUS
    <3>2. d1.ctx = c /\ d1.oc = da.oc /\ d1.stmt_cnt = da.stmt_cnt /\ DOMAIN d1 = {"ctx", "caddr", "bc", "stmt_cnt", "oc"}
      BY DEF IInv, Disassemblies
    <3> HIDE DEF d1, c
    <3>3. d2.ctx = c /\ d2.oc = da.oc /\ d2.stmt_cnt = da.stmt_cnt /\ DOMAIN d2 = {"ctx", "caddr", "bc", "stmt_cnt", "oc"}
      BY <3>2
    <3> HIDE DEF d2
    <3> DEFINE d3 == [d2 EXCEPT !.stmt_cnt = IF c.status = 0 THEN @ - 1 ELSE @]
    <3>4. d3.ctx = c /\ d3.oc = da.oc /\ d3.stmt_cnt = n /\ DOMAIN d3 = {"ctx", "caddr", "bc", "stmt_cnt", "oc"}
      BY <3>3
    <3> HIDE DEF e
    <3>5. e = [d3 EXCEPT !.bc = Wanted(c)]
      BY <3>1
    <3> HIDE DEF d3
    <3> QED BY <3>4, <3>5
  <2>4. DisasmC(e) /\ asked' = asked
    BY <1>1, <1>4
  <2> HIDE DEF e, d, c
  <2>5. da' = e /\ rcv' = "disasm_c_d"
    BY <2>4 DEF DisasmC, dm_mem_get
  <2>6. c.status = 0 => answer' # <<>>
    <3>1. c.status = 0 => ~(c.status > 0)
      OBVIOUS
    <3>2. ASSUME answer' = Append(answer, a) PROVE answer' # <<>>
      BY <3>2
    <3> HIDE DEF a
    <3> QED BY <1>1, <3>1, <3>2
  <2>7. da.oc => asked.cmd = "dasm"
    BY <2>2 DEF Meant
  <2>8. ~da.oc => c.status > 0 /\ da.stmt_cnt = 1
    BY <1>4, <2>2 DEF Meant, More
  <2>9. c.status > 0 => c.status # 0
    OBVIOUS
  <2>10. Meant'
    BY <2>3, <2>4, <2>5, <2>6, <2>7, <2>8, <2>9 DEF Meant
  <2> QED BY <1>2, <2>4, <2>10, DisasmAnswers
<1> QED BY <1>3, <1>4

\* Every message core 1 handles.
LEMMA Core1Answers ==
  ASSUME IInv, Turn, Answers, Core1
  PROVE  Answers'
<1>1. CASE DumpC \/ ExamC \/ PutRegsDone \/ TargetStopped
  <2>1. PICK m : Arrives(m) /\ m # "TGTGO" /\ link' = link
    BY <1>1 DEF DumpC, ExamC, PutRegsDone, TargetStopped
  <2>2. app # <<>>
    BY <2>1 DEF Arrives
  <2> QED BY <2>1, <2>2, ArrivesAlone, MessageWaits, IdleAnswers
<1> QED BY <1>1, CmdDoneAnswers, MgetDoneAnswers, TargetStartedAnswers, ShowRegsAnswers,
           DisasmCDAnswers DEF Core1

\* The monitor reads a request: what it is for stays as it is.
LEMMA ToldAnswers ==
  ASSUME IInv, Turn, Answers, Told
  PROVE  Answers'
<1>1. /\ link.at = "posted"
      /\ link' = [link EXCEPT !.at = "told", !.addr = opbuf.addr, !.cnt = opbuf.cnt]
      /\ link.cmd # "DCPM" => mem' = mem
      /\ link.cmd # "DCPP" => io' = io
      /\ UNCHANGED <<opbuf, slot, rcv, vals, da, addrVars, asked, answer, app, regs>>
  BY DEF Told, dcVars, slotVars, histVars
<1>2. link # NoReq
  BY <1>1 DEF NoReq
<1>3. app' = <<>>
  BY <1>1, <1>2 DEF Turn
<1>4. /\ link'.cmd = link.cmd /\ link'.recv = link.recv
      /\ link'.addr = opbuf.addr /\ link'.cnt = opbuf.cnt
  <2>1. link \in Requests
    BY DEF IInv, LinkOK
  <2> QED BY <1>1, <2>1 DEF Requests
<1>5. ~Brought' /\ ~RegsBrought'
  BY <1>3 DEF Brought, RegsBrought
<1>6. GetIsOut' = GetIsOut
  BY <1>4 DEF GetIsOut
<1>7. GetOut'
  BY <1>1, <1>4, <1>6 DEF Answers, GetOut, Amount, Whence
<1>8. GetIsOut' => Meant'
  <2>1. GetIsOut => Meant
    BY DEF Answers
  <2> QED BY <1>1, <1>6, <2>1, MeantSame
<1>9. Paired'
  BY <1>1, <1>2, <1>4, <1>6 DEF Answers, Paired
<1>10. PutOut'
  <2>1. LoadBytes(asked)' = LoadBytes(asked) /\ OutBytes(asked)' = OutBytes(asked)
    BY <1>1 DEF LoadBytes, OutBytes, Bytes, Value
  <2> QED BY <1>1, <1>4, <2>1 DEF Answers, PutOut, BytesOut
<1> QED BY <1>5, <1>7, <1>8, <1>9, <1>10 DEF Answers, GetBrought

\* The bytes that come are those of the place that was asked for, and as many.
LEMMA SentAre ==
  ASSUME IInv, Answers, Reports, GetIsOut
  PROVE  \A i \in 1..Amount : opbuf'.buf[i] = Source(i)
<1> DEFINE n == Whole(link.cnt)
           sent(i) == IF link.cmd = "DCGP" THEN io[link.addr]
                      ELSE mem[(link.addr + i - 1) % MemSize]
<1>1. /\ link.at = "told" /\ link.recv = n
      /\ opbuf' = [opbuf EXCEPT !.buf = [i \in 1..Page |-> IF i <= n THEN sent(i) ELSE @[i]]]
  BY DEF Reports, GetIsOut, Reads
<1>2. /\ rcv \in Printers /\ (link.cmd = "DCGP" <=> rcv = "in_c") /\ link.recv = Amount
      /\ link.addr = Whence % MemSize
  BY <1>1 DEF Answers, GetOut
<1>3. link.cnt \in PageCnt
  BY DEF IInv, LinkOK, Requests
<1>4. n \in 1..Page
  BY <1>3, WholeTyped
<1>5. Page \in Nat /\ MemSize \in Nat \ {0}
  <2>1. MemSize \in Nat /\ Page \in Nat /\ 2 <= Page /\ Page <= MemSize
    BY Bounds
  <2> QED BY <2>1
<1>6. Whence \in Int
  BY DEF Whence, IInv, Vals, Numbers, Disassemblies, Addr
<1>7. ASSUME NEW i \in 1..Amount PROVE opbuf'.buf[i] = Source(i)
  <2>1. i \in 1..Page /\ i <= n /\ i \in Int
    BY <1>1, <1>2, <1>4, <1>5
  <2>2. opbuf'.buf[i] = sent(i)
    <3> DEFINE b == [j \in 1..Page |-> IF j <= n THEN sent(j) ELSE opbuf.buf[j]]
    <3>1. opbuf' = [opbuf EXCEPT !.buf = b]
      BY <1>1
    <3>2. b[i] = sent(i)
      BY <2>1
    <3> HIDE DEF b
    <3>3. opbuf'.buf = b
      BY <3>1 DEF IInv, Buffers
    <3> QED BY <3>2, <3>3
  <2>3. ((Whence % MemSize) + i - 1) % MemSize = (Whence + i - 1) % MemSize
    BY <1>5, <1>6, <2>1, Wrapped
  <2> HIDE DEF n
  <2> QED BY <1>2, <2>2, <2>3 DEF Source
<1> QED BY <1>7

\* The monitor reports: what was asked for is in the buffer.
LEMMA ReportsAnswers ==
  ASSUME IInv, Turn, Answers, Reports
  PROVE  Answers'
<1>1. /\ link.at = "told" /\ link' = NoReq /\ app' = Append(app, "CMDDONE")
      /\ regs' = IF link.cmd = "DCGREGALL" THEN tregs ELSE regs
      /\ UNCHANGED <<mem, io, tregs, slot, rcv, vals, da, addrVars, asked, answer>>
  BY DEF Reports, targetVars, slotVars, histVars
<1>2. link # NoReq
  BY <1>1 DEF NoReq
<1>3. app' = <<"CMDDONE">> /\ app' # <<>> /\ Head(app') = "CMDDONE"
  <2>1. app = <<>>
    BY <1>2 DEF Turn
  <2>2. Head(<<"CMDDONE">>) = "CMDDONE"
    OBVIOUS
  <2> QED BY <1>1, <2>1, <2>2, Short
<1>4. link'.cmd = "none"
  BY <1>1 DEF NoReq
<1>5. (slot \in Gets <=> GetIsOut) /\ (slot \in RegShows => link.cmd = "DCGREGALL")
  BY <1>2 DEF Answers, Paired
<1>6. Brought' => GetIsOut
  BY <1>1, <1>3, <1>5 DEF Brought, Gets, Printers
<1>7. RegsBrought' => regs' = tregs'
  <2>1. RegsBrought' => slot \in RegShows
    BY <1>1, <1>3 DEF RegsBrought, RegShows
  <2> QED BY <1>1, <1>5, <2>1
<1>8. GetBrought'
  <2> SUFFICES ASSUME Brought' PROVE GetBrought'
    BY DEF GetBrought
  <2>1. GetIsOut
    BY <1>6
  <2>2. rcv \in Printers
    BY <2>1 DEF Answers, GetOut
  <2>3. Amount' = Amount /\ \A i : Source(i)' = Source(i)
    BY <1>1 DEF Amount, Source, Whence
  <2>4. Head(app') \notin Printers
    BY <1>3 DEF Printers
  <2> QED BY <1>1, <2>1, <2>2, <2>3, <2>4, SentAre DEF GetBrought
<1>9. Brought' => Meant'
  <2> SUFFICES ASSUME Brought' PROVE Meant'
    OBVIOUS
  <2>1. Meant /\ link.cmd # "DCGREGALL"
    BY <1>6 DEF Answers, GetIsOut, Reads
  <2> QED BY <1>1, <2>1, MeantSame
<1> QED BY <1>1, <1>4, <1>7, <1>8, <1>9 DEF Answers, GetOut, GetIsOut, Reads, Paired, PutOut

\* The target starts: nothing is under way.
LEMMA StartedAnswers ==
  ASSUME Turn, ToldToStart
  PROVE  Answers'
<1>1. link' = NoReq /\ app' = Append(app, "TGTGO") /\ link.at = "posted"
  BY DEF ToldToStart
<1>2. app = <<>>
  BY <1>1 DEF Turn, NoReq
<1>3. Head(app') = "TGTGO"
  <2>1. Head(<<"TGTGO">>) = "TGTGO"
    OBVIOUS
  <2> QED BY <1>1, <1>2, <2>1, Short
<1> QED BY <1>1, <1>3, IdleAnswers

\* The target stops: there is no request, and no completion to come.
LEMMA StoppedAnswers ==
  ASSUME Turn, StepEnds \/ GoEnds
  PROVE  Answers'
<1>1. tgt # "held" /\ app' = Append(app, "DMINIT") /\ link' = link
  BY DEF StepEnds, GoEnds, Stopped
<1>2. link' = NoReq /\ app \in {<<>>, <<"TGTGO">>}
  BY <1>1 DEF Turn
<1>3. Head(app') \in {"TGTGO", "DMINIT"}
  <2>1. CASE app = <<>>
    <3>1. Head(<<"DMINIT">>) = "DMINIT"
      OBVIOUS
    <3> QED BY <1>1, <2>1, <3>1, Short
  <2>2. CASE app = <<"TGTGO">>
    <3>1. Append(<<"TGTGO">>, "DMINIT") = <<"TGTGO", "DMINIT">>
      BY GoneAndStopped, Zenon
    <3> QED BY <1>1, <2>2, <3>1, Pair
  <2> QED BY <1>2, <2>1, <2>2
<1> QED BY <1>2, <1>3, IdleAnswers

\* Nothing is under way at the start.
LEMMA AnswersInit == Init => Answers
<1> SUFFICES ASSUME Init PROVE Answers
  OBVIOUS
<1>1. link = NoReq /\ app = <<>> /\ link.cmd = "none"
  BY DEF Init, NoReq
<1> QED BY <1>1 DEF Answers, GetOut, GetBrought, GetIsOut, Reads, Brought, RegsBrought, Paired, PutOut

\* Every step keeps what is asked for and what has come together.
LEMMA AnswersStep == IInv /\ Turn /\ Answers /\ [Next]_vars => Answers'
<1> SUFFICES ASSUME IInv, Turn, Answers, [Next]_vars PROVE Answers'
  OBVIOUS
<1>1. CASE UNCHANGED vars
  <2>1. UNCHANGED <<mem, io, tregs, link, app, opbuf, regs, slot, rcv, vals, da, dasm_addr,
                    dump_addr, asked, answer>>
    BY <1>1 DEF vars, targetVars, slotVars, addrVars, histVars
  <2>2. Meant => Meant'
    BY <2>1, MeantSame DEF addrVars
  <2>3. Amount' = Amount /\ Whence' = Whence /\ \A i : Source(i)' = Source(i)
    BY <2>1 DEF Amount, Source, Whence
  <2>4. LoadBytes(asked)' = LoadBytes(asked) /\ OutBytes(asked)' = OutBytes(asked)
    BY <2>1 DEF LoadBytes, OutBytes, Bytes, Value
  <2>5. GetOut' /\ GetBrought'
    BY <2>1, <2>3 DEF Answers, GetOut, GetBrought, GetIsOut, Brought
  <2>6. PutOut' /\ Paired'
    BY <2>1, <2>4 DEF Answers, PutOut, BytesOut, Paired, GetIsOut
  <2>7. (GetIsOut' = GetIsOut) /\ (Brought' = Brought) /\ (RegsBrought' = RegsBrought)
    BY <2>1 DEF GetIsOut, Brought, RegsBrought
  <2> QED BY <2>1, <2>2, <2>5, <2>6, <2>7 DEF Answers
<1> QED BY <1>1, UserAnswers, Core1Answers, ToldAnswers, StartedAnswers, ReportsAnswers,
           StoppedAnswers DEF Next, Monitor

\* What the two theorems rest on.
LEMMA SpecAnswers == Spec => [](IInv /\ Turn /\ Answers)
<1>1. Spec => []IInv
  BY SpecIInv
<1>2. Spec => []Turn
  BY RequestsInTurn
<1> QED BY <1>1, <1>2, AnswersInit, AnswersStep, PTL DEF Spec

\* What is shown comes from the target.
LEMMA FromTargetStep == IInv /\ Turn /\ Answers /\ [Next]_vars => FromTarget
<1> SUFFICES ASSUME IInv, Turn, Answers PROVE FromTarget
  OBVIOUS
<1>0. ASSUME NEW m \in Printers, Arrives(m)
      PROVE  /\ Brought /\ Meant /\ rcv = m
             /\ \A i \in 1..Amount : opbuf.buf[i] = Source(i)
  <2>1. Brought /\ Head(app) = m
    BY <1>0 DEF Brought, Arrives
  <2> QED BY <2>1 DEF Answers, GetBrought
<1>1. ASSUME DumpC
      PROVE  answer' = MemoryAt(From(asked, dump_addr), DumpSize(asked))
  <2>1. Arrives("dump_c") /\ answer' = Cells(vals.addr, vals.cnt) /\ "dump_c" \in Printers
    BY <1>1 DEF DumpC, Prints, Printers
  <2>2. Meant /\ rcv = "dump_c" /\ \A i \in 1..Amount : opbuf.buf[i] = Source(i)
    BY <1>0, <2>1
  <2>3. vals.addr = From(asked, dump_addr) /\ vals.cnt = DumpSize(asked)
    BY <2>2 DEF Meant
  <2>4. Amount = vals.cnt /\ \A i : Source(i) = mem[(vals.addr + i - 1) % MemSize]
    BY <2>2 DEF Amount, Source, Whence
  <2>5. Cells(vals.addr, vals.cnt) = MemoryAt(vals.addr, vals.cnt)
    BY <2>2, <2>4 DEF Cells, MemoryAt
  <2> QED BY <2>1, <2>3, <2>5
<1>2. ASSUME ExamC, Head(app) = "exam_c"
      PROVE  answer' = MemoryAt(_get_addr16(regs, asked.loc), ExamSize(asked))
  <2>1. Arrives("exam_c") /\ answer' = Cells(vals.iaddr, vals.ind) /\ "exam_c" \in Printers
    BY <1>2 DEF ExamC, Prints, Printers, Arrives
  <2>2. Meant /\ rcv = "exam_c" /\ \A i \in 1..Amount : opbuf.buf[i] = Source(i)
    BY <1>0, <2>1
  <2>3. vals.iaddr = _get_addr16(regs, asked.loc) /\ vals.ind = ExamSize(asked)
    BY <2>2 DEF Meant
  <2>4. Amount = vals.ind /\ \A i : Source(i) = mem[(vals.iaddr + i - 1) % MemSize]
    BY <2>2 DEF Amount, Source, Whence
  <2>5. Cells(vals.iaddr, vals.ind) = MemoryAt(vals.iaddr, vals.ind)
    BY <2>2, <2>4 DEF Cells, MemoryAt
  <2> QED BY <2>1, <2>3, <2>5
<1>3. ASSUME ExamC, Head(app) = "in_c"
      PROVE  LET a == _get_port_addr(regs, asked.loc) % MemSize
             IN  answer' = [i \in 1..1 |-> [addr |-> a, byte |-> io[a]]]
  <2>1. Arrives("in_c") /\ answer' = Cells(vals.iaddr, vals.ind) /\ "in_c" \in Printers
    BY <1>3 DEF ExamC, Prints, Printers, Arrives
  <2>2. Meant /\ rcv = "in_c" /\ \A i \in 1..Amount : opbuf.buf[i] = Source(i)
    BY <1>0, <2>1
  <2>3. vals.iaddr = _get_port_addr(regs, asked.loc) /\ vals.ind = 1
    BY <2>2 DEF Meant
  <2>4. Amount = 1 /\ \A i : Source(i) = io[vals.iaddr % MemSize]
    BY <2>2, <2>3 DEF Amount, Source, Whence
  <2>5. vals.iaddr \in Int
    BY DEF IInv, Vals, Numbers
  <2>6. ASSUME NEW i \in 1..1 PROVE vals.iaddr + i - 1 = vals.iaddr /\ i = 1
    BY <2>5, <2>6
  <2>7. Cells(vals.iaddr, 1) =
          [i \in 1..1 |-> [addr |-> vals.iaddr % MemSize, byte |-> io[vals.iaddr % MemSize]]]
    BY <2>2, <2>4, <2>6 DEF Cells
  <2> QED BY <2>1, <2>3, <2>7
<1>4. ASSUME DisasmCD
      PROVE  /\ \A i \in 1..da.bc : opbuf.buf[i] = mem[(da.caddr + i - 1) % MemSize]
             /\ Meant /\ rcv = "disasm_c_d"
  <2>1. Arrives("disasm_c_d") /\ "disasm_c_d" \in Printers
    BY <1>4 DEF DisasmCD, Printers
  <2>2. Meant /\ rcv = "disasm_c_d" /\ \A i \in 1..Amount : opbuf.buf[i] = Source(i)
    BY <1>0, <2>1
  <2>3. Amount = da.bc /\ \A i : Source(i) = mem[(da.caddr + i - 1) % MemSize]
    BY <2>2 DEF Amount, Source, Whence
  <2> QED BY <2>2, <2>3
<1>5. ASSUME ShowRegs PROVE regs = tregs
  <2>1. Arrives("getregs")
    BY <1>5 DEF ShowRegs
  <2>2. RegsBrought
    BY <2>1 DEF RegsBrought, RegShows, Arrives
  <2> QED BY <2>2 DEF Answers
<1> QED BY <1>1, <1>2, <1>3, <1>4, <1>5 DEF FromTarget

\* A command of the user's writes nothing itself.
LEMMA UserLeaves == User => UNCHANGED <<mem, io>>
<1> SUFFICES ASSUME NEW c,
                    \/ Dump(c) \/ Examine(c) \/ Input(c) \/ Load(c) \/ Output(c) \/ IncDec(c)
                    \/ Dasm(c) \/ GetRegs(c) \/ PutRegs(c) \/ Go(c) \/ Cpu(c)
                    \/ Calculate(c)
             PROVE  UNCHANGED targetVars
  BY DEF User, targetVars
<1>1. ASSUME NEW a, AtOnce(a) PROVE UNCHANGED targetVars
  BY <1>1 DEF AtOnce
<1>2. ASSUME NEW k, Refuse(k) PROVE UNCHANGED targetVars
  BY <1>1, <1>2 DEF Refuse, UserSees
<1>3. ASSUME NEW k, NEW v, UserSees(k, v) PROVE UNCHANGED targetVars
  BY <1>1, <1>3 DEF UserSees
<1>4. ASSUME NEW k, NEW cmd, NEW addr, NEW b, Put(k, cmd, addr, b) PROVE UNCHANGED targetVars
  BY <1>2, <1>3, <1>4, Zenon DEF Put
<1>5. CASE Dump(c)
  BY <1>2, <1>5, Zenon DEF Dump
<1>6. CASE Examine(c)
  BY <1>2, <1>3, <1>6, Zenon DEF Examine
<1>7. CASE Input(c)
  BY <1>2, <1>7, Zenon DEF Input
<1>8. CASE Load(c)
  <2>1. LoadReg(c, RegOf(c.loc)) => UNCHANGED targetVars
    BY <1>2, <1>3, Zenon DEF LoadReg
  <2> QED BY <1>4, <1>8, <2>1, Zenon DEF Load
<1>9. CASE Output(c)
  BY <1>4, <1>9, Zenon DEF Output
<1>10. CASE IncDec(c)
  BY <1>2, <1>3, <1>10, Zenon DEF IncDec
<1>11. CASE Dasm(c)
  BY <1>2, <1>11, Zenon DEF Dasm
<1>12. CASE Go(c)
  BY <1>2, <1>12, Zenon DEF Go
<1>13. CASE Cpu(c)
  BY <1>1, <1>13, Zenon DEF Cpu
<1>14. CASE Calculate(c)
  BY <1>1, <1>14 DEF Calculate
<1>15. CASE GetRegs(c) \/ PutRegs(c)
  BY <1>15 DEF GetRegs, PutRegs
<1> QED BY <1>5, <1>6, <1>7, <1>8, <1>9, <1>10, <1>11, <1>12, <1>13, <1>14, <1>15

\* What is written is as it was asked.
LEMMA AsAskedStep == IInv /\ Turn /\ Answers /\ [Next]_vars => AsAsked
<1> SUFFICES ASSUME IInv, Turn, Answers, [Next]_vars PROVE AsAsked
  OBVIOUS
<1>1. CASE UNCHANGED <<mem, io>>
  BY <1>1 DEF AsAsked
<1>2. CASE Told
  <2> DEFINE i(a) == ((a - opbuf.addr) % MemSize) + 1
             n == Whole(opbuf.cnt)
  <2>1. /\ mem' = IF link.cmd # "DCPM" THEN mem
                  ELSE [a \in Addr |-> IF i(a) <= n THEN opbuf.buf[i(a)] ELSE mem[a]]
        /\ io' = IF link.cmd # "DCPP" THEN io ELSE [io EXCEPT ![opbuf.addr] = opbuf.buf[n]]
    BY <1>2 DEF Told
  <2>2. PutOut
    BY DEF Answers
  <2>3. MemSize \in Nat \ {0} /\ Page \in Nat /\ opbuf.addr \in Int
    <3>1. MemSize \in Nat /\ Page \in Nat /\ 2 <= Page /\ Page <= MemSize
      BY Bounds
    <3> QED BY <3>1 DEF IInv, Buffers, Addr
  <2>4. ASSUME mem' # mem
        PROVE  LET b == LoadBytes(asked)
                   place == _get_addr16(regs, asked.loc) % MemSize
                   nth(a) == ((a - place) % MemSize) + 1
               IN  mem' = [a \in Addr |-> IF nth(a) <= Len(b) THEN b[nth(a)] ELSE mem[a]]
    <3> DEFINE b == LoadBytes(asked)
               place == _get_addr16(regs, asked.loc) % MemSize
    <3>1. link.cmd = "DCPM"
      BY <2>1, <2>4
    <3>2. opbuf.addr = place /\ n = Len(b) /\ Len(b) \in 1..Page
          /\ \A j \in 1..Len(b) : opbuf.buf[j] = b[j]
      BY <2>2, <3>1 DEF PutOut, BytesOut
    <3> HIDE DEF b, place, n
    <3>3. ASSUME NEW a \in Addr, i(a) <= n PROVE opbuf.buf[i(a)] = b[i(a)]
      <4>1. a - opbuf.addr \in Int
        BY <2>3, <3>3 DEF Addr
      <4>2. ASSUME NEW x \in Int, NEW m \in Nat \ {0} PROVE (x % m) + 1 \in Nat /\ 1 <= (x % m) + 1
        OBVIOUS
      <4>3. i(a) \in Nat /\ 1 <= i(a)
        BY <2>3, <4>1, <4>2
      <4> HIDE DEF i
      <4>4. i(a) \in 1..Len(b)
        BY <2>3, <3>2, <3>3, <4>3
      <4> QED BY <3>2, <4>4
    <3>4. mem' = [a \in Addr |-> IF i(a) <= n THEN opbuf.buf[i(a)] ELSE mem[a]]
      BY <2>1, <3>1
    <3>5. mem' = [a \in Addr |-> IF i(a) <= Len(b) THEN b[i(a)] ELSE mem[a]]
      <4> HIDE DEF i
      <4> QED BY <3>2, <3>3, <3>4
    <3> QED BY <3>2, <3>5 DEF b, place
  <2>5. ASSUME io' # io
        PROVE  LET b == OutBytes(asked)
               IN  io' = [io EXCEPT ![_get_port_addr(regs, asked.loc) % MemSize] = b[Len(b)]]
    <3> DEFINE b == OutBytes(asked)
    <3>1. link.cmd = "DCPP"
      BY <2>1, <2>5
    <3>2. opbuf.addr = _get_port_addr(regs, asked.loc) % MemSize /\ n = Len(b)
          /\ Len(b) \in 1..Page /\ \A j \in 1..Len(b) : opbuf.buf[j] = b[j]
      BY <2>2, <3>1 DEF PutOut, BytesOut
    <3> HIDE DEF b, n
    <3>3. opbuf.buf[n] = b[Len(b)]
      <4>1. Len(b) \in 1..Len(b)
        BY <2>3, <3>2
      <4> QED BY <3>2, <4>1
    <3> QED BY <2>1, <3>1, <3>2, <3>3 DEF b
  <2> QED BY <2>4, <2>5 DEF AsAsked
<1>3. ~Told => UNCHANGED <<mem, io>>
  <2>1. UNCHANGED vars => UNCHANGED <<mem, io>>
    BY DEF vars, targetVars
  <2>2. Core1 => UNCHANGED <<mem, io>>
    BY DEF Core1, CmdDone, MgetDone, DumpC, ExamC, PutRegsDone, ShowRegs, DisasmCD, TargetStopped,
           TargetStarted, targetVars
  <2>3. ToldToStart \/ Reports \/ StepEnds \/ GoEnds => UNCHANGED <<mem, io>>
    BY DEF ToldToStart, Reports, StepEnds, GoEnds, Stopped, targetVars
  <2>4. User => UNCHANGED <<mem, io>>
    BY UserLeaves
  <2> QED BY <2>1, <2>2, <2>3, <2>4 DEF Next, Monitor
<1> QED BY <1>1, <1>2, <1>3

\* What a dump, an examination, an input, a disassembly and a display of the registers
\* show is the target's memory, port and registers when it is shown, from the place
\* and in the amount the user has asked for (a disassembly begins at that place), though
\* the bytes come through one buffer, one count and one slot, several messages later (cmds.c:237-343, 836-1128).
THEOREM AnswersFromTarget == Spec => [][FromTarget]_vars
BY SpecAnswers, FromTargetStep, PTL DEF Spec

\* Memory and ports change only as the command under way has asked: its values, low
\* byte first for words, at its place, wrapping at the end of memory, and nothing
\* beside them (cmds.c:1299-1420, dbmon.z80:798-822).
THEOREM WrittenAsAsked == Spec => [][AsAsked]_vars
BY SpecAnswers, AsAskedStep, PTL DEF Spec
=============================================================================

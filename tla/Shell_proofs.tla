---------------------------- MODULE Shell_proofs ----------------------------
(***************************************************************************)
(* Proofs about the line that Shell collects.  Its buffer ends in a NUL    *)
(* and every index stays in its array, for any keys, any sizes of ring,    *)
(* line and history, and however the interrupt and core 1 interleave.      *)
(* And for a patient user it implements LineEdit: neither the history that *)
(* wraps nor what is left in the line buffer shows in a line executed.     *)
(***************************************************************************)
EXTENDS Shell, WellFoundedInduction, TLAPS

-----------------------------------------------------------------------------
(* The line buffer of the shell *)

\* The characters of the line, and the history beside it.
LineOK ==
  /\ buf \in [0..MaxLen - 1 -> Text \cup {NUL}] /\ idx \in 0..MaxLen - 1
  /\ BufferTerminated
HistoryOK ==
  /\ hist \in [0..HistLines - 1 -> Lines] /\ tmp \in Lines
  /\ cmd_ndx \in 0..HistLines - 1 /\ hist_ndx \in 0..HistLines - 1
EditOK ==
  /\ LineOK /\ HistoryOK
  /\ at \in {"getc", "hook", "idle", "exec", "reset", "fault"}

\* What the interrupt has seen when it began: a place in the ring and, while
\* it runs, no other notification.
Room ==
  /\ isr.at = "store" => Len(ring) < RingSize - 1
  /\ isr.at # "idle" => posted < MaxPosted

IInv == TypeOK /\ BufferTerminated /\ Room

-----------------------------------------------------------------------------
(* The least number of a set. *)

\* A relation that is < on the numbers has a least number where it has a
\* minimal one.
LEMMA LeastOf ==
  ASSUME NEW T \in SUBSET Nat, NEW R,
         \E n \in T : \A m \in T : ~(<<m, n>> \in R),
         \A m, n \in Nat : <<m, n>> \in R <=> m < n
  PROVE  \E n \in T : \A m \in T : n <= m
<1>1. PICK n \in T : \A m \in T : ~(<<m, n>> \in R)
  OBVIOUS
<1>2. \A m \in T : ~(m < n)
  BY <1>1, Zenon
<1>3. \A m \in T : n <= m
  BY <1>2
<1> QED BY <1>3

\* Every set of numbers that is not empty has a least one.
LEMMA LeastNat ==
  ASSUME NEW T \in SUBSET Nat, T # {}
  PROVE  \E n \in T : \A m \in T : n <= m
<1> DEFINE R == OpToRel(<, Nat)
<1>1. \E n \in T : \A m \in T : ~(<<m, n>> \in R)
  BY NatLessThanWellFounded, WFMin, Zenon
<1>2. \A m, n \in Nat : <<m, n>> \in R <=> m < n
  BY Zenon DEF OpToRel
<1> HIDE DEF R
<1> QED BY <1>1, <1>2, LeastOf

-----------------------------------------------------------------------------
(* Strings in arrays. *)

\* A line is shorter than the buffer, which has room for the NUL behind it.
LEMMA LineLen ==
  ASSUME NEW s \in Lines
  PROVE  Len(s) \in 0..MaxLen - 1 /\ s \in [1..Len(s) -> Text]
<1>1. PICK n \in 0..MaxLen - 1 : s \in [1..n -> Text]
  BY DEF Lines
<1>2. Len(s) = n
  BY <1>1
<1> QED BY <1>1, <1>2

LEMMA EmptyLine == <<>> \in Lines
<1>1. <<>> \in [1..0 -> Text]
  OBVIOUS
<1>2. 0 \in 0..MaxLen - 1
  BY ShellAssumption
<1> QED BY <1>1, <1>2 DEF Lines

\* The string in an array that ends in a NUL is a line.
LEMMA StringIsLine ==
  ASSUME NEW b \in [0..MaxLen - 1 -> Text \cup {NUL}], b[MaxLen - 1] = NUL
  PROVE  String(b) \in Lines
<1> DEFINE Q(n) == /\ n = MaxLen \/ b[n] = NUL
                   /\ \A i \in 0..n - 1 : b[i] # NUL
           m == CHOOSE n \in 0..MaxLen : Q(n)
           T == {n \in 0..MaxLen - 1 : b[n] = NUL}
<1>1. MaxLen \in Nat \ {0}
  BY ShellAssumption
<1>2. T \in SUBSET Nat /\ T # {}
  BY <1>1
<1>3. PICK n \in T : \A k \in T : n <= k
  <2> HIDE DEF T
  <2> QED BY <1>2, LeastNat
<1>4. n \in 0..MaxLen /\ Q(n)
  BY <1>1, <1>3
<1>5. m \in 0..MaxLen /\ Q(m)
  <2> HIDE DEF Q
  <2> QED BY <1>4
<1> HIDE DEF m
<1>6. m \in 0..MaxLen - 1
  <2> SUFFICES ASSUME m = MaxLen PROVE FALSE
    BY <1>1, <1>5
  <2>1. MaxLen - 1 \in 0..m - 1
    BY <1>1
  <2> QED BY <2>1, <1>5
<1>7. \A i \in 1..m : b[i - 1] \in Text
  <2> TAKE i \in 1..m
  <2>1. i - 1 \in 0..m - 1 /\ i - 1 \in 0..MaxLen - 1
    BY <1>1, <1>6
  <2> QED BY <2>1, <1>5
<1>8. [i \in 1..m |-> b[i - 1]] \in [1..m -> Text]
  BY <1>7
<1>9. String(b) = [i \in 1..m |-> b[i - 1]]
  BY DEF String, m
<1> QED BY <1>6, <1>8, <1>9 DEF Lines

\* A line copied into an array that ends in a NUL leaves it so.
LEMMA CopyTerminated ==
  ASSUME NEW b \in [0..MaxLen - 1 -> Text \cup {NUL}], b[MaxLen - 1] = NUL,
         NEW s \in Lines
  PROVE  /\ Strcpy(b, s) \in [0..MaxLen - 1 -> Text \cup {NUL}]
         /\ Strcpy(b, s)[MaxLen - 1] = NUL
<1>1. MaxLen \in Nat \ {0}
  BY ShellAssumption
<1>2. Len(s) \in 0..MaxLen - 1 /\ s \in [1..Len(s) -> Text]
  BY LineLen
<1> DEFINE c(i) == IF i < Len(s) THEN s[i + 1] ELSE IF i = Len(s) THEN NUL ELSE b[i]
<1>3. \A i \in 0..MaxLen - 1 : c(i) \in Text \cup {NUL}
  <2> TAKE i \in 0..MaxLen - 1
  <2>1. CASE i < Len(s)
    <3>1. i + 1 \in 1..Len(s)
      BY <2>1, <1>2
    <3>2. s[i + 1] \in Text
      BY <3>1, <1>2
    <3> QED BY <2>1, <3>2
  <2>2. CASE ~(i < Len(s))
    BY <2>2
  <2> QED BY <2>1, <2>2
<1>4. MaxLen - 1 \in 0..MaxLen - 1 /\ c(MaxLen - 1) = NUL
  BY <1>1, <1>2
<1>5. Strcpy(b, s) = [i \in 0..MaxLen - 1 |-> c(i)]
  BY DEF Strcpy
<1> HIDE DEF c
<1> QED BY <1>3, <1>4, <1>5

-----------------------------------------------------------------------------
(* The keys. *)

\* An index into the history wraps.
LEMMA Wraps ==
  ASSUME NEW n \in Int
  PROVE  n % HistLines \in 0..HistLines - 1
BY ShellAssumption

LEMMA ReplaceOK ==
  ASSUME LineOK, NEW s \in Lines, Replace(s)
  PROVE  LineOK'
<1>1. Len(s) \in 0..MaxLen - 1
  BY LineLen
<1> QED BY <1>1, CopyTerminated DEF LineOK, Replace, BufferTerminated

LEMMA RecallPriorOK ==
  ASSUME EditOK, RecallPrior
  PROVE  EditOK'
<1> DEFINE p == Prior(hist_ndx)
<1>1. p \in 0..HistLines - 1
  BY Wraps DEF Prior, EditOK, HistoryOK
<1>2. hist[p] \in Lines /\ String(buf) \in Lines
  BY <1>1, StringIsLine DEF EditOK, LineOK, HistoryOK, BufferTerminated
<1>3. tmp' \in Lines
  BY <1>2 DEF RecallPrior, EditOK, HistoryOK
<1>4. LineOK' /\ hist_ndx' \in 0..HistLines - 1
  <2>1. CASE p # cmd_ndx /\ hist[p] # <<>>
    BY <2>1, <1>1, <1>2, ReplaceOK DEF RecallPrior, EditOK
  <2>2. CASE ~(p # cmd_ndx /\ hist[p] # <<>>)
    BY <2>2 DEF RecallPrior, EditOK, LineOK, HistoryOK, lineVars, BufferTerminated
  <2> QED BY <2>1, <2>2
<1> QED BY <1>3, <1>4 DEF RecallPrior, EditOK, HistoryOK

LEMMA RecallNextOK ==
  ASSUME EditOK, RecallNext
  PROVE  EditOK'
<1> DEFINE n == (hist_ndx + 1) % HistLines
<1>1. n \in 0..HistLines - 1
  BY Wraps DEF EditOK, HistoryOK
<1>2. (IF n = cmd_ndx THEN tmp ELSE hist[n]) \in Lines
  BY <1>1 DEF EditOK, HistoryOK
<1>3. LineOK' /\ hist_ndx' \in 0..HistLines - 1
  <2>1. CASE hist_ndx = cmd_ndx
    BY <2>1 DEF RecallNext, EditOK, LineOK, HistoryOK, lineVars, BufferTerminated
  <2>2. CASE hist_ndx # cmd_ndx
    BY <2>2, <1>1, <1>2, ReplaceOK DEF RecallNext, EditOK
  <2> QED BY <2>1, <2>2
<1> QED BY <1>3 DEF RecallNext, EditOK, HistoryOK

\* A character is only stored below the last place.
LEMMA InsertOK ==
  ASSUME EditOK, NEW k \in Text, Insert(k)
  PROVE  EditOK'
<1>1. MaxLen \in Nat \ {0}
  BY ShellAssumption
<1>2. LineOK'
  BY <1>1 DEF Insert, EditOK, LineOK, lineVars, BufferTerminated
<1> QED BY <1>2 DEF Insert, EditOK, HistoryOK, histVars

LEMMA BackspaceOK ==
  ASSUME EditOK, Backspace
  PROVE  EditOK'
<1>1. MaxLen \in Nat \ {0}
  BY ShellAssumption
<1>2. Max0(idx - 1) \in 0..MaxLen - 1
  BY <1>1 DEF Max0, EditOK, LineOK
<1>3. LineOK'
  BY <1>1, <1>2 DEF Backspace, EditOK, LineOK, BufferTerminated
<1> QED BY <1>3 DEF Backspace, EditOK, HistoryOK, histVars

LEMMA EraseOK ==
  ASSUME EditOK, Erase
  PROVE  EditOK'
<1>1. MaxLen \in Nat \ {0}
  BY ShellAssumption
<1>2. LineOK'
  BY <1>1 DEF Erase, EditOK, LineOK, BufferTerminated
<1> QED BY <1>2 DEF Erase, EditOK, HistoryOK, histVars

LEMMA EndLineOK ==
  ASSUME EditOK, EndLine
  PROVE  EditOK'
<1> DEFINE b == [buf EXCEPT ![idx] = NUL]
           line == String(b)
           n == IF line # hist[Prior(cmd_ndx)] THEN (cmd_ndx + 1) % HistLines ELSE cmd_ndx
<1>1. MaxLen \in Nat \ {0}
  BY ShellAssumption
<1>2. b \in [0..MaxLen - 1 -> Text \cup {NUL}] /\ b[MaxLen - 1] = NUL
  BY <1>1 DEF EditOK, LineOK, BufferTerminated
<1>3. line \in Lines
  BY <1>2, StringIsLine
<1>4. n \in 0..HistLines - 1
  BY Wraps DEF EditOK, HistoryOK
<1>5. LineOK'
  BY <1>2 DEF EndLine, EditOK, LineOK, BufferTerminated
<1>6. HistoryOK'
  <2>1. CASE line = <<>>
    BY <2>1 DEF EndLine, EditOK, HistoryOK, histVars
  <2>2. CASE line # <<>>
    <3> HIDE DEF b
    <3>1. /\ hist' = IF line # hist[Prior(cmd_ndx)] THEN [hist EXCEPT ![cmd_ndx] = line]
                     ELSE hist
          /\ cmd_ndx' = n /\ hist_ndx' = n /\ tmp' = <<>>
      BY <2>2 DEF EndLine, b
    <3> HIDE DEF line, n
    <3> QED BY <3>1, <1>3, <1>4, EmptyLine DEF EditOK, HistoryOK
  <2> QED BY <2>1, <2>2
<1> QED BY <1>5, <1>6 DEF EndLine, EditOK

\* What a character does that is not a control key's.
LEMMA PrintableOK ==
  ASSUME EditOK, NEW k \in Keys, Printable(k)
  PROVE  EditOK'
<1>1. CASE k \in Text
  <2>1. Insert(k)
    BY <1>1, ShellAssumption DEF Printable
  <2> QED BY <2>1, <1>1, InsertOK
<1>2. CASE k \notin Text /\ k = "PRIOR"
  <2>1. RecallPrior
    BY <1>2 DEF Printable
  <2> QED BY <2>1, RecallPriorOK
<1>3. CASE k \notin Text /\ k = "NEXT"
  <2>1. RecallNext
    BY <1>3 DEF Printable
  <2> QED BY <2>1, RecallNextOK
<1>4. CASE k \notin Text /\ k = "REINIT"
  <2>1. at' = "reset" /\ UNCHANGED <<lineVars, histVars>>
    BY <1>4 DEF Printable
  <2> QED BY <2>1 DEF EditOK, LineOK, HistoryOK, lineVars, histVars, BufferTerminated
<1>5. CASE k \notin Text /\ k = "DEL"
  <2>1. at' \in {at, "fault"} /\ UNCHANGED <<lineVars, histVars>>
    BY <1>5 DEF Printable
  <2> QED BY <2>1 DEF EditOK, LineOK, HistoryOK, lineVars, histVars, BufferTerminated
<1>6. CASE k \notin Text \cup {"PRIOR", "NEXT", "REINIT", "DEL"}
  <2>1. UNCHANGED <<at, lineVars, histVars>>
    BY <1>6 DEF Printable
  <2> QED BY <2>1 DEF EditOK, LineOK, HistoryOK, lineVars, histVars, BufferTerminated
<1> QED BY <1>1, <1>2, <1>3, <1>4, <1>5, <1>6

\* A key behind ESC, and any other.
LEMMA InSequenceOK ==
  ASSUME EditOK, NEW k \in Keys, InSequence(k)
  PROVE  EditOK' /\ esc' \in -1..1
<1>1. CASE esc = 0 /\ k = "["
  <2>1. esc' = 1 /\ UNCHANGED <<at, lineVars, histVars>>
    BY <1>1 DEF InSequence
  <2> QED BY <2>1 DEF EditOK, LineOK, HistoryOK, lineVars, histVars, BufferTerminated
<1>2. CASE esc = 1 /\ k = "A"
  <2>1. esc' = -1 /\ RecallPrior
    BY <1>2 DEF InSequence
  <2> QED BY <2>1, RecallPriorOK
<1>3. CASE esc = 1 /\ k = "B"
  <2>1. esc' = -1 /\ RecallNext
    BY <1>3 DEF InSequence
  <2> QED BY <2>1, RecallNextOK
<1>4. CASE ~(esc = 0 /\ k = "[") /\ ~(esc = 1 /\ k = "A") /\ ~(esc = 1 /\ k = "B")
  <2>1. esc' = -1 /\ Printable(k)
    BY <1>4 DEF InSequence
  <2> QED BY <2>1, PrintableOK
<1> QED BY <1>1, <1>2, <1>3, <1>4

LEMMA PlainOK ==
  ASSUME EditOK, esc \in -1..1, NEW k \in Keys, Plain(k)
  PROVE  EditOK' /\ esc' \in -1..1
<1>1. esc' \in -1..1
  BY DEF Plain
<1>2. CASE k = "EOL"
  <2>1. EndLine
    BY <1>2 DEF Plain
  <2> QED BY <2>1, <1>1, EndLineOK
<1>3. CASE k \in {"BS", "DEL"}
  <2>1. Backspace
    BY <1>3 DEF Plain
  <2> QED BY <2>1, <1>1, BackspaceOK
<1>4. CASE k = "CLEAR"
  <2>1. Erase
    BY <1>4 DEF Plain
  <2> QED BY <2>1, <1>1, EraseOK
<1>5. CASE k = "ESC"
  <2>1. UNCHANGED <<at, lineVars, histVars>>
    BY <1>5 DEF Plain
  <2> QED
    BY <2>1, <1>1 DEF EditOK, LineOK, HistoryOK, lineVars, histVars, BufferTerminated
<1>6. CASE k \notin {"EOL", "BS", "DEL", "CLEAR", "ESC"}
  <2>1. Printable(k)
    BY <1>6 DEF Plain
  <2> QED BY <2>1, <1>1, PrintableOK
<1> QED BY <1>2, <1>3, <1>4, <1>5, <1>6

-----------------------------------------------------------------------------
(* The invariant. *)

LEMMA InitInv == Init => IInv
<1> SUFFICES ASSUME Init PROVE IInv
  OBVIOUS
<1>1. LineOK
  BY ShellAssumption DEF Init, LineOK, BufferTerminated
<1>2. HistoryOK
  BY ShellAssumption, EmptyLine DEF Init, HistoryOK
<1>3. ring \in Seq(Keys) /\ Len(ring) < RingSize /\ stack \in Seq({"eol", "welcome"})
  BY ShellAssumption DEF Init
<1>4. isr \in [at : {"idle", "store", "more", "notify"}, cleared : BOOLEAN]
  BY DEF Init
<1>5. /\ keys \in 0..MaxKeys /\ posted \in 0..MaxPosted /\ esc \in -1..1
      /\ at \in {"getc", "hook", "idle", "exec", "reset", "fault"}
  <2>1. keys = 0 /\ posted = 0 /\ esc = -1 /\ at = "getc"
    BY DEF Init
  <2> QED BY <2>1, ShellAssumption
<1>6. did \in {<<>>} \cup {<<l>> : l \in Lines}
  BY DEF Init
<1>7. hook \in BOOLEAN /\ handler \in BOOLEAN /\ welcomed \in BOOLEAN
  BY Zenon DEF Init
<1>8. TypeOK
  BY <1>1, <1>2, <1>3, <1>4, <1>5, <1>6, <1>7 DEF TypeOK, LineOK, HistoryOK
<1> QED BY <1>1, <1>8 DEF IInv, Room, LineOK, Init

\* A step of the interrupt: it stores where it saw a place, and notifies once.
LEMMA InterruptInv ==
  ASSUME IInv, Interrupt
  PROVE  IInv'
<1>0. /\ RingSize \in Nat \ {0, 1} /\ MaxPosted \in Nat \ {0} /\ MaxKeys \in Nat
      /\ TypeOK /\ BufferTerminated /\ Room
  BY ShellAssumption DEF IInv
<1>1. CASE Read
  <2>1. /\ Len(ring) \in Nat /\ Len(ring) < RingSize /\ ring \in Seq(Keys)
        /\ keys' \in 0..MaxKeys /\ posted < MaxPosted
        /\ isr' \in [at : {"store", "more"}, cleared : {FALSE}]
        /\ isr'.at = "store" => Len(ring) < RingSize - 1
    <3>1. /\ ring \in Seq(Keys) /\ Len(ring) \in Nat /\ Len(ring) < RingSize
          /\ posted \in Nat /\ keys \in Nat
      BY <1>0 DEF TypeOK
    <3>2. /\ isr.at = "more" \/ (isr.at = "idle" /\ posted < MaxPosted)
          /\ keys < MaxKeys /\ keys' = keys + 1
          /\ isr' = [at |-> IF Len(ring) = RingSize - 1 THEN "more" ELSE "store",
                     cleared |-> FALSE]
      BY <1>1 DEF Read
    <3>3. posted < MaxPosted
      BY <3>2, <1>0 DEF Room
    <3> QED BY <3>1, <3>2, <3>3, <1>0
  <2> QED
    BY <1>0, <1>1, <2>1
    DEF Read, IInv, TypeOK, BufferTerminated, Room, lineVars, histVars, shellVars
<1>2. CASE Store
  <2>1. PICK k \in Keys, old \in Seq(Keys) :
          Len(old) < RingSize - 1 /\ ring' = Append(old, k)
    <3>1. PICK k \in Keys,
               old \in IF isr.cleared THEN UNION {[1..n -> Keys] : n \in 0..RingSize - 2}
                      ELSE {ring} : ring' = Append(old, k)
      BY <1>2 DEF Store
    <3>2. CASE isr.cleared
      <4>1. PICK n \in 0..RingSize - 2 : old \in [1..n -> Keys]
        BY <3>1, <3>2
      <4>2. old \in Seq(Keys) /\ Len(old) = n
        BY <4>1
      <4> QED BY <3>1, <4>2, <1>0
    <3>3. CASE ~isr.cleared
      BY <3>1, <3>3, <1>0, <1>2 DEF Store, TypeOK, Room
    <3> QED BY <3>2, <3>3
  <2>2. ring' \in Seq(Keys) /\ Len(ring') < RingSize
    BY <2>1, <1>0
  <2> QED
    BY <1>0, <1>2, <2>2
    DEF Store, IInv, TypeOK, BufferTerminated, Room, lineVars, histVars, shellVars
<1>3. CASE ReadAll
  BY <1>0, <1>3
  DEF ReadAll, IInv, TypeOK, BufferTerminated, Room, lineVars, histVars, shellVars
<1>4. CASE Notify
  BY <1>0, <1>4
  DEF Notify, IInv, TypeOK, BufferTerminated, Room, lineVars, histVars, shellVars
<1> QED BY <1>1, <1>2, <1>3, <1>4 DEF Interrupt

\* A step of core 1 leaves as much room in the ring as there was.
LEMMA CoreInv ==
  ASSUME IInv, Core1
  PROVE  IInv'
<1>0. /\ RingSize \in Nat \ {0, 1} /\ MaxPosted \in Nat \ {0} /\ MaxLen \in Nat \ {0}
      /\ TypeOK /\ BufferTerminated /\ Room
  BY ShellAssumption DEF IInv
<1>1. ring # <<>> => /\ Head(ring) \in Keys
                     /\ Tail(ring) \in Seq(Keys) /\ Len(Tail(ring)) <= Len(ring)
  BY <1>0 DEF TypeOK
<1>2. ASSUME ring \in Seq(Keys), ring' \in Seq(Keys), Len(ring') <= Len(ring), posted' \in 0..posted,
             isr'.at = isr.at
      PROVE  Room' /\ Len(ring') < RingSize /\ posted' \in 0..MaxPosted
  <2>1. Len(ring) \in Nat /\ Len(ring') \in Nat /\ Len(ring) < RingSize /\ posted \in 0..MaxPosted
    BY <1>0, <1>2 DEF TypeOK
  <2> QED BY <2>1, <1>0, <1>2 DEF Room
<1>3. CASE CharReady
  <2>1. posted' \in 0..posted /\ ring' = ring /\ isr' = isr
    BY <1>0, <1>3 DEF CharReady, TypeOK
  <2>2. ring \in Seq(Keys) /\ Len(ring) \in Nat
    BY <1>0 DEF TypeOK
  <2>3. Room' /\ posted' \in 0..MaxPosted
    BY <2>1, <2>2, <1>2
  <2> QED
    BY <1>0, <1>3, <2>1, <2>3
    DEF CharReady, IInv, TypeOK, BufferTerminated, lineVars, histVars
<1>4. CASE NoMore
  BY <1>0, <1>4 DEF NoMore, IInv, TypeOK, BufferTerminated, Room, termVars, lineVars, histVars
<1>5. CASE Return
  <2>1. stack # <<>> => Tail(stack) \in Seq({"eol", "welcome"})
    BY <1>0 DEF TypeOK
  <2>2. /\ stack' \in Seq({"eol", "welcome"}) /\ at' \in {"idle", "getc"}
        /\ buf' \in [0..MaxLen - 1 -> Text \cup {NUL}] /\ idx' \in 0..MaxLen - 1
        /\ BufferTerminated'
    <3>1. CASE stack = <<>>
      BY <1>0, <1>5, <3>1 DEF Return, TypeOK, BufferTerminated
    <3>2. CASE stack # <<>> /\ Head(stack) = "eol"
      <4>1. stack' = Tail(stack) /\ at' = "getc" /\ idx' = 0 /\ buf' = [buf EXCEPT ![0] = NUL]
        BY <1>5, <3>2 DEF Return
      <4> QED BY <1>0, <2>1, <3>2, <4>1 DEF TypeOK, BufferTerminated
    <3>3. CASE stack # <<>> /\ Head(stack) # "eol"
      <4>1. stack' = Tail(stack) /\ at' = "getc" /\ UNCHANGED <<buf, idx>>
        BY <1>5, <3>3 DEF Return
      <4> QED BY <1>0, <2>1, <3>3, <4>1 DEF TypeOK, BufferTerminated
    <3> QED BY <3>1, <3>2, <3>3
  <2> QED BY <1>0, <1>5, <2>2 DEF Return, IInv, TypeOK, Room, histVars
<1>6. CASE Execute
  <2>1. stack' \in Seq({"eol", "welcome"}) /\ at' = "getc" /\ handler' = TRUE
    BY <1>0, <1>6 DEF Execute, GetLine, TypeOK
  <2> QED
    BY <1>0, <1>6, <2>1
    DEF Execute, IInv, TypeOK, BufferTerminated, Room, termVars, lineVars, histVars
<1>7. CASE Discard
  <2>1. ring' \in Seq(Keys) /\ Len(ring') <= Len(ring) /\ isr'.at = isr.at
    <3>1. ring \in Seq(Keys) /\ ring # <<>> /\ Len(ring) \in Nat
      BY <1>0, <1>7 DEF Discard, TypeOK
    <3>2. CASE ring' = Tail(ring) /\ UNCHANGED isr
      BY <3>1, <3>2, <1>1
    <3>3. CASE ring' = <<>> /\ isr' = [isr EXCEPT !.cleared = (isr.at = "store")]
      BY <3>1, <3>3, <1>0 DEF TypeOK
    <3> QED BY <3>2, <3>3, <1>7 DEF Discard
  <2>2. isr' \in [at : {"idle", "store", "more", "notify"}, cleared : BOOLEAN]
    BY <1>0, <1>7 DEF Discard, TypeOK
  <2>3. ring \in Seq(Keys) /\ posted \in Nat /\ posted' = posted
    BY <1>0, <1>7 DEF Discard, TypeOK
  <2>4. Room' /\ Len(ring') < RingSize
    BY <2>1, <2>3, <1>2
  <2> QED
    BY <1>0, <1>7, <2>1, <2>2, <2>4
    DEF Discard, IInv, TypeOK, BufferTerminated, lineVars, histVars, shellVars
<1>8. CASE Welcome
  <2>1. stack' \in Seq({"eol", "welcome"}) /\ at' = "getc" /\ handler' = TRUE
    BY <1>0, <1>8 DEF Welcome, GetLine, TypeOK
  <2> QED
    BY <1>0, <1>8, <2>1
    DEF Welcome, IInv, TypeOK, BufferTerminated, Room, termVars, lineVars, histVars
<1>9. CASE Key
  <2> DEFINE k == Head(ring)
  <2>1. k \in Keys /\ ring' = Tail(ring) /\ posted' = posted /\ isr' = isr
    BY <1>1, <1>9 DEF Key
  <2>2. EditOK
    BY <1>0 DEF EditOK, LineOK, HistoryOK, TypeOK
  <2>3. EditOK' /\ esc' \in -1..1
    <3>1. CASE ~welcomed
      <4>1. at' = "reset" /\ UNCHANGED <<esc, lineVars, histVars>>
        BY <1>9, <3>1 DEF Key
      <4> QED
        BY <4>1, <2>2, <1>0
        DEF TypeOK, EditOK, LineOK, HistoryOK, lineVars, histVars, BufferTerminated
    <3>2. CASE welcomed /\ esc >= 0
      <4>1. InSequence(k)
        BY <1>9, <3>2 DEF Key
      <4> QED BY <4>1, <2>1, <2>2, InSequenceOK
    <3>3. CASE welcomed /\ ~(esc >= 0)
      <4>1. Plain(k)
        BY <1>9, <3>3 DEF Key
      <4>2. esc \in -1..1
        BY <1>0 DEF TypeOK
      <4> QED BY <4>1, <4>2, <2>1, <2>2, PlainOK
    <3> QED BY <3>1, <3>2, <3>3
  <2>4. String(buf') \in Lines
    BY <2>3, StringIsLine DEF EditOK, LineOK, BufferTerminated
  <2>5. did' \in {<<>>} \cup {<<l>> : l \in Lines}
    BY <2>4, <1>9 DEF Key
  <2>6. handler' \in BOOLEAN
    BY <1>0, <1>9 DEF Key, TypeOK
  <2>7. ring' \in Seq(Keys) /\ Len(ring') < RingSize /\ Room'
    <3>1. ring \in Seq(Keys) /\ ring # <<>> /\ posted \in Nat
      BY <1>0, <1>9 DEF Key, TypeOK
    <3> QED BY <3>1, <2>1, <1>1, <1>2
  <2>8. UNCHANGED <<isr, keys, hook, posted, stack, welcomed>>
    BY <1>9 DEF Key
  <2> HIDE DEF k
  <2> QED
    BY <1>0, <2>3, <2>5, <2>6, <2>7, <2>8
    DEF IInv, TypeOK, EditOK, LineOK, HistoryOK
<1> QED BY <1>3, <1>4, <1>5, <1>6, <1>7, <1>8, <1>9 DEF Core1

LEMMA NextInv == IInv /\ [Next]_vars => IInv'
<1> SUFFICES ASSUME IInv, [Next]_vars PROVE IInv'
  OBVIOUS
<1>1. CASE Next
  BY <1>1, InterruptInv, CoreInv DEF Next
<1>2. CASE UNCHANGED vars
  BY <1>2 DEF vars, termVars, lineVars, histVars, shellVars, IInv, TypeOK, BufferTerminated, Room
<1> QED BY <1>1, <1>2

\* The invariant of the shell, for any keys, any sizes and any interleaving of
\* the interrupt with core 1 (term.c:113-142, shell.c:232-492, cmd.c:180-335).
THEOREM ShellInvariant == Spec => []IInv
BY InitInv, NextInv, PTL DEF Spec

\* Every index stays in its array and every line fits its buffer.
THEOREM ShellTypeOK == Spec => []TypeOK
<1>1. IInv => TypeOK
  BY DEF IInv
<1> QED BY <1>1, ShellInvariant, PTL

\* The line buffer ends in a NUL, so no string runs out of it: not after a
\* character (shell.c:276-283), nor after a line of the history (338-341; cmd.c:180-335).
THEOREM ShellBufferTerminated == Spec => []BufferTerminated
<1>1. IInv => BufferTerminated
  BY DEF IInv
<1> QED BY <1>1, ShellInvariant, PTL

-----------------------------------------------------------------------------
(* The shell implements LineEdit. *)

\* The line executed i lines ago, as far as there is room for it, and how far back
\* the one recalled is.
Back(i) == hist[(cmd_ndx - i) % HistLines]
Pos == (cmd_ndx - hist_ndx) % HistLines

\* While a line is executed nothing is in the ring nor will be: the end of the line
\* was the last key in it, and the interrupt has no other in hand.
NothingAhead ==
  /\ isr.at = "store" => \A i \in 1..Len(ring) : ring[i] # "EOL"
  /\ at # "reset" => \A i \in 1..Len(ring) : ring[i] = "EOL" => i = Len(ring)
  /\ at = "exec" \/ "eol" \in Pending => ring = <<>> /\ isr.at # "store" /\ at # "reset"
  /\ isr.cleared => at = "reset" /\ isr.at = "store"
  /\ at = "exec" => "eol" \notin Pending
  /\ \A i \in 2..Len(stack) : stack[i] # "eol"

\* What is edited are characters, and what is recalled is one of the lines kept.
LineKept ==
  /\ \A i \in 0..idx - 1 : buf[i] \in Text
  /\ idx = 0 => buf[0] = NUL
PosKept == \A i \in 1..Pos : Back(i) # <<>>

EInv == IInv /\ NothingAhead /\ LineKept /\ PosKept

-----------------------------------------------------------------------------
(* Indices that wrap. *)

LEMMA ModSmall ==
  ASSUME NEW a \in Int
  PROVE  /\ a \in 0..HistLines - 1 => a % HistLines = a
         /\ a \in HistLines..2 * HistLines - 1 => a % HistLines = a - HistLines
         /\ a \in -HistLines..-1 => a % HistLines = a + HistLines
<1> DEFINE H == HistLines
<1>0. H \in Nat \ {0}
  BY ShellAssumption
<1> HIDE DEF H
<1>1. a \in 0..H - 1 => a % H = a
  BY <1>0
<1>2. a \in H..2 * H - 1 => a % H = a - H
  BY <1>0
<1>3. a \in -H..-1 => a % H = a + H
  BY <1>0
<1> QED BY <1>1, <1>2, <1>3 DEF H

\* The buffer i places before one, and one place behind.
LEMMA Places ==
  ASSUME NEW c \in 0..HistLines - 1
  PROVE  /\ \A i \in 0..HistLines :
              (c - i) % HistLines = IF i <= c THEN c - i ELSE c - i + HistLines
         /\ (c + 1) % HistLines = IF c + 1 = HistLines THEN 0 ELSE c + 1
         /\ Prior(c) = IF c = 0 THEN HistLines - 1 ELSE c - 1
<1>0. HistLines \in Nat \ {0} /\ c \in Nat
  BY ShellAssumption
<1>1. ASSUME NEW i \in 0..HistLines
      PROVE  (c - i) % HistLines = IF i <= c THEN c - i ELSE c - i + HistLines
  <2>1. CASE i <= c
    <3>1. c - i \in Int /\ c - i \in 0..HistLines - 1
      BY <1>0, <2>1
    <3> QED BY <2>1, <3>1, ModSmall
  <2>2. CASE ~(i <= c)
    <3>1. c - i \in Int /\ c - i \in -HistLines..-1
      BY <1>0, <2>2
    <3> QED BY <2>2, <3>1, ModSmall
  <2> QED BY <2>1, <2>2
<1>2. (c + 1) % HistLines = IF c + 1 = HistLines THEN 0 ELSE c + 1
  <2>1. CASE c + 1 = HistLines
    <3>1. HistLines \in Int /\ HistLines \in HistLines..2 * HistLines - 1
      BY <1>0
    <3>2. HistLines % HistLines = HistLines - HistLines
      BY <3>1, ModSmall
    <3> QED BY <1>0, <2>1, <3>2
  <2>2. CASE c + 1 # HistLines
    <3>1. c + 1 \in Int /\ c + 1 \in 0..HistLines - 1
      BY <1>0, <2>2
    <3> QED BY <2>2, <3>1, ModSmall
  <2> QED BY <2>1, <2>2
<1>3. Prior(c) = IF c = 0 THEN HistLines - 1 ELSE c - 1
  <2>1. 1 \in 0..HistLines
    BY <1>0
  <2>2. (c - 1) % HistLines = IF 1 <= c THEN c - 1 ELSE c - 1 + HistLines
    BY <1>1, <2>1
  <2> QED BY <1>0, <2>2 DEF Prior
<1> QED BY <1>1, <1>2, <1>3

\* The walk through the history.
LEMMA Walk ==
  ASSUME NEW c \in 0..HistLines - 1, NEW h \in 0..HistLines - 1
  PROVE  LET p == (c - h) % HistLines
             q == Prior(h)
             n == (h + 1) % HistLines
         IN  /\ p \in 0..HistLines - 1
             /\ p = 0 <=> h = c
             /\ h = (c - p) % HistLines
             /\ q \in 0..HistLines - 1 /\ n \in 0..HistLines - 1
             /\ q = c <=> p = HistLines - 1
             /\ q = (c - (p + 1)) % HistLines
             /\ q # c => (c - q) % HistLines = p + 1
             /\ p # 0 => /\ n = (c - (p - 1)) % HistLines
                         /\ n = c <=> p = 1
                         /\ (c - n) % HistLines = p - 1
<1> DEFINE H == HistLines
           p == (c - h) % H
           q == Prior(h)
           n == (h + 1) % H
           at_(i) == IF i <= c THEN c - i ELSE c - i + H
<1>0. H \in Nat \ {0} /\ c \in 0..H - 1 /\ h \in 0..H - 1
  BY ShellAssumption
<1>1. \A i \in 0..H : (c - i) % H = at_(i)
  BY Places
<1>2. n = (IF h + 1 = H THEN 0 ELSE h + 1) /\ q = (IF h = 0 THEN H - 1 ELSE h - 1)
  BY Places
<1>3. p = at_(h)
  BY <1>0, <1>1
<1> HIDE DEF H, p, q, n
<1>4. /\ p \in 0..H - 1 /\ q \in 0..H - 1 /\ n \in 0..H - 1
      /\ p = 0 <=> h = c
      /\ h = at_(p) /\ p \in 0..H
      /\ q = c <=> p = H - 1
      /\ q = at_(p + 1) /\ p + 1 \in 0..H
      /\ q # c => at_(q) = p + 1
      /\ p # 0 => /\ n = at_(p - 1) /\ p - 1 \in 0..H
                  /\ n = c <=> p = 1
                  /\ at_(n) = p - 1
  BY <1>0, <1>2, <1>3
<1>5. q \in 0..H /\ n \in 0..H
  BY <1>0, <1>4
<1> HIDE DEF at_
<1>6. /\ h = (c - p) % H
      /\ q = (c - (p + 1)) % H
      /\ q # c => (c - q) % H = p + 1
      /\ p # 0 => /\ n = (c - (p - 1)) % H
                  /\ n = c <=> p = 1
                  /\ (c - n) % H = p - 1
  BY <1>1, <1>4, <1>5
<1> QED BY <1>4, <1>6 DEF H, p, q, n

\* Behind a new line the others are one place further back.
LEMMA OnePlaceOn ==
  ASSUME NEW c \in 0..HistLines - 1
  PROVE  LET d == (c + 1) % HistLines
         IN  /\ d \in 0..HistLines - 1
             /\ (d - 1) % HistLines = c
             /\ \A i \in 1..HistLines - 1 : /\ (c - i) % HistLines \in 0..HistLines - 1
                                            /\ (c - i) % HistLines # c
             /\ \A i \in 2..HistLines : (d - i) % HistLines = (c - (i - 1)) % HistLines
<1> DEFINE H == HistLines
           d == (c + 1) % H
           at_(e, i) == IF i <= e THEN e - i ELSE e - i + H
<1>0. H \in Nat \ {0} /\ c \in 0..H - 1
  BY ShellAssumption
<1>1. d = (IF c + 1 = H THEN 0 ELSE c + 1)
  BY Places
<1>2. d \in 0..HistLines - 1
  BY <1>0, <1>1
<1>3. \A i \in 0..H : (c - i) % H = at_(c, i) /\ (d - i) % H = at_(d, i)
  BY <1>2, Places
<1> HIDE DEF H, d
<1>4. /\ at_(d, 1) = c /\ 1 \in 0..H
      /\ \A i \in 1..H - 1 : at_(c, i) \in 0..H - 1 /\ at_(c, i) # c /\ i \in 0..H
      /\ \A i \in 2..H : at_(d, i) = at_(c, i - 1) /\ i \in 0..H /\ i - 1 \in 0..H
  BY <1>0, <1>1
<1> HIDE DEF at_
<1>5. /\ (d - 1) % H = c
      /\ \A i \in 1..H - 1 : (c - i) % H \in 0..H - 1 /\ (c - i) % H # c
      /\ \A i \in 2..H : (d - i) % H = (c - (i - 1)) % H
  BY <1>3, <1>4
<1> QED BY <1>2, <1>5 DEF H, d

-----------------------------------------------------------------------------
(* The lines executed. *)

\* How many there are.
Count(n) ==
  /\ n \in 0..HistLines - 1
  /\ n = HistLines - 1 \/ Back(n + 1) = <<>>
  /\ \A i \in 1..n : Back(i) # <<>>

LEMMA CountExists == \E n : Count(n)
<1> DEFINE T == {n \in 0..HistLines - 1 : n = HistLines - 1 \/ Back(n + 1) = <<>>}
<1>0. HistLines \in Nat \ {0}
  BY ShellAssumption
<1>1. T \in SUBSET Nat /\ T # {}
  <2>1. HistLines - 1 \in T
    BY <1>0
  <2>2. T \subseteq 0..HistLines - 1
    OBVIOUS
  <2> HIDE DEF T
  <2>3. 0..HistLines - 1 \subseteq Nat
    BY <1>0
  <2> QED BY <2>1, <2>2, <2>3
<1>2. PICK n \in T : \A k \in T : n <= k
  <2> HIDE DEF T
  <2> QED BY <1>1, LeastNat
<1>3. ASSUME NEW i \in 1..n, Back(i) = <<>> PROVE FALSE
  <2>1. i - 1 \in 0..HistLines - 1 /\ (i - 1) + 1 = i /\ ~(n <= i - 1)
    BY <1>0, <1>2
  <2>2. i - 1 \in T
    BY <1>3, <2>1
  <2> QED BY <1>2, <2>1, <2>2
<1> QED BY <1>2, <1>3 DEF Count

LEMMA PastIs ==
  ASSUME NEW n, Count(n)
  PROVE  Past = [i \in 1..n |-> Back(i)] /\ Len(Past) = n
<1> DEFINE Q(m) == /\ m = HistLines - 1 \/ Back(m + 1) = <<>>
                   /\ \A i \in 1..m : Back(i) # <<>>
           k == CHOOSE m \in 0..HistLines - 1 : Q(m)
<1>0. HistLines \in Nat \ {0}
  BY ShellAssumption
<1>1. n \in 0..HistLines - 1 /\ Q(n)
  BY DEF Count
<1>2. k \in 0..HistLines - 1 /\ Q(k)
  <2> HIDE DEF Q
  <2> QED BY <1>1
<1> HIDE DEF k
<1>3. ASSUME NEW l \in 0..HistLines - 1, Q(l), NEW m \in 0..HistLines - 1, Q(m), l < m
      PROVE  FALSE
  <2>1. l + 1 \in 1..m /\ l # HistLines - 1
    BY <1>0, <1>3
  <2> QED BY <1>3, <2>1
<1>4. k = n
  <2>1. ~(k < n) /\ ~(n < k)
    <3> HIDE DEF Q
    <3> QED BY <1>1, <1>2, <1>3
  <2> QED BY <1>0, <1>1, <1>2, <2>1
<1>5. Past = [i \in 1..k |-> Back(i)]
  BY DEF Past, Back, k
<1> QED BY <1>0, <1>1, <1>4, <1>5

\* What is known of the history and the walk through it.
LEMMA PastFacts ==
  ASSUME HistoryOK
  PROVE  /\ Len(Past) \in 0..HistLines - 1
         /\ Pos \in 0..HistLines - 1
         /\ \A i \in 1..Len(Past) : Past[i] = Back(i) /\ Past[i] # <<>>
         /\ \A i \in 1..HistLines - 1 :
              (\A j \in 1..i - 1 : Back(j) # <<>>) => (i <= Len(Past) <=> Back(i) # <<>>)
<1>0. HistLines \in Nat \ {0}
  BY ShellAssumption
<1>1. PICK n : Count(n)
  BY CountExists
<1>2. /\ Past = [i \in 1..n |-> Back(i)] /\ Len(Past) = n
      /\ n \in 0..HistLines - 1
      /\ n = HistLines - 1 \/ Back(n + 1) = <<>>
      /\ \A i \in 1..n : Back(i) # <<>>
  BY <1>1, PastIs DEF Count
<1>3. Pos \in 0..HistLines - 1
  BY Walk DEF HistoryOK, Pos
<1>4. ASSUME NEW i \in 1..HistLines - 1, \A j \in 1..i - 1 : Back(j) # <<>>
      PROVE  i <= Len(Past) <=> Back(i) # <<>>
  <2>1. CASE i <= n
    BY <1>0, <1>2, <2>1
  <2>2. CASE ~(i <= n)
    <3>1. n + 1 = i \/ n + 1 \in 1..i - 1
      BY <1>0, <1>2, <2>2
    <3>2. n # HistLines - 1
      BY <1>0, <1>2, <2>2
    <3> QED BY <1>2, <1>4, <2>2, <3>1, <3>2
  <2> QED BY <2>1, <2>2
<1> QED BY <1>2, <1>3, <1>4

LEMMA PastTyped == HistoryOK => Past \in Seq(Lines)
<1> SUFFICES ASSUME HistoryOK PROVE Past \in Seq(Lines)
  OBVIOUS
<1>1. PICK k : Count(k)
  BY CountExists
<1>2. Past = [i \in 1..k |-> Back(i)] /\ k \in Nat
  BY <1>1, PastIs, ShellAssumption DEF Count
<1>3. \A i \in 1..k : Back(i) \in Lines
  <2> TAKE i \in 1..k
  <2>1. cmd_ndx - i \in Int
    BY <1>2, ShellAssumption DEF HistoryOK
  <2>2. (cmd_ndx - i) % HistLines \in 0..HistLines - 1
    BY <2>1, Wraps
  <2> QED BY <2>2 DEF Back, HistoryOK
<1> QED BY <1>2, <1>3

LEMMA PastIsAll == \A m : Count(m) => Past = [i \in 1..m |-> Back(i)]
BY PastIs

\* The same of the next state.
LEMMA PastNext ==
  ASSUME NEW n, Count(n)'
  PROVE  Past' = [i \in 1..n |-> Back(i)']
<1>1. (\A m : Count(m) => Past = [i \in 1..m |-> Back(i)])'
  BY PastIsAll, PTL
<1> QED BY <1>1

-----------------------------------------------------------------------------
(* The line being edited. *)

\* A string that begins with n characters begins with a line of them.
LEMMA StringBegins ==
  ASSUME NEW b \in [0..MaxLen - 1 -> Text \cup {NUL}], b[MaxLen - 1] = NUL,
         NEW n \in 0..MaxLen - 1, \A i \in 0..n - 1 : b[i] \in Text
  PROVE  /\ String(b) \in Lines /\ n <= Len(String(b)) /\ Len(String(b)) < MaxLen
         /\ SubSeq(String(b), 1, n) = [i \in 1..n |-> b[i - 1]]
         /\ b[n] = NUL => String(b) = [i \in 1..n |-> b[i - 1]]
<1> DEFINE Q(k) == /\ k = MaxLen \/ b[k] = NUL
                   /\ \A i \in 0..k - 1 : b[i] # NUL
           m == CHOOSE k \in 0..MaxLen : Q(k)
           T == {k \in 0..MaxLen - 1 : b[k] = NUL}
<1>0. MaxLen \in Nat \ {0} /\ NUL \notin Text
  BY ShellAssumption DEF NUL
<1>1. T \in SUBSET Nat /\ T # {}
  BY <1>0
<1>2. PICK k \in T : \A l \in T : k <= l
  <2> HIDE DEF T
  <2> QED BY <1>1, LeastNat
<1>3. k \in 0..MaxLen /\ Q(k)
  BY <1>0, <1>2
<1>4. m \in 0..MaxLen /\ Q(m)
  <2> HIDE DEF Q
  <2> QED BY <1>3
<1>5. String(b) = [i \in 1..m |-> b[i - 1]]
  BY DEF String, m
<1> HIDE DEF m
<1>6. m \in 0..MaxLen - 1
  <2> SUFFICES ASSUME m = MaxLen PROVE FALSE
    BY <1>0, <1>4
  <2>1. MaxLen - 1 \in 0..m - 1
    BY <1>0
  <2> QED BY <2>1, <1>4
<1>7. n <= m
  <2> SUFFICES ASSUME ~(n <= m) PROVE FALSE
    OBVIOUS
  <2>1. m \in 0..n - 1 /\ b[m] = NUL
    BY <1>0, <1>4, <1>6
  <2> QED BY <1>0, <2>1
<1>8. b[n] = NUL => n = m
  <2> SUFFICES ASSUME b[n] = NUL, n # m PROVE FALSE
    OBVIOUS
  <2>1. n \in 0..m - 1
    BY <1>0, <1>6, <1>7
  <2> QED BY <1>4, <2>1
<1>9. String(b) \in Lines
  BY StringIsLine
<1>10. Len(String(b)) = m
  BY <1>5, <1>6
<1>11. SubSeq(String(b), 1, n) = [i \in 1..n |-> b[i - 1]]
  BY <1>5, <1>6, <1>7, <1>10
<1> QED BY <1>0, <1>5, <1>6, <1>7, <1>8, <1>9, <1>10, <1>11

LEMMA InputIs ==
  ASSUME LineOK, LineKept
  PROVE  /\ Input \in Lines /\ Len(Input) = idx
         /\ \A i \in 1..idx : Input[i] = buf[i - 1]
<1>1. \A i \in 1..idx : buf[i - 1] \in Text
  <2> TAKE i \in 1..idx
  <2>1. i - 1 \in 0..idx - 1
    BY DEF LineOK
  <2> QED BY <2>1 DEF LineKept
<1>2. idx \in 0..MaxLen - 1 /\ idx \in Nat
  BY ShellAssumption DEF LineOK
<1>3. Input = [i \in 1..idx |-> buf[i - 1]]
  BY DEF Input
<1>4. Input \in [1..idx -> Text]
  BY <1>1, <1>3
<1> QED BY <1>2, <1>3, <1>4 DEF Lines

LEMMA ReplaceInput ==
  ASSUME LineOK, NEW s \in Lines, Replace(s)
  PROVE  LineKept' /\ Input' = s
<1>1. /\ Len(s) \in 0..MaxLen - 1 /\ s \in [1..Len(s) -> Text]
      /\ MaxLen \in Nat \ {0}
  BY LineLen, ShellAssumption
<1>2. /\ idx' = Len(s)
      /\ \A i \in 0..MaxLen - 1 : i < Len(s) => buf'[i] = s[i + 1]
  BY DEF Replace, Strcpy
<1>3. \A i \in 0..Len(s) - 1 : buf'[i] = s[i + 1] /\ s[i + 1] \in Text
  <2> TAKE i \in 0..Len(s) - 1
  <2>1. i \in 0..MaxLen - 1 /\ i < Len(s) /\ i + 1 \in 1..Len(s)
    BY <1>1
  <2> QED BY <1>1, <1>2, <2>1
<1>4. \A i \in 1..Len(s) : buf'[i - 1] = s[i]
  <2> TAKE i \in 1..Len(s)
  <2>1. i - 1 \in 0..Len(s) - 1 /\ (i - 1) + 1 = i
    BY <1>1
  <2> QED BY <1>3, <2>1
<1>5. Input' = [i \in 1..Len(s) |-> s[i]]
  BY <1>2, <1>4 DEF Input
<1>6. s = [i \in 1..Len(s) |-> s[i]]
  BY <1>1
<1>7. Len(s) = 0 => buf'[0] = NUL
  BY <1>1 DEF Replace, Strcpy
<1> QED BY <1>2, <1>3, <1>5, <1>6, <1>7 DEF LineKept

\* An untouched line, history and walk.
LEMMA LineUntouched ==
  ASSUME LineKept, UNCHANGED lineVars
  PROVE  LineKept' /\ Input' = Input
BY DEF LineKept, Input, lineVars

LEMMA HistoryUntouched ==
  ASSUME PosKept, UNCHANGED <<hist, cmd_ndx>>
  PROVE  /\ Past' = Past /\ \A i : Back(i)' = Back(i)
         /\ hist_ndx' = hist_ndx => PosKept' /\ Pos' = Pos
BY DEF PosKept, Past, Pos, Back

LEMMA InsertStep ==
  ASSUME EditOK, LineKept, NEW k \in Text, Insert(k)
  PROVE  /\ LineKept'
         /\ Input' = IF Len(Input) < MaxLen - 1 THEN Append(Input, k) ELSE Input
<1>0. /\ MaxLen \in Nat \ {0} /\ LineOK /\ idx \in Nat /\ idx \in 0..MaxLen - 1
      /\ buf \in [0..MaxLen - 1 -> Text \cup {NUL}]
  BY ShellAssumption DEF EditOK, LineOK
<1>1. Input \in Lines /\ Len(Input) = idx /\ \A i \in 1..idx : Input[i] = buf[i - 1]
  BY <1>0, InputIs
<1>2. CASE idx < MaxLen - 1
  <2>1. buf' = [buf EXCEPT ![idx] = k] /\ idx' = idx + 1
    BY <1>2 DEF Insert
  <2>2. /\ \A i \in 0..idx - 1 : buf'[i] = buf[i]
        /\ buf'[idx] = k
    BY <1>0, <2>1
  <2>3. LineKept'
    BY <1>0, <2>1, <2>2 DEF LineKept
  <2>4. Input \in Seq(Text)
    BY <1>1, LineLen
  <2>5. \A i \in 1..idx + 1 : buf'[i - 1] = IF i = idx + 1 THEN k ELSE Input[i]
    <3> TAKE i \in 1..idx + 1
    <3>1. CASE i = idx + 1
      BY <1>0, <2>2, <3>1
    <3>2. CASE i # idx + 1
      <4>1. i \in 1..idx /\ i - 1 \in 0..idx - 1
        BY <1>0, <3>2
      <4> QED BY <1>1, <2>2, <3>2, <4>1
    <3> QED BY <3>1, <3>2
  <2>6. Input' = [i \in 1..idx + 1 |-> IF i = idx + 1 THEN k ELSE Input[i]]
    BY <2>1, <2>5 DEF Input
  <2>7. Append(Input, k) = [i \in 1..idx + 1 |-> IF i = idx + 1 THEN k ELSE Input[i]]
    BY <1>0, <1>1, <2>4
  <2> QED BY <1>1, <1>2, <2>3, <2>6, <2>7
<1>3. CASE ~(idx < MaxLen - 1)
  <2>1. UNCHANGED lineVars
    BY <1>3 DEF Insert
  <2> QED BY <1>1, <1>3, <2>1, LineUntouched
<1> QED BY <1>2, <1>3

LEMMA BackspaceStep ==
  ASSUME EditOK, LineKept, Backspace
  PROVE  LineKept' /\ Input' = SubSeq(Input, 1, Len(Input) - 1)
<1>0. /\ MaxLen \in Nat \ {0} /\ LineOK /\ idx \in Nat /\ idx \in 0..MaxLen - 1
      /\ buf \in [0..MaxLen - 1 -> Text \cup {NUL}]
  BY ShellAssumption DEF EditOK, LineOK
<1>1. Input \in Lines /\ Len(Input) = idx /\ \A i \in 1..idx : Input[i] = buf[i - 1]
  BY <1>0, InputIs
<1>2. Input \in Seq(Text)
  BY <1>1, LineLen
<1> DEFINE n == Max0(idx - 1)
<1>3. n = IF idx = 0 THEN 0 ELSE idx - 1
  BY <1>0 DEF Max0
<1>4. idx' = n /\ buf' = [buf EXCEPT ![n] = NUL]
  BY DEF Backspace
<1> HIDE DEF n
<1>5. \A i \in 0..n - 1 : buf'[i] = buf[i] /\ i \in 0..idx - 1
  BY <1>0, <1>3, <1>4
<1>6. LineKept'
  BY <1>0, <1>3, <1>4, <1>5 DEF LineKept
<1>7. \A i \in 1..n : buf'[i - 1] = Input[i]
  <2> TAKE i \in 1..n
  <2>1. i - 1 \in 0..n - 1 /\ i \in 1..idx
    BY <1>0, <1>3
  <2> QED BY <1>1, <1>5, <2>1
<1>8. Input' = [i \in 1..n |-> Input[i]]
  BY <1>4, <1>7 DEF Input
<1>9. SubSeq(Input, 1, Len(Input) - 1) = [i \in 1..n |-> Input[i]]
  BY <1>0, <1>1, <1>2, <1>3
<1> QED BY <1>6, <1>8, <1>9

LEMMA EraseStep ==
  ASSUME EditOK, Erase
  PROVE  LineKept' /\ Input' = <<>>
<1>1. idx' = 0 /\ buf'[0] = NUL
  BY ShellAssumption DEF Erase, EditOK, LineOK
<1> QED BY <1>1 DEF LineKept, Input

-----------------------------------------------------------------------------
(* The walk through the history. *)

LEMMA PriorStep ==
  ASSUME EditOK, LineKept, PosKept, RecallPrior
  PROVE  /\ LineKept' /\ PosKept' /\ Past' = Past
         /\ IF Pos = 0 THEN /\ SubSeq(tmp', 1, Len(Input)) = Input
                            /\ Len(tmp') < MaxLen
                            /\ Input = <<>> => tmp' = <<>>
                       ELSE tmp' = tmp
         /\ IF Pos < Len(Past) THEN Pos' = Pos + 1 /\ Input' = Past[Pos + 1]
                               ELSE Pos' = Pos /\ Input' = Input
<1> DEFINE p == Prior(hist_ndx)
<1>0. /\ HistLines \in Nat \ {0} /\ LineOK /\ HistoryOK
      /\ cmd_ndx \in 0..HistLines - 1 /\ hist_ndx \in 0..HistLines - 1
      /\ buf \in [0..MaxLen - 1 -> Text \cup {NUL}] /\ buf[MaxLen - 1] = NUL
      /\ idx \in 0..MaxLen - 1
  BY ShellAssumption DEF EditOK, LineOK, HistoryOK, BufferTerminated
<1>1. /\ Pos \in 0..HistLines - 1
      /\ Pos = 0 <=> hist_ndx = cmd_ndx
      /\ p \in 0..HistLines - 1
      /\ p = cmd_ndx <=> Pos = HistLines - 1
      /\ hist[p] = Back(Pos + 1)
      /\ p # cmd_ndx => (cmd_ndx - p) % HistLines = Pos + 1
  <2> DEFINE c == cmd_ndx
             h == hist_ndx
             o == (c - h) % HistLines
  <2>1. c \in 0..HistLines - 1 /\ h \in 0..HistLines - 1
    BY <1>0
  <2> HIDE DEF c, h
  <2>2. /\ o \in 0..HistLines - 1
        /\ o = 0 <=> h = c
        /\ Prior(h) \in 0..HistLines - 1
        /\ Prior(h) = c <=> o = HistLines - 1
        /\ Prior(h) = (c - (o + 1)) % HistLines
        /\ Prior(h) # c => (c - Prior(h)) % HistLines = o + 1
    BY <2>1, Walk
  <2>3. Pos = o /\ p = Prior(h) /\ Back(o + 1) = hist[(c - (o + 1)) % HistLines]
    BY DEF Pos, Back, c, h
  <2> HIDE DEF p, o
  <2> QED BY <2>2, <2>3 DEF c, h
<1>2. /\ tmp' = IF hist_ndx = cmd_ndx THEN String(buf) ELSE tmp
      /\ IF p # cmd_ndx /\ hist[p] # <<>>
           THEN hist_ndx' = p /\ Replace(hist[p])
           ELSE UNCHANGED <<hist_ndx, lineVars>>
      /\ UNCHANGED <<hist, cmd_ndx>>
  BY DEF RecallPrior
<1> HIDE DEF p
<1>3. Past' = Past /\ \A i : Back(i)' = Back(i)
  BY <1>2, HistoryUntouched
<1>4. IF Pos = 0 THEN /\ SubSeq(tmp', 1, Len(Input)) = Input /\ Len(tmp') < MaxLen
                      /\ Input = <<>> => tmp' = <<>>
      ELSE tmp' = tmp
  <2>1. /\ Len(String(buf)) < MaxLen
        /\ SubSeq(String(buf), 1, idx) = [i \in 1..idx |-> buf[i - 1]]
        /\ buf[idx] = NUL => String(buf) = [i \in 1..idx |-> buf[i - 1]]
    BY <1>0, StringBegins DEF LineKept
  <2>2. Len(Input) = idx /\ Input = [i \in 1..idx |-> buf[i - 1]]
    BY <1>0, InputIs DEF Input
  <2>3. Input = <<>> => String(buf) = <<>>
    BY <2>1, <2>2 DEF LineKept
  <2> QED BY <1>1, <1>2, <2>1, <2>2, <2>3
<1>5. Pos < Len(Past) <=> p # cmd_ndx /\ hist[p] # <<>>
  <2>1. CASE Pos = HistLines - 1
    BY <1>0, <1>1, <2>1, PastFacts
  <2>2. CASE Pos # HistLines - 1
    <3>1. /\ Pos + 1 \in 1..HistLines - 1
          /\ \A j \in 1..(Pos + 1) - 1 : Back(j) # <<>>
      BY <1>0, <1>1, <2>2 DEF PosKept
    <3>2. Pos + 1 <= Len(Past) <=> Back(Pos + 1) # <<>>
      BY <1>0, <3>1, PastFacts
    <3>3. Pos \in Int /\ Len(Past) \in Int
      BY <1>0, PastFacts
    <3> QED BY <1>1, <2>2, <3>2, <3>3
  <2> QED BY <2>1, <2>2
<1>6. CASE Pos < Len(Past)
  <2>1. hist_ndx' = p /\ Replace(hist[p]) /\ hist[p] \in Lines /\ hist[p] # <<>> /\ p # cmd_ndx
    BY <1>0, <1>1, <1>2, <1>5, <1>6 DEF HistoryOK
  <2>2. LineKept' /\ Input' = hist[p]
    BY <1>0, <2>1, ReplaceInput
  <2>3. Pos' = Pos + 1
    BY <1>1, <1>2, <2>1 DEF Pos
  <2>4. Past[Pos + 1] = Back(Pos + 1)
    BY <1>0, <1>6, PastFacts
  <2>5. PosKept'
    <3>1. \A i \in 1..Pos + 1 : Back(i) # <<>>
      BY <1>0, <1>1, <2>1 DEF PosKept
    <3> QED BY <1>3, <2>3, <3>1 DEF PosKept
  <2> QED BY <1>1, <1>3, <1>4, <1>6, <2>2, <2>3, <2>4, <2>5
<1>7. CASE ~(Pos < Len(Past))
  <2>1. UNCHANGED <<hist_ndx, lineVars>>
    BY <1>2, <1>5, <1>7
  <2>2. LineKept' /\ Input' = Input
    BY <2>1, LineUntouched
  <2>3. PosKept' /\ Pos' = Pos
    BY <1>2, <2>1, HistoryUntouched
  <2> QED BY <1>3, <1>4, <1>7, <2>2, <2>3
<1> QED BY <1>6, <1>7

LEMMA NextStep ==
  ASSUME EditOK, LineKept, PosKept, RecallNext
  PROVE  /\ LineKept' /\ PosKept' /\ Past' = Past /\ tmp' = tmp
         /\ IF Pos = 0 THEN Pos' = Pos /\ Input' = Input
            ELSE Pos' = Pos - 1 /\ Input' = IF Pos = 1 THEN tmp ELSE Past[Pos - 1]
<1> DEFINE n == (hist_ndx + 1) % HistLines
           s == IF n = cmd_ndx THEN tmp ELSE hist[n]
<1>0. /\ HistLines \in Nat \ {0} /\ LineOK /\ HistoryOK
      /\ cmd_ndx \in 0..HistLines - 1 /\ hist_ndx \in 0..HistLines - 1
  BY ShellAssumption DEF EditOK, HistoryOK
<1>1. /\ Pos \in 0..HistLines - 1
      /\ Pos = 0 <=> hist_ndx = cmd_ndx
      /\ n \in 0..HistLines - 1
      /\ Pos # 0 => /\ hist[n] = Back(Pos - 1)
                    /\ n = cmd_ndx <=> Pos = 1
                    /\ (cmd_ndx - n) % HistLines = Pos - 1
  <2> DEFINE c == cmd_ndx
             h == hist_ndx
             o == (c - h) % HistLines
             m == (h + 1) % HistLines
  <2>1. c \in 0..HistLines - 1 /\ h \in 0..HistLines - 1
    BY <1>0
  <2> HIDE DEF c, h
  <2>2. /\ o \in 0..HistLines - 1
        /\ o = 0 <=> h = c
        /\ m \in 0..HistLines - 1
        /\ o # 0 => /\ m = (c - (o - 1)) % HistLines
                    /\ m = c <=> o = 1
                    /\ (c - m) % HistLines = o - 1
    BY <2>1, Walk
  <2>3. Pos = o /\ n = m /\ Back(o - 1) = hist[(c - (o - 1)) % HistLines]
    BY DEF Pos, Back, c, h
  <2> HIDE DEF n, m, o
  <2> QED BY <2>2, <2>3 DEF c, h
<1>2. /\ IF hist_ndx = cmd_ndx THEN UNCHANGED <<hist_ndx, lineVars>>
         ELSE hist_ndx' = n /\ Replace(s)
      /\ UNCHANGED <<hist, cmd_ndx, tmp>>
  BY DEF RecallNext
<1>3. s \in Lines
  BY <1>0, <1>1 DEF HistoryOK
<1> HIDE DEF n
<1>4. Past' = Past /\ \A i : Back(i)' = Back(i)
  BY <1>2, HistoryUntouched
<1>5. CASE Pos = 0
  <2>1. UNCHANGED <<hist_ndx, lineVars>>
    BY <1>1, <1>2, <1>5
  <2>2. LineKept' /\ Input' = Input
    BY <2>1, LineUntouched
  <2>3. PosKept' /\ Pos' = Pos
    BY <1>2, <2>1, HistoryUntouched
  <2> QED BY <1>2, <1>4, <1>5, <2>2, <2>3
<1>6. CASE Pos # 0
  <2>1. hist_ndx' = n /\ Replace(s)
    BY <1>1, <1>2, <1>6
  <2>2. LineKept' /\ Input' = s
    <3> HIDE DEF s
    <3> QED BY <1>0, <1>3, <2>1, ReplaceInput
  <2>3. Pos' = Pos - 1
    BY <1>1, <1>2, <1>6, <2>1 DEF Pos
  <2>4. Pos - 1 \in 0..HistLines - 1 /\ \A i \in 1..Pos - 1 : Back(i) # <<>>
    BY <1>0, <1>1, <1>6 DEF PosKept
  <2>5. PosKept'
    BY <1>4, <2>3, <2>4 DEF PosKept
  <2>6. Pos # 1 => Past[Pos - 1] = Back(Pos - 1)
    <3> SUFFICES ASSUME Pos # 1 PROVE Past[Pos - 1] = Back(Pos - 1)
      OBVIOUS
    <3>1. /\ Pos - 1 \in 1..HistLines - 1
          /\ \A j \in 1..(Pos - 1) - 1 : Back(j) # <<>>
          /\ Back(Pos - 1) # <<>>
      BY <1>0, <1>1, <1>6 DEF PosKept
    <3>2. Pos - 1 <= Len(Past) /\ Len(Past) \in Nat
      BY <1>0, <3>1, PastFacts
    <3>3. Pos - 1 \in 1..Len(Past)
      BY <1>0, <3>1, <3>2
    <3> QED BY <1>0, <3>3, PastFacts
  <2>7. s = IF Pos = 1 THEN tmp ELSE Past[Pos - 1]
    BY <1>1, <1>6, <2>6
  <2> QED BY <1>2, <1>4, <1>6, <2>2, <2>3, <2>5, <2>7
<1> QED BY <1>5, <1>6

\* A line executed is the last one, unless it was the last one before.
LEMMA EndLineStep ==
  ASSUME EditOK, LineKept, PosKept, EndLine
  PROVE  /\ LineKept' /\ PosKept' /\ String(buf') = Input
         /\ IF Input = <<>> THEN Past' = Past /\ Pos' = Pos /\ tmp' = tmp
            ELSE /\ Past' = IF Past # <<>> /\ Head(Past) = Input THEN Past
                            ELSE SubSeq(<<Input>> \o Past, 1,
                                        IF Len(Past) + 1 < HistLines THEN Len(Past) + 1
                                                                     ELSE HistLines - 1)
                 /\ Pos' = 0 /\ tmp' = <<>>
<1> DEFINE b == [buf EXCEPT ![idx] = NUL]
           line == String(b)
           new == line # hist[Prior(cmd_ndx)]
           n == IF new THEN (cmd_ndx + 1) % HistLines ELSE cmd_ndx
<1>0. /\ HistLines \in Nat \ {0} /\ MaxLen \in Nat \ {0} /\ LineOK /\ HistoryOK
      /\ cmd_ndx \in 0..HistLines - 1 /\ hist_ndx \in 0..HistLines - 1
      /\ buf \in [0..MaxLen - 1 -> Text \cup {NUL}] /\ buf[MaxLen - 1] = NUL
      /\ idx \in 0..MaxLen - 1
      /\ hist \in [0..HistLines - 1 -> Lines]
  BY ShellAssumption DEF EditOK, LineOK, HistoryOK, BufferTerminated
<1>1. /\ b \in [0..MaxLen - 1 -> Text \cup {NUL}] /\ b[MaxLen - 1] = NUL /\ b[idx] = NUL
      /\ \A i \in 0..idx - 1 : b[i] = buf[i] /\ b[i] \in Text
  BY <1>0 DEF LineKept
<1>2. /\ buf' = b /\ idx' = idx
      /\ IF line = <<>> THEN UNCHANGED histVars
         ELSE /\ hist' = IF new THEN [hist EXCEPT ![cmd_ndx] = line] ELSE hist
              /\ cmd_ndx' = n /\ hist_ndx' = n /\ tmp' = <<>>
  BY DEF EndLine
<1>3. line = Input
  <2> HIDE DEF b
  <2>1. line = [i \in 1..idx |-> b[i - 1]]
    BY <1>0, <1>1, StringBegins
  <2>2. \A i \in 1..idx : b[i - 1] = buf[i - 1]
    <3> TAKE i \in 1..idx
    <3>1. i - 1 \in 0..idx - 1
      BY <1>0
    <3> QED BY <1>1, <3>1
  <2> QED BY <2>1, <2>2 DEF Input
<1>4. LineKept'
  BY <1>0, <1>1, <1>2 DEF LineKept
<1>5. String(buf') = Input
  BY <1>2, <1>3
<1>6. Input \in Lines
  BY <1>0, InputIs
<1> HIDE DEF b
<1>7. CASE Input = <<>>
  <2>1. UNCHANGED <<hist, cmd_ndx, hist_ndx, tmp>>
    BY <1>2, <1>3, <1>7 DEF histVars
  <2> QED BY <1>4, <1>5, <1>7, <2>1, HistoryUntouched
<1>8. CASE Input # <<>>
  <2>1. /\ hist' = IF new THEN [hist EXCEPT ![cmd_ndx] = Input] ELSE hist
        /\ cmd_ndx' = n /\ hist_ndx' = n /\ tmp' = <<>>
    BY <1>2, <1>3, <1>8
  <2>2. hist[Prior(cmd_ndx)] = Back(1)
    BY DEF Prior, Back
  <2>3. n \in 0..HistLines - 1
    <3>1. cmd_ndx + 1 \in Int
      BY <1>0
    <3> QED BY <1>0, <3>1, Wraps
  <2>4. Pos' = 0
    <3>1. Pos' = (n - n) % HistLines
      BY <2>1 DEF Pos
    <3>2. n - n = 0 /\ 0 \in 0..HistLines - 1 /\ 0 \in Int
      BY <1>0, <2>3
    <3> QED BY <3>1, <3>2, ModSmall
  <2>5. PosKept'
    BY <2>4 DEF PosKept
  <2>6. HistLines > 1 =>
          /\ Past # <<>> <=> Back(1) # <<>>
          /\ Past # <<>> => Head(Past) = Back(1)
    <3> SUFFICES ASSUME HistLines > 1
                 PROVE  /\ Past # <<>> <=> Back(1) # <<>>
                        /\ Past # <<>> => Head(Past) = Back(1)
      OBVIOUS
    <3>1. 1 \in 1..HistLines - 1 /\ \A j \in 1..1 - 1 : Back(j) # <<>>
      BY <1>0
    <3>2. 1 <= Len(Past) <=> Back(1) # <<>>
      BY <1>0, <3>1, PastFacts
    <3>3. Past \in Seq(Lines)
      BY <1>0, PastTyped
    <3>4. Past # <<>> => Head(Past) = Past[1] /\ 1 \in 1..Len(Past)
      BY <3>3
    <3>5. Past # <<>> <=> 1 <= Len(Past)
      BY <3>3
    <3>6. Past # <<>> => Past[1] = Back(1)
      BY <1>0, <3>4, PastFacts
    <3> QED BY <3>2, <3>4, <3>5, <3>6
  <2>7. Past \in Seq(Lines) /\ Len(Past) \in 0..HistLines - 1
    BY <1>0, PastTyped, PastFacts
  <2>8. CASE ~new
    <3>1. Past' = Past /\ Back(1) = Input
      BY <1>3, <2>1, <2>2, <2>8, HistoryUntouched
    <3>2. HistLines > 1 => Past # <<>> /\ Head(Past) = Input
      BY <1>8, <2>6, <3>1
    <3>3. ~(HistLines > 1) =>
            /\ Past = <<>> /\ HistLines = 1
            /\ Past = SubSeq(<<Input>> \o Past, 1,
                             IF Len(Past) + 1 < HistLines THEN Len(Past) + 1
                                                          ELSE HistLines - 1)
      <4> SUFFICES ASSUME ~(HistLines > 1)
                   PROVE  /\ Past = <<>> /\ HistLines = 1
                          /\ Past = SubSeq(<<Input>> \o Past, 1,
                                           IF Len(Past) + 1 < HistLines THEN Len(Past) + 1
                                                                        ELSE HistLines - 1)
        OBVIOUS
      <4>1. HistLines = 1 /\ Len(Past) = 0
        BY <1>0, <2>7
      <4>2. Past = <<>>
        BY <2>7, <4>1
      <4>3. (IF Len(Past) + 1 < HistLines THEN Len(Past) + 1 ELSE HistLines - 1) = 0
        BY <4>1
      <4>4. SubSeq(<<Input>> \o Past, 1, 0) = <<>>
        BY <1>6, <2>7
      <4> QED BY <4>1, <4>2, <4>3, <4>4
    <3> QED BY <1>4, <1>5, <1>8, <2>1, <2>4, <2>5, <3>1, <3>2, <3>3
  <2>9. CASE new
    <3> DEFINE c == cmd_ndx
    <3>1. /\ hist' = [hist EXCEPT ![c] = Input] /\ cmd_ndx' = (c + 1) % HistLines
          /\ c \in 0..HistLines - 1
      BY <1>0, <2>1, <2>9
    <3>2. Input # Back(1)
      BY <1>3, <2>2, <2>9
    <3>3. Back(1)' = Input
      <4>1. (cmd_ndx' - 1) % HistLines = c
        BY <3>1, OnePlaceOn
      <4> QED BY <1>0, <3>1, <4>1 DEF Back
    <3>4. \A i \in 2..HistLines : Back(i)' = Back(i - 1)
      <4> TAKE i \in 2..HistLines
      <4>1. i - 1 \in 1..HistLines - 1
        BY <1>0
      <4>2. /\ (cmd_ndx' - i) % HistLines = (c - (i - 1)) % HistLines
            /\ (c - (i - 1)) % HistLines \in 0..HistLines - 1
            /\ (c - (i - 1)) % HistLines # c
        BY <3>1, <4>1, OnePlaceOn
      <4> QED BY <1>0, <3>1, <4>2 DEF Back
    <3>5. PICK k : Count(k)
      BY CountExists
    <3>6. /\ Past = [i \in 1..k |-> Back(i)] /\ Len(Past) = k
          /\ k \in 0..HistLines - 1
          /\ k = HistLines - 1 \/ Back(k + 1) = <<>>
          /\ \A i \in 1..k : Back(i) # <<>>
      BY <3>5, PastIs DEF Count
    <3> DEFINE m == IF k + 1 < HistLines THEN k + 1 ELSE HistLines - 1
    <3>7. m \in 0..HistLines - 1 /\ m <= k + 1
      BY <1>0, <3>6
    <3>8. Count(m)'
      <4>1. m = HistLines - 1 \/ Back(m + 1)' = <<>>
        <5> SUFFICES ASSUME m # HistLines - 1 PROVE Back(m + 1)' = <<>>
          OBVIOUS
        <5>1. m + 1 \in 2..HistLines /\ (m + 1) - 1 = k + 1 /\ k # HistLines - 1
          BY <1>0, <3>6
        <5> QED BY <3>4, <3>6, <5>1
      <4>2. \A i \in 1..m : Back(i)' # <<>>
        <5> TAKE i \in 1..m
        <5>1. CASE i = 1
          BY <1>8, <3>3, <5>1
        <5>2. CASE i # 1
          <6>1. i \in 2..HistLines /\ i - 1 \in 1..k
            BY <1>0, <3>6, <3>7, <5>2
          <6> QED BY <3>4, <3>6, <6>1
        <5> QED BY <5>1, <5>2
      <4> HIDE DEF m
      <4> QED BY <3>7, <4>1, <4>2 DEF Count
    <3>9. Past' = [i \in 1..m |-> Back(i)']
      <4> HIDE DEF m
      <4> QED BY <3>8, PastNext
    <3>10. \A i \in 1..m : Back(i)' = (<<Input>> \o Past)[i]
      <4> TAKE i \in 1..m
      <4>1. CASE i = 1
        BY <2>7, <3>3, <4>1
      <4>2. CASE i # 1
        <5>1. i \in 2..HistLines /\ i - 1 \in 1..k
          BY <1>0, <3>6, <3>7, <4>2
        <5>2. (<<Input>> \o Past)[i] = Past[i - 1]
          BY <2>7, <3>6, <5>1
        <5> QED BY <3>4, <3>6, <5>1, <5>2
      <4> QED BY <4>1, <4>2
    <3>11. SubSeq(<<Input>> \o Past, 1, m) = [i \in 1..m |-> (<<Input>> \o Past)[i]]
      <4>1. Len(<<Input>> \o Past) = k + 1 /\ <<Input>> \o Past \in Seq(Lines)
        BY <1>6, <2>7, <3>6
      <4> HIDE DEF m
      <4> QED BY <3>7, <4>1
    <3>12. Past' = SubSeq(<<Input>> \o Past, 1, m)
      <4> HIDE DEF m
      <4> QED BY <3>9, <3>10, <3>11
    <3>13. ~(Past # <<>> /\ Head(Past) = Input)
      <4>1. CASE HistLines > 1
        BY <2>6, <3>2, <4>1
      <4>2. CASE ~(HistLines > 1)
        BY <1>0, <2>7, <4>2
      <4> QED BY <4>1, <4>2
    <3> QED BY <1>4, <1>5, <1>8, <2>1, <2>4, <2>5, <3>6, <3>12, <3>13
  <2> QED BY <2>8, <2>9
<1> QED BY <1>7, <1>8

-----------------------------------------------------------------------------
(* What LineEdit sees. *)

Typed == IF at = "reset" THEN <<>> ELSE ring
Edited == IF at = "exec" \/ "eol" \in Pending THEN <<>> ELSE Input
Greeted == welcomed \/ at = "reset"

LEMMA Stutters ==
  ASSUME EInv, UNCHANGED <<histVars, esc, did>>,
         Typed' = Typed, Edited' = Edited, Greeted' = Greeted
  PROVE  PosKept' /\ UNCHANGED Editor!vars
<1>1. PosKept' /\ Past' = Past /\ Pos' = Pos
  BY HistoryUntouched DEF EInv, histVars
<1> QED BY <1>1 DEF Editor!vars, Editor!editVars, Typed, Edited, Greeted, Pos, histVars

LEMMA EolPending ==
  "eol" \in Pending <=> \E i \in 1..Len(stack) : stack[i] = "eol"
BY DEF Pending

\* A call from the callback of a line, or from the greeting.
LEMMA Pushed ==
  ASSUME stack \in Seq({"eol", "welcome"}), "eol" \notin Pending,
         NEW call \in {"eol", "welcome"}, stack' = <<call>> \o stack
  PROVE  /\ "eol" \in Pending' <=> call = "eol"
         /\ \A i \in 2..Len(stack') : stack'[i] # "eol"
<1>1. /\ Len(stack) \in Nat /\ Len(stack') = Len(stack) + 1 /\ stack'[1] = call
      /\ \A i \in 2..Len(stack') : stack'[i] = stack[i - 1] /\ i - 1 \in 1..Len(stack)
      /\ 1 \in 1..Len(stack')
      /\ \A i \in 1..Len(stack') : i = 1 \/ i \in 2..Len(stack')
  OBVIOUS
<1>2. \A i \in 2..Len(stack') : stack'[i] # "eol"
  BY <1>1 DEF Pending
<1>3. "eol" \in Pending' <=> \E i \in 1..Len(stack') : stack'[i] = "eol"
  BY DEF Pending
<1> QED BY <1>1, <1>2, <1>3

LEMMA Popped ==
  ASSUME stack \in Seq({"eol", "welcome"}), stack # <<>>,
         \A i \in 2..Len(stack) : stack[i] # "eol", stack' = Tail(stack)
  PROVE  /\ "eol" \in Pending <=> Head(stack) = "eol"
         /\ "eol" \notin Pending'
         /\ \A i \in 2..Len(stack') : stack'[i] # "eol"
<1>1. /\ Len(stack) \in Nat /\ Len(stack') = Len(stack) - 1 /\ Head(stack) = stack[1]
      /\ \A i \in 1..Len(stack') : stack'[i] = stack[i + 1] /\ i + 1 \in 2..Len(stack)
      /\ 1 \in 1..Len(stack)
      /\ \A i \in 1..Len(stack) : i = 1 \/ i \in 2..Len(stack)
      /\ \A i \in 2..Len(stack') : i \in 1..Len(stack')
  OBVIOUS
<1>2. \A i \in 1..Len(stack') : stack'[i] # "eol"
  BY <1>1
<1>3. "eol" \in Pending' <=> \E i \in 1..Len(stack') : stack'[i] = "eol"
  BY DEF Pending
<1>4. "eol" \in Pending <=> stack[1] = "eol"
  BY <1>1, EolPending
<1> QED BY <1>1, <1>2, <1>3, <1>4

-----------------------------------------------------------------------------
(* The steps of the interrupt, and those of core 1 between two keys. *)

LEMMA InterruptEdits ==
  ASSUME EInv, IInv', Interrupt
  PROVE  EInv' /\ [Editor!Next]_(Editor!vars)
<1>0. /\ UNCHANGED <<lineVars, histVars, handler, at, stack, esc, welcomed, did>>
      /\ UNCHANGED Input /\ UNCHANGED Pending
      /\ ring \in Seq(Keys) /\ LineKept /\ NothingAhead
      /\ isr \in [at : {"idle", "store", "more", "notify"}, cleared : BOOLEAN]
  BY DEF Interrupt, Read, Store, ReadAll, Notify, shellVars, lineVars, Input, Pending,
         EInv, IInv, TypeOK
<1>1. LineKept' /\ Edited' = Edited /\ Greeted' = Greeted
  BY <1>0, LineUntouched DEF Edited, Greeted
<1>2. PosKept'
  BY <1>0, HistoryUntouched DEF EInv, histVars
<1>3. CASE Read
  <2>1. /\ ring' = ring /\ at # "exec" /\ "eol" \notin Pending
        /\ \A i \in 1..Len(ring) : ring[i] # "EOL"
        /\ ~isr'.cleared
    BY <1>3 DEF Read, Patient
  <2>2. NothingAhead'
    BY <1>0, <2>1 DEF NothingAhead
  <2>3. Typed' = Typed
    BY <1>0, <2>1 DEF Typed
  <2> QED BY <1>0, <1>1, <1>2, <2>2, <2>3, Stutters DEF EInv
<1>4. CASE ReadAll \/ Notify
  <2>1. ring' = ring /\ isr'.at # "store" /\ isr.at # "store" /\ isr'.cleared = isr.cleared
    BY <1>0, <1>4 DEF ReadAll, Notify
  <2>2. NothingAhead'
    BY <1>0, <2>1 DEF NothingAhead
  <2>3. Typed' = Typed
    BY <1>0, <2>1 DEF Typed
  <2> QED BY <1>0, <1>1, <1>2, <2>2, <2>3, Stutters DEF EInv
<1>5. CASE Store
  <2>1. /\ isr.at = "store" /\ isr'.at = "more" /\ ~isr'.cleared
    BY <1>5 DEF Store
  <2>2. at # "exec" /\ "eol" \notin Pending
    BY <1>0, <2>1 DEF NothingAhead
  <2>3. CASE at = "reset"
    <3>1. NothingAhead'
      BY <1>0, <2>1, <2>2, <2>3 DEF NothingAhead
    <3>2. Typed' = Typed
      BY <1>0, <2>3 DEF Typed
    <3> QED BY <1>0, <1>1, <1>2, <3>1, <3>2, Stutters DEF EInv
  <2>4. CASE at # "reset"
    <3>1. PICK k \in Keys : ring' = Append(ring, k)
      BY <1>0, <1>5, <2>4 DEF Store, NothingAhead
    <3>2. /\ Len(ring) \in Nat /\ Len(ring') = Len(ring) + 1
          /\ \A i \in 1..Len(ring) : ring'[i] = ring[i]
          /\ \A i \in 1..Len(ring') : i \in 1..Len(ring) \/ i = Len(ring')
      BY <1>0, <3>1
    <3>3. NothingAhead'
      BY <1>0, <2>1, <2>2, <2>4, <3>2 DEF NothingAhead
    <3>4. Editor!Type
      BY <1>0, <1>1, <2>4, <3>1, HistoryUntouched
      DEF Editor!Type, Editor!editVars, Typed, Edited, Greeted, histVars, EInv
    <3> QED BY <1>1, <1>2, <3>3, <3>4 DEF EInv, Editor!Next
  <2> QED BY <2>3, <2>4
<1> QED BY <1>3, <1>4, <1>5 DEF Interrupt

LEMMA BetweenKeysEdits ==
  ASSUME EInv, IInv', CharReady \/ NoMore \/ Return \/ Execute \/ Discard \/ Welcome
  PROVE  EInv' /\ UNCHANGED Editor!vars
<1>0. /\ UNCHANGED <<histVars, esc, did>>
      /\ ring \in Seq(Keys) /\ LineKept /\ NothingAhead
      /\ stack \in Seq({"eol", "welcome"})
      /\ isr \in [at : {"idle", "store", "more", "notify"}, cleared : BOOLEAN]
      /\ buf \in [0..MaxLen - 1 -> Text \cup {NUL}]
      /\ \A i \in 2..Len(stack) : stack[i] # "eol"
  BY DEF CharReady, NoMore, Return, Execute, Discard, Welcome, GetLine, EInv, IInv, TypeOK,
         shellVars, NothingAhead
<1>1. CASE CharReady \/ NoMore \/ (Return /\ stack = <<>>)
  <2>1. /\ UNCHANGED <<ring, isr, stack, lineVars, welcomed>>
        /\ at \notin {"reset", "exec"} /\ at' \notin {"reset", "exec"}
    BY <1>1 DEF CharReady, NoMore, Return, termVars, lineVars
  <2>2. LineKept' /\ UNCHANGED Input /\ UNCHANGED Pending
    BY <1>0, <2>1, LineUntouched DEF Pending
  <2>3. NothingAhead'
    BY <1>0, <2>1, <2>2 DEF NothingAhead
  <2>4. Typed' = Typed /\ Edited' = Edited /\ Greeted' = Greeted
    BY <2>1, <2>2 DEF Typed, Edited, Greeted
  <2> QED BY <1>0, <2>2, <2>3, <2>4, Stutters DEF EInv
<1>2. CASE Return /\ stack # <<>>
  <2>1. /\ UNCHANGED <<ring, isr, welcomed>>
        /\ at = "hook" /\ at' = "getc" /\ stack' = Tail(stack)
        /\ IF Head(stack) = "eol" THEN idx' = 0 /\ buf' = [buf EXCEPT ![0] = NUL]
                                  ELSE UNCHANGED lineVars
    BY <1>2 DEF Return, lineVars
  <2>2. /\ "eol" \in Pending <=> Head(stack) = "eol"
        /\ "eol" \notin Pending'
        /\ \A i \in 2..Len(stack') : stack'[i] # "eol"
    BY <1>0, <1>2, <2>1, Popped
  <2>3. NothingAhead'
    BY <1>0, <2>1, <2>2 DEF NothingAhead
  <2>4. LineKept' /\ Edited' = Edited
    <3>1. CASE Head(stack) = "eol"
      <4>1. LineKept' /\ Input' = <<>>
        BY <1>0, <2>1, <3>1, ShellAssumption DEF LineKept, Input
      <4> QED BY <2>1, <2>2, <3>1, <4>1 DEF Edited
    <3>2. CASE Head(stack) # "eol"
      <4>1. LineKept' /\ Input' = Input
        BY <1>0, <2>1, <3>2, LineUntouched
      <4> QED BY <2>1, <2>2, <3>2, <4>1 DEF Edited
    <3> QED BY <3>1, <3>2
  <2>5. Typed' = Typed /\ Greeted' = Greeted
    BY <2>1 DEF Typed, Greeted
  <2> QED BY <1>0, <2>3, <2>4, <2>5, Stutters DEF EInv
<1>3. CASE Execute
  <2>1. /\ UNCHANGED <<ring, isr, lineVars, welcomed>>
        /\ at = "exec" /\ at' = "getc" /\ stack' = <<"eol">> \o stack
    BY <1>3 DEF Execute, GetLine, termVars
  <2>2. /\ "eol" \in Pending'
        /\ \A i \in 2..Len(stack') : stack'[i] # "eol"
    BY <1>0, <2>1, Pushed DEF NothingAhead
  <2>3. NothingAhead'
    BY <1>0, <2>1, <2>2 DEF NothingAhead
  <2>4. LineKept'
    BY <1>0, <2>1, LineUntouched
  <2>5. Typed' = Typed /\ Edited' = Edited /\ Greeted' = Greeted
    BY <2>1, <2>2 DEF Typed, Edited, Greeted
  <2> QED BY <1>0, <2>3, <2>4, <2>5, Stutters DEF EInv
<1>4. CASE Discard
  <2>1. /\ UNCHANGED <<at, stack, lineVars, welcomed>> /\ at = "reset" /\ ring # <<>>
        /\ isr'.at = isr.at
        /\ \/ ring' = Tail(ring) /\ isr' = isr
           \/ ring' = <<>> /\ (isr'.cleared => isr.at = "store")
    BY <1>0, <1>4 DEF Discard, shellVars
  <2>2. LineKept' /\ UNCHANGED Input /\ UNCHANGED Pending
    BY <1>0, <2>1, LineUntouched DEF Pending
  <2>3. \A i \in 1..Len(ring') : ring'[i] = "EOL" => \E j \in 1..Len(ring) : ring[j] = "EOL"
    <3>1. CASE ring' = Tail(ring)
      <4>1. \A i \in 1..Len(ring') : ring'[i] = ring[i + 1] /\ i + 1 \in 1..Len(ring)
        BY <1>0, <2>1, <3>1
      <4> QED BY <4>1
    <3>2. CASE ring' = <<>>
      BY <3>2
    <3> QED BY <2>1, <3>1, <3>2
  <2>4. NothingAhead'
    BY <1>0, <2>1, <2>2, <2>3 DEF NothingAhead
  <2>5. Typed' = Typed /\ Edited' = Edited /\ Greeted' = Greeted
    BY <2>1, <2>2 DEF Typed, Edited, Greeted
  <2> QED BY <1>0, <2>2, <2>4, <2>5, Stutters DEF EInv
<1>5. CASE Welcome
  <2>1. /\ UNCHANGED <<ring, isr, lineVars>> /\ ring = <<>> /\ ~isr.cleared
        /\ at = "reset" /\ at' = "getc" /\ stack' = <<"welcome">> \o stack
        /\ welcomed'
    BY <1>5 DEF Welcome, GetLine, termVars
  <2>2. "eol" \notin Pending
    BY <1>0, <2>1 DEF NothingAhead
  <2>3. /\ "eol" \notin Pending'
        /\ \A i \in 2..Len(stack') : stack'[i] # "eol"
    BY <1>0, <2>1, <2>2, Pushed
  <2>4. NothingAhead'
    BY <1>0, <2>1, <2>3 DEF NothingAhead
  <2>5. LineKept' /\ Input' = Input
    BY <1>0, <2>1, LineUntouched
  <2>6. Typed' = Typed /\ Edited' = Edited /\ Greeted' = Greeted
    BY <2>1, <2>2, <2>3, <2>5 DEF Typed, Edited, Greeted
  <2> QED BY <1>0, <2>4, <2>5, <2>6, Stutters DEF EInv
<1> QED BY <1>1, <1>2, <1>3, <1>4, <1>5

-----------------------------------------------------------------------------
(* What the code does with a key is what LineEdit says it stands for.      *)

Act(m) ==
  \/ m \in Text /\ Insert(m)
  \/ m = "BS" /\ Backspace
  \/ m = "CLEAR" /\ Erase
  \/ m = "PRIOR" /\ RecallPrior
  \/ m = "NEXT" /\ RecallNext
  \/ m = "EOL" /\ EndLine
  \/ m = "REINIT" /\ at' = "reset" /\ UNCHANGED <<lineVars, histVars>>
  \/ m \in {"ESC", "CSI"} /\ UNCHANGED <<at, lineVars, histVars>>
  \/ m = "BEL" /\ at' \in {at, "fault"} /\ UNCHANGED <<lineVars, histVars>>

EscAfter(m) == CASE m = "ESC" -> 0 [] m = "CSI" -> 1 [] OTHER -> -1

LEMMA Printed ==
  ASSUME NEW k, Printable(k),
         NEW m, m = IF k \in Text \cup {"PRIOR", "NEXT", "REINIT"} THEN k ELSE "BEL"
  PROVE  Act(m) /\ m \notin {"ESC", "CSI", "EOL"}
<1>0. Text \cap {"EOL", "ESC", "CSI", "PRIOR", "NEXT", "REINIT", "DEL"} = {}
  BY ShellAssumption
<1>1. CASE k \in Text
  <2>1. Insert(k) /\ m = k
    BY <1>0, <1>1 DEF Printable
  <2> QED BY <1>0, <1>1, <2>1 DEF Act
<1>2. CASE k = "PRIOR"
  <2>1. RecallPrior /\ m = "PRIOR"
    BY <1>0, <1>2 DEF Printable
  <2> QED BY <2>1 DEF Act
<1>3. CASE k = "NEXT"
  <2>1. RecallNext /\ m = "NEXT"
    BY <1>0, <1>3 DEF Printable
  <2> QED BY <2>1 DEF Act
<1>4. CASE k = "REINIT"
  <2>1. at' = "reset" /\ UNCHANGED <<lineVars, histVars>> /\ m = "REINIT"
    BY <1>0, <1>4 DEF Printable
  <2> QED BY <2>1 DEF Act
<1>5. CASE k \notin Text \cup {"PRIOR", "NEXT", "REINIT"}
  <2>1. CASE k = "DEL"
    BY <1>5, <2>1 DEF Printable, Act
  <2>2. CASE k # "DEL"
    <3>1. UNCHANGED <<at, lineVars, histVars>> /\ m = "BEL"
      BY <1>5, <2>2 DEF Printable
    <3> QED BY <3>1 DEF Act
  <2> QED BY <2>1, <2>2
<1> QED BY <1>1, <1>2, <1>3, <1>4, <1>5

LEMMA InSequenceActs ==
  ASSUME NEW k, InSequence(k), esc \in {0, 1}
  PROVE  Act(Editor!Meaning(k)) /\ esc' = EscAfter(Editor!Meaning(k))
<1> DEFINE m == Editor!Meaning(k)
<1>1. CASE esc = 0 /\ k = "["
  <2>1. m = "CSI"
    BY <1>1 DEF Editor!Meaning
  <2>2. esc' = 1 /\ UNCHANGED <<at, lineVars, histVars>>
    BY <1>1 DEF InSequence
  <2> QED BY <2>1, <2>2 DEF Act, EscAfter
<1>2. CASE esc = 1 /\ k = "A"
  <2>1. m = "PRIOR"
    BY <1>2 DEF Editor!Meaning, Editor!Arrow
  <2>2. esc' = -1 /\ RecallPrior
    BY <1>2 DEF InSequence
  <2> QED BY <2>1, <2>2 DEF Act, EscAfter
<1>3. CASE esc = 1 /\ k = "B"
  <2>1. m = "NEXT"
    BY <1>3 DEF Editor!Meaning, Editor!Arrow
  <2>2. esc' = -1 /\ RecallNext
    BY <1>3 DEF InSequence
  <2> QED BY <2>1, <2>2 DEF Act, EscAfter
<1>4. CASE ~(esc = 0 /\ k = "[") /\ ~(esc = 1 /\ k \in {"A", "B"})
  <2>1. m = IF k \in Text \cup {"PRIOR", "NEXT", "REINIT"} THEN k ELSE "BEL"
    BY <1>4 DEF Editor!Meaning, Editor!Arrow
  <2>2. esc' = -1 /\ Printable(k)
    BY <1>4 DEF InSequence
  <2> HIDE DEF m
  <2>3. Act(m) /\ m \notin {"ESC", "CSI", "EOL"}
    BY <2>1, <2>2, Printed
  <2>4. esc' = EscAfter(m)
    BY <2>2, <2>3 DEF EscAfter
  <2> QED BY <2>3, <2>4 DEF m
<1> QED BY <1>1, <1>2, <1>3, <1>4

LEMMA PlainActs ==
  ASSUME NEW k, Plain(k), esc = -1
  PROVE  Act(Editor!Meaning(k)) /\ esc' = EscAfter(Editor!Meaning(k))
<1> DEFINE m == Editor!Meaning(k)
<1>1. CASE k \in {"EOL", "BS", "CLEAR", "ESC"}
  <2>1. m = k
    BY <1>1 DEF Editor!Meaning
  <2>2. esc' = IF k = "ESC" THEN 0 ELSE -1
    BY DEF Plain
  <2>3. esc' = EscAfter(k)
    BY <1>1, <2>2 DEF EscAfter
  <2>4. Act(k)
    <3>1. k = "EOL" => EndLine
      BY DEF Plain
    <3>2. k = "BS" => Backspace
      BY DEF Plain
    <3>3. k = "CLEAR" => Erase
      BY DEF Plain
    <3>4. k = "ESC" => UNCHANGED <<at, lineVars, histVars>>
      BY DEF Plain
    <3> QED BY <1>1, <3>1, <3>2, <3>3, <3>4 DEF Act
  <2> QED BY <2>1, <2>3, <2>4
<1>2. CASE k = "DEL"
  <2>1. m = "BS" /\ esc' = -1 /\ Backspace
    BY <1>2 DEF Editor!Meaning, Plain
  <2> QED BY <2>1 DEF Act, EscAfter
<1>3. CASE k \notin {"EOL", "BS", "DEL", "CLEAR", "ESC"}
  <2>1. m = IF k \in Text \cup {"PRIOR", "NEXT", "REINIT"} THEN k ELSE "BEL"
    BY <1>3 DEF Editor!Meaning
  <2>2. esc' = -1 /\ Printable(k)
    BY <1>3 DEF Plain
  <2> HIDE DEF m
  <2>3. Act(m) /\ m \notin {"ESC", "CSI", "EOL"}
    BY <2>1, <2>2, Printed
  <2>4. esc' = EscAfter(m)
    BY <2>2, <2>3 DEF EscAfter
  <2> QED BY <2>3, <2>4 DEF m
<1> QED BY <1>1, <1>2, <1>3

LEMMA Acts ==
  ASSUME EInv, Key, welcomed
  PROVE  LET m == Editor!Meaning(Head(ring))
         IN Act(m) /\ esc' = EscAfter(m)
<1>1. esc \in -1..1
  BY DEF EInv, IInv, TypeOK
<1>2. IF esc >= 0 THEN InSequence(Head(ring)) ELSE Plain(Head(ring))
  BY DEF Key
<1>3. CASE esc >= 0
  <2>1. InSequence(Head(ring)) /\ esc \in {0, 1}
    BY <1>1, <1>2, <1>3
  <2> QED BY <2>1, InSequenceActs
<1>4. CASE ~(esc >= 0)
  <2>1. Plain(Head(ring)) /\ esc = -1
    BY <1>1, <1>2, <1>4
  <2> QED BY <2>1, PlainActs
<1> QED BY <1>3, <1>4

-----------------------------------------------------------------------------
(* A key.                                                                  *)

\* Only the end of a line has one executed.
LEMMA OnlyEol ==
  ASSUME NEW k, Act(Editor!Meaning(k)), at = "getc", at' = "exec"
  PROVE  k = "EOL" /\ Editor!Meaning(k) = "EOL"
<1>1. Editor!Meaning(k) = "EOL"
  BY DEF Act, Insert, Backspace, Erase, RecallPrior, RecallNext
<1>2. "EOL" \notin Text
  BY ShellAssumption
<1>3. k = "EOL"
  BY <1>1, <1>2 DEF Editor!Meaning, Editor!Arrow
<1> QED BY <1>1, <1>3

LEMMA KeyAhead ==
  ASSUME EInv, Key, at' = "exec" => Head(ring) = "EOL"
  PROVE  NothingAhead'
<1>0. /\ at = "getc" /\ ring # <<>> /\ ring' = Tail(ring) /\ ring \in Seq(Keys)
      /\ UNCHANGED <<isr, stack>> /\ NothingAhead
  BY DEF Key, EInv, IInv, TypeOK
<1>1. "eol" \notin Pending /\ "eol" \notin Pending' /\ ~isr.cleared
  <2>1. "eol" \notin Pending /\ (isr.cleared => at = "reset")
    BY <1>0 DEF NothingAhead
  <2> QED BY <1>0, <2>1 DEF Pending
<1>2. /\ Len(ring) \in Nat \ {0} /\ Len(ring') = Len(ring) - 1 /\ Head(ring) = ring[1]
      /\ \A i \in 1..Len(ring') : ring'[i] = ring[i + 1] /\ i + 1 \in 1..Len(ring)
      /\ 1 \in 1..Len(ring)
  BY <1>0
<1>3. /\ isr.at = "store" => \A i \in 1..Len(ring) : ring[i] # "EOL"
      /\ \A i \in 1..Len(ring) : ring[i] = "EOL" => i = Len(ring)
      /\ \A i \in 2..Len(stack) : stack[i] # "eol"
  BY <1>0 DEF NothingAhead
<1>4. isr.at = "store" => \A i \in 1..Len(ring') : ring'[i] # "EOL"
  BY <1>2, <1>3
<1>5. \A i \in 1..Len(ring') : ring'[i] = "EOL" => i = Len(ring')
  BY <1>2, <1>3
<1>6. at' = "exec" => ring' = <<>> /\ isr.at # "store"
  <2> SUFFICES ASSUME at' = "exec" PROVE ring' = <<>> /\ isr.at # "store"
    OBVIOUS
  <2>1. ring[1] = "EOL" /\ 1 = Len(ring)
    BY <1>2, <1>3
  <2>2. isr.at # "store"
    BY <1>2, <1>3, <2>1
  <2>3. Tail(ring) = <<>>
    BY <1>0, <2>1
  <2> QED BY <1>0, <2>2, <2>3
<1> QED BY <1>0, <1>1, <1>3, <1>4, <1>5, <1>6 DEF NothingAhead

LEMMA KeyEdits ==
  ASSUME EInv, IInv', Key
  PROVE  EInv' /\ Editor!Next
<1> DEFINE k == Head(ring)
           m == Editor!Meaning(k)
<1>0. /\ at = "getc" /\ ring # <<>> /\ ring' = Tail(ring)
      /\ UNCHANGED <<stack, welcomed>> /\ welcomed \in BOOLEAN
      /\ EditOK /\ LineKept /\ PosKept
      /\ "eol" \notin Pending /\ "eol" \notin Pending'
  <2>1. /\ at = "getc" /\ ring # <<>> /\ ring' = Tail(ring) /\ UNCHANGED <<stack, welcomed>>
    BY DEF Key
  <2>2. EditOK /\ LineKept /\ PosKept /\ welcomed \in BOOLEAN
    BY DEF EInv, IInv, TypeOK, EditOK, LineOK, HistoryOK
  <2>3. "eol" \notin Pending
    BY <2>1 DEF EInv, NothingAhead
  <2> QED BY <2>1, <2>2, <2>3 DEF Pending
<1>1. Typed = ring /\ Edited = Input /\ Greeted = welcomed
  BY <1>0 DEF Typed, Edited, Greeted
<1>2. CASE ~welcomed
  <2>1. /\ at' = "reset" /\ did' = <<>> /\ UNCHANGED <<esc, lineVars, histVars>>
    BY <1>2 DEF Key
  <2>2. LineKept' /\ Input' = Input
    BY <1>0, <2>1, LineUntouched
  <2>3. PosKept' /\ Past' = Past /\ Pos' = Pos /\ tmp' = tmp
    BY <1>0, <2>1, HistoryUntouched DEF histVars
  <2>4. NothingAhead'
    BY <2>1, KeyAhead
  <2>5. Typed' = <<>> /\ Edited' = Input /\ Greeted' = TRUE
    BY <1>0, <2>1, <2>2 DEF Typed, Edited, Greeted
  <2>6. Editor!Greet
    BY <1>0, <1>1, <1>2, <2>1, <2>3, <2>5
    DEF Editor!Greet, Typed, Edited, Greeted, Pos
  <2> QED BY <2>2, <2>3, <2>4, <2>6 DEF EInv, Editor!Next
<1>3. CASE welcomed
  <2>1. Act(m) /\ esc' = EscAfter(m)
    BY <1>3, Acts
  <2>2. did' = IF at' = "exec" THEN <<String(buf')>> ELSE <<>>
    BY <1>3 DEF Key
  <2>3. at' = "exec" => k = "EOL" /\ m = "EOL"
    BY <1>0, <2>1, OnlyEol
  <2>4. NothingAhead'
    BY <2>3, KeyAhead
  <2> HIDE DEF m
  <2>5. ASSUME at' # "reset"
        PROVE  Editor!Key(m)
    <3>1. Typed' = ring' /\ Greeted' = welcomed
      BY <1>0, <2>5 DEF Typed, Greeted
    <3>2. esc' = CASE m = "ESC" -> 0 [] m = "CSI" -> 1 [] OTHER -> -1
      BY <2>1 DEF EscAfter
    <3> QED BY <1>0, <1>1, <1>3, <3>1, <3>2
        DEF Editor!Key, Typed, Greeted, m
  <2>6. ASSUME at' \in {at, "fault"}
        PROVE  Edited' = Input' /\ Editor!Key(m) /\ did' = <<>>
    BY <1>0, <2>2, <2>5, <2>6 DEF Edited
  <2>7. CASE m \in Text /\ Insert(m)
    <3>1. /\ at' = at /\ UNCHANGED <<hist, cmd_ndx, hist_ndx, tmp>>
      BY <2>7 DEF Insert, histVars
    <3>2. LineKept' /\ Input' = IF Len(Input) < MaxLen - 1 THEN Append(Input, m) ELSE Input
      BY <1>0, <2>7, InsertStep
    <3>3. PosKept' /\ Past' = Past /\ Pos' = Pos
      BY <1>0, <3>1, HistoryUntouched
    <3>4. Editor!Insert(m)
      BY <1>1, <2>6, <2>7, <3>1, <3>2, <3>3 DEF Editor!Insert, Edited, Pos
    <3> QED BY <2>4, <2>7, <3>2, <3>3, <3>4 DEF EInv, Editor!Next
  <2>8. CASE m = "BS" /\ Backspace
    <3>1. /\ at' = at /\ UNCHANGED <<hist, cmd_ndx, hist_ndx, tmp>>
      BY <2>8 DEF Backspace, histVars
    <3>2. LineKept' /\ Input' = SubSeq(Input, 1, Len(Input) - 1)
      BY <1>0, <2>8, BackspaceStep
    <3>3. PosKept' /\ Past' = Past /\ Pos' = Pos
      BY <1>0, <3>1, HistoryUntouched
    <3>4. Editor!Erase
      BY <1>1, <2>6, <2>8, <3>1, <3>2, <3>3 DEF Editor!Erase, Edited, Pos
    <3> QED BY <2>4, <3>2, <3>3, <3>4 DEF EInv, Editor!Next
  <2>9. CASE m = "CLEAR" /\ Erase
    <3>1. /\ at' = at /\ UNCHANGED <<hist, cmd_ndx, hist_ndx, tmp>>
      BY <2>9 DEF Erase, histVars
    <3>2. LineKept' /\ Input' = <<>>
      BY <1>0, <2>9, EraseStep
    <3>3. PosKept' /\ Past' = Past /\ Pos' = Pos
      BY <1>0, <3>1, HistoryUntouched
    <3>4. Editor!Clear
      BY <1>1, <2>6, <2>9, <3>1, <3>2, <3>3 DEF Editor!Clear, Edited, Pos
    <3> QED BY <2>4, <3>2, <3>3, <3>4 DEF EInv, Editor!Next
  <2>10. CASE m = "PRIOR" /\ RecallPrior
    <3>1. at' = at
      BY <2>10 DEF RecallPrior
    <3>2. /\ LineKept' /\ PosKept' /\ Past' = Past
          /\ IF Pos = 0 THEN /\ SubSeq(tmp', 1, Len(Input)) = Input
                             /\ Len(tmp') < MaxLen
                             /\ Input = <<>> => tmp' = <<>>
                        ELSE tmp' = tmp
          /\ IF Pos < Len(Past) THEN Pos' = Pos + 1 /\ Input' = Past[Pos + 1]
                                ELSE Pos' = Pos /\ Input' = Input
      BY <1>0, <2>10, PriorStep
    <3>3. Editor!RecallPrior
      BY <1>1, <2>6, <2>10, <3>1, <3>2 DEF Editor!RecallPrior, Editor!Saved, Edited, Pos
    <3> QED BY <2>4, <3>2, <3>3 DEF EInv, Editor!Next
  <2>11. CASE m = "NEXT" /\ RecallNext
    <3>1. at' = at
      BY <2>11 DEF RecallNext
    <3>2. /\ LineKept' /\ PosKept' /\ Past' = Past /\ tmp' = tmp
          /\ IF Pos = 0 THEN Pos' = Pos /\ Input' = Input
             ELSE Pos' = Pos - 1 /\ Input' = IF Pos = 1 THEN tmp ELSE Past[Pos - 1]
      BY <1>0, <2>11, NextStep
    <3>3. Editor!RecallNext
      BY <1>1, <2>6, <2>11, <3>1, <3>2 DEF Editor!RecallNext, Edited, Pos
    <3> QED BY <2>4, <3>2, <3>3 DEF EInv, Editor!Next
  <2>12. CASE m = "EOL" /\ EndLine
    <3>1. at' = "exec"
      BY <2>12 DEF EndLine
    <3>2. /\ LineKept' /\ PosKept' /\ String(buf') = Input
          /\ IF Input = <<>> THEN Past' = Past /\ Pos' = Pos /\ tmp' = tmp
             ELSE /\ Past' = IF Past # <<>> /\ Head(Past) = Input THEN Past
                             ELSE SubSeq(<<Input>> \o Past, 1,
                                         IF Len(Past) + 1 < HistLines THEN Len(Past) + 1
                                                                      ELSE HistLines - 1)
                  /\ Pos' = 0 /\ tmp' = <<>>
      BY <1>0, <2>12, EndLineStep
    <3>3. did' = <<Input>> /\ Edited' = <<>>
      BY <2>2, <3>1, <3>2 DEF Edited
    <3>4. Editor!Key("EOL")
      BY <2>5, <2>12, <3>1
    <3>5. Editor!Enter
      BY <1>1, <3>2, <3>3, <3>4 DEF Editor!Enter, Edited, Pos
    <3> QED BY <2>4, <3>2, <3>5 DEF EInv, Editor!Next
  <2>13. CASE m = "REINIT" /\ at' = "reset" /\ UNCHANGED <<lineVars, histVars>>
    <3>1. did' = <<>> /\ esc' = -1
      BY <2>1, <2>2, <2>13 DEF EscAfter
    <3>2. LineKept' /\ Input' = Input
      BY <1>0, <2>13, LineUntouched
    <3>3. PosKept' /\ Past' = Past /\ Pos' = Pos /\ tmp' = tmp
      BY <1>0, <2>13, HistoryUntouched DEF histVars
    <3>4. Typed' = <<>> /\ Edited' = Input /\ Greeted' = TRUE
      BY <1>0, <2>13, <3>2 DEF Typed, Edited, Greeted
    <3>5. Editor!Greet
      BY <1>0, <1>1, <1>3, <2>13, <3>1, <3>3, <3>4
      DEF Editor!Greet, Typed, Edited, Greeted, Pos, m
    <3> QED BY <2>4, <3>2, <3>3, <3>5 DEF EInv, Editor!Next
  <2>14. CASE /\ m \in {"ESC", "CSI", "BEL"} /\ at' \in {at, "fault"}
              /\ UNCHANGED <<lineVars, histVars>>
    <3>1. LineKept' /\ Input' = Input
      BY <1>0, <2>14, LineUntouched
    <3>2. PosKept' /\ Past' = Past /\ Pos' = Pos /\ tmp' = tmp
      BY <1>0, <2>14, HistoryUntouched DEF histVars
    <3>3. Editor!Ignore
      BY <1>1, <2>6, <2>14, <3>1, <3>2 DEF Editor!Ignore, Edited, Pos
    <3> QED BY <2>4, <3>1, <3>2, <3>3 DEF EInv, Editor!Next
  <2> QED BY <2>1, <2>7, <2>8, <2>9, <2>10, <2>11, <2>12, <2>13, <2>14 DEF Act
<1> QED BY <1>2, <1>3

-----------------------------------------------------------------------------
(* All steps.                                                              *)

LEMMA InitEdits == Init => EInv /\ Editor!Init
<1> SUFFICES ASSUME Init PROVE EInv /\ Editor!Init
  OBVIOUS
<1>0. HistLines \in Nat \ {0} /\ HistoryOK
  BY InitInv, ShellAssumption DEF IInv, TypeOK, HistoryOK
<1>1. IInv
  BY InitInv
<1>2. Pos = 0
  <2>1. Pos = 0 % HistLines
    BY DEF Init, Pos
  <2>2. 0 \in Int /\ 0 \in 0..HistLines - 1
    BY <1>0
  <2> QED BY <2>1, <2>2, ModSmall
<1>3. Past = <<>>
  <2>1. HistLines - 1 = 0 \/ Back(1) = <<>>
    <3>1. (cmd_ndx - 1) % HistLines \in 0..HistLines - 1
      BY Wraps DEF Init
    <3> QED BY <3>1 DEF Init, Back
  <2>2. Count(0)
    BY <1>0, <2>1 DEF Count
  <2> QED BY <2>2, PastIs
<1>4. Input = <<>>
  BY DEF Init, Input
<1>5. "eol" \notin Pending
  BY DEF Init, Pending
<1>6. NothingAhead
  BY <1>5 DEF Init, NothingAhead
<1>7. LineKept /\ PosKept
  BY <1>2, ShellAssumption DEF Init, LineKept, PosKept
<1>8. Editor!Init
  BY <1>2, <1>3, <1>4 DEF Init, Editor!Init, Pos
<1> QED BY <1>1, <1>6, <1>7, <1>8 DEF EInv

LEMMA NextEdits == EInv /\ [Next]_vars => EInv' /\ [Editor!Next]_(Editor!vars)
<1> SUFFICES ASSUME EInv, [Next]_vars PROVE EInv' /\ [Editor!Next]_(Editor!vars)
  OBVIOUS
<1>1. IInv'
  BY NextInv DEF EInv
<1>2. CASE Interrupt
  BY <1>1, <1>2, InterruptEdits
<1>3. CASE CharReady \/ NoMore \/ Return \/ Execute \/ Discard \/ Welcome
  BY <1>1, <1>3, BetweenKeysEdits
<1>4. CASE Key
  BY <1>1, <1>4, KeyEdits
<1>5. CASE UNCHANGED vars
  <2>1. UNCHANGED <<ring, isr, at, stack, lineVars, histVars, esc, welcomed, did>>
    BY <1>5 DEF vars, termVars, shellVars
  <2>2. LineKept' /\ UNCHANGED Input /\ UNCHANGED Pending
    BY <2>1, LineUntouched DEF EInv, Pending
  <2>3. NothingAhead'
    BY <2>1, <2>2 DEF EInv, NothingAhead
  <2>4. Typed' = Typed /\ Edited' = Edited /\ Greeted' = Greeted
    BY <2>1, <2>2 DEF Typed, Edited, Greeted
  <2> QED BY <1>1, <2>1, <2>2, <2>3, <2>4, Stutters DEF EInv
<1> QED BY <1>2, <1>3, <1>4, <1>5 DEF Next, Core1

\* The shell is the line editor of LineEdit: with buffers, lines, and a history of
\* any size, however the interrupt comes between its steps, a line that is executed
\* or recalled from the history is one that was typed, whatever is left in the
\* buffers.  It is so for a user who types no line ahead (Patient), and the line
\* walked back to may have more behind it (Saved).
THEOREM ShellImplementsLineEdit == Spec => ImplementsLineEdit
<1>1. Init => EInv /\ Editor!Init
  BY InitEdits
<1>2. EInv /\ [Next]_vars => EInv' /\ [Editor!Next]_(Editor!vars)
  BY NextEdits
<1> QED BY <1>1, <1>2, PTL DEF Spec, ImplementsLineEdit, Editor!Spec
=============================================================================

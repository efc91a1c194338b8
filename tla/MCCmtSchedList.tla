--------------------------- MODULE MCCmtSchedList ---------------------------
(* Small instances of CmtSchedList for TLC: callers on core 0 only, and on     *)
(* both cores.                                                                 *)
EXTENDS CmtSchedList

CONSTANTS e1, e2, e3, mA

MCEntries == {e1, e2, e3}
MCFirstFree == <<e1, e2, e3>>
MCMessages == {mA}
MCDelays == 1..2
MCCore0 == {0}
MCBothCores == {0, 1}
MCNobody == {}
=============================================================================

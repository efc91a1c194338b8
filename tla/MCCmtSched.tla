----------------------------- MODULE MCCmtSched -----------------------------
(* A small instance of CmtSched for TLC. *)
EXTENDS CmtSched

CONSTANTS e1, e2, e3, mA

MCEntries == {e1, e2, e3}
MCMessages == {mA}
MCDelays == 1..3
=============================================================================

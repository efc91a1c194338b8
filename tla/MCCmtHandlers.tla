---------------------------- MODULE MCCmtHandlers ----------------------------
(* A small instance of CmtHandlers for TLC: a message both cores handle and   *)
(* one more, and a pool that runs out.                                        *)
EXTENDS CmtHandlers

CONSTANTS e1, e2, e3, m1, m2, h1, h2

MCEntries == {e1, e2, e3}
MCFirstFree == <<e1, e2, e3>>
MCIds == {m1, m2}
MCHandlers == {h1, h2}
MCOneCore == {0, 1}
=============================================================================

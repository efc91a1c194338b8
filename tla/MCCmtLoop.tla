----------------------------- MODULE MCCmtLoop -----------------------------
(* A small instance of CmtLoop for TLC: short queues, so that they fill up. *)
EXTENDS CmtLoop

MCQueueSize == 2
MCHousekeepTicks == 2
=============================================================================

------------------------------ MODULE MCDmLink ------------------------------
(* A small instance of DmLink for TLC. *)
EXTENDS DmLink
=============================================================================

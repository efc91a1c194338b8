------------------------------ MODULE DBusXfer ------------------------------
(***************************************************************************)
(* What dbusc.h promises of a data transfer: the Z80 reads the bytes of    *)
(* the send buffers, each once and in order, the bytes it then writes land *)
(* in the receive buffer, each once and in order, and by the time the      *)
(* operation is over all of them have.  A transfer may be given up.        *)
(***************************************************************************)
EXTENDS Naturals, Sequences

CONSTANTS Requests, MaxRequests

VARIABLES
  req,       \* the transfers asked for so far
  got,       \* transfer -> the bytes the Z80 has read
  put,       \* transfer -> how many bytes the Z80 has written
  buf,       \* transfer -> the bytes in its receive buffer
  over,      \* the transfers that are over
  given_up   \* the transfers that were cancelled

vars == <<req, got, put, buf, over, given_up>>

Live(k) == k \notin over \cup given_up

Init ==
  /\ req = <<>>
  /\ got = [k \in 1..MaxRequests |-> <<>>]
  /\ put = [k \in 1..MaxRequests |-> 0]
  /\ buf = [k \in 1..MaxRequests |-> <<>>]
  /\ over = {} /\ given_up = {}

\* dbus_prep_*, dbus_start_dataop.
Ask ==
  /\ Len(req) < MaxRequests
  /\ \E r \in Requests : req' = Append(req, r)
  /\ UNCHANGED <<got, put, buf, over, given_up>>

\* The Z80 reads the next byte of the send buffers.
Take(k) ==
  /\ Live(k) /\ Len(got[k]) < req[k].send
  /\ got' = [got EXCEPT ![k] = Append(@, <<k, Len(@) + 1>>)]
  /\ UNCHANGED <<req, put, buf, over, given_up>>

\* The Z80 writes a byte ...
Give(k) ==
  /\ Live(k) /\ Len(got[k]) = req[k].send /\ put[k] < req[k].recv
  /\ put' = [put EXCEPT ![k] = @ + 1]
  /\ UNCHANGED <<req, got, buf, over, given_up>>

\* ... which lands in the receive buffer.
Land(k) ==
  /\ Live(k) /\ Len(buf[k]) < put[k]
  /\ buf' = [buf EXCEPT ![k] = Append(@, <<k, Len(@) + 1>>)]
  /\ UNCHANGED <<req, got, put, over, given_up>>

\* The operation is over (MSG_DM_CMDDONE): everything has been transferred.
Finish(k) ==
  /\ Live(k) /\ Len(got[k]) = req[k].send /\ Len(buf[k]) = req[k].recv
  /\ over' = over \cup {k}
  /\ UNCHANGED <<req, got, put, buf, given_up>>

\* dbus_cancel_ops: nothing is promised of the bytes of this transfer.
GiveUp(k) ==
  /\ Live(k)
  /\ given_up' = given_up \cup {k}
  /\ got' = [got EXCEPT ![k] = <<>>]
  /\ put' = [put EXCEPT ![k] = 0]
  /\ buf' = [buf EXCEPT ![k] = <<>>]
  /\ UNCHANGED <<req, over>>

Next ==
  \/ Ask
  \/ \E k \in 1..Len(req) : Take(k) \/ Give(k) \/ Land(k) \/ Finish(k) \/ GiveUp(k)

Spec == Init /\ [][Next]_vars

=============================================================================

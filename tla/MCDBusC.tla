------------------------------ MODULE MCDBusC ------------------------------
EXTENDS DBusC

Transfer(kind_, send_, second_, recv_) ==
  [kind |-> kind_, send |-> send_, second |-> second_, recv |-> recv_]

\* One of each kind, longer than the FIFO where the code allows it.
MCRequests == {Transfer("none", 0, 0, 0), Transfer("send1", 3, 0, 0),
               Transfer("send2", 3, 2, 0), Transfer("recv", 0, 0, 3),
               Transfer("sendrecv", 2, 0, 3)}

=============================================================================

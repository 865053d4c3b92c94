------------------------------ MODULE ShmFifo ------------------------------
(***************************************************************************)
(* What the shared-memory queue between the proxy and the workers promises *)
(* as long as no consumer dies: messages are delivered once, whole and in  *)
(* the order in which they were put into the queue, whichever process      *)
(* takes them.                                                             *)
(***************************************************************************)
EXTENDS Naturals, Sequences

CONSTANT Messages

VARIABLES chan,  \* the messages in the queue
          got    \* the messages taken from it, in the order they were taken

vars == <<chan, got>>

Init == chan = <<>> /\ got = <<>>

Send(m) == chan' = Append(chan, m) /\ UNCHANGED got

Receive ==
  /\ chan # <<>>
  /\ got' = Append(got, Head(chan))
  /\ chan' = Tail(chan)

Next == Receive \/ \E m \in Messages : Send(m)

Spec == Init /\ [][Next]_vars
=============================================================================

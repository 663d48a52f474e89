------------------------------- MODULE LossyFifo -------------------------------
(***************************************************************************)
(* What one forwarding queue promises to its reader: messages come out in  *)
(* the order they were offered, none twice, and an offered message is lost *)
(* only when the queue is full at that moment.  The multiplexer of         *)
(* src/ipc_cmd implements this for each of its queues.                     *)
(***************************************************************************)
EXTENDS Naturals, Sequences

CONSTANTS
  Message,   \* what the queue carries
  Capacity   \* how many messages it holds

VARIABLES
  offered,   \* every message offered to the queue, in order
  buf,       \* what the queue holds
  got        \* what the reader has taken, in order

vars == <<offered, buf, got>>

Init ==
  /\ offered = <<>>
  /\ buf = <<>>
  /\ got = <<>>

Accept(m) ==
  /\ Len(buf) < Capacity
  /\ buf' = Append(buf, m)
  /\ offered' = Append(offered, m)
  /\ UNCHANGED got

Lose(m) ==
  /\ Len(buf) = Capacity
  /\ offered' = Append(offered, m)
  /\ UNCHANGED <<buf, got>>

Take ==
  /\ buf # <<>>
  /\ got' = Append(got, Head(buf))
  /\ buf' = Tail(buf)
  /\ UNCHANGED offered

Next == Take \/ \E m \in Message : Accept(m) \/ Lose(m)

Spec == Init /\ [][Next]_vars
================================================================================

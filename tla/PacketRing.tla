----------------------------- MODULE PacketRing -----------------------------
(***************************************************************************)
(* What the two ends of a connection rely on: a FIFO queue that holds one  *)
(* packet less than it has slots.                                          *)
(***************************************************************************)
EXTENDS Naturals, Sequences

CONSTANTS Packets, BufferSize

VARIABLES q, got          \* what is in the ring; the last packet taken out

Init == q = <<>> /\ got = <<>>

Put(p) ==
  /\ Len(q) < BufferSize - 1
  /\ q' = Append(q, p)
  /\ UNCHANGED got

Get ==
  /\ q # <<>>
  /\ got' = <<Head(q)>>
  /\ q' = Tail(q)

Next == Get \/ \E p \in Packets : Put(p)

Spec == Init /\ [][Next]_<<q, got>>
=============================================================================

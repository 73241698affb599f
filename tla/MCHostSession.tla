--------------------------- MODULE MCHostSession ---------------------------
(***************************************************************************)
(* Three hosts, packets of four bytes and addresses of five bits.  Entries   *)
(* are empty, shorter than a packet, longer by one byte, a multiple, and   *)
(* at the end of the address space.  A ring holds two packets, one of them *)
(* the first one, that is thrown away.                                     *)
(***************************************************************************)
EXTENDS HostSession

CONSTANTS h0, h1, h2

MCHosts == {h0, h1, h2}

E(api, a, n) == [api |-> api, address |-> a, size |-> n]
End == E("T", 0, 0)

Long  == <<E("W", 28, 9), E("R", 0, 8), E("W", 4, 0), End>>
Short == <<E("R", 28, 5), E("W", 0, 3), E("R", 8, 4), End>>
Writes == <<E("W", 8, 12), End>>

Given(t0, t1, t2) ==
  [h \in Hosts |-> CASE h = h0 -> t0 [] h = h1 -> t1 [] OTHER -> t2]

MCTraces == {Given(Long, Short, Writes), Given(Writes, <<End>>, Short)}

(* An interrupted run leaves its shared memory behind. *)
MCLeftover == {<<>>, <<Hello, Piece(E("R", 8, 4), 0)>>}
=============================================================================

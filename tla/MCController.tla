---------------------------- MODULE MCController ----------------------------
(***************************************************************************)
(* Three writes of one host and two reads of the other, to be issued again *)
(* without end: flits full of one kind (an ack comes back while a flit is  *)
(* filled), partial flits, and flits of both kinds.                        *)
(***************************************************************************)
EXTENDS ControllerStream

CONSTANTS h0, h1

MCHosts    == {h0, h1}
MCPktAddrs == {0}
MCTags     == {"x"}

Stream ==
  LET r == ReadPayloads(h1, [addr |-> 0])
      w == WritePayloads(h0, [addr |-> 0, tag |-> "x"])
  IN {r[i] : i \in 1 .. 2} \cup {w[i] : i \in 1 .. 3}
=============================================================================

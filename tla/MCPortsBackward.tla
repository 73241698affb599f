-------------------------- MODULE MCPortsBackward --------------------------
(***************************************************************************)
(* The ports of one host, a read packet of three acks and the first two    *)
(* of a write packet.                                                      *)
(***************************************************************************)
EXTENDS PortsBackward

MCHosts    == {Host}
MCPktAddrs == {0}
MCTags     == {"x"}

Reads(n)  == {ReadPayloads(Host, [addr |-> 0])[i] : i \in 1 .. n}
Writes(n) == {WritePayloads(Host, [addr |-> 0, tag |-> "x"])[i] : i \in 1 .. n}

MCAcks == Reads(PayloadNum) \cup Writes(2)
=============================================================================

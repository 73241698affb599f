--------------------------- MODULE MCPortsForward ---------------------------
(***************************************************************************)
(* The ports of one host, two write packets and two read packets.          *)
(***************************************************************************)
EXTENDS PortsForward

MCHosts    == {Host}
MCPktAddrs == {0, PayloadNum}
MCTags     == {"x"}

Reads(a)  == ReadPayloads(Host, [addr |-> a])
Writes(a) == WritePayloads(Host, [addr |-> a, tag |-> "x"])

MCReadReqs  == Reads(0) \o Reads(PayloadNum)
MCWriteReqs == Writes(0) \o Writes(PayloadNum)

(* A packet of two payloads makes half a group. *)
OneWrite == Writes(0)
=============================================================================

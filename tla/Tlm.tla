-------------------------------- MODULE Tlm --------------------------------
(***************************************************************************)
(* What travels through TSim4CXL: the packets a host process exchanges     *)
(* with the simulator and the generic payloads a packet is cut into.       *)
(*                                                                         *)
(* Addresses are counted in DRAM requests (dram_req_size bytes), so the    *)
(* i-th payload of the packet at address a is at a + i.  The data of a     *)
(* packet is a tag, and the slice of it that payload i carries is          *)
(* <<tag, i>>: enough to tell which write, and which part of it, a memory  *)
(* cell or a read response holds.                                          *)
(***************************************************************************)
EXTENDS Integers, Sequences, FiniteSets

CONSTANTS Hosts,       \* the simulated cores, one SIMWrapper each
          PktAddrs,    \* addresses of packets
          Tags,        \* contents of write packets
          PayloadNum,  \* packet_size / dram_req_size
          NoPayload,   \* the NULL payload pointer
          NoData,      \* a memory cell that was only memset
          NoHost

ASSUME TlmAssumption ==
  /\ IsFiniteSet(Hosts)
  /\ PktAddrs \subseteq Nat
  /\ PayloadNum \in Nat \ {0}
  /\ NoHost \notin Hosts

Slices == 0 .. PayloadNum - 1
Addrs  == {a + i : a \in PktAddrs, i \in Slices}
Cells  == (Tags \X Slices) \cup {NoData}

Packet ==   [type : {"R"}, addr : PktAddrs]
       \cup [type : {"W"}, addr : PktAddrs, tag : Tags]
       \cup [type : {"T"}]

(* A cell that was only memset is told from the slices of every packet.    *)
ASSUME DataAssumption == NoData \notin Tags \cup (Tags \X Slices)

(* The fields of a generic payload the program reads: command, address,    *)
(* the id of the host that issued it, and what its data pointer designates *)
Payload == [cmd : {"R", "W"}, addr : Addrs, id : Hosts, data : Cells]

ASSUME NullAssumption == NoPayload \notin Payload

(* The payloads handle_read_packet and handle_write_packet cut a packet    *)
(* into, in the order add_payload queues them.                             *)
ReadPayloads(h, p) ==
  [i \in 1 .. PayloadNum |->
     [cmd |-> "R", addr |-> p.addr + i - 1, id |-> h, data |-> NoData]]

WritePayloads(h, p) ==
  [i \in 1 .. PayloadNum |->
     [cmd |-> "W", addr |-> p.addr + i - 1, id |-> h,
      data |-> <<p.tag, i - 1>>]]

(* "if (!q.empty()) { x = q.front(); q.pop_front(); dst.push_back(x); }"   *)
Rest(q)       == IF q = <<>> THEN q ELSE Tail(q)
Moved(dst, q) == IF q = <<>> THEN dst ELSE Append(dst, Head(q))
Front(q)      == SubSeq(q, 1, IF q = <<>> THEN 0 ELSE 1)
=============================================================================

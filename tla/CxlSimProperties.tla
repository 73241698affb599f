-------------------------- MODULE CxlSimProperties --------------------------
(***************************************************************************)
(* What the simulator does for traces.  The theorems are about traces in   *)
(* which every packet is written once and read once, by another host or    *)
(* later by the same one, as in those that come with the program.  Runs    *)
(* also take traces outside this discipline.                               *)
(***************************************************************************)
EXTENDS CxlSim

(* The discipline of the traces, under which the theorems state what the   *)
(* runs check.  Two packets are in each other's way if a payload of one    *)
(* kind belongs to both.                                                   *)
Overlap(p, q) == /\ p.type = q.type /\ p.type # "T"
                 /\ PacketAddrs(p.addr) \cap PacketAddrs(q.addr) # {}

(* Payloads of one kind at one address come from one host.                 *)
OwnTraffic ==
  \A prog \in Programs : \A h, g \in Hosts :
    \A p \in Items(prog[h]), q \in Items(prog[g]) : Overlap(p, q) => h = g

(* ... and from one packet: it is written once and read once.              *)
PacketsOnce ==
  \A prog \in Programs : \A h, g \in Hosts :
    \A i \in DOMAIN prog[h], j \in DOMAIN prog[g] :
      Overlap(prog[h][i], prog[g][j]) => h = g /\ i = j

(* A trace ends with its only packet of another type than read and write   *)
(* (host/main.cpp sends it when the trace is through).                     *)
TracesEnd ==
  \A prog \in Programs : \A h \in Hosts :
    /\ prog[h] # <<>>
    /\ \A i \in DOMAIN prog[h] : prog[h][i].type = "T" <=> i = Len(prog[h])

(* Every packet that is written is read.                                   *)
WritesRead ==
  \A prog \in Programs : \A h \in Hosts : \A i \in DOMAIN prog[h] :
    prog[h][i].type = "W" =>
      \E g \in Hosts : \E j \in DOMAIN prog[g] :
        prog[g][j].type = "R" /\ prog[g][j].addr = prog[h][i].addr

-----------------------------------------------------------------------------

(* Every variable keeps its type.  wack_num in particular stays below      *)
(* packet_size/dram_req_size (clock_negedge compares it with =).           *)
TypeOK ==
  Host!TypeOK /\ Sim!TypeOK /\ Lk!TypeOK /\ Sw!TypeOK /\ Mem!TypeOK

(* A raised flag of the SyncObject means the packet is in the backing      *)
(* store, all of it: the flag is raised from a count of write acks that    *)
(* the DRAM may have given to another packet's payloads first.             *)
SignalMeansStored ==
  \A a \in PktAddrs : sync[a] =>
    \E t \in Tags : \A i \in Slices : mem_data[a + i] = <<t, i>>

TagsWrittenAt(a) ==
  {w.tag : w \in {v \in UNION {UNION {Items(prog[h]) : h \in Hosts} :
                                 prog \in Programs} :
                    v.type = "W" /\ v.addr = a}}

(* The answer to a read holds every part of the packet written at its      *)
(* address once, and there is only one answer: parts are collected in      *)
(* packet_data by number only, from acks that crossed three queues, and    *)
(* are read from the backing store when the ack arrives.                   *)
ReadReturnsData ==
  \A h \in Hosts : toHost[h] # <<>> =>
    /\ Len(toHost[h]) = 1
    /\ \E p \in awaiting[h], t \in Tags :
         /\ t \in TagsWrittenAt(p.addr)
         /\ Len(Head(toHost[h])) = PayloadNum
         /\ Items(Head(toHost[h])) = {<<t, i>> : i \in Slices}

(* An answer the host has not taken yet is the newest packet at its        *)
(* address, also where an address is written again after it was read: it   *)
(* is what the store holds and what every write under way brings there, so *)
(* the flag that let the read go on was not left from an earlier packet.   *)
ReadsNewest ==
  \A h \in Hosts : \A answer \in Items(toHost[h]), p \in awaiting[h] :
    /\ \A i \in Slices : mem_data[p.addr + i] \in Items(answer)
    /\ \A w \in Open : w.cmd = "W" /\ w.addr \in PacketAddrs(p.addr) =>
         w.data \in Items(answer)

(* An ack is delivered to the host that issued the request, although the   *)
(* controller finds the port by address and not by payload.                *)
RoutedHome ==
  \A h \in Hosts :
    \A p \in UNION {Items(bw_r[h]), Items(bw_w[h]), OnSlot(rack_incoming[h]),
                    OnSlot(wack_incoming[h]), Items(rack_queue[h]),
                    Items(wack_queue[h])} : p.id = h

(* A thread that polls its ring without letting simulated time pass waits  *)
(* for a host process that is going to send, and not for one that waits    *)
(* for the simulator (periodic_process: "Proceed until the READ is done"). *)
SpinEnds ==
  \A h \in Hosts : spinner = h =>
    \/ toSim[h] # <<>>
    \/ trace[h] # <<>> /\ (awaiting[h] = {} \/ toHost[h] # <<>>)

(* The write packets whose signal is due, counted in payloads, are those   *)
(* still open and those acknowledged since the last signal; and at most    *)
(* one read packet is open, whose parts are open or gathered.              *)
BurstsAddUp ==
  \A h \in Hosts :
    /\ PayloadNum * Len(sync_queue[h])
         = wack_num[h] + Cardinality(OpenOf(h, "W"))
    /\ Cardinality(OpenOf(h, "R")) + Len(packet_data[h]) \in {0, PayloadNum}

(* m_outstanding, by which the DRAM thread decides to end, counts what the *)
(* DRAM simulator holds and what is completed and not yet acknowledged.    *)
DramCountExact ==
  m_outstanding = Cardinality(dram) + Len(m_rack) + Len(m_wack)

(* The parts of an answer stand in the order of their addresses, as in the *)
(* packet that was written (README: "functional simulations").  They are   *)
(* copied in the order of the acks, which is the DRAM's.                   *)
ReadInOrder ==
  \A h \in Hosts : toHost[h] # <<>> =>
    \A i \in DOMAIN Head(toHost[h]) : Head(toHost[h])[i][2] = i - 1

(* When sc_stop is called nothing is under way: every packet was taken,    *)
(* every payload acknowledged, every signal used.  HandleTerminate looks   *)
(* at none of this, and the DRAM thread only at its own requests.          *)
StopIsClean ==
  stopped =>
    /\ Open = {}
    /\ \A h \in Hosts : toSim[h] = <<>> /\ sync_queue[h] = <<>>
                        /\ pc[h] = "exited"
    /\ \A a \in PktAddrs : ~sync[a]

(* Every run ends, with every host answered: no order of the wrappers'     *)
(* waits, the rings, the kernel-wide spin and the DRAM leads to a standstill. *)
RunCompletes ==
  <>(stopped /\ \A h \in Hosts : trace[h] = <<>> /\ awaiting[h] = {})

-----------------------------------------------------------------------------
(* The simulator implements mailboxes.                                     *)

Nothing == NoData

(* The packet that starts at a, all of it. *)
Stored(a) ==
  LET cell == mem_data[a]
  IN IF \E i \in Slices : mem_data[a + i] = NoData \/ mem_data[a + i] # <<cell[1], i>>
       THEN Nothing ELSE cell[1]

(* The packet an answer is made of. *)
Answered(parts) ==
  IF {parts[i] : i \in DOMAIN parts} = {parts[1][1]} \X Slices
    THEN parts[1][1] ELSE Nothing

(* A read is open from the moment it clears the flag to its answer. *)
ReadOpen(h) ==
  /\ awaiting[h] # {} /\ toSim[h] = <<>> /\ toHost[h] = <<>>
  /\ pc[h] \in {"read", "poll"} /\ pkt[h].type = "R"

Boxes == INSTANCE Mailbox WITH
  box    <- [a \in PktAddrs |-> IF sync[a] THEN Stored(a) ELSE Nothing],
  held   <- [h \in Hosts |->
               IF ReadOpen(h) THEN Stored(pkt[h].addr) ELSE Nothing],
  answer <- [h \in Hosts |->
               IF toHost[h] = <<>> THEN Nothing
                 ELSE Answered(Head(toHost[h]))]

(* Writes fill mailboxes and reads empty them: no signal is raised twice   *)
(* before it is used, no read starts without one, and a read is answered   *)
(* with what was stored when it cleared the flag, although its payloads    *)
(* are fetched later and one by one.                                       *)
ImplementsMailbox == Boxes!Spec
=============================================================================

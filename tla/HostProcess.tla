---------------------------- MODULE HostProcess ----------------------------
(***************************************************************************)
(* The host process (host/main.cpp, traceGenerator, packetManager): it     *)
(* runs through its trace, one packet at a time, and blocks on the answer  *)
(* of every read.  It is a separate operating system process; the packets  *)
(* travel through two shared-memory rings, here the FIFO queues that       *)
(* module PacketBuffer shows them to be.                                   *)
(***************************************************************************)
EXTENDS Tlm

CONSTANTS Programs,     \* the traces, cut into packets: one of them is run
          BufferSize    \* PKT_BUFFER_SIZE, a ring holds one packet less

VARIABLES trace,     \* what the host still has to send
          awaiting,  \* the read it is blocked on: a set of at most one packet
          toSim, toHost

own == <<trace, awaiting, toSim, toHost>>

Init ==
  /\ trace \in Programs
  /\ awaiting = [h \in Hosts |-> {}]
  /\ toSim = [h \in Hosts |-> <<>>]
  /\ toHost = [h \in Hosts |-> <<>>]

(* readRequest, writeRequest, terminateRequest: sendPacket waits while the *)
(* ring is full.                                                           *)
Send(h) ==
  /\ trace[h] # <<>>
  /\ awaiting[h] = {}
  /\ Len(toSim[h]) < BufferSize - 1
  /\ toSim' = [toSim EXCEPT ![h] = Append(@, Head(trace[h]))]
  /\ trace' = [trace EXCEPT ![h] = Tail(@)]
  /\ awaiting' = [awaiting EXCEPT ![h] =
                    {p \in {Head(trace[h])} : p.type = "R"}]
  /\ UNCHANGED toHost

(* readPacketData: recvPacket waits while the ring is empty. *)
GetResponse(h) ==
  /\ awaiting[h] # {}
  /\ toHost[h] # <<>>
  /\ toHost' = [toHost EXCEPT ![h] = Tail(@)]
  /\ awaiting' = [awaiting EXCEPT ![h] = {}]
  /\ UNCHANGED <<trace, toSim>>

(* The simulator's ends of the rings: recv_packet, and response_request    *)
(* with at most one response.                                              *)
GiveRequest(h) ==
  /\ toSim[h] # <<>>
  /\ toSim' = [toSim EXCEPT ![h] = Tail(@)]
  /\ UNCHANGED <<trace, awaiting, toHost>>

TakeResponses(h, rs) ==
  /\ rs # <<>> => Len(toHost[h]) < BufferSize - 1
  /\ toHost' = [toHost EXCEPT ![h] = @ \o rs]
  /\ UNCHANGED <<trace, awaiting, toSim>>

TypeOK ==
  /\ trace \in [Hosts -> Seq(Packet)]
  /\ awaiting \in [Hosts -> SUBSET Packet]
  /\ toSim \in [Hosts -> Seq(Packet)]
  /\ toHost \in [Hosts -> Seq(Seq(Cells))]
=============================================================================

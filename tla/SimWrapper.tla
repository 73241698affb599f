----------------------------- MODULE SimWrapper -----------------------------
(***************************************************************************)
(* SIMWrapper (components/wrapper/sim_wrapper.cpp): the simulator's side   *)
(* of one host.  periodic_process takes packets from the host process,     *)
(* synchronises reads with writes through the global SyncObject and cuts   *)
(* packets into payloads; the two clock methods move payloads out and      *)
(* acknowledgements in, one of each kind per clock cycle.                  *)
(*                                                                         *)
(* SystemC threads are cooperative: the code between two wait() calls is   *)
(* one action.  A wait is modelled by the program counter, and by the      *)
(* freedom of every other process to run before this one's next action.    *)
(* recv_packet does not wait in simulated time: a loop around it with no   *)
(* wait() stops the whole kernel (`spinner').                              *)
(*                                                                         *)
(* The module changes its own state and the simulator's globals only; the  *)
(* system module joins its actions with the neighbours' handlers.          *)
(***************************************************************************)
EXTENDS Tlm

VARIABLES
  \* SIMWrapper, one per host
  pc, pkt, req_done, r_queue, w_queue, rack_queue, wack_queue,
  rack_incoming, wack_incoming, sync_queue, packet_data, wack_num,
  outstanding,
  \* globals of the simulator
  sync,           \* SyncObject: one flag per packet address
  active_cores,
  spinner,        \* the host whose thread loops without wait(), if any
  stopped,        \* sc_stop() was called
  \* neighbours' state it reads
  toSim,          \* packets from the host process
  active_dram,
  mem_data        \* backing store: read payloads point into it

requests == <<r_queue, w_queue>>
acks     == <<rack_queue, wack_queue, rack_incoming, wack_incoming>>
bursts   == <<sync_queue, packet_data, wack_num, outstanding>>
global   == <<sync, active_cores, spinner, stopped>>
own      == <<pc, pkt, req_done, requests, acks, bursts, global>>

Init ==
  /\ pc = [h \in Hosts |-> "first"]
  /\ pkt = [h \in Hosts |-> [type |-> "T"]]
  /\ req_done = [h \in Hosts |-> FALSE]
  /\ r_queue = [h \in Hosts |-> <<>>]
  /\ w_queue = [h \in Hosts |-> <<>>]
  /\ rack_queue = [h \in Hosts |-> <<>>]
  /\ wack_queue = [h \in Hosts |-> <<>>]
  /\ rack_incoming = [h \in Hosts |-> NoPayload]
  /\ wack_incoming = [h \in Hosts |-> NoPayload]
  /\ sync_queue = [h \in Hosts |-> <<>>]
  /\ packet_data = [h \in Hosts |-> <<>>]
  /\ wack_num = [h \in Hosts |-> 0]
  /\ outstanding = [h \in Hosts |-> 0]
  /\ sync = [a \in PktAddrs |-> FALSE]
  /\ active_cores = Cardinality(Hosts)
  /\ spinner = NoHost
  /\ stopped = FALSE

Step(h, from, to) ==
  /\ pc[h] = from
  /\ pc' = [pc EXCEPT ![h] = to]

-----------------------------------------------------------------------------
(* periodic_process                                                        *)

(* Where a received packet leads: handle_packet, after wait(delta).  Every *)
(* type but read and write ends the host.                                  *)
Handler(p) == CASE p.type = "R" -> "sync"
                [] p.type = "W" -> "write"
                [] OTHER        -> "terminate"

(* recv_packet returns a packet. *)
Receive(h) ==
  /\ pc[h] \in {"first", "poll"}
  /\ spinner \in {NoHost, h}
  /\ toSim[h] # <<>>
  /\ pkt' = [pkt EXCEPT ![h] = Head(toSim[h])]
  /\ pc' = [pc EXCEPT ![h] = Handler(Head(toSim[h]))]
  /\ spinner' = NoHost
  /\ UNCHANGED <<req_done, requests, acks, bursts, sync, active_cores,
                 stopped>>

(* recv_packet returns nothing on a path with no wait(): before the first  *)
(* packet, and as long as the last read is done.  (On the path with the    *)
(* wait nothing changes, and the poll is not a step.)                      *)
Spin(h) ==
  /\ pc[h] = "first" \/ (pc[h] = "poll" /\ req_done[h])
  /\ toSim[h] = <<>>
  /\ spinner' = h
  /\ UNCHANGED <<pc, pkt, req_done, requests, acks, bursts, sync,
                 active_cores, stopped>>

(* mutant: the result of the test is not looked at *)
CheckSignalIgnored(h) ==
  /\ Step(h, "sync", "free")
  /\ UNCHANGED <<pkt, req_done, requests, acks, bursts, global>>

(* handle_wait_packet: the flag is tested, and cleared one period later. A *)
(* test that fails changes nothing and is not a step.                      *)
CheckSignal(h) ==
  /\ Step(h, "sync", "free")
  /\ sync[pkt[h].addr]
  /\ UNCHANGED <<pkt, req_done, requests, acks, bursts, global>>

(* mutant: the flag stays up *)
FreeSignalKept(h) ==
  /\ Step(h, "free", "read")
  /\ UNCHANGED <<pkt, req_done, requests, acks, bursts, global>>

(* mutant: the loop of handle_wait_packet is not left *)
FreeSignalAgain(h) ==
  /\ Step(h, "free", "sync")
  /\ UNCHANGED <<pkt, req_done, requests, acks, bursts, global>>

FreeSignal(h) ==
  /\ Step(h, "free", "read")
  /\ sync' = [sync EXCEPT ![pkt[h].addr] = FALSE]
  /\ UNCHANGED <<pkt, req_done, requests, acks, bursts, active_cores,
                 spinner, stopped>>

(* mutant: req_done is left over from the last read *)
HandleReadDone(h) ==
  /\ Step(h, "read", "poll")
  /\ r_queue' = [r_queue EXCEPT ![h] = @ \o ReadPayloads(h, pkt[h])]
  /\ UNCHANGED <<pkt, req_done, w_queue, acks, bursts, global>>

HandleRead(h) ==
  /\ Step(h, "read", "poll")
  /\ req_done' = [req_done EXCEPT ![h] = FALSE]
  /\ r_queue' = [r_queue EXCEPT ![h] = @ \o ReadPayloads(h, pkt[h])]
  /\ UNCHANGED <<pkt, w_queue, acks, bursts, global>>

HandleWrite(h) ==
  /\ Step(h, "write", "poll")
  /\ req_done' = [req_done EXCEPT ![h] = FALSE]
  /\ sync_queue' = [sync_queue EXCEPT ![h] = Append(@, pkt[h].addr)]
  /\ w_queue' = [w_queue EXCEPT ![h] = @ \o WritePayloads(h, pkt[h])]
  /\ UNCHANGED <<pkt, r_queue, acks, packet_data, wack_num, outstanding,
                 global>>

(* update_status(TERMINATED), and one period later the thread counts its   *)
(* core out; neither looks at the payloads still on their way.             *)
HandleTerminate(h) ==
  /\ Step(h, "terminate", "exiting")
  /\ UNCHANGED <<pkt, req_done, requests, acks, bursts, global>>

LeaveCore(h) ==
  /\ Step(h, "exiting", "exited")
  /\ active_cores' = active_cores - 1
  /\ UNCHANGED <<pkt, req_done, requests, acks, bursts, sync, spinner,
                 stopped>>

(* mutant: without a look at active_dram *)
StopAtOnce(h) ==
  /\ pc[h] = "exited"
  /\ stopped' = TRUE
  /\ UNCHANGED <<pc, pkt, req_done, requests, acks, bursts, sync,
                 active_cores, spinner>>

(* The loop is left and the simulation with it: sc_stop(). *)
Stop(h) ==
  /\ pc[h] = "exited"
  /\ active_dram = 0
  /\ stopped' = TRUE
  /\ UNCHANGED <<pc, pkt, req_done, requests, acks, bursts, sync,
                 active_cores, spinner>>

-----------------------------------------------------------------------------
(* The clock methods                                                       *)

Slot(s) == IF s = NoPayload THEN <<>> ELSE <<s>>

ClockPosedge(h) ==
  /\ rack_queue' = [rack_queue EXCEPT ![h] = @ \o Slot(rack_incoming[h])]
  /\ wack_queue' = [wack_queue EXCEPT ![h] = @ \o Slot(wack_incoming[h])]
  /\ rack_incoming' = [rack_incoming EXCEPT ![h] = NoPayload]
  /\ wack_incoming' = [wack_incoming EXCEPT ![h] = NoPayload]
  /\ UNCHANGED <<pc, pkt, req_done, requests, bursts, global>>

(* A read ack: memcpy through the payload's data pointer into the next     *)
(* free part of packet_data, so the parts are in the order of the acks.    *)
Gathered(h) ==
  IF rack_queue[h] = <<>> THEN packet_data[h]
  ELSE Append(packet_data[h], mem_data[Head(rack_queue[h]).addr])

(* mutant: a response for every ack *)
ReadCompleteEach(h) == rack_queue[h] # <<>>

ReadComplete(h) == rack_queue[h] # <<>> /\ Len(Gathered(h)) = PayloadNum

(* mutants: a signal for every ack; the count compared before it is raised *)
WriteCompleteEach(h) == wack_queue[h] # <<>>
WriteCompleteLate(h) == wack_queue[h] # <<>> /\ wack_num[h] = PayloadNum

(* Every PayloadNum-th write ack, whichever write it belongs to, raises    *)
(* the flag of the oldest write packet.                                    *)
WriteComplete(h) == wack_queue[h] # <<>> /\ wack_num[h] + 1 = PayloadNum

Popped(q) == Len(Front(q))

(* outstanding++ in forward_trans, outstanding-- for every ack. *)
NewlyOutstanding(h) ==
  Popped(r_queue[h]) + Popped(w_queue[h])
    - Popped(rack_queue[h]) - Popped(wack_queue[h])

ClockNegedge(h) ==
  /\ \E q \in {r_queue, w_queue, rack_queue, wack_queue} : q[h] # <<>>
  \* READ and WRITE: forward_trans
  /\ r_queue' = [r_queue EXCEPT ![h] = Rest(@)]
  /\ w_queue' = [w_queue EXCEPT ![h] = Rest(@)]
  \* RACK
  /\ rack_queue' = [rack_queue EXCEPT ![h] = Rest(@)]
  /\ packet_data' = [packet_data EXCEPT ![h] =
                       IF ReadComplete(h) THEN <<>> ELSE Gathered(h)]
  /\ req_done' = [req_done EXCEPT ![h] = @ \/ ReadComplete(h)]
  \* WACK
  /\ wack_queue' = [wack_queue EXCEPT ![h] = Rest(@)]
  /\ wack_num' = [wack_num EXCEPT ![h] =
                    IF WriteComplete(h) THEN 0 ELSE @ + Popped(wack_queue[h])]
  /\ sync_queue' = [sync_queue EXCEPT ![h] =
                      IF WriteComplete(h) THEN Tail(@) ELSE @]
  /\ sync' = IF WriteComplete(h)
               THEN [sync EXCEPT ![Head(sync_queue[h])] = TRUE] ELSE sync
  /\ outstanding' = [outstanding EXCEPT ![h] = @ + NewlyOutstanding(h)]
  /\ UNCHANGED <<pc, pkt, rack_incoming, wack_incoming, active_cores,
                 spinner, stopped>>

(* nb_transport_bw and, a delta cycle later, peq_cb: one slot per kind.    *)
TakeRack(h, p) ==
  /\ rack_incoming' = [rack_incoming EXCEPT ![h] = p]
  /\ UNCHANGED <<pc, pkt, req_done, requests, rack_queue, wack_queue,
                 wack_incoming, bursts, global>>

TakeWack(h, p) ==
  /\ wack_incoming' = [wack_incoming EXCEPT ![h] = p]
  /\ UNCHANGED <<pc, pkt, req_done, requests, rack_queue, wack_queue,
                 rack_incoming, bursts, global>>

-----------------------------------------------------------------------------
TypeOK ==
  /\ pc \in [Hosts -> {"first", "poll", "sync", "free", "read", "write",
                       "terminate", "exiting", "exited"}]
  /\ pkt \in [Hosts -> Packet]
  /\ req_done \in [Hosts -> BOOLEAN]
  /\ r_queue \in [Hosts -> Seq(Payload)]
  /\ w_queue \in [Hosts -> Seq(Payload)]
  /\ rack_queue \in [Hosts -> Seq(Payload)]
  /\ wack_queue \in [Hosts -> Seq(Payload)]
  /\ rack_incoming \in [Hosts -> Payload \cup {NoPayload}]
  /\ wack_incoming \in [Hosts -> Payload \cup {NoPayload}]
  /\ sync_queue \in [Hosts -> Seq(PktAddrs)]
  /\ packet_data \in [Hosts -> Seq(Cells)]
  /\ wack_num \in [Hosts -> Slices]
  /\ outstanding \in [Hosts -> Int]
  /\ sync \in [PktAddrs -> BOOLEAN]
  /\ active_cores \in Int
  /\ spinner \in Hosts \cup {NoHost}
  /\ stopped \in BOOLEAN
=============================================================================

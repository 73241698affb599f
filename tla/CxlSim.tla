------------------------------- MODULE CxlSim -------------------------------
(***************************************************************************)
(* The whole simulator: one host process, one SIMWrapper and one pair of   *)
(* ports per host, the CXL controller, and one memory device.  An action   *)
(* of this module is a step of one thread or clock method, joined with the *)
(* handler it calls in its neighbour (nb_transport_fw, nb_transport_bw, a  *)
(* read or a write of a packet ring).                                      *)
(*                                                                         *)
(* The SystemC kernel is one operating system thread.  It runs its         *)
(* processes in an order that depends on latencies and clock frequencies,  *)
(* all of them configurable: the model lets every process that can step be *)
(* the next one.  While a periodic_process polls its ring without wait(),  *)
(* that poll is the only thing the kernel does; the host processes go on.  *)
(***************************************************************************)
EXTENDS Tlm

CONSTANTS Programs,     \* see HostProcess
          BufferSize

ASSUME HostAssumption ==
  /\ Programs \subseteq [Hosts -> Seq(Packet)]
  /\ BufferSize \in Nat \ {0, 1}

VARIABLES
  trace, awaiting, toSim, toHost,
  pc, pkt, req_done, r_queue, w_queue, rack_queue, wack_queue,
  rack_incoming, wack_incoming, sync_queue, packet_data, wack_num,
  outstanding, sync, active_cores, spinner, stopped,
  fw_r, fw_w, bw_r, bw_w, paced_r, paced_w,
  c_r, c_w, c_rack, c_wack, r_trans_id, w_trans_id,
  m_r, m_w, mem_request, dram, m_rack, m_wack, m_outstanding, mem_data,
  active_dram

Host == INSTANCE HostProcess
Sim  == INSTANCE SimWrapper
Lk   == INSTANCE Link
Sw   == INSTANCE Switch
Mem  == INSTANCE MemWrapper

(* The components' own variables. *)
hostVars   == <<trace, awaiting, toSim, toHost>>
simVars    == <<pc, pkt, req_done, r_queue, w_queue, rack_queue, wack_queue,
                rack_incoming, wack_incoming, sync_queue, packet_data,
                wack_num, outstanding, sync, active_cores, spinner, stopped>>
linkVars   == <<fw_r, fw_w, bw_r, bw_w, paced_r, paced_w>>
switchVars == <<c_r, c_w, c_rack, c_wack, r_trans_id, w_trans_id>>
memVars    == <<m_r, m_w, mem_request, dram, m_rack, m_wack, m_outstanding,
                mem_data, active_dram>>
vars       == <<hostVars, simVars, linkVars, switchVars, memVars>>

Init == Host!Init /\ Sim!Init /\ Lk!Init /\ Sw!Init /\ Mem!Init

-----------------------------------------------------------------------------
(* Host processes, and the rings between them and the simulator            *)

Send(h) ==
  Host!Send(h) /\ UNCHANGED <<simVars, linkVars, switchVars, memVars>>

GetResponse(h) ==
  Host!GetResponse(h) /\ UNCHANGED <<simVars, linkVars, switchVars, memVars>>

HostStep(h) == Send(h) \/ GetResponse(h)

(* The kernel can start another process. *)
KernelRuns == spinner = NoHost /\ ~stopped

Receive(h) ==
  /\ ~stopped
  /\ Sim!Receive(h) /\ Host!GiveRequest(h)
  /\ UNCHANGED <<linkVars, switchVars, memVars>>

(* The other steps of periodic_process change only the wrapper. *)
WrapperAlone(h) ==
  /\ KernelRuns
  /\ \/ Sim!Spin(h)
     \/ Sim!CheckSignal(h)
     \/ Sim!FreeSignal(h)
     \/ Sim!HandleRead(h)
     \/ Sim!HandleWrite(h)
     \/ Sim!HandleTerminate(h)
     \/ Sim!LeaveCore(h)
     \/ Sim!Stop(h)
  /\ UNCHANGED <<hostVars, linkVars, switchVars, memVars>>

-----------------------------------------------------------------------------
(* The clock methods of a wrapper                                          *)

SimPosedge(h) ==
  /\ KernelRuns
  /\ \/ {rack_incoming[h], wack_incoming[h]} # {NoPayload}
     \/ ~paced_r[h] \/ ~paced_w[h]
  /\ Sim!ClockPosedge(h) /\ Lk!Edge(h)
  /\ UNCHANGED <<hostVars, switchVars, memVars>>

Response(h) == IF Sim!ReadComplete(h) THEN <<Sim!Gathered(h)>> ELSE <<>>

SimNegedge(h) ==
  /\ KernelRuns
  /\ Sim!ClockNegedge(h)
  /\ Lk!TakeRequests(h, Front(r_queue[h]), Front(w_queue[h]))
  /\ Host!TakeResponses(h, Response(h))
  /\ UNCHANGED <<switchVars, memVars>>

-----------------------------------------------------------------------------
(* Requests on their way down, acknowledgements on their way up            *)

LinkForward(h) ==
  /\ KernelRuns
  /\ \/ Lk!SendRequests(h, 1, 0) /\ Sw!TakeRead(h, Head(fw_r[h]))
     \/ Lk!SendRequests(h, 0, 1) /\ Sw!TakeWrite(h, Head(fw_w[h]))
  /\ UNCHANGED <<hostVars, simVars, memVars>>

SwitchForward ==
  /\ KernelRuns
  /\ \/ Sw!SendRead  /\ Mem!TakeRead(Head(c_r))
     \/ Sw!SendWrite /\ Mem!TakeWrite(Head(c_w))
  /\ UNCHANGED <<hostVars, simVars, linkVars>>

MemPosedge ==
  /\ KernelRuns
  /\ Mem!ClockPosedge
  /\ UNCHANGED <<hostVars, simVars, linkVars, switchVars>>

SimulateDram ==
  /\ KernelRuns
  /\ \E done \in Mem!Completed : Mem!SimulateDram(done)
  /\ UNCHANGED <<hostVars, simVars, linkVars, switchVars>>

MemNegedge ==
  /\ KernelRuns
  /\ Mem!ClockNegedge /\ Sw!TakeAcks(Front(m_rack), Front(m_wack))
  /\ UNCHANGED <<hostVars, simVars, linkVars>>

SwitchBackward ==
  /\ KernelRuns
  /\ \/ Sw!SendRack /\ Lk!TakeRack(Sw!RackPort, Head(c_rack))
     \/ Sw!SendWacks(1) /\ Lk!TakeWack(Sw!WackPort, Head(c_wack))
  /\ UNCHANGED <<hostVars, simVars, memVars>>

LinkBackward(h) ==
  /\ KernelRuns
  /\ \/ Lk!SendRack(h) /\ Sim!TakeRack(h, Head(bw_r[h]))
     \/ Lk!SendWack(h) /\ Sim!TakeWack(h, Head(bw_w[h]))
  /\ UNCHANGED <<hostVars, switchVars, memVars>>

-----------------------------------------------------------------------------
KernelStep ==
  \/ \E h \in Hosts : \/ Receive(h)
                      \/ WrapperAlone(h)
                      \/ SimPosedge(h)
                      \/ SimNegedge(h)
                      \/ LinkForward(h)
                      \/ LinkBackward(h)
  \/ SwitchForward
  \/ MemPosedge
  \/ SimulateDram
  \/ MemNegedge
  \/ SwitchBackward

(* The simulator has stopped and the host processes are done: the only     *)
(* state the system may rest in.                                           *)
Finished ==
  /\ stopped
  /\ \A h \in Hosts : trace[h] = <<>> /\ awaiting[h] = {}
  /\ UNCHANGED vars

Next == \/ KernelStep
        \/ \E h \in Hosts : HostStep(h)
        \/ Finished

(* The kernel runs the processes whose time has come, and the operating    *)
(* system runs every host process.  Polls that find nothing are no steps   *)
(* of the model, so a step of the kernel always moves something on.        *)
Fairness == WF_vars(KernelStep) /\ \A h \in Hosts : WF_vars(HostStep(h))

Spec     == Init /\ [][Next]_vars
FairSpec == Spec /\ Fairness

-----------------------------------------------------------------------------
(* Where payloads are                                                      *)

Items(q)  == {q[i] : i \in DOMAIN q}
OnSlot(s) == {s} \ {NoPayload}

(* Forwarded by the wrapper, and not yet acknowledged to it. *)
InFlight ==
  (UNION {UNION {Items(fw_r[h]), Items(fw_w[h]), Items(bw_r[h]),
                 Items(bw_w[h]), OnSlot(rack_incoming[h]),
                 OnSlot(wack_incoming[h]), Items(rack_queue[h]),
                 Items(wack_queue[h])} : h \in Hosts})
  \cup UNION {Items(c_r), Items(c_w), Items(c_rack), Items(c_wack),
              Items(m_r), Items(m_w), Items(mem_request), dram,
              Items(m_rack), Items(m_wack)}

(* Cut from a packet by the wrapper, and not yet acknowledged. *)
Open == InFlight \cup UNION {Items(r_queue[h]) \cup Items(w_queue[h]) :
                               h \in Hosts}

OpenOf(h, c) == {p \in Open : p.id = h /\ p.cmd = c}

PacketAddrs(a) == {a + i : i \in Slices}
=============================================================================

----------------------------- MODULE MemWrapper -----------------------------
(***************************************************************************)
(* MEMWrapper (components/wrapper/mem_wrapper.cpp): one memory device.     *)
(* Writes reach the backing store on arrival; the copy of every request    *)
(* then goes through the DRAM simulator, which gives it its latency and    *)
(* decides the order of the acknowledgements.                              *)
(*                                                                         *)
(* `dram' is what Bridge and Ramulator hold: a command is in it from       *)
(* sendCommand to the getCompletedCommand that returns it, and may be      *)
(* completed in any order (the scheduler is row-hit first).                *)
(***************************************************************************)
EXTENDS Tlm

VARIABLES m_r, m_w,         \* arrived, not yet seen by the clock
          mem_request,      \* waiting for the next DRAM cycle
          dram,
          m_rack, m_wack,   \* completed, not yet acknowledged
          m_outstanding, mem_data,
          active_dram,      \* global: the DRAM thread still runs
          active_cores      \* global, read only

own == <<m_r, m_w, mem_request, dram, m_rack, m_wack, m_outstanding,
         mem_data, active_dram>>

Init ==
  /\ m_r = <<>>
  /\ m_w = <<>>
  /\ mem_request = <<>>
  /\ dram = {}
  /\ m_rack = <<>>
  /\ m_wack = <<>>
  /\ m_outstanding = 0
  /\ mem_data = [a \in Addrs |-> NoData]
  /\ active_dram = 1

(* nb_transport_fw and, a delta cycle later, peq_cb. *)
TakeRead(p) ==
  /\ m_r' = Append(m_r, p)
  /\ UNCHANGED <<m_w, mem_request, dram, m_rack, m_wack, m_outstanding,
                 mem_data, active_dram>>

TakeWrite(p) ==
  /\ mem_data' = [mem_data EXCEPT ![p.addr] = p.data]
  /\ m_w' = Append(m_w, p)
  /\ UNCHANGED <<m_r, mem_request, dram, m_rack, m_wack, m_outstanding,
                 active_dram>>

ClockPosedge ==
  /\ m_r # <<>> \/ m_w # <<>>
  /\ mem_request' = Moved(Moved(mem_request, m_r), m_w)
  /\ m_r' = Rest(m_r)
  /\ m_w' = Rest(m_w)
  /\ UNCHANGED <<dram, m_rack, m_wack, m_outstanding, mem_data, active_dram>>

(* The completed command as a queue of at most one ack of kind c. *)
Acks(done, c) == IF \E p \in done : p.cmd = c
                   THEN <<CHOOSE p \in done : TRUE>> ELSE <<>>

(* One turn of simulate_dram: at most one completed command is fetched,    *)
(* all waiting requests are sent, and the thread ends if no core is active *)
(* and nothing sent is unacknowledged.  A turn that changes nothing is not *)
(* a step.                                                                 *)
SimulateDram(done) ==
  LET sent     == {mem_request[i] : i \in DOMAIN mem_request}
      finished == active_cores = 0 /\ m_outstanding + Len(mem_request) = 0
  IN
  /\ active_dram = 1
  /\ done # {} \/ mem_request # <<>> \/ finished
  /\ m_rack' = m_rack \o Acks(done, "R")
  /\ m_wack' = m_wack \o Acks(done, "W")
  /\ dram' = (dram \ done) \cup sent
  /\ mem_request' = <<>>
  /\ m_outstanding' = m_outstanding + Len(mem_request)
  /\ active_dram' = IF finished THEN 0 ELSE 1
  /\ UNCHANGED <<m_r, m_w, mem_data>>

(* What getCompletedCommand may return. *)
Completed == {{}} \cup {{p} : p \in dram}

(* mutant: m_outstanding counts clock edges with an ack, not acks *)
ClockNegedgeOnce ==
  /\ m_rack # <<>> \/ m_wack # <<>>
  /\ m_rack' = Rest(m_rack)
  /\ m_wack' = Rest(m_wack)
  /\ m_outstanding' = m_outstanding - 1
  /\ UNCHANGED <<m_r, m_w, mem_request, dram, mem_data, active_dram>>

(* RACK and WACK: backward_trans. *)
ClockNegedge ==
  /\ m_rack # <<>> \/ m_wack # <<>>
  /\ m_rack' = Rest(m_rack)
  /\ m_wack' = Rest(m_wack)
  /\ m_outstanding' = m_outstanding - Len(Front(m_rack)) - Len(Front(m_wack))
  /\ UNCHANGED <<m_r, m_w, mem_request, dram, mem_data, active_dram>>

TypeOK ==
  /\ m_r \in Seq(Payload)
  /\ m_w \in Seq(Payload)
  /\ mem_request \in Seq(Payload)
  /\ dram \subseteq Payload
  /\ m_rack \in Seq(Payload)
  /\ m_wack \in Seq(Payload)
  /\ m_outstanding \in Int
  /\ mem_data \in [Addrs -> Cells]
  /\ active_dram \in {0, 1}
=============================================================================

----------------------------- MODULE Controller -----------------------------
(***************************************************************************)
(* The CXL controller (components/controller.cpp): fw_thread sends the     *)
(* requests of all ports to the memory, one read and one write a turn;     *)
(* bw_thread packs acknowledgements into flits (three DRS, or two NDR, or  *)
(* two NDR and one DRS) and sends each to the port that r_trans_id or      *)
(* w_trans_id holds for its address.                                       *)
(*                                                                         *)
(* Both threads test their queues, wait, and pop.  The guards of the steps *)
(* after a wait do not look at the queues; PopsSafe says that they need    *)
(* not (popping an empty deque is undefined behaviour).                    *)
(*                                                                         *)
(* The ports offer every request of Requests once, in any order; the       *)
(* memory acknowledges what it got, in any order.                          *)
(***************************************************************************)
EXTENDS Tlm

CONSTANT Requests      \* what the ports may forward

ASSUME ControllerAssumption == Requests \subseteq Payload

VARIABLES
  at_ports, at_mem,       \* requests not yet forwarded; not yet acknowledged
  r_queue, w_queue, rack_queue, wack_queue, r_trans_id, w_trans_id,
  fw_pc, bw_pc,           \* the wait() each thread is in
  flit,                   \* bw_thread: acks that may still join the flit
  delivered               \* port -> the acks it was given

queues    == <<r_queue, w_queue, rack_queue, wack_queue>>
tables    == <<r_trans_id, w_trans_id>>
neighbour == <<at_ports, at_mem>>
vars == <<neighbour, queues, tables, fw_pc, bw_pc, flit, delivered>>

Init ==
  /\ at_ports = Requests
  /\ at_mem = {}
  /\ r_queue = <<>>
  /\ w_queue = <<>>
  /\ rack_queue = <<>>
  /\ wack_queue = <<>>
  /\ r_trans_id = [a \in Addrs |-> NoHost]
  /\ w_trans_id = [a \in Addrs |-> NoHost]
  /\ fw_pc = "loop"
  /\ bw_pc = "loop"
  /\ flit = 0
  /\ delivered = [h \in Hosts |-> {}]

(* mutant: the port is noted in one table, whatever the command *)
TakeRequestOneTable(p) ==
  /\ p \in at_ports
  /\ at_ports' = at_ports \ {p}
  /\ IF p.cmd = "R"
       THEN r_queue' = Append(r_queue, p) /\ UNCHANGED w_queue
       ELSE w_queue' = Append(w_queue, p) /\ UNCHANGED r_queue
  /\ r_trans_id' = [r_trans_id EXCEPT ![p.addr] = p.id]
  /\ UNCHANGED <<at_mem, rack_queue, wack_queue, w_trans_id, fw_pc, bw_pc,
                 flit, delivered>>

(* nb_transport_fw, called by the port of the host that issued p. *)
TakeRequest(p) ==
  /\ p \in at_ports
  /\ at_ports' = at_ports \ {p}
  /\ IF p.cmd = "R"
       THEN /\ r_queue' = Append(r_queue, p)
            /\ r_trans_id' = [r_trans_id EXCEPT ![p.addr] = p.id]
            /\ UNCHANGED <<w_queue, w_trans_id>>
       ELSE /\ w_queue' = Append(w_queue, p)
            /\ w_trans_id' = [w_trans_id EXCEPT ![p.addr] = p.id]
            /\ UNCHANGED <<r_queue, r_trans_id>>
  /\ UNCHANGED <<at_mem, rack_queue, wack_queue, fw_pc, bw_pc, flit,
                 delivered>>

(* nb_transport_bw, called by the memory. *)
TakeAck(p) ==
  /\ p \in at_mem
  /\ at_mem' = at_mem \ {p}
  /\ IF p.cmd = "R"
       THEN /\ rack_queue' = Append(rack_queue, p)
            /\ UNCHANGED wack_queue
       ELSE /\ wack_queue' = Append(wack_queue, p)
            /\ UNCHANGED rack_queue
  /\ UNCHANGED <<at_ports, r_queue, w_queue, tables, fw_pc, bw_pc, flit,
                 delivered>>

-----------------------------------------------------------------------------
(* fw_thread                                                               *)

bwState == <<rack_queue, wack_queue, bw_pc, flit, delivered>>

FwLoop ==
  /\ fw_pc = "loop"
  /\ \/ r_queue # <<>> /\ fw_pc' = "read"
     \/ r_queue = <<>> /\ w_queue # <<>> /\ fw_pc' = "write"
  /\ UNCHANGED <<neighbour, r_queue, w_queue, tables, bwState>>

(* mutant: a turn is for a read, and for a write only if there was none *)
SendReadElse ==
  /\ fw_pc = "read"
  /\ at_mem' = at_mem \cup {Head(r_queue)}
  /\ r_queue' = Tail(r_queue)
  /\ fw_pc' = "loop"
  /\ UNCHANGED <<at_ports, w_queue, tables, bwState>>

SendRead ==
  /\ fw_pc = "read"
  /\ at_mem' = at_mem \cup {Head(r_queue)}
  /\ r_queue' = Tail(r_queue)
  /\ fw_pc' = IF w_queue = <<>> THEN "loop" ELSE "write"
  /\ UNCHANGED <<at_ports, w_queue, tables, bwState>>

SendWrite ==
  /\ fw_pc = "write"
  /\ at_mem' = at_mem \cup {Head(w_queue)}
  /\ w_queue' = Tail(w_queue)
  /\ fw_pc' = "loop"
  /\ UNCHANGED <<at_ports, r_queue, tables, bwState>>

-----------------------------------------------------------------------------
(* bw_thread and flit_packing_68                                           *)

fwState == <<r_queue, w_queue, fw_pc>>

(* mutant: four DRS a flit *)
BwLoopFour ==
  /\ bw_pc = "loop"
  /\ \/ rack_queue # <<>> /\ wack_queue = <<>> /\ bw_pc' = "drs"  /\ flit' = 4
     \/ rack_queue = <<>> /\ wack_queue # <<>> /\ bw_pc' = "ndr"  /\ flit' = 2
     \/ rack_queue # <<>> /\ wack_queue # <<>> /\ bw_pc' = "both" /\ flit' = 2
  /\ UNCHANGED <<neighbour, fwState, tables, rack_queue, wack_queue, delivered>>

(* The test of the two queues, before wait(ctrl_latency+link_latency). *)
BwLoop ==
  /\ bw_pc = "loop"
  /\ \/ rack_queue # <<>> /\ wack_queue = <<>> /\ bw_pc' = "drs"  /\ flit' = 3
     \/ rack_queue = <<>> /\ wack_queue # <<>> /\ bw_pc' = "ndr"  /\ flit' = 2
     \/ rack_queue # <<>> /\ wack_queue # <<>> /\ bw_pc' = "both" /\ flit' = 2
  /\ UNCHANGED <<neighbour, fwState, tables, rack_queue, wack_queue, delivered>>

(* The first turn of the loop over a flit: its queue was tested already.   *)
FirstOfFlit ==
  /\ \/ bw_pc = "drs" /\ bw_pc' = "rack"
     \/ bw_pc = "ndr" /\ bw_pc' = "wack"
  /\ UNCHANGED <<neighbour, fwState, tables, rack_queue, wack_queue, flit,
                 delivered>>

(* mutant: the loop runs to its end *)
AfterAckFull(pc, q) == IF flit > 1 THEN pc ELSE "loop"

(* Its next turn, or its end: the flit is full, or the queue q is empty.   *)
AfterAck(pc, q) == IF flit > 1 /\ q # <<>> THEN pc ELSE "loop"

(* "id = r_trans_id[trans->get_address()]": slave[id] is given the ack. *)
Deliver(table, acks) ==
  delivered' = [h \in Hosts |-> delivered[h] \cup
                  {p \in acks : table[p.addr] = h}]

(* mutant: one table for both kinds *)
SendRackByWriter ==
  /\ bw_pc \in {"rack", "both_rack"}
  /\ Deliver(w_trans_id, {Head(rack_queue)})
  /\ rack_queue' = Tail(rack_queue)
  /\ bw_pc' = IF bw_pc = "rack" THEN AfterAck("rack", Tail(rack_queue))
                                ELSE "loop"
  /\ flit' = IF bw_pc' = "loop" THEN 0 ELSE flit - 1
  /\ UNCHANGED <<neighbour, fwState, tables, wack_queue>>

SendRack ==
  /\ bw_pc \in {"rack", "both_rack"}
  /\ Deliver(r_trans_id, {Head(rack_queue)})
  /\ rack_queue' = Tail(rack_queue)
  /\ bw_pc' = IF bw_pc = "rack" THEN AfterAck("rack", Tail(rack_queue))
                                ELSE "loop"
  /\ flit' = IF bw_pc' = "loop" THEN 0 ELSE flit - 1
  /\ UNCHANGED <<neighbour, fwState, tables, wack_queue>>

SendWack ==
  /\ bw_pc = "wack"
  /\ Deliver(w_trans_id, {Head(wack_queue)})
  /\ wack_queue' = Tail(wack_queue)
  /\ bw_pc' = AfterAck("wack", Tail(wack_queue))
  /\ flit' = IF bw_pc' = "loop" THEN 0 ELSE flit - 1
  /\ UNCHANGED <<neighbour, fwState, tables, rack_queue>>

(* mutant: three write acks share the flit *)
SendBothThree ==
  LET n == IF Len(wack_queue) < 3 THEN Len(wack_queue) ELSE 3 IN
  /\ bw_pc = "both"
  /\ Deliver(w_trans_id, {wack_queue[i] : i \in 1 .. n})
  /\ wack_queue' = SubSeq(wack_queue, n + 1, Len(wack_queue))
  /\ bw_pc' = "both_rack"
  /\ UNCHANGED <<neighbour, fwState, tables, rack_queue, flit>>

(* NDR+DRS: up to two write acks at once; the read ack a period later. *)
SendBoth ==
  LET n == IF Len(wack_queue) < 2 THEN Len(wack_queue) ELSE 2 IN
  /\ bw_pc = "both"
  /\ Deliver(w_trans_id, {wack_queue[i] : i \in 1 .. n})
  /\ wack_queue' = SubSeq(wack_queue, n + 1, Len(wack_queue))
  /\ bw_pc' = "both_rack"
  /\ UNCHANGED <<neighbour, fwState, tables, rack_queue, flit>>

FwStep == FwLoop \/ SendRead \/ SendWrite
BwStep == BwLoop \/ FirstOfFlit \/ SendRack \/ SendWack \/ SendBoth

Next == \/ FwStep
        \/ BwStep
        \/ \E p \in Requests : TakeRequest(p) \/ TakeAck(p)

Spec == Init /\ [][Next]_vars

(* The kernel wakes both threads again and again.                          *)
Fairness == WF_vars(FwStep) /\ WF_vars(BwStep)

-----------------------------------------------------------------------------
TypeOK ==
  /\ at_ports \subseteq Requests
  /\ at_mem \subseteq Requests
  /\ r_queue \in Seq(Requests)
  /\ w_queue \in Seq(Requests)
  /\ rack_queue \in Seq(Requests)
  /\ wack_queue \in Seq(Requests)
  /\ r_trans_id \in [Addrs -> Hosts \cup {NoHost}]
  /\ w_trans_id \in [Addrs -> Hosts \cup {NoHost}]
  /\ fw_pc \in {"loop", "read", "write"}
  /\ bw_pc \in {"loop", "drs", "ndr", "rack", "wack", "both", "both_rack"}
  /\ flit \in 0 .. 3
  /\ delivered \in [Hosts -> SUBSET Requests]

(* Where a thread resumes from a wait() and pops, the queue it tested      *)
(* before the wait still has an element.                                   *)
PopsSafe ==
  /\ fw_pc = "read" => r_queue # <<>>
  /\ fw_pc = "write" => w_queue # <<>>
  /\ bw_pc \in {"drs", "rack", "both", "both_rack"} => rack_queue # <<>>
  /\ bw_pc \in {"ndr", "wack", "both"} => wack_queue # <<>>

(* One host reads, and one host writes, what is at an address.  So it is   *)
(* for the traces that come with the program; nothing checks it.           *)
OneHostPerAddress ==
  \A p, q \in Requests : p.cmd = q.cmd /\ p.addr = q.addr => p.id = q.id

Kind(c) == {p \in Requests \ at_ports : p.cmd = c}

(* Under that discipline the tables know every request that was forwarded, *)
(* and what is queued was forwarded and is of the kind of its queue.       *)
RouteInv ==
  /\ \A p \in Kind("R") : r_trans_id[p.addr] = p.id
  /\ \A p \in Kind("W") : w_trans_id[p.addr] = p.id
  /\ r_queue \in Seq(Kind("R"))
  /\ w_queue \in Seq(Kind("W"))
  /\ at_mem \subseteq Kind("R") \cup Kind("W")
  /\ rack_queue \in Seq(Kind("R"))
  /\ wack_queue \in Seq(Kind("W"))

(* A port is only given acks of its own host's requests.                   *)
RoutedHome == \A h \in Hosts : \A p \in delivered[h] : p.id = h

(* The controller is the switch of module Switch. *)
AsSwitch == INSTANCE Switch WITH
  c_r <- r_queue, c_w <- w_queue, c_rack <- rack_queue, c_wack <- wack_queue

ImplementsSwitch == AsSwitch!Spec
=============================================================================

--------------------------- MODULE PortsBackward ---------------------------
(***************************************************************************)
(* The way of the acknowledgements through both ports of a host: the       *)
(* controller calls the downstream port, whose bw_thread calls the         *)
(* upstream port (module UspBackward, in simulated time), which calls the  *)
(* wrapper.  The turns of the downstream port may come at any time.        *)
(***************************************************************************)
EXTENDS UspBackward

VARIABLES d_rack, d_wack        \* the downstream port's queues

PortVars == <<vars, d_rack, d_wack>>

Down == INSTANCE Dsp WITH d_r <- d_rack, d_w <- d_wack

Items(q) == {q[i] : i \in DOMAIN q}
AtDsp    == Items(d_rack) \cup Items(d_wack)

PortsInit == Init /\ Down!Init

(* flit_packing_68 of the controller calls the handler for one ack.        *)
FromController(p) ==
  /\ p \in at_mem \ AtDsp
  /\ IF p.cmd = "R" THEN Down!Take(<<p>>, <<>>) ELSE Down!Take(<<>>, <<p>>)
  /\ UNCHANGED vars

DspTurn == Down!Turn /\ TakeAcks(Front(d_rack), Front(d_wack))

UspTurn == KernelStep /\ UNCHANGED <<d_rack, d_wack>>

PortsNext == UspTurn \/ DspTurn \/ \E p \in Acks : FromController(p)

(* The kernel never stops; each ack comes at some time, if it has to wait  *)
(* for the others: acks at all instants are among the behaviours.          *)
PortsSpec == /\ PortsInit /\ [][PortsNext]_PortVars
             /\ WF_PortVars(Tick /\ UspTurn) /\ WF_PortVars(Posedge /\ UspTurn)
             /\ WF_PortVars((TopOfLoop \/ SendWack \/ SendRack) /\ UspTurn)
             /\ WF_PortVars(DspTurn)
             /\ \A p \in Acks : WF_PortVars(FromController(p))

-----------------------------------------------------------------------------
(* Both ports and the slots are the backward half of a link: acks of a     *)
(* kind arrive in the order the controller gave them, and "paced" is the   *)
(* empty slot.                                                             *)
OnLink(x)  == [h \in Hosts |-> x]
InHand(pc) == IF bw_pc = pc THEN <<trans>> ELSE <<>>
AsLink == INSTANCE Link WITH
  fw_r    <- OnLink(<<>>),
  fw_w    <- OnLink(<<>>),
  bw_r    <- OnLink(InHand("rack") \o rack_queue \o d_rack),
  bw_w    <- OnLink(InHand("wack") \o wack_queue \o d_wack),
  paced_r <- OnLink(rack_incoming = NoPayload),
  paced_w <- OnLink(wack_incoming = NoPayload)

ImplementsLink == AsLink!Spec

(* Every ack reaches the wrapper: neither kind starves the other.          *)
AllArrive == \A p \in Acks : <>(rack_incoming = p \/ wack_incoming = p)
=============================================================================

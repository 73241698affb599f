---------------------------- MODULE PortsForward ----------------------------
(***************************************************************************)
(* The way of the requests through both ports of a host: fw_thread of the  *)
(* upstream port (module UspForward), which packs flits, calls the handler *)
(* of the downstream port, whose fw_thread calls the controller.           *)
(***************************************************************************)
EXTENDS UspForward

VARIABLES d_r, d_w,         \* the downstream port's queues
          got_r, got_w      \* what the controller was given

PortVars == <<vars, d_r, d_w, got_r, got_w>>

Down == INSTANCE Dsp

PortsInit == Init /\ Down!Init /\ got_r = <<>> /\ got_w = <<>>

FromWrapper ==
  /\ TakeRead \/ TakeWrite
  /\ UNCHANGED <<d_r, d_w, got_r, got_w>>

(* mutant: a flit of two reads delivers one *)
JustSentOne(sent, sent_next) ==
  Front(SubSeq(sent_next, Len(sent) + 1, Len(sent_next)))

(* The calls of nb_transport_fw in a step of the upstream port. *)
JustSent(sent, sent_next) == SubSeq(sent_next, Len(sent) + 1, Len(sent_next))

UspTurn ==
  /\ ThreadStep
  /\ Down!Take(JustSent(sent_r, sent_r'), JustSent(sent_w, sent_w'))
  /\ UNCHANGED <<got_r, got_w>>

DspTurn ==
  /\ Down!Turn
  /\ got_r' = got_r \o Front(d_r)
  /\ got_w' = got_w \o Front(d_w)
  /\ UNCHANGED vars

PortsNext == FromWrapper \/ UspTurn \/ DspTurn

(* The wrapper forwards what it has, and the waits of both threads end.    *)
PortsSpec == /\ PortsInit /\ [][PortsNext]_PortVars
             /\ WF_PortVars(FromWrapper /\ TakeRead)
             /\ WF_PortVars(FromWrapper /\ TakeWrite)
             /\ WF_PortVars(UspTurn) /\ WF_PortVars(DspTurn)

-----------------------------------------------------------------------------
(* Together the ports are the forward half of a link: one FIFO queue for   *)
(* each kind, although a write waits in pending_queue for its group while  *)
(* others come, two reads of a flit are handed over one by one, and the    *)
(* threads run at different paces.                                         *)
OnLink(q) == [h \in Hosts |-> q]
AsLink == INSTANCE Link WITH
  fw_r    <- OnLink(d_r \o r_queue),
  fw_w    <- OnLink(d_w \o trans \o pending_queue \o w_queue),
  bw_r    <- OnLink(<<>>),
  bw_w    <- OnLink(<<>>),
  paced_r <- OnLink(TRUE),
  paced_w <- OnLink(TRUE)

ImplementsLink == AsLink!Spec

(* Every request is in one place of the two ports, and in order: what the  *)
(* controller was given, with what it will be given from each queue in     *)
(* turn, is what the wrapper forwards.                                     *)
EndToEnd ==
  /\ got_r \o d_r \o r_queue \o r_todo = ReadReqs
  /\ got_w \o d_w \o trans \o pending_queue \o w_queue \o w_todo = WriteReqs

(* Whatever the wrapper forwards reaches the controller in the end, in its *)
(* order.  Writes wait for their group of four and reads for their pair,   *)
(* so packets have to be made of both.                                     *)
AllReach == <>(got_r = ReadReqs /\ got_w = WriteReqs)
=============================================================================

-------------------------- MODULE ControllerStream --------------------------
(***************************************************************************)
(* The controller under a stream of requests that does not end: a host     *)
(* that got the ack of a payload may ask for its address again, at once or *)
(* never.                                                                  *)
(***************************************************************************)
EXTENDS Controller

(* The host of p issues it once more. *)
Reissue(p) ==
  /\ p \in delivered[p.id]
  /\ delivered' = [delivered EXCEPT ![p.id] = @ \ {p}]
  /\ at_ports' = at_ports \cup {p}
  /\ UNCHANGED <<at_mem, queues, tables, fw_pc, bw_pc, flit>>

NextStream == Next \/ \E p \in Requests : Reissue(p)

(* Controller's fairness; ports, memory and hosts may stop at any time.    *)
StreamSpec == Init /\ [][NextStream]_vars /\ Fairness

In(p, q) == \E i \in DOMAIN q : q[i] = p

(* No request starves: fw_thread serves a read and a write a turn, and a   *)
(* flit ends after three acks of its kind, however many reads or writes    *)
(* follow.  What is queued towards the memory gets there, and an ack that  *)
(* is queued is delivered.                                                 *)
QueuedIsDelivered ==
  \A p \in Requests :
    /\ (In(p, r_queue) \/ In(p, w_queue)) ~> p \in at_mem
    /\ (In(p, rack_queue) \/ In(p, wack_queue)) ~> p \in delivered[p.id]
=============================================================================

-------------------------------- MODULE Link --------------------------------
(***************************************************************************)
(* What the two ports of a host, USP and DSP, promise together: four FIFO  *)
(* queues, for the read and the write requests on their way from the       *)
(* wrapper to the controller and for their acknowledgements on the way     *)
(* back.  Modules UspForward and UspBackward are the two threads of the    *)
(* upstream port as they are coded.                                        *)
(*                                                                         *)
(* The one thing the wrapper relies on beyond order is time: two acks of   *)
(* one kind leave USP::bw_thread at least link_latency plus one period     *)
(* apart, so a clock edge of the wrapper lies between them.  `paced' says  *)
(* that this edge has come.                                                *)
(***************************************************************************)
EXTENDS Tlm

VARIABLES fw_r, fw_w, bw_r, bw_w, paced_r, paced_w      \* all per host

own == <<fw_r, fw_w, bw_r, bw_w, paced_r, paced_w>>

Init ==
  /\ fw_r = [h \in Hosts |-> <<>>]
  /\ fw_w = [h \in Hosts |-> <<>>]
  /\ bw_r = [h \in Hosts |-> <<>>]
  /\ bw_w = [h \in Hosts |-> <<>>]
  /\ paced_r = [h \in Hosts |-> TRUE]
  /\ paced_w = [h \in Hosts |-> TRUE]

(* nb_transport_fw from the wrapper, for at most one request of each kind. *)
TakeRequests(h, rs, ws) ==
  /\ fw_r' = [fw_r EXCEPT ![h] = @ \o rs]
  /\ fw_w' = [fw_w EXCEPT ![h] = @ \o ws]
  /\ UNCHANGED <<bw_r, bw_w, paced_r, paced_w>>

(* nb_transport_bw from the controller. *)
TakeRack(h, p) ==
  /\ bw_r' = [bw_r EXCEPT ![h] = Append(@, p)]
  /\ UNCHANGED <<fw_r, fw_w, bw_w, paced_r, paced_w>>

TakeWack(h, p) ==
  /\ bw_w' = [bw_w EXCEPT ![h] = Append(@, p)]
  /\ UNCHANGED <<fw_r, fw_w, bw_r, paced_r, paced_w>>

(* The calls out to the controller: the oldest nr reads and nw writes, and *)
(* to the wrapper, one ack per kind and clock period.                      *)
SendRequests(h, nr, nw) ==
  /\ nr <= Len(fw_r[h]) /\ nw <= Len(fw_w[h])
  /\ fw_r' = [fw_r EXCEPT ![h] = SubSeq(@, nr + 1, Len(@))]
  /\ fw_w' = [fw_w EXCEPT ![h] = SubSeq(@, nw + 1, Len(@))]
  /\ UNCHANGED <<bw_r, bw_w, paced_r, paced_w>>

SendRack(h) ==
  /\ bw_r[h] # <<>> /\ paced_r[h]
  /\ bw_r' = [bw_r EXCEPT ![h] = Tail(@)]
  /\ paced_r' = [paced_r EXCEPT ![h] = FALSE]
  /\ UNCHANGED <<fw_r, fw_w, bw_w, paced_w>>

SendWack(h) ==
  /\ bw_w[h] # <<>> /\ paced_w[h]
  /\ bw_w' = [bw_w EXCEPT ![h] = Tail(@)]
  /\ paced_w' = [paced_w EXCEPT ![h] = FALSE]
  /\ UNCHANGED <<fw_r, fw_w, bw_r, paced_r>>

(* The rising edge of the host's clock. *)
Edge(h) ==
  /\ paced_r' = [paced_r EXCEPT ![h] = TRUE]
  /\ paced_w' = [paced_w EXCEPT ![h] = TRUE]
  /\ UNCHANGED <<fw_r, fw_w, bw_r, bw_w>>

(* The link on its own, whatever its neighbours do. *)
Of(c)       == {p \in Payload : p.cmd = c}
Optional(c) == {<<>>} \cup {<<p>> : p \in Of(c)}

Next ==
  \E h \in Hosts :
    \/ \E rs \in Optional("R"), ws \in Optional("W") : TakeRequests(h, rs, ws)
    \/ \E p \in Of("R") : TakeRack(h, p)
    \/ \E p \in Of("W") : TakeWack(h, p)
    \/ \E nr \in 0 .. 2, nw \in 0 .. 1 : SendRequests(h, nr, nw)
    \/ SendRack(h)
    \/ SendWack(h)
    \/ Edge(h)

Spec == Init /\ [][Next]_own

TypeOK ==
  /\ fw_r \in [Hosts -> Seq(Payload)]
  /\ fw_w \in [Hosts -> Seq(Payload)]
  /\ bw_r \in [Hosts -> Seq(Payload)]
  /\ bw_w \in [Hosts -> Seq(Payload)]
  /\ paced_r \in [Hosts -> BOOLEAN]
  /\ paced_w \in [Hosts -> BOOLEAN]
=============================================================================

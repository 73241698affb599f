------------------------------- MODULE Switch -------------------------------
(***************************************************************************)
(* What the CXL controller promises: requests of all hosts reach the       *)
(* memory in the order they came, per kind; acknowledgements leave in the  *)
(* order the memory gave them, per kind, through the port that the address *)
(* of the payload was last seen from.                                      *)
(***************************************************************************)
EXTENDS Tlm

VARIABLES
  c_r, c_w,               \* requests accepted, not yet sent to the memory
  c_rack, c_wack,         \* acks accepted, not yet sent to a port
  r_trans_id, w_trans_id  \* address of a payload -> port it came in through

own == <<c_r, c_w, c_rack, c_wack, r_trans_id, w_trans_id>>

Init ==
  /\ c_r = <<>>
  /\ c_w = <<>>
  /\ c_rack = <<>>
  /\ c_wack = <<>>
  /\ r_trans_id = [a \in Addrs |-> NoHost]
  /\ w_trans_id = [a \in Addrs |-> NoHost]

(* mutant: map::insert, which keeps an entry that is there *)
TakeReadInsert(h, p) ==
  /\ r_trans_id' = [r_trans_id EXCEPT ![p.addr] = IF @ = NoHost THEN h ELSE @]
  /\ c_r' = Append(c_r, p)
  /\ UNCHANGED <<c_w, c_rack, c_wack, w_trans_id>>

(* nb_transport_fw, called by the port of host h. *)
TakeRead(h, p) ==
  /\ r_trans_id' = [r_trans_id EXCEPT ![p.addr] = h]
  /\ c_r' = Append(c_r, p)
  /\ UNCHANGED <<c_w, c_rack, c_wack, w_trans_id>>

TakeWrite(h, p) ==
  /\ w_trans_id' = [w_trans_id EXCEPT ![p.addr] = h]
  /\ c_w' = Append(c_w, p)
  /\ UNCHANGED <<c_r, c_rack, c_wack, r_trans_id>>

(* nb_transport_bw, called by the memory for at most one ack of each kind. *)
TakeAcks(rs, ws) ==
  /\ c_rack' = c_rack \o rs
  /\ c_wack' = c_wack \o ws
  /\ UNCHANGED <<c_r, c_w, r_trans_id, w_trans_id>>

(* The calls out: fw_thread to the memory, bw_thread to the ports. *)
SendRead ==
  /\ c_r # <<>>
  /\ c_r' = Tail(c_r)
  /\ UNCHANGED <<c_w, c_rack, c_wack, r_trans_id, w_trans_id>>

SendWrite ==
  /\ c_w # <<>>
  /\ c_w' = Tail(c_w)
  /\ UNCHANGED <<c_r, c_rack, c_wack, r_trans_id, w_trans_id>>

SendRack ==
  /\ c_rack # <<>>
  /\ c_rack' = Tail(c_rack)
  /\ UNCHANGED <<c_r, c_w, c_wack, r_trans_id, w_trans_id>>

(* The oldest n write acks, each to its port: they share a flit. *)
SendWacks(n) ==
  /\ n <= Len(c_wack)
  /\ c_wack' = SubSeq(c_wack, n + 1, Len(c_wack))
  /\ UNCHANGED <<c_r, c_w, c_rack, r_trans_id, w_trans_id>>

RackPort == r_trans_id[Head(c_rack).addr]
WackPort == w_trans_id[Head(c_wack).addr]

(* The switch on its own, whatever its neighbours do. *)
Optional(c) == {<<>>} \cup {<<p>> : p \in {q \in Payload : q.cmd = c}}

Next ==
  \/ \E h \in Hosts, p \in Payload :
       (p.cmd = "R" /\ TakeRead(h, p)) \/ (p.cmd = "W" /\ TakeWrite(h, p))
  \/ \E rs \in Optional("R"), ws \in Optional("W") : TakeAcks(rs, ws)
  \/ SendRead
  \/ SendWrite
  \/ SendRack
  \/ \E n \in 1 .. 2 : SendWacks(n)

Spec == Init /\ [][Next]_own

TypeOK ==
  /\ c_r \in Seq(Payload)
  /\ c_w \in Seq(Payload)
  /\ c_rack \in Seq(Payload)
  /\ c_wack \in Seq(Payload)
  /\ r_trans_id \in [Addrs -> Hosts \cup {NoHost}]
  /\ w_trans_id \in [Addrs -> Hosts \cup {NoHost}]
=============================================================================

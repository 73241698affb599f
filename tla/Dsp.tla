-------------------------------- MODULE Dsp --------------------------------
(***************************************************************************)
(* One direction of the downstream port (components/port/dsp.cpp), which   *)
(* joins the upstream port and the controller.  Its two threads are alike: *)
(* fw_thread empties r_queue and w_queue towards the controller, bw_thread *)
(* rack_queue and wack_queue towards the upstream port.  In a turn, which  *)
(* is not interrupted, a thread hands over the oldest payload of each      *)
(* queue.                                                                  *)
(***************************************************************************)
EXTENDS Tlm

VARIABLES d_r, d_w

Init == d_r = <<>> /\ d_w = <<>>

(* nb_transport_fw or nb_transport_bw, called with these payloads. *)
Take(rs, ws) ==
  /\ d_r' = d_r \o rs
  /\ d_w' = d_w \o ws

Turn ==
  /\ d_r # <<>> \/ d_w # <<>>
  /\ d_r' = Rest(d_r)
  /\ d_w' = Rest(d_w)
=============================================================================

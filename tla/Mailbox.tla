------------------------------ MODULE Mailbox ------------------------------
(***************************************************************************)
(* What the simulator promises the host processes when every packet that   *)
(* is written is read once, before its address is written again: an        *)
(* address is a mailbox for one packet.  A write fills it, never while it  *)
(* is full; a read waits for it to be full, empties it, and is answered    *)
(* with what was in it.                                                    *)
(***************************************************************************)
CONSTANTS Hosts, PktAddrs, Tags, Nothing

VARIABLES box,      \* address -> the packet to be read, if any
          held,     \* host -> what its open read has taken
          answer    \* host -> the answer that waits for it

vars == <<box, held, answer>>

Init ==
  /\ box = [a \in PktAddrs |-> Nothing]
  /\ held = [h \in Hosts |-> Nothing]
  /\ answer = [h \in Hosts |-> Nothing]

Put(a, t) ==
  /\ box[a] = Nothing
  /\ box' = [box EXCEPT ![a] = t]
  /\ UNCHANGED <<held, answer>>

Take(h, a) ==
  /\ box[a] # Nothing
  /\ held[h] = Nothing /\ answer[h] = Nothing
  /\ held' = [held EXCEPT ![h] = box[a]]
  /\ box' = [box EXCEPT ![a] = Nothing]
  /\ UNCHANGED answer

Answer(h) ==
  /\ held[h] # Nothing
  /\ answer' = [answer EXCEPT ![h] = held[h]]
  /\ held' = [held EXCEPT ![h] = Nothing]
  /\ UNCHANGED box

(* One turn of a wrapper's clock can finish its read and a write of it. *)
AnswerAndPut(h, a, t) ==
  /\ held[h] # Nothing /\ box[a] = Nothing
  /\ answer' = [answer EXCEPT ![h] = held[h]]
  /\ held' = [held EXCEPT ![h] = Nothing]
  /\ box' = [box EXCEPT ![a] = t]

Collect(h) ==
  /\ answer[h] # Nothing
  /\ answer' = [answer EXCEPT ![h] = Nothing]
  /\ UNCHANGED <<box, held>>

Next ==
  \/ \E h \in Hosts : Answer(h) \/ Collect(h)
  \/ \E h \in Hosts, a \in PktAddrs : Take(h, a)
  \/ \E a \in PktAddrs : box[a] = Nothing /\ \E t \in Tags : Put(a, t)
  \/ \E h \in Hosts : /\ held[h] # Nothing
                      /\ \E a \in PktAddrs, t \in Tags : AnswerAndPut(h, a, t)

Spec == Init /\ [][Next]_vars
=============================================================================

-------------------------- MODULE CxlSimInvariants --------------------------
(***************************************************************************)
(* What every state of the simulator is like, for the proofs of the        *)
(* properties: the inductive invariants and the views of the state they    *)
(* are stated with.                                                        *)
(***************************************************************************)
EXTENDS CxlSimProperties

(* The queues of a payload's path, as one function from places. *)
HostPlaces   == {"r_queue", "w_queue", "fw_r", "fw_w", "bw_r", "bw_w",
                 "rack_incoming", "wack_incoming", "rack_queue", "wack_queue"}
SharedPlaces == {"c_r", "c_w", "m_r", "m_w", "mem_request", "m_rack", "m_wack",
                 "c_rack", "c_wack"}

Places == (HostPlaces \X Hosts) \cup (SharedPlaces \X {NoHost})

(* Everything but the DRAM, which is a set. *)
QueueAt(l) ==
  CASE l[1] = "r_queue"       -> r_queue[l[2]]
    [] l[1] = "w_queue"       -> w_queue[l[2]]
    [] l[1] = "fw_r"          -> fw_r[l[2]]
    [] l[1] = "fw_w"          -> fw_w[l[2]]
    [] l[1] = "bw_r"          -> bw_r[l[2]]
    [] l[1] = "bw_w"          -> bw_w[l[2]]
    [] l[1] = "rack_incoming" -> Sim!Slot(rack_incoming[l[2]])
    [] l[1] = "wack_incoming" -> Sim!Slot(wack_incoming[l[2]])
    [] l[1] = "rack_queue"    -> rack_queue[l[2]]
    [] l[1] = "wack_queue"    -> wack_queue[l[2]]
    [] l[1] = "c_r"           -> c_r
    [] l[1] = "c_w"           -> c_w
    [] l[1] = "m_r"           -> m_r
    [] l[1] = "m_w"           -> m_w
    [] l[1] = "mem_request"   -> mem_request
    [] l[1] = "m_rack"        -> m_rack
    [] l[1] = "m_wack"        -> m_wack
    [] l[1] = "c_rack"        -> c_rack
    [] l[1] = "c_wack"        -> c_wack

Queues == [l \in Places |-> QueueAt(l)]

(* The places of requests before the controller has seen them, of reads    *)
(* and of writes.                                                          *)
AbovePlaces == {"r_queue", "w_queue", "fw_r", "fw_w"}
ReadPlaces  == {"r_queue", "fw_r", "bw_r", "rack_incoming", "rack_queue",
                "c_r", "m_r", "m_rack", "c_rack"}
WritePlaces == {"w_queue", "fw_w", "bw_w", "wack_incoming", "wack_queue",
                "c_w", "m_w", "m_wack", "c_wack"}

(* The packets of a host that the wrapper has still to cut.                *)
InHand(h) == IF pc[h] \in {"sync", "free", "read", "write", "terminate"}
               THEN <<pkt[h]>> ELSE <<>>
ToCome(h) == InHand(h) \o toSim[h] \o trace[h]

(* s is the end of q: as many elements as it lacks have been taken.        *)
Taken(q, s) == Len(q) - Len(s)
IsEndOf(s, q) ==
  /\ s \in Seq(Packet) /\ Len(s) <= Len(q)
  /\ \A i \in 1 .. Len(s) : s[i] = q[Taken(q, s) + i]

(* Payload p is one of those that packet q is cut into. *)
Covers(q, p) == /\ q.type = p.cmd /\ p.addr \in PacketAddrs(q.addr)
                /\ q.type = "W" => p.data = <<q.tag, p.addr - q.addr>>

Port(p) == IF p.cmd = "R" THEN r_trans_id[p.addr] ELSE w_trans_id[p.addr]

(* A payload is known if its host has cut it from a packet.                *)
Known(prog, p) ==
  \E i \in 1 .. Taken(prog[p.id], ToCome(p.id)) : Covers(prog[p.id][i], p)

(* What may be at a place. *)
Fits(prog, l) ==
  {p \in Payload :
     /\ l[1] \in ReadPlaces => p.cmd = "R"
     /\ l[1] \in WritePlaces => p.cmd = "W"
     /\ l[2] # NoHost => p.id = l[2]
     /\ l[1] \notin AbovePlaces => Port(p) = p.id
     /\ Known(prog, p)}

(* What is to come is the end of the trace the host was given.             *)
EndInv(prog) == \A h \in Hosts : IsEndOf(ToCome(h), prog[h])

FlowInv(prog) ==
  /\ EndInv(prog)
  /\ \A l \in Places : Queues[l] \in Seq(Fits(prog, l))
  /\ dram \subseteq Fits(prog, <<"mem_request", NoHost>>)
  /\ \A h \in Hosts : /\ paced_r[h] => rack_incoming[h] = NoPayload
                      /\ paced_w[h] => wack_incoming[h] = NoPayload

(* The types of the variables but that of sync_queue, whose first element  *)
(* is taken from it without a test.                                        *)
HostTyped ==
  /\ trace \in [Hosts -> Seq(Packet)]
  /\ awaiting \in [Hosts -> SUBSET Packet]
  /\ toSim \in [Hosts -> Seq(Packet)]
  /\ toHost \in [Hosts -> Seq(Seq(Cells))]

ControlTyped ==
  /\ pc \in [Hosts -> {"first", "poll", "sync", "free", "read", "write",
                       "terminate", "exiting", "exited"}]
  /\ pkt \in [Hosts -> Packet]
  /\ req_done \in [Hosts -> BOOLEAN]
  /\ sync \in [PktAddrs -> BOOLEAN]
  /\ active_cores \in Int
  /\ spinner \in Hosts \cup {NoHost}
  /\ stopped \in BOOLEAN
  /\ \A h \in Hosts : /\ pc[h] \in {"sync", "free", "read"} => pkt[h].type = "R"
                      /\ pc[h] = "write" => pkt[h].type = "W"
                      /\ pc[h] = "terminate" => pkt[h].type = "T"

BurstsTyped ==
  /\ packet_data \in [Hosts -> Seq(Cells)]
  /\ wack_num \in [Hosts -> Slices]
  /\ outstanding \in [Hosts -> Int]
  /\ sync_queue = [h \in Hosts |-> sync_queue[h]]

QueuesTyped ==
  /\ r_queue \in [Hosts -> Seq(Payload)]
  /\ w_queue \in [Hosts -> Seq(Payload)]
  /\ rack_queue \in [Hosts -> Seq(Payload)]
  /\ wack_queue \in [Hosts -> Seq(Payload)]
  /\ rack_incoming \in [Hosts -> Payload \cup {NoPayload}]
  /\ wack_incoming \in [Hosts -> Payload \cup {NoPayload}]

LinkTyped ==
  /\ fw_r \in [Hosts -> Seq(Payload)]
  /\ fw_w \in [Hosts -> Seq(Payload)]
  /\ bw_r \in [Hosts -> Seq(Payload)]
  /\ bw_w \in [Hosts -> Seq(Payload)]
  /\ paced_r \in [Hosts -> BOOLEAN]
  /\ paced_w \in [Hosts -> BOOLEAN]

SwitchTyped ==
  /\ c_r \in Seq(Payload)
  /\ c_w \in Seq(Payload)
  /\ c_rack \in Seq(Payload)
  /\ c_wack \in Seq(Payload)
  /\ r_trans_id \in [Addrs -> Hosts \cup {NoHost}]
  /\ w_trans_id \in [Addrs -> Hosts \cup {NoHost}]

MemTyped ==
  /\ m_r \in Seq(Payload)
  /\ m_w \in Seq(Payload)
  /\ mem_request \in Seq(Payload)
  /\ dram \subseteq Payload
  /\ m_rack \in Seq(Payload)
  /\ m_wack \in Seq(Payload)
  /\ m_outstanding \in Int
  /\ mem_data \in [Addrs -> Cells]
  /\ active_dram \in {0, 1}

TypeInv == /\ HostTyped /\ ControlTyped /\ BurstsTyped /\ QueuesTyped
           /\ LinkTyped /\ SwitchTyped /\ MemTyped

-----------------------------------------------------------------------------
(* Queues in general, and families of queues                               *)

(* The first element of q, if any, goes from l to the end of k.            *)
Shift(F, l, k) == [F EXCEPT ![l] = Rest(F[l]), ![k] = Moved(F[k], F[l])]

(* A queue of a family loses its first element, or all, or gains s. *)
Dropped(F, l)     == [F EXCEPT ![l] = Rest(F[l])]
Emptied(F, l)     == [F EXCEPT ![l] = <<>>]
Extended(F, l, s) == [F EXCEPT ![l] = F[l] \o s]

(* No queue of a family holds an element that stands elsewhere in it.      *)
Once(F) ==
  \A l, k \in DOMAIN F : \A i \in DOMAIN F[l], j \in DOMAIN F[k] :
    F[l][i] = F[k][j] => l = k /\ i = j

(* No element stands twice in s. *)
OnceIn(s) == \A i, j \in DOMAIN s : s[i] = s[j] => i = j

(* What the queues of a family hold, and what none of them holds. *)
Content(F) == UNION {Items(F[l]) : l \in DOMAIN F}

AllNew(s, F) == Items(s) \cap Content(F) = {}

Family(P, S) == [P -> Seq(S)]

-----------------------------------------------------------------------------
(* Types                                                                   *)

(* The falling edge of a wrapper's clock, in the operators of this module. *)
NegedgeQueues(h) ==
  /\ r_queue' = [r_queue EXCEPT ![h] = Rest(r_queue[h])]
  /\ w_queue' = [w_queue EXCEPT ![h] = Rest(w_queue[h])]
  /\ rack_queue' = [rack_queue EXCEPT ![h] = Rest(rack_queue[h])]
  /\ wack_queue' = [wack_queue EXCEPT ![h] = Rest(wack_queue[h])]
  /\ fw_r' = [fw_r EXCEPT ![h] = fw_r[h] \o Front(r_queue[h])]
  /\ fw_w' = [fw_w EXCEPT ![h] = fw_w[h] \o Front(w_queue[h])]
  /\ UNCHANGED <<rack_incoming, wack_incoming, bw_r, bw_w, paced_r, paced_w>>
  /\ UNCHANGED <<switchVars, memVars>>

NegedgeBursts(h) ==
  /\ packet_data' = [packet_data EXCEPT ![h] =
                       IF Sim!ReadComplete(h) THEN <<>> ELSE Sim!Gathered(h)]
  /\ wack_num' = [wack_num EXCEPT ![h] =
                    IF Sim!WriteComplete(h) THEN 0
                      ELSE wack_num[h] + Len(Front(wack_queue[h]))]
  /\ sync_queue' = [sync_queue EXCEPT ![h] =
                      IF Sim!WriteComplete(h) THEN Tail(sync_queue[h])
                        ELSE sync_queue[h]]
  /\ outstanding' = [outstanding EXCEPT ![h] =
                       outstanding[h] + Sim!NewlyOutstanding(h)]

NegedgeControl(h) ==
  /\ req_done' = [req_done EXCEPT ![h] = req_done[h] \/ Sim!ReadComplete(h)]
  /\ sync' = IF Sim!WriteComplete(h)
               THEN [sync EXCEPT ![Head(sync_queue[h])] = TRUE] ELSE sync
  /\ toHost' = [toHost EXCEPT ![h] = toHost[h] \o Response(h)]
  /\ UNCHANGED <<pc, pkt, active_cores, spinner, stopped, trace, awaiting, toSim>>

(* The other steps, each with what it changes. *)
PosedgeQueues(h) ==
  /\ rack_queue' = [rack_queue EXCEPT ![h] =
                      rack_queue[h] \o Sim!Slot(rack_incoming[h])]
  /\ wack_queue' = [wack_queue EXCEPT ![h] =
                      wack_queue[h] \o Sim!Slot(wack_incoming[h])]
  /\ rack_incoming' = [rack_incoming EXCEPT ![h] = NoPayload]
  /\ wack_incoming' = [wack_incoming EXCEPT ![h] = NoPayload]
  /\ paced_r' = [paced_r EXCEPT ![h] = TRUE]
  /\ paced_w' = [paced_w EXCEPT ![h] = TRUE]
  /\ UNCHANGED <<r_queue, w_queue, fw_r, fw_w, bw_r, bw_w>>
  /\ UNCHANGED <<switchVars, memVars>>

(* What only the wrapper's thread and its clock change. *)
burstVars   == <<sync_queue, packet_data, wack_num, outstanding>>
controlVars == <<hostVars, pc, pkt, req_done, sync, active_cores, spinner, stopped>>

DramEnds == active_cores = 0 /\ m_outstanding + Len(mem_request) = 0

(* What payloads are moved by. *)
payloadVars == <<r_queue, w_queue, rack_queue, wack_queue, rack_incoming,
                 wack_incoming, linkVars, switchVars, memVars>>

ReadCut(h)  == /\ Sim!HandleRead(h)
               /\ UNCHANGED <<hostVars, linkVars, switchVars, memVars>>
WriteCut(h) == /\ Sim!HandleWrite(h)
               /\ UNCHANGED <<hostVars, linkVars, switchVars, memVars>>

(* The steps of periodic_process that move no payload. *)
ThreadAlone(h) ==
  /\ \/ Sim!Spin(h)
     \/ Sim!CheckSignal(h)
     \/ Sim!FreeSignal(h)
     \/ Sim!HandleTerminate(h)
     \/ Sim!LeaveCore(h)
     \/ Sim!Stop(h)
  /\ UNCHANGED hostVars

Silent(h) ==
  /\ Send(h) \/ GetResponse(h) \/ Receive(h) \/ ThreadAlone(h)
  /\ UNCHANGED payloadVars /\ UNCHANGED burstVars

-----------------------------------------------------------------------------
(* What a step does to the queues                                          *)

NoOf(n) == <<n, NoHost>>

(* The places, one by one. *)
PlacesRead ==
  /\ DOMAIN Queues = Places
  /\ \A h \in Hosts :
       /\ Queues[<<"r_queue", h>>] = r_queue[h] /\ Queues[<<"w_queue", h>>] = w_queue[h]
       /\ Queues[<<"fw_r", h>>] = fw_r[h] /\ Queues[<<"fw_w", h>>] = fw_w[h]
       /\ Queues[<<"bw_r", h>>] = bw_r[h] /\ Queues[<<"bw_w", h>>] = bw_w[h]
       /\ Queues[<<"rack_incoming", h>>] = Sim!Slot(rack_incoming[h])
       /\ Queues[<<"wack_incoming", h>>] = Sim!Slot(wack_incoming[h])
       /\ Queues[<<"rack_queue", h>>] = rack_queue[h]
       /\ Queues[<<"wack_queue", h>>] = wack_queue[h]
  /\ Queues[NoOf("c_r")] = c_r /\ Queues[NoOf("c_w")] = c_w
  /\ Queues[NoOf("m_r")] = m_r /\ Queues[NoOf("m_w")] = m_w
  /\ Queues[NoOf("mem_request")] = mem_request
  /\ Queues[NoOf("m_rack")] = m_rack /\ Queues[NoOf("m_wack")] = m_wack
  /\ Queues[NoOf("c_rack")] = c_rack /\ Queues[NoOf("c_wack")] = c_wack

IsFamily(F) == F = [l \in Places |-> F[l]]

(* Only the queues named in N change, those of hosts only at h. *)
OnlyAt(N, h) ==
  /\ \A g \in Hosts :
       /\ (g = h /\ "r_queue" \in N) \/ r_queue'[g] = r_queue[g]
       /\ (g = h /\ "w_queue" \in N) \/ w_queue'[g] = w_queue[g]
       /\ (g = h /\ "fw_r" \in N) \/ fw_r'[g] = fw_r[g]
       /\ (g = h /\ "fw_w" \in N) \/ fw_w'[g] = fw_w[g]
       /\ (g = h /\ "bw_r" \in N) \/ bw_r'[g] = bw_r[g]
       /\ (g = h /\ "bw_w" \in N) \/ bw_w'[g] = bw_w[g]
       /\ (g = h /\ "rack_incoming" \in N) \/ rack_incoming'[g] = rack_incoming[g]
       /\ (g = h /\ "wack_incoming" \in N) \/ wack_incoming'[g] = wack_incoming[g]
       /\ (g = h /\ "rack_queue" \in N) \/ rack_queue'[g] = rack_queue[g]
       /\ (g = h /\ "wack_queue" \in N) \/ wack_queue'[g] = wack_queue[g]
  /\ "c_r" \in N \/ c_r' = c_r
  /\ "c_w" \in N \/ c_w' = c_w
  /\ "m_r" \in N \/ m_r' = m_r
  /\ "m_w" \in N \/ m_w' = m_w
  /\ "mem_request" \in N \/ mem_request' = mem_request
  /\ "m_rack" \in N \/ m_rack' = m_rack
  /\ "m_wack" \in N \/ m_wack' = m_wack
  /\ "c_rack" \in N \/ c_rack' = c_rack
  /\ "c_wack" \in N \/ c_wack' = c_wack

-----------------------------------------------------------------------------
(* What a step does to the packets of a host that are still to come        *)

HoldsPacket == {"sync", "free", "read", "write", "terminate"}

(* A step of a host's thread cuts the packet in hand, or ends the host.    *)
Takes(h) == pc[h] \in HoldsPacket /\ pc'[h] \notin HoldsPacket

-----------------------------------------------------------------------------
(* Acks go home: what payloads are, and where they may be                  *)

(* Every place holds what A says. *)
Good(A, F) == DOMAIN F = Places /\ \A m \in Places : F[m] \in Seq(A[m])

(* A port hands an ack to a free slot. *)
PacedInv == \A h \in Hosts : /\ paced_r[h] => rack_incoming[h] = NoPayload
                             /\ paced_w[h] => wack_incoming[h] = NoPayload

FlowHolds == TypeInv /\ \E prog \in Programs : FlowInv(prog)

-----------------------------------------------------------------------------
(* Every open payload is in one place, once                                *)

(* Every open payload is in one place. *)
OnceInv == Once(Queues) /\ Content(Queues) \cap dram = {} /\ IsFiniteSet(Open)

(* The parts of Open. *)
Up(h) == UNION {Items(fw_r[h]), Items(fw_w[h]), Items(bw_r[h]),
                Items(bw_w[h]), OnSlot(rack_incoming[h]),
                OnSlot(wack_incoming[h]), Items(rack_queue[h]),
                Items(wack_queue[h])}
Cut(h) == Items(r_queue[h]) \cup Items(w_queue[h])
Down == UNION {Items(c_r), Items(c_w), Items(c_rack), Items(c_wack),
               Items(m_r), Items(m_w), Items(mem_request), dram,
               Items(m_rack), Items(m_wack)}

(* What a step does to the open payloads: the wrapper's thread adds some,  *)
(* its clock method takes away one per kind of ack, and the other steps    *)
(* only move them.                                                         *)
OpenKept == Once(Queues)' /\ (Content(Queues) \cap dram = {})' /\ Open' = Open

OpenAdds(ps) == /\ Once(Queues)' /\ (Content(Queues) \cap dram = {})'
                /\ Items(ps) \cap Open = {} /\ Open' = Open \cup Items(ps)

OpenLoses(ps) == /\ Once(Queues)' /\ (Content(Queues) \cap dram = {})'
                 /\ ps \subseteq Open /\ Open' = Open \ ps

(* The falling edge: the heads of the ack queues are gone, each of which is *)
(* a payload of this host.                                                 *)
NegedgeAcks(h) == Items(Front(rack_queue[h])) \cup Items(Front(wack_queue[h]))

-----------------------------------------------------------------------------
(* How many there are                                                      *)

(* The write acks counted and those still to come make whole packets.      *)
WritesAdd(h) ==
  /\ sync_queue[h] \in Seq(PktAddrs)
  /\ PayloadNum * Len(sync_queue[h]) = wack_num[h] + Cardinality(OpenOf(h, "W"))

WritesInv == \A h \in Hosts : WritesAdd(h)

(* Together they are inductive. *)
CountsHold == FlowHolds /\ OnceInv /\ WritesInv /\ DramCountExact

-----------------------------------------------------------------------------
(* Reads: a host waits for one at a time                                   *)

(* The parts of a read packet, open or gathered.                           *)
ReadParts(h) == Cardinality(OpenOf(h, "R")) + Len(packet_data[h])

NoReads(q)  == \A i \in DOMAIN q : q[i].type # "R"
LastRead(q) == q # <<>> /\ \A i \in DOMAIN q : q[i].type = "R" <=> i = Len(q)
Reading     == {"sync", "free", "read"}

(* The host waits for nothing.                                             *)
Idle(h) == /\ awaiting[h] = {} /\ toHost[h] = <<>> /\ NoReads(toSim[h])
           /\ pc[h] \notin Reading /\ ReadParts(h) = 0

(* The read it waits for is the last packet in the ring.                   *)
Asked(h) == /\ LastRead(toSim[h]) /\ awaiting[h] = {toSim[h][Len(toSim[h])]}
            /\ toHost[h] = <<>>
            /\ pc[h] \notin Reading /\ ReadParts(h) = 0

(* The wrapper has it: before it is cut, while its parts are open or       *)
(* gathered, and when the answer is in the ring.                           *)
ReadInHand(h) == awaiting[h] = {pkt[h]} /\ pkt[h].type = "R" /\ toSim[h] = <<>>

Syncing(h)  == /\ ReadInHand(h) /\ toHost[h] = <<>>
               /\ pc[h] \in Reading /\ ReadParts(h) = 0
Fetching(h) == /\ ReadInHand(h) /\ toHost[h] = <<>>
               /\ pc[h] = "poll" /\ ~req_done[h] /\ ReadParts(h) = PayloadNum
Replied(h) == /\ ReadInHand(h) /\ Len(toHost[h]) = 1
               /\ pc[h] = "poll" /\ req_done[h] /\ ReadParts(h) = 0

ReadPhase(h) == Idle(h) \/ Asked(h) \/ Syncing(h) \/ Fetching(h) \/ Replied(h)
ReadInv == \A h \in Hosts : ReadPhase(h)

(* What the phases of a host are read off.                                 *)
SameView(h) ==
  /\ awaiting'[h] = awaiting[h] /\ toSim'[h] = toSim[h] /\ toHost'[h] = toHost[h]
  /\ pc'[h] = pc[h] /\ pkt'[h] = pkt[h] /\ req_done'[h] = req_done[h]

ReadsHold == CountsHold /\ ReadInv

-----------------------------------------------------------------------------
(* Threads: a host's trace, and its thread, end together                   *)

(* A thread is past its loop when everything it has to take is taken, and  *)
(* one that holds the kernel has no read open.                             *)
ThreadInv ==
  \A h \in Hosts :
    /\ pc[h] \in {"exiting", "exited"} <=> ToCome(h) = <<>>
    /\ spinner = h => pc[h] = "first" \/ (pc[h] = "poll" /\ req_done[h])

ThreadsHold == ReadsHold /\ ThreadInv

-----------------------------------------------------------------------------
(* The end of the simulation                                               *)

Running == {h \in Hosts : pc[h] # "exited"}

(* The DRAM thread ends when no core is active, and the simulation when    *)
(* the DRAM thread has.                                                    *)
CoresInv == /\ active_cores = Cardinality(Running)
            /\ active_dram = 0 => Running = {}
            /\ stopped => active_dram = 0

-----------------------------------------------------------------------------
(* Signals: a packet is written, then signalled, then read                 *)

(* A packet of type k at a has been cut.                                   *)
Past(prog, k, a) ==
  \E h \in Hosts : \E i \in 1 .. Taken(prog[h], ToCome(h)) :
    prog[h][i].type = k /\ prog[h][i].addr = a

(* A read of a has cleared the flag.                                       *)
ReadBegun(prog, a) ==
  Past(prog, "R", a) \/ \E h \in Hosts : pc[h] = "read" /\ pkt[h].addr = a

SignalInv(prog) ==
  /\ Once(sync_queue)
  /\ \A a \in Content(sync_queue) : Past(prog, "W", a)
  /\ \A a \in PktAddrs : sync[a] => Past(prog, "W", a) /\ a \notin Content(sync_queue)
  /\ \A a \in PktAddrs : ReadBegun(prog, a) =>
       ~sync[a] /\ Past(prog, "W", a) /\ a \notin Content(sync_queue)
  /\ \A h \in Hosts : pc[h] = "free" => sync[pkt[h].addr]

EndHolds == /\ ThreadsHold /\ CoresInv
            /\ \E prog \in Programs : FlowInv(prog) /\ SignalInv(prog)

-----------------------------------------------------------------------------
(* Writes arrive in the order they were cut in                             *)

AddrsIn(s) == {x.addr : x \in Items(s)}

(* Whatever is at address a in s, something at address b comes later in s, *)
(* or b is among the addresses of what is still to enter s.                *)
Follows(s, X, a, b) ==
  \A i \in DOMAIN s : s[i].addr = a =>
    b \in X \/ \E j \in DOMAIN s : j > i /\ s[j].addr = b

Way(h) == AddrsIn(w_queue[h]) \cup AddrsIn(fw_w[h]) \cup AddrsIn(c_w)

InOrder(h, a, b) ==
  /\ Follows(w_queue[h], {}, a, b)
  /\ Follows(fw_w[h], AddrsIn(w_queue[h]), a, b)
  /\ Follows(c_w, AddrsIn(w_queue[h]) \cup AddrsIn(fw_w[h]), a, b)

(* The write packets of h that have been cut. *)
Writes(prog, h) ==
  {prog[h][i] : i \in {j \in 1 .. Taken(prog[h], ToCome(h)) : prog[h][j].type = "W"}}

(* What the steps do to the way of the writes. *)
NoCut == \A h \in Hosts : Takes(h) => pkt[h].type # "W"

WayCut(h) ==
  /\ WriteCut(h) /\ Takes(h) /\ \A g \in Hosts : Takes(g) => g = h
  /\ pkt[h] \in Packet /\ pkt[h].type = "W"
  /\ w_queue' = [w_queue EXCEPT ![h] = w_queue[h] \o WritePayloads(h, pkt[h])]
  /\ sync_queue' = [sync_queue EXCEPT ![h] = Append(sync_queue[h], pkt[h].addr)]
  /\ UNCHANGED <<fw_w, c_w, mem_data>>

WayOnward(h) ==
  /\ SimNegedge(h) /\ NoCut
  /\ w_queue' = [w_queue EXCEPT ![h] = Rest(w_queue[h])]
  /\ fw_w' = [fw_w EXCEPT ![h] = fw_w[h] \o Front(w_queue[h])]
  /\ sync_queue' = [sync_queue EXCEPT ![h] =
                      IF Sim!WriteComplete(h) THEN Tail(sync_queue[h])
                        ELSE sync_queue[h]]
  /\ UNCHANGED <<c_w, mem_data>>

WayDown(h) ==
  /\ NoCut /\ fw_w[h] # <<>>
  /\ fw_w' = [fw_w EXCEPT ![h] = Tail(fw_w[h])]
  /\ c_w' = Append(c_w, Head(fw_w[h]))
  /\ UNCHANGED <<w_queue, mem_data, sync_queue>>

WayOut ==
  /\ NoCut /\ c_w # <<>> /\ c_w' = Tail(c_w)
  /\ mem_data' = [mem_data EXCEPT ![Head(c_w).addr] = Head(c_w).data]
  /\ UNCHANGED <<w_queue, fw_w, sync_queue>>

WayStill == NoCut /\ UNCHANGED <<w_queue, fw_w, c_w, mem_data, sync_queue>>

(* The packets whose signal is due, in the order they were cut in: each is *)
(* one of the writes of its host, and no payload of a packet overtakes one *)
(* of an earlier packet.                                                   *)
SourceInv(prog) ==
  \A h \in Hosts : \A k \in DOMAIN sync_queue[h] :
    \E w \in Writes(prog, h) : w.addr = sync_queue[h][k]

OrderInv ==
  \A h \in Hosts : \A k, m \in DOMAIN sync_queue[h] : k < m =>
    \A s, u \in Slices : InOrder(h, sync_queue[h][k] + s, sync_queue[h][m] + u)

(* A payload of a write is in the backing store, or on its way there with  *)
(* the signal of its packet not raised.                                    *)
StoreInv(prog) ==
  \A h \in Hosts : \A w \in Writes(prog, h) : \A s \in Slices :
    \/ mem_data[w.addr + s] = <<w.tag, s>>
    \/ w.addr \in Items(sync_queue[h]) /\ w.addr + s \in Way(h)

StoreHolds == /\ CountsHold /\ OrderInv
              /\ \E prog \in Programs : /\ FlowInv(prog) /\ SignalInv(prog)
                                        /\ SourceInv(prog) /\ StoreInv(prog)

-----------------------------------------------------------------------------
(* An answer is made of the packet that was written                        *)

AllOf(w) == {<<w.tag, s>> : s \in Slices}

(* What the open reads of h will fetch of w. *)
Due(h, w) == {<<w.tag, p.addr - w.addr>> : p \in OpenOf(h, "R")}

(* The answer of h, or the parts gathered for it and those to come, are    *)
(* the parts of a write that was cut, at the address of the read.          *)
MadeOf(h, w) ==
  /\ w.addr = pkt[h].addr
  /\ toHost[h] = <<>> => Items(packet_data[h]) \cup Due(h, w) = AllOf(w)
  /\ toHost[h] # <<>> => /\ Len(Head(toHost[h])) = PayloadNum
                         /\ Items(Head(toHost[h])) = AllOf(w)

Busy(h) == OpenOf(h, "R") # {} \/ packet_data[h] # <<>> \/ toHost[h] # <<>>

AnswerOf(prog, h) ==
  Busy(h) =>
    /\ Past(prog, "R", pkt[h].addr)
    /\ \A p \in OpenOf(h, "R") : p.addr \in PacketAddrs(pkt[h].addr)
    /\ \E g \in Hosts : \E w \in Writes(prog, g) : MadeOf(h, w)

AnswerInv(prog) == \A h \in Hosts : AnswerOf(prog, h)

AnswersHold == /\ ReadsHold /\ OrderInv
               /\ \E prog \in Programs : /\ FlowInv(prog) /\ SignalInv(prog)
                                         /\ SourceInv(prog) /\ StoreInv(prog)
                                         /\ AnswerInv(prog)

-----------------------------------------------------------------------------
(* The simulator implements mailboxes                                      *)

(* What the refinement mapping makes of an address and of a host.          *)
BoxOf(a)    == IF sync[a] THEN Stored(a) ELSE Nothing
HeldBy(h)   == IF ReadOpen(h) THEN Stored(pkt[h].addr) ELSE Nothing
AnswerTo(h) == IF toHost[h] = <<>> THEN Nothing ELSE Answered(Head(toHost[h]))

Boxed    == [a \in PktAddrs |-> BoxOf(a)]
Helds    == [h \in Hosts |-> HeldBy(h)]
AnswersTo == [h \in Hosts |-> AnswerTo(h)]

(* The packet with tag t is stored at a, all of it.                        *)
Whole(a, t) == \A i \in Slices : mem_data[a + i] = <<t, i>>

Mail(prog) == /\ TypeInv /\ OnceInv /\ WritesInv /\ ReadInv /\ FlowInv(prog)
              /\ SignalInv(prog) /\ StoreInv(prog) /\ AnswerInv(prog)
=============================================================================

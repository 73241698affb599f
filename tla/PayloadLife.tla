---------------------------- MODULE PayloadLife ----------------------------
(***************************************************************************)
(* The lives of the generic payloads.  A wrapper takes one from its pool   *)
(* for each request and writes the request into it; the controller looks   *)
(* up its device; the memory wrapper copies it into a payload of its own   *)
(* pool and releases it; when the answer is back, the upstream port        *)
(* releases the copy, whose data the wrapper still reads.  Everything else *)
(* hands on pointers.                                                      *)
(*                                                                         *)
(* Between those steps payloads wait in queues.  In which order they leave *)
(* them is the matter of other modules: here each is a set.                *)
(***************************************************************************)
EXTENDS Naturals, Sequences, FiniteSets

CONSTANTS Hosts, Devices,
          Requests      \* [host, dev, id]: what host processes ask for

ASSUME PayloadAssumption ==
  /\ Hosts \cap Devices = {}
  /\ \A r \in Requests : r.host \in Hosts /\ r.dev \in Devices

VARIABLES
  todo,         \* requests the wrappers have not cut from packets yet
  pool,         \* the mm of each wrapper
  fields,       \* what each payload holds, by owner and number: a request
  device_map,   \* the device of each payload of the hosts
  underway,     \* payloads of each host on the way to the controller
  at_device,    \* routed to each device, in the event queue of MEMWrapper
  in_dram,      \* payloads of each device, until the upstream port
  answered      \* requests whose answer the wrapper has read

vars == <<todo, pool, fields, device_map, underway, at_device, in_dram, answered>>

Owners == Hosts \cup Devices

M == INSTANCE Mm

Init ==
  /\ todo = Requests
  /\ pool = [o \in Owners |-> M!NewPool]
  /\ fields = [o \in Owners |-> <<>>]
  /\ device_map = [h \in Hosts |-> <<>>]
  /\ underway = [h \in Hosts |-> {}]
  /\ at_device = [d \in Devices |-> {}]
  /\ in_dram = [d \in Devices |-> {}]
  /\ answered = {}

Written(s, n, x) ==
  IF n \in DOMAIN s THEN [s EXCEPT ![n] = x] ELSE Append(s, x)

(* mutant: insert, which leaves an entry that is there *)
MappedByInsert(map, n, d) == IF n \in DOMAIN map THEN map ELSE Append(map, d)

(* device_map[payload] = d. *)
Mapped(map, n, d) == Written(map, n, d)

(* add_payload. *)
AddPayload(r) ==
  LET h == r.host
      n == M!Allocated(pool[h])
  IN /\ r \in todo
     /\ todo' = todo \ {r}
     /\ pool' = [pool EXCEPT ![h] = M!Allocate(@)]
     /\ fields' = [fields EXCEPT ![h] = Written(@, n, r)]
     /\ device_map' = [device_map EXCEPT ![h] = Mapped(@, n, r.dev)]
     /\ underway' = [underway EXCEPT ![h] = @ \cup {n}]
     /\ UNCHANGED <<at_device, in_dram, answered>>

(* Controller::fw_thread calls the device device_map names, and            *)
(* nb_transport_fw puts the payload into m_peq.                            *)
Route(h, n) ==
  LET d == device_map[h][n]
  IN /\ n \in underway[h]
     /\ underway' = [underway EXCEPT ![h] = @ \ {n}]
     /\ at_device' = [at_device EXCEPT ![d] = @ \cup {<<h, n>>}]
     /\ UNCHANGED <<todo, pool, fields, device_map, in_dram, answered>>

(* mutant: without release *)
ReleasedNot(pools, o, n) == pools

(* release: the count was 1, and the payload goes back to its pool. *)
Released(pools, o, n) == [pools EXCEPT ![o] = M!Free(@, n)]

(* MEMWrapper::peq_cb: gen_trans, and trans.release(). *)
Copy(d, h, n) ==
  LET c == M!Allocated(pool[d])
  IN /\ <<h, n>> \in at_device[d]
     /\ at_device' = [at_device EXCEPT ![d] = @ \ {<<h, n>>}]
     /\ fields' = [fields EXCEPT ![d] = Written(@, c, fields[h][n])]
     /\ pool' = Released([pool EXCEPT ![d] = M!Allocate(@)], h, n)
     /\ in_dram' = [in_dram EXCEPT ![d] = @ \cup {c}]
     /\ UNCHANGED <<todo, device_map, underway, answered>>

(* clock_negedge of the wrapper: END_RESP makes USP::nb_transport_fw       *)
(* release the payload, and then its data is copied.                       *)
Answer(d, n) ==
  /\ n \in in_dram[d]
  /\ in_dram' = [in_dram EXCEPT ![d] = @ \ {n}]
  /\ pool' = Released(pool, d, n)
  /\ answered' = answered \cup {fields[d][n]}
  /\ UNCHANGED <<todo, fields, device_map, underway, at_device>>

Next ==
  \/ \E r \in Requests : AddPayload(r)
  \/ \E h \in Hosts : \E n \in underway[h] : Route(h, n)
  \/ \E d \in Devices : \/ \E p \in at_device[d] : Copy(d, p[1], p[2])
                        \/ \E n \in in_dram[d] : Answer(d, n)

Spec == Init /\ [][Next]_vars

-----------------------------------------------------------------------------
(* The payloads of an owner that somebody holds a pointer to. *)
InUse(o) ==
  IF o \in Devices THEN in_dram[o]
  ELSE underway[o] \cup {n \in 1 .. pool[o].made :
                            \E d \in Devices : <<o, n>> \in at_device[d]}

(* No payload is free and in use, none is on the free list twice, and none *)
(* has been lost: the list of mm.cpp, which threads through nodes that are *)
(* used again, is a stack of the free payloads.                            *)
PoolsSound ==
  \A o \in Owners :
    /\ M!FreeOf(pool[o]) \cup InUse(o) = 1 .. pool[o].made
    /\ M!FreeOf(pool[o]) \cap InUse(o) = {}
    /\ \A i, j \in 1 .. pool[o].free_list :
         pool[o].trans[i] = pool[o].trans[j] => i = j

(* A payload is used again as soon as it is released, and device_map keeps *)
(* the entries of all: each request still goes to its own device.          *)
RoutedToDevice ==
  \A d \in Devices :
    /\ \A p \in at_device[d] : fields[p[1]][p[2]].dev = d
    /\ \A n \in in_dram[d] : fields[d][n].dev = d

Open ==
  (UNION {{fields[h][n] : n \in underway[h]} : h \in Hosts})
    \cup UNION {{fields[p[1]][p[2]] : p \in at_device[d]}
                  \cup {fields[d][n] : n \in in_dram[d]} : d \in Devices}

Store == INSTANCE CommandStore WITH
  Commands <- Requests, unsent <- todo, held <- Open, returned <- answered

(* Whatever payloads they travel in, requests are neither lost nor mixed   *)
(* up: what was written into a payload is what is read from the copy.      *)
ImplementsStore == Store!Spec
=============================================================================

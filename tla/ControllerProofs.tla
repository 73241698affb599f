-------------------------- MODULE ControllerProofs --------------------------
(***************************************************************************)
(* The controller pops no empty queue, gives every acknowledgement to the  *)
(* host it is for when an address has one reader and one writer, and       *)
(* implements the switch of module Switch.                                 *)
(***************************************************************************)
EXTENDS Controller, SequenceTheorems, TLAPS

(* What an action on a queue of elements of S may do to it.                *)
LEMMA QueueSteps ==
  ASSUME NEW S, NEW q \in Seq(S)
  PROVE  /\ \A e \in S : Append(q, e) \in Seq(S) /\ Append(q, e) # <<>>
         /\ q # <<>> => Head(q) \in S /\ Tail(q) \in Seq(S)
<1>1. \A e \in S : Append(q, e) \in Seq(S) /\ Append(q, e) # <<>>
  BY AppendProperties
<1>2. q # <<>> => Head(q) \in S /\ Tail(q) \in Seq(S)
  BY HeadTailProperties
<1> QED
  BY <1>1, <1>2

(* What SendBoth takes from the queue of write acks, and what it leaves.   *)
LEMMA FirstTwo ==
  ASSUME NEW S, NEW q \in Seq(S), NEW n, n = IF Len(q) < 2 THEN Len(q) ELSE 2
  PROVE  /\ \A i \in 1 .. n : q[i] \in S
         /\ SubSeq(q, n + 1, Len(q)) \in Seq(S)
<1>1. Len(q) \in Nat /\ n \in 0 .. Len(q)
  BY LenProperties
<1>2. \A i \in 1 .. Len(q) : q[i] \in S
  BY ElementOfSeq
<1>3. SubSeq(q, n + 1, Len(q)) \in Seq(S)
  BY <1>1, <1>2, SubSeqProperties
<1> QED
  BY <1>1, <1>2, <1>3

(* A thread that waits before a pop finds what it tested for: PopsSafe is  *)
(* inductive with the types of the queues.                                 *)
QueuesTyped ==
  /\ at_ports \subseteq Requests
  /\ at_mem \subseteq Requests
  /\ r_queue \in Seq(Requests)
  /\ w_queue \in Seq(Requests)
  /\ rack_queue \in Seq(Requests)
  /\ wack_queue \in Seq(Requests)

(* The controller never takes the front of an empty queue in the flit it is
   moving. *)
THEOREM NoEmptyPop == Spec => [](QueuesTyped /\ PopsSafe)
<1>1. Init => QueuesTyped /\ PopsSafe
  BY DEF Init, QueuesTyped, PopsSafe
<1>2. QueuesTyped /\ PopsSafe /\ [Next]_vars => (QueuesTyped /\ PopsSafe)'
  <2> SUFFICES ASSUME QueuesTyped, PopsSafe, [Next]_vars
               PROVE  (QueuesTyped /\ PopsSafe)'
    OBVIOUS
  <2>0. \A q \in {r_queue, w_queue, rack_queue, wack_queue} :
          /\ \A e \in Requests : /\ Append(q, e) \in Seq(Requests)
                                 /\ Append(q, e) # <<>>
          /\ q # <<>> => Head(q) \in Requests /\ Tail(q) \in Seq(Requests)
    BY QueueSteps DEF QueuesTyped
  <2> USE DEF QueuesTyped, PopsSafe
  <2>1. ASSUME NEW p \in Requests, TakeRequest(p)
        PROVE  (QueuesTyped /\ PopsSafe)'
    BY <2>0, <2>1 DEF TakeRequest
  <2>2. ASSUME NEW p \in Requests, TakeAck(p)
        PROVE  (QueuesTyped /\ PopsSafe)'
    BY <2>0, <2>2 DEF TakeAck
  <2>3. CASE FwLoop
    BY <2>3 DEF FwLoop, neighbour, tables, bwState
  <2>4. CASE SendRead
    BY <2>0, <2>4 DEF SendRead, tables, bwState
  <2>5. CASE SendWrite
    BY <2>0, <2>5 DEF SendWrite, tables, bwState
  <2>6. CASE BwLoop
    BY <2>6 DEF BwLoop, neighbour, fwState, tables
  <2>7. CASE FirstOfFlit
    BY <2>7 DEF FirstOfFlit, neighbour, fwState, tables
  <2>8. CASE SendRack
    BY <2>0, <2>8 DEF SendRack, AfterAck, neighbour, fwState, tables
  <2>9. CASE SendWack
    BY <2>0, <2>9 DEF SendWack, AfterAck, neighbour, fwState, tables
  <2>10. CASE SendBoth
    BY <2>10, FirstTwo DEF SendBoth, neighbour, fwState, tables
  <2>11. CASE UNCHANGED vars
    BY <2>11 DEF vars, neighbour, queues, tables
  <2> QED
    BY <2>1, <2>2, <2>3, <2>4, <2>5, <2>6, <2>7, <2>8, <2>9, <2>10, <2>11
    DEF Next, FwStep, BwStep
<1> QED
  BY <1>1, <1>2, PTL DEF Spec

(* The routing tables are functions on the addresses.                      *)
TablesTyped ==
  /\ r_trans_id \in [Addrs -> Hosts \cup {NoHost}]
  /\ w_trans_id \in [Addrs -> Hosts \cup {NoHost}]

(* The two address tables stay typed. *)
LEMMA TablesInvariant == Spec => []TablesTyped
<1>1. Init => TablesTyped
  BY DEF Init, TablesTyped
<1>2. TablesTyped /\ [Next]_vars => TablesTyped'
  <2> SUFFICES ASSUME TablesTyped, [Next]_vars PROVE TablesTyped'
    OBVIOUS
  <2>1. ASSUME NEW p \in Requests, TakeRequest(p) PROVE TablesTyped'
    BY <2>1, ControllerAssumption DEF TakeRequest, TablesTyped, Payload
  <2>2. CASE UNCHANGED tables
    BY <2>2 DEF tables, TablesTyped
  <2> QED
    BY <2>1, <2>2
    DEF Next, FwStep, BwStep, TakeAck, FwLoop, SendRead, SendWrite, BwLoop,
        FirstOfFlit, SendRack, SendWack, SendBoth, vars
<1> QED
  BY <1>1, <1>2, PTL DEF Spec

(* The flit and what was delivered, with the two invariants above: the     *)
(* controller counts a flit down by the queue it has just popped.          *)
FlitTyped ==
  /\ fw_pc \in {"loop", "read", "write"}
  /\ bw_pc \in {"loop", "drs", "ndr", "rack", "wack", "both", "both_rack"}
  /\ flit \in 0 .. 3
  /\ delivered \in [Hosts -> SUBSET Requests]

(* Acks handed to the ports leave the delivered sets typed. *)
LEMMA DeliverTyped ==
  ASSUME delivered \in [Hosts -> SUBSET Requests], NEW table,
         NEW acks \in SUBSET Requests, Deliver(table, acks)
  PROVE  delivered' \in [Hosts -> SUBSET Requests]
BY DEF Deliver

(* A step keeps the flits that the controller's threads hold typed. *)
LEMMA FlitStep ==
  ASSUME QueuesTyped, PopsSafe, FlitTyped, [Next]_vars
  PROVE  FlitTyped'
<1> USE DEF FlitTyped
<1>1. rack_queue # <<>> => Head(rack_queue) \in Requests
  BY QueueSteps DEF QueuesTyped
<1>2. wack_queue # <<>> => Head(wack_queue) \in Requests
  BY QueueSteps DEF QueuesTyped
<1>3. ASSUME NEW p \in Requests, TakeRequest(p) \/ TakeAck(p) PROVE FlitTyped'
  BY <1>3 DEF TakeRequest, TakeAck
<1>4. CASE FwStep
  BY <1>4 DEF FwStep, FwLoop, SendRead, SendWrite, bwState
<1>5. CASE BwLoop \/ FirstOfFlit
  BY <1>5 DEF BwLoop, FirstOfFlit, fwState
<1>6. CASE SendRack
  <2>1. delivered' \in [Hosts -> SUBSET Requests]
    <3>1. {Head(rack_queue)} \in SUBSET Requests
      BY <1>1, <1>6 DEF SendRack, PopsSafe
    <3> QED BY <1>6, <3>1, DeliverTyped DEF SendRack
  <2>2. \/ bw_pc' = "loop" /\ flit' = 0
        \/ bw_pc' = "rack" /\ flit > 1 /\ flit' = flit - 1
    BY <1>6 DEF SendRack, AfterAck
  <2>3. fw_pc' = fw_pc
    BY <1>6 DEF SendRack, fwState
  <2> QED BY <2>1, <2>2, <2>3
<1>7. CASE SendWack
  <2>1. delivered' \in [Hosts -> SUBSET Requests]
    <3>1. {Head(wack_queue)} \in SUBSET Requests
      BY <1>2, <1>7 DEF SendWack, PopsSafe
    <3> QED BY <1>7, <3>1, DeliverTyped DEF SendWack
  <2>2. \/ bw_pc' = "loop" /\ flit' = 0
        \/ bw_pc' = "wack" /\ flit > 1 /\ flit' = flit - 1
    BY <1>7 DEF SendWack, AfterAck
  <2>3. fw_pc' = fw_pc
    BY <1>7 DEF SendWack, fwState
  <2> QED BY <2>1, <2>2, <2>3
<1>8. CASE SendBoth
  <2> DEFINE n == IF Len(wack_queue) < 2 THEN Len(wack_queue) ELSE 2
  <2>1. \A i \in 1 .. n : wack_queue[i] \in Requests
    BY FirstTwo DEF QueuesTyped
  <2>2. {wack_queue[i] : i \in 1 .. n} \in SUBSET Requests
    BY <2>1
  <2>3. delivered' \in [Hosts -> SUBSET Requests]
    BY <1>8, <2>2, DeliverTyped DEF SendBoth
  <2> QED BY <1>8, <2>3 DEF SendBoth, fwState
<1>9. CASE UNCHANGED vars
  BY <1>9 DEF vars
<1> QED
  BY <1>3, <1>4, <1>5, <1>6, <1>7, <1>8, <1>9 DEF Next, BwStep

(* Every queue, table and list of the controller keeps its type, whatever  *)
(* the ports offer: fw_thread, bw_thread and flit_packing_68.              *)
THEOREM TypeCorrect == Spec => []TypeOK
<1>1. Init => FlitTyped
  BY DEF Init, FlitTyped
<1>2. QueuesTyped /\ PopsSafe /\ FlitTyped /\ [Next]_vars => FlitTyped'
  BY FlitStep
<1>3. Spec => []FlitTyped
  BY <1>1, <1>2, NoEmptyPop, PTL DEF Spec
<1>4. QueuesTyped /\ TablesTyped /\ FlitTyped => TypeOK
  BY DEF QueuesTyped, TablesTyped, FlitTyped, TypeOK
<1> QED
  BY <1>3, <1>4, NoEmptyPop, TablesInvariant, PTL

(* Queues only gain from at_ports becoming smaller.                        *)
LEMMA KindGrows ==
  ASSUME NEW p \in at_ports, at_ports' = at_ports \ {p}, NEW c,
         at_ports \subseteq Requests
  PROVE  /\ Kind(c) \subseteq Kind(c)'
         /\ Kind(c)' \subseteq Kind(c) \cup {p}
         /\ p.cmd = c => p \in Kind(c)'
         /\ p.cmd # c => Kind(c)' = Kind(c)
         /\ \A q \in Seq(Kind(c)) : q \in Seq(Kind(c)')
<1>1. Kind(c) \subseteq Kind(c)'
  BY DEF Kind
<1>2. \A q \in Seq(Kind(c)) : q \in Seq(Kind(c)')
  BY <1>1, SeqMonotonic
<1> QED
  BY <1>1, <1>2 DEF Kind

(* RouteInv is inductive when an address has one reader and one writer: a  *)
(* later request for the address finds its own host in the table already.  *)
THEOREM Routes ==
  ASSUME OneHostPerAddress
  PROVE  Spec => []RouteInv
<1> USE ControllerAssumption
<1>1. Init => RouteInv
  BY DEF Init, RouteInv, Kind
<1>2. QueuesTyped /\ PopsSafe /\ TablesTyped /\ RouteInv /\ [Next]_vars
        => RouteInv'
  <2> SUFFICES ASSUME QueuesTyped, PopsSafe, TablesTyped, RouteInv,
                      [Next]_vars
               PROVE  RouteInv'
    OBVIOUS
  <2>0. \A c \in {"R", "W"} : \A q \in Seq(Kind(c)) :
          /\ \A e \in Kind(c) : Append(q, e) \in Seq(Kind(c))
          /\ q # <<>> => Head(q) \in Kind(c) /\ Tail(q) \in Seq(Kind(c))
    BY QueueSteps
  <2>1. ASSUME NEW p \in Requests, TakeRequest(p)
        PROVE  RouteInv'
    <3>1. p \in at_ports /\ at_ports' = at_ports \ {p}
      BY <2>1 DEF TakeRequest
    <3>2. \A c \in {"R", "W"} :
            /\ Kind(c) \subseteq Kind(c)'
            /\ Kind(c)' \subseteq Kind(c) \cup {p}
            /\ p.cmd = c => p \in Kind(c)'
            /\ p.cmd # c => Kind(c)' = Kind(c)
            /\ \A q \in Seq(Kind(c)) : q \in Seq(Kind(c)')
      BY <3>1, KindGrows DEF QueuesTyped
    <3>3. p.cmd \in {"R", "W"} /\ p.addr \in Addrs
      BY DEF Payload
    <3>4. /\ r_queue \in Seq(Kind("R")') /\ w_queue \in Seq(Kind("W")')
          /\ rack_queue \in Seq(Kind("R")') /\ wack_queue \in Seq(Kind("W")')
      BY <3>2 DEF RouteInv
    <3>5. /\ p.cmd = "R" => Append(r_queue, p) \in Seq(Kind("R")')
          /\ p.cmd = "W" => Append(w_queue, p) \in Seq(Kind("W")')
      BY <3>2, <3>4, AppendProperties
    <3>6. r_queue' \in Seq(Kind("R")') /\ w_queue' \in Seq(Kind("W")')
      BY <2>1, <3>3, <3>4, <3>5 DEF TakeRequest
    <3>7. \A q \in Kind("R")' : r_trans_id'[q.addr] = q.id
      <4>1. CASE p.cmd = "R"
        <5> SUFFICES ASSUME NEW q \in Kind("R")'
                     PROVE  r_trans_id'[q.addr] = q.id
          OBVIOUS
        <5>1. r_trans_id' = [r_trans_id EXCEPT ![p.addr] = p.id]
          BY <2>1, <4>1 DEF TakeRequest
        <5>2. q \in Requests /\ q.cmd = "R" /\ (q = p \/ q \in Kind("R"))
          BY <3>2 DEF Kind
        <5>3. q.addr = p.addr => q.id = p.id
          BY <4>1, <5>2 DEF OneHostPerAddress
        <5> QED
          BY <3>3, <5>1, <5>2, <5>3 DEF TablesTyped, RouteInv
      <4>2. CASE p.cmd # "R"
        BY <2>1, <3>2, <4>2 DEF TakeRequest, RouteInv
      <4> QED
        BY <4>1, <4>2
    <3>8. \A q \in Kind("W")' : w_trans_id'[q.addr] = q.id
      <4>1. CASE p.cmd = "W"
        <5> SUFFICES ASSUME NEW q \in Kind("W")'
                     PROVE  w_trans_id'[q.addr] = q.id
          OBVIOUS
        <5>1. w_trans_id' = [w_trans_id EXCEPT ![p.addr] = p.id]
          BY <2>1, <4>1 DEF TakeRequest
        <5>2. q \in Requests /\ q.cmd = "W" /\ (q = p \/ q \in Kind("W"))
          BY <3>2 DEF Kind
        <5>3. q.addr = p.addr => q.id = p.id
          BY <4>1, <5>2 DEF OneHostPerAddress
        <5> QED
          BY <3>3, <5>1, <5>2, <5>3 DEF TablesTyped, RouteInv
      <4>2. CASE p.cmd # "W"
        BY <2>1, <3>2, <3>3, <4>2 DEF TakeRequest, RouteInv
      <4> QED
        BY <4>1, <4>2
    <3>9. at_mem' \subseteq Kind("R")' \cup Kind("W")'
      BY <2>1, <3>2 DEF TakeRequest, RouteInv
    <3> QED
      BY <2>1, <3>4, <3>6, <3>7, <3>8, <3>9 DEF TakeRequest, RouteInv
  <2> USE DEF RouteInv
  <2>2. ASSUME NEW p \in Requests, TakeAck(p)
        PROVE  RouteInv'
    <3>1. \A c : Kind(c)' = Kind(c)
      BY <2>2 DEF TakeAck, Kind
    <3>2. IF p.cmd = "R" THEN p \in Kind("R") ELSE p \in Kind("W")
      BY <2>2 DEF TakeAck, Kind
    <3>3. /\ p.cmd = "R" => Append(rack_queue, p) \in Seq(Kind("R"))
          /\ p.cmd # "R" => Append(wack_queue, p) \in Seq(Kind("W"))
      BY <3>2, AppendProperties
    <3> QED
      BY <2>2, <3>1, <3>3 DEF TakeAck, tables
  <2>3. CASE FwLoop
    BY <2>3 DEF FwLoop, neighbour, Kind, tables, bwState
  <2>4. CASE SendRead
    BY <2>0, <2>4 DEF SendRead, Kind, tables, bwState, PopsSafe
  <2>5. CASE SendWrite
    BY <2>0, <2>5 DEF SendWrite, Kind, tables, bwState, PopsSafe
  <2>6. CASE BwLoop
    BY <2>6 DEF BwLoop, neighbour, Kind, fwState, tables
  <2>7. CASE FirstOfFlit
    BY <2>7 DEF FirstOfFlit, neighbour, Kind, fwState, tables
  <2>8. CASE SendRack
    BY <2>0, <2>8 DEF SendRack, neighbour, Kind, fwState, tables, PopsSafe
  <2>9. CASE SendWack
    BY <2>0, <2>9 DEF SendWack, neighbour, Kind, fwState, tables, PopsSafe
  <2>10. CASE SendBoth
    <3>1. wack_queue' \in Seq(Kind("W"))
      BY <2>10, FirstTwo DEF SendBoth
    <3> QED
      BY <2>10, <3>1 DEF SendBoth, neighbour, Kind, fwState, tables
  <2>11. CASE UNCHANGED vars
    BY <2>11 DEF vars, neighbour, Kind, queues, tables
  <2> QED
    BY <2>1, <2>2, <2>3, <2>4, <2>5, <2>6, <2>7, <2>8, <2>9, <2>10, <2>11
    DEF Next, FwStep, BwStep
<1> QED
  BY <1>1, <1>2, NoEmptyPop, TablesInvariant, PTL DEF Spec

(* Every ack goes home: the port that is found by address is the port of   *)
(* the host that issued the payload.                                       *)
THEOREM AcksGoHome ==
  ASSUME OneHostPerAddress
  PROVE  Spec => []RoutedHome
<1>1. Init => RoutedHome
  BY DEF Init, RoutedHome
<1>2. PopsSafe /\ RouteInv /\ RoutedHome /\ [Next]_vars => RoutedHome'
  <2> SUFFICES ASSUME PopsSafe, RouteInv, RoutedHome, [Next]_vars
               PROVE  RoutedHome'
    OBVIOUS
  <2>1. CASE SendRack
    <3>1. Head(rack_queue) \in Kind("R")
      BY <2>1, HeadTailProperties DEF SendRack, PopsSafe, RouteInv
    <3> QED
      BY <2>1, <3>1 DEF SendRack, Deliver, RouteInv, RoutedHome
  <2>2. CASE SendWack
    <3>1. Head(wack_queue) \in Kind("W")
      BY <2>2, HeadTailProperties DEF SendWack, PopsSafe, RouteInv
    <3> QED
      BY <2>2, <3>1 DEF SendWack, Deliver, RouteInv, RoutedHome
  <2>3. CASE SendBoth
    <3> DEFINE n == IF Len(wack_queue) < 2 THEN Len(wack_queue) ELSE 2
    <3>1. \A i \in 1 .. n : wack_queue[i] \in Kind("W")
      BY FirstTwo DEF RouteInv
    <3> QED
      BY <2>3, <3>1 DEF SendBoth, Deliver, RouteInv, RoutedHome
  <2>4. CASE UNCHANGED delivered
    BY <2>4 DEF RoutedHome
  <2> QED
    BY <2>1, <2>2, <2>3, <2>4
    DEF Next, FwStep, BwStep, TakeRequest, TakeAck, FwLoop, SendRead,
        SendWrite, BwLoop, FirstOfFlit, bwState, vars
<1> QED
  BY <1>1, <1>2, NoEmptyPop, Routes, PTL DEF Spec
-----------------------------------------------------------------------------
(* The controller is the switch the whole-system model takes it for        *)

(* What the steps of the switch do to a queue, in the words of the code.   *)
LEMMA QueueWords ==
  ASSUME NEW S, NEW q \in Seq(S)
  PROVE  /\ q \o <<>> = q
         /\ \A e \in S : q \o <<e>> = Append(q, e)
         /\ q # <<>> => Len(q) \in Nat \ {0} /\ Tail(q) = SubSeq(q, 2, Len(q))
  OBVIOUS

(* Module Switch speaks of the same payloads.                              *)
LEMMA SamePayloads == AsSwitch!Payload = Payload
  BY DEF Payload, AsSwitch!Payload, Addrs, AsSwitch!Addrs, Slices,
         AsSwitch!Slices, Cells, AsSwitch!Cells

(* An ack enters the queue of its kind, and no other.                      *)
LEMMA AckIsSwitched ==
  ASSUME QueuesTyped, NEW p \in Requests, TakeAck(p)
  PROVE  \E rs \in AsSwitch!Optional("R"), ws \in AsSwitch!Optional("W") :
           AsSwitch!TakeAcks(rs, ws)
<1>0. p \in Payload /\ p.cmd \in {"R", "W"}
  BY ControllerAssumption DEF Payload
<1>1. /\ rack_queue \o <<>> = rack_queue /\ wack_queue \o <<>> = wack_queue
      /\ rack_queue \o <<p>> = Append(rack_queue, p)
      /\ wack_queue \o <<p>> = Append(wack_queue, p)
  BY QueueWords DEF QueuesTyped
<1>2. CASE p.cmd = "R"
  <2>1. <<p>> \in AsSwitch!Optional("R") /\ <<>> \in AsSwitch!Optional("W")
    BY <1>0, <1>2, SamePayloads DEF AsSwitch!Optional
  <2>2. AsSwitch!TakeAcks(<<p>>, <<>>)
    BY <1>1, <1>2 DEF TakeAck, tables, AsSwitch!TakeAcks
  <2> QED
    BY <2>1, <2>2
<1>3. CASE p.cmd = "W"
  <2>1. <<>> \in AsSwitch!Optional("R") /\ <<p>> \in AsSwitch!Optional("W")
    BY <1>0, <1>3, SamePayloads DEF AsSwitch!Optional
  <2>2. AsSwitch!TakeAcks(<<>>, <<p>>)
    BY <1>1, <1>3 DEF TakeAck, tables, AsSwitch!TakeAcks
  <2> QED
    BY <2>1, <2>2
<1> QED
  BY <1>0, <1>2, <1>3

(* Write acks leave alone, or two of them with a read ack: the oldest, in  *)
(* both cases.                                                             *)
LEMMA WacksAreSwitched ==
  ASSUME QueuesTyped, PopsSafe, SendWack \/ SendBoth
  PROVE  \E n \in 1 .. 2 : AsSwitch!SendWacks(n)
<1>1. wack_queue # <<>>
  BY DEF SendWack, SendBoth, PopsSafe
<1>2. /\ Len(wack_queue) \in Nat \ {0}
      /\ Tail(wack_queue) = SubSeq(wack_queue, 2, Len(wack_queue))
  BY <1>1, QueueWords DEF QueuesTyped
<1>3. CASE SendWack
  BY <1>2, <1>3 DEF SendWack, fwState, tables, AsSwitch!SendWacks
<1>4. CASE SendBoth
  <2> DEFINE n == IF Len(wack_queue) < 2 THEN Len(wack_queue) ELSE 2
  <2>1. n \in 1 .. 2 /\ n <= Len(wack_queue)
    <3>1. \A l \in Nat \ {0} : LET m == IF l < 2 THEN l ELSE 2
                               IN m \in 1 .. 2 /\ m <= l
      OBVIOUS
    <3> QED
      BY <1>2, <3>1
  <2>2. AsSwitch!SendWacks(n)
    BY <1>4, <2>1 DEF SendBoth, fwState, tables, AsSwitch!SendWacks
  <2> QED
    BY <2>1, <2>2
<1> QED
  BY <1>3, <1>4

(* Threads, waits and flits implement the switch of module Switch: one     *)
(* FIFO queue per kind and direction, ports by address.  The tests before  *)
(* the waits are stutters; each pop is a step of the switch because the    *)
(* queue tested still has an element (PopsSafe).                           *)
THEOREM ControllerIsSwitch == Spec => ImplementsSwitch
<1>1. Init => AsSwitch!Init
  BY DEF Init, AsSwitch!Init, Addrs, AsSwitch!Addrs, Slices, AsSwitch!Slices
<1>2. QueuesTyped /\ PopsSafe /\ [Next]_vars
        => [AsSwitch!Next]_(AsSwitch!own)
  <2> SUFFICES ASSUME QueuesTyped, PopsSafe, [Next]_vars
               PROVE  AsSwitch!Next \/ UNCHANGED AsSwitch!own
    OBVIOUS
  <2>1. ASSUME NEW p \in Requests, TakeRequest(p)
        PROVE  AsSwitch!Next
    <3>1. p \in Payload /\ p.cmd \in {"R", "W"} /\ p.id \in Hosts
      BY ControllerAssumption DEF Payload
    <3>2. CASE p.cmd = "R"
      <4>1. AsSwitch!TakeRead(p.id, p)
        BY <2>1, <3>2 DEF TakeRequest, AsSwitch!TakeRead
      <4> QED
        BY <3>1, <3>2, <4>1, SamePayloads DEF AsSwitch!Next
    <3>3. CASE p.cmd = "W"
      <4>1. AsSwitch!TakeWrite(p.id, p)
        BY <2>1, <3>3 DEF TakeRequest, AsSwitch!TakeWrite
      <4> QED
        BY <3>1, <3>3, <4>1, SamePayloads DEF AsSwitch!Next
    <3> QED
      BY <3>1, <3>2, <3>3
  <2>2. ASSUME NEW p \in Requests, TakeAck(p)
        PROVE  AsSwitch!Next
    BY <2>2, AckIsSwitched DEF AsSwitch!Next
  <2>3. CASE FwLoop \/ BwLoop \/ FirstOfFlit
    BY <2>3 DEF FwLoop, BwLoop, FirstOfFlit, fwState, bwState, tables,
                AsSwitch!own
  <2>4. CASE SendRead
    BY <2>4 DEF SendRead, PopsSafe, tables, bwState, AsSwitch!SendRead,
                AsSwitch!Next
  <2>5. CASE SendWrite
    BY <2>5 DEF SendWrite, PopsSafe, tables, bwState, AsSwitch!SendWrite,
                AsSwitch!Next
  <2>6. CASE SendRack
    BY <2>6 DEF SendRack, PopsSafe, tables, fwState, AsSwitch!SendRack,
                AsSwitch!Next
  <2>7. CASE SendWack \/ SendBoth
    BY <2>7, WacksAreSwitched DEF AsSwitch!Next
  <2>8. CASE UNCHANGED vars
    BY <2>8 DEF vars, queues, tables, AsSwitch!own
  <2> QED
    BY <2>1, <2>2, <2>3, <2>4, <2>5, <2>6, <2>7, <2>8
    DEF Next, FwStep, BwStep
<1> QED
  BY <1>1, <1>2, NoEmptyPop, PTL DEF Spec, ImplementsSwitch, AsSwitch!Spec
=============================================================================

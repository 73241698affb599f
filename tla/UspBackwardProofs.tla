-------------------------- MODULE UspBackwardProofs --------------------------
(***************************************************************************)
(* No acknowledgement replaces another in the wrapper's slots, for every   *)
(* clock period and all latencies of at least one unit of time; and on     *)
(* their way through both ports none is lost, repeated or reordered.       *)
(***************************************************************************)
EXTENDS PortsBackward, SequenceTheorems, TLAPS

(* Every wait of bw_thread for a latency lets time pass. *)
LEMMA LatencyPositive ==
  ASSUME NEW num
  PROVE  Latency(num) \in Nat \ {0}
BY UspBackwardAssumption DEF Latency

(* The flit counter stays below the depth of the pipeline. *)
LEMMA CountInRange ==
  ASSUME NEW num \in 0 .. Pipeline - 1
  PROVE  Counted(num) \in 0 .. Pipeline - 1
BY UspBackwardAssumption DEF Counted

(* An ack that arrives is one, or none. *)
LEMMA ArrivingTyped ==
  ASSUME TypeOK, NEW c, NEW q \in Arriving(c)
  PROVE  q \in Seq(Payload)
<1>1. CASE q = <<>>
  BY <1>1, EmptySeq
<1>2. CASE \E p \in at_mem : q = <<p>>
  <2>1. PICK p \in at_mem : q = <<p>>
    BY <1>2
  <2>2. p \in Payload
    BY <2>1, UspBackwardAssumption DEF TypeOK
  <2> QED
    BY <2>1, <2>2
<1> QED
  BY <1>1, <1>2 DEF Arriving

(* The three ways on to the next wait keep the types of what they assign.  *)
LEMMA NextWaitTyped ==
  ASSUME TypeOK, PopWack \/ PopRack \/ Pause
  PROVE  /\ rack_queue' \in Seq(Payload)
         /\ wack_queue' \in Seq(Payload)
         /\ bw_pc' \in {"loop", "wack", "rack"}
         /\ timer' \in Nat
         /\ trans' \in Payload \cup {NoPayload}
<1>1. CASE PopWack
  <2>1. Head(wack_queue) \in Payload /\ Tail(wack_queue) \in Seq(Payload)
    BY <1>1, HeadTailProperties DEF PopWack, TypeOK
  <2> QED
    BY <1>1, <2>1, LatencyPositive DEF PopWack, TypeOK
<1>2. CASE PopRack
  <2>1. Head(rack_queue) \in Payload /\ Tail(rack_queue) \in Seq(Payload)
    BY <1>2, HeadTailProperties DEF PopRack, TypeOK
  <2> QED
    BY <1>2, <2>1, LatencyPositive DEF PopRack, TypeOK
<1>3. CASE Pause
  BY <1>3, UspBackwardAssumption DEF Pause, TypeOK
<1> QED
  BY <1>1, <1>2, <1>3

(* Type correctness: the thread's counters stay below `pipeline' as the    *)
(* model keeps them, its wait and the clock's are natural numbers.         *)
THEOREM TypeCorrect == Spec => []TypeOK
<1> USE UspBackwardAssumption
<1>1. Init => TypeOK
  BY DEF Init, TypeOK
<1>2. TypeOK /\ [Next]_vars => TypeOK'
  <2> SUFFICES ASSUME TypeOK, [Next]_vars PROVE TypeOK'
    OBVIOUS
  <2> USE CountInRange DEF TypeOK
  <2>1. CASE TopOfLoop
    BY <2>1, NextWaitTyped DEF TopOfLoop, slots
  <2>2. CASE SendWack
    BY <2>2, NextWaitTyped DEF SendWack
  <2>3. CASE SendRack
    BY <2>3, NextWaitTyped DEF SendRack
  <2>4. CASE Posedge
    BY <2>4 DEF Posedge, thread
  <2>5. CASE Tick
    BY <2>5 DEF Tick, slots
  <2>6. ASSUME NEW rs \in Arriving("R"), NEW ws \in Arriving("W"),
               TakeAcks(rs, ws)
        PROVE  TypeOK'
    <3>1. rs \in Seq(Payload) /\ ws \in Seq(Payload)
      BY ArrivingTyped
    <3>2. rack_queue \o rs \in Seq(Payload) /\ wack_queue \o ws \in Seq(Payload)
      BY <3>1, ConcatProperties
    <3> QED
      BY <2>6, <3>2 DEF TakeAcks, thread, slots
  <2>7. CASE UNCHANGED vars
    BY <2>7 DEF vars, thread, slots
  <2> QED
    BY <2>1, <2>2, <2>3, <2>4, <2>5, <2>6, <2>7 DEF Next, KernelStep
<1> QED
  BY <1>1, <1>2, PTL DEF Spec

(* PacedInv is inductive: a full slot meets its clock edge before the      *)
(* thread can have come round to the next ack of the kind.                 *)
THEOREM Paced == Spec => []PacedInv
<1> USE UspBackwardAssumption
<1>1. Init => PacedInv
  BY DEF Init, PacedInv
<1>2. TypeOK /\ PacedInv /\ [Next]_vars => PacedInv'
  <2> SUFFICES ASSUME TypeOK, PacedInv, [Next]_vars PROVE PacedInv'
    OBVIOUS
  <2> USE LatencyPositive DEF TypeOK, PacedInv, NextRack, NextWack
  <2>1. CASE TopOfLoop
    BY <2>1 DEF TopOfLoop, PopWack, PopRack, Pause, slots
  <2>2. CASE SendWack
    BY <2>2 DEF SendWack, PopRack, Pause
  <2>3. CASE SendRack
    BY <2>3 DEF SendRack, Pause
  <2>4. CASE Posedge
    BY <2>4 DEF Posedge
  <2>5. CASE Tick
    BY <2>5 DEF Tick, slots
  <2>6. ASSUME NEW rs, NEW ws, TakeAcks(rs, ws) PROVE PacedInv'
    BY <2>6 DEF TakeAcks, thread, slots
  <2>7. CASE UNCHANGED vars
    BY <2>7 DEF vars, thread, slots
  <2> QED
    BY <2>1, <2>2, <2>3, <2>4, <2>5, <2>6, <2>7 DEF Next, KernelStep
<1> QED
  BY <1>1, <1>2, TypeCorrect, PTL DEF Spec

(* SIMWrapper::peq_cb assigns its slots without a test, and never loses an *)
(* ack by it.                                                              *)
THEOREM NoAckLost == Spec => SlotNeverOverwritten
<1> DEFINE Kept == /\ rack_incoming # NoPayload =>
                        rack_incoming' \in {rack_incoming, NoPayload}
                   /\ wack_incoming # NoPayload =>
                        wack_incoming' \in {wack_incoming, NoPayload}
<1>1. TypeOK /\ PacedInv /\ [Next]_vars => [Kept]_vars
  <2> SUFFICES ASSUME TypeOK, PacedInv, Next PROVE Kept
    OBVIOUS
  <2>1. CASE SendWack
    <3>1. wack_incoming = NoPayload
      BY <2>1, UspBackwardAssumption DEF SendWack, PacedInv, NextWack, TypeOK
    <3> QED
      BY <2>1, <3>1 DEF SendWack
  <2>2. CASE SendRack
    <3>1. rack_incoming = NoPayload
      BY <2>2, UspBackwardAssumption DEF SendRack, PacedInv, NextRack, TypeOK
    <3> QED
      BY <2>2, <3>1 DEF SendRack
  <2>3. CASE Posedge
    BY <2>3 DEF Posedge
  <2>4. CASE TopOfLoop
    BY <2>4 DEF TopOfLoop, slots
  <2>5. CASE Tick
    BY <2>5 DEF Tick, slots
  <2>6. ASSUME NEW rs, NEW ws, TakeAcks(rs, ws) PROVE Kept
    BY <2>6 DEF TakeAcks, slots
  <2> QED
    BY <2>1, <2>2, <2>3, <2>4, <2>5, <2>6 DEF Next, KernelStep
<1> QED
  BY <1>1, TypeCorrect, Paced, PTL DEF Spec, SlotNeverOverwritten

-----------------------------------------------------------------------------
(* Acks in three queues, one behind the other.                             *)
LEMMA Associative ==
  ASSUME NEW p \in Seq(Payload), NEW q \in Seq(Payload), NEW r \in Seq(Payload)
  PROVE  (p \o q) \o r = p \o (q \o r)
BY ConcatAssociative

(* The first element of a deque, and the others.                           *)
LEMMA HeadThenTail ==
  ASSUME NEW q \in Seq(Payload), q # <<>>
  PROVE  /\ Head(q) \in Payload
         /\ Tail(q) \in Seq(Payload)
         /\ <<Head(q)>> \in Seq(Payload)
         /\ <<Head(q)>> \o Tail(q) = q
         /\ Front(q) = <<Head(q)>>
<1>1. Len(q) \in Nat \ {0}
  BY EmptySeq
<1>2. /\ Head(q) \in Payload /\ Tail(q) \in Seq(Payload)
      /\ Tail(q) = SubSeq(q, 2, Len(q))
  BY HeadTailProperties, TailIsSubSeq
<1>3. q = SubSeq(q, 1, Len(q))
  BY SubSeqFull
<1>4. Head(q) = q[1]
  BY <1>1
<1>5. SubSeq(q, 1, Len(q)) = <<q[1]>> \o SubSeq(q, 1 + 1, Len(q))
  BY <1>1, SubSeqRecursiveFirst
<1>6. <<Head(q)>> \o Tail(q) = q
  BY <1>2, <1>3, <1>4, <1>5
<1>7. <<Head(q)>> \in Seq(Payload)
  BY <1>2
<1>8. SubSeq(q, 1, 1) = <<q[1]>> \o SubSeq(q, 1 + 1, 1)
  BY <1>1, SubSeqRecursiveFirst
<1>9. SubSeq(q, 1 + 1, 1) = <<>>
  BY SubSeqEmpty
<1>10. Front(q) = <<Head(q)>>
  BY <1>4, <1>7, <1>8, <1>9, ConcatEmptySeq DEF Front
<1> QED
  BY <1>2, <1>6, <1>7, <1>10

(* An element handed on, or none, from an empty queue.                     *)
LEMMA HandedOn ==
  ASSUME NEW q \in Seq(Payload), NEW d \in Seq(Payload)
  PROVE  /\ Front(d) \in Seq(Payload)
         /\ Rest(d) \in Seq(Payload)
         /\ q \o Front(d) \in Seq(Payload)
         /\ (q \o Front(d)) \o Rest(d) = q \o d
<1> PICK f : f = Front(d)
  OBVIOUS
<1> PICK r : r = Rest(d)
  OBVIOUS
<1>1. f \in Seq(Payload) /\ r \in Seq(Payload) /\ f \o r = d
  <2>1. CASE d = <<>>
    <3>1. f = <<>> /\ r = <<>>
      BY <2>1, SubSeqEmpty DEF Front, Rest
    <3> QED
      BY <2>1, <3>1, ConcatEmptySeq
  <2>2. CASE d # <<>>
    BY <2>2, HeadThenTail DEF Rest
  <2> QED
    BY <2>1, <2>2
<1>2. (q \o f) \o r = q \o (f \o r)
  BY <1>1, Associative, Zenon
<1>3. q \o f \in Seq(Payload)
  BY <1>1, ConcatProperties
<1> QED
  BY <1>1, <1>2, <1>3

(* An ack behind the others.                                               *)
LEMMA AppendedLast ==
  ASSUME NEW x \in Seq(Payload), NEW d \in Seq(Payload), NEW p \in Payload
  PROVE  /\ d \o <<p>> \in Seq(Payload)
         /\ x \o (d \o <<p>>) = Append(x \o d, p)
<1>1. <<p>> \in Seq(Payload) /\ x \o d \in Seq(Payload)
  BY ConcatProperties
<1> PICK t : t = <<p>>
  OBVIOUS
<1>2. (x \o d) \o t = x \o (d \o t)
  BY <1>1, Associative, Zenon
<1>3. Append(x \o d, p) = (x \o d) \o <<p>>
  BY <1>1, AppendIsConcat
<1>4. d \o <<p>> \in Seq(Payload)
  BY <1>1, ConcatProperties
<1> QED
  BY <1>2, <1>3, <1>4

(* The first ack gone, the others stay.                                    *)
LEMMA FirstGone ==
  ASSUME NEW p \in Payload, NEW x \in Seq(Payload)
  PROVE  <<p>> \o x # <<>> /\ Tail(<<p>> \o x) = x
<1>1. <<p>> \in Seq(Payload) /\ Len(<<p>>) = 1
  OBVIOUS
<1>2. /\ <<p>> \o x \in Seq(Payload) /\ Len(<<p>> \o x) = 1 + Len(x)
      /\ Len(x) \in Nat
  BY <1>1, ConcatProperties, LenProperties
<1>3. <<p>> \o x # <<>>
  BY <1>2, EmptySeq
<1>4. /\ Tail(<<p>> \o x) \in Seq(Payload)
      /\ <<Head(<<p>> \o x)>> \o Tail(<<p>> \o x) = <<p>> \o x
      /\ Head(<<p>> \o x) = (<<p>> \o x)[1]
  BY <1>2, <1>3, HeadThenTail
<1>5. (<<p>> \o x)[1] = p
  BY <1>1, <1>2, ConcatProperties
<1> PICK y : y = Tail(<<p>> \o x)
  OBVIOUS
<1>6. y \in Seq(Payload) /\ <<p>> \o y = <<p>> \o x
  BY <1>4, <1>5
<1>7. y = x
  BY <1>1, <1>6, ConcatSimplifications, Zenon
<1> QED
  BY <1>3, <1>7

(* While the thread waits to send an ack, it holds one.                    *)
HandInv == bw_pc \in {"rack", "wack"} => trans \in Payload

(* The backward thread of the port holds an ack exactly where it hands one over.
   *)
LEMMA HandInvHolds == Spec => []HandInv
<1>1. Init => HandInv
  BY DEF Init, HandInv
<1>2. TypeOK /\ HandInv /\ [Next]_vars => HandInv'
  <2> SUFFICES ASSUME TypeOK, HandInv, [Next]_vars PROVE HandInv'
    OBVIOUS
  <2>1. ASSUME PopWack \/ PopRack \/ Pause PROVE HandInv'
    BY <2>1, HeadThenTail DEF PopWack, PopRack, Pause, HandInv, TypeOK
  <2>2. CASE TopOfLoop \/ SendWack \/ SendRack
    BY <2>1, <2>2 DEF TopOfLoop, SendWack, SendRack
  <2>3. CASE UNCHANGED <<bw_pc, trans>>
    BY <2>3 DEF HandInv
  <2>4. Posedge \/ Tick => UNCHANGED <<bw_pc, trans>>
    BY DEF Posedge, Tick, thread
  <2>5. ASSUME NEW rs, NEW ws, TakeAcks(rs, ws)
        PROVE  UNCHANGED <<bw_pc, trans>>
    BY <2>5 DEF TakeAcks, thread
  <2>6. UNCHANGED vars => UNCHANGED <<bw_pc, trans>>
    BY DEF vars, thread
  <2> QED
    BY <2>2, <2>3, <2>4, <2>5, <2>6 DEF Next, KernelStep
<1> QED
  BY <1>1, <1>2, TypeCorrect, PTL DEF Spec

(* A composed behaviour is one of the upstream port.                       *)
LEMMA PortsRunUsp == PortsSpec => Spec
<1>1. PortsInit => Init
  BY DEF PortsInit
<1>2. [PortsNext]_PortVars => [Next]_vars
  <2> SUFFICES ASSUME [PortsNext]_PortVars PROVE [Next]_vars
    OBVIOUS
  <2>1. CASE UspTurn
    BY <2>1 DEF UspTurn, Next
  <2>2. CASE DspTurn
    <3>1. TakeAcks(Front(d_rack), Front(d_wack))
      BY <2>2 DEF DspTurn
    <3>2. Front(d_rack) \in Arriving("R") /\ Front(d_wack) \in Arriving("W")
      BY <3>1 DEF TakeAcks
    <3> QED
      BY <3>1, <3>2 DEF Next
  <2>3. CASE \E p \in Acks : FromController(p)
    BY <2>3 DEF FromController
  <2>4. CASE UNCHANGED PortVars
    BY <2>4 DEF PortVars
  <2> QED
    BY <2>1, <2>2, <2>3, <2>4 DEF PortsNext
<1> QED
  BY <1>1, <1>2, PTL DEF PortsSpec, Spec

(* What the downstream port holds are acks.                                *)
DownInv == d_rack \in Seq(Payload) /\ d_wack \in Seq(Payload)

(* The downstream port's two ack queues hold payloads. *)
LEMMA DownInvHolds == PortsSpec => []DownInv
<1>1. PortsInit => DownInv
  BY EmptySeq DEF PortsInit, Down!Init, DownInv
<1>2. DownInv /\ [PortsNext]_PortVars => DownInv'
  <2> SUFFICES ASSUME DownInv, [PortsNext]_PortVars PROVE DownInv'
    OBVIOUS
  <2>1. CASE UspTurn
    BY <2>1 DEF UspTurn, DownInv
  <2>2. CASE DspTurn
    <3>1. d_rack' = Rest(d_rack) /\ d_wack' = Rest(d_wack)
      BY <2>2 DEF DspTurn, Down!Turn, Down!Rest, Rest
    <3>2. Rest(d_rack) \in Seq(Payload) /\ Rest(d_wack) \in Seq(Payload)
      BY HandedOn DEF DownInv
    <3> QED
      BY <3>1, <3>2 DEF DownInv
  <2>3. ASSUME NEW p \in Acks, FromController(p) PROVE DownInv'
    <3>1. p \in Payload /\ <<>> \in Seq(Payload)
      BY EmptySeq, UspBackwardAssumption
    <3>2. /\ d_rack \o <<p>> \in Seq(Payload) /\ d_wack \o <<p>> \in Seq(Payload)
          /\ d_rack \o <<>> = d_rack /\ d_wack \o <<>> = d_wack
      BY <3>1, ConcatProperties, ConcatEmptySeq DEF DownInv
    <3> QED
      BY <2>3, <3>2 DEF FromController, Down!Take, DownInv
  <2>4. CASE UNCHANGED PortVars
    BY <2>4 DEF PortVars, DownInv
  <2> QED
    BY <2>1, <2>2, <2>3, <2>4 DEF PortsNext
<1> QED
  BY <1>1, <1>2, PTL DEF PortsSpec

(* The acks of a kind that are underway, the oldest first.                 *)
UnderwayR == InHand("rack") \o rack_queue \o d_rack
UnderwayW == InHand("wack") \o wack_queue \o d_wack

(* An ack the controller gives is put behind those that are underway.      *)
LEMMA ControllerGives ==
  ASSUME TypeOK, HandInv, DownInv, NEW p \in Acks, FromController(p)
  PROVE  \/ /\ p.cmd = "R"
            /\ UnderwayR' = Append(UnderwayR, p) /\ UnderwayW' = UnderwayW
         \/ /\ p.cmd = "W"
            /\ UnderwayW' = Append(UnderwayW, p) /\ UnderwayR' = UnderwayR
<1>1. p \in Payload /\ p.cmd \in {"R", "W"}
  BY UspBackwardAssumption DEF Payload
<1> PICK x : x = InHand("rack") \o rack_queue
  OBVIOUS
<1> PICK y : y = InHand("wack") \o wack_queue
  OBVIOUS
<1>2. x \in Seq(Payload) /\ y \in Seq(Payload)
  <2>1. InHand("rack") \in Seq(Payload) /\ InHand("wack") \in Seq(Payload)
    BY EmptySeq DEF InHand, HandInv
  <2> QED
    BY <2>1, ConcatProperties DEF TypeOK
<1>3. UNCHANGED <<bw_pc, trans, rack_queue, wack_queue>>
  BY DEF FromController, vars, thread
<1>4. /\ UnderwayR = x \o d_rack /\ UnderwayR' = x \o d_rack'
      /\ UnderwayW = y \o d_wack /\ UnderwayW' = y \o d_wack'
  BY <1>3 DEF UnderwayR, UnderwayW, InHand
<1>5. d_rack \o <<>> = d_rack /\ d_wack \o <<>> = d_wack
  BY ConcatEmptySeq DEF DownInv
<1>6. CASE p.cmd = "R"
  <2>1. d_rack' = d_rack \o <<p>> /\ d_wack' = d_wack
    BY <1>5, <1>6 DEF FromController, Down!Take
  <2>2. x \o (d_rack \o <<p>>) = Append(x \o d_rack, p)
    BY <1>1, <1>2, AppendedLast DEF DownInv
  <2> QED
    BY <1>4, <1>6, <2>1, <2>2
<1>7. CASE p.cmd = "W"
  <2>1. d_wack' = d_wack \o <<p>> /\ d_rack' = d_rack
    BY <1>5, <1>7 DEF FromController, Down!Take
  <2>2. y \o (d_wack \o <<p>>) = Append(y \o d_wack, p)
    BY <1>1, <1>2, AppendedLast DEF DownInv
  <2> QED
    BY <1>4, <1>7, <2>1, <2>2
<1> QED
  BY <1>1, <1>6, <1>7

(* What is handed on stays where it was in the order.                      *)
LEMMA Regrouped ==
  ASSUME NEW h \in Seq(Payload), NEW q \in Seq(Payload), NEW d \in Seq(Payload)
  PROVE  (h \o (q \o Front(d))) \o Rest(d) = (h \o q) \o d
<1> PICK g : g = h \o q
  OBVIOUS
<1>1. g \in Seq(Payload)
  BY ConcatProperties
<1>2. (g \o Front(d)) \o Rest(d) = g \o d
  BY <1>1, HandedOn
<1>3. (h \o q) \o Front(d) = h \o (q \o Front(d))
  <2>1. Front(d) \in Seq(Payload)
    BY HandedOn
  <2> QED
    BY <2>1, Associative, Zenon
<1> QED
  BY <1>2, <1>3

(* The downstream port hands on what stays underway.                       *)
LEMMA DspTurnIsHidden ==
  ASSUME TypeOK, HandInv, DownInv, DspTurn
  PROVE  UnderwayR' = UnderwayR /\ UnderwayW' = UnderwayW
<1>1. /\ d_rack' = Rest(d_rack) /\ d_wack' = Rest(d_wack)
      /\ rack_queue' = rack_queue \o Front(d_rack)
      /\ wack_queue' = wack_queue \o Front(d_wack)
      /\ UNCHANGED <<bw_pc, trans>>
  BY DEF DspTurn, Down!Turn, Down!Rest, Rest, TakeAcks, thread
<1>3. InHand("rack") \in Seq(Payload) /\ InHand("wack") \in Seq(Payload)
  BY EmptySeq DEF InHand, HandInv
<1>4. InHand("rack")' = InHand("rack") /\ InHand("wack")' = InHand("wack")
  BY <1>1 DEF InHand
<1>5. /\ rack_queue \in Seq(Payload) /\ wack_queue \in Seq(Payload)
      /\ d_rack \in Seq(Payload) /\ d_wack \in Seq(Payload)
  BY DEF TypeOK, DownInv
<1>6. UnderwayR' = UnderwayR
  <2>1. (InHand("rack") \o (rack_queue \o Front(d_rack))) \o Rest(d_rack)
          = (InHand("rack") \o rack_queue) \o d_rack
    <3> PICK h : h = InHand("rack")
      OBVIOUS
    <3> PICK q : q = rack_queue
      OBVIOUS
    <3> PICK d : d = d_rack
      OBVIOUS
    <3>1. h \in Seq(Payload) /\ q \in Seq(Payload) /\ d \in Seq(Payload)
      BY <1>3, <1>5
    <3>2. (h \o (q \o Front(d))) \o Rest(d) = (h \o q) \o d
      BY ONLY <3>1, Regrouped, Zenon
    <3> QED
      BY <3>2
  <2> QED
    BY <1>1, <1>4, <2>1 DEF UnderwayR
<1>7. UnderwayW' = UnderwayW
  <2>1. (InHand("wack") \o (wack_queue \o Front(d_wack))) \o Rest(d_wack)
          = (InHand("wack") \o wack_queue) \o d_wack
    <3> PICK h : h = InHand("wack")
      OBVIOUS
    <3> PICK q : q = wack_queue
      OBVIOUS
    <3> PICK d : d = d_wack
      OBVIOUS
    <3>1. h \in Seq(Payload) /\ q \in Seq(Payload) /\ d \in Seq(Payload)
      BY <1>3, <1>5
    <3>2. (h \o (q \o Front(d))) \o Rest(d) = (h \o q) \o d
      BY ONLY <3>1, Regrouped, Zenon
    <3> QED
      BY <3>2
  <2> QED
    BY <1>1, <1>4, <2>1 DEF UnderwayW
<1> QED
  BY <1>6, <1>7

(* The oldest ack of a queue goes into the thread's hand: it stays the     *)
(* first of its kind.                                                      *)
LEMMA Popped ==
  ASSUME TypeOK
  PROVE  /\ PopRack /\ bw_pc # "rack" =>
              /\ InHand("rack")' \o rack_queue' = InHand("rack") \o rack_queue
              /\ InHand("wack")' = <<>> /\ wack_queue' = wack_queue
         /\ PopWack /\ bw_pc # "wack" =>
              /\ InHand("wack")' \o wack_queue' = InHand("wack") \o wack_queue
              /\ InHand("rack")' = <<>> /\ rack_queue' = rack_queue
         /\ Pause =>
              /\ InHand("rack")' = <<>> /\ InHand("wack")' = <<>>
              /\ rack_queue' = rack_queue /\ wack_queue' = wack_queue
<1>1. ASSUME PopRack, bw_pc # "rack"
      PROVE  /\ InHand("rack")' \o rack_queue' = InHand("rack") \o rack_queue
             /\ InHand("wack")' = <<>> /\ wack_queue' = wack_queue
  <2>1. <<Head(rack_queue)>> \o Tail(rack_queue) = rack_queue
    BY <1>1, HeadThenTail DEF PopRack, TypeOK
  <2>2. <<>> \o rack_queue = rack_queue
    BY ConcatEmptySeq DEF TypeOK
  <2>3. /\ InHand("rack")' = <<Head(rack_queue)>> /\ InHand("rack") = <<>>
        /\ InHand("wack")' = <<>> /\ rack_queue' = Tail(rack_queue)
        /\ wack_queue' = wack_queue
    BY <1>1 DEF InHand, PopRack
  <2> QED
    BY <2>1, <2>2, <2>3
<1>2. ASSUME PopWack, bw_pc # "wack"
      PROVE  /\ InHand("wack")' \o wack_queue' = InHand("wack") \o wack_queue
             /\ InHand("rack")' = <<>> /\ rack_queue' = rack_queue
  <2>1. <<Head(wack_queue)>> \o Tail(wack_queue) = wack_queue
    BY <1>2, HeadThenTail DEF PopWack, TypeOK
  <2>2. <<>> \o wack_queue = wack_queue
    BY ConcatEmptySeq DEF TypeOK
  <2>3. /\ InHand("wack")' = <<Head(wack_queue)>> /\ InHand("wack") = <<>>
        /\ InHand("rack")' = <<>> /\ wack_queue' = Tail(wack_queue)
        /\ rack_queue' = rack_queue
    BY <1>2 DEF InHand, PopWack
  <2> QED
    BY <2>1, <2>2, <2>3
<1>3. Pause => /\ InHand("rack")' = <<>> /\ InHand("wack")' = <<>>
               /\ rack_queue' = rack_queue /\ wack_queue' = wack_queue
  BY DEF InHand, Pause
<1> QED
  BY <1>1, <1>2, <1>3

(* The thread sends the ack it holds into the slot of its kind, which is   *)
(* empty.                                                                  *)
LEMMA WackSent ==
  ASSUME TypeOK, PacedInv, HandInv, DownInv, SendWack, UNCHANGED <<d_rack, d_wack>>
  PROVE  /\ UnderwayW # <<>> /\ UnderwayW' = Tail(UnderwayW)
         /\ UnderwayR' = UnderwayR
         /\ wack_incoming = NoPayload /\ wack_incoming' # NoPayload
         /\ rack_incoming' = rack_incoming
<1>1. bw_pc = "wack" /\ trans \in Payload /\ wack_incoming' = trans
  BY DEF SendWack, HandInv
<1>2. wack_incoming = NoPayload
  BY UspBackwardAssumption DEF SendWack, PacedInv, NextWack, TypeOK
<1>3. /\ InHand("rack")' \o rack_queue' = InHand("rack") \o rack_queue
      /\ InHand("wack")' = <<>> /\ wack_queue' = wack_queue
  <2>1. CASE PopRack
    BY <1>1, <2>1, Popped
  <2>2. CASE Pause
    BY <1>1, <2>2, Popped DEF InHand
  <2> QED
    BY <2>1, <2>2 DEF SendWack
<1>4. UnderwayR' = UnderwayR
  BY <1>3 DEF UnderwayR
<1> PICK q : q = wack_queue
  OBVIOUS
<1> PICK d : d = d_wack
  OBVIOUS
<1> PICK t : t = <<trans>>
  OBVIOUS
<1>5. q \in Seq(Payload) /\ d \in Seq(Payload) /\ t \in Seq(Payload)
  BY <1>1 DEF TypeOK, DownInv
<1>6. (t \o q) \o d = t \o (q \o d)
  BY <1>5, Associative, Zenon
<1>7. UnderwayW = t \o (q \o d)
  BY <1>1, <1>6 DEF UnderwayW, InHand
<1>8. <<>> \o q = q
  BY <1>5, ConcatEmptySeq
<1>9. UnderwayW' = q \o d
  BY <1>3, <1>8 DEF UnderwayW
<1>10. q \o d \in Seq(Payload)
  BY <1>5, ConcatProperties
<1>11. UnderwayW # <<>> /\ Tail(UnderwayW) = q \o d
  BY <1>1, <1>7, <1>10, FirstGone
<1>12. wack_incoming' # NoPayload
  BY <1>1, UspBackwardAssumption
<1> QED
  BY <1>2, <1>4, <1>9, <1>11, <1>12 DEF SendWack

(* A read ack sent to the wrapper is the first one under way. *)
LEMMA RackSent ==
  ASSUME TypeOK, PacedInv, HandInv, DownInv, SendRack, UNCHANGED <<d_rack, d_wack>>
  PROVE  /\ UnderwayR # <<>> /\ UnderwayR' = Tail(UnderwayR)
         /\ UnderwayW' = UnderwayW
         /\ rack_incoming = NoPayload /\ rack_incoming' # NoPayload
         /\ wack_incoming' = wack_incoming
<1>1. bw_pc = "rack" /\ trans \in Payload /\ rack_incoming' = trans
  BY DEF SendRack, HandInv
<1>2. rack_incoming = NoPayload
  BY UspBackwardAssumption DEF SendRack, PacedInv, NextRack, TypeOK
<1>3. /\ InHand("rack")' = <<>> /\ InHand("wack")' = <<>>
      /\ rack_queue' = rack_queue /\ wack_queue' = wack_queue
  BY Popped DEF SendRack
<1>4. UnderwayW' = UnderwayW
  BY <1>1, <1>3 DEF UnderwayW, InHand
<1> PICK q : q = rack_queue
  OBVIOUS
<1> PICK d : d = d_rack
  OBVIOUS
<1> PICK t : t = <<trans>>
  OBVIOUS
<1>5. q \in Seq(Payload) /\ d \in Seq(Payload) /\ t \in Seq(Payload)
  BY <1>1 DEF TypeOK, DownInv
<1>6. (t \o q) \o d = t \o (q \o d)
  BY <1>5, Associative, Zenon
<1>7. UnderwayR = t \o (q \o d)
  BY <1>1, <1>6 DEF UnderwayR, InHand
<1>8. <<>> \o q = q
  BY <1>5, ConcatEmptySeq
<1>9. UnderwayR' = q \o d
  BY <1>3, <1>8 DEF UnderwayR
<1>10. q \o d \in Seq(Payload)
  BY <1>5, ConcatProperties
<1>11. UnderwayR # <<>> /\ Tail(UnderwayR) = q \o d
  BY <1>1, <1>7, <1>10, FirstGone
<1>12. rack_incoming' # NoPayload
  BY <1>1, UspBackwardAssumption
<1> QED
  BY <1>2, <1>4, <1>9, <1>11, <1>12 DEF SendRack

(* One host: what is said of it says it of the link.                       *)
LEMMA OneLink ==
  ASSUME NEW x, NEW y
  PROVE  /\ [OnLink(x) EXCEPT ![Host] = y] = OnLink(y)
         /\ OnLink(x)[Host] = x
         /\ Host \in Hosts
BY UspBackwardAssumption DEF OnLink

(* The changes of one host, in the link's words.                           *)
LEMMA OneChanged ==
  ASSUME NEW x, NEW p
  PROVE  /\ OnLink(Tail(x)) = [OnLink(x) EXCEPT ![Host] = Tail(@)]
         /\ OnLink(Append(x, p)) = [OnLink(x) EXCEPT ![Host] = Append(@, p)]
         /\ OnLink(p) = [OnLink(x) EXCEPT ![Host] = p]
BY UspBackwardAssumption DEF OnLink

(* The state of the link in the next state.                                *)
LEMMA LinkNext ==
  /\ OnLink(UnderwayR)' = OnLink(UnderwayR')
  /\ OnLink(UnderwayW)' = OnLink(UnderwayW')
  /\ OnLink(rack_incoming = NoPayload)' = OnLink(rack_incoming' = NoPayload)
  /\ OnLink(wack_incoming = NoPayload)' = OnLink(wack_incoming' = NoPayload)
BY DEF OnLink

(* The two ports and the wrapper's slots do what a link promises of the    *)
(* acks: an ack is put behind the others of its kind, leaves as the oldest *)
(* of them, and never less than one clock edge after the one before.       *)
THEOREM PortsAreALink == PortsSpec => ImplementsLink
<1>1. PortsInit => AsLink!Init
  <2> SUFFICES ASSUME PortsInit PROVE AsLink!Init
    OBVIOUS
  <2>1. <<>> \o <<>> = <<>>
    BY ConcatEmptySeq, EmptySeq
  <2>2. /\ InHand("rack") \o rack_queue \o d_rack = <<>>
        /\ InHand("wack") \o wack_queue \o d_wack = <<>>
        /\ rack_incoming = NoPayload /\ wack_incoming = NoPayload
    BY <2>1 DEF PortsInit, Init, Down!Init, InHand
  <2> QED
    BY <2>2 DEF AsLink!Init, OnLink
<1> DEFINE Known == TypeOK /\ PacedInv /\ HandInv /\ DownInv
<1>2. Known /\ [PortsNext]_PortVars => [AsLink!Next]_(AsLink!own)
  <2> SUFFICES ASSUME Known, [PortsNext]_PortVars
               PROVE  AsLink!Next \/ UNCHANGED AsLink!own
    OBVIOUS
  <2>u. /\ UnderwayR = InHand("rack") \o rack_queue \o d_rack
        /\ UnderwayW = InHand("wack") \o wack_queue \o d_wack
    BY DEF UnderwayR, UnderwayW
  <2>v. /\ UnderwayR' = InHand("rack")' \o rack_queue' \o d_rack'
        /\ UnderwayW' = InHand("wack")' \o wack_queue' \o d_wack'
    BY DEF UnderwayR, UnderwayW
  <2>o. AsLink!Payload = Payload
    BY DEF AsLink!Payload, Payload, AsLink!Addrs, Addrs, AsLink!Cells, Cells,
           AsLink!Slices, Slices
  <2>1. CASE UspTurn /\ TopOfLoop
    <3>1. UNCHANGED <<rack_incoming, wack_incoming, d_rack, d_wack>>
      BY <2>1 DEF UspTurn, TopOfLoop, slots
    <3>2. /\ InHand("rack")' \o rack_queue' = InHand("rack") \o rack_queue
          /\ InHand("wack")' \o wack_queue' = InHand("wack") \o wack_queue
      <4>0. bw_pc = "loop" /\ (PopWack \/ PopRack \/ Pause)
        BY <2>1 DEF TopOfLoop
      <4>1. InHand("rack") = <<>> /\ InHand("wack") = <<>>
        BY <4>0 DEF InHand
      <4> QED
        BY <4>0, <4>1, Popped
    <3>3. UnderwayR' = UnderwayR /\ UnderwayW' = UnderwayW
      BY <3>1, <3>2 DEF UnderwayR, UnderwayW
    <3> QED
      BY <3>1, <3>3, <2>u, <2>v DEF AsLink!own, OnLink
  <2>2. CASE UspTurn /\ SendWack
    <3>1. /\ UnderwayW # <<>> /\ UnderwayW' = Tail(UnderwayW)
          /\ UnderwayR' = UnderwayR
          /\ wack_incoming = NoPayload /\ wack_incoming' # NoPayload
          /\ rack_incoming' = rack_incoming
      BY <2>2, WackSent DEF UspTurn
    <3>2. OnLink(UnderwayW)[Host] # <<>> /\ OnLink(wack_incoming = NoPayload)[Host]
      BY <3>1, OneLink
    <3>3. OnLink(UnderwayW)' = [OnLink(UnderwayW) EXCEPT ![Host] = Tail(@)]
      BY <3>1, OneChanged, LinkNext
    <3>4. OnLink(wack_incoming = NoPayload)'
            = [OnLink(wack_incoming = NoPayload) EXCEPT ![Host] = FALSE]
      <4>1. OnLink(wack_incoming = NoPayload)' = OnLink(FALSE)
        <5>1. (wack_incoming' = NoPayload) = FALSE
          BY <3>1
        <5> QED
          BY <5>1 DEF OnLink
      <4>2. OnLink(FALSE) = [OnLink(wack_incoming = NoPayload) EXCEPT ![Host] = FALSE]
        BY UspBackwardAssumption DEF OnLink
      <4> QED
        BY <4>1, <4>2
    <3>5. /\ OnLink(UnderwayR)' = OnLink(UnderwayR)
          /\ OnLink(rack_incoming = NoPayload)' = OnLink(rack_incoming = NoPayload)
          /\ OnLink(<<>>)' = OnLink(<<>>)
      BY <3>1 DEF OnLink
    <3>7. AsLink!SendWack(Host)
      BY <3>2, <3>3, <3>4, <3>5 DEF AsLink!SendWack, UnderwayR, UnderwayW
    <3> QED
      BY <3>7, OneLink DEF AsLink!Next
  <2>3. CASE UspTurn /\ SendRack
    <3>1. /\ UnderwayR # <<>> /\ UnderwayR' = Tail(UnderwayR)
          /\ UnderwayW' = UnderwayW
          /\ rack_incoming = NoPayload /\ rack_incoming' # NoPayload
          /\ wack_incoming' = wack_incoming
      BY <2>3, RackSent DEF UspTurn
    <3>2. OnLink(UnderwayR)[Host] # <<>> /\ OnLink(rack_incoming = NoPayload)[Host]
      BY <3>1, OneLink
    <3>3. OnLink(UnderwayR)' = [OnLink(UnderwayR) EXCEPT ![Host] = Tail(@)]
      BY <3>1, OneChanged, LinkNext
    <3>4. OnLink(rack_incoming = NoPayload)'
            = [OnLink(rack_incoming = NoPayload) EXCEPT ![Host] = FALSE]
      <4>1. OnLink(rack_incoming = NoPayload)' = OnLink(FALSE)
        <5>1. (rack_incoming' = NoPayload) = FALSE
          BY <3>1
        <5> QED
          BY <5>1 DEF OnLink
      <4>2. OnLink(FALSE) = [OnLink(rack_incoming = NoPayload) EXCEPT ![Host] = FALSE]
        BY UspBackwardAssumption DEF OnLink
      <4> QED
        BY <4>1, <4>2
    <3>5. /\ OnLink(UnderwayW)' = OnLink(UnderwayW)
          /\ OnLink(wack_incoming = NoPayload)' = OnLink(wack_incoming = NoPayload)
          /\ OnLink(<<>>)' = OnLink(<<>>)
      BY <3>1 DEF OnLink
    <3>7. AsLink!SendRack(Host)
      BY <3>2, <3>3, <3>4, <3>5 DEF AsLink!SendRack, UnderwayR, UnderwayW
    <3> QED
      BY <3>7, OneLink DEF AsLink!Next
  <2>4. CASE UspTurn /\ Posedge
    <3>1. /\ UNCHANGED <<bw_pc, trans, rack_queue, wack_queue, d_rack, d_wack>>
          /\ rack_incoming' = NoPayload /\ wack_incoming' = NoPayload
      BY <2>4 DEF UspTurn, Posedge, thread
    <3>2. UnderwayR' = UnderwayR /\ UnderwayW' = UnderwayW
      BY <3>1 DEF UnderwayR, UnderwayW, InHand
    <3>4. /\ OnLink(rack_incoming = NoPayload)'
               = [OnLink(rack_incoming = NoPayload) EXCEPT ![Host] = TRUE]
          /\ OnLink(wack_incoming = NoPayload)'
               = [OnLink(wack_incoming = NoPayload) EXCEPT ![Host] = TRUE]
      BY <3>1, OneChanged, LinkNext
    <3>5. /\ OnLink(UnderwayR)' = OnLink(UnderwayR)
          /\ OnLink(UnderwayW)' = OnLink(UnderwayW)
          /\ OnLink(<<>>)' = OnLink(<<>>)
      BY <3>2 DEF OnLink
    <3>3. AsLink!Edge(Host)
      BY <3>4, <3>5 DEF AsLink!Edge, UnderwayR, UnderwayW
    <3> QED
      BY <3>3, OneLink DEF AsLink!Next
  <2>5. CASE (UspTurn /\ Tick) \/ UNCHANGED PortVars
    <3>1. /\ UNCHANGED <<bw_pc, trans, rack_queue, wack_queue, d_rack, d_wack>>
          /\ UNCHANGED <<rack_incoming, wack_incoming>>
      BY <2>5 DEF UspTurn, Tick, PortVars, vars, thread, slots
    <3>2. UnderwayR' = UnderwayR /\ UnderwayW' = UnderwayW
      BY <3>1 DEF UnderwayR, UnderwayW, InHand
    <3> QED
      BY <3>1, <3>2, <2>u, <2>v DEF AsLink!own, OnLink
  <2>6. CASE DspTurn
    <3>1. UnderwayR' = UnderwayR /\ UnderwayW' = UnderwayW
      BY <2>6, DspTurnIsHidden
    <3>2. UNCHANGED <<rack_incoming, wack_incoming>>
      BY <2>6 DEF DspTurn, TakeAcks, slots
    <3> QED
      BY <3>1, <3>2, <2>u, <2>v DEF AsLink!own, OnLink
  <2>7. ASSUME NEW p \in Acks, FromController(p) PROVE AsLink!Next
    <3>0. p \in Payload
      BY UspBackwardAssumption
    <3>1. UNCHANGED <<rack_incoming, wack_incoming>>
      BY <2>7 DEF FromController, vars, slots
    <3>2. \/ p.cmd = "R" /\ UnderwayR' = Append(UnderwayR, p) /\ UnderwayW' = UnderwayW
          \/ p.cmd = "W" /\ UnderwayW' = Append(UnderwayW, p) /\ UnderwayR' = UnderwayR
      BY <2>7, ControllerGives
    <3>3. CASE p.cmd = "R" /\ UnderwayR' = Append(UnderwayR, p) /\ UnderwayW' = UnderwayW
      <4>3. OnLink(UnderwayR)' = [OnLink(UnderwayR) EXCEPT ![Host] = Append(@, p)]
        BY <3>3, OneChanged, LinkNext
      <4>4. /\ OnLink(UnderwayW)' = OnLink(UnderwayW)
            /\ OnLink(rack_incoming = NoPayload)' = OnLink(rack_incoming = NoPayload)
            /\ OnLink(wack_incoming = NoPayload)' = OnLink(wack_incoming = NoPayload)
            /\ OnLink(<<>>)' = OnLink(<<>>)
        BY <3>1, <3>3 DEF OnLink
      <4>1. AsLink!TakeRack(Host, p)
        BY <4>3, <4>4 DEF AsLink!TakeRack, UnderwayR, UnderwayW
      <4>2. p \in AsLink!Of("R")
        BY <3>0, <3>3, <2>o DEF AsLink!Of
      <4> QED
        BY <4>1, <4>2, OneLink DEF AsLink!Next
    <3>4. CASE p.cmd = "W" /\ UnderwayW' = Append(UnderwayW, p) /\ UnderwayR' = UnderwayR
      <4>3. OnLink(UnderwayW)' = [OnLink(UnderwayW) EXCEPT ![Host] = Append(@, p)]
        BY <3>4, OneChanged, LinkNext
      <4>4. /\ OnLink(UnderwayR)' = OnLink(UnderwayR)
            /\ OnLink(rack_incoming = NoPayload)' = OnLink(rack_incoming = NoPayload)
            /\ OnLink(wack_incoming = NoPayload)' = OnLink(wack_incoming = NoPayload)
            /\ OnLink(<<>>)' = OnLink(<<>>)
        BY <3>1, <3>4 DEF OnLink
      <4>1. AsLink!TakeWack(Host, p)
        BY <4>3, <4>4 DEF AsLink!TakeWack, UnderwayR, UnderwayW
      <4>2. p \in AsLink!Of("W")
        BY <3>0, <3>4, <2>o DEF AsLink!Of
      <4> QED
        BY <4>1, <4>2, OneLink DEF AsLink!Next
    <3> QED
      BY <3>2, <3>3, <3>4
  <2> QED
    BY <2>1, <2>2, <2>3, <2>4, <2>5, <2>6, <2>7 DEF PortsNext, UspTurn, KernelStep
<1>3. PortsSpec => []Known
  BY PortsRunUsp, TypeCorrect, Paced, HandInvHolds, DownInvHolds, PTL
<1> QED
  BY <1>1, <1>2, <1>3, PTL DEF PortsSpec, ImplementsLink, AsLink!Spec
=============================================================================

------------------------- MODULE PacketBufferProofs -------------------------
(***************************************************************************)
(* The ring of PacketBuffer keeps its two processes apart, whatever its    *)
(* size and whatever the packets are.                                      *)
(***************************************************************************)
EXTENDS PacketBuffer, SequenceTheorems, TLAPS

(* The index arithmetic stays inside the ring and is injective. *)
LEMMA AfterInSlots ==
  ASSUME NEW i \in Slots
  PROVE  After(i) \in Slots /\ After(i) # i
BY PacketBufferAssumption DEF Slots, After

(* The writer makes the slot at `end' a used one, and no other. *)
LEMMA UsedAfterWrite ==
  ASSUME start \in Slots, end \in Slots, ~Full,
         start' = start, end' = After(end),
         NEW i \in Slots
  PROVE  Used(i)' => Used(i) \/ i = end
BY PacketBufferAssumption DEF Slots, After, Full, Used

(* The reader only takes slots away. *)
LEMMA UsedAfterRead ==
  ASSUME start \in Slots, end \in Slots, ~Empty,
         start' = After(start), end' = end,
         NEW i \in Slots
  PROVE  Used(i)' => Used(i)
BY PacketBufferAssumption DEF Slots, After, Empty, Used

(* The slot the writer fills is not a used one; the one that is read is.   *)
LEMMA EndUnused ==
  ASSUME start \in Slots, end \in Slots
  PROVE  ~Used(end) /\ (~Empty => Used(start))
BY PacketBufferAssumption DEF Slots, Empty, Used

(* Type correctness of the ring (packet_buffer.cpp keeps both indices      *)
(* below PKT_BUFFER_SIZE).                                                 *)
THEOREM TypeCorrect == Spec => []TypeOK
<1>1. Init => TypeOK
  BY PacketBufferAssumption DEF Init, TypeOK, Slots, Content, Junk
<1>2. TypeOK /\ [Next]_vars => TypeOK'
  <2> SUFFICES ASSUME TypeOK, [Next]_vars PROVE TypeOK'
    OBVIOUS
  <2> USE AfterInSlots DEF TypeOK
  <2>1. CASE WriterStep
    BY <2>1 DEF WriterStep, WaitNotFull, WriteLo, WriteHi, WriteEnd, reader
  <2>2. CASE ReaderStep
    BY <2>2 DEF ReaderStep, FindPacket, ReadLo, ReadHi, ReadStart, writer
  <2>3. ASSUME NEW p \in Packets, Call(p) PROVE TypeOK'
    BY <2>3 DEF Call, reader, Content
  <2>4. CASE UNCHANGED vars
    BY <2>4 DEF vars, writer, reader
  <2> QED
    BY <2>1, <2>2, <2>3, <2>4 DEF Next
<1> QED
  BY <1>1, <1>2, PTL DEF Spec

(* RingInv is inductive: pb_is_full and pb_is_empty, once they have let a  *)
(* process pass, stay so until that process moves its own index.           *)
THEOREM RingInvariant == Spec => []RingInv
<1>1. Init => RingInv
  BY DEF Init, RingInv, Writing, Reading, Used
<1>2. TypeOK /\ RingInv /\ [Next]_vars => RingInv'
  <2> SUFFICES ASSUME TypeOK, RingInv, [Next]_vars PROVE RingInv'
    OBVIOUS
  <2>0. start \in Slots /\ end \in Slots /\ lo \in [Slots -> Content]
        /\ hi \in [Slots -> Content]
    BY DEF TypeOK
  <2>1. ~Used(end) /\ (~Empty => Used(start))
    BY <2>0, EndUnused
  <2>2. CASE WaitNotFull
    BY <2>2 DEF WaitNotFull, RingInv, Writing, Reading, Full, Empty, Used, reader
  <2>3. CASE WriteLo
    <3>1. \A i \in Slots : Used(i) => lo'[i] = lo[i]
      BY <2>0, <2>1, <2>3 DEF WriteLo
    <3>2. lo'[end] = w_pkt
      BY <2>0, <2>3 DEF WriteLo
    <3> QED
      BY <2>0, <2>1, <2>3, <3>1, <3>2
      DEF WriteLo, RingInv, Writing, Reading, Full, Empty, Used, reader
  <2>4. CASE WriteHi
    <3>1. \A i \in Slots : Used(i) => hi'[i] = hi[i]
      BY <2>0, <2>1, <2>4 DEF WriteHi
    <3>2. hi'[end] = w_pkt
      BY <2>0, <2>4 DEF WriteHi
    <3> QED
      BY <2>0, <2>1, <2>4, <3>1, <3>2
      DEF WriteHi, RingInv, Writing, Reading, Full, Empty, Used, reader
  <2>5. CASE WriteEnd
    <3>1. ~Full /\ lo[end] = hi[end]
      BY <2>5 DEF WriteEnd, RingInv, Writing
    <3>2. \A i \in Slots : Used(i)' => lo'[i] = hi'[i]
      BY <2>0, <2>5, <3>1, UsedAfterWrite DEF WriteEnd, RingInv
    <3>3. Reading => ~Empty'
      BY <2>5, <3>1 DEF WriteEnd, Full, Empty
    <3> QED
      BY <2>5, <3>2, <3>3 DEF WriteEnd, RingInv, Writing, Reading, reader
  <2>6. CASE FindPacket
    BY <2>6 DEF FindPacket, RingInv, Writing, Reading, Full, Empty, Used, writer
  <2>7. CASE ReadLo
    BY <2>7 DEF ReadLo, RingInv, Writing, Reading, Full, Empty, Used, writer
  <2>8. CASE ReadHi
    BY <2>8 DEF ReadHi, RingInv, Writing, Reading, Full, Empty, Used, writer
  <2>9. CASE ReadStart
    <3>1. ~Empty
      BY <2>9 DEF ReadStart, RingInv, Reading
    <3>2. \A i \in Slots : Used(i)' => lo'[i] = hi'[i]
      BY <2>0, <2>9, <3>1, UsedAfterRead DEF ReadStart, RingInv
    <3>3. Writing => ~Full'
      BY <2>0, <2>9, <3>1, PacketBufferAssumption
      DEF ReadStart, Full, Empty, After, Slots
    <3> QED
      BY <2>9, <3>2, <3>3 DEF ReadStart, RingInv, Writing, Reading, writer
  <2>10. ASSUME NEW p \in Packets, Call(p) PROVE RingInv'
    BY <2>10 DEF Call, RingInv, Writing, Reading, Full, Empty, Used, reader
  <2>11. CASE UNCHANGED vars
    BY <2>11 DEF vars, RingInv, Writing, Reading, Full, Empty, Used,
                 writer, reader
  <2> QED
    BY <2>2, <2>3, <2>4, <2>5, <2>6, <2>7, <2>8, <2>9, <2>10, <2>11
    DEF Next, WriterStep, ReaderStep
<1> QED
  BY <1>1, <1>2, TypeCorrect, PTL DEF Spec

(* Writer and reader are never at one slot, without a lock. *)
THEOREM RingSlotsApart == Spec => []SlotsApart
<1>1. RingInv => SlotsApart
  BY DEF RingInv, SlotsApart, Empty, Writing, Reading
<1> QED
  BY <1>1, RingInvariant, PTL

(* A packet that is read is a packet that was written, not parts of two. *)
THEOREM RingNoTornPacket == Spec => []NoTornPacket
<1>1. TypeOK /\ RingInv => NoTornPacket
  BY EndUnused DEF TypeOK, RingInv, NoTornPacket, Reading
<1> QED
  BY <1>1, TypeCorrect, RingInvariant, PTL

-----------------------------------------------------------------------------
(* The slots of a ring as a queue                                          *)

(* What a slot holds once a packet has been copied into it. *)
Copied == {<<p>> : p \in Packets}

FilledInv ==
  /\ w_pc # "idle" => w_pkt \in Copied
  /\ \A i \in Slots : Used(i) => lo[i] \in Copied

(* A used slot of the ring holds a packet that was copied into it. *)
LEMMA FilledAlways == Spec => []FilledInv
<1>1. Init => FilledInv
  BY DEF Init, FilledInv, Used, Slots
<1>2. TypeOK /\ RingInv /\ FilledInv /\ [Next]_vars => FilledInv'
  <2> SUFFICES ASSUME TypeOK, RingInv, FilledInv, [Next]_vars PROVE FilledInv'
    OBVIOUS
  <2>0. start \in Slots /\ end \in Slots /\ lo \in [Slots -> Content]
    BY DEF TypeOK
  <2>1. CASE WaitNotFull \/ WriteHi \/ FindPacket \/ ReadLo \/ ReadHi
    BY <2>1 DEF WaitNotFull, WriteHi, FindPacket, ReadLo, ReadHi, FilledInv,
                Used, writer, reader
  <2>2. CASE WriteLo
    <3>1. ~Used(end)
      BY <2>0, EndUnused
    <3> QED
      BY <2>0, <2>2, <3>1 DEF WriteLo, FilledInv, Used, reader
  <2>3. CASE WriteEnd
    <3>1. ~Full /\ lo[end] = w_pkt /\ w_pkt \in Copied
      BY <2>3 DEF WriteEnd, RingInv, Writing, FilledInv
    <3> QED
      BY <2>0, <2>3, <3>1, UsedAfterWrite DEF WriteEnd, FilledInv, reader
  <2>4. CASE ReadStart
    <3>1. ~Empty
      BY <2>4 DEF ReadStart, RingInv, Reading
    <3> QED
      BY <2>0, <2>4, <3>1, UsedAfterRead DEF ReadStart, FilledInv, writer
  <2>5. ASSUME NEW p \in Packets, Call(p) PROVE FilledInv'
    BY <2>5 DEF Call, FilledInv, Used, Copied, reader
  <2>6. CASE UNCHANGED vars
    BY <2>6 DEF vars, FilledInv, Used, writer, reader
  <2> QED
    BY <2>1, <2>2, <2>3, <2>4, <2>5, <2>6 DEF Next, WriterStep, ReaderStep
<1> QED
  BY <1>1, <1>2, TypeCorrect, RingInvariant, PTL DEF Spec

(* The queue goes through the used slots. *)
LEMMA NthUsed ==
  ASSUME start \in Slots, end \in Slots
  PROVE  /\ Count \in Nat /\ Count < BufferSize
         /\ (Count = 0 <=> Empty)
         /\ \A n \in 1 .. Count : Nth(n) \in Slots /\ Used(Nth(n))
BY PacketBufferAssumption DEF Slots, Count, Nth, Used, Empty

(* It is a sequence of packets. *)
QueueOk ==
  /\ Queue \in Seq(Packets) /\ Len(Queue) = Count
  /\ \A n \in 1 .. Count : lo[Nth(n)] = <<Queue[n]>>

(* The used slots, in order, are a queue of packets. *)
LEMMA QueueTyped == TypeOK /\ FilledInv => QueueOk
<1> SUFFICES ASSUME TypeOK, FilledInv PROVE QueueOk
  OBVIOUS
<1>1. Count \in Nat /\ \A n \in 1 .. Count : Nth(n) \in Slots /\ Used(Nth(n))
  BY NthUsed DEF TypeOK
<1>2. \A n \in 1 .. Count : lo[Nth(n)] \in Copied
  BY <1>1 DEF FilledInv
<1>3. \A x \in Copied : x[1] \in Packets /\ x = <<x[1]>>
  BY DEF Copied
<1>4. Queue \in [1 .. Count -> Packets]
  BY <1>2, <1>3 DEF Queue
<1>5. Queue \in Seq(Packets) /\ Len(Queue) = Count
  BY <1>1, <1>4, SeqDef
<1> QED
  BY <1>2, <1>3, <1>5 DEF Queue, QueueOk

(* Moving end appends the packet that was written. *)
LEMMA QueueWrite ==
  ASSUME TypeOK, FilledInv, TypeOK', FilledInv', ~Full,
         start' = start, end' = After(end), lo' = lo,
         NEW p \in Packets, lo[end] = <<p>>
  PROVE  Queue' = Append(Queue, p) /\ Len(Queue) < BufferSize - 1
<1>1. start \in Slots /\ end \in Slots
  BY DEF TypeOK
<1>2. /\ Count' = Count + 1 /\ Count < BufferSize - 1 /\ Count \in Nat
      /\ Nth(Count + 1) = end
  BY <1>1, PacketBufferAssumption DEF Slots, Count, Nth, Full, After
<1>3. \A n \in Nat : Nth(n)' = Nth(n)
  BY DEF Nth
<1>4. /\ Queue \in Seq(Packets) /\ Len(Queue) = Count
      /\ \A n \in 1 .. Count : lo[Nth(n)] = <<Queue[n]>>
  BY QueueTyped DEF QueueOk
<1>5. /\ Queue' \in Seq(Packets) /\ Len(Queue') = Count'
      /\ \A n \in 1 .. Count' : lo[Nth(n)] = <<Queue'[n]>>
  <2>1. QueueOk'
    BY QueueTyped, PTL
  <2> QED BY <1>2, <1>3, <2>1 DEF QueueOk
<1>6. ASSUME NEW n \in 1 .. Count + 1
      PROVE  Queue'[n] = Append(Queue, p)[n]
  <2>1. CASE n = Count + 1
    BY <1>2, <1>4, <1>5, <2>1, AppendProperties
  <2>2. CASE n \in 1 .. Count
    BY <1>2, <1>4, <1>5, <2>2, AppendProperties
  <2>3. Count \in Nat
    BY <1>2
  <2>4. n = Count + 1 \/ n \in 1 .. Count
    BY <2>3
  <2> QED BY <2>1, <2>2, <2>4
<1>7. Append(Queue, p) \in Seq(Packets) /\ Len(Append(Queue, p)) = Count + 1
  BY <1>4, AppendProperties
<1>8. Queue' = Append(Queue, p)
  BY <1>2, <1>5, <1>6, <1>7, SeqEqual
<1>9. Len(Queue) < BufferSize - 1
  BY <1>2, <1>4, PacketBufferAssumption
<1> QED BY <1>8, <1>9

(* Moving start takes the oldest packet away. *)
LEMMA QueueRead ==
  ASSUME TypeOK, FilledInv, TypeOK', FilledInv', ~Empty,
         start' = After(start), end' = end, lo' = lo
  PROVE  Queue # <<>> /\ Queue' = Tail(Queue) /\ lo[start] = <<Head(Queue)>>
<1>1. start \in Slots /\ end \in Slots
  BY DEF TypeOK
<1>2. /\ Count' = Count - 1 /\ Count \in Nat /\ Count > 0
      /\ Nth(1) = start
      /\ \A n \in 1 .. Count - 1 : Nth(n)' = Nth(n + 1)
  BY <1>1, PacketBufferAssumption DEF Slots, Count, Nth, Empty, After
<1>3. /\ Queue \in Seq(Packets) /\ Len(Queue) = Count
      /\ \A n \in 1 .. Count : lo[Nth(n)] = <<Queue[n]>>
  BY QueueTyped DEF QueueOk
<1>4. /\ Queue' \in Seq(Packets) /\ Len(Queue') = Count'
      /\ \A n \in 1 .. Count - 1 : lo[Nth(n + 1)] = <<Queue'[n]>>
  <2>1. QueueOk'
    BY QueueTyped, PTL
  <2> QED BY <1>2, <2>1 DEF QueueOk
<1>5. /\ Queue # <<>> /\ Head(Queue) = Queue[1]
      /\ Tail(Queue) \in Seq(Packets) /\ Len(Tail(Queue)) = Count - 1
      /\ \A n \in 1 .. Count - 1 : Tail(Queue)[n] = Queue[n + 1]
  BY <1>2, <1>3, HeadTailProperties
<1>6. \A n \in 1 .. Count - 1 : Queue'[n] = Queue[n + 1]
  BY <1>2, <1>3, <1>4
<1> QED BY <1>2, <1>3, <1>4, <1>5, <1>6, SeqEqual

(* The ring of packet_buffer.cpp is a bounded FIFO queue: packets come out *)
(* as they went in, each of them once, and no more than fit.               *)
THEOREM RingIsQueue == Spec => ImplementsRing
<1>1. Init => Ring!Init
  <2> SUFFICES ASSUME Init PROVE Queue = <<>> /\ got = <<>>
    BY DEF Ring!Init
  <2>1. Count = 0
    BY PacketBufferAssumption DEF Init, Count
  <2> QED BY <2>1 DEF Init, Queue, Junk
<1>2. TypeOK /\ TypeOK' /\ RingInv /\ FilledInv /\ FilledInv' /\ [Next]_vars
        => [Ring!Next]_<<Queue, got>>
  <2> SUFFICES ASSUME TypeOK, TypeOK', RingInv, FilledInv, FilledInv', [Next]_vars
               PROVE  Ring!Next \/ (Queue' = Queue /\ got' = got)
    OBVIOUS
  <2>0. start \in Slots /\ end \in Slots /\ lo \in [Slots -> Content]
    BY DEF TypeOK
  <2>1. CASE WaitNotFull \/ WriteHi \/ FindPacket \/ ReadLo \/ ReadHi
    BY <2>1 DEF WaitNotFull, WriteHi, FindPacket, ReadLo, ReadHi, Queue, Nth,
                Count, writer, reader
  <2>2. CASE WriteLo
    <3>1. \A n \in 1 .. Count : lo'[Nth(n)] = lo[Nth(n)]
      BY <2>0, <2>2, NthUsed, EndUnused DEF WriteLo
    <3>2. Count' = Count /\ \A n \in 1 .. Count : Nth(n)' = Nth(n)
      BY <2>2 DEF WriteLo, Count, Nth
    <3> QED BY <2>2, <3>1, <3>2 DEF Queue, WriteLo, reader
  <2>3. CASE WriteEnd
    <3>1. PICK p \in Packets : w_pkt = <<p>>
      BY <2>3 DEF WriteEnd, FilledInv, Copied
    <3>2. ~Full /\ lo[end] = <<p>>
      BY <2>3, <3>1 DEF WriteEnd, RingInv, Writing
    <3>3. Queue' = Append(Queue, p) /\ Len(Queue) < BufferSize - 1
      BY <2>3, <3>2, QueueWrite DEF WriteEnd
    <3> QED BY <2>3, <3>3 DEF Ring!Next, Ring!Put, WriteEnd, reader
  <2>4. CASE ReadStart
    <3>1. ~Empty /\ r_hi = hi[start] /\ Used(start) /\ hi[start] = lo[start]
      BY <2>0, <2>4, EndUnused DEF ReadStart, RingInv, Reading
    <3>2. Queue # <<>> /\ Queue' = Tail(Queue) /\ lo[start] = <<Head(Queue)>>
      BY <2>4, <3>1, QueueRead DEF ReadStart
    <3> QED BY <2>4, <3>1, <3>2 DEF Ring!Next, Ring!Get, ReadStart
  <2>5. ASSUME NEW p \in Packets, Call(p) PROVE Queue' = Queue /\ got' = got
    BY <2>5 DEF Call, Queue, Nth, Count, reader
  <2>6. CASE UNCHANGED vars
    BY <2>6 DEF vars, Queue, Nth, Count, writer, reader
  <2> QED
    BY <2>1, <2>2, <2>3, <2>4, <2>5, <2>6 DEF Next, WriterStep, ReaderStep
<1> QED
  BY <1>1, <1>2, TypeCorrect, RingInvariant, FilledAlways, PTL
  DEF Spec, ImplementsRing, Ring!Spec
=============================================================================

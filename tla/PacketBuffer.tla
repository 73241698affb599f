---------------------------- MODULE PacketBuffer ----------------------------
(***************************************************************************)
(* One shared-memory ring between a host process and the simulator         *)
(* (utilities/packet_buffer.cpp, used by ShmemCommunicator and by the      *)
(* host's packetManager).  Two operating system processes use it without a *)
(* lock: one writes (pb_is_full, then pb_write), the other reads           *)
(* (pb_is_empty, then pb_read).  Every access to shared memory is a step   *)
(* of its own, and the memcpy of a packet is two.  Stores of one process   *)
(* become visible in program order, as they do on the x86 machines the     *)
(* program is built for.                                                   *)
(***************************************************************************)
EXTENDS Naturals, Sequences

CONSTANTS BufferSize,      \* PKT_BUFFER_SIZE
          Packets

ASSUME PacketBufferAssumption == BufferSize \in Nat \ {0, 1}

Slots == 0 .. BufferSize - 1
Junk  == <<>>              \* the bytes of a slot before its first packet

VARIABLES
  start, end,              \* PacketBuffer
  lo, hi,                  \* the two halves of elems[i]
  w_pc, w_pkt,             \* the writer, and the packet it sends
  r_pc, r_lo, r_hi,        \* the reader, and its copy
  got                      \* the last packet it returned

writer == <<w_pc, w_pkt>>
reader == <<r_pc, r_lo, r_hi, got>>
vars   == <<start, end, lo, hi, writer, reader>>

(* pb_init, by the host process before it sends its first packet; the      *)
(* simulator waits for that packet.                                        *)
Init ==
  /\ start = 0
  /\ end = 0
  /\ lo = [i \in Slots |-> Junk]
  /\ hi = [i \in Slots |-> Junk]
  /\ w_pc = "idle"
  /\ w_pkt = Junk
  /\ r_pc = "idle"
  /\ r_lo = Junk
  /\ r_hi = Junk
  /\ got = Junk

(* "(i + 1) % PKT_BUFFER_SIZE" for an index i of the ring. *)
After(i) == IF i + 1 = BufferSize THEN 0 ELSE i + 1

(* mutant: the writer does not look *)
FullNever == FALSE

(* mutants: the reader does not look; the test for a full ring, again *)
EmptyNever == FALSE
EmptyFull  == After(end) = start

Full  == After(end) = start
Empty == end = start

(* send_packet, sendPacket: "while (pb_is_full(b)) nanosleep(...)".  A     *)
(* test that finds the ring full is not a step.                            *)
Call(p) ==
  /\ w_pc = "idle"
  /\ w_pkt' = <<p>>
  /\ w_pc' = "test"
  /\ UNCHANGED <<start, end, lo, hi, reader>>

WaitNotFull ==
  /\ w_pc = "test" /\ ~Full
  /\ w_pc' = "copy_lo"
  /\ UNCHANGED <<start, end, lo, hi, w_pkt, reader>>

(* pb_write *)
WriteLo ==
  /\ w_pc = "copy_lo"
  /\ lo' = [lo EXCEPT ![end] = w_pkt]
  /\ w_pc' = "copy_hi"
  /\ UNCHANGED <<start, end, hi, w_pkt, reader>>

(* mutant: the copy is too short *)
WriteHiNot ==
  /\ w_pc = "copy_hi"
  /\ w_pc' = "advance"
  /\ UNCHANGED <<start, end, lo, hi, w_pkt, reader>>

WriteHi ==
  /\ w_pc = "copy_hi"
  /\ hi' = [hi EXCEPT ![end] = w_pkt]
  /\ w_pc' = "advance"
  /\ UNCHANGED <<start, end, lo, w_pkt, reader>>

WriteEnd ==
  /\ w_pc = "advance"
  /\ end' = After(end)
  /\ w_pc' = "idle"
  /\ UNCHANGED <<start, lo, hi, w_pkt, reader>>

(* recv_packet, recvPacket *)
FindPacket ==
  /\ r_pc = "idle" /\ ~Empty
  /\ r_pc' = "copy_lo"
  /\ UNCHANGED <<start, end, lo, hi, writer, r_lo, r_hi, got>>

(* pb_read *)
ReadLo ==
  /\ r_pc = "copy_lo"
  /\ r_lo' = lo[start]
  /\ r_pc' = "copy_hi"
  /\ UNCHANGED <<start, end, lo, hi, writer, r_hi, got>>

ReadHi ==
  /\ r_pc = "copy_hi"
  /\ r_hi' = hi[start]
  /\ r_pc' = "advance"
  /\ UNCHANGED <<start, end, lo, hi, writer, r_lo, got>>

(* mutant: the packet stays in the ring *)
ReadStartNot ==
  /\ r_pc = "advance"
  /\ got' = r_hi
  /\ r_pc' = "idle"
  /\ UNCHANGED <<start, end, lo, hi, writer, r_lo, r_hi>>

ReadStart ==
  /\ r_pc = "advance"
  /\ start' = After(start)
  /\ got' = r_hi
  /\ r_pc' = "idle"
  /\ UNCHANGED <<end, lo, hi, writer, r_lo, r_hi>>

WriterStep == WaitNotFull \/ WriteLo \/ WriteHi \/ WriteEnd
ReaderStep == FindPacket \/ ReadLo \/ ReadHi \/ ReadStart

Next == WriterStep \/ ReaderStep \/ \E p \in Packets : Call(p)

(* Both processes are scheduled; neither has to call. *)
Spec     == Init /\ [][Next]_vars
FairSpec == Spec /\ WF_vars(WriterStep) /\ WF_vars(ReaderStep)

-----------------------------------------------------------------------------
Content == {Junk} \cup {<<p>> : p \in Packets}

TypeOK ==
  /\ start \in Slots
  /\ end \in Slots
  /\ lo \in [Slots -> Content]
  /\ hi \in [Slots -> Content]
  /\ w_pc \in {"idle", "test", "copy_lo", "copy_hi", "advance"}
  /\ w_pkt \in Content
  /\ r_pc \in {"idle", "copy_lo", "copy_hi", "advance"}
  /\ r_lo \in Content
  /\ r_hi \in Content
  /\ got \in Content

Writing == w_pc \in {"copy_lo", "copy_hi", "advance"}
Reading == r_pc \in {"copy_lo", "copy_hi", "advance"}

(* The two processes are never at the same slot, although neither holds a  *)
(* lock between its test of start and end and its copy.                    *)
SlotsApart == Writing /\ Reading => start # end

(* What the reader has copied are halves of one packet. *)
NoTornPacket == r_pc = "advance" => r_lo = r_hi

(* The slots between start and end. *)
Used(i) == IF start <= end THEN start <= i /\ i < end
                           ELSE start <= i \/ i < end
Count   == IF start <= end THEN end - start ELSE end + BufferSize - start

(* What makes both inductive: the tests stay true until the process that   *)
(* made them moves its index, and a used slot holds one packet.            *)
RingInv ==
  /\ Writing => ~Full
  /\ Reading => ~Empty
  /\ \A i \in Slots : Used(i) => lo[i] = hi[i]
  /\ w_pc \in {"copy_hi", "advance"} => lo[end] = w_pkt
  /\ w_pc = "advance" => hi[end] = w_pkt
  /\ r_pc \in {"copy_hi", "advance"} => r_lo = lo[start]
  /\ r_pc = "advance" => r_hi = hi[start]

(* The packets in the ring, from the oldest. *)
Nth(n) == IF start + n - 1 < BufferSize THEN start + n - 1
                                        ELSE start + n - 1 - BufferSize
Queue  == [n \in 1 .. Count |-> lo[Nth(n)][1]]

(* The ring is a bounded FIFO queue: it keeps the order, loses nothing and *)
(* returns nothing twice.                                                  *)
Ring == INSTANCE PacketRing WITH q <- Queue

ImplementsRing == Ring!Spec

(* sendPacket returns, as long as the other side reads. *)
SendReturns == w_pc = "test" ~> w_pc = "idle"
=============================================================================

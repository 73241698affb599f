----------------------------- MODULE UspForward -----------------------------
(***************************************************************************)
(* USP::fw_thread and USP::flit_packing_68 (components/port/usp.cpp): how  *)
(* the upstream port packs requests into flits.  Reads leave in pairs.  A  *)
(* write that is taken from the queue first waits in pending_queue, while  *)
(* the header flit of its group of four goes out, and leaves when the next *)
(* write is taken or, the fourth of a group, in a flit of its own.         *)
(*                                                                         *)
(* The thread waits inside flit_packing_68, between its tests of the       *)
(* queues and of f_idx and the pops, and the wrapper's clock method adds   *)
(* requests meanwhile.  A C++ deque that is popped when empty is undefined *)
(* behaviour: the guards of the steps below do not look at the queues, and *)
(* FlitInv says they need not.                                             *)
(***************************************************************************)
EXTENDS Tlm

CONSTANTS Host,       \* the one host this port belongs to
          ReadReqs,   \* the payloads the wrapper forwards, in order
          WriteReqs

ASSUME UspForwardAssumption ==
  /\ Hosts = {Host}
  /\ ReadReqs \in Seq({p \in Payload : p.cmd = "R"})
  /\ WriteReqs \in Seq({p \in Payload : p.cmd = "W"})

VARIABLES
  r_todo, w_todo,           \* the wrapper's queues
  r_queue, w_queue, pending_queue, f_idx,
  fw_pc,                    \* the wait() the thread is in
  trans,                    \* its local variable: a payload popped, not sent
  sent_r, sent_w            \* what the downstream port was given

vars == <<r_todo, w_todo, r_queue, w_queue, pending_queue, f_idx, fw_pc,
          trans, sent_r, sent_w>>

r_msg == 2

Init ==
  /\ r_todo = ReadReqs
  /\ w_todo = WriteReqs
  /\ r_queue = <<>>
  /\ w_queue = <<>>
  /\ pending_queue = <<>>
  /\ f_idx = 0
  /\ fw_pc = "loop"
  /\ trans = <<>>
  /\ sent_r = <<>>
  /\ sent_w = <<>>

(* nb_transport_fw, called by the clock method of the wrapper: at most one *)
(* request of each kind a turn, and any number of turns apart.             *)
TakeRead ==
  /\ r_todo # <<>>
  /\ r_queue' = Moved(r_queue, r_todo)
  /\ r_todo' = Rest(r_todo)
  /\ UNCHANGED <<w_todo, w_queue, pending_queue, f_idx, fw_pc, trans, sent_r,
                 sent_w>>

TakeWrite ==
  /\ w_todo # <<>>
  /\ w_queue' = Moved(w_queue, w_todo)
  /\ w_todo' = Rest(w_todo)
  /\ UNCHANGED <<r_todo, r_queue, pending_queue, f_idx, fw_pc, trans, sent_r,
                 sent_w>>

(* mutant: one read is enough *)
AfterWriteSingle(rq) == IF rq # <<>> THEN "read" ELSE "loop"

(* Where the thread waits next when the write branch is done: the READ     *)
(* branch needs r_msg reads.                                               *)
AfterWrite(rq) == IF Len(rq) >= r_msg THEN "read" ELSE "loop"

(* mutant: the fourth write of a group waits for a fifth *)
StartLastFollowed ==
  /\ fw_pc = "loop" /\ f_idx = 4 /\ w_queue # <<>>
  /\ f_idx' = 0
  /\ trans' = Front(pending_queue)
  /\ pending_queue' = Rest(pending_queue)
  /\ fw_pc' = "last"
  /\ UNCHANGED <<r_todo, w_todo, r_queue, w_queue, sent_r, sent_w>>

(* The write branch of fw_thread up to the first wait() in                 *)
(* flit_packing_68, from the end of wait(period).                          *)
StartLast ==
  /\ fw_pc = "loop" /\ f_idx = 4
  /\ f_idx' = 0
  /\ trans' = Front(pending_queue)
  /\ pending_queue' = Rest(pending_queue)
  /\ fw_pc' = "last"
  /\ UNCHANGED <<r_todo, w_todo, r_queue, w_queue, sent_r, sent_w>>

StartHeader ==
  /\ fw_pc = "loop" /\ f_idx = 0 /\ w_queue # <<>>
  /\ fw_pc' = "header"
  /\ UNCHANGED <<r_todo, w_todo, r_queue, w_queue, pending_queue, f_idx,
                 trans, sent_r, sent_w>>

StartData ==
  /\ fw_pc = "loop" /\ f_idx \in 1 .. 3 /\ w_queue # <<>>
  /\ trans' = Front(pending_queue)
  /\ pending_queue' = Rest(pending_queue)
  /\ fw_pc' = "data"
  /\ UNCHANGED <<r_todo, w_todo, r_queue, w_queue, f_idx, sent_r, sent_w>>

(* No write to pack: the read branch, up to its wait(). *)
StartRead ==
  /\ fw_pc = "loop" /\ f_idx # 4 /\ w_queue = <<>>
  /\ AfterWrite(r_queue) = "read"
  /\ fw_pc' = "read"
  /\ UNCHANGED <<r_todo, w_todo, r_queue, w_queue, pending_queue, f_idx,
                 trans, sent_r, sent_w>>

(* From the waits in flit_packing_68 to the next wait. *)
SendLast ==
  /\ fw_pc = "last"
  /\ sent_w' = sent_w \o trans
  /\ trans' = <<>>
  /\ fw_pc' = AfterWrite(r_queue)
  /\ UNCHANGED <<r_todo, w_todo, r_queue, w_queue, pending_queue, f_idx,
                 sent_r>>

(* mutant: without pop_front *)
TakeNextWriteKept ==
  /\ pending_queue' = pending_queue \o Front(w_queue)
  /\ w_queue' = w_queue
  /\ f_idx' = f_idx + 1

(* "trans = w_queue.front(); ... pending_queue.push_back(trans); f_idx++"  *)
TakeNextWrite ==
  /\ pending_queue' = pending_queue \o Front(w_queue)
  /\ w_queue' = Rest(w_queue)
  /\ f_idx' = f_idx + 1

Header ==
  /\ fw_pc = "header"
  /\ TakeNextWrite
  /\ fw_pc' = AfterWrite(r_queue)
  /\ UNCHANGED <<r_todo, w_todo, r_queue, trans, sent_r, sent_w>>

SendData ==
  /\ fw_pc = "data"
  /\ sent_w' = sent_w \o trans
  /\ trans' = <<>>
  /\ TakeNextWrite
  /\ fw_pc' = AfterWrite(r_queue)
  /\ UNCHANGED <<r_todo, w_todo, r_queue, sent_r>>

SendReads ==
  /\ fw_pc = "read"
  /\ sent_r' = sent_r \o SubSeq(r_queue, 1, r_msg)
  /\ r_queue' = SubSeq(r_queue, r_msg + 1, Len(r_queue))
  /\ fw_pc' = "loop"
  /\ UNCHANGED <<r_todo, w_todo, w_queue, pending_queue, f_idx, trans, sent_w>>

ThreadStep ==
  \/ StartLast \/ StartHeader \/ StartData \/ StartRead
  \/ SendLast \/ Header \/ SendData \/ SendReads

Next == TakeRead \/ TakeWrite \/ ThreadStep

Spec == Init /\ [][Next]_vars

-----------------------------------------------------------------------------
TypeOK ==
  /\ r_todo \in Seq(Payload)
  /\ w_todo \in Seq(Payload)
  /\ r_queue \in Seq(Payload)
  /\ w_queue \in Seq(Payload)
  /\ pending_queue \in Seq(Payload)
  /\ f_idx \in 0 .. 4
  /\ fw_pc \in {"loop", "last", "header", "data", "read"}
  /\ trans \in Seq(Payload)
  /\ sent_r \in Seq(Payload)
  /\ sent_w \in Seq(Payload)

(* No deque is popped when it is empty: where the thread resumes from a    *)
(* wait, what it tested before the wait still holds; and pending_queue     *)
(* holds the one write of an unfinished group, exactly when f_idx says so. *)
FlitInv ==
  /\ fw_pc \in {"loop", "read"} =>
       /\ Len(pending_queue) = IF f_idx = 0 THEN 0 ELSE 1
       /\ trans = <<>>
  /\ fw_pc = "header" =>
       f_idx = 0 /\ pending_queue = <<>> /\ trans = <<>> /\ w_queue # <<>>
  /\ fw_pc = "data" =>
       /\ f_idx \in 1 .. 3 /\ pending_queue = <<>>
       /\ Len(trans) = 1 /\ w_queue # <<>>
  /\ fw_pc = "last" =>
       f_idx = 0 /\ pending_queue = <<>> /\ Len(trans) = 1
  /\ fw_pc = "read" => Len(r_queue) >= r_msg

(* Every request is in one place, and in order: writes do not overtake     *)
(* each other although they go through pending_queue, and what the thread  *)
(* has popped before a wait() is sent after it.                            *)
NoneLost ==
  /\ sent_r \o r_queue \o r_todo = ReadReqs
  /\ sent_w \o trans \o pending_queue \o w_queue \o w_todo = WriteReqs
=============================================================================

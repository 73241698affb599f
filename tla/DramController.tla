--------------------------- MODULE DramController ---------------------------
(***************************************************************************)
(* The DRAM simulator as MEMWrapper sees it: the bridge (etc/Bridge.cpp)   *)
(* in front of the memory controller (etc/generic_dram_controller.cpp,     *)
(* etc/request.h), which replaces the one of Ramulator.                    *)
(*                                                                         *)
(* Ramulator itself is external: check_ready (DRAM timing) may hold or not *)
(* for any request, so the scheduler may return any request of a buffer or *)
(* one that is not ready; the row each bank has open decides which DRAM    *)
(* command a request needs; and its refresh manager sends a refresh for    *)
(* each rank from time to time.  There is one channel.                     *)
(*                                                                         *)
(* A buffer is the set of the requests in it: its order serves only the    *)
(* scheduler.  A pending read has `left', the cycles to its departure, for *)
(* depart - m_clk.                                                         *)
(***************************************************************************)
EXTENDS Integers, Sequences, FiniteSets

CONSTANTS
  Commands,       \* the payloads that are sent: [id, type, addr]
  Addrs, Banks, Rows, NoRow,
  BankOf, RowOf,  \* the address mapper
  Ranks,          \* the banks of each rank: a sequence of sets
  MaxSize,        \* ReqBuffer::max_size
  LowMark,        \* back to reads with fewer writes than this,
  HighMark,       \* to writes with more
  ReadLatency,
  MaxRefreshes    \* bound: refreshes of all ranks in a behaviour

ASSUME DramAssumption ==
  /\ \A c \in Commands : c.type \in {"R", "W"} /\ c.addr \in Addrs
  /\ IsFiniteSet(Commands) /\ IsFiniteSet(Banks)
  /\ BankOf \in [Addrs -> Banks] /\ RowOf \in [Addrs -> Rows]
  /\ NoRow \notin Rows
  /\ Ranks \in Seq(SUBSET Banks)
  /\ MaxSize \in Nat /\ ReadLatency \in Nat /\ MaxRefreshes \in Nat
  \* with a low mark of 0 reads are never served again after a write
  /\ LowMark \in Nat \ {0} /\ HighMark \in Nat /\ LowMark <= HighMark + 1

VARIABLES
  unsent, returned,   \* what MEMWrapper has not sent yet, and has got back
  in_queue, out_queue,
  read_buffer, write_buffer, active_buffer,
  priority_buffer,    \* the ranks that are to be refreshed
  pending,
  write_mode,
  open,               \* the row each bank has open
  refreshes_left      \* refreshes that are still to come

buffers == <<read_buffer, write_buffer, active_buffer>>
vars == <<unsent, returned, in_queue, out_queue, buffers, priority_buffer,
          pending, write_mode, open, refreshes_left>>

Init ==
  /\ unsent = Commands
  /\ returned = {}
  /\ in_queue = <<>> /\ out_queue = <<>>
  /\ read_buffer = {} /\ write_buffer = {} /\ active_buffer = {}
  /\ priority_buffer = <<>>
  /\ pending = <<>>
  /\ write_mode = FALSE
  /\ open = [b \in Banks |-> NoRow]
  /\ refreshes_left = MaxRefreshes

bank(c) == BankOf[c.addr]
row(c)  == RowOf[c.addr]

(* mutant: a buffer holds max_size requests *)
AcceptsFewer(buffer) == Cardinality(buffer) < MaxSize

(* ReqBuffer::enqueue: one request more than max_size. *)
Accepts(buffer) == Cardinality(buffer) <= MaxSize

-----------------------------------------------------------------------------
(* Bridge::sendCommand and getCompletedCommand, called by simulate_dram.   *)

SendCommand(c) ==
  /\ c \in unsent
  /\ unsent' = unsent \ {c}
  /\ in_queue' = Append(in_queue, c)
  /\ UNCHANGED <<returned, out_queue, buffers, priority_buffer, pending,
                 write_mode, open, refreshes_left>>

GetCompletedCommand ==
  /\ out_queue # <<>>
  /\ out_queue' = Tail(out_queue)
  /\ returned' = returned \cup {Head(out_queue)}
  /\ UNCHANGED <<unsent, in_queue, buffers, priority_buffer, pending,
                 write_mode, open, refreshes_left>>

-----------------------------------------------------------------------------
(* Bridge::ClockTick, first half: the command at the head of in_queue is   *)
(* sent to the controller, which may refuse it.                            *)

First == IF in_queue = <<>> THEN {} ELSE {Head(in_queue)}

(* A read of an address that is about to be written is answered from the   *)
(* write buffer.                                                           *)
Forwarded ==
  {c \in First : c.type = "R" /\ \E w \in write_buffer : w.addr = c.addr}

Enqueued ==
  {c \in First \ Forwarded :
     Accepts(IF c.type = "R" THEN read_buffer ELSE write_buffer)}

reads  == read_buffer  \cup {c \in Enqueued : c.type = "R"}
writes == write_buffer \cup {c \in Enqueued : c.type = "W"}

WaitingCommands ==
  IF Forwarded \cup Enqueued = {} THEN in_queue ELSE Tail(in_queue)

-----------------------------------------------------------------------------
(* Second half: tick.  The clock advances, and serve_completed_reads looks *)
(* at the first pending read.                                              *)

Pended(cs, n) == IF cs = {} THEN <<>>
                   ELSE <<[cmd |-> CHOOSE c \in cs : TRUE, left |-> n]>>

aged ==
  LET all == pending \o Pended(Forwarded, 1)
  IN [i \in DOMAIN all |->
        [all[i] EXCEPT !.left = IF @ = 0 THEN 0 ELSE @ - 1]]

Departs == aged # <<>> /\ Head(aged).left = 0

served == IF Departs THEN <<Head(aged).cmd>> ELSE <<>>

unserved == IF Departs THEN Tail(aged) ELSE aged

(* mutant: the write buffer is left to fill up *)
NewModeHighOnly ==
  IF write_mode THEN ~(Cardinality(writes) < LowMark /\ reads # {})
    ELSE Cardinality(writes) > HighMark

(* set_write_mode *)
NewMode ==
  IF write_mode THEN ~(Cardinality(writes) < LowMark /\ reads # {})
    ELSE Cardinality(writes) > HighMark \/ reads = {}

(* mutant: part 2.3 is left out *)
InterruptsNone(bs) == FALSE

(* Part 2.3 of schedule_request: a command that closes the row of a bank   *)
(* is not issued while a request in the active buffer is to use it.        *)
Interrupts(bs) == \E a \in active_buffer : bank(a) \in bs

(* The last command a request needs: its row is open. *)
Access(c) ==
  /\ open[bank(c)] = row(c)
  /\ read_buffer' = reads \ {c}
  /\ write_buffer' = writes \ {c}
  /\ active_buffer' = active_buffer \ {c}
  /\ IF c.type = "R"
       THEN /\ pending' = unserved \o Pended({c}, ReadLatency)
            /\ out_queue' = out_queue \o served
       ELSE /\ pending' = unserved
            /\ out_queue' = out_queue \o served \o <<c>>
  /\ UNCHANGED open

(* ACT moves the request to the active buffer; whether that took it is     *)
(* not looked at.                                                          *)
Activate(c) ==
  /\ open[bank(c)] = NoRow
  /\ open' = [open EXCEPT ![bank(c)] = row(c)]
  /\ active_buffer' =
       IF Accepts(active_buffer) THEN active_buffer \cup {c}
         ELSE active_buffer \ {c}
  /\ read_buffer' = reads \ {c}
  /\ write_buffer' = writes \ {c}
  /\ pending' = unserved
  /\ out_queue' = out_queue \o served

(* Nothing but the row of some banks changes. *)
Close(bs) ==
  /\ open' = [b \in Banks |-> IF b \in bs THEN NoRow ELSE open[b]]
  /\ read_buffer' = reads
  /\ write_buffer' = writes
  /\ pending' = unserved
  /\ out_queue' = out_queue \o served
  /\ UNCHANGED active_buffer

Precharge(c) ==
  /\ open[bank(c)] \notin {NoRow, row(c)}
  /\ ~Interrupts({bank(c)})
  /\ Close({bank(c)})

Issue(c) == Access(c) \/ Activate(c) \/ Precharge(c)

(* The refresh at the head of the priority buffer: PREA as long as a bank  *)
(* of the rank is open, then the refresh itself.                           *)
IssueRefresh(ranks) ==
  /\ ranks # <<>>
  /\ IF \A b \in Head(ranks) : open[b] = NoRow
       THEN Close({}) /\ priority_buffer' = Tail(ranks)
       ELSE /\ ~Interrupts(Head(ranks))
            /\ Close(Head(ranks))
            /\ priority_buffer' = ranks

(* schedule_request and the issue that follows, with these refreshes in    *)
(* the priority buffer: active requests first, then refreshes, and only    *)
(* without any the buffer of the mode.  Or nothing is ready.               *)
Schedule(ranks) ==
  \/ \E c \in active_buffer :
       Issue(c) /\ priority_buffer' = ranks /\ UNCHANGED write_mode
  \/ IssueRefresh(ranks) /\ UNCHANGED write_mode
  \/ /\ ranks = <<>>
     /\ \E c \in IF NewMode THEN writes ELSE reads : Issue(c)
     /\ write_mode' = NewMode
     /\ priority_buffer' = ranks
  \/ /\ Close({})
     /\ write_mode' = IF ranks = <<>> THEN NewMode ELSE write_mode
     /\ priority_buffer' = ranks

ClockTick ==
  \E n \in {0, 1} :
    /\ n <= refreshes_left
    /\ refreshes_left' = refreshes_left - n
    /\ in_queue' = WaitingCommands
    /\ Schedule(priority_buffer \o (IF n = 1 THEN Ranks ELSE <<>>))
    /\ UNCHANGED <<unsent, returned>>

-----------------------------------------------------------------------------
Next == \/ \E c \in Commands : SendCommand(c)
        \/ GetCompletedCommand
        \/ ClockTick

Spec == Init /\ [][Next]_vars

(* simulate_dram calls ClockTick and getCompletedCommand in every turn; a  *)
(* DRAM timing constraint holds a command back only for some cycles.       *)
FairSpec == Spec /\ WF_vars(ClockTick) /\ WF_vars(GetCompletedCommand)

-----------------------------------------------------------------------------
(* Properties                                                              *)

Items(q) == {q[i] : i \in DOMAIN q}

PendingCommands == {p.cmd : p \in Items(pending)}

TypeOK ==
  /\ unsent \subseteq Commands /\ returned \subseteq Commands
  /\ in_queue \in Seq(Commands) /\ out_queue \in Seq(Commands)
  /\ read_buffer \subseteq Commands
  /\ write_buffer \subseteq Commands
  /\ active_buffer \subseteq Commands
  /\ priority_buffer \in Seq(SUBSET Banks)
  /\ pending \in Seq([cmd : Commands, left : Nat])
  /\ write_mode \in BOOLEAN
  /\ open \in [Banks -> Rows \cup {NoRow}]
  /\ refreshes_left \in Nat

(* A bank whose row was opened for a request keeps that row open until the *)
(* request has used it, and it is one request per bank: neither a request  *)
(* for another row nor a refresh interrupts it ("avoid useless ACTs").     *)
OpenForActive ==
  /\ \A c \in active_buffer : open[bank(c)] = row(c)
  /\ \A c, d \in active_buffer : bank(c) = bank(d) => c = d

Held == UNION {Items(in_queue), Items(out_queue), read_buffer, write_buffer,
               active_buffer, PendingCommands}

Store == INSTANCE RowStore WITH
  Bank <- [c \in Commands |-> bank(c)], Places <- MaxSize + 1,
  held <- Held, opened <- active_buffer

(* A tick moves commands between five buffers and queues; none is lost in  *)
(* a full buffer, made up or returned twice, but for one case: tick looks  *)
(* not at the result of m_active_buffer.enqueue, and the request is gone   *)
(* if max_size + 1 other banks have activated requests waiting.            *)
ImplementsStore == Store!Spec

(* No command stays for ever: the marks of the write mode leave no kind    *)
(* behind when no more commands come, refreshes end, a row is opened for   *)
(* each command in the end, and a forwarded read waits behind the first    *)
(* pending one only for its latency.  By ImplementsStore a command leaves  *)
(* when it is returned, or lost as said there.                             *)
NoneStuck == \A c \in Commands : c \in Held ~> c \notin Held
=============================================================================

---------------------------- MODULE UspBackward ----------------------------
(***************************************************************************)
(* USP::bw_thread (components/port/usp.cpp) in simulated time, with the    *)
(* wrapper it sends acknowledgements to.  SIMWrapper::peq_cb keeps an ack  *)
(* in one slot per kind, which the rising clock edge empties; a second ack *)
(* before that edge would replace the first.  Nothing but the thread's     *)
(* latencies keeps the acks of one kind apart.                             *)
(*                                                                         *)
(* Time is counted in any unit that the three latencies and the clock      *)
(* period are multiples of.  What falls on one instant happens in any      *)
(* order.                                                                  *)
(***************************************************************************)
EXTENDS Tlm

CONSTANTS Host,
          Acks,           \* the payloads the memory acknowledges
          Period,         \* of the host's clock, and of the thread
          PortLatency, LinkLatency,
          Pipeline        \* one ack in so many takes the port latency

ASSUME UspBackwardAssumption ==
  /\ Hosts = {Host}
  /\ Acks \subseteq Payload
  /\ NoPayload \notin Payload
  /\ Period \in Nat \ {0}
  /\ PortLatency \in Nat \ {0}
  /\ LinkLatency \in Nat \ {0}
  /\ Pipeline \in Nat \ {0}

VARIABLES
  at_mem,                     \* acks that have not come yet
  rack_queue, wack_queue, rack_num, wack_num,
  bw_pc,                      \* the wait() the thread is in
  timer,                      \* how long that wait still takes
  trans,                      \* its local variable: the ack to be sent
  clk,                        \* time to the next rising edge
  rack_incoming, wack_incoming          \* the wrapper's slots

thread == <<rack_num, wack_num, bw_pc, timer, trans>>
slots  == <<rack_incoming, wack_incoming>>
vars   == <<at_mem, rack_queue, wack_queue, thread, clk, slots>>

Init ==
  /\ at_mem = Acks
  /\ rack_queue = <<>>
  /\ wack_queue = <<>>
  /\ rack_num = 0
  /\ wack_num = 0
  /\ bw_pc = "loop"
  /\ timer = 0
  /\ trans = NoPayload
  /\ clk \in 0 .. Period
  /\ rack_incoming = NoPayload
  /\ wack_incoming = NoPayload

(* nb_transport_bw, called by the downstream port for at most one ack of   *)
(* each kind in a turn.                                                    *)
Arriving(c) == {<<>>} \cup {<<p>> : p \in {q \in at_mem : q.cmd = c}}

TakeAcks(rs, ws) ==
  /\ rs \in Arriving("R") /\ ws \in Arriving("W")
  /\ at_mem' = {p \in at_mem : <<p>> \notin {rs, ws}}
  /\ rack_queue' = rack_queue \o rs
  /\ wack_queue' = wack_queue \o ws
  /\ UNCHANGED <<thread, clk, slots>>

(* The numbers of acks sent are used modulo pipeline only. *)
Latency(num) == IF num = 0 THEN PortLatency ELSE LinkLatency
Counted(num) == (num + 1) % Pipeline

PopWack ==
  /\ wack_queue # <<>>
  /\ trans' = Head(wack_queue)
  /\ wack_queue' = Tail(wack_queue)
  /\ bw_pc' = "wack"
  /\ timer' = Latency(wack_num)
  /\ UNCHANGED rack_queue

(* mutant: the newest ack first *)
PopRackNewest ==
  /\ rack_queue # <<>>
  /\ trans' = rack_queue[Len(rack_queue)]
  /\ rack_queue' = SubSeq(rack_queue, 1, Len(rack_queue) - 1)
  /\ bw_pc' = "rack"
  /\ timer' = Latency(rack_num)
  /\ UNCHANGED wack_queue

PopRack ==
  /\ rack_queue # <<>>
  /\ trans' = Head(rack_queue)
  /\ rack_queue' = Tail(rack_queue)
  /\ bw_pc' = "rack"
  /\ timer' = Latency(rack_num)
  /\ UNCHANGED wack_queue

(* mutant: round the loop without wait(period) *)
PauseNot ==
  /\ bw_pc' = "loop"
  /\ timer' = IF bw_pc = "loop" THEN Period ELSE 0
  /\ trans' = NoPayload
  /\ UNCHANGED <<rack_queue, wack_queue>>

(* wait(period) at the end of the loop. *)
Pause ==
  /\ bw_pc' = "loop"
  /\ timer' = Period
  /\ trans' = NoPayload
  /\ UNCHANGED <<rack_queue, wack_queue>>

(* mutant: read acks are only looked for after a write ack *)
TopOfLoopWritesOnly ==
  /\ bw_pc = "loop" /\ timer = 0
  /\ PopWack \/ (wack_queue = <<>> /\ Pause)
  /\ UNCHANGED <<at_mem, rack_num, wack_num, clk, slots>>

TopOfLoop ==
  /\ bw_pc = "loop" /\ timer = 0
  /\ \/ PopWack
     \/ wack_queue = <<>> /\ PopRack
     \/ wack_queue = <<>> /\ rack_queue = <<>> /\ Pause
  /\ UNCHANGED <<at_mem, rack_num, wack_num, clk, slots>>

SendWack ==
  /\ bw_pc = "wack" /\ timer = 0
  /\ wack_incoming' = trans
  /\ wack_num' = Counted(wack_num)
  /\ PopRack \/ (rack_queue = <<>> /\ Pause)
  /\ UNCHANGED <<at_mem, rack_num, clk, rack_incoming>>

SendRack ==
  /\ bw_pc = "rack" /\ timer = 0
  /\ rack_incoming' = trans
  /\ rack_num' = Counted(rack_num)
  /\ Pause
  /\ UNCHANGED <<at_mem, wack_num, clk, wack_incoming>>

(* SIMWrapper::clock_posedge. *)
Posedge ==
  /\ clk = 0
  /\ clk' = Period
  /\ rack_incoming' = NoPayload
  /\ wack_incoming' = NoPayload
  /\ UNCHANGED <<at_mem, rack_queue, wack_queue, thread>>

(* Time passes when nothing is left to do at this instant. *)
Tick ==
  /\ timer > 0 /\ clk > 0
  /\ timer' = timer - 1
  /\ clk' = clk - 1
  /\ UNCHANGED <<at_mem, rack_queue, wack_queue, rack_num, wack_num, bw_pc,
                 trans, slots>>

KernelStep == TopOfLoop \/ SendWack \/ SendRack \/ Posedge \/ Tick

Next ==
  \/ KernelStep
  \/ \E rs \in Arriving("R"), ws \in Arriving("W") : TakeAcks(rs, ws)

Spec == Init /\ [][Next]_vars

-----------------------------------------------------------------------------
TypeOK ==
  /\ at_mem \subseteq Acks
  /\ rack_queue \in Seq(Payload)
  /\ wack_queue \in Seq(Payload)
  /\ rack_num \in 0 .. Pipeline - 1
  /\ wack_num \in 0 .. Pipeline - 1
  /\ bw_pc \in {"loop", "wack", "rack"}
  /\ timer \in Nat
  /\ trans \in Payload \cup {NoPayload}
  /\ clk \in 0 .. Period
  /\ rack_incoming \in Payload \cup {NoPayload}
  /\ wack_incoming \in Payload \cup {NoPayload}

(* An ack stays in its slot until a rising edge takes it: the next ack of  *)
(* its kind does not replace it (peq_cb assigns rack_incoming and          *)
(* wack_incoming without a test).                                          *)
SlotNeverOverwritten ==
  [][/\ rack_incoming # NoPayload =>
          rack_incoming' \in {rack_incoming, NoPayload}
     /\ wack_incoming # NoPayload =>
          wack_incoming' \in {wack_incoming, NoPayload}]_vars

(* The least time to the next ack of each kind. *)
NextRack == IF bw_pc = "rack" THEN timer ELSE timer + 1
NextWack == IF bw_pc = "wack" THEN timer
            ELSE IF bw_pc = "loop" THEN timer + 1
            ELSE timer + Period + 1

(* Why it is so: a full slot is emptied before the next ack can be there.  *)
PacedInv ==
  /\ rack_incoming # NoPayload => clk < NextRack
  /\ wack_incoming # NoPayload => clk < NextWack
=============================================================================

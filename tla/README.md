# TSim4CXL in TLA+

TSim4CXL simulates hosts that exchange data through a shared CXL memory.  Each
host is a separate operating system process that replays a trace; the
*backplane* is a SystemC program with one wrapper and one pair of ports per
host, a CXL controller, and memory devices behind it.  These modules model the
machinery of both: how hosts are started, how a trace is cut into packets, and
what happens to a packet, and to the payloads it is cut into, between the
moment a host sends it and the moment the host is answered.

Contents: [1 inventory](#1-inventory), [2 modules](#2-modules),
[3 runs](#3-runs), [4 fairness](#4-fairness), [5 proofs](#5-proofs),
[6 findings](#6-findings), [7 what is not modelled](#7-what-is-not-modelled),
[8 what is left](#8-what-is-left).

## 1 Inventory

```
 host process  ==ring==>  SIMWrapper --> USP --> DSP --> Controller --> MEMWrapper --> DRAM
 (one per host) <==ring==  (thread,   <-- USP <-- DSP <-- (2 threads) <-- (thread,   <-- (Bridge,
                          2 methods)     2 + 2 threads                    2 methods)    Ramulator)
                              |
                        SyncObject, active_cores, active_dram   (globals)
```

Paths below are under `src/backplane/`, except `etc/` and `host/`, which are
under `src/`.

| Component | State | Operations | Interaction | What is hard, what makes it correct |
|---|---|---|---|---|
| **SIMWrapper** `components/wrapper/sim_wrapper.cpp` | phase of `periodic_process`, the packet in hand, `req_done`, request and ack queues, one incoming slot per ack kind, `packet_data`, counts | `periodic_process` and its handlers; `clock_posedge`, `clock_negedge`; `nb_transport_bw`, `peq_cb` | ring to its host; `forward_trans` to the USP; acks from it; SyncObject | Acks are *counted*, not matched to packets; polls without `wait()` stop the whole kernel; a flag is tested, and cleared a period later. Correct: a read is answered with the packet written at its address, once; a flag means the data is stored; a spin ends |
| **SyncObject** `utilities/sync_object.h` | one flag per address | `signal`, `free`, `check_signal` | shared by all wrappers | Boolean: a second signal before the flag is used is lost. Correct: no signal is raised twice before it is used |
| **USP** `components/port/usp.cpp` | `r_queue`, `w_queue`, `pending_queue`, `f_idx`; ack queues and their counts | `fw_thread` and `flit_packing_68`; `bw_thread`; two handlers | wrapper above, DSP below | Waits between the test of a deque and its pop; a write is held back by one flit; nothing but latencies keeps acks out of the wrapper's slot. Correct: FIFO per kind, no pop of an empty deque, paced acks |
| **DSP** `components/port/dsp.cpp` | four queues | two threads, two handlers | USP above, controller below | A plain FIFO hop per kind |
| **Controller** `components/controller.cpp` | four queues, `r_trans_id`, `w_trans_id`, `device_map` | `fw_thread`; `bw_thread` and `flit_packing_68`; two handlers | DSPs of all hosts, memory devices | Port of an ack found by *address*; three kinds of flit, each with waits between test and pop. Correct: acks go home, in order, and nothing starves |
| **MEMWrapper** `components/wrapper/mem_wrapper.cpp` | `mem_data`, request and ack queues, `m_outstanding` | `clock_posedge`, `clock_negedge`, `simulate_dram`, `peq_cb` | controller; DRAM; `active_cores`, `active_dram` | Writes are stored on arrival, their acks come when the DRAM completes; it decides when the simulation may end. Correct: `m_outstanding` exact, end is clean |
| **DRAM controller, Bridge** `etc/` | request buffers, write mode, active buffer, pending reads; bridge queues | `sendCommand`, `getCompletedCommand`, `ClockTick`; `send`, `priority_send`, `tick` | MEMWrapper above, Ramulator around it | Completion out of order; buffers at their limit, where a result is ignored; refreshes and conflicting rows. Correct: each command comes back, once, and no row is closed that is to be used |
| **Host and ShmemCommunicator** `components/host.cpp`, `utilities/shmem_communicator.cpp` | connection state | `run_host_proc`, `prepare_connection`, `wait_connection`; `send_packet`, `recv_packet`, `response_request` | starts the host process; two rings | Both sides clear the same rings, whatever an earlier run left there; all hosts build in one directory; waiting for one blocks the kernel. Correct: every host comes up and is heard from its first packet on |
| **PacketBuffer** `utilities/packet_buffer.cpp` | `start`, `end`, slots, in shared memory | `pb_init`, `pb_is_full`, `pb_is_empty`, `pb_write`, `pb_read` | simulator and host process, no lock | All interleavings of two processes. Correct: bounded FIFO, no torn packet, no lost packet |
| **Host process** `host/` (trace generator, packet manager) | trace, place in it, blocked or not | builds the rings, cuts entries into packets, sends, waits for reads | rings | Entries rounded up to packets through a float. Correct: the packets cover the entry, in order, and no more |
| **Memory manager** `utilities/mm.cpp` | free list threaded through nodes | `allocate`, `free` | every payload | Payloads are used again at once, and keyed by pointer in `device_map`. Correct: no payload is free and in use, requests are not mixed up |
| **Configurations, Statistics** | parameters, counters | load; count and print | read by all | – |
| SystemC, TLM, spdlog, jsoncpp | – | – | – | Vendored |

`PROJECT.json` lists each component with its status, and under `hazards` every
place in the code where something hard to test can go wrong, with the
properties that would catch it.

## 2 Modules

### 2.1 Common decisions

* **A step is the code between two `wait()` calls.**  SystemC threads are
  cooperative.  A `wait()` becomes a value of a program counter, and every
  other process may run before the thread goes on.  Only where time itself is
  the subject (`UspBackward`) is simulated time modelled; elsewhere the model
  lets the processes run in any order, which covers every choice of the
  configurable latencies and frequencies.
* **A call to a neighbour is part of the caller's step.**  `nb_transport_fw`
  and `nb_transport_bw` put a payload into the neighbour's event queue, and a
  delta cycle later `peq_cb` files it; the two are one step.
* **Polls that find nothing are not steps**: they change nothing.  The
  exception is a poll on a path without `wait()`, which stops the kernel; that
  one is the state variable `spinner`.
* **Data** is a tag per written packet; slice *i* of it is `<<tag, i>>`.  An
  answer that mixes packets, or parts of one in another order, is visible; the
  bytes are not there.  Addresses count DRAM requests.
* Definitions marked `mutant:` are not part of the models.  Each stands before
  the definition it is a faulty variant of, and the property that would notice
  the fault is named in `PROJECT.json`.

### 2.2 The whole simulator

| Module | Models | Correspondence |
|---|---|---|
| `Tlm` | packets, payloads, cutting | `ReadPayloads`, `WritePayloads` are the loops of `handle_read_packet` and `handle_write_packet` with `add_payload` |
| `HostProcess` | `host/main.cpp` and packet manager | `Send`, `GetResponse`; a read blocks the host. Rings are FIFO queues (shown by `PacketBuffer`) |
| `SimWrapper` | SIMWrapper and SyncObject | `pc` names the wait of `periodic_process`; `Receive`, `Spin`, `CheckSignal`, `FreeSignal`, `HandleRead`, `HandleWrite`, `HandleTerminate`, `LeaveCore`, `Stop`; `ClockPosedge`, `ClockNegedge`; `TakeRack`, `TakeWack` = `peq_cb` |
| `Link` | what USP and DSP promise together | four FIFO queues per host, and `paced_*`: a clock edge lies between two acks of a kind |
| `Switch` | what the controller promises | FIFO per kind in both directions, ports by address |
| `MemWrapper` | MEMWrapper; DRAM as external | `TakeRead`, `TakeWrite` = `peq_cb`; `SimulateDram(done)` = one turn of the thread, `done` what `getCompletedCommand` returned: any one command sent before, or none |
| `CxlSim` | all of it | joins each component's step with the handler it calls; `KernelRuns` is false while a wrapper spins and after `sc_stop` |
| `Mailbox` | the abstract promise | an address is a mailbox for one packet |
| `CxlSimProperties`, `CxlSimInvariants`, `MCCxlSim` | properties; inductive invariants for the proofs; programs for TLC | |

`Link`, `Switch`, the DRAM of `MemWrapper` and `HostProcess` are both parts of
the composition and abstract specifications: the modules of 2.3 model the code
of the components and are shown to implement them.

### 2.3 Components at the grain of their code

| Module | Models | Shown to implement |
|---|---|---|
| `UspForward` | `USP::fw_thread` and `flit_packing_68`: `fw_pc` is the wait the thread is in (`loop`, `last`, `header`, `data`, `read`), `trans` its local variable | – (part of `PortsForward`) |
| `Dsp` | one direction of the downstream port: `Take` its handler, `Turn` a turn of its thread | – (part of both compositions) |
| `PortsForward` | `UspForward` and `Dsp` composed: each call of `nb_transport_fw` in a step of the upstream port is a `Take` of the downstream port in the same step | `Link`, forward half |
| `UspBackward` | `USP::bw_thread` in simulated time, with the wrapper's slots and rising edge; any phase between the two at the start (`clk`) | – (part of `PortsBackward`) |
| `PortsBackward` | `Dsp` in front of `UspBackward` | `Link`, backward half with pacing |
| `Controller` | `fw_thread`, `bw_thread`, `flit_packing_68` and both handlers; `flit` counts the acks that still fit | `Switch` |
| `ControllerStream` | `Controller` with hosts that ask again for what they got (`Reissue`), so that the requests never end | – |
| `DramController` | the bridge's three calls; in `ClockTick`, as in the code, the head of `in_queue` enters (or is refused, or is answered from the write buffer), the first pending read departs, refreshes come, one command is scheduled and issued, all in one step | `RowStore`: a command sent is held and returned once, or lost at one place only: its row is opened while commands of `Places` other banks have theirs open |
| `PacketBuffer` | the ring of `packet_buffer.cpp`, one access to shared memory a step, the copy of a packet in two halves | `PacketRing`, a bounded FIFO queue |
| `Mm`, `PayloadLife` | `mm::allocate` and `mm::free` with the nodes and links of the list; the life of payloads from `add_payload` through `device_map` and `peq_cb` to END_RESP, with several devices | `CommandStore`: no request lost or mixed up |
| `HostSession` | `run_host_proc`, both `prepare_connection`, the build in the shared directory, `wait_connection`, and `host()`, `trcWrite`, `trcRead` with rounding and 32-bit addresses | `HostProcess` |

In all of these the guards of the steps after a wait do *not* test the queue
that is popped, as in the code.  That the pop is safe is an invariant
(`FlitInv`, `PopsSafe`), not an assumption.

What is external to the code in `src/` is a choice.  In `DramController`
Ramulator's scheduler may pick any request of a buffer, or none is ready; which
command a request needs follows from the row its bank has open; the refresh
manager may send its refreshes at any tick.  In `HostSession` a build succeeds
unless another host's `make clean` comes between it and the start.

`PayloadLife` keeps what waits in queues as sets: in which order payloads leave
queues is the matter of the other modules, and any order covers theirs.
`HostSession` keeps of the simulator only that it takes packets and answers
reads.

## 3 Runs

| Run | Shows | Bounds, and why they are enough | Distinct states |
|---|---|---|---|
| `cxl_sim` | `SignalMeansStored`, `ReadReturnsData`, `ReadsNewest`, `RoutedHome`, `SpinEnds`, `BurstsAddUp`, `DramCountExact`, `StopIsClean`, `TypeOK`, `ImplementsMailbox` (refinement of `Mailbox`), `RunCompletes` (every run ends with all hosts answered) | 2 hosts, 2 addresses, packets of 2 payloads, a ring of 3 slots, six programs (below). Two payloads are the least at which acks of one packet can be mixed with another's; two open writes (`Burst`) the least at which the count of acks and the packet they belong to differ; 2 places in the ring make it fill up; in two programs the flag of an address goes up twice, its store is written over and the controller's entries for it are replaced | 675,784 |
| `ports_forward` | `FlitInv`, `EndToEnd`, `ImplementsLink`, `AllReach` | 2 write and 2 read packets of 4 payloads: two full groups, so that a group follows a group; reads and writes forwarded at any distance, both ports at any pace | 31,405 |
| `ports_backward` | `PacedInv`, `SlotNeverOverwritten`, `ImplementsLink`, `AllArrive` | period 3, latencies 4 and 1, pipeline 2; 3 read acks and 2 write acks, at any instants: latencies above and below the period, no common divisor | 77,440 |
| `controller` | `PopsSafe`, `RouteInv`, `RoutedHome`, `ImplementsSwitch`, `TypeOK`, `QueuedIsDelivered` (no request starves) | specification `StreamSpec` of `ControllerStream`: three writes of one host and two reads of another, each issued again and again, in any number and order. A full flit of read acks (an ack comes back while the flit is filled), full and partial ones of write acks, and mixed ones; reads can follow reads, and acks of a kind acks of the kind, for ever | 63,480 |
| `packet_buffer` | `SlotsApart`, `NoTornPacket`, `RingInv`, `ImplementsRing`, `SendReturns` | 4 slots, 2 packets, no bound on the number of packets sent | 6,399 |
| `dram` | `OpenForActive`, `ImplementsStore`, `NoneStuck` | 2 writes and 3 reads on three banks in two ranks, buffers of 2 requests, marks of the write mode at 1, one refresh of both ranks: a buffer refuses a request, rows conflict, a read finds its write in the buffer, a refresh meets an open row, in every order. Three banks for two places is the shipped proportion, more banks than places, at its smallest: the active buffer is full when a row of a third bank is opened | 281,061 |
| `payloads` | `PoolsSound`, `RoutedToDevice`, `ImplementsStore` | 2 hosts, 2 devices, 5 requests, four of one host: its payloads are taken back in every order, used again before others are back, for the same device and for another | 1,210,831 |
| `host_session` | `EveryHostStarts`, `ImplementsHostProcess`, `AllServed`, `TypeOK` | 3 hosts (the second waits for the first, the third for both), a ring of 3 slots, two sets of traces, rings with and without leftovers, packets of 4 bytes, addresses of 5 bits; entries that are empty, shorter than a packet, a byte longer, a multiple, and across the end of the address space | 40,845 |
| `read_order` | violated: `ReadInOrder` | program `Burst` | |
| `trailing_write` | violated: `StopIsClean` | a trace that ends with a write | |
| `lost_signal` | violated: `RunCompletes` | a host that writes a packet twice and then reads it twice | |
| `usp_stall` | violated: `AllReach` | packets of 2 payloads | |

**Programs.**  In the traces that come with the program each packet is written
once and read once, and most write-read pairs cross hosts.  Four programs of
`cxl_sim` are of that kind: `Exchange` (`trace/r0.txt`, `r1.txt`: each host
writes a packet and reads the other's), `Relay` (`trace/llm`: one writes, the
other reads and writes back), `Burst` (two writes open before anything is
read), `Alone` (a host reads what it wrote).

The other two leave the discipline: an address is written again, but only by a
host that knows it was read, because it read it itself.  In `Handover` the
writer's and the reader's host then change places, in `Reused` one host is
both.  `lost_signal` shows what happens without such a turn: a flag holds one
signal.  Traces that leave the discipline in other ways (two hosts with reads
of one packet open, packets that overlap) are in no run; the hazards name the
places where they would matter.

**Scale.**  `CxlSim` uses packets of two payloads and a `Link` that forwards
every payload.  The USP as coded forwards writes by groups of four and reads
by pairs; packets that are multiples of four payloads (16 in the shipped
configuration) always leave completely (`ports_forward`), others may not
(`usp_stall`).  The whole-system model is thus a scale model of configurations
in which every packet leaves; two payloads stand for the many.

**Where it may stop.**  `cxl_sim` and `host_session` check for deadlock, with
the explicit final state `Finished`; so do `ports_backward`, `packet_buffer`
and `controller`, whose models never end.  `PortsForward`, `DramController` and
`PayloadLife` end, or have nothing left to return, when the requests given to
them are used up (`CHECK_DEADLOCK FALSE`); so does the run `lost_signal`, which
is about a standstill.

## 4 Fairness

* `CxlSim`: weak fairness of `KernelStep` (the kernel is one thread and always
  runs some process whose time has come; idle polls are not steps, so a step
  moves something on) and of each host process (the operating system schedules
  it).  There is *no* fairness for single SystemC processes: the property does
  not need it, because only finitely many steps are possible before each host
  has been answered.
* `PortsForward`: the threads' waits end and the neighbours do their part, each
  with weak fairness.  The threads wait for fixed times.
* `Controller`, `ControllerStream`: the threads' waits end, with weak fairness of
  each thread.  Nothing is assumed of ports, memory and hosts, which may ask
  again for ever or stop.
* `PortsBackward`: time passes (`Tick`), the clock edge comes, both threads
  resume; each ack comes at some time.
* `DramController`: `simulate_dram` calls `ClockTick` and
  `getCompletedCommand` in every turn, each with weak fairness.  A tick in which
  no command is ready changes nothing but the ages of pending reads and the
  mode, so fairness of `ClockTick` says that a DRAM timing constraint does not
  hold everything back for ever.  Nothing is assumed of the scheduler's choice:
  `NoneStuck` holds although it may always prefer another request, since the
  commands of a run are finitely many.  It is a statement about standstill, not
  about starvation: while reads keep coming, writes below the high mark wait by
  design, and nothing in the controller looks at a request's age.
* `HostSession`: the simulator's kernel, and each host process.
* `PacketBuffer`: both processes are scheduled.  Neither has to call.

## 5 Proofs

TLAPS proves the following for every value of the constants; all the proofs are
complete.

| Module | Theorems | Argument |
|---|---|---|
| `CxlSimProofs` | `AcksComeHome`, `TypeCorrect`, `DramCounts`, `BurstsComplete`, `SpinningEnds`, `StopsClean`, `SignalsAreStored`, `AnswersComplete`, `SimulatorIsMailboxes` | see 5.1 |
| `PacketBufferProofs` | `TypeCorrect`, `RingInvariant`, `RingSlotsApart`, `RingNoTornPacket`, `RingIsQueue` | Inductive invariant `TypeOK /\ RingInv`. `SlotsApart` is not inductive by itself: one needs that a test stays true until the process that made it moves its own index (only the writer can fill the ring, only the reader can empty it), and that used slots hold one packet. For the refinement (`RingIsQueue`: the ring implements the bounded queue `PacketRing`), `FilledInv` says that used slots hold packets that were given to `pb_write`; the used slots from `start` on are the queue, so that moving `end` appends to it and moving `start` takes its head |
| `UspForwardProofs` | `NoEmptyPop`, `NoRequestLost`, `RequestsInOrder`, `PortsAreALink` | Inductive invariants `TypeOK /\ FlitInv` and, on top of it, `NoneLost`. `pending_queue` holds exactly one write inside a group; the wrapper only appends, so a queue found not empty stays so. Lemmas about `Front`, `Rest`, `Moved` carry the sequence algebra. `RequestsInOrder` is about the composition with the downstream port (`PortsSpec`): what has left, followed by what both ports hold, is the list of requests of the kind. `PortsAreALink` maps what both ports hold of a kind to one queue of `Link`: grouping, `pending_queue` and the payload in the thread's hand are inside it, a request enters at its end when the wrapper forwards it and leaves at its head |
| `UspBackwardProofs` | `TypeCorrect`, `Paced`, `NoAckLost`, `PortsAreALink` | `PacedInv` bounds the time to the clock edge by the least time to the next ack of the kind. It is inductive because `clk` never exceeds the period and each round of the thread contains `wait(period)` and a latency. `PortsAreALink` is the half of `Link` with pacing: by `PacedInv` a clock edge lies between two acks of a kind that the port hands over |
| `ControllerProofs` | `NoEmptyPop`, `TypeCorrect`, `Routes`, `AcksGoHome`, `ControllerIsSwitch` | `QueuesTyped /\ PopsSafe`; `FlitTyped` on top of it for the room in the flit; then, for routing, that with the tables' types and `RouteInv`. The refinement of `Switch` (`ControllerIsSwitch`) rests on the first: the tests before the waits are stutters, and each pop is a step of the switch because the queue tested still has an element. It needs no premise about addresses |
| `DramControllerProofs` | `TypeCorrect`, `RowsKept`, `KeptUnlessCrowded` | `OpenForActive`: a bank with a request in the active buffer has that request's row open, since only a request whose command is an activation opens it and the test before a precharge looks through the whole buffer. `KeptUnlessCrowded` is the refinement of `RowStore`, for any number of banks: `StoreInv` says that every command held is in exactly one of the controller's lists, once, and that the active buffer has at most its `max_size + 1` places; a tick then keeps all commands, except for a request that is activated while that buffer refuses it (`ActivateStep`), and by `OpenForActive` those in the buffer are then of as many other banks |
| `PayloadProofs` | `PayloadsKept`, `RoutedRight`, `RequestsKept` | `Inv` over the memory manager's lists: the free list has no cycle and no node twice, each payload of a pool is free or in exactly one place (under way, at a device, in its DRAM queue), and `device_map` has, for a payload under way, the device of its present request. It is the last part that makes the map sound although it is keyed by a pointer that is used again. `RequestsKept` (`CommandStore` again) adds `CarriedInv`: no request is carried by two payloads in use, or carried by one and still to come |
| `HostSessionProofs` | `EveryBuildSucceeds`, `TypeCorrect`, `SessionIsHosts` | `BuildInv`: at most one host is between the start of its process and the connection, because `wait_connection` blocks the kernel; so the builds in the shared directory never overlap. `TypeCorrect` adds `CursorInv` (what the loops of `trcRead` and `trcWrite` have left belongs to the entry at the head of the trace) and `ReadsInv` (the host's process is blocked while a read of it is open). For the refinement of `HostProcess` (`SessionIsHosts`), the packets of a trace are those of its first entry followed by those of the others: `Flattening`, an induction over the trace, stated with a set of numbers because the library's induction theorems take an operator. The loops that count bytes down then send the packets of an entry one by one (`NextPiece`) and leave it exactly when all that cover it are sent (`EntryEnds`, `NeededIsCount`) |

### 5.1 The whole simulator

`CxlSimProofs` takes the nineteen kinds of queue a payload passes through as one
function `Queues` from places to sequences.  Nearly every step moves the first
payload of one place to the end of another, so that types, order and
uniqueness are shown once, for a move (`Shift`, `Dropped`, `Extended`), and a
step is only shown to be one.  The invariants, defined in `CxlSimInvariants`,
are layers, and a theorem uses the ones below it:

| Invariant | Says | For |
|---|---|---|
| `TypeInv`, `FlowInv(prog)` | what each host has still to send is an end of its program; each queue holds payloads that fit its place: their address belongs to a packet of the program already cut, and from the controller on its tables point to their host | `AcksComeHome` |
| `OnceInv` | no payload is in two places, or twice in one, so that the set of open payloads counts them | `DramCounts` |
| `WritesInv` | write acks counted and write payloads open make up exactly the packets in `sync_queue`; hence `sync_queue` is not empty when `clock_negedge` takes its head without a test | `TypeCorrect`, with `DramCounts` |
| `ReadInv` | a host with a read is in one of five phases (idle, asked, syncing, fetching, replied); parts gathered and parts open add up to a packet | `BurstsComplete` |
| `ThreadInv` | a thread is past its loop when its trace is used up, and holds the kernel only before its first packet and after an answer | `SpinningEnds` |
| `CoresInv`, `SignalInv(prog)` | the counts of cores and devices; a flag is raised once, after its write was cut and before its read begins | `StopsClean` |
| `SourceInv`, `OrderInv`, `StoreInv` | each entry of `sync_queue` is a write of its host; payloads of an earlier packet are nowhere behind those of a later one; a payload of a write is stored, or on its way with the signal of its packet still due | `SignalsAreStored` |
| `AnswerInv(prog)` | parts gathered and parts still open are together those of one write that was cut, at the address of the read | `AnswersComplete` |

*Why a flag means stored, although acks are counted and not matched.*  The
flag of the first packet in `sync_queue` is raised when `PayloadNum` acks are
counted, whichever they are.  By `WritesInv` the writes still open then are
`PayloadNum` for each later packet of the queue, and by `OnceInv` they are all
different; if one of them belonged to the first packet, a payload of a later
one would not be among them, so it would have been stored and acknowledged
before a payload that `OrderInv` puts ahead of it.  So none does, and by
`StoreInv` the packet is stored.  Acks overtake each other only after the store.

*Refinement.*  `SimulatorIsMailboxes` maps a raised flag to the packet stored at
its address (`BoxOf`), a read between the clearing of the flag and its answer
to a mail taken (`HeldBy`), and the answer in the ring to the mail delivered
(`AnswerTo`).  What it needs beyond the invariants is that a store cannot touch
an address whose flag is up or whose read is open (`FullStays`): a payload of a
write is at most once on its way, and that write has its signal still due.

### 5.2 Assumptions

Named in the modules and evaluated in the runs:
`PacketBufferAssumption` and `HostAssumption` (at least two slots; programs are
sequences of packets), `TlmAssumption` (finitely many hosts, a packet of at
least one payload), `NullAssumption`, `DataAssumption` (`NULL` is no payload,
memory never written is no slice of a packet), `UspForwardAssumption` (requests
of either kind), `UspBackwardAssumption` (period, latencies and pipeline at
least 1: with a latency of 0 an ack can follow an ack within one period and an
edge need not lie between them), `ControllerAssumption`, `DramAssumption`
(types; the lower mark of the write mode at least 1), `PayloadAssumption`
(hosts and devices are different things), `SessionAssumption` (sizes small
enough that the rounding through a float is exact; a ring is not left over
full).

Two sets of theorems have a further premise, which nothing in the code
checks:

* The theorems of `CxlSimProofs` are about programs that keep to the discipline
  of the traces that come with the simulator.  `AcksComeHome` has `OwnTraffic`
  (payloads of one kind at one address come from one host), the others have
  `PacketsOnce` (and from one packet: it is written once and read once);
  `SpinningEnds` and `StopsClean` also `TracesEnd` (the terminating packet is
  the last one and the only one of its type), and `StopsClean` `WritesRead`
  (every packet written is read, without which run `trailing_write` shows that
  the claim is false).  `DisciplineKept` in `MCCxlSim` has TLC evaluate all four
  for the first four programs of `cxl_sim`; `Handover` and `Reused` are outside
  these premises.
* `Routes`, `AcksGoHome`: `OneHostPerAddress` (one host reads and one host
  writes each address).  Without it two reads of one address overwrite each
  other's entry in `r_trans_id`.

### 5.3 Only model-checked

Liveness (`RunCompletes`, `AllReach`, `AllArrive`, `QueuedIsDelivered`,
`NoneStuck`, `SendReturns`, `AllServed`) is beyond the prover.  `ReadsNewest` is
about addresses that are written again, which the premises of 5.2 exclude; it,
and the other properties of `cxl_sim` for `Handover` and `Reused`, are shown for
these programs.  `StreamSpec`, under which `controller` runs, has all steps of
the `Spec` the theorems are about, and `Reissue`.  All other properties of the
passing runs, safety and refinement, are theorems.

## 6 Findings

Each is a run that ends in a violation.

1. **Parts of a read answer are in the order of completion** (`read_order`).
   `sim_wrapper.cpp:147` copies each part to the place given by the number of
   the ack; the DRAM completes out of order.
2. **A trace that ends with a write may be cut off** (`trailing_write`): the
   simulation ends while the write is still in the ports.
3. **A signal between a test and the clearing of its flag is lost**
   (`lost_signal`).  `handle_wait_packet` (`sim_wrapper.cpp:212`) tests the flag
   of an address, waits a period and clears it.  When a host writes a packet
   twice and then reads it twice, the second write's signal may come in between,
   or before the first read's test, and the second read waits for ever although
   the WACK it waits for ("Wait for the corresponding WACK",
   `sim_wrapper.cpp:222`) has come.
4. **Packets that are no multiple of four writes can stall** (`usp_stall`): the
   last write of a packet stays in `pending_queue`.

Whether a full active buffer ever loses a command of the shipped DRAM is not
settled: `ImplementsStore` and `KeptUnlessCrowded` say that this is the one way to
lose one, and that it takes 33 rows opened and not yet used.  How many can be is
a matter of the DRAM's timing and of the order in which the scheduler prefers
requests, which are Ramulator's.

Four more observations have no run of their own; the hazards list has them.
A flag may be raised by the acks of another packet of the same wrapper, since
acks are counted and not matched (harmless for the data, which is stored before
any ack of it).  Two hosts with reads of one packet open confuse the
controller's tables (the premise `OneHostPerAddress` above).  Packets that
overlap without having the same start are not synchronised.  A read answered
from the DRAM controller's write buffer ("The request will depart at the next
cycle", `generic_dram_controller.cpp:60`) is put behind the reads that wait for
their data, only the first of which is looked at (`serve_completed_reads`), and
may depart later.

## 7 What is not modelled

* **Vendored code.**  SystemC, TLM, spdlog and jsoncpp under `src/libs/` are 97
  of every 100 lines under `src/`.  What the program uses of SystemC (processes,
  waits, events, the payload event queue) is modelled by how it is used; the
  rest is not part of this program.  That is why the mapped lines are a small
  share of all lines although most of the program's own code, about 3,000
  lines, is mapped.
* **Several memory devices at the end of the simulation.**  `active_dram` is one
  flag for all devices (`Top.h:76`): the first DRAM thread to end clears it.
  `CxlSim` has one device, as shipped; `PayloadLife` has several, but no end.
* **Address keys without the device** (`controller.cpp:153`, `sync_object.h`):
  two devices have the same addresses.  `Controller` and `CxlSim` have one.
* **Addresses beyond the array of SyncObject** (`sync_object.h:33`), sizes for
  which the float of the rounding is not exact, and reads or writes of the
  rounded size past the end of the caller's array.
* **Failed builds**, which end the simulator; parsing of traces; the names of
  shared-memory segments.  `trcSignal` and `trcWait` have no callers.
* `update_trans_delay`, the latency tables, cycle and flit counters, and all
  statistics: nothing but printed numbers depends on them.  The two flit
  counters that choose a latency are abstracted: `UspForward` is untimed, and
  `UspBackward` keeps its counters modulo the pipeline.
* **Ramulator** (scheduler, DRAM timing, refresh manager, plugins) is not in the
  repository.  `DramController` leaves its choices open.
* **Configurations, Statistics**: parameters are read once at the start and are
  the CONSTANTS of the modules; statistics are counters that are printed.
* Payload identity outside `PayloadLife`: a payload is a record there, and two
  payloads with the same fields are the same.  No program of the runs has two
  of them open at once.
* Memory models weaker than x86's store order, in `PacketBuffer`.

## 8 What is left

1. The end of the simulation with several devices, and routing by address with
   several devices, in the whole-system model.
2. `CxlSimProofs` for traces that write a packet again after it was read, as
   `Handover` and `Reused` have them: the payloads of one address then follow each other,
   and uniqueness holds between the payloads open at one time only.

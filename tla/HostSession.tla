---------------------------- MODULE HostSession ----------------------------
(***************************************************************************)
(* From the start of the simulator to the last packet of the host          *)
(* processes.  Each wrapper's periodic_process starts its host:            *)
(* run_host_proc prepares a pair of rings, forks a process that builds and *)
(* runs host_exe, and waits for the first packet, which it throws away.    *)
(* The host process prepares the same rings again, sends that packet, and  *)
(* then cuts the entries of its trace into packets.                        *)
(*                                                                         *)
(* Until its wait is over, and until the first packet of the trace is      *)
(* there, periodic_process does not give the kernel back: the other        *)
(* wrappers do not run.  What the simulator does with packets is the       *)
(* matter of module CxlSim: here it takes them, and answers reads.         *)
(***************************************************************************)
EXTENDS Integers, Sequences, FiniteSets
Seqs == INSTANCE SequencesExt

CONSTANTS Hosts,
          Traces,        \* the trace files of all hosts: entries
                         \* [api, address, size]
          Leftover,      \* what earlier runs may have left in a ring
          BufferSize,    \* PKT_BUFFER_SIZE
          PacketSize,    \* packet_size
          AddressSpan    \* 2^32, the values of a uint32_t

(* A float tells sizes apart up to 2^24; in a larger one, bytes are lost   *)
(* to rounding before the packets are counted.                             *)
CONSTANT FloatExact

Entry == [api : {"R", "W", "T"}, address : 0 .. AddressSpan - 1,
          size : 0 .. FloatExact]

(* A ring of BufferSize places has one that stays free. *)
ASSUME SessionAssumption ==
  /\ BufferSize \in Nat \ {0, 1}
  /\ PacketSize \in Nat \ {0}
  /\ AddressSpan \in Nat \ {0}
  /\ FloatExact \in Nat /\ FloatExact < AddressSpan \div 2
  /\ Traces \subseteq [Hosts -> Seq(Entry)]
  /\ \A q \in Leftover : Len(q) < BufferSize

VARIABLES
  sim,          \* where the periodic_process of each wrapper is
  proc,         \* where the forked process of each host is
  exe,          \* host_exe is there: all hosts share the directory
  toSim, toHost,
  trace,        \* entries left, the first one is being sent
  left, j,      \* i and j of the loops of trcWrite and trcRead
  awaiting,     \* the read the host is blocked on
  open          \* the read the simulator has not answered

rings   == <<toSim, toHost>>
cursor  == <<trace, left, j>>
vars    == <<sim, proc, exe, rings, cursor, awaiting, open>>

-----------------------------------------------------------------------------
(* Traces                                                                  *)

(* mutant: floor *)
RoundedDown(size) == (size \div PacketSize) * PacketSize

(* "ceil(float(size)/packet_size) * packet_size" *)
Rounded(size) == ((size + PacketSize - 1) \div PacketSize) * PacketSize

(* makePacket, for the j-th packet of an entry; its data is the j-th piece *)
(* of the caller's array.                                                  *)
Piece(e, n) ==
  LET a == (e.address + n * PacketSize) % AddressSpan
  IN CASE e.api = "R" -> [type |-> "R", addr |-> a]
       [] e.api = "W" -> [type |-> "W", addr |-> a, tag |-> n]
       [] OTHER -> [type |-> "T"]

(* The cursor at the start of a trace. *)
LeftOf(t) == IF t = <<>> THEN 0 ELSE Rounded(Head(t).size)

(* memset, with type packet_write: no different from a write of zeros.     *)
Hello == [type |-> "W", addr |-> 0, tag |-> 0]

-----------------------------------------------------------------------------
Init ==
  /\ sim = [h \in Hosts |-> "init"]
  /\ proc = [h \in Hosts |-> "none"]
  /\ exe \in BOOLEAN
  /\ toSim \in [Hosts -> Leftover]
  /\ toHost \in [Hosts -> Leftover]
  /\ trace \in Traces
  /\ left = [h \in Hosts |-> LeftOf(trace[h])]
  /\ j = [h \in Hosts |-> 0]
  /\ awaiting = [h \in Hosts |-> {}]
  /\ open = [h \in Hosts |-> {}]

(* The other wrappers have all given the kernel back. *)
Scheduled(h) == \A g \in Hosts \ {h} : sim[g] \notin {"waiting", "polling"}

(* mutant: the rings are not cleared *)
RunHostProcUncleared(h) ==
  /\ sim[h] = "init" /\ Scheduled(h)
  /\ sim' = [sim EXCEPT ![h] = "waiting"]
  /\ proc' = [proc EXCEPT ![h] = "clean"]
  /\ UNCHANGED <<exe, rings, cursor, awaiting, open>>

(* run_host_proc: prepare_connection, fork. *)
RunHostProc(h) ==
  /\ sim[h] = "init" /\ Scheduled(h)
  /\ toSim' = [toSim EXCEPT ![h] = <<>>]
  /\ toHost' = [toHost EXCEPT ![h] = <<>>]
  /\ sim' = [sim EXCEPT ![h] = "waiting"]
  /\ proc' = [proc EXCEPT ![h] = "clean"]
  /\ UNCHANGED <<exe, cursor, awaiting, open>>

WaitConnection(h) ==
  /\ sim[h] = "waiting" /\ toSim[h] # <<>>
  /\ toSim' = [toSim EXCEPT ![h] = Tail(@)]
  /\ sim' = [sim EXCEPT ![h] = "polling"]
  /\ UNCHANGED <<proc, exe, toHost, cursor, awaiting, open>>

(* recv_packet, and handle_packet as far as the host sees it. *)
Receive(h) ==
  LET p == Head(toSim[h])
  IN /\ sim[h] \in {"polling", "running", "req_done"} /\ Scheduled(h)
     /\ open[h] = {} /\ toSim[h] # <<>>
     /\ toSim' = [toSim EXCEPT ![h] = Tail(@)]
     /\ sim' = [sim EXCEPT ![h] = IF p.type = "T" THEN "terminated"
                                                  ELSE "running"]
     /\ open' = [open EXCEPT ![h] = {q \in {p} : q.type = "R"}]
     /\ UNCHANGED <<proc, exe, toHost, cursor, awaiting>>

(* response_request, by clock_negedge; it sets req_done.                   *)
Answer(h) ==
  /\ open[h] # {} /\ Scheduled(h)
  /\ Len(toHost[h]) < BufferSize - 1
  /\ \E p \in open[h] : toHost' = [toHost EXCEPT ![h] = Append(@, <<p.addr>>)]
  /\ open' = [open EXCEPT ![h] = {}]
  /\ sim' = [sim EXCEPT ![h] = "req_done"]
  /\ UNCHANGED <<proc, exe, toSim, cursor, awaiting>>

(* "if (!req_done) wait(...)": it polls for the next packet without a wait.*)
Spin(h) ==
  /\ sim[h] = "req_done" /\ Scheduled(h)
  /\ sim' = [sim EXCEPT ![h] = "polling"]
  /\ UNCHANGED <<proc, exe, rings, cursor, awaiting, open>>

-----------------------------------------------------------------------------
(* The forked process: "make clean && make && host_exe"                    *)

MakeClean(h) ==
  /\ proc[h] = "clean"
  /\ exe' = FALSE
  /\ proc' = [proc EXCEPT ![h] = "make"]
  /\ UNCHANGED <<sim, rings, cursor, awaiting, open>>

Make(h) ==
  /\ proc[h] = "make"
  /\ exe' = TRUE
  /\ proc' = [proc EXCEPT ![h] = "exec"]
  /\ UNCHANGED <<sim, rings, cursor, awaiting, open>>

(* It fails when host_exe has been removed again. *)
Exec(h) ==
  /\ proc[h] = "exec"
  /\ proc' = [proc EXCEPT ![h] = IF exe THEN "prepare" ELSE "failed"]
  /\ UNCHANGED <<sim, exe, rings, cursor, awaiting, open>>

(* packetManager::prepare_connection, up to pb_init. *)
PrepareConnection(h) ==
  /\ proc[h] = "prepare"
  /\ toSim' = [toSim EXCEPT ![h] = <<>>]
  /\ toHost' = [toHost EXCEPT ![h] = <<>>]
  /\ proc' = [proc EXCEPT ![h] = "hello"]
  /\ UNCHANGED <<sim, exe, cursor, awaiting, open>>

(* sendPacket waits while the ring is full. *)
Sent(h, p) ==
  /\ Len(toSim[h]) < BufferSize - 1
  /\ toSim' = [toSim EXCEPT ![h] = Append(@, p)]

(* mutant: no packet but the trace *)
SendHelloNot(h) ==
  /\ proc[h] = "hello"
  /\ proc' = [proc EXCEPT ![h] = "host"]
  /\ UNCHANGED <<sim, exe, rings, cursor, awaiting, open>>

SendHello(h) ==
  /\ proc[h] = "hello"
  /\ Sent(h, Hello)
  /\ proc' = [proc EXCEPT ![h] = "host"]
  /\ UNCHANGED <<sim, exe, toHost, cursor, awaiting, open>>

(* host(): the entry the loop is at. *)
At(h, api) == proc[h] = "host" /\ trace[h] # <<>> /\ Head(trace[h]).api = api

(* "i -= packet_size; j++" *)
Advance(h) ==
  /\ left' = [left EXCEPT ![h] = @ - PacketSize]
  /\ j' = [j EXCEPT ![h] = @ + 1]
  /\ UNCHANGED trace

TrcWrite(h) ==
  /\ At(h, "W") /\ left[h] > 0
  /\ Sent(h, Piece(Head(trace[h]), j[h]))
  /\ Advance(h)
  /\ UNCHANGED <<sim, proc, exe, toHost, awaiting, open>>

(* mutant: it does not wait for the answer *)
TrcReadAhead(h) ==
  /\ At(h, "R") /\ left[h] > 0
  /\ Sent(h, Piece(Head(trace[h]), j[h]))
  /\ Advance(h)
  /\ UNCHANGED <<sim, proc, exe, toHost, awaiting, open>>

TrcRead(h) ==
  LET p == Piece(Head(trace[h]), j[h])
  IN /\ At(h, "R") /\ left[h] > 0 /\ awaiting[h] = {}
     /\ Sent(h, p)
     /\ awaiting' = [awaiting EXCEPT ![h] = {p}]
     /\ UNCHANGED <<sim, proc, exe, toHost, cursor, open>>

(* readPacketData waits while the ring is empty. *)
ReadPacketData(h) ==
  /\ awaiting[h] # {} /\ toHost[h] # <<>>
  /\ toHost' = [toHost EXCEPT ![h] = Tail(@)]
  /\ awaiting' = [awaiting EXCEPT ![h] = {}]
  /\ Advance(h)
  /\ UNCHANGED <<sim, proc, exe, toSim, open>>

NextEntry(h) ==
  /\ trace' = [trace EXCEPT ![h] = Tail(@)]
  /\ left' = [left EXCEPT ![h] = LeftOf(Tail(trace[h]))]
  /\ j' = [j EXCEPT ![h] = 0]

(* The loop of trcWrite or trcRead ends. *)
EntryDone(h) ==
  /\ At(h, "W") \/ At(h, "R")
  /\ left[h] <= 0
  /\ NextEntry(h)
  /\ UNCHANGED <<sim, proc, exe, rings, awaiting, open>>

TrcTerminate(h) ==
  /\ At(h, "T")
  /\ Sent(h, Piece(Head(trace[h]), 0))
  /\ NextEntry(h)
  /\ UNCHANGED <<sim, proc, exe, toHost, awaiting, open>>

-----------------------------------------------------------------------------
KernelStep ==
  \E h \in Hosts : \/ RunHostProc(h)
                   \/ WaitConnection(h)
                   \/ Receive(h)
                   \/ Answer(h)
                   \/ Spin(h)

ProcessStep(h) ==
  \/ MakeClean(h) \/ Make(h) \/ Exec(h)
  \/ PrepareConnection(h) \/ SendHello(h)
  \/ TrcWrite(h) \/ TrcRead(h) \/ ReadPacketData(h)
  \/ EntryDone(h) \/ TrcTerminate(h)

(* All have said that they are done: the only state to rest in. *)
Finished ==
  /\ \A h \in Hosts : sim[h] = "terminated" /\ trace[h] = <<>>
  /\ UNCHANGED vars

Next == \/ KernelStep
        \/ \E h \in Hosts : ProcessStep(h)
        \/ Finished

(* The simulator and each host process are processes of the operating      *)
(* system, and host_exe builds unless another build interferes.            *)
Spec == /\ Init /\ [][Next]_vars
        /\ WF_vars(KernelStep)
        /\ \A h \in Hosts : WF_vars(ProcessStep(h))

-----------------------------------------------------------------------------
TypeOK ==
  /\ sim \in [Hosts -> {"init", "waiting", "polling", "running", "req_done",
                        "terminated"}]
  /\ proc \in [Hosts -> {"none", "clean", "make", "exec", "failed",
                         "prepare", "hello", "host"}]
  /\ exe \in BOOLEAN
  /\ \A h \in Hosts : /\ Len(toSim[h]) < BufferSize
                      /\ Len(toHost[h]) < BufferSize
                      /\ Cardinality(awaiting[h]) <= 1
                      /\ open[h] \subseteq awaiting[h]
                      /\ left[h] \in 1 - PacketSize .. FloatExact + PacketSize
                      /\ j[h] \in 0 .. FloatExact

(* Hosts share a build directory, and "make clean" of one would remove     *)
(* what another has just built: waiting for the connection keeps the       *)
(* builds apart, so that every host process comes up (host.cpp).           *)
EveryHostStarts == \A h \in Hosts : proc[h] # "failed"

(* The packets of an entry: as many as it takes to cover its bytes. *)
Needed(size) ==
  CHOOSE k \in 0 .. size : /\ k * PacketSize >= size
                           /\ \A m \in 0 .. k - 1 : m * PacketSize < size

PacketsOf(e) ==
  [n \in 1 .. IF e.api = "T" THEN 1 ELSE Needed(e.size) |-> Piece(e, n - 1)]

Packets(t) == Seqs!FlattenSeq([k \in DOMAIN t |-> PacketsOf(t[k])])

(* Of the first entry, the packets that were sent are gone. *)
Unsent(h) ==
  LET all == Packets(trace[h])
  IN SubSeq(all, j[h] + Cardinality(awaiting[h]) + 1, Len(all))

(* The ring, without what is in it before the trace. *)
Requests(h) ==
  CASE proc[h] # "host"                         -> <<>>
    [] proc[h] = "host" /\ sim[h] = "waiting"  -> Tail(toSim[h])
    [] OTHER                                    -> toSim[h]

Responses(h) == IF proc[h] # "host" THEN <<>> ELSE toHost[h]

HP == INSTANCE HostProcess WITH
  Programs <- {[h \in Hosts |-> Packets(t[h])] : t \in Traces},
  trace <- [h \in Hosts |-> Unsent(h)],
  toSim <- [h \in Hosts |-> Requests(h)],
  toHost <- [h \in Hosts |-> Responses(h)],
  PktAddrs <- 0 .. AddressSpan - 1, Tags <- 0 .. FloatExact,
  PayloadNum <- 1, NoPayload <- {}, NoData <- {}, NoHost <- {}

HostProcessStep(h) ==
  \/ HP!Send(h)
  \/ HP!GetResponse(h)
  \/ HP!GiveRequest(h)
  \/ \E p \in open[h] : HP!TakeResponses(h, <<<<p.addr>>>>)

(* Between the throw-away packet, rings that are cleared twice and loops   *)
(* that count bytes down, the simulator gets exactly the packets that      *)
(* cover the trace, in order and from the first, and a host has one read   *)
(* open: the host processes of module CxlSim.                              *)
ImplementsHostProcess ==
  HP!Init /\ [][\E h \in Hosts : HostProcessStep(h)]_(HP!own)

(* Every host is started, and heard to its end: no wrapper keeps the       *)
(* kernel for ever, waiting for a process that is not there.               *)
AllServed == \A h \in Hosts : <>(sim[h] = "terminated")
=============================================================================
